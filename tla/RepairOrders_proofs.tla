------------------------ MODULE RepairOrders_proofs --------------------------
(***************************************************************************)
(* Proofs about repair orders: OrderFolios, for any number of companies,   *)
(* requests and attempts, and OrderLifecycle, for any number of orders,    *)
(* clients, images and status changes.                                     *)
(***************************************************************************)
EXTENDS OrderFolios, OrderLifecycle, TLAPS

(***************************************************************************)
(* OrderFolios.                                                            *)
(***************************************************************************)

(* The invariant is inductive only with what a request in the middle of    *)
(* its transaction knows:                                                  *)
(*  - a number that was read and incremented is at most one past the last  *)
(*    committed one, and the holder of a key holds exactly the next one;   *)
(*  - therefore at most one transaction of a company holds a key, and the  *)
(*    commits of a company are serialised although nothing locks it;       *)
(*  - every failed attempt witnessed at least one commit since baseline.   *)
ReadsAreFresh ==
  \A r \in Requests :
    /\ pc[r] \in {"insertOrder"} \cup InOpenInsert =>
         folio[r] \in 1..(Len(committed[CompanyOf[r]]) + 1)
    /\ pc[r] \in InOpenInsert =>
         folio[r] = Len(committed[CompanyOf[r]]) + 1

OneHolder ==
  \A q, r \in Requests :
    /\ pc[q] \in InOpenInsert
    /\ pc[r] \in InOpenInsert
    /\ CompanyOf[q] = CompanyOf[r]
    => q = r

AttemptsWitnessCommits ==
  \A r \in Requests :
    /\ pc[r] = "aggregate" =>
         Len(committed[CompanyOf[r]]) >= baseline[r] + attempt[r] - 1
    /\ pc[r] = "insertOrder" => folio[r] >= baseline[r] + attempt[r]
    /\ pc[r] \in InTransaction => attempt[r] >= 1

FolioInv ==
  /\ FolioTypes
  /\ FoliosAreDense
  /\ ReadsAreFresh
  /\ OneHolder
  /\ AttemptsWitnessCommits
  /\ GivesUpOnlyUnderContention

(* What the aggregate returns when the committed numbers are dense.        *)
LEMMA LatestIsCount ==
  ASSUME FolioTypes, FoliosAreDense, NEW c \in Companies
  PROVE  /\ FolioNumbers(c) = 1..Len(committed[c])
         /\ LatestFolio(c) = Len(committed[c])
<1> DEFINE n == Len(committed[c])
<1>0. n \in Nat
  BY DEF FolioTypes
<1>1. FolioNumbers(c) = 1..n
  <2>1. FolioNumbers(c) = {committed[c][i].folioNumber : i \in 1..n}
    BY DEF FolioNumbers, Rows
  <2>2. \A i \in 1..n : committed[c][i].folioNumber = i
    BY DEF FoliosAreDense
  <2> QED
    BY <2>1, <2>2
<1>2. CASE n = 0
  BY <1>1, <1>2 DEF LatestFolio
<1>3. CASE n > 0
  <2> HIDE DEF n
  <2>1. n \in 1..n /\ \A y \in 1..n : n >= y
    BY <1>0, <1>3
  <2>2. \A x \in 1..n : (\A y \in 1..n : x >= y) => x = n
    BY <1>0, <1>3
  <2>3. Max(1..n) = n
    BY <2>1, <2>2 DEF Max
  <2> QED
    BY <1>1, <1>3, <2>1, <2>3 DEF LatestFolio, n
<1> QED
  BY <1>0, <1>1, <1>2, <1>3

LEMMA FolioInitInv == FolioInit => FolioInv
<1> SUFFICES ASSUME FolioInit PROVE FolioInv
  OBVIOUS
<1> USE CompanyOfAssumption, MaxAttemptsAssumption
<1>1. FolioTypes
  BY DEF FolioInit, FolioTypes
<1>2. FoliosAreDense
  BY DEF FolioInit, FoliosAreDense
<1>3. ReadsAreFresh /\ OneHolder /\ AttemptsWitnessCommits /\ GivesUpOnlyUnderContention
  BY DEF FolioInit, ReadsAreFresh, OneHolder, AttemptsWitnessCommits,
         GivesUpOnlyUnderContention, InOpenInsert, InTransaction
<1> QED
  BY <1>1, <1>2, <1>3 DEF FolioInv

(* Every step preserves the invariant.                                     *)
LEMMA FolioStepInv == FolioInv /\ [FolioNext]_folioVars => FolioInv'
<1> SUFFICES ASSUME FolioInv, [FolioNext]_folioVars PROVE FolioInv'
  OBVIOUS
<1> USE CompanyOfAssumption, MaxAttemptsAssumption
<1>0. /\ FolioTypes /\ FoliosAreDense /\ ReadsAreFresh /\ OneHolder
      /\ AttemptsWitnessCommits /\ GivesUpOnlyUnderContention
  BY DEF FolioInv
<1> DEFINE L(r) == Len(committed[CompanyOf[r]])
<1>L. \A c \in Companies : Len(committed[c]) \in Nat
  BY <1>0 DEF FolioTypes
<1> USE DEF InOpenInsert, InTransaction, Ended
<1>1. CASE UNCHANGED folioVars
  BY <1>0, <1>1 DEF folioVars, FolioInv, FolioTypes, FoliosAreDense, ReadsAreFresh, OneHolder,
                    AttemptsWitnessCommits, GivesUpOnlyUnderContention
<1>2. ASSUME NEW r \in Requests, Begin(r) PROVE FolioInv'
  <2> USE <1>0, <1>2 DEF Begin, Goto
  <2>1. FolioTypes'
    BY <1>L DEF FolioTypes
  <2>2. FoliosAreDense'
    BY DEF FoliosAreDense
  <2>3. ReadsAreFresh' /\ OneHolder'
    BY DEF FolioTypes, ReadsAreFresh, OneHolder
  <2>4. AttemptsWitnessCommits' /\ GivesUpOnlyUnderContention'
    BY <1>L DEF FolioTypes, AttemptsWitnessCommits, GivesUpOnlyUnderContention
  <2> QED
    BY <2>1, <2>2, <2>3, <2>4 DEF FolioInv
<1>3. ASSUME NEW r \in Requests, ReadLatest(r) PROVE FolioInv'
  <2> USE <1>0, <1>3 DEF ReadLatest, Goto
  <2>0. LatestFolio(CompanyOf[r]) = L(r)
    BY LatestIsCount
  <2>1. FolioTypes'
    BY <1>L, <2>0 DEF FolioTypes
  <2>2. FoliosAreDense'
    BY DEF FoliosAreDense
  <2>3. ReadsAreFresh' /\ OneHolder'
    BY <1>L, <2>0 DEF FolioTypes, ReadsAreFresh, OneHolder
  <2>4. AttemptsWitnessCommits' /\ GivesUpOnlyUnderContention'
    BY <1>L, <2>0 DEF FolioTypes, AttemptsWitnessCommits, GivesUpOnlyUnderContention
  <2> QED
    BY <2>1, <2>2, <2>3, <2>4 DEF FolioInv
<1>4. ASSUME NEW r \in Requests, InsertOrder(r) PROVE FolioInv'
  <2> USE <1>0, <1>4 DEF InsertOrder, Goto
  <2>1. FolioTypes'
    BY DEF FolioTypes
  <2>2. FoliosAreDense'
    BY DEF FoliosAreDense
  <2>3. folio[r] = L(r) + 1
    <3>1. folio[r] \in 1..(L(r) + 1) /\ folio[r] \notin 1..L(r)
      BY LatestIsCount DEF ReadsAreFresh
    <3> QED
      BY <1>L, <3>1
  <2>4. ReadsAreFresh'
    BY <1>L, <2>3 DEF FolioTypes, ReadsAreFresh
  <2>5. OneHolder'
    BY <2>3 DEF FolioTypes, ReadsAreFresh, OneHolder, HoldsKey
  <2>6. AttemptsWitnessCommits' /\ GivesUpOnlyUnderContention'
    BY DEF FolioTypes, AttemptsWitnessCommits, GivesUpOnlyUnderContention
  <2> QED
    BY <2>1, <2>2, <2>4, <2>5, <2>6 DEF FolioInv
<1>5. ASSUME NEW r \in Requests, InsertDuplicate(r) PROVE FolioInv'
  <2> USE <1>0
  <2>0. /\ pc[r] = "insertOrder"
        /\ folio[r] \in FolioNumbers(CompanyOf[r])
        /\ UNCHANGED <<committed, folio, baseline>>
    BY <1>5 DEF InsertDuplicate
  <2>1. FoliosAreDense'
    BY <2>0 DEF FoliosAreDense
  <2>2. L(r) >= baseline[r] + attempt[r] /\ L(r) \in Nat
    <3>1. folio[r] \in 1..L(r)
      BY <2>0, LatestIsCount
    <3> QED
      BY <1>L, <2>0, <3>1 DEF FolioTypes, AttemptsWitnessCommits
  <2>3. CASE /\ attempt[r] < MaxAttempts
             /\ attempt' = [attempt EXCEPT ![r] = attempt[r] + 1]
             /\ pc' = [pc EXCEPT ![r] = "aggregate"]
    <3>1. FolioTypes'
      <4>1. attempt[r] + 1 \in 0..MaxAttempts
        BY <2>3 DEF FolioTypes
      <4> QED
        BY <2>0, <2>3, <4>1 DEF FolioTypes
    <3>2. ReadsAreFresh' /\ OneHolder'
      BY <2>0, <2>3 DEF FolioTypes, ReadsAreFresh, OneHolder
    <3>3. AttemptsWitnessCommits' /\ GivesUpOnlyUnderContention'
      BY <2>0, <2>2, <2>3 DEF FolioTypes, AttemptsWitnessCommits, GivesUpOnlyUnderContention
    <3> QED
      BY <2>1, <3>1, <3>2, <3>3 DEF FolioInv
  <2>4. CASE /\ attempt[r] >= MaxAttempts
             /\ pc' = [pc EXCEPT ![r] = "conflict"]
             /\ UNCHANGED attempt
    <3>1. FolioTypes'
      BY <2>0, <2>4 DEF FolioTypes
    <3>2. ReadsAreFresh' /\ OneHolder'
      BY <2>0, <2>4 DEF FolioTypes, ReadsAreFresh, OneHolder
    <3>3. AttemptsWitnessCommits' /\ GivesUpOnlyUnderContention'
      BY <2>0, <2>2, <2>4 DEF FolioTypes, AttemptsWitnessCommits, GivesUpOnlyUnderContention
    <3> QED
      BY <2>1, <3>1, <3>2, <3>3 DEF FolioInv
  <2> QED
    BY <1>5, <2>3, <2>4 DEF InsertDuplicate, Goto
<1>6. ASSUME NEW r \in Requests, InsertHistory(r) PROVE FolioInv'
  BY <1>0, <1>6 DEF InsertHistory, Goto, FolioInv, FolioTypes, FoliosAreDense, ReadsAreFresh,
       OneHolder, AttemptsWitnessCommits, GivesUpOnlyUnderContention
<1>7. ASSUME NEW r \in Requests, Commit(r) \/ LoseAnswer(r) PROVE FolioInv'
  <2> DEFINE c == CompanyOf[r]
             row == [id |-> r, folioNumber |-> folio[r], initial |-> FirstHistory]
  <2> USE <1>0
  <2>0. /\ c \in Companies
        /\ pc[r] = "commit"
        /\ committed' = [committed EXCEPT ![c] = Append(committed[c], row)]
        /\ \E label \in {"created", "error"} : pc' = [pc EXCEPT ![r] = label]
        /\ UNCHANGED <<attempt, folio, baseline>>
    BY <1>7 DEF Commit, LoseAnswer, Store, Goto
  <2>1. row \in Order
    BY DEF FolioTypes, Order
  <2>2. committed[c] \in Seq(Order) /\ committed \in [Companies -> Seq(Order)]
    BY <2>0 DEF FolioTypes
  <2>3. /\ committed'[c] = Append(committed[c], row)
        /\ Len(committed'[c]) = Len(committed[c]) + 1
        /\ committed'[c][Len(committed[c]) + 1] = row
        /\ \A i \in 1..Len(committed[c]) : committed'[c][i] = committed[c][i]
        /\ \A d \in Companies \ {c} : committed'[d] = committed[d]
    <3> HIDE DEF c, row
    <3> QED
      BY <2>0, <2>1, <2>2
  <2>4. FolioTypes'
    <3>1. committed' \in [Companies -> Seq(Order)]
      <4> HIDE DEF c, row
      <4>1. Append(committed[c], row) \in Seq(Order)
        BY <2>1, <2>2
      <4> QED
        BY <2>0, <2>2, <4>1
    <3> QED
      BY <2>0, <3>1 DEF FolioTypes
  <2>5. folio[r] = Len(committed[c]) + 1
    BY <2>0 DEF ReadsAreFresh
  <2>6. FoliosAreDense'
    <3> SUFFICES ASSUME NEW d \in Companies, NEW i \in 1..Len(committed'[d])
                 PROVE  committed'[d][i].folioNumber = i
      BY DEF FoliosAreDense
    <3>1. CASE d # c
      BY <2>3, <3>1 DEF FoliosAreDense
    <3>2. CASE d = c /\ i = Len(committed[c]) + 1
      BY <2>3, <2>5, <3>2
    <3>3. CASE d = c /\ i \in 1..Len(committed[c])
      BY <2>3, <3>3 DEF FoliosAreDense
    <3> QED
      BY <1>L, <2>3, <3>1, <3>2, <3>3
  <2>7. \A q \in Requests :
           Len(committed'[CompanyOf[q]]) \in {Len(committed[CompanyOf[q]]), Len(committed[CompanyOf[q]]) + 1}
    BY <1>L, <2>0, <2>3
  <2>8. \A q \in Requests \ {r} : pc[q] \in InOpenInsert => CompanyOf[q] # c
    BY <2>0 DEF OneHolder
  <2>9. ReadsAreFresh' /\ OneHolder'
    <3> HIDE DEF c, row
    <3>1. \A q \in Requests \ {r} : pc[q] \in InOpenInsert =>
              Len(committed'[CompanyOf[q]]) = Len(committed[CompanyOf[q]])
      BY <2>3, <2>8
    <3>2. ReadsAreFresh'
      BY <1>L, <2>0, <2>7, <3>1 DEF FolioTypes, ReadsAreFresh
    <3>3. OneHolder'
      BY <2>0 DEF FolioTypes, OneHolder
    <3> QED
      BY <3>2, <3>3
  <2>10. AttemptsWitnessCommits' /\ GivesUpOnlyUnderContention'
    <3> HIDE DEF c, row
    <3> QED
      BY <1>L, <2>0, <2>7 DEF FolioTypes, AttemptsWitnessCommits, GivesUpOnlyUnderContention
  <2> QED
    BY <2>4, <2>6, <2>9, <2>10 DEF FolioInv
<1>8. ASSUME NEW r \in Requests, Abort(r) PROVE FolioInv'
  BY <1>0, <1>8 DEF Abort, Goto, FolioInv, FolioTypes, FoliosAreDense, ReadsAreFresh,
       OneHolder, AttemptsWitnessCommits, GivesUpOnlyUnderContention
<1> QED
  BY <1>1, <1>2, <1>3, <1>4, <1>5, <1>6, <1>7, <1>8 DEF FolioNext, Proceed

(* Type correctness of the folio allocator.                                *)
THEOREM FolioTypesHold == FolioSpec => []FolioTypes
<1>1. FolioInv => FolioTypes
  BY DEF FolioInv
<1> QED
  BY FolioInitInv, FolioStepInv, <1>1, PTL DEF FolioSpec

(* For any number of tenants, concurrent creators, retries and aborted     *)
(* transactions, the committed folio numbers of a company are 1, 2, 3, ... *)
(* in commit order, although createWithFolioRetry reads the largest number *)
(* without locking anything.                                               *)
THEOREM FolioNumbersAreDense == FolioSpec => []FoliosAreDense
<1>1. FolioInv => FoliosAreDense
  BY DEF FolioInv
<1> QED
  BY FolioInitInv, FolioStepInv, <1>1, PTL DEF FolioSpec

(* A request that exhausts its attempts has seen at least MaxAttempts      *)
(* other orders of its company commit since it began.                      *)
THEOREM GivingUpMeansContention == FolioSpec => []GivesUpOnlyUnderContention
<1>1. FolioInv => GivesUpOnlyUnderContention
  BY DEF FolioInv
<1> QED
  BY FolioInitInv, FolioStepInv, <1>1, PTL DEF FolioSpec

------------------------------------------------------------------------------

(* A step adds no second order of a request: the request that commits has  *)
(* none yet, and afterwards it has ended, with or without its answer.      *)
LEMMA OneOrderStays ==
  FolioInv /\ OneOrderPerRequest /\ [FolioNext]_folioVars => OneOrderPerRequest'
<1> SUFFICES ASSUME FolioInv, OneOrderPerRequest, [FolioNext]_folioVars
             PROVE  OneOrderPerRequest'
  OBVIOUS
<1> USE CompanyOfAssumption
<1>0. /\ committed \in [Companies -> Seq(Order)]
      /\ pc \in [Requests -> {"idle"} \cup InTransaction \cup Ended]
  BY DEF FolioInv, FolioTypes
<1>1. ASSUME UNCHANGED committed,
             \A r \in Requests :
               /\ pc'[r] = "created" => pc[r] = "created"
               /\ pc[r] \in {"created", "error"} => pc'[r] \in {"created", "error"}
      PROVE  OneOrderPerRequest'
  BY <1>1 DEF OneOrderPerRequest, Rows
<1>2. ASSUME NEW r \in Requests, Commit(r) \/ LoseAnswer(r) PROVE OneOrderPerRequest'
  <2> DEFINE c == CompanyOf[r]
             row == [id |-> r, folioNumber |-> folio[r], initial |-> FirstHistory]
  <2>1. c \in Companies /\ committed[c] \in Seq(Order) /\ Len(committed[c]) \in Nat
    BY <1>0
  <2>2. /\ committed' = [committed EXCEPT ![c] = Append(committed[c], row)]
        /\ pc[r] = "commit" /\ pc'[r] \in {"created", "error"}
        /\ \A q \in Requests \ {r} : pc'[q] = pc[q]
    BY <1>0, <1>2 DEF Commit, LoseAnswer, Store, Goto
  <2>3. row.id = r
    OBVIOUS
  <2>4. \A i \in 1..Len(committed[c]) : committed[c][i].id # r
    BY <2>1, <2>2 DEF OneOrderPerRequest, Rows
  <2> HIDE DEF row
  <2>5. /\ Len(committed'[c]) = Len(committed[c]) + 1
        /\ committed'[c][Len(committed[c]) + 1] = row
        /\ \A i \in 1..Len(committed[c]) : committed'[c][i] = committed[c][i]
    BY <1>0, <2>1, <2>2
  <2>6. \A d \in Companies \ {c} : committed'[d] = committed[d]
    BY <1>0, <2>2
  <2> HIDE DEF c
  <2>7. ASSUME NEW q \in Requests, NEW d \in Companies,
               NEW i \in 1..Len(committed'[d]), NEW j \in 1..Len(committed'[d]),
               committed'[d][i].id = q, committed'[d][j].id = q
        PROVE  i = j
    <3>1. CASE d # c
      BY <2>6, <2>7, <3>1 DEF OneOrderPerRequest
    <3>2. CASE d = c /\ q = r
      BY <2>1, <2>3, <2>4, <2>5, <2>7, <3>2
    <3>3. CASE d = c /\ q # r
      <4>1. i \in 1..Len(committed[c]) /\ j \in 1..Len(committed[c])
        BY <2>1, <2>3, <2>5, <2>7, <3>3
      <4> QED
        BY <2>1, <2>5, <2>7, <3>3, <4>1 DEF OneOrderPerRequest
    <3> QED
      BY <3>1, <3>2, <3>3
  <2>8. ASSUME NEW q \in Requests
        PROVE  LET stored == \E o \in Rows(CompanyOf[q])' : o.id = q
               IN  /\ pc'[q] = "created" => stored
                   /\ stored => pc'[q] \in {"created", "error"}
    <3>1. CASE q = r
      <4>1. row \in Rows(c)'
        BY <2>1, <2>5 DEF Rows
      <4> QED
        BY <1>0, <2>2, <2>3, <3>1, <4>1 DEF c
    <3>2. CASE q # r /\ CompanyOf[q] # c
      BY <1>0, <2>2, <2>6, <3>2 DEF OneOrderPerRequest, Rows
    <3>3. CASE q # r /\ CompanyOf[q] = c
      <4>1. Rows(c)' = Rows(c) \cup {row}
        BY <2>1, <2>5 DEF Rows
      <4>2. LET stored == \E o \in Rows(c) : o.id = q
            IN  /\ pc[q] = "created" => stored
                /\ stored => pc[q] \in {"created", "error"}
        BY <3>3 DEF OneOrderPerRequest
      <4>3. Rows(CompanyOf[q])' = Rows(c)'
        BY <3>3 DEF Rows
      <4> QED
        BY <1>0, <2>2, <2>3, <3>3, <4>1, <4>2, <4>3
    <3> QED
      BY <3>1, <3>2, <3>3
  <2> QED
    BY <2>7, <2>8 DEF OneOrderPerRequest, Rows
<1>3. ASSUME NEW r \in Requests, Begin(r) \/ Abort(r) PROVE OneOrderPerRequest'
  BY <1>0, <1>1, <1>3 DEF Begin, Abort, Goto, InTransaction, InOpenInsert
<1>4. ASSUME NEW r \in Requests,
             ReadLatest(r) \/ InsertOrder(r) \/ InsertDuplicate(r) \/ InsertHistory(r)
      PROVE  OneOrderPerRequest'
  BY <1>0, <1>1, <1>4 DEF ReadLatest, InsertOrder, InsertDuplicate, InsertHistory, Goto
<1>5. CASE UNCHANGED folioVars
  BY <1>1, <1>5 DEF folioVars
<1> QED
  BY <1>2, <1>3, <1>4, <1>5 DEF FolioNext, Proceed

(* No request creates two orders, one that answers with an order has it,   *)
(* and one that is running or has given up has none.                       *)
THEOREM OneOrderEach == FolioSpec => []OneOrderPerRequest
<1>1. FolioInit => OneOrderPerRequest
  BY CompanyOfAssumption DEF FolioInit, OneOrderPerRequest, Rows
<1> QED
  BY FolioInitInv, FolioStepInv, OneOrderStays, <1>1, PTL DEF FolioSpec

(* The register that the committed orders of a company stand for.          *)
Entries(c) ==
  [i \in 1..Len(committed[c]) |->
     [id |-> committed[c][i].id, number |-> committed[c][i].folioNumber]]

RegisterNow == [c \in Companies |-> Entries(c)]

(* A commit, answered or not, is an Assign of the register, and every      *)
(* other step stutters.                                                    *)
LEMMA StepsRefineRegister ==
  FolioInv /\ OneOrderPerRequest /\ [FolioNext]_folioVars => [Register!Next]_(RegisterNow)
<1> SUFFICES ASSUME FolioInv, OneOrderPerRequest, [FolioNext]_folioVars
             PROVE  Register!Next \/ RegisterNow' = RegisterNow
  OBVIOUS
<1> USE CompanyOfAssumption
<1>1. ASSUME UNCHANGED committed PROVE RegisterNow' = RegisterNow
  BY <1>1 DEF RegisterNow, Entries
<1>2. ASSUME NEW r \in Requests, Commit(r) \/ LoseAnswer(r) PROVE Register!Next
  <2> DEFINE c == CompanyOf[r]  n == Len(committed[c])
             row == [id |-> r, folioNumber |-> folio[r], initial |-> FirstHistory]
             entry == [id |-> r, number |-> n + 1]
  <2>1. /\ c \in Companies /\ committed \in [Companies -> Seq(Order)]
        /\ committed[c] \in Seq(Order) /\ n \in Nat
    BY DEF FolioInv, FolioTypes
  <2>2. /\ committed' = [committed EXCEPT ![c] = Append(committed[c], row)]
        /\ pc[r] = "commit"
    BY <1>2 DEF Commit, LoseAnswer, Store
  <2>3. row.id = r /\ row.folioNumber = n + 1
    BY <2>2 DEF FolioInv, ReadsAreFresh, InOpenInsert
  <2>4. \A i \in 1..n : committed[c][i].id # r
    BY <2>1, <2>2 DEF OneOrderPerRequest, Rows
  <2>5. \A d \in Companies : Entries(d) = RegisterNow[d]
    BY DEF RegisterNow
  <2>6. Entries(c) \in Seq([id : Requests, number : Nat]) /\ Len(Entries(c)) = n
    <3>1. \A i \in 1..n : committed[c][i] \in Order
      BY <2>1
    <3>2. \A i \in 1..n : [id |-> committed[c][i].id, number |-> committed[c][i].folioNumber]
                            \in [id : Requests, number : Nat]
      BY <3>1 DEF Order
    <3>3. Entries(c) \in [1..n -> [id : Requests, number : Nat]]
      BY <3>2 DEF Entries
    <3>4. \A S : \A q \in [1..n -> S] : q \in Seq(S) /\ Len(q) = n
      <4> HIDE DEF n
      <4> QED
        BY <2>1
    <3> QED
      BY <3>3, <3>4
  <2>7. ~Register!Registered(r)
    <3>1. \A i \in 1..n : Entries(c)[i].id = committed[c][i].id
      BY DEF Entries
    <3> QED
      BY <2>1, <2>4, <2>5, <2>6, <3>1 DEF Register!Registered, RegisterNow, Entries
  <2>8. Entries(c)' = Append(Entries(c), entry)
    <3> HIDE DEF row
    <3>1. /\ Len(committed'[c]) = n + 1 /\ committed'[c][n + 1] = row
          /\ \A i \in 1..n : committed'[c][i] = committed[c][i]
      BY <2>1, <2>2
    <3>2. Entries(c)' = [i \in 1..(n + 1) |->
            [id |-> committed'[c][i].id, number |-> committed'[c][i].folioNumber]]
      BY <3>1 DEF Entries
    <3>3. /\ Append(Entries(c), entry)[n + 1] = entry
          /\ \A i \in 1..n : Append(Entries(c), entry)[i] = Entries(c)[i]
          /\ Append(Entries(c), entry) = [i \in 1..(n + 1) |-> Append(Entries(c), entry)[i]]
      BY <2>1, <2>6
    <3>4. \A i \in 1..(n + 1) :
            [id |-> committed'[c][i].id, number |-> committed'[c][i].folioNumber]
              = Append(Entries(c), entry)[i]
      <4>1. ASSUME NEW i \in 1..n
            PROVE  [id |-> committed'[c][i].id, number |-> committed'[c][i].folioNumber]
                     = Append(Entries(c), entry)[i]
        BY <3>1, <3>3 DEF Entries
      <4>2. [id |-> committed'[c][n + 1].id, number |-> committed'[c][n + 1].folioNumber] = entry
        BY <3>1, <2>3
      <4> QED
        BY <2>1, <3>3, <4>1, <4>2
    <3> QED
      BY <3>2, <3>3, <3>4
  <2>9. \A d \in Companies \ {c} : Entries(d)' = Entries(d)
    <3>1. \A d \in Companies \ {c} : committed'[d] = committed[d]
      BY <2>1, <2>2
    <3> QED
      BY <3>1 DEF Entries
  <2>10. RegisterNow' = [RegisterNow EXCEPT ![c] = Append(RegisterNow[c], entry)]
    <3> HIDE DEF c, entry
    <3> QED
      BY <2>1, <2>8, <2>9 DEF RegisterNow
  <2>11. Len(RegisterNow[c]) = n
    BY <2>1, <2>5, <2>6
  <2>12. Register!Assign(r)
    BY <2>7, <2>10, <2>11 DEF Register!Assign, RegisterNow, Entries
  <2> QED
    BY <2>12 DEF Register!Next
<1>3. ASSUME NEW r \in Requests,
             \/ Begin(r) \/ Abort(r) \/ ReadLatest(r) \/ InsertOrder(r)
             \/ InsertDuplicate(r) \/ InsertHistory(r)
      PROVE  RegisterNow' = RegisterNow
  BY <1>1, <1>3 DEF Begin, Abort, ReadLatest, InsertOrder, InsertDuplicate, InsertHistory
<1>4. CASE UNCHANGED folioVars
  BY <1>1, <1>4 DEF folioVars
<1> QED
  BY <1>2, <1>3, <1>4 DEF FolioNext, Proceed

(* createWithFolioRetry implements the register: for its callers an order  *)
(* is numbered and stored in one step, at most once per request.           *)
THEOREM FoliosRefineRegister == FolioSpec => RefinesRegister
<1>1. FolioInit => Register!Init
  BY DEF FolioInit, Register!Init
<1>2. FolioInv /\ OneOrderPerRequest /\ [FolioNext]_folioVars =>
        [Register!Next]_(RegisterNow)
  BY StepsRefineRegister
<1> QED
  BY FolioInitInv, FolioStepInv, OneOrderEach, <1>1, <1>2, PTL
  DEF FolioSpec, RefinesRegister, Register!Spec, RegisterNow, Entries

(* A committed folio is never changed or withdrawn, and one step commits   *)
(* one order at most.                                                      *)
THEOREM FoliosAreKept == FolioSpec => OrdersOnlyAppended
<1> DEFINE Appended ==
      \A c \in Companies :
        committed'[c] # committed[c] =>
          /\ Len(committed'[c]) = Len(committed[c]) + 1
          /\ SubSeq(committed'[c], 1, Len(committed[c])) = committed[c]
          /\ \A d \in Companies \ {c} : committed'[d] = committed[d]
<1>1. FolioTypes /\ [FolioNext]_folioVars => Appended
  <2> SUFFICES ASSUME FolioTypes, [FolioNext]_folioVars PROVE Appended
    OBVIOUS
  <2>1. ASSUME NEW r \in Requests, Commit(r) \/ LoseAnswer(r) PROVE Appended
    <3> DEFINE c == CompanyOf[r]
               row == [id |-> r, folioNumber |-> folio[r], initial |-> FirstHistory]
    <3>1. /\ c \in Companies /\ committed \in [Companies -> Seq(Order)]
          /\ committed[c] \in Seq(Order)
          /\ committed' = [committed EXCEPT ![c] = Append(committed[c], row)]
      BY <2>1, CompanyOfAssumption DEF FolioTypes, Commit, LoseAnswer, Store
    <3> HIDE DEF c, row
    <3>2. \A d \in Companies \ {c} : committed'[d] = committed[d]
      BY <3>1
    <3>3. /\ Len(committed'[c]) = Len(committed[c]) + 1
          /\ SubSeq(committed'[c], 1, Len(committed[c])) = committed[c]
      BY <3>1
    <3> QED
      BY <3>2, <3>3
  <2>2. CASE UNCHANGED committed
    BY <2>2
  <2> QED
    BY <2>1, <2>2 DEF FolioNext, Proceed, Begin, Abort, ReadLatest, InsertOrder, InsertDuplicate,
                      InsertHistory, folioVars
<1> QED
  BY <1>1, FolioTypesHold, PTL DEF FolioSpec, OrdersOnlyAppended

------------------------------------------------------------------------------

(***************************************************************************)
(* OrderLifecycle.  A handler writes what it decided on an earlier read,   *)
(* so the invariant says what is still true of that read when it is used:  *)
(* the dates only ever get set and the history only grows.                 *)
(***************************************************************************)

(* The requests a handler can hold.                                        *)
Request ==
  [pc : Labels, on : Orders \cup {Unset}, status : RepairStatus \cup {NoStatus},
   isApproved : BOOLEAN, to : RepairStatus \cup {NoStatus}, note : BOOLEAN,
   approve : {"yes", "no", Unset}, details : Details \cup {Unset},
   image : Images \cup {Unset}]

Tables ==
  /\ order \in [Orders -> OrderRow]
  /\ history \in [Orders -> Seq(HistoryRow)]
  /\ comments \in [Orders -> SUBSET Comment]
  /\ images \in [Images -> Orders \cup {Unset, Deleted}]

Types == Tables /\ req \in [Staff -> Request]

(* What a handler holds is still right, given the orders and the history.  *)
Justified(q, ord, hist) ==
  /\ q.pc # "idle" => q.on \in Orders /\ ord[q.on].status # NoStatus
  /\ q.pc \in {"removeChecked", "imageFound"} => q.image \in Images
  /\ q.pc = "statusChecked" =>
       /\ q.status \in RepairStatus
       /\ q.to \in ALLOWED_TRANSITIONS[q.status]
       /\ q.status \in Approved => ord[q.on].approvedAt
       /\ q.status \in {"COMPLETED", "DELIVERED"} => ord[q.on].completedAt
  /\ q.pc = "statusCommitted" =>
       [previous |-> q.status, new |-> q.to] \in Range(hist[q.on])
  /\ q.pc = "updateChecked" /\ q.isApproved => ord[q.on].approvedAt
  /\ q.pc = "statusShown" => q.status \in {h.new : h \in Range(hist[q.on])}

InHand == \A s \in Staff : Justified(req[s], order, history)

Records == HistoryEndsAtStatus /\ HistoryRowsAllowed /\ StampsOnRecord

Answers == EventsFollowHistory /\ TrackingViewIsConsistent

IInv == Types /\ InHand /\ Records /\ Answers

(* What no step takes back.                                                *)
Grows ==
  \A o \in Orders :
    /\ order[o].status # NoStatus => order'[o].status # NoStatus
    /\ order[o].approvedAt => order'[o].approvedAt
    /\ order[o].completedAt => order'[o].completedAt
    /\ Range(history[o]) \subseteq Range(history'[o])

------------------------------------------------------------------------------

(* The states of domain/status-transitions.ts that lead to an approved     *)
(* status without being approved lead to APPROVED, and DELIVERED is only   *)
(* reached from COMPLETED.                                                 *)
LEMMA Transitions ==
  ASSUME NEW from \in RepairStatus, NEW to \in ALLOWED_TRANSITIONS[from]
  PROVE  /\ to \in RepairStatus
         /\ to \in Approved => to = "APPROVED" \/ from \in Approved
         /\ to = "DELIVERED" => from = "COMPLETED"
<1> from \in {"PENDING", "DIAGNOSED", "WAITING_APPROVAL", "APPROVED", "IN_PROGRESS",
              "WAITING_PARTS", "COMPLETED", "DELIVERED", "CANCELLED"}
  BY DEF RepairStatus, ALLOWED_TRANSITIONS
<1> QED
  BY DEF RepairStatus, ALLOWED_TRANSITIONS, Approved

(* The null of previousStatus is not a status, PENDING is.                 *)
LEMMA NoStatusIsNone == NoStatus \notin RepairStatus /\ "PENDING" \in RepairStatus
BY DEF NoStatus, RepairStatus, ALLOWED_TRANSITIONS

(* Appending to a sequence keeps its elements and adds one.                *)
LEMMA AppendRange ==
  ASSUME NEW S, NEW q \in Seq(S), NEW e \in S
  PROVE  /\ Append(q, e) \in Seq(S)
         /\ Append(q, e) # <<>>
         /\ Last(Append(q, e)) = e
         /\ Range(q) \subseteq Range(Append(q, e))
         /\ e \in Range(Append(q, e))
<1>1. /\ Append(q, e) \in Seq(S) /\ Append(q, e) # <<>>
      /\ Len(Append(q, e)) = Len(q) + 1 /\ Len(q) \in Nat
      /\ Append(q, e)[Len(q) + 1] = e
      /\ \A i \in 1..Len(q) : Append(q, e)[i] = q[i]
  OBVIOUS
<1>2. DOMAIN q = 1..Len(q) /\ DOMAIN Append(q, e) = 1..(Len(q) + 1)
  BY <1>1
<1>3. Range(q) \subseteq Range(Append(q, e))
  BY <1>1, <1>2 DEF Range
<1>4. e \in Range(Append(q, e))
  BY <1>1, <1>2 DEF Range
<1> QED
  BY <1>1, <1>3, <1>4 DEF Last

(* The last element of a sequence is one of its elements.                  *)
LEMMA LastInRange ==
  ASSUME NEW S, NEW q \in Seq(S), q # <<>>
  PROVE  Last(q) \in Range(q)
BY DEF Last, Range

(* A client that waits for nothing holds nothing.                          *)
LEMMA IdleIsJustified ==
  /\ IdleRequest \in Request
  /\ \A ord, hist : Justified(IdleRequest, ord, hist)
BY DEF IdleRequest, Request, Labels, Justified

(* What was justified stays so while orders and histories grow.            *)
LEMMA JustifiedStays ==
  ASSUME Grows, NEW q \in Request, Justified(q, order, history)
  PROVE  Justified(q, order', history')
<1>1. CASE q.pc = "idle"
  BY <1>1 DEF Justified
<1>2. CASE q.pc # "idle"
  <2>1. q.on \in Orders
    BY <1>2 DEF Justified
  <2>2. Range(history[q.on]) \subseteq Range(history'[q.on])
    BY <2>1 DEF Grows
  <2>3. {h.new : h \in Range(history[q.on])} \subseteq {h.new : h \in Range(history'[q.on])}
    BY <2>2
  <2> QED
    BY <1>2, <2>1, <2>2, <2>3 DEF Justified, Grows
<1> QED
  BY <1>1, <1>2

(* Holds gives a request of the order it is about.                         *)
LEMMA HoldsOrder ==
  ASSUME NEW s, NEW label \in Labels, NEW o \in Orders
  PROVE  /\ Holds(s, label, o) \in Request
         /\ Holds(s, label, o).pc = label
         /\ Holds(s, label, o).on = o
BY IdleIsJustified DEF Holds, Request

ReadStep(s) ==
  \/ CheckStatus(s) \/ CheckUpdate(s) \/ CheckComment(s) \/ CheckImage(s)
  \/ CheckRemoveImage(s) \/ FindImage(s) \/ TrackStatus(s)

(* A step that only reads leaves the client with a justified request.      *)
LEMMA ReadsAreJustified ==
  ASSUME IInv, NEW s \in Staff, ReadStep(s)
  PROVE  /\ UNCHANGED tables /\ Silent
         /\ \E q \in Request : /\ req' = [req EXCEPT ![s] = q]
                               /\ Justified(q, order, history)
<1>r. ASSUME NEW op, NEW o \in Orders, Reads(s, op, o)
      PROVE  order[o].status \in RepairStatus /\ order[o].isApproved \in BOOLEAN
             /\ order[o].status # NoStatus
  BY <1>r DEF IInv, Types, Tables, Reads, OrderRow, Exists
<1>1. CASE CheckStatus(s)
  <2>1. PICK o \in Orders, to \in RepairStatus, note \in BOOLEAN :
          /\ Reads(s, "changeStatus", o)
          /\ IsTransitionAllowed(order[o].status, to)
          /\ req' = [req EXCEPT ![s] = [Holds(s, "statusChecked", o) EXCEPT
                       !.status = order[o].status, !.to = to, !.note = note]]
    BY <1>1 DEF CheckStatus
  <2>r. order[o].status \in RepairStatus
    BY <1>r, <2>1
  <2>h. /\ Holds(s, "statusChecked", o) \in Request
        /\ Holds(s, "statusChecked", o).pc = "statusChecked" /\ Holds(s, "statusChecked", o).on = o
    BY HoldsOrder DEF Labels
  <2> DEFINE q == [Holds(s, "statusChecked", o) EXCEPT
                     !.status = order[o].status, !.to = to, !.note = note]
  <2>2. /\ q \in Request /\ q.pc = "statusChecked" /\ q.on = o
        /\ q.status = order[o].status /\ q.to = to
    BY <2>h, <2>r DEF Request
  <2>3. Justified(q, order, history)
    BY <1>r, <2>1, <2>2 DEF IInv, Justified, IsTransitionAllowed, Records, StampsOnRecord
  <2> QED
    BY <1>1, <2>1, <2>2, <2>3 DEF CheckStatus
<1>2. CASE CheckUpdate(s)
  <2>1. PICK o \in Orders, approve \in {"yes", "no", Unset}, d \in Details \cup {Unset} :
          /\ Reads(s, "update", o)
          /\ req' = [req EXCEPT ![s] = [Holds(s, "updateChecked", o) EXCEPT
                       !.isApproved = order[o].isApproved, !.approve = approve, !.details = d]]
    BY <1>2 DEF CheckUpdate
  <2>r. order[o].isApproved \in BOOLEAN
    BY <1>r, <2>1
  <2>h. /\ Holds(s, "updateChecked", o) \in Request
        /\ Holds(s, "updateChecked", o).pc = "updateChecked" /\ Holds(s, "updateChecked", o).on = o
    BY HoldsOrder DEF Labels
  <2> DEFINE q == [Holds(s, "updateChecked", o) EXCEPT
                     !.isApproved = order[o].isApproved, !.approve = approve, !.details = d]
  <2>2. /\ q \in Request /\ q.pc = "updateChecked" /\ q.on = o
        /\ q.isApproved = order[o].isApproved
    BY <2>h, <2>r DEF Request
  <2>3. Justified(q, order, history)
    BY <1>r, <2>1, <2>2 DEF IInv, Justified, Records, StampsOnRecord
  <2> QED
    BY <1>2, <2>1, <2>2, <2>3 DEF CheckUpdate
<1>3. CASE CheckComment(s) \/ CheckImage(s)
  <2>1. PICK o \in Orders, label \in {"commentChecked", "imageChecked"} :
          /\ order[o].status # NoStatus
          /\ req' = [req EXCEPT ![s] = Holds(s, label, o)]
    BY <1>3, <1>r DEF CheckComment, CheckImage
  <2> DEFINE q == Holds(s, label, o)
  <2>h. q \in Request /\ q.pc = label /\ q.on = o
    BY HoldsOrder DEF Labels
  <2>2. Justified(q, order, history)
    <3> HIDE DEF q
    <3> QED
      BY <2>1, <2>h DEF Justified
  <2> QED
    BY <1>3, <2>1, <2>h, <2>2 DEF CheckComment, CheckImage
<1>4. CASE CheckRemoveImage(s)
  <2>1. PICK o \in Orders, i \in Images :
          /\ Reads(s, "removeImage", o)
          /\ req' = [req EXCEPT ![s] = [Holds(s, "removeChecked", o) EXCEPT !.image = i]]
    BY <1>4 DEF CheckRemoveImage
  <2>h. /\ Holds(s, "removeChecked", o) \in Request
        /\ Holds(s, "removeChecked", o).pc = "removeChecked" /\ Holds(s, "removeChecked", o).on = o
    BY HoldsOrder DEF Labels
  <2> DEFINE q == [Holds(s, "removeChecked", o) EXCEPT !.image = i]
  <2>2. q \in Request /\ q.pc = "removeChecked" /\ q.on = o /\ q.image = i
    BY <2>h DEF Request
  <2>3. Justified(q, order, history)
    BY <1>r, <2>1, <2>2 DEF Justified
  <2> QED
    BY <1>4, <2>1, <2>2, <2>3 DEF CheckRemoveImage
<1>5. CASE FindImage(s)
  <2> DEFINE q == [req[s] EXCEPT !.pc = "imageFound"]
  <2>1. req[s] \in Request /\ Justified(req[s], order, history) /\ req[s].pc = "removeChecked"
    BY <1>5 DEF IInv, Types, Tables, InHand, FindImage, At
  <2>2. /\ q \in Request /\ q.pc = "imageFound"
        /\ q.on = req[s].on /\ q.image = req[s].image
    BY <2>1 DEF Request, Labels
  <2>3. Justified(q, order, history)
    BY <2>1, <2>2 DEF Justified
  <2> QED
    BY <1>5, <2>2, <2>3, IdleIsJustified DEF FindImage, Finish
<1>6. CASE TrackStatus(s)
  <2>1. PICK o \in Orders :
          /\ Reads(s, "findByToken", o)
          /\ req' = [req EXCEPT ![s] = [Holds(s, "statusShown", o) EXCEPT
                       !.status = order[o].status]]
    BY <1>6 DEF TrackStatus
  <2>r. order[o].status \in RepairStatus
    BY <1>r, <2>1
  <2>h. /\ Holds(s, "statusShown", o) \in Request
        /\ Holds(s, "statusShown", o).pc = "statusShown" /\ Holds(s, "statusShown", o).on = o
    BY HoldsOrder DEF Labels
  <2> DEFINE q == [Holds(s, "statusShown", o) EXCEPT !.status = order[o].status]
  <2>2. q \in Request /\ q.pc = "statusShown" /\ q.on = o /\ q.status = order[o].status
    BY <2>h, <2>r DEF Request
  <2>3. order[o].status \in {h.new : h \in Range(history[o])}
    <3>1. history[o] # <<>> /\ Last(history[o]).new = order[o].status
      BY <1>r, <2>1 DEF IInv, Records, HistoryEndsAtStatus, Exists
    <3>2. Last(history[o]) \in Range(history[o])
      BY <3>1, LastInRange DEF IInv, Types, Tables
    <3> QED
      BY <3>1, <3>2
  <2>4. Justified(q, order, history)
    BY <1>r, <2>1, <2>2, <2>3 DEF Justified
  <2> QED
    BY <1>6, <2>1, <2>2, <2>4 DEF TrackStatus
<1> QED
  BY <1>1, <1>2, <1>3, <1>4, <1>5, <1>6 DEF ReadStep

(* The client that moved has a justified request, the others keep theirs.  *)
LEMMA RequestsStayJustified ==
  ASSUME IInv, Grows, Tables', NEW s \in Staff, NEW q \in Request,
         req' = [req EXCEPT ![s] = q], Justified(q, order', history')
  PROVE  Types' /\ InHand'
<1>1. req \in [Staff -> Request] /\ \A t \in Staff : Justified(req[t], order, history)
  BY DEF IInv, Types, InHand
<1>2. ASSUME NEW t \in Staff PROVE Justified(req'[t], order', history')
  <2>1. CASE t = s
    BY <1>1, <2>1
  <2>2. CASE t # s
    <3>1. req'[t] = req[t] /\ req[t] \in Request
      BY <1>1, <2>2
    <3> QED
      BY <1>1, <3>1, JustifiedStays
  <2> QED
    BY <2>1, <2>2
<1> QED
  BY <1>1, <1>2 DEF Types, InHand

(* changeStatus keeps the records of the order it is about, although they  *)
(* may have changed since it read them.                                    *)
LEMMA CommitStatusStep ==
  ASSUME IInv, NEW s \in Staff, CommitStatus(s)
  PROVE  /\ Tables' /\ Grows /\ Records'
         /\ \E q \in Request : /\ req' = [req EXCEPT ![s] = q]
                               /\ Justified(q, order', history')
<1> DEFINE o == req[s].on  to == req[s].to  row == [previous |-> req[s].status, new |-> to]
           q == [req[s] EXCEPT !.pc = "statusCommitted"]
<1>1. /\ req[s] \in Request /\ req[s].pc = "statusChecked"
      /\ Justified(req[s], order, history)
  BY DEF IInv, Types, InHand, CommitStatus, At
<1>2. /\ o \in Orders /\ order[o].status # NoStatus
      /\ req[s].status \in RepairStatus /\ to \in ALLOWED_TRANSITIONS[req[s].status]
      /\ req[s].status \in Approved => order[o].approvedAt
      /\ req[s].status \in {"COMPLETED", "DELIVERED"} => order[o].completedAt
  BY <1>1 DEF Justified
<1>3. /\ to \in RepairStatus
      /\ to \in Approved => to = "APPROVED" \/ order[o].approvedAt
      /\ to \in {"COMPLETED", "DELIVERED"} => to = "COMPLETED" \/ order[o].completedAt
  BY <1>2, Transitions
<1>4. row \in HistoryRow /\ row.previous # NoStatus /\ row.previous = req[s].status /\ row.new = to
  BY <1>2, <1>3, NoStatusIsNone DEF HistoryRow
<1>5. /\ order \in [Orders -> OrderRow] /\ order[o] \in OrderRow
      /\ history \in [Orders -> Seq(HistoryRow)] /\ history[o] \in Seq(HistoryRow)
      /\ comments \in [Orders -> SUBSET Comment]
  BY <1>2 DEF IInv, Types, Tables
<1>6. /\ WithStatus(order[o], to) \in OrderRow
      /\ WithStatus(order[o], to).status = to
      /\ WithStatus(order[o], to).isApproved = (order[o].isApproved \/ to = "APPROVED")
      /\ WithStatus(order[o], to).approvedAt = (order[o].approvedAt \/ to = "APPROVED")
      /\ WithStatus(order[o], to).completedAt = (order[o].completedAt \/ to = "COMPLETED")
  BY <1>3, <1>5 DEF WithStatus, OrderRow
<1>7. /\ order' = [order EXCEPT ![o] = WithStatus(order[o], to)]
      /\ history' = [history EXCEPT ![o] = Append(history[o], row)]
      /\ req' = [req EXCEPT ![s] = q]
      /\ images' = images
  BY DEF CommitStatus
<1>8. comments' \in [Orders -> SUBSET Comment]
  <2>1. [note |-> "note", internal |-> TRUE] \in Comment
    BY DEF Comment
  <2> QED
    BY <1>2, <1>5, <2>1 DEF CommitStatus
<1>9. /\ Append(history[o], row) \in Seq(HistoryRow) /\ Append(history[o], row) # <<>>
      /\ Last(Append(history[o], row)) = row
      /\ Range(history[o]) \subseteq Range(Append(history[o], row))
      /\ row \in Range(Append(history[o], row))
  <2>1. row \in HistoryRow /\ history[o] \in Seq(HistoryRow)
    BY <1>4, <1>5
  <2> HIDE DEF row, o
  <2> QED
    BY <2>1, AppendRange
<1>10. Tables'
  BY <1>2, <1>5, <1>6, <1>7, <1>8, <1>9 DEF IInv, Types, Tables
<1>11. Grows
  <2> SUFFICES ASSUME NEW p \in Orders
               PROVE  /\ order[p].status # NoStatus => order'[p].status # NoStatus
                      /\ order[p].approvedAt => order'[p].approvedAt
                      /\ order[p].completedAt => order'[p].completedAt
                      /\ Range(history[p]) \subseteq Range(history'[p])
    BY DEF Grows
  <2>1. CASE p = o
    BY <2>1, <1>3, <1>5, <1>6, <1>7, <1>9, NoStatusIsNone
  <2>2. CASE p # o
    BY <2>2, <1>5, <1>7
  <2> QED
    BY <2>1, <2>2
<1>12. HistoryEndsAtStatus'
  <2> SUFFICES ASSUME NEW p \in Orders
               PROVE  IF order'[p].status # NoStatus
                      THEN history'[p] # <<>> /\ Last(history'[p]).new = order'[p].status
                      ELSE history'[p] = <<>>
    BY DEF HistoryEndsAtStatus, Exists
  <2>1. CASE p = o
    BY <2>1, <1>3, <1>4, <1>5, <1>6, <1>7, <1>9, NoStatusIsNone
  <2>2. CASE p # o
    <3>1. order'[p] = order[p] /\ history'[p] = history[p]
      BY <2>2, <1>5, <1>7
    <3> QED
      BY <3>1 DEF IInv, Records, HistoryEndsAtStatus, Exists
  <2> QED
    BY <2>1, <2>2
<1>13. HistoryRowsAllowed'
  <2> SUFFICES ASSUME NEW p \in Orders, NEW i \in 1..Len(history'[p])
               PROVE  IF i = 1 THEN history'[p][i] = [previous |-> NoStatus, new |-> "PENDING"]
                      ELSE /\ history'[p][i].previous # NoStatus
                           /\ IsTransitionAllowed(history'[p][i].previous, history'[p][i].new)
    BY DEF HistoryRowsAllowed
  <2>0. HistoryRowsAllowed
    BY DEF IInv, Records
  <2>1. CASE p = o /\ i \in 1..Len(history[o])
    <3>1. history'[p][i] = history[o][i]
      BY <2>1, <1>4, <1>5, <1>7
    <3> QED
      BY <2>0, <2>1, <3>1, <1>2 DEF HistoryRowsAllowed
  <2>2. CASE p = o /\ i \notin 1..Len(history[o])
    <3>1. history'[p] = Append(history[o], row)
      BY <2>2, <1>2, <1>5, <1>7
    <3>2. i = Len(history[o]) + 1
      BY <2>2, <3>1, <1>4, <1>5
    <3>3. history[o] # <<>>
      BY <1>2 DEF IInv, Records, HistoryEndsAtStatus, Exists
    <3>4. i # 1
      BY <3>2, <3>3, <1>5
    <3>5. history'[p][i] = row
      BY <3>1, <3>2, <1>4, <1>5
    <3> QED
      BY <3>4, <3>5, <1>2, <1>4 DEF IsTransitionAllowed
  <2>3. CASE p # o
    <3>1. history'[p] = history[p]
      BY <2>3, <1>5, <1>7
    <3> QED
      BY <2>0, <3>1 DEF HistoryRowsAllowed
  <2> QED
    BY <2>1, <2>2, <2>3
<1>14. StampsOnRecord'
  <2> SUFFICES ASSUME NEW p \in Orders
               PROVE  /\ order'[p].status \in Approved \/ order'[p].isApproved =>
                           order'[p].approvedAt
                      /\ order'[p].status \in {"COMPLETED", "DELIVERED"} => order'[p].completedAt
    BY DEF StampsOnRecord
  <2>1. CASE p = o
    <3>1. order'[p] = WithStatus(order[o], to)
      BY <2>1, <1>2, <1>5, <1>7
    <3>2. order[o].isApproved => order[o].approvedAt
      BY <1>2 DEF IInv, Records, StampsOnRecord
    <3> QED
      BY <3>1, <3>2, <1>3, <1>6
  <2>2. CASE p # o
    <3>1. order'[p] = order[p]
      BY <2>2, <1>5, <1>7
    <3> QED
      BY <3>1 DEF IInv, Records, StampsOnRecord
  <2> QED
    BY <2>1, <2>2
<1>15. /\ q \in Request /\ q.pc = "statusCommitted" /\ q.on = o
       /\ q.status = req[s].status /\ q.to = to
  BY <1>1 DEF Request, Labels
<1>16. Justified(q, order', history')
  <2>1. order'[o].status # NoStatus
    BY <1>2, <1>11 DEF Grows
  <2>2. row \in Range(history'[o])
    BY <1>2, <1>5, <1>7, <1>9
  <2>3. [previous |-> q.status, new |-> q.to] = row
    BY <1>15
  <2> HIDE DEF q, row
  <2> QED
    BY <1>2, <1>15, <2>1, <2>2, <2>3 DEF Justified
<1> QED
  BY <1>7, <1>10, <1>11, <1>12, <1>13, <1>14, <1>15, <1>16 DEF Records

(* update keeps the records: it only touches the approval, and the date of *)
(* an approval it found is still there.                                    *)
LEMMA CommitUpdateStep ==
  ASSUME IInv, NEW s \in Staff, CommitUpdate(s)
  PROVE  /\ Tables' /\ Grows /\ Records'
         /\ req' = [req EXCEPT ![s] = IdleRequest]
<1> DEFINE o == req[s].on  approve == req[s].approve
           row == [order[o] EXCEPT
                     !.details = IF req[s].details = Unset THEN @ ELSE req[s].details,
                     !.isApproved = IF approve = Unset THEN @ ELSE approve = "yes",
                     !.approvedAt = @ \/ (approve = "yes" /\ ~req[s].isApproved)]
<1>1. /\ req[s] \in Request /\ req[s].pc = "updateChecked"
      /\ Justified(req[s], order, history)
  BY DEF IInv, Types, InHand, CommitUpdate, At
<1>2. /\ o \in Orders
      /\ req[s].isApproved => order[o].approvedAt
      /\ req[s].details \in Details \cup {Unset} /\ req[s].isApproved \in BOOLEAN
  BY <1>1 DEF Justified, Request
<1>3. /\ order \in [Orders -> OrderRow] /\ order[o] \in OrderRow
  BY <1>2 DEF IInv, Types, Tables
<1>4. /\ row \in OrderRow
      /\ row.status = order[o].status /\ row.completedAt = order[o].completedAt
      /\ row.isApproved = (IF approve = Unset THEN order[o].isApproved ELSE approve = "yes")
      /\ row.approvedAt = (order[o].approvedAt \/ (approve = "yes" /\ ~req[s].isApproved))
  BY <1>2, <1>3 DEF OrderRow
<1>5. /\ order' = [order EXCEPT ![o] = row]
      /\ UNCHANGED <<history, comments, images>>
      /\ req' = [req EXCEPT ![s] = IdleRequest]
  BY <1>2, <1>3 DEF CommitUpdate, Finish
<1> HIDE DEF row
<1>6. \A p \in Orders : order'[p] = IF p = o THEN row ELSE order[p]
  BY <1>3, <1>5
<1>7. Tables'
  BY <1>3, <1>4, <1>5 DEF IInv, Types, Tables
<1>8. Grows
  BY <1>4, <1>5, <1>6 DEF Grows
<1>9. HistoryEndsAtStatus'
  <2>1. \A p \in Orders : order'[p].status = order[p].status
    BY <1>4, <1>6
  <2> QED
    BY <2>1, <1>5 DEF IInv, Records, HistoryEndsAtStatus, Exists
<1>10. HistoryRowsAllowed'
  BY <1>5 DEF IInv, Records, HistoryRowsAllowed
<1>11. StampsOnRecord'
  <2> SUFFICES ASSUME NEW p \in Orders
               PROVE  /\ order'[p].status \in Approved \/ order'[p].isApproved =>
                           order'[p].approvedAt
                      /\ order'[p].status \in {"COMPLETED", "DELIVERED"} => order'[p].completedAt
    BY DEF StampsOnRecord
  <2>1. /\ order[p].status \in Approved \/ order[p].isApproved => order[p].approvedAt
        /\ order[p].status \in {"COMPLETED", "DELIVERED"} => order[p].completedAt
    BY DEF IInv, Records, StampsOnRecord
  <2>2. CASE p = o
    BY <2>1, <2>2, <1>2, <1>4, <1>6
  <2>3. CASE p # o
    BY <2>1, <2>3, <1>6
  <2> QED
    BY <2>2, <2>3
<1> QED
  BY <1>5, <1>7, <1>8, <1>9, <1>10, <1>11 DEF Records

(* A new order starts with its first history row.                          *)
LEMMA CreateStep ==
  ASSUME IInv, NEW o \in Orders, Create(o)
  PROVE  Tables' /\ Grows /\ Records' /\ req' = req
<1> DEFINE first == [previous |-> NoStatus, new |-> "PENDING"]
           row == [order[o] EXCEPT !.status = "PENDING"]
<1>1. /\ order \in [Orders -> OrderRow] /\ order[o] \in OrderRow
      /\ history \in [Orders -> Seq(HistoryRow)]
      /\ order[o].status = NoStatus /\ history[o] = <<>>
  BY DEF IInv, Types, Tables, Records, HistoryEndsAtStatus, Create, Exists
<1>2. /\ row \in OrderRow /\ row.status = "PENDING" /\ row.isApproved = order[o].isApproved
      /\ row.approvedAt = order[o].approvedAt /\ row.completedAt = order[o].completedAt
  BY <1>1, NoStatusIsNone DEF OrderRow
<1>3. first \in HistoryRow /\ first.new = "PENDING"
  BY NoStatusIsNone DEF HistoryRow
<1>4. /\ <<first>> \in Seq(HistoryRow) /\ <<first>> # <<>> /\ Len(<<first>>) = 1
      /\ <<first>>[1] = first /\ Last(<<first>>) = first
  BY <1>3 DEF Last
<1>5. /\ order' = [order EXCEPT ![o] = row]
      /\ history' = [history EXCEPT ![o] = <<first>>]
      /\ UNCHANGED <<comments, images, req>>
  BY DEF Create
<1>6. Range(<<>>) = {}
  BY DEF Range
<1> HIDE DEF row, first
<1>7. \A p \in Orders : /\ order'[p] = IF p = o THEN row ELSE order[p]
                        /\ history'[p] = IF p = o THEN <<first>> ELSE history[p]
  BY <1>1, <1>5
<1>8. Tables'
  BY <1>1, <1>2, <1>4, <1>5 DEF IInv, Types, Tables
<1>9. Grows
  BY <1>1, <1>2, <1>6, <1>7 DEF Grows
<1>10. HistoryEndsAtStatus'
  BY <1>2, <1>3, <1>4, <1>7, NoStatusIsNone DEF IInv, Records, HistoryEndsAtStatus, Exists
<1>11. HistoryRowsAllowed'
  <2> SUFFICES ASSUME NEW p \in Orders, NEW i \in 1..Len(history'[p])
               PROVE  IF i = 1 THEN history'[p][i] = [previous |-> NoStatus, new |-> "PENDING"]
                      ELSE /\ history'[p][i].previous # NoStatus
                           /\ IsTransitionAllowed(history'[p][i].previous, history'[p][i].new)
    BY DEF HistoryRowsAllowed
  <2>1. CASE p = o
    BY <2>1, <1>4, <1>7 DEF first
  <2>2. CASE p # o
    BY <2>2, <1>7 DEF IInv, Records, HistoryRowsAllowed
  <2> QED
    BY <2>1, <2>2
<1>12. StampsOnRecord'
  <2>1. StampsOnRecord
    BY DEF IInv, Records
  <2> QED
    BY <2>1, <1>2, <1>7 DEF StampsOnRecord, Approved
<1> QED
  BY <1>5, <1>8, <1>9, <1>10, <1>11, <1>12 DEF Records

EndStep(s) ==
  EmitStatus(s) \/ AddComment(s) \/ AddImage(s) \/ DeleteImage(s) \/ TrackTimeline(s) \/ Fail(s)

(* The other handlers end without touching the orders and their history.   *)
LEMMA EndsQuietly ==
  ASSUME IInv, NEW s \in Staff, EndStep(s)
  PROVE  /\ Tables' /\ UNCHANGED <<order, history>>
         /\ req' = [req EXCEPT ![s] = IdleRequest]
<1>0. Tables /\ Justified(req[s], order, history)
  BY DEF IInv, Types, InHand
<1>1. CASE EmitStatus(s) \/ TrackTimeline(s) \/ Fail(s)
  BY <1>0, <1>1 DEF EmitStatus, TrackTimeline, Fail, Finish, tables, Tables
<1>2. CASE AddComment(s)
  <2>1. req[s].on \in Orders
    BY <1>0, <1>2 DEF AddComment, At, Justified
  <2>2. \A b \in BOOLEAN : [note |-> "message", internal |-> b] \in Comment
    BY DEF Comment
  <2> QED
    BY <1>0, <1>2, <2>1, <2>2 DEF AddComment, Finish, Tables
<1>3. CASE AddImage(s)
  <2>1. req[s].on \in Orders
    BY <1>0, <1>3 DEF AddImage, At, Justified
  <2> QED
    BY <1>0, <1>3, <2>1 DEF AddImage, Finish, Tables
<1>4. CASE DeleteImage(s)
  BY <1>0, <1>4 DEF DeleteImage, Finish, Tables
<1> QED
  BY <1>1, <1>2, <1>3, <1>4 DEF EndStep

(* The events and answers of a step are about what is on record.           *)
LEMMA AnswersHold == IInv /\ [Next]_vars => Answers'
<1> SUFFICES ASSUME IInv, [Next]_vars PROVE Answers'
  OBVIOUS
<1>1. ASSUME Silent PROVE Answers'
  BY <1>1 DEF Silent, Answers, EventsFollowHistory, TrackingViewIsConsistent
<1>2. ASSUME NEW s \in Staff, EmitStatus(s) PROVE Answers'
  <2> DEFINE e == [kind |-> EventOf(req[s].to), on |-> req[s].on,
                   previous |-> req[s].status, new |-> req[s].to]
  <2>1. event' = {e} /\ view' = {} /\ history' = history
    BY <1>2 DEF EmitStatus, RepairEvent, tables
  <2>2. [previous |-> req[s].status, new |-> req[s].to] \in Range(history[req[s].on])
    BY <1>2 DEF IInv, InHand, Justified, EmitStatus, At
  <2>3. EventOf(req[s].to) = "COMPLETED" <=> req[s].to = "COMPLETED"
    BY DEF EventOf
  <2>4. EventsFollowHistory'
    BY <2>1, <2>2, <2>3 DEF EventsFollowHistory
  <2> QED
    BY <2>1, <2>4 DEF Answers, TrackingViewIsConsistent
<1>3. ASSUME NEW s \in Staff, TrackTimeline(s) PROVE Answers'
  <2>1. req[s].status \in {h.new : h \in Range(history[req[s].on])}
    BY <1>3 DEF IInv, InHand, Justified, TrackTimeline, At
  <2>2. TrackingViewIsConsistent'
    BY <1>3, <2>1 DEF TrackTimeline, TrackingViewIsConsistent
  <2>3. event' = {}
    BY <1>3 DEF TrackTimeline
  <2> QED
    BY <2>2, <2>3 DEF Answers, EventsFollowHistory
<1>4. CASE UNCHANGED vars
  BY <1>4 DEF vars, IInv, Answers, EventsFollowHistory, TrackingViewIsConsistent
<1>5. ASSUME NEW s \in Staff, StatusStep(s) PROVE Answers'
  BY <1>1, <1>2, <1>5 DEF StatusStep, CheckStatus, CommitStatus
<1>6. ASSUME NEW s \in Staff, UpdateStep(s) \/ CommentStep(s) PROVE Answers'
  BY <1>1, <1>6 DEF UpdateStep, CheckUpdate, CommitUpdate, CommentStep, CheckComment, AddComment
<1>7. ASSUME NEW s \in Staff, ImageStep(s) PROVE Answers'
  BY <1>1, <1>7 DEF ImageStep, CheckImage, AddImage, CheckRemoveImage, FindImage, DeleteImage
<1>8. ASSUME NEW s \in Staff, TrackStep(s) PROVE Answers'
  BY <1>1, <1>3, <1>8 DEF TrackStep, TrackStatus
<1>9. ASSUME NEW s \in Staff, Fail(s) PROVE Answers'
  BY <1>1, <1>9 DEF Fail
<1>10. ASSUME NEW o \in Orders, Create(o) PROVE Answers'
  BY <1>1, <1>10 DEF Create
<1> QED
  BY <1>4, <1>5, <1>6, <1>7, <1>8, <1>9, <1>10 DEF Next

(* What leaves the orders and their history alone leaves the records alone.*)
LEMMA RecordsStay ==
  ASSUME IInv, UNCHANGED <<order, history>>
  PROVE  Grows /\ Records'
BY DEF IInv, Grows, Records, HistoryEndsAtStatus, HistoryRowsAllowed, StampsOnRecord, Exists

(* The invariant holds before the first order.                             *)
LEMMA InitEstablishesInvariant == Init => IInv
<1> SUFFICES ASSUME Init PROVE IInv
  OBVIOUS
<1>1. Types
  <2>1. NoOrder \in OrderRow
    BY DEF NoOrder, OrderRow
  <2> QED
    BY <2>1, IdleIsJustified DEF Init, Types, Tables
<1>2. InHand
  BY IdleIsJustified DEF Init, InHand
<1>3. Records
  BY NoStatusIsNone DEF Init, Records, HistoryEndsAtStatus, HistoryRowsAllowed, StampsOnRecord,
     Exists, NoOrder, Approved, NoStatus
<1>4. Answers
  BY DEF Init, Answers, EventsFollowHistory, TrackingViewIsConsistent
<1> QED
  BY <1>1, <1>2, <1>3, <1>4 DEF IInv

(* Every step preserves it.                                                *)
LEMMA StepPreservesInvariant == IInv /\ [Next]_vars => IInv'
<1> SUFFICES ASSUME IInv, [Next]_vars PROVE IInv'
  OBVIOUS
<1> DEFINE Kept == Types' /\ InHand' /\ Records'
<1>1. ASSUME NEW s \in Staff, ReadStep(s) PROVE Kept
  <2>1. UNCHANGED tables
    BY <1>1, ReadsAreJustified
  <2>2. Grows /\ Records' /\ Tables'
    BY <2>1, RecordsStay DEF tables, IInv, Types, Tables
  <2>3. PICK q \in Request : req' = [req EXCEPT ![s] = q] /\ Justified(q, order, history)
    BY <1>1, ReadsAreJustified
  <2>4. Justified(q, order', history')
    BY <2>1, <2>3 DEF tables
  <2> QED
    BY <2>2, <2>3, <2>4, RequestsStayJustified
<1>2. ASSUME NEW s \in Staff, CommitStatus(s) PROVE Kept
  BY <1>2, CommitStatusStep, RequestsStayJustified
<1>3. ASSUME NEW s \in Staff, CommitUpdate(s) PROVE Kept
  BY <1>3, CommitUpdateStep, IdleIsJustified, RequestsStayJustified
<1>4. ASSUME NEW s \in Staff, EndStep(s) PROVE Kept
  BY <1>4, EndsQuietly, RecordsStay, IdleIsJustified, RequestsStayJustified
<1>5. ASSUME NEW o \in Orders, Create(o) PROVE Kept
  <2>1. Tables' /\ Grows /\ Records' /\ req' = req
    BY <1>5, CreateStep
  <2>2. \A s \in Staff : req[s] \in Request /\ Justified(req[s], order, history)
    BY DEF IInv, Types, InHand
  <2>3. \A s \in Staff : Justified(req[s], order', history')
    BY <2>1, <2>2, JustifiedStays
  <2> QED
    BY <2>1, <2>3 DEF IInv, Types, InHand
<1>6. ASSUME UNCHANGED vars PROVE Kept
  <2>1. UNCHANGED <<order, history, comments, images, req>>
    BY <1>6 DEF vars, tables
  <2>2. Records'
    BY <2>1, RecordsStay
  <2>3. Types'
    BY <2>1 DEF IInv, Types, Tables
  <2>4. InHand'
    BY <2>1 DEF IInv, InHand
  <2> QED
    BY <2>2, <2>3, <2>4
<1>7. Kept
  <2> HIDE DEF Kept
  <2>1. ASSUME NEW s \in Staff,
               StatusStep(s) \/ UpdateStep(s) \/ CommentStep(s) \/ ImageStep(s) \/ TrackStep(s)
               \/ Fail(s)
        PROVE  Kept
    <3>1. ReadStep(s) \/ CommitStatus(s) \/ CommitUpdate(s) \/ EndStep(s)
      BY <2>1 DEF StatusStep, UpdateStep, CommentStep, ImageStep, TrackStep, ReadStep, EndStep
    <3> QED
      BY <3>1, <1>1, <1>2, <1>3, <1>4
  <2> QED
    BY <2>1, <1>5, <1>6 DEF Next
<1> QED
  BY <1>7, AnswersHold DEF IInv

(* The invariant holds in every reachable state.                           *)
THEOREM Invariance == Spec => []IInv
BY InitEstablishesInvariant, StepPreservesInvariant, PTL DEF Spec

(* The tables and the requests keep their types.                           *)
THEOREM TypeCorrect == Spec => []TypeOK
<1>1. IInv => TypeOK
  <2> SUFFICES ASSUME IInv PROVE TypeOK
    OBVIOUS
  <2>1. Tables /\ req \in [Staff -> Request]
    BY DEF IInv, Types
  <2>2. ASSUME NEW o \in Orders, NEW i \in 1..Len(history[o])
        PROVE  history[o][i] \in HistoryRow
    BY <2>1, <2>2 DEF Tables
  <2>3. ASSUME NEW s \in Staff
        PROVE  req[s].pc \in Labels /\ (~At(s, "idle") => req[s].on \in Orders)
    BY <2>1, <2>3 DEF IInv, InHand, Justified, Request, At
  <2> QED
    BY <2>1, <2>2, <2>3 DEF Tables, TypeOK
<1> QED
  BY Invariance, <1>1, PTL

(* The last history row of an order names the status it has, however many  *)
(* changes of status race.                                                 *)
THEOREM HistoryAgreesWithStatus == Spec => []HistoryEndsAtStatus
BY Invariance, PTL DEF IInv, Records

(* Every history row but the first is an allowed transition.               *)
THEOREM HistoryIsAllowed == Spec => []HistoryRowsAllowed
BY Invariance, PTL DEF IInv, Records

(* Approved orders have their approval date, completed ones theirs.        *)
THEOREM DatesAreOnRecord == Spec => []StampsOnRecord
BY Invariance, PTL DEF IInv, Records

(* An event is about a change that is in the history of its order.         *)
THEOREM EventsAreAboutHistory == Spec => []EventsFollowHistory
BY Invariance, PTL DEF IInv, Answers

(* The public page shows a status of its timeline and no internal comment. *)
THEOREM TrackingIsConsistent == Spec => []TrackingViewIsConsistent
BY Invariance, PTL DEF IInv, Answers

(* A request that may still move or edit order o.                          *)
MayWrite(q, o) == q.pc \in {"statusChecked", "updateChecked"} /\ q.on = o

(* An order stays at rest when it is left alone and the client that moved  *)
(* does not get hold of it.                                                *)
LEMMA RestStays ==
  ASSUME IInv, NEW o \in Orders, AtRest(o), order'[o] = order[o],
         NEW s \in Staff, NEW q, req' = [req EXCEPT ![s] = q], ~MayWrite(q, o)
  PROVE  AtRest(o)' /\ order'[o] = order[o]
<1>1. ASSUME NEW t \in Staff PROVE ~MayWrite(req'[t], o)
  <2>1. ~MayWrite(req[t], o)
    BY DEF AtRest, At, MayWrite
  <2> QED
    BY <2>1 DEF IInv, Types
<1> QED
  BY <1>1 DEF AtRest, At, MayWrite

(* Nobody gets hold of a closed order to write it.                         *)
LEMMA ReadersLeaveRest ==
  ASSUME IInv, NEW s \in Staff, ReadStep(s), NEW o \in Orders, AtRest(o)
  PROVE  AtRest(o)' /\ order'[o] = order[o]
<1>0. /\ order' = order /\ req[s] \in Request
      /\ order[o].status \in TERMINAL_STATUSES
  BY ReadsAreJustified DEF tables, IInv, Types, AtRest, IsTerminal
<1>1. ASSUME CheckStatus(s)
      PROVE  \E q : req' = [req EXCEPT ![s] = q] /\ ~MayWrite(q, o)
  <2>1. PICK p \in Orders, to \in RepairStatus, note \in BOOLEAN :
          /\ IsTransitionAllowed(order[p].status, to)
          /\ req' = [req EXCEPT ![s] = [Holds(s, "statusChecked", p) EXCEPT
                       !.status = order[p].status, !.to = to, !.note = note]]
    BY <1>1 DEF CheckStatus
  <2>2. p # o
    BY <1>0, <2>1 DEF IsTransitionAllowed, ALLOWED_TRANSITIONS, TERMINAL_STATUSES
  <2>3. [Holds(s, "statusChecked", p) EXCEPT
           !.status = order[p].status, !.to = to, !.note = note].on = p
    BY DEF Holds, IdleRequest
  <2> QED
    BY <2>1, <2>2, <2>3 DEF MayWrite
<1>2. ASSUME CheckUpdate(s)
      PROVE  \E q : req' = [req EXCEPT ![s] = q] /\ ~MayWrite(q, o)
  <2>1. PICK p \in Orders, approve \in {"yes", "no", Unset}, d \in Details \cup {Unset} :
          /\ ~IsTerminal(order[p].status)
          /\ req' = [req EXCEPT ![s] = [Holds(s, "updateChecked", p) EXCEPT
                       !.isApproved = order[p].isApproved, !.approve = approve, !.details = d]]
    BY <1>2 DEF CheckUpdate
  <2>2. p # o
    BY <1>0, <2>1 DEF IsTerminal
  <2>3. [Holds(s, "updateChecked", p) EXCEPT
           !.isApproved = order[p].isApproved, !.approve = approve, !.details = d].on = p
    BY DEF Holds, IdleRequest
  <2> QED
    BY <2>1, <2>2, <2>3 DEF MayWrite
<1>3. ASSUME CheckComment(s) \/ CheckImage(s) \/ CheckRemoveImage(s) \/ FindImage(s) \/ TrackStatus(s)
      PROVE  \E q : req' = [req EXCEPT ![s] = q] /\ ~MayWrite(q, o)
  <2>1. \A p : /\ Holds(s, "commentChecked", p).pc = "commentChecked"
               /\ Holds(s, "imageChecked", p).pc = "imageChecked"
    BY DEF Holds, IdleRequest
  <2>2. \A p, i : [Holds(s, "removeChecked", p) EXCEPT !.image = i].pc = "removeChecked"
    BY DEF Holds, IdleRequest
  <2>3. \A p, x : [Holds(s, "statusShown", p) EXCEPT !.status = x].pc = "statusShown"
    BY DEF Holds, IdleRequest
  <2>4. IdleRequest.pc = "idle" /\ [req[s] EXCEPT !.pc = "imageFound"].pc = "imageFound"
    BY <1>0 DEF IdleRequest, Request
  <2>5. CASE CheckComment(s)
    <3>1. PICK p : req' = [req EXCEPT ![s] = Holds(s, "commentChecked", p)]
      BY <2>5 DEF CheckComment
    <3>2. ~MayWrite(Holds(s, "commentChecked", p), o)
      BY <2>1 DEF MayWrite
    <3> QED
      BY <3>1, <3>2
  <2>6. CASE CheckImage(s)
    <3>1. PICK p : req' = [req EXCEPT ![s] = Holds(s, "imageChecked", p)]
      BY <2>6 DEF CheckImage
    <3>2. ~MayWrite(Holds(s, "imageChecked", p), o)
      BY <2>1 DEF MayWrite
    <3> QED
      BY <3>1, <3>2
  <2>7. CASE CheckRemoveImage(s)
    <3>1. PICK p, i : req' = [req EXCEPT ![s] = [Holds(s, "removeChecked", p) EXCEPT !.image = i]]
      BY <2>7 DEF CheckRemoveImage
    <3>2. ~MayWrite([Holds(s, "removeChecked", p) EXCEPT !.image = i], o)
      BY <2>2 DEF MayWrite
    <3> QED
      BY <3>1, <3>2
  <2>8. CASE FindImage(s)
    BY <2>4, <2>8 DEF FindImage, Finish, MayWrite
  <2>9. CASE TrackStatus(s)
    <3>1. PICK p : req' = [req EXCEPT ![s] =
                             [Holds(s, "statusShown", p) EXCEPT !.status = order[p].status]]
      BY <2>9 DEF TrackStatus
    <3>2. ~MayWrite([Holds(s, "statusShown", p) EXCEPT !.status = order[p].status], o)
      BY <2>3 DEF MayWrite
    <3> QED
      BY <3>1, <3>2
  <2> QED
    BY <1>3, <2>5, <2>6, <2>7, <2>8, <2>9
<1>4. \E q : req' = [req EXCEPT ![s] = q] /\ ~MayWrite(q, o)
  BY <1>1, <1>2, <1>3 DEF ReadStep
<1> QED
  BY <1>0, <1>4, RestStays

(* No step touches an order at rest, or ends its rest.                     *)
LEMMA OrdersRest ==
  ASSUME IInv, [Next]_vars, NEW o \in Orders, AtRest(o)
  PROVE  AtRest(o)' /\ order'[o] = order[o]
<1>0. /\ order \in [Orders -> OrderRow]
      /\ order[o].status \in TERMINAL_STATUSES
      /\ \A s \in Staff : req[s] \in Request /\ ~MayWrite(req[s], o)
      /\ IdleRequest.pc = "idle"
  BY DEF IInv, Types, Tables, AtRest, IsTerminal, At, MayWrite, IdleRequest
<1>1. ASSUME NEW s \in Staff, CommitStatus(s) PROVE AtRest(o)' /\ order'[o] = order[o]
  <2>1. req[s].on # o
    BY <1>0, <1>1 DEF CommitStatus, At, MayWrite
  <2>2. order'[o] = order[o]
    BY <1>0, <1>1, <2>1 DEF CommitStatus
  <2>3. ~MayWrite([req[s] EXCEPT !.pc = "statusCommitted"], o)
    BY <1>0 DEF MayWrite, Request
  <2>4. req' = [req EXCEPT ![s] = [req[s] EXCEPT !.pc = "statusCommitted"]]
    BY <1>1 DEF CommitStatus
  <2> QED
    BY <2>2, <2>3, <2>4, RestStays
<1>2. ASSUME NEW s \in Staff, CommitUpdate(s) PROVE AtRest(o)' /\ order'[o] = order[o]
  <2>1. req[s].on # o
    BY <1>0, <1>2 DEF CommitUpdate, At, MayWrite
  <2>2. order'[o] = order[o]
    BY <1>0, <1>2, <2>1 DEF CommitUpdate
  <2>3. req' = [req EXCEPT ![s] = IdleRequest]
    BY <1>2 DEF CommitUpdate, Finish
  <2> QED
    BY <1>0, <2>2, <2>3, RestStays DEF MayWrite
<1>3. ASSUME NEW s \in Staff, EndStep(s) PROVE AtRest(o)' /\ order'[o] = order[o]
  <2>1. order' = order /\ req' = [req EXCEPT ![s] = IdleRequest]
    BY <1>3, EndsQuietly
  <2> QED
    BY <1>0, <2>1, RestStays DEF MayWrite
<1>4. ASSUME NEW p \in Orders, Create(p) PROVE AtRest(o)' /\ order'[o] = order[o]
  <2>1. p # o
    BY <1>0, <1>4, NoStatusIsNone DEF Create, Exists, TERMINAL_STATUSES, NoStatus
  <2>2. order'[o] = order[o] /\ req' = req
    BY <1>0, <1>4, <2>1 DEF Create
  <2> QED
    BY <2>2 DEF AtRest, At
<1>5. CASE UNCHANGED vars
  BY <1>5 DEF vars, AtRest, At
<1>6. ASSUME NEW s \in Staff,
             StatusStep(s) \/ UpdateStep(s) \/ CommentStep(s) \/ ImageStep(s) \/ TrackStep(s)
             \/ Fail(s)
      PROVE  AtRest(o)' /\ order'[o] = order[o]
  <2>1. ReadStep(s) \/ CommitStatus(s) \/ CommitUpdate(s) \/ EndStep(s)
    BY <1>6 DEF StatusStep, UpdateStep, CommentStep, ImageStep, TrackStep, ReadStep, EndStep
  <2> QED
    BY <2>1, <1>1, <1>2, <1>3, ReadersLeaveRest
<1> QED
  BY <1>4, <1>5, <1>6 DEF Next

(* A closed order that nobody has in hand is never written again.          *)
THEOREM ClosedOrdersStay == Spec => ClosedOrdersRest
<1>1. IInv /\ [Next]_vars =>
        [\A o \in Orders : AtRest(o) => AtRest(o)' /\ order'[o] = order[o]]_vars
  BY OrdersRest
<1> QED
  BY <1>1, Invariance, PTL DEF Spec, ClosedOrdersRest
==============================================================================
