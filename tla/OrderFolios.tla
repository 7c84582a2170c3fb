----------------------------- MODULE OrderFolios -----------------------------
(***************************************************************************)
(* RepairOrdersService.createWithFolioRetry: several requests of several   *)
(* companies each create one repair order and number it one past the       *)
(* largest folio number of the company.  Nothing serialises them but the   *)
(* unique index on (company_id, folio_number) and a retry loop.            *)
(*                                                                         *)
(* PostgreSQL runs the transactions at READ COMMITTED: the aggregate sees  *)
(* committed rows only, and an INSERT whose key another open transaction   *)
(* has inserted waits for that transaction to end.                         *)
(*                                                                         *)
(* committed[c]  the committed repair_orders rows of company c, in commit  *)
(*               order; id is the request that created the row.  Its       *)
(*               history row is inserted by the same transaction, and      *)
(*               initial records it: the statuses of that row.             *)
(* pc, attempt, folio                                                      *)
(*               the control point of each request and the values of its   *)
(*               local variables "attempt" and "folioNumber".              *)
(* baseline[r]   history variable: how many orders the company of r had    *)
(*               when r began.                                             *)
(*                                                                         *)
(* formatFolio adds the year to the number: two rows with different        *)
(* numbers have different folios, so the (company_id, folio) index rejects *)
(* nothing the (company_id, folio_number) index accepts.                   *)
(***************************************************************************)
EXTENDS Naturals, Sequences, FiniteSetsExt, RepairStatuses

CONSTANTS
  Companies,      \* the tenants
  Requests,       \* calls of create that passed their validation
  CompanyOf,      \* the tenant of each request
  MaxAttempts     \* MAX_FOLIO_CREATE_ATTEMPTS

ASSUME CompanyOfAssumption == CompanyOf \in [Requests -> Companies]
ASSUME MaxAttemptsAssumption == MaxAttempts \in Nat \ {0}

VARIABLES committed, pc, attempt, folio, baseline

folioVars == <<committed, pc, attempt, folio, baseline>>

(* The row RepairOrderStatusHistory gets from the creating transaction.    *)
FirstHistory == [previous |-> NoStatus, new |-> "PENDING"]

Order == [id : Requests, folioNumber : Nat, initial : {FirstHistory}]

(* A request holds its key in the unique index from the INSERT of the      *)
(* order to the end of its transaction.                                    *)
InOpenInsert == {"insertHistory", "commit"}
InTransaction == {"aggregate", "insertOrder"} \cup InOpenInsert
Ended == {"created", "conflict", "error"}

Rows(c) == {committed[c][i] : i \in 1..Len(committed[c])}

FolioNumbers(c) == {o.folioNumber : o \in Rows(c)}

(* Mutant of LatestFolio: the aggregate forgets where: { companyId }.      *)
LatestFolioOfAnyTenant(c) ==
  LET all == UNION {FolioNumbers(d) : d \in Companies}
  IN  IF all = {} THEN 0 ELSE Max(all)

(* latest._max.folioNumber ?? 0                                            *)
LatestFolio(c) == IF FolioNumbers(c) = {} THEN 0 ELSE Max(FolioNumbers(c))

HoldsKey(r, c, n) ==
  pc[r] \in InOpenInsert /\ CompanyOf[r] = c /\ folio[r] = n

FolioInit ==
  /\ committed = [c \in Companies |-> <<>>]
  /\ pc = [r \in Requests |-> "idle"]
  /\ attempt = [r \in Requests |-> 0]
  /\ folio = [r \in Requests |-> 0]
  /\ baseline = [r \in Requests |-> 0]

Goto(r, label) == pc' = [pc EXCEPT ![r] = label]

(* The order and its history row become visible together.                  *)
Store(r) ==
  committed' = [committed EXCEPT ![CompanyOf[r]] =
    Append(@, [id |-> r, folioNumber |-> folio[r], initial |-> FirstHistory])]

(* The first iteration of the loop opens a transaction.                    *)
Begin(r) ==
  /\ pc[r] = "idle"
  /\ Goto(r, "aggregate")
  /\ attempt' = [attempt EXCEPT ![r] = 1]
  /\ baseline' = [baseline EXCEPT ![r] = Len(committed[CompanyOf[r]])]
  /\ UNCHANGED <<committed, folio>>

(* tx.repairOrder.aggregate({ where: { companyId }, _max })                *)
ReadLatest(r) ==
  /\ pc[r] = "aggregate"
  /\ folio' = [folio EXCEPT ![r] = LatestFolio(CompanyOf[r]) + 1]
  /\ Goto(r, "insertOrder")
  /\ UNCHANGED <<committed, attempt, baseline>>

(* Mutant of InsertOrder: no unique index on the folio number.             *)
InsertOrderUnindexed(r) ==
  /\ pc[r] = "insertOrder"
  /\ Goto(r, "insertHistory")
  /\ UNCHANGED <<committed, attempt, folio, baseline>>

(* tx.repairOrder.create succeeds: the key is free.  While another open    *)
(* transaction holds it the statement waits, so neither this action nor    *)
(* InsertDuplicate is enabled.                                             *)
InsertOrder(r) ==
  /\ pc[r] = "insertOrder"
  /\ folio[r] \notin FolioNumbers(CompanyOf[r])
  /\ \A q \in Requests : ~HoldsKey(q, CompanyOf[r], folio[r])
  /\ Goto(r, "insertHistory")
  /\ UNCHANGED <<committed, attempt, folio, baseline>>

(* Mutants of InsertDuplicate: the bound on the attempts is one too small, *)
(* or the last P2002 is swallowed instead of rethrown.                     *)
RetryBelow(r, bound) ==
  /\ pc[r] = "insertOrder"
  /\ folio[r] \in FolioNumbers(CompanyOf[r])
  /\ IF attempt[r] < bound
     THEN attempt' = [attempt EXCEPT ![r] = @ + 1] /\ Goto(r, "aggregate")
     ELSE Goto(r, "conflict") /\ UNCHANGED attempt
  /\ UNCHANGED <<committed, folio, baseline>>
RetryTooFew(r) == RetryBelow(r, MaxAttempts - 1)
RetrySwallowed(r) == attempt[r] < MaxAttempts /\ RetryBelow(r, MaxAttempts)

(* tx.repairOrder.create raises P2002: a committed row has the key.  The   *)
(* transaction is rolled back; the catch block continues with the next     *)
(* attempt or rethrows.                                                    *)
InsertDuplicate(r) ==
  /\ pc[r] = "insertOrder"
  /\ folio[r] \in FolioNumbers(CompanyOf[r])
  /\ \/ /\ attempt[r] < MaxAttempts
        /\ attempt' = [attempt EXCEPT ![r] = @ + 1]
        /\ Goto(r, "aggregate")
     \/ /\ attempt[r] >= MaxAttempts
        /\ Goto(r, "conflict")
        /\ UNCHANGED attempt
  /\ UNCHANGED <<committed, folio, baseline>>

(* tx.repairOrderStatusHistory.create                                      *)
InsertHistory(r) ==
  /\ pc[r] = "insertHistory"
  /\ Goto(r, "commit")
  /\ UNCHANGED <<committed, attempt, folio, baseline>>

(* Mutant of Commit: an error reported after the commit is retried too.    *)
CommitThenRetry(r) ==
  /\ pc[r] = "commit"
  /\ Store(r)
  /\ attempt' = [attempt EXCEPT ![r] = @ + 1]
  /\ attempt[r] < MaxAttempts
  /\ Goto(r, "aggregate")
  /\ UNCHANGED <<folio, baseline>>

(* The callback returns and Prisma commits.                                *)
Commit(r) ==
  /\ pc[r] = "commit"
  /\ Store(r)
  /\ Goto(r, "created")
  /\ UNCHANGED <<attempt, folio, baseline>>

(* The connection or the process is lost at the COMMIT, and it took effect *)
(* nevertheless: the error goes on to the client like that of Abort.       *)
LoseAnswer(r) ==
  /\ pc[r] = "commit"
  /\ Store(r)
  /\ Goto(r, "error")
  /\ UNCHANGED <<attempt, folio, baseline>>

(* The transaction fails with anything but P2002 (it outlives Prisma's     *)
(* timeout, the connection or the process dies, a foreign key is gone): it *)
(* is rolled back and the error is not retried.                            *)
Abort(r) ==
  /\ pc[r] \in InTransaction
  /\ Goto(r, "error")
  /\ UNCHANGED <<committed, attempt, folio, baseline>>

Proceed(r) ==
  \/ ReadLatest(r)
  \/ InsertOrder(r)
  \/ InsertDuplicate(r)
  \/ InsertHistory(r)
  \/ Commit(r)

FolioNext == \E r \in Requests : Begin(r) \/ Proceed(r) \/ LoseAnswer(r) \/ Abort(r)

(* A started handler is run by the event loop and by the database; a       *)
(* client need not send a request, and a failure need not happen.          *)
Fairness == \A r \in Requests : WF_folioVars(Proceed(r))

FolioSpec == FolioInit /\ [][FolioNext]_folioVars /\ Fairness

------------------------------------------------------------------------------

FolioTypes ==
  /\ committed \in [Companies -> Seq(Order)]
  /\ pc \in [Requests -> {"idle"} \cup InTransaction \cup Ended]
  /\ attempt \in [Requests -> 0..MaxAttempts]
  /\ folio \in [Requests -> Nat]
  /\ baseline \in [Requests -> Nat]

(* The i-th order a company commits has folio number i, however its        *)
(* creators interleave, abort and retry: the numbers have no gap and no    *)
(* duplicate, they grow in commit order, and other tenants do not consume  *)
(* them (createWithFolioRetry reads the largest number without a lock).    *)
FoliosAreDense ==
  \A c \in Companies : \A i \in 1..Len(committed[c]) :
    committed[c][i].folioNumber = i

(* A request never creates two orders, however many attempts it took: an   *)
(* attempt that failed leaves nothing behind (the catch block retries the  *)
(* whole transaction).  It answers with an order only if there is one, and *)
(* one that is running or has given up has none.  (One that ended with an  *)
(* error may have: the COMMIT whose answer was lost.)                      *)
OneOrderPerRequest ==
  \A r \in Requests :
    /\ \A c \in Companies : \A i, j \in 1..Len(committed[c]) :
         committed[c][i].id = r /\ committed[c][j].id = r => i = j
    /\ LET stored == \E o \in Rows(CompanyOf[r]) : o.id = r
       IN  /\ pc[r] = "created" => stored
           /\ stored => pc[r] \in {"created", "error"}

(* The retry limit is only hit under real contention: a request that gives *)
(* up with a folio conflict has seen at least MaxAttempts other orders of  *)
(* its company commit since it began.  With at most MaxAttempts concurrent *)
(* creators in a company nobody gives up.                                  *)
GivesUpOnlyUnderContention ==
  \A r \in Requests :
    pc[r] = "conflict" => Len(committed[CompanyOf[r]]) >= baseline[r] + MaxAttempts

(* Every call of create that begins comes to an end: neither the retry     *)
(* loop nor the wait on the unique index goes on for ever.                 *)
EveryCreateEnds ==
  \A r \in Requests : pc[r] = "aggregate" ~> pc[r] \in Ended

(* Orders are only ever appended: a committed folio is never reassigned or *)
(* withdrawn, and one step commits at most one order, of one company.      *)
OrdersOnlyAppended ==
  [][\A c \in Companies :
       committed'[c] # committed[c] =>
         /\ Len(committed'[c]) = Len(committed[c]) + 1
         /\ SubSeq(committed'[c], 1, Len(committed[c])) = committed[c]
         /\ \A d \in Companies \ {c} : committed'[d] = committed[d]]_folioVars

(* What createWithFolioRetry promises its callers: an atomic counter and   *)
(* an append-only register of orders per company (FolioRegister).          *)
Register == INSTANCE FolioRegister WITH
  register <- [c \in Companies |->
                 [i \in 1..Len(committed[c]) |->
                    [id |-> committed[c][i].id,
                     number |-> committed[c][i].folioNumber]]]

RefinesRegister == Register!Spec
==============================================================================
