-------------------------- MODULE Branches_proofs ---------------------------
(* Proofs about Branches, for any branches, names, clients and orders.     *)
EXTENDS Branches, FiniteSetTheorems, TLAPS

BranchRow == [state : {"absent", "live", "deleted"}, name : Names \cup {Nobody}, isMain : BOOLEAN]
OrderRow ==
  [state : {"absent", "active", "closed"}, branch : BranchIds \cup {Nobody}, late : BOOLEAN]
Request ==
  [pc : Labels, on : BranchIds \cup Orders \cup {Nobody}, name : Names \cup {Nobody},
   seen : SUBSET BranchIds, to : {Nobody, "active", "closed"}]

Typed ==
  /\ branch \in [BranchIds -> BranchRow]
  /\ order \in [Orders -> OrderRow]
  /\ req \in [Clients -> Request]

(* What the requests hold: a branch and a name, or a status.               *)
InHand(c) ==
  /\ At(c, "statusChecked") => req[c].to \in {"active", "closed"}
  /\ ~At(c, "idle") /\ ~At(c, "statusChecked") => req[c].on \in BranchIds
  /\ At(c, "found") \/ At(c, "snapshot") \/ At(c, "locked") => req[c].name \in Names

(* The orders that were active when the orders of their branch were        *)
(* counted would have stopped the removal: any that are active now are late*)
Counted(b) == TooLateFor(b) => \A o \in ActiveOrders(b) : order[o].late

IInv ==
  /\ Typed
  /\ \A c \in Clients : InHand(c)
  /\ \A b \in BranchIds : Counted(b)

LEMMA IdleIsRequest == IdleRequest \in Request /\ IdleRequest.pc = "idle"
BY DEF IdleRequest, Request, Labels

LEMMA InitInv == Init => IInv
BY IdleIsRequest
DEF Init, IInv, Typed, BranchRow, OrderRow, NoBranch, NoOrder, InHand, At, Counted, ActiveOrders

(* A removal that has counted is one that had, or one that counts none.    *)
LEMMA CountedStays ==
  ASSUME IInv, UNCHANGED order, NEW b \in BranchIds,
         branch'[b].state = "deleted" => TooLateFor(b),
         \A c \in Clients : At(c, "counted")' /\ req'[c].on = b =>
           TooLateFor(b) \/ ActiveOrders(b) = {}
  PROVE  Counted(b)'
BY DEF IInv, Counted, TooLateFor, ActiveOrders

(* A step that only gives client c another request keeps the invariant if  *)
(* the new request is one that may be held, and has counted no orders.     *)
LEMMA RequestStep ==
  ASSUME IInv, NEW c \in Clients, NEW q \in Request, UNCHANGED tables,
         req' = [req EXCEPT ![c] = q], InHand(c)',
         q.pc = "counted" => ActiveOrders(q.on) = {}
  PROVE  IInv'
<1>1. Typed' /\ req'[c] = q /\ \A d \in Clients \ {c} : req'[d] = req[d]
  BY DEF IInv, Typed, tables
<1>2. \A d \in Clients \ {c} : InHand(d)'
  BY <1>1 DEF IInv, InHand, At
<1>3. \A b \in BranchIds : Counted(b)'
  BY <1>1, CountedStays DEF At, TooLateFor, tables
<1> QED
  BY <1>1, <1>2, <1>3 DEF IInv

LEMMA FinishStep ==
  ASSUME IInv, NEW c \in Clients, Finish(c), UNCHANGED order, branch' \in [BranchIds -> BranchRow],
         \A b \in BranchIds : branch'[b].state = "deleted" => TooLateFor(b)
  PROVE  IInv'
<1>1. /\ req' \in [Clients -> Request] /\ ~At(c, "counted")' /\ At(c, "idle")'
      /\ \A d \in Clients \ {c} : req'[d] = req[d]
  BY IdleIsRequest DEF IInv, Typed, Finish, At
<1>2. \A d \in Clients : InHand(d)'
  BY <1>1 DEF IInv, InHand, At
<1>3. \A b \in BranchIds : Counted(b)'
  BY <1>1, CountedStays DEF At, TooLateFor
<1> QED
  BY <1>1, <1>2, <1>3 DEF IInv, Typed

LEMMA BranchStepInv == ASSUME IInv, NEW c \in Clients, BranchStep(c) PROVE IInv'
<1>0. Typed /\ InHand(c) /\ req[c] \in Request /\ Mains \in SUBSET BranchIds
  BY DEF IInv, Typed, Mains
<1>1. CASE CreatePlain(c)
  <2>1. PICK b \in BranchIds, name \in Names :
          /\ branch' = [branch EXCEPT ![b] = [state |-> "live", name |-> name, isMain |-> FALSE]]
          /\ UNCHANGED <<order, req>>
    BY <1>1 DEF CreatePlain
  <2>2. branch' \in [BranchIds -> BranchRow]
    BY <1>0, <2>1 DEF Typed, BranchRow
  <2>3. \A a \in BranchIds : branch'[a].state = "deleted" => TooLateFor(a)
    BY <1>0, <2>1 DEF Typed, TooLateFor
  <2>4. \A a \in BranchIds : Counted(a)'
    BY <2>1, <2>3, CountedStays DEF TooLateFor, At
  <2> QED
    BY <1>0, <2>1, <2>2, <2>4 DEF IInv, Typed, InHand, At
<1>2. ASSUME NEW label \in {"found", "removing"}, Find(c, label) PROVE IInv'
  <2>1. PICK b \in BranchIds, name \in Names :
          /\ req' = [req EXCEPT ![c] = [IdleRequest EXCEPT !.pc = label, !.on = b, !.name = name]]
          /\ UNCHANGED tables
    BY <1>2 DEF Find
  <2> DEFINE q == [IdleRequest EXCEPT !.pc = label, !.on = b, !.name = name]
  <2>2. q \in Request /\ q.pc = label /\ q.on = b /\ q.name = name
    BY IdleIsRequest DEF Request, Labels
  <2> HIDE DEF q
  <2>3. req' = [req EXCEPT ![c] = q] /\ req'[c] = q
    BY <1>0, <2>1 DEF q, Typed
  <2> QED
    BY <2>1, <2>2, <2>3, RequestStep DEF InHand, At
<1>3. CASE StartMain(c)
  <2>1. PICK b \in BranchIds, name \in Names :
          /\ req' = [req EXCEPT ![c] = [IdleRequest EXCEPT
                       !.pc = "snapshot", !.on = b, !.name = name, !.seen = Mains]]
          /\ UNCHANGED tables
    BY <1>3 DEF StartMain
  <2> DEFINE q == [IdleRequest EXCEPT !.pc = "snapshot", !.on = b, !.name = name, !.seen = Mains]
  <2>2. q \in Request /\ q.pc = "snapshot" /\ q.on = b /\ q.name = name
    BY <1>0, IdleIsRequest DEF Request, Labels
  <2> HIDE DEF q
  <2>3. req' = [req EXCEPT ![c] = q] /\ req'[c] = q
    BY <1>0, <2>1 DEF q, Typed
  <2> QED
    BY <2>1, <2>2, <2>3, RequestStep DEF InHand, At
<1>4. CASE SelectMains(c) \/ LockMains(c)
  <2>1. PICK label \in {"snapshot", "locked"}, rows \in SUBSET BranchIds :
          req' = [req EXCEPT ![c] = [req[c] EXCEPT !.pc = label, !.seen = rows]]
    <3>1. CASE SelectMains(c)
      <4>1. req' = [req EXCEPT ![c] = [req[c] EXCEPT !.pc = "snapshot", !.seen = Mains \ {req[c].on}]]
        BY <1>0, <3>1 DEF SelectMains, Typed
      <4> QED
        BY <1>0, <4>1
    <3>2. CASE LockMains(c)
      <4>1. req' = [req EXCEPT ![c] = [req[c] EXCEPT !.pc = "locked", !.seen = req[c].seen \cap Mains]]
        BY <1>0, <3>2 DEF LockMains, Typed, Request
      <4> QED
        BY <1>0, <4>1
    <3> QED
      BY <1>4, <3>1, <3>2
  <2> DEFINE q == [req[c] EXCEPT !.pc = label, !.seen = rows]
  <2>2. q \in Request /\ q.pc = label /\ q.on = req[c].on /\ q.name = req[c].name
    BY <1>0 DEF Request, Labels
  <2>3. req[c].on \in BranchIds /\ req[c].name \in Names /\ UNCHANGED tables
    BY <1>0, <1>4 DEF SelectMains, LockMains, InHand, At
  <2> HIDE DEF q
  <2>4. req' = [req EXCEPT ![c] = q] /\ req'[c] = q
    BY <1>0, <2>1 DEF q, Typed
  <2> QED
    BY <2>2, <2>3, <2>4, RequestStep DEF InHand, At
<1>5. CASE CommitMain(c)
  <2> DEFINE b == req[c].on
  <2>1. b \in BranchIds /\ req[c].name \in Names /\ Finish(c) /\ order' = order
    BY <1>0, <1>5 DEF CommitMain, InHand, At
  <2>2. branch' = [a \in BranchIds |->
           IF a = b
           THEN [state |-> IF branch[b].state = "absent" THEN "live" ELSE branch[b].state,
                 name |-> req[c].name, isMain |-> TRUE]
           ELSE [branch[a] EXCEPT !.isMain = @ /\ a \notin req[c].seen]]
    BY <1>5 DEF CommitMain
  <2>3. \A a \in BranchIds : branch'[a] \in BranchRow
        /\ (branch'[a].state = "deleted" => branch[a].state = "deleted")
    BY <1>0, <2>1, <2>2 DEF Typed, BranchRow
  <2>4. branch' \in [BranchIds -> BranchRow]
    BY <2>2, <2>3
  <2> QED
    BY <2>1, <2>3, <2>4, FinishStep DEF TooLateFor
<1>6. CASE UpdatePlain(c)
  <2> DEFINE b == req[c].on
  <2>1. b \in BranchIds /\ req[c].name \in Names /\ Finish(c) /\ order' = order
    BY <1>0, <1>6 DEF UpdatePlain, InHand, At
  <2>2. PICK main \in {FALSE, branch[b].isMain} :
          branch' = [branch EXCEPT ![b] = [branch[b] EXCEPT !.name = req[c].name, !.isMain = main]]
    BY <1>0, <1>6, <2>1 DEF UpdatePlain, Typed
  <2>3. main \in BOOLEAN
    BY <1>0, <2>1 DEF Typed, BranchRow
  <2>4. LET row == [branch[b] EXCEPT !.name = req[c].name, !.isMain = main]
        IN  row \in BranchRow /\ row.state = branch[b].state
    BY <1>0, <2>1, <2>3 DEF Typed, BranchRow
  <2>5. branch' \in [BranchIds -> BranchRow] /\ \A a \in BranchIds : branch'[a].state = branch[a].state
    BY <1>0, <2>1, <2>2, <2>4 DEF Typed
  <2> QED
    BY <2>1, <2>5, FinishStep DEF TooLateFor
<1>7. CASE CountOrders(c)
  <2>1. UNCHANGED tables /\ req[c].on \in BranchIds
    BY <1>0, <1>7 DEF CountOrders, InHand, At
  <2>2. CASE Finish(c)
    BY <1>0, <2>1, <2>2, FinishStep DEF Typed, tables, TooLateFor
  <2>3. CASE ActiveOrders(req[c].on) = {} /\ req' = [req EXCEPT ![c].pc = "counted"]
    <3> DEFINE q == [req[c] EXCEPT !.pc = "counted"]
    <3>1. q \in Request /\ q.pc = "counted" /\ q.on = req[c].on
      BY <1>0 DEF Request, Labels
    <3> HIDE DEF q
    <3>2. req' = [req EXCEPT ![c] = q] /\ req'[c] = q
      BY <1>0, <2>3 DEF q, Typed
    <3> QED
      BY <2>1, <2>3, <3>1, <3>2, RequestStep DEF InHand, At
  <2> QED
    BY <1>7, <2>2, <2>3 DEF CountOrders
<1>8. CASE DeleteBranch(c)
  <2> DEFINE b == req[c].on
  <2>1. /\ b \in BranchIds /\ Finish(c) /\ order' = order /\ At(c, "counted")
        /\ branch' = [branch EXCEPT ![b].state = "deleted"]
    BY <1>0, <1>8 DEF DeleteBranch, InHand, At
  <2>2. branch' \in [BranchIds -> BranchRow]
    BY <1>0, <2>1 DEF Typed, BranchRow
  <2>3. \A a \in BranchIds : branch'[a].state = "deleted" => TooLateFor(a)
    BY <1>0, <2>1 DEF Typed, TooLateFor
  <2> QED
    BY <2>1, <2>2, <2>3, FinishStep
<1> QED
  BY <1>1, <1>2, <1>3, <1>4, <1>5, <1>6, <1>7, <1>8 DEF BranchStep, FindForUpdate, FindForRemove

(* An order that becomes active too late for the count is late.            *)
LEMMA OrderStepInv == ASSUME IInv, NEW c \in Clients, OrderStep(c) PROVE IInv'
<1>0. Typed /\ InHand(c) /\ req[c] \in Request
  BY DEF IInv, Typed
<1>1. CASE CheckBranch(c)
  <2>1. PICK b \in BranchIds :
          /\ req' = [req EXCEPT ![c] = [IdleRequest EXCEPT !.pc = "branchChecked", !.on = b]]
          /\ UNCHANGED tables
    BY <1>1 DEF CheckBranch
  <2> DEFINE q == [IdleRequest EXCEPT !.pc = "branchChecked", !.on = b]
  <2>2. q \in Request /\ q.pc = "branchChecked" /\ q.on = b
    BY IdleIsRequest DEF Request, Labels
  <2> HIDE DEF q
  <2>3. req' = [req EXCEPT ![c] = q] /\ req'[c] = q
    BY <1>0, <2>1 DEF q, Typed
  <2> QED
    BY <2>1, <2>2, <2>3, RequestStep DEF InHand, At
<1>2. CASE CheckStatus(c)
  <2>1. PICK o \in Orders, to \in {"active", "closed"} :
          /\ req' = [req EXCEPT ![c] = [IdleRequest EXCEPT !.pc = "statusChecked", !.on = o, !.to = to]]
          /\ UNCHANGED tables
    BY <1>2 DEF CheckStatus
  <2> DEFINE q == [IdleRequest EXCEPT !.pc = "statusChecked", !.on = o, !.to = to]
  <2>2. q \in Request /\ q.pc = "statusChecked" /\ q.to = to
    BY IdleIsRequest DEF Request, Labels
  <2> HIDE DEF q
  <2>3. req' = [req EXCEPT ![c] = q] /\ req'[c] = q
    BY <1>0, <2>1 DEF q, Typed
  <2> QED
    BY <2>1, <2>2, <2>3, RequestStep DEF InHand, At
<1>3. ASSUME NEW o, NEW row \in OrderRow, order' = [order EXCEPT ![o] = row],
             Finish(c), UNCHANGED branch, ~At(c, "counted"),
             row.state = "active" =>
               \/ row.late <=> TooLateFor(row.branch)
               \/ order[o].state = "active" /\ row.branch = order[o].branch /\ row.late = order[o].late
      PROVE  IInv'
  <2>1. /\ req' \in [Clients -> Request] /\ At(c, "idle")' /\ ~At(c, "counted")'
        /\ \A d \in Clients \ {c} : req'[d] = req[d]
    BY <1>0, <1>3, IdleIsRequest DEF Finish, Typed, At
  <2>2. order' \in [Orders -> OrderRow] /\ \A p \in Orders : order'[p] = IF p = o THEN row ELSE order[p]
    BY <1>0, <1>3 DEF Typed
  <2>3. \A b : TooLateFor(b)' => TooLateFor(b)
    BY <1>3, <2>1 DEF TooLateFor, At
  <2>4. \A b \in BranchIds : Counted(b)'
    <3> SUFFICES ASSUME NEW b \in BranchIds, TooLateFor(b)', NEW p \in ActiveOrders(b)'
                 PROVE  order'[p].late
      BY DEF Counted
    <3>1. CASE p = o
      BY <1>3, <2>2, <2>3, <3>1 DEF IInv, Counted, ActiveOrders
    <3>2. CASE p # o
      BY <2>2, <2>3, <3>2 DEF IInv, Counted, ActiveOrders
    <3> QED
      BY <3>1, <3>2
  <2>5. \A d \in Clients : InHand(d)'
    BY <2>1 DEF IInv, InHand, At
  <2> QED
    BY <1>0, <1>3, <2>1, <2>2, <2>4, <2>5 DEF IInv, Typed
<1>4. CASE InsertOrder(c)
  <2> DEFINE row == [state |-> "active", branch |-> req[c].on, late |-> TooLateFor(req[c].on)]
  <2>1. PICK o \in Orders : order' = [order EXCEPT ![o] = row]
    BY <1>4 DEF InsertOrder
  <2>2. req[c].on \in BranchIds /\ TooLateFor(req[c].on) \in BOOLEAN
    BY <1>0, <1>4 DEF InsertOrder, InHand, At, TooLateFor
  <2>3. /\ row \in OrderRow /\ row.state = "active"
        /\ row.branch = req[c].on /\ row.late = TooLateFor(req[c].on)
    BY <2>2 DEF OrderRow
  <2> HIDE DEF row
  <2>4. Finish(c) /\ UNCHANGED branch /\ ~At(c, "counted")
    BY <1>4 DEF InsertOrder, At
  <2> QED
    BY <1>3, <2>1, <2>3, <2>4
<1>5. CASE CommitStatus(c)
  <2> DEFINE o == req[c].on
             late == IF order[o].state = "active" THEN order[o].late ELSE TooLateFor(order[o].branch)
             row == [order[o] EXCEPT !.state = req[c].to, !.late = late]
  <2>1. /\ order' = [order EXCEPT ![o].state = req[c].to,
             ![o].late = IF order[o].state = "active" THEN @ ELSE TooLateFor(order[o].branch)]
        /\ Finish(c) /\ UNCHANGED branch /\ ~At(c, "counted") /\ req[c].to \in {"active", "closed"}
    BY <1>0, <1>5 DEF CommitStatus, InHand, At
  <2>2. CASE o \in Orders
    <3>1. order[o] \in OrderRow /\ order' = [order EXCEPT ![o] = row]
      BY <1>0, <2>1, <2>2 DEF Typed, OrderRow
    <3>2. late \in BOOLEAN
      BY <3>1 DEF OrderRow, TooLateFor
    <3>3. row \in OrderRow /\ row.branch = order[o].branch /\ row.late = late
      BY <2>1, <3>1, <3>2 DEF OrderRow
    <3> HIDE DEF row
    <3> QED
      BY <1>3, <2>1, <3>1, <3>3
  <2>3. CASE o \notin Orders
    <3>1. order' = order
      BY <1>0, <2>1, <2>3 DEF Typed
    <3> QED
      BY <1>0, <2>1, <3>1, FinishStep DEF Typed, TooLateFor
  <2> QED
    BY <2>2, <2>3
<1> QED
  BY <1>1, <1>2, <1>4, <1>5 DEF OrderStep

LEMMA StepInv == IInv /\ [Next]_vars => IInv'
<1> SUFFICES ASSUME IInv, [Next]_vars PROVE IInv'
  OBVIOUS
<1>1. ASSUME NEW c \in Clients, Fail(c) PROVE IInv'
  BY <1>1, FinishStep DEF Fail, tables, TooLateFor, IInv, Typed
<1>2. CASE UNCHANGED vars
  BY <1>2 DEF vars, IInv, Typed, InHand, At, Counted, TooLateFor, ActiveOrders
<1> QED
  BY <1>1, <1>2, BranchStepInv, OrderStepInv DEF Next

LEMMA InvHolds == Spec => []IInv
BY InitInv, StepInv, PTL DEF Spec

(* The tables and the requests hold the values the code writes.            *)
THEOREM TypesHold == Spec => []TypeOK
<1>1. IInv => TypeOK
  BY DEF IInv, Typed, TypeOK, BranchRow, OrderRow, Request
<1> QED
  BY <1>1, InvHolds, PTL

(* remove leaves no active order behind that its count could have seen,    *)
(* for any number of clients, branches and orders.                         *)
THEOREM RemovalLeavesNoOrder == Spec => []NoOrderLeftBehind
<1>1. IInv => NoOrderLeftBehind
  BY DEF IInv, Counted, TooLateFor, NoOrderLeftBehind
<1> QED
  BY <1>1, InvHolds, PTL

------------------------------------------------------------------------------

(* A transaction that is about to set a main branch.                       *)
Setting(c) == At(c, "snapshot") \/ At(c, "locked")

(* setter[b] is the client that made b the main branch last.  No client    *)
(* has two to its name, and while it sets another one it has the first     *)
(* among the rows it will clear: its snapshot is younger than its last     *)
(* commit.                                                                 *)
SetBy(setter) ==
  /\ \A b \in Mains : setter[b] \in Clients
  /\ \A a, b \in Mains : setter[a] = setter[b] => a = b
  /\ \A c \in Clients : Setting(c) =>
       \A b \in Mains : setter[b] = c => b \in req[c].seen \cup {req[c].on}

MainInv == \E setter \in [BranchIds -> Clients \cup {Nobody}] : SetBy(setter)

(* A step that makes no branch main, and in which no client loses sight of *)
(* a main branch it had in its snapshot.                                   *)
LEMMA NoNewMain ==
  ASSUME MainInv, Mains' \subseteq Mains,
         \A c \in Clients : Setting(c)' =>
           \/ Mains' \subseteq req'[c].seen \cup {req'[c].on}
           \/ /\ Setting(c) /\ req'[c].on = req[c].on
              /\ Mains' \cap req[c].seen \subseteq req'[c].seen
  PROVE  MainInv'
<1>1. PICK setter \in [BranchIds -> Clients \cup {Nobody}] : SetBy(setter)
  BY DEF MainInv
<1>2. SetBy(setter)'
  <2>1. ASSUME NEW c \in Clients, Setting(c)', NEW b \in Mains', setter[b] = c
        PROVE  b \in req'[c].seen \cup {req'[c].on}
    BY <1>1, <2>1 DEF SetBy
  <2> QED
    BY <1>1, <2>1 DEF SetBy
<1> QED
  BY <1>2 DEF MainInv

LEMMA CommitMainBounded == ASSUME IInv, MainInv, NEW c \in Clients, CommitMain(c) PROVE MainInv'
<1> DEFINE b == req[c].on
<1>0. Typed /\ b \in BranchIds
  BY DEF IInv, InHand, CommitMain, At
<1>1. /\ At(c, "locked") /\ Finish(c)
      /\ branch' = [a \in BranchIds |->
           IF a = b
           THEN [state |-> IF branch[b].state = "absent" THEN "live" ELSE branch[b].state,
                 name |-> req[c].name, isMain |-> TRUE]
           ELSE [branch[a] EXCEPT !.isMain = @ /\ a \notin req[c].seen]]
  BY DEF CommitMain
<1>2. \A a \in Mains' : a # b => a \in Mains /\ a \notin req[c].seen
  <2> SUFFICES ASSUME NEW a \in BranchIds, a # b, branch'[a].state = "live", branch'[a].isMain
               PROVE  a \in Mains /\ a \notin req[c].seen
    BY DEF Mains, Live
  <2>1. branch[a] \in BranchRow /\ branch'[a] = [branch[a] EXCEPT !.isMain = @ /\ a \notin req[c].seen]
    BY <1>0, <1>1 DEF Typed
  <2>2. branch'[a].state = branch[a].state /\ (branch'[a].isMain <=> branch[a].isMain /\ a \notin req[c].seen)
    BY <2>1 DEF BranchRow
  <2> QED
    BY <2>2 DEF Mains, Live
<1>3. PICK setter \in [BranchIds -> Clients \cup {Nobody}] : SetBy(setter)
  BY DEF MainInv
<1>4. PICK setter2 \in [BranchIds -> Clients \cup {Nobody}] :
        setter2[b] = c /\ \A a \in Mains' : a # b => setter2[a] = setter[a]
  <2>1. /\ [setter EXCEPT ![b] = c] \in [BranchIds -> Clients \cup {Nobody}]
        /\ [setter EXCEPT ![b] = c][b] = c
        /\ \A a \in Mains' : a # b => [setter EXCEPT ![b] = c][a] = setter[a]
    BY <1>0, <1>3 DEF Mains
  <2> QED
    BY <2>1
(* What the client had made main before was in its snapshot.               *)
<1>5. \A a \in Mains' : a # b => setter[a] # c
  BY <1>1, <1>2, <1>3 DEF SetBy, Setting
<1>6. \A d \in Clients : Setting(d)' => d # c /\ Setting(d) /\ req'[d] = req[d]
  BY <1>0, <1>1, IdleIsRequest DEF Setting, At, Finish, Typed
<1>7. SetBy(setter2)'
  <2>1. \A a \in Mains' : setter2[a] \in Clients
    BY <1>2, <1>3, <1>4 DEF SetBy
  <2>2. \A a, d \in Mains' : setter2[a] = setter2[d] => a = d
    BY <1>2, <1>3, <1>4, <1>5 DEF SetBy
  <2>3. ASSUME NEW d \in Clients, Setting(d)', NEW a \in Mains', setter2[a] = d
        PROVE  a \in req'[d].seen \cup {req'[d].on}
    BY <1>2, <1>3, <1>4, <1>6, <2>3 DEF SetBy
  <2> QED
    BY <2>1, <2>2, <2>3 DEF SetBy
<1> QED
  BY <1>4, <1>7 DEF MainInv

LEMMA BranchStepBounded == ASSUME IInv, MainInv, NEW c \in Clients, BranchStep(c) PROVE MainInv'
<1>0. Typed /\ InHand(c) /\ req[c] \in Request /\ Mains \subseteq BranchIds
  BY DEF IInv, Typed, Mains
<1>1. CASE CreatePlain(c)
  <2>1. PICK b \in BranchIds, name \in Names :
          /\ branch' = [branch EXCEPT ![b] = [state |-> "live", name |-> name, isMain |-> FALSE]]
          /\ req' = req
    BY <1>1 DEF CreatePlain
  <2>2. Mains' \subseteq Mains
    BY <1>0, <2>1 DEF Mains, Live, Typed
  <2> QED
    BY <2>1, <2>2, NoNewMain DEF Setting, At
<1>2. ASSUME NEW label \in {"found", "removing"}, Find(c, label) PROVE MainInv'
  <2>1. PICK b \in BranchIds, name \in Names :
          /\ req' = [req EXCEPT ![c] = [IdleRequest EXCEPT !.pc = label, !.on = b, !.name = name]]
          /\ branch' = branch
    BY <1>2 DEF Find, tables
  <2>2. Mains' = Mains /\ ~Setting(c)' /\ \A d \in Clients \ {c} : req'[d] = req[d]
    BY <1>0, <2>1 DEF Mains, Live, Setting, At, Typed, IdleRequest
  <2> QED
    BY <2>2, NoNewMain DEF Setting, At
<1>3. CASE StartMain(c)
  <2>1. PICK b \in BranchIds, name \in Names :
          /\ req' = [req EXCEPT ![c] = [IdleRequest EXCEPT
                       !.pc = "snapshot", !.on = b, !.name = name, !.seen = Mains]]
          /\ branch' = branch
    BY <1>3 DEF StartMain, tables
  <2>2. Mains' = Mains /\ req'[c].seen = Mains /\ \A d \in Clients \ {c} : req'[d] = req[d]
    BY <1>0, <2>1 DEF Mains, Live, Typed, IdleRequest
  <2> QED
    BY <2>2, NoNewMain DEF Setting, At
<1>4. CASE SelectMains(c)
  <2>1. req' = [req EXCEPT ![c] = [req[c] EXCEPT !.pc = "snapshot", !.seen = Mains \ {req[c].on}]]
        /\ branch' = branch
    BY <1>0, <1>4 DEF SelectMains, tables, Typed
  <2>2. /\ Mains' = Mains /\ req'[c].seen = Mains \ {req[c].on} /\ req'[c].on = req[c].on
        /\ \A d \in Clients \ {c} : req'[d] = req[d]
    BY <1>0, <2>1 DEF Mains, Live, Typed, Request
  <2> QED
    BY <2>2, NoNewMain DEF Setting, At
<1>5. CASE LockMains(c)
  <2>1. req' = [req EXCEPT ![c] = [req[c] EXCEPT !.pc = "locked", !.seen = req[c].seen \cap Mains]]
        /\ branch' = branch
    BY <1>0, <1>5 DEF LockMains, tables, Typed, Request
  <2>2. /\ Mains' = Mains /\ req'[c].seen = req[c].seen \cap Mains /\ req'[c].on = req[c].on
        /\ \A d \in Clients \ {c} : req'[d] = req[d]
    BY <1>0, <2>1 DEF Mains, Live, Typed, Request
  <2>3. Setting(c)
    BY <1>5 DEF LockMains, Setting
  <2> QED
    BY <2>2, <2>3, NoNewMain DEF Setting, At
<1>6. CASE UpdatePlain(c)
  <2>1. /\ req' = [req EXCEPT ![c] = IdleRequest]
        /\ \E main \in {FALSE, branch[req[c].on].isMain} :
             branch' = [branch EXCEPT ![req[c].on].name = req[c].name, ![req[c].on].isMain = main]
    BY <1>6 DEF UpdatePlain, Finish
  <2>2. /\ Mains' \subseteq Mains /\ ~Setting(c)' /\ \A d \in Clients \ {c} : req'[d] = req[d]
    <3>1. req[c].on \in BranchIds
      BY <1>0, <1>6 DEF UpdatePlain, InHand, At
    <3>2. PICK main \in {FALSE, branch[req[c].on].isMain} :
            branch' = [branch EXCEPT ![req[c].on] =
                         [branch[req[c].on] EXCEPT !.name = req[c].name, !.isMain = main]]
      BY <1>0, <2>1, <3>1 DEF Typed
    <3>3. LET row == [branch[req[c].on] EXCEPT !.name = req[c].name, !.isMain = main]
          IN  row.state = branch[req[c].on].state /\ row.isMain = main
      BY <1>0, <3>1 DEF Typed, BranchRow
    <3>4. Mains' \subseteq Mains
      BY <1>0, <3>1, <3>2, <3>3 DEF Mains, Live, Typed
    <3> QED
      BY <1>0, <2>1, <3>4 DEF Setting, At, IdleRequest, Typed
  <2> QED
    BY <2>2, NoNewMain DEF Setting, At
<1>7. CASE CountOrders(c)
  <2>1. /\ branch' = branch /\ ~Setting(c)' /\ \A d \in Clients \ {c} : req'[d] = req[d]
    BY <1>0, <1>7 DEF CountOrders, tables, Finish, Setting, At, IdleRequest, Typed, Request
  <2> QED
    BY <2>1, NoNewMain DEF Setting, At, Mains, Live
<1>8. CASE DeleteBranch(c)
  <2>1. /\ req' = [req EXCEPT ![c] = IdleRequest]
        /\ branch' = [branch EXCEPT ![req[c].on].state = "deleted"]
    BY <1>8 DEF DeleteBranch, Finish
  <2>2. Mains' \subseteq Mains /\ ~Setting(c)' /\ \A d \in Clients \ {c} : req'[d] = req[d]
    BY <1>0, <2>1 DEF Mains, Live, Setting, At, IdleRequest, Typed, BranchRow
  <2> QED
    BY <2>2, NoNewMain DEF Setting, At
<1> QED
  BY <1>1, <1>2, <1>3, <1>4, <1>5, <1>6, <1>7, <1>8, CommitMainBounded
  DEF BranchStep, FindForUpdate, FindForRemove

LEMMA MainInvStep == IInv /\ MainInv /\ [Next]_vars => MainInv'
<1> SUFFICES ASSUME IInv, MainInv, [Next]_vars PROVE MainInv'
  OBVIOUS
<1>0. Typed
  BY DEF IInv
<1>1. ASSUME NEW c \in Clients, OrderStep(c) \/ Fail(c) PROVE MainInv'
  <2>1. /\ branch' = branch
        /\ req'[c].pc \in {"branchChecked", "statusChecked", "idle"}
        /\ \A d \in Clients \ {c} : req'[d] = req[d]
    <3>1. CASE CheckBranch(c)
      BY <1>0, <3>1 DEF CheckBranch, tables, IdleRequest, Typed
    <3>2. CASE CheckStatus(c)
      BY <1>0, <3>2 DEF CheckStatus, tables, IdleRequest, Typed
    <3>3. CASE Finish(c) /\ branch' = branch
      BY <1>0, <3>3 DEF Finish, IdleRequest, Typed
    <3> QED
      BY <1>1, <3>1, <3>2, <3>3 DEF OrderStep, InsertOrder, CommitStatus, Fail, tables
  <2>2. ~Setting(c)' /\ \A d \in Clients \ {c} : req'[d] = req[d]
    BY <2>1 DEF Setting, At
  <2> QED
    BY <2>1, <2>2, NoNewMain DEF Setting, At, Mains, Live
<1>2. CASE UNCHANGED vars
  BY <1>2, NoNewMain DEF vars, Setting, At, Mains, Live
<1> QED
  BY <1>1, <1>2, BranchStepBounded DEF Next

(* The clients that may each leave a main branch bound their number, for   *)
(* any number of branches and clients: an injection of the main branches   *)
(* into the clients.                                                       *)
THEOREM MainsBounded == Spec => []MainsAreBounded
<1>1. Init => MainInv
  <2> SUFFICES ASSUME Init PROVE MainInv
    OBVIOUS
  <2>1. Mains = {} /\ \A c \in Clients : ~Setting(c)
    BY DEF Init, Mains, Live, NoBranch, Setting, At, IdleRequest
  <2>2. [b \in BranchIds |-> Nobody] \in [BranchIds -> Clients \cup {Nobody}]
    OBVIOUS
  <2> QED
    BY <2>1, <2>2 DEF MainInv, SetBy
<1>2. MainInv => MainsAreBounded
  <2> SUFFICES ASSUME MainInv PROVE Cardinality(Mains) <= Cardinality(Clients)
    BY DEF MainsAreBounded
  <2>1. PICK setter \in [BranchIds -> Clients \cup {Nobody}] : SetBy(setter)
    BY DEF MainInv
  <2> DEFINE f == [b \in Mains |-> setter[b]]
  <2>2. f \in Injection(Mains, Clients)
    BY <2>1 DEF SetBy, Injection, IsInjective
  <2> HIDE DEF f
  <2> QED
    BY <2>2, ClientsAssumption, FS_Injection
<1> QED
  BY <1>1, <1>2, MainInvStep, InvHolds, PTL DEF Spec
=============================================================================
