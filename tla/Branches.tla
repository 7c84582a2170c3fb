------------------------------ MODULE Branches -------------------------------
(***************************************************************************)
(* BranchesService (create, update, remove) of one company together with   *)
(* the handlers of RepairOrdersService that touch a branch: create, which  *)
(* checks the branch before it inserts the order, and changeStatus, which  *)
(* decides whether an order is active.                                     *)
(*                                                                         *)
(* branch[b]  the branches row: absent, live or (soft) deleted.            *)
(* order[o]   a repair order: the branch it is in and whether its status   *)
(*            is active, i.e. neither DELIVERED nor CANCELLED; history:    *)
(*            late, it became active when its branch had been removed or a *)
(*            removal had already counted the orders of the branch.        *)
(* req[c]     the request of client c: what its handler has read, and for  *)
(*            a transaction that sets the main branch the rows its first   *)
(*            statement selected (seen) and has locked.                    *)
(***************************************************************************)
EXTENDS FiniteSets, Naturals

CONSTANTS
  BranchIds, Names, Clients,
  Orders      \* bound: the orders that may be created

ASSUME ClientsAssumption == IsFiniteSet(Clients)

VARIABLES branch, order, req

tables == <<branch, order>>
vars == <<branch, order, req>>

Nobody == "none"

NoBranch == [state |-> "absent", name |-> Nobody, isMain |-> FALSE]
NoOrder == [state |-> "absent", branch |-> Nobody, late |-> FALSE]
IdleRequest == [pc |-> "idle", on |-> Nobody, name |-> Nobody, seen |-> {}, to |-> Nobody]

Labels == {"idle", "found", "snapshot", "locked", "removing", "counted",
           "branchChecked", "statusChecked"}

Init ==
  /\ branch = [b \in BranchIds |-> NoBranch]
  /\ order = [o \in Orders |-> NoOrder]
  /\ req = [c \in Clients |-> IdleRequest]

At(c, label) == req[c].pc = label
Finish(c) == req' = [req EXCEPT ![c] = IdleRequest]

Live(b) == branch[b].state = "live"
Mains == {b \in BranchIds : Live(b) /\ branch[b].isMain}
ActiveOrders(b) == {o \in Orders : order[o].state = "active" /\ order[o].branch = b}

(* It is too late for a removal of the branch to count another order.      *)
TooLateFor(b) ==
  \/ branch[b].state = "deleted"
  \/ \E c \in Clients : At(c, "counted") /\ req[c].on = b

(* The unique index on (company_id, name) also counts deleted rows.        *)
NameTaken(name, b) ==
  \E a \in BranchIds \ {b} : branch[a].state # "absent" /\ branch[a].name = name

(* The rows a transaction that sets the main branch has updated and not    *)
(* yet committed.                                                          *)
LockedByAnother(c, rows) ==
  \E d \in Clients \ {c} : At(d, "locked") /\ req[d].seen \cap rows # {}

(* create without isMain: one insert; P2002 becomes a 409.                 *)
CreatePlain(c) ==
  \E b \in BranchIds, name \in Names :
    /\ At(c, "idle")
    /\ branch[b].state = "absent"
    /\ ~NameTaken(name, b)
    /\ branch' = [branch EXCEPT ![b] = [state |-> "live", name |-> name, isMain |-> FALSE]]
    /\ UNCHANGED <<order, req>>

(* findOrThrow of update and remove.                                       *)
Find(c, label) ==
  \E b \in BranchIds, name \in Names :
    /\ At(c, "idle")
    /\ Live(b)
    /\ req' = [req EXCEPT ![c] = [IdleRequest EXCEPT !.pc = label, !.on = b, !.name = name]]
    /\ UNCHANGED tables

FindForUpdate(c) == Find(c, "found")
FindForRemove(c) == Find(c, "removing")

(* create with isMain starts with a free id and a new name.                *)
StartMain(c) ==
  \E b \in BranchIds, name \in Names :
    /\ At(c, "idle")
    /\ branch[b].state = "absent"
    /\ \A d \in Clients : req[d].on # b
    /\ req' = [req EXCEPT ![c] = [IdleRequest EXCEPT
                 !.pc = "snapshot", !.on = b, !.name = name, !.seen = Mains]]
    /\ UNCHANGED tables

(* update with isMain: its updateMany selects the committed main branches  *)
(* but its own.                                                            *)
SelectMains(c) ==
  /\ At(c, "found")
  /\ req' = [req EXCEPT ![c].pc = "snapshot", ![c].seen = Mains \ {req[c].on}]
  /\ UNCHANGED tables

(* updateMany waits for the rows another transaction has updated, then     *)
(* checks its condition again on what that one committed; branches that    *)
(* became main since are not in its snapshot.                              *)
LockMains(c) ==
  /\ At(c, "snapshot")
  /\ ~LockedByAnother(c, req[c].seen)
  /\ req' = [req EXCEPT ![c].pc = "locked", ![c].seen = @ \cap Mains]
  /\ UNCHANGED tables

(* Mutant of CommitMain: the branch is set without unsetting the others.   *)
CommitMainOnly(c) ==
  LET b == req[c].on
  IN  /\ At(c, "locked") /\ ~NameTaken(req[c].name, b)
      /\ branch' = [branch EXCEPT ![b] = [state |-> "live", name |-> req[c].name,
                                          isMain |-> TRUE]]
      /\ Finish(c)
      /\ UNCHANGED order

(* The second statement, the insert or the update by id, and the commit.   *)
(* An updated branch may have been deleted since it was found.  A taken    *)
(* name rolls everything back: see Fail.                                   *)
CommitMain(c) ==
  LET b == req[c].on
  IN  /\ At(c, "locked")
      /\ ~NameTaken(req[c].name, b)
      /\ ~LockedByAnother(c, {b})
      /\ branch' = [a \in BranchIds |->
           IF a = b
           THEN [state |-> IF branch[b].state = "absent" THEN "live" ELSE branch[b].state,
                 name |-> req[c].name, isMain |-> TRUE]
           ELSE [branch[a] EXCEPT !.isMain = @ /\ a \notin req[c].seen]]
      /\ Finish(c)
      /\ UNCHANGED order

(* update without isMain: name and perhaps isMain: false, by id.           *)
UpdatePlain(c) ==
  LET b == req[c].on
  IN  /\ At(c, "found")
      /\ ~NameTaken(req[c].name, b)
      /\ ~LockedByAnother(c, {b})
      /\ \E main \in {FALSE, branch[b].isMain} :
           branch' = [branch EXCEPT ![b].name = req[c].name, ![b].isMain = main]
      /\ Finish(c)
      /\ UNCHANGED order

(* Mutant of CountOrders: the orders are not counted.                      *)
CountNoOrders(c) ==
  /\ At(c, "removing")
  /\ req' = [req EXCEPT ![c].pc = "counted"]
  /\ UNCHANGED tables

(* remove: refuses while the branch has active orders ...                  *)
CountOrders(c) ==
  /\ At(c, "removing")
  /\ IF ActiveOrders(req[c].on) = {}
     THEN req' = [req EXCEPT ![c].pc = "counted"]
     ELSE Finish(c)
  /\ UNCHANGED tables

(* ... and soft-deletes it by id.                                          *)
DeleteBranch(c) ==
  LET b == req[c].on
  IN  /\ At(c, "counted")
      /\ ~LockedByAnother(c, {b})
      /\ branch' = [branch EXCEPT ![b].state = "deleted"]
      /\ Finish(c)
      /\ UNCHANGED order

(* RepairOrdersService.create: the branch is live ...                      *)
CheckBranch(c) ==
  \E b \in BranchIds :
    /\ At(c, "idle")
    /\ Live(b)
    /\ req' = [req EXCEPT ![c] = [IdleRequest EXCEPT !.pc = "branchChecked", !.on = b]]
    /\ UNCHANGED tables

(* ... and later the order is inserted; the foreign key only asks for the  *)
(* row, and a soft-deleted branch is still a row.                          *)
InsertOrder(c) ==
  /\ At(c, "branchChecked")
  /\ \E o \in Orders :
       /\ order[o] = NoOrder
       /\ order' = [order EXCEPT ![o] = [state |-> "active", branch |-> req[c].on,
                                      late |-> TooLateFor(req[c].on)]]
  /\ Finish(c)
  /\ UNCHANGED branch

(* changeStatus: an active order, by what was read, moves on or is closed. *)
CheckStatus(c) ==
  \E o \in Orders, to \in {"active", "closed"} :
    /\ At(c, "idle")
    /\ order[o].state = "active"
    /\ req' = [req EXCEPT ![c] = [IdleRequest EXCEPT
                 !.pc = "statusChecked", !.on = o, !.to = to]]
    /\ UNCHANGED tables

CommitStatus(c) ==
  /\ At(c, "statusChecked")
  /\ LET o == req[c].on
     IN  order' = [order EXCEPT
           ![o].state = req[c].to,
           ![o].late = IF order[o].state = "active" THEN @ ELSE TooLateFor(order[o].branch)]
  /\ Finish(c)
  /\ UNCHANGED branch

(* A statement or transaction fails: P2002, a deadlock, a timeout, a crash.*)
Fail(c) ==
  /\ ~At(c, "idle")
  /\ Finish(c)
  /\ UNCHANGED tables

BranchStep(c) ==
  \/ CreatePlain(c) \/ FindForUpdate(c) \/ FindForRemove(c) \/ StartMain(c)
  \/ SelectMains(c) \/ LockMains(c) \/ CommitMain(c) \/ UpdatePlain(c)
  \/ CountOrders(c) \/ DeleteBranch(c)

OrderStep(c) == CheckBranch(c) \/ InsertOrder(c) \/ CheckStatus(c) \/ CommitStatus(c)

Next == \E c \in Clients : BranchStep(c) \/ OrderStep(c) \/ Fail(c)

Spec == Init /\ [][Next]_vars

------------------------------------------------------------------------------

TypeOK ==
  /\ branch \in [BranchIds -> [state : {"absent", "live", "deleted"},
                               name : Names \cup {Nobody}, isMain : BOOLEAN]]
  /\ order \in [Orders -> [state : {"absent", "active", "closed"},
                           branch : BranchIds \cup {Nobody}, late : BOOLEAN]]
  /\ \A c \in Clients : req[c].pc \in Labels /\ req[c].seen \subseteq BranchIds

(* Nothing but the transactions that set a main branch keeps a company to  *)
(* one: those that overlap do not see the branches the others make main,   *)
(* and all of them stay.  That is all that can go wrong, however long it   *)
(* goes on and whatever is removed meanwhile: the main branches are never  *)
(* more than the clients, since each of these clears away what it did      *)
(* before.  A company with one client has at most one.                     *)
MainsAreBounded == Cardinality(Mains) <= Cardinality(Clients)

(* A branch with active orders is not removed: an active order in a branch *)
(* that was removed is one that no removal could have counted, because it  *)
(* was inserted, or its status set again, after the count.                 *)
NoOrderLeftBehind ==
  \A b \in BranchIds : branch[b].state = "deleted" =>
    \A o \in ActiveOrders(b) : order[o].late
==============================================================================
