---------------------------- MODULE DeskReports -----------------------------
(***************************************************************************)
(* What the front desk reads in more than one statement, while the         *)
(* requests of Customers change the rows: the paged lists of customers     *)
(* (newest first) and of orders (urgency, then newest first), and the      *)
(* revenue and the repair statistics of AnalyticsService.  The other       *)
(* lists have the same two statements.                                     *)
(*                                                                         *)
(* newest, board  the customers and the orders in the order of their list. *)
(* walk           a reader who asks for page after page; statements are    *)
(*                those of the request not done yet, unseen the rows there *)
(*                since the walk began and not seen, moved and late what   *)
(*                excuses a miss.                                          *)
(* report         a report: the orders its first and its second statement  *)
(*                read, and those that went back, or changed, in between.  *)
(* Urgency is abstracted to the place on the board, a sum to the set of    *)
(* the orders it sums, and the dates to one month.                         *)
(***************************************************************************)
EXTENDS Customers, SequencesExt

CONSTANT Limit     \* rows of a page

ASSUME LimitAssumption == Limit \in Nat \ {0}

VARIABLES newest, board, walk, report

lists == <<newest, board>>
reads == <<walk, report>>
deskVars == <<vars, lists, reads>>

NoWalk == [list |-> "none", page |-> 1, statements |-> {}, total |-> 0, unseen |-> {},
           moved |-> FALSE, late |-> FALSE]
NoReport == [of |-> "none", pc |-> "none", first |-> {}, second |-> {},
             back |-> {}, changed |-> {}]

DeskInit == Init /\ newest = <<>> /\ board = <<>> /\ walk = NoWalk /\ report = NoReport

Rows(list) == CASE list = "customers" -> newest [] list = "orders" -> board [] OTHER -> <<>>

------------------------------------------------------------------------------
(* findAll: findMany with skip and take, and count, in one Promise.all.    *)

(* Bound: one client at a time reads, and does nothing else.               *)
StartAlone == \E c \in Clients : StartReading(c) /\ \A d \in Clients : ~At(d, "reading")
Stop == \E c \in Clients : StopReading(c)

Request(page) == [walk EXCEPT !.page = page, !.statements = {"findMany", "count"}, !.late = FALSE]

StartWalk ==
  /\ StartAlone
  /\ \E list \in {"customers", "orders"} :
       walk' = [Request(1) EXCEPT !.list = list, !.unseen = ToSet(Rows(list))]
  /\ UNCHANGED <<lists, report>>

(* Mutant of skip: the first page is skipped.                              *)
skipOnePage(page) == page * Limit

skip(page) == (page - 1) * Limit

FindMany ==
  LET rows == Rows(walk.list)
      data == {rows[i] : i \in DOMAIN rows \cap (skip(walk.page) + 1)..(skip(walk.page) + Limit)}
  IN  /\ "findMany" \in walk.statements
      /\ walk' = [walk EXCEPT !.statements = @ \ {"findMany"}, !.unseen = @ \ data]
      /\ UNCHANGED <<vars, lists, report>>

Count ==
  /\ "count" \in walk.statements
  /\ walk' = [walk EXCEPT !.statements = @ \ {"count"}, !.total = Len(Rows(walk.list))]
  /\ UNCHANGED <<vars, lists, report>>

(* pages: Math.ceil(total / limit)                                         *)
LastPage == walk.page * Limit >= walk.total

Answered == walk # NoWalk /\ walk.statements = {}

(* The reader goes on to the next page, or has read the last one.          *)
NextPage == Answered /\ ~LastPage /\ walk' = Request(walk.page + 1) /\ UNCHANGED <<vars, lists, report>>
EndWalk == Answered /\ LastPage /\ Stop /\ walk' = NoWalk /\ UNCHANGED <<lists, report>>

------------------------------------------------------------------------------
(* getRevenueSummary and getRepairStats: two statements each.  Both run in *)
(* getDashboardSummary at a time, and neither waits for the other.         *)

InState(states) == {o \in Orders : order[o].state \in states}
Completed == InState({"COMPLETED", "DELIVERED"})
Pending == InState({"active"})

ReadFirst(of, read) ==
  /\ StartAlone
  /\ report' = [NoReport EXCEPT !.of = of, !.pc = "first", !.first = read]
  /\ UNCHANGED <<lists, walk>>

ReadSecond(of, read) ==
  /\ report.of = of /\ report.pc = "first"
  /\ report' = [report EXCEPT !.pc = "second", !.second = read]
  /\ UNCHANGED <<vars, lists, walk>>

(* Mutant of getRevenueSummary: the pending orders are read first.         *)
PendingThenRevenue == ReadFirst("revenue", Pending) \/ ReadSecond("revenue", Completed)

(* The completed orders, then the pending ones.                            *)
getRevenueSummary == ReadFirst("revenue", Completed) \/ ReadSecond("revenue", Pending)

(* The count by status, then the average of the completed orders.          *)
getRepairStats == ReadFirst("stats", Completed) \/ ReadSecond("stats", Completed)

EndReport == report.pc = "second" /\ Stop /\ report' = NoReport /\ UNCHANGED <<lists, walk>>

------------------------------------------------------------------------------
(* The requests, with what they do to the lists and to the readers.        *)

Overtaken == walk.statements = {"findMany"}

(* create: the row is the newest one.                                      *)
InsertFirst(c) ==
  /\ InsertCustomer(c)
  /\ newest' = <<req[c].on>> \o newest
  /\ walk' = [walk EXCEPT !.late = @ \/ (walk.list = "customers" /\ Overtaken)]
  /\ UNCHANGED <<board, report>>

DeleteFromList(c) ==
  /\ DeleteCustomer(c)
  /\ IF customer' = customer THEN UNCHANGED <<newest, walk>> ELSE
       /\ \E i \in DOMAIN newest : newest[i] = req[c].on /\ newest' = RemoveAt(newest, i)
       /\ walk' = IF walk.list # "customers" THEN walk ELSE
                    [walk EXCEPT !.unseen = @ \ {req[c].on}, !.moved = TRUE]
  /\ UNCHANGED <<board, report>>

(* create: the order goes to the front of those of its urgency.            *)
InsertOnBoard(c) ==
  /\ InsertOrder(c)
  /\ \E o \in Orders, i \in 1..Len(board) + 1 :
       /\ order'[o] # order[o]
       /\ board' = InsertAt(board, i, o)
       /\ report' = [report EXCEPT !.changed = IF report.pc = "first" THEN @ \cup {o} ELSE @]
  /\ walk' = [walk EXCEPT !.late = @ \/ (walk.list = "orders" /\ Overtaken)]
  /\ UNCHANGED newest

ChangeOnBoard(c) ==
  /\ CommitStatus(c)
  /\ report' = IF report.pc # "first" THEN report ELSE
       [report EXCEPT !.changed = @ \cup {req[c].change.of},
                      !.back = @ \cup (Completed \ Completed')]
  /\ UNCHANGED <<lists, walk>>

(* RepairOrdersService.update with another urgency.                        *)
UpdateUrgency ==
  /\ \E i, j \in 1..Len(board) : i # j /\ board' = InsertAt(RemoveAt(board, i), j, board[i])
  /\ walk' = [walk EXCEPT !.moved = @ \/ walk.list = "orders"]
  /\ UNCHANGED <<vars, newest, report>>

Elsewhere(c) ==
  /\ \/ CheckPhone(c) \/ FindForUpdate(c) \/ CheckConflict(c) \/ UpdateCustomer(c)
     \/ FindForRemove(c) \/ CountOrders(c)
     \/ CheckCustomer(c) \/ CheckStatus(c) \/ Fail(c)
  /\ UNCHANGED <<lists, reads>>

WriteStep ==
  \/ \E c \in Clients : InsertFirst(c) \/ DeleteFromList(c) \/ InsertOnBoard(c) \/ ChangeOnBoard(c)
                        \/ Elsewhere(c)
  \/ UpdateUrgency

ReadStep ==
  \/ StartWalk \/ FindMany \/ Count \/ NextPage \/ EndWalk
  \/ getRevenueSummary \/ getRepairStats \/ EndReport

DeskNext == WriteStep \/ ReadStep

DeskSpec == DeskInit /\ [][DeskNext]_deskVars

------------------------------------------------------------------------------

(* A reader who goes to the last page has seen every row that was there    *)
(* all the time, unless a row was deleted or moved meanwhile (it slips     *)
(* past the pages) or was inserted, in the last request, after its count   *)
(* and before its rows (the last row is on a page not announced).          *)
PagesMissNothing ==
  Answered /\ LastPage => walk.unseen = {} \/ walk.moved \/ walk.late

(* At its second read: an order is counted as revenue and as pending only  *)
(* when an overtaken changeStatus took it back from COMPLETED between the  *)
(* reads, and in neither (though it is not cancelled) only when it changed *)
(* between them; and the average covers every order counted as completed,  *)
(* unless it was taken back.                                               *)
RevenueCountsOnce ==
  [][report.pc = "first" /\ report'.pc = "second" =>
       IF report.of = "revenue"
       THEN /\ report'.first \cap report'.second \subseteq report.back
            /\ (Completed \cup Pending) \ (report'.first \cup report'.second) \subseteq report.changed
       ELSE report'.first \ report'.second \subseteq report.back]_deskVars
==============================================================================
