---------------------------- MODULE OrderLifecycle ----------------------------
(***************************************************************************)
(* RepairOrdersService after creation: changeStatus, update, addComment,   *)
(* addImage, removeImage and the public findByToken, called by the staff   *)
(* of a company at the same time.  Every handler first reads the order     *)
(* (findOrderOrThrow), decides on what it read, and writes in a later      *)
(* statement or transaction that does not look again.                      *)
(*                                                                         *)
(* order[o]    the repair_orders row; status NoStatus before it is created.*)
(*             approvedAt and completedAt say whether the column is set,   *)
(*             details stands for the editable columns.                    *)
(* history[o]  its status-history rows, in commit order.                   *)
(* comments[o] its comment rows.                                           *)
(* images[i]   the order an image row belongs to; image ids are not reused.*)
(* event       the domain event this step handed to the event emitter.     *)
(* req[s]      the request staff member s is waiting for: its handler's    *)
(*             control point and what the handler read.                    *)
(* view        the answer findByToken gave in this step.                   *)
(***************************************************************************)
EXTENDS Naturals, Sequences, SequencesExt, RepairStatuses

CONSTANTS
  Orders,       \* order ids
  Staff,        \* clients; each has one request outstanding at most
  Handles,      \* the orders a staff member works on
  Ops,          \* the operations in use
  Details,      \* values of the editable columns
  Images,       \* image ids
  MaxHistory    \* bound: no status change is requested beyond it

ASSUME HandlesAssumption == Handles \in [Staff -> SUBSET Orders]
ASSUME MaxHistoryAssumption == MaxHistory \in Nat

VARIABLES order, history, comments, images, event, view, req

tables == <<order, history, comments, images>>
vars == <<order, history, comments, images, event, view, req>>

Unset == "unset"
Deleted == "deleted"

OrderRow ==
  [status : RepairStatus \cup {NoStatus}, isApproved : BOOLEAN,
   approvedAt : BOOLEAN, completedAt : BOOLEAN, details : Details \cup {Unset}]

HistoryRow == [previous : RepairStatus \cup {NoStatus}, new : RepairStatus]

Comment == [note : {"note", "message"}, internal : BOOLEAN]

NoOrder == [status |-> NoStatus, isApproved |-> FALSE, approvedAt |-> FALSE,
            completedAt |-> FALSE, details |-> Unset]

Exists(o) == order[o].status # NoStatus

Labels == {"idle", "statusChecked", "statusCommitted", "updateChecked",
           "commentChecked", "imageChecked", "removeChecked", "imageFound",
           "statusShown"}

(* status, isApproved: what the handler has read and still uses;           *)
(* to, note: ChangeStatusDto; approve, details: UpdateRepairOrderDto;      *)
(* image: the image to delete.                                             *)
IdleRequest == [pc |-> "idle", on |-> Unset, status |-> NoStatus, isApproved |-> FALSE,
                to |-> NoStatus, note |-> FALSE, approve |-> Unset, details |-> Unset,
                image |-> Unset]

Init ==
  /\ order = [o \in Orders |-> NoOrder]
  /\ history = [o \in Orders |-> <<>>]
  /\ comments = [o \in Orders |-> {}]
  /\ images = [i \in Images |-> Unset]
  /\ event = {}
  /\ view = {}
  /\ req = [s \in Staff |-> IdleRequest]

At(s, label) == req[s].pc = label

Silent == event' = {} /\ view' = {}

Finish(s) == req' = [req EXCEPT ![s] = IdleRequest]

(* findOrderOrThrow: s starts op on an order that exists; when it does     *)
(* not, or the handler rejects what it read, the request ends there and    *)
(* has changed nothing.                                                    *)
Reads(s, op, o) ==
  /\ op \in Ops
  /\ At(s, "idle")
  /\ o \in Handles[s]
  /\ Exists(o)

Holds(s, label, o) == [IdleRequest EXCEPT !.pc = label, !.on = o]

(* createWithFolioRetry as its callers see it (FolioRegister): the order   *)
(* and its first history row appear together.                              *)
Create(o) ==
  /\ ~Exists(o)
  /\ order' = [order EXCEPT ![o].status = "PENDING"]
  /\ history' = [history EXCEPT ![o] = <<[previous |-> NoStatus, new |-> "PENDING"]>>]
  /\ UNCHANGED <<comments, images, req>>
  /\ Silent

(* changeStatus: the read and isTransitionAllowed.                         *)
CheckStatus(s) ==
  \E o \in Orders, to \in RepairStatus, note \in BOOLEAN :
    /\ Reads(s, "changeStatus", o)
    /\ Len(history[o]) < MaxHistory
    /\ IsTransitionAllowed(order[o].status, to)
    /\ note => "addComment" \in Ops
    /\ req' = [req EXCEPT ![s] = [Holds(s, "statusChecked", o)
                                    EXCEPT !.status = order[o].status, !.to = to, !.note = note]]
    /\ UNCHANGED tables
    /\ Silent

(* statusUpdates, applied to the row as it is now.                         *)
WithStatus(row, to) ==
  [row EXCEPT !.status = to,
              !.isApproved = @ \/ to = "APPROVED",
              !.approvedAt = @ \/ to = "APPROVED",
              !.completedAt = @ \/ to = "COMPLETED"]

(* Mutants of CommitStatus: the history row takes the status the order has *)
(* now, or the update is skipped when the status has changed meanwhile but *)
(* the history row is still written.                                       *)
CommitWith(s, row, previous) ==
  LET o == req[s].on
  IN  /\ At(s, "statusChecked")
      /\ order' = [order EXCEPT ![o] = row]
      /\ history' = [history EXCEPT ![o] =
                       Append(@, [previous |-> previous, new |-> req[s].to])]
      /\ req' = [req EXCEPT ![s].pc = "statusCommitted"]
      /\ UNCHANGED <<comments, images>>
      /\ Silent
CommitStatusReread(s) ==
  LET o == req[s].on
  IN  CommitWith(s, WithStatus(order[o], req[s].to), order[o].status)
CommitStatusIfUnchanged(s) ==
  LET o == req[s].on
  IN  CommitWith(s, IF order[o].status = req[s].status
                    THEN WithStatus(order[o], req[s].to) ELSE order[o],
                 req[s].status)

(* The transaction of changeStatus: an update by id, the history row with  *)
(* the status that was read, the optional internal note.                   *)
CommitStatus(s) ==
  LET o == req[s].on  to == req[s].to
  IN  /\ At(s, "statusChecked")
      /\ order' = [order EXCEPT ![o] = WithStatus(@, to)]
      /\ history' = [history EXCEPT ![o] =
                       Append(@, [previous |-> req[s].status, new |-> to])]
      /\ comments' = IF req[s].note
                     THEN [comments EXCEPT ![o] = @ \cup {[note |-> "note", internal |-> TRUE]}]
                     ELSE comments
      /\ req' = [req EXCEPT ![s].pc = "statusCommitted"]
      /\ UNCHANGED <<images>>
      /\ Silent

EventOf(to) ==
  CASE to = "WAITING_APPROVAL" -> "APPROVAL_REQUESTED"
    [] to = "COMPLETED"        -> "COMPLETED"
    [] OTHER                   -> "STATUS_CHANGED"

(* What the event of a request says.                                       *)
RepairEvent(s) ==
  [kind |-> EventOf(req[s].to), on |-> req[s].on,
   previous |-> req[s].status, new |-> req[s].to]

(* Mutant of EmitStatus: the event is emitted before the transaction.      *)
EmitBeforeCommit(s) ==
  /\ At(s, "statusChecked")
  /\ event' = {RepairEvent(s)}
  /\ view' = {}
  /\ UNCHANGED <<tables, req>>

(* eventEmitter.emit, after the transaction.                               *)
EmitStatus(s) ==
  /\ At(s, "statusCommitted")
  /\ event' = {RepairEvent(s)}
  /\ Finish(s)
  /\ view' = {}
  /\ UNCHANGED tables

(* Mutant of CheckUpdate: no check of the status.                          *)
CheckUpdateAnyStatus(s) ==
  \E o \in Orders, approve \in {"yes", "no", Unset}, d \in Details \cup {Unset} :
    /\ Reads(s, "update", o)
    /\ req' = [req EXCEPT ![s] = [Holds(s, "updateChecked", o)
                                    EXCEPT !.isApproved = order[o].isApproved,
                                           !.approve = approve, !.details = d]]
    /\ UNCHANGED tables
    /\ Silent

(* update: the read and the check of the final statuses.                   *)
CheckUpdate(s) ==
  \E o \in Orders, approve \in {"yes", "no", Unset}, d \in Details \cup {Unset} :
    /\ Reads(s, "update", o)
    /\ ~IsTerminal(order[o].status)
    /\ req' = [req EXCEPT ![s] = [Holds(s, "updateChecked", o)
                                    EXCEPT !.isApproved = order[o].isApproved,
                                           !.approve = approve, !.details = d]]
    /\ UNCHANGED tables
    /\ Silent

(* Mutant of CommitUpdate: withdrawing the approval clears its date.       *)
CommitUpdateClearing(s) ==
  LET o == req[s].on  approve == req[s].approve
  IN  /\ At(s, "updateChecked")
      /\ approve # Unset
      /\ order' = [order EXCEPT ![o].isApproved = approve = "yes",
                                ![o].approvedAt = approve = "yes"]
      /\ Finish(s)
      /\ UNCHANGED <<history, comments, images>>
      /\ Silent

(* ...dto, and approvedAt when this request approves what was not approved *)
(* when it was read.                                                       *)
CommitUpdate(s) ==
  LET o == req[s].on  approve == req[s].approve
  IN  /\ At(s, "updateChecked")
      /\ order' = [order EXCEPT
           ![o].details = IF req[s].details = Unset THEN @ ELSE req[s].details,
           ![o].isApproved = IF approve = Unset THEN @ ELSE approve = "yes",
           ![o].approvedAt = @ \/ (approve = "yes" /\ ~req[s].isApproved)]
      /\ Finish(s)
      /\ UNCHANGED <<history, comments, images>>
      /\ Silent

CheckComment(s) ==
  \E o \in Orders :
    /\ Reads(s, "addComment", o)
    /\ req' = [req EXCEPT ![s] = Holds(s, "commentChecked", o)]
    /\ UNCHANGED tables
    /\ Silent

AddComment(s) ==
  /\ At(s, "commentChecked")
  /\ \E internal \in BOOLEAN :
       comments' = [comments EXCEPT ![req[s].on] =
                      @ \cup {[note |-> "message", internal |-> internal]}]
  /\ Finish(s)
  /\ UNCHANGED <<order, history, images>>
  /\ Silent

CheckImage(s) ==
  \E o \in Orders :
    /\ Reads(s, "addImage", o)
    /\ req' = [req EXCEPT ![s] = Holds(s, "imageChecked", o)]
    /\ UNCHANGED tables
    /\ Silent

AddImage(s) ==
  /\ At(s, "imageChecked")
  /\ \E i \in Images :
       /\ images[i] = Unset
       /\ images' = [images EXCEPT ![i] = req[s].on]
  /\ Finish(s)
  /\ UNCHANGED <<order, history, comments>>
  /\ Silent

CheckRemoveImage(s) ==
  \E o \in Orders, i \in Images :
    /\ Reads(s, "removeImage", o)
    /\ req' = [req EXCEPT ![s] = [Holds(s, "removeChecked", o) EXCEPT !.image = i]]
    /\ UNCHANGED tables
    /\ Silent

(* findFirst({ id: imageId, orderId: id }): 404 unless the image is there. *)
FindImage(s) ==
  /\ At(s, "removeChecked")
  /\ IF images[req[s].image] = req[s].on
     THEN req' = [req EXCEPT ![s].pc = "imageFound"]
     ELSE Finish(s)
  /\ UNCHANGED tables
  /\ Silent

(* delete({ where: { id } }) of an image that is gone raises P2025: the    *)
(* request fails and nothing changes.                                      *)
DeleteImage(s) ==
  /\ At(s, "imageFound")
  /\ images' = [images EXCEPT ![req[s].image] = Deleted]
  /\ Finish(s)
  /\ UNCHANGED <<order, history, comments>>
  /\ Silent

(* findByToken: Prisma loads the order, then its relations, in separate    *)
(* statements outside a transaction.                                       *)
TrackStatus(s) ==
  \E o \in Orders :
    /\ Reads(s, "findByToken", o)
    /\ req' = [req EXCEPT ![s] = [Holds(s, "statusShown", o)
                                    EXCEPT !.status = order[o].status]]
    /\ UNCHANGED tables
    /\ Silent

(* Mutant of TrackTimeline: every comment is returned.                     *)
TrackTimelineUnfiltered(s) ==
  /\ At(s, "statusShown")
  /\ view' = {[status |-> req[s].status,
               timeline |-> {h.new : h \in Range(history[req[s].on])},
               comments |-> comments[req[s].on]]}
  /\ Finish(s)
  /\ event' = {}
  /\ UNCHANGED tables

TrackTimeline(s) ==
  /\ At(s, "statusShown")
  /\ view' = {[status |-> req[s].status,
               timeline |-> {h.new : h \in Range(history[req[s].on])},
               comments |-> {c \in comments[req[s].on] : ~c.internal}]}
  /\ Finish(s)
  /\ event' = {}
  /\ UNCHANGED tables

(* The statement or the transaction fails, or the process dies: what was   *)
(* not committed is rolled back, an event that was not emitted is lost.    *)
Fail(s) ==
  /\ ~At(s, "idle")
  /\ Finish(s)
  /\ UNCHANGED tables
  /\ Silent

StatusStep(s) == CheckStatus(s) \/ CommitStatus(s) \/ EmitStatus(s)
UpdateStep(s) == CheckUpdate(s) \/ CommitUpdate(s)
CommentStep(s) == CheckComment(s) \/ AddComment(s)
ImageStep(s) == \/ CheckImage(s) \/ AddImage(s)
                \/ CheckRemoveImage(s) \/ FindImage(s) \/ DeleteImage(s)
TrackStep(s) == TrackStatus(s) \/ TrackTimeline(s)

Next ==
  \/ \E o \in Orders : Create(o)
  \/ \E s \in Staff : \/ StatusStep(s) \/ UpdateStep(s) \/ CommentStep(s)
                      \/ ImageStep(s) \/ TrackStep(s) \/ Fail(s)

Spec == Init /\ [][Next]_vars

------------------------------------------------------------------------------

TypeOK ==
  /\ order \in [Orders -> OrderRow]
  /\ \A o \in Orders : \A i \in 1..Len(history[o]) : history[o][i] \in HistoryRow
  /\ comments \in [Orders -> SUBSET Comment]
  /\ images \in [Images -> Orders \cup {Unset, Deleted}]
  /\ \A s \in Staff : /\ req[s].pc \in Labels
                      /\ ~At(s, "idle") => req[s].on \in Orders

(* The timeline never contradicts the order: the last committed history    *)
(* row names the status the order has, also when two changes race, because *)
(* changeStatus updates the row and appends the history in one transaction *)
(* and the row lock orders those transactions.                             *)
HistoryEndsAtStatus ==
  \A o \in Orders :
    IF Exists(o)
    THEN history[o] # <<>> /\ Last(history[o]).new = order[o].status
    ELSE history[o] = <<>>

(* Every history row is the creation or a transition the state machine     *)
(* allows, whatever happened to the order between the check of             *)
(* changeStatus and its transaction.                                       *)
HistoryRowsAllowed ==
  \A o \in Orders : \A i \in 1..Len(history[o]) :
    LET h == history[o][i]
    IN  IF i = 1 THEN h = [previous |-> NoStatus, new |-> "PENDING"]
        ELSE h.previous # NoStatus /\ IsTransitionAllowed(h.previous, h.new)

(* The statuses that are only reached through an approval.                 *)
Approved == {"APPROVED", "IN_PROGRESS", "WAITING_PARTS", "COMPLETED", "DELIVERED"}

(* No repair without an approval on record: an order that is approved, in  *)
(* progress, completed or delivered has its approvedAt, however changes of *)
(* status and updates of isApproved race, and so has one whose isApproved  *)
(* is set.  The COMPLETED and DELIVERED ones have completedAt, which the   *)
(* revenue report selects by.                                              *)
StampsOnRecord ==
  \A o \in Orders :
    /\ order[o].status \in Approved \/ order[o].isApproved => order[o].approvedAt
    /\ order[o].status \in {"COMPLETED", "DELIVERED"} => order[o].completedAt

(* An event is about something that happened: the listeners only mail a    *)
(* customer about a change that is in the order's history, although the    *)
(* event is emitted outside the transaction that may fail.                 *)
EventsFollowHistory ==
  \A e \in event :
    /\ [previous |-> e.previous, new |-> e.new] \in Range(history[e.on])
    /\ e.kind = "COMPLETED" <=> e.new = "COMPLETED"

(* What a customer sees on the public page is consistent although it is    *)
(* read in several statements while the staff work: the status shown is in *)
(* the timeline shown, and no internal comment is.                         *)
TrackingViewIsConsistent ==
  \A v \in view :
    /\ v.status \in v.timeline
    /\ \A c \in v.comments : ~c.internal

(* A closed order rests: once it is delivered or cancelled and no request  *)
(* that was let in before is still under way, it is neither moved nor      *)
(* edited, by anybody, ever again.                                         *)
AtRest(o) ==
  /\ IsTerminal(order[o].status)
  /\ \A s \in Staff : At(s, "statusChecked") \/ At(s, "updateChecked") => req[s].on # o

ClosedOrdersRest ==
  [][\A o \in Orders : AtRest(o) => AtRest(o)' /\ order'[o] = order[o]]_vars
==============================================================================
