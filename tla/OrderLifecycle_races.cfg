\* Two clients change, edit and comment the same order at the same time, give it
\* an image and take it away.
CONSTANTS
  o1 = o1  s1 = s1  s2 = s2
  Orders = {o1}
  Staff = {s1, s2}
  Handles <- Shared
  Ops = {"changeStatus", "update", "addComment", "addImage", "removeImage", "findByToken"}
  Details = {}
  Images = {"i1"}
  MaxHistory = 5
SPECIFICATION Spec
SYMMETRY ClientSymmetry
INVARIANTS HistoryEndsAtStatus HistoryRowsAllowed StampsOnRecord EventsFollowHistory
  TrackingViewIsConsistent
PROPERTY ClosedOrdersRest
CHECK_DEADLOCK FALSE
