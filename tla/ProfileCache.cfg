\* Two requests at a time; a user, a company and the plans, written twice each.
CONSTANTS
  Users = {"user"}
  Companies = {"company"}
  PlanLists = {"plans"}
  Handlers = {h1, h2}
  MaxVersion = 3
SPECIFICATION Spec
INVARIANT StaleHasCause
PROPERTY EventuallyFresh
CHECK_DEADLOCK FALSE
