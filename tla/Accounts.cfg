\* Two requests at a time about one address, which two companies invite and for
\* which a third is registered.
CONSTANTS
  c1 = c1  c2 = c2  c3 = c3
  Emails = {"ann"}
  Companies = {c1, c2, c3}
  Founded = {c1, c2}
  Handlers = {h1, h2}
  MaxInvitations = 2
  MaxLinks = 2
  MaxAttempts = 3
  LOCKOUT_THRESHOLD = 2
SPECIFICATION Spec
SYMMETRY Symmetry
INVARIANTS InvitationsMatchMembers DuplicatesOverlap NewestLinkWorks FailuresAreForgotten
CHECK_DEADLOCK FALSE
