\* Three creators of one company and one of another; two attempts each, so that
\* three creators reach the limit.  Liveness and refinement.
CONSTANTS
  c1 = c1  c2 = c2
  r1 = r1  r2 = r2  r3 = r3  r4 = r4
  Companies = {c1, c2}
  Requests = {r1, r2, r3, r4}
  CompanyOf <- TwoCompanies
  MaxAttempts = 2
SPECIFICATION FolioSpec
INVARIANTS FoliosAreDense OneOrderPerRequest GivesUpOnlyUnderContention
PROPERTIES EveryCreateEnds RefinesRegister
CHECK_DEADLOCK FALSE
