\* Two requests at a time: sessions, passwords and resets.
CONSTANTS
  CallHandlers = {h1, h2}
  MaxTime = 4
  MaxResets = 3
  MaxEpoch = 2
SPECIFICATION SessionSpec
SYMMETRY HandlerSymmetry
INVARIANTS RevokedSessionsEnd ExchangedOnce NewestResetOnly
PROPERTY RevokedStaysRevoked
CHECK_DEADLOCK FALSE
