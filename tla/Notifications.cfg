\* One event with up to three addresses (listeners share nothing but the
\* process), the three attempts of the SDK, two failing statements.
CONSTANTS
  Events = {e1}
  Addresses = {"ann", "bob", "cy"}
  MaxTries = 3
  MaxFaults = 2
SPECIFICATION MailSpec
INVARIANTS LogMatchesMail EverybodyHasAnOutcome
PROPERTY EveryListenerEnds
CHECK_DEADLOCK FALSE
