\* One subscription, two deliveries at a time, one admin.
CONSTANTS
  Subscriptions = {s1}
  Customers = {k1}
  Plans = {"basic", "pro"}
  Unlisted = {"legacy"}
  Handlers = {h1, h2}
  Clients = {c1}
  MaxEvents = 3
  MaxCrashes = 1
SPECIFICATION Spec
INVARIANTS TypeOK RowFollowsStripe CheckoutIsRecorded
PROPERTY EveryEventIsProcessed
CHECK_DEADLOCK FALSE
