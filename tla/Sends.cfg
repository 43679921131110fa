\* One message, two attempts before and two after a 401 (the code has three),
\* two deliveries of each echo and one crash.
SPECIFICATION FairSpec
CONSTANTS
  Calls = {m1}
  Idempotent = {}
  MaxRetries = 2
  MaxDeliveries = 2
  MaxCrashes = 1
INVARIANTS TypeOK AnsweredIsLast ShownOnce CopiesAreExplained PendingHasOwner
PROPERTIES CallPromise SendsEnd
CHECK_DEADLOCK FALSE
