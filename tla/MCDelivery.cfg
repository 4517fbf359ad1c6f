CONSTANTS
  Messages = {m1}
  NoMsg = NoMsg
  MaxRetries = 2
  QueueCapacity = 1
  MaxInFlight = 2
  MaxCrashes = 2
  DiskMayFail = TRUE
SPECIFICATION DeliveryFairSpec
INVARIANTS Durable RetriesInBudget AckMeansHandled
PROPERTIES PurgedForGood EventuallySettled
