CONSTANTS
  Capacity = 2
  MaxPushes = 3
  MaxPush = 5
  ConsumerMayQuit = FALSE

SPECIFICATION FairSpec

INVARIANT DrainedWhenDone
PROPERTIES ProducerUnblocked BothFinish ImplementsFairStream
