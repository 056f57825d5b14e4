CONSTANTS
  Capacity = 2
  MaxPushes = 3
  MaxPush = 5
  ConsumerMayQuit = TRUE

SPECIFICATION Spec

INVARIANTS TypeOK NothingLost StateMatchesBuffer NoLostWakeup
PROPERTIES ClosedForGood ImplementsStream
