CONSTANTS
  PROC_NUM_MAX = 6
  IdleProcs = {1}
  Daemons = {3, 4}
  NumElf = 1
  SendsTo <- MCSendsTo
  NotifiesTo <- MCNotifiesTo
  ReceivesFrom <- MCReceivesFrom
  Payload = {m1, m2}
  SLICE = 2
SPECIFICATION FairSpec
INVARIANTS TypeOK NoHalt OneRunning ResumedIpcDone QueueExact BlockedWaits NoMissedMessage
PROPERTIES ImplementsRendezvous NoStarvation
