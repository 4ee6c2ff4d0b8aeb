CONSTANTS
  PROC_NUM_MAX = 6
  IdleProcs = {1}
  Daemons = {4,5}
  NumElf = 2
  SendsTo <- TwoUserSends
  NotifiesTo <- TwoUserNotifies
  ReceivesFrom <- TwoUserReceives
  Payload = {m1}
  SLICE = 1
SPECIFICATION Spec
INVARIANT BlockedSendersQueued
