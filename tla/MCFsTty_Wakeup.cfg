CONSTANTS
  FS_IOQUEUE_LEN = 3
  IOQuest <- Quests
  ZERO <- ZeroMsg
  Users = {4}
  FS = 5
  TTY = 7
  FSS = 10
  ANY <- AnyPid
  Calls <- WriteCalls
SPECIFICATION FairSpec
PROPERTY EveryCallAnswered
CHECK_DEADLOCK FALSE
