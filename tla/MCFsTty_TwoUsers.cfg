CONSTANTS
  FS_IOQUEUE_LEN = 2
  IOQuest <- Quests
  ZERO <- ZeroMsg
  Users = {4, 6}
  FS = 5
  TTY = 7
  FSS = 10
  ANY <- AnyPid
  Calls <- AllCalls
SPECIFICATION FairSpec
INVARIANTS TypeOK NoPanic InOnePlace RightAnswer
PROPERTIES ImplementsFIFO AnsweredUnlessAsleep
CHECK_DEADLOCK FALSE
