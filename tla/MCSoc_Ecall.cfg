SPECIFICATION Spec
CONSTANTS
  Code <- EcallCode
  START_ADDR = 1
  mtvec = 12
  Lines = {"timer"}
INVARIANT NotReentered
