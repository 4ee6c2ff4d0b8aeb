SPECIFICATION Spec
CONSTANTS
  Code <- MixedCode
  START_ADDR = 1
  mtvec = 18
  Lines = {"timer"}
INVARIANT LateByTwoInstructions
PROPERTY TrapsPrecise
