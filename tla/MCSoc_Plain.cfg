SPECIFICATION FairSpec
CONSTANTS
  Code <- PlainCode
  START_ADDR = 1
  mtvec = 13
  Lines = {"timer", "uart"}
INVARIANTS TypeOK RequestHeld
PROPERTIES ImplementsISA TickServed
