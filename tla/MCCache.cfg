SPECIFICATION Spec
CONSTANTS
  Blocks = 3
  WAY_LINES = 2
  WAY_WORDS_PER_BLOCK = 2
  Word = {w0, w1}
  NoRequest = NoRequest
INVARIANTS TypeOK CleanIsInMemory
PROPERTY ImplementsMemory
