SPECIFICATION FairSpec
CONSTANTS
  Blocks = 4
  WAY_LINES = 2
  WAY_WORDS_PER_BLOCK = 4
  Word = {w0}
  NoRequest = NoRequest
INVARIANT CommandsHeard
PROPERTY EveryRequestAnswered
