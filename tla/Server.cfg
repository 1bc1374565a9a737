\* Two requests of up to two tokens; a response channel of one chunk.
CONSTANTS
  r1 = r1
  r2 = r2
  Requests <- MCRequests
  Cap = 1
  Limits = {0, 2}
  Free = Free
  Poisoned = Poisoned
SPECIFICATION FairSpec
INVARIANTS TypeOK TokensInOrder CountsTrue
PROPERTIES Answered ModelReturned
