CONSTANTS
  None = None
  MaxThreads = 3
  Stacks = {a1, a2}
SPECIFICATION FairSpec
INVARIANTS NoFault JoinGetsResult RunsOnce
PROPERTY JoinReturns
