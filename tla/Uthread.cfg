CONSTANTS
  Creates = 2
  Rounds = 2
  TimeToClear = 4
  MaxStacks = 4
  Sched = Sched
  None = None
SPECIFICATION FairSpec
INVARIANTS StacksFit ListedMapped CurrIsRunning RingExact OnlyOwnStackCleared
PROPERTY Woken
