CONSTANTS
  Main = Main
  Cleaner = Cleaner
  None = None
  Tcbs = {Main, Cleaner, a, b}
SPECIFICATION FairSpec
INVARIANTS ThreadLists MutualExclusion NeverHalts ParentsWait RightSpace
PROPERTIES RoundRobinTurns EveryReadyRuns WokenCleans
