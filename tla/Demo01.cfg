\* demo01 with its two threads; any program with three, which end and begin.
CONSTANTS
  Threads = {1, 2, 3}
  first = 1
  second = 2
  Tids = {5, 6, 7}
  MAX_THREAD_NUM = 2
  NR_TASKS = 4
  MaxTurns = 1
  AnySlots = 2
SPECIFICATION DSpec
INVARIANTS TTypeOK RunsCurrent ReadyHasStack NothingLeftBehind JoinsMayBegin
PROPERTIES EnvsImplementCoop Over
CHECK_DEADLOCK FALSE
