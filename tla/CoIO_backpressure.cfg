\* A peer that does not read what is written to it.
CONSTANTS
  NR_TASKS = 2
  ClockMod = 2
  MsPerSec = 1
  Seconds = {}
  MaxTime = 0
  Fds = {3}
  ListenFds = {}
  MAX_FD = 2
  Habits = {"backpressure"}
SPECIFICATION IoSpec
INVARIANTS BlockQueueHoldsBlocked
CHECK_DEADLOCK FALSE
