\* A coroutine that waits on one descriptor and then on another.
CONSTANTS
  NR_TASKS = 2
  ClockMod = 2
  MsPerSec = 1
  Seconds = {}
  MaxTime = 0
  Fds = {3, 4}
  ListenFds = {}
  MAX_FD = 2
  Habits = {"many"}
SPECIFICATION IoSpec
INVARIANTS EmptyQueueUsable
CHECK_DEADLOCK FALSE
