\* A coroutine that writes before it has read.
CONSTANTS
  NR_TASKS = 2
  ClockMod = 2
  MsPerSec = 1
  Seconds = {}
  MaxTime = 0
  Fds = {3}
  ListenFds = {}
  MAX_FD = 2
  Habits = {"write_first"}
SPECIFICATION IoSpec
PROPERTIES EventWakesWaiter
CHECK_DEADLOCK FALSE
