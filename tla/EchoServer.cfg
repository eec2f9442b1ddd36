\* Two connections get a coroutine, a third one finds the table full, and a fourth
\* one no descriptor left.
CONSTANTS
  NR_TASKS = 4
  ClockMod = 1
  MsPerSec = 1
  Seconds = {}
  MaxTime = 0
  Fds = {3,5,6,7}
  ListenFds = {3}
  MAX_FD = 2
  Habits = {"share", "many", "write_first", "detour"}
  listenfd = 3
  MaxSent = 2
  MaxActs = 4
SPECIFICATION EchoSpec
INVARIANTS EchoTypeOK ExitsOnFaultOnly EchoComplete
PROPERTIES KeepsContract EveryMessageEchoed
