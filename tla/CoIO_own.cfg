\* One coroutine for each descriptor, 0 among them; waits elsewhere, closed and reused
\* numbers, several event loops, regular files, slow peers, hang-ups and signals.
CONSTANTS
  NR_TASKS = 3
  ClockMod = 2
  MsPerSec = 1
  Seconds = {}
  MaxTime = 0
  Fds = {0,3}
  ListenFds = {}
  MAX_FD = 2
  Habits = {"write_first", "detour", "reuse", "loops", "files",
            "backpressure", "hangup", "signals"}
SPECIFICATION IoSpec
INVARIANTS TailNeverDangles
PROPERTIES ExitedStaysDead
CHECK_DEADLOCK FALSE
