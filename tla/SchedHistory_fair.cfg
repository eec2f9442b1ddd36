\* Two coroutines beside the initial task, fair; the table fills up, and the
\* sum of clock and sleep wraps.
CONSTANTS
  NR_TASKS = 3
  ClockMod = 4
  MsPerSec = 1
  Seconds = {2}
  MaxTime = 3
SPECIFICATION HFairSpec
INVARIANTS TypeOK TaskCountExact JoinTargetAllocated RunsOnLiveStack BoundedBypass NoOversleep
PROPERTIES NoEarlyWake ReadyRuns SleeperWakes JoinReturns ImplementsFairCoop
