\* A listener, a connection, sleepers, and a program that keeps the contract.
CONSTANTS
  NR_TASKS = 3
  ClockMod = 2
  MsPerSec = 1
  Seconds = {1}
  MaxTime = 1
  Fds = {3, 4}
  ListenFds = {3}
  MAX_FD = 2
  Habits = {}
SPECIFICATION IoFairSpec
INVARIANTS IoTypeOK EventHasWaiter BlockQueueHoldsBlocked RegisteredWhileBlocked SyscallReady ListedOnce NeverCrashes
PROPERTIES ImplementsCoop ReadReturns
