SPECIFICATION ESFairSpec
CONSTANTS
  main_wake_lock = main
  unknown_wakeup = unknown
  watchdog_wake_lock = watchdog
  Locks = {main, unknown, watchdog}
  UserLocks = {}
  AbandonedLocks = {}
  LockType <- MCLockType
  MaxTimeout = 1
  HalfSecond = 1
  TenSeconds = 1
  Handlers = {h1, h2}
  HighHandlers = {h2}
  Suspends = {h1, h2}
  Resumes = {h1, h2}
  Level <- MCLevel
INVARIANTS
  ESTypeOK
  MainLockFollowsState
  HandlersFollowState
  LevelOrder
PROPERTIES
  Spec
  SuspendRetried
  OnIsReached
  SleepIsReached
