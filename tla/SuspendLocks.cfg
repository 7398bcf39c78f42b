SPECIFICATION Spec
CONSTANTS
  main_wake_lock = main
  unknown_wakeup = unknown
  watchdog_wake_lock = watchdog
  Locks = {main, unknown, watchdog, drv, usr}
  UserLocks = {usr}
  AbandonedLocks = {}
  LockType <- MCLockType
  MaxTimeout = 2
  HalfSecond = 1
  TenSeconds = 1
INVARIANTS
  TypeOK
  TimerCoversLocks
  NoLostSuspend
  PreventingIsExact
  SleepOnlyWhenRequested
  SleepRespectsLocks
