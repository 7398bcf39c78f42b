SPECIFICATION Spec
CONSTANTS
  main_wake_lock = main
  unknown_wakeup = unknown
  watchdog_wake_lock = watchdog
  Locks = {main, unknown, watchdog, ept}
  UserLocks = {}
  AbandonedLocks = {ept}
  LockType <- MCLockType
  MaxTimeout = 2
  HalfSecond = 1
  TenSeconds = 2
INVARIANT NoLostSuspend
