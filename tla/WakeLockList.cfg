SPECIFICATION ListSpec
CONSTANTS
  main_wake_lock = main
  unknown_wakeup = unknown
  watchdog_wake_lock = watchdog
  Locks = {main, unknown, watchdog, drv, idl}
  IdleLocks = {idl}
  LockType <- MCLockType
  MaxTimeout = 2
  HalfSecond = 1
  TenSeconds = 2
INVARIANTS
  ListsMatchFlags
  ScanAgrees
