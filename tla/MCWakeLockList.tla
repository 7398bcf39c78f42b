--------------------------- MODULE MCWakeLockList ---------------------------
(* WakeLockList with the locks of IdleLocks of type WAKE_LOCK_IDLE. *)
EXTENDS WakeLockList

CONSTANT IdleLocks

MCLockType == [l \in Locks |-> IF l \in IdleLocks THEN WAKE_LOCK_IDLE ELSE WAKE_LOCK_SUSPEND]
=============================================================================
