--------------------------- MODULE MCSuspendWork ---------------------------
(***************************************************************************)
(* Instances of SuspendWork for TLC.  A run chooses which driver and user  *)
(* locks exist beside the three built-in ones; timeouts are 0 to           *)
(* MaxTimeout jiffies.                                                     *)
(***************************************************************************)
EXTENDS SuspendWork

MCLockType == [l \in Locks |-> WAKE_LOCK_SUSPEND]
=============================================================================
