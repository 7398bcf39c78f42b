--------------------------- MODULE MCEarlySuspend ---------------------------
(***************************************************************************)
(* An instance of EarlySuspend for TLC: handlers of two levels and no lock *)
(* but the built-in ones.                                                  *)
(***************************************************************************)
EXTENDS EarlySuspend, TLC

CONSTANTS HighHandlers  \* the handlers of the higher of two levels

MCLockType == [l \in Locks |-> WAKE_LOCK_SUSPEND]
MCLevel == [h \in Handlers |-> IF h \in HighHandlers THEN 100 ELSE 50]
=============================================================================
