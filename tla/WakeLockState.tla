---------------------------- MODULE WakeLockState ----------------------------
(***************************************************************************)
(* The data of kernel/power/wakelock.c and what its functions compute on   *)
(* it: the flags of the struct wake_lock objects, who is on which list of  *)
(* active locks, and the time each has left.                               *)
(*                                                                         *)
(* Time.  The code only looks at lock->expires - jiffies, so the model     *)
(* keeps that difference, floored at 0: 0 stands for every timeout <= 0.   *)
(* jiffies itself, its wrap-around and the statistics that only            *)
(* /proc/wakelocks prints (counts, times and wait_for_wakeup) are left     *)
(* out; the flag WAKE_LOCK_PREVENTING_SUSPEND is kept.                     *)
(***************************************************************************)
EXTENDS Integers

CONSTANTS
  Locks,               \* the struct wake_lock objects of the system
  LockType,            \* lock -> WAKE_LOCK_SUSPEND or WAKE_LOCK_IDLE
  main_wake_lock,      \* held while the screen is on
  unknown_wakeup,      \* taken after a suspend that saw no event
  watchdog_wake_lock,  \* taken when the watchdog timer fires
  MaxTimeout,          \* bound: the longest timeout, in jiffies
  HalfSecond,          \* HZ / 2
  TenSeconds           \* HZ * 10

WAKE_LOCK_SUSPEND == "suspend"
WAKE_LOCK_IDLE == "idle"
BuiltinLocks == {main_wake_lock, unknown_wakeup, watchdog_wake_lock}

ASSUME LocksAssumption ==
  /\ BuiltinLocks \subseteq Locks
  /\ main_wake_lock # unknown_wakeup
  /\ main_wake_lock # watchdog_wake_lock
  /\ unknown_wakeup # watchdog_wake_lock
  /\ LockType \in [Locks -> {WAKE_LOCK_SUSPEND, WAKE_LOCK_IDLE}]
  /\ \A l \in BuiltinLocks : LockType[l] = WAKE_LOCK_SUSPEND

ASSUME TimeAssumption ==
  /\ MaxTimeout \in Nat \ {0}
  /\ HalfSecond \in 1 .. MaxTimeout
  /\ TenSeconds \in 1 .. MaxTimeout

-----------------------------------------------------------------------------
(***************************************************************************)
(* Operators on the lock state.  A flag bit is the set of locks that have  *)
(* it; "active" is also the union of the lists active_wake_locks[].  The   *)
(* order of those lists is the subject of module WakeLockList.             *)
(***************************************************************************)
LockState ==
  [initialized : SUBSET Locks,  active : SUBSET Locks, auto_expire : SUBSET Locks,
   preventing  : SUBSET Locks,  left   : [Locks -> 0 .. MaxTimeout]]

\* The flags of a lock agree: only an initialised lock is active, only an
\* active one has a timeout running or prevents suspend.
FlagsAgree(w) ==
  /\ w \in LockState
  /\ BuiltinLocks \subseteq w.initialized
  /\ w.active \subseteq w.initialized
  /\ w.auto_expire \subseteq w.active
  /\ w.preventing \subseteq w.active
  /\ \A l \in Locks \ w.auto_expire : w.left[l] = 0

HeldOf(w, type) == {l \in w.active : LockType[l] = type}

get_expired_time(w, l) == l \in w.auto_expire /\ w.left[l] = 0

\* Every active lock of the type has a timeout.
AllAutoExpire(w, type) == HeldOf(w, type) \subseteq w.auto_expire

\* Mutant: WAKE_LOCK_AUTO_EXPIRE is not cleared.
DeactivateKeepsTimeout(w, S) ==
  [w EXCEPT !.active = @ \ S, !.preventing = @ \ S]

\* lock->flags &= ~(ACTIVE | AUTO_EXPIRE), and the statistics drop PREVENTING.
\* The expiry of an inactive lock is never read: its remaining time is 0.
Deactivate(w, S) ==
  [w EXCEPT !.active = @ \ S, !.auto_expire = @ \ S, !.preventing = @ \ S,
            !.left = [l \in Locks |-> IF l \in S THEN 0 ELSE @[l]]]

\* has_wake_lock_locked: without a lock that has no timeout, the locks whose
\* time is up are expired; with one, the scan stops before it expires any.
has_wake_lock_locked(w, type) ==
  Deactivate(w, IF AllAutoExpire(w, type)
                THEN {l \in HeldOf(w, type) : get_expired_time(w, l)}
                ELSE {})

\* The value has_wake_lock_locked returns: -1 for a lock without timeout, else
\* the longest remaining time (0 when no lock is left).
ScanReturns(ret, w, type) ==
  IF AllAutoExpire(w, type)
  THEN /\ ret \in 0 .. MaxTimeout
       /\ \A l \in HeldOf(w, type) : w.left[l] <= ret
       /\ ret = 0 \/ \E l \in HeldOf(w, type) : w.left[l] = ret
  ELSE ret = -1

\* update_sleep_wait_stats_locked(done).
update_sleep_wait_stats_locked(w, done) ==
  LET held == HeldOf(w, WAKE_LOCK_SUSPEND)
  IN  [w EXCEPT !.preventing =
         (@ \ held) \cup IF done THEN {}
                         ELSE {l \in held : ~get_expired_time(w, l)}]

\* wake_lock_init: every flag but INITIALIZED is cleared.
wake_lock_init(w, l) ==
  [Deactivate(w, {l}) EXCEPT !.initialized = @ \cup {l}]

\* wake_lock_destroy.  The flags of a destroyed lock are never read again
\* before wake_lock_init writes them, so they are dropped with the list entry.
wake_lock_destroy(w, l) ==
  [Deactivate(w, {l}) EXCEPT !.initialized = @ \ {l}]

\* The first half of wake_lock_internal: account an expired period, set the
\* flags, the expiry and the list of the lock.
TakeLock(w, l, has_timeout, timeout) ==
  [w EXCEPT
     !.preventing  = IF get_expired_time(w, l) THEN @ \ {l} ELSE @,
     !.active      = @ \cup {l},
     !.auto_expire = IF has_timeout THEN @ \cup {l} ELSE @ \ {l},
     !.left        = [@ EXCEPT ![l] = timeout]]

\* Mutant: only the main lock updates the accounting.
AccountMainOnly(w, l) ==
  IF l = main_wake_lock THEN update_sleep_wait_stats_locked(w, TRUE) ELSE w

\* The accounting of who prevents suspend when a suspend lock is taken.
AccountLock(w, l) ==
  IF l = main_wake_lock THEN update_sleep_wait_stats_locked(w, TRUE)
  ELSE IF main_wake_lock \notin w.active THEN update_sleep_wait_stats_locked(w, FALSE)
  ELSE w

=============================================================================
