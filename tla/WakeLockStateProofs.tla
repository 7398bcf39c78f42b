------------------------- MODULE WakeLockStateProofs -------------------------
(***************************************************************************)
(* What the operators of WakeLockState preserve and compute, for every set *)
(* of locks and every bound on timeouts.                                   *)
(***************************************************************************)
EXTENDS WakeLockState, TLAPS

\* Deactivating locks, which unlock and expiry do, keeps the flags consistent.
LEMMA DeactivateAgrees ==
  ASSUME NEW w, FlagsAgree(w), NEW S
  PROVE  FlagsAgree(Deactivate(w, S))
BY TimeAssumption, ZenonT(40) DEF FlagsAgree, LockState, Deactivate

\* So does a scan of has_wake_lock_locked.
LEMMA ScanFlagsAgree ==
  ASSUME NEW w, FlagsAgree(w), NEW type
  PROVE  FlagsAgree(has_wake_lock_locked(w, type))
BY DeactivateAgrees DEF has_wake_lock_locked

\* So does update_sleep_wait_stats_locked, which leaves all but the accounting alone.
LEMMA StatsAgree ==
  ASSUME NEW w, FlagsAgree(w), NEW done \in BOOLEAN
  PROVE  LET u == update_sleep_wait_stats_locked(w, done)
         IN  /\ FlagsAgree(u)
             /\ u.initialized = w.initialized /\ u.active = w.active
             /\ u.auto_expire = w.auto_expire /\ u.left = w.left
BY DEF FlagsAgree, LockState, update_sleep_wait_stats_locked, HeldOf

\* So do the two halves of wake_lock_internal.
LEMMA TakeAgrees ==
  ASSUME NEW w, FlagsAgree(w), NEW l \in w.initialized,
         NEW has_timeout \in BOOLEAN, NEW timeout \in 0 .. MaxTimeout,
         ~has_timeout => timeout = 0
  PROVE  FlagsAgree(TakeLock(w, l, has_timeout, timeout))
BY DEF FlagsAgree, LockState, TakeLock

\* The accounting of wake_lock_internal leaves all but the charges alone.
LEMMA AccountAgrees ==
  ASSUME NEW w, FlagsAgree(w), NEW l
  PROVE  LET u == AccountLock(w, l)
         IN  /\ FlagsAgree(u)
             /\ u.initialized = w.initialized /\ u.active = w.active
             /\ u.auto_expire = w.auto_expire /\ u.left = w.left
BY StatsAgree DEF AccountLock

\* So do the creation and the destruction of a lock.
LEMMA InitAgrees ==
  ASSUME NEW w, FlagsAgree(w), NEW l \in Locks
  PROVE  FlagsAgree(wake_lock_init(w, l))
<1> DEFINE v == Deactivate(w, {l})
<1>1. FlagsAgree(v)
  BY DeactivateAgrees
<1> HIDE DEF v
<1>2. FlagsAgree([v EXCEPT !.initialized = @ \cup {l}])
  BY <1>1 DEF FlagsAgree, LockState
<1> QED
  BY <1>2 DEF wake_lock_init, v

\* A destroyed lock loses every flag, so the flags still agree.
LEMMA DestroyAgrees ==
  ASSUME NEW w, FlagsAgree(w), NEW l \in Locks \ BuiltinLocks
  PROVE  FlagsAgree(wake_lock_destroy(w, l))
<1> DEFINE v == Deactivate(w, {l})
<1>1. FlagsAgree(v)
  BY DeactivateAgrees
<1>2. l \notin v.active
  BY DEF Deactivate, FlagsAgree, LockState
<1> HIDE DEF v
<1>3. FlagsAgree([v EXCEPT !.initialized = @ \ {l}])
  BY <1>1, <1>2 DEF FlagsAgree, LockState
<1> QED
  BY <1>3 DEF wake_lock_destroy, v

-----------------------------------------------------------------------------
(***************************************************************************)
(* What matters of a lock state for the expire timer: which suspend locks  *)
(* are held, whether all of them have a timeout, and how long they have    *)
(* left.  Cover(w, t) says a timer due in t jiffies waits for all of them. *)
(***************************************************************************)
Cover(w, t) ==
  AllAutoExpire(w, WAKE_LOCK_SUSPEND) =>
    \A l \in HeldOf(w, WAKE_LOCK_SUSPEND) : w.left[l] > 0 => w.left[l] <= t

\* v holds no more suspend locks than w, and those as w does; what it lacks
\* had a timeout.
Shrinks(w, v) ==
  /\ HeldOf(v, WAKE_LOCK_SUSPEND) \subseteq HeldOf(w, WAKE_LOCK_SUSPEND)
  /\ AllAutoExpire(v, WAKE_LOCK_SUSPEND) <=> AllAutoExpire(w, WAKE_LOCK_SUSPEND)
  /\ \A l \in HeldOf(v, WAKE_LOCK_SUSPEND) : v.left[l] = w.left[l]

\* Removing suspend locks that have a timeout never leaves the timer behind.
LEMMA ShrinkCover ==
  ASSUME NEW w, NEW v, Shrinks(w, v), NEW t, Cover(w, t)
  PROVE  Cover(v, t)
BY DEF Shrinks, Cover

\* A scan of either type only removes locks whose time is up.
LEMMA ScanShrinks ==
  ASSUME NEW w, FlagsAgree(w), NEW type
  PROVE  Shrinks(w, has_wake_lock_locked(w, type))
BY DEF FlagsAgree, LockState, Shrinks, has_wake_lock_locked, Deactivate, HeldOf,
       AllAutoExpire, get_expired_time

\* The answer of a scan is the time to arm the expire timer with.
LEMMA ScanCover ==
  ASSUME NEW w, FlagsAgree(w), NEW ret, ScanReturns(ret, w, WAKE_LOCK_SUSPEND), NEW t,
         ret > 0 => t = ret
  PROVE  Cover(has_wake_lock_locked(w, WAKE_LOCK_SUSPEND), t)
<1>1. Cover(w, t)
  BY TimeAssumption DEF FlagsAgree, LockState, ScanReturns, Cover, HeldOf, AllAutoExpire
<1> QED
  BY <1>1, ScanShrinks, ShrinkCover

\* A scan that answers 0 leaves no suspend lock.
LEMMA ScanClear ==
  ASSUME NEW w, FlagsAgree(w), ScanReturns(0, w, WAKE_LOCK_SUSPEND)
  PROVE  HeldOf(has_wake_lock_locked(w, WAKE_LOCK_SUSPEND), WAKE_LOCK_SUSPEND) = {}
<1>1. AllAutoExpire(w, WAKE_LOCK_SUSPEND)
  BY DEF ScanReturns
<1>2. \A l \in HeldOf(w, WAKE_LOCK_SUSPEND) : w.left[l] = 0
  <2>1. \A l \in HeldOf(w, WAKE_LOCK_SUSPEND) : w.left[l] <= 0
    BY <1>1 DEF ScanReturns
  <2>2. \A l \in HeldOf(w, WAKE_LOCK_SUSPEND) : w.left[l] \in 0 .. MaxTimeout
    BY DEF FlagsAgree, LockState, HeldOf
  <2> QED
    BY <2>1, <2>2, TimeAssumption
<1> DEFINE E == {l \in HeldOf(w, WAKE_LOCK_SUSPEND) : get_expired_time(w, l)}
           u == Deactivate(w, E)
<1>3. E = HeldOf(w, WAKE_LOCK_SUSPEND)
  BY <1>1, <1>2 DEF AllAutoExpire, get_expired_time
<1>4. u.active = w.active \ E
  BY DEF FlagsAgree, LockState, Deactivate
<1>5. HeldOf(u, WAKE_LOCK_SUSPEND) = {}
  BY <1>3, <1>4 DEF HeldOf
<1> QED
  BY <1>1, <1>5 DEF has_wake_lock_locked

-----------------------------------------------------------------------------
(***************************************************************************)
(* The accounting.  Exact(w) says that in w the suspend locks with time    *)
(* left are charged with preventing suspend exactly while the main lock is *)
(* not held.                                                               *)
(***************************************************************************)
Exact(w) ==
  \A l \in HeldOf(w, WAKE_LOCK_SUSPEND) \ {main_wake_lock} :
    ~get_expired_time(w, l) => (l \in w.preventing <=> main_wake_lock \notin w.active)

\* Deactivating locks other than the main lock changes nothing for the rest.
LEMMA DeactivateExact ==
  ASSUME NEW w, FlagsAgree(w), Exact(w), NEW S, main_wake_lock \notin S
  PROVE  Exact(Deactivate(w, S))
<1> DEFINE v == Deactivate(w, S)
<1>1. /\ v.active = w.active \ S /\ v.auto_expire = w.auto_expire \ S
      /\ v.preventing = w.preventing \ S
      /\ \A l \in Locks \ S : v.left[l] = w.left[l]
  BY DEF Deactivate, FlagsAgree, LockState
<1>2. w.active \subseteq Locks
  BY DEF FlagsAgree, LockState
<1> HIDE DEF v
<1>3. Exact(v)
  BY <1>1, <1>2 DEF Exact, HeldOf, get_expired_time
<1> QED
  BY <1>3 DEF v

\* A scan expires no lock without a timeout, so the main lock stays.
LEMMA ScanExact ==
  ASSUME NEW w, FlagsAgree(w), Exact(w), main_wake_lock \notin w.auto_expire, NEW type
  PROVE  Exact(has_wake_lock_locked(w, type))
BY DeactivateExact DEF has_wake_lock_locked, get_expired_time

\* update_sleep_wait_stats_locked establishes the accounting anew, called with
\* done exactly when the main lock is held.
LEMMA StatsExact ==
  ASSUME NEW w, FlagsAgree(w), NEW done \in BOOLEAN, done <=> main_wake_lock \in w.active
  PROVE  Exact(update_sleep_wait_stats_locked(w, done))
<1> DEFINE held == HeldOf(w, WAKE_LOCK_SUSPEND)
           u == update_sleep_wait_stats_locked(w, done)
<1>1. /\ u.active = w.active /\ u.auto_expire = w.auto_expire /\ u.left = w.left
      /\ u.preventing = (w.preventing \ held) \cup
                           IF done THEN {} ELSE {l \in held : ~get_expired_time(w, l)}
  BY DEF update_sleep_wait_stats_locked, FlagsAgree, LockState
<1>2. HeldOf(u, WAKE_LOCK_SUSPEND) = held /\ \A l : get_expired_time(u, l) <=> get_expired_time(w, l)
  BY <1>1 DEF HeldOf, get_expired_time
<1> HIDE DEF u, held
<1>3. Exact(u)
  BY <1>1, <1>2 DEF Exact
<1> QED
  BY <1>3 DEF u

\* Taking a suspend lock, accounting included, keeps the charges exact: also of
\* the lock itself, whose expired period ends here.
LEMMA TakeExact ==
  ASSUME NEW w, FlagsAgree(w), Exact(w), NEW l \in w.initialized,
         NEW has_timeout \in BOOLEAN, NEW timeout \in 0 .. MaxTimeout,
         ~has_timeout => timeout = 0
  PROVE  Exact(AccountLock(TakeLock(w, l, has_timeout, timeout), l))
<1> DEFINE t == TakeLock(w, l, has_timeout, timeout)
<1>1. FlagsAgree(t)
  BY TakeAgrees
<1>2. l \in t.active /\ t.active = w.active \cup {l}
      /\ t.preventing = (IF get_expired_time(w, l) THEN w.preventing \ {l} ELSE w.preventing)
      /\ t.auto_expire = (IF has_timeout THEN w.auto_expire \cup {l} ELSE w.auto_expire \ {l})
      /\ \A k \in Locks \ {l} : t.left[k] = w.left[k]
  BY DEF TakeLock, FlagsAgree, LockState
<1>3. w.active \subseteq Locks /\ w.preventing \subseteq w.active
  BY DEF FlagsAgree, LockState
<1> SUFFICES Exact(AccountLock(t, l))
  OBVIOUS
<1> HIDE DEF t
<1>4. CASE l = main_wake_lock
  BY <1>1, <1>2, <1>4, StatsExact DEF AccountLock
<1>5. CASE l # main_wake_lock /\ main_wake_lock \notin t.active
  BY <1>1, <1>5, StatsExact DEF AccountLock
<1>6. CASE l # main_wake_lock /\ main_wake_lock \in t.active
  <2>1. AccountLock(t, l) = t /\ main_wake_lock \in w.active
    BY <1>2, <1>6 DEF AccountLock
  <2>2. l \in HeldOf(w, WAKE_LOCK_SUSPEND) /\ ~get_expired_time(w, l) => l \notin w.preventing
    BY <1>6, <2>1 DEF Exact
  <2>3. LockType[l] = WAKE_LOCK_SUSPEND => l \notin t.preventing
    BY <1>2, <1>3, <2>2 DEF HeldOf
  <2>4. \A k \in HeldOf(t, WAKE_LOCK_SUSPEND) \ {main_wake_lock} :
          ~get_expired_time(t, k) => k \notin t.preventing
    BY <1>2, <1>3, <2>1, <2>3 DEF HeldOf, get_expired_time, Exact
  <2> QED
    BY <2>1, <2>4, <1>6 DEF Exact
<1> QED
  BY <1>4, <1>5, <1>6

\* An idle lock is never charged, and charges nobody.
LEMMA TakeIdleExact ==
  ASSUME NEW w, FlagsAgree(w), Exact(w), NEW l \in w.initialized,
         LockType[l] # WAKE_LOCK_SUSPEND, l # main_wake_lock,
         NEW has_timeout \in BOOLEAN, NEW timeout \in 0 .. MaxTimeout
  PROVE  Exact(TakeLock(w, l, has_timeout, timeout))
<1> DEFINE t == TakeLock(w, l, has_timeout, timeout)
<1>1. t.active = w.active \cup {l}
      /\ t.preventing = (IF get_expired_time(w, l) THEN w.preventing \ {l} ELSE w.preventing)
      /\ t.auto_expire = (IF has_timeout THEN w.auto_expire \cup {l} ELSE w.auto_expire \ {l})
      /\ \A k \in Locks \ {l} : t.left[k] = w.left[k]
  BY DEF TakeLock, FlagsAgree, LockState
<1>2. w.active \subseteq Locks
  BY DEF FlagsAgree, LockState
<1> HIDE DEF t
<1>3. Exact(t)
  BY <1>1, <1>2 DEF Exact, HeldOf, get_expired_time
<1> QED
  BY <1>3 DEF t
=============================================================================
