---------------------------- MODULE SuspendProofs ---------------------------
(***************************************************************************)
(* Invariants of SuspendWork and EarlySuspend, proved for every set of     *)
(* locks and handlers, every assignment of owners, types and levels and    *)
(* every bound on timeouts.  The first part is about SuspendWork alone; in *)
(* the second EarlySuspend is shown to implement it, so that what is       *)
(* proved of it holds with the handlers and their races in place.          *)
(***************************************************************************)
EXTENDS EarlySuspend, WakeLockStateProofs, Recursion, SequenceTheorems

USE DEF NotPending, WAKE_LOCK_SUSPEND, WAKE_LOCK_IDLE, PM_SUSPEND_ON, PM_SUSPEND_MEM

\* queue_work makes the work pending and keeps every other pending work so.
LEMMA QueueWork ==
  ASSUME NEW q \in Seq(Works), NEW work \in Works
  PROVE  /\ queue_work(q, work) \in Seq(Works)
         /\ Pending(queue_work(q, work), work)
         /\ \A other : Pending(q, other) => Pending(queue_work(q, work), other)
<1>1. CASE Pending(q, work)
  BY <1>1 DEF queue_work
<1>2. CASE ~Pending(q, work)
  <2> DEFINE r == Append(q, work)
  <2>1. r \in Seq(Works) /\ DOMAIN r = 1 .. Len(q) + 1 /\ DOMAIN q = 1 .. Len(q)
        /\ r[Len(q) + 1] = work /\ Len(q) \in Nat
    OBVIOUS
  <2>2. \A i \in DOMAIN q : r[i] = q[i]
    OBVIOUS
  <2>3. Pending(r, work)
    BY <2>1 DEF Pending
  <2>4. \A other : Pending(q, other) => Pending(r, other)
    BY <2>1, <2>2 DEF Pending
  <2> QED
    BY <1>2, <2>1, <2>3, <2>4 DEF queue_work
<1> QED
  BY <1>1, <1>2

-----------------------------------------------------------------------------
(***************************************************************************)
(* The lock operations.                                                    *)
(***************************************************************************)
\* What the timer and the work queue promise after an operation on a suspend
\* lock: the timer covers the locks left, and one of them will bring suspend.
Served ==
  /\ Cover(wl', expire_timer')
  /\ AllAutoExpire(wl', WAKE_LOCK_SUSPEND) =>
       expire_timer' # NotPending \/ Pending(wq', "suspend")

\* The types an operation keeps.
OpTypes ==
  /\ FlagsAgree(wl')
  /\ expire_timer' \in 0 .. MaxTimeout \cup {NotPending}
  /\ watchdog_timer' \in BOOLEAN
  /\ events' \in BOOLEAN
  /\ wq' \in Seq(Works)
  /\ fresh' \subseteq Locks

\* mod_timer, del_timer and queue_work after a scan.
LEMMA ArmServes ==
  ASSUME NEW w, FlagsAgree(w), NEW q \in Seq(Works), NEW ret \in -1 .. MaxTimeout,
         ScanReturns(ret, w, WAKE_LOCK_SUSPEND), ArmOrQueue(ret, q),
         NEW v, FlagsAgree(v), wl' = v,
         Shrinks(has_wake_lock_locked(w, WAKE_LOCK_SUSPEND), v)
  PROVE  /\ Served
         /\ expire_timer' \in 0 .. MaxTimeout \cup {NotPending}
         /\ wq' \in Seq(Works)
<1> DEFINE u == has_wake_lock_locked(w, WAKE_LOCK_SUSPEND)
<1>1. Cover(u, expire_timer')
  BY ScanCover DEF ArmOrQueue
<1>2. Cover(wl', expire_timer')
  BY <1>1, ShrinkCover
<1>3. AllAutoExpire(wl', WAKE_LOCK_SUSPEND) => ret # -1
  BY ScanShrinks, TimeAssumption DEF Shrinks, ScanReturns
<1>4. ret = 0 => Pending(wq', "suspend")
  BY QueueWork DEF ArmOrQueue, Works
<1>5. wq' \in Seq(Works)
  BY QueueWork DEF ArmOrQueue, Works
<1>6. expire_timer' \in 0 .. MaxTimeout \cup {NotPending}
  BY TimeAssumption DEF ArmOrQueue
<1>7. ret > 0 => expire_timer' # NotPending
  BY TimeAssumption DEF ArmOrQueue
<1> QED
  BY <1>2, <1>3, <1>4, <1>5, <1>6, <1>7, TimeAssumption DEF Served

\* wake_lock_internal on a suspend lock.
LEMMA LockServes ==
  ASSUME TypeOK, NEW w, FlagsAgree(w), NEW q \in Seq(Works), NEW l \in Locks,
         LockType[l] = WAKE_LOCK_SUSPEND,
         NEW has_timeout \in BOOLEAN, NEW timeout \in 0 .. MaxTimeout,
         ~has_timeout => timeout = 0,
         wake_lock_internal(w, q, l, has_timeout, timeout)
  PROVE  Served /\ OpTypes /\ events' = TRUE
<1> DEFINE taken == TakeLock(w, l, has_timeout, timeout)
           counted == AccountLock(taken, l)
<1>1. l \in w.initialized
  BY DEF wake_lock_internal
<1>2. FlagsAgree(taken)
  BY <1>1, TakeAgrees
<1>3. FlagsAgree(counted) /\ counted.active = taken.active
      /\ counted.auto_expire = taken.auto_expire
  BY <1>2, AccountAgrees
<1>4. events' = TRUE /\ watchdog_timer' \in BOOLEAN /\ fresh' \subseteq Locks
  BY DEF wake_lock_internal, TypeOK
<1>5. CASE has_timeout
  <2>1. PICK ret \in -1 .. MaxTimeout :
          ScanReturns(ret, counted, WAKE_LOCK_SUSPEND) /\ ArmOrQueue(ret, q)
    BY <1>5 DEF wake_lock_internal
  <2> DEFINE v == has_wake_lock_locked(counted, WAKE_LOCK_SUSPEND)
  <2>2. wl' = v
    BY <1>5 DEF wake_lock_internal
  <2>3. FlagsAgree(v) /\ Shrinks(v, v)
    BY <1>3, ScanFlagsAgree DEF Shrinks
  <2> QED
    BY <1>3, <1>4, <2>1, <2>2, <2>3, ArmServes DEF OpTypes
<1>6. CASE ~has_timeout
  <2>1. wl' = counted /\ ArmOrQueue(-1, q)
    BY <1>6 DEF wake_lock_internal
  <2>2. l \in taken.active /\ l \notin taken.auto_expire
    BY <1>6, <1>2 DEF TakeLock, FlagsAgree, LockState
  <2>3. ~AllAutoExpire(wl', WAKE_LOCK_SUSPEND)
    BY <1>3, <2>1, <2>2 DEF AllAutoExpire, HeldOf
  <2>4. expire_timer' = NotPending /\ wq' = q
    BY <2>1 DEF ArmOrQueue
  <2> QED
    BY <1>3, <1>4, <2>1, <2>3, <2>4 DEF Served, OpTypes, Cover
<1> QED
  BY <1>5, <1>6

\* wake_lock_internal on an idle lock leaves all of this alone.
LEMMA IdleLockKeeps ==
  ASSUME TypeOK, NEW w, FlagsAgree(w), NEW q \in Seq(Works), NEW l \in Locks,
         LockType[l] # WAKE_LOCK_SUSPEND,
         NEW has_timeout \in BOOLEAN, NEW timeout \in 0 .. MaxTimeout,
         ~has_timeout => timeout = 0,
         wake_lock_internal(w, q, l, has_timeout, timeout)
  PROVE  /\ OpTypes /\ Shrinks(w, wl') /\ wq' = q
         /\ UNCHANGED <<expire_timer, watchdog_timer, events>>
<1>1. l \in w.initialized /\ wl' = TakeLock(w, l, has_timeout, timeout)
      /\ wq' = q /\ UNCHANGED <<expire_timer, watchdog_timer, events>>
      /\ fresh' \subseteq Locks
  BY DEF wake_lock_internal, TypeOK
<1>2. FlagsAgree(wl')
  BY <1>1, TakeAgrees
<1>3. Shrinks(w, wl')
  BY <1>1 DEF Shrinks, TakeLock, HeldOf, AllAutoExpire, FlagsAgree, LockState
<1> QED
  BY <1>1, <1>2, <1>3 DEF OpTypes, TypeOK

\* wake_unlock on a suspend lock.
LEMMA UnlockServes ==
  ASSUME TypeOK, NEW l \in Locks, LockType[l] = WAKE_LOCK_SUSPEND, wake_unlock(l)
  PROVE  Served /\ OpTypes
<1> DEFINE freed == Deactivate(wl, {l})
           scanned == has_wake_lock_locked(freed, WAKE_LOCK_SUSPEND)
           counted == update_sleep_wait_stats_locked(scanned, FALSE)
<1>1. FlagsAgree(freed)
  BY DeactivateAgrees DEF TypeOK
<1>2. FlagsAgree(scanned)
  BY <1>1, ScanFlagsAgree
<1>3. /\ FlagsAgree(counted) /\ counted.active = scanned.active
      /\ counted.auto_expire = scanned.auto_expire /\ counted.left = scanned.left
  BY <1>2, StatsAgree
<1>4. wl' = counted \/ wl' = scanned
  BY DEF wake_unlock
<1>5. FlagsAgree(wl') /\ Shrinks(scanned, wl')
  BY <1>2, <1>3, <1>4 DEF Shrinks, HeldOf, AllAutoExpire
<1>6. PICK ret \in -1 .. MaxTimeout :
        /\ ScanReturns(ret, freed, WAKE_LOCK_SUSPEND)
        /\ ArmOrQueue(ret, wq)
        /\ watchdog_timer' = (watchdog_timer \/ (l = main_wake_lock /\ ret # 0))
  BY DEF wake_unlock
<1>7. Served /\ expire_timer' \in 0 .. MaxTimeout \cup {NotPending} /\ wq' \in Seq(Works)
  BY <1>1, <1>5, <1>6, ArmServes DEF TypeOK
<1> QED
  BY <1>5, <1>6, <1>7 DEF OpTypes, wake_unlock, TypeOK

\* wake_unlock on an idle lock.
LEMMA IdleUnlockKeeps ==
  ASSUME TypeOK, NEW l \in Locks, LockType[l] # WAKE_LOCK_SUSPEND, wake_unlock(l)
  PROVE  /\ OpTypes /\ Shrinks(wl, wl')
         /\ UNCHANGED <<expire_timer, watchdog_timer, wq, events>>
<1>1. wl' = Deactivate(wl, {l}) /\ UNCHANGED <<expire_timer, watchdog_timer, wq, events, fresh>>
  BY DEF wake_unlock
<1>2. FlagsAgree(wl')
  BY <1>1, DeactivateAgrees DEF TypeOK
<1>3. Shrinks(wl, wl')
  BY <1>1 DEF TypeOK, Shrinks, Deactivate, HeldOf, AllAutoExpire, FlagsAgree, LockState
<1> QED
  BY <1>1, <1>2, <1>3 DEF OpTypes, TypeOK

\* has_wake_lock of either type.
LEMMA ScanKeeps ==
  ASSUME TypeOK, NEW type, NEW ret, has_wake_lock(type, ret)
  PROVE  FlagsAgree(wl') /\ Shrinks(wl, wl')
BY ScanFlagsAgree, ScanShrinks DEF has_wake_lock, TypeOK

\* The remaining times after a tick.
LEMMA TickShrinks ==
  ASSUME NEW w, FlagsAgree(w)
  PROVE  FlagsAgree([w EXCEPT !.left = [l \in Locks |-> Less(@[l])]])
<1> DEFINE left == [l \in Locks |-> Less(w.left[l])]
<1>1. left \in [Locks -> 0 .. MaxTimeout]
  BY TimeAssumption DEF FlagsAgree, LockState, Less
<1>2. \A l \in Locks \ w.auto_expire : left[l] = 0
  <2>1. Less(0) = 0
    BY DEF Less
  <2>2. \A l \in Locks \ w.auto_expire : w.left[l] = 0
    BY DEF FlagsAgree
  <2>3. \A l \in Locks : left[l] = Less(w.left[l])
    OBVIOUS
  <2> QED
    BY <2>1, <2>2, <2>3
<1> HIDE DEF left
<1>3. FlagsAgree([w EXCEPT !.left = left])
  BY <1>1, <1>2 DEF FlagsAgree, LockState
<1> QED
  BY <1>3 DEF left

\* A timeout of a positive length is one of the timeouts the model has.
LEMMA BackOffTimes ==
  HalfSecond \in 0 .. MaxTimeout /\ TenSeconds \in 0 .. MaxTimeout /\ 0 \in 0 .. MaxTimeout
BY TimeAssumption

-----------------------------------------------------------------------------
(***************************************************************************)
(* Type correctness.                                                       *)
(***************************************************************************)
LEMMA LockTypes ==
  ASSUME TypeOK, NEW w, FlagsAgree(w), NEW q \in Seq(Works), NEW l \in Locks,
         NEW has_timeout \in BOOLEAN, NEW timeout \in 0 .. MaxTimeout,
         ~has_timeout => timeout = 0,
         wake_lock_internal(w, q, l, has_timeout, timeout)
  PROVE  OpTypes
BY LockServes, IdleLockKeeps

\* wake_unlock leaves every variable it writes in its type.
LEMMA UnlockTypes ==
  ASSUME TypeOK, NEW l \in Locks, wake_unlock(l)
  PROVE  OpTypes
BY UnlockServes, IdleUnlockKeeps

\* The state wakelocks_init leaves behind is well typed.
LEMMA InitTypes == Init => TypeOK
<1> SUFFICES ASSUME Init PROVE TypeOK
  OBVIOUS
<1>1. FlagsAgree(wl)
  BY LocksAssumption, TimeAssumption DEF Init, FlagsAgree, LockState, BuiltinLocks
<1>2. <<>> \in Seq(Works)
  OBVIOUS
<1>3. expire_timer \in 0 .. MaxTimeout \cup {NotPending}
  BY DEF Init
<1> QED
  BY <1>1, <1>2, <1>3 DEF Init, TypeOK, Places

\* Every step of the system keeps the types and the agreement of the flags.
LEMMA NextTypes == TypeOK /\ [Next]_vars => TypeOK'
<1> SUFFICES ASSUME TypeOK, [Next]_vars PROVE TypeOK'
  OBVIOUS
<1> USE BackOffTimes
<1>1. CASE run_workqueue
  <2>1. Head(wq) \in Works /\ Tail(wq) \in Seq(Works)
    BY <1>1 DEF run_workqueue, TypeOK
  <2> QED
    BY <1>1, <2>1 DEF run_workqueue, GoTo, TypeOK, Works, Places, SuspendPlaces
<1>2. CASE SuspendCheck \/ FreezeCheck \/ power_suspend_late
  BY <1>2, ScanKeeps DEF SuspendCheck, FreezeCheck, power_suspend_late, GoTo, TypeOK,
     Places, SuspendPlaces
<1>3. CASE SuspendRecord \/ pm_suspend \/ FreezeEnd \/ dpm_suspend_start
           \/ suspend_enter \/ Wake \/ SuspendExit \/ LateResumeWork
  BY <1>3 DEF SuspendRecord, pm_suspend, FreezeEnd, dpm_suspend_start, suspend_enter,
     Wake, SuspendExit, LateResumeWork, GoTo, TypeOK, Places, SuspendPlaces
<1>4. CASE UnknownWakeup
  <2>1. OpTypes
    BY <1>4, LocksAssumption, LockTypes
       DEF UnknownWakeup, wake_lock_timeout, TypeOK, BuiltinLocks
  <2> QED
    BY <1>4, <2>1 DEF UnknownWakeup, wake_lock_timeout, GoTo, OpTypes, TypeOK, Places
<1>5. CASE EarlySuspendWork
  <2>1. CASE wake_unlock(main_wake_lock)
    <3>1. OpTypes
      BY <2>1, LocksAssumption, UnlockTypes DEF BuiltinLocks
    <3> QED
      BY <1>5, <2>1, <3>1 DEF EarlySuspendWork, wake_unlock, GoTo, OpTypes, TypeOK, Places
  <2>2. CASE UNCHANGED <<wl, expire_timer, watchdog_timer, softirq, events, wq, fresh>>
    BY <1>5, <2>2 DEF EarlySuspendWork, GoTo, TypeOK, Places
  <2> QED
    BY <1>5, <2>1, <2>2 DEF EarlySuspendWork
<1>6. CASE Tick
  <2>1. expire_timer' \in 0 .. MaxTimeout \cup {NotPending}
    BY <1>6, TimeAssumption DEF Tick, Less, TypeOK
  <2>2. FlagsAgree(wl')
    BY <1>6, TickShrinks DEF Tick, TypeOK
  <2> QED
    BY <1>6, <2>1, <2>2 DEF Tick, TypeOK
<1>7. CASE DequeueExpireTimer \/ DequeueWatchdogTimer
  BY <1>7 DEF DequeueExpireTimer, DequeueWatchdogTimer, TypeOK
<1>8. CASE expire_wake_locks
  BY <1>8, ScanKeeps, QueueWork DEF expire_wake_locks, TypeOK, Works
<1>9. CASE watchdog_func
  <2>1. OpTypes
    BY <1>9, LocksAssumption, LockTypes DEF watchdog_func, TypeOK, BuiltinLocks
  <2> QED
    BY <1>9, <2>1 DEF watchdog_func, OpTypes, TypeOK
<1>10. ASSUME NEW l \in DriverLocks, DriverInit(l) \/ DriverDestroy(l)
       PROVE  TypeOK'
  <2>1. l \in Locks \ BuiltinLocks
    BY DEF DriverLocks
  <2> QED
    BY <1>10, <2>1, InitAgrees, DestroyAgrees DEF DriverInit, DriverDestroy, TypeOK
<1>11. ASSUME NEW l \in DriverLocks, DriverLock(l) PROVE TypeOK'
  <2>1. OpTypes
    BY <1>11, LockTypes DEF DriverLock, wake_lock, TypeOK, DriverLocks
  <2> QED
    BY <1>11, <2>1 DEF DriverLock, wake_lock, OpTypes, TypeOK
<1>12. ASSUME NEW l \in DriverLocks, NEW timeout \in 0 .. MaxTimeout,
              DriverLockTimeout(l, timeout)
       PROVE  TypeOK'
  <2>1. OpTypes
    BY <1>12, LockTypes DEF DriverLockTimeout, wake_lock_timeout, TypeOK, DriverLocks
  <2> QED
    BY <1>12, <2>1 DEF DriverLockTimeout, wake_lock_timeout, OpTypes, TypeOK
<1>13. ASSUME NEW l \in DriverLocks, DriverUnlock(l) PROVE TypeOK'
  <2>1. OpTypes
    BY <1>13, UnlockTypes DEF DriverUnlock, DriverLocks
  <2> QED
    BY <1>13, <2>1 DEF DriverUnlock, wake_unlock, OpTypes, TypeOK
<1>14. CASE IdleCheck
  BY <1>14, ScanKeeps DEF IdleCheck, TypeOK
<1>15. ASSUME NEW l \in UserLocks, NEW timeout \in 0 .. MaxTimeout, wake_lock_store(l, timeout)
       PROVE  TypeOK'
  <2> DEFINE w == IF l \in wl.initialized THEN wl ELSE wake_lock_init(wl, l)
  <2>1. l \in Locks
    BY OwnersAssumption
  <2>2. FlagsAgree(w)
    BY <2>1, InitAgrees DEF TypeOK
  <2>3. OpTypes
    BY <1>15, <2>1, <2>2, LockTypes DEF wake_lock_store, TypeOK
  <2> QED
    BY <1>15, <2>3 DEF wake_lock_store, OpTypes, TypeOK
<1>16. ASSUME NEW l \in UserLocks, wake_unlock_store(l) PROVE TypeOK'
  <2>1. OpTypes
    BY <1>16, OwnersAssumption, UnlockTypes DEF wake_unlock_store
  <2> QED
    BY <1>16, <2>1 DEF wake_unlock_store, wake_unlock, OpTypes, TypeOK
<1>17. ASSUME NEW new_state \in {PM_SUSPEND_ON, PM_SUSPEND_MEM},
              request_suspend_state(new_state)
       PROVE  TypeOK'
  <2> DEFINE q == queue_work(wq, "late_resume")
  <2>1. CASE wake_lock_internal(wl, q, main_wake_lock, FALSE, 0)
    <3>1. q \in Seq(Works)
      BY QueueWork DEF TypeOK, Works
    <3>2. OpTypes
      BY <2>1, <3>1, LocksAssumption, LockTypes DEF TypeOK, BuiltinLocks
    <3> QED
      BY <1>17, <3>2 DEF request_suspend_state, OpTypes, TypeOK
  <2>2. CASE wq' \in {wq, queue_work(wq, "early_suspend")}
             /\ UNCHANGED <<wl, expire_timer, watchdog_timer, events, fresh>>
    BY <1>17, <2>2, QueueWork DEF request_suspend_state, TypeOK, Works
  <2> QED
    BY <1>17, <2>1, <2>2 DEF request_suspend_state
<1>18. CASE UNCHANGED vars
  BY <1>18 DEF vars, lockVars, TypeOK
<1> QED
  BY <1>1, <1>2, <1>3, <1>4, <1>5, <1>6, <1>7, <1>8, <1>9, <1>10, <1>11, <1>12, <1>13,
     <1>14, <1>15, <1>16, <1>17, <1>18
     DEF Next, PowerStep, SuspendSteps, Timers, Drivers, UserWakeLocks

\* Every reachable state has its type: the flags that the lock operations, the
\* expiry scans and the statistics change separately always agree.
THEOREM TypeCorrect == Spec => []TypeOK
BY InitTypes, NextTypes, PTL DEF Spec

-----------------------------------------------------------------------------
(***************************************************************************)
(* No suspend attempt is lost.                                             *)
(*                                                                         *)
(* NoLostSuspend is inductive only together with TimerCoversLocks: when    *)
(* the suspend work or the expire timer finds a lock that still has time   *)
(* left and gives up, it relies on the expire timer being pending, and     *)
(* that is what TimerCoversLocks says.                                     *)
(***************************************************************************)
TimerInv == TimerCoversLocks /\ NoLostSuspend

\* An operation on a suspend lock establishes both invariants anew.
LEMMA ServedInv ==
  ASSUME Served
  PROVE  TimerInv'
BY DEF Served, Cover, TimerInv, TimerCoversLocks, NoLostSuspend, AttemptUnderWay

\* A step that at most expires locks keeps them, if it keeps what is under way.
LEMMA ShrinkInv ==
  ASSUME TimerInv, Shrinks(wl, wl'), expire_timer' = expire_timer,
         "expire" \in softirq => "expire" \in softirq',
         AttemptUnderWay => AttemptUnderWay'
  PROVE  TimerInv'
<1>1. Cover(wl, expire_timer)
  BY DEF TimerInv, TimerCoversLocks, Cover
<1>2. Cover(wl', expire_timer)
  BY <1>1, ShrinkCover
<1>3. AllAutoExpire(wl', WAKE_LOCK_SUSPEND) => AllAutoExpire(wl, WAKE_LOCK_SUSPEND)
  BY DEF Shrinks
<1> QED
  BY <1>2, <1>3 DEF TimerInv, TimerCoversLocks, Cover, NoLostSuspend

\* A scan that finds time left finds the expire timer pending.
LEMMA TimeLeftArmed ==
  ASSUME TypeOK, TimerInv, NEW ret \in -1 .. MaxTimeout,
         ScanReturns(ret, wl, WAKE_LOCK_SUSPEND), ret # 0,
         AllAutoExpire(wl, WAKE_LOCK_SUSPEND)
  PROVE  expire_timer # NotPending
<1>1. ret > 0 /\ \E l \in HeldOf(wl, WAKE_LOCK_SUSPEND) : wl.left[l] = ret
  BY TimeAssumption DEF ScanReturns
<1>2. ret <= expire_timer
  BY <1>1 DEF TimerInv, TimerCoversLocks
<1> QED
  BY <1>1, <1>2, TimeAssumption

\* The head of the queue leaves it; the works behind stay pending.
LEMMA TailPending ==
  ASSUME NEW q \in Seq(Works), q # <<>>, Pending(q, "suspend"), Head(q) # "suspend"
  PROVE  Pending(Tail(q), "suspend")
<1>1. PICK i \in DOMAIN q : q[i] = "suspend"
  BY DEF Pending
<1>2. i \in 2 .. Len(q) /\ i - 1 \in DOMAIN Tail(q)
  BY <1>1
<1>3. Tail(q)[i - 1] = "suspend"
  BY <1>1, <1>2
<1> QED
  BY <1>2, <1>3 DEF Pending

\* At boot the main lock has no timeout, so there is nothing to cover.
LEMMA InitTimer == Init => TimerInv
BY LocksAssumption
   DEF Init, TimerInv, TimerCoversLocks, NoLostSuspend, AllAutoExpire, HeldOf, BuiltinLocks

\* Every step keeps the timer invariant, one case per action.
LEMMA NextTimer ==
  ASSUME AbandonedLocks = {}, TypeOK, TimerInv, [Next]_vars
  PROVE  TimerInv'
<1> USE BackOffTimes
<1>a. ASSUME wl' = wl PROVE Shrinks(wl, wl')
  BY <1>a DEF Shrinks
<1>1. CASE run_workqueue
  <2>1. UNCHANGED <<wl, expire_timer, softirq>>
    BY <1>1 DEF run_workqueue
  <2>2. AttemptUnderWay => AttemptUnderWay'
    <3>1. worker = "idle" /\ worker' = Head(wq) /\ wq' = Tail(wq) /\ wq # <<>>
      BY <1>1 DEF run_workqueue, GoTo
    <3>2. AttemptUnderWay => Pending(wq, "suspend")
      BY <3>1 DEF AttemptUnderWay, Recorded, SuspendPlaces
    <3>3. wq \in Seq(Works)
      BY DEF TypeOK
    <3>4. Pending(wq, "suspend") => Head(wq) = "suspend" \/ Pending(Tail(wq), "suspend")
      BY <3>1, <3>3, TailPending
    <3> QED
      BY <3>1, <3>2, <3>4 DEF AttemptUnderWay
  <2> QED
    BY <1>a, <2>1, <2>2, ShrinkInv
<1>2. CASE SuspendCheck
  <2>1. PICK ret \in -1 .. MaxTimeout :
          /\ has_wake_lock(WAKE_LOCK_SUSPEND, ret)
          /\ GoTo("suspend", IF ret = 0 THEN "checked" ELSE "idle")
          /\ UNCHANGED <<expire_timer, softirq, wq>>
    BY <1>2 DEF SuspendCheck
  <2>2. Shrinks(wl, wl')
    BY <2>1, ScanKeeps
  <2>3. CASE ret = 0
    BY <2>1, <2>2, <2>3, ShrinkInv DEF GoTo, AttemptUnderWay
  <2>4. CASE ret # 0
    <3>1. AllAutoExpire(wl, WAKE_LOCK_SUSPEND) => expire_timer # NotPending
      BY <2>1, <2>4, TimeLeftArmed DEF has_wake_lock
    <3>2. AllAutoExpire(wl', WAKE_LOCK_SUSPEND) => AllAutoExpire(wl, WAKE_LOCK_SUSPEND)
      BY <2>2 DEF Shrinks
    <3>3. Cover(wl', expire_timer')
      BY <2>1, <2>2, ShrinkCover DEF TimerInv, TimerCoversLocks, Cover
    <3> QED
      BY <2>1, <3>1, <3>2, <3>3
         DEF TimerInv, TimerCoversLocks, Cover, NoLostSuspend
  <2> QED
    BY <2>3, <2>4
<1>3. CASE FreezeCheck \/ power_suspend_late
  <2>1. Shrinks(wl, wl')
    BY <1>3, ScanKeeps DEF FreezeCheck, power_suspend_late
  <2> QED
    BY <1>3, <2>1, ShrinkInv
       DEF FreezeCheck, power_suspend_late, GoTo, AttemptUnderWay, Recorded, SuspendPlaces
<1>4. CASE SuspendRecord \/ pm_suspend \/ FreezeEnd \/ dpm_suspend_start
           \/ suspend_enter \/ Wake \/ SuspendExit \/ LateResumeWork
  BY <1>4, <1>a, ShrinkInv
     DEF SuspendRecord, pm_suspend, FreezeEnd, dpm_suspend_start, suspend_enter, Wake,
         SuspendExit, LateResumeWork, GoTo, AttemptUnderWay, Recorded, SuspendPlaces
<1>5. CASE UnknownWakeup
  BY <1>5, LocksAssumption, LockServes, ServedInv
     DEF UnknownWakeup, wake_lock_timeout, TypeOK, BuiltinLocks
<1>6. CASE EarlySuspendWork
  <2>1. CASE wake_unlock(main_wake_lock)
    BY <2>1, LocksAssumption, UnlockServes, ServedInv DEF BuiltinLocks
  <2>2. CASE UNCHANGED <<wl, expire_timer, watchdog_timer, softirq, events, wq, fresh>>
    BY <1>6, <2>2, <1>a, ShrinkInv
       DEF EarlySuspendWork, GoTo, AttemptUnderWay, Recorded, SuspendPlaces
  <2> QED
    BY <1>6, <2>1, <2>2 DEF EarlySuspendWork
<1>7. CASE Tick
  <2>1. /\ wl'.active = wl.active /\ wl'.auto_expire = wl.auto_expire
        /\ \A l \in Locks : wl'.left[l] = Less(wl.left[l]) /\ wl.left[l] \in 0 .. MaxTimeout
    BY <1>7 DEF Tick, TypeOK, FlagsAgree, LockState
  <2>2. expire_timer' = Less(expire_timer) /\ expire_timer \in 0 .. MaxTimeout \cup {NotPending}
    BY <1>7 DEF Tick, TypeOK
  <2>3. /\ HeldOf(wl', WAKE_LOCK_SUSPEND) = HeldOf(wl, WAKE_LOCK_SUSPEND)
        /\ HeldOf(wl, WAKE_LOCK_SUSPEND) \subseteq Locks
        /\ AllAutoExpire(wl', WAKE_LOCK_SUSPEND) <=> AllAutoExpire(wl, WAKE_LOCK_SUSPEND)
    BY <2>1 DEF HeldOf, AllAutoExpire, TypeOK, FlagsAgree, LockState
  <2>4. TimerCoversLocks'
    BY <2>1, <2>2, <2>3, TimeAssumption DEF TimerInv, TimerCoversLocks, Less
  <2>5. expire_timer # NotPending => expire_timer' # NotPending
    BY <2>2, TimeAssumption DEF Less
  <2> QED
    BY <1>7, <2>3, <2>4, <2>5
       DEF TimerInv, NoLostSuspend, Tick, AttemptUnderWay, Recorded
<1>8. CASE DequeueExpireTimer
  <2>1. TimerCoversLocks'
    BY <1>8, TimeAssumption
       DEF DequeueExpireTimer, TimerInv, TimerCoversLocks, TypeOK, FlagsAgree, LockState, HeldOf
  <2> QED
    BY <1>8, <2>1 DEF DequeueExpireTimer, TimerInv, NoLostSuspend
<1>9. CASE expire_wake_locks
  <2>1. PICK ret \in -1 .. MaxTimeout :
          /\ has_wake_lock(WAKE_LOCK_SUSPEND, ret)
          /\ wq' = IF ret = 0 THEN queue_work(wq, "suspend") ELSE wq
    BY <1>9 DEF expire_wake_locks
  <2>2. Shrinks(wl, wl') /\ expire_timer' = expire_timer
    BY <1>9, <2>1, ScanKeeps DEF expire_wake_locks
  <2>3. TimerCoversLocks'
    BY <2>2, ShrinkCover DEF TimerInv, TimerCoversLocks, Cover
  <2>4. ret = 0 => Pending(wq', "suspend")
    BY <2>1, QueueWork DEF TypeOK, Works
  <2>5. ret # 0 /\ AllAutoExpire(wl, WAKE_LOCK_SUSPEND) => expire_timer # NotPending
    BY <2>1, TimeLeftArmed DEF has_wake_lock
  <2>6. AllAutoExpire(wl', WAKE_LOCK_SUSPEND) => AllAutoExpire(wl, WAKE_LOCK_SUSPEND)
    BY <2>2 DEF Shrinks
  <2> QED
    BY <2>2, <2>3, <2>4, <2>5, <2>6 DEF TimerInv, NoLostSuspend, AttemptUnderWay
<1>10. CASE DequeueWatchdogTimer
  BY <1>10, <1>a, ShrinkInv DEF DequeueWatchdogTimer, AttemptUnderWay, Recorded
<1>11. CASE watchdog_func
  BY <1>11, LocksAssumption, LockServes, ServedInv DEF watchdog_func, TypeOK, BuiltinLocks
<1>12. ASSUME NEW l \in DriverLocks, DriverInit(l) PROVE TimerInv'
  <2>1. Shrinks(wl, wl')
    <3>1. l \notin wl.active /\ wl'.active = wl.active \ {l}
          /\ wl'.auto_expire = wl.auto_expire \ {l}
          /\ \A k \in Locks \ {l} : wl'.left[k] = wl.left[k]
      BY <1>12 DEF DriverInit, wake_lock_init, Deactivate, TypeOK, FlagsAgree, LockState
    <3> QED
      BY <3>1 DEF Shrinks, HeldOf, AllAutoExpire, TypeOK, FlagsAgree, LockState
  <2> QED
    BY <1>12, <2>1, ShrinkInv DEF DriverInit, AttemptUnderWay, Recorded
<1>13. ASSUME NEW l \in DriverLocks, DriverDestroy(l) PROVE TimerInv'
  <2>1. Shrinks(wl, wl')
    <3>1. (l \in wl.active => l \in wl.auto_expire) /\ wl'.active = wl.active \ {l}
          /\ wl'.auto_expire = wl.auto_expire \ {l}
          /\ \A k \in Locks \ {l} : wl'.left[k] = wl.left[k]
      BY <1>13 DEF DriverDestroy, wake_lock_destroy, Deactivate, TypeOK, FlagsAgree, LockState
    <3> QED
      BY <3>1 DEF Shrinks, HeldOf, AllAutoExpire, TypeOK, FlagsAgree, LockState
  <2> QED
    BY <1>13, <2>1, ShrinkInv DEF DriverDestroy, AttemptUnderWay, Recorded
<1>14. ASSUME NEW l \in Locks, NEW has_timeout \in BOOLEAN, NEW timeout \in 0 .. MaxTimeout,
              ~has_timeout => timeout = 0,
              wake_lock_internal(wl, wq, l, has_timeout, timeout),
              UNCHANGED <<softirq, worker>>
       PROVE  TimerInv'
  <2>1. CASE LockType[l] = WAKE_LOCK_SUSPEND
    BY <1>14, <2>1, LockServes, ServedInv DEF TypeOK
  <2>2. CASE LockType[l] # WAKE_LOCK_SUSPEND
    <3>1. Shrinks(wl, wl') /\ UNCHANGED <<wq, expire_timer, events>>
      BY <1>14, <2>2, IdleLockKeeps DEF TypeOK
    <3> QED
      BY <1>14, <3>1, ShrinkInv DEF AttemptUnderWay, Recorded
  <2> QED
    BY <2>1, <2>2
<1>15. ASSUME NEW l \in Locks, wake_unlock(l), UNCHANGED worker PROVE TimerInv'
  <2>1. CASE LockType[l] = WAKE_LOCK_SUSPEND
    BY <1>15, <2>1, UnlockServes, ServedInv
  <2>2. CASE LockType[l] # WAKE_LOCK_SUSPEND
    <3>1. Shrinks(wl, wl') /\ UNCHANGED <<wq, expire_timer, events, softirq>>
      BY <1>15, <2>2, IdleUnlockKeeps DEF wake_unlock
    <3> QED
      BY <1>15, <3>1, ShrinkInv DEF AttemptUnderWay, Recorded
  <2> QED
    BY <2>1, <2>2
<1>16. ASSUME NEW l \in DriverLocks, DriverLock(l) \/ DriverUnlock(l) PROVE TimerInv'
  BY <1>14, <1>15, <1>16 DEF DriverLock, wake_lock, DriverUnlock, DriverLocks
<1>17. ASSUME NEW l \in DriverLocks, NEW timeout \in 0 .. MaxTimeout,
              DriverLockTimeout(l, timeout)
       PROVE  TimerInv'
  BY <1>14, <1>17 DEF DriverLockTimeout, wake_lock_timeout, DriverLocks
<1>18. CASE IdleCheck
  BY <1>18, ScanKeeps, ShrinkInv DEF IdleCheck, AttemptUnderWay, Recorded
<1>19. ASSUME NEW l \in UserLocks, NEW timeout \in 0 .. MaxTimeout, wake_lock_store(l, timeout)
       PROVE  TimerInv'
  <2> DEFINE w == IF l \in wl.initialized THEN wl ELSE wake_lock_init(wl, l)
  <2>1. l \in Locks /\ LockType[l] = WAKE_LOCK_SUSPEND
    BY OwnersAssumption
  <2>2. FlagsAgree(w)
    BY <2>1, InitAgrees DEF TypeOK
  <2>3. wake_lock_internal(w, wq, l, timeout # 0, timeout)
    BY <1>19 DEF wake_lock_store
  <2> HIDE DEF w
  <2> QED
    BY <2>1, <2>2, <2>3, LockServes, ServedInv DEF TypeOK
<1>20. ASSUME NEW l \in UserLocks, wake_unlock_store(l) PROVE TimerInv'
  BY <1>15, <1>20, OwnersAssumption DEF wake_unlock_store
<1>21. ASSUME NEW new_state \in {PM_SUSPEND_ON, PM_SUSPEND_MEM},
              request_suspend_state(new_state)
       PROVE  TimerInv'
  <2> DEFINE q == queue_work(wq, "late_resume")
  <2>1. CASE wake_lock_internal(wl, q, main_wake_lock, FALSE, 0)
    <3>1. q \in Seq(Works)
      BY QueueWork DEF TypeOK, Works
    <3> QED
      BY <2>1, <3>1, LocksAssumption, LockServes, ServedInv DEF TypeOK, BuiltinLocks
  <2>2. CASE wq' \in {wq, queue_work(wq, "early_suspend")}
             /\ UNCHANGED <<wl, expire_timer, watchdog_timer, events, fresh>>
    <3>1. Pending(wq, "suspend") => Pending(wq', "suspend")
      BY <2>2, QueueWork DEF TypeOK, Works
    <3> QED
      BY <1>21, <2>2, <3>1, <1>a, ShrinkInv
         DEF request_suspend_state, AttemptUnderWay, Recorded
  <2> QED
    BY <1>21, <2>1, <2>2 DEF request_suspend_state
<1>22. CASE UNCHANGED vars
  BY <1>22, <1>a, ShrinkInv DEF vars, lockVars, AttemptUnderWay, Recorded
<1> QED
  BY <1>1, <1>2, <1>3, <1>4, <1>5, <1>6, <1>7, <1>8, <1>9, <1>10, <1>11, <1>12, <1>13,
     <1>16, <1>17, <1>18, <1>19, <1>20, <1>21, <1>22
     DEF Next, PowerStep, SuspendSteps, Timers, Drivers, UserWakeLocks

\* The expire timer is never left behind by the locks it stands for, provided
\* that no lock without a timeout is destroyed while it is held.
THEOREM TimerCovers ==
  ASSUME AbandonedLocks = {}
  PROVE  Spec => []TimerCoversLocks
<1>1. TypeOK /\ TimerInv /\ [Next]_vars => TimerInv'
  BY NextTimer
<1>2. TimerInv => TimerCoversLocks
  BY DEF TimerInv
<1> QED
  BY <1>1, <1>2, InitTimer, TypeCorrect, PTL DEF Spec

\* Under the same condition no interleaving of lock operations, timers and
\* suspend attempts loses the suspend that is due.
THEOREM SuspendNeverLost ==
  ASSUME AbandonedLocks = {}
  PROVE  Spec => []NoLostSuspend
<1>1. TypeOK /\ TimerInv /\ [Next]_vars => TimerInv'
  BY NextTimer
<1>2. TimerInv => NoLostSuspend
  BY DEF TimerInv
<1> QED
  BY <1>1, <1>2, InitTimer, TypeCorrect, PTL DEF Spec

-----------------------------------------------------------------------------
(***************************************************************************)
(* The system sleeps only with the screen off, and over no lock that was   *)
(* there when power_suspend_late looked.                                   *)
(***************************************************************************)
SleepInv == MainLockWhileOn /\ SleepOnlyWhenRequested /\ SleepRespectsLocks

\* v has no active lock beyond those of w and S, and neither a new timeout for
\* the main lock nor, unless it loses it, a main lock that is gone.
Tames(w, v, S, keep) ==
  /\ v.active \subseteq w.active \cup S
  /\ main_wake_lock \notin w.auto_expire => main_wake_lock \notin v.auto_expire
  /\ keep /\ main_wake_lock \in w.active /\ main_wake_lock \notin w.auto_expire
       => main_wake_lock \in v.active

\* A scan keeps the main lock, which has no timeout.
LEMMA ScanTames ==
  ASSUME NEW w, FlagsAgree(w), NEW type
  PROVE  Tames(w, has_wake_lock_locked(w, type), {}, TRUE)
BY DEF FlagsAgree, LockState, Tames, has_wake_lock_locked, Deactivate, get_expired_time

\* Taking a lock adds it; the main lock itself only gets no timeout.
LEMMA LockTames ==
  ASSUME TypeOK, NEW w, FlagsAgree(w), NEW q, NEW l \in Locks,
         NEW has_timeout \in BOOLEAN, NEW timeout \in 0 .. MaxTimeout,
         ~has_timeout => timeout = 0, l = main_wake_lock => ~has_timeout,
         wake_lock_internal(w, q, l, has_timeout, timeout)
  PROVE  /\ Tames(w, wl', {l}, TRUE)
         /\ fresh' = IF worker = "late" THEN fresh \cup {l} ELSE fresh
         /\ ~has_timeout => l \in wl'.active
<1> DEFINE taken == TakeLock(w, l, has_timeout, timeout)
           counted == AccountLock(taken, l)
           scanned == has_wake_lock_locked(counted, WAKE_LOCK_SUSPEND)
<1>1. l \in w.initialized /\ fresh' = IF worker = "late" THEN fresh \cup {l} ELSE fresh
  BY DEF wake_lock_internal
<1>2. FlagsAgree(taken)
  BY <1>1, TakeAgrees
<1>3. Tames(w, taken, {l}, TRUE) /\ l \in taken.active
  BY <1>1 DEF FlagsAgree, LockState, Tames, TakeLock
<1>4. /\ FlagsAgree(counted) /\ counted.active = taken.active
      /\ counted.auto_expire = taken.auto_expire
  BY <1>2, AccountAgrees
<1>5. Tames(counted, scanned, {}, TRUE)
  BY <1>4, ScanTames
<1>6. wl' = taken \/ wl' = counted \/ (has_timeout /\ wl' = scanned)
  BY DEF wake_lock_internal
<1> HIDE DEF taken, counted, scanned
<1> QED
  BY <1>1, <1>3, <1>4, <1>5, <1>6 DEF Tames

\* Releasing a lock adds none, and keeps the main lock unless that is the one.
LEMMA UnlockTames ==
  ASSUME TypeOK, NEW l \in Locks, wake_unlock(l)
  PROVE  Tames(wl, wl', {}, l # main_wake_lock) /\ UNCHANGED fresh
<1> DEFINE freed == Deactivate(wl, {l})
           scanned == has_wake_lock_locked(freed, WAKE_LOCK_SUSPEND)
           counted == update_sleep_wait_stats_locked(scanned, FALSE)
<1>1. FlagsAgree(freed)
  BY DeactivateAgrees DEF TypeOK
<1>2. Tames(wl, freed, {}, l # main_wake_lock)
  BY DEF Tames, Deactivate, TypeOK, FlagsAgree, LockState
<1>3. FlagsAgree(scanned) /\ Tames(freed, scanned, {}, TRUE)
  BY <1>1, ScanFlagsAgree, ScanTames
<1>4. counted.active = scanned.active /\ counted.auto_expire = scanned.auto_expire
  BY <1>3, StatsAgree
<1>5. wl' = freed \/ wl' = scanned \/ wl' = counted
  BY DEF wake_unlock
<1>6. UNCHANGED fresh
  BY DEF wake_unlock
<1>7. \/ wl'.active = freed.active /\ wl'.auto_expire = freed.auto_expire
      \/ wl'.active = scanned.active /\ wl'.auto_expire = scanned.auto_expire
  BY <1>4, <1>5
<1> HIDE DEF freed, scanned, counted
<1> QED
  BY <1>2, <1>3, <1>6, <1>7 DEF Tames

\* A step that takes no lock, or takes one with the worker not past
\* power_suspend_late or the lock recorded in fresh, keeps the invariant.
LEMMA TameInv ==
  ASSUME SleepInv, NEW S, Tames(wl, wl', S, TRUE),
         UNCHANGED <<worker, requested_suspend_state, suspend_requested>>,
         worker = "asleep" => S = {},
         main_wake_lock \notin S,
         fresh \subseteq fresh', worker = "late" => S \subseteq fresh'
  PROVE  SleepInv'
<1>1. MainLockWhileOn'
  BY DEF SleepInv, MainLockWhileOn, Tames
<1>2. SleepOnlyWhenRequested'
  BY DEF SleepInv, SleepOnlyWhenRequested, Tames
<1>3. SleepRespectsLocks'
  BY DEF SleepInv, SleepRespectsLocks, Tames, HeldOf
<1> QED
  BY <1>1, <1>2, <1>3 DEF SleepInv

\* A step to a place before power_suspend_late or after the sleep keeps it.
LEMMA AwakeInv ==
  ASSUME SleepInv, NEW S, Tames(wl, wl', S, TRUE),
         UNCHANGED <<requested_suspend_state, suspend_requested>>,
         worker' \notin {"late", "asleep"}
  PROVE  SleepInv'
BY DEF SleepInv, MainLockWhileOn, SleepOnlyWhenRequested, SleepRespectsLocks, Tames

\* At boot the main lock is held and the worker is idle.
LEMMA InitSleep == Init => SleepInv
BY DEF Init, SleepInv, MainLockWhileOn, SleepOnlyWhenRequested, SleepRespectsLocks

\* Every step keeps the sleep invariant; power_suspend_late establishes it.
LEMMA NextSleep ==
  ASSUME TypeOK, SleepInv, [Next]_vars
  PROVE  SleepInv'
<1> USE BackOffTimes
<1>a. ASSUME wl' = wl PROVE Tames(wl, wl', {}, TRUE)
  BY <1>a DEF Tames
<1>b. ASSUME NEW type, NEW ret, has_wake_lock(type, ret) PROVE Tames(wl, wl', {}, TRUE)
  BY <1>b, ScanTames DEF has_wake_lock, TypeOK
<1>1. CASE run_workqueue
  <2>1. Head(wq) \in Works
    BY <1>1 DEF run_workqueue, TypeOK
  <2> QED
    BY <1>1, <1>a, <2>1, AwakeInv DEF run_workqueue, GoTo, Works
<1>2. CASE SuspendCheck \/ FreezeCheck
  BY <1>2, <1>b, AwakeInv DEF SuspendCheck, FreezeCheck, GoTo
<1>3. CASE SuspendRecord \/ pm_suspend \/ FreezeEnd \/ dpm_suspend_start \/ Wake
           \/ SuspendExit \/ LateResumeWork
  BY <1>3, <1>a, AwakeInv DEF SuspendRecord, pm_suspend, FreezeEnd, dpm_suspend_start,
     Wake, SuspendExit, LateResumeWork, GoTo
<1>4. CASE power_suspend_late
  <2>1. PICK ret \in -1 .. MaxTimeout :
          /\ has_wake_lock(WAKE_LOCK_SUSPEND, ret)
          /\ GoTo("suspended", IF ret = 0 THEN "late" ELSE "exit")
    BY <1>4 DEF power_suspend_late
  <2>2. Tames(wl, wl', {}, TRUE)
    BY <2>1, <1>b
  <2>3. CASE ret # 0
    BY <2>1, <2>2, <2>3, AwakeInv DEF GoTo
  <2>4. CASE ret = 0
    <3>1. HeldOf(wl', WAKE_LOCK_SUSPEND) = {}
      BY <2>1, <2>4, ScanClear DEF has_wake_lock, TypeOK
    <3>2. main_wake_lock \notin wl'.active
      BY <3>1, LocksAssumption DEF HeldOf, BuiltinLocks
    <3>3. suspend_requested' /\ requested_suspend_state' # PM_SUSPEND_ON
      BY <2>1, <2>2, <3>2 DEF SleepInv, MainLockWhileOn, Tames, GoTo
    <3>4. MainLockWhileOn'
      BY <2>2, <3>3 DEF SleepInv, MainLockWhileOn, Tames
    <3> QED
      BY <3>1, <3>2, <3>3, <3>4 DEF SleepInv, SleepOnlyWhenRequested, SleepRespectsLocks
  <2> QED
    BY <2>3, <2>4
<1>5. CASE suspend_enter
  BY <1>5 DEF suspend_enter, GoTo, SleepInv, MainLockWhileOn, SleepOnlyWhenRequested,
     SleepRespectsLocks
<1>6. CASE UnknownWakeup
  <2>1. Tames(wl, wl', {unknown_wakeup}, TRUE)
    BY <1>6, LocksAssumption, LockTames
       DEF UnknownWakeup, wake_lock_timeout, TypeOK, BuiltinLocks
  <2> QED
    BY <1>6, <2>1, AwakeInv DEF UnknownWakeup, GoTo
<1>7. CASE EarlySuspendWork
  <2>1. CASE suspend_requested /\ wake_unlock(main_wake_lock)
    <3>1. Tames(wl, wl', {}, FALSE)
      BY <2>1, LocksAssumption, UnlockTames DEF BuiltinLocks
    <3> QED
      BY <1>7, <2>1, <3>1 DEF EarlySuspendWork, GoTo, Tames, SleepInv, MainLockWhileOn,
         SleepOnlyWhenRequested, SleepRespectsLocks
  <2>2. CASE UNCHANGED <<wl, expire_timer, watchdog_timer, softirq, events, wq, fresh>>
    BY <1>7, <2>2, <1>a, AwakeInv DEF EarlySuspendWork, GoTo
  <2> QED
    BY <1>7, <2>1, <2>2 DEF EarlySuspendWork
<1>8. CASE Tick
  <2>1. Tames(wl, wl', {}, TRUE)
    BY <1>8 DEF Tick, Tames, TypeOK, FlagsAgree, LockState
  <2> QED
    BY <1>8, <2>1, TameInv DEF Tick
<1>9. CASE DequeueExpireTimer \/ DequeueWatchdogTimer
  BY <1>9, <1>a, TameInv DEF DequeueExpireTimer, DequeueWatchdogTimer
<1>10. CASE expire_wake_locks \/ IdleCheck
  BY <1>10, <1>b, TameInv DEF expire_wake_locks, IdleCheck
<1>11. ASSUME NEW w, FlagsAgree(w), Tames(wl, w, {}, TRUE),
              NEW l \in Locks \ {main_wake_lock},
              NEW has_timeout \in BOOLEAN, NEW timeout \in 0 .. MaxTimeout,
              ~has_timeout => timeout = 0, worker # "asleep",
              wake_lock_internal(w, wq, l, has_timeout, timeout),
              UNCHANGED <<worker, requested_suspend_state, suspend_requested>>
       PROVE  SleepInv'
  <2>0. l \in Locks /\ (l = main_wake_lock => ~has_timeout)
    BY <1>11
  <2>1. Tames(w, wl', {l}, TRUE) /\ fresh' = IF worker = "late" THEN fresh \cup {l} ELSE fresh
    <3>1. CASE has_timeout = TRUE
      <4>1. wake_lock_internal(w, wq, l, TRUE, timeout)
        BY <1>11, <3>1
      <4> QED
        BY <1>11, <2>0, <3>1, <4>1, LockTames
    <3>2. CASE has_timeout = FALSE
      <4>1. wake_lock_internal(w, wq, l, FALSE, 0)
        BY <1>11, <3>2
      <4> QED
        BY <1>11, <2>0, <4>1, LockTames
    <3> QED
      BY <3>1, <3>2
  <2>2. Tames(wl, wl', {l}, TRUE)
    BY <1>11, <2>1 DEF Tames
  <2> QED
    BY <1>11, <2>1, <2>2, TameInv
<1>12. CASE watchdog_func
  BY <1>12, <1>11, LocksAssumption DEF watchdog_func, Asleep, TypeOK, BuiltinLocks, Tames
<1>13. ASSUME NEW l \in DriverLocks, DriverInit(l) \/ DriverDestroy(l) PROVE SleepInv'
  <2>1. l # main_wake_lock
    BY DEF DriverLocks, BuiltinLocks
  <2>2. wl'.active = wl.active \ {l} /\ wl'.auto_expire = wl.auto_expire \ {l}
    BY <1>13 DEF DriverInit, DriverDestroy, wake_lock_init, wake_lock_destroy, Deactivate,
       TypeOK, FlagsAgree, LockState
  <2>3. Tames(wl, wl', {}, TRUE)
    BY <2>1, <2>2 DEF Tames
  <2> QED
    BY <1>13, <2>3, TameInv DEF DriverInit, DriverDestroy
<1>14. ASSUME NEW l \in DriverLocks,
              \/ DriverLock(l)
              \/ \E timeout \in 0 .. MaxTimeout : DriverLockTimeout(l, timeout)
       PROVE  SleepInv'
  <2>1. l \in Locks \ {main_wake_lock} /\ Tames(wl, wl, {}, TRUE) /\ FlagsAgree(wl)
    BY DEF DriverLocks, BuiltinLocks, Tames, TypeOK
  <2> QED
    BY <1>14, <1>11, <2>1 DEF DriverLock, wake_lock, DriverLockTimeout, wake_lock_timeout, Asleep
<1>15. ASSUME NEW l \in Locks \ {main_wake_lock}, wake_unlock(l),
              UNCHANGED <<worker, requested_suspend_state, suspend_requested>>
       PROVE  SleepInv'
  <2>1. Tames(wl, wl', {}, TRUE) /\ UNCHANGED fresh
    BY <1>15, UnlockTames
  <2> QED
    BY <1>15, <2>1, TameInv
<1>16. ASSUME NEW l \in DriverLocks, DriverUnlock(l) PROVE SleepInv'
  BY <1>15, <1>16 DEF DriverUnlock, DriverLocks, BuiltinLocks
<1>17. ASSUME NEW l \in UserLocks, NEW timeout \in 0 .. MaxTimeout, wake_lock_store(l, timeout)
       PROVE  SleepInv'
  <2> DEFINE w == IF l \in wl.initialized THEN wl ELSE wake_lock_init(wl, l)
  <2>1. l \in Locks \ {main_wake_lock}
    BY OwnersAssumption DEF BuiltinLocks
  <2>2. FlagsAgree(w)
    BY <2>1, InitAgrees DEF TypeOK
  <2>3. Tames(wl, w, {}, TRUE)
    <3>1. CASE l \in wl.initialized
      BY <3>1 DEF Tames
    <3>2. CASE l \notin wl.initialized
      <4>1. w.active = wl.active \ {l} /\ w.auto_expire = wl.auto_expire \ {l}
        BY <3>2 DEF wake_lock_init, Deactivate, TypeOK, FlagsAgree, LockState
      <4> QED
        BY <2>1, <4>1 DEF Tames
    <3> QED
      BY <3>1, <3>2
  <2>4. /\ wake_lock_internal(w, wq, l, timeout # 0, timeout)
        /\ UNCHANGED <<worker, requested_suspend_state, suspend_requested>> /\ worker # "asleep"
    BY <1>17 DEF wake_lock_store, Frozen
  <2> HIDE DEF w
  <2> QED
    BY <1>11, <2>1, <2>2, <2>3, <2>4
<1>18. ASSUME NEW l \in UserLocks, wake_unlock_store(l) PROVE SleepInv'
  BY <1>15, <1>18, OwnersAssumption DEF wake_unlock_store, BuiltinLocks
<1>19. ASSUME NEW new_state \in {PM_SUSPEND_ON, PM_SUSPEND_MEM},
              request_suspend_state(new_state)
       PROVE  SleepInv'
  <2>1. /\ worker \notin {"late", "asleep"} /\ worker' = worker
        /\ requested_suspend_state' = new_state
        /\ suspend_requested' = (new_state # PM_SUSPEND_ON)
    BY <1>19 DEF request_suspend_state, Frozen
  <2>2. CASE /\ new_state = PM_SUSPEND_ON
             /\ wake_lock_internal(wl, queue_work(wq, "late_resume"), main_wake_lock, FALSE, 0)
    <3>1. Tames(wl, wl', {main_wake_lock}, TRUE) /\ main_wake_lock \in wl'.active
      BY <2>2, LocksAssumption, LockTames DEF TypeOK, BuiltinLocks
    <3> QED
      BY <2>1, <3>1 DEF Tames, SleepInv, MainLockWhileOn, SleepOnlyWhenRequested,
         SleepRespectsLocks
  <2>3. CASE /\ new_state = PM_SUSPEND_ON => ~suspend_requested
             /\ wl' = wl
    BY <2>1, <2>3 DEF SleepInv, MainLockWhileOn, SleepOnlyWhenRequested, SleepRespectsLocks
  <2> QED
    BY <1>19, <2>2, <2>3 DEF request_suspend_state
<1>20. CASE UNCHANGED vars
  BY <1>20, <1>a, TameInv DEF vars, lockVars
<1> QED
  BY <1>1, <1>2, <1>3, <1>4, <1>5, <1>6, <1>7, <1>8, <1>9, <1>10, <1>12, <1>13,
     <1>14, <1>16, <1>17, <1>18, <1>19, <1>20
     DEF Next, PowerStep, SuspendSteps, Timers, Drivers, UserWakeLocks

\* The system goes to sleep only with the screen off and the main lock
\* released: a request for the screen before user space is frozen is seen by
\* power_suspend_late, and after that none can come.
THEOREM SleepsOnRequest == Spec => []SleepOnlyWhenRequested
<1>1. SleepInv => SleepOnlyWhenRequested
  BY DEF SleepInv
<1>2. TypeOK /\ SleepInv /\ [Next]_vars => SleepInv'
  BY NextSleep
<1> QED
  BY <1>1, <1>2, InitSleep, TypeCorrect, PTL DEF Spec

\* A suspend lock held when the system goes to sleep was taken after
\* power_suspend_late looked.
THEOREM SleepsOverNoOlderLock == Spec => []SleepRespectsLocks
<1>1. SleepInv => SleepRespectsLocks
  BY DEF SleepInv
<1>2. TypeOK /\ SleepInv /\ [Next]_vars => SleepInv'
  BY NextSleep
<1> QED
  BY <1>1, <1>2, InitSleep, TypeCorrect, PTL DEF Spec

-----------------------------------------------------------------------------
(***************************************************************************)
(* The accounting of who prevents suspend.                                 *)
(*                                                                         *)
(* PreventingIsExact is inductive given that the main lock never has a     *)
(* timeout (MainLockWhileOn, part of SleepInv): otherwise a scan could     *)
(* expire it, and nobody would charge the locks that are left.             *)
(***************************************************************************)
\* Taking a lock keeps the charges exact.
LEMMA LockExact ==
  ASSUME TypeOK, NEW w, FlagsAgree(w), Exact(w), main_wake_lock \notin w.auto_expire,
         NEW q, NEW l \in Locks,
         NEW has_timeout \in BOOLEAN, NEW timeout \in 0 .. MaxTimeout,
         ~has_timeout => timeout = 0, l = main_wake_lock => ~has_timeout,
         wake_lock_internal(w, q, l, has_timeout, timeout)
  PROVE  Exact(wl')
<1> DEFINE taken == TakeLock(w, l, has_timeout, timeout)
           counted == AccountLock(taken, l)
           scanned == has_wake_lock_locked(counted, WAKE_LOCK_SUSPEND)
<1>1. l \in w.initialized
  BY DEF wake_lock_internal
<1>2. FlagsAgree(taken)
  BY <1>1, TakeAgrees
<1>3. main_wake_lock \notin taken.auto_expire
  BY <1>1 DEF FlagsAgree, LockState, TakeLock
<1>4. FlagsAgree(counted) /\ counted.auto_expire = taken.auto_expire
  BY <1>2, AccountAgrees
<1>5. Exact(counted)
  BY <1>1, TakeExact
<1>6. Exact(scanned)
  <2> HIDE DEF taken, counted
  <2> QED
    BY <1>3, <1>4, <1>5, ScanExact
<1>7. LockType[l] # WAKE_LOCK_SUSPEND => Exact(taken)
  BY <1>1, LocksAssumption, TakeIdleExact DEF BuiltinLocks
<1>8. \/ wl' = counted \/ wl' = scanned
      \/ LockType[l] # WAKE_LOCK_SUSPEND /\ wl' = taken
  BY DEF wake_lock_internal
<1> HIDE DEF taken, counted, scanned
<1> QED
  BY <1>5, <1>6, <1>7, <1>8

\* So does releasing one; releasing the main lock charges every lock left.
LEMMA UnlockExact ==
  ASSUME TypeOK, Exact(wl), main_wake_lock \notin wl.auto_expire, NEW l \in Locks, wake_unlock(l)
  PROVE  Exact(wl')
<1> DEFINE freed == Deactivate(wl, {l})
           scanned == has_wake_lock_locked(freed, WAKE_LOCK_SUSPEND)
           counted == update_sleep_wait_stats_locked(scanned, FALSE)
<1>1. FlagsAgree(freed) /\ main_wake_lock \notin freed.auto_expire
  <2>1. FlagsAgree(freed)
    BY DeactivateAgrees DEF TypeOK
  <2> QED
    BY <2>1 DEF Deactivate, TypeOK, FlagsAgree, LockState
<1>2. CASE l = main_wake_lock
  <2>1. wl' = counted
    BY <1>2, LocksAssumption DEF wake_unlock, BuiltinLocks
  <2>2. main_wake_lock \notin freed.active
    BY <1>2 DEF Deactivate, TypeOK, FlagsAgree, LockState
  <2> HIDE DEF freed
  <2>3. FlagsAgree(scanned) /\ main_wake_lock \notin scanned.active
    BY <1>1, <2>2, ScanFlagsAgree, ScanTames DEF Tames
  <2> HIDE DEF scanned
  <2> QED
    BY <2>1, <2>3, StatsExact
<1>3. CASE l # main_wake_lock
  <2>1. wl' = freed \/ wl' = scanned
    BY <1>3 DEF wake_unlock
  <2>2. Exact(freed)
    BY <1>3, DeactivateExact DEF TypeOK
  <2> HIDE DEF freed
  <2>3. Exact(scanned)
    BY <1>1, <2>2, ScanExact
  <2> QED
    BY <2>1, <2>2, <2>3
<1> QED
  BY <1>2, <1>3

\* Making or destroying a lock other than the main lock keeps them exact.
LEMMA CreateExact ==
  ASSUME NEW w, FlagsAgree(w), Exact(w), NEW l \in Locks, l # main_wake_lock
  PROVE  Exact(wake_lock_init(w, l)) /\ Exact(wake_lock_destroy(w, l))
<1> DEFINE v == Deactivate(w, {l})
<1>1. Exact(v) /\ FlagsAgree(v)
  BY DeactivateExact, DeactivateAgrees
<1> HIDE DEF v
<1>2. Exact([v EXCEPT !.initialized = @ \cup {l}]) /\ Exact([v EXCEPT !.initialized = @ \ {l}])
  BY <1>1 DEF Exact, HeldOf, get_expired_time, FlagsAgree, LockState
<1> QED
  BY <1>2 DEF wake_lock_init, wake_lock_destroy, v

\* At boot only the main lock is held.
LEMMA InitExact == Init => Exact(wl)
BY DEF Init, Exact, HeldOf

\* Every step keeps the charges exact, one case per action.
LEMMA NextExact ==
  ASSUME TypeOK, SleepInv, Exact(wl), [Next]_vars
  PROVE  Exact(wl')
<1> USE BackOffTimes
<1>0. FlagsAgree(wl) /\ main_wake_lock \notin wl.auto_expire
  BY DEF TypeOK, SleepInv, MainLockWhileOn
<1>1. ASSUME NEW type, NEW ret, has_wake_lock(type, ret) PROVE Exact(wl')
  BY <1>0, <1>1, ScanExact DEF has_wake_lock
<1>2. CASE SuspendCheck \/ FreezeCheck \/ power_suspend_late \/ expire_wake_locks \/ IdleCheck
  BY <1>1, <1>2 DEF SuspendCheck, FreezeCheck, power_suspend_late, expire_wake_locks, IdleCheck
<1>3. CASE \/ run_workqueue \/ SuspendRecord \/ pm_suspend \/ FreezeEnd \/ dpm_suspend_start
           \/ suspend_enter \/ Wake \/ SuspendExit \/ LateResumeWork \/ DequeueExpireTimer
           \/ DequeueWatchdogTimer \/ UNCHANGED vars
  <2>1. wl' = wl
    BY <1>3 DEF run_workqueue, SuspendRecord, pm_suspend, FreezeEnd, dpm_suspend_start,
       suspend_enter, Wake, SuspendExit, LateResumeWork, DequeueExpireTimer,
       DequeueWatchdogTimer, vars, lockVars
  <2> QED
    BY <2>1
<1>4. CASE UnknownWakeup
  BY <1>0, <1>4, LocksAssumption, LockExact DEF UnknownWakeup, wake_lock_timeout, BuiltinLocks
<1>5. CASE EarlySuspendWork
  <2>1. CASE wake_unlock(main_wake_lock)
    BY <1>0, <2>1, LocksAssumption, UnlockExact DEF BuiltinLocks
  <2>2. CASE wl' = wl
    BY <2>2
  <2> QED
    BY <1>5, <2>1, <2>2 DEF EarlySuspendWork
<1>6. CASE Tick
  <2>1. /\ wl'.active = wl.active /\ wl'.auto_expire = wl.auto_expire
        /\ wl'.preventing = wl.preventing /\ wl.active \subseteq Locks
        /\ \A l \in Locks : wl'.left[l] = Less(wl.left[l])
    BY <1>6 DEF Tick, TypeOK, FlagsAgree, LockState
  <2>2. \A l \in Locks : wl.left[l] = 0 => wl'.left[l] = 0
    BY <2>1 DEF Less
  <2> QED
    BY <2>1, <2>2 DEF Exact, HeldOf, get_expired_time
<1>7. CASE watchdog_func
  BY <1>0, <1>7, LocksAssumption, LockExact DEF watchdog_func, BuiltinLocks
<1>8. ASSUME NEW l \in DriverLocks, DriverInit(l) \/ DriverDestroy(l) PROVE Exact(wl')
  <2>1. l \in Locks /\ l # main_wake_lock
    BY DEF DriverLocks, BuiltinLocks
  <2> QED
    BY <1>0, <1>8, <2>1, CreateExact DEF DriverInit, DriverDestroy
<1>9. ASSUME NEW l \in DriverLocks, DriverLock(l) \/ DriverUnlock(l) PROVE Exact(wl')
  <2>1. l \in Locks
    BY DEF DriverLocks
  <2> QED
    BY <1>0, <1>9, <2>1, LockExact, UnlockExact DEF DriverLock, wake_lock, DriverUnlock
<1>10. ASSUME NEW l \in DriverLocks, NEW timeout \in 0 .. MaxTimeout,
              DriverLockTimeout(l, timeout)
       PROVE  Exact(wl')
  <2>1. l \in Locks /\ l # main_wake_lock
    BY DEF DriverLocks, BuiltinLocks
  <2> QED
    BY <1>0, <1>10, <2>1, LockExact DEF DriverLockTimeout, wake_lock_timeout
<1>11. ASSUME NEW l \in UserLocks, NEW timeout \in 0 .. MaxTimeout, wake_lock_store(l, timeout)
       PROVE  Exact(wl')
  <2> DEFINE w == IF l \in wl.initialized THEN wl ELSE wake_lock_init(wl, l)
  <2>1. l \in Locks /\ l # main_wake_lock
    BY OwnersAssumption DEF BuiltinLocks
  <2>2. FlagsAgree(w) /\ Exact(w)
    BY <1>0, <2>1, InitAgrees, CreateExact
  <2>3. main_wake_lock \notin w.auto_expire
    BY <1>0 DEF wake_lock_init, Deactivate, FlagsAgree, LockState
  <2>4. wake_lock_internal(w, wq, l, timeout # 0, timeout)
    BY <1>11 DEF wake_lock_store
  <2> HIDE DEF w
  <2> QED
    BY <2>1, <2>2, <2>3, <2>4, LockExact
<1>12. ASSUME NEW l \in UserLocks, wake_unlock_store(l) PROVE Exact(wl')
  BY <1>0, <1>12, OwnersAssumption, UnlockExact DEF wake_unlock_store
<1>13. ASSUME NEW new_state \in {PM_SUSPEND_ON, PM_SUSPEND_MEM},
              request_suspend_state(new_state)
       PROVE  Exact(wl')
  <2>1. CASE wake_lock_internal(wl, queue_work(wq, "late_resume"), main_wake_lock, FALSE, 0)
    BY <1>0, <2>1, LocksAssumption, LockExact DEF BuiltinLocks
  <2>2. CASE wl' = wl
    BY <2>2
  <2> QED
    BY <1>13, <2>1, <2>2 DEF request_suspend_state
<1> QED
  BY <1>2, <1>3, <1>4, <1>5, <1>6, <1>7, <1>8, <1>9, <1>10, <1>11, <1>12, <1>13
     DEF Next, PowerStep, SuspendSteps, Timers, Drivers, UserWakeLocks

\* The statistics charge a suspend lock with time left exactly while the main
\* lock is not held, although they are updated only when the main lock changes
\* or a lock is taken without it.
THEOREM ChargesExact == Spec => []PreventingIsExact
<1>1. Exact(wl) => PreventingIsExact
  BY DEF Exact, PreventingIsExact
<1>2. TypeOK /\ SleepInv /\ Exact(wl) /\ [Next]_vars => SleepInv' /\ Exact(wl)'
  BY NextExact, NextSleep
<1> QED
  BY <1>1, <1>2, InitExact, InitSleep, TypeCorrect, PTL DEF Spec

-----------------------------------------------------------------------------
(***************************************************************************)
(* The handlers of early suspend.                                          *)
(***************************************************************************)
\* Every step of EarlySuspend is one of SuspendWork or leaves its variables alone.
LEMMA StepSimulates ==
  ASSUME [ESNext]_allVars
  PROVE  [Next]_vars
<1>1. CASE PowerStep /\ UNCHANGED esVars
  BY <1>1 DEF Next
<1>2. CASE EarlySuspendStart \/ EarlySuspendHandler \/ EarlySuspendDone
           \/ LateResumeStart \/ LateResumeHandler
  BY <1>2 DEF EarlySuspendStart, EarlySuspendHandler, EarlySuspendDone, LateResumeStart,
     LateResumeHandler
<1>3. CASE EarlySuspendEnd
  <2>1. state = SUSPEND_REQUESTED_AND_SUSPENDED => suspend_requested
    BY DEF state, SUSPEND_REQUESTED_AND_SUSPENDED, SUSPEND_REQUESTED, SUSPENDED
  <2>2. EarlySuspendWork
    BY <1>3, <2>1 DEF EarlySuspendEnd, EarlySuspendWork
  <2> QED
    BY <2>2 DEF Next
<1>4. CASE LateResumeAbort \/ LateResumeDone
  BY <1>4 DEF LateResumeAbort, LateResumeDone, Next
<1>5. ASSUME NEW h \in Handlers,
             register_early_suspend(h) \/ RegisterCall(h) \/ unregister_early_suspend(h)
      PROVE  UNCHANGED vars
  BY <1>5 DEF register_early_suspend, RegisterCall, unregister_early_suspend
<1>6. ASSUME NEW new_state \in {PM_SUSPEND_ON, PM_SUSPEND_MEM},
             request_suspend_state(new_state)
      PROVE  Next
  BY <1>6 DEF Next
<1>7. CASE UNCHANGED allVars
  BY <1>7 DEF allVars
<1> QED
  BY <1>1, <1>2, <1>3, <1>4, <1>5, <1>6, <1>7 DEF ESNext, ESWork

\* The early suspend handlers, their mutex and the SUSPENDED bit implement the
\* one-step works of SuspendWork: the main lock is released by early_suspend
\* alone, and only while sleep is requested.
THEOREM EarlySuspendImplements == ESSpec => Spec
<1>1. ESInit => Init
  BY DEF ESInit
<1>2. [ESNext]_allVars => [Next]_vars
  BY StepSimulates
<1> QED
  BY <1>1, <1>2, PTL DEF ESSpec, Spec

\* So the system with the handlers, too, sleeps only with the screen off.
THEOREM ESSleepsOnRequest == ESSpec => []SleepOnlyWhenRequested
BY EarlySuspendImplements, SleepsOnRequest, PTL

-----------------------------------------------------------------------------
(***************************************************************************)
(* The list of handlers.                                                   *)
(***************************************************************************)
\* The list with the entry h after its first n entries.
Inserted(list, n, h) == SubSeq(list, 1, n) \o <<h>> \o SubSeq(list, n + 1, Len(list))

\* The loop of register_early_suspend stops at a position before which no
\* handler has a higher level than the new one.
LEMMA InsertPosition ==
  ASSUME NEW list \in Seq(Handlers), NEW h \in Handlers
  PROVE  \E n \in 0 .. Len(list) :
           /\ \A i \in 1 .. n : Level[list[i]] <= Level[h]
           /\ n < Len(list) => Level[list[n + 1]] > Level[h]
           /\ InsertByLevel(list, h) = Inserted(list, n, h)
<1> DEFINE P(n) == /\ \A i \in 1 .. n : Level[list[i]] <= Level[h]
                   /\ n < Len(list) => Level[list[n + 1]] > Level[h]
           T == {n \in Nat : n < Len(list) => Level[list[n + 1]] > Level[h]}
<1>1. Len(list) \in T /\ T \in SUBSET Nat
  OBVIOUS
<1>2. PICK n \in T : \A m \in T : n <= m
  BY <1>1, LeastNat
<1>3. n \in 0 .. Len(list)
  BY <1>1, <1>2
<1>4. ASSUME NEW i \in 1 .. n PROVE Level[list[i]] <= Level[h]
  <2>1. i - 1 \in Nat /\ i - 1 \notin T
    BY <1>2, <1>3
  <2>2. ~(Level[list[(i - 1) + 1]] > Level[h]) /\ i \in 1 .. Len(list)
    BY <1>3, <2>1
  <2>3. list[i] \in Handlers
    BY <2>2
  <2> QED
    BY <2>2, <2>3, LevelAssumption
<1>5. P(n)
  BY <1>2, <1>4
<1>6. \E m \in 0 .. Len(list) : P(m)
  BY <1>3, <1>5
<1> DEFINE c == CHOOSE m \in 0 .. Len(list) : P(m)
<1>7. c \in 0 .. Len(list) /\ P(c)
  BY <1>6
<1>8. InsertByLevel(list, h) = Inserted(list, c, h)
  BY DEF InsertByLevel, Inserted
<1> QED
  BY <1>7, <1>8

Elements(list) == {list[i] : i \in DOMAIN list}

\* Each handler is in the list once, in low to high level order.
Ordered(list) ==
  \A i, j \in DOMAIN list :
    i < j => Level[list[i]] <= Level[list[j]] /\ list[i] # list[j]

\* r has the entries of list, with h between the first n and the others.
IsInsertion(r, list, n, h) ==
  /\ r \in Seq(Handlers)
  /\ DOMAIN r = 1 .. Len(list) + 1
  /\ \A i \in 1 .. Len(list) + 1 :
       r[i] = IF i <= n THEN list[i] ELSE IF i = n + 1 THEN h ELSE list[i - 1]

\* Where the entries of the list are after an entry was put in at n + 1.
LEMMA InsertEntries ==
  ASSUME NEW list \in Seq(Handlers), NEW h \in Handlers, NEW n \in 0 .. Len(list),
         NEW r, r = Inserted(list, n, h)
  PROVE  IsInsertion(r, list, n, h)
<1> DEFINE a == SubSeq(list, 1, n)
           b == SubSeq(list, n + 1, Len(list))
           c == a \o <<h>>
<1>0. r = c \o b
  BY DEF Inserted
<1>1. a \in Seq(Handlers) /\ Len(a) = n /\ \A i \in 1 .. n : a[i] = list[i]
  BY SubSeqProperties
<1>2. b \in Seq(Handlers) /\ Len(b) = Len(list) - n /\ \A i \in 1 .. Len(list) - n : b[i] = list[n + i]
  <2>1. CASE n < Len(list)
    BY <2>1, SubSeqProperties
  <2>2. CASE n = Len(list)
    BY <2>2, SubSeqEmpty, SubSeqProperties
  <2> QED
    BY <2>1, <2>2
<1> HIDE DEF a, b
<1>3. c \in Seq(Handlers) /\ Len(c) = n + 1 /\ \A i \in 1 .. n + 1 : c[i] = IF i <= n THEN list[i] ELSE h
  BY <1>1
<1> HIDE DEF c
<1>n. n \in Nat /\ Len(list) \in Nat /\ n <= Len(list)
  OBVIOUS
<1>4. r \in Seq(Handlers) /\ Len(r) = Len(list) + 1
      /\ \A i \in 1 .. Len(list) + 1 : r[i] = IF i <= n + 1 THEN c[i] ELSE b[i - (n + 1)]
  <2>1. Len(c) + Len(b) = Len(list) + 1
    BY <1>2, <1>3, <1>n
  <2>2. /\ r \in Seq(Handlers) /\ Len(r) = Len(c) + Len(b)
        /\ \A i \in 1 .. Len(c) + Len(b) : r[i] = IF i <= Len(c) THEN c[i] ELSE b[i - Len(c)]
    <3> DEFINE t == c \o b
    <3>1. /\ t \in Seq(Handlers) /\ Len(t) = Len(c) + Len(b)
          /\ \A i \in 1 .. Len(c) + Len(b) : t[i] = IF i <= Len(c) THEN c[i] ELSE b[i - Len(c)]
      BY <1>2, <1>3, ConcatProperties
    <3> HIDE DEF t
    <3>2. r = t
      BY <1>0 DEF t
    <3> QED
      BY <3>1, <3>2
  <2> QED
    BY <1>3, <2>1, <2>2
<1>5. ASSUME NEW i \in 1 .. Len(list) + 1
      PROVE  r[i] = IF i <= n THEN list[i] ELSE IF i = n + 1 THEN h ELSE list[i - 1]
  <2>1. CASE i <= n + 1
    <3>1. r[i] = c[i] /\ i \in 1 .. n + 1
      BY <1>4, <1>n, <2>1
    <3> QED
      BY <1>3, <1>n, <3>1
  <2>2. CASE i > n + 1
    <3>1. i - (n + 1) \in 1 .. Len(list) - n /\ n + (i - (n + 1)) = i - 1
      BY <1>n, <2>2
    <3>2. b[i - (n + 1)] = list[i - 1]
      BY <1>2, <3>1
    <3>3. r[i] = b[i - (n + 1)] /\ ~(i <= n) /\ i # n + 1
      BY <1>4, <1>n, <2>2
    <3> QED
      BY <3>2, <3>3
  <2>3. i <= n + 1 \/ i > n + 1
    BY <1>n
  <2> QED
    BY <2>1, <2>2, <2>3
<1>6. DOMAIN r = 1 .. Len(list) + 1
  BY <1>4
<1> QED
  BY <1>4, <1>5, <1>6 DEF IsInsertion

\* register_early_suspend keeps the order and adds its handler.
LEMMA InsertOrdered ==
  ASSUME NEW list \in Seq(Handlers), Ordered(list), NEW h \in Handlers, h \notin Elements(list)
  PROVE  LET r == InsertByLevel(list, h)
         IN  r \in Seq(Handlers) /\ Ordered(r) /\ Elements(r) = Elements(list) \cup {h}
<1>1. PICK n \in 0 .. Len(list) :
        /\ \A i \in 1 .. n : Level[list[i]] <= Level[h]
        /\ n < Len(list) => Level[list[n + 1]] > Level[h]
        /\ InsertByLevel(list, h) = Inserted(list, n, h)
  BY InsertPosition
<1> DEFINE r == InsertByLevel(list, h)
<1>2. /\ r \in Seq(Handlers)
      /\ DOMAIN r = 1 .. Len(list) + 1
      /\ \A i \in 1 .. Len(list) + 1 :
           r[i] = IF i <= n THEN list[i] ELSE IF i = n + 1 THEN h ELSE list[i - 1]
  <2>1. r = Inserted(list, n, h)
    BY <1>1
  <2> HIDE DEF r
  <2>2. IsInsertion(r, list, n, h)
    BY <2>1, InsertEntries
  <2> QED
    BY <2>2 DEF IsInsertion
<1>3. \A i \in 1 .. Len(list) : list[i] \in Handlers /\ Level[list[i]] \in Nat /\ list[i] # h
  BY LevelAssumption DEF Elements
<1>4. Level[h] \in Nat /\ DOMAIN list = 1 .. Len(list) /\ Len(list) \in Nat
  BY LevelAssumption
<1>5. \A i \in n + 1 .. Len(list) : Level[list[i]] >= Level[h]
  <2> SUFFICES ASSUME NEW i \in n + 1 .. Len(list) PROVE Level[list[i]] >= Level[h]
    OBVIOUS
  <2>1. Level[list[n + 1]] > Level[h] /\ n + 1 \in 1 .. Len(list) /\ i \in 1 .. Len(list)
    BY <1>1
  <2>2. Level[list[n + 1]] <= Level[list[i]]
    BY <1>3, <1>4, <2>1, SMTT(30) DEF Ordered
  <2> QED
    BY <1>3, <1>4, <2>1, <2>2
<1> HIDE DEF r
<1>6. ASSUME NEW i \in DOMAIN r, NEW j \in DOMAIN r, i < j
      PROVE  Level[r[i]] <= Level[r[j]] /\ r[i] # r[j]
  <2>1. i \in 1 .. Len(list) + 1 /\ j \in 1 .. Len(list) + 1
    BY <1>2
  <2>2. CASE j <= n
    BY <1>2, <1>4, <1>6, <2>1, <2>2 DEF Ordered
  <2>3. CASE j = n + 1
    <3>1. r[j] = h /\ r[i] = list[i] /\ i \in 1 .. n /\ i \in 1 .. Len(list)
      BY <1>2, <1>6, <2>1, <2>3
    <3> QED
      BY <1>1, <1>3, <3>1
  <2>4. CASE j > n + 1
    <3>1. r[j] = list[j - 1] /\ j - 1 \in n + 1 .. Len(list)
      BY <1>2, <1>4, <2>1, <2>4
    <3>2. CASE i <= n
      <4>1. r[i] = list[i] /\ i < j - 1 /\ i \in DOMAIN list /\ j - 1 \in DOMAIN list
        BY <1>2, <1>4, <2>1, <2>4, <3>2
      <4> QED
        BY <3>1, <4>1 DEF Ordered
    <3>3. CASE i = n + 1
      BY <1>2, <1>3, <1>5, <2>1, <3>1, <3>3
    <3>4. CASE i > n + 1
      <4>1. r[i] = list[i - 1] /\ i - 1 < j - 1 /\ i - 1 \in DOMAIN list /\ j - 1 \in DOMAIN list
        BY <1>2, <1>4, <1>6, <2>1, <2>4, <3>4
      <4> QED
        BY <3>1, <4>1 DEF Ordered
    <3> QED
      BY <2>1, <3>2, <3>3, <3>4
  <2> QED
    BY <2>1, <2>2, <2>3, <2>4
<1>7. Elements(r) \subseteq Elements(list) \cup {h}
  <2> SUFFICES ASSUME NEW i \in DOMAIN r PROVE r[i] = h \/ \E k \in DOMAIN list : r[i] = list[k]
    BY DEF Elements
  <2>1. i \in 1 .. Len(list) + 1
    BY <1>2
  <2>2. CASE i <= n
    BY <1>2, <1>4, <2>1, <2>2
  <2>3. CASE i > n + 1
    <3>1. r[i] = list[i - 1] /\ i - 1 \in DOMAIN list
      BY <1>2, <1>4, <2>1, <2>3
    <3> QED
      BY <3>1
  <2> QED
    BY <1>2, <2>1, <2>2, <2>3
<1>8. Elements(list) \cup {h} \subseteq Elements(r)
  <2>1. n + 1 \in DOMAIN r /\ r[n + 1] = h
    BY <1>2
  <2>2. ASSUME NEW k \in DOMAIN list PROVE \E i \in DOMAIN r : r[i] = list[k]
    <3>1. CASE k <= n
      <4>1. k \in DOMAIN r /\ r[k] = list[k]
        BY <1>2, <1>4, <3>1
      <4> QED
        BY <4>1
    <3>2. CASE k > n
      <4>1. k + 1 \in DOMAIN r /\ r[k + 1] = list[k]
        BY <1>2, <1>4, <3>2
      <4> QED
        BY <4>1
    <3> QED
      BY <3>1, <3>2
  <2> QED
    BY <2>1, <2>2 DEF Elements
<1> QED
  BY <1>2, <1>6, <1>7, <1>8 DEF Ordered, r

\* unregister_early_suspend keeps the order and removes the one handler.
LEMMA DeleteOrdered ==
  ASSUME NEW list \in Seq(Handlers), Ordered(list), NEW n \in DOMAIN list
  PROVE  LET r == list_del(list, n)
         IN  r \in Seq(Handlers) /\ Ordered(r) /\ Elements(r) = Elements(list) \ {list[n]}
<1> DEFINE a == SubSeq(list, 1, n - 1)
           b == SubSeq(list, n + 1, Len(list))
           r == a \o b
<1>0. n \in 1 .. Len(list) /\ DOMAIN list = 1 .. Len(list) /\ Len(list) \in Nat
  OBVIOUS
<1>1. a \in Seq(Handlers) /\ Len(a) = n - 1 /\ \A i \in 1 .. n - 1 : a[i] = list[i]
  BY <1>0, SubSeqProperties
<1>2. b \in Seq(Handlers) /\ Len(b) = Len(list) - n /\ \A i \in 1 .. Len(list) - n : b[i] = list[n + i]
  <2>1. CASE n < Len(list)
    BY <1>0, <2>1, SubSeqProperties, SMTT(30)
  <2>2. CASE n = Len(list)
    BY <1>0, <2>2, SubSeqEmpty, SubSeqProperties
  <2> QED
    BY <1>0, <2>1, <2>2
<1> HIDE DEF a, b
<1>3. r \in Seq(Handlers) /\ Len(r) = Len(list) - 1
      /\ \A i \in 1 .. Len(list) - 1 : r[i] = IF i <= n - 1 THEN a[i] ELSE b[i - (n - 1)]
  <2>1. Len(a) + Len(b) = Len(list) - 1
    BY <1>0, <1>1, <1>2
  <2>2. /\ r \in Seq(Handlers) /\ Len(r) = Len(a) + Len(b)
        /\ \A i \in 1 .. Len(a) + Len(b) : r[i] = IF i <= Len(a) THEN a[i] ELSE b[i - Len(a)]
    BY <1>1, <1>2, ConcatProperties
  <2> HIDE DEF r
  <2> QED
    BY <1>1, <2>1, <2>2
<1>6. r = list_del(list, n)
  BY DEF list_del, a, b, r
<1> HIDE DEF r
<1>4. ASSUME NEW i \in 1 .. Len(list) - 1
      PROVE  r[i] = IF i < n THEN list[i] ELSE list[i + 1]
  <2>1. CASE i < n
    BY <1>0, <1>1, <1>3, <2>1
  <2>2. CASE i >= n
    <3>1. i - (n - 1) \in 1 .. Len(list) - n /\ n + (i - (n - 1)) = i + 1
      BY <1>0, <2>2
    <3>2. b[i - (n - 1)] = list[i + 1]
      BY <1>2, <3>1
    <3> QED
      BY <1>0, <1>3, <2>2, <3>2
  <2> QED
    BY <1>0, <2>1, <2>2
<1>5. DOMAIN r = 1 .. Len(list) - 1 /\ r \in Seq(Handlers)
  BY <1>3
<1>7. ASSUME NEW i \in DOMAIN r, NEW j \in DOMAIN r, i < j
      PROVE  Level[r[i]] <= Level[r[j]] /\ r[i] # r[j]
  <2>1. i \in 1 .. Len(list) - 1 /\ j \in 1 .. Len(list) - 1
    BY <1>5
  <2> DEFINE k(m) == IF m < n THEN m ELSE m + 1
  <2>2. r[i] = list[k(i)] /\ r[j] = list[k(j)]
    BY <1>4, <2>1
  <2>3. k(i) \in DOMAIN list /\ k(j) \in DOMAIN list /\ k(i) < k(j)
    BY <1>0, <1>7, <2>1
  <2> QED
    BY <2>2, <2>3 DEF Ordered
<1>8. Elements(r) \subseteq Elements(list) \ {list[n]}
  <2> SUFFICES ASSUME NEW i \in DOMAIN r
               PROVE  \E k \in DOMAIN list : r[i] = list[k] /\ list[k] # list[n]
    BY DEF Elements
  <2>1. i \in 1 .. Len(list) - 1 /\ i \in DOMAIN list /\ i + 1 \in DOMAIN list
    BY <1>0, <1>5
  <2>2. CASE i < n
    BY <1>0, <1>4, <2>1, <2>2 DEF Ordered
  <2>3. CASE i >= n
    <3>1. list[n] # list[i + 1]
      BY <1>0, <2>1, <2>3 DEF Ordered
    <3> QED
      BY <1>0, <1>4, <2>1, <2>3, <3>1
  <2> QED
    BY <1>0, <2>1, <2>2, <2>3
<1>9. Elements(list) \ {list[n]} \subseteq Elements(r)
  <2> SUFFICES ASSUME NEW k \in DOMAIN list, k # n
               PROVE  \E i \in DOMAIN r : r[i] = list[k]
    BY DEF Elements
  <2>1. CASE k < n
    <3>1. k \in DOMAIN r /\ r[k] = list[k]
      BY <1>0, <1>4, <1>5, <2>1
    <3> QED
      BY <3>1
  <2>2. CASE k > n
    <3>1. k - 1 \in DOMAIN r /\ k - 1 \in 1 .. Len(list) - 1 /\ ~(k - 1 < n) /\ (k - 1) + 1 = k
      BY <1>0, <1>5, <2>2
    <3>2. r[k - 1] = list[k]
      BY <1>4, <3>1
    <3> QED
      BY <3>1, <3>2
  <2> QED
    BY <1>0, <2>1, <2>2
<1> QED
  BY <1>5, <1>6, <1>7, <1>8, <1>9 DEF Ordered

-----------------------------------------------------------------------------
(***************************************************************************)
(* The handlers, the SUSPENDED bit and the main lock.                      *)
(*                                                                         *)
(* None of the invariants of EarlySuspend is inductive by itself: they     *)
(* speak of the moments when no work is among the handlers.  HandlerInv    *)
(* says how far a work has come: the devices before its position in the    *)
(* list are off, the others on.  Between two works all devices follow the  *)
(* SUSPENDED bit, but for the one that is just being registered.           *)
(***************************************************************************)
HandlerOff(i) == early_suspend_handlers[i] \in Suspends => early_suspend_handlers[i] \in off
HandlerOn(i) == early_suspend_handlers[i] \in Resumes => early_suspend_handlers[i] \notin off

BetweenWorks ==
  pc \notin {"suspend", "resume"} =>
    /\ pos = 0
    /\ \A i \in DOMAIN early_suspend_handlers :
         early_suspend_handlers[i] \notin registering =>
           IF suspended THEN HandlerOff(i) ELSE HandlerOn(i)

WithinWork ==
  /\ pc = "suspend" =>
       /\ suspended
       /\ pos \in 1 .. Len(early_suspend_handlers) + 1
       /\ \A i \in DOMAIN early_suspend_handlers : IF i < pos THEN HandlerOff(i) ELSE HandlerOn(i)
  /\ pc = "resume" =>
       /\ ~suspended
       /\ pos \in 0 .. Len(early_suspend_handlers)
       /\ \A i \in DOMAIN early_suspend_handlers : IF i <= pos THEN HandlerOff(i) ELSE HandlerOn(i)

\* The list is in order and only its entries are off, the new one not yet.
ListInv ==
  /\ Ordered(early_suspend_handlers)
  /\ off \subseteq Elements(early_suspend_handlers)
  /\ off \cap registering = {}

HandlerInv == ListInv /\ BetweenWorks /\ WithinWork

\* The part of ESTypeOK that is about the variables of this module and where
\* the worker is.
ESTypes ==
  /\ suspended \in BOOLEAN
  /\ early_suspend_lock <=> pc \in {"suspend", "resume"} \/ registering # {}
  /\ registering # {} => pc \in {"start", "end"} /\ \E h \in Registered : registering = {h}
  /\ pc \in {"suspend", "end"} => worker = "early_suspend"
  /\ pc = "resume" => worker = "late_resume"
  /\ early_suspend_handlers \in Seq(Handlers)
  /\ early_suspend_lock \in BOOLEAN
  /\ pc \in {"start", "suspend", "resume", "end"}
  /\ pos \in 0 .. Len(early_suspend_handlers) + 1
  /\ off \subseteq Handlers

\* The main lock is released only once early_suspend is through.
MainInv ==
  main_wake_lock \notin wl.active =>
    suspend_requested /\ suspended /\ pc \notin {"suspend", "resume"}

ESInv == ESTypes /\ HandlerInv /\ MainInv

\* The bits of state.
LEMMA StateBits ==
  /\ SUSPEND_REQUESTED \in state <=> suspend_requested
  /\ SUSPENDED \in state <=> suspended
  /\ state = {SUSPEND_REQUESTED} <=> suspend_requested /\ ~suspended
  /\ state = {SUSPENDED} <=> ~suspend_requested /\ suspended
  /\ state = SUSPEND_REQUESTED_AND_SUSPENDED <=> suspend_requested /\ suspended
<1>1. SUSPEND_REQUESTED \in state <=> suspend_requested
  BY DEF state, SUSPEND_REQUESTED_AND_SUSPENDED, SUSPEND_REQUESTED, SUSPENDED
<1>2. SUSPENDED \in state <=> suspended
  BY DEF state, SUSPEND_REQUESTED_AND_SUSPENDED, SUSPEND_REQUESTED, SUSPENDED
<1>3. state \subseteq {SUSPEND_REQUESTED, SUSPENDED} /\ SUSPEND_REQUESTED # SUSPENDED
  BY DEF state, SUSPEND_REQUESTED_AND_SUSPENDED, SUSPEND_REQUESTED, SUSPENDED
<1> QED
  BY <1>1, <1>2, <1>3 DEF SUSPEND_REQUESTED_AND_SUSPENDED

\* What the rest of the system may do to a work of earlysuspend.c: it neither
\* moves the worker, nor changes the request, nor releases the main lock.
LEMMA PowerStepTames ==
  ASSUME TypeOK, PowerStep
  PROVE  /\ \E S : Tames(wl, wl', S, TRUE)
         /\ suspend_requested' = suspend_requested
         /\ worker \in {"early_suspend", "late_resume"} => worker' = worker
<1> DEFINE Goal == /\ \E S : Tames(wl, wl', S, TRUE)
                   /\ suspend_requested' = suspend_requested
                   /\ worker \in {"early_suspend", "late_resume"} => worker' = worker
<1> SUFFICES Goal
  OBVIOUS
<1> USE BackOffTimes
<1>a. ASSUME wl' = wl PROVE Tames(wl, wl', {}, TRUE)
  BY <1>a DEF Tames
<1>b. ASSUME NEW type, NEW ret, has_wake_lock(type, ret) PROVE Tames(wl, wl', {}, TRUE)
  BY <1>b, ScanTames DEF has_wake_lock, TypeOK
<1>1. CASE run_workqueue
  BY <1>1, <1>a DEF run_workqueue, GoTo
<1>2. CASE SuspendCheck \/ FreezeCheck \/ power_suspend_late
  BY <1>2, <1>b DEF SuspendCheck, FreezeCheck, power_suspend_late, GoTo
<1>3. CASE SuspendRecord \/ pm_suspend \/ FreezeEnd \/ dpm_suspend_start \/ suspend_enter
           \/ Wake \/ SuspendExit
  BY <1>3, <1>a DEF SuspendRecord, pm_suspend, FreezeEnd, dpm_suspend_start, suspend_enter,
     Wake, SuspendExit, GoTo
<1>4. CASE UnknownWakeup
  <2>1. Tames(wl, wl', {unknown_wakeup}, TRUE)
    BY <1>4, LocksAssumption, LockTames
       DEF UnknownWakeup, wake_lock_timeout, TypeOK, BuiltinLocks
  <2> QED
    BY <1>4, <2>1 DEF UnknownWakeup, GoTo
<1>5. CASE Tick
  <2>1. Tames(wl, wl', {}, TRUE)
    BY <1>5 DEF Tick, Tames, TypeOK, FlagsAgree, LockState
  <2> QED
    BY <1>5, <2>1 DEF Tick
<1>6. CASE DequeueExpireTimer \/ DequeueWatchdogTimer
  BY <1>6, <1>a DEF DequeueExpireTimer, DequeueWatchdogTimer
<1>7. CASE expire_wake_locks \/ IdleCheck
  BY <1>7, <1>b DEF expire_wake_locks, IdleCheck
<1>8. CASE watchdog_func
  <2>1. Tames(wl, wl', {watchdog_wake_lock}, TRUE)
    BY <1>8, LocksAssumption, LockTames DEF watchdog_func, TypeOK, BuiltinLocks
  <2> QED
    BY <1>8, <2>1 DEF watchdog_func
<1>9. ASSUME NEW l \in DriverLocks, DriverInit(l) \/ DriverDestroy(l) PROVE Goal
  <2>1. l # main_wake_lock
    BY DEF DriverLocks, BuiltinLocks
  <2>2. wl'.active = wl.active \ {l} /\ wl'.auto_expire = wl.auto_expire \ {l}
    BY <1>9 DEF DriverInit, DriverDestroy, wake_lock_init, wake_lock_destroy, Deactivate,
       TypeOK, FlagsAgree, LockState
  <2>3. Tames(wl, wl', {}, TRUE)
    BY <2>1, <2>2 DEF Tames
  <2> QED
    BY <1>9, <2>3 DEF DriverInit, DriverDestroy
<1>10. ASSUME NEW l \in DriverLocks, DriverLock(l) PROVE Goal
  <2>1. Tames(wl, wl', {l}, TRUE)
    BY <1>10, LockTames DEF DriverLock, wake_lock, TypeOK, DriverLocks
  <2> QED
    BY <1>10, <2>1 DEF DriverLock
<1>11. ASSUME NEW l \in DriverLocks, NEW timeout \in 0 .. MaxTimeout,
              DriverLockTimeout(l, timeout)
       PROVE  Goal
  <2>1. l \in Locks /\ l # main_wake_lock
    BY DEF DriverLocks, BuiltinLocks
  <2>2. Tames(wl, wl', {l}, TRUE)
    BY <1>11, <2>1, LockTames DEF DriverLockTimeout, wake_lock_timeout, TypeOK
  <2> QED
    BY <1>11, <2>2 DEF DriverLockTimeout
<1>12. ASSUME NEW l \in DriverLocks, DriverUnlock(l) PROVE Goal
  <2>1. l \in Locks /\ l # main_wake_lock
    BY DEF DriverLocks, BuiltinLocks
  <2>2. Tames(wl, wl', {}, TRUE)
    BY <1>12, <2>1, UnlockTames DEF DriverUnlock
  <2> QED
    BY <1>12, <2>2 DEF DriverUnlock
<1>13. ASSUME NEW l \in UserLocks, NEW timeout \in 0 .. MaxTimeout, wake_lock_store(l, timeout)
       PROVE  Goal
  <2> DEFINE w == IF l \in wl.initialized THEN wl ELSE wake_lock_init(wl, l)
  <2>1. l \in Locks /\ l # main_wake_lock
    BY OwnersAssumption DEF BuiltinLocks
  <2>2. FlagsAgree(w)
    BY <2>1, InitAgrees DEF TypeOK
  <2>3. Tames(wl, w, {}, TRUE)
    <3>1. CASE l \in wl.initialized
      BY <3>1 DEF Tames
    <3>2. CASE l \notin wl.initialized
      <4>1. w.active = wl.active \ {l} /\ w.auto_expire = wl.auto_expire \ {l}
        BY <3>2 DEF wake_lock_init, Deactivate, TypeOK, FlagsAgree, LockState
      <4> QED
        BY <2>1, <4>1 DEF Tames
    <3> QED
      BY <3>1, <3>2
  <2>4. /\ wake_lock_internal(w, wq, l, timeout # 0, timeout)
        /\ UNCHANGED <<worker, suspend_requested>>
    BY <1>13 DEF wake_lock_store
  <2> HIDE DEF w
  <2>5. Tames(w, wl', {l}, TRUE)
    BY <2>1, <2>2, <2>4, LockTames
  <2>6. Tames(wl, wl', {l}, TRUE)
    BY <2>3, <2>5 DEF Tames
  <2> QED
    BY <2>4, <2>6
<1>14. ASSUME NEW l \in UserLocks, wake_unlock_store(l) PROVE Goal
  <2>1. l \in Locks /\ l # main_wake_lock
    BY OwnersAssumption DEF BuiltinLocks
  <2>2. Tames(wl, wl', {}, TRUE)
    BY <1>14, <2>1, UnlockTames DEF wake_unlock_store
  <2> QED
    BY <1>14, <2>2 DEF wake_unlock_store
<1> QED
  BY <1>1, <1>2, <1>3, <1>4, <1>5, <1>6, <1>7, <1>8, <1>9, <1>10, <1>11, <1>12, <1>13,
     <1>14 DEF PowerStep, SuspendSteps, Timers, Drivers, UserWakeLocks

\* A step that leaves the handlers and the works alone keeps the invariant.
LEMMA HandlersAlone ==
  ASSUME ESInv, UNCHANGED esVars,
         worker \in {"early_suspend", "late_resume"} => worker' = worker,
         MainInv'
  PROVE  ESInv'
<1>1. ESTypes'
  BY DEF ESInv, ESTypes, Registered, esVars
<1>2. HandlerInv'
  BY DEF ESInv, HandlerInv, ListInv, BetweenWorks, WithinWork, HandlerOff, HandlerOn, esVars
<1> QED
  BY <1>1, <1>2 DEF ESInv

\* At boot no handler is registered and the main lock is held.
LEMMA ESInitInv == ESInit => ESInv
<1> SUFFICES ASSUME ESInit PROVE ESInv
  OBVIOUS
<1>1. early_suspend_handlers \in Seq(Handlers) /\ DOMAIN early_suspend_handlers = {}
      /\ Len(early_suspend_handlers) = 0
  BY DEF ESInit
<1>2. ESTypes
  <2>1. pos \in 0 .. Len(early_suspend_handlers) + 1
    BY <1>1 DEF ESInit
  <2>2. early_suspend_lock \in BOOLEAN /\ pc = "start" /\ ~early_suspend_lock
        /\ suspended \in BOOLEAN /\ off \subseteq Handlers /\ registering = {}
    BY DEF ESInit
  <2> QED
    BY <1>1, <2>1, <2>2 DEF ESTypes
<1>3. HandlerInv
  BY <1>1 DEF ESInit, HandlerInv, ListInv, BetweenWorks, WithinWork, Ordered
<1> QED
  BY <1>2, <1>3 DEF ESInit, Init, ESInv, MainInv

\* The conjuncts of ESTypes that say who holds the mutex, for a step between
\* two lists of handlers.
LEMMA ESTypesStep ==
  ASSUME ESInv, suspended' \in BOOLEAN, early_suspend_lock' \in BOOLEAN,
         early_suspend_lock' <=> pc' \in {"suspend", "resume"} \/ registering' # {},
         registering' # {} => /\ pc' \in {"start", "end"}
                              /\ \E h \in Registered' : registering' = {h},
         pc' \in {"suspend", "end"} => worker' = "early_suspend",
         pc' = "resume" => worker' = "late_resume",
         early_suspend_handlers' \in Seq(Handlers),
         pc' \in {"start", "suspend", "resume", "end"},
         pos' \in 0 .. Len(early_suspend_handlers') + 1,
         off' \subseteq Handlers
  PROVE  ESTypes'
BY DEF ESTypes

\* A step of a work has the mutex: nobody is registering.
LEMMA WorkAlone ==
  ASSUME ESInv, pc \in {"suspend", "resume"} \/ ~early_suspend_lock
  PROVE  registering = {}
BY DEF ESInv, ESTypes

\* Every step keeps the invariant, one case per action.
LEMMA ESNextInv ==
  ASSUME TypeOK, SleepInv, ESInv, [ESNext]_allVars
  PROVE  ESInv'
<1> USE StateBits DEF HandlerOff, HandlerOn
<1>0. suspend_requested \in BOOLEAN /\ suspended \in BOOLEAN
      /\ early_suspend_handlers \in Seq(Handlers)
      /\ DOMAIN early_suspend_handlers = 1 .. Len(early_suspend_handlers)
      /\ Len(early_suspend_handlers) \in Nat
      /\ pos \in 0 .. Len(early_suspend_handlers) + 1
      /\ off \subseteq Handlers /\ early_suspend_lock \in BOOLEAN
      /\ Ordered(early_suspend_handlers) /\ off \subseteq Elements(early_suspend_handlers)
  BY DEF TypeOK, ESInv, ESTypes, HandlerInv, ListInv
<1>1. CASE PowerStep /\ UNCHANGED esVars
  <2>1. PICK S : Tames(wl, wl', S, TRUE)
    BY <1>1, PowerStepTames
  <2>2. main_wake_lock \in wl.active => main_wake_lock \in wl'.active
    BY <2>1 DEF Tames, SleepInv, MainLockWhileOn
  <2>3. MainInv'
    BY <1>1, <2>2, PowerStepTames DEF ESInv, MainInv, esVars
  <2> QED
    BY <1>1, <2>3, PowerStepTames, HandlersAlone
<1>2. CASE EarlySuspendStart
  <2>0. registering = {}
    BY <1>2, WorkAlone DEF EarlySuspendStart
  <2>1. CASE state = {SUSPEND_REQUESTED}
    <3>1. /\ worker = "early_suspend" /\ pc = "start" /\ ~suspended
          /\ suspended' = TRUE /\ early_suspend_lock' = TRUE /\ pc' = "suspend" /\ pos' = 1
          /\ UNCHANGED <<wl, worker, suspend_requested, early_suspend_handlers, off, registering>>
      BY <1>2, <2>1 DEF EarlySuspendStart, vars, lockVars
    <3>2. ESTypes'
      BY <1>0, <2>0, <3>1, ESTypesStep
    <3>3. HandlerInv'
      BY <1>0, <2>0, <3>1 DEF ESInv, HandlerInv, ListInv, BetweenWorks, WithinWork
    <3>4. MainInv'
      BY <3>1 DEF ESInv, MainInv
    <3> QED
      BY <3>2, <3>3, <3>4 DEF ESInv
  <2>2. CASE state # {SUSPEND_REQUESTED}
    <3>1. /\ worker = "early_suspend" /\ ~early_suspend_lock /\ pc = "start" /\ pc' = "end"
          /\ UNCHANGED <<wl, worker, suspend_requested, early_suspend_handlers, off,
                         suspended, early_suspend_lock, pos, registering>>
      BY <1>2, <2>2 DEF EarlySuspendStart, vars, lockVars
    <3>2. ESTypes'
      BY <1>0, <2>0, <3>1, ESTypesStep
    <3>3. HandlerInv'
      BY <1>0, <2>0, <3>1 DEF ESInv, HandlerInv, ListInv, BetweenWorks, WithinWork
    <3> QED
      BY <3>1, <3>2, <3>3 DEF ESInv, MainInv
  <2> QED
    BY <2>1, <2>2
<1>3. CASE EarlySuspendHandler
  <2> DEFINE e == early_suspend_handlers[pos]
  <2>1. /\ pc = "suspend" /\ pos <= Len(early_suspend_handlers)
        /\ off' = off \cup ({e} \cap Suspends) /\ pos' = pos + 1
        /\ UNCHANGED <<wl, worker, suspend_requested, early_suspend_handlers,
                       suspended, early_suspend_lock, pc, registering>>
    BY <1>3 DEF EarlySuspendHandler, vars, lockVars
  <2>2. /\ pos \in DOMAIN early_suspend_handlers /\ e \in Handlers
        /\ e \in Elements(early_suspend_handlers)
    BY <1>0, <2>1 DEF ESInv, HandlerInv, WithinWork, Elements
  <2>0. registering = {} /\ early_suspend_lock
    BY <2>1, WorkAlone DEF ESInv, ESTypes
  <2>3. ESTypes'
    <3>1. off' \subseteq Handlers /\ pos' \in 0 .. Len(early_suspend_handlers) + 1
      BY <1>0, <2>1, <2>2
    <3>2. worker' = "early_suspend"
      BY <2>1 DEF ESInv, ESTypes
    <3> QED
      BY <1>0, <2>0, <2>1, <3>1, <3>2, ESTypesStep
  <2>4. ASSUME NEW i \in DOMAIN early_suspend_handlers
        PROVE  IF i < pos + 1 THEN HandlerOff(i)' ELSE HandlerOn(i)'
    <3>1. IF i < pos THEN HandlerOff(i) ELSE HandlerOn(i)
      BY <2>1 DEF ESInv, HandlerInv, WithinWork
    <3>2. i # pos => early_suspend_handlers[i] # e
      BY <1>0, <2>2 DEF Ordered
    <3>3. CASE i = pos
      BY <1>0, <2>1, <2>2, <3>3
    <3>4. CASE i # pos
      BY <1>0, <2>1, <2>2, <3>1, <3>2, <3>4
    <3> QED
      BY <3>3, <3>4
  <2>5. WithinWork'
    BY <1>0, <2>1, <2>2, <2>4 DEF ESInv, HandlerInv, WithinWork
  <2>6. ListInv' /\ BetweenWorks'
    BY <1>0, <2>0, <2>1, <2>2 DEF ListInv, BetweenWorks
  <2>7. MainInv'
    BY <2>1 DEF ESInv, MainInv
  <2> QED
    BY <2>3, <2>5, <2>6, <2>7 DEF ESInv, HandlerInv
<1>4. CASE EarlySuspendDone
  <2>1. /\ pc = "suspend" /\ pos > Len(early_suspend_handlers)
        /\ early_suspend_lock' = FALSE /\ pc' = "end" /\ pos' = 0
        /\ UNCHANGED <<wl, worker, suspend_requested, early_suspend_handlers, suspended, off,
                       registering>>
    BY <1>4 DEF EarlySuspendDone, vars, lockVars
  <2>2. suspended /\ \A i \in DOMAIN early_suspend_handlers : HandlerOff(i)
    BY <1>0, <2>1 DEF ESInv, HandlerInv, WithinWork
  <2>0. registering = {} /\ worker = "early_suspend"
    BY <2>1, WorkAlone DEF ESInv, ESTypes
  <2>3. ESTypes'
    <3>1. pos' \in 0 .. Len(early_suspend_handlers') + 1
      BY <1>0, <2>1
    <3>2. suspended \in BOOLEAN /\ early_suspend_handlers \in Seq(Handlers) /\ off \subseteq Handlers
      BY <1>0
    <3> QED
      BY <2>0, <2>1, <3>1, <3>2, ESTypesStep
  <2>4. HandlerInv'
    BY <1>0, <2>0, <2>1, <2>2 DEF ESInv, HandlerInv, ListInv, BetweenWorks, WithinWork
  <2> QED
    BY <2>1, <2>3, <2>4 DEF ESInv, MainInv
<1>5. CASE EarlySuspendEnd
  <2>1. /\ pc = "end" /\ pc' = "start" /\ worker' = "idle"
        /\ UNCHANGED <<suspend_requested, suspended, early_suspend_handlers,
                       early_suspend_lock, pos, off, registering>>
    BY <1>5 DEF EarlySuspendEnd, GoTo
  <2>2. MainInv'
    <3>1. CASE state = SUSPEND_REQUESTED_AND_SUSPENDED
      BY <2>1, <3>1 DEF MainInv
    <3>2. CASE wl' = wl
      BY <2>1, <3>2 DEF ESInv, MainInv
    <3> QED
      BY <1>5, <3>1, <3>2 DEF EarlySuspendEnd
  <2>3. ESTypes'
    <3>1. /\ early_suspend_lock <=> registering # {}
          /\ registering # {} => \E h \in Registered : registering = {h}
          /\ Registered' = Registered
      BY <2>1 DEF ESInv, ESTypes, Registered
    <3> QED
      BY <1>0, <2>1, <3>1, ESTypesStep
  <2>4. HandlerInv'
    BY <1>0, <2>1 DEF ESInv, HandlerInv, ListInv, BetweenWorks, WithinWork
  <2> QED
    BY <2>2, <2>3, <2>4 DEF ESInv
<1>6. CASE LateResumeStart
  <2>1. /\ worker = "late_resume" /\ pc = "start"
        /\ ~suspend_requested /\ suspended
        /\ suspended' = FALSE /\ early_suspend_lock' = TRUE /\ pc' = "resume"
        /\ pos' = Len(early_suspend_handlers)
        /\ UNCHANGED <<wl, worker, suspend_requested, early_suspend_handlers, off, registering>>
    BY <1>6 DEF LateResumeStart, vars, lockVars
  <2>0. registering = {}
    BY <1>6, WorkAlone DEF LateResumeStart
  <2>2. ESTypes'
    <3>1. pos' \in 0 .. Len(early_suspend_handlers') + 1
      BY <1>0, <2>1
    <3>2. suspended' \in BOOLEAN /\ early_suspend_handlers \in Seq(Handlers) /\ off \subseteq Handlers
      BY <1>0, <2>1
    <3> QED
      BY <2>0, <2>1, <3>1, <3>2, ESTypesStep
  <2>3. HandlerInv'
    BY <1>0, <2>0, <2>1 DEF ESInv, HandlerInv, ListInv, BetweenWorks, WithinWork
  <2>4. MainInv'
    BY <2>1 DEF ESInv, MainInv
  <2> QED
    BY <2>2, <2>3, <2>4 DEF ESInv
<1>7. CASE LateResumeAbort
  <2>1. /\ pc = "start" /\ ~early_suspend_lock /\ worker' = "idle"
        /\ UNCHANGED <<wl, suspend_requested, suspended, early_suspend_handlers,
                       early_suspend_lock, pc, pos, off, registering>>
    BY <1>7 DEF LateResumeAbort, LateResumeWork, GoTo, esVars
  <2>0. registering = {}
    BY <2>1, WorkAlone
  <2>2. ESTypes'
    BY <1>0, <2>0, <2>1, ESTypesStep
  <2>3. HandlerInv'
    BY <1>0, <2>1 DEF ESInv, HandlerInv, ListInv, BetweenWorks, WithinWork
  <2> QED
    BY <2>1, <2>2, <2>3 DEF ESInv, MainInv
<1>8. CASE LateResumeHandler
  <2> DEFINE e == early_suspend_handlers[pos]
  <2>1. /\ pc = "resume" /\ pos > 0
        /\ off' = off \ ({e} \cap Resumes) /\ pos' = pos - 1
        /\ UNCHANGED <<wl, worker, suspend_requested, early_suspend_handlers,
                       suspended, early_suspend_lock, pc, registering>>
    BY <1>8 DEF LateResumeHandler, vars, lockVars
  <2>2. pos \in DOMAIN early_suspend_handlers
    BY <1>0, <2>1 DEF ESInv, HandlerInv, WithinWork
  <2>0. registering = {} /\ early_suspend_lock
    BY <2>1, WorkAlone DEF ESInv, ESTypes
  <2>3. ESTypes'
    <3>1. off' \subseteq Handlers /\ pos' \in 0 .. Len(early_suspend_handlers) + 1
      BY <1>0, <2>1, <2>2
    <3>2. worker' = "late_resume"
      BY <2>1 DEF ESInv, ESTypes
    <3> QED
      BY <1>0, <2>0, <2>1, <3>1, <3>2, ESTypesStep
  <2>4. ASSUME NEW i \in DOMAIN early_suspend_handlers
        PROVE  IF i <= pos - 1 THEN HandlerOff(i)' ELSE HandlerOn(i)'
    <3>1. IF i <= pos THEN HandlerOff(i) ELSE HandlerOn(i)
      BY <2>1 DEF ESInv, HandlerInv, WithinWork
    <3>2. i # pos => early_suspend_handlers[i] # e
      BY <1>0, <2>2 DEF Ordered
    <3>3. CASE i = pos
      BY <1>0, <2>1, <2>2, <3>3
    <3>4. CASE i # pos
      BY <1>0, <2>1, <2>2, <3>1, <3>2, <3>4
    <3> QED
      BY <3>3, <3>4
  <2>5. WithinWork'
    BY <1>0, <2>1, <2>2, <2>4 DEF ESInv, HandlerInv, WithinWork
  <2>6. ListInv' /\ BetweenWorks'
    BY <1>0, <2>0, <2>1 DEF ListInv, BetweenWorks
  <2>7. MainInv'
    BY <2>1 DEF ESInv, MainInv
  <2> QED
    BY <2>3, <2>5, <2>6, <2>7 DEF ESInv, HandlerInv
<1>9. CASE LateResumeDone
  <2>1. /\ pc = "resume" /\ pos = 0 /\ pc' = "start" /\ worker' = "idle"
        /\ early_suspend_lock' = FALSE
        /\ UNCHANGED <<wl, suspend_requested, suspended, early_suspend_handlers, pos, off,
                       registering>>
    BY <1>9 DEF LateResumeDone, LateResumeWork, GoTo
  <2>2. ~suspended /\ \A i \in DOMAIN early_suspend_handlers : HandlerOn(i)
    BY <1>0, <2>1 DEF ESInv, HandlerInv, WithinWork
  <2>0. registering = {}
    BY <2>1, WorkAlone
  <2>3. ESTypes'
    BY <1>0, <2>0, <2>1, ESTypesStep
  <2>4. HandlerInv'
    BY <1>0, <2>0, <2>1, <2>2 DEF ESInv, HandlerInv, ListInv, BetweenWorks, WithinWork
  <2> QED
    BY <2>1, <2>3, <2>4 DEF ESInv, MainInv
<1>10. ASSUME NEW h \in Handlers, register_early_suspend(h) PROVE ESInv'
  <2>1. /\ ~early_suspend_lock /\ h \notin Elements(early_suspend_handlers)
        /\ early_suspend_handlers' = InsertByLevel(early_suspend_handlers, h)
        /\ early_suspend_lock' = TRUE /\ registering' = {h}
        /\ UNCHANGED <<wl, worker, suspend_requested, suspended, pc, pos, off>>
    BY <1>10 DEF register_early_suspend, Registered, Elements, vars, lockVars
  <2>2. /\ early_suspend_handlers' \in Seq(Handlers) /\ Ordered(early_suspend_handlers')
        /\ Elements(early_suspend_handlers') = Elements(early_suspend_handlers) \cup {h}
    BY <1>0, <2>1, InsertOrdered
  <2>3. /\ registering = {} /\ pc \in {"start", "end"}
        /\ pc = "end" => worker = "early_suspend"
    BY <2>1 DEF ESInv, ESTypes
  <2>4. pos = 0 /\ \A g \in Elements(early_suspend_handlers) :
                     IF suspended THEN g \in Suspends => g \in off ELSE g \in Resumes => g \notin off
    BY <2>3 DEF ESInv, HandlerInv, BetweenWorks, Elements
  <2>5. ESTypes'
    <3>1. h \in Registered' /\ Len(early_suspend_handlers') \in Nat
      BY <2>2 DEF Registered, Elements
    <3> QED
      BY <1>0, <2>1, <2>2, <2>3, <2>4, <3>1, ESTypesStep
  <2>6. ListInv'
    BY <1>0, <2>1, <2>2 DEF ListInv
  <2>7. BetweenWorks' /\ WithinWork'
    BY <1>0, <2>1, <2>2, <2>3, <2>4 DEF BetweenWorks, WithinWork, Elements
  <2> QED
    BY <2>1, <2>5, <2>6, <2>7 DEF ESInv, HandlerInv, MainInv
<1>11. ASSUME NEW h \in Handlers, RegisterCall(h) PROVE ESInv'
  <2>1. /\ h \in registering
        /\ off' = IF suspended /\ h \in Suspends THEN off \cup {h} ELSE off
        /\ early_suspend_lock' = FALSE /\ registering' = {}
        /\ UNCHANGED <<wl, worker, suspend_requested, suspended, early_suspend_handlers, pc, pos>>
    BY <1>11 DEF RegisterCall, vars, lockVars
  <2>2. /\ registering = {h} /\ h \in Registered /\ pc \in {"start", "end"} /\ h \notin off
        /\ pc = "end" => worker = "early_suspend"
    BY <2>1 DEF ESInv, ESTypes, HandlerInv, ListInv
  <2>3. ESTypes'
    BY <1>0, <2>1, <2>2, ESTypesStep
  <2>4. ListInv'
    BY <1>0, <2>1, <2>2 DEF ListInv, Registered, Elements
  <2>5. BetweenWorks' /\ WithinWork'
    BY <1>0, <2>1, <2>2 DEF ESInv, HandlerInv, BetweenWorks, WithinWork
  <2> QED
    BY <2>1, <2>3, <2>4, <2>5 DEF ESInv, HandlerInv, MainInv
<1>12. ASSUME NEW h \in Handlers, unregister_early_suspend(h) PROVE ESInv'
  <2>1. PICK n \in DOMAIN early_suspend_handlers :
          /\ early_suspend_handlers[n] = h
          /\ early_suspend_handlers' = list_del(early_suspend_handlers, n)
    BY <1>12 DEF unregister_early_suspend
  <2>2. /\ ~early_suspend_lock /\ off' = off \ {h}
        /\ UNCHANGED <<wl, worker, suspend_requested, suspended, early_suspend_lock, pc, pos,
                       registering>>
    BY <1>12 DEF unregister_early_suspend, vars, lockVars
  <2>3. /\ early_suspend_handlers' \in Seq(Handlers) /\ Ordered(early_suspend_handlers')
        /\ Elements(early_suspend_handlers') = Elements(early_suspend_handlers) \ {h}
    BY <1>0, <2>1, DeleteOrdered
  <2>4. /\ registering = {} /\ pc \in {"start", "end"}
        /\ pc = "end" => worker = "early_suspend"
    BY <2>2 DEF ESInv, ESTypes
  <2>5. pos = 0 /\ \A g \in Elements(early_suspend_handlers) :
                     IF suspended THEN g \in Suspends => g \in off ELSE g \in Resumes => g \notin off
    BY <2>4 DEF ESInv, HandlerInv, BetweenWorks, Elements
  <2>6. ESTypes'
    <3>1. Len(early_suspend_handlers') \in Nat
      BY <2>3
    <3> QED
      BY <1>0, <2>2, <2>3, <2>4, <2>5, <3>1, ESTypesStep
  <2>7. ListInv'
    BY <1>0, <2>2, <2>3, <2>4 DEF ListInv
  <2>8. BetweenWorks' /\ WithinWork'
    BY <1>0, <2>2, <2>3, <2>4, <2>5 DEF BetweenWorks, WithinWork, Elements
  <2> QED
    BY <2>2, <2>6, <2>7, <2>8 DEF ESInv, HandlerInv, MainInv
<1>13. ASSUME NEW new_state \in {PM_SUSPEND_ON, PM_SUSPEND_MEM},
              request_suspend_state(new_state), UNCHANGED esVars
       PROVE  ESInv'
  <2>1. worker' = worker /\ suspend_requested' = (new_state # PM_SUSPEND_ON)
    BY <1>13 DEF request_suspend_state
  <2>2. CASE wake_lock_internal(wl, queue_work(wq, "late_resume"), main_wake_lock, FALSE, 0)
    <3>1. main_wake_lock \in wl'.active
      BY <2>2, LocksAssumption, LockTames, BackOffTimes DEF TypeOK, BuiltinLocks
    <3> QED
      BY <1>13, <2>1, <3>1, HandlersAlone DEF MainInv
  <2>3. CASE (new_state = PM_SUSPEND_ON => ~suspend_requested) /\ wl' = wl
    <3>1. MainInv'
      BY <1>13, <2>1, <2>3 DEF ESInv, MainInv, esVars
    <3> QED
      BY <1>13, <2>1, <3>1, HandlersAlone
  <2> QED
    BY <1>13, <2>2, <2>3 DEF request_suspend_state
<1>14. CASE UNCHANGED allVars
  <2>1. UNCHANGED <<wl, worker, suspend_requested>> /\ UNCHANGED esVars
    BY <1>14 DEF allVars, vars, lockVars
  <2>2. MainInv'
    BY <2>1 DEF ESInv, MainInv, esVars
  <2> QED
    BY <2>1, <2>2, HandlersAlone
<1> QED
  BY <1>1, <1>2, <1>3, <1>4, <1>5, <1>6, <1>7, <1>8, <1>9, <1>10, <1>11, <1>12, <1>13, <1>14
     DEF ESNext, ESWork

\* ESInv holds together with what SuspendWork already promises.
LEMMA ESInvariant == ESSpec => [](TypeOK /\ SleepInv /\ ESInv)
<1>1. TypeOK /\ SleepInv /\ ESInv /\ [ESNext]_allVars => (TypeOK /\ SleepInv /\ ESInv)'
  BY StepSimulates, NextTypes, NextSleep, ESNextInv
<1>2. ESInit => TypeOK /\ SleepInv /\ ESInv
  BY InitTypes, InitSleep, ESInitInv DEF ESInit
<1> QED
  BY <1>1, <1>2, PTL DEF ESSpec

\* Every reachable state has its type, and early_suspend_lock is held exactly
\* while handlers are called, by the work whose handlers they are or by one
\* registration.
THEOREM ESTypeCorrect == ESSpec => []ESTypeOK
<1>1. TypeOK /\ ESInv => ESTypeOK
  BY DEF ESInv, ESTypes, ESTypeOK
<1> QED
  BY <1>1, ESInvariant, PTL

\* Whenever early_suspend_lock is free the last call of every registered handler
\* was the one SUSPENDED asks for, whichever of the two callbacks it has.
THEOREM HandlersAgree == ESSpec => []HandlersFollowState
<1>1. ASSUME ESInv PROVE HandlersFollowState
  <2>1. ~early_suspend_lock => registering = {} /\ pc \notin {"suspend", "resume"}
    BY <1>1 DEF ESInv, ESTypes
  <2> QED
    BY <1>1, <2>1, StateBits DEF ESInv, HandlerInv, BetweenWorks, HandlerOff, HandlerOn,
       HandlersFollowState, Registered
<1> QED
  BY <1>1, ESInvariant, PTL

\* The main lock is released only in the requested and suspended state, with
\* every registered handler called but the one that is just being registered.
THEOREM MainLockAgrees == ESSpec => []MainLockFollowsState
<1>1. ESInv => MainLockFollowsState
  BY StateBits DEF ESInv, HandlerInv, BetweenWorks, HandlerOff, MainInv, MainLockFollowsState,
     Registered
<1> QED
  BY <1>1, ESInvariant, PTL

\* Of the devices that are turned off and on none is off while one of a lower
\* level is on, whatever the levels and wherever a work is in the list, but for
\* one whose direct call in register_early_suspend is not over.
THEOREM LevelsRespected == ESSpec => []LevelOrder
<1>1. ASSUME ESInv, NEW i \in DOMAIN early_suspend_handlers,
             NEW j \in DOMAIN early_suspend_handlers,
             early_suspend_handlers[i] \in Suspends \ registering,
             early_suspend_handlers[j] \in Resumes,
             Level[early_suspend_handlers[i]] < Level[early_suspend_handlers[j]],
             early_suspend_handlers[j] \in off
      PROVE  early_suspend_handlers[i] \in off
  <2>1. /\ i \in Nat /\ j \in Nat
        /\ Level[early_suspend_handlers[i]] \in Nat /\ Level[early_suspend_handlers[j]] \in Nat
    BY <1>1, LevelAssumption DEF ESInv, ESTypes
  <2>2. i < j
    <3>1. CASE i = j
      BY <1>1, <2>1, <3>1
    <3>2. CASE j < i
      <4>1. Level[early_suspend_handlers[j]] <= Level[early_suspend_handlers[i]]
        BY <1>1, <3>2 DEF ESInv, HandlerInv, ListInv, Ordered
      <4> QED
        BY <1>1, <2>1, <4>1
    <3> QED
      BY <2>1, <3>1, <3>2
  <2>3. CASE pc \in {"suspend", "resume"}
    <3>1. pos \in Nat
      BY <1>1 DEF ESInv, ESTypes
    <3> QED
      BY <1>1, <2>1, <2>2, <2>3, <3>1 DEF ESInv, HandlerInv, WithinWork, HandlerOff, HandlerOn
  <2>4. CASE pc \notin {"suspend", "resume"}
    <3>1. early_suspend_handlers[j] \notin registering
      BY <1>1 DEF ESInv, HandlerInv, ListInv
    <3>2. suspended
      BY <1>1, <2>4, <3>1 DEF ESInv, HandlerInv, BetweenWorks, HandlerOn
    <3> QED
      BY <1>1, <2>4, <3>2 DEF ESInv, HandlerInv, BetweenWorks, HandlerOff
  <2> QED
    BY <2>3, <2>4
<1>2. ESInv => LevelOrder
  BY <1>1 DEF LevelOrder, Registered
<1> QED
  BY <1>2, ESInvariant, PTL
=============================================================================
