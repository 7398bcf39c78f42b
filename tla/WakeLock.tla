------------------------------ MODULE WakeLock ------------------------------
(***************************************************************************)
(* The operations of kernel/power/wakelock.c: wake_lock, wake_lock_timeout *)
(* and wake_unlock, with the expire timer, the watchdog timer and the      *)
(* suspend work queue they feed.  Each is one critical section of          *)
(* list_lock, taken with interrupts off, so it is one atomic step.         *)
(***************************************************************************)
EXTENDS WakeLockState, Sequences

VARIABLES
  wl,               \* the flags, list membership and remaining time of the locks
  expire_timer,     \* jiffies until the expire timer is due, or NotPending
  watchdog_timer,   \* is the one-hour watchdog timer pending?
  softirq,          \* timer functions dequeued and about to run
  events,           \* current_event_num # entry_event_num
  wq,               \* works pending on suspend_work_queue, oldest first
  worker,           \* where the thread of suspend_work_queue is
  fresh             \* history: locks taken since the last power_suspend_late check

lockVars == <<wl, expire_timer, watchdog_timer, softirq, events, wq, worker, fresh>>

NotPending == -1
Works == {"suspend", "early_suspend", "late_resume"}

-----------------------------------------------------------------------------
(***************************************************************************)
(* Timers and the work queue.                                              *)
(***************************************************************************)
Pending(q, work) == \E i \in DOMAIN q : q[i] = work

\* queue_work: a no-op when the work is already pending.
queue_work(q, work) == IF Pending(q, work) THEN q ELSE Append(q, work)

\* Mutant: a pending timer is left as it is.
ArmOnlyIfIdle(ret, q) ==
  /\ expire_timer' = IF ret <= 0 THEN NotPending
                     ELSE IF expire_timer = NotPending THEN ret ELSE expire_timer
  /\ wq' = IF ret = 0 THEN queue_work(q, "suspend") ELSE q

\* mod_timer(&expire_timer) for a positive answer of the scan, del_timer and,
\* when no lock is left, queue_work(&suspend_work) otherwise.
ArmOrQueue(ret, q) ==
  /\ expire_timer' = IF ret > 0 THEN ret ELSE NotPending
  /\ wq' = IF ret = 0 THEN queue_work(q, "suspend") ELSE q

-----------------------------------------------------------------------------
(***************************************************************************)
(* The lock operations.  w and q are the lock state and the work queue     *)
(* they start from: wl and wq, unless the caller changed them in the same  *)
(* critical section.  The caller says what becomes of worker, and of       *)
(* softirq where wake_lock_internal is used directly.                      *)
(***************************************************************************)
wake_lock_internal(w, q, l, has_timeout, timeout) ==
  LET taken == TakeLock(w, l, has_timeout, timeout)
      counted == AccountLock(taken, l)
  IN  /\ l \in w.initialized
      /\ fresh' = IF worker = "late" THEN fresh \cup {l} ELSE fresh
      /\ \/ /\ LockType[l] # WAKE_LOCK_SUSPEND
            /\ wl' = taken
            /\ wq' = q
            /\ UNCHANGED <<expire_timer, watchdog_timer, events>>
         \/ /\ LockType[l] = WAKE_LOCK_SUSPEND
            /\ events' = TRUE
            /\ watchdog_timer' = (watchdog_timer /\ l # main_wake_lock)
            /\ \/ /\ has_timeout
                  /\ wl' = has_wake_lock_locked(counted, WAKE_LOCK_SUSPEND)
                  /\ \E ret \in -1 .. MaxTimeout :
                       ScanReturns(ret, counted, WAKE_LOCK_SUSPEND) /\ ArmOrQueue(ret, q)
               \/ /\ ~has_timeout
                  /\ wl' = counted
                  /\ ArmOrQueue(-1, q)

wake_lock(l) ==
  wake_lock_internal(wl, wq, l, FALSE, 0) /\ UNCHANGED softirq

wake_lock_timeout(l, timeout) ==
  wake_lock_internal(wl, wq, l, TRUE, timeout) /\ UNCHANGED softirq

wake_unlock(l) ==
  LET freed == Deactivate(wl, {l})
      scanned == has_wake_lock_locked(freed, WAKE_LOCK_SUSPEND)
  IN  /\ l \in wl.initialized
      /\ UNCHANGED <<softirq, events, fresh>>
      /\ \/ /\ LockType[l] # WAKE_LOCK_SUSPEND
            /\ wl' = freed
            /\ UNCHANGED <<expire_timer, watchdog_timer, wq>>
         \/ /\ LockType[l] = WAKE_LOCK_SUSPEND
            /\ wl' = IF l = main_wake_lock
                     THEN update_sleep_wait_stats_locked(scanned, FALSE)
                     ELSE scanned
            /\ \E ret \in -1 .. MaxTimeout :
                 /\ ScanReturns(ret, freed, WAKE_LOCK_SUSPEND)
                 /\ ArmOrQueue(ret, wq)
                 /\ watchdog_timer' = (\/ watchdog_timer
                                       \/ l = main_wake_lock /\ ret # 0)

\* has_wake_lock(type) returns ret: the scan under list_lock.
has_wake_lock(type, ret) ==
  /\ wl' = has_wake_lock_locked(wl, type)
  /\ ScanReturns(ret, wl, type)
=============================================================================
