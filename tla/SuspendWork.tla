----------------------------- MODULE SuspendWork -----------------------------
(***************************************************************************)
(* The life of the system around the wake locks: the suspend work of       *)
(* kernel/power/wakelock.c with the path it takes through suspend.c,       *)
(* process.c and the late suspend of the "power" device; the two timers;   *)
(* drivers and user space taking and releasing locks.                      *)
(*                                                                         *)
(* The screen side is abstract here: request_suspend_state is complete but *)
(* for the SUSPENDED bit, and the works early_suspend and late_resume run  *)
(* in one step, the first with or without releasing the main lock.  Module *)
(* EarlySuspend has the handlers and is shown to implement this one.       *)
(***************************************************************************)
EXTENDS WakeLock

CONSTANTS
  UserLocks,      \* locks user space made through /sys/power/wake_lock
  AbandonedLocks  \* driver locks whose owner destroys them while they are held

ASSUME OwnersAssumption ==
  /\ UserLocks \subseteq Locks \ BuiltinLocks
  /\ \A l \in UserLocks : LockType[l] = WAKE_LOCK_SUSPEND
  /\ AbandonedLocks \subseteq Locks \ (BuiltinLocks \cup UserLocks)

DriverLocks == Locks \ (BuiltinLocks \cup UserLocks)

VARIABLES
  requested_suspend_state,  \* what user space last wrote to /sys/power/state
  suspend_requested         \* the bit SUSPEND_REQUESTED of earlysuspend.c's state

vars == <<lockVars, requested_suspend_state, suspend_requested>>

PM_SUSPEND_ON == "on"
PM_SUSPEND_MEM == "mem"

\* Where the thread of suspend_work_queue is.  The suspend work goes through
\* the places from "suspend" to "no_event".
SuspendPlaces ==
  {"suspend", "checked", "entered", "freeze", "frozen", "suspended", "late",
   "asleep", "exit", "no_event"}
Places == {"idle", "early_suspend", "late_resume"} \cup SuspendPlaces

\* User space does not run: its tasks are in the refrigerator.
Frozen == worker \in {"frozen", "suspended", "late", "asleep"}

\* Nothing runs: the processor is in power collapse.
Asleep == worker = "asleep"

\* The places where entry_event_num is live.
Recorded == worker \in SuspendPlaces \ {"suspend", "checked"}

Init ==
  /\ wl = [initialized |-> BuiltinLocks, active |-> {main_wake_lock},
           auto_expire |-> {}, preventing |-> {}, left |-> [l \in Locks |-> 0]]
  /\ expire_timer = NotPending
  /\ watchdog_timer = FALSE
  /\ softirq = {}
  /\ events = TRUE
  /\ wq = <<>>
  /\ worker = "idle"
  /\ fresh = {}
  /\ requested_suspend_state = PM_SUSPEND_MEM
  /\ suspend_requested = FALSE

-----------------------------------------------------------------------------
(***************************************************************************)
(* The thread of suspend_work_queue.                                       *)
(***************************************************************************)
GoTo(from, to) ==
  /\ worker = from
  /\ worker' = to
  /\ UNCHANGED <<requested_suspend_state, suspend_requested>>

\* run_workqueue: the pending bit is cleared before the function is called.
run_workqueue ==
  /\ wq # <<>>
  /\ GoTo("idle", Head(wq))
  /\ wq' = Tail(wq)
  /\ UNCHANGED <<wl, expire_timer, watchdog_timer, softirq, events, fresh>>

\* suspend(): give up when a lock is held.
SuspendCheck ==
  \E ret \in -1 .. MaxTimeout :
    /\ has_wake_lock(WAKE_LOCK_SUSPEND, ret)
    /\ GoTo("suspend", IF ret = 0 THEN "checked" ELSE "idle")
    /\ UNCHANGED <<expire_timer, watchdog_timer, softirq, events, wq, fresh>>

\* suspend(): entry_event_num = current_event_num.
SuspendRecord ==
  /\ GoTo("checked", "entered")
  /\ events' = FALSE
  /\ UNCHANGED <<wl, expire_timer, watchdog_timer, softirq, wq, fresh>>

\* suspend(), pm_suspend, enter_state and suspend_prepare, up to the freezer.
\* pm_suspend refuses PM_SUSPEND_ON; pm_mutex, a notifier or usermodehelper
\* may refuse the rest.
pm_suspend ==
  /\ \/ GoTo("entered", "exit")
     \/ requested_suspend_state # PM_SUSPEND_ON /\ GoTo("entered", "freeze")
  /\ watchdog_timer' = FALSE
  /\ UNCHANGED <<wl, expire_timer, softirq, events, wq, fresh>>

\* try_to_freeze_tasks, with tasks left to freeze: a wake lock ends it.
FreezeCheck ==
  \E ret \in -1 .. MaxTimeout :
    /\ has_wake_lock(WAKE_LOCK_SUSPEND, ret)
    /\ GoTo("freeze", IF ret = 0 THEN "freeze" ELSE "exit")
    /\ UNCHANGED <<expire_timer, watchdog_timer, softirq, events, wq, fresh>>

\* try_to_freeze_tasks ends with every task frozen, or after its 20 seconds
\* with tasks that would not freeze; the caller then thaws them.
FreezeEnd ==
  /\ GoTo("freeze", "frozen") \/ GoTo("freeze", "exit")
  /\ UNCHANGED <<wl, expire_timer, watchdog_timer, softirq, events, wq, fresh>>

\* dpm_suspend_start: a driver may refuse.
dpm_suspend_start ==
  /\ GoTo("frozen", "suspended") \/ GoTo("frozen", "exit")
  /\ UNCHANGED <<wl, expire_timer, watchdog_timer, softirq, events, wq, fresh>>

\* Mutant: the locks are not looked at again.
LateWithoutCheck ==
  /\ GoTo("suspended", "late")
  /\ fresh' = {}
  /\ UNCHANGED <<wl, expire_timer, watchdog_timer, softirq, events, wq>>

\* Mutant: has_wake_lock < 0, so that locks with a timeout do not count.
LateIgnoresTimeouts ==
  \E ret \in -1 .. MaxTimeout :
    /\ has_wake_lock(WAKE_LOCK_SUSPEND, ret)
    /\ GoTo("suspended", IF ret >= 0 THEN "late" ELSE "exit")
    /\ fresh' = {}
    /\ UNCHANGED <<expire_timer, watchdog_timer, softirq, events, wq>>

\* dpm_suspend_noirq calls power_suspend_late, the last look at the locks.
power_suspend_late ==
  \E ret \in -1 .. MaxTimeout :
    /\ has_wake_lock(WAKE_LOCK_SUSPEND, ret)
    /\ GoTo("suspended", IF ret = 0 THEN "late" ELSE "exit")
    /\ fresh' = {}
    /\ UNCHANGED <<expire_timer, watchdog_timer, softirq, events, wq>>

\* The rest of suspend_enter: the other devices, sysdev_suspend and
\* suspend_ops->enter.  Any of them may fail.
suspend_enter ==
  /\ GoTo("late", "asleep") \/ GoTo("late", "exit")
  /\ UNCHANGED <<wl, expire_timer, watchdog_timer, softirq, events, wq, fresh>>

\* suspend_ops->enter returns; devices resume and tasks are thawed.
Wake ==
  /\ GoTo("asleep", "exit")
  /\ UNCHANGED <<wl, expire_timer, watchdog_timer, softirq, events, wq, fresh>>

\* pm_suspend has returned to suspend().
SuspendExit ==
  /\ GoTo("exit", IF events THEN "idle" ELSE "no_event")
  /\ watchdog_timer' = TRUE
  /\ fresh' = {}
  /\ UNCHANGED <<wl, expire_timer, softirq, events, wq>>

\* Mutant: no back-off lock.
NoBackOff ==
  /\ GoTo("no_event", "idle")
  /\ UNCHANGED <<wl, expire_timer, watchdog_timer, softirq, events, wq, fresh>>

\* Mutant: the back-off lock has no timeout.
BackOffForever ==
  GoTo("no_event", "idle") /\ wake_lock(unknown_wakeup)

\* suspend(), pm_suspend returned with no event: back off for half a second.
UnknownWakeup ==
  /\ GoTo("no_event", "idle")
  /\ wake_lock_timeout(unknown_wakeup, HalfSecond)

\* The works of earlysuspend.c, seen from here.
EarlySuspendWork ==
  /\ GoTo("early_suspend", "idle")
  /\ \/ suspend_requested /\ wake_unlock(main_wake_lock)
     \/ UNCHANGED <<wl, expire_timer, watchdog_timer, softirq, events, wq, fresh>>

LateResumeWork ==
  /\ GoTo("late_resume", "idle")
  /\ UNCHANGED <<wl, expire_timer, watchdog_timer, softirq, events, wq, fresh>>

-----------------------------------------------------------------------------
(***************************************************************************)
(* Timers.  A due timer is first dequeued, then its function runs: another *)
(* context may get in between.                                             *)
(***************************************************************************)
Less(n) == IF n > 0 THEN n - 1 ELSE n

Tick ==
  /\ ~Asleep
  /\ expire_timer > 0 \/ \E l \in Locks : wl.left[l] > 0
  /\ wl' = [wl EXCEPT !.left = [l \in Locks |-> Less(@[l])]]
  /\ expire_timer' = Less(expire_timer)
  /\ UNCHANGED <<watchdog_timer, softirq, events, wq, worker, fresh,
                 requested_suspend_state, suspend_requested>>

DequeueExpireTimer ==
  /\ ~Asleep
  /\ expire_timer = 0
  /\ expire_timer' = NotPending
  /\ softirq' = softirq \cup {"expire"}
  /\ UNCHANGED <<wl, watchdog_timer, events, wq, worker, fresh,
                 requested_suspend_state, suspend_requested>>

expire_wake_locks ==
  /\ ~Asleep
  /\ "expire" \in softirq
  /\ softirq' = softirq \ {"expire"}
  /\ \E ret \in -1 .. MaxTimeout :
       /\ has_wake_lock(WAKE_LOCK_SUSPEND, ret)
       /\ wq' = IF ret = 0 THEN queue_work(wq, "suspend") ELSE wq
  /\ UNCHANGED <<expire_timer, watchdog_timer, events, worker, fresh,
                 requested_suspend_state, suspend_requested>>

DequeueWatchdogTimer ==
  /\ ~Asleep
  /\ watchdog_timer
  /\ watchdog_timer' = FALSE
  /\ softirq' = softirq \cup {"watchdog"}
  /\ UNCHANGED <<wl, expire_timer, events, wq, worker, fresh,
                 requested_suspend_state, suspend_requested>>

\* watchdog_func: the watchdog lock for ten seconds.
watchdog_func ==
  /\ ~Asleep
  /\ "watchdog" \in softirq
  /\ softirq' = softirq \ {"watchdog"}
  /\ wake_lock_internal(wl, wq, watchdog_wake_lock, TRUE, TenSeconds)
  /\ UNCHANGED <<worker, requested_suspend_state, suspend_requested>>

-----------------------------------------------------------------------------
(***************************************************************************)
(* Drivers: interrupt handlers, timers, work queues and kernel threads     *)
(* that are not frozen.  They run whenever the processor does, and use     *)
(* only their own locks.                                                   *)
(***************************************************************************)
DriverInit(l) ==
  /\ ~Asleep /\ l \in DriverLocks \ wl.initialized
  /\ wl' = wake_lock_init(wl, l)
  /\ UNCHANGED <<expire_timer, watchdog_timer, softirq, events, wq, worker, fresh,
                 requested_suspend_state, suspend_requested>>

\* A lock with a timeout may be destroyed while it is active (evdev_release);
\* one without is released first, except the AbandonedLocks.
DriverDestroy(l) ==
  /\ ~Asleep /\ l \in DriverLocks \cap wl.initialized
  /\ l \in wl.active => l \in wl.auto_expire \cup AbandonedLocks
  /\ wl' = wake_lock_destroy(wl, l)
  /\ UNCHANGED <<expire_timer, watchdog_timer, softirq, events, wq, worker, fresh,
                 requested_suspend_state, suspend_requested>>

DriverLock(l) ==
  /\ ~Asleep /\ l \in DriverLocks
  /\ wake_lock(l)
  /\ UNCHANGED <<worker, requested_suspend_state, suspend_requested>>

DriverLockTimeout(l, timeout) ==
  /\ ~Asleep /\ l \in DriverLocks
  /\ wake_lock_timeout(l, timeout)
  /\ UNCHANGED <<worker, requested_suspend_state, suspend_requested>>

DriverUnlock(l) ==
  /\ ~Asleep /\ l \in DriverLocks
  /\ wake_unlock(l)
  /\ UNCHANGED <<worker, requested_suspend_state, suspend_requested>>

\* The idle loop asks whether it may use a deep state, and so expires locks.
IdleCheck ==
  /\ ~Asleep
  /\ \E ret \in -1 .. MaxTimeout : has_wake_lock(WAKE_LOCK_IDLE, ret)
  /\ UNCHANGED <<expire_timer, watchdog_timer, softirq, events, wq, worker, fresh,
                 requested_suspend_state, suspend_requested>>

-----------------------------------------------------------------------------
(***************************************************************************)
(* User space, through /sys/power.                                         *)
(***************************************************************************)
\* The first use of a name makes its lock; timeout 0 means none was given.
wake_lock_store(l, timeout) ==
  LET w == IF l \in wl.initialized THEN wl ELSE wake_lock_init(wl, l)
  IN  /\ ~Frozen /\ l \in UserLocks
      /\ wake_lock_internal(w, wq, l, timeout # 0, timeout)
      /\ UNCHANGED <<softirq, worker, requested_suspend_state, suspend_requested>>

wake_unlock_store(l) ==
  /\ ~Frozen /\ l \in UserLocks
  /\ wake_unlock(l)
  /\ UNCHANGED <<worker, requested_suspend_state, suspend_requested>>

\* Mutant: late_resume_work is not queued.
RequestWithoutResume(new_state) ==
  /\ ~Frozen
  /\ requested_suspend_state' = new_state
  /\ suspend_requested' = (new_state # PM_SUSPEND_ON)
  /\ UNCHANGED <<worker, softirq>>
  /\ \/ /\ ~suspend_requested /\ new_state # PM_SUSPEND_ON
        /\ wq' = queue_work(wq, "early_suspend")
        /\ UNCHANGED <<wl, expire_timer, watchdog_timer, events, fresh>>
     \/ /\ suspend_requested /\ new_state = PM_SUSPEND_ON
        /\ wake_lock_internal(wl, wq, main_wake_lock, FALSE, 0)

\* request_suspend_state.  After boot the state asked for is PM_SUSPEND_MEM and
\* the bit is clear: only the bit tells whether the request is new.
request_suspend_state(new_state) ==
  /\ ~Frozen
  /\ requested_suspend_state' = new_state
  /\ suspend_requested' = (new_state # PM_SUSPEND_ON)
  /\ UNCHANGED <<worker, softirq>>
  /\ \/ /\ ~suspend_requested /\ new_state # PM_SUSPEND_ON
        /\ wq' = queue_work(wq, "early_suspend")
        /\ UNCHANGED <<wl, expire_timer, watchdog_timer, events, fresh>>
     \/ /\ suspend_requested /\ new_state = PM_SUSPEND_ON
        /\ wake_lock_internal(wl, queue_work(wq, "late_resume"), main_wake_lock, FALSE, 0)
     \/ /\ suspend_requested <=> new_state # PM_SUSPEND_ON
        /\ UNCHANGED <<wl, expire_timer, watchdog_timer, events, wq, fresh>>

-----------------------------------------------------------------------------
SuspendSteps ==
  \/ SuspendCheck \/ SuspendRecord \/ pm_suspend \/ FreezeCheck \/ FreezeEnd
  \/ dpm_suspend_start \/ power_suspend_late \/ suspend_enter \/ Wake
  \/ SuspendExit \/ UnknownWakeup

Timers ==
  \/ Tick \/ DequeueExpireTimer \/ expire_wake_locks
  \/ DequeueWatchdogTimer \/ watchdog_func

Drivers ==
  \/ \E l \in DriverLocks :
       \/ DriverInit(l) \/ DriverDestroy(l) \/ DriverLock(l) \/ DriverUnlock(l)
       \/ \E timeout \in 0 .. MaxTimeout : DriverLockTimeout(l, timeout)
  \/ IdleCheck

UserWakeLocks ==
  \E l \in UserLocks :
    \/ \E timeout \in 0 .. MaxTimeout : wake_lock_store(l, timeout)
    \/ wake_unlock_store(l)

\* Everything but the steps that belong to earlysuspend.c.
PowerStep ==
  run_workqueue \/ SuspendSteps \/ Timers \/ Drivers \/ UserWakeLocks

Next ==
  \/ PowerStep
  \/ EarlySuspendWork \/ LateResumeWork
  \/ \E new_state \in {PM_SUSPEND_ON, PM_SUSPEND_MEM} : request_suspend_state(new_state)

Spec == Init /\ [][Next]_vars

\* The steps of suspend() that its thread takes by itself: nothing obliges a
\* sleeping system to wake, or the freezer to look at the locks before it ends.
WorkerStep ==
  \/ run_workqueue \/ SuspendCheck \/ SuspendRecord \/ pm_suspend \/ FreezeEnd
  \/ dpm_suspend_start \/ power_suspend_late \/ suspend_enter \/ SuspendExit
  \/ UnknownWakeup

-----------------------------------------------------------------------------
(***************************************************************************)
(* Properties.                                                             *)
(***************************************************************************)
\* Every variable has its type, and the flags of the locks agree.
TypeOK ==
  /\ FlagsAgree(wl)
  /\ expire_timer \in 0 .. MaxTimeout \cup {NotPending}
  /\ watchdog_timer \in BOOLEAN
  /\ softirq \subseteq {"expire", "watchdog"}
  /\ events \in BOOLEAN
  /\ wq \in Seq(Works)
  /\ worker \in Places
  /\ fresh \subseteq Locks
  /\ requested_suspend_state \in {PM_SUSPEND_ON, PM_SUSPEND_MEM}
  /\ suspend_requested \in BOOLEAN

\* While every held suspend lock has a timeout, the expire timer is pending
\* and due no earlier than any of them runs out: the timer is never left
\* behind by a lock that was extended, converted or released.
TimerCoversLocks ==
  AllAutoExpire(wl, WAKE_LOCK_SUSPEND) =>
    \A l \in HeldOf(wl, WAKE_LOCK_SUSPEND) : wl.left[l] > 0 => wl.left[l] <= expire_timer

\* The suspend work is on its way, or will leave the unknown_wakeup lock
\* behind because no event was counted.
AttemptUnderWay ==
  \/ Pending(wq, "suspend")
  \/ worker \in {"suspend", "checked"}
  \/ Recorded /\ ~events

\* As soon as no lock without timeout is held, something is under way that
\* will try to suspend: the expire timer, its function, or the suspend work.
\* No order of lock, unlock, expiry and work queue steps loses the attempt.
NoLostSuspend ==
  AllAutoExpire(wl, WAKE_LOCK_SUSPEND) =>
    expire_timer # NotPending \/ "expire" \in softirq \/ AttemptUnderWay

\* What update_sleep_wait_stats_locked keeps up: a suspend lock whose time is
\* not up is charged with preventing suspend exactly while the main lock is
\* not held.
PreventingIsExact ==
  \A l \in HeldOf(wl, WAKE_LOCK_SUSPEND) \ {main_wake_lock} :
    ~get_expired_time(wl, l) =>
      (l \in wl.preventing <=> main_wake_lock \notin wl.active)

\* The main lock has no timeout and is held while sleep is not requested.
MainLockWhileOn ==
  /\ main_wake_lock \notin wl.auto_expire
  /\ ~suspend_requested => main_wake_lock \in wl.active
  /\ suspend_requested => requested_suspend_state # PM_SUSPEND_ON

\* The system sleeps only with the screen off and the main lock released,
\* although user space may ask for the screen until it is frozen.
SleepOnlyWhenRequested ==
  worker \in {"late", "asleep"} =>
    /\ suspend_requested /\ requested_suspend_state # PM_SUSPEND_ON
    /\ main_wake_lock \notin wl.active

\* A lock held when the system goes to sleep was taken after power_suspend_late
\* looked: no earlier lock is slept over, whenever it was taken.
SleepRespectsLocks ==
  worker \in {"late", "asleep"} => HeldOf(wl, WAKE_LOCK_SUSPEND) \subseteq fresh

\* A system that only its own back-off and watchdog locks keep awake tries to
\* suspend again and again, however often an attempt fails.
SuspendRetried ==
  <>[](HeldOf(wl, WAKE_LOCK_SUSPEND) \subseteq {unknown_wakeup, watchdog_wake_lock})
    => []<>(worker \in {"entered", "asleep"})
=============================================================================
