---------------------------- MODULE EarlySuspend ----------------------------
(***************************************************************************)
(* kernel/power/earlysuspend.c on top of the wake locks: the SUSPENDED bit *)
(* of its state, the list of handlers and the works early_suspend and      *)
(* late_resume, which call the handlers one by one under                   *)
(* early_suspend_lock.  User space may change its mind at any of these     *)
(* steps, and drivers register and unregister handlers.                    *)
(*                                                                         *)
(* A handler is the device it turns off (suspend) and on (resume), which   *)
(* is on when its driver registers it.                                     *)
(***************************************************************************)
EXTENDS SuspendWork

CONSTANTS
  Handlers,  \* the struct early_suspend objects
  Level,     \* handler -> its level
  Suspends,  \* the handlers whose suspend is not NULL
  Resumes    \* the handlers whose resume is not NULL

ASSUME LevelAssumption ==
  /\ Level \in [Handlers -> Nat]
  /\ Suspends \subseteq Handlers /\ Resumes \subseteq Handlers

VARIABLES
  suspended,               \* the bit SUSPENDED of state
  early_suspend_handlers,  \* the registered handlers, in list order
  early_suspend_lock,      \* is the mutex held?
  registering,             \* the handler of the register_early_suspend that
                           \* holds it, as a set
  pc,                      \* where in early_suspend or late_resume the worker is
  pos,                     \* the list position it is at
  off                      \* the registered handlers called last to suspend

esVars ==
  <<suspended, early_suspend_handlers, early_suspend_lock, registering, pc, pos, off>>
allVars == <<vars, esVars>>

SUSPEND_REQUESTED == "requested"
SUSPENDED == "suspended"
SUSPEND_REQUESTED_AND_SUSPENDED == {SUSPEND_REQUESTED, SUSPENDED}

\* The variable state of earlysuspend.c, as the set of its bits.
state == {bit \in SUSPEND_REQUESTED_AND_SUSPENDED :
            \/ bit = SUSPEND_REQUESTED /\ suspend_requested
            \/ bit = SUSPENDED /\ suspended}

Registered == {early_suspend_handlers[i] : i \in DOMAIN early_suspend_handlers}

ESInit ==
  /\ Init
  /\ suspended = FALSE
  /\ early_suspend_handlers = <<>>
  /\ early_suspend_lock = FALSE
  /\ registering = {}
  /\ pc = "start"
  /\ pos = 0
  /\ off = {}

-----------------------------------------------------------------------------
(***************************************************************************)
(* Drivers.                                                                *)
(***************************************************************************)
\* Mutant: the new handler goes to the end of the list.
InsertAtTail(list, h) == Append(list, h)

\* The new handler goes before the first handler of a higher level.
InsertByLevel(list, h) ==
  LET n == CHOOSE n \in 0 .. Len(list) :
             /\ \A i \in 1 .. n : Level[list[i]] <= Level[h]
             /\ n < Len(list) => Level[list[n + 1]] > Level[h]
  IN  SubSeq(list, 1, n) \o <<h>> \o SubSeq(list, n + 1, Len(list))

\* register_early_suspend up to list_add_tail.
register_early_suspend(h) ==
  /\ ~Asleep /\ ~early_suspend_lock /\ h \notin Registered
  /\ early_suspend_handlers' = InsertByLevel(early_suspend_handlers, h)
  /\ early_suspend_lock' = TRUE
  /\ registering' = {h}
  /\ UNCHANGED <<vars, suspended, pc, pos, off>>

\* Mutant: a handler registered while suspended is not called.
RegisterWithoutCall(h) ==
  /\ ~Asleep /\ h \in registering
  /\ early_suspend_lock' = FALSE
  /\ registering' = {}
  /\ UNCHANGED <<vars, suspended, early_suspend_handlers, pc, pos, off>>

\* The rest of it: handler->suspend, which may sleep, and mutex_unlock.
RegisterCall(h) ==
  /\ ~Asleep /\ h \in registering
  /\ off' = IF SUSPENDED \in state /\ h \in Suspends THEN off \cup {h} ELSE off
  /\ early_suspend_lock' = FALSE
  /\ registering' = {}
  /\ UNCHANGED <<vars, suspended, early_suspend_handlers, pc, pos>>

\* The list without its n-th entry.
list_del(list, n) == SubSeq(list, 1, n - 1) \o SubSeq(list, n + 1, Len(list))

unregister_early_suspend(h) ==
  /\ ~Asleep /\ ~early_suspend_lock
  /\ \E n \in DOMAIN early_suspend_handlers :
       /\ early_suspend_handlers[n] = h
       /\ early_suspend_handlers' = list_del(early_suspend_handlers, n)
  /\ off' = off \ {h}
  /\ UNCHANGED <<vars, suspended, early_suspend_lock, registering, pc, pos>>

-----------------------------------------------------------------------------
(***************************************************************************)
(* The works.                                                              *)
(***************************************************************************)
\* Mutant: abort returns without looking at the main lock.
AbortReturns ==
  /\ worker = "early_suspend" /\ pc = "start" /\ ~early_suspend_lock
  /\ \/ /\ state = {SUSPEND_REQUESTED}
        /\ suspended' = TRUE
        /\ early_suspend_lock' = TRUE
        /\ pc' = "suspend"
        /\ pos' = 1
        /\ UNCHANGED vars
     \/ /\ state # {SUSPEND_REQUESTED}
        /\ GoTo("early_suspend", "idle")
        /\ UNCHANGED <<wl, expire_timer, watchdog_timer, softirq, events, wq, fresh,
                       suspended, early_suspend_lock, pc, pos>>
  /\ UNCHANGED <<early_suspend_handlers, registering, off>>

\* early_suspend, from its start to the loop over the handlers or to abort.
EarlySuspendStart ==
  /\ worker = "early_suspend" /\ pc = "start" /\ ~early_suspend_lock
  /\ \/ /\ state = {SUSPEND_REQUESTED}
        /\ suspended' = TRUE
        /\ early_suspend_lock' = TRUE
        /\ pc' = "suspend"
        /\ pos' = 1
     \/ /\ state # {SUSPEND_REQUESTED}
        /\ pc' = "end"
        /\ UNCHANGED <<suspended, early_suspend_lock, pos>>
  /\ UNCHANGED <<vars, early_suspend_handlers, registering, off>>

\* pos->suspend(pos), in list order, unless it is NULL.
EarlySuspendHandler ==
  /\ pc = "suspend" /\ pos <= Len(early_suspend_handlers)
  /\ off' = off \cup ({early_suspend_handlers[pos]} \cap Suspends)
  /\ pos' = pos + 1
  /\ UNCHANGED <<vars, suspended, early_suspend_handlers, early_suspend_lock,
                 registering, pc>>

\* Mutant: early_suspend_lock is not released.
DoneKeepsMutex ==
  /\ pc = "suspend" /\ pos > Len(early_suspend_handlers)
  /\ pc' = "end"
  /\ pos' = 0
  /\ UNCHANGED <<vars, suspended, early_suspend_handlers, early_suspend_lock,
                 registering, off>>

EarlySuspendDone ==
  /\ pc = "suspend" /\ pos > Len(early_suspend_handlers)
  /\ early_suspend_lock' = FALSE
  /\ pc' = "end"
  /\ pos' = 0
  /\ UNCHANGED <<vars, suspended, early_suspend_handlers, registering, off>>

\* Mutant: the main lock is released whatever the state has become.
UnlockWhateverState ==
  /\ pc = "end"
  /\ pc' = "start"
  /\ GoTo("early_suspend", "idle")
  /\ wake_unlock(main_wake_lock)
  /\ UNCHANGED <<suspended, early_suspend_handlers, early_suspend_lock,
                 registering, pos, off>>

\* The label abort of early_suspend, which the loop falls into as well.
EarlySuspendEnd ==
  /\ pc = "end"
  /\ pc' = "start"
  /\ GoTo("early_suspend", "idle")
  /\ \/ state = SUSPEND_REQUESTED_AND_SUSPENDED /\ wake_unlock(main_wake_lock)
     \/ /\ state # SUSPEND_REQUESTED_AND_SUSPENDED
        /\ UNCHANGED <<wl, expire_timer, watchdog_timer, softirq, events, wq, fresh>>
  /\ UNCHANGED <<suspended, early_suspend_handlers, early_suspend_lock,
                 registering, pos, off>>

\* late_resume, from its start to the loop over the handlers.
LateResumeStart ==
  /\ worker = "late_resume" /\ pc = "start" /\ ~early_suspend_lock
  /\ state = {SUSPENDED}
  /\ suspended' = FALSE
  /\ early_suspend_lock' = TRUE
  /\ pc' = "resume"
  /\ pos' = Len(early_suspend_handlers)
  /\ UNCHANGED <<vars, early_suspend_handlers, registering, off>>

LateResumeAbort ==
  /\ pc = "start" /\ ~early_suspend_lock
  /\ state # {SUSPENDED}
  /\ LateResumeWork
  /\ UNCHANGED esVars

\* pos->resume(pos), in reverse list order, unless it is NULL.
LateResumeHandler ==
  /\ pc = "resume" /\ pos > 0
  /\ off' = off \ ({early_suspend_handlers[pos]} \cap Resumes)
  /\ pos' = pos - 1
  /\ UNCHANGED <<vars, suspended, early_suspend_handlers, early_suspend_lock,
                 registering, pc>>

LateResumeDone ==
  /\ pc = "resume" /\ pos = 0
  /\ LateResumeWork
  /\ early_suspend_lock' = FALSE
  /\ pc' = "start"
  /\ UNCHANGED <<suspended, early_suspend_handlers, registering, pos, off>>

-----------------------------------------------------------------------------
ESWork ==
  \/ EarlySuspendStart \/ EarlySuspendHandler \/ EarlySuspendDone \/ EarlySuspendEnd
  \/ LateResumeStart \/ LateResumeAbort \/ LateResumeHandler \/ LateResumeDone

ESNext ==
  \/ PowerStep /\ UNCHANGED esVars
  \/ ESWork
  \/ \E h \in Handlers : \/ register_early_suspend(h) \/ RegisterCall(h)
                        \/ unregister_early_suspend(h)
  \/ \E new_state \in {PM_SUSPEND_ON, PM_SUSPEND_MEM} :
       request_suspend_state(new_state) /\ UNCHANGED esVars

ESSpec == ESInit /\ [][ESNext]_allVars

\* The scheduler runs the work queue's thread and the softirqs, a registration
\* that has begun goes on, and jiffies advance.  The thread's fairness is strong:
\* a mutex queues its waiters, so drivers that register again and again do not
\* keep early_suspend_lock from it for ever.  Nothing else obliges drivers or user
\* space to do anything.
ESFairSpec ==
  /\ ESSpec
  /\ SF_allVars((WorkerStep /\ UNCHANGED esVars) \/ ESWork)
  /\ \A h \in Handlers : WF_allVars(RegisterCall(h))
  /\ WF_allVars(Tick /\ UNCHANGED esVars)
  /\ WF_allVars(DequeueExpireTimer /\ UNCHANGED esVars)
  /\ WF_allVars(expire_wake_locks /\ UNCHANGED esVars)
  /\ WF_allVars(watchdog_func /\ UNCHANGED esVars)

-----------------------------------------------------------------------------
(***************************************************************************)
(* Properties.                                                             *)
(***************************************************************************)
\* Every variable has its type; the mutex is held exactly while handlers are
\* called, by the work whose handlers they are or by one registration.
ESTypeOK ==
  /\ TypeOK
  /\ suspended \in BOOLEAN
  /\ early_suspend_lock <=> pc \in {"suspend", "resume"} \/ registering # {}
  /\ registering # {} => pc \in {"start", "end"} /\ \E h \in Registered : registering = {h}
  /\ pc \in {"suspend", "end"} => worker = "early_suspend"
  /\ pc = "resume" => worker = "late_resume"
  /\ early_suspend_handlers \in Seq(Handlers)
  /\ early_suspend_lock \in BOOLEAN
  /\ pc \in {"start", "suspend", "resume", "end"}
  /\ pos \in 0 .. Len(early_suspend_handlers) + 1
  /\ off \subseteq Handlers

\* The main lock is released only while the suspended state is requested,
\* early_suspend has set SUSPENDED and every registered handler has been
\* called, however requests and works overlapped, except for a handler that is
\* just being registered.
MainLockFollowsState ==
  main_wake_lock \notin wl.active =>
    /\ state = SUSPEND_REQUESTED_AND_SUSPENDED
    /\ (Registered \cap Suspends) \ registering \subseteq off

\* Whenever early_suspend_lock is free, the last call of every registered
\* handler was the one that SUSPENDED asks for: an aborted work, or a
\* registration at any time, leaves none of the devices behind.
HandlersFollowState ==
  ~early_suspend_lock =>
    \A h \in Registered :
      IF SUSPENDED \in state THEN h \in Suspends => h \in off
                            ELSE h \in Resumes => h \notin off

\* earlysuspend.h: suspend handlers are called in low to high level order,
\* resume handlers in the opposite order, but the direct call from
\* register_early_suspend "can violate the normal level order".  So of the devices
\* that are turned off and on, none is off while one of a lower level is on,
\* unless that one is just being registered: once its direct call is over it
\* takes part in the order, whichever work comes next.
LevelOrder ==
  \A g, h \in Registered \cap Suspends \cap Resumes :
    Level[g] < Level[h] /\ h \in off => g \in off \/ g \in registering

\* When user space settles on the screen being on, the handlers have resumed
\* in the end and the main lock is held; when it settles on sleep, they have
\* been suspended and the main lock is released.
OnIsReached ==
  <>[]~suspend_requested
    => <>[](state = {} /\ main_wake_lock \in wl.active)

SleepIsReached ==
  <>[]suspend_requested
    => <>[](main_wake_lock \notin wl.active)
=============================================================================
