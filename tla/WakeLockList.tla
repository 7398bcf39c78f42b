---------------------------- MODULE WakeLockList ----------------------------
(***************************************************************************)
(* The lists of kernel/power/wakelock.c.  has_wake_lock_locked walks       *)
(* active_wake_locks[type] and returns at the first lock that has no       *)
(* timeout.  What it returns and which locks it expires therefore depends  *)
(* on the order of the list, which wake_lock_internal keeps by adding a    *)
(* lock without timeout at the head and one with a timeout at the tail.    *)
(*                                                                         *)
(* The other modules use the operators of WakeLockState, which know no     *)
(* order; ScanAgrees is what entitles them to.  The order of               *)
(* inactive_locks only shows in /proc/wakelocks and is left out.           *)
(***************************************************************************)
EXTENDS WakeLockState, Sequences

VARIABLES
  flags,              \* the flags and the remaining time of the locks
  active_wake_locks,  \* type -> the list of active locks of that type
  inactive_locks      \* the locks on the list of that name

listVars == <<flags, active_wake_locks, inactive_locks>>

Types == {WAKE_LOCK_SUSPEND, WAKE_LOCK_IDLE}

Members(list) == {list[i] : i \in DOMAIN list}

\* wakelocks_init.
ListInit ==
  /\ flags = [initialized |-> BuiltinLocks, active |-> {main_wake_lock},
              auto_expire |-> {}, preventing |-> {}, left |-> [l \in Locks |-> 0]]
  /\ active_wake_locks = [type \in Types |->
       IF type = WAKE_LOCK_SUSPEND THEN <<main_wake_lock>> ELSE <<>>]
  /\ inactive_locks = BuiltinLocks \ {main_wake_lock}

-----------------------------------------------------------------------------
\* The list without the locks of S.
list_del(list, S) ==
  LET kept[i \in 0 .. Len(list)] ==
        IF i = 0 THEN <<>>
        ELSE IF list[i] \in S THEN kept[i - 1] ELSE Append(kept[i - 1], list[i])
  IN  kept[Len(list)]

\* Mutant: a lock without timeout, too, goes to the tail.
AddAtTail(list, l, has_timeout) == Append(list, l)

\* list_add_tail for a lock with a timeout, list_add for one without.
AddToList(list, l, has_timeout) == IF has_timeout THEN Append(list, l) ELSE <<l>> \o list

\* The locks the scan of has_wake_lock_locked visits before it meets one that
\* has no timeout.
Visited(w, list) ==
  {list[i] : i \in {i \in DOMAIN list : \A j \in 1 .. i : list[j] \in w.auto_expire}}

Expired(w, list) == {l \in Visited(w, list) : get_expired_time(w, l)}

\* What the scan returns.
max_timeout(w, list) ==
  IF Visited(w, list) # Members(list) THEN -1
  ELSE CHOOSE t \in 0 .. MaxTimeout :
         /\ \A l \in Members(list) : w.left[l] <= t
         /\ t = 0 \/ \E l \in Members(list) : w.left[l] = t

\* The flags after the scan of has_wake_lock_locked.
ScanFlags(w, list) == Deactivate(w, Expired(w, list))

\* The scan of active_wake_locks[type], starting from flags w, list and
\* inactive: the expired locks move to inactive_locks.
MoveExpired(w, list, inactive, type) ==
  /\ active_wake_locks' = [active_wake_locks EXCEPT ![type] = list_del(list, Expired(w, list))]
  /\ inactive_locks' = inactive \cup Expired(w, list)

-----------------------------------------------------------------------------
InitLock(l) ==
  /\ l \notin flags.initialized
  /\ flags' = wake_lock_init(flags, l)
  /\ inactive_locks' = inactive_locks \cup {l}
  /\ UNCHANGED active_wake_locks

\* Mutant: the link of an active lock stays on its list.
DestroyKeepsLink(l) ==
  /\ l \in flags.initialized
  /\ flags' = wake_lock_destroy(flags, l)
  /\ inactive_locks' = inactive_locks \ {l}
  /\ UNCHANGED active_wake_locks

DestroyLock(l) ==
  /\ l \in flags.initialized
  /\ flags' = wake_lock_destroy(flags, l)
  /\ active_wake_locks' = [active_wake_locks EXCEPT ![LockType[l]] = list_del(@, {l})]
  /\ inactive_locks' = inactive_locks \ {l}

\* wake_lock_internal: only a suspend lock with a timeout scans the list.
Lock(l, has_timeout, timeout) ==
  LET type == LockType[l]
      taken == TakeLock(flags, l, has_timeout, timeout)
      list == AddToList(list_del(active_wake_locks[type], {l}), l, has_timeout)
  IN  /\ l \in flags.initialized
      /\ \/ /\ type = WAKE_LOCK_SUSPEND /\ has_timeout
            /\ flags' = ScanFlags(AccountLock(taken, l), list)
            /\ MoveExpired(AccountLock(taken, l), list, inactive_locks \ {l}, type)
         \/ /\ ~(type = WAKE_LOCK_SUSPEND /\ has_timeout)
            /\ flags' = IF type = WAKE_LOCK_SUSPEND THEN AccountLock(taken, l) ELSE taken
            /\ active_wake_locks' = [active_wake_locks EXCEPT ![type] = list]
            /\ inactive_locks' = inactive_locks \ {l}

\* wake_unlock, also of a lock that is not active.
Unlock(l) ==
  LET type == LockType[l]
      freed == Deactivate(flags, {l})
      list == list_del(active_wake_locks[type], {l})
  IN  /\ l \in flags.initialized
      /\ \/ /\ type = WAKE_LOCK_SUSPEND
            /\ flags' = IF l = main_wake_lock
                        THEN update_sleep_wait_stats_locked(ScanFlags(freed, list), FALSE)
                        ELSE ScanFlags(freed, list)
            /\ MoveExpired(freed, list, inactive_locks \cup {l}, type)
         \/ /\ type # WAKE_LOCK_SUSPEND
            /\ flags' = freed
            /\ active_wake_locks' = [active_wake_locks EXCEPT ![type] = list]
            /\ inactive_locks' = inactive_locks \cup {l}

HasWakeLock(type) ==
  /\ flags' = ScanFlags(flags, active_wake_locks[type])
  /\ MoveExpired(flags, active_wake_locks[type], inactive_locks, type)

\* A jiffy passes.
Jiffy ==
  /\ \E l \in Locks : flags.left[l] > 0
  /\ flags' = [flags EXCEPT !.left = [l \in Locks |-> IF @[l] > 0 THEN @[l] - 1 ELSE 0]]
  /\ UNCHANGED <<active_wake_locks, inactive_locks>>

ListNext ==
  \/ \E l \in Locks \ BuiltinLocks : InitLock(l) \/ DestroyLock(l)
  \/ \E l \in Locks : Lock(l, FALSE, 0) \/ Unlock(l)
  \/ \E l \in Locks \ {main_wake_lock}, timeout \in 0 .. MaxTimeout : Lock(l, TRUE, timeout)
  \/ \E type \in Types : HasWakeLock(type)
  \/ Jiffy

ListSpec == ListInit /\ [][ListNext]_listVars

-----------------------------------------------------------------------------
\* Every lock is where its flags say: an active one is once on the list of its
\* type, an inactive one on inactive_locks, a destroyed one on none.
ListsMatchFlags ==
  /\ FlagsAgree(flags)
  /\ \A type \in Types :
       LET list == active_wake_locks[type]
       IN  /\ Members(list) = HeldOf(flags, type)
           /\ \A i, j \in DOMAIN list : list[i] = list[j] => i = j
  /\ inactive_locks = flags.initialized \ flags.active

\* However often locks are taken again with and without a timeout, the scan of
\* the list in order expires the locks and returns the value that
\* has_wake_lock is documented to: -1 if a lock without timeout is active,
\* else the time until all active ones run out.
ScanAgrees ==
  \A type \in Types :
    LET list == active_wake_locks[type]
    IN  /\ ScanFlags(flags, list) = has_wake_lock_locked(flags, type)
        /\ ScanReturns(max_timeout(flags, list), flags, type)
=============================================================================
