# The Android and platform layer of the Dell Streak 5 kernel: a TLA+ model

The repository is the Linux 2.6.35 kernel of the Dell Streak 5 (Qualcomm
QSD8x50, Android 2.3). Most of it is upstream Linux. What is this system's own
is the Android layer and the Qualcomm/Dell platform code, and the part of it on
which everything else depends is the machinery that decides when the phone may
sleep: wake locks, early suspend and the suspend path they control. That is the
core modelled here. Beside it are modelled the two mechanisms everything on the
phone communicates through, the shared memory channels to the modem and the
references of binder, and the logger. The reference configuration is
`arch/arm/configs/austin-perf_defconfig`: one processor, `PREEMPT`, `HZ=100`,
`WAKELOCK`, `WAKELOCK_STAT`, `WAKELOCK_WATCHDOG`, `USER_WAKELOCK`,
`EARLYSUSPEND`, `CONSOLE_EARLYSUSPEND`, `SPEEDUP_RESUME_NOTDOSYNC` (no
`sys_sync`), and "mem" as the only sleep state.

## 1. Inventory

| part | state | operations | talks to |
|---|---|---|---|
| wake locks, `kernel/power/wakelock.c` | flags, expiry and list of each lock; expire timer, watchdog timer; `current_event_num`; `suspend_work` | `wake_lock_init/destroy`, `wake_lock`, `wake_lock_timeout`, `wake_unlock`, `has_wake_lock`, timer functions, `suspend()`, `power_suspend_late` | called by every driver; queues work on `suspend_work_queue`; calls `pm_suspend` |
| early suspend, `kernel/power/earlysuspend.c` | `state` bits, `requested_suspend_state`, handler list, `early_suspend_lock` | `register/unregister_early_suspend`, `early_suspend`, `late_resume`, `request_suspend_state` | takes and releases `main_wake_lock`; handlers are callbacks into drivers |
| suspend core, `suspend.c`; freezer, `process.c` | `pm_mutex`, frozen tasks | `pm_suspend`, `enter_state`, `suspend_enter`, `try_to_freeze_tasks` | device callbacks, `power_suspend_late`, platform `enter` |
| user wake locks, `userwakelock.c`; `/sys/power`, `main.c` | tree of named locks | `wake_lock_store`, `wake_unlock_store`, `state_store` | user space |
| work queue, `kernel/workqueue.c`; timers, `kernel/timer.c` | pending works, pending timers | `queue_work`, `run_workqueue`, `__run_timers` | one thread, softirq context |
| platform entry, `arch/arm/mach-msm/pm2.c` | idle modes | idle loop, `msm_pm_enter` | asks `has_wake_lock(WAKE_LOCK_IDLE)` |
| logger, `drivers/staging/android/logger.c` | ring buffer, `w_off`, `head`, list of readers with their offsets, wait queue | write, read, poll, open, release, flush | user space; many writers and readers of one log |
| shared memory channels, `arch/arm/mach-msm/smd.c`; packet devices, `smd_pkt.c` | ring, indices, flags and states in memory shared with the other processor; `current_packet`, wait queues, `rx_lock`, `tx_lock` | read, write, interrupt handler, `smd_sleep_exit`, close, open | the modem or a DSP, which follows the same protocol, through shared memory and interrupts; user space |
| binder, `drivers/staging/android/binder.c` | nodes, refs and their counts; work items on lists of threads and processes; transaction buffers | transactions, the reference commands `BC_*` and `BR_*`, freeing of buffers, release of a process | processes, through libbinder |
| low memory killer, timed outputs, ram console (`drivers/staging/android`) | timers, ring buffers | device files | user space |
| RPC router, proc_comm (`arch/arm/mach-msm`) | endpoints, mailbox | calls | the modem; wake locks |
| ashmem, pmem | range lists, buddy allocator | ioctl, mmap | user space |

What is hard here: locks are taken from interrupts, timers, threads and user
space while one work queue thread runs `suspend()`, `early_suspend` and
`late_resume`; each looks at shared state, lets go of it and acts later. Timers
are rearmed while their function is about to run. Any step of a suspend attempt
may fail. User space may change its mind in the middle of a transition. The
properties that make these parts correct: a timer that never lets a lock run
out unnoticed, an attempt to suspend that is never lost, a sleep that never
starts over a lock the check could have seen, and handlers, main lock and the
requested state that agree whenever nothing is in progress. In the logger,
writers overwrite what readers have not read yet: everybody must stay on the
boundaries of whole entries, whoever wraps, fails, flushes or closes. The two
processors of a shared memory channel share no lock: every access is a step of
its own, an interrupt may be lost while its receiver sleeps, and either end may
close in the middle of a packet; yet packets must arrive whole and in order and
nobody may sleep through one. In binder one object is counted by processes
that do not know of each other, and the owner of the object hears of it late
and from several threads at once: it must neither destroy the object too early
nor keep it for ever. `PROJECT.json`
lists every component, modelled or not, and every hazard at its line.

## 2. Modules

```
WakeLockState    operators on flags and remaining times       wakelock.c
  WakeLockList   the same with the lists in their order       wakelock.c
  WakeLock       lock operations, timers, work queue          wakelock.c, workqueue.c
    SuspendWork  the whole system, screen side abstract       wakelock.c, suspend.c,
                                                              process.c, userwakelock.c
      EarlySuspend  handlers and works step by step           earlysuspend.c
UserWakeLock     tree of names, timeout conversion            userwakelock.c
Logger           one log with its writers and readers         logger.c
PacketQueue      abstract: a queue of whole packets
  SmdPkt         both ends of a packet channel, implements it  smd.c, smd_pkt.c
BinderNode       one object, its owner and its clients        binder.c
```

`MCWakeLockList`, `MCSuspendWork` and `MCEarlySuspend` give types and levels
for TLC, `MCLogger` a symmetry, `MCUserWakeLock` the names
and `MCSmdPkt` the lengths. The proofs about a module `M` are in `MProofs`,
except that those about `SuspendWork` and `EarlySuspend` are together in
`SuspendProofs`; `Recursion` holds what they need about natural numbers and
recursive functions.

**WakeLockState.** A flag bit is the set of locks that have it. Of
`lock->expires` the code only uses the difference to `jiffies`; the model keeps
that difference (`left`), floored at 0, which stands for every expired value.
The statistics of `/proc/wakelocks` are left out, except the flag
`WAKE_LOCK_PREVENTING_SUSPEND`, which decides whom the time is charged to. The
wrap of `jiffies` is left out.

**WakeLockList.** The scan of the code returns at the first lock without
timeout and depends on list order. This module has the lists as sequences and
shows that the scan computes what `WakeLockState` says without order.

**WakeLock.** Each of the operations is one critical section of `list_lock`
with interrupts off, hence one atomic step. `events` is
`current_event_num # entry_event_num`, the only thing the counter is compared
for (its wrap after 2^32 events inside one attempt is ignored). `fresh` is a
history variable: the locks taken since `power_suspend_late` last looked.
`expire_timer` is declared with `DEFINE_TIMER`, so it has no slack and
`mod_timer` does not round.

**SuspendWork.** `worker` is the place of the `suspend_work_queue` thread:
`suspend` (about to check) → `checked` → `entered` → `freeze` → `frozen` →
`suspended` → `late` (past `power_suspend_late`) → `asleep` → `exit` →
`no_event`, or `early_suspend` / `late_resume`. Every failure path goes to
`exit`, from where `suspend()` continues. Timers are dequeued and run in two
steps, so any context gets in between (on this uniprocessor only interrupts
can; the model allows more). Drivers act whenever the processor runs, on their
own locks; user space acts unless frozen. At boot `requested_suspend_state` is
`PM_SUSPEND_MEM` while the bit `SUSPEND_REQUESTED` is clear, and the model
keeps both. A driver may destroy a lock with a running timeout, as
`evdev_release` does; `AbandonedLocks` are those destroyed while held without
one, as the RPC router does. The freezer's two passes are one place: user space
may act until both are over, which is more than the code allows. The watchdogs
that only print stacks (`suspend_watchdog_timer`, `earlysuspend_wd`) and
`print_active_locks` are left out.

**EarlySuspend.** Adds the SUSPENDED bit, the handler list, the mutex and the
two works, handler by handler. A handler is the device it turns off and on; a
driver's probe leaves the device on before it registers. A registration is two
steps, because the new handler is on the list before it is called and the call
may sleep: `register_early_suspend` takes the mutex and links the handler,
`RegisterCall` calls it if SUSPENDED is set and drops the mutex, and `registering`
is the handler in between. Either callback may be NULL (`Suspends`, `Resumes`). It
implements
`SuspendWork`, where the two works are single steps; variables of the same name
are mapped to themselves.

**UserWakeLock.** What `SuspendWork` takes for granted: one lock per name and
timeouts in jiffies. A name is a short sequence of characters because the search
compares prefixes. The red-black tree is the sequence of its nodes from left to
right, and a search may meet them in any order a tree of some shape allows, which
covers every balanced one. The widths of `u64` and `long` and the jiffy are
constants, as TLC's numbers are too small for the real ones; what matters is
that a `u64` of jiffies exceeds a `long`.

**Logger.** A step ends wherever another context can get in and see a
difference: before the mutex (`orig` is read there), at each reader of the walk
(`logger_release` does not take the mutex), after the header and each segment
(`orig` of another writer is read without the mutex), and before the wake-up.
Sections of the mutex with no such place are one step. The header is two cells
that hold the length in two digits, so that it may wrap; pid, tid and time are
left out. `starts` is a history variable, the places where an entry begins that
nobody has written over. A reader may be closed at any moment, also while a walk
of the list is at it; the walk then faults on the poisoned link of the freed
reader and the writer never drops the mutex (`freed`). What happens when the
memory is in use again by then is not modelled. Because of this end the runs of
the logger do not check for deadlock. `FaultyWriters` may fault after
any part of the payload.

**PacketQueue and SmdPkt.** `PacketQueue` is what a user of a packet device
relies on: packets are accepted, delivered whole, in order and once, or thrown
away whole, but only by a reader whose buffer is too small; the packet being
written may be given up after a close. `SmdPkt` is one direction of a channel with
both its ends. The choice of a segment from a read of the other end's index, the
move of the own index, the flag, the interrupt and each segment of a copy are
separate steps, because the other processor runs in between; that holds for the
header, too, which `update_packet_state` reads in two segments where it wraps
(`hdr`). `smd_lock` only separates the handler and the threads of one end. The
remote end is assumed to follow the protocol of this kernel, of which it runs the
mirror image. A cell of the ring records which packet it belongs to and where,
and a header cell the length, so that lost, repeated and mixed-up bytes show. The
device keeps no count of its open files, so its release (`release`), in the four
steps of `smd_pkt_release`, may come at any step of a call made through another
file: `has_reset` wakes the sleepers, the channel is closed, the device forgets
it, and `has_reset` is cleared again. A call that was woken and looks only after
that, or that gets past its look before, dereferences a channel pointer of zero;
its thread ends there, with its mutex held ("oops"). `smd_sleep_exit` follows a power collapse
(`Sleep`), during which an interrupt wakes the processor but is lost. The
refinement (`PQ`, an `INSTANCE` of `PacketQueue`) maps `queue` to the packets cut
out of the cells on their way: read but not yet accounted for, in the ring, and
still to be written by a write that has begun. Left out: opening and reopening,
the notifier that sets `has_reset` when the modem restarts, signals, a change of
`blocking_write` under way, stream channels, packets of length zero
(`smd_packet_write` writes none), and the fixed 20 bytes of a header
(`HeaderSize`).

**BinderNode.** One object of one process, the owner, with its node, the refs of
the clients and the transaction buffers that count on either. `binder_lock`
makes every command one step; a read, which returns several commands to one
thread, is a sequence of steps during which the thread holds the lock, and the
commands read are executed later, thread by thread, so that those of two
threads may be executed in either order. A transaction carries one object or
handle (strong or weak) and may be sent to the object itself; it may fail after
the translation, and is then taken back, or in the translation, when there is no
memory for the ref and the error path leaves a node it has just made behind. The
sender of a failed transaction reads the error and nothing else, and need not
come back. The user side is what libbinder does:
a client counts only on handles it was given, a thread that sends the object
keeps its reference until it has read BR_TRANSACTION_COMPLETE and executed what
came before it. The release of the owner and of clients may come at any time.
`stolen` is a history variable, explained under the runs. Left out: routing of
transactions to threads (and the `return_error` a thread gets when its caller or
its callee fails), death notifications, the buffer allocator, file descriptors,
the context manager's node, and threads that exit on their own.

## 3. Runs

| run | bounds | checks |
|---|---|---|
| `suspend_locks` | one driver lock, one user lock, timeouts 0–2 | `TypeOK`, `TimerCoversLocks`, `NoLostSuspend`, `PreventingIsExact`, `SleepOnlyWhenRequested`, `SleepRespectsLocks` |
| `wake_lock_list` | three suspend locks beside the main lock, one idle one, timeouts 0–2 | `ListsMatchFlags`, `ScanAgrees` |
| `early_suspend` | two handlers of two levels, the built-in locks, fair | `ESTypeOK`, `MainLockFollowsState`, `HandlersFollowState`, `LevelOrder`; `Spec`, the specification of SuspendWork; `SuspendRetried`, `OnIsReached`, `SleepIsReached` |
| `user_wake_locks` | five names; 6-bit `u64`, 4-bit `long`, 3 ns to the jiffy, timeouts up to the last that fits | `LookupExact`, `HeldAsAsked` |
| `logger_ring` | 8 cells, entries of 3 and 4, one writer that may fault, two readers | `TypeOK`, `Framing`, `NewEntryAhead` |
| `logger_wake` | 8 cells, entries of 3, two writers, one reader, fair | `Framing`, `ReaderWoken` |
| `smd_pkt` | 8 cells, headers of 2, a packet of 1 cell and one of 5, one thread at each end, one release or power collapse at either end, fair | `TypeOK`, `BugOnsHold`, `IsPacketQueue`, the specification of PacketQueue; `ReaderWoken`, `WriterWoken` |
| `binder_node` | two threads of the owner, one of them a looper, two clients, one transaction in flight, fair | `TypeOK`, `RefsCounted`, `WorkPending`, `ObjectAlive`, `DriverRefsExact`, `Reclaimed` |
| `suspend_abandoned` | one abandoned lock | violated: `NoLostSuspend` |
| `logger_rollback` | two writers, one of which may fault, one reader | violated: `Framing` |
| `logger_release` | one writer, two readers | violated: `ReadersProtected` |
| `smd_pkt_readers` | two readers, two packets | violated: `WholePacketWaiting` |

Why the bounds are enough to be interesting: with timeouts of up to two jiffies
two locks can have different expiries, be extended and shortened past one
another and expire in either order; the built-in `unknown_wakeup` and
`watchdog` locks always take part, so up to five locks are active at once. Two
handlers of different levels register in either order, before, during and after
the works; both have both callbacks, and the theorems cover those that have not.
A log of 8 cells holds two entries; with lengths 3 and 4 every offset is reached, headers and payloads wrap
at every place, and writers lap readers constantly. The real sizes keep the
relation the code needs, a log at least twice as long as the longest entry. Nothing in these models
counts, so longer runs repeat these states. The channel starts with its indices
at the end of the ring, so that the first header wraps between its two segments;
two packets are enough for the second one to arrive while the first is being
read. The first has one cell, the second five, which with the header is all the
ring holds (`LensOf` fixes the length of each, a bound), so that its writer blocks
until everything before it has been read, and its payload wraps. In `BinderNode`
counts are bounded by what refers to the node: with two clients and a transaction on its way every count takes the values 0, 1 and
more. With two transactions in flight the invariants hold as well; that
instance is too large to check the liveness property in a few minutes, so the
run has one.

**Fairness.** The work queue thread, timer interrupts (`Tick`), the softirqs
that run due timers and a registration that has begun are weakly fair: the
scheduler and the interrupt controller guarantee that. The work queue thread is
strongly fair in `early_suspend`, where it takes `early_suspend_lock`: a mutex
queues its waiters, so drivers that register again and again cannot keep it
waiting for ever. Nothing is assumed of drivers, of user space, of the
device that wakes the phone, or of the freezer taking another look at the
locks. `SuspendRetried` therefore speaks of attempts, not of success: a driver
that refuses every time keeps the phone awake. In the logger a system call that
has begun goes on, which the scheduler guarantees; no call need ever be made. On a
channel, threads that have been woken run, interrupts are taken and a sleeping
processor wakes up at some time; nobody is obliged to read, write or release, and
`WriterWoken` therefore assumes that readers keep reading. It is about one writing
thread, see below. In binder, `Loopers` come back to read for ever; another thread
of the owner reads until it has seen the completion of what it sent, finishes the
read it is in and executes what it has read, and owes nothing after that, or after
a send that failed (`Obliged`). This fairness is strong because `binder_lock` is a
mutex that queues its waiters, so none waits for ever; clients owe nothing.

**Violations.** `suspend_abandoned`: `msm_rpcrouter_destroy_local_endpoint` destroys wake locks
that unread packets keep held; `wake_lock_destroy` neither rearms the timer nor
queues the suspend work, so when that was the last lock nothing tries to
suspend until another lock is taken and released. In the logger,
a failed write goes back to a write offset remembered before the mutex was
taken, and with it over the entries of other writers (`logger_rollback`); and
`logger_release` unlinks and frees a reader without the mutex that, its comment
says, protects it, also while a writer's walk of the list is at that reader
(`logger_release`). `logger_ring` and `logger_wake` show that, these aside,
the log stays whole: a failed write is harmless with one writer, and so are two
writers without faults. `smd_pkt_readers`: `smd_pkt_read` waits for a whole packet and
then takes `rx_lock`; the test that is to notice that another reader was faster
compares the wrong way round, so the second reader starts on a packet of which
only the beginning has arrived, against the comment "Here we have a whole packet
waiting for us", and the packet is lost. With one reader, `smd_pkt` shows,
nothing is.

Other things the models show are no findings. `wakelock.h:22-24` says that an
active wake lock prevents the system from entering suspend. A lock taken after
`power_suspend_late` has looked and before interrupts are off is slept over all
the same: the lock comes too late for the attempt under way, as some lock must
wherever the last look is, and `fresh` marks it. `SleepRespectsLocks` shows, and a
theorem proves, that this window is the only one.

In the other places no line of the repository says what should hold. A binder
transaction that fails after `binder_inc_node` has moved the node's work item from
another sender's list to its own does not move it back: the other sender sees its
own transaction complete before the owner was asked for a reference, and may then
destroy an object a client refers to. `ObjectAlive` excepts this case (`stolen`) and
shows that it is the only one. A binder transaction that makes a node and then
finds no memory for the ref leaves the node behind, without ref and work item,
until the object is sent again or its owner exits; and a failed send leaves the
node's item with its sender, which need not read again. `Reclaimed` excepts these
two (`Unreferenced`, the last disjunct) and shows that there is no other leak. A
packet device released through one file takes the channel from calls made through
another, which may dereference a null pointer and keep a mutex for ever; the
packets, `IsPacketQueue` shows, stay whole all the same. And with two blocked
writers on a channel, the one that wants less space turns the announcement of
reads off while the other one still waits: `WriterWoken` is said of one writer.

Two more things the models show that no property is stated of. The conversion
of a user timeout tests for zero before it cuts the number to a `long`
(`Jiffies`, `ToLong`), so timeouts of 2^31 jiffies, 248 days, and more become
none or have run out. And `FixUp` counts the length of the new entry from the
reader's own offset, so that a lapped reader may skip entries the write does not
touch, although the comment of `fix_up_readers` promises the first entry after
the new write head.

## 4. Proofs

All for every set of locks, every assignment of types, every bound on timeouts,
every set of handlers and every assignment of levels; for every ring, header,
set of lengths and set of threads; for every set of names, length of a jiffy
and width of the integers; for every size of log and of entry and every set of
its writers and readers; and for any number of threads, clients and transaction
buffers. They rest on the named assumptions of the modules
(`LocksAssumption`, `TimeAssumption`, `OwnersAssumption`, `LevelAssumption`,
`FifoAssumption`, `LensAssumption`, `BinderAssumption`, `UserAssumption`, `WidthAssumption`,
`LoggerAssumption`), which say what the constants are. `WidthAssumption` contains
two facts of arithmetic that the provers do not know, that powers of two are natural numbers and double
with the exponent, and one about the code: a `long` of jiffies, in nanoseconds,
fits in a `u64`.

Wake locks and suspend:

* `TypeCorrect` proves `TypeOK`, which contains `FlagsAgree` and is inductive.
  The lemmas of `WakeLockStateProofs` show that each operator on the lock state
  preserves `FlagsAgree`, so an action's step is one citation.
* `TimerCovers` and `SuspendNeverLost`, under `AbandonedLocks = {}`, with any locks
  of type WAKE_LOCK_IDLE among the others, which the runs of `SuspendWork` have not.
  `TimerCoversLocks` alone is not inductive: a release decides what the timer
  becomes by the scan of the locks that are left, so the argument needs what the
  scan returns (`ScanCover`, `ScanClear`) and that a scan or a destruction only
  shrinks the set of locks (`Shrinks`). With it, `NoLostSuspend` follows step by
  step: whatever ends one of "timer pending", "timer function about to run" and
  "attempt under way" either starts another of them or leaves a lock without
  timeout held. The assumption is needed: `suspend_abandoned` is the
  counterexample without it.
* `SleepsOnRequest` and `SleepsOverNoOlderLock` come from one inductive
  invariant, `SleepInv`: `MainLockWhileOn` (the main lock has no timeout and is
  held while sleep is not requested) is what turns "the last check saw no lock"
  into "sleep is requested", and past the check user space is frozen.
* `ChargesExact` proves `PreventingIsExact`. The flag is only brought up to date
  by `update_sleep_wait_stats_locked`, so what each operator does to a lock that
  is not its own is what matters (the `Exact` lemmas of `WakeLockStateProofs`).
* `ListsFollowFlags` and `ScanCorrect` are about the lists in their order. The
  invariant is `ListInv`: beside `ListsMatchFlags` it says that on each list the
  locks without a timeout come first (`TimeoutsLast`): if there is one, the scan
  meets it before it has expired any lock, and else it visits the whole list.
* `EarlySuspendImplements` shows `ESSpec => Spec` step by step: the handler
  steps stutter, and the end of `early_suspend` maps to the abstract work,
  because the state it tests contains SUSPEND_REQUESTED. With it
  `ESSleepsOnRequest` transfers a theorem to the system with handlers.
* `ESTypeCorrect`, `HandlersAgree`, `MainLockAgrees` and `LevelsRespected` are
  the four invariants of early suspend. None is inductive alone: in the middle
  of a work the devices that are off are those of the part of the list before
  the work's position, the list is sorted by level and has nobody twice, and a
  registration inserts at the right place and, before it drops the mutex, brings
  the device into the state of the others. That is the common invariant. The
  handler being registered is excepted (`registering`): it is on the list and not
  yet called while the main lock may be released, and its direct call is out of
  level order, as `earlysuspend.h:31` says. Once the mutex is free there is no
  exception.

User wake locks:

* `LookupCorrect` proves `LookupExact`. The invariant is that the tree is sorted
  by a strict order, lexicographic on strings that end with a zero
  (`Before`), and that `Compare` decides that order (`CompareDecides`), prefixes
  included. Whichever node of a part of the tree a search meets next, the name
  it looks for lies in the part it goes on with (`NextEncloses`), so it ends where
  the name is or belongs, and an insertion there keeps the tree sorted.
* `TimeoutsHold` proves `HeldAsAsked`: rounding up does not overflow the `u64`
  and the result fits in the `long`; the lock is then held for that many jiffies
  less the part of the current one that has elapsed, which is less than what was
  asked for by less than a jiffy, and more by at most one. The proof needs a `long` of at least two bits;
  in one bit a timeout of one jiffy would be negative.

Logger:

* `LoggerTypes` proves `TypeOK`: whatever is taken for a length in the buffer, the
  offsets stay inside it. Its invariant, `Basic`, adds who holds the mutex, where
  the cursor of `fix_up_readers` is, and that a reader is on the list once, and
  only while it is open.
* `EntriesAreFramed` proves `Framing`, and `EntryIsAhead` the action property
  `NewEntryAhead`. The invariant, `LogInv`, follows a write through its three
  phases. Between two writes (`Whole0`) there is a set of places at which entries
  start, one right after the other up to the write offset, and the head and every
  reader are at one of them or at the write offset. While `fix_up_readers` walks
  the list (`FixedUp`) the positions it has visited are clear of the entry to
  come, readers that open or close behind the cursor included. While the entry is
  copied (`Half`) its length can already be read, and every position is clear of
  it. `get_next_entry` follows the chain of lengths, so where it stops is proved
  along the chain. A walk whose reader is freed under it goes no further, and the
  log stays as it is. Both theorems assume `NoRollback`: a writer whose copy from
  user space fails is the only writer. `logger_rollback` is the counterexample
  without it, because rolling back one write wipes out those of others.

Shared memory channels:

* `SmdTypes` and `SmdBugOns` come from one inductive invariant, `IInv` of
  `SmdPktProofs`: `TypeOK`, the exclusion of the locks (`Locks`: who is inside a write
  or a read holds `tx_lock` or `rx_lock`), what
  the write and the read in progress have chosen (`TxInv`, `RxInv`), the header being
  read (`HdrInv`) and `BugOnsHold`, which has the assertion of `update_packet_state`
  that the header was read whole, too. `BugOnsHold` alone is not inductive: the
  reading end may move its index while a segment is being copied, by the handler
  that takes a header or by the reader. A header is only taken while
  `current_packet` is 0 and stays so until all of it is read (`HdrInv`), when no
  reader is inside a segment, which is what `RxInv` records; and what either end
  does only makes more room for the other. The lemmas about the ring say what
  moving an index does to the two amounts.
* `SmdIsPacketQueue` shows that a channel implements `PacketQueue`, for any number
  of writers: `Spec => IsPacketQueue`. The mapping cuts the packets out of the cells
  underway, in the reader's hands, in a header being read, in the ring and in the
  writer's, so the invariant, `QInv`, has to say where the packets are without
  cutting: there is a set of places of headers such that with a header's place the place after its
  packet is in it too (`Frames`); and while no writer has given up in the middle of
  a packet (`Intact`) the packets at these places are all complete (`Complete`) and
  none starts in what is still to be written (`OneLeft`). `QueueStep` lists what
  each action does to the queue: it adds a packet at the end, takes the first,
  loses the last one when the channel has closed under its writer, or leaves the
  queue alone. The theorem assumes `OneReader`: a second reader may start on a packet
  that has not arrived (`smd_pkt_readers`).
* `WholePacketFound` proves, under `OneReader`, what the comment in `smd_pkt_read`
  says, `WholePacketWaiting`; `smd_pkt_readers` is the counterexample without it.

Binder:

* `BinderTypeCorrect`, `RefsAreCounted`, `OwnerWillBeTold`, `DriverRefsAreExact` and
  `ObjectStaysAlive` are the five invariants of `BinderNode`, from one inductive
  invariant, `BInv`. Its first part, `Core`, is about the driver. `RefsCounted` is
  not inductive, because a count may only be given back if it was taken, so `Core`
  has the whole balance: the strong count of a ref is the number of buffers with a
  strong handle to it and the reference of its client (`RefBalance`), and the
  local counts of the node are the buffers sent to the object or carrying it and
  the commands that wait for an answer (`LocalBalance`). With it go the
  structure of what is freed or dead and `Pending`, which is `WorkPending`. The second
  part, `User`, is about the owner: no thread has the same command twice, each
  question has exactly one command outstanding (`Answered`), a thread in the middle
  of a read has been told to release only if nothing has changed since
  (`Reported`), and until the driver's strong reference is taken the item is on the
  list of a thread that waits for BR_TRANSACTION_COMPLETE, or the command with a
  thread that has a reference of its own (`Guarded`). The counting functions are
  proved first, on a triple of node, list and refs (what each gives back and takes,
  and that it never makes the object need a reference nobody will ask for,
  `Settles`); then there is a lemma for each action.

Recursive definitions. The library's induction theorems are out of the provers'
reach, but an induction over numbers is a minimal counterexample away:
`Recursion` proves that sets of natural numbers have least elements, an induction
principle for sets, and that functions defined by recursion, along the numbers
or along any measure that decreases, exist (`RecursionExists`,
`FixpointExists`). With these `list_del`, the search of the tree, the walk of
`get_next_entry` and the cutting of packets (`PacketsFrom`) are proved to compute what
they should.

Model-checked only: the liveness properties (`ReaderWoken` of both
modules, `WriterWoken`, `SuspendRetried`, `OnIsReached`, `SleepIsReached`, `Reclaimed`),
which are out of the prover's reach. Every invariant and action property of the
passing runs, and both refinements, have a theorem; where one has a hypothesis
(`AbandonedLocks = {}`, `NoRollback`, `OneReader`) a run that expects a violation
shows why it is needed.

## 5. Plan

1. Done: wake locks, suspend path, early suspend, their composition, the
   refinement and the theorems above.
2. Done: user wake locks, with the tree of names and the timeout conversion; the
   logger.
3. Done: packet channels of the shared memory driver, their abstract
   specification and the refinement; reference counting of binder.
4. Opening and reopening of channels and the notifier of a modem restart; the RPC router
   with its wake locks on top of them; proc_comm; death notifications and the
   routing of transactions in binder; the handshake with the framebuffer's user
   space (`fbearlysuspend.c`).
5. Algorithms against reference definitions: ashmem ranges, the pmem buddy
   allocator, the low memory killer's choice; timed outputs.
6. Done: the proofs of all invariants and action properties that the runs check,
   and of both refinements.

## 6. Not modelled

Upstream Linux outside the suspend path; `fbearlysuspend.c` (not built in this
configuration); the statistics and their clock; logging and debug masks; which
device or platform callback fails and why (any of them may); `jiffies` wrap;
the parts listed as `not_modelled` in `PROJECT.json`, each with its reason.
