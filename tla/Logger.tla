------------------------------- MODULE Logger -------------------------------
(***************************************************************************)
(* One log of drivers/staging/android/logger.c: a ring buffer of entries,  *)
(* each a header with the length of its payload and the payload.  Writers  *)
(* overwrite the oldest entries and pull the readers they would lap        *)
(* forward; readers sleep until there is something to read.                *)
(*                                                                         *)
(* The steps are those between which another context gets in: the read of  *)
(* w_off before the mutex is taken, every reader fix_up_readers visits     *)
(* (logger_release takes no mutex), the header and every segment of the    *)
(* payload (w_off is read without the mutex), and the wake-up.             *)
(* The header is two cells, the low and the high digit of the length.      *)
(***************************************************************************)
EXTENDS Integers, Sequences

CONSTANTS
  Writers,        \* threads with the log open for writing
  FaultyWriters,  \* those whose payload may be at an address that faults
  Readers,        \* files open for reading, each used by one thread
  Size,           \* the size of the buffer
  Byte,           \* the number of values of a cell
  MaxPayload,     \* LOGGER_ENTRY_MAX_PAYLOAD
  Nil             \* nobody, no reader

HeaderLen == 2

\* Size is a power of two above the longest entry in the code, hence at least
\* twice as long as it.
ASSUME LoggerAssumption ==
  /\ FaultyWriters \subseteq Writers
  /\ Nil \notin Writers \cup Readers
  /\ MaxPayload \in Nat \ {0} /\ Byte \in Nat \ {0, 1} /\ MaxPayload < Byte * Byte
  /\ Size \in Nat /\ Size >= 2 * (HeaderLen + MaxPayload)

VARIABLES
  buffer,   \* the cells
  w_off,    \* current write offset
  head,     \* new readers start here
  readers,  \* the list of the open readers
  r_off,    \* reader -> its offset
  mutex,    \* the writer in a critical section of several steps, or Nil
  cursor,   \* the reader its walk of the list is at, or Nil
  freed,    \* the reader at the cursor was freed
  wpc,      \* writer -> where it is
  local,    \* writer -> orig, header.len and ret of logger_aio_write
  rpc,      \* reader -> where it is
  wq,       \* the readers on the wait queue
  starts    \* history: the offsets at which an entry begins of which no cell
            \* has been overwritten

log == <<buffer, w_off, head, starts>>
walk == <<mutex, cursor, freed>>
vars == <<buffer, w_off, head, starts, readers, r_off, mutex, cursor, freed,
          wpc, local, rpc, wq>>

Offsets == 0 .. Size - 1
Opened == {readers[i] : i \in DOMAIN readers}

\* A writer outside logger_aio_write.
NoLocals == [orig |-> 0, len |-> 0, ret |-> 0]

\* A log as DEFINE_LOGGER_DEVICE makes it, not open for reading yet.
Init ==
  /\ buffer = [i \in Offsets |-> 0]
  /\ w_off = 0 /\ head = 0 /\ starts = {}
  /\ readers = <<>> /\ r_off = [r \in Readers |-> 0]
  /\ mutex = Nil /\ cursor = Nil /\ freed = FALSE
  /\ wpc = [w \in Writers |-> "idle"]
  /\ local = [w \in Writers |-> NoLocals]
  /\ rpc = [r \in Readers |-> "closed"] /\ wq = {}

-----------------------------------------------------------------------------
\* Mutant: the mask is off by one.
OffsetOffByOne(n) == n % (Size + 1)

logger_offset(n) == n % Size

get_entry_len(off) == HeaderLen + buffer[off] + Byte * buffer[logger_offset(off + 1)]

\* The offset and the count of get_next_entry after k rounds of its loop; a
\* round adds at least one to count, so that len rounds are enough.
get_next_entry(off, len) ==
  LET round[k \in 0 .. len] ==
        IF k = 0 THEN <<off, 0>>
        ELSE LET p == round[k - 1]
             IN  IF k > 1 /\ p[2] >= len THEN p
                 ELSE LET nr == get_entry_len(p[1])
                      IN  <<logger_offset(p[1] + nr), p[2] + nr>>
  IN  round[len][1]

\* Mutant: a reader exactly at the new write offset is not lapped.
StrictInterval(a, b, c) == IF b < a THEN a < c \/ b > c ELSE a < c /\ b > c

clock_interval(a, b, c) == IF b < a THEN a < c \/ b >= c ELSE a < c /\ b >= c

\* Where fix_up_readers leaves a reader or the head that is at off.
FixUp(off, len) ==
  IF clock_interval(w_off, logger_offset(w_off + len), off)
  THEN get_next_entry(off, len) ELSE off

\* The buffer after data is copied to it from off on, across its end if need be.
Store(off, data) ==
  [i \in Offsets |-> LET k == logger_offset(i - off)
                     IN  IF k < Len(data) THEN data[k + 1] ELSE buffer[i]]

\* The entries that stay whole when n cells from off on are written.
Whole(off, n) ==
  {s \in starts : \A i \in 0 .. get_entry_len(s) - 1 : logger_offset(s + i - off) >= n}

\* Bytes of a payload; what they are does not matter, only that they can be
\* taken for a length.
Payload(n) == [i \in 1 .. n |-> Byte - 1]

-----------------------------------------------------------------------------
\* The reader on the list after position i, Nil at the end of the list.
ReaderAt(i) == IF i \in DOMAIN readers THEN readers[i] ELSE Nil

\* Where r is on the list.
Position(r) == CHOOSE i \in DOMAIN readers : readers[i] = r

NextReader(r) == ReaderAt(1 + Position(r))

\* The list without its element i.
list_del(list, i) == SubSeq(list, 1, i - 1) \o SubSeq(list, i + 1, Len(list))

\* logger_aio_write up to mutex_lock; a write of nothing returns at once.
WriteStart(w, len) ==
  /\ wpc[w] = "idle"
  /\ wpc' = [wpc EXCEPT ![w] = "write"]
  /\ local' = [local EXCEPT ![w] = [orig |-> w_off, len |-> len, ret |-> 0]]
  /\ UNCHANGED <<log, walk, readers, r_off, rpc, wq>>

\* mutex_lock and fix_up_readers up to its loop.
WriteLock(w) ==
  /\ wpc[w] = "write" /\ mutex = Nil
  /\ mutex' = w /\ cursor' = ReaderAt(1)
  /\ head' = FixUp(head, HeaderLen + local[w].len)
  /\ wpc' = [wpc EXCEPT ![w] = "fix_up"]
  /\ UNCHANGED <<buffer, w_off, starts, freed, readers, r_off, local, rpc, wq>>

\* One round of the loop of fix_up_readers, or of the one of LOGGER_FLUSH_LOG.
WalkReader(w) ==
  /\ mutex = w /\ cursor # Nil /\ ~freed
  /\ \/ /\ wpc[w] = "fix_up"
        /\ r_off' = [r_off EXCEPT ![cursor] = FixUp(@, HeaderLen + local[w].len)]
     \/ /\ wpc[w] = "flush"
        /\ r_off' = [r_off EXCEPT ![cursor] = w_off]
  /\ cursor' = NextReader(cursor)
  /\ UNCHANGED <<log, mutex, freed, readers, wpc, local, rpc, wq>>

\* do_write_log of the header.
WriteHeader(w) ==
  LET n == local[w].len
  IN  /\ wpc[w] = "fix_up" /\ cursor = Nil
      /\ buffer' = Store(w_off, <<n % Byte, n \div Byte>>)
      /\ w_off' = logger_offset(w_off + HeaderLen)
      /\ starts' = Whole(w_off, HeaderLen)
      /\ wpc' = [wpc EXCEPT ![w] = "payload"]
      /\ UNCHANGED <<head, walk, readers, r_off, local, rpc, wq>>

\* One segment of the payload; after the last one the mutex is released.
WriteSegment(w, n) ==
  LET ret == local[w].ret + n
  IN  /\ wpc[w] = "payload" /\ n \in 1 .. local[w].len - local[w].ret
      /\ buffer' = Store(w_off, Payload(n))
      /\ w_off' = logger_offset(w_off + n)
      /\ \/ /\ ret < local[w].len
            /\ local' = [local EXCEPT ![w].ret = ret]
            /\ starts' = Whole(w_off, n)
            /\ UNCHANGED <<mutex, wpc>>
         \/ /\ ret = local[w].len
            /\ local' = [local EXCEPT ![w] = NoLocals]
            /\ starts' = Whole(w_off, n) \cup {logger_offset(w_off + n - HeaderLen - ret)}
            /\ mutex' = Nil /\ wpc' = [wpc EXCEPT ![w] = "wake"]
      /\ UNCHANGED <<head, cursor, freed, readers, r_off, rpc, wq>>

\* Mutant: the write offset stays inside the entry given up.
FaultKeepsOffset(w, n) ==
  /\ w \in FaultyWriters
  /\ wpc[w] = "payload" /\ n \in 0 .. local[w].len - local[w].ret
  /\ buffer' = Store(w_off, Payload(n))
  /\ starts' = Whole(w_off, n)
  /\ local' = [local EXCEPT ![w] = NoLocals]
  /\ mutex' = Nil /\ wpc' = [wpc EXCEPT ![w] = "idle"]
  /\ UNCHANGED <<w_off, head, cursor, freed, readers, r_off, rpc, wq>>

\* copy_from_user faults after n cells of a segment.
WriteFault(w, n) ==
  /\ w \in FaultyWriters
  /\ wpc[w] = "payload" /\ n \in 0 .. local[w].len - local[w].ret
  /\ buffer' = Store(w_off, Payload(n))
  /\ w_off' = local[w].orig
  /\ starts' = Whole(w_off, n)
  /\ local' = [local EXCEPT ![w] = NoLocals]
  /\ mutex' = Nil /\ wpc' = [wpc EXCEPT ![w] = "idle"]
  /\ UNCHANGED <<head, cursor, freed, readers, r_off, rpc, wq>>

\* Mutant: the wake-up is skipped while another writer has the mutex.
WakeIfFree(w) ==
  /\ wpc[w] = "wake"
  /\ wq' = IF mutex = Nil THEN {} ELSE wq
  /\ wpc' = [wpc EXCEPT ![w] = "idle"]
  /\ UNCHANGED <<log, walk, readers, r_off, local, rpc>>

\* wake_up_interruptible, after the mutex is released.
WriteWake(w) ==
  /\ wpc[w] = "wake"
  /\ wq' = {}
  /\ wpc' = [wpc EXCEPT ![w] = "idle"]
  /\ UNCHANGED <<log, walk, readers, r_off, local, rpc>>

\* LOGGER_FLUSH_LOG: the loop is WalkReader.
FlushLock(w) ==
  /\ wpc[w] = "idle" /\ mutex = Nil
  /\ mutex' = w /\ cursor' = ReaderAt(1)
  /\ wpc' = [wpc EXCEPT ![w] = "flush"]
  /\ UNCHANGED <<log, freed, readers, r_off, local, rpc, wq>>

FlushEnd(w) ==
  /\ wpc[w] = "flush" /\ cursor = Nil
  /\ head' = w_off
  /\ mutex' = Nil /\ wpc' = [wpc EXCEPT ![w] = "idle"]
  /\ UNCHANGED <<buffer, w_off, starts, cursor, freed, readers, r_off, local, rpc, wq>>

-----------------------------------------------------------------------------
\* logger_open for reading; for writing it changes nothing.
logger_open(r) ==
  /\ rpc[r] = "closed" /\ mutex = Nil
  /\ r_off' = [r_off EXCEPT ![r] = head]
  /\ readers' = Append(readers, r)
  /\ rpc' = [rpc EXCEPT ![r] = "open"]
  /\ UNCHANGED <<log, walk, wpc, local, wq>>

\* logger_release, which does not take the mutex.  A walk of the list that is at
\* the reader finds LIST_POISON1 in the memory freed, faults there and never
\* drops the mutex (memory in use again by then is not modelled).
logger_release(r) ==
  /\ rpc[r] = "open"
  /\ readers' = list_del(readers, Position(r))
  /\ rpc' = [rpc EXCEPT ![r] = "closed"]
  /\ freed' = (freed \/ cursor = r)
  /\ UNCHANGED <<log, mutex, cursor, r_off, wpc, local, wq>>

\* logger_read: prepare_to_wait, at the call, after a wake-up or a signal.
ReadPrepare(r) ==
  /\ wq' = wq \cup {r}
  /\ rpc' = [rpc EXCEPT ![r] = "prepared"]
  /\ UNCHANGED <<log, walk, readers, r_off, wpc, local>>

logger_read(r) == rpc[r] = "open" /\ ReadPrepare(r)

Woken(r) == rpc[r] = "blocked" /\ r \notin wq /\ ReadPrepare(r)

Signalled(r) == rpc[r] = "blocked" /\ r \in wq /\ ReadPrepare(r)

\* The look at the log in the loop of logger_read: there is an entry, or the
\* call returns with EAGAIN or EINTR, or it calls schedule().
ReadCheck(r) ==
  /\ rpc[r] = "prepared" /\ mutex = Nil
  /\ \/ /\ w_off # r_off[r]
        /\ rpc' = [rpc EXCEPT ![r] = "ready"] /\ wq' = wq \ {r}
     \/ /\ w_off = r_off[r]
        /\ \/ rpc' = [rpc EXCEPT ![r] = "open"] /\ wq' = wq \ {r}
           \/ rpc' = [rpc EXCEPT ![r] = "blocked"] /\ UNCHANGED wq
  /\ UNCHANGED <<log, walk, readers, r_off, wpc, local>>

\* Mutant: what the check saw is taken to hold still.
ReadUnchecked(r) ==
  /\ rpc[r] = "ready" /\ mutex = Nil
  /\ r_off' = [r_off EXCEPT ![r] = logger_offset(@ + get_entry_len(@))]
  /\ rpc' = [rpc EXCEPT ![r] = "open"]
  /\ UNCHANGED <<log, walk, readers, wpc, local, wq>>

\* The rest of logger_read: start again if the log has become empty for this
\* reader, else read one entry, or fail with EINVAL or EFAULT.
ReadEntry(r) ==
  /\ rpc[r] = "ready" /\ mutex = Nil
  /\ \/ /\ w_off = r_off[r]
        /\ rpc' = [rpc EXCEPT ![r] = "prepared"] /\ wq' = wq \cup {r}
        /\ UNCHANGED r_off
     \/ /\ w_off # r_off[r]
        /\ \/ r_off' = [r_off EXCEPT ![r] = logger_offset(@ + get_entry_len(@))]
           \/ UNCHANGED r_off
        /\ rpc' = [rpc EXCEPT ![r] = "open"] /\ UNCHANGED wq
  /\ UNCHANGED <<log, walk, readers, wpc, local>>

\* logger_poll: poll_wait, at the call of poll(), which enters the wait queue until
\* it returns; that r is not in wq means that its entry has been triggered, and
\* do_poll resets that before it calls logger_poll again.
PollPrepare(r) ==
  /\ wq' = wq \cup {r}
  /\ rpc' = [rpc EXCEPT ![r] = "polling"]
  /\ UNCHANGED <<log, walk, readers, r_off, wpc, local>>

logger_poll(r) == rpc[r] = "open" /\ PollPrepare(r)

PollWoken(r) == rpc[r] = "polled" /\ r \notin wq /\ PollPrepare(r)

\* The rest of logger_poll: poll() returns with POLLIN, or it sleeps.
PollCheck(r) ==
  /\ rpc[r] = "polling" /\ mutex = Nil
  /\ \/ /\ w_off # r_off[r]
        /\ rpc' = [rpc EXCEPT ![r] = "open"] /\ wq' = wq \ {r}
     \/ /\ w_off = r_off[r]
        /\ rpc' = [rpc EXCEPT ![r] = "polled"] /\ UNCHANGED wq
  /\ UNCHANGED <<log, walk, readers, r_off, wpc, local>>

\* poll() gives up: its time is over or a signal has come.
PollReturn(r) ==
  /\ rpc[r] = "polled"
  /\ rpc' = [rpc EXCEPT ![r] = "open"] /\ wq' = wq \ {r}
  /\ UNCHANGED <<log, walk, readers, r_off, wpc, local>>

-----------------------------------------------------------------------------
WriterStep(w) ==
  \/ WriteLock(w) \/ WalkReader(w) \/ WriteHeader(w) \/ WriteWake(w) \/ FlushEnd(w)
  \/ \E n \in 0 .. MaxPayload : WriteSegment(w, n) \/ WriteFault(w, n)

ReaderStep(r) == Woken(r) \/ ReadCheck(r) \/ ReadEntry(r) \/ PollWoken(r) \/ PollCheck(r)

Next ==
  \/ \E w \in Writers : \/ WriterStep(w)
                        \/ \E len \in 1 .. MaxPayload : WriteStart(w, len)
                        \/ FlushLock(w)
  \/ \E r \in Readers : \/ ReaderStep(r)
                        \/ logger_open(r) \/ logger_release(r)
                        \/ logger_read(r) \/ Signalled(r)
                        \/ logger_poll(r) \/ PollReturn(r)

Spec == Init /\ [][Next]_vars

\* A system call that has begun goes on; none need ever be made.
FairSpec ==
  /\ Spec
  /\ \A w \in Writers : WF_vars(WriterStep(w))
  /\ \A r \in Readers : WF_vars(ReaderStep(r))

-----------------------------------------------------------------------------
\* The offsets stay inside the buffer, and every other variable has its type.
TypeOK ==
  /\ buffer \in [Offsets -> 0 .. Byte - 1]
  /\ w_off \in Offsets /\ head \in Offsets /\ starts \subseteq Offsets
  /\ readers \in Seq(Readers) /\ r_off \in [Readers -> Offsets]
  /\ mutex \in Writers \cup {Nil} /\ cursor \in Readers \cup {Nil} /\ freed \in BOOLEAN
  /\ wpc \in [Writers -> {"idle", "write", "fix_up", "payload", "wake", "flush"}]
  /\ local \in [Writers -> [orig : Offsets, len : 0 .. MaxPayload, ret : 0 .. MaxPayload]]
  /\ rpc \in [Readers -> {"closed", "open", "prepared", "blocked", "ready",
                      "polling", "polled"}]
  /\ wq \subseteq Readers

\* An entry is being written: w_off is inside it.
Writing == \E w \in Writers : wpc[w] = "payload"

\* The places the entries from off on lead to, up to w_off; no more entries than
\* headers fit in the buffer.
Chain(off) ==
  LET place[k \in 0 .. Size \div HeaderLen] ==
        IF k = 0 THEN off
        ELSE LET p == place[k - 1]
             IN  IF p = w_off THEN p ELSE logger_offset(p + get_entry_len(p))
  IN  {place[k] : k \in 0 .. Size \div HeaderLen}

Positions == {head} \cup {r_off[r] : r \in Opened}

\* From the head, and from wherever a reader is, whole entries follow one
\* another up to the write offset: no writer leaves anybody behind in the
\* entries it overwrites, and no reader gets off the boundaries of entries.
Framing ==
  ~Writing => \A off \in Positions : w_off \in Chain(off) /\ Chain(off) \subseteq starts \cup {w_off}

\* When a write succeeds, its entry is ahead of the head and of every reader:
\* the writer never makes one it laps believe that there is nothing to read.
NewEntryAhead ==
  [][\A w \in Writers : wpc[w] = "payload" /\ wpc'[w] = "wake" =>
       \A off \in Positions' :
         /\ off # w_off'
         /\ logger_offset(w_off' - HeaderLen - local[w].len) \in Chain(off)']_vars

\* A reader that sleeps in read() or poll() while entries wait for it is woken.
ReaderWoken ==
  \A r \in Readers :
    LET starved == rpc[r] \in {"blocked", "polled"} /\ r_off[r] # w_off
    IN  starved ~> ~starved

\* struct logger_reader: "The structure is protected by log->mutex": no reader
\* is freed under a walk of the list.
ReadersProtected == ~freed
=============================================================================
