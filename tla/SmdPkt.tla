------------------------------- MODULE SmdPkt -------------------------------
(***************************************************************************)
(* A packet device on a shared memory channel (SMD): smd_pkt.c on top of   *)
(* the packet channels of smd.c.  One direction of the channel is          *)
(* modelled, with both of its ends: the writing end "W", the reading end   *)
(* "R", the ring between them in shared memory, the flags the ends leave   *)
(* for each other next to it, and the interrupt each raises at the other.  *)
(* Each end has its threads (Writers, Readers) and its interrupt handler.  *)
(*                                                                         *)
(* One of the two ends is the application processor and the other one the  *)
(* modem or a DSP, which follows the same protocol on its side: the module *)
(* is read with "W" as this kernel for writes and with "R" as this kernel  *)
(* for reads.                                                              *)
(*                                                                         *)
(* The two processors share no lock: every access of an end to the ring    *)
(* indices, the flags and the interrupt is a step of its own.  smd_lock    *)
(* only keeps the handler and the threads of one end apart.                *)
(***************************************************************************)
EXTENDS Naturals, Sequences, FiniteSets

CONSTANTS
    FifoSize,    \* cells of the ring (a power of two in the code)
    HeaderSize,  \* cells of a packet header (SMD_HEADER_SIZE)
    Lens,        \* payload lengths the writers use
    BufLens,     \* sizes of the buffers the readers pass
    MaxPackets,  \* bound on the number of packets written
    LensOf,      \* bound on the lengths: the ones packet number n may have
    MaxEvents,   \* bound on the releases and power collapses, taken together
    Writers,     \* threads writing to the device
    Readers,     \* threads reading from the device
    None         \* no thread holds the lock

ASSUME FifoAssumption ==
    /\ FifoSize \in Nat /\ HeaderSize \in Nat \ {0}
    /\ HeaderSize < FifoSize
    /\ Lens \subseteq 1 .. (FifoSize - 1 - HeaderSize)
    /\ BufLens \subseteq Nat
    /\ MaxPackets \in Nat /\ MaxEvents \in Nat
    /\ None \notin Writers \cup Readers
ASSUME LensAssumption == LensOf \in [1 .. MaxPackets -> SUBSET Lens]

Ends == {"W", "R"}
Other(e) == IF e = "W" THEN "R" ELSE "W"

VARIABLES
    head, tail,      \* send->head of W, recv->tail of R
    data,            \* the cells of the ring
    flag,            \* flag["R"]: fHEAD, set by W for R; flag["W"]: fTAIL
    fBLOCKREADINTR,  \* set by W: reads need not be announced
    state,           \* state of the half channel each end sends on
    last_state,      \* the state of the other end its handler saw last
    irq,             \* an interrupt is pending at the end
    asleep,          \* the end has collapsed power
    ipc, ch_flags,   \* progress of the handler, the flag it has found
    release,         \* progress of smd_pkt_release: "no", "signalled",
                     \* "closed" (smd_close done), "null" (ch = 0), "done"
    smd_lock,        \* reader holding smd_lock at R (None: free)
    current_packet,  \* payload of the current packet not yet read
    hdr,             \* the header being read: its cells so far, whether the
                     \* tail has been moved and fTAIL not yet set
    rpc, rx_lock,    \* program counters of the readers, holder of rx_lock
    rx,              \* the read in progress: bytes wanted, cells read so far,
                     \* the last segment, whether to discard
    wpc, tx_lock,    \* program counters of the writers, holder of tx_lock
    wrun,            \* writers whose task state is running
    count,           \* length each writer asked for
    needed_space,
    blocking_write,
    tx,              \* the write in progress: cells left to this call of
                     \* smd_stream_write, the payload left to the next one,
                     \* cells written by this one, the segment being copied
    sent,            \* packets of which something was written
    got,             \* the packets returned to the readers
    events           \* releases and power collapses

ringVars == <<head, tail, data, flag, fBLOCKREADINTR>>
irqVars  == <<irq, ipc, ch_flags, asleep>>
linkVars == <<state, last_state, release, events>>
rVars    == <<current_packet, hdr, smd_lock, rpc, rx_lock, rx, got>>
wVars    == <<wpc, tx_lock, wrun, count, needed_space, blocking_write, tx, sent>>
vars     == <<ringVars, irqVars, linkVars, rVars, wVars>>

-----------------------------------------------------------------------------
(* The ring.                                                               *)

\* Mutant: an index is moved and not masked.
NoWrap(i) == i

Wrap(i) == i % FifoSize
Least(m, n) == IF m > n THEN n ELSE m

smd_stream_read_avail == (head + FifoSize - tail) % FifoSize
smd_stream_write_avail == (FifoSize - 1) - ((head + FifoSize - tail) % FifoSize)

smd_packet_read_avail == Least(smd_stream_read_avail, current_packet)
smd_packet_write_avail ==
    IF smd_stream_write_avail > HeaderSize
    THEN smd_stream_write_avail - HeaderSize ELSE 0

\* Length of the contiguous readable, and of the contiguous free, segment.
ch_read_buffer == IF tail <= head THEN head - tail ELSE FifoSize - tail
ch_write_buffer ==
    IF head < tail THEN tail - head - 1
    ELSE IF tail = 0 THEN FifoSize - head - 1 ELSE FifoSize - head

ch_is_open(e) == state[e] = "OPENED" /\ state[Other(e)] = "OPENED"

\* The cells of packet number n and of the header of a packet of length len.
Packet(n, len) == [i \in 1 .. len |-> [pkt |-> n, at |-> i, len |-> 0]]
Header(len) == [i \in 1 .. HeaderSize |-> [pkt |-> 0, at |-> i, len |-> len]]

\* An interrupt raised while its receiver sleeps wakes it, and is lost.
notify_other_cpu(e) == irq' = [irq EXCEPT ![Other(e)] = @ \/ ~asleep[Other(e)]]

\* smd_cur_packet_size() > 0 and the whole of it is there.
WholePacket ==
    current_packet > 0 /\ smd_packet_read_avail >= current_packet

\* Mutant: a header is looked for inside a packet.
HeaderAnyTime == smd_stream_read_avail >= HeaderSize

\* One turn of the loop of update_packet_state, under smd_lock: a header is
\* read with ch_read, in two segments where it wraps.  A segment is copied and
\* the tail moved past it, ...
NoHdr == [buf |-> <<>>, moved |-> FALSE]
HeaderReady == current_packet = 0 /\ smd_stream_read_avail >= HeaderSize
HeaderSeg ==
    /\ ~hdr.moved
    /\ hdr.buf # <<>> \/ HeaderReady
    /\ LET n == Least(ch_read_buffer, HeaderSize - Len(hdr.buf))
       IN  /\ n > 0
           /\ hdr' = [buf |-> hdr.buf \o [i \in 1 .. n |-> data[tail + i - 1]],
                       moved |-> TRUE]
           /\ tail' = Wrap(tail + n)
    /\ UNCHANGED <<flag, current_packet>>

\* Mutant: the part of the header before the end of the ring is taken for it.
FirstSegment ==
    /\ hdr.moved
    /\ flag' = [flag EXCEPT !["W"] = TRUE]
    /\ current_packet' = hdr.buf[1].len
    /\ hdr' = NoHdr
    /\ UNCHANGED tail

\* ... then fTAIL is set; the whole header gives the length of the packet.
HeaderFlag ==
    /\ hdr.moved
    /\ flag' = [flag EXCEPT !["W"] = TRUE]
    /\ IF Len(hdr.buf) = HeaderSize
       THEN /\ current_packet' = hdr.buf[1].len
            /\ hdr' = NoHdr
       ELSE /\ hdr' = [hdr EXCEPT !.moved = FALSE]
            /\ UNCHANGED current_packet
    /\ UNCHANGED tail

\* The loop ends: no header is there, or a packet is being read.
HeaderLooked == hdr = NoHdr /\ ~HeaderReady

\* smd_pkt_release has set has_reset and not yet cleared it; it has set the
\* channel pointer of the device to zero.
has_reset(e) == release[e] \in {"signalled", "closed", "null"}
no_ch(e) == release[e] \in {"null", "done"}

\* The rare events share one budget.
Event == events < MaxEvents /\ events' = events + 1

WakeReaders ==
    rpc' = [r \in Readers |-> IF rpc[r] = "sleep" THEN "wait" ELSE rpc[r]]

-----------------------------------------------------------------------------
(* smd_pkt_write: a writer w at end W.                                     *)

NoTx == [buf |-> <<>>, pay |-> <<>>, done |-> 0, xfer |-> 0]

\* blocking_write is looked at once, on entry.
WriteCall(w, len) ==
    /\ wpc[w] = "idle"
    /\ ~no_ch("W")
    /\ blocking_write \/ ~has_reset("W")
    /\ sent < MaxPackets /\ len \in LensOf[sent + 1]
    /\ wpc' = [wpc EXCEPT ![w] = IF blocking_write THEN "arm" ELSE "lock"]
    /\ count' = [count EXCEPT ![w] = len]
    /\ UNCHANGED <<ringVars, irqVars, linkVars, rVars, tx_lock, wrun,
                   needed_space, blocking_write, tx, sent>>

\* Leave smd_pkt_write, dropping tx_lock.
WriteReturn(w) ==
    /\ wpc' = [wpc EXCEPT ![w] = "idle"]
    /\ tx_lock' = None

\* The channel pointer is dereferenced and is zero: the thread is killed, with
\* the mutex held.
WriteOops(w) ==
    /\ wpc' = [wpc EXCEPT ![w] = "oops"]
    /\ tx_lock' = w

\* Mutant: reads are not asked to be announced before the space is looked at.
ArmSilently(w) ==
    /\ wpc[w] = "arm" /\ tx_lock = None /\ ~has_reset("W")
    /\ wpc' = [wpc EXCEPT ![w] = "check"]
    /\ tx_lock' = w
    /\ wrun' = wrun \ {w}
    /\ UNCHANGED <<ringVars, irqVars, linkVars, rVars, count,
                   needed_space, blocking_write, tx, sent>>

\* The top of the loop of a blocking write: prepare_to_wait, and have reads
\* announced, before the free space is looked at.  On a reset it returns, the
\* announcement off (and the task state as it was: wrun).
WriteArm(w) ==
    /\ wpc[w] = "arm" /\ tx_lock = None
    /\ IF has_reset("W")
       THEN /\ WriteReturn(w)
            /\ UNCHANGED wrun
       ELSE /\ wpc' = [wpc EXCEPT ![w] = "check"]
            /\ tx_lock' = w
            /\ wrun' = wrun \ {w}
    /\ fBLOCKREADINTR' = IF no_ch("W") THEN fBLOCKREADINTR ELSE has_reset("W")
    /\ UNCHANGED <<head, tail, data, flag, irqVars, linkVars, rVars, count,
                   needed_space, blocking_write, tx, sent>>

WriteCheck(w) ==
    /\ wpc[w] = "check"
    /\ ~no_ch("W")
    /\ IF smd_packet_write_avail < count[w]
       THEN /\ needed_space' = IF needed_space = 0 \/ count[w] < needed_space
                               THEN count[w] ELSE needed_space
            /\ wpc' = [wpc EXCEPT ![w] = "sched"]
            /\ tx_lock' = None
            /\ UNCHANGED <<wrun, fBLOCKREADINTR>>
       ELSE /\ wrun' = wrun \cup {w}
            /\ fBLOCKREADINTR' = TRUE
            /\ IF has_reset("W") THEN WriteReturn(w)
               ELSE /\ wpc' = [wpc EXCEPT ![w] = "start"]
                    /\ UNCHANGED tx_lock
            /\ UNCHANGED needed_space
    /\ UNCHANGED <<head, tail, data, flag, irqVars, linkVars, rVars, count,
                   blocking_write, tx, sent>>

\* schedule() returns once the task has been woken.
WriteSched(w) ==
    /\ wpc[w] = "sched"
    /\ w \in wrun
    /\ wpc' = [wpc EXCEPT ![w] = "arm"]
    /\ UNCHANGED <<ringVars, irqVars, linkVars, rVars, tx_lock, wrun, count,
                   needed_space, blocking_write, tx, sent>>

WriteNonBlocking(w) ==
    /\ wpc[w] = "lock" /\ tx_lock = None
    /\ ~no_ch("W")
    /\ IF smd_packet_write_avail < count[w]
       THEN WriteReturn(w)
       ELSE /\ wpc' = [wpc EXCEPT ![w] = "start"]
            /\ tx_lock' = w
    /\ UNCHANGED <<ringVars, irqVars, linkVars, rVars, wrun, count,
                   needed_space, blocking_write, tx, sent>>

\* smd_write_avail or smd_write_user_buffer of a device without channel.
WriteNull(w) ==
    /\ no_ch("W")
    /\ \/ wpc[w] \in {"check", "start"}
       \/ wpc[w] = "lock" /\ tx_lock = None
    /\ WriteOops(w)
    /\ UNCHANGED <<ringVars, irqVars, linkVars, rVars, wrun, count,
                   needed_space, blocking_write, tx, sent>>

\* smd_packet_write checks the space again and writes the header first.
WriteStart(w) ==
    /\ wpc[w] = "start"
    /\ ~no_ch("W")
    /\ needed_space' = 0
    /\ IF smd_stream_write_avail < count[w] + HeaderSize
       THEN /\ WriteReturn(w)
            /\ UNCHANGED tx
       ELSE /\ wpc' = [wpc EXCEPT ![w] = "copy"]
            /\ tx' = [NoTx EXCEPT !.buf = Header(count[w]),
                                  !.pay = Packet(sent + 1, count[w])]
            /\ UNCHANGED tx_lock
    /\ UNCHANGED <<ringVars, irqVars, linkVars, rVars, wrun, count,
                   blocking_write, sent>>

\* One turn of the loop of smd_stream_write, up to the copy ...
WriteCopy(w) ==
    /\ wpc[w] = "copy"
    /\ ch_write_buffer > 0 /\ ch_is_open("W")
    /\ LET n == Least(ch_write_buffer, Len(tx.buf))
       IN  /\ tx' = [tx EXCEPT !.xfer = n]
           /\ data' = [i \in DOMAIN data |->
                          IF head <= i /\ i < head + n
                          THEN tx.buf[i - head + 1] ELSE data[i]]
    /\ wpc' = [wpc EXCEPT ![w] = "done"]
    /\ UNCHANGED <<head, tail, flag, fBLOCKREADINTR, irqVars, linkVars, rVars,
                   tx_lock, wrun, count, needed_space, blocking_write, sent>>

\* ... then ch_write_done moves the head ...
WriteDone(w) ==
    /\ wpc[w] = "done"
    /\ head' = Wrap(head + tx.xfer)
    /\ tx' = [tx EXCEPT !.buf = SubSeq(@, tx.xfer + 1, Len(@)),
                        !.done = @ + tx.xfer, !.xfer = 0]
    /\ sent' = IF tx.pay # <<>> /\ tx.done = 0 THEN sent + 1 ELSE sent
    /\ wpc' = [wpc EXCEPT ![w] = "flag"]
    /\ UNCHANGED <<tail, data, flag, fBLOCKREADINTR, irqVars, linkVars, rVars,
                   tx_lock, wrun, count, needed_space, blocking_write>>

\* ... and sets fHEAD.
WriteFlag(w) ==
    /\ wpc[w] = "flag"
    /\ flag' = [flag EXCEPT !["R"] = TRUE]
    /\ wpc' = [wpc EXCEPT ![w] = IF tx.buf = <<>> THEN "notify" ELSE "copy"]
    /\ UNCHANGED <<head, tail, data, fBLOCKREADINTR, irqVars, linkVars, rVars,
                   tx_lock, wrun, count, needed_space, blocking_write, tx, sent>>

\* The end of a complete smd_stream_write: the payload follows the header.
WriteNotify(w) ==
    /\ wpc[w] = "notify"
    /\ notify_other_cpu("W")
    /\ tx' = [NoTx EXCEPT !.buf = tx.pay]
    /\ IF tx.pay # <<>>
       THEN /\ wpc' = [wpc EXCEPT ![w] = "copy"]
            /\ UNCHANGED tx_lock
       ELSE WriteReturn(w)
    /\ UNCHANGED <<ringVars, ipc, ch_flags, asleep, linkVars, rVars, wrun,
                   count, needed_space, blocking_write, sent>>

\* smd_stream_write breaks off: what it wrote is announced, the rest of the
\* packet is given up.
WriteBreak(w) ==
    /\ wpc[w] = "copy"
    /\ ch_write_buffer = 0 \/ ~ch_is_open("W")
    /\ IF tx.done > 0 THEN notify_other_cpu("W") ELSE UNCHANGED irq
    /\ WriteReturn(w)
    /\ tx' = NoTx
    /\ UNCHANGED <<ringVars, ipc, ch_flags, asleep, linkVars, rVars, wrun,
                   count, needed_space, blocking_write, sent>>

Write(w) ==
    \/ WriteArm(w) \/ WriteCheck(w) \/ WriteSched(w) \/ WriteNonBlocking(w)
    \/ WriteNull(w) \/ WriteStart(w) \/ WriteCopy(w) \/ WriteDone(w)
    \/ WriteFlag(w) \/ WriteNotify(w) \/ WriteBreak(w)

-----------------------------------------------------------------------------
(* smd_pkt_read: a reader r at end R.                                      *)

NoRx == [want |-> 0, buf |-> <<>>, n |-> 0, drop |-> FALSE]

\* wait_event_interruptible: queued before the condition is evaluated.
WaitForPacket(r) ==
    /\ rpc' = [rpc EXCEPT ![r] = IF WholePacket \/ has_reset("R")
                                 THEN "woken" ELSE "sleep"]
    /\ UNCHANGED <<ringVars, irqVars, linkVars, wVars, current_packet, hdr,
                   smd_lock, rx_lock, rx, got>>

ReadCall(r) ==
    /\ rpc[r] = "idle"
    /\ ~no_ch("R")
    /\ WaitForPacket(r)

ReadWait(r) == rpc[r] = "wait" /\ WaitForPacket(r)

\* has_reset is looked at again.
ReadWoken(r) ==
    /\ rpc[r] = "woken"
    /\ rpc' = [rpc EXCEPT ![r] = IF has_reset("R") THEN "idle" ELSE "lock"]
    /\ UNCHANGED <<ringVars, irqVars, linkVars, wVars, current_packet, hdr,
                   smd_lock, rx_lock, rx, got>>

\* smd_cur_packet_size of a device without channel: the thread is killed, with
\* rx_lock held.
ReadNull(r) ==
    /\ rpc[r] = "lock" /\ rx_lock = None
    /\ no_ch("R")
    /\ rpc' = [rpc EXCEPT ![r] = "oops"]
    /\ rx_lock' = r
    /\ UNCHANGED <<ringVars, irqVars, linkVars, wVars, current_packet, hdr,
                   smd_lock, rx, got>>

\* With rx_lock: take the current packet, or wait again.
NothingToRead == current_packet = 0 \/ current_packet < smd_packet_read_avail
ReadLock(r, len) ==
    /\ rpc[r] = "lock" /\ rx_lock = None
    /\ ~no_ch("R")
    /\ IF NothingToRead
       THEN /\ rpc' = [rpc EXCEPT ![r] = "wait"]
            /\ UNCHANGED <<rx_lock, rx>>
       ELSE /\ rpc' = [rpc EXCEPT ![r] = "seg"]
            /\ rx_lock' = r
            /\ rx' = [NoRx EXCEPT !.want = current_packet,
                                  !.drop = current_packet > len]
    /\ UNCHANGED <<ringVars, irqVars, linkVars, wVars, current_packet, hdr,
                   smd_lock, got>>

\* One turn of the loop of ch_read, up to the copy ...
ReadSeg(r) ==
    /\ rpc[r] = "seg"
    /\ ch_read_buffer > 0 /\ Len(rx.buf) < rx.want
    /\ LET n == Least(ch_read_buffer, rx.want - Len(rx.buf))
       IN  rx' = [rx EXCEPT !.n = n,
                            !.buf = @ \o [i \in 1 .. n |-> data[tail + i - 1]]]
    /\ rpc' = [rpc EXCEPT ![r] = "done"]
    /\ UNCHANGED <<ringVars, irqVars, linkVars, wVars, current_packet, hdr,
                   smd_lock, rx_lock, got>>

\* ... then ch_read_done moves the tail ...
ReadDone(r) ==
    /\ rpc[r] = "done"
    /\ tail' = Wrap(tail + rx.n)
    /\ rx' = [rx EXCEPT !.n = 0]
    /\ rpc' = [rpc EXCEPT ![r] = "flag"]
    /\ UNCHANGED <<head, data, flag, fBLOCKREADINTR, irqVars, linkVars, wVars,
                   current_packet, hdr, smd_lock, rx_lock, got>>

\* ... and sets fTAIL.
ReadFlag(r) ==
    /\ rpc[r] = "flag"
    /\ flag' = [flag EXCEPT !["W"] = TRUE]
    /\ rpc' = [rpc EXCEPT ![r] = "seg"]
    /\ UNCHANGED <<head, tail, data, fBLOCKREADINTR, irqVars, linkVars, wVars,
                   current_packet, hdr, smd_lock, rx_lock, rx, got>>

\* smd_packet_read announces what ch_read took unless W asked it not to.
ReadAck(r) ==
    /\ rpc[r] = "seg"
    /\ ch_read_buffer = 0 \/ Len(rx.buf) = rx.want
    /\ IF rx.buf # <<>> /\ ~fBLOCKREADINTR THEN notify_other_cpu("R")
                                           ELSE UNCHANGED irq
    /\ rpc' = [rpc EXCEPT ![r] = "sub"]
    /\ UNCHANGED <<ringVars, ipc, ch_flags, asleep, linkVars, wVars,
                   current_packet, hdr, smd_lock, rx_lock, rx, got>>

\* Under smd_lock: what was read is accounted for (a short read is an error,
\* like a packet that was dropped) ...
ReadSub(r) ==
    /\ rpc[r] = "sub"
    /\ smd_lock = None /\ ipc["R"] = "idle"
    /\ smd_lock' = r
    /\ current_packet' = current_packet - Len(rx.buf)
    /\ got' = IF rx.drop \/ Len(rx.buf) # rx.want THEN got ELSE Append(got, rx.buf)
    /\ rx' = [NoRx EXCEPT !.drop = rx.drop \/ Len(rx.buf) # rx.want]
    /\ rpc' = [rpc EXCEPT ![r] = "upd"]
    /\ UNCHANGED <<ringVars, irqVars, linkVars, wVars, hdr, rx_lock>>

\* ... and update_packet_state looks for the next one.
ReadUpdate(r) ==
    /\ rpc[r] = "upd"
    /\ HeaderSeg \/ HeaderFlag
    /\ UNCHANGED <<head, data, fBLOCKREADINTR, irqVars, linkVars, wVars,
                   smd_lock, rpc, rx_lock, rx, got>>

\* The locks are dropped; unless the read failed, other readers are woken when
\* a packet is waiting (check_and_wakeup_reader).
ReadReturn(r) ==
    /\ rpc[r] = "upd"
    /\ HeaderLooked
    /\ smd_lock' = None
    /\ rx_lock' = None
    /\ rx' = NoRx
    /\ rpc' = [q \in Readers |->
                  IF q = r THEN "idle"
                  ELSE IF rpc[q] = "sleep" /\ WholePacket /\ ~rx.drop /\ ~no_ch("R")
                  THEN "wait" ELSE rpc[q]]
    /\ UNCHANGED <<ringVars, irqVars, linkVars, wVars, current_packet, hdr, got>>

Read(r) ==
    \/ ReadWait(r) \/ ReadWoken(r) \/ ReadNull(r)
    \/ \E len \in BufLens : ReadLock(r, len)
    \/ ReadSeg(r) \/ ReadDone(r) \/ ReadFlag(r) \/ ReadAck(r)
    \/ ReadSub(r) \/ ReadUpdate(r) \/ ReadReturn(r)

-----------------------------------------------------------------------------
(* handle_smd_irq at end e.                                                *)

\* The handler takes smd_lock and tests the flag if the channel is open; a
\* closed channel is not in the handler's list.
IrqStart(e) ==
    /\ irq[e] /\ ipc[e] = "idle"
    /\ e = "R" => smd_lock = None
    /\ irq' = [irq EXCEPT ![e] = FALSE]
    /\ ch_flags' = [ch_flags EXCEPT ![e] = ch_is_open(e) /\ flag[e]]
    /\ ipc' = [ipc EXCEPT ![e] = IF state[e] = "CLOSED" THEN "idle" ELSE "state"]
    /\ UNCHANGED <<ringVars, asleep, linkVars, rVars, wVars>>

\* It clears the flag it has found, and deals with a change of the other
\* end's state (smd_state_change).
IrqState(e) ==
    /\ ipc[e] = "state"
    /\ flag' = [flag EXCEPT ![e] = @ /\ ~ch_flags[e]]
    /\ last_state' = [last_state EXCEPT ![e] = state[Other(e)]]
    /\ IF /\ state[Other(e)] # last_state[e]
          /\ state[Other(e)] = "CLOSED"
          /\ state[e] = "OPENED"
       THEN /\ state' = [state EXCEPT ![e] = "CLOSING"]
            /\ notify_other_cpu(e)
       ELSE UNCHANGED <<state, irq>>
    /\ ipc' = [ipc EXCEPT ![e] = IF ch_flags[e] THEN "update" ELSE "idle"]
    /\ UNCHANGED <<head, tail, data, fBLOCKREADINTR, ch_flags, asleep, rVars,
                   wVars, release, events>>

IrqUpdate ==
    /\ ipc["R"] = "update"
    /\ HeaderSeg \/ HeaderFlag
    /\ UNCHANGED <<head, data, fBLOCKREADINTR, irqVars, linkVars, wVars,
                   smd_lock, rpc, rx_lock, rx, got>>

\* SMD_EVENT_DATA to ch_notify, which wakes readers when a whole packet is
\* waiting; and the interrupt that acknowledges the flag.
IrqNotifyReader ==
    /\ ipc["R"] = "update"
    /\ HeaderLooked
    /\ IF WholePacket THEN WakeReaders ELSE UNCHANGED rpc
    /\ notify_other_cpu("R")
    /\ ipc' = [ipc EXCEPT !["R"] = "idle"]
    /\ ch_flags' = [ch_flags EXCEPT !["R"] = FALSE]
    /\ UNCHANGED <<ringVars, asleep, linkVars, wVars, current_packet, hdr,
                   smd_lock, rx_lock, rx, got>>

\* At the writing end: check_and_wakeup_writer.
IrqNotifyWriter ==
    /\ ipc["W"] = "update"
    /\ IF blocking_write /\ smd_packet_write_avail >= needed_space
       THEN /\ fBLOCKREADINTR' = TRUE
            /\ wrun' = Writers
       ELSE UNCHANGED <<fBLOCKREADINTR, wrun>>
    /\ notify_other_cpu("W")
    /\ ipc' = [ipc EXCEPT !["W"] = "idle"]
    /\ ch_flags' = [ch_flags EXCEPT !["W"] = FALSE]
    /\ UNCHANGED <<head, tail, data, flag, asleep, linkVars, rVars, wpc,
                   tx_lock, count, needed_space, blocking_write, tx, sent>>

Irq(e) ==
    \/ IrqStart(e)
    \/ IrqState(e)
    \/ e = "R" /\ (IrqUpdate \/ IrqNotifyReader)
    \/ e = "W" /\ IrqNotifyWriter

-----------------------------------------------------------------------------
(* What else happens to an end.                                            *)

\* smd_pkt_release, in its four steps.  It waits for no call: threads that use
\* the device through another open file are anywhere in their calls.
\* clean_and_signal: has_reset is set and everybody woken.
clean_and_signal(e) ==
    /\ release[e] = "no"
    /\ Event
    /\ release' = [release EXCEPT ![e] = "signalled"]
    /\ IF e = "R" THEN WakeReaders /\ UNCHANGED wrun
                  ELSE wrun' = Writers /\ UNCHANGED rpc
    /\ UNCHANGED <<ringVars, irqVars, state, last_state, current_packet, hdr,
                   smd_lock, rx_lock, rx, got, wpc, tx_lock, count,
                   needed_space, blocking_write, tx, sent>>

\* smd_close, under smd_lock.
smd_close(e) ==
    /\ release[e] = "signalled"
    /\ ipc[e] = "idle"
    /\ e = "R" => smd_lock = None
    /\ release' = [release EXCEPT ![e] = "closed"]
    /\ state' = [state EXCEPT ![e] = "CLOSED"]
    /\ notify_other_cpu(e)
    /\ UNCHANGED <<ringVars, ipc, ch_flags, asleep, last_state, events,
                   rVars, wVars>>

\* The device forgets the channel ...
ReleaseChannel(e) ==
    /\ release[e] = "closed"
    /\ release' = [release EXCEPT ![e] = "null"]
    /\ blocking_write' = (blocking_write /\ e # "W")
    /\ UNCHANGED <<ringVars, irqVars, state, last_state, events, rVars, wpc,
                   tx_lock, wrun, count, needed_space, tx, sent>>

\* ... and has_reset is cleared.
ReleaseEnd(e) ==
    /\ release[e] = "null"
    /\ release' = [release EXCEPT ![e] = "done"]
    /\ UNCHANGED <<ringVars, irqVars, state, last_state, events, rVars, wVars>>

Release(e) ==
    clean_and_signal(e) \/ smd_close(e) \/ ReleaseChannel(e) \/ ReleaseEnd(e)

\* The processor of end e collapses power with no interrupt pending.
Sleep(e) ==
    /\ ~irq[e] /\ ipc[e] = "idle" /\ ~asleep[e]
    /\ asleep' = [asleep EXCEPT ![e] = TRUE]
    /\ Event
    /\ UNCHANGED <<ringVars, irq, ipc, ch_flags, state, last_state, release,
                   rVars, wVars>>

\* Mutant: only a change of state is looked for.
NeedIntOnState(e) == ch_is_open(e) /\ state[Other(e)] # last_state[e]

\* On the way out it looks for what it may have missed.
smd_need_int(e) ==
    ch_is_open(e) /\ (flag[e] \/ state[Other(e)] # last_state[e])
smd_sleep_exit(e) ==
    /\ asleep[e]
    /\ asleep' = [asleep EXCEPT ![e] = FALSE]
    /\ irq' = [irq EXCEPT ![e] = @ \/ smd_need_int(e)]
    /\ UNCHANGED <<ringVars, ipc, ch_flags, linkVars, rVars, wVars>>

-----------------------------------------------------------------------------
\* Both ends have opened the channel; the earlier traffic has brought the
\* indices to the end of the ring, so that headers and payloads wrap.
\* blocking_write is what the application has set with the ioctl
\* SMD_PKT_IOCTL_BLOCKING_WRITE; smd_pkt_open has turned the announcement of
\* reads off.
Init ==
    /\ head = FifoSize - 1 /\ tail = head
    /\ data = [i \in 0 .. FifoSize - 1 |-> [pkt |-> 0, at |-> 0, len |-> 0]]
    /\ flag = [e \in Ends |-> FALSE]
    /\ fBLOCKREADINTR = TRUE
    /\ state = [e \in Ends |-> "OPENED"]
    /\ last_state = [e \in Ends |-> "OPENED"]
    /\ irq = [e \in Ends |-> FALSE]
    /\ ipc = [e \in Ends |-> "idle"]
    /\ ch_flags = [e \in Ends |-> FALSE]
    /\ asleep = [e \in Ends |-> FALSE]
    /\ release = [e \in Ends |-> "no"]
    /\ events = 0
    /\ smd_lock = None
    /\ current_packet = 0
    /\ hdr = NoHdr
    /\ rpc = [r \in Readers |-> "idle"]
    /\ rx_lock = None
    /\ rx = NoRx
    /\ wpc = [w \in Writers |-> "idle"]
    /\ tx_lock = None
    /\ wrun = Writers
    /\ count = [w \in Writers |-> 0]
    /\ needed_space = 0
    /\ blocking_write \in BOOLEAN
    /\ tx = NoTx
    /\ sent = 0
    /\ got = <<>>

\* A sleeping end runs neither threads nor its handler.
Next ==
    \/ ~asleep["W"] /\ \E w \in Writers :
          (\E len \in Lens : WriteCall(w, len)) \/ Write(w)
    \/ ~asleep["R"] /\ \E r \in Readers : ReadCall(r) \/ Read(r)
    \/ \E e \in Ends :
          \/ ~asleep[e] /\ (Irq(e) \/ Release(e))
          \/ Sleep(e)
          \/ smd_sleep_exit(e)

Spec == Init /\ [][Next]_vars

\* A woken thread runs, a sleeping processor wakes up and takes its interrupts;
\* nobody is obliged to call read or write, or to release the device.
Fairness ==
    /\ \A w \in Writers : WF_vars(~asleep["W"] /\ Write(w))
    /\ \A r \in Readers : WF_vars(~asleep["R"] /\ Read(r))
    /\ \A e \in Ends : WF_vars(smd_sleep_exit(e) \/ (~asleep[e] /\ Irq(e)))

FairSpec == Spec /\ Fairness

-----------------------------------------------------------------------------
(* The abstract queue this implements.                                     *)

\* Part of the packet being written is in the ring: from then on the packet
\* counts as accepted.
WriteBegun == tx.done > 0 \/ (tx.buf # <<>> /\ tx.buf[1].pkt # 0)

\* The cells that are on their way: taken by the reader but not accounted
\* for, or of a header being read, in the ring, and still to be written.
CellsUnderway ==
    SubSeq(rx.buf, 1, Len(rx.buf) - rx.n)
    \o hdr.buf
    \o [i \in 1 .. smd_stream_read_avail |-> data[Wrap(tail + i - 1)]]
    \o (IF WriteBegun THEN tx.buf \o tx.pay ELSE <<>>)

\* The packets found in cells from each place on where a header is expected; an
\* incomplete packet at the end is left out.
PacketsFrom(cells) ==
    LET end == Len(cells) + 1
        cut[p \in 1 .. end] ==
            IF p + HeaderSize > end \/ p + HeaderSize + cells[p].len > end
            THEN <<>>
            ELSE <<SubSeq(cells, p + HeaderSize, p + HeaderSize + cells[p].len - 1)>>
                 \o cut[p + HeaderSize + cells[p].len]
    IN  cut

\* Cutting cells into packets, the first of which has `need' cells and no
\* header any more if it has been begun.
CutPackets(need, cells) ==
    IF need > Len(cells) THEN <<>>
    ELSE (IF need = 0 THEN <<>> ELSE <<SubSeq(cells, 1, need)>>)
         \o PacketsFrom(cells)[need + 1]

PQ == INSTANCE PacketQueue
        WITH queue  <- CutPackets(current_packet, CellsUnderway),
             closed <- \E e \in Ends : state[e] # "OPENED"

\* With one reading thread the device is a queue of whole packets: the ring
\* arithmetic, the copies in two segments, the header read by whoever comes
\* first and a release in the middle of a call never lose, split, repeat or
\* reorder a packet (smd_packet_read, smd_packet_write).
IsPacketQueue == PQ!Spec

-----------------------------------------------------------------------------
(* Properties.                                                             *)

Cells == [pkt : Nat, at : Nat, len : Nat]

\* The indices stay inside the ring, and every other variable has its type.
TypeOK ==
    /\ head \in 0 .. FifoSize - 1 /\ tail \in 0 .. FifoSize - 1
    /\ data \in [0 .. FifoSize - 1 -> Cells]
    /\ flag \in [Ends -> BOOLEAN] /\ fBLOCKREADINTR \in BOOLEAN
    /\ state \in [Ends -> {"OPENED", "CLOSING", "CLOSED"}]
    /\ last_state \in [Ends -> {"OPENED", "CLOSING", "CLOSED"}]
    /\ irq \in [Ends -> BOOLEAN] /\ asleep \in [Ends -> BOOLEAN]
    /\ ipc \in [Ends -> {"idle", "state", "update"}]
    /\ ch_flags \in [Ends -> BOOLEAN]
    /\ events \in 0 .. MaxEvents
    /\ smd_lock \in Readers \cup {None} /\ rx_lock \in Readers \cup {None}
    /\ tx_lock \in Writers \cup {None} /\ wrun \subseteq Writers
    /\ release \in [Ends -> {"no", "signalled", "closed", "null", "done"}]
    /\ current_packet \in Nat
    /\ hdr \in [buf : Seq(Cells), moved : BOOLEAN]
    /\ rpc \in [Readers -> {"idle", "wait", "sleep", "woken", "lock", "seg",
                            "done", "flag", "sub", "upd", "oops"}]
    /\ wpc \in [Writers -> {"idle", "arm", "lock", "check", "sched", "start",
                            "copy", "done", "flag", "notify", "oops"}]
    /\ rx \in [want : Nat, buf : Seq(Cells), n : Nat, drop : BOOLEAN]
    /\ tx \in [buf : Seq(Cells), pay : Seq(Cells), done : Nat, xfer : Nat]
    /\ count \in [Writers -> Lens \cup {0}]
    /\ needed_space \in Nat /\ blocking_write \in BOOLEAN
    /\ sent \in Nat
    /\ got \in Seq(Seq(Cells))

\* The BUG_ONs of ch_write_done and ch_read_done: the segment an end has
\* chosen from a snapshot of both indices still fits when it moves its own
\* index, whatever the other processor and its own handler did meanwhile.  And
\* the one of update_packet_state: a header that was there is read whole,
\* whoever else reads from the ring.
BugOnsHold ==
    /\ \A w \in Writers : wpc[w] = "done" => tx.xfer <= smd_stream_write_avail
    /\ \A r \in Readers : rpc[r] = "done" => rx.n <= smd_stream_read_avail
    /\ hdr.buf # <<>> => Len(hdr.buf) + smd_stream_read_avail >= HeaderSize

\* A reader never sleeps through a packet: once the whole of the current
\* packet is in the ring of an open channel, a sleeping reader wakes up
\* (the order of index, flag and interrupt in smd_stream_write and of clear,
\* update and notify in handle_smd_irq; smd_sleep_exit for the interrupts a
\* sleeping processor misses).
ReaderWoken ==
    \A r \in Readers :
        rpc[r] = "sleep" /\ ch_is_open("R") /\ tx_lock = None
        /\ CutPackets(current_packet, CellsUnderway) # <<>>
            ~> rpc[r] # "sleep" \/ ~ch_is_open("R")

\* A blocked writer does not sleep through the space it waits for: as long as
\* the readers keep reading, a writer in schedule() is woken, or the channel
\* closes, or the reading device is released (smd_enable_read_intr before the
\* test of the free space, the interrupts that reads and acknowledgements
\* raise, needed_space).  This is said of one writing thread: needed_space is
\* one word for all of them, holds the least length, and of two blocked writers
\* that of the longer packet may not be woken again.
WriterWoken ==
    (\A r \in Readers : []<>(rpc[r] # "idle")) =>
        \A w \in Writers :
            wpc[w] = "sched" ~>
                w \in wrun \/ ~ch_is_open("W") \/ release["R"] # "no"

\* "Here we have a whole packet waiting for us" (smd_pkt_read): a reader that
\* holds rx_lock and starts to read finds all of the current packet.
WholePacketWaiting ==
    \A r \in Readers :
        rpc[r] = "seg" /\ rx.buf = <<>> => smd_stream_read_avail >= rx.want
=============================================================================
