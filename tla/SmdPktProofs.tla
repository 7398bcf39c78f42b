---------------------------- MODULE SmdPktProofs ----------------------------
(***************************************************************************)
(* The type invariant and the assertions of the ring (BugOnsHold) of       *)
(* SmdPkt, proved for every size of ring and header, every set of packet   *)
(* lengths and any number of writing and reading threads; and, with one    *)
(* reading thread, that the device implements the queue of packets of      *)
(* PacketQueue.                                                            *)
(***************************************************************************)
EXTENDS SmdPkt, Recursion, SequenceTheorems, TLAPS

USE FifoAssumption

-----------------------------------------------------------------------------
(* The ring arithmetic.                                                    *)

\* Masking an index that is less than two rings ahead.
LEMMA ModOnce ==
  ASSUME NEW n \in Nat, NEW a \in Nat, a < n + n
  PROVE  a % n = IF a < n THEN a ELSE a - n
<1>1. CASE a < n
  BY <1>1, SMTT(30)
<1>2. CASE a >= n
  BY <1>2, SMTT(30)
<1> QED
  BY <1>1, <1>2

\* Cells in use of a ring of size n with the given indices.
Used(h, t) == IF t <= h THEN h - t ELSE h + FifoSize - t

LEMMA UsedRange ==
  ASSUME NEW h \in 0 .. FifoSize - 1, NEW t \in 0 .. FifoSize - 1
  PROVE  /\ Used(h, t) \in 0 .. FifoSize - 1
         /\ (h + FifoSize - t) % FifoSize = Used(h, t)
<1> DEFINE a == h + FifoSize - t
<1>1. a \in Nat /\ a < FifoSize + FifoSize /\ FifoSize \in Nat
  OBVIOUS
<1>2. a % FifoSize = IF a < FifoSize THEN a ELSE a - FifoSize
  <2> HIDE DEF a
  <2> QED
    BY <1>1, ModOnce
<1> QED
  BY <1>2 DEF Used

\* An index moved by at most a ring stays an index.
LEMMA WrapRange ==
  ASSUME NEW h \in 0 .. FifoSize - 1, NEW n \in Nat, n < FifoSize
  PROVE  /\ Wrap(h + n) \in 0 .. FifoSize - 1
         /\ Wrap(h + n) = IF h + n < FifoSize THEN h + n ELSE h + n - FifoSize
<1> DEFINE a == h + n
<1>1. a \in Nat /\ a < FifoSize + FifoSize /\ FifoSize \in Nat
  OBVIOUS
<1>2. a % FifoSize = IF a < FifoSize THEN a ELSE a - FifoSize
  <2> HIDE DEF a
  <2> QED
    BY <1>1, ModOnce
<1> QED
  BY <1>1, <1>2 DEF Wrap

\* Writing n cells that are free adds them to those in use; reading n that
\* are in use gives them back.
LEMMA Advance ==
  ASSUME NEW h \in 0 .. FifoSize - 1, NEW t \in 0 .. FifoSize - 1, NEW n \in Nat
  PROVE  /\ n <= (FifoSize - 1) - Used(h, t) =>
              Used(Wrap(h + n), t) = Used(h, t) + n
         /\ n <= Used(h, t) => Used(h, Wrap(t + n)) = Used(h, t) - n
<1>1. ASSUME n <= (FifoSize - 1) - Used(h, t)
      PROVE  Used(Wrap(h + n), t) = Used(h, t) + n
  <2>1. n < FifoSize
    BY <1>1, UsedRange
  <2> QED
    BY <1>1, <2>1, WrapRange DEF Used
<1>2. ASSUME n <= Used(h, t)
      PROVE  Used(h, Wrap(t + n)) = Used(h, t) - n
  <2>1. n < FifoSize
    BY <1>2, UsedRange
  <2> QED
    BY <1>2, <2>1, WrapRange DEF Used
<1> QED
  BY <1>1, <1>2

Indices == head \in 0 .. FifoSize - 1 /\ tail \in 0 .. FifoSize - 1

\* What the ring functions of smd.c compute.
LEMMA Avail ==
  ASSUME Indices
  PROVE  /\ smd_stream_read_avail = Used(head, tail)
         /\ smd_stream_write_avail = (FifoSize - 1) - Used(head, tail)
         /\ smd_stream_read_avail \in 0 .. FifoSize - 1
         /\ smd_stream_write_avail \in 0 .. FifoSize - 1
<1>1. /\ Used(head, tail) \in 0 .. FifoSize - 1
      /\ (head + FifoSize - tail) % FifoSize = Used(head, tail)
  BY UsedRange DEF Indices
<1> QED
  BY <1>1 DEF smd_stream_read_avail, smd_stream_write_avail

\* The same for the state after a step.
LEMMA AvailNext ==
  ASSUME head' \in 0 .. FifoSize - 1, tail' \in 0 .. FifoSize - 1
  PROVE  /\ smd_stream_read_avail' = Used(head', tail')
         /\ smd_stream_write_avail' = (FifoSize - 1) - Used(head', tail')
  BY UsedRange DEF smd_stream_read_avail, smd_stream_write_avail

\* The contiguous segments lie in the ring, inside what may be used.
LEMMA Segments ==
  ASSUME Indices
  PROVE  /\ ch_read_buffer \in 0 .. smd_stream_read_avail
         /\ ch_write_buffer \in 0 .. smd_stream_write_avail
         /\ tail + ch_read_buffer <= FifoSize
         /\ head + ch_write_buffer <= FifoSize
  BY Avail DEF Indices, ch_read_buffer, ch_write_buffer, Used

-----------------------------------------------------------------------------
(* The inductive invariant.                                                *)

\* The mutexes of the device: the write and the read in progress belong to
\* the thread that holds tx_lock or rx_lock.
UnderTx == {"check", "start", "copy", "done", "flag", "notify", "oops"}
UnderRx == {"seg", "done", "flag", "sub", "upd", "oops"}

Locks ==
  /\ \A w \in Writers : wpc[w] \in UnderTx => tx_lock = w
  /\ \A r \in Readers : rpc[r] \in UnderRx => rx_lock = r

\* The write in progress copies no more than it has left.
TxInv == \A w \in Writers : wpc[w] = "done" => tx.xfer <= Len(tx.buf)

\* Until the read in progress is accounted for, the current packet is the one
\* it wanted, so that nobody reads a header meanwhile; it is dropped only if a
\* buffer was too small.
Reading == {"seg", "done", "flag", "sub"}

RxInv ==
  \A r \in Readers :
     rpc[r] \in Reading =>
        /\ current_packet > 0 /\ rx.want = current_packet /\ Len(rx.buf) <= rx.want
        /\ rx.drop => \E size \in BufLens : size < rx.want

\* While a header is being read there is no current packet, so that no reader
\* takes cells off the ring.
HdrInv ==
  /\ hdr.buf # <<>> => current_packet = 0 /\ Len(hdr.buf) <= HeaderSize
  /\ hdr.moved => hdr.buf # <<>>

IInv == TypeOK /\ Locks /\ TxInv /\ RxInv /\ HdrInv /\ BugOnsHold

WriterPc == {"idle", "arm", "lock", "check", "sched", "start", "copy", "done",
             "flag", "notify", "oops"}
ReaderPc == {"idle", "wait", "sleep", "woken", "lock", "seg", "done", "flag",
             "sub", "upd", "oops"}
HdrType == [buf : Seq(Cells), moved : BOOLEAN]
TxType == [buf : Seq(Cells), pay : Seq(Cells), done : Nat, xfer : Nat]
RxType == [want : Nat, buf : Seq(Cells), n : Nat, drop : BOOLEAN]

\* A writer that moves to another place is at a place.
LEMMA PcMoves ==
  ASSUME NEW f \in [Writers -> WriterPc], NEW w \in Writers
  PROVE  \A pc \in {"idle", "check", "sched", "start", "copy"} :
            [f EXCEPT ![w] = pc] \in [Writers -> WriterPc]
  BY DEF WriterPc

LEMMA CountNat ==
  ASSUME NEW c \in [Writers -> Lens \cup {0}], NEW w \in Writers
  PROVE  c[w] \in Nat
<1>1. c[w] \in Lens \cup {0}
  OBVIOUS
<1>2. \A x \in Lens : x \in Nat
  BY FifoAssumption
<1>3. 0 \in Nat
  OBVIOUS
<1> QED
  BY <1>1, <1>2, <1>3, Zenon

\* A header or a payload is a sequence of cells.
LEMMA CellSeqs ==
  ASSUME NEW n \in Nat, NEW len \in Nat
  PROVE  /\ Header(len) \in Seq(Cells)
         /\ Packet(n, len) \in Seq(Cells)
  BY DEF Header, Packet, Cells

LEMMA InitIInv == Init => IInv
<1> SUFFICES ASSUME Init PROVE IInv
  OBVIOUS
<1>1. TypeOK
  BY DEF Init, TypeOK, Ends, Cells, NoRx, NoTx, NoHdr
<1> QED
  BY <1>1 DEF Init, IInv, Locks, TxInv, RxInv, HdrInv, UnderTx, UnderRx, Reading,
              BugOnsHold, NoHdr

\* Raising an interrupt keeps the type of irq.
LEMMA NotifyType ==
  ASSUME irq \in [Ends -> BOOLEAN], NEW e \in Ends, notify_other_cpu(e)
  PROVE  irq' \in [Ends -> BOOLEAN]
<1> DEFINE v == irq[Other(e)] \/ ~asleep[Other(e)]
<1>1. v \in BOOLEAN
  BY Zenon
<1>2. irq' = [irq EXCEPT ![Other(e)] = v]
  BY DEF notify_other_cpu
<1> HIDE DEF v
<1> QED
  BY <1>1, <1>2 DEF Ends, Other

\* The threads at work under a mutex are alone.
LEMMA Alone ==
  ASSUME Locks
  PROVE  /\ \A v, w \in Writers :
              /\ wpc[v] \in UnderTx
              /\ wpc[w] \in UnderTx
              => v = w
         /\ \A q, r \in Readers :
              /\ rpc[q] \in UnderRx
              /\ rpc[r] \in UnderRx
              => q = r
  BY DEF Locks, UnderTx, UnderRx

-----------------------------------------------------------------------------
(* The writer.                                                             *)

\* The steps that leave the ring and the write in progress alone.
LEMMA WriterWaits ==
  ASSUME IInv, NEW w \in Writers,
         \/ \E len \in Lens : WriteCall(w, len)
         \/ WriteArm(w) \/ WriteCheck(w) \/ WriteSched(w) \/ WriteNonBlocking(w)
         \/ WriteNull(w)
  PROVE  IInv'
<1> USE DEF IInv, irqVars, linkVars, rVars, ringVars
<1>1. ASSUME NEW len \in Lens, WriteCall(w, len) PROVE IInv'
  <2>2. /\ wpc[w] = "idle"
        /\ \E pc \in {"arm", "lock"} : wpc' = [wpc EXCEPT ![w] = pc]
        /\ count' = [count EXCEPT ![w] = len]
        /\ UNCHANGED <<ringVars, irqVars, linkVars, rVars, tx_lock, wrun,
                       needed_space, blocking_write, tx, sent>>
    BY <1>1 DEF WriteCall
  <2>3. wpc \in [Writers -> WriterPc]
    BY DEF TypeOK, WriterPc
  <2>1. TypeOK'
    BY <2>2, SMTT(30) DEF TypeOK
  <2>4. Locks' /\ TxInv' /\ RxInv' /\ HdrInv'
    BY <2>2, <2>3 DEF Locks, TxInv, RxInv, HdrInv, UnderTx, UnderRx, Reading
  <2>5. BugOnsHold'
    BY <2>2, <2>3 DEF BugOnsHold, smd_stream_read_avail, smd_stream_write_avail
  <2> QED
    BY <2>1, <2>4, <2>5
<1>2. CASE WriteArm(w)
  <2>2. /\ wpc[w] = "arm" /\ tx_lock = None
        /\ \/ wpc' = [wpc EXCEPT ![w] = "idle"] /\ tx_lock' = None /\ wrun' = wrun
           \/ wpc' = [wpc EXCEPT ![w] = "check"] /\ tx_lock' = w /\ wrun' = wrun \ {w}
        /\ UNCHANGED <<head, tail, data, flag, irqVars, linkVars, rVars, count,
                       needed_space, blocking_write, tx, sent>>
    BY <1>2 DEF WriteArm, WriteReturn
  <2>5. fBLOCKREADINTR' \in BOOLEAN
    <3>1. fBLOCKREADINTR' = fBLOCKREADINTR \/ fBLOCKREADINTR' = has_reset("W")
      BY <1>2 DEF WriteArm
    <3>2. has_reset("W") \in BOOLEAN
      BY DEF has_reset
    <3>3. fBLOCKREADINTR \in BOOLEAN
      BY DEF TypeOK
    <3> QED
      BY <3>1, <3>2, <3>3, Zenon
  <2>3. wpc \in [Writers -> WriterPc]
    BY DEF TypeOK, WriterPc
  <2>8. wrun \subseteq Writers
    BY DEF TypeOK
  <2>7. /\ wpc' \in [Writers -> WriterPc] /\ tx_lock' \in Writers \cup {None}
        /\ wrun' \subseteq Writers
    BY <2>2, <2>3, <2>8, PcMoves
  <2>1. TypeOK'
    BY <2>2, <2>5, <2>7 DEF TypeOK, WriterPc
  <2>4. Locks' /\ TxInv' /\ RxInv' /\ HdrInv'
    BY <2>2, <2>3, Alone DEF Locks, TxInv, RxInv, HdrInv, UnderTx, UnderRx, Reading
  <2>6. BugOnsHold'
    BY <2>2, <2>3 DEF BugOnsHold, smd_stream_read_avail, smd_stream_write_avail
  <2> QED
    BY <2>1, <2>4, <2>6
<1>3. CASE WriteCheck(w)
  <2>2. count[w] \in Nat
    BY CountNat DEF TypeOK
  <2>3. needed_space' \in Nat
    BY <1>3, <2>2 DEF TypeOK, WriteCheck
  <2>4. /\ wpc[w] = "check"
        /\ \/ wpc' = [wpc EXCEPT ![w] = "sched"] /\ tx_lock' = None
              /\ UNCHANGED <<wrun, fBLOCKREADINTR>>
           \/ wpc' = [wpc EXCEPT ![w] = "start"] /\ UNCHANGED tx_lock
              /\ wrun' = wrun \cup {w} /\ fBLOCKREADINTR' = TRUE
           \/ wpc' = [wpc EXCEPT ![w] = "idle"] /\ tx_lock' = None
              /\ wrun' = wrun \cup {w} /\ fBLOCKREADINTR' = TRUE
        /\ UNCHANGED <<head, tail, data, flag, irqVars, linkVars, rVars, count,
                       blocking_write, tx, sent>>
    BY <1>3 DEF WriteCheck, WriteReturn
  <2>7. wpc \in [Writers -> WriterPc]
    BY DEF TypeOK, WriterPc
  <2>9. /\ tx_lock \in Writers \cup {None} /\ wrun \subseteq Writers
        /\ fBLOCKREADINTR \in BOOLEAN
    BY DEF TypeOK
  <2>10. wpc' \in [Writers -> WriterPc]
    BY <2>4, <2>7, PcMoves
  <2>11. tx_lock' \in Writers \cup {None}
    BY <2>4, <2>9
  <2>12. wrun' \subseteq Writers
    BY <2>4, <2>9
  <2>8. fBLOCKREADINTR' \in BOOLEAN
    <3>1. fBLOCKREADINTR' = fBLOCKREADINTR \/ fBLOCKREADINTR' = TRUE
      BY <2>4, Zenon
    <3> QED
      BY <3>1, <2>9, Zenon
  <2>1. TypeOK'
    BY <2>3, <2>4, <2>8, <2>10, <2>11, <2>12 DEF TypeOK, WriterPc
  <2>5. Locks' /\ TxInv' /\ RxInv' /\ HdrInv'
    BY <2>4, <2>7, Alone DEF Locks, TxInv, RxInv, HdrInv, UnderTx, UnderRx, Reading
  <2>6. BugOnsHold'
    BY <2>4, SMTT(30) DEF TypeOK, BugOnsHold, smd_stream_read_avail, smd_stream_write_avail
  <2> QED
    BY <2>1, <2>5, <2>6
<1>4. CASE WriteSched(w)
  <2>1. TypeOK'
    BY <1>4, ZenonT(40) DEF TypeOK, WriteSched
  <2> QED
    BY <1>4, <2>1, SMTT(30) DEF WriteSched, TypeOK, Locks, TxInv, RxInv, HdrInv, UnderTx, UnderRx, Reading, BugOnsHold,
                      smd_stream_read_avail, smd_stream_write_avail
<1>5. CASE WriteNonBlocking(w)
  <2>2. /\ wpc[w] = "lock" /\ tx_lock = None
        /\ \/ wpc' = [wpc EXCEPT ![w] = "idle"] /\ tx_lock' = None
           \/ wpc' = [wpc EXCEPT ![w] = "start"] /\ tx_lock' = w
        /\ UNCHANGED <<ringVars, irqVars, linkVars, rVars, wrun, count,
                       needed_space, blocking_write, tx, sent>>
    BY <1>5 DEF WriteNonBlocking, WriteReturn
  <2>3. wpc \in [Writers -> WriterPc]
    BY DEF TypeOK, WriterPc
  <2>6. wpc' \in [Writers -> WriterPc] /\ tx_lock' \in Writers \cup {None}
    BY <2>2, <2>3, PcMoves
  <2>1. TypeOK'
    BY <2>2, <2>6 DEF TypeOK, WriterPc
  <2>4. Locks' /\ TxInv' /\ RxInv' /\ HdrInv'
    BY <2>2, <2>3, Alone DEF Locks, TxInv, RxInv, HdrInv, UnderTx, UnderRx, Reading
  <2>5. BugOnsHold'
    BY <2>2, <2>3 DEF BugOnsHold, smd_stream_read_avail, smd_stream_write_avail
  <2> QED
    BY <2>1, <2>4, <2>5
<1>6. CASE WriteNull(w)
  <2>2. /\ wpc[w] \in {"check", "start", "lock"}
        /\ wpc[w] \in UnderTx \/ tx_lock = None
        /\ wpc' = [wpc EXCEPT ![w] = "oops"] /\ tx_lock' = w
        /\ UNCHANGED <<ringVars, irqVars, linkVars, rVars, wrun, count,
                       needed_space, blocking_write, tx, sent>>
    BY <1>6 DEF WriteNull, WriteOops, UnderTx
  <2>3. wpc \in [Writers -> WriterPc]
    BY DEF TypeOK, WriterPc
  <2>1. TypeOK'
    BY <2>2, SMTT(30) DEF TypeOK
  <2>4. \A v \in Writers : v # w => wpc'[v] = wpc[v] /\ wpc[v] \notin UnderTx
    BY <2>2, <2>3, FifoAssumption DEF Locks
  <2>5. Locks' /\ TxInv' /\ RxInv' /\ HdrInv'
    BY <2>2, <2>3, <2>4 DEF Locks, TxInv, RxInv, HdrInv
  <2>6. BugOnsHold'
    BY <2>2, <2>3 DEF BugOnsHold, smd_stream_read_avail, smd_stream_write_avail
  <2> QED
    BY <2>1, <2>5, <2>6
<1> QED
  BY <1>1, <1>2, <1>3, <1>4, <1>5, <1>6

\* smd_packet_write starts: the header, then the payload.
LEMMA WriterStarts ==
  ASSUME IInv, NEW w \in Writers, WriteStart(w)
  PROVE  IInv'
<1> USE DEF IInv, irqVars, linkVars, rVars, ringVars
<1>1. count[w] \in Nat
  BY CountNat DEF TypeOK
<1>4. sent + 1 \in Nat
  BY DEF TypeOK
<1>2. tx' \in TxType
  <2>1. CASE tx' = tx
    BY <2>1 DEF TypeOK, TxType
  <2>2. CASE tx' = [NoTx EXCEPT !.buf = Header(count[w]),
                                !.pay = Packet(sent + 1, count[w])]
    BY <2>2, <1>1, <1>4, CellSeqs DEF NoTx, TxType
  <2> QED
    BY <2>1, <2>2 DEF WriteStart
<1>5. /\ wpc[w] = "start" /\ needed_space' = 0
      /\ \/ wpc' = [wpc EXCEPT ![w] = "idle"] /\ tx_lock' = None
         \/ wpc' = [wpc EXCEPT ![w] = "copy"] /\ UNCHANGED tx_lock
      /\ UNCHANGED <<ringVars, irqVars, linkVars, rVars, wrun, count,
                     blocking_write, sent>>
  BY DEF WriteStart, WriteReturn
<1>8. wpc \in [Writers -> WriterPc]
  BY DEF TypeOK, WriterPc
<1>10. tx_lock \in Writers \cup {None}
  BY DEF TypeOK
<1>9. wpc' \in [Writers -> WriterPc] /\ tx_lock' \in Writers \cup {None}
  BY <1>5, <1>8, <1>10, PcMoves
<1>3. TypeOK'
  BY <1>2, <1>5, <1>9 DEF TypeOK, TxType, WriterPc
<1>6. Locks' /\ TxInv' /\ RxInv' /\ HdrInv'
  BY <1>5, <1>8, Alone DEF Locks, TxInv, RxInv, HdrInv, UnderTx, UnderRx, Reading
<1>7. BugOnsHold'
  BY <1>5, <1>8, Alone
     DEF BugOnsHold, UnderTx, smd_stream_read_avail, smd_stream_write_avail
<1> QED
  BY <1>3, <1>6, <1>7

\* A segment is copied into the ring where it is free.
LEMMA WriterCopies ==
  ASSUME IInv, NEW w \in Writers, WriteCopy(w)
  PROVE  IInv'
<1> USE DEF IInv, irqVars, linkVars, rVars, ringVars
<1> DEFINE n == Least(ch_write_buffer, Len(tx.buf))
<1>1. Indices /\ Len(tx.buf) \in Nat
  BY DEF TypeOK, Indices
<1>2. /\ n \in Nat /\ n <= Len(tx.buf)
      /\ n <= smd_stream_write_avail /\ head + n <= FifoSize
  BY <1>1, Avail, Segments, SMTT(30) DEF Least, Indices
<1>3. \A i \in DOMAIN data : head <= i /\ i < head + n => tx.buf[i - head + 1] \in Cells
  <2> SUFFICES ASSUME NEW i \in 0 .. FifoSize - 1, head <= i, i < head + n
               PROVE  tx.buf[i - head + 1] \in Cells
    BY DEF TypeOK
  <2>1. i - head + 1 \in 1 .. Len(tx.buf)
    BY <1>1, <1>2 DEF Indices
  <2> QED
    BY <2>1, SMTT(30) DEF TypeOK
<1>4. data' \in [0 .. FifoSize - 1 -> Cells]
  BY <1>3 DEF TypeOK, WriteCopy
<1>5. tx' \in [buf : Seq(Cells), pay : Seq(Cells), done : Nat, xfer : Nat]
      /\ tx'.xfer = n /\ tx'.buf = tx.buf
  BY <1>2 DEF TypeOK, WriteCopy
<1>6. TypeOK'
  BY <1>4, <1>5 DEF TypeOK, WriteCopy
<1>7. Locks' /\ TxInv' /\ RxInv' /\ HdrInv'
  BY <1>2, <1>5 DEF WriteCopy, TypeOK, Locks, TxInv, RxInv, HdrInv, UnderTx, UnderRx, Reading
<1>8. BugOnsHold'
  <2>1. smd_stream_write_avail' = smd_stream_write_avail
        /\ smd_stream_read_avail' = smd_stream_read_avail
    BY DEF WriteCopy, smd_stream_write_avail, smd_stream_read_avail
  <2> QED
    BY <2>1, <1>2, <1>5 DEF WriteCopy, BugOnsHold, TypeOK
<1> QED
  BY <1>6, <1>7, <1>8

\* The head moves over cells that were free.
LEMMA WriterMovesHead ==
  ASSUME IInv, NEW w \in Writers, WriteDone(w)
  PROVE  IInv'
<1> USE DEF IInv, irqVars, linkVars, rVars, ringVars
<1>1. Indices /\ tx.xfer \in Nat /\ Len(tx.buf) \in Nat /\ tx.xfer <= Len(tx.buf)
  BY DEF TypeOK, Indices, TxInv, WriteDone
<1>2. tx.xfer <= (FifoSize - 1) - Used(head, tail)
  BY <1>1, Avail DEF BugOnsHold, WriteDone
<1>3. tx.xfer < FifoSize /\ head' = Wrap(head + tx.xfer) /\ tail' = tail
  <2>1. Used(head, tail) \in 0 .. FifoSize - 1
    BY <1>1, UsedRange DEF Indices
  <2> QED
    BY <1>1, <1>2, <2>1 DEF WriteDone
<1>4. Indices' /\ Used(head', tail') = Used(head, tail) + tx.xfer
  BY <1>1, <1>2, <1>3, Advance, WrapRange DEF Indices
<1>5. smd_stream_read_avail' >= smd_stream_read_avail
  <2>1. smd_stream_read_avail' = Used(head', tail')
    BY <1>4, AvailNext DEF Indices
  <2> QED
    BY <2>1, <1>1, <1>4, Avail
<1> DEFINE rest == SubSeq(tx.buf, tx.xfer + 1, Len(tx.buf))
<1>6. rest \in Seq(Cells)
  <2>1. \A i \in tx.xfer + 1 .. Len(tx.buf) : tx.buf[i] \in Cells
    BY <1>1 DEF TypeOK
  <2> QED
    BY <2>1, <1>1, SubSeqProperties
<1>7. tx' \in TxType
  <2>1. tx' = [tx EXCEPT !.buf = rest, !.done = @ + tx.xfer, !.xfer = 0]
    BY DEF WriteDone
  <2>2. tx \in TxType
    BY DEF TypeOK, TxType
  <2>3. tx.done + tx.xfer \in Nat
    BY <2>2, <1>1 DEF TxType
  <2> HIDE DEF rest
  <2> QED
    BY <2>1, <2>2, <2>3, <1>6 DEF TxType
<1>8. TypeOK'
  <2>1. sent' \in Nat
    <3>1. sent' \in {sent, sent + 1}
      BY DEF WriteDone
    <3> QED
      BY <3>1 DEF TypeOK
  <2> QED
    BY <1>4, <1>7, <2>1 DEF TypeOK, WriteDone, Indices, TxType
<1>9. /\ wpc[w] = "done" /\ wpc'[w] = "flag"
      /\ \A v \in Writers : v # w => wpc'[v] = wpc[v] /\ wpc[v] # "done"
      /\ UNCHANGED <<tx_lock, rVars>>
  BY DEF WriteDone, TypeOK, Locks, UnderTx
<1>10. Locks' /\ TxInv' /\ RxInv' /\ HdrInv'
  BY <1>9 DEF Locks, TxInv, RxInv, HdrInv, UnderTx, UnderRx, Reading
<1>11. BugOnsHold'
  <2>3. Len(hdr.buf) \in Nat
    BY DEF TypeOK
  <2>1. \A r \in Readers : rpc[r] = "done" => rx.n \in Nat /\ rx.n <= smd_stream_read_avail
    BY DEF BugOnsHold, TypeOK
  <2>2. smd_stream_read_avail \in Nat /\ smd_stream_read_avail' \in Nat
    <3>1. smd_stream_read_avail = Used(head, tail) /\ smd_stream_read_avail' = Used(head', tail')
      BY <1>1, <1>4, Avail, AvailNext DEF Indices
    <3>2. Used(head, tail) \in 0 .. FifoSize - 1 /\ Used(head', tail') \in 0 .. FifoSize - 1
      BY <1>1, <1>4, UsedRange DEF Indices
    <3> QED
      BY <3>1, <3>2
  <2> QED
    BY <2>1, <2>2, <2>3, <1>9, <1>5 DEF BugOnsHold
<1> QED
  BY <1>8, <1>10, <1>11

\* fHEAD is set.
LEMMA WriterFlags ==
  ASSUME IInv, NEW w \in Writers, WriteFlag(w)
  PROVE  IInv'
<1> USE DEF IInv, irqVars, linkVars, rVars, ringVars
<1>1. /\ wpc[w] = "flag"
      /\ \E pc \in {"notify", "copy"} : wpc' = [wpc EXCEPT ![w] = pc]
      /\ flag' = [flag EXCEPT !["R"] = TRUE]
      /\ UNCHANGED <<head, tail, data, fBLOCKREADINTR, irqVars, linkVars, rVars,
                     tx_lock, wrun, count, needed_space, blocking_write, tx, sent>>
  BY DEF WriteFlag
<1>2. TypeOK'
  BY <1>1 DEF TypeOK, Ends
<1>3. wpc \in [Writers -> WriterPc]
  BY DEF TypeOK, WriterPc
<1>4. Locks' /\ TxInv' /\ RxInv' /\ HdrInv'
  BY <1>1, <1>3 DEF Locks, TxInv, RxInv, HdrInv, UnderTx, UnderRx, Reading
<1>5. BugOnsHold'
  BY <1>1, <1>3 DEF BugOnsHold, smd_stream_read_avail, smd_stream_write_avail
<1> QED
  BY <1>2, <1>4, <1>5

\* The payload follows the header, or the write is over or given up.
LEMMA WriterEnds ==
  ASSUME IInv, NEW w \in Writers, WriteNotify(w) \/ WriteBreak(w)
  PROVE  IInv'
<1> USE DEF IInv, irqVars, linkVars, rVars, ringVars
<1>1. /\ wpc[w] \in {"notify", "copy"}
      /\ \/ wpc' = [wpc EXCEPT ![w] = "idle"] /\ tx_lock' = None
         \/ wpc' = [wpc EXCEPT ![w] = "copy"] /\ UNCHANGED tx_lock
      /\ UNCHANGED <<ringVars, ipc, ch_flags, asleep, linkVars, rVars, wrun,
                     count, needed_space, blocking_write, sent>>
  BY DEF WriteNotify, WriteBreak, WriteReturn
<1>2. tx' \in TxType
  <2>1. tx.pay \in Seq(Cells) /\ <<>> \in Seq(Cells)
    BY DEF TypeOK
  <2>2. tx' = [NoTx EXCEPT !.buf = tx.pay] \/ tx' = NoTx
    BY DEF WriteNotify, WriteBreak
  <2>3. [NoTx EXCEPT !.buf = tx.pay] = [buf |-> tx.pay, pay |-> <<>>, done |-> 0, xfer |-> 0]
    BY DEF NoTx
  <2>4. [buf |-> tx.pay, pay |-> <<>>, done |-> 0, xfer |-> 0] \in TxType
    BY <2>1 DEF TxType
  <2>5. NoTx \in TxType
    BY <2>1 DEF NoTx, TxType
  <2> QED
    BY <2>2, <2>3, <2>4, <2>5
<1>3. irq' \in [Ends -> BOOLEAN]
  <2>1. notify_other_cpu("W") \/ UNCHANGED irq
    BY DEF WriteNotify, WriteBreak
  <2> QED
    BY <2>1, NotifyType DEF TypeOK, Ends
<1>4. TypeOK'
  BY <1>1, <1>2, <1>3, SMTT(30) DEF TypeOK, TxType
<1>5. wpc \in [Writers -> WriterPc]
  BY DEF TypeOK, WriterPc
<1>6. Locks' /\ TxInv' /\ RxInv' /\ HdrInv'
  BY <1>1, <1>5, Alone DEF Locks, TxInv, RxInv, HdrInv, UnderTx, UnderRx, Reading
<1>7. BugOnsHold'
  BY <1>1, <1>5, Alone
     DEF BugOnsHold, UnderTx, smd_stream_read_avail, smd_stream_write_avail
<1> QED
  BY <1>4, <1>6, <1>7

-----------------------------------------------------------------------------
(* The reader.                                                             *)

\* The steps that leave the ring alone.
LEMMA ReaderWaits ==
  ASSUME IInv, NEW r \in Readers, ReadCall(r) \/ ReadWait(r) \/ ReadWoken(r)
  PROVE  IInv'
<1> USE DEF IInv, irqVars, linkVars, wVars, ringVars
<1>1. /\ rpc[r] \in {"idle", "wait", "woken"}
      /\ \E pc \in {"idle", "woken", "lock", "sleep"} : rpc' = [rpc EXCEPT ![r] = pc]
      /\ UNCHANGED <<ringVars, irqVars, linkVars, wVars, current_packet, hdr,
                     smd_lock, rx_lock, rx, got>>
  BY DEF ReadCall, ReadWait, ReadWoken, WaitForPacket
<1>2. TypeOK'
  BY <1>1, SMTT(30) DEF TypeOK
<1>3. rpc \in [Readers -> ReaderPc]
  BY DEF TypeOK, ReaderPc
<1> QED
  BY <1>1, <1>2, <1>3 DEF Locks, TxInv, RxInv, HdrInv, UnderTx, UnderRx, Reading, BugOnsHold,
                          smd_stream_read_avail, smd_stream_write_avail

\* A reader finds the channel gone, and keeps rx_lock.
LEMMA ReaderDies ==
  ASSUME IInv, NEW r \in Readers, ReadNull(r)
  PROVE  IInv'
<1> USE DEF IInv, irqVars, linkVars, wVars, ringVars
<1>1. /\ rpc[r] = "lock" /\ rx_lock = None
      /\ rpc' = [rpc EXCEPT ![r] = "oops"] /\ rx_lock' = r
      /\ UNCHANGED <<ringVars, irqVars, linkVars, wVars, current_packet, hdr,
                     smd_lock, rx, got>>
  BY DEF ReadNull
<1>2. TypeOK'
  BY <1>1 DEF TypeOK
<1>3. rpc \in [Readers -> ReaderPc]
  BY DEF TypeOK, ReaderPc
<1>4. \A q \in Readers : rpc[q] \notin UnderRx
  BY <1>1, FifoAssumption DEF Locks
<1>5. Locks' /\ TxInv' /\ RxInv' /\ HdrInv'
  BY <1>1, <1>3, <1>4 DEF Locks, TxInv, RxInv, HdrInv, UnderTx, UnderRx, Reading
<1>6. BugOnsHold'
  BY <1>1, <1>3 DEF BugOnsHold, smd_stream_read_avail, smd_stream_write_avail
<1> QED
  BY <1>2, <1>5, <1>6

\* A read starts, with rx_lock, on a current packet that is not empty.
LEMMA ReaderStarts ==
  ASSUME IInv, NEW r \in Readers, NEW len \in BufLens, ReadLock(r, len)
  PROVE  IInv'
<1> USE DEF IInv, irqVars, linkVars, wVars, ringVars
<1>1. current_packet \in Nat /\ rpc \in [Readers -> ReaderPc] /\ rx \in RxType
  BY DEF TypeOK, ReaderPc, RxType
<1>2. /\ rpc[r] = "lock" /\ rx_lock = None
      /\ UNCHANGED <<ringVars, irqVars, linkVars, wVars, current_packet, hdr,
                     smd_lock, got>>
  BY DEF ReadLock
<1>3. CASE NothingToRead
  <2>1. rpc' = [rpc EXCEPT ![r] = "wait"] /\ UNCHANGED <<rx_lock, rx>>
    BY <1>3 DEF ReadLock
  <2>2. TypeOK'
    BY <1>2, <2>1 DEF TypeOK
  <2> QED
    BY <1>1, <1>2, <2>1, <2>2 DEF Locks, TxInv, RxInv, HdrInv, UnderTx, UnderRx, Reading, BugOnsHold,
                          smd_stream_read_avail, smd_stream_write_avail
<1>4. CASE ~NothingToRead
  <2>1. /\ rpc' = [rpc EXCEPT ![r] = "seg"] /\ rx_lock' = r
        /\ rx' = [NoRx EXCEPT !.want = current_packet, !.drop = current_packet > len]
    BY <1>4 DEF ReadLock
  <2>2. current_packet > 0
    BY <1>1, <1>4 DEF NothingToRead
  <2>3. /\ rx' \in RxType /\ rx'.want = current_packet /\ rx'.buf = <<>>
        /\ Len(rx'.buf) = 0
        /\ rx'.drop => \E size \in BufLens : size < rx'.want
    <3> DEFINE d == current_packet > len
    <3>1. d \in BOOLEAN
      <4>1. len \in Nat
        BY FifoAssumption
      <4> QED
        BY <1>1, <4>1
    <3>2. rx' = [NoRx EXCEPT !.want = current_packet, !.drop = d]
      BY <2>1
    <3> HIDE DEF d
    <3>3. rx' = [want |-> current_packet, buf |-> <<>>, n |-> 0, drop |-> d]
      BY <3>2 DEF NoRx
    <3>4. d => \E size \in BufLens : size < current_packet
      <4>1. len \in Nat
        BY FifoAssumption
      <4> QED
        BY <1>1, <4>1 DEF d
    <3> QED
      BY <1>1, <3>1, <3>3, <3>4 DEF RxType
  <2>4. TypeOK'
    BY <1>2, <2>1, <2>3 DEF TypeOK, RxType
  <2>5. \A q \in Readers : rpc[q] \notin UnderRx
    BY <1>2, FifoAssumption DEF Locks
  <2>6. Locks' /\ TxInv' /\ RxInv' /\ HdrInv'
    BY <1>1, <1>2, <2>1, <2>2, <2>3, <2>5 DEF Locks, TxInv, RxInv, HdrInv, UnderTx, UnderRx, Reading
  <2>7. BugOnsHold'
    BY <1>1, <1>2, <2>1, <2>5
       DEF BugOnsHold, UnderRx, smd_stream_read_avail, smd_stream_write_avail
  <2> QED
    BY <2>4, <2>6, <2>7
<1> QED
  BY <1>3, <1>4

\* A segment is copied out of the ring.
LEMMA ReaderCopies ==
  ASSUME IInv, NEW r \in Readers, ReadSeg(r)
  PROVE  IInv'
<1> USE DEF IInv, irqVars, linkVars, wVars, ringVars
<1> DEFINE n == Least(ch_read_buffer, rx.want - Len(rx.buf))
           seg == [i \in 1 .. n |-> data[tail + i - 1]]
<1>1. /\ Indices /\ rpc \in [Readers -> ReaderPc] /\ rx \in RxType
      /\ Len(rx.buf) \in Nat /\ data \in [0 .. FifoSize - 1 -> Cells]
  BY DEF TypeOK, ReaderPc, RxType, Indices
<1>2. rpc[r] = "seg" /\ rx.want \in Nat /\ rx.want = current_packet /\ Len(rx.buf) < rx.want
  BY <1>1 DEF ReadSeg, RxInv, RxType, Reading
<1>3. /\ n \in Nat /\ Len(rx.buf) + n <= rx.want
      /\ n <= smd_stream_read_avail /\ tail + n <= FifoSize
  <2>1. /\ smd_stream_read_avail \in Nat /\ ch_read_buffer \in 0 .. smd_stream_read_avail
        /\ tail + ch_read_buffer <= FifoSize /\ tail \in Nat
    BY <1>1, Avail, Segments DEF Indices
  <2>2. rx.want - Len(rx.buf) \in Nat
    BY <1>1, <1>2
  <2> QED
    BY <1>1, <1>2, <2>1, <2>2, SMTT(30) DEF Least
<1>4. seg \in Seq(Cells) /\ Len(seg) = n
  <2>1. \A i \in 1 .. n : data[tail + i - 1] \in Cells
    BY <1>1, <1>3 DEF Indices
  <2> HIDE DEF n
  <2> QED
    BY <1>3, <2>1
<1>5. rx.buf \o seg \in Seq(Cells) /\ Len(rx.buf \o seg) = Len(rx.buf) + n
  BY <1>1, <1>4, ConcatProperties DEF RxType
<1>6. /\ rpc' = [rpc EXCEPT ![r] = "done"]
      /\ rx' = [rx EXCEPT !.n = n, !.buf = @ \o seg]
      /\ UNCHANGED <<ringVars, irqVars, linkVars, wVars, current_packet, hdr,
                     smd_lock, rx_lock, got>>
  BY DEF ReadSeg
<1>7. /\ rx' \in RxType /\ rx'.want = rx.want /\ rx'.n = n /\ rx'.buf = rx.buf \o seg
      /\ rx'.drop = rx.drop
  <2> HIDE DEF n, seg
  <2> QED
    BY <1>1, <1>3, <1>5, <1>6 DEF RxType
<1>8. TypeOK'
  BY <1>6, <1>7 DEF TypeOK, RxType
<1>9. Locks' /\ TxInv' /\ RxInv' /\ HdrInv'
  <2> HIDE DEF n, seg
  <2>1. Len(rx'.buf) <= rx'.want
    BY <1>2, <1>3, <1>5, <1>7
  <2> QED
    BY <1>1, <1>2, <1>6, <1>7, <2>1, Alone DEF Locks, TxInv, RxInv, HdrInv, UnderTx, UnderRx, Reading
<1>10. BugOnsHold'
  <2> HIDE DEF n, seg
  <2> QED
    BY <1>1, <1>2, <1>3, <1>6, <1>7, Alone
       DEF BugOnsHold, smd_stream_read_avail, smd_stream_write_avail
<1> QED
  BY <1>8, <1>9, <1>10

\* Taking n cells that are in use off the ring: the free space only grows.
LEMMA TailMoves ==
  ASSUME Indices, NEW n \in Nat, n <= smd_stream_read_avail,
         tail' = Wrap(tail + n), head' = head
  PROVE  Indices' /\ smd_stream_write_avail' >= smd_stream_write_avail
         /\ smd_stream_write_avail' \in Nat
<1>1. /\ smd_stream_read_avail = Used(head, tail) /\ Used(head, tail) \in 0 .. FifoSize - 1
      /\ smd_stream_write_avail = (FifoSize - 1) - Used(head, tail)
  BY Avail, UsedRange DEF Indices
<1>2. n < FifoSize
  BY <1>1
<1>3. Indices'
  BY <1>2, WrapRange DEF Indices
<1>4. Used(head', tail') = Used(head, tail) - n
  BY <1>1, Advance DEF Indices
<1>5. smd_stream_write_avail' = (FifoSize - 1) - Used(head', tail')
  BY <1>3, AvailNext DEF Indices
<1> QED
  BY <1>1, <1>3, <1>4, <1>5

\* The tail moves over the segment that was read.
LEMMA ReaderMovesTail ==
  ASSUME IInv, NEW r \in Readers, ReadDone(r)
  PROVE  IInv'
<1> USE DEF IInv, irqVars, linkVars, wVars
<1>1. /\ Indices /\ rpc \in [Readers -> ReaderPc] /\ rx \in RxType /\ rx.n \in Nat
      /\ flag \in [Ends -> BOOLEAN]
  BY DEF TypeOK, ReaderPc, RxType, Indices
<1>2. /\ rpc[r] = "done" /\ rpc' = [rpc EXCEPT ![r] = "flag"]
      /\ tail' = Wrap(tail + rx.n)
      /\ rx' = [rx EXCEPT !.n = 0]
      /\ UNCHANGED <<head, data, flag, fBLOCKREADINTR, irqVars, linkVars, wVars,
                     current_packet, hdr, smd_lock, rx_lock, got>>
  BY DEF ReadDone
<1>3. /\ Indices' /\ smd_stream_write_avail' >= smd_stream_write_avail
      /\ smd_stream_write_avail' \in Nat
  BY <1>1, <1>2, TailMoves DEF BugOnsHold
<1>4. rx' \in RxType /\ rx'.want = rx.want /\ rx'.buf = rx.buf /\ rx'.drop = rx.drop
  BY <1>1, <1>2 DEF RxType
<1>5. TypeOK'
  BY <1>2, <1>3, <1>4 DEF TypeOK, RxType, Indices, Ends
<1>6. Locks' /\ TxInv' /\ RxInv' /\ HdrInv'
  BY <1>1, <1>2, <1>4, Alone DEF Locks, TxInv, RxInv, HdrInv, UnderTx, UnderRx, Reading
<1>7. BugOnsHold'
  <2>1. \A q \in Readers : rpc'[q] # "done"
    BY <1>1, <1>2, Alone DEF UnderRx
  <2>2. tx.xfer \in Nat /\ smd_stream_write_avail \in Nat
    BY <1>1, Avail DEF TypeOK
  <2>3. hdr' = hdr /\ hdr.buf = <<>>
    BY <1>2, TypeOK DEF RxInv, HdrInv, Reading, TypeOK
  <2> QED
    BY <1>2, <1>3, <2>1, <2>2, <2>3 DEF BugOnsHold
<1> QED
  BY <1>5, <1>6, <1>7

\* fTAIL is set.
LEMMA ReaderFlags ==
  ASSUME IInv, NEW r \in Readers, ReadFlag(r)
  PROVE  IInv'
<1> USE DEF IInv, irqVars, linkVars, wVars, ringVars
<1>1. /\ rpc[r] = "flag" /\ rpc' = [rpc EXCEPT ![r] = "seg"]
      /\ flag' = [flag EXCEPT !["W"] = TRUE]
      /\ UNCHANGED <<head, tail, data, fBLOCKREADINTR, irqVars, linkVars, wVars,
                     current_packet, hdr, smd_lock, rx_lock, rx, got>>
  BY DEF ReadFlag
<1>2. TypeOK'
  BY <1>1 DEF TypeOK, Ends
<1>3. rpc \in [Readers -> ReaderPc]
  BY DEF TypeOK, ReaderPc
<1>4. Locks' /\ TxInv' /\ RxInv' /\ HdrInv'
  BY <1>1, <1>3 DEF Locks, TxInv, RxInv, HdrInv, UnderTx, UnderRx, Reading
<1>5. BugOnsHold'
  BY <1>1, <1>3 DEF BugOnsHold, smd_stream_read_avail, smd_stream_write_avail
<1> QED
  BY <1>2, <1>4, <1>5

\* The read is announced: nothing of the invariant but the types is touched.
LEMMA ReaderAcks ==
  ASSUME IInv, NEW r \in Readers, ReadAck(r)
  PROVE  IInv'
<1> USE DEF IInv, linkVars, wVars, ringVars
<1>1. /\ rpc[r] = "seg" /\ rpc' = [rpc EXCEPT ![r] = "sub"]
      /\ notify_other_cpu("R") \/ UNCHANGED irq
      /\ UNCHANGED <<ringVars, ipc, ch_flags, asleep, linkVars, wVars,
                     current_packet, hdr, smd_lock, rx_lock, rx, got>>
  BY DEF ReadAck
<1>2. irq' \in [Ends -> BOOLEAN]
  BY <1>1, NotifyType DEF TypeOK, Ends
<1>3. TypeOK'
  BY <1>1, <1>2 DEF TypeOK
<1>4. rpc \in [Readers -> ReaderPc]
  BY DEF TypeOK, ReaderPc
<1>5. Locks' /\ TxInv' /\ RxInv' /\ HdrInv'
  BY <1>1, <1>4, Alone DEF Locks, TxInv, RxInv, HdrInv, UnderTx, UnderRx, Reading
<1>6. BugOnsHold'
  BY <1>1, <1>4 DEF BugOnsHold, smd_stream_read_avail, smd_stream_write_avail
<1> QED
  BY <1>3, <1>5, <1>6

\* The packet is accounted for: no more is taken off than was there.
LEMMA ReaderAccounts ==
  ASSUME IInv, NEW r \in Readers, ReadSub(r)
  PROVE  IInv'
<1> USE DEF IInv, irqVars, linkVars, wVars, ringVars
<1>1. /\ rpc \in [Readers -> ReaderPc] /\ rx \in RxType /\ rx.buf \in Seq(Cells)
      /\ Len(rx.buf) \in Nat /\ current_packet \in Nat /\ got \in Seq(Seq(Cells))
  BY SMTT(30) DEF TypeOK, ReaderPc, RxType
<1>2. /\ rpc[r] = "sub" /\ rpc' = [rpc EXCEPT ![r] = "upd"]
      /\ smd_lock' = r
      /\ current_packet' = current_packet - Len(rx.buf)
      /\ got' \in {got, Append(got, rx.buf)}
      /\ rx' = [NoRx EXCEPT !.drop = rx.drop \/ Len(rx.buf) # rx.want]
      /\ UNCHANGED <<ringVars, irqVars, linkVars, wVars, hdr, rx_lock>>
  BY DEF ReadSub
<1>3. current_packet' \in Nat
  BY <1>1, <1>2 DEF RxInv, Reading
<1>4. got' \in Seq(Seq(Cells))
  <2>1. Append(got, rx.buf) \in Seq(Seq(Cells))
    BY <1>1, AppendProperties
  <2> QED
    BY <1>1, <1>2, <2>1
<1>5. rx' \in RxType
  <2> DEFINE d == rx.drop \/ Len(rx.buf) # rx.want
  <2>2. d \in BOOLEAN
    BY Zenon
  <2>3. rx' = [NoRx EXCEPT !.drop = d]
    BY <1>2
  <2> HIDE DEF d
  <2>1. rx' = [want |-> 0, buf |-> <<>>, n |-> 0, drop |-> d]
    BY <2>3 DEF NoRx
  <2> QED
    BY <2>1, <2>2 DEF RxType
<1>6. TypeOK'
  BY <1>2, <1>3, <1>4, <1>5 DEF TypeOK, RxType
<1>7. \A q \in Readers : rpc'[q] \notin Reading
  BY <1>1, <1>2, Alone DEF Reading, UnderRx
<1>8. Locks' /\ TxInv' /\ RxInv' /\ HdrInv'
  BY <1>1, <1>2, <1>7, Alone DEF Locks, TxInv, RxInv, HdrInv, UnderTx, UnderRx, Reading
<1>9. BugOnsHold'
  BY <1>2, <1>7 DEF BugOnsHold, Reading, smd_stream_read_avail, smd_stream_write_avail
<1> QED
  BY <1>6, <1>8, <1>9

\* A header is read only while no read is in progress, and takes cells that
\* are in use, whether a reader or the interrupt handler comes first.
HeaderStep ==
  /\ HeaderSeg \/ HeaderFlag
  /\ UNCHANGED <<head, data, fBLOCKREADINTR, irqVars, linkVars, wVars,
                 smd_lock, rpc, rx_lock, rx, got>>

\* The segment of the header that comes next.
SegLen == Least(ch_read_buffer, HeaderSize - Len(hdr.buf))
HdrSeg == [i \in 1 .. SegLen |-> data[tail + i - 1]]

LEMMA HeaderSegment ==
  ASSUME IInv, HeaderSeg
  PROVE  /\ Indices /\ hdr \in HdrType /\ Len(hdr.buf) \in Nat
         /\ current_packet = 0 /\ ~hdr.moved
         /\ SegLen \in Nat /\ SegLen > 0 /\ Len(hdr.buf) + SegLen <= HeaderSize
         /\ SegLen <= smd_stream_read_avail /\ tail + SegLen <= FifoSize
         /\ Len(hdr.buf) + smd_stream_read_avail >= HeaderSize
         /\ HdrSeg \in Seq(Cells) /\ Len(HdrSeg) = SegLen
         /\ hdr.buf \o HdrSeg \in Seq(Cells)
         /\ Len(hdr.buf \o HdrSeg) = Len(hdr.buf) + SegLen
         /\ hdr' = [buf |-> hdr.buf \o HdrSeg, moved |-> TRUE]
         /\ tail' = Wrap(tail + SegLen)
         /\ UNCHANGED <<flag, current_packet>>
<1> USE DEF IInv
<1>1. /\ Indices /\ hdr \in HdrType /\ hdr.buf \in Seq(Cells) /\ Len(hdr.buf) \in Nat
      /\ data \in [0 .. FifoSize - 1 -> Cells]
  BY DEF TypeOK, HdrType, Indices
<1>2. /\ hdr' = [buf |-> hdr.buf \o HdrSeg, moved |-> TRUE]
      /\ tail' = Wrap(tail + SegLen) /\ SegLen > 0 /\ ~hdr.moved
      /\ UNCHANGED <<flag, current_packet>>
  BY DEF HeaderSeg, SegLen, HdrSeg
<1>3. /\ current_packet = 0 /\ Len(hdr.buf) <= HeaderSize
      /\ Len(hdr.buf) + smd_stream_read_avail >= HeaderSize
  <2>1. CASE hdr.buf # <<>>
    BY <2>1 DEF HdrInv, BugOnsHold
  <2>2. CASE hdr.buf = <<>>
    <3>1. HeaderReady /\ Len(hdr.buf) = 0 /\ smd_stream_read_avail \in Nat
      BY <2>2, <1>1, Avail DEF HeaderSeg
    <3> QED
      BY <3>1 DEF HeaderReady
  <2> QED
    BY <2>1, <2>2
<1>4. /\ SegLen \in Nat /\ Len(hdr.buf) + SegLen <= HeaderSize
      /\ SegLen <= smd_stream_read_avail /\ tail + SegLen <= FifoSize
  <2>1. /\ smd_stream_read_avail \in Nat /\ ch_read_buffer \in 0 .. smd_stream_read_avail
        /\ tail + ch_read_buffer <= FifoSize /\ tail \in Nat
    BY <1>1, Avail, Segments DEF Indices
  <2>2. HeaderSize - Len(hdr.buf) \in Nat
    BY <1>1, <1>3
  <2> QED
    BY <1>1, <1>3, <2>1, <2>2, SMTT(30) DEF Least, SegLen
<1>5. HdrSeg \in Seq(Cells) /\ Len(HdrSeg) = SegLen
  <2>1. \A i \in 1 .. SegLen : data[tail + i - 1] \in Cells
    BY <1>1, <1>4 DEF Indices
  <2> QED
    BY <1>4, <2>1 DEF HdrSeg
<1>6. /\ hdr.buf \o HdrSeg \in Seq(Cells)
      /\ Len(hdr.buf \o HdrSeg) = Len(hdr.buf) + SegLen
  BY <1>1, <1>4, <1>5, ConcatProperties, ZenonT(40)
<1> QED
  BY <1>1, <1>2, <1>3, <1>4, <1>5, <1>6

LEMMA HeaderTaken ==
  ASSUME IInv, HeaderStep
  PROVE  IInv'
<1> USE DEF IInv, irqVars, linkVars, wVars
<1>1. UNCHANGED <<head, data, fBLOCKREADINTR, irqVars, linkVars, wVars,
                  smd_lock, rpc, rx_lock, rx, got>>
  BY DEF HeaderStep
<1>2. Indices /\ hdr \in HdrType /\ Len(hdr.buf) \in Nat /\ HeaderSize \in Nat \ {0}
  BY DEF TypeOK, Indices, HdrType
<1>3. CASE HeaderSeg
  <2> USE <1>3
  <2>1. /\ current_packet = 0 /\ SegLen \in Nat /\ SegLen > 0
        /\ SegLen <= smd_stream_read_avail /\ tail' = Wrap(tail + SegLen)
        /\ Len(hdr.buf) + SegLen <= HeaderSize
        /\ Len(hdr.buf) + smd_stream_read_avail >= HeaderSize
        /\ hdr' = [buf |-> hdr.buf \o HdrSeg, moved |-> TRUE]
        /\ hdr.buf \o HdrSeg \in Seq(Cells)
        /\ Len(hdr.buf \o HdrSeg) = Len(hdr.buf) + SegLen
        /\ UNCHANGED <<flag, current_packet>>
    BY HeaderSegment
  <2>2. /\ Indices' /\ smd_stream_write_avail' >= smd_stream_write_avail
        /\ smd_stream_write_avail' \in Nat
    BY <1>1, <1>2, <2>1, TailMoves
  <2>3. hdr' \in HdrType /\ hdr'.buf = hdr.buf \o HdrSeg /\ hdr'.moved = TRUE
    BY <2>1 DEF HdrType
  <2>4. TypeOK'
    BY <1>1, <2>1, <2>2, <2>3 DEF TypeOK, Indices, HdrType
  <2>5. \A q \in Readers : rpc[q] \notin Reading
    BY <2>1 DEF RxInv
  <2>6. Locks' /\ TxInv' /\ RxInv'
    BY <1>1, <2>5 DEF Locks, TxInv, RxInv
  <2>7. Len(hdr'.buf) = Len(hdr.buf) + SegLen /\ hdr'.buf # <<>>
    <3>1. Len(hdr'.buf) = Len(hdr.buf) + SegLen
      BY <2>1, <2>3
    <3>2. Len(<<>>) = 0
      OBVIOUS
    <3> QED
      BY <3>1, <3>2, <1>2, <2>1
  <2>8. HdrInv'
    BY <2>1, <2>7, <1>2 DEF HdrInv
  <2>9. smd_stream_read_avail' = smd_stream_read_avail - SegLen
        /\ smd_stream_read_avail \in Nat
    BY <1>1, <1>2, <2>1, <2>2, Avail, AvailNext, Advance DEF Indices
  <2>10. BugOnsHold'
    <3>1. tx.xfer \in Nat /\ smd_stream_write_avail \in Nat
      BY <1>2, Avail DEF TypeOK
    <3>2. Len(hdr'.buf) + smd_stream_read_avail' >= HeaderSize
      BY <1>2, <2>1, <2>7, <2>9
    <3> QED
      BY <1>1, <2>2, <2>5, <3>1, <3>2 DEF BugOnsHold, Reading
  <2> QED
    BY <2>4, <2>6, <2>8, <2>10
<1>4. CASE HeaderFlag
  <2>1. /\ hdr.moved /\ flag' = [flag EXCEPT !["W"] = TRUE] /\ tail' = tail
        /\ \/ current_packet' = hdr.buf[1].len /\ hdr' = NoHdr
           \/ hdr' = [hdr EXCEPT !.moved = FALSE] /\ UNCHANGED current_packet
    BY <1>4 DEF HeaderFlag
  <2>2. hdr.buf # <<>> /\ current_packet = 0
    BY <2>1 DEF HdrInv
  <2>3. current_packet' \in Nat /\ hdr' \in HdrType
    <3>1. hdr.buf[1] \in Cells
      BY <1>2, <2>2 DEF HdrType
    <3>2. NoHdr \in HdrType
      BY DEF NoHdr, HdrType
    <3>5. [hdr EXCEPT !.moved = FALSE] \in HdrType
      BY <1>2 DEF HdrType
    <3>3. hdr.buf[1].len \in Nat
      BY <3>1 DEF Cells
    <3>4. current_packet \in Nat
      BY DEF TypeOK
    <3> QED
      BY <2>1, <3>2, <3>3, <3>4, <3>5, Zenon
  <2>4. TypeOK'
    BY <1>1, <2>1, <2>3 DEF TypeOK, HdrType, Ends
  <2>5. \A q \in Readers : rpc[q] \notin Reading
    BY <2>2 DEF RxInv
  <2>6. Locks' /\ TxInv' /\ RxInv'
    BY <1>1, <2>5 DEF Locks, TxInv, RxInv
  <2>7. /\ hdr'.buf # <<>> => hdr'.buf = hdr.buf /\ current_packet' = 0
        /\ ~hdr'.moved
    BY <1>2, <2>1, <2>2 DEF NoHdr, HdrType
  <2>8. HdrInv'
    BY <2>2, <2>7 DEF HdrInv
  <2>9. BugOnsHold'
    BY <1>1, <2>1, <2>5, <2>7
       DEF BugOnsHold, Reading, smd_stream_read_avail, smd_stream_write_avail
  <2> QED
    BY <2>4, <2>6, <2>8, <2>9
<1> QED
  BY <1>3, <1>4 DEF HeaderStep

LEMMA ReaderUpdates ==
  ASSUME IInv, NEW r \in Readers, ReadUpdate(r) \/ ReadReturn(r)
  PROVE  IInv'
<1>1. rpc \in [Readers -> ReaderPc]
  BY DEF IInv, TypeOK, ReaderPc
<1>2. CASE ReadUpdate(r)
  BY <1>2, HeaderTaken DEF ReadUpdate, HeaderStep
<1>3. CASE ReadReturn(r)
  <2> USE DEF IInv, irqVars, linkVars, wVars, ringVars
  <2>1. /\ rpc[r] = "upd" /\ smd_lock' = None /\ rx_lock' = None /\ rx' = NoRx
        /\ rpc' \in [Readers -> ReaderPc]
        /\ rpc'[r] = "idle"
        /\ \A q \in Readers : q # r => rpc'[q] = rpc[q] \/ rpc'[q] = "wait"
        /\ UNCHANGED <<ringVars, irqVars, linkVars, wVars, current_packet, hdr, got>>
    BY <1>1, <1>3 DEF ReadReturn, ReaderPc
  <2>2. NoRx \in RxType
    BY DEF NoRx, RxType
  <2>3. TypeOK'
    BY <2>1, <2>2 DEF TypeOK, RxType, ReaderPc
  <2>4. \A q \in Readers : rpc'[q] \notin UnderRx
    BY <1>1, <2>1, Alone DEF UnderRx
  <2>5. Locks' /\ TxInv' /\ RxInv' /\ HdrInv'
    BY <2>1, <2>4 DEF Locks, TxInv, RxInv, HdrInv, UnderTx, UnderRx, Reading
  <2>6. BugOnsHold'
    BY <2>1, <2>4 DEF BugOnsHold, UnderRx, smd_stream_read_avail, smd_stream_write_avail
  <2> QED
    BY <2>3, <2>5, <2>6
<1> QED
  BY <1>2, <1>3

-----------------------------------------------------------------------------
(* The handler and the rest.                                               *)

\* The parts of the invariant that are not types depend on the ring, the
\* packet and the threads that are under way.
LEMMA Elsewhere ==
  ASSUME IInv, TypeOK', NEW pcs \in [Readers -> ReaderPc], rpc' = pcs,
         \A r \in Readers : pcs[r] = rpc[r] \/ pcs[r] = "wait",
         UNCHANGED <<head, tail, current_packet, hdr, rx, rx_lock, tx, tx_lock, wpc>>
  PROVE  IInv'
<1> USE DEF IInv
<1>1. Locks' /\ TxInv' /\ RxInv' /\ HdrInv'
  BY DEF Locks, TxInv, RxInv, HdrInv, UnderTx, UnderRx, Reading
<1>2. BugOnsHold'
  BY DEF BugOnsHold, smd_stream_read_avail, smd_stream_write_avail
<1> QED
  BY <1>1, <1>2

LEMMA HandlerSteps ==
  ASSUME IInv, NEW e \in Ends, Irq(e)
  PROVE  IInv'
<1> USE DEF irqVars, linkVars, rVars, wVars, ringVars
<1>1. rpc \in [Readers -> ReaderPc] /\ irq \in [Ends -> BOOLEAN] /\ TypeOK
  BY DEF IInv, TypeOK, ReaderPc
<1>2. CASE IrqStart(e)
  <2> DEFINE found == ch_is_open(e) /\ flag[e]
  <2>1. found \in BOOLEAN
    BY Zenon
  <2>2. /\ irq' = [irq EXCEPT ![e] = FALSE] /\ ch_flags' = [ch_flags EXCEPT ![e] = found]
        /\ \E pc \in {"idle", "state"} : ipc' = [ipc EXCEPT ![e] = pc]
        /\ UNCHANGED <<ringVars, asleep, linkVars, rVars, wVars>>
    BY <1>2 DEF IrqStart
  <2>3. TypeOK'
    <3> HIDE DEF found
    <3> QED
      BY <1>1, <2>1, <2>2 DEF TypeOK
  <2> QED
    BY <1>1, <2>2, <2>3, Elsewhere
<1>3. CASE IrqState(e)
  <2> DEFINE left == flag[e] /\ ~ch_flags[e]
  <2>1. left \in BOOLEAN
    BY Zenon
  <2>2. /\ flag' = [flag EXCEPT ![e] = left]
        /\ last_state' = [last_state EXCEPT ![e] = state[Other(e)]]
        /\ state' = state \/ state' = [state EXCEPT ![e] = "CLOSING"]
        /\ notify_other_cpu(e) \/ UNCHANGED irq
        /\ \E pc \in {"idle", "update"} : ipc' = [ipc EXCEPT ![e] = pc]
        /\ UNCHANGED <<head, tail, data, fBLOCKREADINTR, ch_flags, asleep, rVars,
                       wVars, release, events>>
    BY <1>3 DEF IrqState
  <2>3. irq' \in [Ends -> BOOLEAN]
    BY <1>1, <2>2, NotifyType
  <2>4. TypeOK'
    <3> HIDE DEF left
    <3>1. Other(e) \in Ends
      BY DEF Ends, Other
    <3>2. flag' \in [Ends -> BOOLEAN] /\ ipc' \in [Ends -> {"idle", "state", "update"}]
      BY <1>1, <2>1, <2>2 DEF TypeOK
    <3>3. /\ state' \in [Ends -> {"OPENED", "CLOSING", "CLOSED"}]
          /\ last_state' \in [Ends -> {"OPENED", "CLOSING", "CLOSED"}]
      BY <1>1, <2>2, <3>1 DEF TypeOK
    <3> QED
      BY <1>1, <2>2, <2>3, <3>2, <3>3 DEF TypeOK
  <2> QED
    BY <1>1, <2>2, <2>4, Elsewhere
<1>4. CASE IrqUpdate
  BY <1>4, HeaderTaken DEF IrqUpdate, HeaderStep
<1>5. CASE IrqNotifyReader
  <2>1. /\ notify_other_cpu("R")
        /\ ipc' = [ipc EXCEPT !["R"] = "idle"] /\ ch_flags' = [ch_flags EXCEPT !["R"] = FALSE]
        /\ rpc' = rpc \/ WakeReaders
        /\ UNCHANGED <<ringVars, asleep, linkVars, wVars, current_packet, hdr, smd_lock,
                       rx_lock, rx, got>>
    BY <1>5 DEF IrqNotifyReader
  <2>2. rpc' \in [Readers -> ReaderPc]
        /\ \A r \in Readers : rpc'[r] = rpc[r] \/ rpc'[r] = "wait"
    BY <1>1, <2>1 DEF WakeReaders, ReaderPc
  <2>3. irq' \in [Ends -> BOOLEAN]
    BY <1>1, <2>1, NotifyType DEF Ends
  <2>4. TypeOK'
    BY <1>1, <2>1, <2>2, <2>3 DEF TypeOK, ReaderPc
  <2> QED
    BY <2>1, <2>2, <2>4, Elsewhere
<1>6. CASE IrqNotifyWriter
  <2>1. /\ notify_other_cpu("W")
        /\ ipc' = [ipc EXCEPT !["W"] = "idle"] /\ ch_flags' = [ch_flags EXCEPT !["W"] = FALSE]
        /\ fBLOCKREADINTR' \in {TRUE, fBLOCKREADINTR} /\ wrun' \in {Writers, wrun}
        /\ UNCHANGED <<head, tail, data, flag, asleep, linkVars, rVars, wpc,
                       tx_lock, count, needed_space, blocking_write, tx, sent>>
    BY <1>6 DEF IrqNotifyWriter
  <2>2. irq' \in [Ends -> BOOLEAN]
    BY <1>1, <2>1, NotifyType DEF Ends
  <2>3. TypeOK'
    BY <1>1, <2>1, <2>2, ZenonT(40) DEF TypeOK
  <2> QED
    BY <1>1, <2>1, <2>3, Elsewhere
<1> QED
  BY <1>2, <1>3, <1>4, <1>5, <1>6 DEF Irq

LEMMA OtherSteps ==
  ASSUME IInv, NEW e \in Ends, Release(e) \/ Sleep(e) \/ smd_sleep_exit(e)
  PROVE  IInv'
<1> USE DEF irqVars, linkVars, rVars, wVars, ringVars
<1>1. rpc \in [Readers -> ReaderPc] /\ irq \in [Ends -> BOOLEAN] /\ TypeOK
  BY DEF IInv, TypeOK, ReaderPc
<1>5. CASE clean_and_signal(e)
  <2>1. /\ release' = [release EXCEPT ![e] = "signalled"]
        /\ events' = events + 1 /\ events < MaxEvents
        /\ rpc' = rpc \/ WakeReaders
        /\ wrun' \in {Writers, wrun}
        /\ UNCHANGED <<ringVars, irqVars, state, last_state, current_packet, hdr,
                       smd_lock, rx_lock, rx, got, wpc, tx_lock, count,
                       needed_space, blocking_write, tx, sent>>
    BY <1>5 DEF clean_and_signal, Event
  <2>2. rpc' \in [Readers -> ReaderPc]
        /\ \A r \in Readers : rpc'[r] = rpc[r] \/ rpc'[r] = "wait"
    BY <1>1, <2>1 DEF WakeReaders, ReaderPc
  <2>3. TypeOK'
    BY <1>1, <2>1, <2>2 DEF TypeOK, ReaderPc
  <2> QED
    BY <2>1, <2>2, <2>3, Elsewhere
<1>2. CASE smd_close(e)
  <2>1. /\ state' = [state EXCEPT ![e] = "CLOSED"] /\ notify_other_cpu(e)
        /\ release' = [release EXCEPT ![e] = "closed"]
        /\ UNCHANGED <<ringVars, ipc, ch_flags, asleep, last_state, events, rVars, wVars>>
    BY <1>2 DEF smd_close
  <2>2. irq' \in [Ends -> BOOLEAN]
    BY <1>1, <2>1, NotifyType
  <2>5. state' \in [Ends -> {"OPENED", "CLOSING", "CLOSED"}]
    BY <1>1, <2>1 DEF TypeOK
  <2>3. TypeOK'
    BY <1>1, <2>1, <2>2, <2>5 DEF TypeOK
  <2> QED
    BY <1>1, <2>1, <2>3, Elsewhere
<1>6. CASE ReleaseChannel(e) \/ ReleaseEnd(e)
  <2>1. /\ \E p \in {"null", "done"} : release' = [release EXCEPT ![e] = p]
        /\ blocking_write' \in BOOLEAN
        /\ UNCHANGED <<ringVars, irqVars, state, last_state, events, rVars, wpc,
                       tx_lock, wrun, count, needed_space, tx, sent>>
    BY <1>1, <1>6 DEF ReleaseChannel, ReleaseEnd, TypeOK
  <2>3. release' \in [Ends -> {"no", "signalled", "closed", "null", "done"}]
    BY <1>1, <2>1 DEF TypeOK
  <2>2. TypeOK'
    BY <1>1, <2>1, <2>3 DEF TypeOK
  <2> QED
    BY <1>1, <2>1, <2>2, Elsewhere
<1>3. CASE Sleep(e)
  <2>1. /\ asleep' = [asleep EXCEPT ![e] = TRUE]
        /\ events' = events + 1 /\ events < MaxEvents
        /\ UNCHANGED <<ringVars, irq, ipc, ch_flags, state, last_state, release, rVars,
                       wVars>>
    BY <1>3 DEF Sleep, Event
  <2>3. asleep' \in [Ends -> BOOLEAN] /\ events' \in 0 .. MaxEvents
    BY <1>1, <2>1 DEF TypeOK
  <2>2. TypeOK'
    BY <1>1, <2>1, <2>3 DEF TypeOK
  <2> QED
    BY <1>1, <2>1, <2>2, Elsewhere
<1>4. CASE smd_sleep_exit(e)
  <2> DEFINE pending == irq[e] \/ smd_need_int(e)
  <2>1. pending \in BOOLEAN
    BY Zenon
  <2>2. /\ asleep' = [asleep EXCEPT ![e] = FALSE] /\ irq' = [irq EXCEPT ![e] = pending]
        /\ UNCHANGED <<ringVars, ipc, ch_flags, linkVars, rVars, wVars>>
    BY <1>4 DEF smd_sleep_exit
  <2>3. TypeOK'
    <3> HIDE DEF pending
    <3> QED
      BY <1>1, <2>1, <2>2 DEF TypeOK
  <2> QED
    BY <1>1, <2>2, <2>3, Elsewhere
<1> QED
  BY <1>2, <1>3, <1>4, <1>5, <1>6 DEF Release

-----------------------------------------------------------------------------
LEMMA NextIInv == IInv /\ [Next]_vars => IInv'
<1> SUFFICES ASSUME IInv, [Next]_vars PROVE IInv'
  OBVIOUS
<1>1. ASSUME NEW w \in Writers, NEW len \in Lens, WriteCall(w, len) PROVE IInv'
  BY <1>1, WriterWaits
<1>2. ASSUME NEW w \in Writers, Write(w) PROVE IInv'
  <2>1. CASE \/ WriteArm(w) \/ WriteCheck(w) \/ WriteSched(w) \/ WriteNonBlocking(w)
             \/ WriteNull(w)
    BY <2>1, WriterWaits
  <2> QED
    BY <1>2, <2>1, WriterStarts, WriterCopies, WriterMovesHead, WriterFlags,
       WriterEnds DEF Write
<1>3. ASSUME NEW r \in Readers, ReadCall(r) \/ Read(r) PROVE IInv'
  BY <1>3, ReaderWaits, ReaderDies, ReaderStarts, ReaderCopies, ReaderMovesTail,
     ReaderFlags, ReaderAcks, ReaderAccounts, ReaderUpdates DEF Read
<1>4. ASSUME NEW e \in Ends, Irq(e) \/ Release(e) \/ Sleep(e) \/ smd_sleep_exit(e)
      PROVE  IInv'
  BY <1>4, HandlerSteps, OtherSteps
<1>5. CASE UNCHANGED vars
  <2>1. TypeOK'
    BY <1>5 DEF vars, ringVars, irqVars, linkVars, rVars, wVars, IInv, TypeOK
  <2>2. rpc \in [Readers -> ReaderPc]
    BY DEF IInv, TypeOK, ReaderPc
  <2> QED
    BY <1>5, <2>1, <2>2, Elsewhere DEF vars, ringVars, irqVars, linkVars, rVars, wVars
<1> QED
  BY <1>1, <1>2, <1>3, <1>4, <1>5 DEF Next

\* The types: in particular the indices stay inside the ring and the payload
\* left of the current packet never goes below zero.
THEOREM SmdTypes == Spec => []TypeOK
<1>1. IInv => TypeOK
  BY DEF IInv
<1> QED
  BY <1>1, InitIInv, NextIInv, PTL DEF Spec

\* The assertions of ch_write_done, ch_read_done and update_packet_state hold
\* for every ring and any number of threads at both ends.
THEOREM SmdBugOns == Spec => []BugOnsHold
<1>1. IInv => BugOnsHold
  BY DEF IInv
<1> QED
  BY <1>1, InitIInv, NextIInv, PTL DEF Spec

-----------------------------------------------------------------------------
(* Cutting cells into packets.                                             *)

\* An induction from the last place of a sequence to the first.
LEMMA Descend ==
  ASSUME NEW N \in Nat, NEW P,
         \A p \in 1 .. N : (\A q \in 1 .. N : p < q => q \in P) => p \in P
  PROVE  1 .. N \subseteq P
<1> DEFINE T == {k \in 0 .. N - 1 : N - k \notin P}
<1> SUFFICES ASSUME NEW p \in 1 .. N, p \notin P PROVE FALSE
  OBVIOUS
<1>1. T \in SUBSET Nat /\ N - p \in T
  OBVIOUS
<1> HIDE DEF T
<1>2. PICK k \in T : \A m \in T : k <= m
  BY <1>1, LeastNat
<1> USE DEF T
<1>3. N - k \in 1 .. N /\ N - k \notin P
  BY <1>2
<1>4. ASSUME NEW q \in 1 .. N, N - k < q PROVE q \in P
  <2>1. N - q \in 0 .. N - 1 /\ N - q < k /\ N - (N - q) = q
    BY <1>2, <1>4
  <2>2. N - q \notin T
    BY <1>2, <2>1
  <2> QED
    BY <2>1, <2>2
<1> QED
  BY <1>3, <1>4

\* The length in a header is a number.
LEMMA LenNat ==
  ASSUME NEW c \in Seq(Cells), NEW p \in 1 .. Len(c)
  PROVE  c[p] \in Cells /\ c[p].len \in Nat
<1>1. c[p] \in Cells
  OBVIOUS
<1> QED
  BY <1>1 DEF Cells

Packets == Seq(Seq(Cells))

\* The place after the packet whose header is at p.
After(c, p) == p + HeaderSize + c[p].len

\* The packet at p is there to its end.
IsWhole(c, p) == p + HeaderSize <= Len(c) + 1 /\ After(c, p) <= Len(c) + 1

Payload(c, p) == SubSeq(c, p + HeaderSize, After(c, p) - 1)

Cuts(c, f) ==
  f = [p \in 1 .. Len(c) + 1 |->
         IF IsWhole(c, p) THEN <<Payload(c, p)>> \o f[After(c, p)] ELSE <<>>]

LEMMA WholeIn ==
  ASSUME NEW c \in Seq(Cells), NEW p \in 1 .. Len(c) + 1, IsWhole(c, p)
  PROVE  /\ p \in 1 .. Len(c) /\ c[p].len \in Nat
         /\ After(c, p) \in 1 .. Len(c) + 1 /\ p < After(c, p)
         /\ Payload(c, p) \in Seq(Cells) /\ Len(Payload(c, p)) = c[p].len
         /\ \A i \in 1 .. c[p].len : Payload(c, p)[i] = c[p + HeaderSize + i - 1]
<1>1. Len(c) \in Nat /\ HeaderSize \in Nat \ {0} /\ p + HeaderSize <= Len(c) + 1
  BY DEF IsWhole
<1>2. p \in 1 .. Len(c) /\ p \in Nat
  BY <1>1
<1>3. c[p].len \in Nat
  BY <1>2, LenNat
<1> DEFINE a == After(c, p)
<1>4. a = p + HeaderSize + c[p].len /\ a <= Len(c) + 1 /\ a \in Nat
  BY <1>1, <1>2, <1>3, SMTT(30) DEF After, IsWhole
<1>5. \A i \in p + HeaderSize .. a - 1 : c[i] \in Cells
  BY <1>1, <1>2, <1>3, <1>4
<1>6. /\ SubSeq(c, p + HeaderSize, a - 1) \in Seq(Cells)
      /\ Len(SubSeq(c, p + HeaderSize, a - 1)) =
           IF p + HeaderSize <= a - 1 THEN (a - 1) - (p + HeaderSize) + 1 ELSE 0
      /\ \A i \in 1 .. (a - 1) - (p + HeaderSize) + 1 :
            SubSeq(c, p + HeaderSize, a - 1)[i] = c[(p + HeaderSize) + i - 1]
  <2>1. p + HeaderSize \in Int /\ a - 1 \in Int
    BY <1>1, <1>2, <1>4
  <2> HIDE DEF a
  <2> QED
    BY <1>5, <2>1, SubSeqProperties
<1> HIDE DEF a
<1>7. (a - 1) - (p + HeaderSize) + 1 = c[p].len
  <2> DEFINE l == c[p].len
  <2>1. l \in Nat /\ a = p + HeaderSize + l
    BY <1>3, <1>4
  <2> HIDE DEF l
  <2>2. (a - 1) - (p + HeaderSize) + 1 = l
    BY <1>1, <1>2, <2>1
  <2> QED
    BY <2>2 DEF l
<1>8. Payload(c, p) = SubSeq(c, p + HeaderSize, a - 1)
  BY DEF Payload, a
<1>9. a \in 1 .. Len(c) + 1 /\ p < a
  BY <1>1, <1>2, <1>3, <1>4
<1>10. Len(Payload(c, p)) = c[p].len
  BY <1>1, <1>2, <1>3, <1>4, <1>6, <1>7, <1>8, SMTT(30)
<1>11. \A i \in 1 .. c[p].len : Payload(c, p)[i] = c[p + HeaderSize + i - 1]
  BY <1>6, <1>7, <1>8
<1> QED
  BY <1>2, <1>3, <1>6, <1>8, <1>9, <1>10, <1>11 DEF a

\* The function is well defined: what follows a packet is shorter.
LEMMA CutExists ==
  ASSUME NEW c \in Seq(Cells)
  PROVE  \E f \in [1 .. Len(c) + 1 -> Packets] : Cuts(c, f)
<1> DEFINE N == Len(c) + 1
           S == 1 .. Len(c) + 1
           m == [p \in S |-> N - p]
           G(f, p) == IF IsWhole(c, p) THEN <<Payload(c, p)>> \o f[After(c, p)] ELSE <<>>
           F == [f \in [S -> Packets] |-> [p \in S |-> G(f, p)]]
<1>1. N \in Nat
  OBVIOUS
<1>2. m \in [S -> 0 .. N]
  OBVIOUS
<1>3. ASSUME NEW f \in [S -> Packets], NEW p \in S PROVE G(f, p) \in Packets
  <2>1. CASE IsWhole(c, p)
    <3>1. Payload(c, p) \in Seq(Cells) /\ After(c, p) \in S
      BY <2>1, WholeIn
    <3>2. <<Payload(c, p)>> \in Packets /\ f[After(c, p)] \in Packets
      BY <3>1 DEF Packets
    <3>3. <<Payload(c, p)>> \o f[After(c, p)] \in Packets
      BY <3>2, ConcatProperties DEF Packets
    <3> QED
      BY <2>1, <3>3
  <2>2. CASE ~IsWhole(c, p)
    BY <2>2 DEF Packets
  <2> QED
    BY <2>1, <2>2
<1>4. F \in [[S -> Packets] -> [S -> Packets]]
  <2> HIDE DEF G, S
  <2> QED
    BY <1>3
<1>5. Packets # {}
  <2>1. <<>> \in Packets
    BY DEF Packets
  <2> QED
    BY <2>1
<1>6. ASSUME NEW f \in [S -> Packets], NEW g \in [S -> Packets], NEW p \in S,
             \A q \in S : m[q] < m[p] => f[q] = g[q]
      PROVE  F[f][p] = F[g][p]
  <2>1. G(f, p) = G(g, p)
    <3>1. CASE IsWhole(c, p)
      <4>1. After(c, p) \in S /\ p < After(c, p)
        BY <3>1, WholeIn
      <4>2. m[After(c, p)] < m[p]
        BY <4>1
      <4>3. f[After(c, p)] = g[After(c, p)]
        BY <1>6, <4>1, <4>2
      <4> QED
        BY <4>3
    <3>2. CASE ~IsWhole(c, p)
      BY <3>2
    <3> QED
      BY <3>1, <3>2
  <2> HIDE DEF G, S
  <2> QED
    BY <2>1
<1>7. IsContracting(F, S, Packets, m)
  <2> HIDE DEF F, S, m
  <2> QED
    BY <1>6 DEF IsContracting
<1>8. \A f \in [S -> Packets] : F[f] = [p \in S |-> G(f, p)]
  <2> HIDE DEF G, S
  <2> QED
    OBVIOUS
<1> HIDE DEF F, m, N, S
<1>9. PICK f : IsFixpoint(f, F, S, Packets)
  BY <1>1, <1>2, <1>4, <1>5, <1>7, FixpointExists
<1>10. f \in [S -> Packets] /\ f = [p \in S |-> G(f, p)]
  BY <1>8, <1>9 DEF IsFixpoint
<1>11. Cuts(c, f)
  BY <1>10 DEF Cuts, S
<1> QED
  BY <1>10, <1>11 DEF S

\* There is only one such function.
LEMMA CutUnique ==
  ASSUME NEW c \in Seq(Cells), NEW f, NEW g, Cuts(c, f), Cuts(c, g)
  PROVE  f = g
<1> DEFINE P == {p \in 1 .. Len(c) + 1 : f[p] = g[p]}
           N == Len(c) + 1
<1>1. N \in Nat
  OBVIOUS
<1>2. ASSUME NEW p \in 1 .. N, \A q \in 1 .. N : p < q => q \in P PROVE p \in P
  <2>1. CASE IsWhole(c, p)
    <3>1. After(c, p) \in 1 .. N /\ p < After(c, p)
      BY <2>1, WholeIn
    <3>2. f[After(c, p)] = g[After(c, p)]
      BY <1>2, <3>1
    <3> QED
      BY <2>1, <3>2 DEF Cuts
  <2>2. CASE ~IsWhole(c, p)
    BY <2>2 DEF Cuts
  <2> QED
    BY <2>1, <2>2
<1>3. 1 .. N \subseteq P
  <2> HIDE DEF P, N
  <2> QED
    BY <1>1, <1>2, Descend
<1> QED
  BY <1>3 DEF Cuts

\* PacketsFrom is that function.
LEMMA PacketsFromIs ==
  ASSUME NEW c \in Seq(Cells)
  PROVE  /\ PacketsFrom(c) \in [1 .. Len(c) + 1 -> Packets]
         /\ Cuts(c, PacketsFrom(c))
<1> DEFINE Def(f) == f = [p \in 1 .. Len(c) + 1 |->
                            IF p + HeaderSize > Len(c) + 1
                               \/ p + HeaderSize + c[p].len > Len(c) + 1
                            THEN <<>>
                            ELSE <<SubSeq(c, p + HeaderSize, p + HeaderSize + c[p].len - 1)>>
                                 \o f[p + HeaderSize + c[p].len]]
           from == CHOOSE f : Def(f)
<1>1. \A p \in 1 .. Len(c) + 1 :
        IsWhole(c, p) <=> ~(p + HeaderSize > Len(c) + 1
                            \/ p + HeaderSize + c[p].len > Len(c) + 1)
  <2> TAKE p \in 1 .. Len(c) + 1
  <2>1. CASE p + HeaderSize > Len(c) + 1
    BY <2>1 DEF IsWhole
  <2>2. CASE ~(p + HeaderSize > Len(c) + 1)
    <3>1. p \in 1 .. Len(c)
      BY <2>2
    <3>2. c[p].len \in Nat
      BY <3>1, LenNat
    <3> QED
      BY <2>2, <3>1, <3>2 DEF IsWhole, After
  <2> QED
    BY <2>1, <2>2
<1>2. ASSUME NEW f PROVE Def(f) <=> Cuts(c, f)
  <2> DEFINE u(p) == IF p + HeaderSize > Len(c) + 1
                        \/ p + HeaderSize + c[p].len > Len(c) + 1
                     THEN <<>>
                     ELSE <<SubSeq(c, p + HeaderSize, p + HeaderSize + c[p].len - 1)>>
                          \o f[p + HeaderSize + c[p].len]
             v(p) == IF IsWhole(c, p) THEN <<Payload(c, p)>> \o f[After(c, p)] ELSE <<>>
  <2>1. ASSUME NEW p \in 1 .. Len(c) + 1 PROVE u(p) = v(p)
    <3>1. CASE IsWhole(c, p)
      <4>1. u(p) = <<SubSeq(c, p + HeaderSize, p + HeaderSize + c[p].len - 1)>>
                   \o f[p + HeaderSize + c[p].len]
        BY <1>1, <3>1
      <4>2. v(p) = <<Payload(c, p)>> \o f[After(c, p)]
        BY <3>1
      <4> HIDE DEF u, v
      <4>3. p + HeaderSize + c[p].len - 1 = After(c, p) - 1
        <5>1. c[p].len \in Nat
          BY <3>1, WholeIn
        <5> QED
          BY <5>1 DEF After
      <4> QED
        BY <4>1, <4>2, <4>3 DEF Payload, After
    <3>2. CASE ~IsWhole(c, p)
      BY <1>1, <3>2
    <3> QED
      BY <3>1, <3>2
  <2>2. Def(f) <=> f = [p \in 1 .. Len(c) + 1 |-> u(p)]
    OBVIOUS
  <2>3. Cuts(c, f) <=> f = [p \in 1 .. Len(c) + 1 |-> v(p)]
    BY DEF Cuts
  <2> HIDE DEF u, v, Def
  <2> QED
    BY <2>1, <2>2, <2>3
<1>3. PICK g \in [1 .. Len(c) + 1 -> Packets] : Cuts(c, g)
  BY CutExists
<1>4. \E f : Def(f)
  <2> HIDE DEF Def
  <2> QED
    BY <1>2, <1>3, SMTT(30)
<1>5. Def(from)
  BY <1>4
<1>6. PacketsFrom(c) = from
  BY DEF PacketsFrom
<1> HIDE DEF from, Def
<1>7. Cuts(c, from)
  BY <1>2, <1>5
<1>8. from = g
  BY <1>3, <1>7, CutUnique
<1> QED
  BY <1>3, <1>6, <1>8

LEMMA PacketsFromAt ==
  ASSUME NEW c \in Seq(Cells), NEW p \in 1 .. Len(c) + 1
  PROVE  /\ PacketsFrom(c)[p] \in Packets
         /\ IsWhole(c, p) =>
              PacketsFrom(c)[p] = <<Payload(c, p)>> \o PacketsFrom(c)[After(c, p)]
         /\ ~IsWhole(c, p) => PacketsFrom(c)[p] = <<>>
<1>1. PacketsFrom(c) \in [1 .. Len(c) + 1 -> Packets]
  BY PacketsFromIs
<1>2. Cuts(c, PacketsFrom(c))
  BY PacketsFromIs
<1> QED
  BY <1>1, <1>2 DEF Cuts

\* What is left when k cells are taken off.
LEMMA SkipCells ==
  ASSUME NEW c \in Seq(Cells), NEW k \in 0 .. Len(c)
  PROVE  /\ SubSeq(c, k + 1, Len(c)) \in Seq(Cells)
         /\ Len(SubSeq(c, k + 1, Len(c))) = Len(c) - k
         /\ \A i \in 1 .. Len(c) - k : SubSeq(c, k + 1, Len(c))[i] = c[i + k]
<1>1. Len(c) \in Nat /\ k \in Nat /\ k + 1 \in Int /\ Len(c) \in Int
  OBVIOUS
<1>2. \A i \in k + 1 .. Len(c) : c[i] \in Cells
  BY <1>1
<1> DEFINE d == SubSeq(c, k + 1, Len(c))
<1>3. /\ d \in Seq(Cells)
      /\ Len(d) = IF k + 1 <= Len(c) THEN Len(c) - (k + 1) + 1 ELSE 0
      /\ \A i \in 1 .. Len(c) - (k + 1) + 1 : d[i] = c[(k + 1) + i - 1]
  BY <1>1, <1>2, SubSeqProperties
<1> HIDE DEF d
<1>4. Len(d) = Len(c) - k
  BY <1>1, <1>3
<1>5. ASSUME NEW i \in 1 .. Len(c) - k PROVE d[i] = c[i + k]
  <2>1. i \in 1 .. Len(c) - (k + 1) + 1 /\ (k + 1) + i - 1 = i + k
    BY <1>1
  <2> QED
    BY <1>3, <2>1
<1> QED
  BY <1>3, <1>4, <1>5 DEF d

LEMMA SkipWhole ==
  ASSUME NEW c \in Seq(Cells), NEW k \in 0 .. Len(c),
         NEW d \in Seq(Cells), d = SubSeq(c, k + 1, Len(c)),
         NEW p \in 1 .. Len(d) + 1
  PROVE  /\ p + k \in 1 .. Len(c) + 1
         /\ IsWhole(d, p) <=> IsWhole(c, p + k)
         /\ IsWhole(d, p) => /\ After(d, p) + k = After(c, p + k)
                             /\ Payload(d, p) = Payload(c, p + k)
<1>1. Len(d) = Len(c) - k /\ \A i \in 1 .. Len(d) : d[i] = c[i + k]
  BY SkipCells
<1>2. Len(d) \in Nat /\ Len(c) \in Nat /\ p + k \in 1 .. Len(c) + 1 /\ p \in Nat /\ k \in Nat
  BY <1>1
<1>3. CASE p + HeaderSize > Len(d) + 1
  <2>1. (p + k) + HeaderSize > Len(c) + 1
    BY <1>1, <1>2, <1>3
  <2> QED
    BY <1>2, <1>3, <2>1 DEF IsWhole
<1>4. CASE ~(p + HeaderSize > Len(d) + 1)
  <2>0. Len(d) = Len(c) - k
    BY ONLY <1>1
  <2>1. p \in 1 .. Len(d) /\ p + k \in 1 .. Len(c)
    BY ONLY <1>2, <1>4, <2>0, p \in 1 .. Len(d) + 1, FifoAssumption
  <2>2. d[p] = c[p + k] /\ d[p].len \in Nat
    BY <1>1, <2>1, LenNat
  <2>3. After(d, p) + k = After(c, p + k) /\ After(d, p) \in Nat
    <3> DEFINE l == d[p].len
    <3>1. l \in Nat /\ After(d, p) = p + HeaderSize + l /\ After(c, p + k) = (p + k) + HeaderSize + l
      BY <2>2 DEF After
    <3> HIDE DEF l
    <3> QED
      BY <1>2, <3>1
  <2>4. IsWhole(d, p) <=> IsWhole(c, p + k)
    BY <1>1, <1>2, <2>3, SMTT(30) DEF IsWhole
  <2>5. ASSUME IsWhole(d, p) PROVE Payload(d, p) = Payload(c, p + k)
    <3> DEFINE s == Payload(d, p)
               t == Payload(c, p + k)
    <3>1. /\ s \in Seq(Cells) /\ Len(s) = d[p].len
          /\ \A i \in 1 .. d[p].len : s[i] = d[p + HeaderSize + i - 1]
      BY <2>1, <2>5, WholeIn
    <3>2. /\ t \in Seq(Cells) /\ Len(t) = d[p].len
          /\ \A i \in 1 .. d[p].len : t[i] = c[(p + k) + HeaderSize + i - 1]
      BY <2>1, <2>2, <2>4, <2>5, <1>2, WholeIn, SMTT(30)
    <3> HIDE DEF s, t
    <3>3. ASSUME NEW i \in 1 .. d[p].len PROVE s[i] = t[i]
      <4>1. /\ p + HeaderSize + i - 1 \in 1 .. Len(d)
            /\ (p + HeaderSize + i - 1) + k = (p + k) + HeaderSize + i - 1
        <5>1. p + HeaderSize + d[p].len <= Len(d) + 1
          BY <2>5 DEF IsWhole, After
        <5> DEFINE l == d[p].len
        <5>2. l \in Nat /\ p + HeaderSize + l <= Len(d) + 1 /\ i \in 1 .. l
          BY <2>2, <5>1
        <5> HIDE DEF l
        <5> QED
          BY <1>2, <5>2
      <4> QED
        BY <1>1, <3>1, <3>2, <4>1, ZenonT(40)
    <3>4. s = t
      BY <3>1, <3>2, <3>3, SeqEqual
    <3> QED
      BY <3>4 DEF s, t
  <2> QED
    BY <1>2, <2>3, <2>4, <2>5
<1> QED
  BY <1>3, <1>4

\* The packets found after k cells are those of the rest.
LEMMA SkipPackets ==
  ASSUME NEW c \in Seq(Cells), NEW k \in 0 .. Len(c),
         NEW d \in Seq(Cells), d = SubSeq(c, k + 1, Len(c))
  PROVE  \A p \in 1 .. Len(d) + 1 : PacketsFrom(d)[p] = PacketsFrom(c)[p + k]
<1> DEFINE N == Len(d) + 1
           P == {p \in 1 .. N : PacketsFrom(d)[p] = PacketsFrom(c)[p + k]}
<1>1. N \in Nat
  OBVIOUS
<1>2. ASSUME NEW p \in 1 .. N, \A q \in 1 .. N : p < q => q \in P PROVE p \in P
  <2>1. /\ p + k \in 1 .. Len(c) + 1
        /\ IsWhole(d, p) <=> IsWhole(c, p + k)
        /\ IsWhole(d, p) => /\ After(d, p) + k = After(c, p + k)
                            /\ Payload(d, p) = Payload(c, p + k)
    <3>1. p \in 1 .. Len(d) + 1
      OBVIOUS
    <3> HIDE DEF N, P
    <3>2. k \in 0 .. Len(c) /\ d \in Seq(Cells) /\ d = SubSeq(c, k + 1, Len(c))
      OBVIOUS
    <3> QED
      BY ONLY <3>1, <3>2, c \in Seq(Cells), SkipWhole, ZenonT(40)
  <2>2. CASE IsWhole(d, p)
    <3>1. After(d, p) \in 1 .. N /\ p < After(d, p)
      BY <2>2, WholeIn
    <3>2. PacketsFrom(d)[After(d, p)] = PacketsFrom(c)[After(d, p) + k]
      BY <1>2, <3>1
    <3>3. /\ IsWhole(c, p + k) /\ After(d, p) + k = After(c, p + k)
          /\ Payload(d, p) = Payload(c, p + k)
      BY <2>1, <2>2
    <3>4. PacketsFrom(d)[p] = <<Payload(d, p)>> \o PacketsFrom(d)[After(d, p)]
      BY <2>2, PacketsFromAt
    <3>5. PacketsFrom(c)[p + k] = <<Payload(c, p + k)>> \o PacketsFrom(c)[After(c, p + k)]
      BY <2>1, <3>3, PacketsFromAt
    <3> QED
      BY <3>2, <3>3, <3>4, <3>5
  <2>3. CASE ~IsWhole(d, p)
    <3>1. ~IsWhole(c, p + k)
      BY <2>1, <2>3
    <3>2. PacketsFrom(d)[p] = <<>>
      BY <2>3, PacketsFromAt
    <3>3. PacketsFrom(c)[p + k] = <<>>
      BY <2>1, <3>1, PacketsFromAt
    <3> QED
      BY <3>2, <3>3
  <2> QED
    BY <2>2, <2>3
<1>3. 1 .. N \subseteq P
  <2> HIDE DEF P, N
  <2> QED
    BY <1>1, <1>2, Descend
<1> QED
  BY <1>3

LEMMA CutType ==
  ASSUME NEW c \in Seq(Cells), NEW need \in Nat
  PROVE  /\ CutPackets(need, c) \in Packets
         /\ need > Len(c) => CutPackets(need, c) = <<>>
         /\ need = 0 => CutPackets(need, c) = PacketsFrom(c)[1]
         /\ need \in 1 .. Len(c) =>
              /\ SubSeq(c, 1, need) \in Seq(Cells)
              /\ CutPackets(need, c) = <<SubSeq(c, 1, need)>> \o PacketsFrom(c)[need + 1]
<1>1. Len(c) \in Nat
  OBVIOUS
<1>2. CASE need > Len(c)
  <2>1. CutPackets(need, c) = <<>>
    BY <1>2 DEF CutPackets
  <2> QED
    BY <1>1, <1>2, <2>1 DEF Packets
<1>3. CASE need = 0
  <2>0. 1 \in 1 .. Len(c) + 1 /\ 0 + 1 = 1
    BY <1>1
  <2>1. PacketsFrom(c)[1] \in Packets
    BY <2>0, PacketsFromAt
  <2>2. <<>> \o PacketsFrom(c)[1] = PacketsFrom(c)[1]
    BY <2>1, ConcatEmptySeq DEF Packets
  <2>3. CutPackets(need, c) = PacketsFrom(c)[1]
    BY <1>1, <1>3, <2>0, <2>2 DEF CutPackets
  <2> QED
    BY <1>1, <1>3, <2>1, <2>3
<1>4. CASE need \in 1 .. Len(c)
  <2>0. need + 1 \in 1 .. Len(c) + 1 /\ need # 0 /\ ~(need > Len(c))
    BY <1>1, <1>4
  <2>1. PacketsFrom(c)[need + 1] \in Packets
    BY <2>0, PacketsFromAt
  <2>2. SubSeq(c, 1, need) \in Seq(Cells)
    <3>1. \A i \in 1 .. need : c[i] \in Cells
      BY <1>1, <1>4
    <3> QED
      BY <3>1, SubSeqProperties
  <2>3. CutPackets(need, c) = <<SubSeq(c, 1, need)>> \o PacketsFrom(c)[need + 1]
    BY <2>0 DEF CutPackets
  <2>4. <<SubSeq(c, 1, need)>> \in Packets
    BY <2>2 DEF Packets
  <2>5. CutPackets(need, c) \in Packets
    BY <2>1, <2>3, <2>4, ConcatProperties DEF Packets
  <2> QED
    BY <1>1, <1>4, <2>2, <2>3, <2>5
<1> QED
  BY <1>1, <1>2, <1>3, <1>4

\* A header that is read leaves the packets as they are.
LEMMA HeaderOff ==
  ASSUME NEW c \in Seq(Cells), HeaderSize <= Len(c), c[1].len # 0
  PROVE  CutPackets(c[1].len, SubSeq(c, HeaderSize + 1, Len(c))) = CutPackets(0, c)
<1> DEFINE l == c[1].len
           d == SubSeq(c, HeaderSize + 1, Len(c))
<1>1. /\ Len(c) \in Nat /\ HeaderSize \in 0 .. Len(c) /\ HeaderSize \in Nat
      /\ 1 \in 1 .. Len(c) /\ 1 \in 1 .. Len(c) + 1
  OBVIOUS
<1>2. l \in Nat
  BY <1>1, LenNat
<1>3. l \in Nat \ {0}
  BY <1>2
<1>4. d \in Seq(Cells) /\ Len(d) = Len(c) - HeaderSize
      /\ \A i \in 1 .. Len(d) : d[i] = c[i + HeaderSize]
  BY <1>1, SkipCells
<1>5. After(c, 1) = 1 + HeaderSize + l
  BY DEF After
<1>6. CutPackets(0, c) = PacketsFrom(c)[1]
  BY CutType
<1>7. d = SubSeq(c, HeaderSize + 1, Len(c))
  OBVIOUS
<1> HIDE DEF l, d
<1>8. CASE l > Len(d)
  <2>1. ~IsWhole(c, 1)
    BY <1>1, <1>3, <1>4, <1>5, <1>8 DEF IsWhole
  <2>2. PacketsFrom(c)[1] = <<>>
    BY <1>1, <2>1, PacketsFromAt
  <2>3. CutPackets(l, d) = <<>>
    BY <1>3, <1>4, <1>8, CutType
  <2> QED
    BY <1>6, <2>2, <2>3 DEF l, d
<1>9. CASE ~(l > Len(d))
  <2>1. l \in 1 .. Len(d) /\ l + 1 \in 1 .. Len(d) + 1 /\ (l + 1) + HeaderSize = 1 + HeaderSize + l
    BY <1>1, <1>3, <1>4, <1>9
  <2>2. IsWhole(c, 1)
    BY <1>1, <1>3, <1>4, <1>5, <1>9 DEF IsWhole
  <2>3. PacketsFrom(c)[1] = <<Payload(c, 1)>> \o PacketsFrom(c)[1 + HeaderSize + l]
    BY <1>1, <1>5, <2>2, PacketsFromAt
  <2>4. CutPackets(l, d) = <<SubSeq(d, 1, l)>> \o PacketsFrom(d)[l + 1]
    BY <1>3, <1>4, <2>1, CutType
  <2>5. PacketsFrom(d)[l + 1] = PacketsFrom(c)[(l + 1) + HeaderSize]
    <3>1. \A p \in 1 .. Len(d) + 1 : PacketsFrom(d)[p] = PacketsFrom(c)[p + HeaderSize]
      BY <1>1, <1>4, <1>7, SkipPackets
    <3> QED
      BY <2>1, <3>1
  <2>6. SubSeq(d, 1, l) = Payload(c, 1)
    <3> DEFINE s == SubSeq(d, 1, l)
               t == Payload(c, 1)
    <3>1. s \in Seq(Cells) /\ Len(s) = l /\ \A i \in 1 .. l : s[i] = d[i]
      <4>1. ASSUME NEW i \in 1 .. l PROVE d[i] \in Cells
        <5>1. i \in 1 .. Len(d)
          BY <1>3, <2>1
        <5>2. d \in Seq(Cells)
          BY <1>4
        <5> QED
          BY <5>1, <5>2
      <4>2. /\ s \in Seq(Cells) /\ Len(s) = (IF 1 <= l THEN l - 1 + 1 ELSE 0)
            /\ \A i \in 1 .. l - 1 + 1 : s[i] = d[1 + i - 1]
        BY <1>3, <4>1, SubSeqProperties
      <4> HIDE DEF s
      <4>3. Len(s) = l
        BY <1>3, <4>2
      <4>4. ASSUME NEW i \in 1 .. l PROVE s[i] = d[i]
        <5>1. i \in 1 .. l - 1 + 1 /\ 1 + i - 1 = i
          BY <1>3
        <5> QED
          BY <4>2, <5>1
      <4> QED
        BY <4>2, <4>3, <4>4
    <3>2. t \in Seq(Cells) /\ Len(t) = l /\ \A i \in 1 .. l : t[i] = c[1 + HeaderSize + i - 1]
      BY <1>1, <2>2, WholeIn DEF l
    <3> HIDE DEF s, t
    <3>3. ASSUME NEW i \in 1 .. l PROVE s[i] = t[i]
      <4>1. i \in 1 .. Len(d) /\ 1 + HeaderSize + i - 1 = i + HeaderSize
        BY <1>1, <1>3, <2>1
      <4> QED
        BY <1>4, <3>1, <3>2, <4>1
    <3>4. s = t
      BY <3>1, <3>2, <3>3, SeqEqual
    <3> QED
      BY <3>4 DEF s, t
  <2> QED
    BY <1>6, <2>1, <2>3, <2>4, <2>5, <2>6 DEF l, d
<1> QED
  BY <1>8, <1>9

\* Taking the current packet takes the first of the queue.
LEMMA PacketOff ==
  ASSUME NEW c \in Seq(Cells), NEW need \in 1 .. Len(c)
  PROVE  /\ CutPackets(need, c) # <<>>
         /\ Head(CutPackets(need, c)) = SubSeq(c, 1, need)
         /\ Tail(CutPackets(need, c)) = CutPackets(0, SubSeq(c, need + 1, Len(c)))
<1> DEFINE s == SubSeq(c, 1, need)
           d == SubSeq(c, need + 1, Len(c))
           q == CutPackets(need, c)
           t == PacketsFrom(c)[need + 1]
<1>1. /\ Len(c) \in Nat /\ need \in Nat /\ need \in 0 .. Len(c)
      /\ need + 1 \in 1 .. Len(c) + 1 /\ 1 + need = need + 1
  OBVIOUS
<1>2. s \in Seq(Cells) /\ q = <<s>> \o t
  BY <1>1, CutType
<1>3. d \in Seq(Cells)
  BY <1>1, SkipCells
<1>4. CutPackets(0, d) = PacketsFrom(d)[1]
  <2> HIDE DEF d
  <2> QED
    BY <1>3, CutType
<1>5. PacketsFrom(d)[1] = t
  <2>1. d = SubSeq(c, need + 1, Len(c))
    OBVIOUS
  <2> HIDE DEF d
  <2>2. \A p \in 1 .. Len(d) + 1 : PacketsFrom(d)[p] = PacketsFrom(c)[p + need]
    BY <1>1, <1>3, <2>1, SkipPackets
  <2>3. 1 \in 1 .. Len(d) + 1
    BY <1>3
  <2> QED
    BY <1>1, <2>2, <2>3
<1>6. t \in Packets
  BY <1>1, PacketsFromAt
<1> HIDE DEF s, d, q, t
<1>7. q # <<>> /\ Head(q) = s /\ Tail(q) = t
  <2>1. <<s>> \in Packets /\ Len(<<s>>) = 1 /\ <<s>>[1] = s
    BY <1>2 DEF Packets
  <2>2. /\ q \in Packets /\ Len(q) = 1 + Len(t)
        /\ \A i \in 1 .. 1 + Len(t) : q[i] = IF i <= 1 THEN <<s>>[i] ELSE t[i - 1]
    BY <1>2, <1>6, <2>1, ConcatProperties DEF Packets
  <2>3. Len(t) \in Nat
    BY <1>6 DEF Packets
  <2>4. q # <<>> /\ Head(q) = s
    BY <2>1, <2>2, <2>3 DEF Packets
  <2>5. /\ Tail(q) \in Packets /\ Len(Tail(q)) = Len(q) - 1
        /\ \A i \in 1 .. Len(Tail(q)) : Tail(q)[i] = q[i + 1]
    BY <2>2, <2>4, HeadTailProperties DEF Packets
  <2>6. Len(Tail(q)) = Len(t)
    BY <2>2, <2>3, <2>5
  <2>7. ASSUME NEW i \in 1 .. Len(t) PROVE Tail(q)[i] = t[i]
    <3>1. i + 1 \in 1 .. 1 + Len(t) /\ ~(i + 1 <= 1) /\ (i + 1) - 1 = i
      BY <2>3
    <3> QED
      BY <2>2, <2>5, <2>6, <3>1
  <2>8. Tail(q) = t
    BY <1>6, <2>5, <2>6, <2>7, SeqEqual DEF Packets
  <2> QED
    BY <2>4, <2>8
<1> QED
  BY <1>4, <1>5, <1>7 DEF s, d, q, t

\* E has, with the place of a header in c, the place after its packet.
Frames(c, E) ==
  /\ E \subseteq Nat \ {0}
  /\ \A p \in E : p + HeaderSize <= Len(c) + 1 => c[p].len # 0 /\ After(c, p) \in E

\* The packets at the places in E are all there.
Complete(c, E) == \A p \in E : p = Len(c) + 1 \/ IsWhole(c, p)

\* No packet starts in the last m cells.
OneLeft(c, E, m) == \A p \in E : p <= Len(c) => p <= Len(c) - m

\* The places seen from k cells further on.
Down(E, k) == {p - k : p \in {x \in E : x > k}}

LEMMA FramesSkip ==
  ASSUME NEW c \in Seq(Cells), NEW k \in 0 .. Len(c), NEW E, Frames(c, E),
         NEW d \in Seq(Cells), d = SubSeq(c, k + 1, Len(c))
  PROVE  /\ Frames(d, Down(E, k))
         /\ Complete(c, E) => Complete(d, Down(E, k))
         /\ \A m \in Nat : OneLeft(c, E, m) => OneLeft(d, Down(E, k), m)
<1>1. Len(c) \in Nat /\ k \in Nat /\ Len(d) = Len(c) - k /\ Len(d) \in Nat
  BY SkipCells
<1>2. \A i \in 1 .. Len(d) : d[i] = c[i + k]
  BY SkipCells
<1>3. \A p \in Down(E, k) : p \in Nat \ {0} /\ p + k \in E
  <2> TAKE p \in Down(E, k)
  <2>1. PICK x \in E : x > k /\ p = x - k
    BY DEF Down
  <2>2. x \in Nat
    BY DEF Frames
  <2> QED
    BY <1>1, <2>1, <2>2
<1>4. \A p \in E : p > k => p - k \in Down(E, k)
  BY DEF Down
<1>5. ASSUME NEW p \in Down(E, k), p + HeaderSize <= Len(d) + 1
      PROVE  d[p].len # 0 /\ After(d, p) \in Down(E, k)
  <2>1. /\ p \in 1 .. Len(d) /\ p + k \in 1 .. Len(c) /\ (p + k) + HeaderSize <= Len(c) + 1
        /\ p \in Nat
    BY <1>1, <1>3, <1>5, SMTT(30)
  <2>2. d[p] = c[p + k] /\ c[p + k].len \in Nat
    BY <1>2, <2>1, LenNat
  <2>3. c[p + k].len # 0 /\ After(c, p + k) \in E
    BY <1>3, <2>1 DEF Frames
  <2> DEFINE l == d[p].len
  <2>4. l \in Nat /\ After(d, p) = p + HeaderSize + l /\ After(c, p + k) = (p + k) + HeaderSize + l
    BY <2>2 DEF After
  <2>5. After(c, p + k) > k /\ After(c, p + k) - k = After(d, p)
    <3> HIDE DEF l
    <3> QED
      BY <1>1, <2>1, <2>4
  <2> QED
    BY <1>4, <2>2, <2>3, <2>5
<1>6. Frames(d, Down(E, k))
  BY <1>3, <1>5 DEF Frames
<1>7. ASSUME Complete(c, E), NEW p \in Down(E, k)
      PROVE  p = Len(d) + 1 \/ IsWhole(d, p)
  <2>1. p \in Nat \ {0} /\ p + k \in E
    BY <1>3
  <2>2. CASE p + k = Len(c) + 1
    BY <1>1, <2>1, <2>2
  <2>3. CASE IsWhole(c, p + k)
    <3>1. p \in 1 .. Len(d) + 1
      BY <1>1, <2>1, <2>3 DEF IsWhole
    <3> QED
      BY <2>3, <3>1, SkipWhole
  <2> QED
    BY <1>7, <2>1, <2>2, <2>3 DEF Complete
<1>8. Complete(c, E) => Complete(d, Down(E, k))
  BY <1>7 DEF Complete
<1>9. ASSUME NEW m \in Nat, OneLeft(c, E, m), NEW p \in Down(E, k), p <= Len(d)
      PROVE  p <= Len(d) - m
  <2>1. p \in Nat \ {0} /\ p + k \in E /\ p + k <= Len(c)
    BY <1>1, <1>3, <1>9
  <2>2. p + k <= Len(c) - m
    BY <1>9, <2>1 DEF OneLeft
  <2> QED
    BY <1>1, <2>1, <2>2
<1> QED
  BY <1>6, <1>8, <1>9 DEF OneLeft

\* Fewer cells have fewer packets.
LEMMA FramesPrefix ==
  ASSUME NEW a \in Seq(Cells), NEW b \in Seq(Cells), NEW E, Frames(a \o b, E)
  PROVE  Frames(a, E)
<1> DEFINE c == a \o b
<1>1. /\ c \in Seq(Cells) /\ Len(c) = Len(a) + Len(b) /\ Len(a) \in Nat /\ Len(b) \in Nat
      /\ \A i \in 1 .. Len(a) : c[i] = a[i]
  BY ConcatProperties
<1>2. Frames(c, E)
  OBVIOUS
<1> HIDE DEF c
<1>3. ASSUME NEW p \in E, p + HeaderSize <= Len(a) + 1
      PROVE  a[p].len # 0 /\ After(a, p) \in E
  <2>1. p \in Nat \ {0}
    BY <1>2 DEF Frames
  <2>2. p \in 1 .. Len(a) /\ p + HeaderSize <= Len(c) + 1
    BY <1>1, <1>3, <2>1
  <2>3. c[p] = a[p] /\ After(a, p) = After(c, p)
    BY <1>1, <2>2 DEF After
  <2> QED
    BY <1>2, <2>2, <2>3 DEF Frames
<1> QED
  BY <1>2, <1>3 DEF Frames

LEMMA HeaderCells ==
  ASSUME NEW len \in Nat \ {0}, NEW n \in Nat
  PROVE  /\ Header(len) \in Seq(Cells) /\ Len(Header(len)) = HeaderSize
         /\ Packet(n, len) \in Seq(Cells) /\ Len(Packet(n, len)) = len
         /\ Header(len)[1].len = len /\ Header(len)[1].pkt = 0
         /\ Packet(n, len)[1].pkt = n
<1>1. Header(len) \in Seq(Cells) /\ Packet(n, len) \in Seq(Cells)
  BY CellSeqs
<1>2. Len(Header(len)) = HeaderSize /\ Header(len)[1] = [pkt |-> 0, at |-> 1, len |-> len]
  BY DEF Header
<1>3. Len(Packet(n, len)) = len /\ Packet(n, len)[1] = [pkt |-> n, at |-> 1, len |-> 0]
  BY DEF Packet
<1> QED
  BY <1>1, <1>2, <1>3

\* What is added after a part c of the cells does not touch what is in c.
LEMMA ConcatWhole ==
  ASSUME NEW c \in Seq(Cells), NEW b \in Seq(Cells), NEW p \in 1 .. Len(c) + 1,
         IsWhole(c, p)
  PROVE  IsWhole(c \o b, p) /\ After(c \o b, p) = After(c, p) /\ Payload(c \o b, p) = Payload(c, p)
<1> DEFINE d == c \o b
<1>1. /\ d \in Seq(Cells) /\ Len(d) = Len(c) + Len(b) /\ Len(c) \in Nat /\ Len(b) \in Nat
      /\ \A i \in 1 .. Len(c) : d[i] = c[i]
  BY ConcatProperties
<1> HIDE DEF d
<1>2. p \in 1 .. Len(c) /\ c[p].len \in Nat /\ p \in 1 .. Len(d) + 1
  BY <1>1, WholeIn
<1>3. d[p] = c[p] /\ After(d, p) = After(c, p)
  BY <1>1, <1>2 DEF After
<1>4. After(c, p) \in Nat /\ After(c, p) <= Len(c) + 1
  BY WholeIn
<1>5. IsWhole(d, p)
  BY <1>1, <1>2, <1>3, <1>4 DEF IsWhole
<1> DEFINE s == Payload(c, p)
           t == Payload(d, p)
           l == c[p].len
<1>6. s \in Seq(Cells) /\ Len(s) = l /\ \A i \in 1 .. l : s[i] = c[p + HeaderSize + i - 1]
  BY WholeIn
<1>7. t \in Seq(Cells) /\ Len(t) = l /\ \A i \in 1 .. l : t[i] = d[p + HeaderSize + i - 1]
  <2>1. /\ Payload(d, p) \in Seq(Cells) /\ Len(Payload(d, p)) = d[p].len
        /\ \A i \in 1 .. d[p].len : Payload(d, p)[i] = d[p + HeaderSize + i - 1]
    BY <1>1, <1>2, <1>5, WholeIn
  <2> QED
    BY <1>3, <2>1
<1>8. p + HeaderSize + l <= Len(c) + 1 /\ l \in Nat /\ p \in Nat
  BY <1>2, <1>4 DEF After
<1> HIDE DEF s, t, l
<1>9. ASSUME NEW i \in 1 .. l PROVE s[i] = t[i]
  <2>1. p + HeaderSize + i - 1 \in 1 .. Len(c)
    BY <1>1, <1>8
  <2> QED
    BY <1>1, <1>6, <1>7, <2>1
<1>10. s = t
  BY <1>6, <1>7, <1>9, SeqEqual
<1> QED
  BY <1>3, <1>5, <1>10 DEF s, t, d

\* The cells e are those of c and a packet after them.
Joined(e, c, n, len) == e = c \o (Header(len) \o Packet(n, len))

\* s has one packet more than t, the packet y.
Adds(s, t, y) == s = Append(t, y)

\* A packet written after packets that are all there is the last in the queue.
LEMMA FromAccept ==
  ASSUME NEW c \in Seq(Cells), NEW E, Frames(c, E), Complete(c, E),
         NEW len \in Nat \ {0}, NEW n \in Nat, NEW e \in Seq(Cells),
         Joined(e, c, n, len)
  PROVE  /\ Len(e) = Len(c) + HeaderSize + len
         /\ IsWhole(e, Len(c) + 1) /\ After(e, Len(c) + 1) = Len(e) + 1
         /\ e[Len(c) + 1].len = len
         /\ \A p \in E : p \in 1 .. Len(c) + 1
                         /\ Adds(PacketsFrom(e)[p], PacketsFrom(c)[p], Packet(n, len))
<1> DEFINE h == Header(len)
           y == Packet(n, len)
           b == h \o y
           N == Len(c) + 1
<1>1. /\ h \in Seq(Cells) /\ Len(h) = HeaderSize /\ y \in Seq(Cells) /\ Len(y) = len
      /\ h[1].len = len
  BY HeaderCells
<1>2. Len(c) \in Nat /\ N \in Nat
  OBVIOUS
<1>3. e = c \o b
  BY DEF Joined
<1> HIDE DEF h, y
<1>4. /\ b \in Seq(Cells) /\ Len(b) = HeaderSize + len
      /\ \A i \in 1 .. HeaderSize + len : b[i] = IF i <= HeaderSize THEN h[i] ELSE y[i - HeaderSize]
  <2>1. /\ b \in Seq(Cells) /\ Len(b) = Len(h) + Len(y)
        /\ \A i \in 1 .. Len(h) + Len(y) : b[i] = IF i <= Len(h) THEN h[i] ELSE y[i - Len(h)]
    BY <1>1, ConcatProperties, ZenonT(40)
  <2> QED
    BY <1>1, <2>1
<1> HIDE DEF b
<1>5. /\ Len(e) = Len(c) + (HeaderSize + len)
      /\ \A i \in 1 .. Len(c) + (HeaderSize + len) :
            e[i] = IF i <= Len(c) THEN c[i] ELSE b[i - Len(c)]
  <2>1. /\ Len(e) = Len(c) + Len(b)
        /\ \A i \in 1 .. Len(c) + Len(b) : e[i] = IF i <= Len(c) THEN c[i] ELSE b[i - Len(c)]
    BY <1>3, <1>4, ConcatProperties, ZenonT(40)
  <2> QED
    BY <1>4, <2>1
<1>6. e[N].len = len /\ Len(e) = Len(c) + HeaderSize + len /\ N \in 1 .. Len(e) + 1
  <2>1. /\ N \in 1 .. Len(c) + (HeaderSize + len) /\ ~(N <= Len(c)) /\ N - Len(c) = 1
        /\ 1 \in 1 .. HeaderSize + len /\ 1 <= HeaderSize
    BY <1>2
  <2>2. e[N] = h[1]
    BY <1>4, <1>5, <2>1
  <2> QED
    BY <1>1, <1>2, <1>5, <2>1, <2>2
<1>7. IsWhole(e, N) /\ After(e, N) = Len(e) + 1
  <2>1. After(e, N) = N + HeaderSize + len
    BY <1>6 DEF After
  <2> QED
    BY <1>2, <1>6, <2>1 DEF IsWhole
<1>8. Payload(e, N) = y
  <2> DEFINE s == Payload(e, N)
  <2>1. s \in Seq(Cells) /\ Len(s) = len /\ \A i \in 1 .. len : s[i] = e[N + HeaderSize + i - 1]
    BY <1>6, <1>7, WholeIn
  <2> HIDE DEF s
  <2>2. ASSUME NEW i \in 1 .. len PROVE s[i] = y[i]
    <3> DEFINE j == N + HeaderSize + i - 1
    <3>1. /\ j \in 1 .. Len(c) + (HeaderSize + len) /\ ~(j <= Len(c))
          /\ j - Len(c) \in 1 .. HeaderSize + len /\ ~(j - Len(c) <= HeaderSize)
          /\ (j - Len(c)) - HeaderSize = i
      BY <1>2
    <3>2. s[i] = e[j]
      BY <2>1
    <3> HIDE DEF j
    <3>3. e[j] = b[j - Len(c)]
      BY <1>5, <3>1
    <3>4. b[j - Len(c)] = y[i]
      BY <1>4, <3>1
    <3> QED
      BY <3>2, <3>3, <3>4
  <2>3. s = y
    BY <1>1, <2>1, <2>2, SeqEqual
  <2> QED
    BY <2>3 DEF s
<1>9. PacketsFrom(e)[N] = <<y>> /\ PacketsFrom(c)[N] = <<>>
  <2>1. Len(e) + 1 \in 1 .. Len(e) + 1 /\ N \in 1 .. Len(c) + 1
    BY <1>2, <1>6
  <2>2. ~IsWhole(e, Len(e) + 1) /\ ~IsWhole(c, N)
    BY <1>2, <1>6 DEF IsWhole
  <2>3. PacketsFrom(e)[Len(e) + 1] = <<>>
    BY <2>1, <2>2, PacketsFromAt
  <2>4. PacketsFrom(c)[N] = <<>>
    BY <2>1, <2>2, PacketsFromAt
  <2>5. PacketsFrom(e)[N] = <<y>> \o <<>>
    <3>1. PacketsFrom(e)[N] = <<Payload(e, N)>> \o PacketsFrom(e)[After(e, N)]
      BY <1>6, <1>7, PacketsFromAt
    <3> QED
      BY <1>7, <1>8, <2>3, <3>1
  <2>6. <<y>> \o <<>> = <<y>>
    <3>1. <<y>> \in Seq(Seq(Cells))
      BY <1>1
    <3> QED
      BY <3>1, ConcatEmptySeq
  <2> QED
    BY <2>4, <2>5, <2>6
<1>10. \A p \in E : p \in 1 .. N
  <2> TAKE p \in E
  <2>1. p \in Nat \ {0} /\ (p = Len(c) + 1 \/ IsWhole(c, p))
    BY DEF Frames, Complete
  <2> QED
    BY <1>2, <2>1 DEF IsWhole
<1> DEFINE P == {p \in 1 .. N : p \in E => PacketsFrom(e)[p] = Append(PacketsFrom(c)[p], y)}
<1>11. ASSUME NEW p \in 1 .. N, \A q \in 1 .. N : p < q => q \in P PROVE p \in P
  <2> SUFFICES ASSUME p \in E PROVE PacketsFrom(e)[p] = Append(PacketsFrom(c)[p], y)
    OBVIOUS
  <2>1. CASE p = N
    <3>1. Append(<<>>, y) = <<y>>
      OBVIOUS
    <3> QED
      BY <1>9, <2>1, <3>1
  <2>2. CASE p # N
    <3>1. IsWhole(c, p)
      BY <2>2 DEF Complete
    <3> DEFINE a == After(c, p)
               x == Payload(c, p)
    <3>2. p \in 1 .. Len(c) + 1
      OBVIOUS
    <3>3. a \in 1 .. N /\ p < a /\ x \in Seq(Cells)
      BY <3>1, <3>2, WholeIn
    <3>4. a \in E
      BY <3>1 DEF Frames, IsWhole
    <3>5. IsWhole(e, p) /\ After(e, p) = a /\ Payload(e, p) = x
      BY <1>3, <1>4, <3>1, <3>2, ConcatWhole
    <3>6. PacketsFrom(e)[a] = Append(PacketsFrom(c)[a], y)
      BY <1>11, <3>3, <3>4
    <3>7. p \in 1 .. Len(e) + 1
      BY <1>2, <1>6
    <3>8. PacketsFrom(e)[p] = <<x>> \o PacketsFrom(e)[a]
      BY <3>5, <3>7, PacketsFromAt
    <3>9. PacketsFrom(c)[p] = <<x>> \o PacketsFrom(c)[a]
      BY <3>1, <3>2, PacketsFromAt
    <3>10. PacketsFrom(c)[a] \in Seq(Seq(Cells)) /\ <<x>> \in Seq(Seq(Cells)) /\ <<y>> \in Seq(Seq(Cells))
      <4>1. PacketsFrom(c)[a] \in Packets
        BY <3>3, PacketsFromAt
      <4> QED
        BY <1>1, <3>3, <4>1 DEF Packets
    <3> DEFINE u == PacketsFrom(c)[a]
               S == Seq(Cells)
    <3>11. u \in Seq(S) /\ <<x>> \in Seq(S) /\ <<y>> \in Seq(S) /\ y \in S
      BY <3>10, <1>1
    <3> HIDE DEF u, x, S
    <3>12. Append(u, y) = u \o <<y>>
      BY <3>11, AppendIsConcat
    <3>13. <<x>> \o u \in Seq(S)
      BY <3>11, ConcatProperties
    <3>14. Append(<<x>> \o u, y) = (<<x>> \o u) \o <<y>>
      BY <3>11, <3>13, AppendIsConcat
    <3>15. (<<x>> \o u) \o <<y>> = <<x>> \o (u \o <<y>>)
      BY <3>11, ConcatAssociative
    <3>16. PacketsFrom(e)[a] = Append(u, y) /\ PacketsFrom(c)[p] = <<x>> \o u
      BY <3>6, <3>9 DEF u
    <3> QED
      BY <3>8, <3>12, <3>14, <3>15, <3>16
  <2> QED
    BY <2>1, <2>2
<1>12. 1 .. N \subseteq P
  <2> HIDE DEF P, N
  <2> QED
    BY <1>2, <1>11, Descend
<1> QED
  BY <1>6, <1>7, <1>10, <1>12 DEF y, Adds

LEMMA QueueAccept ==
  ASSUME NEW c \in Seq(Cells), NEW E, Frames(c, E), Complete(c, E),
         NEW need \in Nat, need + 1 \in E,
         NEW len \in Nat \ {0}, NEW n \in Nat, NEW e \in Seq(Cells),
         Joined(e, c, n, len)
  PROVE  CutPackets(need, e) = Append(CutPackets(need, c), Packet(n, len))
<1> DEFINE y == Packet(n, len)
           S == Seq(Cells)
<1>1. /\ Len(e) = Len(c) + HeaderSize + len
      /\ need + 1 \in 1 .. Len(c) + 1
      /\ PacketsFrom(e)[need + 1] = Append(PacketsFrom(c)[need + 1], y)
  <2>1. /\ Len(e) = Len(c) + HeaderSize + len
        /\ \A p \in E : p \in 1 .. Len(c) + 1
                        /\ Adds(PacketsFrom(e)[p], PacketsFrom(c)[p], Packet(n, len))
    BY ONLY c \in Seq(Cells), Frames(c, E), Complete(c, E), len \in Nat \ {0}, n \in Nat,
            e \in Seq(Cells), Joined(e, c, n, len), FromAccept
  <2> QED
    BY <2>1 DEF Adds
<1>2. Len(c) \in Nat /\ y \in S
  BY HeaderCells
<1>3. CASE need = 0
  <2>1. CutPackets(need, c) = PacketsFrom(c)[1] /\ CutPackets(need, e) = PacketsFrom(e)[1]
    BY <1>3, CutType
  <2> QED
    BY <1>1, <1>3, <2>1, SMTT(30)
<1>4. CASE need # 0
  <2> DEFINE x == SubSeq(c, 1, need)
             z == SubSeq(e, 1, need)
             u == PacketsFrom(c)[need + 1]
             v == PacketsFrom(e)[need + 1]
  <2>1. need \in 1 .. Len(c) /\ need \in 1 .. Len(e) /\ 1 \in 1 .. Len(c)
    BY <1>1, <1>2, <1>4
  <2>2. x \in S /\ CutPackets(need, c) = <<x>> \o u
    BY <2>1, CutType
  <2>3. CutPackets(need, e) = <<z>> \o v
    BY <2>1, CutType
  <2>4. z = x
    <3>1. Header(len) \o Packet(n, len) \in S
      BY HeaderCells, ConcatProperties
    <3> QED
      BY <2>1, <3>1, SubSeqOfConcat1 DEF Joined
  <2>5. u \in Seq(S)
    BY <1>1, PacketsFromAt DEF Packets
  <2>6. v = Append(u, y)
    BY <1>1
  <2> HIDE DEF u, x, S, y, z, v
  <2>7. <<x>> \in Seq(S) /\ <<y>> \in Seq(S)
    BY <1>2, <2>2
  <2>8. Append(u, y) = u \o <<y>>
    BY <1>2, <2>5, AppendIsConcat
  <2>9. <<x>> \o u \in Seq(S)
    BY <2>5, <2>7, ConcatProperties
  <2>10. Append(<<x>> \o u, y) = (<<x>> \o u) \o <<y>>
    BY <1>2, <2>9, AppendIsConcat
  <2>11. (<<x>> \o u) \o <<y>> = <<x>> \o (u \o <<y>>)
    BY <2>5, <2>7, ConcatAssociative
  <2>12. CutPackets(need, e) = Append(CutPackets(need, c), y)
    BY <2>2, <2>3, <2>4, <2>6, <2>8, <2>10, <2>11
  <2> QED
    BY <2>12 DEF y
<1> QED
  BY <1>3, <1>4

LEMMA FramesAccept ==
  ASSUME NEW c \in Seq(Cells), NEW E, Frames(c, E), Complete(c, E),
         NEW len \in Nat \ {0}, NEW n \in Nat, NEW e \in Seq(Cells),
         Joined(e, c, n, len),
         NEW m \in Nat, m < HeaderSize + len
  PROVE  \E D : /\ E \subseteq D /\ Frames(e, D) /\ Complete(e, D)
                /\ OneLeft(e, D, m)
<1> DEFINE N == Len(c) + 1
           b == Header(len) \o Packet(n, len)
           D == E \cup {Len(c) + 1, Len(e) + 1}
<1>1. /\ Len(e) = Len(c) + HeaderSize + len
      /\ IsWhole(e, N) /\ After(e, N) = Len(e) + 1 /\ e[N].len = len
      /\ \A p \in E : p \in 1 .. Len(c) + 1
  <2>1. /\ Len(e) = Len(c) + HeaderSize + len
        /\ IsWhole(e, N) /\ After(e, N) = Len(e) + 1 /\ e[N].len = len
        /\ \A p \in E : p \in 1 .. Len(c) + 1
                        /\ Adds(PacketsFrom(e)[p], PacketsFrom(c)[p], Packet(n, len))
    BY ONLY c \in Seq(Cells), Frames(c, E), Complete(c, E), len \in Nat \ {0}, n \in Nat,
            e \in Seq(Cells), Joined(e, c, n, len), FromAccept
  <2> QED
    BY <2>1
<1>2. Len(c) \in Nat /\ b \in Seq(Cells) /\ e = c \o b
  BY HeaderCells, ConcatProperties DEF Joined
<1> HIDE DEF b
<1>3. ASSUME NEW p \in E, p # N
      PROVE  IsWhole(e, p) /\ e[p].len # 0 /\ After(e, p) \in E
  <2>1. IsWhole(c, p) /\ p \in 1 .. Len(c) + 1
    BY <1>1, <1>3 DEF Complete
  <2>2. IsWhole(e, p) /\ After(e, p) = After(c, p)
    BY <1>2, <2>1, ConcatWhole
  <2>3. c[p].len # 0 /\ After(c, p) \in E
    BY <2>1 DEF IsWhole, Frames
  <2>4. e[p] = c[p]
    <3>1. p \in 1 .. Len(c)
      BY <2>1, WholeIn
    <3> QED
      BY <1>2, <3>1, ConcatProperties
  <2> QED
    BY <2>2, <2>3, <2>4
<1>4. Complete(e, D)
  BY <1>1, <1>3 DEF Complete
<1>5. Frames(e, D)
  <2>1. D \subseteq Nat \ {0}
    <3>1. Len(e) + 1 \in Nat \ {0} /\ N \in Nat \ {0}
      OBVIOUS
    <3> QED
      BY <3>1 DEF Frames
  <2>2. ASSUME NEW p \in D, p + HeaderSize <= Len(e) + 1
        PROVE  e[p].len # 0 /\ After(e, p) \in D
    <3>1. p # Len(e) + 1
      BY <1>1, <1>2, <2>2
    <3> QED
      BY <1>1, <1>3, <3>1
  <2> QED
    BY <2>1, <2>2 DEF Frames
<1>6. OneLeft(e, D, m)
  <2> SUFFICES ASSUME NEW p \in D, p <= Len(e) PROVE p <= Len(e) - m
    BY DEF OneLeft
  <2>1. p # Len(e) + 1
    BY <1>1, <1>2
  <2>2. p \in 1 .. Len(c) + 1
    BY <1>1, <2>1
  <2> QED
    BY <1>1, <1>2, <2>2
<1> QED
  BY <1>4, <1>5, <1>6

AddsOne(s, t) == \E x \in Seq(Cells) : Adds(s, t, x)

\* A packet given up half-way was the last of the queue.
LEMMA FromGiveUp ==
  ASSUME NEW a \in Seq(Cells), NEW b \in Seq(Cells), b # <<>>,
         NEW c \in Seq(Cells), c = a \o b,
         NEW E, Frames(c, E), Complete(c, E), OneLeft(c, E, Len(b)),
         NEW p \in E, p <= Len(c)
  PROVE  /\ p \in 1 .. Len(a)
         /\ AddsOne(PacketsFrom(c)[p], PacketsFrom(a)[p])
<1> DEFINE N == Len(a)
           P == {q \in 1 .. N : q \in E =>
                   \E x \in Seq(Cells) : PacketsFrom(c)[q] = Append(PacketsFrom(a)[q], x)}
<1>1. /\ Len(c) = Len(a) + Len(b) /\ Len(a) \in Nat /\ Len(b) \in Nat /\ Len(b) # 0
      /\ \A i \in 1 .. Len(a) : c[i] = a[i]
  BY ConcatProperties
<1>2. \A q \in E : q \in Nat \ {0} /\ (q <= Len(c) => q \in 1 .. N)
  BY <1>1 DEF OneLeft, Frames
<1>3. ASSUME NEW q \in 1 .. N, \A r \in 1 .. N : q < r => r \in P PROVE q \in P
  <2> SUFFICES ASSUME q \in E
               PROVE  \E x \in Seq(Cells) : PacketsFrom(c)[q] = Append(PacketsFrom(a)[q], x)
    OBVIOUS
  <2>1. q \in 1 .. Len(c) + 1 /\ q \in 1 .. Len(a) + 1 /\ q # Len(c) + 1 /\ q \in 1 .. Len(a)
    BY <1>1
  <2>2. IsWhole(c, q)
    BY <2>1 DEF Complete
  <2> DEFINE f == After(c, q)
             x == Payload(c, q)
  <2>3. f \in E
    BY <2>2 DEF IsWhole, Frames
  <2>4. f \in 1 .. Len(c) + 1 /\ q < f /\ x \in Seq(Cells)
    BY <2>1, <2>2, WholeIn
  <2>5. PacketsFrom(c)[q] = <<x>> \o PacketsFrom(c)[f]
    BY <2>1, <2>2, PacketsFromAt
  <2>6. After(a, q) = f
    BY <1>1, <2>1 DEF After
  <2> HIDE DEF f, x, P, N
  <2>7. CASE f = Len(c) + 1
    <3>1. ~IsWhole(c, f)
      BY <1>1, <2>7 DEF IsWhole
    <3>2. PacketsFrom(c)[f] = <<>>
      BY <2>4, <3>1, PacketsFromAt
    <3>3. ~IsWhole(a, q)
      BY <1>1, <2>6, <2>7 DEF IsWhole
    <3>4. PacketsFrom(a)[q] = <<>>
      BY <2>1, <3>3, PacketsFromAt
    <3>5. <<x>> \o <<>> = <<x>>
      <4>1. <<x>> \in Seq(Seq(Cells))
        BY <2>4
      <4> QED
        BY <4>1, ConcatEmptySeq
    <3>6. Append(<<>>, x) = <<x>>
      OBVIOUS
    <3> QED
      BY <2>4, <2>5, <3>2, <3>4, <3>5, <3>6
  <2>8. CASE f # Len(c) + 1
    <3>1. f \in 1 .. N /\ f \in 1 .. Len(a) + 1
      <4>1. f <= Len(c)
        <5> DEFINE L == Len(c)
        <5>1. L \in Nat /\ f \in 1 .. L + 1 /\ f # L + 1
          BY <2>4, <2>8
        <5> HIDE DEF L
        <5>2. f <= L
          BY ONLY <5>1
        <5> QED
          BY <5>2 DEF L
      <4> QED
        BY <1>1, <1>2, <2>3, <4>1 DEF N
    <3>2. PICK z \in Seq(Cells) : PacketsFrom(c)[f] = Append(PacketsFrom(a)[f], z)
      BY <1>3, <2>3, <2>4, <3>1 DEF P
    <3>3. IsWhole(a, q)
      <4>1. c[q].len \in Nat /\ f = q + HeaderSize + c[q].len
        BY <2>1, <2>2, WholeIn DEF f, After
      <4>2. q + HeaderSize <= f
        BY <2>1, <4>1, SMTT(30)
      <4> QED
        BY <1>1, <2>1, <2>6, <3>1, <4>2 DEF IsWhole
    <3>4. Payload(c, q) = Payload(a, q)
      BY <2>1, <3>3, ConcatWhole
    <3>5. PacketsFrom(a)[q] = <<x>> \o PacketsFrom(a)[f]
      <4>1. PacketsFrom(a)[q] = <<Payload(a, q)>> \o PacketsFrom(a)[After(a, q)]
        BY <2>1, <3>3, PacketsFromAt
      <4> QED
        BY <2>6, <3>4, <4>1 DEF x
    <3> DEFINE u == PacketsFrom(a)[f]
               S == Seq(Cells)
    <3>6. u \in Seq(S)
      BY <3>1, PacketsFromAt DEF Packets
    <3>7. z \in S /\ x \in S /\ <<x>> \in Seq(S) /\ <<z>> \in Seq(S)
      BY <2>4
    <3>8. PacketsFrom(c)[f] = Append(u, z) /\ PacketsFrom(a)[q] = <<x>> \o u
      BY <3>2, <3>5
    <3> HIDE DEF u, S
    <3>9. Append(u, z) = u \o <<z>>
      BY <3>6, <3>7, AppendIsConcat
    <3>10. <<x>> \o u \in Seq(S)
      BY <3>6, <3>7, ConcatProperties
    <3>11. Append(<<x>> \o u, z) = (<<x>> \o u) \o <<z>>
      BY <3>7, <3>10, AppendIsConcat
    <3>12. (<<x>> \o u) \o <<z>> = <<x>> \o (u \o <<z>>)
      BY <3>6, <3>7, ConcatAssociative
    <3>13. PacketsFrom(c)[q] = Append(PacketsFrom(a)[q], z)
      BY <2>5, <3>8, <3>9, <3>11, <3>12
    <3> QED
      BY <3>13
  <2> QED
    BY <2>7, <2>8
<1>4. 1 .. N \subseteq P
  <2>1. N \in Nat
    BY <1>1
  <2> HIDE DEF P, N
  <2> QED
    BY <1>3, <2>1, Descend
<1>5. p \in 1 .. N
  BY <1>2
<1> QED
  BY <1>4, <1>5 DEF AddsOne, Adds

LEMMA QueueGiveUp ==
  ASSUME NEW a \in Seq(Cells), NEW b \in Seq(Cells), b # <<>>,
         NEW c \in Seq(Cells), c = a \o b,
         NEW E, Frames(c, E), Complete(c, E), OneLeft(c, E, Len(b)),
         NEW need \in Nat, need + 1 \in E
  PROVE  AddsOne(CutPackets(need, c), CutPackets(need, a))
<1> SUFFICES \E x \in Seq(Cells) : CutPackets(need, c) = Append(CutPackets(need, a), x)
  BY DEF AddsOne, Adds
<1>1. Len(c) = Len(a) + Len(b) /\ Len(a) \in Nat /\ Len(b) \in Nat /\ Len(b) # 0
  BY ConcatProperties
<1>2. CASE need + 1 <= Len(c)
  <2>1. need + 1 \in 1 .. Len(a)
    BY <1>2, FromGiveUp
  <2>2. PICK z \in Seq(Cells) :
           PacketsFrom(c)[need + 1] = Append(PacketsFrom(a)[need + 1], z)
    <3> DEFINE p == need + 1
    <3>1. p \in E /\ p <= Len(c)
      BY <1>2
    <3> HIDE DEF p
    <3>2. AddsOne(PacketsFrom(c)[p], PacketsFrom(a)[p])
      BY ONLY <3>1, a \in Seq(Cells), b \in Seq(Cells), b # <<>>, c \in Seq(Cells),
              c = a \o b, Frames(c, E), Complete(c, E), OneLeft(c, E, Len(b)), FromGiveUp
    <3> QED
      BY <3>2 DEF p, AddsOne, Adds
  <2>3. CASE need = 0
    <3>1. CutPackets(need, c) = PacketsFrom(c)[1] /\ CutPackets(need, a) = PacketsFrom(a)[1]
      BY <2>3, CutType
    <3> QED
      BY <2>2, <2>3, <3>1, SMTT(30)
  <2>4. CASE need # 0
    <3> DEFINE x == SubSeq(a, 1, need)
               u == PacketsFrom(a)[need + 1]
               S == Seq(Cells)
    <3>1. need \in 1 .. Len(a) /\ need \in 1 .. Len(c) /\ 1 \in 1 .. Len(a)
          /\ need + 1 \in 1 .. Len(a) + 1
      BY <1>1, <2>1, <2>4
    <3>2. x \in S /\ CutPackets(need, a) = <<x>> \o u
      BY <3>1, CutType
    <3>3. CutPackets(need, c) = <<SubSeq(c, 1, need)>> \o PacketsFrom(c)[need + 1]
      BY <3>1, CutType
    <3>4. SubSeq(c, 1, need) = x
      BY <3>1, SubSeqOfConcat1
    <3>5. u \in Seq(S)
      BY <3>1, PacketsFromAt DEF Packets
    <3>6. CutPackets(need, c) = <<x>> \o Append(u, z)
      BY <2>2, <3>3, <3>4
    <3>7. z \in S
      OBVIOUS
    <3> HIDE DEF u, x, S
    <3>8. <<x>> \in Seq(S) /\ <<z>> \in Seq(S)
      BY <3>2, <3>7
    <3>9. Append(u, z) = u \o <<z>>
      BY <3>5, <3>7, AppendIsConcat
    <3>10. <<x>> \o u \in Seq(S)
      BY <3>5, <3>8, ConcatProperties
    <3>11. Append(<<x>> \o u, z) = (<<x>> \o u) \o <<z>>
      BY <3>7, <3>10, AppendIsConcat
    <3>12. (<<x>> \o u) \o <<z>> = <<x>> \o (u \o <<z>>)
      BY <3>5, <3>8, ConcatAssociative
    <3>13. CutPackets(need, c) = Append(CutPackets(need, a), z)
      BY <3>2, <3>6, <3>9, <3>11, <3>12
    <3> QED
      BY <3>13
  <2> QED
    BY <2>3, <2>4
<1>3. CASE ~(need + 1 <= Len(c))
  <2>1. need + 1 = Len(c) + 1 \/ IsWhole(c, need + 1)
    BY DEF Complete
  <2>2. need = Len(c)
    <3>1. ~(need + 1 + HeaderSize <= Len(c) + 1)
      BY <1>1, <1>3
    <3>2. need + 1 = Len(c) + 1
      BY <2>1, <3>1 DEF IsWhole
    <3> QED
      BY ONLY <1>1, <3>2, need \in Nat, SMTT(30)
  <2>3. need \in 1 .. Len(c) /\ need > Len(a) /\ need + 1 \in 1 .. Len(c) + 1
    BY <1>1, <2>2
  <2> DEFINE x == SubSeq(c, 1, need)
  <2>4. x \in Seq(Cells) /\ CutPackets(need, c) = <<x>> \o PacketsFrom(c)[need + 1]
    BY <2>3, CutType
  <2>5. ~IsWhole(c, need + 1)
    BY <1>1, <2>2 DEF IsWhole
  <2>6. PacketsFrom(c)[need + 1] = <<>>
    BY <2>3, <2>5, PacketsFromAt
  <2>7. CutPackets(need, a) = <<>>
    BY <2>3, CutType
  <2> HIDE DEF x
  <2>8. <<x>> \o <<>> = <<x>> /\ Append(<<>>, x) = <<x>>
    <3>1. <<x>> \in Seq(Seq(Cells))
      BY <2>4
    <3> QED
      BY <3>1, ConcatEmptySeq
  <2>9. CutPackets(need, c) = Append(CutPackets(need, a), x)
    BY <2>4, <2>6, <2>7, <2>8
  <2> QED
    BY <2>4, <2>9
<1> QED
  BY <1>2, <1>3
-----------------------------------------------------------------------------
(* The invariant of the queue.  Nobody but one reader takes packets: with  *)
(* two of them a reader may start on a packet that is not there (the run   *)
(* of WholePacketWaiting).                                                 *)

OneReader == \A q, r \in Readers : q = r

Copying == {"copy", "done", "flag", "notify"}

\* What the writer has under way: a header and a payload of which nothing has
\* been written, or the rest of them.
Writing(len) ==
  \/ /\ tx.pay # <<>> /\ tx.pay[1].pkt # 0
     /\ tx.done = 0 => tx.buf = Header(len) /\ tx.pay = Packet(sent + 1, len)
  \/ tx.pay = <<>> /\ WriteBegun

\* What the writer has left fits in the ring, and the segment it has copied is
\* in the free part, next to the head.
TxAt(w) ==
  /\ Writing(count[w])
  /\ Len(tx.buf) + Len(tx.pay) <= smd_stream_write_avail
  /\ wpc[w] \in {"copy", "done"} => tx.buf # <<>>
  /\ wpc[w] = "notify" => tx.buf = <<>>
  /\ wpc[w] \in {"flag", "notify"} => tx.done > 0
  /\ wpc[w] = "done" =>
       /\ tx.xfer > 0 /\ head + tx.xfer <= FifoSize
       /\ \A i \in 1 .. tx.xfer : data[head + i - 1] = tx.buf[i]

TxPart ==
  /\ \A w \in Writers : wpc[w] # "idle" => count[w] \in Lens
  /\ \A w \in Writers : wpc[w] \in Copying => TxAt(w)
  /\ (\A w \in Writers : wpc[w] \notin Copying) => tx = NoTx

\* From the moment the reader has found a whole packet the packet stays there,
\* and the segment it has copied is still at the tail.  A reader that has only
\* found the device being released gets nowhere: it returns, or finds no channel.
PacketThere == current_packet > 0 /\ current_packet <= smd_stream_read_avail
RxAt(r) ==
  /\ rpc[r] = "woken" => release["R"] # "no" \/ PacketThere
  /\ rpc[r] = "lock" => no_ch("R") \/ PacketThere
  /\ rpc[r] \in Reading =>
       /\ rx.n <= Len(rx.buf)
       /\ (Len(rx.buf) - rx.n) + smd_stream_read_avail >= rx.want
  /\ rpc[r] = "sub" => Len(rx.buf) = rx.want
  /\ rpc[r] = "done" =>
       /\ tail + rx.n <= FifoSize
       /\ \A i \in 1 .. rx.n : rx.buf[(Len(rx.buf) - rx.n) + i] = data[tail + i - 1]
  /\ rpc[r] # "done" => rx.n = 0

RxPart ==
  /\ \A r \in Readers : RxAt(r)
  /\ (\A r \in Readers : rpc[r] \notin Reading) => rx.buf = <<>> /\ rx.n = 0

\* The three parts of the cells under way.  What has been taken from the ring is
\* of a packet or, between two packets, of a header.
Copied == SubSeq(rx.buf, 1, Len(rx.buf) - rx.n)
Taken == Copied \o hdr.buf
Ring == [i \in 1 .. smd_stream_read_avail |-> data[Wrap(tail + i - 1)]]
Rest == IF WriteBegun THEN tx.buf \o tx.pay ELSE <<>>

\* No packet has been given up half-way.
Intact == ch_is_open("W") \/ WriteBegun \/ \E w \in Writers : wpc[w] = "done"

\* The cells under way are packets with their headers; unless one has been given
\* up all of them are complete, and at most one is being written.
Framed(E) ==
  /\ current_packet + 1 \in E
  /\ Frames(CellsUnderway, E)
  /\ Intact => /\ Complete(CellsUnderway, E)
               /\ OneLeft(CellsUnderway, E, Len(Rest))

StreamInv == \E E : Framed(E)

QInv == IInv /\ TxPart /\ RxPart /\ StreamInv

Queue == CutPackets(current_packet, CellsUnderway)

\* The parts are sequences of cells.
LEMMA Parts ==
  ASSUME TypeOK
  PROVE  /\ rx.buf \in Seq(Cells) /\ tx.buf \in Seq(Cells) /\ tx.pay \in Seq(Cells)
         /\ hdr.buf \in Seq(Cells)
         /\ Len(rx.buf) \in Nat /\ Len(tx.buf) \in Nat /\ Len(tx.pay) \in Nat
         /\ rx.n \in Nat /\ rx.want \in Nat /\ tx.xfer \in Nat /\ tx.done \in Nat
         /\ head \in 0 .. FifoSize - 1 /\ tail \in 0 .. FifoSize - 1 /\ Indices
         /\ smd_stream_read_avail \in 0 .. FifoSize - 1
         /\ smd_stream_write_avail \in 0 .. FifoSize - 1
         /\ smd_stream_read_avail = Used(head, tail)
         /\ smd_stream_write_avail = (FifoSize - 1) - Used(head, tail)
         /\ current_packet \in Nat /\ sent \in Nat
<1>1. /\ rx \in RxType /\ tx \in TxType /\ Indices /\ current_packet \in Nat /\ sent \in Nat
      /\ hdr \in HdrType
      /\ head \in 0 .. FifoSize - 1 /\ tail \in 0 .. FifoSize - 1
  BY DEF TypeOK, RxType, TxType, HdrType, Indices
<1>2. /\ rx.buf \in Seq(Cells) /\ tx.buf \in Seq(Cells) /\ tx.pay \in Seq(Cells)
      /\ hdr.buf \in Seq(Cells) /\ rx.n \in Nat /\ rx.want \in Nat /\ tx.xfer \in Nat /\ tx.done \in Nat
  BY <1>1 DEF RxType, TxType, HdrType
<1>3. Len(rx.buf) \in Nat /\ Len(tx.buf) \in Nat /\ Len(tx.pay) \in Nat
  BY <1>2
<1>4. /\ smd_stream_read_avail \in 0 .. FifoSize - 1
      /\ smd_stream_write_avail \in 0 .. FifoSize - 1
      /\ smd_stream_read_avail = Used(head, tail)
      /\ smd_stream_write_avail = (FifoSize - 1) - Used(head, tail)
  BY <1>1, Avail
<1> QED
  BY <1>1, <1>2, <1>3, <1>4

LEMMA RingCells ==
  ASSUME TypeOK
  PROVE  /\ Ring \in Seq(Cells) /\ Len(Ring) = smd_stream_read_avail
         /\ \A i \in 1 .. smd_stream_read_avail :
               Ring[i] = data[Wrap(tail + i - 1)] /\ Wrap(tail + i - 1) \in 0 .. FifoSize - 1
<1> DEFINE u == smd_stream_read_avail
<1>1. u \in 0 .. FifoSize - 1 /\ tail \in 0 .. FifoSize - 1
  BY Parts
<1> HIDE DEF u
<1>2. ASSUME NEW i \in 1 .. u PROVE Wrap(tail + i - 1) \in 0 .. FifoSize - 1
  <2>1. i - 1 \in Nat /\ i - 1 < FifoSize
    BY <1>1
  <2>2. Wrap(tail + (i - 1)) \in 0 .. FifoSize - 1
    BY <1>1, <2>1, WrapRange
  <2> QED
    BY <2>2
<1>3. data \in [0 .. FifoSize - 1 -> Cells]
  BY DEF TypeOK
<1>4. \A i \in 1 .. u : data[Wrap(tail + i - 1)] \in Cells
  BY <1>2, <1>3
<1>5. Ring = [i \in 1 .. u |-> data[Wrap(tail + i - 1)]]
  BY DEF Ring, u
<1>6. Ring \in Seq(Cells) /\ Len(Ring) = u
  BY <1>1, <1>4, <1>5
<1> QED
  BY <1>2, <1>5, <1>6 DEF u

LEMMA CopiedCells ==
  ASSUME TypeOK
  PROVE  /\ Copied \in Seq(Cells)
         /\ rx.n = 0 => Copied = rx.buf
         /\ rx.n <= Len(rx.buf) =>
              /\ Len(Copied) = Len(rx.buf) - rx.n
              /\ \A i \in 1 .. Len(rx.buf) - rx.n : Copied[i] = rx.buf[i]
<1> DEFINE b == rx.buf
           m == Len(rx.buf) - rx.n
<1>1. b \in Seq(Cells) /\ Len(b) \in Nat /\ rx.n \in Nat
  BY Parts
<1>2. m \in Int /\ m <= Len(b) /\ m = Len(b) - rx.n
  BY <1>1
<1>3. Copied = SubSeq(b, 1, m)
  BY DEF Copied
<1> HIDE DEF b, m
<1>4. \A i \in 1 .. m : b[i] \in Cells
  BY <1>1, <1>2
<1>5. /\ SubSeq(b, 1, m) \in Seq(Cells)
      /\ Len(SubSeq(b, 1, m)) = IF 1 <= m THEN m - 1 + 1 ELSE 0
      /\ \A i \in 1 .. m - 1 + 1 : SubSeq(b, 1, m)[i] = b[1 + i - 1]
  BY <1>2, <1>4, SubSeqProperties
<1>6. ASSUME rx.n = 0 PROVE Copied = b
  <2>1. m = Len(b)
    BY <1>1, <1>2, <1>6
  <2> QED
    BY <1>1, <1>3, <2>1, SubSeqFull
<1>7. ASSUME rx.n <= Len(b) PROVE Len(Copied) = m /\ \A i \in 1 .. m : Copied[i] = b[i]
  <2>1. Len(Copied) = m
    BY <1>1, <1>2, <1>3, <1>5, <1>7
  <2>2. ASSUME NEW i \in 1 .. m PROVE Copied[i] = b[i]
    <3>1. i \in 1 .. m - 1 + 1 /\ 1 + i - 1 = i
      BY <1>2
    <3> QED
      BY <1>3, <1>5, <3>1
  <2> QED
    BY <2>1, <2>2
<1> QED
  BY <1>3, <1>5, <1>6, <1>7 DEF b, m

LEMMA TakenCells ==
  ASSUME TypeOK
  PROVE  /\ Taken \in Seq(Cells)
         /\ rx.buf = <<>> => Taken = hdr.buf
         /\ hdr.buf = <<>> =>
              /\ rx.n = 0 => Taken = rx.buf
              /\ rx.n <= Len(rx.buf) =>
                   /\ Len(Taken) = Len(rx.buf) - rx.n
                   /\ \A i \in 1 .. Len(rx.buf) - rx.n : Taken[i] = rx.buf[i]
<1>1. /\ Copied \in Seq(Cells) /\ hdr.buf \in Seq(Cells)
      /\ rx.buf \in Seq(Cells) /\ rx.n \in Nat
  BY CopiedCells, Parts
<1>2. Taken \in Seq(Cells)
  BY <1>1, ConcatProperties DEF Taken
<1>3. hdr.buf = <<>> => Taken = Copied
  BY <1>1, ConcatEmptySeq DEF Taken
<1>4. ASSUME rx.buf = <<>> PROVE Taken = hdr.buf
  <2>1. Len(rx.buf) - rx.n < 1
    BY <1>1, <1>4
  <2>2. Copied = <<>>
    BY <1>4, <2>1 DEF Copied
  <2> QED
    BY <1>1, <2>2, ConcatEmptySeq DEF Taken
<1> QED
  BY <1>2, <1>3, <1>4, CopiedCells

LEMMA RestCells ==
  ASSUME TypeOK
  PROVE  Rest \in Seq(Cells) /\ tx.buf \o tx.pay \in Seq(Cells)
         /\ Len(tx.buf \o tx.pay) = Len(tx.buf) + Len(tx.pay)
<1>1. tx.buf \o tx.pay \in Seq(Cells) /\ Len(tx.buf \o tx.pay) = Len(tx.buf) + Len(tx.pay)
  BY Parts, ConcatProperties
<1>2. <<>> \in Seq(Cells)
  OBVIOUS
<1> QED
  BY <1>1, <1>2 DEF Rest

LEMMA Underway ==
  ASSUME TypeOK
  PROVE  /\ CellsUnderway = (Taken \o Ring) \o Rest
         /\ Taken \o Ring \in Seq(Cells) /\ CellsUnderway \in Seq(Cells)
         /\ Len(Taken \o Ring) = Len(Taken) + Len(Ring)
         /\ Len(CellsUnderway) = Len(Taken \o Ring) + Len(Rest)
<1>1. CellsUnderway = (Taken \o Ring) \o Rest
  BY DEF CellsUnderway, Taken, Copied, Ring, Rest
<1>2. Taken \in Seq(Cells) /\ Ring \in Seq(Cells) /\ Rest \in Seq(Cells)
  BY TakenCells, RingCells, RestCells
<1>3. Taken \o Ring \in Seq(Cells) /\ Len(Taken \o Ring) = Len(Taken) + Len(Ring)
  BY <1>2, ConcatProperties
<1>4. (Taken \o Ring) \o Rest \in Seq(Cells)
      /\ Len((Taken \o Ring) \o Rest) = Len(Taken \o Ring) + Len(Rest)
  BY <1>2, <1>3, ConcatProperties
<1> QED
  BY <1>1, <1>3, <1>4

\* The same facts, to be used of the state after a step.
CellFacts ==
  /\ Taken \in Seq(Cells) /\ Ring \in Seq(Cells) /\ Rest \in Seq(Cells)
  /\ Taken \o Ring \in Seq(Cells) /\ CellsUnderway \in Seq(Cells)
  /\ CellsUnderway = (Taken \o Ring) \o Rest
  /\ Len(Taken \o Ring) = Len(Taken) + Len(Ring)
  /\ Len(CellsUnderway) = Len(Taken \o Ring) + Len(Rest)
  /\ Len(Ring) = smd_stream_read_avail
  /\ \A i \in 1 .. smd_stream_read_avail :
        Ring[i] = data[Wrap(tail + i - 1)] /\ Wrap(tail + i - 1) \in 0 .. FifoSize - 1
  /\ rx.buf = <<>> => Taken = hdr.buf
  /\ hdr.buf = <<>> =>
        /\ rx.n = 0 => Taken = rx.buf
        /\ rx.n <= Len(rx.buf) =>
             /\ Len(Taken) = Len(rx.buf) - rx.n
             /\ \A i \in 1 .. Len(rx.buf) - rx.n : Taken[i] = rx.buf[i]
  /\ hdr.buf \in Seq(Cells)
  /\ rx.buf \in Seq(Cells) /\ tx.buf \in Seq(Cells) /\ tx.pay \in Seq(Cells)
  /\ Len(rx.buf) \in Nat /\ Len(tx.buf) \in Nat /\ Len(tx.pay) \in Nat
  /\ rx.n \in Nat /\ rx.want \in Nat /\ tx.xfer \in Nat /\ tx.done \in Nat
  /\ head \in 0 .. FifoSize - 1 /\ tail \in 0 .. FifoSize - 1
  /\ smd_stream_read_avail \in 0 .. FifoSize - 1
  /\ smd_stream_write_avail \in 0 .. FifoSize - 1
  /\ smd_stream_read_avail = Used(head, tail)
  /\ smd_stream_write_avail = (FifoSize - 1) - Used(head, tail)
  /\ current_packet \in Nat /\ sent \in Nat

LEMMA CellsNow == TypeOK => CellFacts
<1> SUFFICES ASSUME TypeOK PROVE CellFacts
  OBVIOUS
<1>1. /\ rx.buf \in Seq(Cells) /\ tx.buf \in Seq(Cells) /\ tx.pay \in Seq(Cells)
      /\ Len(rx.buf) \in Nat /\ Len(tx.buf) \in Nat /\ Len(tx.pay) \in Nat
      /\ rx.n \in Nat /\ rx.want \in Nat /\ tx.xfer \in Nat /\ tx.done \in Nat
      /\ head \in 0 .. FifoSize - 1 /\ tail \in 0 .. FifoSize - 1
      /\ smd_stream_read_avail \in 0 .. FifoSize - 1
      /\ smd_stream_write_avail \in 0 .. FifoSize - 1
      /\ smd_stream_read_avail = Used(head, tail)
      /\ smd_stream_write_avail = (FifoSize - 1) - Used(head, tail)
      /\ current_packet \in Nat /\ sent \in Nat /\ hdr.buf \in Seq(Cells)
  BY Parts
<1>2. /\ Taken \in Seq(Cells)
      /\ rx.buf = <<>> => Taken = hdr.buf
      /\ hdr.buf = <<>> =>
           /\ rx.n = 0 => Taken = rx.buf
           /\ rx.n <= Len(rx.buf) =>
                /\ Len(Taken) = Len(rx.buf) - rx.n
                /\ \A i \in 1 .. Len(rx.buf) - rx.n : Taken[i] = rx.buf[i]
  BY TakenCells
<1>3. /\ Ring \in Seq(Cells) /\ Len(Ring) = smd_stream_read_avail
      /\ \A i \in 1 .. smd_stream_read_avail :
            Ring[i] = data[Wrap(tail + i - 1)] /\ Wrap(tail + i - 1) \in 0 .. FifoSize - 1
  BY RingCells
<1>4. Rest \in Seq(Cells)
  BY RestCells
<1>5. /\ CellsUnderway = (Taken \o Ring) \o Rest
      /\ Taken \o Ring \in Seq(Cells) /\ CellsUnderway \in Seq(Cells)
      /\ Len(Taken \o Ring) = Len(Taken) + Len(Ring)
      /\ Len(CellsUnderway) = Len(Taken \o Ring) + Len(Rest)
  BY Underway
<1> QED
  BY <1>1, <1>2, <1>3, <1>4, <1>5, Zenon DEF CellFacts

LEMMA CellsNext == TypeOK' => CellFacts'
BY CellsNow, PTL

\* A step that leaves the cells under way where they are.
LEMMA Steady ==
  ASSUME TypeOK, TypeOK', StreamInv, current_packet' = current_packet,
         CellsUnderway' = CellsUnderway,
         Intact' => Intact /\ Len(Rest') <= Len(Rest)
  PROVE  StreamInv' /\ Queue' = Queue
<1>1. Queue' = Queue
  BY DEF Queue
<1>2. PICK E : Framed(E)
  BY DEF StreamInv
<1> DEFINE c == CellsUnderway
<1>3. Len(c) \in Nat /\ Len(Rest) \in Nat /\ Len(Rest') \in Nat
  <2>1. c \in Seq(Cells) /\ Rest \in Seq(Cells)
    BY Underway, RestCells
  <2>2. Rest' \in Seq(Cells)
    BY CellsNext DEF CellFacts
  <2> QED
    BY <2>1, <2>2
<1>4. ASSUME Intact' PROVE Complete(c, E) /\ OneLeft(c, E, Len(Rest'))
  <2>1. Complete(c, E) /\ OneLeft(c, E, Len(Rest)) /\ Frames(c, E)
    BY <1>2, <1>4 DEF Framed
  <2>2. ASSUME NEW p \in E, p <= Len(c) PROVE p <= Len(c) - Len(Rest')
    <3>1. p <= Len(c) - Len(Rest) /\ p \in Nat
      BY <2>1, <2>2 DEF OneLeft, Frames
    <3> QED
      BY <1>3, <1>4, <3>1
  <2> QED
    BY <2>1, <2>2 DEF OneLeft
<1>5. /\ current_packet' + 1 \in E
      /\ Frames(CellsUnderway', E)
      /\ Intact' => /\ Complete(CellsUnderway', E)
                    /\ OneLeft(CellsUnderway', E, Len(Rest'))
  BY <1>2, <1>4 DEF Framed
<1>6. StreamInv'
  BY <1>5 DEF StreamInv, Framed
<1> QED
  BY <1>1, <1>6

\* The writer's part depends on the reading end only through the free space.
LEMMA TxKept ==
  ASSUME TypeOK, TypeOK', TxPart, UNCHANGED <<tx, wpc, count, sent, head, data>>,
         smd_stream_write_avail' >= smd_stream_write_avail
  PROVE  TxPart'
<1>1. /\ Len(tx.buf) \in Nat /\ Len(tx.pay) \in Nat
      /\ smd_stream_write_avail \in Nat /\ smd_stream_write_avail' \in Nat
  <2>1. smd_stream_write_avail' \in 0 .. FifoSize - 1
    BY CellsNext DEF CellFacts
  <2> QED
    BY <2>1, Parts
<1>2. WriteBegun' = WriteBegun
  BY DEF WriteBegun
<1>3. \A w \in Writers : Writing(count[w]) => Writing(count[w])'
  BY <1>2 DEF Writing
<1>4. ASSUME NEW w \in Writers, wpc[w] \in Copying PROVE TxAt(w)'
  <2>1. TxAt(w)
    BY <1>4 DEF TxPart
  <2>2. Writing(count[w])'
    BY <1>3, <2>1 DEF TxAt
  <2>3. Len(tx.buf) + Len(tx.pay) <= smd_stream_write_avail'
    <3>1. Len(tx.buf) + Len(tx.pay) <= smd_stream_write_avail
      BY <2>1 DEF TxAt
    <3> DEFINE a == Len(tx.buf)
               b == Len(tx.pay)
    <3>2. a \in Nat /\ b \in Nat /\ a + b <= smd_stream_write_avail
      BY ONLY <1>1, <3>1
    <3> HIDE DEF a, b
    <3>3. a + b <= smd_stream_write_avail'
      BY <1>1, <3>2
    <3> QED
      BY <3>3 DEF a, b
  <2> QED
    BY <2>1, <2>2, <2>3 DEF TxAt
<1> QED
  BY <1>4 DEF TxPart, Copying

\* The reader's part depends on the writing end only through the cells in use.
LEMMA RxKept ==
  ASSUME TypeOK, TypeOK', RxPart, UNCHANGED <<rx, rpc, current_packet, tail, release>>,
         smd_stream_read_avail' >= smd_stream_read_avail,
         \A r \in Readers : rpc[r] = "done" =>
            \A i \in 1 .. rx.n : data'[tail + i - 1] = data[tail + i - 1]
  PROVE  RxPart'
<1>1. /\ Len(rx.buf) \in Nat /\ rx.n \in Nat /\ rx.want \in Nat /\ current_packet \in Nat
      /\ smd_stream_read_avail \in Nat /\ smd_stream_read_avail' \in Nat
  <2>1. smd_stream_read_avail' \in 0 .. FifoSize - 1
    BY CellsNext DEF CellFacts
  <2> QED
    BY <2>1, Parts
<1>2. ASSUME NEW r \in Readers PROVE RxAt(r)'
  <2>1. RxAt(r)
    BY DEF RxPart
  <2>2. /\ rpc[r] = "woken" => release["R"] # "no" \/ PacketThere'
        /\ rpc[r] = "lock" => no_ch("R")' \/ PacketThere'
    BY <1>1, <2>1 DEF RxAt, PacketThere, no_ch
  <2>3. rpc[r] \in Reading => /\ rx.n <= Len(rx.buf)
                              /\ (Len(rx.buf) - rx.n) + smd_stream_read_avail' >= rx.want
    BY <1>1, <2>1, SMTT(30) DEF RxAt
  <2>4. rpc[r] = "done" =>
          /\ tail + rx.n <= FifoSize
          /\ \A i \in 1 .. rx.n : rx.buf[(Len(rx.buf) - rx.n) + i] = data'[tail + i - 1]
    BY <2>1 DEF RxAt
  <2> QED
    BY <2>1, <2>2, <2>3, <2>4 DEF RxAt
<1> QED
  BY <1>2 DEF RxPart

\* The cells under way depend on these variables only.
LEMMA SameCells ==
  ASSUME UNCHANGED <<rx, hdr, head, tail, data, tx>>
  PROVE  CellsUnderway' = CellsUnderway /\ Rest' = Rest /\ WriteBegun' = WriteBegun
         /\ smd_stream_read_avail' = smd_stream_read_avail
         /\ smd_stream_write_avail' = smd_stream_write_avail
<1>1. /\ smd_stream_read_avail' = smd_stream_read_avail
      /\ smd_stream_write_avail' = smd_stream_write_avail
  BY DEF smd_stream_read_avail, smd_stream_write_avail
<1>2. WriteBegun' = WriteBegun
  BY DEF WriteBegun
<1> QED
  BY <1>1, <1>2 DEF CellsUnderway, Rest

\* The release of the reading device goes on.
Released ==
  /\ release["R"] # "no" => release'["R"] # "no"
  /\ no_ch("R") => no_ch("R")'

\* A step that is no concern of the packets, but may close the channel.
LEMMA QElsewhere ==
  ASSUME QInv, IInv',
         UNCHANGED <<head, tail, data, current_packet, hdr, rx, tx, sent, count, wpc>>,
         \A r \in Readers : rpc'[r] = rpc[r] \/ (rpc[r] = "sleep" /\ rpc'[r] = "wait"),
         ch_is_open("W")' => ch_is_open("W"), Released
  PROVE  QInv' /\ Queue' = Queue
<1>1. TypeOK /\ TypeOK'
  BY DEF QInv, IInv
<1>2. /\ CellsUnderway' = CellsUnderway /\ Rest' = Rest /\ WriteBegun' = WriteBegun
      /\ smd_stream_read_avail' = smd_stream_read_avail
      /\ smd_stream_write_avail' = smd_stream_write_avail
  BY SameCells
<1>3. Intact' => Intact
  BY <1>2 DEF Intact
<1>4. Len(Rest') <= Len(Rest)
  <2>1. Rest \in Seq(Cells)
    BY <1>1, RestCells
  <2>2. Len(Rest) \in Nat
    BY <2>1
  <2> QED
    BY <1>2, <2>2
<1>5. StreamInv' /\ Queue' = Queue
  BY <1>1, <1>2, <1>3, <1>4, Steady DEF QInv
<1>6. TxPart'
  <2>1. smd_stream_write_avail' >= smd_stream_write_avail
    BY <1>1, <1>2, Parts
  <2> QED
    BY <1>1, <2>1, TxKept DEF QInv
<1>7. RxPart'
  <2>1. ASSUME NEW r \in Readers PROVE RxAt(r)'
    BY <1>2 DEF QInv, RxPart, RxAt, PacketThere, Released, Reading
  <2>2. (\A r \in Readers : rpc'[r] \notin Reading) => \A r \in Readers : rpc[r] \notin Reading
    BY DEF Reading
  <2> QED
    BY <2>1, <2>2 DEF QInv, RxPart
<1> QED
  BY <1>5, <1>6, <1>7 DEF QInv
-----------------------------------------------------------------------------
(* The writer and the queue.                                               *)

\* The steps before anything is written, and those of a write that fails.
LEMMA QOutside ==
  ASSUME QInv, IInv', NEW w \in Writers, NEW pc, wpc[w] \notin Copying,
         pc \notin Copying, wpc' = [wpc EXCEPT ![w] = pc],
         pc # "idle" => count'[w] \in Lens,
         \A v \in Writers : v # w => count'[v] = count[v],
         UNCHANGED <<head, tail, data, current_packet, hdr, rx, rpc, tx, sent, state, release>>
  PROVE  QInv' /\ Queue' = Queue
<1>1. TypeOK /\ TypeOK' /\ wpc \in [Writers -> WriterPc]
  BY DEF QInv, IInv, TypeOK, WriterPc
<1>2. /\ CellsUnderway' = CellsUnderway /\ Rest' = Rest /\ WriteBegun' = WriteBegun
      /\ smd_stream_read_avail' = smd_stream_read_avail
      /\ smd_stream_write_avail' = smd_stream_write_avail
  BY SameCells
<1>3. wpc'[w] = pc /\ \A v \in Writers : v # w => wpc'[v] = wpc[v]
  BY <1>1
<1>4. Intact' => Intact
  BY <1>2, <1>3 DEF Intact, ch_is_open, Copying
<1>5. Len(Rest') <= Len(Rest)
  <2>1. Rest \in Seq(Cells)
    BY <1>1, RestCells
  <2>2. Len(Rest) \in Nat
    BY <2>1
  <2> QED
    BY <1>2, <2>2
<1>6. StreamInv' /\ Queue' = Queue
  BY <1>1, <1>2, <1>4, <1>5, Steady DEF QInv
<1>7. TxPart'
  <2>1. ASSUME NEW v \in Writers, wpc'[v] # "idle" PROVE count'[v] \in Lens
    BY <1>3, <2>1 DEF QInv, TxPart
  <2>2. ASSUME NEW v \in Writers, wpc'[v] \in Copying PROVE TxAt(v)'
    <3>1. v # w /\ wpc'[v] = wpc[v] /\ count'[v] = count[v]
      BY <1>3, <2>2
    <3>2. TxAt(v)
      BY <2>2, <3>1 DEF QInv, TxPart
    <3>3. Writing(count[v])'
      BY <1>2, <3>1, <3>2 DEF TxAt, Writing
    <3> QED
      BY <1>2, <3>1, <3>2, <3>3 DEF TxAt
  <2>3. (\A v \in Writers : wpc'[v] \notin Copying) => tx' = NoTx
    BY <1>3 DEF QInv, TxPart
  <2> QED
    BY <2>1, <2>2, <2>3 DEF TxPart
<1>8. RxPart'
  BY <1>2 DEF QInv, RxPart, RxAt, PacketThere, no_ch
<1> QED
  BY <1>6, <1>7, <1>8 DEF QInv

LEMMA QWriterWaits ==
  ASSUME QInv, NEW w \in Writers,
         \/ \E len \in Lens : WriteCall(w, len)
         \/ WriteArm(w) \/ WriteCheck(w) \/ WriteSched(w) \/ WriteNonBlocking(w)
         \/ WriteNull(w)
  PROVE  QInv' /\ UNCHANGED <<Queue, got, sent, state>>
<1> USE DEF irqVars, linkVars, rVars, ringVars
<1>0. IInv'
  BY WriterWaits DEF QInv
<1>9. TypeOK /\ count \in [Writers -> Lens \cup {0}]
  BY DEF QInv, IInv, TypeOK
<1>1. ASSUME NEW len \in Lens, WriteCall(w, len)
      PROVE  QInv' /\ UNCHANGED <<Queue, got, sent, state>>
  <2>1. /\ wpc[w] = "idle" /\ \E pc \in {"arm", "lock"} : wpc' = [wpc EXCEPT ![w] = pc]
        /\ count' = [count EXCEPT ![w] = len]
        /\ UNCHANGED <<head, tail, data, current_packet, hdr, rx, rpc, tx, sent, state, release, got>>
    BY <1>1 DEF WriteCall
  <2>2. count'[w] \in Lens /\ \A v \in Writers : v # w => count'[v] = count[v]
    BY <1>9, <2>1
  <2> QED
    BY <1>0, <2>1, <2>2, QOutside DEF Copying
<1>2. CASE \/ WriteArm(w) \/ WriteCheck(w) \/ WriteSched(w) \/ WriteNonBlocking(w)
           \/ WriteNull(w)
  <2>1. /\ wpc[w] \in {"arm", "lock", "check", "sched", "start"}
        /\ \E pc \in {"check", "sched", "start", "arm", "idle", "oops"} : wpc' = [wpc EXCEPT ![w] = pc]
        /\ UNCHANGED <<head, tail, data, current_packet, hdr, rx, rpc, tx, sent, state, release, got, count>>
    BY <1>2 DEF WriteArm, WriteCheck, WriteSched, WriteNonBlocking, WriteNull,
                WriteReturn, WriteOops
  <2>2. PICK pc \in {"check", "sched", "start", "arm", "idle", "oops"} : wpc' = [wpc EXCEPT ![w] = pc]
    BY <2>1
  <2>3. count'[w] \in Lens
    BY <2>1 DEF QInv, TxPart
  <2> QED
    BY <1>0, <2>1, <2>2, <2>3, QOutside DEF Copying
<1> QED
  BY <1>1, <1>2

\* The header and the payload are made ready; nothing has been written.
LEMMA QWriterStarts ==
  ASSUME QInv, NEW w \in Writers, WriteStart(w)
  PROVE  QInv' /\ UNCHANGED <<Queue, got, sent, state>>
<1> USE DEF irqVars, linkVars, rVars, ringVars
<1>0. IInv'
  BY WriterStarts DEF QInv
<1>1. /\ wpc[w] = "start"
      /\ UNCHANGED <<head, tail, data, current_packet, hdr, rx, rpc, sent, state, release, got, count>>
  BY DEF WriteStart
<1>2. CASE smd_stream_write_avail < count[w] + HeaderSize
  <2>1. wpc' = [wpc EXCEPT ![w] = "idle"] /\ tx' = tx
    BY <1>2 DEF WriteStart, WriteReturn
  <2> QED
    BY <1>0, <1>1, <2>1, QOutside DEF Copying
<1>3. CASE ~(smd_stream_write_avail < count[w] + HeaderSize)
  <2>1. /\ wpc' = [wpc EXCEPT ![w] = "copy"]
        /\ tx' = [NoTx EXCEPT !.buf = Header(count[w]), !.pay = Packet(sent + 1, count[w])]
    BY <1>3 DEF WriteStart
  <2>2. /\ TypeOK /\ TypeOK' /\ wpc \in [Writers -> WriterPc] /\ Locks /\ sent \in Nat
        /\ smd_stream_write_avail \in 0 .. FifoSize - 1
    BY <1>0, Parts DEF QInv, IInv, TypeOK, WriterPc
  <2>3. wpc'[w] = "copy" /\ \A v \in Writers : v # w => wpc'[v] = wpc[v] /\ wpc[v] \notin Copying
    BY <1>1, <2>1, <2>2, Alone DEF Copying, UnderTx
  <2>4. tx = NoTx
    BY <1>1, <2>3 DEF QInv, TxPart, Copying
  <2> DEFINE len == count[w]
             h == Header(len)
             y == Packet(sent + 1, len)
  <2>5. len \in Lens /\ len \in Nat \ {0}
    <3>1. len \in Lens
      BY <1>1 DEF QInv, TxPart
    <3> HIDE DEF len
    <3> QED
      BY <3>1, FifoAssumption
  <2>6. tx' = [buf |-> h, pay |-> y, done |-> 0, xfer |-> 0]
    BY <2>1 DEF NoTx
  <2>7. /\ Len(h) = HeaderSize /\ Len(y) = len /\ h \in Seq(Cells) /\ y \in Seq(Cells)
        /\ h[1].pkt = 0 /\ y[1].pkt = sent + 1
    <3> HIDE DEF len
    <3>1. sent + 1 \in Nat
      BY <2>2
    <3> QED
      BY <2>5, <3>1, HeaderCells
  <2> HIDE DEF h, y
  <2>8. ~WriteBegun
    BY <2>4 DEF WriteBegun, NoTx
  <2>9. ~WriteBegun'
    BY <2>6, <2>7 DEF WriteBegun
  <2>10. Rest = <<>> /\ Rest' = <<>>
    BY <2>8, <2>9 DEF Rest
  <2>11. /\ smd_stream_read_avail' = smd_stream_read_avail
         /\ smd_stream_write_avail' = smd_stream_write_avail
    BY <1>1 DEF smd_stream_read_avail, smd_stream_write_avail
  <2>12. CellsUnderway' = CellsUnderway
    BY <1>1, <2>8, <2>9, <2>11 DEF CellsUnderway
  <2>13. Intact' => Intact
    BY <1>1, <2>3, <2>9 DEF Intact, ch_is_open, Copying
  <2>14. StreamInv' /\ Queue' = Queue
    <3>1. Len(Rest') <= Len(Rest)
      BY <2>10
    <3> QED
      BY <1>1, <2>2, <2>12, <2>13, <3>1, Steady DEF QInv
  <2>15. TxAt(w)'
    <3>1. Writing(len)'
      <4>1. y # <<>> /\ y[1].pkt # 0
        BY <2>2, <2>5, <2>7
      <4>2. /\ tx'.pay # <<>> /\ tx'.pay[1].pkt # 0
            /\ tx'.buf = Header(len') /\ tx'.pay = Packet(sent' + 1, len')
        BY <1>1, <2>6, <4>1 DEF h, y
      <4> QED
        BY <4>2 DEF Writing
    <3>2. Len(tx'.buf) + Len(tx'.pay) <= smd_stream_write_avail'
      <4>1. len \in Nat /\ len + HeaderSize <= smd_stream_write_avail
        BY <1>3, <2>2, <2>5
      <4>2. Len(tx'.buf) = HeaderSize /\ Len(tx'.pay) = len
        BY <2>6, <2>7
      <4> HIDE DEF len
      <4> QED
        BY <2>2, <2>11, <4>1, <4>2
    <3>3. tx'.buf # <<>>
      BY <2>6, <2>7
    <3> QED
      BY <2>3, <3>1, <3>2, <3>3 DEF TxAt
  <2>16. TxPart'
    <3>1. ASSUME NEW v \in Writers, wpc'[v] # "idle" PROVE count'[v] \in Lens
      BY <1>1, <2>3, <3>1 DEF QInv, TxPart
    <3>2. ASSUME NEW v \in Writers, wpc'[v] \in Copying PROVE v = w
      BY <2>3, <3>2
    <3> QED
      BY <2>3, <2>15, <3>1, <3>2 DEF TxPart, Copying
  <2>17. RxPart'
    BY <1>1, <2>11 DEF QInv, RxPart, RxAt, PacketThere, no_ch
  <2> QED
    BY <1>0, <1>1, <2>14, <2>16, <2>17 DEF QInv
<1> QED
  BY <1>2, <1>3

\* The places of the cells in use are not among the n free ones at the head.
LEMMA UsedNotFree ==
  ASSUME NEW h \in 0 .. FifoSize - 1, NEW t \in 0 .. FifoSize - 1,
         NEW n \in Nat, n <= (FifoSize - 1) - Used(h, t), h + n <= FifoSize,
         NEW i \in 1 .. Used(h, t)
  PROVE  ~(h <= Wrap(t + (i - 1)) /\ Wrap(t + (i - 1)) < h + n)
<1>1. i - 1 \in Nat /\ i - 1 < FifoSize
  BY UsedRange
<1>2. Wrap(t + (i - 1)) = IF t + (i - 1) < FifoSize THEN t + (i - 1) ELSE t + (i - 1) - FifoSize
  BY <1>1, WrapRange
<1> QED
  BY <1>1, <1>2 DEF Used

\* The cell after those in use is at the head.
LEMMA NextFree ==
  ASSUME NEW h \in 0 .. FifoSize - 1, NEW t \in 0 .. FifoSize - 1,
         NEW j \in Nat, h + j < FifoSize, Used(h, t) + j < FifoSize
  PROVE  Wrap(t + (Used(h, t) + j)) = h + j
<1>1. Used(h, t) \in 0 .. FifoSize - 1
  BY UsedRange
<1> DEFINE k == Used(h, t) + j
<1>2. k \in Nat /\ k < FifoSize
  BY <1>1
<1> HIDE DEF k
<1>3. Wrap(t + k) = IF t + k < FifoSize THEN t + k ELSE t + k - FifoSize
  BY <1>2, WrapRange
<1>4. k = Used(h, t) + j
  BY DEF k
<1>5. Wrap(t + k) = h + j
  BY <1>3, <1>4 DEF Used
<1> QED
  BY <1>5 DEF k

\* A segment is copied into the free part of the ring.
LEMMA QWriterCopies ==
  ASSUME QInv, NEW w \in Writers, WriteCopy(w)
  PROVE  QInv' /\ UNCHANGED <<Queue, got, sent, state>>
<1> USE DEF irqVars, linkVars, rVars, ringVars
<1>0. IInv'
  BY WriterCopies DEF QInv
<1> DEFINE n == Least(ch_write_buffer, Len(tx.buf))
           u == smd_stream_read_avail
<1>1. TypeOK /\ TypeOK' /\ wpc \in [Writers -> WriterPc] /\ Locks /\ tx \in TxType
  BY <1>0 DEF QInv, IInv, TypeOK, WriterPc, TxType
<1>2. /\ wpc[w] = "copy" /\ wpc' = [wpc EXCEPT ![w] = "done"]
      /\ ch_write_buffer > 0 /\ ch_is_open("W")
      /\ tx' = [tx EXCEPT !.xfer = n]
      /\ data' = [i \in DOMAIN data |-> IF head <= i /\ i < head + n
                                        THEN tx.buf[i - head + 1] ELSE data[i]]
      /\ UNCHANGED <<head, tail, current_packet, hdr, rx, rpc, sent, state, release, got, count>>
  BY DEF WriteCopy
<1>3. TxAt(w) /\ tx.buf # <<>>
  BY <1>2 DEF QInv, TxPart, TxAt, Copying
<1>4. /\ n \in Nat /\ n > 0 /\ n <= Len(tx.buf) /\ head + n <= FifoSize
      /\ n <= (FifoSize - 1) - Used(head, tail)
  <2>1. Len(tx.buf) \in Nat /\ Len(tx.buf) # 0
    BY <1>1, <1>3, Parts, SMTT(30)
  <2>2. /\ ch_write_buffer \in 0 .. smd_stream_write_avail /\ head + ch_write_buffer <= FifoSize
        /\ smd_stream_write_avail = (FifoSize - 1) - Used(head, tail)
        /\ smd_stream_write_avail \in 0 .. FifoSize - 1
        /\ head \in 0 .. FifoSize - 1
    BY <1>1, Parts, Segments
  <2> QED
    BY <1>2, <2>1, <2>2 DEF Least
<1>5. /\ tx'.buf = tx.buf /\ tx'.pay = tx.pay /\ tx'.done = tx.done /\ tx'.xfer = n
  BY <1>1, <1>2 DEF TxType
<1> HIDE DEF n
<1>6. /\ u \in 0 .. FifoSize - 1 /\ u = Used(head, tail) /\ smd_stream_read_avail' = u
      /\ smd_stream_write_avail' = smd_stream_write_avail
      /\ head \in 0 .. FifoSize - 1 /\ tail \in 0 .. FifoSize - 1
      /\ DOMAIN data = 0 .. FifoSize - 1
  BY <1>1, <1>2, Parts DEF smd_stream_read_avail, smd_stream_write_avail, TypeOK
<1> HIDE DEF u
<1>7. ASSUME NEW i \in 1 .. u
      PROVE  data'[Wrap(tail + i - 1)] = data[Wrap(tail + i - 1)]
  <2> DEFINE j == Wrap(tail + (i - 1))
  <2>1. ~(head <= j /\ j < head + n)
    BY <1>4, <1>6, UsedNotFree
  <2>2. tail + i - 1 = tail + (i - 1)
    BY <1>6
  <2>3. j \in 0 .. FifoSize - 1
    <3>1. i - 1 \in Nat /\ i - 1 < FifoSize
      BY <1>6
    <3> QED
      BY <1>6, <3>1, WrapRange
  <2> HIDE DEF j
  <2>4. data'[j] = data[j]
    BY <1>2, <1>6, <2>1, <2>3
  <2> QED
    BY <2>2, <2>4 DEF j
<1>8. Ring' = Ring
  BY <1>2, <1>6, <1>7 DEF Ring, u
<1>9. WriteBegun' = WriteBegun
  BY <1>5 DEF WriteBegun
<1>10. CellsUnderway' = CellsUnderway /\ Rest' = Rest
  <2>1. CellsUnderway = (Taken \o Ring) \o Rest
    BY DEF CellsUnderway, Taken, Copied, Ring, Rest
  <2>2. CellsUnderway' = (Taken' \o Ring') \o Rest'
    BY DEF CellsUnderway, Taken, Copied, Ring, Rest
  <2>3. Taken' = Taken
    BY <1>2 DEF Taken, Copied
  <2>4. Rest' = Rest
    BY <1>5, <1>9 DEF Rest
  <2> QED
    BY <1>8, <2>1, <2>2, <2>3, <2>4
<1>11. StreamInv' /\ Queue' = Queue
  <2>1. Len(Rest') <= Len(Rest)
    <3>1. Rest \in Seq(Cells)
      BY <1>1, RestCells
    <3>2. Len(Rest) \in Nat
      BY <3>1
    <3> QED
      BY <1>10, <3>2
  <2>2. Intact
    BY <1>2 DEF Intact
  <2> QED
    BY <1>1, <1>2, <1>10, <2>1, <2>2, Steady DEF QInv
<1>12. wpc'[w] = "done" /\ \A v \in Writers : v # w => wpc'[v] = wpc[v] /\ wpc[v] \notin Copying
  BY <1>1, <1>2, Alone DEF Copying, UnderTx
<1>13. TxAt(w)'
  <2>1. Writing(count[w])'
    BY <1>2, <1>3, <1>5, <1>9 DEF TxAt, Writing
  <2>2. Len(tx'.buf) + Len(tx'.pay) <= smd_stream_write_avail'
    BY <1>3, <1>5, <1>6 DEF TxAt
  <2>3. ASSUME NEW i \in 1 .. n PROVE data'[head + i - 1] = tx.buf[i]
    <3> DEFINE j == head + i - 1
    <3>1. j \in 0 .. FifoSize - 1 /\ head <= j /\ j < head + n /\ j - head + 1 = i
      BY <1>4, <1>6
    <3> HIDE DEF j
    <3>2. data'[j] = tx.buf[i]
      BY <1>2, <1>6, <3>1
    <3> QED
      BY <3>2 DEF j
  <2> QED
    BY <1>2, <1>3, <1>4, <1>5, <1>12, <2>1, <2>2, <2>3, ZenonT(40) DEF TxAt
<1>14. TxPart'
  <2>1. ASSUME NEW v \in Writers, wpc'[v] # "idle" PROVE count'[v] \in Lens
    BY <1>2, <1>12, <2>1 DEF QInv, TxPart
  <2>2. ASSUME NEW v \in Writers, wpc'[v] \in Copying PROVE v = w
    BY <1>12, <2>2
  <2> QED
    BY <1>12, <1>13, <2>1, <2>2 DEF TxPart, Copying
<1>15. RxPart'
  <2>1. smd_stream_read_avail' >= smd_stream_read_avail
    BY <1>6 DEF u
  <2>2. ASSUME NEW r \in Readers, rpc[r] = "done", NEW i \in 1 .. rx.n
        PROVE  data'[tail + i - 1] = data[tail + i - 1]
    <3>1. tail + rx.n <= FifoSize /\ rx.n <= u /\ rx.n \in Nat
      BY <1>1, <2>2, Parts DEF QInv, RxPart, RxAt, IInv, BugOnsHold, u
    <3>2. i \in 1 .. u /\ i - 1 \in Nat /\ i - 1 < FifoSize /\ tail + (i - 1) < FifoSize
          /\ tail + (i - 1) = tail + i - 1
      BY <1>6, <3>1
    <3>3. Wrap(tail + (i - 1)) = tail + (i - 1)
      BY <1>6, <3>2, WrapRange
    <3> QED
      BY <1>7, <3>2, <3>3
  <2> QED
    BY <1>1, <1>2, <2>1, <2>2, RxKept DEF QInv
<1> QED
  BY <1>0, <1>2, <1>11, <1>14, <1>15 DEF QInv

LEMMA Assoc ==
  ASSUME NEW a \in Seq(Cells), NEW b \in Seq(Cells), NEW c \in Seq(Cells)
  PROVE  (a \o b) \o c = a \o (b \o c)
BY ConcatAssociative, SMTT(30)

\* A segment changes sides.
Regrouped(t, r, s, q, y) == (t \o (r \o s)) \o (q \o y) = (t \o r) \o ((s \o q) \o y)

LEMMA Regroup ==
  ASSUME NEW t \in Seq(Cells), NEW r \in Seq(Cells), NEW s \in Seq(Cells),
         NEW q \in Seq(Cells), NEW y \in Seq(Cells)
  PROVE  Regrouped(t, r, s, q, y)
<1>1. t \o (r \o s) = (t \o r) \o s
  BY Assoc, SMTT(30)
<1>2. s \o (q \o y) = (s \o q) \o y
  BY Assoc, ZenonT(40)
<1>3. t \o r \in Seq(Cells) /\ q \o y \in Seq(Cells)
  BY ConcatProperties
<1>4. ASSUME NEW a \in Seq(Cells), NEW z \in Seq(Cells)
      PROVE  (a \o s) \o z = a \o (s \o z)
  BY Assoc, ZenonT(40)
<1>5. ((t \o r) \o s) \o (q \o y) = (t \o r) \o (s \o (q \o y))
  BY <1>3, <1>4
<1> QED
  BY <1>1, <1>2, <1>5 DEF Regrouped

\* The head moves over the segment: the ring has it at its end.
LEMMA RingGrows ==
  ASSUME TypeOK, TypeOK', tail' = tail, data' = data, head' = Wrap(head + tx.xfer),
         tx.xfer <= Len(tx.buf), tx.xfer <= smd_stream_write_avail,
         head + tx.xfer <= FifoSize,
         \A i \in 1 .. tx.xfer : data[head + i - 1] = tx.buf[i]
  PROVE  /\ Ring' = Ring \o SubSeq(tx.buf, 1, tx.xfer)
         /\ SubSeq(tx.buf, 1, tx.xfer) \in Seq(Cells)
         /\ smd_stream_read_avail' = smd_stream_read_avail + tx.xfer
         /\ smd_stream_write_avail' = smd_stream_write_avail - tx.xfer
<1> DEFINE x == tx.xfer
           u == smd_stream_read_avail
           s == SubSeq(tx.buf, 1, tx.xfer)
<1>1. /\ x \in Nat /\ tx.buf \in Seq(Cells) /\ Len(tx.buf) \in Nat /\ x <= Len(tx.buf)
      /\ head \in 0 .. FifoSize - 1 /\ tail \in 0 .. FifoSize - 1
      /\ u \in 0 .. FifoSize - 1 /\ u = Used(head, tail) /\ x <= (FifoSize - 1) - u
      /\ smd_stream_write_avail = (FifoSize - 1) - u /\ head + x <= FifoSize
  BY Parts
<1>2. /\ u' = Used(head', tail') /\ smd_stream_write_avail' = (FifoSize - 1) - Used(head', tail')
  BY CellsNext DEF CellFacts
<1>3. Ring \in Seq(Cells) /\ Len(Ring) = u
      /\ \A i \in 1 .. u : Ring[i] = data[Wrap(tail + i - 1)]
  BY RingCells
<1>4. Ring' \in Seq(Cells) /\ Len(Ring') = u'
      /\ \A i \in 1 .. u' : Ring'[i] = data[Wrap(tail + i - 1)]
  BY CellsNext DEF CellFacts
<1>5. s \in Seq(Cells) /\ Len(s) = x /\ \A i \in 1 .. x : s[i] = tx.buf[i]
  <2> DEFINE b == tx.buf
  <2> HIDE DEF b, x
  <2>1. \A i \in 1 .. x : b[i] \in Cells
    BY <1>1 DEF b
  <2>2. /\ SubSeq(b, 1, x) \in Seq(Cells)
        /\ Len(SubSeq(b, 1, x)) = IF 1 <= x THEN x - 1 + 1 ELSE 0
        /\ \A i \in 1 .. x - 1 + 1 : SubSeq(b, 1, x)[i] = b[1 + i - 1]
    BY <1>1, <2>1, SubSeqProperties
  <2>3. Len(SubSeq(b, 1, x)) = x
    BY <1>1, <2>2
  <2>4. ASSUME NEW i \in 1 .. x PROVE SubSeq(b, 1, x)[i] = b[i]
    <3>1. i \in 1 .. x - 1 + 1 /\ 1 + i - 1 = i
      BY <1>1
    <3> QED
      BY <2>2, <3>1
  <2> QED
    BY <2>2, <2>3, <2>4 DEF b, x
<1>6. \A i \in 1 .. x : data[head + i - 1] = tx.buf[i]
  OBVIOUS
<1>7. Used(head', tail') = u + x
  BY <1>1, Advance
<1> HIDE DEF x, u, s
<1>8. u' = u + x
  BY <1>2, <1>7
<1>9. /\ Ring \o s \in Seq(Cells) /\ Len(Ring \o s) = Len(Ring) + Len(s)
      /\ \A i \in 1 .. Len(Ring) + Len(s) :
            (Ring \o s)[i] = IF i <= Len(Ring) THEN Ring[i] ELSE s[i - Len(Ring)]
  <2>1. Ring \in Seq(Cells) /\ s \in Seq(Cells)
    BY <1>3, <1>5
  <2> QED
    BY ONLY <2>1, ConcatProperties
<1>10. ASSUME NEW i \in 1 .. u + x PROVE Ring'[i] = (Ring \o s)[i]
  <2>1. (Ring \o s)[i] = IF i <= u THEN Ring[i] ELSE s[i - u]
    BY <1>3, <1>5, <1>9
  <2>2. Ring'[i] = data[Wrap(tail + i - 1)]
    BY <1>4, <1>8
  <2>3. CASE i <= u
    <3>1. i \in 1 .. u
      BY <1>1, <2>3
    <3> QED
      BY <1>3, <2>1, <2>2, <2>3, <3>1
  <2>4. CASE ~(i <= u)
    <3> DEFINE k == i - u
    <3>1. k \in 1 .. x /\ k - 1 \in Nat /\ head + (k - 1) < FifoSize /\ u + (k - 1) < FifoSize
      <4>1. /\ x \in Nat /\ u \in Nat /\ head \in Nat /\ i \in Nat /\ i <= u + x /\ ~(i <= u)
            /\ u + x < FifoSize /\ head + x <= FifoSize /\ FifoSize \in Nat
        BY <1>1, <2>4, FifoAssumption
      <4> QED
        BY ONLY <4>1
    <3>2. tail + i - 1 = tail + (u + (k - 1)) /\ head + k - 1 = head + (k - 1)
      BY <1>1, SMTT(30)
    <3> HIDE DEF k
    <3>3. Wrap(tail + (u + (k - 1))) = head + (k - 1)
      BY <1>1, <3>1, NextFree, SMTT(30)
    <3>4. data[head + k - 1] = tx.buf[k]
      BY <1>6, <3>1
    <3>5. s[k] = tx.buf[k]
      BY <1>5, <3>1
    <3>6. (Ring \o s)[i] = s[k]
      BY <2>1, <2>4 DEF k
    <3> QED
      BY <2>2, <3>2, <3>3, <3>4, <3>5, <3>6
  <2> QED
    BY <2>3, <2>4
<1>11. Ring' = Ring \o s
  <2>1. Len(Ring') = u + x /\ Len(Ring \o s) = u + x
    BY <1>3, <1>4, <1>5, <1>8, <1>9
  <2> QED
    BY <1>4, <1>9, <1>10, <2>1, SeqEqual, SMTT(30)
<1>12. smd_stream_write_avail' = smd_stream_write_avail - x
  BY <1>1, <1>2, <1>7
<1> QED
  BY <1>5, <1>8, <1>11, <1>12 DEF x, u, s

\* What a step of ch_write_done does to the write in progress.
LEMMA DoneTx ==
  ASSUME TypeOK, TypeOK', NEW w \in Writers, WriteDone(w), tx.xfer <= Len(tx.buf), tx.xfer > 0
  PROVE  LET rest == SubSeq(tx.buf, tx.xfer + 1, Len(tx.buf)) IN
         /\ tx'.buf = rest /\ tx'.pay = tx.pay /\ tx'.done > 0
         /\ rest \in Seq(Cells) /\ Len(rest) = Len(tx.buf) - tx.xfer
         /\ SubSeq(tx.buf, 1, tx.xfer) \o rest = tx.buf
         /\ WriteBegun'
<1> DEFINE b == tx.buf
           x == tx.xfer
           rest == SubSeq(tx.buf, tx.xfer + 1, Len(tx.buf))
<1>1. b \in Seq(Cells) /\ Len(b) \in Nat /\ x \in Nat /\ tx.done \in Nat /\ x <= Len(b) /\ x > 0
  BY Parts
<1>2. tx' = [tx EXCEPT !.buf = rest, !.done = @ + x, !.xfer = 0]
  BY DEF WriteDone
<1>3. tx \in TxType
  BY DEF TypeOK, TxType
<1>4. rest = SubSeq(b, x + 1, Len(b))
  OBVIOUS
<1> HIDE DEF rest
<1>5. tx'.buf = rest /\ tx'.pay = tx.pay /\ tx'.done = tx.done + x
  BY <1>2, <1>3 DEF TxType
<1> HIDE DEF b, x
<1>6. tx'.done > 0
  BY <1>1, <1>5
<1>7. WriteBegun'
  BY <1>6 DEF WriteBegun
<1>8. x \in 0 .. Len(b) /\ 1 \in 1 .. Len(b) + 1 /\ x \in 1 - 1 .. Len(b) /\ Len(b) \in x .. Len(b)
  BY <1>1
<1>9. rest \in Seq(Cells) /\ Len(rest) = Len(b) - x
  BY <1>1, <1>4, <1>8, SkipCells
<1>10. SubSeq(b, 1, x) \o rest = b
  <2>1. SubSeq(b, 1, x) \o SubSeq(b, x + 1, Len(b)) = SubSeq(b, 1, Len(b))
    BY <1>1, <1>8, ConcatAdjacentSubSeq
  <2>2. SubSeq(b, 1, Len(b)) = b
    BY <1>1, SubSeqFull
  <2> QED
    BY <1>4, <2>1, <2>2
<1> QED
  BY <1>5, <1>6, <1>7, <1>9, <1>10 DEF b, x, rest

\* The segment is in the ring: once the first of the header is, the packet counts
\* as accepted.
LEMMA QWriterMovesHead ==
  ASSUME QInv, NEW w \in Writers, WriteDone(w)
  PROVE  /\ QInv' /\ UNCHANGED <<got, state>>
         /\ \/ UNCHANGED <<Queue, sent>>
            \/ /\ count[w] \in Lens /\ sent' = sent + 1
               /\ Queue' = Append(Queue, Packet(sent + 1, count[w]))
<1> USE DEF irqVars, linkVars, rVars, ringVars
<1>0. IInv'
  BY WriterMovesHead DEF QInv
<1> DEFINE x == tx.xfer
           b == tx.buf
           y == tx.pay
           rest == SubSeq(tx.buf, tx.xfer + 1, Len(tx.buf))
           s == SubSeq(tx.buf, 1, tx.xfer)
           len == count[w]
<1>1. TypeOK /\ TypeOK' /\ wpc \in [Writers -> WriterPc] /\ Locks
  BY <1>0 DEF QInv, IInv, TypeOK, WriterPc
<1>2. /\ wpc[w] = "done" /\ head' = Wrap(head + x)
      /\ wpc' = [wpc EXCEPT ![w] = "flag"]
      /\ sent' = IF y # <<>> /\ tx.done = 0 THEN sent + 1 ELSE sent
      /\ UNCHANGED <<tail, data, current_packet, hdr, rx, rpc, state, release, got, count>>
  BY DEF WriteDone
<1>3. TxAt(w) /\ x > 0 /\ head + x <= FifoSize /\ b # <<>>
      /\ \A i \in 1 .. x : data[head + i - 1] = b[i]
  BY <1>2 DEF QInv, TxPart, TxAt, Copying
<1>4. /\ x <= Len(b) /\ x <= smd_stream_write_avail
  BY <1>2 DEF QInv, IInv, TxInv, BugOnsHold
<1>5. /\ b \in Seq(Cells) /\ y \in Seq(Cells) /\ x \in Nat /\ Len(b) \in Nat /\ Len(y) \in Nat
      /\ smd_stream_write_avail \in 0 .. FifoSize - 1 /\ smd_stream_read_avail \in 0 .. FifoSize - 1
      /\ sent \in Nat
  BY <1>1, Parts
<1>6. /\ tx'.buf = rest /\ tx'.pay = y /\ tx'.done > 0
      /\ rest \in Seq(Cells) /\ Len(rest) = Len(b) - x /\ s \o rest = b /\ WriteBegun'
  BY <1>1, <1>3, <1>4, DoneTx
<1>7. /\ Ring' = Ring \o s /\ s \in Seq(Cells)
      /\ smd_stream_read_avail' = smd_stream_read_avail + x
      /\ smd_stream_write_avail' = smd_stream_write_avail - x
  BY <1>1, <1>2, <1>3, <1>4, RingGrows
<1>8. len \in Lens /\ len \in Nat \ {0}
  <2>1. len \in Lens
    BY <1>2 DEF QInv, TxPart
  <2> HIDE DEF len
  <2> QED
    BY <2>1, FifoAssumption
<1> HIDE DEF x, b, y, rest, s, len
<1> DEFINE c == CellsUnderway
           d == CellsUnderway'
           m == Taken \o Ring
<1>9. d = m \o (b \o y)
  <2>1. d = (Taken' \o Ring') \o Rest'
    BY <1>1, CellsNext DEF CellFacts
  <2>2. Taken' = Taken
    BY <1>2 DEF Taken, Copied
  <2>3. Rest' = rest \o y
    BY <1>6 DEF Rest
  <2>4. Taken \in Seq(Cells) /\ Ring \in Seq(Cells)
    BY <1>1, TakenCells, RingCells
  <2> DEFINE t == Taken
             r == Ring
  <2>5. t \in Seq(Cells) /\ r \in Seq(Cells) /\ s \in Seq(Cells) /\ rest \in Seq(Cells) /\ y \in Seq(Cells)
    BY <1>5, <1>6, <1>7, <2>4
  <2>6. d = (t \o (r \o s)) \o (rest \o y) /\ m = t \o r
    BY <1>7, <2>1, <2>2, <2>3
  <2> HIDE DEF t, r, d, m
  <2>7. Regrouped(t, r, s, rest, y)
    BY <2>5, Regroup
  <2> QED
    BY <1>6, <2>6, <2>7 DEF Regrouped
<1>10. Len(Rest') = (Len(b) - x) + Len(y)
  <2>1. Rest' = rest \o y
    BY <1>6 DEF Rest
  <2>2. Len(rest \o y) = Len(rest) + Len(y)
    <3>1. rest \in Seq(Cells) /\ y \in Seq(Cells)
      BY <1>5, <1>6
    <3> QED
      BY ONLY <3>1, ConcatProperties
  <2> QED
    BY <1>6, <2>1, <2>2
<1>11. /\ wpc'[w] = "flag"
       /\ \A v \in Writers : v # w => wpc'[v] = wpc[v] /\ wpc[v] \notin Copying
  BY <1>1, <1>2, Alone DEF Copying, UnderTx
<1>12. TxPart'
  <2>1. Writing(count[w])'
    <3>1. \/ y # <<>> /\ y[1].pkt # 0
          \/ y = <<>>
      BY <1>3 DEF TxAt, Writing, y
    <3>2. tx'.done # 0
      BY <1>1, <1>6, CellsNext, SMTT(30) DEF CellFacts
    <3> QED
      BY <1>6, <3>1, <3>2 DEF Writing
  <2>2. Len(tx'.buf) + Len(tx'.pay) <= smd_stream_write_avail'
    <3>1. Len(b) + Len(y) <= smd_stream_write_avail
      BY <1>3 DEF TxAt, b, y
    <3>2. Len(tx'.buf) = Len(b) - x /\ Len(tx'.pay) = Len(y)
      BY <1>6
    <3> DEFINE lb == Len(b)
               ly == Len(y)
               v == smd_stream_write_avail
    <3>3. lb \in Nat /\ ly \in Nat /\ v \in Nat /\ lb + ly <= v /\ x \in Nat
      BY <1>5, <3>1
    <3> HIDE DEF lb, ly, v
    <3>4. (lb - x) + ly <= v - x
      BY ONLY <3>3
    <3> QED
      BY <1>7, <3>2, <3>4 DEF lb, ly, v
  <2>3. TxAt(w)'
    BY <1>6, <1>11, <2>1, <2>2 DEF TxAt
  <2>4. ASSUME NEW v \in Writers, wpc'[v] # "idle" PROVE count'[v] \in Lens
    BY <1>2, <1>8, <1>11, <2>4 DEF QInv, TxPart, len
  <2>5. ASSUME NEW v \in Writers, wpc'[v] \in Copying PROVE v = w
    BY <1>11, <2>5
  <2> QED
    BY <1>11, <2>3, <2>4, <2>5 DEF TxPart, Copying
<1>13. RxPart'
  <2>1. smd_stream_read_avail' >= smd_stream_read_avail
    BY <1>5, <1>7
  <2> QED
    BY <1>1, <1>2, <2>1, RxKept DEF QInv
<1>14. PICK E : Framed(E)
  BY DEF QInv, StreamInv
<1>15. Intact
  BY <1>2 DEF Intact
<1>16. /\ current_packet + 1 \in E /\ Frames(c, E) /\ Complete(c, E) /\ OneLeft(c, E, Len(Rest))
  BY <1>14, <1>15 DEF Framed
<1>17. c \in Seq(Cells) /\ d \in Seq(Cells) /\ m \in Seq(Cells) /\ current_packet \in Nat
  BY <1>1, Underway, Parts, CellsNext DEF CellFacts
<1>18. CASE WriteBegun
  <2>1. Rest = b \o y
    BY <1>18 DEF Rest, b, y
  <2>2. d = c
    BY <1>1, <1>9, <2>1, Underway
  <2>3. Len(Rest') <= Len(Rest)
    <3>1. Len(Rest) = Len(b) + Len(y)
      BY <1>5, <2>1, ConcatProperties
    <3> QED
      BY <1>4, <1>5, <1>10, <3>1
  <2>4. StreamInv' /\ Queue' = Queue
    BY <1>1, <1>2, <1>15, <2>2, <2>3, Steady DEF QInv
  <2>5. sent' = sent
    <3> SUFFICES ASSUME y # <<>>, tx.done = 0 PROVE FALSE
      BY <1>2
    <3>1. b = Header(len)
      BY <1>3 DEF TxAt, Writing, b, y, len
    <3>2. b[1].pkt = 0
      BY <1>5, <1>8, <3>1, HeaderCells
    <3> QED
      BY <1>18, <3>2 DEF WriteBegun, b
  <2> QED
    BY <1>0, <1>2, <1>12, <1>13, <2>4, <2>5 DEF QInv
<1>19. CASE ~WriteBegun
  <2>1. /\ y # <<>> /\ tx.done = 0 /\ b = Header(len) /\ y = Packet(sent + 1, len)
    <3>1. tx.done = 0
      BY <1>1, <1>19, Parts DEF WriteBegun
    <3> QED
      BY <1>3, <1>19, <3>1 DEF TxAt, Writing, b, y, len
  <2>2. c = m
    <3>1. c = m \o <<>>
      BY <1>1, <1>19, Underway DEF Rest
    <3> QED
      BY <1>17, <3>1, ConcatEmptySeq
  <2>3. Joined(d, c, sent + 1, len)
    BY <1>9, <2>1, <2>2 DEF Joined
  <2>4. sent' = sent + 1 /\ sent + 1 \in Nat
    BY <1>2, <1>5, <2>1
  <2> HIDE DEF c, d, m
  <2>5. CutPackets(current_packet, d) = Append(CutPackets(current_packet, c), Packet(sent + 1, len))
    BY <1>8, <1>16, <1>17, <2>3, <2>4, QueueAccept
  <2>6. Queue' = Append(Queue, Packet(sent + 1, len))
    BY <1>2, <2>5 DEF Queue, c, d
  <2>7. Len(Rest') \in Nat /\ Len(Rest') < HeaderSize + len
    <3>1. Len(b) = HeaderSize /\ Len(y) = len
      BY <1>8, <2>1, <2>4, HeaderCells
    <3> QED
      BY <1>3, <1>4, <1>5, <1>8, <1>10, <3>1
  <2>8. PICK D : E \subseteq D /\ Frames(d, D) /\ Complete(d, D) /\ OneLeft(d, D, Len(Rest'))
    BY <1>8, <1>16, <1>17, <2>3, <2>4, <2>7, FramesAccept
  <2>9. StreamInv'
    <3>1. current_packet' + 1 \in D
      BY <1>2, <1>16, <2>8
    <3>2. Framed(D)'
      BY <2>8, <3>1 DEF Framed, d
    <3> QED
      BY <3>2 DEF StreamInv
  <2> QED
    BY <1>0, <1>2, <1>8, <1>12, <1>13, <2>4, <2>6, <2>9 DEF QInv, len
<1> QED
  BY <1>18, <1>19

\* The flag is no concern of the packets.
LEMMA QWriterFlags ==
  ASSUME QInv, NEW w \in Writers, WriteFlag(w)
  PROVE  QInv' /\ UNCHANGED <<Queue, got, sent, state>>
<1> USE DEF irqVars, linkVars, rVars, ringVars
<1>0. IInv'
  BY WriterFlags DEF QInv
<1>1. TypeOK /\ TypeOK' /\ wpc \in [Writers -> WriterPc] /\ Locks
  BY <1>0 DEF QInv, IInv, TypeOK, WriterPc
<1>2. /\ wpc[w] = "flag"
      /\ wpc' = [wpc EXCEPT ![w] = IF tx.buf = <<>> THEN "notify" ELSE "copy"]
      /\ UNCHANGED <<head, tail, data, current_packet, hdr, rx, rpc, tx, sent, state,
                     release, got, count>>
  BY DEF WriteFlag
<1>3. TxAt(w) /\ tx.done > 0
  BY <1>2 DEF QInv, TxPart, TxAt, Copying
<1>4. /\ CellsUnderway' = CellsUnderway /\ Rest' = Rest /\ WriteBegun' = WriteBegun
      /\ smd_stream_read_avail' = smd_stream_read_avail
      /\ smd_stream_write_avail' = smd_stream_write_avail
  BY <1>2, SameCells
<1>5. /\ wpc'[w] = (IF tx.buf = <<>> THEN "notify" ELSE "copy")
      /\ \A v \in Writers : v # w => wpc'[v] = wpc[v] /\ wpc[v] \notin Copying
  BY <1>1, <1>2, Alone DEF Copying, UnderTx
<1>6. StreamInv' /\ Queue' = Queue
  <2>1. Intact
    BY <1>3 DEF Intact, WriteBegun
  <2>2. Len(Rest') <= Len(Rest)
    <3>1. Rest \in Seq(Cells)
      BY <1>1, RestCells
    <3>2. Len(Rest) \in Nat
      BY <3>1
    <3> QED
      BY <1>4, <3>2
  <2> QED
    BY <1>1, <1>2, <1>4, <2>1, <2>2, Steady DEF QInv
<1>7. TxPart'
  <2>1. ASSUME NEW v \in Writers, wpc'[v] # "idle" PROVE count'[v] \in Lens
    BY <1>2, <1>5, <2>1 DEF QInv, TxPart
  <2>2. TxAt(w)'
    <3>1. Writing(count[w])'
      BY <1>2, <1>3, <1>4 DEF TxAt, Writing
    <3>2. Len(tx'.buf) + Len(tx'.pay) <= smd_stream_write_avail'
      BY <1>2, <1>3, <1>4 DEF TxAt
    <3>3. /\ wpc'[w] \in {"copy", "done"} => tx'.buf # <<>>
          /\ wpc'[w] = "notify" => tx'.buf = <<>>
          /\ tx'.done > 0 /\ wpc'[w] # "done"
      BY <1>2, <1>3, <1>5
    <3> QED
      BY <3>1, <3>2, <3>3 DEF TxAt
  <2>3. ASSUME NEW v \in Writers, wpc'[v] \in Copying PROVE v = w
    BY <1>5, <2>3
  <2> QED
    BY <1>5, <2>1, <2>2, <2>3 DEF TxPart, Copying
<1>8. RxPart'
  BY <1>2, <1>4 DEF QInv, RxPart, RxAt, PacketThere, no_ch
<1> QED
  BY <1>0, <1>2, <1>6, <1>7, <1>8 DEF QInv

\* The end of a call of smd_stream_write: what was left to the next one is left.
LEMMA QWriterNotifies ==
  ASSUME QInv, NEW w \in Writers, WriteNotify(w)
  PROVE  QInv' /\ UNCHANGED <<Queue, got, sent, state>>
<1> USE DEF irqVars, linkVars, rVars, ringVars
<1>0. IInv'
  BY WriterEnds DEF QInv
<1> DEFINE y == tx.pay
<1>1. TypeOK /\ TypeOK' /\ wpc \in [Writers -> WriterPc] /\ Locks
  BY <1>0 DEF QInv, IInv, TypeOK, WriterPc
<1>2. /\ wpc[w] = "notify"
      /\ tx' = [NoTx EXCEPT !.buf = y]
      /\ wpc' = [wpc EXCEPT ![w] = IF y # <<>> THEN "copy" ELSE "idle"]
      /\ UNCHANGED <<head, tail, data, current_packet, hdr, rx, rpc, sent, state, release, got, count>>
  BY DEF WriteNotify, WriteReturn
<1>3. TxAt(w) /\ tx.buf = <<>> /\ tx.done > 0
  BY <1>2 DEF QInv, TxPart, TxAt, Copying
<1>4. /\ y \in Seq(Cells) /\ Len(y) \in Nat /\ tx.done \in Nat
      /\ smd_stream_write_avail \in 0 .. FifoSize - 1 /\ smd_stream_read_avail \in 0 .. FifoSize - 1
  BY <1>1, Parts
<1>5. tx' = [buf |-> y, pay |-> <<>>, done |-> 0, xfer |-> 0]
  BY <1>2 DEF NoTx
<1>6. y # <<>> => y[1].pkt # 0
  BY <1>3 DEF TxAt, Writing
<1> HIDE DEF y
<1>7. WriteBegun /\ (WriteBegun' <=> y # <<>>)
  BY <1>3, <1>5, <1>6 DEF WriteBegun
<1>8. Rest = y /\ Rest' = y
  <2>1. Rest = <<>> \o y
    BY <1>3, <1>7 DEF Rest, y
  <2>2. Rest' = IF y # <<>> THEN y \o <<>> ELSE <<>>
    BY <1>5, <1>7 DEF Rest
  <2> QED
    BY <1>4, <2>1, <2>2, ConcatEmptySeq
<1>9. /\ smd_stream_read_avail' = smd_stream_read_avail
      /\ smd_stream_write_avail' = smd_stream_write_avail
  BY <1>2 DEF smd_stream_read_avail, smd_stream_write_avail
<1>10. CellsUnderway' = CellsUnderway
  <2>1. Taken' = Taken /\ Ring' = Ring
    BY <1>2, <1>9 DEF Taken, Copied, Ring
  <2>2. CellsUnderway = (Taken \o Ring) \o Rest
    BY DEF CellsUnderway, Taken, Copied, Ring, Rest
  <2>3. CellsUnderway' = (Taken' \o Ring') \o Rest'
    BY DEF CellsUnderway, Taken, Copied, Ring, Rest
  <2> QED
    BY <1>8, <2>1, <2>2, <2>3
<1>11. StreamInv' /\ Queue' = Queue
  <2>1. Intact /\ Len(Rest') <= Len(Rest)
    BY <1>4, <1>7, <1>8 DEF Intact
  <2> QED
    BY <1>1, <1>2, <1>10, <2>1, Steady DEF QInv
<1>12. /\ wpc'[w] = (IF y # <<>> THEN "copy" ELSE "idle")
       /\ \A v \in Writers : v # w => wpc'[v] = wpc[v] /\ wpc[v] \notin Copying
  BY <1>1, <1>2, Alone DEF Copying, UnderTx
<1>13. TxPart'
  <2>1. ASSUME NEW v \in Writers, wpc'[v] # "idle" PROVE count'[v] \in Lens
    BY <1>2, <1>12, <2>1 DEF QInv, TxPart
  <2>2. ASSUME NEW v \in Writers, wpc'[v] \in Copying PROVE TxAt(v)'
    <3>1. v = w /\ y # <<>> /\ wpc'[w] = "copy"
      BY <1>12, <2>2 DEF Copying
    <3>2. Writing(count[w])'
      BY <1>5, <1>7, <3>1 DEF Writing
    <3>3. Len(tx'.buf) + Len(tx'.pay) <= smd_stream_write_avail'
      <4>1. Len(tx.buf) + Len(y) <= smd_stream_write_avail
        BY <1>3 DEF TxAt, y
      <4> QED
        BY <1>3, <1>4, <1>5, <1>9, <4>1
    <3> QED
      BY <1>5, <3>1, <3>2, <3>3 DEF TxAt
  <2>3. ASSUME \A v \in Writers : wpc'[v] \notin Copying PROVE tx' = NoTx
    BY <1>5, <1>12, <2>3 DEF Copying, NoTx
  <2> QED
    BY <2>1, <2>2, <2>3 DEF TxPart
<1>14. RxPart'
  BY <1>2, <1>9 DEF QInv, RxPart, RxAt, PacketThere, no_ch
<1> QED
  BY <1>0, <1>2, <1>11, <1>13, <1>14 DEF QInv

\* The last packet of the queue is given up.
LastLost(p, q) == q # <<>> /\ p = SubSeq(q, 1, Len(q) - 1)

LEMMA LastOff ==
  ASSUME NEW p \in Packets, NEW q, AddsOne(q, p)
  PROVE  LastLost(p, q)
<1>1. PICK x \in Seq(Cells) : q = Append(p, x)
  BY DEF AddsOne, Adds
<1> DEFINE S == Seq(Cells)
<1>2. x \in S /\ p \in Seq(S)
  BY DEF Packets
<1> HIDE DEF S
<1>3. /\ q \in Seq(S) /\ Len(q) = Len(p) + 1 /\ Len(p) \in Nat
      /\ \A i \in 1 .. Len(p) : q[i] = p[i]
  BY <1>1, <1>2, AppendProperties
<1> DEFINE n == Len(p)
           s == SubSeq(q, 1, n)
<1>4. n \in Nat /\ Len(q) - 1 = n /\ q # <<>>
  BY <1>3
<1>5. \A i \in 1 .. n : q[i] \in S
  BY <1>3
<1> HIDE DEF n
<1>6. /\ s \in Seq(S) /\ Len(s) = (IF 1 <= n THEN n - 1 + 1 ELSE 0)
      /\ \A i \in 1 .. n - 1 + 1 : s[i] = q[1 + i - 1]
  BY <1>4, <1>5, SubSeqProperties
<1> HIDE DEF s
<1>7. Len(s) = Len(p)
  BY <1>4, <1>6 DEF n
<1>8. ASSUME NEW i \in 1 .. n PROVE s[i] = p[i]
  <2>1. i \in 1 .. n - 1 + 1 /\ 1 + i - 1 = i
    BY <1>4
  <2> QED
    BY <1>3, <1>6, <2>1 DEF n
<1>9. s = p
  BY <1>2, <1>6, <1>7, <1>8, SeqEqual DEF n
<1> QED
  BY <1>4, <1>9 DEF LastLost, s

\* While there is room there is a segment to write to.
LEMMA RoomAtHead ==
  ASSUME Indices, smd_stream_write_avail > 0
  PROVE  ch_write_buffer > 0
<1>1. smd_stream_write_avail = (FifoSize - 1) - Used(head, tail)
  BY Avail
<1> QED
  BY <1>1 DEF Indices, ch_write_buffer, Used

\* A write breaks off, since the channel is no longer open; of a packet that had
\* been begun nothing more is written.
LEMMA QWriterGivesUp ==
  ASSUME QInv, NEW w \in Writers, WriteBreak(w)
  PROVE  /\ QInv' /\ UNCHANGED <<got, sent, state>>
         /\ \/ UNCHANGED Queue
            \/ ~ch_is_open("W") /\ LastLost(Queue', Queue)
<1> USE DEF irqVars, linkVars, rVars, ringVars
<1>0. IInv'
  BY WriterEnds DEF QInv
<1>1. TypeOK /\ TypeOK' /\ wpc \in [Writers -> WriterPc] /\ Locks
  BY <1>0 DEF QInv, IInv, TypeOK, WriterPc
<1>2. /\ wpc[w] = "copy" /\ tx' = NoTx
      /\ ch_write_buffer = 0 \/ ~ch_is_open("W")
      /\ wpc' = [wpc EXCEPT ![w] = "idle"]
      /\ UNCHANGED <<head, tail, data, current_packet, hdr, rx, rpc, sent, state, release, got, count>>
  BY DEF WriteBreak, WriteReturn
<1>3. TxAt(w) /\ tx.buf # <<>>
  BY <1>2 DEF QInv, TxPart, TxAt, Copying
<1>4. ~ch_is_open("W")
  <2>1. Len(tx.buf) + Len(tx.pay) <= smd_stream_write_avail
    BY <1>3 DEF TxAt
  <2>2. Len(tx.buf) \in Nat /\ Len(tx.pay) \in Nat /\ Len(tx.buf) # 0 /\ Indices
        /\ smd_stream_write_avail \in 0 .. FifoSize - 1
    BY <1>1, <1>3, Parts
  <2> DEFINE l == Len(tx.buf)
             k == Len(tx.pay)
  <2>6. l + k <= smd_stream_write_avail
    BY ONLY <2>1
  <2>7. smd_stream_write_avail \in Nat
    BY ONLY <2>2
  <2>5. l \in Nat /\ k \in Nat /\ l # 0 /\ l + k <= smd_stream_write_avail
        /\ smd_stream_write_avail \in Nat
    BY ONLY <2>2, <2>6, <2>7, Zenon
  <2>3. smd_stream_write_avail > 0
    <3> HIDE DEF l, k
    <3> QED
      BY ONLY <2>5
  <2>4. ch_write_buffer > 0
    BY <2>2, <2>3, RoomAtHead
  <2> QED
    BY <1>2, <2>4
<1>5. /\ wpc'[w] = "idle"
      /\ \A v \in Writers : v # w => wpc'[v] = wpc[v] /\ wpc[v] \notin Copying
  BY <1>1, <1>2, Alone DEF Copying, UnderTx
<1>6. ~WriteBegun'
  BY <1>2 DEF WriteBegun, NoTx
<1>7. ~Intact'
  BY <1>2, <1>4, <1>5, <1>6 DEF Intact, ch_is_open, Copying
<1>8. /\ smd_stream_read_avail' = smd_stream_read_avail
      /\ smd_stream_write_avail' = smd_stream_write_avail
  BY <1>2 DEF smd_stream_read_avail, smd_stream_write_avail
<1> DEFINE c == CellsUnderway
           a == Taken \o Ring
           b == Rest
<1>9. /\ c = a \o b /\ c \in Seq(Cells) /\ a \in Seq(Cells) /\ b \in Seq(Cells)
      /\ current_packet \in Nat
  BY <1>1, Underway, RestCells, Parts
<1>10. CellsUnderway' = a
  <2>1. Taken' = Taken /\ Ring' = Ring
    BY <1>2, <1>8 DEF Taken, Copied, Ring
  <2>2. Rest' = <<>>
    BY <1>6 DEF Rest
  <2>3. CellsUnderway' = (Taken' \o Ring') \o Rest'
    BY DEF CellsUnderway, Taken, Copied, Ring, Rest
  <2>4. CellsUnderway' = a \o <<>>
    BY <2>1, <2>2, <2>3
  <2> QED
    BY <1>9, <2>4, ConcatEmptySeq
<1>11. PICK E : Framed(E)
  BY DEF QInv, StreamInv
<1>12. /\ current_packet + 1 \in E /\ Frames(c, E)
       /\ Intact => Complete(c, E) /\ OneLeft(c, E, Len(b))
  BY <1>11 DEF Framed
<1> HIDE DEF c, a, b
<1>13. StreamInv'
  <2>1. Frames(a, E)
    BY <1>9, <1>12, FramesPrefix
  <2>2. Framed(E)'
    BY <1>2, <1>7, <1>10, <1>12, <2>1 DEF Framed
  <2> QED
    BY <2>2 DEF StreamInv
<1>14. Queue = CutPackets(current_packet, c) /\ Queue' = CutPackets(current_packet, a)
  BY <1>2, <1>10 DEF Queue, c
<1>15. Queue' = Queue \/ LastLost(Queue', Queue)
  <2>1. CASE b = <<>>
    <3>1. c = a
      BY <1>9, <2>1, ConcatEmptySeq
    <3> QED
      BY <1>14, <3>1
  <2>2. CASE b # <<>>
    <3>1. Intact
      BY <2>2 DEF b, Rest, Intact
    <3>2. Complete(c, E) /\ OneLeft(c, E, Len(b)) /\ Frames(c, E) /\ current_packet + 1 \in E
      BY <1>12, <3>1
    <3>3. AddsOne(CutPackets(current_packet, c), CutPackets(current_packet, a))
      BY <1>9, <2>2, <3>2, QueueGiveUp
    <3>4. CutPackets(current_packet, a) \in Packets
      BY <1>9, CutType
    <3> QED
      BY <1>14, <3>3, <3>4, LastOff
  <2> QED
    BY <2>1, <2>2
<1>16. TxPart'
  <2>1. ASSUME NEW v \in Writers, wpc'[v] # "idle" PROVE count'[v] \in Lens
    BY <1>2, <1>5, <2>1 DEF QInv, TxPart
  <2>2. ASSUME NEW v \in Writers, wpc'[v] \in Copying PROVE FALSE
    BY <1>5, <2>2 DEF Copying
  <2> QED
    BY <1>2, <2>1, <2>2 DEF TxPart
<1>17. RxPart'
  BY <1>2, <1>8 DEF QInv, RxPart, RxAt, PacketThere, no_ch
<1> QED
  BY <1>0, <1>2, <1>4, <1>13, <1>15, <1>16, <1>17 DEF QInv

-----------------------------------------------------------------------------
(* The reader and the queue.                                               *)

\* A step of a reader that leaves the cells under way where they are.
LEMMA QReaderSteady ==
  ASSUME QInv, IInv', UNCHANGED <<head, data, current_packet, tx, sent, count, wpc, state>>,
         smd_stream_write_avail' >= smd_stream_write_avail,
         Taken' \o Ring' = Taken \o Ring, RxPart'
  PROVE  QInv' /\ Queue' = Queue
<1>1. TypeOK /\ TypeOK'
  BY DEF QInv, IInv
<1>2. TxPart'
  BY <1>1, TxKept DEF QInv
<1>3. WriteBegun' = WriteBegun
  BY DEF WriteBegun
<1>4. Rest' = Rest
  BY <1>3 DEF Rest
<1>5. CellsUnderway' = CellsUnderway
  <2>1. CellsUnderway = (Taken \o Ring) \o Rest
    BY DEF CellsUnderway, Taken, Copied, Ring, Rest
  <2>2. CellsUnderway' = (Taken' \o Ring') \o Rest'
    BY DEF CellsUnderway, Taken, Copied, Ring, Rest
  <2> QED
    BY <1>4, <2>1, <2>2
<1>6. Intact' => Intact
  BY <1>3 DEF Intact, ch_is_open
<1>7. Len(Rest') <= Len(Rest)
  <2>1. Rest \in Seq(Cells)
    BY <1>1, RestCells
  <2>2. Len(Rest) \in Nat
    BY <2>1
  <2> QED
    BY <1>4, <2>2
<1>8. StreamInv' /\ Queue' = Queue
  BY <1>1, <1>5, <1>6, <1>7, Steady DEF QInv
<1> QED
  BY <1>2, <1>8 DEF QInv

\* The same when the indices do not move either.
LEMMA QReaderHolds ==
  ASSUME QInv, IInv',
         UNCHANGED <<head, tail, data, current_packet, tx, sent, count, wpc, state>>,
         Taken' = Taken, RxPart'
  PROVE  QInv' /\ Queue' = Queue
<1>1. TypeOK
  BY DEF QInv, IInv
<1>2. /\ smd_stream_read_avail' = smd_stream_read_avail
      /\ smd_stream_write_avail' = smd_stream_write_avail
  BY DEF smd_stream_read_avail, smd_stream_write_avail
<1>3. Ring' = Ring
  BY <1>2 DEF Ring
<1>4. smd_stream_write_avail' >= smd_stream_write_avail
  BY <1>1, <1>2, Parts
<1> QED
  BY <1>3, <1>4, QReaderSteady

LEMMA QReaderWaits ==
  ASSUME QInv, NEW r \in Readers,
         ReadCall(r) \/ ReadWait(r) \/ ReadWoken(r) \/ ReadNull(r)
  PROVE  QInv' /\ UNCHANGED <<Queue, got, sent, state>>
<1> USE DEF irqVars, linkVars, wVars, ringVars
<1>0. IInv'
  BY ReaderWaits, ReaderDies DEF QInv
<1>1. /\ rpc[r] \notin Reading
      /\ \E pc \in {"woken", "sleep", "idle", "lock", "oops"} :
            /\ rpc' = [rpc EXCEPT ![r] = pc]
            /\ pc = "woken" => WholePacket \/ has_reset("R")
            /\ pc = "lock" => rpc[r] = "woken" /\ ~has_reset("R")
      /\ UNCHANGED <<head, tail, data, current_packet, hdr, rx, tx, sent, count, wpc,
                     state, release, got>>
  <2>1. CASE ReadCall(r) \/ ReadWait(r)
    BY <2>1 DEF ReadCall, ReadWait, WaitForPacket, Reading
  <2>2. CASE ReadWoken(r)
    BY <2>2 DEF ReadWoken, Reading
  <2>3. CASE ReadNull(r)
    BY <2>3 DEF ReadNull, Reading
  <2> QED
    BY <2>1, <2>2, <2>3
<1>2. TypeOK /\ rpc \in [Readers -> ReaderPc]
  BY DEF QInv, IInv, TypeOK, ReaderPc
<1>3. /\ rpc'[r] \in {"woken", "sleep", "idle", "lock", "oops"}
      /\ rpc'[r] = "woken" => WholePacket \/ has_reset("R")
      /\ rpc'[r] = "lock" => rpc[r] = "woken" /\ ~has_reset("R")
      /\ \A q \in Readers : q # r => rpc'[q] = rpc[q]
  BY <1>1, <1>2
<1>4. smd_stream_read_avail' = smd_stream_read_avail
  BY <1>1 DEF smd_stream_read_avail
<1>5. WholePacket => PacketThere
  <2>1. current_packet \in Nat /\ smd_stream_read_avail \in 0 .. FifoSize - 1
    BY <1>2, Parts
  <2> QED
    BY <2>1 DEF WholePacket, PacketThere, smd_packet_read_avail, Least
<1>8. PacketThere' = PacketThere /\ no_ch("R")' = no_ch("R")
  BY <1>1, <1>4 DEF PacketThere, no_ch
<1>9. /\ has_reset("R") => release["R"] # "no"
      /\ ~has_reset("R") => release["R"] = "no" \/ no_ch("R")
  <2>1. release["R"] \in {"no", "signalled", "closed", "null", "done"}
    BY <1>2 DEF TypeOK, Ends
  <2> QED
    BY <2>1 DEF has_reset, no_ch
<1>6. RxPart'
  <2>1. ASSUME NEW q \in Readers PROVE RxAt(q)'
    <3>1. CASE q = r
      <4>1. rx.n = 0 /\ (rpc[r] = "woken" => release["R"] # "no" \/ PacketThere)
        BY <1>1 DEF QInv, RxPart, RxAt, Reading
      <4>2. rpc'[r] = "woken" => release["R"] # "no" \/ PacketThere
        BY <1>3, <1>5, <1>9
      <4>3. rpc'[r] = "lock" => no_ch("R") \/ PacketThere
        BY <1>3, <1>9, <4>1
      <4>4. rpc'[r] \notin Reading
        BY <1>3 DEF Reading
      <4> QED
        BY <1>1, <1>8, <3>1, <4>1, <4>2, <4>3, <4>4 DEF RxAt, Reading
    <3>2. CASE q # r
      BY <1>1, <1>3, <1>4, <1>8, <3>2 DEF QInv, RxPart, RxAt
    <3> QED
      BY <3>1, <3>2
  <2>2. (\A q \in Readers : rpc'[q] \notin Reading) => \A q \in Readers : rpc[q] \notin Reading
    BY <1>1, <1>3
  <2> QED
    BY <1>1, <2>1, <2>2 DEF QInv, RxPart
<1>7. Taken' = Taken
  BY <1>1 DEF Taken, Copied
<1> QED
  BY <1>0, <1>1, <1>6, <1>7, QReaderHolds

\* The reader starts on the packet it has found.
LEMMA QReaderStarts ==
  ASSUME OneReader, QInv, NEW r \in Readers, NEW len \in BufLens, ReadLock(r, len)
  PROVE  QInv' /\ UNCHANGED <<Queue, got, sent, state>>
<1> USE DEF irqVars, linkVars, wVars, ringVars
<1>0. IInv'
  BY ReaderStarts DEF QInv
<1>1. /\ rpc[r] = "lock" /\ ~no_ch("R")
      /\ \/ rpc' = [rpc EXCEPT ![r] = "wait"] /\ rx' = rx
         \/ rpc' = [rpc EXCEPT ![r] = "seg"]
            /\ rx' = [NoRx EXCEPT !.want = current_packet, !.drop = current_packet > len]
      /\ UNCHANGED <<head, tail, data, current_packet, hdr, tx, sent, count, wpc, state, release, got>>
  BY DEF ReadLock
<1>2. TypeOK /\ TypeOK' /\ rpc \in [Readers -> ReaderPc]
  BY <1>0 DEF QInv, IInv, TypeOK, ReaderPc
<1>3. \A q \in Readers : q = r
  BY DEF OneReader
<1>4. /\ rx.buf = <<>> /\ rx.n = 0
      /\ current_packet > 0 /\ current_packet <= smd_stream_read_avail
  BY <1>1, <1>3 DEF QInv, RxPart, RxAt, PacketThere, Reading
<1>5. smd_stream_read_avail' = smd_stream_read_avail
  BY <1>1 DEF smd_stream_read_avail
<1>6. rx'.buf = <<>> /\ rx'.n = 0 /\ (rpc'[r] = "seg" => rx'.want = current_packet)
      /\ rpc'[r] \in {"wait", "seg"}
  <2>1. CASE rpc' = [rpc EXCEPT ![r] = "wait"] /\ rx' = rx
    BY <1>2, <1>4, <2>1
  <2>2. CASE /\ rpc' = [rpc EXCEPT ![r] = "seg"]
             /\ rx' = [NoRx EXCEPT !.want = current_packet, !.drop = current_packet > len]
    BY <1>2, <2>2 DEF NoRx
  <2> QED
    BY <1>1, <2>1, <2>2
<1>7. current_packet \in Nat /\ smd_stream_read_avail \in 0 .. FifoSize - 1
  BY <1>2, Parts
<1>8. RxPart'
  <2>1. RxAt(r)'
    BY <1>1, <1>4, <1>5, <1>6, <1>7 DEF RxAt, Reading
  <2> QED
    BY <1>3, <1>6, <2>1 DEF RxPart
<1>9. Taken' = Taken
  BY <1>1, <1>4, <1>6 DEF Taken, Copied
<1> QED
  BY <1>0, <1>1, <1>8, <1>9, QReaderHolds

\* A segment is copied from the ring; it stays at the tail for now.
LEMMA QReaderCopies ==
  ASSUME OneReader, QInv, NEW r \in Readers, ReadSeg(r)
  PROVE  QInv' /\ UNCHANGED <<Queue, got, sent, state>>
<1> USE DEF irqVars, linkVars, wVars, ringVars
<1>0. IInv'
  BY ReaderCopies DEF QInv
<1> DEFINE b == rx.buf
           n == Least(ch_read_buffer, rx.want - Len(rx.buf))
           seg == [i \in 1 .. n |-> data[tail + i - 1]]
<1>1. /\ rpc[r] = "seg" /\ rpc' = [rpc EXCEPT ![r] = "done"]
      /\ rx' = [rx EXCEPT !.n = n, !.buf = b \o seg]
      /\ ch_read_buffer > 0 /\ Len(b) < rx.want
      /\ UNCHANGED <<head, tail, data, current_packet, hdr, tx, sent, count, wpc, state, release, got>>
  BY DEF ReadSeg
<1>2. TypeOK /\ TypeOK' /\ rpc \in [Readers -> ReaderPc] /\ rx \in RxType /\ Indices
  BY <1>0, Parts DEF QInv, IInv, TypeOK, ReaderPc, RxType
<1>3. \A q \in Readers : q = r
  BY DEF OneReader
<1>4. /\ b \in Seq(Cells) /\ Len(b) \in Nat /\ rx.want \in Nat
      /\ tail \in 0 .. FifoSize - 1 /\ smd_stream_read_avail \in 0 .. FifoSize - 1
  BY <1>2, Parts
<1>5. rx.n = 0 /\ Len(b) + smd_stream_read_avail >= rx.want
  BY <1>1, <1>4 DEF QInv, RxPart, RxAt, Reading
<1>15. hdr.buf = <<>>
  BY <1>1 DEF QInv, IInv, RxInv, HdrInv, Reading
<1>6. n \in Nat /\ tail + n <= FifoSize
  BY <1>1, <1>2, <1>4, Segments, SMTT(30) DEF Least
<1>7. /\ seg \in Seq(Cells) /\ Len(seg) = n /\ \A i \in 1 .. n : seg[i] = data[tail + i - 1]
  <2> HIDE DEF n
  <2>1. data \in [0 .. FifoSize - 1 -> Cells]
    BY <1>2 DEF TypeOK
  <2>2. ASSUME NEW i \in 1 .. n PROVE data[tail + i - 1] \in Cells
    <3>1. tail + i - 1 \in 0 .. FifoSize - 1
      BY <1>4, <1>6
    <3> QED
      BY <2>1, <3>1
  <2> QED
    BY <1>6, <2>2
<1> HIDE DEF n, seg, b
<1>8. rx'.buf = b \o seg /\ rx'.n = n /\ rx'.want = rx.want
  BY <1>1, <1>2 DEF RxType
<1>9. /\ Len(b \o seg) = Len(b) + n
      /\ \A i \in 1 .. Len(b) + n : (b \o seg)[i] = IF i <= Len(b) THEN b[i] ELSE seg[i - Len(b)]
  <2>1. /\ Len(b \o seg) = Len(b) + Len(seg)
        /\ \A i \in 1 .. Len(b) + Len(seg) :
              (b \o seg)[i] = IF i <= Len(b) THEN b[i] ELSE seg[i - Len(b)]
    <3>1. b \in Seq(Cells) /\ seg \in Seq(Cells)
      BY <1>4, <1>7
    <3> QED
      BY ONLY <3>1, ConcatProperties
  <2> QED
    BY <1>7, <2>1
<1>10. (Len(b) + n) - n = Len(b)
  BY <1>4, <1>6
<1>11. Taken' = Taken
  <2>1. Taken = b
    BY <1>2, <1>5, <1>15, TakenCells DEF b
  <2>2. n <= Len(b) + n
    BY <1>4, <1>6
  <2>3. /\ Taken' \in Seq(Cells) /\ Len(Taken') = Len(b)
        /\ \A i \in 1 .. Len(b) : Taken'[i] = (b \o seg)[i]
    <3>1. CellFacts'
      BY <1>2, CellsNext
    <3>2. /\ Taken' \in Seq(Cells)
          /\ rx'.n <= Len(rx'.buf) =>
               /\ Len(Taken') = Len(rx'.buf) - rx'.n
               /\ \A i \in 1 .. Len(rx'.buf) - rx'.n : Taken'[i] = rx'.buf[i]
      BY <1>1, <1>15, <3>1 DEF CellFacts
    <3>3. rx'.n <= Len(rx'.buf) /\ Len(rx'.buf) - rx'.n = Len(b)
      BY <1>8, <1>9, <1>10, <2>2
    <3> QED
      BY <1>8, <3>2, <3>3
  <2>4. ASSUME NEW i \in 1 .. Len(b) PROVE Taken'[i] = b[i]
    <3>1. i \in 1 .. Len(b) + n /\ i <= Len(b)
      BY <1>4, <1>6
    <3> QED
      BY <1>9, <2>3, <3>1
  <2> QED
    BY <1>4, <2>1, <2>3, <2>4, SeqEqual
<1>12. rpc'[r] = "done"
  BY <1>1, <1>2
<1>13. smd_stream_read_avail' = smd_stream_read_avail
  BY <1>1 DEF smd_stream_read_avail
<1>14. RxPart'
  <2>1. rx'.n <= Len(rx'.buf) /\ (Len(rx'.buf) - rx'.n) + smd_stream_read_avail' >= rx'.want
    <3>1. Len(rx'.buf) - rx'.n = Len(b) /\ n <= Len(b) + n
      BY <1>4, <1>6, <1>8, <1>9, <1>10
    <3> QED
      BY <1>5, <1>8, <1>9, <1>13, <3>1
  <2>2. ASSUME NEW i \in 1 .. n
        PROVE  rx'.buf[(Len(rx'.buf) - rx'.n) + i] = data[tail + i - 1]
    <3>1. Len(rx'.buf) - rx'.n = Len(b)
      BY <1>8, <1>9, <1>10
    <3>2. Len(b) + i \in 1 .. Len(b) + n /\ ~(Len(b) + i <= Len(b)) /\ (Len(b) + i) - Len(b) = i
      BY <1>4, <1>6
    <3> QED
      BY <1>7, <1>8, <1>9, <3>1, <3>2
  <2>3. RxAt(r)'
    BY <1>1, <1>6, <1>8, <1>12, <2>1, <2>2 DEF RxAt
  <2> QED
    BY <1>3, <1>12, <2>3 DEF RxPart, Reading
<1> QED
  BY <1>0, <1>1, <1>11, <1>14, QReaderHolds

\* The tail moves over n cells: the ring has them no more.
LEMMA RingShrinks ==
  ASSUME TypeOK, TypeOK', NEW n \in Nat, n <= smd_stream_read_avail,
         tail' = Wrap(tail + n), head' = head, data' = data
  PROVE  /\ smd_stream_read_avail' = smd_stream_read_avail - n
         /\ smd_stream_write_avail' >= smd_stream_write_avail
         /\ Ring' \in Seq(Cells) /\ Len(Ring') = smd_stream_read_avail - n
         /\ \A i \in 1 .. smd_stream_read_avail - n : Ring'[i] = Ring[i + n]
<1> DEFINE u == smd_stream_read_avail
<1>1. /\ u \in 0 .. FifoSize - 1 /\ u = Used(head, tail) /\ n <= u
      /\ head \in 0 .. FifoSize - 1 /\ tail \in 0 .. FifoSize - 1 /\ Indices
      /\ smd_stream_write_avail = (FifoSize - 1) - u
  BY Parts
<1>2. /\ u' = Used(head', tail') /\ smd_stream_write_avail' = (FifoSize - 1) - Used(head', tail')
      /\ tail' \in 0 .. FifoSize - 1
  BY CellsNext DEF CellFacts
<1>3. Used(head', tail') = u - n
  BY <1>1, Advance
<1>4. /\ \A i \in 1 .. u : Ring[i] = data[Wrap(tail + i - 1)]
  BY RingCells
<1>5. Ring' \in Seq(Cells) /\ Len(Ring') = u'
      /\ \A i \in 1 .. u' : Ring'[i] = data[Wrap(tail' + i - 1)]
  BY CellsNext DEF CellFacts
<1> HIDE DEF u
<1>6. ASSUME NEW i \in 1 .. u - n PROVE Ring'[i] = Ring[i + n]
  <2>1. i + n \in 1 .. u /\ i - 1 \in Nat /\ i - 1 < FifoSize /\ n + (i - 1) \in Nat
        /\ n + (i - 1) < FifoSize /\ n < FifoSize
    BY <1>1
  <2>2. tail + (i + n) - 1 = tail + (n + (i - 1)) /\ tail' + i - 1 = tail' + (i - 1)
    BY <1>1, <1>2
  <2>3. Wrap(tail' + (i - 1)) = Wrap(tail + (n + (i - 1)))
    <3>1. Wrap(tail + n) = IF tail + n < FifoSize THEN tail + n ELSE tail + n - FifoSize
      BY <1>1, <2>1, WrapRange
    <3> DEFINE j == i - 1
               k == n + (i - 1)
    <3>2. j \in Nat /\ j < FifoSize /\ k \in Nat /\ k < FifoSize /\ k = n + j
      BY <2>1
    <3> HIDE DEF j, k
    <3>3. Wrap(tail + k) = IF tail + k < FifoSize THEN tail + k ELSE tail + k - FifoSize
      BY <1>1, <3>2, WrapRange
    <3>4. Wrap(tail' + j) = IF tail' + j < FifoSize THEN tail' + j ELSE tail' + j - FifoSize
      BY <1>2, <3>2, WrapRange
    <3>5. Wrap(tail' + j) = Wrap(tail + k)
      <4>1. tail' = IF tail + n < FifoSize THEN tail + n ELSE tail + n - FifoSize
        BY <3>1
      <4> QED
        BY <1>1, <3>2, <3>3, <3>4, <4>1
    <3> QED
      BY <3>5 DEF j, k
  <2>4. Ring'[i] = data[Wrap(tail' + i - 1)]
    <3>1. i \in 1 .. u'
      BY <1>2, <1>3
    <3> QED
      BY <1>5, <3>1
  <2>5. Ring[i + n] = data[Wrap(tail + (i + n) - 1)]
    BY <1>4, <2>1
  <2> QED
    BY <2>2, <2>3, <2>4, <2>5
<1>7. smd_stream_write_avail' >= smd_stream_write_avail
  BY <1>1, <1>2, <1>3
<1> QED
  BY <1>2, <1>3, <1>5, <1>6, <1>7 DEF u

\* The tail moves over the segment that was copied: it is taken, and no longer in
\* the ring.
LEMMA TakenNotLost ==
  ASSUME TypeOK, TypeOK', rx.n <= Len(rx.buf), rx.n <= smd_stream_read_avail,
         rx'.buf = rx.buf, rx'.n = 0, hdr.buf = <<>>, hdr' = hdr,
         tail' = Wrap(tail + rx.n), head' = head, data' = data,
         tail + rx.n <= FifoSize,
         \A i \in 1 .. rx.n : rx.buf[(Len(rx.buf) - rx.n) + i] = data[tail + i - 1]
  PROVE  Taken' \o Ring' = Taken \o Ring
<1> DEFINE b == rx.buf
           n == rx.n
           u == smd_stream_read_avail
           l == Len(rx.buf)
           m == l - n
<1>1. /\ b \in Seq(Cells) /\ l \in Nat /\ n \in Nat /\ u \in 0 .. FifoSize - 1
      /\ tail \in 0 .. FifoSize - 1 /\ n <= u /\ n <= l /\ l = Len(b)
  BY Parts
<1>2. m \in Nat /\ m + n = l /\ u - n \in Nat /\ l + (u - n) = m + u
  BY <1>1, SMTT(30)
<1>3. Taken \in Seq(Cells) /\ Len(Taken) = m /\ \A i \in 1 .. m : Taken[i] = b[i]
  BY TakenCells
<1>4. Taken' = b
  BY CellsNext DEF CellFacts
<1>5. Ring \in Seq(Cells) /\ Len(Ring) = u /\ \A i \in 1 .. u : Ring[i] = data[Wrap(tail + i - 1)]
  BY RingCells
<1>6. Ring' \in Seq(Cells) /\ Len(Ring') = u - n /\ \A i \in 1 .. u - n : Ring'[i] = Ring[i + n]
  BY <1>1, RingShrinks
<1>7. \A i \in 1 .. n : b[m + i] = data[tail + i - 1]
  OBVIOUS
<1>8. tail + n <= FifoSize
  OBVIOUS
<1> DEFINE s == Taken \o Ring
           t == b \o Ring'
<1> HIDE DEF b, n, u, l, m
<1>9. /\ s \in Seq(Cells) /\ Len(s) = m + u
      /\ \A i \in 1 .. m + u : s[i] = IF i <= m THEN Taken[i] ELSE Ring[i - m]
  <2>1. Taken \in Seq(Cells) /\ Ring \in Seq(Cells)
    BY <1>3, <1>5
  <2>2. /\ s \in Seq(Cells) /\ Len(s) = Len(Taken) + Len(Ring)
        /\ \A i \in 1 .. Len(Taken) + Len(Ring) :
              s[i] = IF i <= Len(Taken) THEN Taken[i] ELSE Ring[i - Len(Taken)]
    BY ONLY <2>1, ConcatProperties
  <2> QED
    BY <1>3, <1>5, <2>2
<1>10. /\ t \in Seq(Cells) /\ Len(t) = l + (u - n)
       /\ \A i \in 1 .. l + (u - n) : t[i] = IF i <= l THEN b[i] ELSE Ring'[i - l]
  <2>1. b \in Seq(Cells) /\ Ring' \in Seq(Cells)
    BY <1>1, <1>6
  <2>2. /\ t \in Seq(Cells) /\ Len(t) = Len(b) + Len(Ring')
        /\ \A i \in 1 .. Len(b) + Len(Ring') :
              t[i] = IF i <= Len(b) THEN b[i] ELSE Ring'[i - Len(b)]
    BY ONLY <2>1, ConcatProperties
  <2> QED
    BY <1>1, <1>6, <2>2
<1> HIDE DEF s, t
<1>11. ASSUME NEW i \in 1 .. m + u PROVE t[i] = s[i]
  <2>1. CASE i <= m
    <3>1. i \in 1 .. m /\ i <= l /\ i \in 1 .. l + (u - n)
      BY <1>1, <1>2, <2>1, SMTT(30)
    <3> QED
      BY <1>3, <1>9, <1>10, <2>1, <3>1
  <2>2. CASE ~(i <= m) /\ i <= l
    <3> DEFINE k == i - m
    <3>1. /\ k \in 1 .. n /\ k \in 1 .. u /\ m + k = i /\ k - 1 \in Nat /\ k - 1 < FifoSize
          /\ tail + k - 1 = tail + (k - 1) /\ tail + (k - 1) < FifoSize
          /\ i \in 1 .. l + (u - n)
      BY <1>1, <1>2, <1>8, <2>2
    <3>2. s[i] = Ring[k]
      BY <1>9, <2>2
    <3> HIDE DEF k
    <3>3. Wrap(tail + (k - 1)) = tail + (k - 1)
      BY <1>1, <3>1, WrapRange
    <3>4. Ring[k] = data[tail + k - 1]
      BY <1>5, <3>1, <3>3
    <3>5. t[i] = b[m + k]
      BY <1>10, <2>2, <3>1
    <3> QED
      BY <1>7, <3>1, <3>2, <3>4, <3>5
  <2>3. CASE ~(i <= l)
    <3> DEFINE k == i - l
    <3>1. k \in 1 .. u - n /\ k + n = i - m /\ ~(i <= m) /\ i \in 1 .. l + (u - n)
      BY <1>1, <1>2, <2>3, SMTT(30)
    <3>2. t[i] = Ring'[k]
      BY <1>10, <2>3, <3>1
    <3>3. s[i] = Ring[i - m]
      BY <1>9, <3>1
    <3> HIDE DEF k
    <3> QED
      BY <1>6, <3>1, <3>2, <3>3
  <2> QED
    BY <2>1, <2>2, <2>3
<1>12. t = s
  BY <1>2, <1>9, <1>10, <1>11, SeqEqual
<1> QED
  BY <1>4, <1>12 DEF s, t

LEMMA QReaderMovesTail ==
  ASSUME OneReader, QInv, NEW r \in Readers, ReadDone(r)
  PROVE  QInv' /\ UNCHANGED <<Queue, got, sent, state>>
<1> USE DEF irqVars, linkVars, wVars
<1>0. IInv'
  BY ReaderMovesTail DEF QInv
<1>1. /\ rpc[r] = "done" /\ rpc' = [rpc EXCEPT ![r] = "flag"]
      /\ tail' = Wrap(tail + rx.n) /\ rx' = [rx EXCEPT !.n = 0]
      /\ UNCHANGED <<head, data, current_packet, hdr, tx, sent, count, wpc, state, release, got>>
  BY DEF ReadDone
<1>2. TypeOK /\ TypeOK' /\ rpc \in [Readers -> ReaderPc] /\ rx \in RxType
  BY <1>0 DEF QInv, IInv, TypeOK, ReaderPc, RxType
<1>3. \A q \in Readers : q = r
  BY DEF OneReader
<1>11. hdr.buf = <<>>
  BY <1>1 DEF QInv, IInv, RxInv, HdrInv, Reading
<1>4. rx'.buf = rx.buf /\ rx'.n = 0 /\ rx'.want = rx.want /\ rpc'[r] = "flag"
  BY <1>1, <1>2 DEF RxType
<1>5. /\ Len(rx.buf) \in Nat /\ rx.n \in Nat /\ rx.want \in Nat
      /\ smd_stream_read_avail \in 0 .. FifoSize - 1
  BY <1>2, Parts
<1>6. /\ rx.n <= Len(rx.buf) /\ (Len(rx.buf) - rx.n) + smd_stream_read_avail >= rx.want
      /\ tail + rx.n <= FifoSize
      /\ \A i \in 1 .. rx.n : rx.buf[(Len(rx.buf) - rx.n) + i] = data[tail + i - 1]
  BY <1>1 DEF QInv, RxPart, RxAt, Reading
<1>7. rx.n <= smd_stream_read_avail
  BY <1>1 DEF QInv, IInv, BugOnsHold
<1>8. Taken' \o Ring' = Taken \o Ring
  BY <1>1, <1>2, <1>4, <1>6, <1>7, <1>11, TakenNotLost
<1>9. /\ smd_stream_read_avail' = smd_stream_read_avail - rx.n
      /\ smd_stream_write_avail' >= smd_stream_write_avail
  BY <1>1, <1>2, <1>5, <1>7, RingShrinks
<1>10. RxPart'
  <2>1. rx'.n <= Len(rx'.buf) /\ (Len(rx'.buf) - rx'.n) + smd_stream_read_avail' >= rx'.want
    <3>1. Len(rx'.buf) = Len(rx.buf)
      BY <1>4
    <3> QED
      BY <1>4, <1>5, <1>6, <1>9, <3>1
  <2>2. RxAt(r)'
    BY <1>4, <2>1 DEF RxAt
  <2> QED
    BY <1>3, <1>4, <2>2 DEF RxPart, Reading
<1> QED
  BY <1>0, <1>1, <1>8, <1>9, <1>10, QReaderSteady

LEMMA QReaderFlags ==
  ASSUME OneReader, QInv, NEW r \in Readers, ReadFlag(r)
  PROVE  QInv' /\ UNCHANGED <<Queue, got, sent, state>>
<1> USE DEF irqVars, linkVars, wVars
<1>0. IInv'
  BY ReaderFlags DEF QInv
<1>1. /\ rpc[r] = "flag" /\ rpc' = [rpc EXCEPT ![r] = "seg"]
      /\ UNCHANGED <<head, tail, data, current_packet, hdr, rx, tx, sent, count, wpc,
                     state, release, got>>
  BY DEF ReadFlag
<1>2. rpc \in [Readers -> ReaderPc] /\ \A q \in Readers : q = r
  BY DEF QInv, IInv, TypeOK, ReaderPc, OneReader
<1>3. rpc'[r] = "seg"
  BY <1>1, <1>2
<1>4. smd_stream_read_avail' = smd_stream_read_avail
  BY <1>1 DEF smd_stream_read_avail
<1>5. RxAt(r)'
  BY <1>1, <1>3, <1>4 DEF QInv, RxPart, RxAt, Reading
<1>6. RxPart'
  BY <1>2, <1>3, <1>5 DEF RxPart, Reading
<1>7. Taken' = Taken
  BY <1>1 DEF Taken, Copied
<1> QED
  BY <1>0, <1>1, <1>6, <1>7, QReaderHolds

\* All of the packet has been read.
LEMMA QReaderAcks ==
  ASSUME OneReader, QInv, NEW r \in Readers, ReadAck(r)
  PROVE  QInv' /\ UNCHANGED <<Queue, got, sent, state>>
<1> USE DEF linkVars, wVars, ringVars
<1>0. IInv'
  BY ReaderAcks DEF QInv
<1>1. /\ rpc[r] = "seg" /\ rpc' = [rpc EXCEPT ![r] = "sub"]
      /\ ch_read_buffer = 0 \/ Len(rx.buf) = rx.want
      /\ UNCHANGED <<head, tail, data, current_packet, hdr, rx, tx, sent, count, wpc, state, release, got>>
  BY DEF ReadAck
<1>2. TypeOK /\ TypeOK' /\ rpc \in [Readers -> ReaderPc] /\ Indices
  BY <1>0, Parts DEF QInv, IInv, TypeOK, ReaderPc
<1>3. \A q \in Readers : q = r
  BY DEF OneReader
<1>4. /\ Len(rx.buf) \in Nat /\ rx.n \in Nat /\ rx.want \in Nat
      /\ smd_stream_read_avail \in 0 .. FifoSize - 1 /\ smd_stream_read_avail = Used(head, tail)
  BY <1>2, Parts
<1>5. /\ rx.n = 0 /\ rx.n <= Len(rx.buf) /\ (Len(rx.buf) - rx.n) + smd_stream_read_avail >= rx.want
      /\ Len(rx.buf) <= rx.want
  BY <1>1 DEF QInv, RxPart, RxAt, Reading, IInv, RxInv
<1>6. Len(rx.buf) = rx.want
  <2> SUFFICES ASSUME ch_read_buffer = 0 PROVE Len(rx.buf) = rx.want
    BY <1>1
  <2>1. smd_stream_read_avail = 0
    BY <1>2, <1>4 DEF ch_read_buffer, Used, Indices
  <2> QED
    BY <1>4, <1>5, <2>1
<1>7. smd_stream_read_avail' = smd_stream_read_avail
  BY <1>1 DEF smd_stream_read_avail
<1>8. rpc'[r] = "sub"
  BY <1>1, <1>2
<1>9. RxPart'
  <2>1. RxAt(r)'
    BY <1>1, <1>5, <1>6, <1>7, <1>8 DEF RxAt
  <2> QED
    BY <1>3, <1>8, <2>1 DEF RxPart, Reading
<1>10. Taken' = Taken
  BY <1>1 DEF Taken, Copied
<1> QED
  BY <1>0, <1>1, <1>9, <1>10, QReaderHolds

\* The cells after the first of three parts.
LEMMA FirstOff ==
  ASSUME NEW b \in Seq(Cells), NEW r \in Seq(Cells), NEW s \in Seq(Cells),
         NEW c, c = (b \o r) \o s
  PROVE  /\ c \in Seq(Cells) /\ Len(b) \in 0 .. Len(c) /\ SubSeq(c, 1, Len(b)) = b
         /\ SubSeq(c, Len(b) + 1, Len(c)) = (<<>> \o r) \o s
<1> DEFINE d == r \o s
<1>1. c = b \o d
  BY Assoc
<1>2. d \in Seq(Cells) /\ <<>> \o r = r
  BY ConcatProperties, ConcatEmptySeq
<1> HIDE DEF d
<1>3. /\ c \in Seq(Cells) /\ Len(c) = Len(b) + Len(d) /\ Len(b) \in Nat /\ Len(d) \in Nat
      /\ \A i \in 1 .. Len(b) + Len(d) : c[i] = IF i <= Len(b) THEN b[i] ELSE d[i - Len(b)]
  BY <1>1, <1>2, ConcatProperties
<1> DEFINE k == Len(b)
           n == Len(d)
           f == SubSeq(c, k + 1, Len(c))
           e == SubSeq(c, 1, k)
<1>4. k \in 0 .. Len(c) /\ k \in Nat /\ n \in Nat /\ Len(c) = k + n
  BY <1>3
<1>5. \A i \in 1 .. k + n : c[i] = IF i <= k THEN b[i] ELSE d[i - k]
  BY <1>3
<1>6. f \in Seq(Cells) /\ Len(f) = Len(c) - k /\ \A i \in 1 .. Len(c) - k : f[i] = c[i + k]
  BY <1>3, <1>4, SkipCells
<1>7. k = Len(b) /\ n = Len(d)
  OBVIOUS
<1> HIDE DEF k, n
<1>8. f = d
  <2> HIDE DEF f
  <2>1. Len(f) = n
    BY <1>4, <1>6
  <2>2. ASSUME NEW i \in 1 .. n PROVE f[i] = d[i]
    <3>1. i \in 1 .. Len(c) - k /\ i + k \in 1 .. k + n /\ ~(i + k <= k) /\ (i + k) - k = i
      BY <1>4
    <3> QED
      BY <1>5, <1>6, <3>1
  <2> QED
    BY <1>2, <1>6, <1>7, <2>1, <2>2, SeqEqual
<1>9. e = b
  <2>1. \A i \in 1 .. k : c[i] \in Cells
    BY <1>3, <1>4, SMTT(30)
  <2>2. /\ e \in Seq(Cells) /\ Len(e) = (IF 1 <= k THEN k - 1 + 1 ELSE 0)
        /\ \A i \in 1 .. k - 1 + 1 : e[i] = c[1 + i - 1]
    BY <1>4, <2>1, SubSeqProperties
  <2> HIDE DEF e
  <2>3. Len(e) = k
    BY <1>4, <2>2
  <2>4. ASSUME NEW i \in 1 .. k PROVE e[i] = b[i]
    <3>1. i \in 1 .. k - 1 + 1 /\ 1 + i - 1 = i /\ i \in 1 .. k + n /\ i <= k
      BY <1>4
    <3> QED
      BY <1>5, <2>2, <3>1
  <2> QED
    BY <1>7, <2>2, <2>3, <2>4, SeqEqual
<1> QED
  BY <1>2, <1>3, <1>4, <1>7, <1>8, <1>9 DEF d, e, f

\* The first k cells under way are done with.
LEMMA StreamSkips ==
  ASSUME TypeOK, TypeOK', NEW E, Framed(E), NEW k \in 0 .. Len(CellsUnderway),
         CellsUnderway' = SubSeq(CellsUnderway, k + 1, Len(CellsUnderway)),
         (current_packet' + 1) + k \in E, Intact' => Intact, Rest' = Rest
  PROVE  StreamInv'
<1> DEFINE c == CellsUnderway
           d == CellsUnderway'
           D == Down(E, k)
<1>1. c \in Seq(Cells) /\ d \in Seq(Cells) /\ current_packet' \in Nat /\ Rest \in Seq(Cells)
  BY Underway, RestCells, CellsNext DEF CellFacts
<1>2. Len(Rest) \in Nat /\ k \in Nat
  BY <1>1
<1>3. Frames(c, E) /\ (Intact => Complete(c, E) /\ OneLeft(c, E, Len(Rest)))
  BY DEF Framed
<1>4. d = SubSeq(c, k + 1, Len(c)) /\ k \in 0 .. Len(c)
  OBVIOUS
<1>5. current_packet' + 1 \in D
  <2> DEFINE p == (current_packet' + 1) + k
             x == current_packet'
  <2>2. p \in E
    OBVIOUS
  <2>3. x \in Nat /\ k \in Nat
    BY <1>1, <1>2
  <2>4. p = (x + 1) + k
    OBVIOUS
  <2> HIDE DEF p, x
  <2>5. p > k /\ p - k = x + 1
    BY ONLY <2>3, <2>4
  <2>1. p \in E /\ p > k /\ p - k = current_packet' + 1
    BY <2>2, <2>5 DEF x
  <2> HIDE DEF p
  <2> QED
    BY <2>1 DEF Down
<1> HIDE DEF c, d
<1>6. /\ Frames(d, D)
      /\ Complete(c, E) => Complete(d, D)
      /\ \A m \in Nat : OneLeft(c, E, m) => OneLeft(d, D, m)
  BY <1>1, <1>3, <1>4, FramesSkip
<1>7. Intact' => Complete(d, D) /\ OneLeft(d, D, Len(Rest'))
  BY <1>2, <1>3, <1>6
<1> HIDE DEF D
<1>8. Framed(D)'
  BY <1>5, <1>6, <1>7 DEF Framed, d
<1> QED
  BY <1>8 DEF StreamInv

\* The packet is handed over or, if a buffer was too small for it, thrown away.
LEMMA QReaderAccounts ==
  ASSUME OneReader, QInv, NEW r \in Readers, ReadSub(r)
  PROVE  /\ QInv' /\ UNCHANGED <<sent, state>>
         /\ Queue # <<>> /\ Queue' = Tail(Queue)
         /\ \/ got' = got /\ \E size \in BufLens : size < Len(Head(Queue))
            \/ got' = Append(got, Head(Queue))
<1> USE DEF irqVars, linkVars, wVars, ringVars
<1>0. IInv'
  BY ReaderAccounts DEF QInv
<1>1. /\ rpc[r] = "sub" /\ rpc' = [rpc EXCEPT ![r] = "upd"]
      /\ current_packet' = current_packet - Len(rx.buf)
      /\ got' = IF rx.drop \/ Len(rx.buf) # rx.want THEN got ELSE Append(got, rx.buf)
      /\ rx' = [NoRx EXCEPT !.drop = rx.drop \/ Len(rx.buf) # rx.want]
      /\ UNCHANGED <<head, tail, data, hdr, tx, sent, count, wpc, state, release>>
  BY DEF ReadSub
<1>2. TypeOK /\ TypeOK' /\ rpc \in [Readers -> ReaderPc]
  BY <1>0 DEF QInv, IInv, TypeOK, ReaderPc
<1>3. \A q \in Readers : q = r
  BY DEF OneReader
<1> DEFINE b == rx.buf
           c == CellsUnderway
           need == current_packet
<1>4. b \in Seq(Cells) /\ Len(b) \in Nat /\ need \in Nat
  BY <1>2, Parts
<1>5. rx.n = 0 /\ Len(b) = need /\ need > 0
  BY <1>1 DEF QInv, RxPart, RxAt, Reading, IInv, RxInv
<1>18. hdr.buf = <<>>
  BY <1>1 DEF QInv, IInv, RxInv, HdrInv, Reading
<1>19. \/ got' = got /\ \E size \in BufLens : size < Len(b)
       \/ got' = Append(got, b)
  <2>1. Len(b) = rx.want
    BY <1>1 DEF QInv, RxPart, RxAt
  <2>2. rx.drop => \E size \in BufLens : size < rx.want
    BY <1>1 DEF QInv, IInv, RxInv, Reading
  <2>3. CASE rx.drop
    BY <1>1, <2>1, <2>2, <2>3
  <2>4. CASE ~rx.drop
    BY <1>1, <2>1, <2>4
  <2> QED
    BY <2>3, <2>4
<1>6. Taken = b /\ Ring \in Seq(Cells) /\ Rest \in Seq(Cells) /\ c = (Taken \o Ring) \o Rest
  BY <1>2, <1>5, <1>18, TakenCells, RingCells, RestCells, Underway
<1>7. rx'.buf = <<>> /\ rx'.n = 0 /\ rpc'[r] = "upd" /\ current_packet' = 0
  <2>1. current_packet' = need - Len(b)
    BY <1>1
  <2>2. current_packet' = 0
    BY <1>4, <1>5, <2>1
  <2> QED
    BY <1>1, <1>2, <2>2 DEF NoRx
<1>8. /\ smd_stream_read_avail' = smd_stream_read_avail
      /\ smd_stream_write_avail' = smd_stream_write_avail
  BY <1>1 DEF smd_stream_read_avail, smd_stream_write_avail
<1>9. Taken' = <<>> /\ Ring' = Ring /\ WriteBegun' = WriteBegun
  <2>1. Taken' = <<>>
    BY <1>1, <1>2, <1>7, <1>18, CellsNext DEF CellFacts
  <2> QED
    BY <1>1, <1>8, <2>1 DEF Ring, WriteBegun
<1>10. Rest' = Rest
  BY <1>1, <1>9 DEF Rest
<1>11. CellsUnderway' = (<<>> \o Ring) \o Rest
  BY <1>2, <1>9, <1>10, CellsNext DEF CellFacts
<1>12. /\ c \in Seq(Cells) /\ need \in 0 .. Len(c) /\ SubSeq(c, 1, need) = b
       /\ SubSeq(c, need + 1, Len(c)) = CellsUnderway'
  <2> HIDE DEF b, c, need
  <2>1. c = (b \o Ring) \o Rest
    BY <1>6
  <2>2. /\ c \in Seq(Cells) /\ Len(b) \in 0 .. Len(c) /\ SubSeq(c, 1, Len(b)) = b
        /\ SubSeq(c, Len(b) + 1, Len(c)) = (<<>> \o Ring) \o Rest
    <3>1. b \in Seq(Cells) /\ Ring \in Seq(Cells) /\ Rest \in Seq(Cells)
      BY <1>4, <1>6
    <3> DEFINE t == Ring
               s == Rest
    <3> HIDE DEF t, s
    <3>2. t \in Seq(Cells) /\ s \in Seq(Cells) /\ c = (b \o t) \o s
      BY <2>1, <3>1 DEF t, s
    <3>3. /\ c \in Seq(Cells) /\ Len(b) \in 0 .. Len(c) /\ SubSeq(c, 1, Len(b)) = b
          /\ SubSeq(c, Len(b) + 1, Len(c)) = (<<>> \o t) \o s
      BY ONLY <3>1, <3>2, FirstOff, SMTT(30)
    <3> QED
      BY ONLY <3>3 DEF t, s
  <2> QED
    BY <1>5, <1>11, <2>2
<1>13. /\ Queue # <<>> /\ Head(Queue) = b /\ Queue' = Tail(Queue)
  <2>1. Queue = CutPackets(need, c) /\ Queue' = CutPackets(0, SubSeq(c, need + 1, Len(c)))
    BY <1>7, <1>12 DEF Queue
  <2> HIDE DEF b, c, need
  <2>2. need \in 1 .. Len(c)
    BY <1>4, <1>5, <1>12
  <2> QED
    BY <1>12, <2>1, <2>2, PacketOff
<1>14. PICK E : Framed(E)
  BY DEF QInv, StreamInv
<1>15. StreamInv'
  <2>1. (current_packet' + 1) + need \in E
    <3>1. need + 1 \in E
      BY <1>14 DEF Framed
    <3> HIDE DEF need
    <3>2. (current_packet' + 1) + need = need + 1
      BY <1>4, <1>7
    <3> QED
      BY <3>1, <3>2
  <2>2. Intact' => Intact
    BY <1>1, <1>9 DEF Intact, ch_is_open
  <2> QED
    BY <1>2, <1>10, <1>12, <1>14, <2>1, <2>2, StreamSkips
<1>16. TxPart'
  <2>1. smd_stream_write_avail' >= smd_stream_write_avail
    BY <1>2, <1>8, Parts
  <2> QED
    BY <1>1, <1>2, <2>1, TxKept DEF QInv
<1>17. RxPart'
  <2>1. RxAt(r)'
    BY <1>7 DEF RxAt, Reading
  <2> QED
    BY <1>3, <1>7, <2>1 DEF RxPart
<1> QED
  BY <1>0, <1>1, <1>13, <1>15, <1>16, <1>17, <1>19 DEF QInv

\* The segment at the tail is the first part of the ring.
LEMMA RingSplits ==
  ASSUME TypeOK, TypeOK', NEW n \in Nat, n <= smd_stream_read_avail,
         tail + n <= FifoSize,
         tail' = Wrap(tail + n), head' = head, data' = data,
         NEW seg \in Seq(Cells), Len(seg) = n,
         \A i \in 1 .. n : seg[i] = data[tail + i - 1]
  PROVE  Ring = seg \o Ring'
<1> DEFINE u == smd_stream_read_avail
           s == seg \o Ring'
<1>1. u \in 0 .. FifoSize - 1 /\ tail \in 0 .. FifoSize - 1 /\ n <= u
  BY Parts
<1>2. Ring \in Seq(Cells) /\ Len(Ring) = u /\ \A i \in 1 .. u : Ring[i] = data[Wrap(tail + i - 1)]
  BY RingCells
<1>3. Ring' \in Seq(Cells) /\ Len(Ring') = u - n /\ \A i \in 1 .. u - n : Ring'[i] = Ring[i + n]
  BY RingShrinks
<1> HIDE DEF u
<1>4. /\ s \in Seq(Cells) /\ Len(s) = n + (u - n)
      /\ \A i \in 1 .. n + (u - n) : s[i] = IF i <= n THEN seg[i] ELSE Ring'[i - n]
  <2>1. /\ s \in Seq(Cells) /\ Len(s) = Len(seg) + Len(Ring')
        /\ \A i \in 1 .. Len(seg) + Len(Ring') :
              s[i] = IF i <= Len(seg) THEN seg[i] ELSE Ring'[i - Len(seg)]
    BY ONLY <1>3, seg \in Seq(Cells), ConcatProperties
  <2> QED
    BY <1>3, <2>1
<1> HIDE DEF s
<1>5. n + (u - n) = u
  BY <1>1
<1>6. ASSUME NEW i \in 1 .. u PROVE Ring[i] = s[i]
  <2>1. CASE i <= n
    <3>1. /\ i \in 1 .. n /\ i - 1 \in Nat /\ i - 1 < FifoSize
          /\ tail + i - 1 = tail + (i - 1) /\ tail + (i - 1) < FifoSize
      BY <1>1, <2>1
    <3>2. Wrap(tail + (i - 1)) = tail + (i - 1)
      BY <1>1, <3>1, WrapRange
    <3> QED
      BY <1>2, <1>4, <1>5, <2>1, <3>1, <3>2, SMTT(30)
  <2>2. CASE ~(i <= n)
    <3>1. i - n \in 1 .. u - n /\ (i - n) + n = i
      BY <1>1, <2>2
    <3> QED
      BY <1>3, <1>4, <1>5, <2>2, <3>1
  <2> QED
    BY <2>1, <2>2
<1>7. Ring = s
  BY <1>2, <1>4, <1>5, <1>6, SeqEqual
<1> QED
  BY <1>7 DEF s

\* No reader has a packet in hand while a header is read.
LEMMA BetweenPackets ==
  ASSUME QInv, current_packet = 0
  PROVE  /\ \A q \in Readers : rpc[q] \notin Reading
         /\ rx.buf = <<>> /\ rx.n = 0
         /\ \A q \in Readers : rpc[q] = "woken" => release["R"] # "no"
         /\ \A q \in Readers : rpc[q] = "lock" => no_ch("R")
<1>1. \A q \in Readers : rpc[q] \notin Reading
  BY DEF QInv, IInv, RxInv
<1> QED
  BY <1>1 DEF QInv, RxPart, RxAt, PacketThere

\* A segment of a header leaves the ring.
LEMMA QHeaderSegment ==
  ASSUME QInv, HeaderStep, HeaderSeg
  PROVE  QInv' /\ UNCHANGED <<Queue, got, sent, state>>
<1> USE DEF irqVars, linkVars, wVars
<1>0. IInv' /\ IInv
  BY HeaderTaken DEF QInv
<1>1. /\ hdr' = [buf |-> hdr.buf \o HdrSeg, moved |-> TRUE] /\ tail' = Wrap(tail + SegLen)
      /\ UNCHANGED <<head, data, current_packet, rx, rpc, tx, sent, count, wpc, state,
                     release, got>>
  BY DEF HeaderStep, HeaderSeg, HdrSeg, SegLen
<1>2. TypeOK /\ TypeOK'
  BY <1>0 DEF IInv
<1>3. /\ current_packet = 0 /\ SegLen \in Nat /\ SegLen <= smd_stream_read_avail
      /\ tail + SegLen <= FifoSize /\ HdrSeg \in Seq(Cells) /\ Len(HdrSeg) = SegLen
  BY <1>0, HeaderSegment
<1>4. /\ \A q \in Readers : rpc[q] \notin Reading
      /\ rx.buf = <<>> /\ rx.n = 0
      /\ \A q \in Readers : rpc[q] = "woken" => release["R"] # "no"
      /\ \A q \in Readers : rpc[q] = "lock" => no_ch("R")
  BY <1>3, BetweenPackets
<1>5. \A i \in 1 .. SegLen : HdrSeg[i] = data[tail + i - 1]
  BY DEF HdrSeg
<1>6. Ring = HdrSeg \o Ring' /\ smd_stream_write_avail' >= smd_stream_write_avail
      /\ Ring' \in Seq(Cells)
  BY <1>1, <1>2, <1>3, <1>5, RingSplits, RingShrinks
<1>7. Taken = hdr.buf /\ Taken' = hdr.buf \o HdrSeg /\ hdr.buf \in Seq(Cells)
  BY <1>1, <1>2, <1>4, TakenCells, Parts, CellsNext DEF CellFacts
<1>8. Taken' \o Ring' = Taken \o Ring
  <2> DEFINE a == hdr.buf
             b == HdrSeg
             c == Ring'
  <2>1. a \in Seq(Cells) /\ b \in Seq(Cells) /\ c \in Seq(Cells)
    BY <1>3, <1>6, <1>7
  <2>2. Taken' \o Ring' = (a \o b) \o c /\ Taken \o Ring = a \o (b \o c)
    BY <1>6, <1>7
  <2> HIDE DEF a, b, c
  <2> QED
    BY <2>1, <2>2, Assoc, SMTT(30)
<1>9. RxPart'
  <2>1. ASSUME NEW q \in Readers PROVE RxAt(q)'
    BY <1>1, <1>4 DEF RxAt, Reading, no_ch
  <2> QED
    BY <1>1, <1>4, <2>1 DEF RxPart
<1> QED
  BY <1>0, <1>1, <1>6, <1>8, <1>9, QReaderSteady

\* The whole header has been read: the packets stay as they are.
LEMMA QHeaderRead ==
  ASSUME QInv, HeaderStep, HeaderFlag, Len(hdr.buf) = HeaderSize
  PROVE  QInv' /\ UNCHANGED <<Queue, got, sent, state>>
<1> USE DEF irqVars, linkVars, wVars
<1>0. IInv' /\ IInv
  BY HeaderTaken DEF QInv
<1>1. /\ hdr' = NoHdr /\ hdr.moved /\ current_packet' = hdr.buf[1].len
      /\ UNCHANGED <<head, tail, data, rx, rpc, tx, sent, count, wpc, state, release, got>>
  BY DEF HeaderStep, HeaderFlag
<1>2. TypeOK /\ TypeOK'
  BY <1>0 DEF IInv
<1>3. current_packet = 0
  BY <1>0, <1>1 DEF IInv, HdrInv
<1>4. /\ \A q \in Readers : rpc[q] \notin Reading
      /\ rx.buf = <<>> /\ rx.n = 0
      /\ \A q \in Readers : rpc[q] = "woken" => release["R"] # "no"
      /\ \A q \in Readers : rpc[q] = "lock" => no_ch("R")
  BY <1>3, BetweenPackets
<1>5. /\ smd_stream_read_avail' = smd_stream_read_avail
      /\ smd_stream_write_avail' = smd_stream_write_avail
  BY <1>1 DEF smd_stream_read_avail, smd_stream_write_avail
<1>6. Ring' = Ring /\ WriteBegun' = WriteBegun
  BY <1>1, <1>5 DEF Ring, WriteBegun
<1>7. Rest' = Rest
  BY <1>1, <1>6 DEF Rest
<1> DEFINE c == CellsUnderway
           d == CellsUnderway'
           b == hdr.buf
           h == HeaderSize
<1>8. h \in Nat \ {0} /\ Len(b) = h
  OBVIOUS
<1>9. /\ c = (b \o Ring) \o Rest /\ d = (<<>> \o Ring) \o Rest
      /\ b \in Seq(Cells) /\ Ring \in Seq(Cells) /\ Rest \in Seq(Cells)
  <2>1. Taken = b /\ Taken' = <<>>
    BY <1>1, <1>2, <1>4, TakenCells, CellsNext DEF CellFacts, NoHdr
  <2>2. c = (Taken \o Ring) \o Rest /\ d = (Taken' \o Ring') \o Rest'
    BY <1>2, Underway, CellsNext DEF CellFacts
  <2> QED
    BY <1>2, <1>6, <1>7, <2>1, <2>2, Parts, RingCells, RestCells
<1> HIDE DEF b, c, d
<1>10. /\ c \in Seq(Cells) /\ h \in 0 .. Len(c) /\ SubSeq(c, 1, h) = b
       /\ SubSeq(c, h + 1, Len(c)) = d
  <2> DEFINE t == Ring
             s == Rest
  <2>1. b \in Seq(Cells) /\ t \in Seq(Cells) /\ s \in Seq(Cells) /\ c = (b \o t) \o s
    BY <1>9
  <2> HIDE DEF t, s
  <2>2. /\ c \in Seq(Cells) /\ Len(b) \in 0 .. Len(c) /\ SubSeq(c, 1, Len(b)) = b
        /\ SubSeq(c, Len(b) + 1, Len(c)) = (<<>> \o t) \o s
    BY ONLY <2>1, FirstOff, SMTT(30)
  <2> QED
    BY <1>8, <1>9, <2>2 DEF t, s
<1> HIDE DEF h
<1>11. c[1].len = current_packet'
  <2>1. \A i \in 1 .. h : c[i] \in Cells
    BY <1>10
  <2>2. \A i \in 1 .. h - 1 + 1 : SubSeq(c, 1, h)[i] = c[1 + i - 1]
    BY <1>8, <2>1, SubSeqProperties
  <2>3. 1 \in 1 .. h - 1 + 1 /\ 1 + 1 - 1 = 1
    BY <1>8
  <2>4. b[1] = c[1]
    BY <1>10, <2>2, <2>3
  <2> QED
    BY <1>1, <2>4 DEF b
<1>12. PICK E : Framed(E)
  BY DEF QInv, StreamInv
<1>13. c[1].len # 0 /\ After(c, 1) \in E
  <2>1. 1 \in E /\ Frames(c, E)
    BY <1>3, <1>12 DEF Framed, c
  <2>2. 1 + HeaderSize <= Len(c) + 1
    BY <1>8, <1>10 DEF h
  <2> QED
    BY <2>1, <2>2 DEF Frames
<1>14. Queue' = Queue
  <2>1. CutPackets(c[1].len, SubSeq(c, HeaderSize + 1, Len(c))) = CutPackets(0, c)
    <3>1. HeaderSize <= Len(c)
      BY <1>10 DEF h
    <3> QED
      BY <1>10, <1>13, <3>1, HeaderOff
  <2>2. Queue = CutPackets(0, c) /\ Queue' = CutPackets(current_packet', d)
    BY <1>3 DEF Queue, c, d
  <2> QED
    BY <1>10, <1>11, <2>1, <2>2 DEF h
<1>15. StreamInv'
  <2>1. (current_packet' + 1) + h \in E
    <3>1. After(c, 1) = 1 + HeaderSize + current_packet'
      BY <1>11 DEF After
    <3>2. current_packet' \in Nat
      BY <1>2, CellsNext DEF CellFacts
    <3>3. 1 + HeaderSize + current_packet' = (current_packet' + 1) + h
      BY <1>8, <3>2 DEF h
    <3> QED
      BY <1>13, <3>1, <3>3
  <2>2. Intact' => Intact
    BY <1>1, <1>6 DEF Intact, ch_is_open
  <2>3. /\ h \in 0 .. Len(CellsUnderway)
        /\ CellsUnderway' = SubSeq(CellsUnderway, h + 1, Len(CellsUnderway))
    BY <1>10 DEF c, d
  <2> QED
    BY <1>2, <1>7, <1>12, <2>1, <2>2, <2>3, StreamSkips
<1>16. TxPart'
  <2>1. smd_stream_write_avail' >= smd_stream_write_avail
    BY <1>2, <1>5, Parts
  <2> QED
    BY <1>1, <1>2, <2>1, TxKept DEF QInv
<1>17. RxPart'
  <2>1. ASSUME NEW q \in Readers PROVE RxAt(q)'
    BY <1>1, <1>4 DEF RxAt, Reading, no_ch
  <2> QED
    BY <1>1, <1>4, <2>1 DEF RxPart
<1> QED
  BY <1>0, <1>1, <1>14, <1>15, <1>16, <1>17 DEF QInv

\* A header is read, by whoever comes first.
LEMMA QHeaderTaken ==
  ASSUME QInv, HeaderStep
  PROVE  QInv' /\ UNCHANGED <<Queue, got, sent, state>>
<1>1. CASE HeaderFlag /\ Len(hdr.buf) # HeaderSize
  <2> USE DEF irqVars, linkVars, wVars
  <2>0. IInv' /\ IInv
    BY HeaderTaken DEF QInv
  <2>1. /\ hdr' = [hdr EXCEPT !.moved = FALSE]
        /\ UNCHANGED <<head, tail, data, current_packet, rx, rpc, tx, sent, count, wpc, state,
                       release, got>>
    BY <1>1 DEF HeaderStep, HeaderFlag
  <2>2. hdr'.buf = hdr.buf
    <3>1. hdr \in HdrType
      BY <2>0 DEF IInv, TypeOK, HdrType
    <3> QED
      BY <2>1, <3>1 DEF HdrType
  <2>3. Taken' = Taken
    BY <2>1, <2>2 DEF Taken, Copied
  <2>4. smd_stream_read_avail' = smd_stream_read_avail
    BY <2>1 DEF smd_stream_read_avail
  <2>5. RxPart'
    BY <2>1, <2>4 DEF QInv, RxPart, RxAt, PacketThere, no_ch
  <2> QED
    BY <2>0, <2>1, <2>3, <2>5, QReaderHolds
<1> QED
  BY <1>1, QHeaderSegment, QHeaderRead DEF HeaderStep

LEMMA QReaderReturns ==
  ASSUME OneReader, QInv, NEW r \in Readers, ReadReturn(r)
  PROVE  QInv' /\ UNCHANGED <<Queue, got, sent, state>>
<1> USE DEF irqVars, linkVars, wVars, ringVars
<1>0. IInv'
  BY ReaderUpdates DEF QInv
<1>1. /\ rpc[r] = "upd" /\ rx' = NoRx /\ rpc'[r] = "idle"
      /\ UNCHANGED <<head, tail, data, current_packet, hdr, tx, sent, count, wpc, state, release, got>>
  BY DEF ReadReturn
<1>2. \A q \in Readers : q = r
  BY DEF OneReader
<1>3. rx.buf = <<>> /\ rx.n = 0
  BY <1>1, <1>2 DEF QInv, RxPart, Reading
<1>4. rx'.buf = <<>> /\ rx'.n = 0
  BY <1>1 DEF NoRx
<1>5. Taken' = Taken
  BY <1>1, <1>3, <1>4 DEF Taken, Copied
<1>6. RxPart'
  <2>1. RxAt(r)'
    BY <1>1, <1>4 DEF RxAt, Reading
  <2> QED
    BY <1>2, <1>4, <2>1 DEF RxPart
<1> QED
  BY <1>0, <1>1, <1>5, <1>6, QReaderHolds

-----------------------------------------------------------------------------
(* The handler, the rest, and the refinement.                              *)

\* An end has left the open state (what PacketQueue calls closed).
Closed == \E e \in Ends : state[e] # "OPENED"

\* Ends only leave the open state.
Leaves(e) == state' = state \/ \E s \in {"CLOSING", "CLOSED"} : state' = [state EXCEPT ![e] = s]

LEMMA LeavesOpen ==
  ASSUME TypeOK, NEW e \in Ends, Leaves(e)
  PROVE  /\ ch_is_open("W")' => ch_is_open("W")
         /\ state' = state \/ Closed'
<1>1. DOMAIN state = Ends /\ "W" \in Ends /\ "R" \in Ends
  BY DEF TypeOK, Ends
<1>2. CASE state' = state
  BY <1>2 DEF ch_is_open
<1>3. ASSUME NEW s \in {"CLOSING", "CLOSED"}, state' = [state EXCEPT ![e] = s]
      PROVE  (ch_is_open("W")' => ch_is_open("W")) /\ Closed'
  <2>1. state'[e] = s /\ s # "OPENED" /\ \A f \in Ends : f # e => state'[f] = state[f]
    BY <1>1, <1>3
  <2> QED
    BY <1>1, <2>1 DEF Closed, ch_is_open, Other, Ends
<1> QED
  BY <1>2, <1>3 DEF Leaves

LEMMA QHandlerSteps ==
  ASSUME QInv, NEW e \in Ends, Irq(e)
  PROVE  QInv' /\ UNCHANGED <<Queue, got, sent>> /\ (state' = state \/ Closed')
<1> USE DEF irqVars, linkVars, rVars, wVars, ringVars
<1>0. IInv' /\ TypeOK
  BY HandlerSteps DEF QInv, IInv
<1>1. CASE IrqUpdate
  BY <1>1, QHeaderTaken DEF IrqUpdate, HeaderStep
<1>2. CASE ~IrqUpdate
  <2>1. /\ UNCHANGED <<head, tail, data, current_packet, hdr, rx, tx, sent, count, wpc, got,
                        release>>
        /\ Leaves(e)
    BY <1>2 DEF Irq, IrqStart, IrqState, IrqNotifyReader, IrqNotifyWriter, Leaves
  <2>2. \A r \in Readers : rpc'[r] = rpc[r] \/ (rpc[r] = "sleep" /\ rpc'[r] = "wait")
    BY <1>2 DEF Irq, IrqStart, IrqState, IrqNotifyReader, IrqNotifyWriter, WakeReaders
  <2>3. (ch_is_open("W")' => ch_is_open("W")) /\ (state' = state \/ Closed')
    BY <1>0, <2>1, LeavesOpen
  <2> QED
    BY <1>0, <2>1, <2>2, <2>3, QElsewhere DEF Released, no_ch
<1> QED
  BY <1>1, <1>2

LEMMA QOtherSteps ==
  ASSUME QInv, NEW e \in Ends, Release(e) \/ Sleep(e) \/ smd_sleep_exit(e)
  PROVE  QInv' /\ UNCHANGED <<Queue, got, sent>> /\ (state' = state \/ Closed')
<1> USE DEF irqVars, linkVars, rVars, wVars, ringVars
<1>0. IInv' /\ TypeOK
  BY OtherSteps DEF QInv, IInv
<1>1. /\ UNCHANGED <<head, tail, data, current_packet, hdr, rx, tx, sent, count, wpc, got>>
      /\ Leaves(e)
  BY DEF Release, clean_and_signal, smd_close, ReleaseChannel, ReleaseEnd, Sleep,
         smd_sleep_exit, Leaves
<1>2. (ch_is_open("W")' => ch_is_open("W")) /\ (state' = state \/ Closed')
  BY <1>0, <1>1, LeavesOpen
<1>3. \A r \in Readers : rpc'[r] = rpc[r] \/ (rpc[r] = "sleep" /\ rpc'[r] = "wait")
  BY DEF Release, clean_and_signal, smd_close, ReleaseChannel, ReleaseEnd, Sleep,
         smd_sleep_exit, WakeReaders
<1>4. Released
  <2>1. CASE release' = release
    BY <2>1 DEF Released, no_ch
  <2>2. DOMAIN release = Ends /\ "R" \in Ends
    BY <1>0 DEF TypeOK, Ends
  <2>3. CASE Release(e)
    <3>1. \/ release[e] = "no" /\ release' = [release EXCEPT ![e] = "signalled"]
          \/ release[e] = "signalled" /\ release' = [release EXCEPT ![e] = "closed"]
          \/ release[e] = "closed" /\ release' = [release EXCEPT ![e] = "null"]
          \/ release[e] = "null" /\ release' = [release EXCEPT ![e] = "done"]
      BY <2>3 DEF Release, clean_and_signal, smd_close, ReleaseChannel, ReleaseEnd
    <3> QED
      BY <2>2, <3>1 DEF Released, no_ch
  <2> QED
    BY <2>1, <2>3 DEF Sleep, smd_sleep_exit
<1> QED
  BY <1>0, <1>1, <1>2, <1>3, <1>4, QElsewhere

\* What a step does to the queue: exactly what PacketQueue allows.
QueueStep ==
  \/ UNCHANGED <<Queue, got, sent>> /\ (state' = state \/ Closed')
  \/ /\ UNCHANGED <<got, state>> /\ sent' = sent + 1
     /\ \E len \in Lens : Queue' = Append(Queue, Packet(sent + 1, len))
  \/ UNCHANGED <<got, sent, state>> /\ Closed /\ LastLost(Queue', Queue)
  \/ /\ UNCHANGED <<sent, state>>
     /\ Queue # <<>> /\ Queue' = Tail(Queue)
     /\ \/ got' = got /\ \E size \in BufLens : size < Len(Head(Queue))
        \/ got' = Append(got, Head(Queue))

LEMMA QWriterSteps ==
  ASSUME QInv, NEW w \in Writers, (\E len \in Lens : WriteCall(w, len)) \/ Write(w)
  PROVE  QInv' /\ QueueStep
<1>1. CASE \/ \E len \in Lens : WriteCall(w, len)
           \/ WriteArm(w) \/ WriteCheck(w) \/ WriteSched(w) \/ WriteNonBlocking(w)
           \/ WriteNull(w)
  BY <1>1, QWriterWaits DEF QueueStep
<1>2. CASE WriteStart(w)
  BY <1>2, QWriterStarts DEF QueueStep
<1>3. CASE WriteCopy(w)
  BY <1>3, QWriterCopies DEF QueueStep
<1>4. CASE WriteDone(w)
  BY <1>4, QWriterMovesHead DEF QueueStep
<1>5. CASE WriteNotify(w)
  BY <1>5, QWriterNotifies DEF QueueStep
<1>6. CASE WriteBreak(w)
  <2>1. /\ QInv' /\ UNCHANGED <<got, sent, state>>
        /\ UNCHANGED Queue \/ (~ch_is_open("W") /\ LastLost(Queue', Queue))
    BY <1>6, QWriterGivesUp
  <2>2. ~ch_is_open("W") => Closed
    BY DEF ch_is_open, Closed, Ends, Other
  <2> QED
    BY <2>1, <2>2 DEF QueueStep
<1>7. CASE WriteFlag(w)
  BY <1>7, QWriterFlags DEF QueueStep
<1> QED
  BY <1>1, <1>2, <1>3, <1>4, <1>5, <1>6, <1>7 DEF Write

LEMMA QReaderSteps ==
  ASSUME OneReader, QInv, NEW r \in Readers, ReadCall(r) \/ Read(r)
  PROVE  QInv' /\ QueueStep
<1>1. CASE ReadCall(r) \/ ReadWait(r) \/ ReadWoken(r) \/ ReadNull(r)
  BY <1>1, QReaderWaits DEF QueueStep
<1>2. ASSUME NEW len \in BufLens, ReadLock(r, len) PROVE QInv' /\ QueueStep
  BY <1>2, QReaderStarts DEF QueueStep
<1>3. CASE ReadSeg(r)
  BY <1>3, QReaderCopies DEF QueueStep
<1>4. CASE ReadDone(r)
  BY <1>4, QReaderMovesTail DEF QueueStep
<1>5. CASE ReadAck(r)
  BY <1>5, QReaderAcks DEF QueueStep
<1>6. CASE ReadSub(r)
  BY <1>6, QReaderAccounts DEF QueueStep
<1>7. CASE ReadUpdate(r)
  <2>1. QInv' /\ UNCHANGED <<Queue, got, sent, state>>
    BY <1>7, QHeaderTaken DEF ReadUpdate, HeaderStep
  <2> QED
    BY <2>1 DEF QueueStep
<1>8. CASE ReadReturn(r)
  BY <1>8, QReaderReturns DEF QueueStep
<1>9. CASE ReadFlag(r)
  BY <1>9, QReaderFlags DEF QueueStep
<1> QED
  BY <1>1, <1>2, <1>3, <1>4, <1>5, <1>6, <1>7, <1>8, <1>9 DEF Read

LEMMA NextQInv ==
  ASSUME OneReader
  PROVE  QInv /\ [Next]_vars => QInv' /\ QueueStep
<1> SUFFICES ASSUME QInv, [Next]_vars PROVE QInv' /\ QueueStep
  OBVIOUS
<1>1. ASSUME NEW w \in Writers, (\E len \in Lens : WriteCall(w, len)) \/ Write(w)
      PROVE  QInv' /\ QueueStep
  BY <1>1, QWriterSteps
<1>2. ASSUME NEW r \in Readers, ReadCall(r) \/ Read(r) PROVE QInv' /\ QueueStep
  BY <1>2, QReaderSteps
<1>3. ASSUME NEW e \in Ends, Irq(e) PROVE QInv' /\ QueueStep
  BY <1>3, QHandlerSteps DEF QueueStep
<1>4. ASSUME NEW e \in Ends, Release(e) \/ Sleep(e) \/ smd_sleep_exit(e)
      PROVE  QInv' /\ QueueStep
  BY <1>4, QOtherSteps DEF QueueStep
<1>5. CASE UNCHANGED vars
  <2> USE DEF vars, irqVars, linkVars, rVars, wVars, ringVars
  <2>1. IInv'
    BY <1>5, NextIInv DEF QInv
  <2>2. ch_is_open("W")' => ch_is_open("W")
    BY <1>5 DEF ch_is_open
  <2>3. QInv' /\ Queue' = Queue
    BY <1>5, <2>1, <2>2, QElsewhere DEF Released, no_ch
  <2> QED
    BY <1>5, <2>3 DEF QueueStep
<1> QED
  BY <1>1, <1>2, <1>3, <1>4, <1>5 DEF Next

LEMMA InitQInv == Init => QInv /\ Queue = <<>> /\ ~Closed
<1> SUFFICES ASSUME Init PROVE QInv /\ Queue = <<>> /\ ~Closed
  OBVIOUS
<1>1. IInv /\ TypeOK
  BY InitIInv DEF IInv
<1>2. /\ rx = NoRx /\ tx = NoTx /\ head = tail /\ current_packet = 0 /\ hdr = NoHdr
      /\ (\A r \in Readers : rpc[r] = "idle") /\ \A w \in Writers : wpc[w] = "idle"
  BY DEF Init
<1>3. rx.buf = <<>> /\ rx.n = 0 /\ tx.buf = <<>> /\ tx.done = 0 /\ hdr.buf = <<>>
  BY <1>2 DEF NoRx, NoTx, NoHdr
<1>4. TxPart /\ RxPart
  BY <1>2, <1>3 DEF TxPart, RxPart, RxAt, Copying, Reading
<1>5. smd_stream_read_avail = 0
  BY <1>1, <1>2, Parts DEF Used
<1>6. Taken = <<>> /\ Rest = <<>> /\ Len(Ring) = 0 /\ Ring \in Seq(Cells)
  BY <1>1, <1>3, <1>5, TakenCells, RingCells DEF Rest, WriteBegun
<1>7. CellsUnderway \in Seq(Cells) /\ Len(CellsUnderway) = 0
  <2>1. /\ CellsUnderway \in Seq(Cells) /\ Len(Taken \o Ring) = Len(Taken) + Len(Ring)
        /\ Len(CellsUnderway) = Len(Taken \o Ring) + Len(Rest)
    BY <1>1, Underway
  <2>2. Len(Taken) = 0 /\ Len(Rest) = 0 /\ Len(Ring) = 0
    BY <1>6
  <2> QED
    BY <2>1, <2>2
<1> DEFINE c == CellsUnderway
<1> HIDE DEF c
<1>8. c \in Seq(Cells) /\ Len(c) = 0 /\ Len(Rest) = 0
  BY <1>6, <1>7 DEF c
<1>9. StreamInv
  <2>1. Frames(c, {1}) /\ Complete(c, {1}) /\ OneLeft(c, {1}, Len(Rest))
    BY <1>8 DEF Frames, Complete, OneLeft
  <2>2. Framed({1})
    BY <1>2, <2>1 DEF Framed, c
  <2> QED
    BY <2>2 DEF StreamInv
<1>10. Queue = <<>>
  <2>1. CutPackets(0, c) = PacketsFrom(c)[1]
    BY <1>8, CutType
  <2>2. 1 \in 1 .. Len(c) + 1 /\ ~IsWhole(c, 1)
    BY <1>8 DEF IsWhole
  <2>3. PacketsFrom(c)[1] = <<>>
    BY <1>8, <2>2, PacketsFromAt
  <2> QED
    BY <1>2, <2>1, <2>3 DEF Queue, c
<1>11. ~Closed
  BY DEF Init, Closed, Ends
<1> QED
  BY <1>1, <1>4, <1>9, <1>10, <1>11 DEF QInv

\* With one reading thread the device is the queue of packets its users see: for
\* every size of ring and header, every set of lengths and any number of writers,
\* no step of the threads, the handlers, the releases and the power collapses does
\* anything to the packets that PacketQueue does not allow.
THEOREM SmdIsPacketQueue ==
  ASSUME OneReader
  PROVE  Spec => IsPacketQueue
<1>1. Init => PQ!Init
  <2> SUFFICES ASSUME Init PROVE PQ!Init
    OBVIOUS
  <2>1. Queue = <<>> /\ ~Closed /\ got = <<>> /\ sent = 0
    BY InitQInv DEF Init
  <2> QED
    BY <2>1 DEF PQ!Init, Queue, Closed
<1>2. QueueStep => [PQ!Next]_(PQ!vars)
  <2> SUFFICES ASSUME QueueStep PROVE [PQ!Next]_(PQ!vars)
    OBVIOUS
  <2>1. CASE UNCHANGED <<Queue, got, sent>> /\ state' = state
    BY <2>1 DEF PQ!vars, Queue
  <2>2. CASE UNCHANGED <<Queue, got, sent>> /\ Closed'
    <3>1. PQ!Close
      BY <2>2 DEF PQ!Close, Queue, Closed
    <3> QED
      BY <3>1 DEF PQ!Next
  <2>3. CASE /\ UNCHANGED <<got, state>> /\ sent' = sent + 1
             /\ \E len \in Lens : Queue' = Append(Queue, Packet(sent + 1, len))
    <3>1. PICK len \in Lens : Queue' = Append(Queue, Packet(sent + 1, len))
      BY <2>3
    <3>2. PQ!Accept(len)
      BY <2>3, <3>1 DEF PQ!Accept, Queue
    <3> QED
      BY <3>2 DEF PQ!Next
  <2>4. CASE UNCHANGED <<got, sent, state>> /\ Closed /\ LastLost(Queue', Queue)
    <3>1. PQ!GiveUp
      BY <2>4 DEF PQ!GiveUp, Queue, Closed, LastLost
    <3> QED
      BY <3>1 DEF PQ!Next
  <2>5. CASE /\ UNCHANGED <<sent, state>>
             /\ Queue # <<>> /\ Queue' = Tail(Queue)
             /\ \/ got' = got /\ \E size \in BufLens : size < Len(Head(Queue))
                \/ got' = Append(got, Head(Queue))
    <3>1. CASE got' = got /\ \E size \in BufLens : size < Len(Head(Queue))
      <4>1. PQ!Discard
        BY <2>5, <3>1 DEF PQ!Discard, Queue
      <4> QED
        BY <4>1 DEF PQ!Next
    <3>2. CASE got' = Append(got, Head(Queue))
      <4>1. PQ!Deliver
        BY <2>5, <3>2 DEF PQ!Deliver, Queue
      <4> QED
        BY <4>1 DEF PQ!Next
    <3> QED
      BY <2>5, <3>1, <3>2
  <2> QED
    BY <2>1, <2>2, <2>3, <2>4, <2>5 DEF QueueStep
<1>3. Init => QInv
  BY InitQInv
<1>4. QInv /\ [Next]_vars => QInv' /\ QueueStep
  BY NextQInv
<1> QED
  BY <1>1, <1>2, <1>3, <1>4, PTL DEF Spec, IsPacketQueue, PQ!Spec

\* With one reading thread a reader that starts on a packet finds all of it, as
\* smd_pkt_read says; with two it need not.
THEOREM WholePacketFound ==
  ASSUME OneReader
  PROVE  Spec => []WholePacketWaiting
<1>1. QInv => WholePacketWaiting
  <2> SUFFICES ASSUME QInv, NEW r \in Readers, rpc[r] = "seg", rx.buf = <<>>
               PROVE  smd_stream_read_avail >= rx.want
    BY DEF WholePacketWaiting
  <2>1. rx.n = 0 /\ (Len(rx.buf) - rx.n) + smd_stream_read_avail >= rx.want
    BY DEF QInv, RxPart, RxAt, Reading
  <2>2. Len(rx.buf) = 0 /\ smd_stream_read_avail \in 0 .. FifoSize - 1 /\ rx.want \in Nat
    <3>1. TypeOK
      BY DEF QInv, IInv
    <3> QED
      BY <3>1, Parts
  <2> QED
    BY <2>1, <2>2
<1>2. Init => QInv
  BY InitQInv
<1>3. QInv /\ [Next]_vars => QInv'
  BY NextQInv
<1> QED
  BY <1>1, <1>2, <1>3, PTL DEF Spec
=============================================================================
