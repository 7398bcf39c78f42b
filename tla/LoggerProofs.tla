---------------------------- MODULE LoggerProofs ----------------------------
(***************************************************************************)
(* The log stays a chain of whole entries, for any number of writers and   *)
(* readers and any size, as long as no write fails beside another writer.  *)
(***************************************************************************)
EXTENDS Logger, Recursion, SequenceTheorems

-----------------------------------------------------------------------------
(* Offsets.                                                                *)

\* The constants and the offsets.
LEMMA Sizes ==
  /\ Size \in Nat /\ Size >= 6 /\ HeaderLen = 2 /\ Byte \in Nat \ {0, 1} /\ MaxPayload \in Nat \ {0}
  /\ MaxPayload < Byte * Byte /\ Size >= 2 * (2 + MaxPayload)
  /\ Offsets = 0 .. Size - 1
BY LoggerAssumption DEF HeaderLen, Offsets

\* logger_offset brings a number that is at most one round off into the buffer.
LEMMA OffsetIs ==
  ASSUME NEW n \in Int
  PROVE  /\ logger_offset(n) \in Offsets /\ logger_offset(n) \in Int
         /\ 0 <= logger_offset(n) /\ logger_offset(n) < Size
         /\ n \in 0 .. Size - 1 => logger_offset(n) = n
         /\ n \in Size .. 2 * Size - 1 => logger_offset(n) = n - Size
         /\ n \in -Size .. -1 => logger_offset(n) = n + Size
<1>1. Size \in Nat \ {0} /\ logger_offset(n) = n % Size
  BY Sizes DEF logger_offset
<1> DEFINE q == n \div Size
           r == n % Size
<1>2. q \in Int /\ r \in 0 .. Size - 1 /\ n = Size * q + r
  BY <1>1
<1> HIDE DEF q, r
<1>3. ASSUME n \in 0 .. Size - 1 PROVE r = n
  <2>1. q = 0
    BY <1>1, <1>2, <1>3
  <2> QED
    BY <1>1, <1>2, <2>1
<1>4. ASSUME n \in Size .. 2 * Size - 1 PROVE r = n - Size
  <2>1. q = 1
    BY <1>1, <1>2, <1>4
  <2> QED
    BY <1>1, <1>2, <2>1
<1>5. ASSUME n \in -Size .. -1 PROVE r = n + Size
  <2>1. q = -1
    BY <1>1, <1>2, <1>5
  <2> QED
    BY <1>1, <1>2, <2>1
<1> QED
  BY <1>1, <1>2, <1>3, <1>4, <1>5 DEF r, Offsets

\* The number of cells from s up to e, all of them if s is e.
Back(s, e) == IF s < e THEN e - s ELSE e - s + Size

\* Going forward from s by less than that.
LEMMA Forward ==
  ASSUME NEW s \in Offsets, NEW e \in Offsets, NEW l \in 0 .. Back(s, e)
  PROVE  /\ Back(s, e) \in 1 .. Size
         /\ logger_offset(s + l) \in Offsets
         /\ l < Back(s, e) => Back(logger_offset(s + l), e) = Back(s, e) - l
         /\ l = Back(s, e) => logger_offset(s + l) = e
<1>1. s \in 0 .. Size - 1 /\ e \in 0 .. Size - 1 /\ Size \in Nat /\ Size >= 6
  BY Sizes
<1>2. Back(s, e) \in 1 .. Size
  BY <1>1 DEF Back
<1>3. s + l \in 0 .. 2 * Size - 1
  BY <1>1, <1>2
<1>4. logger_offset(s + l) = IF s + l < Size THEN s + l ELSE s + l - Size
  BY <1>1, <1>3, OffsetIs
<1>5. logger_offset(s + l) \in Offsets
  BY <1>3, OffsetIs
<1>6. ASSUME l < Back(s, e) PROVE Back(logger_offset(s + l), e) = Back(s, e) - l
  BY <1>1, <1>2, <1>4, <1>6 DEF Back
<1>7. ASSUME l = Back(s, e) PROVE logger_offset(s + l) = e
  BY <1>1, <1>2, <1>4, <1>7 DEF Back
<1> QED
  BY <1>2, <1>5, <1>6, <1>7

\* The end moves forward over cells that do not reach s.
LEMMA EndMoves ==
  ASSUME NEW s \in Offsets, NEW e \in Offsets, NEW u \in 0 .. Size, Back(s, e) <= Size - u
  PROVE  /\ logger_offset(e + u) \in Offsets
         /\ Back(s, logger_offset(e + u)) = Back(s, e) + u
<1>1. s \in 0 .. Size - 1 /\ e \in 0 .. Size - 1 /\ Size \in Nat /\ Size >= 6
  BY Sizes
<1>2. e + u \in 0 .. 2 * Size - 1
  BY <1>1
<1>3. logger_offset(e + u) = IF e + u < Size THEN e + u ELSE e + u - Size
  BY <1>1, <1>2, OffsetIs
<1> QED
  BY <1>1, <1>2, <1>3, OffsetIs DEF Back

\* How far behind the end the cells of an entry at s are.
LEMMA CellsOf ==
  ASSUME NEW s \in Offsets, NEW e \in Offsets, NEW u \in 0 .. Size, NEW i \in 0 .. Size - 1,
         Back(s, e) <= Size - u, i < Back(s, e)
  PROVE  /\ logger_offset(s + i - logger_offset(e + u)) = Size - Back(s, e) - u + i
         /\ logger_offset(logger_offset(s + i) - logger_offset(e + u)) = Size - Back(s, e) - u + i
<1>1. s \in 0 .. Size - 1 /\ e \in 0 .. Size - 1 /\ Size \in Nat /\ Size >= 6
  BY Sizes
<1>2. e + u \in 0 .. 2 * Size - 1 /\ s + i \in 0 .. 2 * Size - 1
  BY <1>1
<1> DEFINE w == logger_offset(e + u)
           x == logger_offset(s + i)
<1>3. w = IF e + u < Size THEN e + u ELSE e + u - Size
  BY <1>1, <1>2, OffsetIs
<1>4. x = IF s + i < Size THEN s + i ELSE s + i - Size
  BY <1>1, <1>2, OffsetIs
<1>5. w \in 0 .. Size - 1 /\ x \in 0 .. Size - 1
  BY <1>1, <1>2, OffsetIs
<1> HIDE DEF w, x
<1>6. s + i - w \in -Size .. 2 * Size - 1 /\ x - w \in -Size .. Size - 1
  BY <1>1, <1>5
<1> DEFINE y == s + i - w
<1>7. logger_offset(y) = IF y < 0 THEN y + Size ELSE IF y < Size THEN y ELSE y - Size
  <2> HIDE DEF y
  <2>1. y \in -Size .. 2 * Size - 1
    BY <1>6 DEF y
  <2>2. /\ y < 0 => y \in -Size .. -1
        /\ ~(y < 0) /\ y < Size => y \in 0 .. Size - 1
        /\ ~(y < Size) => y \in Size .. 2 * Size - 1
    BY <1>1, <2>1
  <2>3. y \in Int
    BY <1>1, <2>1
  <2> QED
    BY <1>1, <2>2, <2>3, OffsetIs
<1>8. logger_offset(x - w) = IF x - w < 0 THEN x - w + Size ELSE x - w
  BY <1>1, <1>6, OffsetIs
<1>9. logger_offset(s + i - w) = Size - Back(s, e) - u + i
  BY <1>1, <1>3, <1>5, <1>6, <1>7 DEF Back
<1>10. logger_offset(x - w) = Size - Back(s, e) - u + i
  BY <1>1, <1>3, <1>4, <1>5, <1>6, <1>8 DEF Back
<1> QED
  BY <1>9, <1>10 DEF w, x

-----------------------------------------------------------------------------
(* The ring of entries that ends at e, of which u cells are in use by an   *)
(* entry that is being written.                                            *)

\* get_entry_len in a buffer b.
EntryLen(b, s) == HeaderLen + b[s] + Byte * b[logger_offset(s + 1)]

\* Every entry lies before e and is followed by another one or ends at e.
EntryOK(b, S, e, u, s) ==
  /\ s \in Offsets
  /\ EntryLen(b, s) \in 3 .. 2 + MaxPayload
  /\ EntryLen(b, s) <= Back(s, e) /\ Back(s, e) <= Size - u
  /\ EntryLen(b, s) = Back(s, e) \/ logger_offset(s + EntryLen(b, s)) \in S

Ring(b, S, e, u) == \A s \in S : EntryOK(b, S, e, u, s)

\* Only the n cells from w on are different in c.
Untouched(b, c, w, n) == \A x \in Offsets : logger_offset(x - w) >= n => c[x] = b[x]

\* The entries of S that n cells from w on do not reach.
WholeOf(b, S, w, n) ==
  {s \in S : \A i \in 0 .. EntryLen(b, s) - 1 : logger_offset(s + i - w) >= n}

\* They are the ones not too far behind.
LEMMA WholeIs ==
  ASSUME NEW b, NEW S, NEW e \in Offsets, NEW u \in 0 .. Size, NEW n \in 0 .. Size, Ring(b, S, e, u)
  PROVE  WholeOf(b, S, logger_offset(e + u), n) = {s \in S : Back(s, e) <= Size - u - n}
<1> DEFINE w == logger_offset(e + u)
<1>1. ASSUME NEW s \in S
      PROVE  (\A i \in 0 .. EntryLen(b, s) - 1 : logger_offset(s + i - w) >= n) <=> Back(s, e) <= Size - u - n
  <2>1. /\ s \in Offsets /\ EntryLen(b, s) \in 3 .. 2 + MaxPayload
        /\ EntryLen(b, s) <= Back(s, e) /\ Back(s, e) <= Size - u
    BY DEF Ring, EntryOK
  <2>2. Size \in Nat /\ Size >= 6 /\ MaxPayload \in Nat
    BY Sizes
  <2>3. Back(s, e) \in 1 .. Size
    BY <2>1, <2>2, Forward
  <2>4. \A i \in 0 .. EntryLen(b, s) - 1 : logger_offset(s + i - w) = Size - Back(s, e) - u + i
    <3> TAKE i \in 0 .. EntryLen(b, s) - 1
    <3>1. i \in 0 .. Size - 1 /\ i < Back(s, e)
      BY <2>1, <2>2, <2>3
    <3> QED
      BY <2>1, <3>1, CellsOf
  <2> HIDE DEF w
  <2>5. ASSUME \A i \in 0 .. EntryLen(b, s) - 1 : logger_offset(s + i - w) >= n
        PROVE  Back(s, e) <= Size - u - n
    <3>1. 0 \in 0 .. EntryLen(b, s) - 1
      BY <2>1, <2>2
    <3>2. Size - Back(s, e) - u + 0 >= n
      BY <2>4, <2>5, <3>1
    <3> QED
      BY <2>2, <2>3, <3>2
  <2>6. ASSUME Back(s, e) <= Size - u - n, NEW i \in 0 .. EntryLen(b, s) - 1
        PROVE  logger_offset(s + i - w) >= n
    <3>1. logger_offset(s + i - w) = Size - Back(s, e) - u + i
      BY <2>4
    <3> QED
      BY <2>1, <2>2, <2>3, <2>6, <3>1
  <2> QED
    BY <2>5, <2>6
<1> HIDE DEF w
<1> QED
  BY <1>1 DEF WholeOf, w

\* The length of an entry that is not reached stays.
LEMMA LengthKept ==
  ASSUME NEW b, NEW c, NEW s \in Offsets, NEW e \in Offsets, NEW u \in 0 .. Size, NEW n \in 0 .. Size,
         Back(s, e) >= 2, Back(s, e) <= Size - u - n, Untouched(b, c, logger_offset(e + u), n)
  PROVE  EntryLen(c, s) = EntryLen(b, s)
<1> DEFINE w == logger_offset(e + u)
           x == logger_offset(s + 1)
<1>1. Size \in Nat /\ Size >= 6
  BY Sizes
<1>2. s \in Int /\ x \in Offsets
  BY <1>1, OffsetIs DEF Offsets
<1>3. Back(s, e) \in 1 .. Size
  BY <1>1, Forward DEF Back, Offsets
<1>4. 0 \in 0 .. Size - 1 /\ 1 \in 0 .. Size - 1 /\ 0 < Back(s, e) /\ 1 < Back(s, e) /\ Back(s, e) <= Size - u
  BY <1>1, <1>3
<1>5. logger_offset(s + 0 - w) = Size - Back(s, e) - u + 0 /\ logger_offset(x - w) = Size - Back(s, e) - u + 1
  BY <1>4, CellsOf
<1>6. s + 0 - w = s - w
  BY <1>1, <1>2, OffsetIs DEF Offsets
<1> HIDE DEF w, x
<1>7. logger_offset(s - w) >= n /\ logger_offset(x - w) >= n
  BY <1>1, <1>3, <1>5, <1>6
<1>8. c[s] = b[s] /\ c[x] = b[x]
  BY <1>2, <1>7 DEF Untouched, w
<1> QED
  BY <1>8 DEF EntryLen, x

\* n more cells of the entry that is being written.
LEMMA RingStore ==
  ASSUME NEW b, NEW c, NEW S, NEW e \in Offsets, NEW u \in 0 .. Size, NEW n \in 0 .. Size, u + n <= Size,
         Ring(b, S, e, u), Untouched(b, c, logger_offset(e + u), n), NEW T,
         T = {s \in S : Back(s, e) <= Size - u - n}
  PROVE  Ring(c, T, e, u + n) /\ \A s \in T : EntryLen(c, s) = EntryLen(b, s)
<1>1. Size \in Nat /\ Size >= 6 /\ MaxPayload \in Nat
  BY Sizes
<1>2. ASSUME NEW s \in T
      PROVE  /\ EntryLen(c, s) = EntryLen(b, s)
             /\ EntryOK(c, T, e, u + n, s)
  <2> DEFINE l == EntryLen(b, s)
             d == Back(s, e)
             x == logger_offset(s + l)
  <2>1. /\ s \in Offsets /\ l \in 3 .. 2 + MaxPayload /\ l <= d /\ d <= Size - u - n
        /\ l = d \/ x \in S
    BY DEF Ring, EntryOK
  <2>2. d \in 1 .. Size /\ l \in 0 .. d
    <3>1. d \in Int
      BY <1>1, <2>1 DEF Back, Offsets
    <3>2. l \in 0 .. d
      BY <1>1, <2>1, <3>1
    <3> QED
      BY <2>1, <3>2, Forward
  <2>3. EntryLen(c, s) = l
    <3>1. d >= 2
      BY <1>1, <2>1, <2>2
    <3> QED
      BY <2>1, <3>1, LengthKept
  <2>4. ASSUME l # d PROVE x \in T
    <3>1. l < d
      BY <1>1, <2>1, <2>2, <2>4
    <3>2. Back(x, e) = d - l
      BY <2>1, <2>2, <3>1, Forward
    <3>3. Back(x, e) <= Size - u - n
      BY <1>1, <2>1, <2>2, <3>2
    <3> QED
      BY <2>1, <2>4, <3>3
  <2>5. Size - u - n = Size - (u + n)
    BY <1>1
  <2> HIDE DEF l, d, x
  <2>6. EntryLen(c, s) = EntryLen(b, s)
    BY <2>3 DEF l
  <2>7. l = d \/ x \in T
    BY <2>4
  <2> QED
    BY <2>1, <2>5, <2>6, <2>7 DEF EntryOK, l, d, x
<1> QED
  BY <1>2 DEF Ring

\* The entry is complete, and the ring ends behind it.
LEMMA RingClose ==
  ASSUME NEW b, NEW S, NEW e \in Offsets, NEW u \in 3 .. 2 + MaxPayload, Ring(b, S, e, u), EntryLen(b, e) = u
  PROVE  Ring(b, S \cup {e}, logger_offset(e + u), 0)
<1> DEFINE f == logger_offset(e + u)
           T == S \cup {e}
<1>1. Size \in Nat /\ Size >= 6 /\ MaxPayload \in Nat /\ Size >= 2 * (2 + MaxPayload)
  BY Sizes
<1>2. u \in 0 .. Size /\ u < Size /\ u > 0
  BY <1>1
<1>3. EntryOK(b, T, f, 0, e)
  <2>1. e \in 0 .. Size - 1 /\ e + u \in 0 .. 2 * Size - 1
    BY <1>1, <1>2 DEF Offsets
  <2>2. f = IF e + u < Size THEN e + u ELSE e + u - Size
    BY <1>1, <2>1, OffsetIs
  <2>3. Back(e, f) = u
    BY <1>1, <1>2, <2>1, <2>2 DEF Back
  <2> QED
    BY <1>1, <1>2, <2>3 DEF EntryOK
<1>4. ASSUME NEW s \in S PROVE EntryOK(b, T, f, 0, s)
  <2> DEFINE l == EntryLen(b, s)
             d == Back(s, e)
             x == logger_offset(s + l)
  <2>1. s \in Offsets /\ l \in 3 .. 2 + MaxPayload /\ l <= d /\ d <= Size - u /\ (l = d \/ x \in S)
    BY DEF Ring, EntryOK
  <2>2. d \in 1 .. Size /\ l \in 0 .. d
    <3>1. d \in Int
      BY <1>1, <2>1 DEF Back, Offsets
    <3>2. l \in 0 .. d
      BY <1>1, <2>1, <3>1
    <3> QED
      BY <2>1, <3>2, Forward
  <2>3. Back(s, f) = d + u
    BY <1>2, <2>1, EndMoves
  <2>4. x \in T
    BY <2>1, <2>2, Forward
  <2>5. l <= Back(s, f) /\ Back(s, f) <= Size - 0
    BY <1>1, <1>2, <2>1, <2>2, <2>3
  <2> QED
    BY <2>1, <2>4, <2>5 DEF EntryOK
<1> QED
  BY <1>3, <1>4 DEF Ring

\* The entry that was being written is given up.
LEMMA RingGivesUp ==
  ASSUME NEW b, NEW S, NEW e \in Offsets, NEW u \in 0 .. Size, Ring(b, S, e, u)
  PROVE  Ring(b, S, e, 0)
<1>1. Size \in Nat /\ Size >= 6
  BY Sizes
<1>2. ASSUME NEW s \in S PROVE Back(s, e) <= Size - 0
  <2>1. s \in Offsets
    BY DEF Ring, EntryOK
  <2> QED
    BY <1>1, <2>1 DEF Back, Offsets
<1> QED
  BY <1>2 DEF Ring, EntryOK

-----------------------------------------------------------------------------
(* The invariant.                                                          *)

\* A writer is in a critical section.
Locked == {"fix_up", "payload", "flush"}

\* Who has the mutex, and where the walk of the list of readers is.
Control ==
  /\ \A w \in Writers : mutex = w <=> wpc[w] \in Locked
  /\ cursor # Nil => \E w \in Writers : mutex = w /\ wpc[w] # "payload"
  /\ freed => cursor # Nil
  /\ cursor # Nil /\ ~freed => cursor \in Opened
  /\ \A w \in Writers : wpc[w] \in {"write", "fix_up", "payload"} =>
       local[w].len > 0 /\ local[w].ret < local[w].len
  /\ \A w \in Writers : wpc[w] \in {"write", "fix_up"} => local[w].ret = 0

\* A reader is on the list, once, as long as it is open.
Listed ==
  /\ \A i, j \in DOMAIN readers : readers[i] = readers[j] => i = j
  /\ \A r \in Readers : r \in Opened <=> rpc[r] # "closed"

\* A place is at the end of the log, or at an entry that m more cells do not
\* reach, and not just behind them.
Clear(p, S, e, m) == p = e \/ (p \in S /\ Back(p, e) < Size - m)

\* Length of the entry w writes.
Total(w) == HeaderLen + local[w].len

\* An entry of which some cells are written begins at e.
Half(w, e) ==
  /\ w_off = logger_offset(e + (HeaderLen + local[w].ret))
  /\ Ring(buffer, starts, e, HeaderLen + local[w].ret)
  /\ EntryLen(buffer, e) = Total(w)
  /\ \A p \in Positions : Clear(p, starts, e, Total(w))
  /\ w \in FaultyWriters => local[w].orig = e

\* The log between two writes.
Whole0 == Ring(buffer, starts, w_off, 0) /\ \A p \in Positions : p \in starts \cup {w_off}

\* The places fix_up_readers has been at.
FixedUp(w) ==
  /\ Clear(head, starts, w_off, Total(w))
  /\ \A i \in DOMAIN readers : cursor = Nil => Clear(r_off[readers[i]], starts, w_off, Total(w))
  /\ \A i, j \in DOMAIN readers : readers[j] = cursor /\ i < j =>
       Clear(r_off[readers[i]], starts, w_off, Total(w))

LogInv ==
  /\ ~Writing => Whole0
  /\ \A w \in Writers : wpc[w] = "payload" => \E e \in Offsets : Half(w, e)
  /\ \A w \in Writers : wpc[w] = "fix_up" => FixedUp(w)
  /\ \A w \in FaultyWriters : wpc[w] \in {"write", "fix_up"} => local[w].orig = w_off

\* No write fails beside another writer.
NoRollback == \A w \in FaultyWriters : Writers = {w}

-----------------------------------------------------------------------------
(* get_next_entry.                                                         *)

\* The length of whatever is taken for an entry.
LEMMA LenNat ==
  ASSUME NEW b \in [Offsets -> 0 .. Byte - 1], NEW p \in Offsets
  PROVE  EntryLen(b, p) \in Nat /\ EntryLen(b, p) >= 2
<1>1. Byte \in Nat /\ HeaderLen = 2 /\ p + 1 \in Int
  BY Sizes
<1>2. b[p] \in Nat /\ b[logger_offset(p + 1)] \in Nat
  BY <1>1, OffsetIs
<1>3. Byte * b[logger_offset(p + 1)] \in Nat
  BY <1>1, <1>2
<1> QED
  BY <1>1, <1>2, <1>3 DEF EntryLen

\* Round k of the loop, after which place and count are as in p.
Turn(k, p, len) ==
  IF k > 1 /\ p[2] >= len THEN p
  ELSE <<logger_offset(p[1] + get_entry_len(p[1])), p[2] + get_entry_len(p[1])>>

\* The rounds of the loop.
IsLoop(f, off, len) ==
  /\ f \in [0 .. len -> Offsets \X Nat]
  /\ f[0] = <<off, 0>>
  /\ \A k \in 1 .. len : f[k] = Turn(k, f[k - 1], len)

LEMMA TurnType ==
  ASSUME buffer \in [Offsets -> 0 .. Byte - 1], NEW k, NEW p \in Offsets \X Nat, NEW len
  PROVE  Turn(k, p, len) \in Offsets \X Nat
<1>1. p[1] \in Offsets /\ p[2] \in Nat
  OBVIOUS
<1>2. get_entry_len(p[1]) \in Nat
  BY <1>1, LenNat DEF EntryLen, get_entry_len
<1>3. p[1] + get_entry_len(p[1]) \in Int /\ p[2] + get_entry_len(p[1]) \in Nat
  BY <1>1, <1>2, Sizes, SMTT(30)
<1>4. logger_offset(p[1] + get_entry_len(p[1])) \in Offsets
  BY <1>3, OffsetIs
<1> QED
  BY <1>3, <1>4 DEF Turn

\* get_next_entry is where its loop ends.
LEMMA LoopIs ==
  ASSUME buffer \in [Offsets -> 0 .. Byte - 1], NEW off \in Offsets, NEW len \in Nat
  PROVE  \E f : IsLoop(f, off, len) /\ get_next_entry(off, len) = f[len][1]
<1> DEFINE V == Offsets \X Nat
           step == [x \in (1 .. len) \X V |-> Turn(x[1], x[2], len)]
           Def(f) == f = [k \in 0 .. len |->
                            IF k = 0 THEN <<off, 0>>
                            ELSE IF k > 1 /\ f[k - 1][2] >= len THEN f[k - 1]
                                 ELSE <<logger_offset(f[k - 1][1] + get_entry_len(f[k - 1][1])),
                                        f[k - 1][2] + get_entry_len(f[k - 1][1])>>]
           Def2(f) == f = [k \in 0 .. len |-> IF k = 0 THEN <<off, 0>> ELSE Turn(k, f[k - 1], len)]
           round == CHOOSE f : Def(f)
<1>1. step \in [(1 .. len) \X V -> V]
  BY TurnType
<1>2. \A k \in 1 .. len, p \in V : step[<<k, p>>] = Turn(k, p, len)
  OBVIOUS
<1>3. <<off, 0>> \in V
  OBVIOUS
<1>4. ASSUME NEW f PROVE Def(f) <=> Def2(f)
  BY DEF Turn
<1>5. \E f : Def2(f)
  <2> HIDE DEF step, V
  <2>0. PICK f : IsRecursion(f, len, V, <<off, 0>>, step)
    BY <1>1, <1>3, RecursionExists
  <2>1. /\ f \in [0 .. len -> V] /\ f[0] = <<off, 0>>
        /\ \A k \in 1 .. len : f[k] = step[<<k, f[k - 1]>>]
    BY <2>0 DEF IsRecursion
  <2>2. ASSUME NEW k \in 1 .. len PROVE f[k] = Turn(k, f[k - 1], len)
    <3>1. k - 1 \in 0 .. len
      OBVIOUS
    <3> QED
      BY <1>2, <2>1, <3>1
  <2>3. \A k \in 0 .. len : f[k] = IF k = 0 THEN <<off, 0>> ELSE Turn(k, f[k - 1], len)
    <3> TAKE k \in 0 .. len
    <3>1. k = 0 \/ (k # 0 /\ k \in 1 .. len)
      OBVIOUS
    <3> QED
      BY <2>1, <2>2, <3>1
  <2>4. f = [k \in 0 .. len |-> f[k]]
    BY <2>1
  <2>5. Def2(f)
    BY <2>3, <2>4, Zenon
  <2> QED
    BY <2>5, Zenon
<1>6. Def(round)
  <2> HIDE DEF Def2
  <2>1. PICK f : Def2(f)
    BY <1>5
  <2>2. Def(f)
    BY <1>4, <2>1, Zenon
  <2> QED
    BY <2>2, Zenon
<1>7. get_next_entry(off, len) = round[len][1]
  BY DEF get_next_entry
<1>8. Def2(round)
  BY <1>4, <1>6, Zenon
<1> HIDE DEF round
<1>9. /\ round[0] = <<off, 0>>
      /\ \A k \in 1 .. len : round[k] = Turn(k, round[k - 1], len)
      /\ round = [k \in 0 .. len |-> round[k]]
  <2>1. 0 \in 0 .. len /\ \A k \in 1 .. len : k \in 0 .. len /\ k # 0
    OBVIOUS
  <2>2. round[0] = <<off, 0>> /\ \A k \in 1 .. len : round[k] = Turn(k, round[k - 1], len)
    BY <1>8, <2>1, Zenon
  <2> QED
    BY <1>8, <2>2
<1>10. \A k \in 0 .. len : round[k] \in V
  <2> DEFINE P == {k \in 0 .. len : round[k] \in V}
  <2>1. 0 \in P
    BY <1>3, <1>9
  <2>2. ASSUME NEW k \in 0 .. len - 1, k \in P PROVE k + 1 \in P
    <3>1. k + 1 \in 1 .. len /\ k + 1 \in 0 .. len /\ (k + 1) - 1 = k
      OBVIOUS
    <3>2. round[k + 1] = Turn(k + 1, round[k], len)
      BY <1>9, <3>1
    <3>3. round[k + 1] \in V
      BY <2>2, <3>2, TurnType
    <3> QED
      BY <3>1, <3>3
  <2> HIDE DEF P
  <2>3. 0 .. len \subseteq P
    BY <2>1, <2>2, Induction
  <2> QED
    BY <2>3 DEF P
<1>11. round \in [0 .. len -> V]
  BY <1>9, <1>10
<1> QED
  BY <1>7, <1>9, <1>11 DEF IsLoop

\* get_next_entry stays inside the buffer.
LEMMA NextEntryType ==
  ASSUME buffer \in [Offsets -> 0 .. Byte - 1], NEW off \in Offsets, NEW len \in Nat
  PROVE  get_next_entry(off, len) \in Offsets
<1>1. PICK f : IsLoop(f, off, len) /\ get_next_entry(off, len) = f[len][1]
  BY LoopIs
<1>2. f[len] \in Offsets \X Nat
  BY <1>1 DEF IsLoop
<1> QED
  BY <1>1, <1>2

\* From an entry that m cells would reach, it leads to one that they do not
\* reach, or to the end; it does not run past the end.
LEMMA NextEntryClear ==
  ASSUME buffer \in [Offsets -> 0 .. Byte - 1], w_off \in Offsets, Ring(buffer, starts, w_off, 0),
         NEW off \in starts, NEW m \in 3 .. 2 + MaxPayload,
         Back(off, w_off) >= Size - m, Back(off, w_off) # Size
  PROVE  Clear(get_next_entry(off, m), starts, w_off, m)
<1> DEFINE D == Back(off, w_off)
<1>1. Size \in Nat /\ Size >= 6 /\ MaxPayload \in Nat /\ Size >= 2 * (2 + MaxPayload)
  BY Sizes
<1>2. off \in Offsets
  BY DEF Ring, EntryOK
<1>3. D \in m .. Size - 1
  BY <1>1, <1>2 DEF Back, Offsets
<1>4. PICK f : IsLoop(f, off, m) /\ get_next_entry(off, m) = f[m][1]
  BY <1>2, LoopIs
<1>5. /\ f \in [0 .. m -> Offsets \X Nat] /\ f[0] = <<off, 0>>
      /\ \A k \in 1 .. m : f[k] = Turn(k, f[k - 1], m)
  BY <1>4 DEF IsLoop
<1> DEFINE Good(p, c) == \/ c = D /\ p = w_off
                         \/ c < D /\ p \in starts /\ Back(p, w_off) = D - c
           At(k) == Good(f[k][1], f[k][2]) /\ (f[k][2] >= m \/ f[k][2] >= k)
           P == {k \in 0 .. m : At(k)}
<1> HIDE DEF D
<1>6. 0 \in P
  <2>1. f[0][1] = off /\ f[0][2] = 0 /\ 0 \in 0 .. m
    BY <1>5
  <2>2. Good(off, 0)
    BY <1>3 DEF D
  <2> QED
    BY <2>1, <2>2
<1>7. ASSUME NEW k \in 0 .. m - 1, k \in P PROVE k + 1 \in P
  <2> DEFINE p == f[k][1]
             c == f[k][2]
             l == get_entry_len(p)
             q == logger_offset(p + l)
  <2>1. k + 1 \in 1 .. m /\ k \in 0 .. m /\ (k + 1) - 1 = k /\ k + 1 \in 0 .. m
    OBVIOUS
  <2>2. f[k + 1] = Turn(k + 1, f[k], m) /\ f[k] \in Offsets \X Nat
    BY <1>5, <2>1
  <2>3. Good(p, c) /\ (c >= m \/ c >= k) /\ c \in Nat /\ p \in Offsets
    BY <1>7, <2>2
  <2>4. k = 0 => c = 0
    BY <1>5
  <2>5. CASE k + 1 > 1 /\ c >= m
    <3>1. f[k + 1] = f[k]
      BY <2>2, <2>5 DEF Turn
    <3> QED
      BY <2>1, <2>3, <2>5, <3>1
  <2>6. CASE ~(k + 1 > 1 /\ c >= m)
    <3>1. c < m
      BY <2>3, <2>4, <2>6
    <3>2. c < D /\ p \in starts /\ Back(p, w_off) = D - c
      BY <1>3, <2>3, <3>1
    <3>3. l = EntryLen(buffer, p)
      BY DEF get_entry_len, EntryLen
    <3>4. l \in 3 .. 2 + MaxPayload /\ l <= D - c /\ (l = D - c \/ q \in starts)
      BY <3>2, <3>3 DEF Ring, EntryOK
    <3>5. f[k + 1] = <<q, c + l>>
      BY <2>2, <2>6 DEF Turn
    <3> HIDE DEF l, p, c
    <3>6. l \in 0 .. D - c
      BY <1>1, <1>3, <2>3, <3>4
    <3>7. /\ l < D - c => Back(q, w_off) = D - c - l
          /\ l = D - c => q = w_off
      BY <2>3, <3>2, <3>6, Forward
    <3>8. Good(q, c + l)
      <4>1. CASE l = D - c
        BY <1>3, <2>3, <3>7, <4>1
      <4>2. CASE l # D - c
        <5>1. l < D - c /\ c + l < D /\ D - c - l = D - (c + l)
          BY <1>1, <1>3, <2>3, <3>4, <4>2
        <5> QED
          BY <3>4, <3>7, <4>2, <5>1
      <4> QED
        BY <4>1, <4>2
    <3>9. c + l >= m \/ c + l >= k + 1
      BY <1>1, <2>3, <3>4
    <3> HIDE DEF q, Good
    <3> QED
      BY <2>1, <3>5, <3>8, <3>9
  <2> QED
    BY <2>5, <2>6
<1> HIDE DEF P
<1>8. 0 .. m \subseteq P
  BY <1>6, <1>7, Induction
<1>9. At(m) /\ f[m] \in Offsets \X Nat
  <2>1. m \in 0 .. m
    OBVIOUS
  <2> QED
    BY <1>5, <1>8, <2>1 DEF P
<1> QED
  BY <1>1, <1>3, <1>4, <1>9 DEF Clear

\* clock_interval tells whether the m cells from e on, and the one behind them,
\* reach p.
LEMMA Interval ==
  ASSUME NEW e \in Offsets, NEW p \in Offsets, NEW m \in 3 .. 2 + MaxPayload
  PROVE  clock_interval(e, logger_offset(e + m), p) <=> Back(p, e) >= Size - m /\ Back(p, e) # Size
<1>1. Size \in Nat /\ Size >= 6 /\ MaxPayload \in Nat /\ Size >= 2 * (2 + MaxPayload)
  BY Sizes
<1>2. e \in 0 .. Size - 1 /\ p \in 0 .. Size - 1 /\ e + m \in 0 .. 2 * Size - 1
  BY <1>1 DEF Offsets
<1>3. logger_offset(e + m) = IF e + m < Size THEN e + m ELSE e + m - Size
  BY <1>1, <1>2, OffsetIs
<1> QED
  BY <1>1, <1>2, <1>3 DEF clock_interval, Back

\* fix_up_readers stays inside the buffer ...
LEMMA FixUpType ==
  ASSUME buffer \in [Offsets -> 0 .. Byte - 1], NEW off \in Offsets, NEW len \in Nat
  PROVE  FixUp(off, len) \in Offsets
BY NextEntryType DEF FixUp

\* ... and leaves nobody where the new entry is going to be.
LEMMA FixUpClear ==
  ASSUME buffer \in [Offsets -> 0 .. Byte - 1], w_off \in Offsets, Ring(buffer, starts, w_off, 0),
         NEW p \in starts \cup {w_off}, NEW m \in 3 .. 2 + MaxPayload
  PROVE  Clear(FixUp(p, m), starts, w_off, m)
<1>1. p \in Offsets
  BY DEF Ring, EntryOK
<1>2. clock_interval(w_off, logger_offset(w_off + m), p) <=>
        Back(p, w_off) >= Size - m /\ Back(p, w_off) # Size
  BY <1>1, Interval
<1>3. Size \in Nat /\ Size >= 6 /\ MaxPayload \in Nat /\ Size >= 2 * (2 + MaxPayload)
  BY Sizes
<1>4. Back(w_off, w_off) = Size
  BY <1>3 DEF Back, Offsets
<1>5. Back(p, w_off) \in 1 .. Size
  BY <1>1, <1>3 DEF Back, Offsets
<1>6. Back(p, w_off) = Size => p = w_off
  BY <1>1, <1>3 DEF Back, Offsets
<1>7. CASE clock_interval(w_off, logger_offset(w_off + m), p)
  <2>1. p \in starts /\ FixUp(p, m) = get_next_entry(p, m)
    BY <1>2, <1>4, <1>7 DEF FixUp
  <2> QED
    BY <1>2, <1>7, <2>1, NextEntryClear
<1>8. CASE ~clock_interval(w_off, logger_offset(w_off + m), p)
  <2>1. FixUp(p, m) = p
    BY <1>8 DEF FixUp
  <2>2. p = w_off \/ Back(p, w_off) < Size - m
    BY <1>2, <1>3, <1>5, <1>6, <1>8
  <2> QED
    BY <2>1, <2>2 DEF Clear
<1> QED
  BY <1>7, <1>8

-----------------------------------------------------------------------------
(* What is written to the buffer.                                          *)

\* Where a cell is, seen from w.
LEMMA Seen ==
  ASSUME NEW w \in Offsets, NEW k \in 0 .. Size - 1
  PROVE  logger_offset(logger_offset(w + k) - w) = k
<1>1. Size \in Nat /\ Size >= 6 /\ w \in 0 .. Size - 1
  BY Sizes
<1>2. w + k \in 0 .. 2 * Size - 1
  BY <1>1
<1>3. logger_offset(w + k) = IF w + k < Size THEN w + k ELSE w + k - Size
  BY <1>1, <1>2, OffsetIs
<1>4. CASE w + k < Size
  <2>1. logger_offset(w + k) - w = k
    BY <1>1, <1>3, <1>4
  <2> QED
    BY <1>1, <2>1, OffsetIs
<1>5. CASE w + k >= Size
  <2>1. logger_offset(w + k) - w = k - Size /\ k - Size \in -Size .. -1 /\ k - Size \in Int
    BY <1>1, <1>3, <1>5
  <2>2. logger_offset(k - Size) = k - Size + Size
    BY <2>1, OffsetIs
  <2> QED
    BY <1>1, <2>1, <2>2
<1> QED
  BY <1>1, <1>4, <1>5

\* Data goes to the cells from w on, and nowhere else.
LEMMA Stored ==
  ASSUME buffer \in [Offsets -> 0 .. Byte - 1], NEW w \in Offsets,
         NEW n \in 0 .. Size - 1, NEW d \in [1 .. n -> 0 .. Byte - 1]
  PROVE  /\ Store(w, d) \in [Offsets -> 0 .. Byte - 1]
         /\ Untouched(buffer, Store(w, d), w, n)
         /\ \A k \in 0 .. n - 1 : Store(w, d)[logger_offset(w + k)] = d[k + 1]
<1>1. Size \in Nat /\ Size >= 6 /\ w \in 0 .. Size - 1 /\ Byte \in Nat
  BY Sizes
<1>2. Len(d) = n
  OBVIOUS
<1> DEFINE c == Store(w, d)
<1>3. c = [i \in Offsets |-> IF logger_offset(i - w) < n THEN d[logger_offset(i - w) + 1] ELSE buffer[i]]
  BY <1>2 DEF Store
<1> HIDE DEF c
<1>4. ASSUME NEW i \in Offsets PROVE c[i] \in 0 .. Byte - 1
  <2>1. i - w \in Int
    BY <1>1, Sizes
  <2>2. logger_offset(i - w) \in Offsets
    BY <2>1, OffsetIs
  <2>3. logger_offset(i - w) < n => logger_offset(i - w) + 1 \in 1 .. n
    BY <1>1, <2>2, Sizes, SMTT(30)
  <2> QED
    BY <1>3, <2>3
<1>5. c \in [Offsets -> 0 .. Byte - 1]
  BY <1>3, <1>4
<1>6. Untouched(buffer, c, w, n)
  <2> SUFFICES ASSUME NEW x \in Offsets, logger_offset(x - w) >= n PROVE c[x] = buffer[x]
    BY DEF Untouched
  <2>1. logger_offset(x - w) \in Int
    BY <1>1, OffsetIs, Sizes
  <2>2. ~(logger_offset(x - w) < n)
    BY <2>1
  <2> QED
    BY <1>3, <2>2
<1>7. ASSUME NEW k \in 0 .. n - 1 PROVE c[logger_offset(w + k)] = d[k + 1]
  <2>1. k \in 0 .. Size - 1 /\ w + k \in Int
    BY <1>1
  <2>2. logger_offset(w + k) \in Offsets /\ logger_offset(logger_offset(w + k) - w) = k
    BY <2>1, OffsetIs, Seen
  <2> QED
    BY <1>3, <2>2
<1> QED
  BY <1>5, <1>6, <1>7 DEF c

\* Two cells hold the length of an entry.
LEMMA Digits ==
  ASSUME NEW n \in 0 .. MaxPayload
  PROVE  /\ n % Byte \in 0 .. Byte - 1 /\ n \div Byte \in 0 .. Byte - 1
         /\ n = (n % Byte) + Byte * (n \div Byte)
<1>1. Byte \in Nat /\ Byte > 1 /\ MaxPayload \in Nat /\ MaxPayload < Byte * Byte
  BY Sizes
<1> DEFINE q == n \div Byte
           r == n % Byte
<1>2. q \in Int /\ r \in 0 .. Byte - 1 /\ n = Byte * q + r
  BY <1>1
<1> HIDE DEF q, r
<1>3. q >= 0
  <2> SUFFICES ASSUME q <= -1 PROVE FALSE
    BY <1>2
  <2>1. Byte * q <= Byte * (-1)
    BY <1>1, <1>2
  <2> QED
    BY <1>1, <1>2, <2>1
<1>4. q < Byte
  <2> SUFFICES ASSUME q >= Byte PROVE FALSE
    BY <1>1, <1>2
  <2>1. Byte * q >= Byte * Byte
    BY <1>1, <1>2
  <2>2. Byte * q \in Int /\ Byte * Byte \in Int
    BY <1>1, <1>2
  <2> QED
    BY <1>1, <1>2, <2>1, <2>2
<1>5. Byte * q \in Int
  BY <1>1, <1>2
<1> QED
  BY <1>1, <1>2, <1>3, <1>4, <1>5 DEF q, r

\* Whole is what stays whole.
LEMMA WholeSame == \A off, n : Whole(off, n) = WholeOf(buffer, starts, off, n)
BY DEF Whole, WholeOf, EntryLen, get_entry_len

\* The length of the entry that is being written stays once it is there.
LEMMA OwnLengthKept ==
  ASSUME NEW b, NEW c, NEW e \in Offsets, NEW u \in 2 .. Size, NEW n \in 0 .. Size, u + n < Size,
         Untouched(b, c, logger_offset(e + u), n)
  PROVE  EntryLen(c, e) = EntryLen(b, e)
<1> DEFINE w == logger_offset(e + u)
           x == logger_offset(e + 1)
<1>1. Size \in Nat /\ Size >= 6 /\ e \in 0 .. Size - 1
  BY Sizes
<1>2. e + u \in 0 .. 2 * Size - 1 /\ e + 1 \in 0 .. 2 * Size - 1
  BY <1>1
<1>3. w = IF e + u < Size THEN e + u ELSE e + u - Size
  BY <1>1, <1>2, OffsetIs
<1>4. x = IF e + 1 < Size THEN e + 1 ELSE e + 1 - Size
  BY <1>1, <1>2, OffsetIs
<1>5. w \in 0 .. Size - 1 /\ x \in 0 .. Size - 1 /\ x \in Offsets
  BY <1>1, <1>2, OffsetIs
<1> HIDE DEF w, x
<1>6. e - w \in -Size .. Size - 1 /\ x - w \in -Size .. Size - 1
  BY <1>1, <1>5
<1>7. /\ logger_offset(e - w) = IF e - w < 0 THEN e - w + Size ELSE e - w
      /\ logger_offset(x - w) = IF x - w < 0 THEN x - w + Size ELSE x - w
  BY <1>1, <1>6, OffsetIs
<1>8. logger_offset(e - w) >= n
  BY <1>1, <1>3, <1>5, <1>7
<1>9. logger_offset(x - w) >= n
  BY <1>1, <1>3, <1>4, <1>5, <1>7
<1>10. c[e] = b[e] /\ c[x] = b[x]
  BY <1>5, <1>8, <1>9 DEF Untouched, w
<1> QED
  BY <1>10 DEF EntryLen, x

\* Going on by u and then by n.
LEMMA GoOn ==
  ASSUME NEW e \in Offsets, NEW u \in 0 .. Size, NEW n \in 0 .. Size, u + n < Size
  PROVE  /\ logger_offset(logger_offset(e + u) + n) = logger_offset(e + (u + n))
         /\ logger_offset(logger_offset(e + u) + n - (u + n)) = e
<1>1. Size \in Nat /\ Size >= 6 /\ e \in 0 .. Size - 1
  BY Sizes
<1>2. e + u \in 0 .. 2 * Size - 1 /\ e + (u + n) \in 0 .. 2 * Size - 1
  BY <1>1
<1> DEFINE w == logger_offset(e + u)
<1>3. w = (IF e + u < Size THEN e + u ELSE e + u - Size) /\ w \in 0 .. Size - 1
  BY <1>1, <1>2, OffsetIs
<1>4. logger_offset(e + (u + n)) = IF e + (u + n) < Size THEN e + (u + n) ELSE e + (u + n) - Size
  BY <1>1, <1>2, OffsetIs
<1> HIDE DEF w
<1>5. w + n \in 0 .. 2 * Size - 1
  BY <1>1, <1>3
<1>6. logger_offset(w + n) = IF w + n < Size THEN w + n ELSE w + n - Size
  <2> DEFINE z == w + n
  <2>1. z \in Int /\ z \in 0 .. 2 * Size - 1
    BY <1>1, <1>3
  <2> HIDE DEF z
  <2>2. logger_offset(z) = IF z < Size THEN z ELSE z - Size
    BY <1>1, <2>1, OffsetIs
  <2> QED
    BY <1>1, <1>3, <2>2 DEF z
<1> DEFINE y == w + n - (u + n)
<1>7. y = e \/ y = e - Size
  BY <1>1, <1>3
<1>8. logger_offset(y) = e
  <2> HIDE DEF y
  <2>1. CASE y = e
    BY <1>1, <2>1, OffsetIs
  <2>2. CASE y = e - Size
    <3>1. y \in -Size .. -1 /\ y \in Int
      BY <1>1, <2>2
    <3>2. logger_offset(y) = y + Size
      BY <3>1, OffsetIs
    <3> QED
      BY <1>1, <2>2, <3>2
  <2> QED
    BY <1>7, <2>1, <2>2
<1>9. logger_offset(w + n) = logger_offset(e + (u + n))
  BY <1>1, <1>3, <1>4, <1>6
<1> QED
  BY <1>8, <1>9 DEF w

-----------------------------------------------------------------------------
(* Types, the mutex and the list of readers.                               *)

Basic == TypeOK /\ Control /\ Listed

\* Where a reader is on the list.
LEMMA PositionIs ==
  ASSUME Basic, NEW r \in Opened
  PROVE  /\ Position(r) \in DOMAIN readers /\ readers[Position(r)] = r
         /\ \A i \in DOMAIN readers : readers[i] = r => i = Position(r)
<1>1. \E i \in DOMAIN readers : readers[i] = r
  BY DEF Opened
<1>2. Position(r) \in DOMAIN readers /\ readers[Position(r)] = r
  BY <1>1 DEF Position
<1> QED
  BY <1>2 DEF Basic, Listed

\* The next reader is one of the list or Nil.
LEMMA ReaderAtIs ==
  ASSUME Basic, NEW i
  PROVE  /\ ReaderAt(i) \in Opened \cup {Nil}
         /\ ReaderAt(i) \in Readers \cup {Nil}
BY DEF Basic, TypeOK, ReaderAt, Opened

\* list_del takes one reader off the list and keeps the others in their order.
LEMMA Deleted ==
  ASSUME NEW list \in Seq(Readers), NEW n \in DOMAIN list
  PROVE  LET d == list_del(list, n)
         IN  /\ d \in Seq(Readers) /\ DOMAIN d = 1 .. Len(list) - 1
             /\ \A i \in 1 .. Len(list) - 1 : d[i] = IF i < n THEN list[i] ELSE list[i + 1]
<1> DEFINE a == SubSeq(list, 1, n - 1)
           b == SubSeq(list, n + 1, Len(list))
           d == a \o b
<1>0. n \in 1 .. Len(list) /\ DOMAIN list = 1 .. Len(list) /\ Len(list) \in Nat
  OBVIOUS
<1>1. a \in Seq(Readers) /\ Len(a) = n - 1 /\ \A i \in 1 .. n - 1 : a[i] = list[i]
  BY <1>0, SubSeqProperties
<1>2. b \in Seq(Readers) /\ Len(b) = Len(list) - n /\ \A i \in 1 .. Len(list) - n : b[i] = list[n + i]
  <2>1. CASE n < Len(list)
    BY <1>0, <2>1, SubSeqProperties, SMTT(30)
  <2>2. CASE n = Len(list)
    BY <1>0, <2>2, SubSeqEmpty, SubSeqProperties
  <2> QED
    BY <1>0, <2>1, <2>2
<1> HIDE DEF a, b
<1>3. d \in Seq(Readers) /\ Len(d) = Len(list) - 1
      /\ \A i \in 1 .. Len(list) - 1 : d[i] = IF i <= n - 1 THEN a[i] ELSE b[i - (n - 1)]
  <2>1. Len(a) + Len(b) = Len(list) - 1
    BY <1>0, <1>1, <1>2
  <2>2. /\ d \in Seq(Readers) /\ Len(d) = Len(a) + Len(b)
        /\ \A i \in 1 .. Len(a) + Len(b) : d[i] = IF i <= Len(a) THEN a[i] ELSE b[i - Len(a)]
    BY <1>1, <1>2, ConcatProperties
  <2> HIDE DEF d
  <2> QED
    BY <1>1, <2>1, <2>2
<1>4. d = list_del(list, n)
  BY DEF list_del, a, b, d
<1> HIDE DEF d
<1>5. ASSUME NEW i \in 1 .. Len(list) - 1
      PROVE  d[i] = IF i < n THEN list[i] ELSE list[i + 1]
  <2>1. CASE i < n
    BY <1>0, <1>1, <1>3, <2>1
  <2>2. CASE i >= n
    <3>1. i - (n - 1) \in 1 .. Len(list) - n /\ n + (i - (n - 1)) = i + 1
      BY <1>0, <2>2
    <3>2. b[i - (n - 1)] = list[i + 1]
      BY <1>2, <3>1
    <3> QED
      BY <1>0, <1>3, <2>2, <3>2
  <2> QED
    BY <1>0, <2>1, <2>2
<1>6. DOMAIN d = 1 .. Len(list) - 1 /\ d \in Seq(Readers)
  BY <1>3
<1> QED
  BY <1>4, <1>5, <1>6

LEMMA InitBasic == Init => Basic
<1> SUFFICES ASSUME Init PROVE Basic
  OBVIOUS
<1>1. Size \in Nat /\ Size >= 6 /\ Byte \in Nat \ {0, 1} /\ MaxPayload \in Nat \ {0} /\ Offsets = 0 .. Size - 1
  BY Sizes
<1>2. 0 \in Offsets /\ 0 \in 0 .. Byte - 1 /\ 0 \in 0 .. MaxPayload
  BY <1>1
<1>3. buffer \in [Offsets -> 0 .. Byte - 1]
  BY <1>2 DEF Init
<1>4. TypeOK
  <2>1. local \in [Writers -> [orig : Offsets, len : 0 .. MaxPayload, ret : 0 .. MaxPayload]]
    BY <1>2 DEF Init, NoLocals
  <2>2. w_off \in Offsets /\ head \in Offsets /\ starts \subseteq Offsets /\ r_off \in [Readers -> Offsets]
    BY <1>2 DEF Init
  <2>3. readers \in Seq(Readers)
    BY DEF Init
  <2> QED
    BY <1>3, <2>1, <2>2, <2>3 DEF Init, TypeOK
<1>5. Control
  BY LoggerAssumption DEF Init, Control, Locked
<1>6. Opened = {}
  BY DEF Init, Opened
<1>7. Listed
  BY <1>6 DEF Init, Listed
<1> QED
  BY <1>4, <1>5, <1>7 DEF Basic

\* The list stays, and so does who is open.
LEMMA ListStays ==
  ASSUME Basic, readers' = readers, \A r \in Readers : rpc[r] = "closed" <=> rpc'[r] = "closed"
  PROVE  Listed' /\ Opened' = Opened
BY DEF Basic, Listed, Opened

LEMMA StartBasic ==
  ASSUME Basic, NEW w \in Writers, NEW len \in 1 .. MaxPayload, WriteStart(w, len)
  PROVE  Basic'
<1>1. MaxPayload \in Nat
  BY Sizes
<1>2. TypeOK'
  <2>1. [orig |-> w_off, len |-> len, ret |-> 0] \in [orig : Offsets, len : 0 .. MaxPayload, ret : 0 .. MaxPayload]
    BY <1>1 DEF Basic, TypeOK
  <2> QED
    BY <2>1 DEF Basic, TypeOK, WriteStart, log, walk
<1>3. Listed' /\ Opened' = Opened
  BY ListStays DEF WriteStart
<1>4. Control'
  BY <1>1, <1>3 DEF Basic, TypeOK, Control, WriteStart, log, walk, Locked
<1> QED
  BY <1>2, <1>3, <1>4 DEF Basic

LEMMA LockBasic ==
  ASSUME Basic, NEW w \in Writers, WriteLock(w) \/ FlushLock(w)
  PROVE  Basic'
<1>1. MaxPayload \in Nat /\ HeaderLen = 2 /\ Nil \notin Writers
  BY Sizes, LoggerAssumption
<1>2. ReaderAt(1) \in Opened \cup {Nil} /\ ReaderAt(1) \in Readers \cup {Nil}
  BY ReaderAtIs
<1>3. HeaderLen + local[w].len \in Nat
  BY <1>1 DEF Basic, TypeOK
<1>4. FixUp(head, HeaderLen + local[w].len) \in Offsets
  BY <1>3, FixUpType DEF Basic, TypeOK
<1>5. TypeOK'
  BY <1>2, <1>4 DEF Basic, TypeOK, WriteLock, FlushLock, log
<1>6. Listed' /\ Opened' = Opened
  BY ListStays DEF WriteLock, FlushLock
<1>7. ~freed
  BY <1>1 DEF Basic, TypeOK, Control, WriteLock, FlushLock
<1>8. Control'
  BY <1>1, <1>2, <1>6, <1>7, SMTT(30) DEF Basic, TypeOK, Control, WriteLock, FlushLock, log, Locked
<1> QED
  BY <1>5, <1>6, <1>8 DEF Basic

LEMMA WalkBasic ==
  ASSUME Basic, NEW w \in Writers, WalkReader(w)
  PROVE  Basic'
<1>1. MaxPayload \in Nat /\ HeaderLen = 2 /\ Nil \notin Writers
  BY Sizes, LoggerAssumption
<1>2. NextReader(cursor) \in Opened \cup {Nil} /\ NextReader(cursor) \in Readers \cup {Nil}
  BY ReaderAtIs DEF NextReader
<1>3. HeaderLen + local[w].len \in Nat /\ cursor \in Readers
  BY <1>1 DEF Basic, TypeOK, WalkReader
<1>4. FixUp(r_off[cursor], HeaderLen + local[w].len) \in Offsets
  BY <1>3, FixUpType DEF Basic, TypeOK
<1>5. r_off' \in [Readers -> Offsets]
  BY <1>3, <1>4 DEF Basic, TypeOK, WalkReader
<1>6. TypeOK'
  BY <1>2, <1>5 DEF Basic, TypeOK, WalkReader, log
<1>7. Listed' /\ Opened' = Opened
  BY ListStays DEF WalkReader
<1>8. Control'
  BY <1>1, <1>2, <1>7 DEF Basic, TypeOK, Control, WalkReader, log, Locked
<1> QED
  BY <1>6, <1>7, <1>8 DEF Basic

\* What do_write_log and do_write_log_from_user leave in the buffer.
LEMMA HeaderStored ==
  ASSUME Basic, NEW n \in 1 .. MaxPayload
  PROVE  LET c == Store(w_off, <<n % Byte, n \div Byte>>)
         IN  /\ c \in [Offsets -> 0 .. Byte - 1]
             /\ Untouched(buffer, c, w_off, 2)
             /\ EntryLen(c, w_off) = 2 + n
<1> DEFINE d == <<n % Byte, n \div Byte>>
           c == Store(w_off, d)
<1>1. Size \in Nat /\ Size >= 6 /\ Byte \in Nat /\ HeaderLen = 2 /\ MaxPayload \in Nat
  BY Sizes
<1>2. n \in 0 .. MaxPayload /\ n \in Int
  BY <1>1
<1>3. /\ n % Byte \in 0 .. Byte - 1 /\ n \div Byte \in 0 .. Byte - 1
      /\ n = (n % Byte) + Byte * (n \div Byte)
  BY <1>2, Digits
<1>4. d \in [1 .. 2 -> 0 .. Byte - 1] /\ d[1] = n % Byte /\ d[2] = n \div Byte
  BY <1>3
<1> HIDE DEF d
<1>5. 2 \in 0 .. Size - 1 /\ w_off \in Offsets
  BY <1>1 DEF Basic, TypeOK
<1>6. /\ c \in [Offsets -> 0 .. Byte - 1] /\ Untouched(buffer, c, w_off, 2)
      /\ \A k \in 0 .. 1 : c[logger_offset(w_off + k)] = d[k + 1]
  <2>1. 2 - 1 = 1 /\ buffer \in [Offsets -> 0 .. Byte - 1]
    BY DEF Basic, TypeOK
  <2> QED
    BY <1>4, <1>5, <2>1, Stored
<1> HIDE DEF c
<1>7. c[logger_offset(w_off + 0)] = d[1] /\ c[logger_offset(w_off + 1)] = d[2]
  BY <1>6
<1>8. logger_offset(w_off + 0) = w_off
  BY <1>1, <1>5, OffsetIs, Sizes
<1>9. EntryLen(c, w_off) = 2 + (n % Byte) + Byte * (n \div Byte)
  BY <1>1, <1>4, <1>7, <1>8 DEF EntryLen
<1>10. 2 + (n % Byte) + Byte * (n \div Byte) = 2 + n
  <2>1. Byte * (n \div Byte) \in Int /\ n % Byte \in Int
    BY <1>1, <1>3
  <2> QED
    BY <1>2, <1>3, <2>1
<1> QED
  BY <1>6, <1>9, <1>10 DEF c, d

LEMMA PayloadStored ==
  ASSUME Basic, NEW n \in 0 .. MaxPayload
  PROVE  LET c == Store(w_off, Payload(n))
         IN  c \in [Offsets -> 0 .. Byte - 1] /\ Untouched(buffer, c, w_off, n)
<1>1. Size \in Nat /\ Byte \in Nat \ {0, 1} /\ MaxPayload \in Nat /\ Size >= 2 * (2 + MaxPayload)
  BY Sizes
<1>2. n \in 0 .. Size - 1 /\ Byte - 1 \in 0 .. Byte - 1
  BY <1>1
<1>3. Payload(n) \in [1 .. n -> 0 .. Byte - 1]
  BY <1>2 DEF Payload
<1> QED
  BY <1>2, <1>3, Stored DEF Basic, TypeOK

LEMMA WholeStarts == \A off, n : starts \subseteq Offsets => Whole(off, n) \subseteq Offsets
BY DEF Whole

LEMMA HeaderBasic ==
  ASSUME Basic, NEW w \in Writers, WriteHeader(w)
  PROVE  Basic'
<1>1. Size \in Nat /\ MaxPayload \in Nat /\ HeaderLen = 2 /\ Nil \notin Writers
  BY Sizes, LoggerAssumption
<1>2. local[w].len \in 1 .. MaxPayload
  BY <1>1 DEF Basic, TypeOK, Control, WriteHeader
<1>3. buffer' \in [Offsets -> 0 .. Byte - 1]
  BY <1>2, HeaderStored DEF WriteHeader
<1>4. w_off' \in Offsets
  <2>1. w_off + HeaderLen \in Int
    BY <1>1, Sizes DEF Basic, TypeOK
  <2> QED
    BY <2>1, OffsetIs DEF WriteHeader
<1>5. starts' \subseteq Offsets
  BY WholeStarts DEF Basic, TypeOK, WriteHeader
<1>6. TypeOK'
  BY <1>3, <1>4, <1>5 DEF Basic, TypeOK, WriteHeader, walk
<1>7. Listed' /\ Opened' = Opened
  BY ListStays DEF WriteHeader
<1>8. Control'
  BY <1>1, <1>7 DEF Basic, TypeOK, Control, WriteHeader, walk, Locked
<1> QED
  BY <1>6, <1>7, <1>8 DEF Basic

LEMMA SegmentBasic ==
  ASSUME Basic, NEW w \in Writers, NEW n, WriteSegment(w, n)
  PROVE  Basic'
<1>1. Size \in Nat /\ Size >= 6 /\ MaxPayload \in Nat /\ HeaderLen = 2 /\ Nil \notin Writers
  BY Sizes, LoggerAssumption
<1>2. local[w].len \in 0 .. MaxPayload /\ local[w].ret \in 0 .. MaxPayload /\ n \in 1 .. local[w].len - local[w].ret
  BY DEF Basic, TypeOK, WriteSegment
<1>3. n \in 0 .. MaxPayload /\ local[w].ret + n \in 0 .. MaxPayload /\ local[w].ret + n \in Int
  BY <1>1, <1>2
<1>4. buffer' \in [Offsets -> 0 .. Byte - 1]
  BY <1>3, PayloadStored DEF WriteSegment
<1>5. w_off' \in Offsets /\ logger_offset(w_off + n - HeaderLen - (local[w].ret + n)) \in Offsets
  <2>0. w_off \in Int /\ n \in Int /\ HeaderLen \in Int /\ local[w].ret + n \in Int
    BY <1>1, <1>3, Sizes DEF Basic, TypeOK
  <2>1. w_off + n \in Int /\ w_off + n - HeaderLen - (local[w].ret + n) \in Int
    BY <2>0
  <2> QED
    BY <2>1, OffsetIs DEF WriteSegment
<1>6. starts' \subseteq Offsets
  <2>1. Whole(w_off, n) \subseteq Offsets
    BY WholeStarts DEF Basic, TypeOK
  <2>2. \/ starts' = Whole(w_off, n)
        \/ starts' = Whole(w_off, n) \cup {logger_offset(w_off + n - HeaderLen - (local[w].ret + n))}
    BY DEF WriteSegment
  <2> QED
    BY <1>5, <2>1, <2>2
<1>7. local' \in [Writers -> [orig : Offsets, len : 0 .. MaxPayload, ret : 0 .. MaxPayload]]
  <2>1. 0 \in Offsets /\ 0 \in 0 .. MaxPayload
    BY <1>1, Sizes
  <2>2. NoLocals \in [orig : Offsets, len : 0 .. MaxPayload, ret : 0 .. MaxPayload]
    BY <2>1 DEF NoLocals
  <2>3. \/ local' = [local EXCEPT ![w].ret = local[w].ret + n]
        \/ local' = [local EXCEPT ![w] = NoLocals]
    BY DEF WriteSegment
  <2>4. local \in [Writers -> [orig : Offsets, len : 0 .. MaxPayload, ret : 0 .. MaxPayload]]
    BY DEF Basic, TypeOK
  <2>5. [local[w] EXCEPT !.ret = local[w].ret + n] \in [orig : Offsets, len : 0 .. MaxPayload, ret : 0 .. MaxPayload]
    BY <1>3, <2>4
  <2> QED
    BY <2>2, <2>3, <2>4, <2>5
<1>8. TypeOK'
  BY <1>4, <1>5, <1>6, <1>7 DEF Basic, TypeOK, WriteSegment
<1>9. Listed' /\ Opened' = Opened
  BY ListStays DEF WriteSegment
<1>10. Control'
  <2>1. cursor = Nil /\ ~freed
    BY DEF Basic, Control, WriteSegment, Locked
  <2>2. /\ \A v \in Writers : v # w => wpc'[v] = wpc[v] /\ local'[v] = local[v]
        /\ \/ mutex' = mutex /\ wpc' = wpc /\ local'[w].len = local[w].len /\ local'[w].ret < local[w].len
           \/ mutex' = Nil /\ wpc'[w] = "wake"
    BY <1>3, SMTT(30) DEF Basic, TypeOK, WriteSegment
  <2>3. cursor' = cursor /\ freed' = freed /\ mutex = w /\ wpc[w] = "payload"
    BY DEF Basic, Control, WriteSegment, Locked
  <2>4. \A v \in Writers : mutex' = v <=> wpc'[v] \in Locked
    BY <1>1, <2>2, <2>3 DEF Basic, Control, Locked
  <2>5. \A v \in Writers : wpc'[v] \in {"write", "fix_up", "payload"} =>
          local'[v].len > 0 /\ local'[v].ret < local'[v].len
    BY <1>2, <2>2, <2>3 DEF Basic, Control
  <2>6. \A v \in Writers : wpc'[v] \in {"write", "fix_up"} => local'[v].ret = 0
    BY <2>2, <2>3 DEF Basic, Control
  <2> QED
    BY <2>1, <2>3, <2>4, <2>5, <2>6 DEF Control
<1> QED
  BY <1>8, <1>9, <1>10 DEF Basic

LEMMA FaultBasic ==
  ASSUME Basic, NEW w \in Writers, NEW n, WriteFault(w, n)
  PROVE  Basic'
<1>1. Size \in Nat /\ Size >= 6 /\ MaxPayload \in Nat /\ HeaderLen = 2 /\ Nil \notin Writers
  BY Sizes, LoggerAssumption
<1>2. local[w].len \in 0 .. MaxPayload /\ local[w].ret \in 0 .. MaxPayload /\ n \in 0 .. local[w].len - local[w].ret
  BY DEF Basic, TypeOK, WriteFault
<1>3. n \in 0 .. MaxPayload
  BY <1>1, <1>2
<1>4. buffer' \in [Offsets -> 0 .. Byte - 1]
  BY <1>3, PayloadStored DEF WriteFault
<1>5. starts' \subseteq Offsets
  BY WholeStarts DEF Basic, TypeOK, WriteFault
<1>6. local' \in [Writers -> [orig : Offsets, len : 0 .. MaxPayload, ret : 0 .. MaxPayload]]
  <2>1. 0 \in Offsets /\ 0 \in 0 .. MaxPayload
    BY <1>1, Sizes
  <2>2. NoLocals \in [orig : Offsets, len : 0 .. MaxPayload, ret : 0 .. MaxPayload]
    BY <2>1 DEF NoLocals
  <2> QED
    BY <2>2 DEF Basic, TypeOK, WriteFault
<1>7. TypeOK'
  BY <1>4, <1>5, <1>6 DEF Basic, TypeOK, WriteFault
<1>8. Listed' /\ Opened' = Opened
  BY ListStays DEF WriteFault
<1>9. Control'
  BY <1>1, <1>8 DEF Basic, TypeOK, Control, WriteFault, Locked
<1> QED
  BY <1>7, <1>8, <1>9 DEF Basic

LEMMA UnlockBasic ==
  ASSUME Basic, NEW w \in Writers, WriteWake(w) \/ FlushEnd(w)
  PROVE  Basic'
<1>1. Nil \notin Writers
  BY LoggerAssumption
<1>2. TypeOK'
  BY DEF Basic, TypeOK, WriteWake, FlushEnd, log, walk
<1>3. Listed' /\ Opened' = Opened
  BY ListStays DEF WriteWake, FlushEnd
<1>4. Control'
  <2>1. CASE WriteWake(w)
    BY <1>1, <1>3, <2>1 DEF Basic, TypeOK, Control, WriteWake, log, walk, Locked
  <2>2. CASE FlushEnd(w)
    BY <1>1, <1>3, <2>2 DEF Basic, TypeOK, Control, FlushEnd, Locked
  <2> QED
    BY <2>1, <2>2
<1> QED
  BY <1>2, <1>3, <1>4 DEF Basic

LEMMA OpenBasic ==
  ASSUME Basic, NEW r \in Readers, logger_open(r)
  PROVE  Basic'
<1>1. Nil \notin Writers
  BY LoggerAssumption
<1>2. readers \in Seq(Readers) /\ readers' = Append(readers, r)
  BY DEF Basic, TypeOK, logger_open
<1>3. /\ Len(readers') = Len(readers) + 1 /\ DOMAIN readers' = 1 .. Len(readers) + 1
      /\ \A i \in 1 .. Len(readers) : readers'[i] = readers[i]
      /\ readers'[Len(readers) + 1] = r /\ DOMAIN readers = 1 .. Len(readers) /\ Len(readers) \in Nat
      /\ readers' \in Seq(Readers)
  BY <1>2
<1>4. TypeOK'
  BY <1>3 DEF Basic, TypeOK, logger_open, log, walk
<1>5. Opened' = Opened \cup {r}
  BY <1>3 DEF Opened
<1>6. r \notin Opened
  BY DEF Basic, Listed, logger_open
<1>7. Listed'
  <2>1. ASSUME NEW i \in DOMAIN readers', NEW j \in DOMAIN readers', readers'[i] = readers'[j]
        PROVE  i = j
    <3>1. \A k \in 1 .. Len(readers) : readers[k] # r
      BY <1>3, <1>6 DEF Opened
    <3>2. CASE i \in 1 .. Len(readers) /\ j \in 1 .. Len(readers)
      BY <1>3, <2>1, <3>2 DEF Basic, Listed
    <3> QED
      BY <1>3, <2>1, <3>1, <3>2
  <2>2. \A q \in Readers : q \in Opened' <=> rpc'[q] # "closed"
    BY <1>5 DEF Basic, TypeOK, Listed, logger_open
  <2> QED
    BY <2>1, <2>2 DEF Listed
<1>8. Control'
  BY <1>1, <1>5 DEF Basic, TypeOK, Control, logger_open, log, walk, Locked
<1> QED
  BY <1>4, <1>7, <1>8 DEF Basic

\* The list after logger_release: the readers behind r move up by one.
LEMMA ReleasedList ==
  ASSUME Basic, NEW r \in Readers, logger_release(r)
  PROVE  /\ readers' \in Seq(Readers) /\ Position(r) \in DOMAIN readers /\ readers[Position(r)] = r
         /\ \A i \in DOMAIN readers' : \E k \in DOMAIN readers :
              /\ readers'[i] = readers[k] /\ k # Position(r)
              /\ k = IF i < Position(r) THEN i ELSE i + 1
         /\ Opened' = Opened \ {r}
<1>1. r \in Opened
  BY DEF Basic, Listed, logger_release
<1> DEFINE n == Position(r)
<1>2. n \in DOMAIN readers /\ readers[n] = r /\ \A i \in DOMAIN readers : readers[i] = r => i = n
  BY <1>1, PositionIs
<1>3. readers \in Seq(Readers) /\ readers' = list_del(readers, n)
  BY DEF Basic, TypeOK, logger_release
<1>4. /\ readers' \in Seq(Readers) /\ DOMAIN readers' = 1 .. Len(readers) - 1
      /\ \A i \in 1 .. Len(readers) - 1 : readers'[i] = IF i < n THEN readers[i] ELSE readers[i + 1]
  BY <1>2, <1>3, Deleted
<1>5. DOMAIN readers = 1 .. Len(readers) /\ Len(readers) \in Nat
  BY <1>3
<1> HIDE DEF n
<1>6. ASSUME NEW i \in DOMAIN readers'
      PROVE  \E k \in DOMAIN readers : readers'[i] = readers[k] /\ k # n /\ k = IF i < n THEN i ELSE i + 1
  BY <1>2, <1>4, <1>5
<1>7. ASSUME NEW k \in DOMAIN readers, k # n PROVE \E i \in DOMAIN readers' : readers'[i] = readers[k]
  <2>1. CASE k < n
    BY <1>2, <1>4, <1>5, <1>7, <2>1
  <2>2. CASE k > n
    <3>1. k - 1 \in DOMAIN readers' /\ readers'[k - 1] = readers[k]
      BY <1>2, <1>4, <1>5, <1>7, <2>2
    <3> QED
      BY <3>1
  <2> QED
    BY <1>2, <1>5, <1>7, <2>1, <2>2
<1>8. Opened' = Opened \ {r}
  BY <1>2, <1>6, <1>7 DEF Opened
<1> QED
  BY <1>2, <1>4, <1>6, <1>8 DEF n

LEMMA ReleaseBasic ==
  ASSUME Basic, NEW r \in Readers, logger_release(r)
  PROVE  Basic'
<1>1. /\ readers' \in Seq(Readers) /\ Opened' = Opened \ {r}
      /\ \A i \in DOMAIN readers' : \E k \in DOMAIN readers :
           /\ readers'[i] = readers[k] /\ k # Position(r)
           /\ k = IF i < Position(r) THEN i ELSE i + 1
  BY ReleasedList
<1>2. Position(r) \in Nat /\ DOMAIN readers' \subseteq Nat
  <2>1. Position(r) \in DOMAIN readers /\ readers \in Seq(Readers)
    BY ReleasedList DEF Basic, TypeOK
  <2> QED
    BY <1>1, <2>1
<1>3. TypeOK'
  BY <1>1 DEF Basic, TypeOK, logger_release, log
<1>4. Listed'
  <2>1. ASSUME NEW i \in DOMAIN readers', NEW j \in DOMAIN readers', readers'[i] = readers'[j]
        PROVE  i = j
    <3>1. PICK k \in DOMAIN readers :
            readers'[i] = readers[k] /\ k # Position(r) /\ k = IF i < Position(r) THEN i ELSE i + 1
      BY <1>1
    <3>2. PICK m \in DOMAIN readers :
            readers'[j] = readers[m] /\ m # Position(r) /\ m = IF j < Position(r) THEN j ELSE j + 1
      BY <1>1
    <3>3. k = m
      BY <2>1, <3>1, <3>2 DEF Basic, Listed
    <3> QED
      BY <1>2, <3>1, <3>2, <3>3
  <2>2. \A q \in Readers : q \in Opened' <=> rpc'[q] # "closed"
    BY <1>1 DEF Basic, TypeOK, Listed, logger_release
  <2> QED
    BY <2>1, <2>2 DEF Listed
<1>5. Control'
  <2>1. Nil \notin Readers
    BY LoggerAssumption
  <2> QED
    BY <1>1, <2>1 DEF Basic, TypeOK, Control, logger_release, log, Locked
<1> QED
  BY <1>3, <1>4, <1>5 DEF Basic

\* Every step of a reader between open and release.
CallStep(r) ==
  \/ ReaderStep(r) \/ logger_read(r) \/ Signalled(r) \/ logger_poll(r) \/ PollReturn(r)

\* It changes nothing but where the reader is, in its call and in the log.
LEMMA CallLeaves ==
  ASSUME Basic, NEW r \in Readers, CallStep(r)
  PROVE  /\ UNCHANGED <<buffer, w_off, head, starts, mutex, cursor, freed, readers, wpc, local>>
         /\ \A q \in Readers : rpc[q] = "closed" <=> rpc'[q] = "closed"
         /\ r_off' = r_off \/ ReadEntry(r)
         /\ TypeOK'
<1> USE DEF log, walk
<1>1. CASE Woken(r) \/ logger_read(r) \/ Signalled(r)
  BY <1>1 DEF Basic, TypeOK, Woken, logger_read, Signalled, ReadPrepare
<1>2. CASE PollWoken(r) \/ logger_poll(r)
  BY <1>2 DEF Basic, TypeOK, PollWoken, logger_poll, PollPrepare
<1>3. CASE ReadCheck(r)
  BY <1>3 DEF Basic, TypeOK, ReadCheck
<1>4. CASE PollCheck(r)
  BY <1>4 DEF Basic, TypeOK, PollCheck
<1>5. CASE PollReturn(r)
  BY <1>5 DEF Basic, TypeOK, PollReturn
<1>6. CASE ReadEntry(r)
  <2> DEFINE p == r_off[r]
             q == logger_offset(p + get_entry_len(p))
  <2>1. p \in Offsets /\ get_entry_len(p) \in Nat
    BY LenNat DEF Basic, TypeOK, EntryLen, get_entry_len
  <2>2. p + get_entry_len(p) \in Int
    BY <2>1, Sizes
  <2>3. q \in Offsets
    BY <2>2, OffsetIs
  <2>4. r_off' = r_off \/ r_off' = [r_off EXCEPT ![r] = q]
    BY <1>6 DEF ReadEntry
  <2> HIDE DEF p, q
  <2>5. r_off' \in [Readers -> Offsets]
    BY <2>3, <2>4 DEF Basic, TypeOK
  <2>6. /\ UNCHANGED <<buffer, w_off, head, starts, mutex, cursor, freed, readers, wpc, local>>
        /\ rpc[r] = "ready" /\ wq' \subseteq wq \cup {r}
        /\ rpc' = [rpc EXCEPT ![r] = "prepared"] \/ rpc' = [rpc EXCEPT ![r] = "open"]
    BY <1>6 DEF ReadEntry
  <2>7. TypeOK'
    BY <2>5, <2>6 DEF Basic, TypeOK
  <2>8. \A s \in Readers : rpc[s] = "closed" <=> rpc'[s] = "closed"
    BY <2>6 DEF Basic, TypeOK
  <2> QED
    BY <1>6, <2>6, <2>7, <2>8
<1> QED
  BY <1>1, <1>2, <1>3, <1>4, <1>5, <1>6 DEF CallStep, ReaderStep

LEMMA CallBasic ==
  ASSUME Basic, NEW r \in Readers, CallStep(r)
  PROVE  Basic'
<1>1. /\ UNCHANGED <<mutex, cursor, freed, readers, wpc, local>> /\ TypeOK'
      /\ \A q \in Readers : rpc[q] = "closed" <=> rpc'[q] = "closed"
  BY CallLeaves
<1>2. Listed' /\ Opened' = Opened
  BY <1>1, ListStays
<1>3. Control'
  BY <1>1, <1>2 DEF Basic, Control
<1> QED
  BY <1>1, <1>2, <1>3 DEF Basic

\* The steps of the whole log, one by one.
LEMMA Steps ==
  ASSUME [Next]_vars
  PROVE  \/ \E w \in Writers : \/ \E len \in 1 .. MaxPayload : WriteStart(w, len)
                               \/ WriteLock(w) \/ FlushLock(w) \/ WalkReader(w) \/ WriteHeader(w)
                               \/ \E n \in 0 .. MaxPayload : WriteSegment(w, n) \/ WriteFault(w, n)
                               \/ WriteWake(w) \/ FlushEnd(w)
         \/ \E r \in Readers : logger_open(r) \/ logger_release(r) \/ CallStep(r)
         \/ UNCHANGED vars
BY DEF Next, WriterStep, CallStep

LEMMA NextBasic == Basic /\ [Next]_vars => Basic'
<1> SUFFICES ASSUME Basic, [Next]_vars PROVE Basic'
  OBVIOUS
<1>1. CASE UNCHANGED vars
  BY <1>1, SMTT(30) DEF vars, Basic, TypeOK, Control, Listed, Opened
<1>2. ASSUME NEW w \in Writers, \E len \in 1 .. MaxPayload : WriteStart(w, len) PROVE Basic'
  BY <1>2, StartBasic
<1>3. ASSUME NEW w \in Writers, WriteLock(w) \/ FlushLock(w) PROVE Basic'
  BY <1>3, LockBasic
<1>4. ASSUME NEW w \in Writers, WalkReader(w) PROVE Basic'
  BY <1>4, WalkBasic
<1>5. ASSUME NEW w \in Writers, WriteHeader(w) PROVE Basic'
  BY <1>5, HeaderBasic
<1>6. ASSUME NEW w \in Writers, NEW n, WriteSegment(w, n) PROVE Basic'
  BY <1>6, SegmentBasic
<1>7. ASSUME NEW w \in Writers, NEW n, WriteFault(w, n) PROVE Basic'
  BY <1>7, FaultBasic
<1>8. ASSUME NEW w \in Writers, WriteWake(w) \/ FlushEnd(w) PROVE Basic'
  BY <1>8, UnlockBasic
<1>9. ASSUME NEW r \in Readers, logger_open(r) PROVE Basic'
  BY <1>9, OpenBasic
<1>10. ASSUME NEW r \in Readers, logger_release(r) PROVE Basic'
  BY <1>10, ReleaseBasic
<1>11. ASSUME NEW r \in Readers, CallStep(r) PROVE Basic'
  BY <1>11, CallBasic
<1> QED
  BY <1>1, <1>2, <1>3, <1>4, <1>5, <1>6, <1>7, <1>8, <1>9, <1>10, <1>11, Steps

LEMMA AlwaysBasic == Spec => []Basic
BY InitBasic, NextBasic, PTL DEF Spec

\* The log of logger.c keeps its types: the write offset, the head and the
\* offsets of the readers stay inside the buffer, whatever is taken for a length
\* there, and the header holds the length of every entry.
THEOREM LoggerTypes == Spec => []TypeOK
<1>1. Basic => TypeOK
  BY DEF Basic
<1> QED
  BY <1>1, AlwaysBasic, PTL

-----------------------------------------------------------------------------
(* The log.                                                                *)

\* Two writers are not both in a critical section.
LEMMA Alone ==
  ASSUME Basic, NEW w \in Writers, NEW v \in Writers, wpc[w] \in Locked, wpc[v] \in Locked
  PROVE  v = w
BY DEF Basic, Control

\* The length of an entry to be written.
LEMMA TotalIs ==
  ASSUME Basic, NEW w \in Writers, wpc[w] \in {"write", "fix_up", "payload"}
  PROVE  /\ Total(w) \in 3 .. 2 + MaxPayload /\ Total(w) = 2 + local[w].len
         /\ local[w].len \in 1 .. MaxPayload /\ local[w].ret \in 0 .. MaxPayload /\ local[w].ret < local[w].len
<1>1. MaxPayload \in Nat /\ HeaderLen = 2
  BY Sizes
<1>2. local[w].len \in 1 .. MaxPayload /\ local[w].ret \in 0 .. MaxPayload /\ local[w].ret < local[w].len
  BY <1>1 DEF Basic, TypeOK, Control
<1> QED
  BY <1>1, <1>2 DEF Total

\* The readers on the list are those that are open.
LEMMA OpenReaders ==
  ASSUME Basic
  PROVE  /\ \A i \in DOMAIN readers : readers[i] \in Opened /\ readers[i] \in Readers /\ readers[i] # Nil
         /\ Opened \subseteq Readers /\ DOMAIN readers = 1 .. Len(readers) /\ Len(readers) \in Nat
BY LoggerAssumption, SMTT(30) DEF Basic, TypeOK, Opened

LEMMA InitLog == Init => LogInv
<1> SUFFICES ASSUME Init PROVE LogInv
  OBVIOUS
<1>1. Opened = {}
  BY DEF Init, Opened
<1>2. Positions = {0}
  BY <1>1 DEF Positions, Init
<1>3. Whole0
  BY <1>2 DEF Whole0, Ring, Init
<1> QED
  BY <1>3, LoggerAssumption DEF LogInv, Init

\* A step that leaves the log and the readers alone, and the writers at work in it.
LEMMA LogStays ==
  ASSUME Basic, LogInv, UNCHANGED <<buffer, w_off, head, starts, readers, r_off, cursor>>,
         \A v \in Writers : wpc[v] = "payload" <=> wpc'[v] = "payload",
         \A v \in Writers : wpc'[v] \in {"payload", "fix_up"} => wpc'[v] = wpc[v] /\ local'[v] = local[v],
         \A v \in FaultyWriters : wpc'[v] \in {"write", "fix_up"} => local'[v].orig = w_off
  PROVE  LogInv'
<1>1. Positions' = Positions
  BY DEF Positions, Opened
<1>2. Whole0' <=> Whole0
  BY <1>1 DEF Whole0
<1>3. Writing' <=> Writing
  BY DEF Writing
<1>4. ASSUME NEW v \in Writers, wpc'[v] = "payload" PROVE \E e \in Offsets : Half(v, e)'
  <2>1. PICK e \in Offsets : Half(v, e)
    BY <1>4 DEF LogInv
  <2>2. local'[v] = local[v] /\ Total(v)' = Total(v)
    BY <1>4 DEF Total
  <2>3. Half(v, e)'
    BY <1>1, <2>1, <2>2 DEF Half
  <2> QED
    BY <2>3
<1>5. ASSUME NEW v \in Writers, wpc'[v] = "fix_up" PROVE FixedUp(v)'
  <2>1. FixedUp(v) /\ Total(v)' = Total(v)
    BY <1>5 DEF LogInv, Total
  <2> QED
    BY <2>1 DEF FixedUp
<1> QED
  BY <1>2, <1>3, <1>4, <1>5 DEF LogInv

LEMMA StartLog ==
  ASSUME Basic, LogInv, NEW w \in Writers, NEW len \in 1 .. MaxPayload, WriteStart(w, len)
  PROVE  LogInv'
<1>1. UNCHANGED <<buffer, w_off, head, starts, readers, r_off, cursor>>
  BY DEF WriteStart, log, walk
<1>2. /\ \A v \in Writers : v # w => wpc'[v] = wpc[v] /\ local'[v] = local[v]
      /\ wpc[w] = "idle" /\ wpc'[w] = "write" /\ local'[w].orig = w_off
  BY DEF Basic, TypeOK, WriteStart
<1>3. FaultyWriters \subseteq Writers
  BY LoggerAssumption
<1> QED
  BY <1>1, <1>2, <1>3, LogStays DEF LogInv

LEMMA WakeLog ==
  ASSUME Basic, LogInv, NEW w \in Writers, WriteWake(w)
  PROVE  LogInv'
<1>1. UNCHANGED <<buffer, w_off, head, starts, readers, r_off, cursor, local>>
  BY DEF WriteWake, log, walk
<1>2. /\ \A v \in Writers : v # w => wpc'[v] = wpc[v]
      /\ wpc[w] = "wake" /\ wpc'[w] = "idle"
  BY DEF Basic, TypeOK, WriteWake
<1>3. FaultyWriters \subseteq Writers
  BY LoggerAssumption
<1> QED
  BY <1>1, <1>2, <1>3, LogStays DEF LogInv

\* Nobody is in the critical section.
LEMMA NobodyIn ==
  ASSUME Basic, LogInv, mutex = Nil
  PROVE  Whole0 /\ \A v \in Writers : wpc[v] \notin Locked
<1>1. Nil \notin Writers
  BY LoggerAssumption
<1> QED
  BY <1>1 DEF Basic, Control, LogInv, Writing, Locked

LEMMA LockLog ==
  ASSUME Basic, LogInv, NEW w \in Writers, WriteLock(w)
  PROVE  LogInv'
<1>1. Whole0 /\ \A v \in Writers : wpc[v] \notin Locked
  BY NobodyIn DEF WriteLock
<1>2. /\ UNCHANGED <<buffer, w_off, starts, readers, r_off, local>>
      /\ head' = FixUp(head, HeaderLen + local[w].len) /\ cursor' = ReaderAt(1)
  BY DEF WriteLock
<1>3. wpc[w] = "write" /\ wpc'[w] = "fix_up" /\ \A v \in Writers : v # w => wpc'[v] = wpc[v]
  BY DEF Basic, TypeOK, WriteLock
<1>4. Total(w) \in 3 .. 2 + MaxPayload /\ Total(w)' = Total(w)
  BY <1>2, <1>3, TotalIs DEF Total
<1>5. Clear(head', starts, w_off, Total(w))
  <2>1. head \in starts \cup {w_off} /\ Ring(buffer, starts, w_off, 0)
    BY <1>1 DEF Whole0, Positions
  <2> QED
    BY <1>2, <1>4, <2>1, FixUpClear DEF Basic, TypeOK, Total
<1>6. Whole0'
  <2>1. Opened' = Opened /\ head' \in starts \cup {w_off}
    BY <1>2, <1>5 DEF Opened, Clear
  <2> QED
    BY <1>1, <1>2, <2>1 DEF Whole0, Positions
<1>7. FixedUp(w)'
  <2>1. /\ \A i \in DOMAIN readers : readers[i] # Nil
        /\ DOMAIN readers = 1 .. Len(readers) /\ Len(readers) \in Nat
    BY OpenReaders
  <2>2. ASSUME NEW i \in DOMAIN readers, ReaderAt(1) = Nil PROVE FALSE
    BY <2>1, <2>2 DEF ReaderAt
  <2>3. ASSUME NEW i \in DOMAIN readers, NEW j \in DOMAIN readers, readers[j] = ReaderAt(1), i < j PROVE FALSE
    <3>1. 1 \in DOMAIN readers /\ ReaderAt(1) = readers[1]
      BY <2>1, <2>3 DEF ReaderAt
    <3>2. j = 1
      BY <2>3, <3>1 DEF Basic, Listed
    <3> QED
      BY <2>1, <2>3, <3>2
  <2> QED
    BY <1>2, <1>4, <1>5, <2>2, <2>3 DEF FixedUp
<1>8. \A v \in Writers : wpc'[v] # "payload" /\ (wpc'[v] = "fix_up" => v = w)
  BY <1>1, <1>3 DEF Locked
<1>9. \A v \in FaultyWriters : wpc'[v] \in {"write", "fix_up"} => local'[v].orig = w_off'
  BY <1>2, <1>3, LoggerAssumption DEF LogInv
<1> QED
  BY <1>6, <1>7, <1>8, <1>9 DEF LogInv

LEMMA FlushLockLog ==
  ASSUME Basic, LogInv, NEW w \in Writers, FlushLock(w)
  PROVE  LogInv'
<1>1. Whole0 /\ \A v \in Writers : wpc[v] \notin Locked
  BY NobodyIn DEF FlushLock
<1>2. UNCHANGED <<buffer, w_off, head, starts, readers, r_off, local>>
  BY DEF FlushLock, log
<1>3. wpc'[w] = "flush" /\ \A v \in Writers : v # w => wpc'[v] = wpc[v]
  BY DEF Basic, TypeOK, FlushLock
<1>4. \A v \in Writers : wpc'[v] # "payload" /\ wpc'[v] # "fix_up"
  BY <1>1, <1>3 DEF Locked
<1>5. Whole0'
  BY <1>1, <1>2 DEF Whole0, Positions, Opened
<1>6. \A v \in FaultyWriters : wpc'[v] \in {"write", "fix_up"} => local'[v].orig = w_off'
  BY <1>2, <1>3, LoggerAssumption DEF LogInv
<1> QED
  BY <1>4, <1>5, <1>6 DEF LogInv

LEMMA WalkLog ==
  ASSUME Basic, LogInv, NEW w \in Writers, WalkReader(w)
  PROVE  LogInv'
<1>1. /\ UNCHANGED <<buffer, w_off, head, starts, readers, local, wpc>>
      /\ cursor # Nil /\ ~freed /\ mutex = w /\ cursor' = NextReader(cursor)
  BY DEF WalkReader, log
<1>2. cursor \in Opened /\ cursor \in Readers
  BY <1>1 DEF Basic, TypeOK, Control
<1>3. wpc[w] \in {"fix_up", "flush"} /\ \A v \in Writers : wpc[v] \in Locked => v = w
  BY <1>1 DEF WalkReader, Basic, Control
<1>4. Whole0
  BY <1>3 DEF LogInv, Writing, Locked
<1>5. r_off[cursor] \in starts \cup {w_off}
  BY <1>2, <1>4 DEF Whole0, Positions
<1> DEFINE q == r_off'[cursor]
<1>6. r_off' = [r_off EXCEPT ![cursor] = q]
  BY <1>2 DEF Basic, TypeOK, WalkReader
<1>7. wpc[w] = "fix_up" => Clear(q, starts, w_off, Total(w))
  <2> SUFFICES ASSUME wpc[w] = "fix_up" PROVE Clear(q, starts, w_off, Total(w))
    OBVIOUS
  <2>1. q = FixUp(r_off[cursor], Total(w))
    BY <1>2 DEF Basic, TypeOK, WalkReader, Total
  <2>2. Total(w) \in 3 .. 2 + MaxPayload
    BY TotalIs
  <2> QED
    BY <1>4, <1>5, <2>1, <2>2, FixUpClear DEF Whole0, Basic, TypeOK
<1>8. q \in starts \cup {w_off}
  <2>1. CASE wpc[w] = "fix_up"
    BY <1>7, <2>1 DEF Clear
  <2>2. CASE wpc[w] = "flush"
    BY <1>2, <2>2 DEF Basic, TypeOK, WalkReader
  <2> QED
    BY <1>3, <2>1, <2>2
<1> HIDE DEF q
<1>9. \A r \in Readers : r_off'[r] = IF r = cursor THEN q ELSE r_off[r]
  BY <1>6 DEF Basic, TypeOK
<1>10. Whole0'
  <2>1. Opened' = Opened /\ Opened \subseteq Readers
    BY <1>1, OpenReaders DEF Opened
  <2>2. ASSUME NEW p \in Positions' PROVE p \in starts \cup {w_off}
    <3>1. p = head \/ \E r \in Opened : p = r_off'[r]
      BY <1>1, <2>1 DEF Positions
    <3> QED
      BY <1>4, <1>8, <1>9, <2>1, <3>1 DEF Whole0, Positions
  <2> QED
    BY <1>1, <1>4, <2>2 DEF Whole0
<1>11. ASSUME wpc[w] = "fix_up" PROVE FixedUp(w)'
  <2> DEFINE n == Position(cursor)
  <2>1. n \in DOMAIN readers /\ readers[n] = cursor /\ \A i \in DOMAIN readers : readers[i] = cursor => i = n
    BY <1>2, PositionIs
  <2>2. /\ \A i \in DOMAIN readers : readers[i] # Nil /\ readers[i] \in Readers
        /\ DOMAIN readers = 1 .. Len(readers) /\ Len(readers) \in Nat
    BY OpenReaders
  <2>3. FixedUp(w) /\ Total(w)' = Total(w)
    BY <1>1, <1>11 DEF LogInv, Total
  <2>4. cursor' = ReaderAt(1 + n)
    BY <1>1 DEF NextReader
  <2> HIDE DEF n
  <2>5. ASSUME NEW i \in DOMAIN readers, i <= n PROVE Clear(r_off'[readers[i]], starts, w_off, Total(w))
    <3>1. CASE i = n
      BY <1>7, <1>9, <1>11, <2>1, <2>2, <3>1
    <3>2. CASE i < n
      <4>1. readers[i] # cursor
        BY <2>1, <2>2, <3>2
      <4>2. Clear(r_off[readers[i]], starts, w_off, Total(w))
        BY <2>1, <2>3, <3>2 DEF FixedUp
      <4> QED
        BY <1>9, <2>2, <4>1, <4>2
    <3> QED
      BY <2>1, <2>2, <2>5, <3>1, <3>2
  <2>6. ASSUME NEW i \in DOMAIN readers, cursor' = Nil PROVE Clear(r_off'[readers[i]], starts, w_off, Total(w))
    <3>1. 1 + n \notin DOMAIN readers
      BY <2>2, <2>4, <2>6 DEF ReaderAt
    <3>2. i <= n
      BY <2>1, <2>2, <3>1
    <3> QED
      BY <2>5, <3>2
  <2>7. ASSUME NEW i \in DOMAIN readers, NEW j \in DOMAIN readers, readers[j] = cursor', i < j
        PROVE  Clear(r_off'[readers[i]], starts, w_off, Total(w))
    <3>1. 1 + n \in DOMAIN readers /\ cursor' = readers[1 + n]
      BY <2>2, <2>4, <2>7 DEF ReaderAt
    <3>2. j = 1 + n
      BY <2>7, <3>1 DEF Basic, Listed
    <3>3. i <= n
      BY <2>1, <2>2, <2>7, <3>2
    <3> QED
      BY <2>5, <3>3
  <2>8. Clear(head, starts, w_off, Total(w))
    BY <2>3 DEF FixedUp
  <2> QED
    BY <1>1, <2>3, <2>6, <2>7, <2>8 DEF FixedUp
<1>12. \A v \in Writers : wpc'[v] # "payload" /\ (wpc'[v] = "fix_up" => v = w /\ wpc[w] = "fix_up")
  BY <1>1, <1>3 DEF Locked
<1>13. \A v \in FaultyWriters : wpc'[v] \in {"write", "fix_up"} => local'[v].orig = w_off'
  BY <1>1 DEF LogInv
<1> QED
  BY <1>10, <1>11, <1>12, <1>13 DEF LogInv

\* Where nobody is reached, nobody is left behind.
LEMMA ClearStays ==
  ASSUME NEW S \in SUBSET Offsets, NEW e \in Offsets, NEW m \in 0 .. Size, NEW k \in 0 .. m, NEW p, Clear(p, S, e, m)
  PROVE  Clear(p, {s \in S : Back(s, e) <= Size - k}, e, m)
<1>1. Size \in Nat /\ Size >= 6
  BY Sizes
<1>2. ASSUME p \in S, Back(p, e) < Size - m PROVE Back(p, e) <= Size - k
  <2>1. Back(p, e) \in Int
    BY <1>1, <1>2 DEF Back, Offsets
  <2> QED
    BY <1>1, <1>2, <2>1
<1> QED
  BY <1>2 DEF Clear

LEMMA HeaderLog ==
  ASSUME NoRollback, Basic, LogInv, NEW w \in Writers, WriteHeader(w)
  PROVE  LogInv'
<1>0. PICK e \in Offsets : e = w_off
  BY DEF Basic, TypeOK
<1>1. Size \in Nat /\ Size >= 6 /\ HeaderLen = 2 /\ MaxPayload \in Nat /\ Size >= 2 * (2 + MaxPayload)
  BY Sizes
<1>2. /\ wpc[w] = "fix_up" /\ cursor = Nil /\ w_off' = logger_offset(e + HeaderLen)
      /\ buffer' = Store(w_off, <<local[w].len % Byte, local[w].len \div Byte>>)
      /\ starts' = Whole(e, HeaderLen)
      /\ UNCHANGED <<head, readers, r_off, local>>
  BY <1>0 DEF WriteHeader
<1>3. wpc'[w] = "payload" /\ \A v \in Writers : v # w => wpc'[v] = wpc[v]
  BY DEF Basic, TypeOK, WriteHeader
<1>4. \A v \in Writers : wpc[v] \in Locked => v = w
  BY <1>2, Alone DEF Locked
<1>5. Whole0 /\ FixedUp(w)
  BY <1>2, <1>4 DEF LogInv, Writing, Locked
<1>6. PICK m \in 3 .. 2 + MaxPayload : m = Total(w)
  BY <1>2, TotalIs
<1>7. /\ m = 2 + local[w].len /\ Total(w)' = m /\ local[w].len \in 1 .. MaxPayload /\ local[w].ret = 0
  BY <1>2, <1>6, TotalIs DEF Total, Basic, Control
<1>8. Untouched(buffer, buffer', e, 2) /\ EntryLen(buffer', e) = m
  BY <1>0, <1>2, <1>7, HeaderStored
<1>9. logger_offset(e + 0) = e
  BY <1>1, OffsetIs, Sizes
<1>10. Ring(buffer, starts, e, 0) /\ 0 \in 0 .. Size /\ 2 \in 0 .. Size
  BY <1>0, <1>1, <1>5 DEF Whole0
<1>11. starts' = {s \in starts : Back(s, e) <= Size - 0 - 2}
  <2>1. starts' = WholeOf(buffer, starts, logger_offset(e + 0), 2)
    BY <1>1, <1>2, <1>9, WholeSame
  <2> QED
    BY <1>10, <2>1, WholeIs
<1>12. Ring(buffer', starts', e, 2)
  <2>1. 0 + 2 = 2 /\ 0 + 2 <= Size
    BY <1>1
  <2>2. Ring(buffer', starts', e, 0 + 2)
    BY <1>8, <1>9, <1>10, <1>11, <2>1, RingStore
  <2> QED
    BY <2>1, <2>2
<1>13. Positions' = Positions
  BY <1>2 DEF Positions, Opened
<1>14. \A p \in Positions : Clear(p, starts, e, m)
  BY <1>0, <1>2, <1>5, <1>6 DEF FixedUp, Positions, Opened
<1>15. \A p \in Positions' : Clear(p, starts', e, m)
  <2>1. starts \in SUBSET Offsets /\ m \in 0 .. Size /\ 2 \in 0 .. m /\ Size - 0 - 2 = Size - 2
    BY <1>1 DEF Basic, TypeOK
  <2>2. starts' = {s \in starts : Back(s, e) <= Size - 2}
    BY <1>11, <2>1
  <2> QED
    BY <1>13, <1>14, <2>1, <2>2, ClearStays
<1>16. w \in FaultyWriters => local'[w].orig = e
  BY <1>0, <1>2 DEF LogInv
<1>17. HeaderLen + local'[w].ret = 2
  BY <1>1, <1>2, <1>7
<1>18. Half(w, e)'
  BY <1>1, <1>2, <1>7, <1>8, <1>12, <1>15, <1>16, <1>17 DEF Half
<1>19. Writing' /\ \A v \in Writers : (wpc'[v] = "payload" => v = w) /\ wpc'[v] # "fix_up"
  BY <1>3, <1>4 DEF Writing, Locked
<1>20. \A v \in FaultyWriters : wpc'[v] \notin {"write", "fix_up"}
  BY <1>3 DEF NoRollback
<1> QED
  BY <1>18, <1>19, <1>20 DEF LogInv

\* n more cells of the payload, of an entry that begins at e.
LEMMA MoreCells ==
  ASSUME Basic, NEW w \in Writers, wpc[w] = "payload", NEW e \in Offsets, Half(w, e),
         NEW n \in 0 .. local[w].len - local[w].ret,
         buffer' = Store(w_off, Payload(n)), NEW T, T = Whole(w_off, n)
  PROVE  LET u == HeaderLen + local[w].ret
         IN  /\ Ring(buffer', T, e, u + n)
             /\ EntryLen(buffer', e) = Total(w)
             /\ \A p \in Positions : Clear(p, T, e, Total(w))
             /\ logger_offset(w_off + n) = logger_offset(e + (u + n))
             /\ logger_offset(w_off + n - (u + n)) = e
             /\ u + n <= Total(w) /\ u + n < Size /\ u \in 2 .. Size
<1> DEFINE u == HeaderLen + local[w].ret
<1>1. Size \in Nat /\ Size >= 6 /\ HeaderLen = 2 /\ MaxPayload \in Nat /\ Size >= 2 * (2 + MaxPayload)
  BY Sizes
<1>2. /\ Total(w) \in 3 .. 2 + MaxPayload /\ Total(w) = 2 + local[w].len
      /\ local[w].len \in 1 .. MaxPayload /\ local[w].ret \in 0 .. MaxPayload /\ local[w].ret < local[w].len
  BY TotalIs
<1>3. u \in 2 .. Size /\ u \in 0 .. Size /\ n \in 0 .. Size /\ n \in 0 .. MaxPayload /\ u + n <= Total(w) /\ u + n < Size
      /\ u + n <= Size /\ u + n \in 0 .. Total(w) /\ Total(w) \in 0 .. Size /\ u \in Int
  BY <1>1, <1>2
<1>4. /\ w_off = logger_offset(e + u) /\ Ring(buffer, starts, e, u) /\ EntryLen(buffer, e) = Total(w)
      /\ \A p \in Positions : Clear(p, starts, e, Total(w))
  BY DEF Half
<1> HIDE DEF u
<1>5. Untouched(buffer, buffer', logger_offset(e + u), n)
  BY <1>3, <1>4, PayloadStored
<1>6. T = {s \in starts : Back(s, e) <= Size - u - n}
  <2>1. T = WholeOf(buffer, starts, logger_offset(e + u), n)
    BY <1>4, WholeSame
  <2> QED
    BY <1>3, <1>4, <2>1, WholeIs
<1>7. Ring(buffer', T, e, u + n)
  BY <1>3, <1>4, <1>5, <1>6, RingStore
<1>8. EntryLen(buffer', e) = Total(w)
  BY <1>3, <1>4, <1>5, OwnLengthKept
<1>9. \A p \in Positions : Clear(p, T, e, Total(w))
  <2>1. T = {s \in starts : Back(s, e) <= Size - (u + n)} /\ starts \in SUBSET Offsets
    <3>1. Size - u - n = Size - (u + n)
      BY <1>1, <1>3
    <3> QED
      BY <1>6, <3>1 DEF Basic, TypeOK
  <2> QED
    BY <1>3, <1>4, <2>1, ClearStays
<1>10. /\ logger_offset(w_off + n) = logger_offset(e + (u + n))
       /\ logger_offset(w_off + n - (u + n)) = e
  BY <1>3, <1>4, GoOn
<1> QED
  BY <1>3, <1>7, <1>8, <1>9, <1>10 DEF u

LEMMA SegmentLog ==
  ASSUME NoRollback, Basic, LogInv, NEW w \in Writers, NEW n, WriteSegment(w, n)
  PROVE  LogInv'
<1>1. Size \in Nat /\ HeaderLen = 2 /\ MaxPayload \in Nat
  BY Sizes
<1>2. /\ wpc[w] = "payload" /\ n \in 1 .. local[w].len - local[w].ret
      /\ buffer' = Store(w_off, Payload(n)) /\ w_off' = logger_offset(w_off + n)
      /\ UNCHANGED <<head, readers, r_off>>
  BY DEF WriteSegment
<1>3. /\ Total(w) \in 3 .. 2 + MaxPayload /\ Total(w) = 2 + local[w].len
      /\ local[w].len \in 1 .. MaxPayload /\ local[w].ret \in 0 .. MaxPayload
  BY <1>2, TotalIs
<1>4. \A v \in Writers : wpc[v] \in Locked => v = w
  BY <1>2, Alone DEF Locked
<1>5. PICK e \in Offsets : Half(w, e)
  BY <1>2 DEF LogInv
<1>6. PICK T : T = Whole(w_off, n)
  OBVIOUS
<1> DEFINE u == HeaderLen + local[w].ret
<1>7. /\ Ring(buffer', T, e, u + n) /\ EntryLen(buffer', e) = Total(w)
      /\ \A p \in Positions : Clear(p, T, e, Total(w))
      /\ logger_offset(w_off + n) = logger_offset(e + (u + n))
      /\ logger_offset(w_off + n - (u + n)) = e
  <2>1. n \in 0 .. local[w].len - local[w].ret
    BY <1>2, <1>3
  <2> QED
    BY <1>2, <1>5, <1>6, <2>1, MoreCells
<1>8. Positions' = Positions
  BY <1>2 DEF Positions, Opened
<1>9. \A v \in Writers : v # w => wpc'[v] = wpc[v]
  BY DEF Basic, TypeOK, WriteSegment
<1>10. u + n = HeaderLen + (local[w].ret + n)
  BY <1>1, <1>2, <1>3
<1>11. CASE local[w].ret + n < local[w].len
  <2>1. /\ local' = [local EXCEPT ![w].ret = local[w].ret + n] /\ starts' = T /\ wpc' = wpc
    BY <1>3, <1>2, <1>6, <1>11 DEF WriteSegment
  <2>2. local'[w].ret = local[w].ret + n /\ local'[w].len = local[w].len /\ local'[w].orig = local[w].orig
    BY <2>1 DEF Basic, TypeOK
  <2>3. Total(w)' = Total(w) /\ (HeaderLen + local[w].ret)' = u + n
    BY <1>10, <2>2 DEF Total
  <2>4. w \in FaultyWriters => local'[w].orig = e
    BY <1>5, <2>2 DEF Half
  <2> HIDE DEF u
  <2>5. Half(w, e)'
    BY <1>2, <1>7, <1>8, <2>1, <2>3, <2>4 DEF Half
  <2>6. Writing' /\ \A v \in Writers : (wpc'[v] = "payload" => v = w) /\ wpc'[v] # "fix_up"
    BY <1>2, <1>4, <2>1 DEF Writing, Locked
  <2>7. \A v \in FaultyWriters : wpc'[v] \notin {"write", "fix_up"}
    BY <1>2, <2>1 DEF NoRollback
  <2> QED
    BY <2>5, <2>6, <2>7 DEF LogInv
<1>12. CASE local[w].ret + n = local[w].len
  <2>1. /\ starts' = T \cup {logger_offset(w_off + n - HeaderLen - (local[w].ret + n))}
        /\ wpc' = [wpc EXCEPT ![w] = "wake"]
    BY <1>3, <1>2, <1>6, <1>12 DEF WriteSegment
  <2>2. w_off + n - HeaderLen - (local[w].ret + n) = w_off + n - (u + n)
    <3>1. w_off \in Int /\ n \in Int /\ local[w].ret \in Int
      BY <1>1, <1>2, <1>3, Sizes DEF Basic, TypeOK
    <3> QED
      BY <1>1, <3>1
  <2>3. starts' = T \cup {e}
    BY <1>7, <2>1, <2>2
  <2>4. u + n = Total(w)
    BY <1>1, <1>3, <1>10, <1>12
  <2> HIDE DEF u
  <2>5. Ring(buffer', T \cup {e}, logger_offset(e + Total(w)), 0)
    BY <1>3, <1>7, <2>4, RingClose
  <2>6. Whole0'
    <3>1. Ring(buffer', starts', w_off', 0)
      BY <1>2, <1>7, <2>3, <2>4, <2>5
    <3>2. \A p \in Positions' : p \in starts'
      BY <1>7, <1>8, <2>3 DEF Clear
    <3> QED
      BY <3>1, <3>2 DEF Whole0
  <2>7. wpc'[w] = "wake"
    BY <2>1 DEF Basic, TypeOK
  <2>8. \A v \in Writers : wpc'[v] # "payload" /\ wpc'[v] # "fix_up"
    BY <1>4, <1>9, <2>7 DEF Locked
  <2>9. \A v \in FaultyWriters : wpc'[v] \notin {"write", "fix_up"}
    BY <2>7 DEF NoRollback
  <2> QED
    BY <2>6, <2>8, <2>9 DEF LogInv
<1> QED
  BY <1>2, <1>3, <1>11, <1>12

LEMMA FaultLog ==
  ASSUME NoRollback, Basic, LogInv, NEW w \in Writers, NEW n, WriteFault(w, n)
  PROVE  LogInv'
<1>1. Size \in Nat /\ HeaderLen = 2 /\ MaxPayload \in Nat
  BY Sizes
<1>2. /\ wpc[w] = "payload" /\ n \in 0 .. local[w].len - local[w].ret /\ w \in FaultyWriters
      /\ buffer' = Store(w_off, Payload(n)) /\ w_off' = local[w].orig
      /\ starts' = Whole(w_off, n)
      /\ UNCHANGED <<head, readers, r_off>>
  BY DEF WriteFault
<1>3. \A v \in Writers : wpc[v] \in Locked => v = w
  BY <1>2, Alone DEF Locked
<1>4. PICK e \in Offsets : Half(w, e)
  BY <1>2 DEF LogInv
<1> DEFINE u == HeaderLen + local[w].ret
<1>5. /\ Ring(buffer', starts', e, u + n)
      /\ \A p \in Positions : Clear(p, starts', e, Total(w))
      /\ u + n < Size /\ u \in 2 .. Size
  BY <1>2, <1>4, MoreCells
<1>6. w_off' = e
  BY <1>2, <1>4 DEF Half
<1>7. u + n \in 0 .. Size
  <2>1. n \in Nat
    BY <1>2
  <2> HIDE DEF u
  <2> QED
    BY <1>1, <1>5, <2>1
<1>8. Ring(buffer', starts', e, 0)
  BY <1>5, <1>7, RingGivesUp
<1>9. Positions' = Positions
  BY <1>2 DEF Positions, Opened
<1>10. Whole0'
  BY <1>5, <1>6, <1>8, <1>9 DEF Whole0, Clear
<1>11. wpc'[w] = "idle" /\ \A v \in Writers : v # w => wpc'[v] = wpc[v]
  BY DEF Basic, TypeOK, WriteFault
<1>12. \A v \in Writers : wpc'[v] # "payload" /\ wpc'[v] # "fix_up"
  BY <1>3, <1>11 DEF Locked
<1>13. \A v \in FaultyWriters : wpc'[v] \notin {"write", "fix_up"}
  BY <1>11 DEF NoRollback
<1> QED
  BY <1>10, <1>12, <1>13 DEF LogInv

LEMMA FlushEndLog ==
  ASSUME Basic, LogInv, NEW w \in Writers, FlushEnd(w)
  PROVE  LogInv'
<1>1. wpc[w] = "flush" /\ UNCHANGED <<buffer, w_off, starts, readers, r_off, local>> /\ head' = w_off
  BY DEF FlushEnd
<1>2. \A v \in Writers : wpc[v] \in Locked => v = w
  BY <1>1, Alone DEF Locked
<1>3. wpc'[w] = "idle" /\ \A v \in Writers : v # w => wpc'[v] = wpc[v]
  BY DEF Basic, TypeOK, FlushEnd
<1>4. Whole0
  BY <1>1, <1>2 DEF LogInv, Writing, Locked
<1>5. Whole0'
  BY <1>1, <1>4 DEF Whole0, Positions, Opened
<1>6. \A v \in Writers : wpc'[v] # "payload" /\ wpc'[v] # "fix_up"
  BY <1>2, <1>3 DEF Locked
<1>7. \A v \in FaultyWriters : wpc'[v] \in {"write", "fix_up"} => local'[v].orig = w_off'
  BY <1>1, <1>3, LoggerAssumption DEF LogInv
<1> QED
  BY <1>5, <1>6, <1>7 DEF LogInv

\* A reader opens, or reads an entry: nobody writes.
LEMMA QuietLog ==
  ASSUME Basic, LogInv, mutex = Nil, UNCHANGED <<buffer, w_off, head, starts, wpc, local>>,
         \A p \in Positions' : p \in starts \cup {w_off}
  PROVE  LogInv'
<1>1. Whole0 /\ \A v \in Writers : wpc[v] \notin Locked
  BY NobodyIn
<1>2. Whole0'
  BY <1>1 DEF Whole0
<1>3. \A v \in Writers : wpc'[v] # "payload" /\ wpc'[v] # "fix_up"
  BY <1>1 DEF Locked
<1>4. \A v \in FaultyWriters : wpc'[v] \in {"write", "fix_up"} => local'[v].orig = w_off'
  BY DEF LogInv
<1> QED
  BY <1>2, <1>3, <1>4 DEF LogInv

LEMMA OpenLog ==
  ASSUME Basic, LogInv, NEW r \in Readers, logger_open(r)
  PROVE  LogInv'
<1>1. /\ mutex = Nil /\ UNCHANGED <<buffer, w_off, head, starts, wpc, local>>
      /\ r_off' = [r_off EXCEPT ![r] = head] /\ readers' = Append(readers, r)
  BY DEF logger_open, log
<1>2. Opened' \subseteq Opened \cup {r} /\ Opened \subseteq Readers
  <2>1. readers \in Seq(Readers)
    BY DEF Basic, TypeOK
  <2> QED
    BY <1>1, <2>1, OpenReaders DEF Opened
<1>3. \A q \in Readers : r_off'[q] = IF q = r THEN head ELSE r_off[q]
  BY <1>1 DEF Basic, TypeOK
<1>4. Whole0
  BY <1>1, NobodyIn
<1>5. ASSUME NEW p \in Positions' PROVE p \in starts \cup {w_off}
  <2>1. p = head \/ \E q \in Opened \cup {r} : p = r_off'[q]
    BY <1>1, <1>2 DEF Positions
  <2>2. p = head \/ \E q \in Opened : p = r_off[q]
    BY <1>2, <1>3, <2>1
  <2> QED
    BY <1>4, <2>2 DEF Whole0, Positions
<1> QED
  BY <1>1, <1>5, QuietLog

LEMMA CallLog ==
  ASSUME Basic, LogInv, NEW r \in Readers, CallStep(r)
  PROVE  LogInv'
<1>1. /\ UNCHANGED <<buffer, w_off, head, starts, mutex, cursor, freed, readers, wpc, local>>
      /\ r_off' = r_off \/ ReadEntry(r)
  BY CallLeaves
<1>2. CASE r_off' = r_off
  BY <1>1, <1>2, LogStays DEF LogInv
<1>3. CASE ReadEntry(r) /\ r_off' # r_off
  <2> DEFINE p == r_off[r]
             q == logger_offset(p + get_entry_len(p))
  <2>1. mutex = Nil /\ w_off # p /\ r_off' = [r_off EXCEPT ![r] = q] /\ rpc[r] = "ready"
    BY <1>3 DEF ReadEntry
  <2>2. Whole0
    BY <2>1, NobodyIn
  <2>3. r \in Opened /\ Opened' = Opened /\ Opened \subseteq Readers
    BY <1>1, <2>1, OpenReaders DEF Basic, Listed, Opened
  <2>4. p \in starts
    BY <2>1, <2>2, <2>3 DEF Whole0, Positions
  <2>5. q \in starts \cup {w_off}
    <3> DEFINE l == EntryLen(buffer, p)
               d == Back(p, w_off)
    <3>1. l = get_entry_len(p)
      BY DEF EntryLen, get_entry_len
    <3>2. p \in Offsets /\ l \in 3 .. 2 + MaxPayload /\ l <= d /\ (l = d \/ logger_offset(p + l) \in starts)
      BY <2>2, <2>4 DEF Whole0, Ring, EntryOK
    <3>3. w_off \in Offsets
      BY DEF Basic, TypeOK
    <3>4. ASSUME l = d PROVE logger_offset(p + l) = w_off
      <4>1. l \in 0 .. Back(p, w_off)
        BY <3>2, <3>4, Sizes
      <4> QED
        BY <3>2, <3>3, <3>4, <4>1, Forward
    <3> QED
      BY <3>1, <3>2, <3>4
  <2> HIDE DEF p, q
  <2>6. \A s \in Readers : r_off'[s] = IF s = r THEN q ELSE r_off[s]
    BY <2>1 DEF Basic, TypeOK
  <2>7. ASSUME NEW x \in Positions' PROVE x \in starts \cup {w_off}
    <3>1. x = head \/ \E s \in Opened : x = r_off'[s]
      BY <1>1, <2>3 DEF Positions
    <3>2. x = head \/ x = q \/ \E s \in Opened : x = r_off[s]
      BY <2>3, <2>6, <3>1
    <3> QED
      BY <2>2, <2>5, <3>2 DEF Whole0, Positions
  <2> QED
    BY <1>1, <2>1, <2>7, QuietLog
<1> QED
  BY <1>1, <1>2, <1>3

LEMMA ReleaseLog ==
  ASSUME Basic, LogInv, NEW r \in Readers, logger_release(r)
  PROVE  LogInv'
<1>1. UNCHANGED <<buffer, w_off, head, starts, cursor, r_off, wpc, local>>
  BY DEF logger_release, log
<1>2. /\ Position(r) \in DOMAIN readers /\ readers' \in Seq(Readers) /\ Opened' = Opened \ {r}
      /\ \A i \in DOMAIN readers' : \E k \in DOMAIN readers :
           /\ readers'[i] = readers[k] /\ k # Position(r)
           /\ k = IF i < Position(r) THEN i ELSE i + 1
  BY ReleasedList
<1>3. Position(r) \in Nat /\ DOMAIN readers' \subseteq Nat
  <2>1. readers \in Seq(Readers)
    BY DEF Basic, TypeOK
  <2> QED
    BY <1>2, <2>1
<1>4. Positions' \subseteq Positions
  BY <1>1, <1>2 DEF Positions
<1>5. Whole0 => Whole0'
  BY <1>1, <1>4 DEF Whole0
<1>6. Writing' <=> Writing
  BY <1>1 DEF Writing
<1>7. \A v \in Writers : Total(v)' = Total(v)
  BY <1>1 DEF Total
<1>8. ASSUME NEW v \in Writers, wpc'[v] = "payload" PROVE \E e \in Offsets : Half(v, e)'
  <2>1. PICK e \in Offsets : Half(v, e)
    BY <1>1, <1>8 DEF LogInv
  <2>2. Half(v, e)'
    BY <1>1, <1>4, <1>7, <2>1 DEF Half
  <2> QED
    BY <2>2
<1>9. ASSUME NEW v \in Writers, wpc'[v] = "fix_up" PROVE FixedUp(v)'
  <2>1. FixedUp(v)
    BY <1>1, <1>9 DEF LogInv
  <2>2. ASSUME NEW i \in DOMAIN readers', cursor = Nil
        PROVE  Clear(r_off[readers'[i]], starts, w_off, Total(v))
    <3>1. PICK k \in DOMAIN readers : readers'[i] = readers[k]
      BY <1>2
    <3> QED
      BY <2>1, <2>2, <3>1 DEF FixedUp
  <2>3. ASSUME NEW i \in DOMAIN readers', NEW j \in DOMAIN readers', readers'[j] = cursor, i < j
        PROVE  Clear(r_off[readers'[i]], starts, w_off, Total(v))
    <3>1. PICK k \in DOMAIN readers :
            readers'[i] = readers[k] /\ k = IF i < Position(r) THEN i ELSE i + 1
      BY <1>2
    <3>2. PICK m \in DOMAIN readers :
            readers'[j] = readers[m] /\ m = IF j < Position(r) THEN j ELSE j + 1
      BY <1>2
    <3>3. k < m
      BY <1>3, <2>3, <3>1, <3>2
    <3> QED
      BY <2>1, <2>3, <3>1, <3>2, <3>3 DEF FixedUp
  <2>4. Clear(head, starts, w_off, Total(v))
    BY <2>1 DEF FixedUp
  <2> QED
    BY <1>1, <1>7, <2>2, <2>3, <2>4 DEF FixedUp
<1>10. \A v \in FaultyWriters : wpc'[v] \in {"write", "fix_up"} => local'[v].orig = w_off'
  BY <1>1 DEF LogInv
<1> QED
  BY <1>5, <1>6, <1>8, <1>9, <1>10 DEF LogInv

LEMMA NextLog ==
  ASSUME NoRollback
  PROVE  Basic /\ LogInv /\ [Next]_vars => LogInv'
<1> SUFFICES ASSUME Basic, LogInv, [Next]_vars PROVE LogInv'
  OBVIOUS
<1>1. CASE UNCHANGED vars
  BY <1>1, LogStays DEF vars, LogInv
<1>2. ASSUME NEW w \in Writers, \E len \in 1 .. MaxPayload : WriteStart(w, len) PROVE LogInv'
  BY <1>2, StartLog
<1>3. ASSUME NEW w \in Writers, WriteLock(w) PROVE LogInv'
  BY <1>3, LockLog
<1>4. ASSUME NEW w \in Writers, FlushLock(w) PROVE LogInv'
  BY <1>4, FlushLockLog
<1>5. ASSUME NEW w \in Writers, WalkReader(w) PROVE LogInv'
  BY <1>5, WalkLog
<1>6. ASSUME NEW w \in Writers, WriteHeader(w) PROVE LogInv'
  BY <1>6, HeaderLog
<1>7. ASSUME NEW w \in Writers, NEW n, WriteSegment(w, n) PROVE LogInv'
  BY <1>7, SegmentLog
<1>8. ASSUME NEW w \in Writers, NEW n, WriteFault(w, n) PROVE LogInv'
  BY <1>8, FaultLog
<1>9. ASSUME NEW w \in Writers, WriteWake(w) PROVE LogInv'
  BY <1>9, WakeLog
<1>10. ASSUME NEW w \in Writers, FlushEnd(w) PROVE LogInv'
  BY <1>10, FlushEndLog
<1>11. ASSUME NEW r \in Readers, logger_open(r) PROVE LogInv'
  BY <1>11, OpenLog
<1>12. ASSUME NEW r \in Readers, logger_release(r) PROVE LogInv'
  BY <1>12, ReleaseLog
<1>13. ASSUME NEW r \in Readers, CallStep(r) PROVE LogInv'
  BY <1>13, CallLog
<1> QED
  BY <1>1, <1>2, <1>3, <1>4, <1>5, <1>6, <1>7, <1>8, <1>9, <1>10, <1>11, <1>12, <1>13, Steps

-----------------------------------------------------------------------------
(* The places from an offset on.                                           *)

\* Chain in a buffer b that is written to at t.
ChainOf(b, t, off) ==
  LET place[k \in 0 .. Size \div HeaderLen] ==
        IF k = 0 THEN off
        ELSE IF place[k - 1] = t THEN place[k - 1]
             ELSE logger_offset(place[k - 1] + EntryLen(b, place[k - 1]))
  IN  {place[k] : k \in 0 .. Size \div HeaderLen}

LEMMA ChainSame ==
  \A off : Chain(off) = ChainOf(buffer, w_off, off) /\ Chain(off)' = ChainOf(buffer', w_off', off)
BY DEF Chain, ChainOf, EntryLen, get_entry_len

\* The place after p.
Onward(b, t, p) == IF p = t THEN p ELSE logger_offset(p + EntryLen(b, p))

IsWay(f, b, t, off) ==
  /\ f \in [0 .. Size \div HeaderLen -> Offsets]
  /\ f[0] = off
  /\ \A k \in 1 .. Size \div HeaderLen : f[k] = Onward(b, t, f[k - 1])
  /\ ChainOf(b, t, off) = {f[k] : k \in 0 .. Size \div HeaderLen}

LEMMA OnwardType ==
  ASSUME NEW b \in [Offsets -> 0 .. Byte - 1], NEW t, NEW p \in Offsets
  PROVE  Onward(b, t, p) \in Offsets
<1>1. EntryLen(b, p) \in Nat /\ p \in Int
  BY LenNat, Sizes
<1>2. p + EntryLen(b, p) \in Int
  BY <1>1
<1> QED
  BY <1>2, OffsetIs DEF Onward

\* There are that many places or more.
LEMMA Rounds ==
  /\ Size \div HeaderLen \in Nat /\ Size < 3 * (Size \div HeaderLen) + 1
BY Sizes

LEMMA WayIs ==
  ASSUME NEW b \in [Offsets -> 0 .. Byte - 1], NEW t, NEW off \in Offsets
  PROVE  \E f : IsWay(f, b, t, off)
<1> DEFINE K == Size \div HeaderLen
           step == [x \in (1 .. K) \X Offsets |-> Onward(b, t, x[2])]
           Def(f) == f = [k \in 0 .. K |->
                            IF k = 0 THEN off
                            ELSE IF f[k - 1] = t THEN f[k - 1]
                                 ELSE logger_offset(f[k - 1] + EntryLen(b, f[k - 1]))]
           Def2(f) == f = [k \in 0 .. K |-> IF k = 0 THEN off ELSE Onward(b, t, f[k - 1])]
           place == CHOOSE f : Def(f)
<1>1. K \in Nat
  BY Rounds
<1>2. ChainOf(b, t, off) = {place[k] : k \in 0 .. K}
  BY DEF ChainOf
<1>3. ASSUME NEW f PROVE Def(f) <=> Def2(f)
  BY DEF Onward
<1> HIDE DEF K
<1>4. step \in [(1 .. K) \X Offsets -> Offsets]
  BY OnwardType
<1>5. \A k \in 1 .. K, p \in Offsets : step[<<k, p>>] = Onward(b, t, p)
  OBVIOUS
<1>6. \E f : Def2(f)
  <2> HIDE DEF step
  <2>0. PICK f : IsRecursion(f, K, Offsets, off, step)
    BY <1>1, <1>4, RecursionExists
  <2>1. /\ f \in [0 .. K -> Offsets] /\ f[0] = off
        /\ \A k \in 1 .. K : f[k] = step[<<k, f[k - 1]>>]
    BY <2>0 DEF IsRecursion
  <2>2. ASSUME NEW k \in 1 .. K PROVE f[k] = Onward(b, t, f[k - 1])
    <3>1. k - 1 \in 0 .. K
      BY <1>1
    <3> QED
      BY <1>5, <2>1, <3>1
  <2>3. \A k \in 0 .. K : f[k] = IF k = 0 THEN off ELSE Onward(b, t, f[k - 1])
    <3> TAKE k \in 0 .. K
    <3>1. k = 0 \/ (k # 0 /\ k \in 1 .. K)
      BY <1>1
    <3> QED
      BY <2>1, <2>2, <3>1
  <2>4. f = [k \in 0 .. K |-> f[k]]
    BY <2>1
  <2>5. Def2(f)
    BY <2>3, <2>4, Zenon
  <2> QED
    BY <2>5, Zenon
<1>7. Def2(place)
  <2> HIDE DEF Def2
  <2>1. PICK f : Def2(f)
    BY <1>6
  <2>2. Def(f)
    BY <1>3, <2>1, Zenon
  <2>3. Def(place)
    BY <2>2, Zenon
  <2> QED
    BY <1>3, <2>3, Zenon
<1> HIDE DEF place
<1>8. /\ place[0] = off
      /\ \A k \in 1 .. K : place[k] = Onward(b, t, place[k - 1])
      /\ place = [k \in 0 .. K |-> place[k]]
  <2>1. 0 \in 0 .. K /\ \A k \in 1 .. K : k \in 0 .. K /\ k # 0
    BY <1>1
  <2>2. place[0] = off /\ \A k \in 1 .. K : place[k] = Onward(b, t, place[k - 1])
    BY <1>7, <2>1, Zenon
  <2> QED
    BY <1>7, <2>2
<1>9. \A k \in 0 .. K : place[k] \in Offsets
  <2> DEFINE P == {k \in 0 .. K : place[k] \in Offsets}
  <2>1. 0 \in P
    BY <1>1, <1>8
  <2>2. ASSUME NEW k \in 0 .. K - 1, k \in P PROVE k + 1 \in P
    <3>1. k + 1 \in 1 .. K /\ k + 1 \in 0 .. K /\ (k + 1) - 1 = k
      BY <1>1
    <3>2. place[k + 1] = Onward(b, t, place[k])
      BY <1>8, <3>1
    <3>3. place[k + 1] \in Offsets
      BY <2>2, <3>2, OnwardType
    <3> QED
      BY <3>1, <3>3
  <2> HIDE DEF P
  <2>3. 0 .. K \subseteq P
    BY <1>1, <2>1, <2>2, Induction
  <2> QED
    BY <2>3 DEF P
<1>10. place \in [0 .. K -> Offsets]
  BY <1>8, <1>9
<1>11. IsWay(place, b, t, off)
  BY <1>2, <1>8, <1>10 DEF IsWay, K
<1> QED
  BY <1>11

\* The place after an entry of a ring is nearer to its end.
LEMMA OnwardIn ==
  ASSUME NEW b, NEW S, NEW e \in Offsets, NEW u, Ring(b, S, e, u), NEW p \in S, NEW t, p # t
  PROVE  /\ p \in Offsets /\ Back(p, e) \in 1 .. Size
         /\ \/ Onward(b, t, p) = e
            \/ Onward(b, t, p) \in S /\ Back(Onward(b, t, p), e) <= Back(p, e) - 3
<1> DEFINE l == EntryLen(b, p)
           d == Back(p, e)
           q == logger_offset(p + l)
<1>1. p \in Offsets /\ l \in 3 .. 2 + MaxPayload /\ l <= d /\ (l = d \/ q \in S)
  BY DEF Ring, EntryOK
<1>2. Size \in Nat /\ Size >= 6 /\ MaxPayload \in Nat
  BY Sizes
<1>3. d \in 1 .. Size
  BY <1>1, <1>2 DEF Back, Offsets
<1>4. Onward(b, t, p) = q
  BY DEF Onward
<1>5. l \in 0 .. d
  BY <1>1, <1>2, <1>3
<1>6. /\ l < d => Back(q, e) = d - l
      /\ l = d => q = e
  BY <1>1, <1>5, Forward
<1> HIDE DEF l, d, q
<1>7. q = e \/ (q \in S /\ Back(q, e) <= d - 3)
  BY <1>1, <1>2, <1>3, <1>6
<1> QED
  BY <1>1, <1>3, <1>4, <1>7 DEF d

\* From an entry of a ring the chain comes to its end, unless it would come to t
\* before.
LEMMA WayReaches ==
  ASSUME NEW b \in [Offsets -> 0 .. Byte - 1], NEW S, NEW e \in Offsets, NEW u, Ring(b, S, e, u),
         NEW off \in S \cup {e}, NEW t \in Offsets,
         t = e \/ off = e \/ Back(off, e) < Back(t, e)
  PROVE  e \in ChainOf(b, t, off)
<1> DEFINE K == Size \div HeaderLen
<1>0. K \in Nat /\ Size < 3 * K + 1 /\ Size \in Nat /\ Size >= 6
  BY Rounds, Sizes
<1>1. off \in Offsets
  BY DEF Ring, EntryOK
<1>2. PICK f : IsWay(f, b, t, off)
  BY <1>1, WayIs
<1>3. /\ f \in [0 .. K -> Offsets] /\ f[0] = off
      /\ \A k \in 1 .. K : f[k] = Onward(b, t, f[k - 1])
      /\ ChainOf(b, t, off) = {f[k] : k \in 0 .. K}
  BY <1>2 DEF IsWay
<1> HIDE DEF K
<1> SUFFICES ASSUME \A k \in 0 .. K : f[k] # e PROVE FALSE
  BY <1>3
<1> DEFINE P == {k \in 0 .. K : f[k] \in S /\ Back(f[k], e) <= Back(off, e) - 3 * k}
<1>4. off \in S /\ Back(off, e) \in 1 .. Size /\ Back(t, e) \in 1 .. Size
  <2>1. off # e
    BY <1>0, <1>3
  <2> QED
    BY <1>0, <1>1, <2>1 DEF Back, Offsets
<1>5. 0 \in P
  BY <1>0, <1>3, <1>4
<1>6. ASSUME NEW k \in 0 .. K - 1, k \in P PROVE k + 1 \in P
  <2>1. k + 1 \in 1 .. K /\ k + 1 \in 0 .. K /\ (k + 1) - 1 = k /\ k \in 0 .. K
    BY <1>0
  <2> DEFINE p == f[k]
  <2>2. p \in S /\ Back(p, e) <= Back(off, e) - 3 * k /\ p # e /\ p \in Offsets
    BY <1>3, <1>6, <2>1
  <2>3. Back(p, e) \in 1 .. Size
    BY <1>0, <2>2, SMTT(30) DEF Back, Offsets
  <2>4. p # t
    <3>1. CASE t = e
      BY <2>2, <3>1
    <3>2. CASE Back(off, e) < Back(t, e)
      <4>1. Back(p, e) < Back(t, e)
        BY <1>0, <1>4, <2>2, <2>3, <3>2
      <4> QED
        BY <1>4, <4>1
    <3>3. off # e
      BY <1>0, <1>3
    <3> QED
      BY <3>1, <3>2, <3>3
  <2>5. f[k + 1] = Onward(b, t, p)
    BY <1>3, <2>1
  <2>6. f[k + 1] # e
    BY <2>1
  <2> HIDE DEF p
  <2>7. f[k + 1] \in S /\ Back(f[k + 1], e) <= Back(p, e) - 3
    BY <2>2, <2>4, <2>5, <2>6, OnwardIn
  <2>8. Back(f[k + 1], e) \in Int
    <3>1. f[k + 1] \in Offsets
      BY <1>3, <2>1
    <3> QED
      BY <1>0, <3>1 DEF Back, Offsets
  <2>9. Back(f[k + 1], e) <= Back(off, e) - 3 * (k + 1)
    BY <1>0, <1>4, <2>2, <2>3, <2>7, <2>8
  <2> QED
    BY <2>1, <2>7, <2>9
<1> HIDE DEF P
<1>7. 0 .. K \subseteq P
  BY <1>0, <1>5, <1>6, Induction
<1>8. Back(f[K], e) <= Back(off, e) - 3 * K /\ f[K] \in Offsets
  BY <1>0, <1>3, <1>7 DEF P
<1>9. Back(f[K], e) \in 1 .. Size
  BY <1>0, <1>8, SMTT(30) DEF Back, Offsets
<1> QED
  BY <1>0, <1>4, <1>8, <1>9

\* It leads from entry to entry.
LEMMA WayIn ==
  ASSUME NEW b \in [Offsets -> 0 .. Byte - 1], NEW S, NEW e \in Offsets, NEW u, Ring(b, S, e, u),
         NEW off \in S \cup {e}
  PROVE  ChainOf(b, e, off) \subseteq S \cup {e}
<1> DEFINE K == Size \div HeaderLen
<1>0. K \in Nat
  BY Rounds
<1>1. off \in Offsets
  BY DEF Ring, EntryOK
<1>2. PICK f : IsWay(f, b, e, off)
  BY <1>1, WayIs
<1>3. /\ f \in [0 .. K -> Offsets] /\ f[0] = off
      /\ \A k \in 1 .. K : f[k] = Onward(b, e, f[k - 1])
      /\ ChainOf(b, e, off) = {f[k] : k \in 0 .. K}
  BY <1>2 DEF IsWay
<1> HIDE DEF K
<1> DEFINE P == {k \in 0 .. K : f[k] \in S \cup {e}}
<1>4. 0 \in P
  BY <1>0, <1>3
<1>5. ASSUME NEW k \in 0 .. K - 1, k \in P PROVE k + 1 \in P
  <2>1. k + 1 \in 1 .. K /\ k + 1 \in 0 .. K /\ (k + 1) - 1 = k
    BY <1>0
  <2>2. f[k + 1] = Onward(b, e, f[k]) /\ f[k] \in S \cup {e}
    BY <1>3, <1>5, <2>1
  <2>3. CASE f[k] = e
    BY <2>1, <2>2, <2>3 DEF Onward
  <2>4. CASE f[k] # e
    <3>1. Onward(b, e, f[k]) \in S \cup {e}
      BY <2>2, <2>4, OnwardIn
    <3> QED
      BY <2>1, <2>2, <3>1
  <2> QED
    BY <2>3, <2>4
<1> HIDE DEF P
<1>6. 0 .. K \subseteq P
  BY <1>0, <1>4, <1>5, Induction
<1> QED
  BY <1>3, <1>6 DEF P

-----------------------------------------------------------------------------
(* The properties.                                                         *)

LEMMA FramingHolds == Basic /\ LogInv => Framing
<1> SUFFICES ASSUME Basic, LogInv, ~Writing, NEW off \in Positions
             PROVE  w_off \in Chain(off) /\ Chain(off) \subseteq starts \cup {w_off}
  BY DEF Framing
<1>1. Ring(buffer, starts, w_off, 0) /\ off \in starts \cup {w_off}
  BY DEF LogInv, Whole0
<1>2. buffer \in [Offsets -> 0 .. Byte - 1] /\ w_off \in Offsets
  BY DEF Basic, TypeOK
<1>3. w_off \in ChainOf(buffer, w_off, off)
  BY <1>1, <1>2, WayReaches
<1>4. ChainOf(buffer, w_off, off) \subseteq starts \cup {w_off}
  BY <1>1, <1>2, WayIn
<1> QED
  BY <1>3, <1>4, ChainSame

\* If no write of logger_aio_write fails beside another writer, whole entries
\* follow one another from the head and from wherever a reader is up to the write
\* offset: fix_up_readers, with the list of readers changing under it, leaves
\* nobody in the entries that are overwritten, and get_next_entry, which reads
\* lengths from the buffer, never runs past the write offset.
THEOREM EntriesAreFramed ==
  ASSUME NoRollback
  PROVE  Spec => []Framing
<1>1. Init => Basic /\ LogInv
  BY InitBasic, InitLog
<1>2. Basic /\ LogInv /\ [Next]_vars => (Basic /\ LogInv)'
  BY NextBasic, NextLog
<1>3. Basic /\ LogInv => Framing
  BY FramingHolds
<1> QED
  BY <1>1, <1>2, <1>3, PTL DEF Spec

\* The step with which a write succeeds is its last segment.
LEMMA Succeeds ==
  ASSUME Basic, [Next]_vars, NEW w \in Writers, wpc[w] = "payload", wpc'[w] = "wake"
  PROVE  \E n \in 0 .. MaxPayload : WriteSegment(w, n) /\ local[w].ret + n = local[w].len
<1>1. wpc \in [Writers -> {"idle", "write", "fix_up", "payload", "wake", "flush"}]
  BY DEF Basic, TypeOK
<1>2. CASE UNCHANGED vars
  BY <1>2 DEF vars
<1>3. ASSUME NEW v \in Writers, NEW len, WriteStart(v, len) PROVE FALSE
  BY <1>1, <1>3 DEF WriteStart
<1>4. ASSUME NEW v \in Writers, WriteLock(v) \/ FlushLock(v) \/ WriteHeader(v) \/ WriteWake(v) \/ FlushEnd(v) PROVE FALSE
  BY <1>1, <1>4 DEF WriteLock, FlushLock, WriteHeader, WriteWake, FlushEnd
<1>5. ASSUME NEW v \in Writers, WalkReader(v) PROVE FALSE
  BY <1>5 DEF WalkReader
<1>6. ASSUME NEW v \in Writers, NEW n, WriteFault(v, n) PROVE FALSE
  BY <1>1, <1>6 DEF WriteFault
<1>7. ASSUME NEW r \in Readers, logger_open(r) \/ logger_release(r) PROVE FALSE
  BY <1>7 DEF logger_open, logger_release
<1>8. ASSUME NEW r \in Readers, CallStep(r) PROVE FALSE
  BY <1>8, CallLeaves
<1>9. ASSUME NEW v \in Writers, NEW n \in 0 .. MaxPayload, WriteSegment(v, n)
      PROVE  WriteSegment(w, n) /\ local[w].ret + n = local[w].len
  BY <1>1, <1>9 DEF WriteSegment
<1> QED
  BY <1>2, <1>3, <1>4, <1>5, <1>6, <1>7, <1>8, <1>9, Steps

LEMMA AheadStep ==
  ASSUME NoRollback, Basic, LogInv, [Next]_vars,
         NEW w \in Writers, wpc[w] = "payload", wpc'[w] = "wake", NEW off \in Positions'
  PROVE  off # w_off' /\ logger_offset(w_off' - HeaderLen - local[w].len) \in Chain(off)'
<1>1. PICK n \in 0 .. MaxPayload : WriteSegment(w, n) /\ local[w].ret + n = local[w].len
  BY Succeeds
<1>2. Size \in Nat /\ Size >= 6 /\ HeaderLen = 2 /\ MaxPayload \in Nat /\ Size >= 2 * (2 + MaxPayload)
  BY Sizes
<1>3. /\ n \in 1 .. local[w].len - local[w].ret
      /\ buffer' = Store(w_off, Payload(n)) /\ w_off' = logger_offset(w_off + n)
      /\ UNCHANGED <<head, readers, r_off>>
  BY <1>1 DEF WriteSegment
<1>4. /\ Total(w) \in 3 .. 2 + MaxPayload /\ Total(w) = 2 + local[w].len
      /\ local[w].len \in 1 .. MaxPayload /\ local[w].ret \in 0 .. MaxPayload
  BY TotalIs
<1>5. PICK e \in Offsets : Half(w, e)
  BY DEF LogInv
<1>6. PICK T : T = Whole(w_off, n)
  OBVIOUS
<1>7. PICK m \in 3 .. 2 + MaxPayload : m = Total(w)
  BY <1>4
<1>8. HeaderLen + local[w].ret + n = m
  BY <1>1, <1>2, <1>4, <1>7
<1>9. /\ Ring(buffer', T, e, m) /\ \A p \in Positions : Clear(p, T, e, m)
      /\ w_off' = logger_offset(e + m)
  <2>1. n \in 0 .. local[w].len - local[w].ret
    BY <1>3, <1>4
  <2> QED
    BY <1>3, <1>5, <1>6, <1>7, <1>8, <2>1, MoreCells
<1>10. Positions' = Positions
  BY <1>3 DEF Positions, Opened
<1>11. Clear(off, T, e, m)
  BY <1>9, <1>10
<1> DEFINE t == logger_offset(e + m)
<1>12. e \in 0 .. Size - 1 /\ e + m \in 0 .. 2 * Size - 1
  BY <1>2, Sizes
<1>13. t = (IF e + m < Size THEN e + m ELSE e + m - Size) /\ t \in Offsets /\ t \in 0 .. Size - 1
  BY <1>2, <1>12, OffsetIs
<1>14. Back(t, e) = Size - m /\ t # e
  BY <1>2, <1>12, <1>13 DEF Back
<1>15. off \in T \cup {e} /\ (off = e \/ Back(off, e) < Back(t, e))
  BY <1>11, <1>14 DEF Clear
<1>16. off # t
  <2>1. Back(t, e) \in Int
    BY <1>2, <1>14
  <2> QED
    BY <1>14, <1>15, <2>1
<1>17. buffer' \in [Offsets -> 0 .. Byte - 1]
  BY <1>1, SegmentBasic DEF Basic, TypeOK
<1>18. e \in ChainOf(buffer', t, off)
  BY <1>9, <1>13, <1>15, <1>17, WayReaches
<1>19. logger_offset(w_off' - HeaderLen - local[w].len) = e
  <2>1. m \in 0 .. Size /\ 0 \in 0 .. Size /\ m + 0 < Size
    BY <1>2
  <2>2. logger_offset(t + 0 - (m + 0)) = e
    BY <2>1, GoOn
  <2>3. t + 0 - (m + 0) = t - HeaderLen - local[w].len
    BY <1>2, <1>4, <1>7, <1>13
  <2> QED
    BY <1>9, <2>2, <2>3
<1> QED
  BY <1>9, <1>16, <1>18, <1>19, ChainSame

\* When a write of logger_aio_write succeeds, and none fails beside another
\* writer, the entry is ahead of the head and of every reader, so that a reader
\* the writer has lapped is never left at the new write offset, where
\* logger_read would take the log for empty.
THEOREM EntryIsAhead ==
  ASSUME NoRollback
  PROVE  Spec => NewEntryAhead
<1>1. Init => Basic /\ LogInv
  BY InitBasic, InitLog
<1>2. Basic /\ LogInv /\ [Next]_vars => (Basic /\ LogInv)'
  BY NextBasic, NextLog
<1> DEFINE Step == \A w \in Writers : wpc[w] = "payload" /\ wpc'[w] = "wake" =>
       \A off \in Positions' :
         /\ off # w_off'
         /\ logger_offset(w_off' - HeaderLen - local[w].len) \in Chain(off)'
<1>3. Basic /\ LogInv /\ [Next]_vars => Step
  BY AheadStep
<1> HIDE DEF Step
<1>4. Spec => [][Step]_vars
  BY <1>1, <1>2, <1>3, PTL DEF Spec
<1> QED
  BY <1>4 DEF NewEntryAhead, Step
=============================================================================
