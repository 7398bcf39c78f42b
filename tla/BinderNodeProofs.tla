-------------------------- MODULE BinderNodeProofs --------------------------
(***************************************************************************)
(* The reference counts of the binder driver are exact, and the owner is   *)
(* told of every change, for any number of threads, clients and buffers.   *)
(*                                                                         *)
(* The first half is about the counting functions, on a triple k of node,  *)
(* work list and refs, the second about the actions.                       *)
(***************************************************************************)
EXTENDS BinderNode, FiniteSetTheorems, TLAPS

NodeType == [live : BOOLEAN, dead : BOOLEAN, is : Nat, ls : Nat, lw : Nat,
             hs : BOOLEAN, hw : BOOLEAN, ps : BOOLEAN, pw : BOOLEAN]
WorkType == Threads \cup {"proc", "none"}
RefType == [live : BOOLEAN, s : Nat, w : Nat]
KernelType == [n : NodeType, wk : WorkType, r : [Clients -> RefType]]

\* What calls for a strong and for a weak reference on the object.
StrongK(k) == k.n.is > 0 \/ k.n.ls > 0
WeakK(k) == HasRefs(k) \/ k.n.lw > 0 \/ StrongK(k)

StrongRefs(r) == {c \in Clients : r[c].s > 0}

\* A freed node leaves nothing behind, a dead one has only refs.
Structure(k) ==
  /\ k \in KernelType
  /\ ~k.n.live => k.n = NoNode /\ k.wk = "none" /\ ~HasRefs(k)
  /\ \A c \in Clients : ~k.r[c].live => k.r[c] = NoRef
  /\ k.n.dead => k.n.ls = 0 /\ k.n.lw = 0 /\ k.wk = "none"
  /\ (k.n.ps => k.n.hs) /\ (k.n.pw => k.n.hw)

Idle(k) == k.n.live /\ ~k.n.dead /\ k.wk = "none"

Pending(k) == Idle(k) => (WeakK(k) <=> k.n.hw) /\ (StrongK(k) <=> k.n.hs)

KInv(k) ==
  /\ Structure(k)
  /\ Pending(k)
  /\ k.n.is = Cardinality(StrongRefs(k.r))

-----------------------------------------------------------------------------
One(x) == IF x THEN 1 ELSE 0

\* Counting a set that gains or loses at most x.
LEMMA CountChange ==
  ASSUME NEW U, IsFiniteSet(U), NEW S \in SUBSET U, NEW T \in SUBSET U, NEW x,
         \A y \in U \ {x} : y \in S <=> y \in T, x \notin S
  PROVE  /\ Cardinality(S) \in Nat /\ Cardinality(T) \in Nat
         /\ Cardinality(T) = Cardinality(S) + One(x \in T)
<1>1. IsFiniteSet(S) /\ IsFiniteSet(T)
  BY FS_Subset
<1>2. Cardinality(S) \in Nat /\ Cardinality(T) \in Nat
  BY <1>1, FS_CardinalityType
<1>3. CASE x \in T
  <2>1. T = S \cup {x}
    BY <1>3
  <2> QED
    BY <1>1, <1>2, <1>3, <2>1, FS_AddElement DEF One
<1>4. CASE x \notin T
  <2>1. T = S
    BY <1>4
  <2> QED
    BY <1>2, <1>4, <2>1 DEF One
<1> QED
  BY <1>2, <1>3, <1>4

\* The cardinality of a part of a finite set, and whether there is anything in it.
LEMMA CountType ==
  ASSUME NEW U, IsFiniteSet(U), NEW S \in SUBSET U
  PROVE  Cardinality(S) \in Nat /\ (Cardinality(S) = 0 <=> S = {}) /\ (Cardinality(S) > 0 <=> S # {})
<1>1. IsFiniteSet(S)
  BY FS_Subset
<1>2. Cardinality(S) \in Nat
  BY <1>1, FS_CardinalityType
<1>3. Cardinality(S) = 0 <=> S = {}
  BY <1>1, FS_EmptySet
<1> QED
  BY <1>2, <1>3

-----------------------------------------------------------------------------
\* m differs from n at most in the three counts.
SameFlags(n, m) ==
  /\ m.live = n.live /\ m.dead = n.dead
  /\ m.hs = n.hs /\ m.hw = n.hw /\ m.ps = n.ps /\ m.pw = n.pw

\* m is k with i, s and w more on the three counts.
Recounts(k, m, i, s, w) ==
  /\ m \in KernelType /\ m.r = k.r /\ m.wk = k.wk /\ SameFlags(k.n, m.n)
  /\ m.n.is = k.n.is + i /\ m.n.ls = k.n.ls + s /\ m.n.lw = k.n.lw + w

\* What AddCount does, kind by kind.
LEMMA AddInternal ==
  ASSUME NEW k \in KernelType, NEW i \in Int, k.n.is + i >= 0
  PROVE  Recounts(k, AddCount(k, TRUE, TRUE, i), i, 0, 0)
<1> DEFINE q == [k.n EXCEPT !.is = @ + i]
           m == [k EXCEPT !.n = q]
<1>1. k.n \in NodeType
  BY DEF KernelType
<1>2. k.n.is \in Nat /\ k.n.ls \in Nat /\ k.n.lw \in Nat /\ k.n.is + i \in Nat
  BY <1>1 DEF NodeType
<1>3. q \in NodeType /\ q.is = k.n.is + i /\ q.ls = k.n.ls /\ q.lw = k.n.lw /\ SameFlags(k.n, q)
  BY <1>1, <1>2 DEF NodeType, SameFlags
<1>4. AddCount(k, TRUE, TRUE, i) = m
  BY DEF AddCount, KernelType
<1> HIDE DEF q
<1>5. m \in KernelType /\ m.n = q /\ m.r = k.r /\ m.wk = k.wk
  BY <1>3 DEF KernelType
<1> HIDE DEF m
<1>6. k.n.is = k.n.is + 0 /\ k.n.ls = k.n.ls + 0 /\ k.n.lw = k.n.lw + 0
  BY <1>2
<1>7. Recounts(k, m, i, 0, 0)
  BY <1>3, <1>5, <1>6 DEF Recounts
<1> QED
  BY <1>4, <1>7

\* The same for local_strong_refs.
LEMMA AddLocal ==
  ASSUME NEW k \in KernelType, NEW i \in Int, k.n.ls + i >= 0
  PROVE  Recounts(k, AddCount(k, TRUE, FALSE, i), 0, i, 0)
<1> DEFINE q == [k.n EXCEPT !.ls = @ + i]
           m == [k EXCEPT !.n = q]
<1>1. k.n \in NodeType
  BY DEF KernelType
<1>2. k.n.is \in Nat /\ k.n.ls \in Nat /\ k.n.lw \in Nat /\ k.n.ls + i \in Nat
  BY <1>1 DEF NodeType
<1>3. q \in NodeType /\ q.is = k.n.is /\ q.ls = k.n.ls + i /\ q.lw = k.n.lw /\ SameFlags(k.n, q)
  BY <1>1, <1>2 DEF NodeType, SameFlags
<1>4. AddCount(k, TRUE, FALSE, i) = m
  BY DEF AddCount, KernelType
<1> HIDE DEF q
<1>5. m \in KernelType /\ m.n = q /\ m.r = k.r /\ m.wk = k.wk
  BY <1>3 DEF KernelType
<1> HIDE DEF m
<1>6. k.n.is = k.n.is + 0 /\ k.n.ls = k.n.ls + 0 /\ k.n.lw = k.n.lw + 0
  BY <1>2
<1>7. Recounts(k, m, 0, i, 0)
  BY <1>3, <1>5, <1>6 DEF Recounts
<1> QED
  BY <1>4, <1>7

\* And for local_weak_refs.
LEMMA AddWeak ==
  ASSUME NEW k \in KernelType, NEW i \in Int, k.n.lw + i >= 0
  PROVE  Recounts(k, AddCount(k, FALSE, FALSE, i), 0, 0, i)
<1> DEFINE q == [k.n EXCEPT !.lw = @ + i]
           m == [k EXCEPT !.n = q]
<1>1. k.n \in NodeType
  BY DEF KernelType
<1>2. k.n.is \in Nat /\ k.n.ls \in Nat /\ k.n.lw \in Nat /\ k.n.lw + i \in Nat
  BY <1>1 DEF NodeType
<1>3. q \in NodeType /\ q.is = k.n.is /\ q.ls = k.n.ls /\ q.lw = k.n.lw + i /\ SameFlags(k.n, q)
  BY <1>1, <1>2 DEF NodeType, SameFlags
<1>4. AddCount(k, FALSE, FALSE, i) = m
  BY DEF AddCount, KernelType
<1> HIDE DEF q
<1>5. m \in KernelType /\ m.n = q /\ m.r = k.r /\ m.wk = k.wk
  BY <1>3 DEF KernelType
<1> HIDE DEF m
<1>6. k.n.is = k.n.is + 0 /\ k.n.ls = k.n.ls + 0 /\ k.n.lw = k.n.lw + 0
  BY <1>2
<1>7. Recounts(k, m, 0, 0, i)
  BY <1>3, <1>5, <1>6 DEF Recounts
<1> QED
  BY <1>4, <1>7

\* No weak count is kept for the refs.
LEMMA AddNone ==
  ASSUME NEW k \in KernelType, NEW i
  PROVE  Recounts(k, AddCount(k, FALSE, TRUE, i), 0, 0, 0)
<1>1. k.n.is \in Nat /\ k.n.ls \in Nat /\ k.n.lw \in Nat
  BY DEF KernelType, NodeType
<1> QED
  BY <1>1 DEF AddCount, Recounts, SameFlags

\* d is k with i, s and w less on internal_strong_refs, local_strong_refs and
\* local_weak_refs; a node that this leaves without any is freed, and the
\* owner is told of one that it has references for.
GivesBack(k, d, i, s, w) ==
  /\ d.r = k.r
  /\ \/ /\ d.n = NoNode /\ d.wk = "none" /\ ~HasRefs(k)
        /\ k.n.is = i /\ k.n.ls = s /\ k.n.lw = w
        /\ k.n.dead \/ (~k.n.hs /\ ~k.n.hw)
     \/ /\ SameFlags(k.n, d.n)
        /\ d.n.is = k.n.is - i /\ d.n.ls = k.n.ls - s /\ d.n.lw = k.n.lw - w
        /\ d.wk = k.wk \/ (k.wk = "none" /\ d.wk = "proc" /\ ~k.n.dead)

\* The tail of binder_dec_node.
LEMMA UnusedGivesBack ==
  ASSUME NEW k \in KernelType, Structure(k), ~HasRefs(k) => k.n.is = 0,
         Idle(k) => k.n.hw \/ k.n.hs
  PROVE  /\ Structure(NodeUnused(k))
         /\ GivesBack(k, NodeUnused(k), 0, 0, 0)
         /\ ~Idle(NodeUnused(k))
<1> DEFINE d == NodeUnused(k)
<1>0. SameFlags(k.n, k.n) /\ k.n.is = k.n.is - 0 /\ k.n.ls = k.n.ls - 0 /\ k.n.lw = k.n.lw - 0
  BY DEF KernelType, NodeType, SameFlags
<1>1. CASE ~k.n.dead /\ (k.n.hs \/ k.n.hw)
  <2>1. d.n = k.n /\ d.r = k.r /\ d.wk = (IF k.wk = "none" THEN "proc" ELSE k.wk) /\ d \in KernelType
    BY <1>1 DEF NodeUnused, KernelType, WorkType
  <2>2. HasRefs(d) <=> HasRefs(k)
    BY <2>1 DEF HasRefs
  <2>3. k.n.live
    BY <1>1 DEF Structure, NoNode
  <2> HIDE DEF d
  <2>4. Structure(d)
    BY <1>1, <2>1, <2>2, <2>3 DEF Structure
  <2>5. GivesBack(k, d, 0, 0, 0)
    BY <1>0, <1>1, <2>1 DEF GivesBack
  <2>6. ~Idle(d)
    BY <2>1 DEF Idle
  <2> QED
    BY <2>4, <2>5, <2>6 DEF d
<1>2. CASE ~(~k.n.dead /\ (k.n.hs \/ k.n.hw)) /\ ~HasRefs(k) /\ k.n.ls = 0 /\ k.n.lw = 0
  <2>1. d.n = NoNode /\ d.r = k.r /\ d.wk = "none" /\ d \in KernelType
    BY <1>2 DEF NodeUnused, KernelType, WorkType, NodeType, NoNode
  <2>2. HasRefs(d) <=> HasRefs(k)
    BY <2>1 DEF HasRefs
  <2> HIDE DEF d
  <2>3. ~d.n.live /\ ~d.n.dead /\ ~d.n.ps /\ ~d.n.pw
    BY <2>1 DEF NoNode
  <2>4. Structure(d)
    BY <1>2, <2>1, <2>2, <2>3 DEF Structure
  <2>5. GivesBack(k, d, 0, 0, 0)
    BY <1>2, <2>1 DEF GivesBack
  <2>6. ~Idle(d)
    BY <2>3 DEF Idle
  <2> QED
    BY <2>4, <2>5, <2>6 DEF d
<1>3. CASE ~(~k.n.dead /\ (k.n.hs \/ k.n.hw)) /\ ~(~HasRefs(k) /\ k.n.ls = 0 /\ k.n.lw = 0)
  <2>1. d = k
    BY <1>3 DEF NodeUnused
  <2>2. GivesBack(k, k, 0, 0, 0)
    BY <1>0 DEF GivesBack
  <2>3. ~Idle(k)
    BY <1>3 DEF Idle
  <2> QED
    BY <2>1, <2>2, <2>3
<1> QED
  BY <1>1, <1>2, <1>3

\* A change of counts keeps the structure of a node that is not dead.
LEMMA RecountStructure ==
  ASSUME NEW k, Structure(k), k.n.live, NEW m, NEW i, NEW s, NEW w, Recounts(k, m, i, s, w),
         k.n.dead => s = 0 /\ w = 0
  PROVE  /\ Structure(m) /\ m.n.live
         /\ HasRefs(m) <=> HasRefs(k)
         /\ Idle(m) <=> Idle(k)
<1>1. HasRefs(m) <=> HasRefs(k)
  BY DEF Recounts, HasRefs
<1>2. k \in KernelType /\ m \in KernelType /\ m.r = k.r /\ m.wk = k.wk
  BY DEF Structure, Recounts
<1>3. /\ m.n.live = k.n.live /\ m.n.dead = k.n.dead
      /\ m.n.hs = k.n.hs /\ m.n.hw = k.n.hw /\ m.n.ps = k.n.ps /\ m.n.pw = k.n.pw
  BY DEF Recounts, SameFlags
<1>4. k.n.dead => m.n.ls = 0 /\ m.n.lw = 0
  BY DEF Recounts, Structure
<1> QED
  BY <1>1, <1>2, <1>3, <1>4 DEF Structure, Idle

\* The end of binder_dec_node, with m the triple after the count has been
\* dropped: if it was the last of its kind, NodeUnused follows.
LEMMA DecEnds ==
  ASSUME NEW k, Structure(k), k.n.live, NEW m, NEW i, NEW s, NEW w, Recounts(k, m, 0 - i, 0 - s, 0 - w),
         i \in Nat, s \in Nat, w \in Nat,
         k.n.dead => s = 0 /\ w = 0, ~HasRefs(k) => m.n.is = 0,
         Idle(k) => k.n.hw
  PROVE  LET u == NodeUnused(m)
         IN  /\ Structure(m) /\ GivesBack(k, m, i, s, w) /\ m.n.live /\ (HasRefs(m) <=> HasRefs(k))
             /\ Structure(u) /\ GivesBack(k, u, i, s, w) /\ ~Idle(u)
<1> DEFINE u == NodeUnused(m)
<1>1. /\ Structure(m) /\ m.n.live
      /\ HasRefs(m) <=> HasRefs(k)
      /\ Idle(m) <=> Idle(k)
  BY RecountStructure
<1>2. k.n.is \in Nat /\ k.n.ls \in Nat /\ k.n.lw \in Nat
  BY DEF Structure, KernelType, NodeType
<1>3. m.n.is = k.n.is - i /\ m.n.ls = k.n.ls - s /\ m.n.lw = k.n.lw - w /\ m.r = k.r /\ m.wk = k.wk
  BY <1>2 DEF Recounts
<1>4. SameFlags(k.n, m.n) /\ m \in KernelType
  BY DEF Recounts
<1>5. GivesBack(k, m, i, s, w)
  BY <1>3, <1>4 DEF GivesBack
<1>6. Structure(u) /\ GivesBack(m, u, 0, 0, 0) /\ ~Idle(u)
  BY <1>1, <1>4, UnusedGivesBack DEF SameFlags
<1> HIDE DEF u
<1>7. GivesBack(k, u, i, s, w)
  <2>1. u.r = k.r
    BY <1>3, <1>6 DEF GivesBack
  <2>2. CASE SameFlags(m.n, u.n) /\ u.n.is = m.n.is - 0 /\ u.n.ls = m.n.ls - 0 /\ u.n.lw = m.n.lw - 0
             /\ (u.wk = m.wk \/ (m.wk = "none" /\ u.wk = "proc" /\ ~m.n.dead))
    <3>1. u.n.is = k.n.is - i /\ u.n.ls = k.n.ls - s /\ u.n.lw = k.n.lw - w
      BY <1>2, <1>3, <2>2
    <3>2. SameFlags(k.n, u.n)
      BY <1>4, <2>2 DEF SameFlags
    <3>3. u.wk = k.wk \/ (k.wk = "none" /\ u.wk = "proc" /\ ~k.n.dead)
      BY <1>3, <1>4, <2>2 DEF SameFlags
    <3> QED
      BY <2>1, <3>1, <3>2, <3>3 DEF GivesBack
  <2>3. CASE u.n = NoNode /\ u.wk = "none" /\ ~HasRefs(m) /\ m.n.is = 0 /\ m.n.ls = 0 /\ m.n.lw = 0
             /\ (m.n.dead \/ (~m.n.hs /\ ~m.n.hw))
    <3>1. k.n.is = i /\ k.n.ls = s /\ k.n.lw = w
      BY <1>2, <1>3, <2>3
    <3>2. ~HasRefs(k)
      BY <1>1, <2>3
    <3>3. k.n.dead \/ (~k.n.hs /\ ~k.n.hw)
      BY <1>4, <2>3 DEF SameFlags
    <3> QED
      BY <2>1, <2>3, <3>1, <3>2, <3>3 DEF GivesBack
  <2> QED
    BY <1>6, <2>2, <2>3 DEF GivesBack
<1> QED
  BY <1>1, <1>5, <1>6, <1>7 DEF u

\* binder_dec_node of the strong count that a client's ref stands for.
LEMMA DecInternal ==
  ASSUME NEW k, Structure(k), k.n.is > 0, HasRefs(k), Idle(k) => k.n.hw /\ k.n.hs
  PROVE  LET d == binder_dec_node(k, TRUE, TRUE)
         IN  Structure(d) /\ GivesBack(k, d, 1, 0, 0) /\ Pending(d)
<1> DEFINE m == AddCount(k, TRUE, TRUE, -1)
           u == NodeUnused(m)
<1>0. k \in KernelType /\ k.n.is \in Nat
  BY DEF Structure, KernelType, NodeType
<1>1. k.n.live
  BY DEF Structure, NoNode
<1>2. Recounts(k, m, 0 - 1, 0 - 0, 0 - 0)
  <2>1. -1 \in Int /\ k.n.is + (-1) >= 0 /\ 0 - 1 = -1 /\ 0 - 0 = 0
    BY <1>0
  <2>2. Recounts(k, m, -1, 0, 0)
    BY <1>0, <2>1, AddInternal
  <2> HIDE DEF m
  <2> QED
    BY <2>1, <2>2
<1> HIDE DEF m
<1>3. /\ Structure(m) /\ GivesBack(k, m, 1, 0, 0)
      /\ Structure(u) /\ GivesBack(k, u, 1, 0, 0) /\ ~Idle(u)
  BY <1>1, <1>2, DecEnds
<1> HIDE DEF u
<1>4. CASE m.n.ls > 0 \/ m.n.is > 0
  <2>1. binder_dec_node(k, TRUE, TRUE) = m
    BY <1>4 DEF binder_dec_node, m
  <2>2. Idle(m) => m.n.hw /\ m.n.hs
    BY <1>2 DEF Recounts, SameFlags, Idle
  <2>3. Pending(m)
    BY <1>4, <2>2 DEF Pending, StrongK, WeakK
  <2> QED
    BY <1>3, <2>1, <2>3
<1>5. CASE ~(m.n.ls > 0 \/ m.n.is > 0)
  <2>1. binder_dec_node(k, TRUE, TRUE) = u
    BY <1>5 DEF binder_dec_node, m, u
  <2> QED
    BY <1>3, <2>1 DEF Pending
<1> QED
  BY <1>4, <1>5

\* binder_dec_node of a strong count of a buffer or of an unanswered command.
LEMMA DecLocal ==
  ASSUME NEW k, Structure(k), k.n.ls > 0, ~HasRefs(k) => k.n.is = 0, Idle(k) => k.n.hw /\ k.n.hs
  PROVE  LET d == binder_dec_node(k, TRUE, FALSE)
         IN  Structure(d) /\ GivesBack(k, d, 0, 1, 0) /\ Pending(d)
<1> DEFINE m == AddCount(k, TRUE, FALSE, -1)
           u == NodeUnused(m)
<1>0. k \in KernelType /\ k.n.ls \in Nat /\ k.n.is \in Nat
  BY DEF Structure, KernelType, NodeType
<1>1. k.n.live /\ ~k.n.dead
  BY DEF Structure, NoNode
<1>2. Recounts(k, m, 0 - 0, 0 - 1, 0 - 0)
  <2>1. -1 \in Int /\ k.n.ls + (-1) >= 0 /\ 0 - 1 = -1 /\ 0 - 0 = 0
    BY <1>0
  <2>2. Recounts(k, m, 0, -1, 0)
    BY <1>0, <2>1, AddLocal
  <2> HIDE DEF m
  <2> QED
    BY <2>1, <2>2
<1> HIDE DEF m
<1>20. ~HasRefs(k) => m.n.is = 0
  BY <1>0, <1>2 DEF Recounts
<1>3. /\ Structure(m) /\ GivesBack(k, m, 0, 1, 0)
      /\ Structure(u) /\ GivesBack(k, u, 0, 1, 0) /\ ~Idle(u)
  BY <1>1, <1>2, <1>20, DecEnds
<1> HIDE DEF u
<1>4. CASE m.n.ls > 0 \/ m.n.is > 0
  <2>1. binder_dec_node(k, TRUE, FALSE) = m
    BY <1>4 DEF binder_dec_node, m
  <2>2. Idle(m) => m.n.hw /\ m.n.hs
    BY <1>2 DEF Recounts, SameFlags, Idle
  <2>3. Pending(m)
    BY <1>4, <2>2 DEF Pending, StrongK, WeakK
  <2> QED
    BY <1>3, <2>1, <2>3
<1>5. CASE ~(m.n.ls > 0 \/ m.n.is > 0)
  <2>1. binder_dec_node(k, TRUE, FALSE) = u
    BY <1>5 DEF binder_dec_node, m, u
  <2> QED
    BY <1>3, <2>1 DEF Pending
<1> QED
  BY <1>4, <1>5

\* binder_dec_node of a weak count: of a buffer or an unanswered command, or
\* for a ref that has just left the node's list.
LEMMA DecWeak ==
  ASSUME NEW k, Structure(k), k.n.live, NEW internal \in BOOLEAN, internal \/ k.n.lw > 0,
         ~HasRefs(k) => k.n.is = 0, Idle(k) => k.n.hw /\ (StrongK(k) <=> k.n.hs)
  PROVE  LET d == binder_dec_node(k, FALSE, internal)
         IN  Structure(d) /\ GivesBack(k, d, 0, 0, 1 - One(internal)) /\ Pending(d)
<1> DEFINE m == AddCount(k, FALSE, internal, -1)
           u == NodeUnused(m)
           w == 1 - One(internal)
<1>0. k \in KernelType /\ k.n.ls \in Nat /\ k.n.is \in Nat /\ k.n.lw \in Nat
  BY DEF Structure, KernelType, NodeType
<1>1. w \in Nat /\ (k.n.dead => w = 0)
  BY DEF Structure, One
<1>2. Recounts(k, m, 0 - 0, 0 - 0, 0 - w)
  <2>1. CASE internal
    <3>1. Recounts(k, m, 0, 0, 0)
      BY <1>0, <2>1, AddNone
    <3>2. One(internal) = 1
      BY <2>1 DEF One
    <3>3. w = 0 /\ 0 - w = 0 /\ 0 - 0 = 0
      BY <3>2
    <3> HIDE DEF m, w
    <3> QED
      BY <3>1, <3>3
  <2>2. CASE ~internal
    <3>0. -1 \in Int /\ k.n.lw + (-1) >= 0
      BY <1>0, <2>2
    <3>1. Recounts(k, m, 0, 0, -1)
      BY <1>0, <2>2, <3>0, AddWeak
    <3>2. One(internal) = 0
      BY <2>2 DEF One
    <3>3. w = 1 /\ 0 - w = -1 /\ 0 - 0 = 0
      BY <3>2
    <3> HIDE DEF m, w
    <3> QED
      BY <3>1, <3>3
  <2> QED
    BY <2>1, <2>2
<1> SUFFICES LET d == binder_dec_node(k, FALSE, internal)
             IN  Structure(d) /\ GivesBack(k, d, 0, 0, w) /\ Pending(d)
  OBVIOUS
<1> HIDE DEF m, w
<1>20. ~HasRefs(k) => m.n.is = 0
  BY <1>0, <1>2 DEF Recounts
<1>3. /\ Structure(m) /\ GivesBack(k, m, 0, 0, w)
      /\ Structure(u) /\ GivesBack(k, u, 0, 0, w) /\ ~Idle(u)
  BY <1>1, <1>2, <1>20, DecEnds
<1> HIDE DEF u
<1>4. CASE m.n.lw > 0 \/ HasRefs(m)
  <2>1. binder_dec_node(k, FALSE, internal) = m
    BY <1>4 DEF binder_dec_node, m
  <2>2. Idle(m) => Idle(k) /\ m.n.hw = k.n.hw /\ m.n.hs = k.n.hs
    BY <1>2 DEF Recounts, SameFlags, Idle
  <2>3. StrongK(m) <=> StrongK(k)
    BY <1>0, <1>2 DEF Recounts, StrongK
  <2>4. Pending(m)
    BY <1>4, <2>2, <2>3 DEF Pending, WeakK
  <2> QED
    BY <1>3, <2>1, <2>4
<1>5. CASE ~(m.n.lw > 0 \/ HasRefs(m))
  <2>1. binder_dec_node(k, FALSE, internal) = u
    BY <1>5 DEF binder_dec_node, m, u
  <2> QED
    BY <1>3, <2>1 DEF Pending
<1> QED
  BY <1>4, <1>5

-----------------------------------------------------------------------------
\* The refs after one of them has changed.
LEMMA SetRef ==
  ASSUME NEW k \in KernelType, NEW c \in Clients, NEW q \in RefType
  PROVE  LET m == [k EXCEPT !.r[c] = q]
         IN  /\ m \in KernelType /\ m.n = k.n /\ m.wk = k.wk
             /\ m.r[c] = q /\ \A e \in Clients \ {c} : m.r[e] = k.r[e]
BY DEF KernelType

\* The node is not dead, or has no more than refs, whatever happens to them.
LEMMA RefStructure ==
  ASSUME NEW k, Structure(k), k.n.live, NEW c \in Clients, NEW q \in RefType, ~q.live => q = NoRef
  PROVE  Structure([k EXCEPT !.r[c] = q])
<1> DEFINE m == [k EXCEPT !.r[c] = q]
<1>1. /\ m \in KernelType /\ m.n = k.n /\ m.wk = k.wk
      /\ m.r[c] = q /\ \A e \in Clients \ {c} : m.r[e] = k.r[e]
  BY SetRef DEF Structure
<1> HIDE DEF m
<1>2. Structure(m)
  BY <1>1 DEF Structure
<1> QED
  BY <1>2 DEF m

\* The strong refs after the one of c has changed.
LEMMA RefCount ==
  ASSUME NEW k, NEW m, NEW c \in Clients, \A e \in Clients \ {c} : m.r[e] = k.r[e], ~(k.r[c].s > 0)
  PROVE  /\ Cardinality(StrongRefs(k.r)) \in Nat /\ Cardinality(StrongRefs(m.r)) \in Nat
         /\ Cardinality(StrongRefs(m.r)) = Cardinality(StrongRefs(k.r)) + One(m.r[c].s > 0)
<1> DEFINE S == StrongRefs(k.r)
           T == StrongRefs(m.r)
<1>1. S \in SUBSET Clients /\ T \in SUBSET Clients /\ c \notin S /\ (c \in T <=> m.r[c].s > 0)
      /\ \A y \in Clients \ {c} : y \in S <=> y \in T
  BY DEF StrongRefs
<1>2. One(c \in T) = One(m.r[c].s > 0)
  BY <1>1 DEF One
<1> HIDE DEF S, T
<1>3. /\ Cardinality(S) \in Nat /\ Cardinality(T) \in Nat
      /\ Cardinality(T) = Cardinality(S) + One(c \in T)
  BY <1>1, CountChange, BinderAssumption
<1> QED
  BY <1>2, <1>3 DEF S, T

\* The strong refs are the same if those of c are.
LEMMA RefCountSame ==
  ASSUME NEW k, NEW m, NEW c \in Clients, \A e \in Clients \ {c} : m.r[e] = k.r[e],
         m.r[c].s > 0 <=> k.r[c].s > 0
  PROVE  StrongRefs(m.r) = StrongRefs(k.r)
BY DEF StrongRefs

\* A node has internal strong counts only from live refs.
LEMMA CountedRefs ==
  ASSUME NEW k, Structure(k), k.n.is = Cardinality(StrongRefs(k.r))
  PROVE  /\ ~HasRefs(k) => k.n.is = 0
         /\ \A c \in Clients : k.r[c].s > 0 => k.n.is > 0 /\ k.r[c].live
<1>1. \A c \in Clients : k.r[c].s > 0 => k.r[c].live
  BY DEF Structure, NoRef
<1>2. StrongRefs(k.r) \in SUBSET Clients
  BY DEF StrongRefs
<1>3. k.n.is = 0 <=> StrongRefs(k.r) = {}
  BY <1>2, CountType, BinderAssumption
<1>4. k.n.is > 0 <=> StrongRefs(k.r) # {}
  BY <1>2, CountType, BinderAssumption
<1> QED
  BY <1>1, <1>3, <1>4 DEF HasRefs, StrongRefs

-----------------------------------------------------------------------------
\* What every function that gives counts back guarantees: the driver's
\* references stay as they are, and a work item stays where it is.
Lessens(k, d) ==
  /\ d.n.live => k.n.live /\ d.n.dead = k.n.dead
  /\ ~k.n.dead => /\ ~d.n.dead
                  /\ d.n.hs = k.n.hs /\ d.n.hw = k.n.hw /\ d.n.ps = k.n.ps /\ d.n.pw = k.n.pw
  /\ StrongK(d) => StrongK(k)
  /\ d.wk = k.wk \/ k.wk = "none" \/ ~d.n.live

\* The relation composes, ...
LEMMA LessensTrans ==
  ASSUME NEW k, NEW d, NEW e, Lessens(k, d), Lessens(d, e)
  PROVE  Lessens(k, e)
BY DEF Lessens

\* ... and leaving the node and its work item alone is a case of it, ...
LEMMA LessensSame ==
  ASSUME NEW k, NEW d, d.n = k.n, d.wk = k.wk
  PROVE  Lessens(k, d)
BY DEF Lessens, StrongK

\* ... and so is giving counts back, whether or not the node is freed.
LEMMA GiveBackFacts ==
  ASSUME NEW k, Structure(k), NEW d, Structure(d), NEW i \in Nat, NEW s \in Nat, NEW w \in Nat,
         GivesBack(k, d, i, s, w)
  PROVE  /\ Lessens(k, d) /\ d.r = k.r
         /\ d.n.is = k.n.is - i /\ d.n.ls = k.n.ls - s /\ d.n.lw = k.n.lw - w
<1>0. k.n \in NodeType /\ d.n \in NodeType
  BY DEF Structure, KernelType
<1>1. k.n.is \in Nat /\ k.n.ls \in Nat /\ k.n.lw \in Nat
      /\ k.n.hs \in BOOLEAN /\ k.n.hw \in BOOLEAN /\ k.n.ps \in BOOLEAN /\ k.n.pw \in BOOLEAN
  BY <1>0 DEF NodeType
<1>2. CASE SameFlags(k.n, d.n) /\ d.n.is = k.n.is - i /\ d.n.ls = k.n.ls - s /\ d.n.lw = k.n.lw - w
           /\ (d.wk = k.wk \/ (k.wk = "none" /\ d.wk = "proc" /\ ~k.n.dead))
  <2>1. StrongK(d) => StrongK(k)
    BY <1>1, <1>2 DEF StrongK
  <2>2. Lessens(k, d)
    BY <1>2, <2>1 DEF Lessens, SameFlags
  <2> QED
    BY <1>2, <2>2 DEF GivesBack
<1>3. CASE d.n = NoNode /\ d.wk = "none" /\ ~HasRefs(k) /\ k.n.is = i /\ k.n.ls = s /\ k.n.lw = w
           /\ (k.n.dead \/ (~k.n.hs /\ ~k.n.hw))
  <2>1. /\ ~d.n.live /\ ~d.n.dead /\ d.n.is = 0 /\ d.n.ls = 0 /\ d.n.lw = 0
        /\ d.n.hs = FALSE /\ d.n.hw = FALSE /\ d.n.ps = FALSE /\ d.n.pw = FALSE
    BY <1>3 DEF NoNode
  <2>2. ~k.n.dead => ~k.n.hs /\ ~k.n.hw /\ ~k.n.ps /\ ~k.n.pw
    BY <1>3 DEF Structure
  <2>3. ~StrongK(d)
    BY <2>1 DEF StrongK
  <2>4. Lessens(k, d)
    BY <1>1, <2>1, <2>2, <2>3 DEF Lessens
  <2>5. d.n.is = k.n.is - i /\ d.n.ls = k.n.ls - s /\ d.n.lw = k.n.lw - w
    BY <1>1, <1>3, <2>1
  <2> QED
    BY <2>4, <2>5 DEF GivesBack
<1> QED
  BY <1>2, <1>3 DEF GivesBack

\* A buffer or an answered command gives back a strong count of the node.
LEMMA DropLocal ==
  ASSUME NEW k, KInv(k), k.n.ls > 0
  PROVE  LET d == binder_dec_node(k, TRUE, FALSE)
         IN  /\ KInv(d) /\ Lessens(k, d) /\ d.r = k.r
             /\ d.n.ls = k.n.ls - 1 /\ d.n.lw = k.n.lw
<1> DEFINE d == binder_dec_node(k, TRUE, FALSE)
<1>1. ~HasRefs(k) => k.n.is = 0
  BY CountedRefs DEF KInv
<1>2. Idle(k) => k.n.hw /\ k.n.hs
  BY DEF KInv, Pending, StrongK, WeakK
<1>3. Structure(d) /\ GivesBack(k, d, 0, 1, 0) /\ Pending(d)
  BY <1>1, <1>2, DecLocal DEF KInv
<1> HIDE DEF d
<1>4. /\ Lessens(k, d) /\ d.r = k.r
      /\ d.n.is = k.n.is - 0 /\ d.n.ls = k.n.ls - 1 /\ d.n.lw = k.n.lw - 0
  BY <1>3, GiveBackFacts DEF KInv
<1>5. k.n.is \in Nat /\ k.n.lw \in Nat
  BY DEF KInv, Structure, KernelType, NodeType
<1>6. KInv(d)
  BY <1>3, <1>4, <1>5 DEF KInv
<1>7. d.n.ls = k.n.ls - 1 /\ d.n.lw = k.n.lw
  BY <1>4, <1>5
<1> QED
  BY <1>4, <1>6, <1>7 DEF d

\* The same for a weak count.
LEMMA DropWeak ==
  ASSUME NEW k, KInv(k), k.n.lw > 0
  PROVE  LET d == binder_dec_node(k, FALSE, FALSE)
         IN  /\ KInv(d) /\ Lessens(k, d) /\ d.r = k.r
             /\ d.n.ls = k.n.ls /\ d.n.lw = k.n.lw - 1
<1> DEFINE d == binder_dec_node(k, FALSE, FALSE)
<1>1. ~HasRefs(k) => k.n.is = 0
  BY CountedRefs DEF KInv
<1>2. Idle(k) => k.n.hw /\ (StrongK(k) <=> k.n.hs)
  BY DEF KInv, Pending, WeakK
<1>20. k.n.live
  BY DEF KInv, Structure, NoNode
<1>3. Structure(d) /\ GivesBack(k, d, 0, 0, 1 - One(FALSE)) /\ Pending(d)
  BY <1>1, <1>2, <1>20, DecWeak DEF KInv
<1>30. 1 - One(FALSE) = 1
  BY DEF One
<1> HIDE DEF d
<1>4. /\ Lessens(k, d) /\ d.r = k.r
      /\ d.n.is = k.n.is - 0 /\ d.n.ls = k.n.ls - 0 /\ d.n.lw = k.n.lw - 1
  <2>1. GivesBack(k, d, 0, 0, 1)
    BY <1>3, <1>30
  <2> QED
    BY <1>3, <2>1, GiveBackFacts, SMTT(30) DEF KInv
<1>5. k.n.is \in Nat /\ k.n.ls \in Nat
  BY DEF KInv, Structure, KernelType, NodeType
<1>6. KInv(d)
  BY <1>3, <1>4, <1>5 DEF KInv
<1>7. d.n.ls = k.n.ls /\ d.n.lw = k.n.lw - 1
  BY <1>4, <1>5
<1> QED
  BY <1>4, <1>6, <1>7 DEF d

-----------------------------------------------------------------------------
\* The functions on a ref.  RefLessens: the ref of c is left with s strong
\* counts, all else of the refs and the local counts stay.
RefLessens(k, d, c, s) ==
  /\ Lessens(k, d)
  /\ d.r[c].s = s /\ \A e \in Clients \ {c} : d.r[e] = k.r[e]
  /\ d.n.ls = k.n.ls /\ d.n.lw = k.n.lw

\* binder_delete_ref, of a ref with any counts.
LEMMA DeleteRef ==
  ASSUME NEW k, KInv(k), NEW c \in Clients, k.r[c].live
  PROVE  LET d == binder_delete_ref(k, c)
         IN  KInv(d) /\ RefLessens(k, d, c, 0)
<1> DEFINE d1 == IF k.r[c].s > 0 THEN binder_dec_node(k, TRUE, TRUE) ELSE k
           m == [d1 EXCEPT !.r[c] = NoRef]
           d == binder_dec_node(m, FALSE, TRUE)
<1>0. k.n.is \in Nat /\ k.n.ls \in Nat /\ k.n.lw \in Nat /\ HasRefs(k) /\ k.n.live
      /\ k.r[c].s \in Nat /\ NoRef \in RefType
  BY DEF KInv, Structure, KernelType, NodeType, RefType, HasRefs, NoRef
<1>1. /\ Structure(d1) /\ Pending(d1) /\ Lessens(k, d1) /\ d1.r = k.r
      /\ d1.n.is = k.n.is - One(k.r[c].s > 0) /\ d1.n.ls = k.n.ls /\ d1.n.lw = k.n.lw
  <2>1. CASE k.r[c].s > 0
    <3> DEFINE e == binder_dec_node(k, TRUE, TRUE)
    <3>1. k.n.is > 0
      BY <2>1, CountedRefs DEF KInv
    <3>2. Idle(k) => k.n.hw /\ k.n.hs
      BY <3>1 DEF KInv, Pending, StrongK, WeakK
    <3>3. Structure(e) /\ GivesBack(k, e, 1, 0, 0) /\ Pending(e)
      BY <1>0, <3>1, <3>2, DecInternal DEF KInv
    <3>4. d1 = e
      BY <2>1
    <3> HIDE DEF e, d1
    <3>5. /\ Lessens(k, e) /\ e.r = k.r
          /\ e.n.is = k.n.is - 1 /\ e.n.ls = k.n.ls - 0 /\ e.n.lw = k.n.lw - 0
      <4>1. Structure(k)
        BY DEF KInv
      <4> QED
        BY <4>1, <3>3, GiveBackFacts
    <3>6. One(k.r[c].s > 0) = 1
      BY <2>1 DEF One
    <3> QED
      BY <1>0, <3>3, <3>4, <3>5, <3>6
  <2>2. CASE ~(k.r[c].s > 0)
    <3>1. d1 = k
      BY <2>2
    <3>2. One(k.r[c].s > 0) = 0
      BY <2>2 DEF One
    <3>3. Lessens(k, k)
      BY LessensSame
    <3> HIDE DEF d1
    <3> QED
      BY <1>0, <3>1, <3>2, <3>3 DEF KInv
  <2> QED
    BY <2>1, <2>2
<1>2. binder_delete_ref(k, c) = d
  BY DEF binder_delete_ref
<1> HIDE DEF d1
<1>3. HasRefs(d1) /\ d1.n.live
  <2>1. HasRefs(d1)
    BY <1>0, <1>1 DEF HasRefs
  <2> QED
    BY <1>1, <2>1 DEF Structure
<1>4. /\ m \in KernelType /\ m.n = d1.n /\ m.wk = d1.wk
      /\ m.r[c] = NoRef /\ \A e \in Clients \ {c} : m.r[e] = d1.r[e]
  BY <1>0, <1>1, SetRef, SMTT(30) DEF Structure
<1>5. Structure(m)
  BY <1>0, <1>1, <1>3, RefStructure
<1> HIDE DEF m
<1>6. m.n.is = Cardinality(StrongRefs(m.r))
  <2>1. ~(m.r[c].s > 0)
    BY <1>4 DEF NoRef
  <2>2. \A e \in Clients \ {c} : k.r[e] = m.r[e]
    BY <1>1, <1>4
  <2>3. /\ Cardinality(StrongRefs(m.r)) \in Nat
        /\ Cardinality(StrongRefs(k.r)) = Cardinality(StrongRefs(m.r)) + One(k.r[c].s > 0)
    BY <2>1, <2>2, RefCount
  <2>4. One(k.r[c].s > 0) \in {0, 1}
    BY DEF One
  <2> QED
    BY <1>0, <1>1, <1>4, <2>3, <2>4 DEF KInv
<1>7. ~HasRefs(m) => m.n.is = 0
  BY <1>5, <1>6, CountedRefs
<1>8. Idle(m) => m.n.hw /\ (StrongK(m) <=> m.n.hs)
  BY <1>1, <1>3, <1>4 DEF Pending, Idle, WeakK, StrongK
<1>9. Structure(d) /\ GivesBack(m, d, 0, 0, 1 - One(TRUE)) /\ Pending(d)
  BY <1>3, <1>4, <1>5, <1>7, <1>8, DecWeak
<1>10. 1 - One(TRUE) = 0
  BY DEF One
<1> HIDE DEF d
<1>11. GivesBack(m, d, 0, 0, 0)
  BY <1>9, <1>10
<1>12. /\ Lessens(m, d) /\ d.r = m.r
       /\ d.n.is = m.n.is - 0 /\ d.n.ls = m.n.ls - 0 /\ d.n.lw = m.n.lw - 0
  BY <1>5, <1>9, <1>11, GiveBackFacts
<1>13. m.n.is \in Nat /\ m.n.ls \in Nat /\ m.n.lw \in Nat
  BY <1>4 DEF KernelType, NodeType
<1>14. KInv(d)
  BY <1>6, <1>9, <1>12, <1>13 DEF KInv
<1>15. Lessens(d1, m)
  BY <1>4, LessensSame
<1>16. Lessens(k, d)
  BY <1>1, <1>12, <1>15, LessensTrans
<1>17. RefLessens(k, d, c, 0)
  BY <1>1, <1>4, <1>12, <1>13, <1>16 DEF RefLessens, NoRef
<1> QED
  BY <1>2, <1>14, <1>17

\* binder_dec_ref, by a client or a buffer that has the count.
LEMMA DecRef ==
  ASSUME NEW k, KInv(k), NEW c \in Clients, k.r[c].live, NEW strong \in BOOLEAN,
         strong => k.r[c].s > 0
  PROVE  LET d == binder_dec_ref(k, c, strong)
         IN  KInv(d) /\ RefLessens(k, d, c, k.r[c].s - One(strong))
<1> DEFINE n == k.r[c].s - One(strong)
           q == IF strong THEN [k.r[c] EXCEPT !.s = @ - 1] ELSE [k.r[c] EXCEPT !.w = @ - 1]
           m == [k EXCEPT !.r[c] = q]
           e == IF strong /\ m.r[c].s = 0 THEN binder_dec_node(m, TRUE, TRUE) ELSE m
           d == IF e.r[c].s = 0 /\ e.r[c].w = 0 THEN binder_delete_ref(e, c) ELSE e
<1>0. /\ k.n.is \in Nat /\ k.n.ls \in Nat /\ k.n.lw \in Nat /\ k.n.live /\ k \in KernelType
      /\ k.r[c].s \in Nat /\ k.r[c].w \in Nat /\ k.r[c] \in RefType
  BY DEF KInv, Structure, KernelType, NodeType, RefType, HasRefs
<1> SUFFICES KInv(binder_dec_ref(k, c, strong)) /\ RefLessens(k, binder_dec_ref(k, c, strong), c, n)
  OBVIOUS
<1>1. CASE ~strong /\ k.r[c].w = 0
  <2>1. binder_dec_ref(k, c, strong) = k /\ n = k.r[c].s
    BY <1>0, <1>1 DEF binder_dec_ref, One
  <2>2. Lessens(k, k)
    BY LessensSame
  <2>3. RefLessens(k, k, c, k.r[c].s)
    BY <2>2 DEF RefLessens
  <2> HIDE DEF n
  <2> QED
    BY <2>1, <2>3
<1>2. CASE strong \/ k.r[c].w > 0
  <2>1. binder_dec_ref(k, c, strong) = d
    <3>1. [k EXCEPT !.r[c].s = @ - 1] = [k EXCEPT !.r[c] = [k.r[c] EXCEPT !.s = @ - 1]]
      BY <1>0 DEF KernelType
    <3>2. [k EXCEPT !.r[c].w = @ - 1] = [k EXCEPT !.r[c] = [k.r[c] EXCEPT !.w = @ - 1]]
      BY <1>0 DEF KernelType
    <3>3. m = IF strong THEN [k EXCEPT !.r[c].s = @ - 1] ELSE [k EXCEPT !.r[c].w = @ - 1]
      BY <3>1, <3>2
    <3> HIDE DEF m
    <3>4. ~((IF strong THEN k.r[c].s ELSE k.r[c].w) = 0)
      BY <1>0, <1>2
    <3> QED
      BY <3>3, <3>4, Zenon DEF binder_dec_ref
  <2>2. q \in RefType /\ q.live /\ q.s = n
    <3>1. CASE strong
      BY <1>0, <3>1 DEF RefType, One
    <3>2. CASE ~strong
      BY <1>0, <1>2, <3>2 DEF RefType, One
    <3> QED
      BY <3>1, <3>2
  <2>20. n \in Nat /\ n = (IF strong THEN k.r[c].s - 1 ELSE k.r[c].s)
    BY <1>0 DEF One
  <2> HIDE DEF q, n
  <2>3. /\ m \in KernelType /\ m.n = k.n /\ m.wk = k.wk
        /\ m.r[c] = q /\ \A x \in Clients \ {c} : m.r[x] = k.r[x]
    BY <1>0, <2>2, SetRef
  <2>4. Structure(m)
    BY <1>0, <2>2, RefStructure DEF KInv
  <2> HIDE DEF m
  <2>5. HasRefs(m) /\ HasRefs(k)
    BY <2>2, <2>3 DEF HasRefs
  <2>6. (StrongK(m) <=> StrongK(k)) /\ (WeakK(m) <=> WeakK(k)) /\ (Idle(m) <=> Idle(k))
    BY <2>3, <2>5 DEF StrongK, WeakK, Idle
  <2>7. KInv(e) /\ RefLessens(k, e, c, n) /\ e.r[c].live
    <3>1. CASE strong /\ m.r[c].s = 0
      <4>1. e = binder_dec_node(m, TRUE, TRUE) /\ n = 0
        BY <2>2, <2>3, <3>1
      <4>2. m.n.is > 0
        BY <2>3, <3>1, CountedRefs DEF KInv
      <4>3. Idle(m) => m.n.hw /\ m.n.hs
        BY <2>3, <2>5, <2>6, <4>2 DEF KInv, Pending, StrongK, WeakK
      <4> HIDE DEF e
      <4>4. Structure(e) /\ GivesBack(m, e, 1, 0, 0) /\ Pending(e)
        BY <2>4, <2>5, <4>1, <4>2, <4>3, DecInternal
      <4>5. /\ Lessens(m, e) /\ e.r = m.r
            /\ e.n.is = m.n.is - 1 /\ e.n.ls = m.n.ls - 0 /\ e.n.lw = m.n.lw - 0
        BY <2>4, <4>4, GiveBackFacts
      <4>6. ~(m.r[c].s > 0) /\ k.r[c].s > 0 /\ One(k.r[c].s > 0) = 1
        BY <3>1 DEF One
      <4>7. /\ Cardinality(StrongRefs(m.r)) \in Nat
            /\ Cardinality(StrongRefs(k.r)) = Cardinality(StrongRefs(m.r)) + One(k.r[c].s > 0)
        BY <2>3, <4>6, RefCount
      <4>8. e.n.is = Cardinality(StrongRefs(e.r))
        BY <2>3, <4>5, <4>6, <4>7 DEF KInv
      <4>9. Lessens(k, e)
        <5>1. Lessens(k, m)
          BY <2>3, LessensSame
        <5> QED
          BY <4>5, <5>1, LessensTrans
      <4>10. RefLessens(k, e, c, n)
        BY <1>0, <2>2, <2>3, <4>5, <4>9 DEF RefLessens
      <4> QED
        BY <2>2, <2>3, <4>4, <4>5, <4>8, <4>10 DEF KInv
    <3>2. CASE ~(strong /\ m.r[c].s = 0)
      <4>1. e = m
        BY <3>2
      <4>2. m.r[c].s > 0 <=> k.r[c].s > 0
        BY <1>0, <2>2, <2>20, <2>3, <3>2
      <4>3. StrongRefs(m.r) = StrongRefs(k.r)
        BY <2>3, <4>2, RefCountSame
      <4>4. KInv(m)
        BY <2>3, <2>4, <2>6, <4>3 DEF KInv, Pending
      <4>5. RefLessens(k, m, c, n)
        <5>1. Lessens(k, m)
          BY <2>3, LessensSame
        <5> QED
          BY <2>2, <2>3, <5>1 DEF RefLessens
      <4> HIDE DEF e
      <4> QED
        BY <2>2, <2>3, <4>1, <4>4, <4>5
    <3> QED
      BY <3>1, <3>2
  <2> HIDE DEF e
  <2>8. CASE e.r[c].s = 0 /\ e.r[c].w = 0
    <3>1. d = binder_delete_ref(e, c)
      BY <2>8
    <3>2. KInv(d) /\ RefLessens(e, d, c, 0)
      BY <2>7, <3>1, DeleteRef
    <3>3. n = 0
      BY <2>7, <2>8 DEF RefLessens
    <3> HIDE DEF d
    <3>4. Lessens(k, d)
      BY <2>7, <3>2, LessensTrans DEF RefLessens
    <3>5. RefLessens(k, d, c, n)
      BY <2>7, <3>2, <3>3, <3>4 DEF RefLessens
    <3> QED
      BY <2>1, <3>2, <3>5
  <2>9. CASE ~(e.r[c].s = 0 /\ e.r[c].w = 0)
    BY <2>1, <2>7, <2>9
  <2> QED
    BY <2>8, <2>9
<1> QED
  BY <1>0, <1>1, <1>2

-----------------------------------------------------------------------------
\* A new ref or a count more on it: the work item stays or goes to list.
RefGrows(k, d, c, strong, list) ==
  /\ SameFlags(k.n, d.n)
  /\ d.n.ls = k.n.ls /\ d.n.lw = k.n.lw
  /\ d.r[c].s = k.r[c].s + One(strong) /\ \A e \in Clients \ {c} : d.r[e] = k.r[e]
  /\ \/ d.wk = k.wk /\ (StrongK(d) => StrongK(k) \/ k.n.hs)
     \/ list # Nobody /\ d.wk = list

\* binder_get_ref_for_node and binder_inc_ref, of a thread that sends the
\* object, or of a client that has a count of the kind on the node itself.
LEMMA AddRef ==
  ASSUME NEW k, KInv(k), k.n.live, NEW c \in Clients, NEW strong \in BOOLEAN,
         NEW list \in Threads \cup {Nobody},
         list = Nobody => HasRefs(k) /\ (strong => k.n.is > 0),
         list # Nobody => ~k.n.dead
  PROVE  LET d == binder_inc_ref(binder_get_ref_for_node(k, c), c, strong, list)
         IN  KInv(d) /\ RefGrows(k, d, c, strong, list) /\ d.r[c].live
<1> DEFINE g == binder_get_ref_for_node(k, c)
           d == binder_inc_ref(g, c, strong, list)
           p == [k.r[c] EXCEPT !.live = TRUE]
           q == IF strong THEN [p EXCEPT !.s = @ + 1] ELSE [p EXCEPT !.w = @ + 1]
<1>0. /\ k.n.is \in Nat /\ k.n.ls \in Nat /\ k.n.lw \in Nat /\ k \in KernelType
      /\ k.r[c].s \in Nat /\ k.r[c].w \in Nat /\ k.r[c] \in RefType
      /\ Structure(k) /\ Pending(k) /\ k.n.is = Cardinality(StrongRefs(k.r))
  BY DEF KInv, Structure, KernelType, NodeType, RefType
<1>1. p \in RefType /\ p.live = TRUE /\ p.s = k.r[c].s /\ p.w = k.r[c].w
  BY <1>0 DEF RefType
<1>2. g = [k EXCEPT !.r[c] = p]
  BY <1>0 DEF binder_get_ref_for_node, KernelType
<1> SUFFICES KInv(d) /\ RefGrows(k, d, c, strong, list) /\ d.r[c].live
  OBVIOUS
<1> HIDE DEF p
<1>3. /\ g \in KernelType /\ g.n = k.n /\ g.wk = k.wk
      /\ g.r[c] = p /\ \A e \in Clients \ {c} : g.r[e] = k.r[e]
  BY <1>0, <1>1, <1>2, SetRef
<1>4. Structure(g)
  BY <1>0, <1>1, <1>2, RefStructure
<1> HIDE DEF g
<1>5. HasRefs(g)
  BY <1>1, <1>3 DEF HasRefs
<1>6. g.n.is = Cardinality(StrongRefs(g.r))
  <2>1. StrongRefs(g.r) = StrongRefs(k.r)
    BY <1>1, <1>3, RefCountSame
  <2> QED
    BY <1>0, <1>3, <2>1
<1>7. Idle(g) => Idle(k) /\ (StrongK(k) <=> k.n.hs) /\ (WeakK(k) <=> k.n.hw)
  BY <1>0, <1>3 DEF Idle, Pending
<1>8. q \in RefType /\ q.live /\ q.s = k.r[c].s + One(strong)
  <2>1. CASE strong
    BY <1>0, <1>1, <2>1 DEF RefType, One
  <2>2. CASE ~strong
    BY <1>0, <1>1, <2>2 DEF RefType, One
  <2> QED
    BY <2>1, <2>2
<1>9. q = IF strong THEN [g.r[c] EXCEPT !.s = @ + 1] ELSE [g.r[c] EXCEPT !.w = @ + 1]
  BY <1>3
<1> HIDE DEF q
<1> DEFINE first == IF strong THEN g.r[c].s = 0 ELSE g.r[c].w = 0
\* The work list after a first count.
           wk == IF /\ IF strong THEN ~g.n.hs ELSE ~g.n.hw /\ g.wk = "none"
                    /\ list # Nobody THEN list ELSE g.wk
           is == g.n.is + One(strong)
<1>10. CASE first /\ binder_inc_node_fails(g, strong, TRUE, list)
  <2>1. ~strong /\ ~g.n.hw /\ g.wk = "none" /\ list = Nobody
    BY <1>0, <1>3, <1>10 DEF binder_inc_node_fails
  <2>2. d = g
    BY <1>10 DEF binder_inc_ref
  <2>3. Pending(g)
    BY <1>3, <1>5, <1>7, <2>1 DEF Pending, WeakK, StrongK
  <2>4. SameFlags(k.n, g.n)
    BY <1>3 DEF SameFlags
  <2>5. StrongK(g) => StrongK(k)
    BY <1>3 DEF StrongK
  <2>6. g.r[c].s = k.r[c].s + One(strong)
    BY <1>0, <1>1, <1>3, <2>1 DEF One
  <2> HIDE DEF d
  <2> QED
    BY <1>1, <1>3, <1>4, <1>6, <2>2, <2>3, <2>4, <2>5, <2>6 DEF KInv, RefGrows
<1>11. CASE first /\ ~binder_inc_node_fails(g, strong, TRUE, list)
  <2> DEFINE a == AddCount(g, strong, TRUE, 1)
             i == [a EXCEPT !.wk = wk]
             m == [i EXCEPT !.r[c] = q]
  <2>1. Recounts(g, a, One(strong), 0, 0)
    <3>1. CASE strong
      <4>1. One(strong) = 1 /\ 1 \in Int /\ g.n.is + 1 >= 0 /\ a = AddCount(g, TRUE, TRUE, 1)
        BY <1>0, <1>3, <3>1 DEF One
      <4>2. Recounts(g, AddCount(g, TRUE, TRUE, 1), 1, 0, 0)
        BY <1>3, <4>1, AddInternal
      <4> HIDE DEF a
      <4> QED
        BY <4>1, <4>2
    <3>2. CASE ~strong
      BY <1>3, <3>2, AddNone DEF One
    <3> QED
      BY <3>1, <3>2
  <2>2. a \in KernelType /\ a.r = g.r /\ a.wk = g.wk /\ SameFlags(g.n, a.n)
        /\ a.n.is = is /\ a.n.ls = g.n.ls + 0 /\ a.n.lw = g.n.lw + 0
    BY <2>1 DEF Recounts
  <2>3. wk \in WorkType
    BY <1>3 DEF KernelType, WorkType
  <2>4. i = binder_inc_node(g, strong, TRUE, list)
    BY <1>11, <2>2 DEF binder_inc_node
  <2> HIDE DEF a
  <2>5. i \in KernelType /\ i.n = a.n /\ i.r = g.r /\ i.wk = wk
    BY <2>2, <2>3 DEF KernelType
  <2> HIDE DEF i
  <2>6. d = m
    <3>1. [i EXCEPT !.r[c].s = @ + 1] = [i EXCEPT !.r[c] = [i.r[c] EXCEPT !.s = @ + 1]]
      BY <2>5 DEF KernelType
    <3>2. [i EXCEPT !.r[c].w = @ + 1] = [i EXCEPT !.r[c] = [i.r[c] EXCEPT !.w = @ + 1]]
      BY <2>5 DEF KernelType
    <3>3. m = IF strong THEN [i EXCEPT !.r[c].s = @ + 1] ELSE [i EXCEPT !.r[c].w = @ + 1]
      BY <1>9, <2>5, <3>1, <3>2
    <3> HIDE DEF m
    <3> QED
      BY <1>11, <2>4, <3>3, Zenon DEF binder_inc_ref
  <2>7. /\ m \in KernelType /\ m.n = i.n /\ m.wk = i.wk
        /\ m.r[c] = q /\ \A e \in Clients \ {c} : m.r[e] = i.r[e]
    BY <1>8, <2>5, SetRef
  <2> HIDE DEF m, d
  <2>8. /\ m.r[c] = q /\ \A e \in Clients \ {c} : m.r[e] = k.r[e] /\ m.r[e] = g.r[e]
    BY <1>3, <2>5, <2>7
  <2>9. /\ m.n.is = k.n.is + One(strong) /\ m.n.ls = k.n.ls /\ m.n.lw = k.n.lw /\ m.wk = wk
        /\ SameFlags(k.n, m.n)
    BY <1>0, <1>3, <2>2, <2>5, <2>7
  <2>10. /\ m.n.live = k.n.live /\ m.n.dead = k.n.dead /\ m.n.hs = k.n.hs /\ m.n.hw = k.n.hw
         /\ m.n.ps = k.n.ps /\ m.n.pw = k.n.pw
    BY <2>9 DEF SameFlags
  <2>11. m.n.is = Cardinality(StrongRefs(m.r))
    <3>1. CASE strong
      <4>1. ~(g.r[c].s > 0) /\ m.r[c].s > 0 /\ One(strong) = 1 /\ One(m.r[c].s > 0) = 1
        BY <1>0, <1>1, <1>3, <1>8, <1>11, <2>8, <3>1 DEF One
      <4>2. /\ Cardinality(StrongRefs(g.r)) \in Nat
            /\ Cardinality(StrongRefs(m.r)) = Cardinality(StrongRefs(g.r)) + One(m.r[c].s > 0)
        BY <2>8, <4>1, RefCount
      <4> QED
        BY <1>3, <1>6, <2>9, <4>1, <4>2
    <3>2. CASE ~strong
      <4>1. One(strong) = 0 /\ m.r[c].s = g.r[c].s
        BY <1>0, <1>1, <1>3, <1>8, <2>8, <3>2 DEF One
      <4>2. m.r[c].s > 0 <=> g.r[c].s > 0
        BY <4>1
      <4>3. StrongRefs(m.r) = StrongRefs(g.r)
        BY <2>8, <4>2, RefCountSame
      <4>4. m.n.is = k.n.is /\ g.n.is = k.n.is
        BY <1>0, <1>3, <2>9, <4>1
      <4> QED
        BY <1>6, <4>3, <4>4
    <3> QED
      BY <3>1, <3>2
  <2>12. HasRefs(m)
    BY <1>8, <2>8 DEF HasRefs
  <2>13. Structure(m)
    <3>1. \A e \in Clients : ~m.r[e].live => m.r[e] = NoRef
      BY <1>0, <1>8, <2>8 DEF Structure
    <3>2. m.n.dead => m.n.ls = 0 /\ m.n.lw = 0 /\ m.wk = "none"
      BY <1>0, <1>3, <2>9, <2>10 DEF Structure
    <3> QED
      BY <1>0, <2>7, <2>10, <3>1, <3>2 DEF Structure
  <2>14. Idle(m) => m.n.hw /\ (StrongK(m) <=> m.n.hs)
    <3> SUFFICES ASSUME Idle(m) PROVE m.n.hw /\ (StrongK(m) <=> m.n.hs)
      OBVIOUS
    <3>1. wk = "none" /\ (list # Nobody => list # "none")
      BY <2>9, BinderAssumption DEF Idle
    <3>2. g.wk = "none" /\ Idle(g)
      BY <1>3, <2>10, <3>1 DEF Idle
    <3>3. CASE strong
      <4>1. StrongK(m)
        BY <1>0, <2>9, <3>3 DEF StrongK, One
      <4>2. k.n.hs
        BY <1>0, <1>3, <1>7, <3>1, <3>2, <3>3 DEF StrongK
      <4> QED
        BY <1>7, <2>10, <3>2, <4>1, <4>2 DEF WeakK
    <3>4. CASE ~strong
      <4>1. k.n.hw
        BY <1>3, <1>11, <3>1, <3>2, <3>4 DEF binder_inc_node_fails
      <4>2. StrongK(m) <=> StrongK(k)
        BY <1>0, <2>9, <3>4 DEF StrongK, One
      <4> QED
        BY <1>7, <2>10, <3>2, <4>1, <4>2
    <3> QED
      BY <3>3, <3>4
  <2>15. KInv(m)
    BY <2>11, <2>12, <2>13, <2>14 DEF KInv, Pending, WeakK
  <2>16. \/ m.wk = k.wk /\ (StrongK(m) => StrongK(k) \/ k.n.hs)
         \/ list # Nobody /\ m.wk = list
    <3>1. CASE wk = g.wk /\ ~(strong /\ ~g.n.hs /\ list # Nobody)
      <4>1. strong => k.n.hs \/ k.n.is > 0
        BY <1>3, <3>1
      <4>2. ~strong => (StrongK(m) <=> StrongK(k))
        BY <1>0, <2>9 DEF StrongK, One
      <4> QED
        BY <1>3, <2>9, <3>1, <4>1, <4>2 DEF StrongK
    <3>2. CASE list # Nobody /\ wk = list
      BY <2>9, <3>2
    <3> QED
      BY <3>1, <3>2
  <2>17. RefGrows(k, m, c, strong, list)
    BY <1>8, <2>8, <2>9, <2>16 DEF RefGrows
  <2> QED
    BY <1>8, <2>6, <2>8, <2>15, <2>17
<1>12. CASE ~first
  <2> DEFINE m == [g EXCEPT !.r[c] = q]
  <2>1. k.r[c].live
    BY <1>0, <1>1, <1>3, <1>12 DEF Structure, NoRef
  <2>2. d = m
    <3>1. [g EXCEPT !.r[c].s = @ + 1] = [g EXCEPT !.r[c] = [g.r[c] EXCEPT !.s = @ + 1]]
      BY <1>3 DEF KernelType
    <3>2. [g EXCEPT !.r[c].w = @ + 1] = [g EXCEPT !.r[c] = [g.r[c] EXCEPT !.w = @ + 1]]
      BY <1>3 DEF KernelType
    <3>3. m = IF strong THEN [g EXCEPT !.r[c].s = @ + 1] ELSE [g EXCEPT !.r[c].w = @ + 1]
      BY <1>9, <3>1, <3>2
    <3> HIDE DEF m
    <3> QED
      BY <1>12, <3>3, Zenon DEF binder_inc_ref
  <2>3. /\ m \in KernelType /\ m.n = g.n /\ m.wk = g.wk
        /\ m.r[c] = q /\ \A e \in Clients \ {c} : m.r[e] = g.r[e]
    BY <1>3, <1>8, SetRef
  <2>4. Structure(m)
    BY <1>3, <1>4, <1>8, RefStructure
  <2> HIDE DEF m, d
  <2>5. m.r[c].s > 0 <=> g.r[c].s > 0
    BY <1>0, <1>1, <1>3, <1>8, <1>12, <2>3 DEF One
  <2>6. StrongRefs(m.r) = StrongRefs(g.r)
    BY <2>3, <2>5, RefCountSame
  <2>7. HasRefs(m) /\ HasRefs(k)
    BY <1>8, <2>1, <2>3 DEF HasRefs
  <2>8. (StrongK(m) <=> StrongK(k)) /\ (WeakK(m) <=> WeakK(k)) /\ (Idle(m) <=> Idle(k))
    BY <1>3, <2>3, <2>7 DEF StrongK, WeakK, Idle
  <2>9. KInv(m)
    BY <1>0, <1>3, <1>6, <2>3, <2>4, <2>6, <2>8 DEF KInv, Pending
  <2>10. SameFlags(k.n, m.n)
    BY <1>3, <2>3 DEF SameFlags
  <2>11. RefGrows(k, m, c, strong, list)
    BY <1>3, <1>8, <2>3, <2>8, <2>10 DEF RefGrows
  <2> QED
    BY <1>8, <2>2, <2>3, <2>9, <2>11
<1> QED
  BY <1>10, <1>11, <1>12

-----------------------------------------------------------------------------
\* What a buffer counts on.
BufType == [to : Clients \cup {Owner, "none"}, kind : {"none", "handle", "binder"},
            strong : BOOLEAN, tnode : BOOLEAN]
CarriesStrong(r) == r.kind = "binder" /\ r.strong
CarriesWeak(r) == r.kind = "binder" /\ ~r.strong
HoldsHandle(r, c) == r.to = c /\ r.kind = "handle" /\ r.strong

\* A buffer for a client has a handle, one for the owner has the object or is
\* sent to it.
BufOK(r) ==
  /\ r.to = "none" => r = NoBuf
  /\ r.kind = "handle" => r.to \in Clients /\ ~r.tnode
  /\ r.kind = "binder" \/ r.tnode => r.to = Owner

\* d has the counts of k and those of buffer r.
Counted(k, d, r) ==
  /\ d.n.ls = k.n.ls + One(r.tnode) + One(CarriesStrong(r))
  /\ d.n.lw = k.n.lw + One(CarriesWeak(r))
  /\ \A c \in Clients : d.r[c].s = k.r[c].s + One(HoldsHandle(r, c))

\* binder_inc_node for the target or the object of a call: the caller has a
\* count of the kind, so the owner need not be told.
LEMMA IncCall ==
  ASSUME NEW k, KInv(k), k.n.live, ~k.n.dead, NEW strong \in BOOLEAN,
         IF strong THEN StrongK(k) ELSE WeakK(k)
  PROVE  LET d == binder_inc_node(k, strong, FALSE, Nobody)
         IN  /\ KInv(d) /\ SameFlags(k.n, d.n) /\ d.r = k.r /\ d.wk = k.wk /\ (StrongK(d) <=> StrongK(k))
             /\ d.n.ls = k.n.ls + One(strong) /\ d.n.lw = k.n.lw + One(~strong)
<1> DEFINE a == AddCount(k, strong, FALSE, 1)
           d == binder_inc_node(k, strong, FALSE, Nobody)
<1>0. k.n.is \in Nat /\ k.n.ls \in Nat /\ k.n.lw \in Nat /\ k \in KernelType
  BY DEF KInv, Structure, KernelType, NodeType
<1>1. Recounts(k, a, 0, One(strong), One(~strong))
  <2>1. CASE strong
    <3>1. One(strong) = 1 /\ One(~strong) = 0 /\ 1 \in Int /\ k.n.ls + 1 >= 0
          /\ a = AddCount(k, TRUE, FALSE, 1)
      BY <1>0, <2>1 DEF One
    <3>2. Recounts(k, AddCount(k, TRUE, FALSE, 1), 0, 1, 0)
      BY <1>0, <3>1, AddLocal
    <3> HIDE DEF a
    <3> QED
      BY <3>1, <3>2
  <2>2. CASE ~strong
    <3>1. One(strong) = 0 /\ One(~strong) = 1 /\ 1 \in Int /\ k.n.lw + 1 >= 0
          /\ a = AddCount(k, FALSE, FALSE, 1)
      <4>1. strong = FALSE
        BY <2>2
      <4>2. One(strong) = 0 /\ One(~strong) = 1
        BY <2>2 DEF One
      <4>3. a = AddCount(k, FALSE, FALSE, 1)
        BY <4>1, Zenon
      <4> HIDE DEF a
      <4> QED
        BY <1>0, <4>2, <4>3
    <3>2. Recounts(k, AddCount(k, FALSE, FALSE, 1), 0, 0, 1)
      BY <1>0, <3>1, AddWeak
    <3> HIDE DEF a
    <3> QED
      BY <3>1, <3>2
  <2> QED
    BY <2>1, <2>2
<1>2. d = [a EXCEPT !.wk = a.wk]
  BY DEF binder_inc_node, binder_inc_node_fails
<1> HIDE DEF a
<1>3. d = a
  <2>1. a \in KernelType
    BY <1>1 DEF Recounts
  <2> QED
    BY <1>2, <2>1 DEF KernelType
<1> SUFFICES /\ KInv(d) /\ SameFlags(k.n, d.n) /\ d.r = k.r /\ d.wk = k.wk /\ (StrongK(d) <=> StrongK(k))
             /\ d.n.ls = k.n.ls + One(strong) /\ d.n.lw = k.n.lw + One(~strong)
  OBVIOUS
<1> HIDE DEF d
<1>4. /\ Structure(d) /\ (HasRefs(d) <=> HasRefs(k)) /\ (Idle(d) <=> Idle(k))
  BY <1>1, <1>3, RecountStructure DEF KInv
<1>5. /\ SameFlags(k.n, d.n) /\ d.r = k.r /\ d.wk = k.wk /\ d.n.is = k.n.is
      /\ d.n.ls = k.n.ls + One(strong) /\ d.n.lw = k.n.lw + One(~strong)
  BY <1>0, <1>1, <1>3 DEF Recounts
<1>6. (StrongK(d) <=> StrongK(k)) /\ (WeakK(d) <=> WeakK(k))
  BY <1>0, <1>4, <1>5 DEF StrongK, WeakK, One
<1>7. KInv(d)
  BY <1>4, <1>5, <1>6 DEF KInv, Pending, SameFlags
<1> QED
  BY <1>5, <1>6, <1>7

\* binder_transaction_buffer_release gives back exactly what the buffer counts on.
LEMMA ReleaseBuffer ==
  ASSUME NEW k, KInv(k), NEW r \in BufType, BufOK(r),
         k.n.ls >= One(r.tnode) + One(CarriesStrong(r)), k.n.lw >= One(CarriesWeak(r)),
         \A c \in Clients : HoldsHandle(r, c) => k.r[c].s > 0
  PROVE  LET d == binder_transaction_buffer_release(k, r)
         IN  KInv(d) /\ Lessens(k, d) /\ Counted(d, k, r)
<1> DEFINE e == IF r.tnode THEN binder_dec_node(k, TRUE, FALSE) ELSE k
           d == binder_transaction_buffer_release(k, r)
<1> SUFFICES KInv(d) /\ Lessens(k, d) /\ Counted(d, k, r)
  OBVIOUS
<1>0. k.n.ls \in Nat /\ k.n.lw \in Nat /\ \A c \in Clients : k.r[c].s \in Nat
  BY DEF KInv, Structure, KernelType, NodeType, RefType
<1>01. /\ One(r.tnode) \in {0, 1} /\ One(CarriesStrong(r)) \in {0, 1} /\ One(CarriesWeak(r)) \in {0, 1}
       /\ r.tnode \in BOOLEAN /\ r.strong \in BOOLEAN
  BY DEF One, BufType
<1>1. /\ KInv(e) /\ Lessens(k, e) /\ e.r = k.r
      /\ e.n.ls = k.n.ls - One(r.tnode) /\ e.n.lw = k.n.lw
  <2>1. CASE r.tnode
    <3>1. k.n.ls > 0 /\ One(r.tnode) = 1
      BY <1>0, <1>01, <2>1 DEF One
    <3> QED
      BY <2>1, <3>1, DropLocal
  <2>2. CASE ~r.tnode
    <3>1. e = k /\ One(r.tnode) = 0 /\ Lessens(k, k)
      BY <2>2, LessensSame DEF One
    <3> HIDE DEF e
    <3> QED
      BY <1>0, <3>1
  <2> QED
    BY <2>1, <2>2
<1>2. d = CASE r.kind = "binder" /\ e.n.live -> binder_dec_node(e, r.strong, FALSE)
            [] r.kind = "handle" /\ e.r[r.to].live -> binder_dec_ref(e, r.to, r.strong)
            [] OTHER -> e
  BY DEF binder_transaction_buffer_release
<1> HIDE DEF e
<1>3. CASE r.kind = "binder"
  <2>0. \A c \in Clients : ~HoldsHandle(r, c)
    BY <1>3 DEF HoldsHandle
  <2>1. \A c \in Clients : k.r[c].s = k.r[c].s + One(HoldsHandle(r, c))
    BY <1>0, <2>0 DEF One
  <2>2. CASE r.strong
    <3>1. One(CarriesStrong(r)) = 1 /\ One(CarriesWeak(r)) = 0
      BY <1>3, <2>2 DEF One, CarriesStrong, CarriesWeak
    <3>2. e.n.ls > 0
      BY <1>0, <1>01, <1>1, <3>1
    <3>3. e.n.live
      BY <1>1, <3>2 DEF KInv, Structure, NoNode
    <3>4. d = binder_dec_node(e, TRUE, FALSE)
      BY <1>01, <1>2, <1>3, <2>2, <3>3
    <3> HIDE DEF d
    <3>5. KInv(d) /\ Lessens(e, d) /\ d.r = e.r /\ d.n.ls = e.n.ls - 1 /\ d.n.lw = e.n.lw
      BY <1>1, <3>2, <3>4, DropLocal
    <3>6. k.n.ls = d.n.ls + One(r.tnode) + One(CarriesStrong(r)) /\ k.n.lw = d.n.lw + One(CarriesWeak(r))
      BY <1>0, <1>01, <1>1, <3>1, <3>5
    <3> QED
      BY <1>1, <2>1, <3>5, <3>6, LessensTrans DEF Counted
  <2>3. CASE ~r.strong
    <3>1. One(CarriesStrong(r)) = 0 /\ One(CarriesWeak(r)) = 1
      BY <1>3, <2>3 DEF One, CarriesStrong, CarriesWeak
    <3>2. e.n.lw > 0
      BY <1>0, <1>01, <1>1, <3>1
    <3>3. e.n.live
      BY <1>1, <3>2 DEF KInv, Structure, NoNode
    <3>4. d = binder_dec_node(e, FALSE, FALSE)
      BY <1>01, <1>2, <1>3, <2>3, <3>3
    <3> HIDE DEF d
    <3>5. KInv(d) /\ Lessens(e, d) /\ d.r = e.r /\ d.n.ls = e.n.ls /\ d.n.lw = e.n.lw - 1
      BY <1>1, <3>2, <3>4, DropWeak
    <3>6. k.n.ls = d.n.ls + One(r.tnode) + One(CarriesStrong(r)) /\ k.n.lw = d.n.lw + One(CarriesWeak(r))
      BY <1>0, <1>01, <1>1, <3>1, <3>5
    <3> QED
      BY <1>1, <2>1, <3>5, <3>6, LessensTrans DEF Counted
  <2> QED
    BY <2>2, <2>3
<1>4. CASE r.kind # "binder"
  <2>1. One(CarriesStrong(r)) = 0 /\ One(CarriesWeak(r)) = 0
    BY <1>4 DEF One, CarriesStrong, CarriesWeak
  <2>2. CASE r.kind = "handle" /\ e.r[r.to].live
    <3> DEFINE c == r.to
               n == e.r[c].s - One(r.strong)
    <3>1. c \in Clients /\ ~r.tnode /\ One(r.tnode) = 0
      BY <2>2 DEF BufOK, One
    <3>2. r.strong => e.r[c].s > 0
      BY <1>1, <2>2, <3>1 DEF HoldsHandle
    <3>3. d = binder_dec_ref(e, c, r.strong)
      BY <1>2, <1>4, <2>2
    <3> HIDE DEF d
    <3>4. KInv(d) /\ RefLessens(e, d, c, n)
      BY <1>01, <1>1, <2>2, <3>1, <3>2, <3>3, DecRef
    <3>5. One(HoldsHandle(r, c)) = One(r.strong) /\ \A x \in Clients \ {c} : One(HoldsHandle(r, x)) = 0
      BY <2>2 DEF HoldsHandle, One
    <3>6. One(r.strong) \in {0, 1}
      BY DEF One
    <3>7. \A x \in Clients : k.r[x].s = d.r[x].s + One(HoldsHandle(r, x))
      <4> TAKE x \in Clients
      <4>1. CASE x = c
        <5>1. d.r[x].s = k.r[x].s - One(r.strong)
          BY <1>1, <3>4, <4>1 DEF RefLessens
        <5> QED
          BY <1>0, <3>1, <3>5, <3>6, <4>1, <5>1
      <4>2. CASE x # c
        <5>1. d.r[x].s = k.r[x].s
          BY <1>1, <3>4, <4>2 DEF RefLessens
        <5> QED
          BY <1>0, <3>5, <4>2, <5>1
      <4> QED
        BY <4>1, <4>2
    <3>8. d.n.ls = e.n.ls /\ d.n.lw = e.n.lw /\ Lessens(e, d)
      BY <3>4 DEF RefLessens
    <3>9. k.n.ls = d.n.ls + One(r.tnode) + One(CarriesStrong(r)) /\ k.n.lw = d.n.lw + One(CarriesWeak(r))
      BY <1>0, <1>1, <2>1, <3>1, <3>8
    <3> QED
      BY <1>1, <3>4, <3>7, <3>8, <3>9, LessensTrans DEF Counted
  <2>3. CASE ~(r.kind = "handle" /\ e.r[r.to].live)
    <3>1. d = e
      BY <1>2, <1>4, <2>3
    <3>2. \A c \in Clients : ~HoldsHandle(r, c)
      <4> SUFFICES ASSUME NEW c \in Clients, HoldsHandle(r, c) PROVE FALSE
        OBVIOUS
      <4>1. k.r[c].s > 0
        OBVIOUS
      <4>2. k.r[c].live
        BY <4>1, CountedRefs DEF KInv
      <4> QED
        BY <1>1, <2>3, <4>2 DEF HoldsHandle
    <3>3. \A c \in Clients : k.r[c].s = k.r[c].s + One(HoldsHandle(r, c))
      BY <1>0, <3>2 DEF One
    <3>4. k.n.ls = e.n.ls + One(r.tnode) + One(CarriesStrong(r)) /\ k.n.lw = e.n.lw + One(CarriesWeak(r))
      BY <1>0, <1>01, <1>1, <2>1
    <3> HIDE DEF d
    <3> QED
      BY <1>1, <3>1, <3>3, <3>4 DEF Counted
  <2> QED
    BY <2>2, <2>3
<1> QED
  BY <1>3, <1>4

-----------------------------------------------------------------------------
(***************************************************************************)
(* The balance: the counts of the node and of the refs are those of the    *)
(* buffers f, of the clients and of the commands not answered yet.         *)
(***************************************************************************)
TargetBufs(f) == {b \in Buffers : f[b].tnode}
StrongBufs(f) == {b \in Buffers : CarriesStrong(f[b])}
WeakBufs(f) == {b \in Buffers : CarriesWeak(f[b])}
HandleBufs(f, c) == {b \in Buffers : HoldsHandle(f[b], c)}

RefBalance(k, f, pr) ==
  \A c \in Clients : k.r[c].s = Cardinality(HandleBufs(f, c)) + One(pr[c].s)

LocalBalance(k, f, al) ==
  IF Owner \in al
  THEN /\ k.n.ls = Cardinality(TargetBufs(f)) + Cardinality(StrongBufs(f)) + One(k.n.ps)
       /\ k.n.lw = Cardinality(WeakBufs(f)) + One(k.n.pw)
  ELSE k.n.ls = 0 /\ k.n.lw = 0

\* There are finitely many buffers.
LEMMA FiniteBuffers ==
  IsFiniteSet(Buffers)
BY FS_Interval, BinderAssumption DEF Buffers

\* One buffer more.
LEMMA BufferCounts ==
  ASSUME NEW f, NEW g, NEW b \in Buffers, \A a \in Buffers \ {b} : f[a] = g[a], f[b] = NoBuf
  PROVE  /\ Cardinality(TargetBufs(g)) = Cardinality(TargetBufs(f)) + One(g[b].tnode)
         /\ Cardinality(StrongBufs(g)) = Cardinality(StrongBufs(f)) + One(CarriesStrong(g[b]))
         /\ Cardinality(WeakBufs(g)) = Cardinality(WeakBufs(f)) + One(CarriesWeak(g[b]))
         /\ \A c \in Clients :
              Cardinality(HandleBufs(g, c)) = Cardinality(HandleBufs(f, c)) + One(HoldsHandle(g[b], c))
<1>0. IsFiniteSet(Buffers)
  BY FiniteBuffers
<1>1. ~f[b].tnode /\ ~CarriesStrong(f[b]) /\ ~CarriesWeak(f[b]) /\ \A c \in Clients : ~HoldsHandle(f[b], c)
  BY DEF NoBuf, CarriesStrong, CarriesWeak, HoldsHandle
<1>2. Cardinality(TargetBufs(g)) = Cardinality(TargetBufs(f)) + One(g[b].tnode)
  <2> DEFINE S == TargetBufs(f)
             T == TargetBufs(g)
  <2>1. /\ S \in SUBSET Buffers /\ T \in SUBSET Buffers /\ b \notin S
        /\ \A y \in Buffers \ {b} : y \in S <=> y \in T
        /\ b \in T <=> g[b].tnode
    BY <1>1 DEF TargetBufs
  <2> HIDE DEF S, T
  <2>2. Cardinality(T) = Cardinality(S) + One(b \in T)
    BY <1>0, <2>1, CountChange
  <2>3. One(b \in T) = One(g[b].tnode)
    BY <2>1 DEF One
  <2> QED
    BY <2>2, <2>3 DEF S, T
<1>3. Cardinality(StrongBufs(g)) = Cardinality(StrongBufs(f)) + One(CarriesStrong(g[b]))
  <2> DEFINE S == StrongBufs(f)
             T == StrongBufs(g)
  <2>1. /\ S \in SUBSET Buffers /\ T \in SUBSET Buffers /\ b \notin S
        /\ \A y \in Buffers \ {b} : y \in S <=> y \in T
        /\ b \in T <=> CarriesStrong(g[b])
    BY <1>1 DEF StrongBufs
  <2> HIDE DEF S, T
  <2>2. Cardinality(T) = Cardinality(S) + One(b \in T)
    BY <1>0, <2>1, CountChange
  <2>3. One(b \in T) = One(CarriesStrong(g[b]))
    BY <2>1 DEF One
  <2> QED
    BY <2>2, <2>3 DEF S, T
<1>4. Cardinality(WeakBufs(g)) = Cardinality(WeakBufs(f)) + One(CarriesWeak(g[b]))
  <2> DEFINE S == WeakBufs(f)
             T == WeakBufs(g)
  <2>1. /\ S \in SUBSET Buffers /\ T \in SUBSET Buffers /\ b \notin S
        /\ \A y \in Buffers \ {b} : y \in S <=> y \in T
        /\ b \in T <=> CarriesWeak(g[b])
    BY <1>1 DEF WeakBufs
  <2> HIDE DEF S, T
  <2>2. Cardinality(T) = Cardinality(S) + One(b \in T)
    BY <1>0, <2>1, CountChange
  <2>3. One(b \in T) = One(CarriesWeak(g[b]))
    BY <2>1 DEF One
  <2> QED
    BY <2>2, <2>3 DEF S, T
<1>5. ASSUME NEW c \in Clients
      PROVE  Cardinality(HandleBufs(g, c)) = Cardinality(HandleBufs(f, c)) + One(HoldsHandle(g[b], c))
  <2> DEFINE S == HandleBufs(f, c)
             T == HandleBufs(g, c)
  <2>1. /\ S \in SUBSET Buffers /\ T \in SUBSET Buffers /\ b \notin S
        /\ \A y \in Buffers \ {b} : y \in S <=> y \in T
        /\ b \in T <=> HoldsHandle(g[b], c)
    BY <1>1 DEF HandleBufs
  <2> HIDE DEF S, T
  <2>2. Cardinality(T) = Cardinality(S) + One(b \in T)
    BY <1>0, <2>1, CountChange
  <2>3. One(b \in T) = One(HoldsHandle(g[b], c))
    BY <2>1 DEF One
  <2> QED
    BY <2>2, <2>3 DEF S, T
<1> QED
  BY <1>2, <1>3, <1>4, <1>5

\* The numbers of the balance are natural numbers.
LEMMA BufferTypes ==
  ASSUME NEW f
  PROVE  /\ Cardinality(TargetBufs(f)) \in Nat /\ Cardinality(StrongBufs(f)) \in Nat
         /\ Cardinality(WeakBufs(f)) \in Nat
         /\ \A c \in Clients : Cardinality(HandleBufs(f, c)) \in Nat
<1>1. TargetBufs(f) \in SUBSET Buffers /\ StrongBufs(f) \in SUBSET Buffers /\ WeakBufs(f) \in SUBSET Buffers
  BY DEF TargetBufs, StrongBufs, WeakBufs
<1>2. \A c \in Clients : HandleBufs(f, c) \in SUBSET Buffers
  BY DEF HandleBufs
<1> QED
  BY <1>1, <1>2, FiniteBuffers, CountType

\* What a buffer counts on is there to be given back.
LEMMA BufferCovered ==
  ASSUME NEW k, NEW f, NEW pr, NEW al, RefBalance(k, f, pr), LocalBalance(k, f, al), Owner \in al,
         NEW b \in Buffers, k.n.ps \in BOOLEAN, k.n.pw \in BOOLEAN
  PROVE  /\ k.n.ls >= One(f[b].tnode) + One(CarriesStrong(f[b]))
         /\ k.n.lw >= One(CarriesWeak(f[b]))
<1>1. One(k.n.ps) \in {0, 1} /\ One(k.n.pw) \in {0, 1}
  BY DEF One
<1> DEFINE g == [a \in Buffers |-> IF a = b THEN NoBuf ELSE f[a]]
<1>2. g[b] = NoBuf /\ \A a \in Buffers \ {b} : g[a] = f[a]
  OBVIOUS
<1> HIDE DEF g
<1>3. /\ Cardinality(TargetBufs(f)) = Cardinality(TargetBufs(g)) + One(f[b].tnode)
      /\ Cardinality(StrongBufs(f)) = Cardinality(StrongBufs(g)) + One(CarriesStrong(f[b]))
      /\ Cardinality(WeakBufs(f)) = Cardinality(WeakBufs(g)) + One(CarriesWeak(f[b]))
  BY <1>2, BufferCounts
<1>4. /\ Cardinality(TargetBufs(g)) \in Nat /\ Cardinality(StrongBufs(g)) \in Nat
      /\ Cardinality(WeakBufs(g)) \in Nat
  BY BufferTypes
<1>5. One(f[b].tnode) \in {0, 1} /\ One(CarriesStrong(f[b])) \in {0, 1} /\ One(CarriesWeak(f[b])) \in {0, 1}
  BY DEF One
<1>6. /\ k.n.ls = Cardinality(TargetBufs(f)) + Cardinality(StrongBufs(f)) + One(k.n.ps)
      /\ k.n.lw = Cardinality(WeakBufs(f)) + One(k.n.pw)
  BY DEF LocalBalance
<1> QED
  BY <1>1, <1>3, <1>4, <1>5, <1>6

\* The strong handle in a buffer counts on its ref.
LEMMA HandleCovered ==
  ASSUME NEW k, NEW f, NEW pr, RefBalance(k, f, pr), NEW b \in Buffers, NEW c \in Clients
  PROVE  /\ HoldsHandle(f[b], c) => k.r[c].s > 0
         /\ pr[c].s => k.r[c].s > 0
<1>1. One(pr[c].s) \in {0, 1} /\ (pr[c].s => One(pr[c].s) = 1)
  BY DEF One
<1>2. HandleBufs(f, c) \in SUBSET Buffers
  BY DEF HandleBufs
<1>3. Cardinality(HandleBufs(f, c)) \in Nat /\ (Cardinality(HandleBufs(f, c)) > 0 <=> HandleBufs(f, c) # {})
  BY <1>2, FiniteBuffers, CountType
<1>4. HoldsHandle(f[b], c) => HandleBufs(f, c) # {}
  BY DEF HandleBufs
<1>5. k.r[c].s = Cardinality(HandleBufs(f, c)) + One(pr[c].s)
  BY DEF RefBalance
<1> QED
  BY <1>1, <1>3, <1>4, <1>5

\* Adding to the counts what a new buffer counts on keeps the balance, ...
LEMMA BalanceAdd ==
  ASSUME NEW k, NEW d, NEW f, NEW g, NEW pr, NEW al, RefBalance(k, f, pr), LocalBalance(k, f, al),
         NEW b \in Buffers, \A a \in Buffers \ {b} : f[a] = g[a], f[b] = NoBuf,
         Counted(k, d, g[b]),
         Owner \in al => d.n.ps = k.n.ps /\ d.n.pw = k.n.pw,
         Owner \notin al => ~g[b].tnode /\ g[b].kind # "binder"
  PROVE  RefBalance(d, g, pr) /\ LocalBalance(d, g, al)
<1>1. /\ Cardinality(TargetBufs(g)) = Cardinality(TargetBufs(f)) + One(g[b].tnode)
      /\ Cardinality(StrongBufs(g)) = Cardinality(StrongBufs(f)) + One(CarriesStrong(g[b]))
      /\ Cardinality(WeakBufs(g)) = Cardinality(WeakBufs(f)) + One(CarriesWeak(g[b]))
      /\ \A c \in Clients :
           Cardinality(HandleBufs(g, c)) = Cardinality(HandleBufs(f, c)) + One(HoldsHandle(g[b], c))
  BY BufferCounts
<1>2. /\ Cardinality(TargetBufs(f)) \in Nat /\ Cardinality(StrongBufs(f)) \in Nat
      /\ Cardinality(WeakBufs(f)) \in Nat
      /\ \A c \in Clients : Cardinality(HandleBufs(f, c)) \in Nat
  BY BufferTypes
<1>3. /\ One(g[b].tnode) \in {0, 1} /\ One(CarriesStrong(g[b])) \in {0, 1} /\ One(CarriesWeak(g[b])) \in {0, 1}
      /\ \A c \in Clients : One(HoldsHandle(g[b], c)) \in {0, 1} /\ One(pr[c].s) \in {0, 1}
      /\ One(k.n.ps) \in {0, 1} /\ One(k.n.pw) \in {0, 1}
  BY DEF One
<1>4. RefBalance(d, g, pr)
  <2> SUFFICES ASSUME NEW c \in Clients
               PROVE  d.r[c].s = Cardinality(HandleBufs(g, c)) + One(pr[c].s)
    BY DEF RefBalance
  <2>1. k.r[c].s = Cardinality(HandleBufs(f, c)) + One(pr[c].s)
    BY DEF RefBalance
  <2>2. d.r[c].s = k.r[c].s + One(HoldsHandle(g[b], c))
    BY DEF Counted
  <2> QED
    BY <1>1, <1>2, <1>3, <2>1, <2>2
<1>5. d.n.ls = k.n.ls + One(g[b].tnode) + One(CarriesStrong(g[b])) /\ d.n.lw = k.n.lw + One(CarriesWeak(g[b]))
  BY DEF Counted
<1>6. CASE Owner \in al
  <2>1. /\ k.n.ls = Cardinality(TargetBufs(f)) + Cardinality(StrongBufs(f)) + One(k.n.ps)
        /\ k.n.lw = Cardinality(WeakBufs(f)) + One(k.n.pw)
    BY <1>6 DEF LocalBalance
  <2>2. One(d.n.ps) = One(k.n.ps) /\ One(d.n.pw) = One(k.n.pw)
    BY <1>6
  <2>3. /\ d.n.ls = Cardinality(TargetBufs(g)) + Cardinality(StrongBufs(g)) + One(d.n.ps)
        /\ d.n.lw = Cardinality(WeakBufs(g)) + One(d.n.pw)
    BY <1>1, <1>2, <1>3, <1>5, <2>1, <2>2
  <2> QED
    BY <1>4, <1>6, <2>3 DEF LocalBalance
<1>7. CASE Owner \notin al
  <2>1. One(g[b].tnode) = 0 /\ One(CarriesStrong(g[b])) = 0 /\ One(CarriesWeak(g[b])) = 0
    BY <1>7 DEF One, CarriesStrong, CarriesWeak
  <2> QED
    BY <1>4, <1>5, <1>7, <2>1 DEF LocalBalance
<1> QED
  BY <1>6, <1>7

\* ... and so does giving it back when the buffer goes.
LEMMA BalanceFree ==
  ASSUME NEW k, NEW d, NEW f, NEW g, NEW pr, NEW al, RefBalance(k, g, pr), LocalBalance(k, g, al),
         d.n.ls \in Nat, d.n.lw \in Nat, \A c \in Clients : d.r[c].s \in Nat,
         NEW b \in Buffers, \A a \in Buffers \ {b} : f[a] = g[a], f[b] = NoBuf,
         Counted(d, k, g[b]),
         Owner \in al => d.n.ps = k.n.ps /\ d.n.pw = k.n.pw
  PROVE  RefBalance(d, f, pr) /\ LocalBalance(d, f, al)
<1>1. /\ Cardinality(TargetBufs(g)) = Cardinality(TargetBufs(f)) + One(g[b].tnode)
      /\ Cardinality(StrongBufs(g)) = Cardinality(StrongBufs(f)) + One(CarriesStrong(g[b]))
      /\ Cardinality(WeakBufs(g)) = Cardinality(WeakBufs(f)) + One(CarriesWeak(g[b]))
      /\ \A c \in Clients :
           Cardinality(HandleBufs(g, c)) = Cardinality(HandleBufs(f, c)) + One(HoldsHandle(g[b], c))
  <2>1. \A a \in Buffers \ {b} : f[a] = g[a]
    OBVIOUS
  <2>2. f[b] = NoBuf
    OBVIOUS
  <2> QED
    BY ONLY <2>1, <2>2, b \in Buffers, BufferCounts
<1>2. /\ Cardinality(TargetBufs(f)) \in Nat /\ Cardinality(StrongBufs(f)) \in Nat
      /\ Cardinality(WeakBufs(f)) \in Nat
      /\ \A c \in Clients : Cardinality(HandleBufs(f, c)) \in Nat
  BY BufferTypes
<1>3. /\ One(g[b].tnode) \in {0, 1} /\ One(CarriesStrong(g[b])) \in {0, 1} /\ One(CarriesWeak(g[b])) \in {0, 1}
      /\ \A c \in Clients : One(HoldsHandle(g[b], c)) \in {0, 1} /\ One(pr[c].s) \in {0, 1}
      /\ One(k.n.ps) \in {0, 1} /\ One(k.n.pw) \in {0, 1}
  BY DEF One
<1>4. RefBalance(d, f, pr)
  <2> SUFFICES ASSUME NEW c \in Clients
               PROVE  d.r[c].s = Cardinality(HandleBufs(f, c)) + One(pr[c].s)
    BY DEF RefBalance
  <2>1. k.r[c].s = Cardinality(HandleBufs(g, c)) + One(pr[c].s)
    BY DEF RefBalance
  <2>2. k.r[c].s = d.r[c].s + One(HoldsHandle(g[b], c))
    BY DEF Counted
  <2> QED
    BY <1>1, <1>2, <1>3, <2>1, <2>2
<1>5. k.n.ls = d.n.ls + One(g[b].tnode) + One(CarriesStrong(g[b])) /\ k.n.lw = d.n.lw + One(CarriesWeak(g[b]))
  BY DEF Counted
<1>6. CASE Owner \in al
  <2>1. /\ k.n.ls = Cardinality(TargetBufs(g)) + Cardinality(StrongBufs(g)) + One(k.n.ps)
        /\ k.n.lw = Cardinality(WeakBufs(g)) + One(k.n.pw)
    BY <1>6 DEF LocalBalance
  <2>2. One(d.n.ps) = One(k.n.ps) /\ One(d.n.pw) = One(k.n.pw)
    BY <1>6
  <2>3. /\ d.n.ls = Cardinality(TargetBufs(f)) + Cardinality(StrongBufs(f)) + One(d.n.ps)
        /\ d.n.lw = Cardinality(WeakBufs(f)) + One(d.n.pw)
    BY <1>1, <1>2, <1>3, <1>5, <2>1, <2>2
  <2> QED
    BY <1>4, <1>6, <2>3 DEF LocalBalance
<1>7. CASE Owner \notin al
  <2>1. k.n.ls = 0 /\ k.n.lw = 0
    BY <1>7 DEF LocalBalance
  <2>2. d.n.ls = 0 /\ d.n.lw = 0
    BY <1>3, <1>5, <2>1
  <2> QED
    BY <1>4, <1>7, <2>2 DEF LocalBalance
<1> QED
  BY <1>6, <1>7

-----------------------------------------------------------------------------
\* The counts of a triple k, the buffers f and what the clients count (pr)
\* agree, while the processes of al have not been released.
Core(k, f, pr, al) ==
  /\ KInv(k)
  /\ RefBalance(k, f, pr) /\ LocalBalance(k, f, al)
  /\ f \in [Buffers -> BufType] /\ al \subseteq Clients \cup {Owner}
  /\ \A b \in Buffers : BufOK(f[b]) /\ (f[b].to # "none" => f[b].to \in al)
  /\ k.n.live => (k.n.dead <=> Owner \notin al)

\* What the owner and its threads rely on in a step of the driver from k to d:
\* the driver's references stay, and the object does not come to need one that
\* nobody has been told to take.
Settles(k, d) ==
  /\ ~k.n.dead => /\ ~d.n.dead
                  /\ d.n.hs = k.n.hs /\ d.n.hw = k.n.hw /\ d.n.ps = k.n.ps /\ d.n.pw = k.n.pw
  /\ StrongK(d) /\ ~d.n.hs => StrongK(k) /\ (d.wk = k.wk \/ k.wk = "none")

\* Giving back settles.
LEMMA LessensSettles ==
  ASSUME NEW k, NEW d, Structure(d), Lessens(k, d)
  PROVE  Settles(k, d)
<1>1. ~d.n.live => ~StrongK(d)
  BY DEF Structure, NoNode, StrongK
<1> QED
  BY <1>1 DEF Lessens, Settles

\* A freed or not yet created node is not dead, and has no counts.
LEMMA CoreFacts ==
  ASSUME NEW k, NEW f, NEW pr, NEW al, Core(k, f, pr, al)
  PROVE  /\ k \in KernelType /\ k.n \in NodeType /\ k.wk \in WorkType /\ k.r \in [Clients -> RefType]
         /\ k.n.is \in Nat /\ k.n.ls \in Nat /\ k.n.lw \in Nat
         /\ \A c \in Clients : k.r[c].s \in Nat
         /\ Owner \in al => ~k.n.dead
         /\ \A c \in Clients : k.r[c].live => k.n.live
<1>1. Structure(k)
  BY DEF Core, KInv
<1>2. k \in KernelType /\ k.n \in NodeType /\ k.wk \in WorkType /\ k.r \in [Clients -> RefType]
  BY <1>1 DEF Structure, KernelType
<1>3. \A c \in Clients : k.r[c] \in RefType
  BY <1>2
<1>4. k.n.is \in Nat /\ k.n.ls \in Nat /\ k.n.lw \in Nat /\ \A c \in Clients : k.r[c].s \in Nat
  BY <1>2, <1>3 DEF NodeType, RefType
<1>5. ~k.n.live => ~k.n.dead
  BY <1>1 DEF Structure, NoNode
<1>6. Owner \in al => ~k.n.dead
  BY <1>5 DEF Core
<1>7. \A c \in Clients : k.r[c].live => k.n.live
  BY <1>1 DEF Structure, HasRefs
<1> QED
  BY <1>2, <1>4, <1>6, <1>7

\* The counts of two triples are the same.
SameCounts(k, d) ==
  /\ d.n.ls = k.n.ls /\ d.n.lw = k.n.lw
  /\ \A c \in Clients : d.r[c].s = k.r[c].s

\* The balance is a matter of the counts only.
LEMMA CoreSame ==
  ASSUME NEW k, NEW d, NEW f, NEW pr, NEW al, Core(k, f, pr, al), KInv(d), SameCounts(k, d),
         d.n.live => (d.n.dead <=> Owner \notin al),
         Owner \in al => d.n.ps = k.n.ps /\ d.n.pw = k.n.pw
  PROVE  Core(d, f, pr, al)
<1>1. RefBalance(d, f, pr)
  BY DEF Core, RefBalance, SameCounts
<1>2. LocalBalance(d, f, al)
  <2>1. CASE Owner \in al
    <3>1. One(d.n.ps) = One(k.n.ps) /\ One(d.n.pw) = One(k.n.pw)
      BY <2>1
    <3> QED
      BY <2>1, <3>1 DEF Core, LocalBalance, SameCounts
  <2>2. CASE Owner \notin al
    BY <2>2 DEF Core, LocalBalance, SameCounts
  <2> QED
    BY <2>1, <2>2
<1> QED
  BY <1>1, <1>2 DEF Core

\* A transaction that goes through: the new buffer b counts what was added.
LEMMA CoreSend ==
  ASSUME NEW k, NEW d, NEW f, NEW pr, NEW al, Core(k, f, pr, al), KInv(d),
         NEW r \in BufType, BufOK(r), r.to \in al, Counted(k, d, r),
         NEW b \in Buffers, f[b] = NoBuf,
         d.n.live => (d.n.dead <=> Owner \notin al),
         Owner \in al => d.n.ps = k.n.ps /\ d.n.pw = k.n.pw
  PROVE  Core(d, [f EXCEPT ![b] = r], pr, al)
<1> DEFINE g == [f EXCEPT ![b] = r]
<1>1. g \in [Buffers -> BufType] /\ g[b] = r /\ \A a \in Buffers \ {b} : f[a] = g[a]
  BY DEF Core
<1> HIDE DEF g
<1>2. RefBalance(k, f, pr) /\ LocalBalance(k, f, al)
  BY DEF Core
<1>3. Owner \notin al => ~g[b].tnode /\ g[b].kind # "binder"
  BY <1>1 DEF BufOK
<1>4. Counted(k, d, g[b])
  BY <1>1
<1>5. RefBalance(d, g, pr) /\ LocalBalance(d, g, al)
  BY <1>1, <1>2, <1>3, <1>4, BalanceAdd
<1>6. \A a \in Buffers : BufOK(g[a]) /\ (g[a].to # "none" => g[a].to \in al)
  BY <1>1 DEF Core
<1>7. Core(d, g, pr, al)
  BY <1>1, <1>5, <1>6 DEF Core
<1> QED
  BY <1>7 DEF g

\* A transaction that is taken back: the counts are what they were.
LEMMA CoreTakenBack ==
  ASSUME NEW k, NEW d, NEW f, NEW pr, NEW al, Core(k, f, pr, al), KInv(d),
         NEW r \in BufType, BufOK(r), Counted(k, d, r),
         d.n.live => (d.n.dead <=> Owner \notin al),
         Owner \in al => ~d.n.dead /\ d.n.ps = k.n.ps /\ d.n.pw = k.n.pw
  PROVE  LET e == binder_transaction_buffer_release(d, r)
         IN  Core(e, f, pr, al) /\ Lessens(d, e) /\ e.n.is = k.n.is /\ SameCounts(k, e)
<1> DEFINE e == binder_transaction_buffer_release(d, r)
<1>1. /\ k.n.is \in Nat /\ k.n.ls \in Nat /\ k.n.lw \in Nat
      /\ \A c \in Clients : k.r[c].s \in Nat
  BY CoreFacts
<1>2. /\ One(r.tnode) \in {0, 1} /\ One(CarriesStrong(r)) \in {0, 1} /\ One(CarriesWeak(r)) \in {0, 1}
      /\ \A c \in Clients : One(HoldsHandle(r, c)) \in {0, 1}
      /\ \A c \in Clients : HoldsHandle(r, c) => One(HoldsHandle(r, c)) = 1
  BY DEF One
<1>3. d.n.ls >= One(r.tnode) + One(CarriesStrong(r)) /\ d.n.lw >= One(CarriesWeak(r))
  BY <1>1, <1>2 DEF Counted
<1>4. \A c \in Clients : HoldsHandle(r, c) => d.r[c].s > 0
  BY <1>1, <1>2 DEF Counted
<1>5. KInv(e) /\ Lessens(d, e) /\ Counted(e, d, r)
  BY <1>3, <1>4, ReleaseBuffer
<1> HIDE DEF e
<1>6. e \in KernelType
  BY <1>5 DEF KInv, Structure
<1>7. e.n.ls \in Nat /\ e.n.lw \in Nat /\ \A c \in Clients : e.r[c].s \in Nat
  BY <1>6 DEF KernelType, NodeType, RefType
<1>8. SameCounts(k, e)
  <2>1. e.n.ls = k.n.ls /\ e.n.lw = k.n.lw
    BY <1>1, <1>2, <1>5, <1>7 DEF Counted
  <2>2. ASSUME NEW c \in Clients PROVE e.r[c].s = k.r[c].s
    <3>1. d.r[c].s = k.r[c].s + One(HoldsHandle(r, c)) /\ d.r[c].s = e.r[c].s + One(HoldsHandle(r, c))
      BY <1>5 DEF Counted
    <3> QED
      BY <1>1, <1>2, <1>7, <3>1
  <2> QED
    BY <2>1, <2>2 DEF SameCounts
<1>9. e.n.is = k.n.is
  <2>1. StrongRefs(e.r) = StrongRefs(k.r)
    BY <1>8 DEF StrongRefs, SameCounts
  <2> QED
    BY <1>5, <2>1 DEF KInv, Core
<1>10. e.n.live => (e.n.dead <=> Owner \notin al)
  BY <1>5 DEF Lessens
<1>11. Owner \in al => e.n.ps = k.n.ps /\ e.n.pw = k.n.pw
  BY <1>5 DEF Lessens
<1>12. Core(e, f, pr, al)
  BY <1>5, <1>8, <1>10, <1>11, CoreSame
<1> QED
  BY <1>5, <1>8, <1>9, <1>12 DEF e

\* The node that a first send of the object makes.
NewNode(n) == IF n.live THEN n ELSE [NoNode EXCEPT !.live = TRUE]

\* Making the node changes no count, and nobody need be told.
LEMMA CoreNewNode ==
  ASSUME NEW k, NEW f, NEW pr, NEW al, Core(k, f, pr, al), Owner \in al
  PROVE  LET m == [k EXCEPT !.n = NewNode(k.n)]
         IN  /\ Core(m, f, pr, al) /\ m.n.live /\ ~m.n.dead
             /\ SameCounts(k, m) /\ m.n.is = k.n.is /\ m.wk = k.wk /\ m.n.hs = k.n.hs
             /\ Settles(k, m)
<1> DEFINE q == NewNode(k.n)
           m == [k EXCEPT !.n = q]
<1>1. k \in KernelType /\ k.n \in NodeType /\ ~k.n.dead /\ Structure(k) /\ KInv(k)
  BY CoreFacts DEF Core, KInv
<1>2. CASE k.n.live
  <2>1. m = k
    BY <1>1, <1>2 DEF NewNode, KernelType
  <2> HIDE DEF m
  <2>2. SameCounts(k, k) /\ Settles(k, k)
    BY <1>1 DEF SameCounts, Settles
  <2>3. /\ Core(m, f, pr, al) /\ m.n.live /\ ~m.n.dead
        /\ SameCounts(k, m) /\ m.n.is = k.n.is /\ m.wk = k.wk /\ m.n.hs = k.n.hs
        /\ Settles(k, m)
    BY <1>1, <1>2, <2>1, <2>2
  <2> QED
    BY <2>3 DEF m
<1>3. CASE ~k.n.live
  <2>1. k.n = NoNode /\ k.wk = "none" /\ ~HasRefs(k)
    BY <1>1, <1>3 DEF Structure
  <2>2. /\ q.live /\ ~q.dead /\ q.is = 0 /\ q.ls = 0 /\ q.lw = 0
        /\ ~q.hs /\ ~q.hw /\ ~q.ps /\ ~q.pw /\ q \in NodeType
    BY <1>3 DEF NewNode, NoNode, NodeType
  <2>3. /\ ~k.n.hs /\ ~k.n.hw /\ ~k.n.ps /\ ~k.n.pw /\ k.n.is = 0 /\ k.n.ls = 0 /\ k.n.lw = 0
        /\ k.n.hs = FALSE /\ k.n.hw = FALSE /\ k.n.ps = FALSE /\ k.n.pw = FALSE
    BY <2>1 DEF NoNode
  <2>4. q.hs = FALSE /\ q.hw = FALSE /\ q.ps = FALSE /\ q.pw = FALSE
    BY <2>2 DEF NodeType
  <2> HIDE DEF q
  <2>5. m.n = q /\ m.wk = k.wk /\ m.r = k.r /\ m \in KernelType
    BY <1>1, <2>2 DEF KernelType
  <2> HIDE DEF m
  <2>6. HasRefs(m) <=> HasRefs(k)
    BY <2>5 DEF HasRefs
  <2>7. Structure(m)
    BY <1>1, <2>2, <2>5 DEF Structure
  <2>8. ~StrongK(m) /\ ~WeakK(m)
    BY <2>1, <2>2, <2>5, <2>6 DEF StrongK, WeakK
  <2>9. KInv(m)
    BY <1>1, <2>2, <2>3, <2>5, <2>7, <2>8 DEF KInv, Pending
  <2>10. SameCounts(k, m) /\ m.n.is = k.n.is /\ m.n.hs = k.n.hs /\ m.n.ps = k.n.ps /\ m.n.pw = k.n.pw
    BY <2>2, <2>3, <2>4, <2>5 DEF SameCounts
  <2>11. Settles(k, m)
    BY <2>2, <2>3, <2>4, <2>5, <2>8 DEF Settles
  <2>12. Core(m, f, pr, al)
    BY <2>2, <2>5, <2>9, <2>10, CoreSame
  <2>13. m.n.live /\ ~m.n.dead /\ m.wk = k.wk
    BY <2>2, <2>5
  <2> QED
    BY <2>10, <2>11, <2>12, <2>13 DEF m, q
<1> QED
  BY <1>2, <1>3

\* The buffer with a handle for client c.
HandleBuf(c, strong) == [NoBuf EXCEPT !.to = c, !.kind = "handle", !.strong = strong]

\* It has the right form, and counts only on its ref.
LEMMA HandleBufFacts ==
  ASSUME NEW c \in Clients, NEW strong \in BOOLEAN
  PROVE  LET r == HandleBuf(c, strong)
         IN  /\ r \in BufType /\ BufOK(r) /\ r.to = c
             /\ One(r.tnode) = 0 /\ One(CarriesStrong(r)) = 0 /\ One(CarriesWeak(r)) = 0
             /\ One(HoldsHandle(r, c)) = One(strong)
             /\ \A e \in Clients \ {c} : One(HoldsHandle(r, e)) = 0
<1> DEFINE r == HandleBuf(c, strong)
<1>1. r.to = c /\ r.kind = "handle" /\ r.strong = strong /\ r.tnode = FALSE /\ r \in BufType
  BY DEF HandleBuf, NoBuf, BufType
<1> HIDE DEF r
<1>2. c # "none"
  BY BinderAssumption
<1>3. BufOK(r)
  BY <1>1, <1>2 DEF BufOK
<1>4. ~r.tnode /\ ~CarriesStrong(r) /\ ~CarriesWeak(r)
  BY <1>1 DEF CarriesStrong, CarriesWeak
<1>5. HoldsHandle(r, c) = strong /\ \A e \in Clients \ {c} : ~HoldsHandle(r, e)
  BY <1>1 DEF HoldsHandle
<1>6. One(r.tnode) = 0 /\ One(CarriesStrong(r)) = 0 /\ One(CarriesWeak(r)) = 0
  BY <1>4 DEF One
<1>7. One(HoldsHandle(r, c)) = One(strong) /\ \A e \in Clients \ {c} : One(HoldsHandle(r, e)) = 0
  BY <1>5 DEF One
<1> QED
  BY <1>1, <1>3, <1>6, <1>7 DEF r

\* Counting on a ref is counting for a buffer with the handle.
LEMMA GrowsCounted ==
  ASSUME NEW k, NEW f, NEW pr, NEW al, Core(k, f, pr, al), NEW d, NEW c \in Clients,
         NEW strong \in BOOLEAN, NEW list, RefGrows(k, d, c, strong, list)
  PROVE  Counted(k, d, HandleBuf(c, strong))
<1> DEFINE r == HandleBuf(c, strong)
<1>1. /\ One(r.tnode) = 0 /\ One(CarriesStrong(r)) = 0 /\ One(CarriesWeak(r)) = 0
      /\ One(HoldsHandle(r, c)) = One(strong)
      /\ \A e \in Clients \ {c} : One(HoldsHandle(r, e)) = 0
  BY HandleBufFacts
<1> HIDE DEF r
<1>2. k.n.ls \in Nat /\ k.n.lw \in Nat /\ \A e \in Clients : k.r[e].s \in Nat
  BY CoreFacts
<1>3. d.n.ls = k.n.ls /\ d.n.lw = k.n.lw /\ d.r[c].s = k.r[c].s + One(strong) /\ \A e \in Clients \ {c} : d.r[e] = k.r[e]
  BY DEF RefGrows
<1>4. d.n.ls = k.n.ls + One(r.tnode) + One(CarriesStrong(r)) /\ d.n.lw = k.n.lw + One(CarriesWeak(r))
  BY <1>1, <1>2, <1>3
<1>5. ASSUME NEW e \in Clients PROVE d.r[e].s = k.r[e].s + One(HoldsHandle(r, e))
  <2>1. CASE e = c
    BY <1>1, <1>3, <2>1
  <2>2. CASE e # c
    <3>1. One(HoldsHandle(r, e)) = 0 /\ d.r[e] = k.r[e] /\ k.r[e].s \in Nat
      BY <1>1, <1>2, <1>3, <2>2
    <3> QED
      BY <3>1
  <2> QED
    BY <2>1, <2>2
<1>6. Counted(k, d, r)
  BY <1>4, <1>5 DEF Counted
<1> QED
  BY <1>6 DEF r

\* A client that counts on the node lets another client, or itself, count too.
LEMMA GrowsSettles ==
  ASSUME NEW k, NEW d, NEW c, NEW strong, RefGrows(k, d, c, strong, Nobody)
  PROVE  Settles(k, d)
BY DEF RefGrows, Settles, SameFlags

\* BC_FREE_BUFFER
LEMMA CoreFree ==
  ASSUME NEW k, NEW f, NEW pr, NEW al, Core(k, f, pr, al), NEW b \in Buffers, f[b].to \in al
  PROVE  LET d == binder_transaction_buffer_release(k, f[b])
         IN  Core(d, [f EXCEPT ![b] = NoBuf], pr, al) /\ Settles(k, d)
<1> DEFINE r == f[b]
           d == binder_transaction_buffer_release(k, r)
           g == [f EXCEPT ![b] = NoBuf]
<1>1. r \in BufType /\ BufOK(r) /\ KInv(k) /\ RefBalance(k, f, pr) /\ LocalBalance(k, f, al)
  BY DEF Core
<1>2. /\ k.n \in NodeType /\ k.n.ls \in Nat /\ k.n.lw \in Nat
      /\ Owner \in al => ~k.n.dead
  BY CoreFacts
<1>3. k.n.ls >= One(r.tnode) + One(CarriesStrong(r)) /\ k.n.lw >= One(CarriesWeak(r))
  <2>1. CASE Owner \in al
    BY <1>1, <1>2, <2>1, BufferCovered DEF NodeType
  <2>2. CASE Owner \notin al
    <3>1. One(r.tnode) = 0 /\ One(CarriesStrong(r)) = 0 /\ One(CarriesWeak(r)) = 0
      BY <1>1, <2>2 DEF BufOK, CarriesStrong, CarriesWeak, One
    <3> QED
      BY <1>2, <3>1
  <2> QED
    BY <2>1, <2>2
<1>4. \A c \in Clients : HoldsHandle(r, c) => k.r[c].s > 0
  BY <1>1, HandleCovered
<1>5. KInv(d) /\ Lessens(k, d) /\ Counted(d, k, r)
  BY <1>1, <1>3, <1>4, ReleaseBuffer
<1>6. \A a \in Buffers \ {b} : g[a] = f[a]
  BY DEF Core
<1>7. g[b] = NoBuf /\ g \in [Buffers -> BufType]
  BY DEF Core, BufType, NoBuf
<1> HIDE DEF d, g
<1>8. d \in KernelType /\ Structure(d)
  BY <1>5 DEF KInv, Structure
<1>9. d.n.ls \in Nat /\ d.n.lw \in Nat /\ \A c \in Clients : d.r[c].s \in Nat
  BY <1>8 DEF KernelType, NodeType, RefType
<1>10. Owner \in al => d.n.ps = k.n.ps /\ d.n.pw = k.n.pw
  BY <1>2, <1>5 DEF Lessens
<1>11. RefBalance(d, g, pr) /\ LocalBalance(d, g, al)
  BY <1>1, <1>5, <1>6, <1>7, <1>9, <1>10, BalanceFree
<1>12. \A a \in Buffers : BufOK(g[a]) /\ (g[a].to # "none" => g[a].to \in al)
  BY <1>6, <1>7 DEF Core, BufOK, NoBuf
<1>13. d.n.live => (d.n.dead <=> Owner \notin al)
  BY <1>5 DEF Lessens, Core
<1>14. Core(d, g, pr, al)
  BY <1>5, <1>7, <1>11, <1>12, <1>13 DEF Core
<1>15. Settles(k, d)
  BY <1>5, <1>8, LessensSettles
<1> QED
  BY <1>14, <1>15 DEF d, g

\* A client counts or gives back: its own ref and what it counts (pr) change.
LEMMA CoreProxy ==
  ASSUME NEW k, NEW d, NEW f, NEW pr, NEW qr, NEW al, Core(k, f, pr, al), KInv(d),
         NEW c \in Clients, \A e \in Clients \ {c} : d.r[e] = k.r[e] /\ qr[e] = pr[e],
         d.r[c].s = Cardinality(HandleBufs(f, c)) + One(qr[c].s),
         d.n.ls = k.n.ls, d.n.lw = k.n.lw,
         d.n.live => (d.n.dead <=> Owner \notin al),
         Owner \in al => d.n.ps = k.n.ps /\ d.n.pw = k.n.pw
  PROVE  Core(d, f, qr, al)
<1>1. RefBalance(d, f, qr)
  <2> SUFFICES ASSUME NEW e \in Clients
               PROVE  d.r[e].s = Cardinality(HandleBufs(f, e)) + One(qr[e].s)
    BY DEF RefBalance
  <2>1. CASE e = c
    BY <2>1
  <2>2. CASE e # c
    <3>1. d.r[e] = k.r[e] /\ qr[e] = pr[e]
      BY <2>2
    <3>2. k.r[e].s = Cardinality(HandleBufs(f, e)) + One(pr[e].s)
      BY DEF Core, RefBalance
    <3> QED
      BY <3>1, <3>2
  <2> QED
    BY <2>1, <2>2
<1>2. LocalBalance(d, f, al)
  <2>1. CASE Owner \in al
    <3>1. One(d.n.ps) = One(k.n.ps) /\ One(d.n.pw) = One(k.n.pw)
      BY <2>1
    <3> QED
      BY <2>1, <3>1 DEF Core, LocalBalance
  <2>2. CASE Owner \notin al
    BY <2>2 DEF Core, LocalBalance
  <2> QED
    BY <2>1, <2>2
<1> QED
  BY <1>1, <1>2 DEF Core

\* binder_get_ref_for_node finds a ref that is there.
LEMMA GetRefLive ==
  ASSUME NEW k \in KernelType, NEW c \in Clients, k.r[c].live
  PROVE  binder_get_ref_for_node(k, c) = k
<1>1. k.r[c] \in RefType
  BY DEF KernelType
<1>2. [k.r[c] EXCEPT !.live = TRUE] = k.r[c]
  BY <1>1 DEF RefType
<1>3. [k EXCEPT !.r[c].live = TRUE] = [k EXCEPT !.r = [k.r EXCEPT ![c] = [k.r[c] EXCEPT !.live = TRUE]]]
  OBVIOUS
<1>4. [k.r EXCEPT ![c] = k.r[c]] = k.r
  BY DEF KernelType
<1>5. [k EXCEPT !.r = k.r] = k
  BY DEF KernelType
<1> QED
  BY <1>2, <1>3, <1>4, <1>5 DEF binder_get_ref_for_node

\* A client that has a strong count has it on the node too.
LEMMA StrongOnNode ==
  ASSUME NEW k, NEW f, NEW pr, NEW al, Core(k, f, pr, al), NEW c \in Clients, k.r[c].s > 0
  PROVE  k.n.is > 0 /\ k.r[c].live /\ k.n.live /\ HasRefs(k) /\ StrongK(k)
<1>1. k.n.is > 0 /\ k.r[c].live
  BY CountedRefs DEF Core, KInv
<1>2. k.n.live
  BY <1>1, CoreFacts
<1>3. HasRefs(k)
  BY <1>1 DEF HasRefs
<1> QED
  BY <1>1, <1>2, <1>3 DEF StrongK

\* What a client's table of counts is after it counts, ...
TakeProxy(pr, c, strong) ==
  [pr EXCEPT ![c] = IF strong THEN [@ EXCEPT !.s = TRUE] ELSE [@ EXCEPT !.w = TRUE]]

\* ... and after it gives back.
DropProxy(pr, c, strong) ==
  [pr EXCEPT ![c] = IF strong THEN [@ EXCEPT !.s = FALSE] ELSE [@ EXCEPT !.w = FALSE]]

\* What TakeProxy does to the strong count of the client and to the others.
LEMMA TakeProxyFacts ==
  ASSUME NEW pr \in [Clients -> [s : BOOLEAN, w : BOOLEAN]], NEW c \in Clients, NEW strong \in BOOLEAN
  PROVE  LET qr == TakeProxy(pr, c, strong)
         IN  /\ qr \in [Clients -> [s : BOOLEAN, w : BOOLEAN]]
             /\ \A e \in Clients \ {c} : qr[e] = pr[e]
             /\ strong => qr[c].s
             /\ ~strong => qr[c].s = pr[c].s
<1>1. CASE strong
  BY <1>1 DEF TakeProxy
<1>2. CASE ~strong
  BY <1>2 DEF TakeProxy
<1> QED
  BY <1>1, <1>2

\* What DropProxy does to them.
LEMMA DropProxyFacts ==
  ASSUME NEW pr \in [Clients -> [s : BOOLEAN, w : BOOLEAN]], NEW c \in Clients, NEW strong \in BOOLEAN
  PROVE  LET qr == DropProxy(pr, c, strong)
         IN  /\ qr \in [Clients -> [s : BOOLEAN, w : BOOLEAN]]
             /\ \A e \in Clients \ {c} : qr[e] = pr[e]
             /\ strong => ~qr[c].s
             /\ ~strong => qr[c].s = pr[c].s
<1>1. CASE strong
  BY <1>1 DEF DropProxy
<1>2. CASE ~strong
  BY <1>2 DEF DropProxy
<1> QED
  BY <1>1, <1>2

\* BC_INCREFS and BC_ACQUIRE of a client that has the handle.
LEMMA CoreClientInc ==
  ASSUME NEW k, NEW f, NEW pr \in [Clients -> [s : BOOLEAN, w : BOOLEAN]], NEW al,
         Core(k, f, pr, al), NEW c \in Clients, k.r[c].live, NEW strong \in BOOLEAN,
         strong => k.r[c].s > 0 /\ ~pr[c].s
  PROVE  LET d == binder_inc_ref(k, c, strong, Nobody)
         IN  Core(d, f, TakeProxy(pr, c, strong), al) /\ Settles(k, d)
<1> DEFINE d == binder_inc_ref(k, c, strong, Nobody)
           qr == TakeProxy(pr, c, strong)
<1>1. k \in KernelType /\ KInv(k) /\ k.n.live /\ (Owner \in al => ~k.n.dead) /\ k.r[c].s \in Nat
  BY CoreFacts DEF Core
<1>2. HasRefs(k)
  BY DEF HasRefs
<1>3. strong => k.n.is > 0
  BY StrongOnNode
<1>4. KInv(d) /\ RefGrows(k, d, c, strong, Nobody)
  BY <1>1, <1>2, <1>3, GetRefLive, AddRef
<1>5. /\ \A e \in Clients \ {c} : qr[e] = pr[e]
      /\ strong => qr[c].s
      /\ ~strong => qr[c].s = pr[c].s
  BY TakeProxyFacts
<1> HIDE DEF d, qr
<1>6. /\ SameFlags(k.n, d.n) /\ d.n.ls = k.n.ls /\ d.n.lw = k.n.lw
      /\ d.r[c].s = k.r[c].s + One(strong) /\ \A e \in Clients \ {c} : d.r[e] = k.r[e]
  BY <1>4 DEF RefGrows
<1>7. k.r[c].s = Cardinality(HandleBufs(f, c)) + One(pr[c].s) /\ Cardinality(HandleBufs(f, c)) \in Nat
  BY BufferTypes DEF Core, RefBalance
<1>8. d.r[c].s = Cardinality(HandleBufs(f, c)) + One(qr[c].s)
  <2>1. CASE strong
    <3>1. One(strong) = 1 /\ One(qr[c].s) = 1 /\ One(pr[c].s) = 0
      BY <1>5, <2>1 DEF One
    <3> QED
      BY <1>6, <1>7, <3>1
  <2>2. CASE ~strong
    <3>1. One(strong) = 0 /\ One(qr[c].s) = One(pr[c].s)
      BY <1>5, <2>2 DEF One
    <3> QED
      BY <1>1, <1>6, <1>7, <3>1
  <2> QED
    BY <2>1, <2>2
<1>9. d.n.live => (d.n.dead <=> Owner \notin al)
  BY <1>6 DEF SameFlags, Core
<1>10. Core(d, f, qr, al)
  <2>1. \A e \in Clients \ {c} : d.r[e] = k.r[e] /\ qr[e] = pr[e]
    BY <1>5, <1>6
  <2>2. d.n.ps = k.n.ps /\ d.n.pw = k.n.pw
    BY <1>6 DEF SameFlags
  <2> QED
    BY <1>4, <1>6, <1>8, <1>9, <2>1, <2>2, CoreProxy
<1>11. Settles(k, d)
  BY <1>4, GrowsSettles
<1> QED
  BY <1>10, <1>11 DEF d, qr

\* BC_RELEASE and BC_DECREFS of a client that counts.
LEMMA CoreClientDec ==
  ASSUME NEW k, NEW f, NEW pr \in [Clients -> [s : BOOLEAN, w : BOOLEAN]], NEW al,
         Core(k, f, pr, al), NEW c \in Clients, NEW strong \in BOOLEAN,
         strong => pr[c].s
  PROVE  LET d == IF k.r[c].live THEN binder_dec_ref(k, c, strong) ELSE k
         IN  Core(d, f, DropProxy(pr, c, strong), al) /\ Settles(k, d)
<1> DEFINE d == IF k.r[c].live THEN binder_dec_ref(k, c, strong) ELSE k
           qr == DropProxy(pr, c, strong)
<1>1. KInv(k) /\ RefBalance(k, f, pr) /\ (Owner \in al => ~k.n.dead) /\ k.r[c].s \in Nat
  BY CoreFacts DEF Core
<1>2. k.r[c].s = Cardinality(HandleBufs(f, c)) + One(pr[c].s) /\ Cardinality(HandleBufs(f, c)) \in Nat
  BY <1>1, BufferTypes DEF RefBalance
<1>3. strong => k.r[c].s > 0 /\ k.r[c].live
  <2>1. CASE strong
    <3>1. One(pr[c].s) = 1
      BY <2>1 DEF One
    <3>2. k.r[c].s > 0
      BY <1>2, <3>1
    <3> QED
      BY <3>2, StrongOnNode
  <2> QED
    BY <2>1
<1>4. KInv(d) /\ RefLessens(k, d, c, k.r[c].s - One(strong))
  <2>1. CASE k.r[c].live
    BY <1>1, <1>3, <2>1, DecRef
  <2>2. CASE ~k.r[c].live
    <3>1. d = k
      BY <2>2
    <3>2. One(strong) = 0
      BY <1>3, <2>2 DEF One
    <3>3. k.r[c].s = k.r[c].s - One(strong)
      BY <1>1, <3>2
    <3>4. Lessens(k, k)
      BY LessensSame
    <3> QED
      BY <1>1, <3>1, <3>3, <3>4 DEF RefLessens
  <2> QED
    BY <2>1, <2>2
<1>5. /\ \A e \in Clients \ {c} : qr[e] = pr[e]
      /\ strong => ~qr[c].s
      /\ ~strong => qr[c].s = pr[c].s
  BY DropProxyFacts
<1> HIDE DEF d, qr
<1>6. /\ Lessens(k, d) /\ d.n.ls = k.n.ls /\ d.n.lw = k.n.lw
      /\ d.r[c].s = k.r[c].s - One(strong) /\ \A e \in Clients \ {c} : d.r[e] = k.r[e]
  BY <1>4 DEF RefLessens
<1>7. d.r[c].s = Cardinality(HandleBufs(f, c)) + One(qr[c].s)
  <2>1. CASE strong
    <3>1. One(strong) = 1 /\ One(qr[c].s) = 0 /\ One(pr[c].s) = 1
      BY <1>5, <2>1 DEF One
    <3> QED
      BY <1>2, <1>6, <3>1
  <2>2. CASE ~strong
    <3>1. One(strong) = 0 /\ One(qr[c].s) = One(pr[c].s)
      BY <1>5, <2>2 DEF One
    <3> QED
      BY <1>1, <1>2, <1>6, <3>1
  <2> QED
    BY <2>1, <2>2
<1>8. d.n.live => (d.n.dead <=> Owner \notin al)
  BY <1>6 DEF Lessens, Core
<1>9. Owner \in al => d.n.ps = k.n.ps /\ d.n.pw = k.n.pw
  BY <1>1, <1>6 DEF Lessens
<1>10. Core(d, f, qr, al)
  <2>1. \A e \in Clients \ {c} : d.r[e] = k.r[e] /\ qr[e] = pr[e]
    BY <1>5, <1>6
  <2> QED
    BY <1>4, <1>6, <1>7, <1>8, <1>9, <2>1, CoreProxy
<1>11. Settles(k, d)
  BY <1>4, <1>6, LessensSettles DEF KInv
<1> QED
  BY <1>10, <1>11 DEF d, qr

-----------------------------------------------------------------------------
\* The buffers, once those of process p are gone.
Forget(f, p) == [b \in Buffers |-> IF b \in {a \in Buffers : f[a].to = p} THEN NoBuf ELSE f[b]]

\* Only what the buffers of p count on goes with them.
LEMMA ForgetFacts ==
  ASSUME NEW f \in [Buffers -> BufType], NEW p, p # "none", \A b \in Buffers : BufOK(f[b])
  PROVE  LET g == Forget(f, p)
         IN  /\ g \in [Buffers -> BufType]
             /\ \A b \in Buffers : BufOK(g[b]) /\ g[b].to \in {f[b].to, "none"} \ {p}
             /\ p # Owner => /\ TargetBufs(g) = TargetBufs(f)
                             /\ StrongBufs(g) = StrongBufs(f) /\ WeakBufs(g) = WeakBufs(f)
             /\ HandleBufs(g, p) = {}
             /\ \A e \in Clients \ {p} : HandleBufs(g, e) = HandleBufs(f, e)
<1> DEFINE g == Forget(f, p)
<1>1. \A b \in Buffers : g[b] = IF f[b].to = p THEN NoBuf ELSE f[b]
  BY DEF Forget
<1>2. NoBuf \in BufType /\ NoBuf.to = "none" /\ NoBuf.kind = "none" /\ NoBuf.tnode = FALSE /\ BufOK(NoBuf)
  BY DEF NoBuf, BufType, BufOK
<1>3. g \in [Buffers -> BufType]
  BY <1>2 DEF Forget
<1> HIDE DEF g
<1>4. ASSUME NEW b \in Buffers
      PROVE  /\ BufOK(g[b]) /\ g[b].to \in {f[b].to, "none"} \ {p}
             /\ p # Owner => /\ g[b].tnode <=> f[b].tnode
                             /\ CarriesStrong(g[b]) <=> CarriesStrong(f[b])
                             /\ CarriesWeak(g[b]) <=> CarriesWeak(f[b])
             /\ ~HoldsHandle(g[b], p)
             /\ \A e \in Clients \ {p} : HoldsHandle(g[b], e) <=> HoldsHandle(f[b], e)
  <2>1. CASE f[b].to = p
    <3>1. g[b] = NoBuf /\ BufOK(f[b])
      BY <1>1, <2>1
    <3>2. p # Owner => ~f[b].tnode /\ f[b].kind # "binder"
      BY <2>1, <3>1 DEF BufOK
    <3>3. BufOK(g[b]) /\ g[b].to = "none" /\ g[b].kind = "none" /\ ~g[b].tnode
      BY <1>2, <3>1
    <3> QED
      BY <2>1, <3>2, <3>3 DEF CarriesStrong, CarriesWeak, HoldsHandle
  <2>2. CASE f[b].to # p
    <3>1. g[b] = f[b] /\ BufOK(f[b])
      BY <1>1, <2>2
    <3> QED
      BY <2>2, <3>1 DEF HoldsHandle
  <2> QED
    BY <2>1, <2>2
<1>5. p # Owner => TargetBufs(g) = TargetBufs(f) /\ StrongBufs(g) = StrongBufs(f) /\ WeakBufs(g) = WeakBufs(f)
  BY <1>4 DEF TargetBufs, StrongBufs, WeakBufs
<1>6. HandleBufs(g, p) = {} /\ \A e \in Clients \ {p} : HandleBufs(g, e) = HandleBufs(f, e)
  BY <1>4 DEF HandleBufs
<1> QED
  BY <1>3, <1>4, <1>5, <1>6 DEF g

\* binder_deferred_release of a client.
LEMMA CoreReleaseClient ==
  ASSUME NEW k, NEW f, NEW pr \in [Clients -> [s : BOOLEAN, w : BOOLEAN]], NEW al,
         Core(k, f, pr, al), NEW c \in Clients
  PROVE  LET d == IF k.r[c].live THEN binder_delete_ref(k, c) ELSE k
         IN  /\ Core(d, Forget(f, c), [pr EXCEPT ![c] = [s |-> FALSE, w |-> FALSE]], al \ {c})
             /\ Settles(k, d)
<1> DEFINE d == IF k.r[c].live THEN binder_delete_ref(k, c) ELSE k
           g == Forget(f, c)
           qr == [pr EXCEPT ![c] = [s |-> FALSE, w |-> FALSE]]
<1>0. c # "none" /\ c # Owner
  BY BinderAssumption
<1>1. KInv(k) /\ Structure(k) /\ RefBalance(k, f, pr) /\ (Owner \in al => ~k.n.dead) /\ k.r[c].s \in Nat
  BY CoreFacts DEF Core, KInv
<1>2. KInv(d) /\ RefLessens(k, d, c, 0)
  <2>1. CASE k.r[c].live
    BY <1>1, <2>1, DeleteRef
  <2>2. CASE ~k.r[c].live
    <3>1. d = k
      BY <2>2
    <3>2. k.r[c].s = 0
      BY <1>1, <2>2 DEF Structure, NoRef
    <3>3. Lessens(k, k)
      BY LessensSame
    <3> QED
      BY <1>1, <3>1, <3>2, <3>3 DEF RefLessens
  <2> QED
    BY <2>1, <2>2
<1>3. /\ g \in [Buffers -> BufType]
      /\ \A b \in Buffers : BufOK(g[b]) /\ g[b].to \in {f[b].to, "none"} \ {c}
      /\ TargetBufs(g) = TargetBufs(f) /\ StrongBufs(g) = StrongBufs(f) /\ WeakBufs(g) = WeakBufs(f)
      /\ HandleBufs(g, c) = {}
      /\ \A e \in Clients \ {c} : HandleBufs(g, e) = HandleBufs(f, e)
  <2>1. f \in [Buffers -> BufType] /\ \A b \in Buffers : BufOK(f[b])
    BY DEF Core
  <2> QED
    BY <1>0, <2>1, ForgetFacts
<1>4. qr[c].s = FALSE /\ \A e \in Clients \ {c} : qr[e] = pr[e]
  OBVIOUS
<1> HIDE DEF d, g, qr
<1>5. /\ Lessens(k, d) /\ d.n.ls = k.n.ls /\ d.n.lw = k.n.lw
      /\ d.r[c].s = 0 /\ \A e \in Clients \ {c} : d.r[e] = k.r[e]
  BY <1>2 DEF RefLessens
<1>6. RefBalance(d, g, qr)
  <2> SUFFICES ASSUME NEW e \in Clients
               PROVE  d.r[e].s = Cardinality(HandleBufs(g, e)) + One(qr[e].s)
    BY DEF RefBalance
  <2>1. CASE e = c
    <3>1. Cardinality(HandleBufs(g, e)) = 0
      BY <1>3, <2>1, FS_EmptySet
    <3>2. One(qr[e].s) = 0
      BY <1>4, <2>1 DEF One
    <3> QED
      BY <1>5, <2>1, <3>1, <3>2
  <2>2. CASE e # c
    <3>1. d.r[e] = k.r[e] /\ qr[e] = pr[e] /\ HandleBufs(g, e) = HandleBufs(f, e)
      BY <1>3, <1>4, <1>5, <2>2
    <3>2. k.r[e].s = Cardinality(HandleBufs(f, e)) + One(pr[e].s)
      BY <1>1 DEF RefBalance
    <3> QED
      BY <3>1, <3>2
  <2> QED
    BY <2>1, <2>2
<1>7. LocalBalance(d, g, al \ {c})
  <2>1. CASE Owner \in al
    <3>1. One(d.n.ps) = One(k.n.ps) /\ One(d.n.pw) = One(k.n.pw)
      BY <1>1, <1>5, <2>1 DEF Lessens
    <3>2. Owner \in al \ {c}
      BY <1>0, <2>1
    <3> QED
      BY <1>3, <1>5, <2>1, <3>1, <3>2 DEF Core, LocalBalance
  <2>2. CASE Owner \notin al
    BY <1>5, <2>2 DEF Core, LocalBalance
  <2> QED
    BY <2>1, <2>2
<1>8. d.n.live => (d.n.dead <=> Owner \notin al \ {c})
  BY <1>0, <1>5 DEF Lessens, Core
<1>9. \A b \in Buffers : BufOK(g[b]) /\ (g[b].to # "none" => g[b].to \in al \ {c})
  BY <1>3 DEF Core
<1>10. Core(d, g, qr, al \ {c})
  BY <1>2, <1>3, <1>6, <1>7, <1>8, <1>9 DEF Core
<1>11. Settles(k, d)
  BY <1>2, <1>5, LessensSettles DEF KInv
<1> QED
  BY <1>10, <1>11 DEF d, g, qr

\* What is left of the node when its owner is released.
DeadNode(k) == IF HasRefs(k) THEN [k.n EXCEPT !.dead = TRUE, !.ls = 0, !.lw = 0] ELSE NoNode

\* binder_deferred_release of the owner.
LEMMA CoreReleaseOwner ==
  ASSUME NEW k, NEW f, NEW pr, NEW al, Core(k, f, pr, al), NEW d,
         d = [n |-> DeadNode(k), wk |-> "none", r |-> k.r]
  PROVE  Core(d, Forget(f, Owner), pr, al \ {Owner})
<1> DEFINE g == Forget(f, Owner)
<1>1. KInv(k) /\ Structure(k) /\ k.n \in NodeType /\ k.r \in [Clients -> RefType]
  BY CoreFacts DEF Core, KInv
<1>2. /\ g \in [Buffers -> BufType]
      /\ \A b \in Buffers : BufOK(g[b]) /\ g[b].to \in {f[b].to, "none"} \ {Owner}
      /\ \A e \in Clients \ {Owner} : HandleBufs(g, e) = HandleBufs(f, e)
  <2>1. f \in [Buffers -> BufType] /\ \A b \in Buffers : BufOK(f[b])
    BY DEF Core
  <2>2. Owner # "none"
    BY DEF Owner
  <2> QED
    BY <2>1, <2>2, ForgetFacts
<1> HIDE DEF g
<1>3. d.n = DeadNode(k) /\ d.wk = "none" /\ d.r = k.r
  OBVIOUS
<1>4. /\ d.n \in NodeType /\ d.n.ls = 0 /\ d.n.lw = 0 /\ (d.n.live => d.n.dead /\ HasRefs(k))
      /\ (d.n.ps => d.n.hs) /\ (d.n.pw => d.n.hw)
      /\ (~HasRefs(k) => d.n = NoNode) /\ (HasRefs(k) => d.n.is = k.n.is /\ d.n.live = k.n.live)
  <2>1. CASE HasRefs(k)
    BY <1>1, <1>3, <2>1 DEF DeadNode, NodeType, Structure
  <2>2. CASE ~HasRefs(k)
    BY <1>3, <2>2 DEF DeadNode, NoNode, NodeType
  <2> QED
    BY <2>1, <2>2
<1>5. d \in KernelType
  BY <1>1, <1>3, <1>4 DEF KernelType, WorkType
<1>6. HasRefs(d) <=> HasRefs(k)
  BY <1>3 DEF HasRefs
<1>7. HasRefs(k) => k.n.live
  BY <1>1 DEF Structure
<1>8. Structure(d)
  BY <1>1, <1>3, <1>4, <1>5, <1>6, <1>7 DEF Structure
<1>9. d.n.is = Cardinality(StrongRefs(d.r))
  <2>1. CASE HasRefs(k)
    BY <1>1, <1>3, <1>4, <2>1 DEF KInv
  <2>2. CASE ~HasRefs(k)
    <3>1. k.n.is = 0 /\ k.n.is = Cardinality(StrongRefs(k.r))
      BY <1>1, <2>2, CountedRefs DEF KInv
    <3>2. d.n.is = 0
      BY <1>4, <2>2 DEF NoNode
    <3> QED
      BY <1>3, <3>1, <3>2
  <2> QED
    BY <2>1, <2>2
<1>10. KInv(d)
  BY <1>4, <1>8, <1>9 DEF KInv, Pending, Idle
<1>11. RefBalance(d, g, pr)
  <2>1. \A e \in Clients : HandleBufs(g, e) = HandleBufs(f, e)
    BY <1>2, BinderAssumption
  <2> QED
    BY <1>3, <2>1 DEF Core, RefBalance
<1>12. LocalBalance(d, g, al \ {Owner})
  BY <1>4 DEF LocalBalance
<1>13. \A b \in Buffers : BufOK(g[b]) /\ (g[b].to # "none" => g[b].to \in al \ {Owner})
  BY <1>2 DEF Core
<1>14. Core(d, g, pr, al \ {Owner})
  BY <1>2, <1>4, <1>10, <1>11, <1>12, <1>13 DEF Core
<1> QED
  BY <1>14 DEF g

\* The buffer of a call or a reply to the owner.
CallBuf(kind, strong, tnode) ==
  [NoBuf EXCEPT !.to = Owner, !.kind = kind, !.strong = strong, !.tnode = tnode]

\* It has the right form, and counts on the node.
LEMMA CallBufFacts ==
  ASSUME NEW kind \in {"binder", "none"}, NEW strong \in BOOLEAN, NEW tnode \in BOOLEAN
  PROVE  LET r == CallBuf(kind, strong, tnode)
         IN  /\ r \in BufType /\ BufOK(r) /\ r.to = Owner
             /\ One(r.tnode) = One(tnode)
             /\ One(CarriesStrong(r)) = One(kind = "binder" /\ strong)
             /\ One(CarriesWeak(r)) = One(kind = "binder" /\ ~strong)
             /\ \A e \in Clients : One(HoldsHandle(r, e)) = 0
<1> DEFINE r == CallBuf(kind, strong, tnode)
<1>1. r.to = Owner /\ r.kind = kind /\ r.strong = strong /\ r.tnode = tnode /\ r \in BufType
  BY DEF CallBuf, NoBuf, BufType
<1> HIDE DEF r
<1>2. BufOK(r)
  BY <1>1 DEF BufOK, Owner
<1>3. CarriesStrong(r) = (kind = "binder" /\ strong) /\ CarriesWeak(r) = (kind = "binder" /\ ~strong)
  BY <1>1 DEF CarriesStrong, CarriesWeak
<1>4. \A e \in Clients : ~HoldsHandle(r, e)
  BY <1>1 DEF HoldsHandle
<1>5. \A e \in Clients : One(HoldsHandle(r, e)) = 0
  BY <1>4 DEF One
<1> QED
  BY <1>1, <1>2, <1>3, <1>5 DEF r

\* The counts taken for a call, by a caller that has counts of the kind.
LEMMA CoreCall ==
  ASSUME NEW k, NEW f, NEW pr, NEW al, Core(k, f, pr, al), Owner \in al, k.n.live,
         NEW kind \in {"binder", "none"}, NEW strong \in BOOLEAN, NEW tnode \in BOOLEAN,
         HasRefs(k), strong \/ tnode => StrongK(k)
  PROVE  LET m == IF tnode THEN binder_inc_node(k, TRUE, FALSE, Nobody) ELSE k
             d == IF kind = "binder" THEN binder_inc_node(m, strong, FALSE, Nobody) ELSE m
         IN  /\ KInv(d) /\ Counted(k, d, CallBuf(kind, strong, tnode)) /\ Settles(k, d)
             /\ d.n.live /\ ~d.n.dead
<1> DEFINE m == IF tnode THEN binder_inc_node(k, TRUE, FALSE, Nobody) ELSE k
           d == IF kind = "binder" THEN binder_inc_node(m, strong, FALSE, Nobody) ELSE m
           r == CallBuf(kind, strong, tnode)
<1>1. /\ KInv(k) /\ ~k.n.dead /\ k.n.ls \in Nat /\ k.n.lw \in Nat
      /\ \A c \in Clients : k.r[c].s \in Nat
  BY CoreFacts DEF Core
<1>2. /\ KInv(m) /\ SameFlags(k.n, m.n) /\ m.r = k.r /\ m.wk = k.wk /\ (StrongK(m) <=> StrongK(k))
      /\ m.n.ls = k.n.ls + One(tnode) /\ m.n.lw = k.n.lw
  <2>1. CASE tnode
    <3>1. TRUE \in BOOLEAN /\ One(TRUE) = 1 /\ One(~TRUE) = 0 /\ One(tnode) = 1
      BY <2>1 DEF One
    <3>2. StrongK(k)
      BY <2>1
    <3>3. m = binder_inc_node(k, TRUE, FALSE, Nobody)
      BY <2>1
    <3>4. /\ KInv(m) /\ SameFlags(k.n, m.n) /\ m.r = k.r /\ m.wk = k.wk /\ (StrongK(m) <=> StrongK(k))
          /\ m.n.ls = k.n.ls + One(TRUE) /\ m.n.lw = k.n.lw + One(~TRUE)
      BY <1>1, <3>1, <3>2, <3>3, IncCall
    <3> HIDE DEF m
    <3>5. k.n.ls + One(TRUE) = k.n.ls + One(tnode)
      BY <3>1
    <3>6. k.n.lw + One(~TRUE) = k.n.lw
      BY <1>1, <3>1
    <3> QED
      BY <3>4, <3>5, <3>6, Zenon
  <2>2. CASE ~tnode
    <3>1. m = k
      BY <2>2
    <3>2. One(tnode) = 0
      BY <2>2 DEF One
    <3>3. k.n.ls = k.n.ls + One(tnode)
      BY <1>1, <3>2
    <3>4. SameFlags(k.n, k.n)
      BY DEF SameFlags
    <3> QED
      BY <1>1, <3>1, <3>3, <3>4
  <2> QED
    BY <2>1, <2>2
<1>3. m.n.live /\ ~m.n.dead
  BY <1>1, <1>2 DEF SameFlags
<1>4. WeakK(m)
  <2>1. HasRefs(m)
    BY <1>2 DEF HasRefs
  <2> QED
    BY <2>1 DEF WeakK
<1> HIDE DEF m
<1>5. /\ KInv(d) /\ SameFlags(m.n, d.n) /\ d.r = m.r /\ d.wk = m.wk /\ (StrongK(d) <=> StrongK(m))
      /\ d.n.ls = m.n.ls + One(kind = "binder" /\ strong)
      /\ d.n.lw = m.n.lw + One(kind = "binder" /\ ~strong)
  <2>1. CASE kind = "binder"
    <3>1. One(kind = "binder" /\ strong) = One(strong) /\ One(kind = "binder" /\ ~strong) = One(~strong)
      BY <2>1 DEF One
    <3>2. IF strong THEN StrongK(m) ELSE WeakK(m)
      BY <1>2, <1>4
    <3>3. d = binder_inc_node(m, strong, FALSE, Nobody)
      BY <2>1
    <3> HIDE DEF d
    <3>4. /\ KInv(d) /\ SameFlags(m.n, d.n) /\ d.r = m.r /\ d.wk = m.wk /\ (StrongK(d) <=> StrongK(m))
          /\ d.n.ls = m.n.ls + One(strong) /\ d.n.lw = m.n.lw + One(~strong)
      BY <1>2, <1>3, <3>2, <3>3, IncCall
    <3> QED
      BY <3>1, <3>4
  <2>2. CASE kind # "binder"
    <3>1. d = m
      BY <2>2
    <3>2. One(kind = "binder" /\ strong) = 0 /\ One(kind = "binder" /\ ~strong) = 0
      BY <2>2 DEF One
    <3>3. m.n.ls \in Nat /\ m.n.lw \in Nat
      BY <1>2 DEF KInv, Structure, KernelType, NodeType
    <3>4. m.n.ls = m.n.ls + 0 /\ m.n.lw = m.n.lw + 0
      BY <3>3
    <3>5. SameFlags(m.n, m.n)
      BY DEF SameFlags
    <3> HIDE DEF d
    <3> QED
      BY <1>2, <3>1, <3>2, <3>4, <3>5
  <2> QED
    BY <2>1, <2>2
<1> HIDE DEF d
<1>6. /\ One(r.tnode) = One(tnode)
      /\ One(CarriesStrong(r)) = One(kind = "binder" /\ strong)
      /\ One(CarriesWeak(r)) = One(kind = "binder" /\ ~strong)
      /\ \A e \in Clients : One(HoldsHandle(r, e)) = 0
  BY CallBufFacts
<1> HIDE DEF r
<1>7. Counted(k, d, r)
  <2>1. d.n.ls = k.n.ls + One(r.tnode) + One(CarriesStrong(r)) /\ d.n.lw = k.n.lw + One(CarriesWeak(r))
    BY <1>2, <1>5, <1>6
  <2>2. ASSUME NEW c \in Clients PROVE d.r[c].s = k.r[c].s + One(HoldsHandle(r, c))
    <3>1. k.r[c].s = k.r[c].s + One(HoldsHandle(r, c))
      BY <1>1, <1>6
    <3> QED
      BY <1>2, <1>5, <3>1
  <2> QED
    BY <2>1, <2>2 DEF Counted
<1>8. Settles(k, d) /\ d.n.live /\ ~d.n.dead
  BY <1>1, <1>2, <1>3, <1>5 DEF Settles, SameFlags
<1> QED
  BY <1>5, <1>7, <1>8 DEF d, m, r

-----------------------------------------------------------------------------
\* The driver asks the owner for a reference or gives one back, while the
\* node's item is on a list: a count is taken only with a request.
LEMMA CoreAsk ==
  ASSUME NEW k, NEW f, NEW pr, NEW al, Core(k, f, pr, al), k.wk # "none", Owner \in al,
         NEW d \in KernelType, d.wk = k.wk, d.r = k.r,
         d.n.live = k.n.live, d.n.dead = k.n.dead, d.n.is = k.n.is,
         d.n.ps => d.n.hs, d.n.pw => d.n.hw,
         d.n.ls + One(k.n.ps) = k.n.ls + One(d.n.ps),
         d.n.lw + One(k.n.pw) = k.n.lw + One(d.n.pw)
  PROVE  Core(d, f, pr, al)
<1>1. Structure(k) /\ KInv(k) /\ k.n.ls \in Nat /\ k.n.lw \in Nat /\ ~k.n.dead
  BY CoreFacts DEF Core, KInv
<1>2. d.n.ls \in Nat /\ d.n.lw \in Nat
  BY DEF KernelType, NodeType
<1>3. k.n.live
  BY <1>1 DEF Structure
<1>4. Structure(d)
  BY <1>1, <1>3 DEF Structure
<1>5. KInv(d)
  BY <1>1, <1>4 DEF KInv, Pending, Idle
<1>6. RefBalance(d, f, pr)
  BY DEF Core, RefBalance
<1>7. LocalBalance(d, f, al)
  <2>1. /\ k.n.ls = Cardinality(TargetBufs(f)) + Cardinality(StrongBufs(f)) + One(k.n.ps)
        /\ k.n.lw = Cardinality(WeakBufs(f)) + One(k.n.pw)
    BY DEF Core, LocalBalance
  <2>2. /\ Cardinality(TargetBufs(f)) \in Nat /\ Cardinality(StrongBufs(f)) \in Nat
        /\ Cardinality(WeakBufs(f)) \in Nat
    BY BufferTypes
  <2>3. One(k.n.ps) \in {0, 1} /\ One(k.n.pw) \in {0, 1} /\ One(d.n.ps) \in {0, 1} /\ One(d.n.pw) \in {0, 1}
    BY DEF One
  <2>4. /\ d.n.ls = Cardinality(TargetBufs(f)) + Cardinality(StrongBufs(f)) + One(d.n.ps)
        /\ d.n.lw = Cardinality(WeakBufs(f)) + One(d.n.pw)
    BY <1>1, <1>2, <2>1, <2>2, <2>3
  <2> QED
    BY <2>4 DEF LocalBalance
<1> QED
  BY <1>1, <1>5, <1>6, <1>7 DEF Core

\* While the owner has not answered, the driver counts for it.
LEMMA AskedCounts ==
  ASSUME NEW k, NEW f, NEW pr, NEW al, Core(k, f, pr, al), Owner \in al
  PROVE  /\ k.n.ps => k.n.ls > 0 /\ k.n.hs /\ k.n.live
         /\ k.n.pw => k.n.lw > 0 /\ k.n.hw /\ k.n.live
<1>1. /\ k.n.ls = Cardinality(TargetBufs(f)) + Cardinality(StrongBufs(f)) + One(k.n.ps)
      /\ k.n.lw = Cardinality(WeakBufs(f)) + One(k.n.pw)
  BY DEF Core, LocalBalance
<1>2. /\ Cardinality(TargetBufs(f)) \in Nat /\ Cardinality(StrongBufs(f)) \in Nat
      /\ Cardinality(WeakBufs(f)) \in Nat
  BY BufferTypes
<1>3. (k.n.ps => One(k.n.ps) = 1) /\ (k.n.pw => One(k.n.pw) = 1)
  BY DEF One
<1>4. (k.n.ps => k.n.hs /\ k.n.live) /\ (k.n.pw => k.n.hw /\ k.n.live)
  BY DEF Core, KInv, Structure, NoNode
<1>5. ASSUME k.n.ps PROVE k.n.ls > 0
  <2>1. One(k.n.ps) = 1
    BY <1>3, <1>5
  <2> QED
    BY <1>1, <1>2, <2>1
<1>6. ASSUME k.n.pw PROVE k.n.lw > 0
  <2>1. One(k.n.pw) = 1
    BY <1>3, <1>6
  <2> QED
    BY <1>1, <1>2, <2>1
<1> QED
  BY <1>4, <1>5, <1>6

\* BC_ACQUIRE_DONE, of the reference the driver asked for.
LEMMA CoreAcquireDone ==
  ASSUME NEW k, NEW f, NEW pr, NEW al, Core(k, f, pr, al), Owner \in al, k.n.ps
  PROVE  LET d == binder_dec_node([k EXCEPT !.n.ps = FALSE], TRUE, FALSE)
         IN  /\ Core(d, f, pr, al)
             /\ d.n.hs = k.n.hs /\ d.n.hw = k.n.hw /\ ~d.n.ps /\ d.n.pw = k.n.pw
<1> DEFINE q == [k.n EXCEPT !.ps = FALSE]
           m == [k EXCEPT !.n = q]
           d == binder_dec_node(m, TRUE, FALSE)
<1>1. k \in KernelType /\ k.n \in NodeType /\ KInv(k) /\ Structure(k) /\ ~k.n.dead /\ k.n.ls \in Nat /\ k.n.lw \in Nat
  BY CoreFacts DEF Core, KInv
<1>2. k.n.ls > 0 /\ k.n.hs /\ k.n.live
  BY AskedCounts
<1>3. /\ q \in NodeType /\ q.live = k.n.live /\ q.dead = k.n.dead /\ q.is = k.n.is /\ q.ls = k.n.ls /\ q.lw = k.n.lw
      /\ q.hs = k.n.hs /\ q.hw = k.n.hw /\ q.pw = k.n.pw /\ ~q.ps
  BY <1>1 DEF NodeType
<1>4. [k EXCEPT !.n.ps = FALSE] = m
  BY <1>1 DEF KernelType
<1> HIDE DEF q
<1>5. m.n = q /\ m.wk = k.wk /\ m.r = k.r /\ m \in KernelType
  BY <1>1, <1>3 DEF KernelType
<1> HIDE DEF m
<1>6. (HasRefs(m) <=> HasRefs(k)) /\ (StrongK(m) <=> StrongK(k)) /\ (Idle(m) <=> Idle(k))
  BY <1>3, <1>5 DEF HasRefs, StrongK, Idle
<1>7. WeakK(m) <=> WeakK(k)
  BY <1>3, <1>5, <1>6 DEF WeakK
<1>8. Structure(m)
  BY <1>1, <1>2, <1>3, <1>5, <1>6 DEF Structure
<1>9. KInv(m)
  BY <1>1, <1>3, <1>5, <1>6, <1>7, <1>8 DEF KInv, Pending
<1>10. KInv(d) /\ Lessens(m, d) /\ d.r = m.r /\ d.n.ls = m.n.ls - 1 /\ d.n.lw = m.n.lw
  BY <1>2, <1>3, <1>5, <1>9, DropLocal
<1> HIDE DEF d
<1>11. /\ ~d.n.dead /\ d.n.hs = k.n.hs /\ d.n.hw = k.n.hw /\ ~d.n.ps /\ d.n.pw = k.n.pw
  BY <1>1, <1>3, <1>5, <1>10 DEF Lessens
<1>12. RefBalance(d, f, pr)
  BY <1>5, <1>10 DEF Core, RefBalance
<1>13. LocalBalance(d, f, al)
  <2>1. /\ k.n.ls = Cardinality(TargetBufs(f)) + Cardinality(StrongBufs(f)) + One(k.n.ps)
        /\ k.n.lw = Cardinality(WeakBufs(f)) + One(k.n.pw)
    BY DEF Core, LocalBalance
  <2>2. One(k.n.ps) = 1 /\ One(d.n.ps) = 0 /\ One(d.n.pw) = One(k.n.pw)
    BY <1>11 DEF One
  <2>3. Cardinality(TargetBufs(f)) \in Nat /\ Cardinality(StrongBufs(f)) \in Nat
    BY BufferTypes
  <2>4. d.n.ls = k.n.ls - 1 /\ d.n.lw = k.n.lw
    BY <1>3, <1>5, <1>10
  <2>5. d.n.ls = Cardinality(TargetBufs(f)) + Cardinality(StrongBufs(f)) + One(d.n.ps)
    <3>1. ASSUME NEW T \in Nat, NEW S \in Nat, NEW x, NEW y, x = T + S + 1, y = x - 1
          PROVE  y = T + S + 0
      BY <3>1
    <3>2. k.n.ls = Cardinality(TargetBufs(f)) + Cardinality(StrongBufs(f)) + 1
      BY <2>1, <2>2, Zenon
    <3>3. d.n.ls = Cardinality(TargetBufs(f)) + Cardinality(StrongBufs(f)) + 0
      BY <2>3, <2>4, <3>1, <3>2
    <3> QED
      BY <2>2, <3>3, Zenon
  <2>6. d.n.lw = Cardinality(WeakBufs(f)) + One(d.n.pw)
    BY <2>1, <2>2, <2>4
  <2> QED
    BY <2>5, <2>6 DEF LocalBalance
<1>14. Core(d, f, pr, al)
  BY <1>10, <1>11, <1>12, <1>13 DEF Core
<1> QED
  BY <1>4, <1>11, <1>14 DEF d

\* BC_INCREFS_DONE, likewise.
LEMMA CoreIncrefsDone ==
  ASSUME NEW k, NEW f, NEW pr, NEW al, Core(k, f, pr, al), Owner \in al, k.n.pw
  PROVE  LET d == binder_dec_node([k EXCEPT !.n.pw = FALSE], FALSE, FALSE)
         IN  /\ Core(d, f, pr, al)
             /\ d.n.hs = k.n.hs /\ d.n.hw = k.n.hw /\ ~d.n.pw /\ d.n.ps = k.n.ps
             /\ StrongK(d) /\ ~d.n.hs => StrongK(k) /\ (d.wk = k.wk \/ k.wk = "none")
<1> DEFINE q == [k.n EXCEPT !.pw = FALSE]
           m == [k EXCEPT !.n = q]
           d == binder_dec_node(m, FALSE, FALSE)
<1>1. k \in KernelType /\ k.n \in NodeType /\ KInv(k) /\ Structure(k) /\ ~k.n.dead /\ k.n.ls \in Nat /\ k.n.lw \in Nat
  BY CoreFacts DEF Core, KInv
<1>2. k.n.lw > 0 /\ k.n.hw /\ k.n.live
  BY AskedCounts
<1>3. /\ q \in NodeType /\ q.live = k.n.live /\ q.dead = k.n.dead /\ q.is = k.n.is /\ q.ls = k.n.ls /\ q.lw = k.n.lw
      /\ q.hs = k.n.hs /\ q.hw = k.n.hw /\ q.ps = k.n.ps /\ ~q.pw
  BY <1>1 DEF NodeType
<1>4. [k EXCEPT !.n.pw = FALSE] = m
  BY <1>1 DEF KernelType
<1> HIDE DEF q
<1>5. m.n = q /\ m.wk = k.wk /\ m.r = k.r /\ m \in KernelType
  BY <1>1, <1>3 DEF KernelType
<1> HIDE DEF m
<1>6. (HasRefs(m) <=> HasRefs(k)) /\ (StrongK(m) <=> StrongK(k)) /\ (Idle(m) <=> Idle(k))
  BY <1>3, <1>5 DEF HasRefs, StrongK, Idle
<1>7. WeakK(m) <=> WeakK(k)
  BY <1>3, <1>5, <1>6 DEF WeakK
<1>8. Structure(m)
  BY <1>1, <1>2, <1>3, <1>5, <1>6 DEF Structure
<1>9. KInv(m)
  BY <1>1, <1>3, <1>5, <1>6, <1>7, <1>8 DEF KInv, Pending
<1>10. KInv(d) /\ Lessens(m, d) /\ d.r = m.r /\ d.n.ls = m.n.ls /\ d.n.lw = m.n.lw - 1
  BY <1>2, <1>3, <1>5, <1>9, DropWeak
<1> HIDE DEF d
<1>11. /\ ~d.n.dead /\ d.n.hs = k.n.hs /\ d.n.hw = k.n.hw /\ ~d.n.pw /\ d.n.ps = k.n.ps
  BY <1>1, <1>3, <1>5, <1>10 DEF Lessens
<1>12. RefBalance(d, f, pr)
  BY <1>5, <1>10 DEF Core, RefBalance
<1>13. LocalBalance(d, f, al)
  <2>1. /\ k.n.ls = Cardinality(TargetBufs(f)) + Cardinality(StrongBufs(f)) + One(k.n.ps)
        /\ k.n.lw = Cardinality(WeakBufs(f)) + One(k.n.pw)
    BY DEF Core, LocalBalance
  <2>2. One(k.n.pw) = 1 /\ One(d.n.pw) = 0 /\ One(d.n.ps) = One(k.n.ps)
    BY <1>11 DEF One
  <2>3. Cardinality(WeakBufs(f)) \in Nat
    BY BufferTypes
  <2>4. d.n.ls = k.n.ls /\ d.n.lw = k.n.lw - 1
    BY <1>3, <1>5, <1>10
  <2>5. d.n.ls = Cardinality(TargetBufs(f)) + Cardinality(StrongBufs(f)) + One(d.n.ps)
    BY <2>1, <2>2, <2>4
  <2>6. d.n.lw = Cardinality(WeakBufs(f)) + One(d.n.pw)
    <3>1. ASSUME NEW T \in Nat, NEW x, NEW y, x = T + 1, y = x - 1
          PROVE  y = T + 0
      BY <3>1
    <3>2. k.n.lw = Cardinality(WeakBufs(f)) + 1
      BY <2>1, <2>2, Zenon
    <3>3. d.n.lw = Cardinality(WeakBufs(f)) + 0
      BY <2>3, <2>4, <3>1, <3>2
    <3> QED
      BY <2>2, <3>3, Zenon
  <2> QED
    BY <2>5, <2>6 DEF LocalBalance
<1>14. Core(d, f, pr, al)
  BY <1>10, <1>11, <1>12, <1>13 DEF Core
<1>15. Settles(m, d)
  BY <1>10, LessensSettles DEF KInv
<1>16. StrongK(d) /\ ~d.n.hs => StrongK(k) /\ (d.wk = k.wk \/ k.wk = "none")
  BY <1>5, <1>6, <1>15 DEF Settles
<1> QED
  BY <1>4, <1>11, <1>14, <1>16 DEF d

\* The item leaves its list with the driver's references as they should be; a
\* node without any is freed.
LEMMA CoreWorkDone ==
  ASSUME NEW k, NEW f, NEW pr, NEW al, Core(k, f, pr, al), k.wk # "none", Owner \in al,
         WeakK(k) <=> k.n.hw, StrongK(k) <=> k.n.hs,
         NEW d, d = [n |-> IF WeakK(k) THEN k.n ELSE NoNode, wk |-> "none", r |-> k.r]
  PROVE  /\ Core(d, f, pr, al)
         /\ d.n.hs = k.n.hs /\ d.n.hw = k.n.hw /\ d.n.ps = k.n.ps /\ d.n.pw = k.n.pw
         /\ StrongK(d) <=> d.n.hs
<1>1. /\ Structure(k) /\ KInv(k) /\ k.n \in NodeType /\ ~k.n.dead /\ k.r \in [Clients -> RefType]
      /\ k.n.is \in Nat /\ k.n.ls \in Nat /\ k.n.lw \in Nat
  BY CoreFacts DEF Core, KInv
<1>2. d.wk = "none" /\ d.r = k.r /\ d.n = IF WeakK(k) THEN k.n ELSE NoNode
  OBVIOUS
<1>3. HasRefs(d) <=> HasRefs(k)
  BY <1>2 DEF HasRefs
<1>4. k.n.live
  BY <1>1 DEF Structure
<1>5. CASE WeakK(k)
  <2>1. d.n = k.n
    BY <1>2, <1>5
  <2>2. d \in KernelType
    BY <1>1, <1>5 DEF KernelType, WorkType
  <2>3. (StrongK(d) <=> StrongK(k)) /\ (WeakK(d) <=> WeakK(k))
    BY <1>3, <2>1 DEF StrongK, WeakK
  <2>4. KInv(d)
    BY <1>1, <1>2, <1>3, <1>4, <2>1, <2>2, <2>3 DEF KInv, Structure, Pending
  <2>5. SameCounts(k, d)
    BY <1>2, <2>1 DEF SameCounts
  <2>6. Core(d, f, pr, al)
    BY <1>1, <2>1, <2>4, <2>5, CoreSame
  <2> QED
    BY <2>1, <2>3, <2>6
<1>6. CASE ~WeakK(k)
  <2>1. d.n = NoNode /\ ~HasRefs(k) /\ k.n.ls = 0 /\ k.n.lw = 0 /\ k.n.is = 0 /\ ~StrongK(k)
    BY <1>1, <1>2, <1>6 DEF WeakK, StrongK
  <2>2. k.n.hs = FALSE /\ k.n.hw = FALSE /\ k.n.ps = FALSE /\ k.n.pw = FALSE
    BY <1>1, <1>6, <2>1 DEF Structure, NodeType
  <2>3. /\ d.n.hs = FALSE /\ d.n.hw = FALSE /\ d.n.ps = FALSE /\ d.n.pw = FALSE /\ d.n \in NodeType
        /\ d.n.is = 0 /\ d.n.ls = 0 /\ d.n.lw = 0 /\ ~d.n.live /\ ~d.n.dead
    BY <2>1 DEF NoNode, NodeType
  <2>4. d \in KernelType
    BY <1>1, <2>3 DEF KernelType, WorkType
  <2>5. KInv(d)
    BY <1>1, <1>2, <1>3, <2>1, <2>3, <2>4 DEF KInv, Structure, Pending, Idle
  <2>6. SameCounts(k, d)
    BY <1>2, <2>1, <2>3 DEF SameCounts
  <2>7. Core(d, f, pr, al)
    BY <2>2, <2>3, <2>5, <2>6, CoreSame
  <2>8. ~StrongK(d)
    BY <2>3 DEF StrongK
  <2> QED
    BY <2>2, <2>3, <2>7, <2>8
<1> QED
  BY <1>5, <1>6

-----------------------------------------------------------------------------
(* The commands that the owner's threads have read and not executed.       *)

Has(s, cmd) == \E i \in DOMAIN s : s[i] = cmd
Distinct(s) == \A i, j \in DOMAIN s : s[i] = s[j] => i = j
Telling(bx, cmd) == {t \in Threads : Has(bx[t], cmd)}

\* A command is added at the end, ...
LEMMA HasAppend ==
  ASSUME NEW s \in Seq(Commands), NEW cmd \in Commands, NEW x
  PROVE  /\ Has(Append(s, cmd), x) <=> Has(s, x) \/ x = cmd
         /\ Distinct(s) /\ ~Has(s, cmd) => Distinct(Append(s, cmd))
<1> DEFINE a == Append(s, cmd)
           n == Len(s)
<1>1. n \in Nat /\ DOMAIN s = 1 .. n /\ DOMAIN a = 1 .. (n + 1) /\ a[n + 1] = cmd
      /\ \A i \in 1 .. n : a[i] = s[i]
  OBVIOUS
<1> HIDE DEF a, n
<1>2. Has(a, x) <=> Has(s, x) \/ x = cmd
  BY <1>1 DEF Has
<1>3. Distinct(s) /\ ~Has(s, cmd) => Distinct(a)
  BY <1>1 DEF Has, Distinct
<1> QED
  BY <1>2, <1>3 DEF a

\* ... and executed from the front.
LEMMA HasTail ==
  ASSUME NEW s \in Seq(Commands), s # <<>>, Distinct(s), NEW x
  PROVE  /\ Has(Tail(s), x) <=> Has(s, x) /\ x # Head(s)
         /\ Distinct(Tail(s))
         /\ Has(s, Head(s)) /\ Tail(s) \in Seq(Commands)
<1> DEFINE a == Tail(s)
           n == Len(s)
<1>1. n \in Nat /\ n > 0 /\ DOMAIN s = 1 .. n /\ DOMAIN a = 1 .. (n - 1) /\ Head(s) = s[1]
      /\ (\A i \in 1 .. (n - 1) : a[i] = s[i + 1]) /\ a \in Seq(Commands)
  OBVIOUS
<1> HIDE DEF a, n
<1>2. Has(s, Head(s))
  BY <1>1 DEF Has
<1>3. Distinct(a)
  <2> SUFFICES ASSUME NEW i \in 1 .. (n - 1), NEW j \in 1 .. (n - 1), a[i] = a[j]
               PROVE  i = j
    BY <1>1 DEF Distinct
  <2>1. i + 1 \in 1 .. n /\ j + 1 \in 1 .. n /\ s[i + 1] = s[j + 1]
    BY <1>1
  <2>2. i + 1 = j + 1
    BY <1>1, <2>1 DEF Distinct
  <2> QED
    BY <2>2
<1>4. ASSUME Has(a, x) PROVE Has(s, x) /\ x # Head(s)
  <2>1. PICK i \in 1 .. (n - 1) : a[i] = x
    BY <1>1, <1>4 DEF Has
  <2>2. i + 1 \in 1 .. n /\ 1 \in 1 .. n /\ s[i + 1] = x /\ i + 1 # 1
    BY <1>1, <2>1
  <2> QED
    BY <1>1, <2>2 DEF Has, Distinct
<1>5. ASSUME Has(s, x), x # Head(s) PROVE Has(a, x)
  <2>1. PICK i \in 1 .. n : s[i] = x
    BY <1>1, <1>5 DEF Has
  <2>2. i - 1 \in 1 .. (n - 1) /\ (i - 1) + 1 = i
    BY <1>1, <1>5, <2>1
  <2>3. a[i - 1] = x
    BY <1>1, <2>1, <2>2
  <2> QED
    BY <1>1, <2>2, <2>3 DEF Has
<1>6. (Has(a, x) <=> Has(s, x) /\ x # Head(s)) /\ Distinct(a) /\ Has(s, Head(s)) /\ a \in Seq(Commands)
  BY <1>1, <1>2, <1>3, <1>4, <1>5
<1> QED
  BY <1>6 DEF a

\* The number of threads with a command.
LEMMA ToldType ==
  ASSUME NEW bx, NEW x
  PROVE  /\ Cardinality(Telling(bx, x)) \in Nat
         /\ \A t \in Threads : Has(bx[t], x) => Cardinality(Telling(bx, x)) > 0
<1>1. Telling(bx, x) \in SUBSET Threads
  BY DEF Telling
<1>2. Cardinality(Telling(bx, x)) \in Nat /\ (Cardinality(Telling(bx, x)) > 0 <=> Telling(bx, x) # {})
  BY <1>1, CountType, BinderAssumption
<1>3. \A t \in Threads : Has(bx[t], x) => Telling(bx, x) # {}
  BY DEF Telling
<1> QED
  BY <1>2, <1>3

\* One more thread has command cmd.
OneMore(bx, by, cmd) ==
  /\ Cardinality(Telling(by, cmd)) = Cardinality(Telling(bx, cmd)) + 1
  /\ \A x : x # cmd => Telling(by, x) = Telling(bx, x)

\* A thread is told a command it has not been told, ...
LEMMA ToldMore ==
  ASSUME NEW bx \in [Threads -> Seq(Commands)], NEW t \in Threads, NEW cmd \in Commands,
         ~Has(bx[t], cmd)
  PROVE  OneMore(bx, [bx EXCEPT ![t] = Append(@, cmd)], cmd)
<1> DEFINE by == [bx EXCEPT ![t] = Append(@, cmd)]
           S == Telling(bx, cmd)
           T == Telling(by, cmd)
<1>1. (\A x : Has(by[t], x) <=> Has(bx[t], x) \/ x = cmd) /\ \A u \in Threads \ {t} : by[u] = bx[u]
  BY HasAppend
<1> HIDE DEF by
<1>2. ASSUME NEW x, x # cmd PROVE Telling(by, x) = Telling(bx, x)
  <2>1. ASSUME NEW u \in Threads PROVE Has(by[u], x) <=> Has(bx[u], x)
    BY <1>1, <1>2
  <2> QED
    BY <2>1 DEF Telling
<1>3. S \in SUBSET Threads /\ T \in SUBSET Threads /\ t \notin S /\ t \in T
      /\ \A u \in Threads \ {t} : u \in S <=> u \in T
  BY <1>1 DEF Telling
<1> HIDE DEF S, T
<1>4. Cardinality(T) = Cardinality(S) + One(t \in T)
  BY <1>3, CountChange, BinderAssumption
<1>5. One(t \in T) = 1
  BY <1>3 DEF One
<1>6. Cardinality(T) = Cardinality(S) + 1
  BY <1>4, <1>5, Zenon
<1> QED
  BY <1>2, <1>6 DEF OneMore, by, S, T

\* ... and executes one.
LEMMA ToldLess ==
  ASSUME NEW bx \in [Threads -> Seq(Commands)], NEW t \in Threads, bx[t] # <<>>, Distinct(bx[t])
  PROVE  OneMore([bx EXCEPT ![t] = Tail(@)], bx, Head(bx[t]))
<1> DEFINE by == [bx EXCEPT ![t] = Tail(@)]
           cmd == Head(bx[t])
           S == Telling(by, cmd)
           T == Telling(bx, cmd)
<1>0. bx[t] \in Seq(Commands)
  OBVIOUS
<1>1. /\ \A x : Has(by[t], x) <=> Has(bx[t], x) /\ x # cmd
      /\ Has(bx[t], cmd) /\ \A u \in Threads \ {t} : by[u] = bx[u]
  BY <1>0, HasTail
<1> HIDE DEF by, cmd
<1>2. ASSUME NEW x, x # cmd PROVE Telling(bx, x) = Telling(by, x)
  <2>1. ASSUME NEW u \in Threads PROVE Has(by[u], x) <=> Has(bx[u], x)
    BY <1>1, <1>2
  <2> QED
    BY <2>1 DEF Telling
<1>3. S \in SUBSET Threads /\ T \in SUBSET Threads /\ t \notin S /\ t \in T
      /\ \A u \in Threads \ {t} : u \in S <=> u \in T
  BY <1>1 DEF Telling
<1> HIDE DEF S, T
<1>a. IsFiniteSet(Threads)
  BY BinderAssumption
<1>4. Cardinality(T) = Cardinality(S) + One(t \in T)
  BY <1>3, <1>a, CountChange
<1>5. One(t \in T) = 1
  BY <1>3 DEF One
<1>6. Cardinality(T) = Cardinality(S) + 1
  BY <1>4, <1>5, Zenon
<1>7. OneMore(by, bx, cmd)
  BY <1>2, <1>6 DEF OneMore, S, T
<1> QED
  BY <1>7 DEF by, cmd

-----------------------------------------------------------------------------
(* The invariant.                                                          *)

\* A request is answered by one command, and the owner's references are the
\* ones the driver believes to have, less what it still has to drop.
Answered(n, bx, us, uw) ==
  /\ Cardinality(Telling(bx, "ACQUIRE")) = One(n.ps)
  /\ Cardinality(Telling(bx, "INCREFS")) = One(n.pw)
  /\ us + One(n.ps) = One(n.hs) + Cardinality(Telling(bx, "RELEASE"))
  /\ uw + One(n.pw) = One(n.hw) + Cardinality(Telling(bx, "DECREFS"))

\* A thread that is told to release in one read is not told to acquire again
\* in the same read, since nobody can count on the object meanwhile.
Reported(k, s) ==
  /\ Has(s, "RELEASE") => ~k.n.hs /\ ~StrongK(k)
  /\ Has(s, "DECREFS") => ~k.n.hw /\ ~WeakK(k)

\* Until the owner is asked for its strong reference, the item is on the list of
\* a thread that still waits for BR_TRANSACTION_COMPLETE, and until it is
\* taken, a thread that has its own has been told to take it.
Guarded(k, bx, bs, hd) ==
  /\ ~k.n.hs /\ StrongK(k) => k.wk \in bs
  /\ \A t \in Threads : Has(bx[t], "ACQUIRE") => t \in hd

UserType ==
  /\ reading \in Threads \cup {Nobody} /\ wait_for_proc_work \in BOOLEAN
  /\ box \in [Threads -> Seq(Commands)]
  /\ busy \subseteq Threads /\ hold \subseteq Threads
  /\ uS \in Nat /\ uW \in Nat
  /\ proxy \in [Clients -> [s : BOOLEAN, w : BOOLEAN]]
  /\ stolen \in BOOLEAN

User ==
  /\ UserType
  /\ \A t \in Threads : Distinct(box[t])
  /\ Owner \in alive => Answered(Kernel.n, box, uS, uW)
  /\ reading # Nobody => Owner \in alive /\ Reported(Kernel, box[reading])
  /\ busy \subseteq hold
  /\ Owner \in alive /\ ~stolen => Guarded(Kernel, box, busy, hold)

BInv == Core(Kernel, buf, proxy, alive) /\ User

\* The triple is the state of node, work list and refs.
LEMMA KernelIs ==
  /\ Kernel.n = node /\ Kernel.wk = work /\ Kernel.r = ref
  /\ Strong <=> StrongK(Kernel)
  /\ Weak <=> WeakK(Kernel)
<1>1. Kernel.n = node /\ Kernel.wk = work /\ Kernel.r = ref
  BY DEF Kernel
<1>2. Strong <=> StrongK(Kernel)
  BY <1>1 DEF Strong, StrongK
<1> QED
  BY <1>1, <1>2 DEF Weak, WeakK

\* The same after a step.
LEMMA KernelIsNext ==
  Kernel'.n = node' /\ Kernel'.wk = work' /\ Kernel'.r = ref'
BY DEF Kernel

\* A step of the driver outside a read: the user side is as before, if the
\* object does not come to need a reference that nobody will be told to take.
LEMMA UserKept ==
  ASSUME BInv, reading = Nobody, UNCHANGED <<readVars, box, hold, uS, uW>>, UserType',
         Core(Kernel', buf', proxy', alive'), busy' \subseteq hold',
         Owner \in alive' => Owner \in alive,
         ~stolen' => ~stolen,
         Owner \in alive => /\ Kernel'.n.hs = Kernel.n.hs /\ Kernel'.n.hw = Kernel.n.hw
                            /\ Kernel'.n.ps = Kernel.n.ps /\ Kernel'.n.pw = Kernel.n.pw,
         Owner \in alive /\ ~stolen' /\ ~Kernel'.n.hs /\ StrongK(Kernel') => Kernel'.wk \in busy'
  PROVE  BInv'
<1>1. reading' = Nobody /\ box' = box /\ hold' = hold /\ uS' = uS /\ uW' = uW
  BY DEF readVars
<1>2. \A t \in Threads : Distinct(box'[t])
  BY <1>1 DEF BInv, User
<1>3. ASSUME Owner \in alive' PROVE Answered(Kernel'.n, box', uS', uW')
  <2>1. Answered(Kernel.n, box, uS, uW)
    BY <1>3 DEF BInv, User
  <2>2. /\ One(Kernel'.n.hs) = One(Kernel.n.hs) /\ One(Kernel'.n.hw) = One(Kernel.n.hw)
        /\ One(Kernel'.n.ps) = One(Kernel.n.ps) /\ One(Kernel'.n.pw) = One(Kernel.n.pw)
    BY <1>3
  <2> QED
    BY <1>1, <2>1, <2>2 DEF Answered
<1>4. ASSUME Owner \in alive', ~stolen' PROVE Guarded(Kernel', box', busy', hold')
  <2>1. Guarded(Kernel, box, busy, hold)
    BY <1>4 DEF BInv, User
  <2> QED
    BY <1>1, <1>4, <2>1 DEF Guarded
<1> QED
  BY <1>1, <1>2, <1>3, <1>4 DEF BInv, User

\* In particular when the step settles.
LEMMA UserSettled ==
  ASSUME BInv, reading = Nobody, UNCHANGED <<readVars, box, hold, uS, uW, busy, stolen>>,
         proxy' \in [Clients -> [s : BOOLEAN, w : BOOLEAN]],
         Core(Kernel', buf', proxy', alive'),
         Owner \in alive' => Owner \in alive,
         Settles(Kernel, Kernel')
  PROVE  BInv'
<1>1. UserType' /\ busy' \subseteq hold' /\ stolen' = stolen /\ busy' = busy
  BY DEF BInv, User, UserType, readVars
<1>2. ASSUME Owner \in alive
      PROVE  /\ Kernel'.n.hs = Kernel.n.hs /\ Kernel'.n.hw = Kernel.n.hw
             /\ Kernel'.n.ps = Kernel.n.ps /\ Kernel'.n.pw = Kernel.n.pw
  <2>1. ~Kernel.n.dead
    BY <1>2, CoreFacts DEF BInv
  <2> QED
    BY <2>1 DEF Settles
<1>3. ASSUME Owner \in alive, ~stolen', ~Kernel'.n.hs, StrongK(Kernel') PROVE Kernel'.wk \in busy'
  <2>1. StrongK(Kernel) /\ (Kernel'.wk = Kernel.wk \/ Kernel.wk = "none") /\ ~Kernel.n.hs
    BY <1>2, <1>3 DEF Settles
  <2>2. Kernel.wk \in busy /\ busy \subseteq Threads
    BY <1>1, <1>3, <2>1 DEF BInv, User, Guarded, UserType
  <2>3. Kernel.wk # "none"
    BY <2>2, BinderAssumption
  <2> QED
    BY <1>1, <2>1, <2>2, <2>3
<1>4. UNCHANGED <<readVars, box, hold, uS, uW>>
  OBVIOUS
<1> QED
  BY <1>1, <1>2, <1>3, <1>4, UserKept

-----------------------------------------------------------------------------
(* The steps of clients and senders.                                       *)

\* What the invariant gives a step that runs outside a read.
LEMMA Before ==
  ASSUME BInv
  PROVE  /\ Core(Kernel, buf, proxy, alive) /\ RefBalance(Kernel, buf, proxy)
         /\ proxy \in [Clients -> [s : BOOLEAN, w : BOOLEAN]]
         /\ alive \subseteq Clients \cup {Owner}
         /\ \A c \in Clients : proxy[c].s => ref[c].s > 0
         /\ \A c \in Clients : ref[c].live => Kernel.n.live /\ HasRefs(Kernel)
         /\ Owner \in alive => ~Kernel.n.dead
<1>1. /\ Core(Kernel, buf, proxy, alive) /\ RefBalance(Kernel, buf, proxy)
      /\ proxy \in [Clients -> [s : BOOLEAN, w : BOOLEAN]]
      /\ alive \subseteq Clients \cup {Owner}
  BY DEF BInv, Core, User, UserType
<1>2. ASSUME NEW c \in Clients, proxy[c].s PROVE ref[c].s > 0
  <2>1. Kernel.r[c].s = Cardinality(HandleBufs(buf, c)) + One(proxy[c].s) /\ Cardinality(HandleBufs(buf, c)) \in Nat
    BY <1>1, BufferTypes DEF RefBalance
  <2>2. One(proxy[c].s) = 1
    BY <1>2 DEF One
  <2>3. Kernel.r = ref
    BY KernelIs
  <2> QED
    BY <2>1, <2>2, <2>3
<1>3. ASSUME NEW c \in Clients, ref[c].live PROVE Kernel.n.live /\ HasRefs(Kernel)
  <2>1. Kernel.r[c].live
    BY <1>3, KernelIs
  <2> QED
    BY <1>1, <2>1, CoreFacts DEF HasRefs
<1>4. Owner \in alive => ~Kernel.n.dead
  BY <1>1, CoreFacts
<1> QED
  BY <1>1, <1>2, <1>3, <1>4

\* A call or a reply to the owner, whether or not it goes through.
LEMMA CallOwnerStep ==
  ASSUME BInv, NEW c \in Clients, NEW kind \in {"binder", "none"}, NEW strong \in BOOLEAN,
         NEW tnode \in BOOLEAN, NEW b \in Buffers, CallOwner(c, kind, strong, tnode, b)
  PROVE  BInv'
<1> DEFINE m == IF tnode THEN binder_inc_node(Kernel, TRUE, FALSE, Nobody) ELSE Kernel
           d == IF kind = "binder" THEN binder_inc_node(m, strong, FALSE, Nobody) ELSE m
           r == CallBuf(kind, strong, tnode)
           e == binder_transaction_buffer_release(d, r)
<1>1. /\ reading = Nobody /\ Owner \in alive /\ buf[b] = NoBuf /\ ref[c].live
      /\ strong \/ tnode => proxy[c].s
      /\ Transact(d, r, b) \/ TransactFails(d, r)
      /\ UNCHANGED <<readVars, alive, busy, stolen, userVars>>
  BY DEF CallOwner, CallBuf, Free
<1>2. Core(Kernel, buf, proxy, alive) /\ Kernel.n.live /\ HasRefs(Kernel) /\ ~Kernel.n.dead
  BY <1>1, Before
<1>3. strong \/ tnode => StrongK(Kernel)
  <2>1. strong \/ tnode => Kernel.r[c].s > 0
    BY <1>1, Before, KernelIs
  <2> QED
    BY <1>2, <2>1, StrongOnNode
<1>4. KInv(d) /\ Counted(Kernel, d, r) /\ Settles(Kernel, d) /\ d.n.live /\ ~d.n.dead
  BY <1>1, <1>2, <1>3, CoreCall
<1>5. r \in BufType /\ BufOK(r) /\ r.to \in alive
  BY <1>1, CallBufFacts
<1> HIDE DEF d, m, r
<1>6. d.n.ps = Kernel.n.ps /\ d.n.pw = Kernel.n.pw
  BY <1>2, <1>4 DEF Settles
<1>7. UNCHANGED <<readVars, box, hold, uS, uW, busy, stolen>> /\ proxy' = proxy /\ alive' = alive
  BY <1>1 DEF userVars
<1>8. proxy' \in [Clients -> [s : BOOLEAN, w : BOOLEAN]]
  BY <1>7, Before
<1>9. CASE Transact(d, r, b)
  <2>1. Kernel' = d
    BY <1>4, <1>9 DEF Transact, SetKernel, Kernel, KInv, Structure, KernelType
  <2>2. Core(d, [buf EXCEPT ![b] = r], proxy, alive)
    BY <1>1, <1>2, <1>4, <1>5, <1>6, CoreSend
  <2>3. Core(Kernel', buf', proxy', alive')
    BY <1>7, <1>9, <2>1, <2>2 DEF Transact
  <2>4. Settles(Kernel, Kernel')
    BY <1>4, <2>1
  <2> QED
    BY <1>1, <1>7, <1>8, <2>3, <2>4, UserSettled
<1>10. CASE TransactFails(d, r)
  <2>1. Core(e, buf, proxy, alive) /\ Lessens(d, e)
    BY <1>1, <1>2, <1>4, <1>5, <1>6, CoreTakenBack
  <2> HIDE DEF e
  <2>2. Structure(e)
    BY <2>1 DEF Core, KInv
  <2>3. Kernel' = e
    BY <1>10, <2>2 DEF TransactFails, SetKernel, Kernel, Structure, KernelType, e
  <2>4. Core(Kernel', buf', proxy', alive')
    BY <1>7, <1>10, <2>1, <2>3 DEF TransactFails
  <2>5. Settles(d, e)
    BY <2>1, <2>2, LessensSettles
  <2>6. Settles(Kernel, Kernel')
    BY <1>2, <1>4, <2>3, <2>5 DEF Settles
  <2> QED
    BY <1>1, <1>7, <1>8, <2>4, <2>6, UserSettled
<1> QED
  BY <1>1, <1>9, <1>10

\* A client passes its handle on, whether or not the transaction goes through.
LEMMA SendHandleStep ==
  ASSUME BInv, NEW c \in Clients, NEW p \in Clients, NEW strong \in BOOLEAN, NEW b \in Buffers,
         SendHandle(c, p, strong, b)
  PROVE  BInv'
<1> DEFINE d == binder_inc_ref(binder_get_ref_for_node(Kernel, p), p, strong, Nobody)
           r == HandleBuf(p, strong)
           e == binder_transaction_buffer_release(d, r)
<1>1. /\ reading = Nobody /\ p \in alive /\ buf[b] = NoBuf /\ ref[c].live
      /\ strong => proxy[c].s
      /\ Transact(d, r, b) \/ TransactFails(d, r)
      /\ UNCHANGED <<readVars, alive, busy, stolen, userVars>>
  BY DEF SendHandle, HandleBuf, Free
<1>2. Core(Kernel, buf, proxy, alive) /\ KInv(Kernel) /\ Kernel.n.live /\ HasRefs(Kernel)
  BY <1>1, Before DEF Core
<1>3. strong => Kernel.n.is > 0
  <2>1. strong => Kernel.r[c].s > 0
    BY <1>1, Before, KernelIs
  <2> QED
    BY <1>2, <2>1, StrongOnNode
<1>4. KInv(d) /\ RefGrows(Kernel, d, p, strong, Nobody)
  BY <1>2, <1>3, AddRef
<1>5. r \in BufType /\ BufOK(r) /\ r.to \in alive
  BY <1>1, HandleBufFacts
<1> HIDE DEF d
<1>6. Counted(Kernel, d, r)
  BY <1>2, <1>4, GrowsCounted
<1> HIDE DEF r
<1>7. SameFlags(Kernel.n, d.n) /\ Settles(Kernel, d)
  BY <1>4, GrowsSettles DEF RefGrows
<1>8. /\ d.n.live => (d.n.dead <=> Owner \notin alive)
      /\ Owner \in alive => ~d.n.dead /\ d.n.ps = Kernel.n.ps /\ d.n.pw = Kernel.n.pw
  <2>1. d.n.dead = Kernel.n.dead /\ d.n.ps = Kernel.n.ps /\ d.n.pw = Kernel.n.pw
    BY <1>7 DEF SameFlags
  <2>2. Kernel.n.dead <=> Owner \notin alive
    BY <1>2 DEF Core
  <2> QED
    BY <2>1, <2>2
<1>9. UNCHANGED <<readVars, box, hold, uS, uW, busy, stolen>> /\ proxy' = proxy /\ alive' = alive
  BY <1>1 DEF userVars
<1>10. proxy' \in [Clients -> [s : BOOLEAN, w : BOOLEAN]]
  BY <1>9, Before
<1>11. CASE Transact(d, r, b)
  <2>1. Kernel' = d
    BY <1>4, <1>11 DEF Transact, SetKernel, Kernel, KInv, Structure, KernelType
  <2>2. Core(d, [buf EXCEPT ![b] = r], proxy, alive)
    BY <1>1, <1>2, <1>4, <1>5, <1>6, <1>8, CoreSend
  <2>3. Core(Kernel', buf', proxy', alive')
    BY <1>9, <1>11, <2>1, <2>2 DEF Transact
  <2>4. Settles(Kernel, Kernel')
    BY <1>7, <2>1
  <2> QED
    BY <1>1, <1>9, <1>10, <2>3, <2>4, UserSettled
<1>12. CASE TransactFails(d, r)
  <2>1. Core(e, buf, proxy, alive) /\ Lessens(d, e)
    BY <1>1, <1>2, <1>4, <1>5, <1>6, <1>8, CoreTakenBack
  <2> HIDE DEF e
  <2>2. Structure(e)
    BY <2>1 DEF Core, KInv
  <2>3. Kernel' = e
    BY <1>12, <2>2 DEF TransactFails, SetKernel, Kernel, Structure, KernelType, e
  <2>4. Core(Kernel', buf', proxy', alive')
    BY <1>9, <1>12, <2>1, <2>3 DEF TransactFails
  <2>5. Settles(d, e)
    BY <2>1, <2>2, LessensSettles
  <2>6. Settles(Kernel, Kernel')
    <3>1. ~Kernel.n.dead => ~d.n.dead
      BY <1>7 DEF SameFlags
    <3>2. StrongK(d) => d.n.hs = Kernel.n.hs
      BY <1>7 DEF SameFlags
    <3>3. d.n.hs = e.n.hs \/ Kernel.n.dead
      BY <2>5, <3>1 DEF Settles
    <3>4. Kernel.n.dead => d.n.dead /\ Kernel.wk = "none" /\ d.wk = "none"
      BY <1>2, <1>4, <1>7 DEF SameFlags, KInv, Structure
    <3>5. StrongK(e) /\ Kernel.n.dead => StrongK(Kernel)
      <4>1. ASSUME StrongK(e) PROVE StrongK(Kernel)
        <5>1. e.n.is = Kernel.n.is /\ SameCounts(Kernel, e)
          BY <1>1, <1>2, <1>4, <1>5, <1>6, <1>8, CoreTakenBack DEF e
        <5> QED
          BY <4>1, <5>1 DEF SameCounts, StrongK
      <4> QED
        BY <4>1
    <3> QED
      BY <1>7, <2>3, <2>5, <3>1, <3>2, <3>3, <3>4, <3>5 DEF Settles
  <2> QED
    BY <1>1, <1>9, <1>10, <2>4, <2>6, UserSettled
<1> QED
  BY <1>1, <1>11, <1>12

\* The receiver frees a buffer.
LEMMA FreeBufferStep ==
  ASSUME BInv, NEW b \in Buffers, BC_FREE_BUFFER(b)
  PROVE  BInv'
<1> DEFINE d == binder_transaction_buffer_release(Kernel, buf[b])
<1>1. /\ reading = Nobody /\ buf[b].to \in alive
      /\ SetKernel(d) /\ buf' = [buf EXCEPT ![b] = NoBuf]
      /\ UNCHANGED <<readVars, alive, busy, stolen, userVars>>
  BY DEF BC_FREE_BUFFER
<1>2. Core(Kernel, buf, proxy, alive)
  BY Before
<1>3. Core(d, [buf EXCEPT ![b] = NoBuf], proxy, alive) /\ Settles(Kernel, d)
  BY <1>1, <1>2, CoreFree
<1> HIDE DEF d
<1>4. d \in KernelType
  BY <1>3, CoreFacts
<1>5. Kernel' = d
  BY <1>1, <1>4 DEF SetKernel, Kernel, KernelType
<1>6. UNCHANGED <<readVars, box, hold, uS, uW, busy, stolen>> /\ proxy' = proxy /\ alive' = alive
  BY <1>1 DEF userVars
<1>7. Core(Kernel', buf', proxy', alive') /\ Settles(Kernel, Kernel')
  BY <1>1, <1>3, <1>5, <1>6
<1>8. proxy' \in [Clients -> [s : BOOLEAN, w : BOOLEAN]]
  BY <1>6, Before
<1> QED
  BY <1>1, <1>6, <1>7, <1>8, UserSettled

\* A client counts on a handle it has.
LEMMA ClientIncStep ==
  ASSUME BInv, NEW c \in Clients, NEW strong \in BOOLEAN, ClientInc(c, strong)
  PROVE  BInv'
<1> DEFINE d == binder_inc_ref(Kernel, c, strong, Nobody)
           qr == TakeProxy(proxy, c, strong)
<1>1. /\ reading = Nobody /\ Knows(c, strong) /\ ref[c].live
      /\ ~(IF strong THEN proxy[c].s ELSE proxy[c].w)
      /\ SetKernel(d) /\ proxy' = qr
      /\ UNCHANGED <<buf, readVars, alive, busy, stolen, box, hold, uS, uW>>
  BY DEF ClientInc, TakeProxy
<1>2. /\ Core(Kernel, buf, proxy, alive) /\ RefBalance(Kernel, buf, proxy)
      /\ proxy \in [Clients -> [s : BOOLEAN, w : BOOLEAN]]
  BY Before
<1>3. ASSUME strong PROVE Kernel.r[c].s > 0 /\ ~proxy[c].s
  <2>1. ~proxy[c].s
    BY <1>1, <1>3
  <2>2. PICK b \in Buffers : HoldsHandle(buf[b], c)
    BY <1>1, <1>3, <2>1 DEF Knows, HoldsHandle
  <2> QED
    BY <1>2, <2>1, <2>2, HandleCovered
<1>4. Kernel.r[c].live
  BY <1>1, KernelIs
<1>5. Core(d, buf, qr, alive) /\ Settles(Kernel, d)
  BY <1>2, <1>3, <1>4, CoreClientInc
<1>6. qr \in [Clients -> [s : BOOLEAN, w : BOOLEAN]]
  BY <1>2, TakeProxyFacts
<1> HIDE DEF d, qr
<1>7. d \in KernelType
  BY <1>5, CoreFacts
<1>8. Kernel' = d
  BY <1>1, <1>7 DEF SetKernel, Kernel, KernelType
<1>9. Core(Kernel', buf', proxy', alive') /\ Settles(Kernel, Kernel')
  BY <1>1, <1>5, <1>8
<1>10. UNCHANGED <<readVars, box, hold, uS, uW, busy, stolen>> /\ alive' = alive
  BY <1>1
<1> QED
  BY <1>1, <1>6, <1>9, <1>10, UserSettled

\* A client gives a count back.
LEMMA ClientDecStep ==
  ASSUME BInv, NEW c \in Clients, NEW strong \in BOOLEAN, ClientDec(c, strong)
  PROVE  BInv'
<1> DEFINE d == IF Kernel.r[c].live THEN binder_dec_ref(Kernel, c, strong) ELSE Kernel
           qr == DropProxy(proxy, c, strong)
<1>0. Kernel.r = ref
  BY KernelIs
<1>1. /\ reading = Nobody
      /\ IF strong THEN proxy[c].s ELSE proxy[c].w
      /\ SetKernel(d) /\ proxy' = qr
      /\ UNCHANGED <<buf, readVars, alive, busy, stolen, box, hold, uS, uW>>
  BY <1>0 DEF ClientDec, DropProxy
<1>2. /\ Core(Kernel, buf, proxy, alive)
      /\ proxy \in [Clients -> [s : BOOLEAN, w : BOOLEAN]]
  BY Before
<1>3. Core(d, buf, qr, alive) /\ Settles(Kernel, d)
  BY <1>1, <1>2, CoreClientDec
<1>4. qr \in [Clients -> [s : BOOLEAN, w : BOOLEAN]]
  BY <1>2, DropProxyFacts
<1> HIDE DEF d, qr
<1>5. d \in KernelType
  BY <1>3, CoreFacts
<1>6. Kernel' = d
  BY <1>1, <1>5 DEF SetKernel, Kernel, KernelType
<1>7. Core(Kernel', buf', proxy', alive') /\ Settles(Kernel, Kernel')
  BY <1>1, <1>3, <1>6
<1>8. UNCHANGED <<readVars, box, hold, uS, uW, busy, stolen>> /\ alive' = alive
  BY <1>1
<1> QED
  BY <1>1, <1>4, <1>7, <1>8, UserSettled

\* A client is released.
LEMMA ReleaseClientStep ==
  ASSUME BInv, NEW c \in Clients, ReleaseClient(c)
  PROVE  BInv'
<1> DEFINE d == IF Kernel.r[c].live THEN binder_delete_ref(Kernel, c) ELSE Kernel
           qr == [proxy EXCEPT ![c] = [s |-> FALSE, w |-> FALSE]]
<1>0. Kernel.r = ref
  BY KernelIs
<1>1. /\ reading = Nobody /\ alive' = alive \ {c}
      /\ SetKernel(d) /\ buf' = Forget(buf, c) /\ proxy' = qr
      /\ UNCHANGED <<readVars, busy, box, hold, uS, uW, stolen>>
  BY <1>0 DEF ReleaseClient, ForgetBuffers, BuffersOf, Forget
<1>2. /\ Core(Kernel, buf, proxy, alive)
      /\ proxy \in [Clients -> [s : BOOLEAN, w : BOOLEAN]]
  BY Before
<1>3. Core(d, Forget(buf, c), qr, alive \ {c}) /\ Settles(Kernel, d)
  BY <1>2, CoreReleaseClient
<1>4. qr \in [Clients -> [s : BOOLEAN, w : BOOLEAN]]
  BY <1>2
<1> HIDE DEF d, qr
<1>5. d \in KernelType
  BY <1>3, CoreFacts
<1>6. Kernel' = d
  BY <1>1, <1>5 DEF SetKernel, Kernel, KernelType
<1>7. Core(Kernel', buf', proxy', alive') /\ Settles(Kernel, Kernel')
  BY <1>1, <1>3, <1>6
<1>8. UNCHANGED <<readVars, box, hold, uS, uW, busy, stolen>> /\ (Owner \in alive' => Owner \in alive)
  BY <1>1
<1> QED
  BY <1>1, <1>4, <1>7, <1>8, UserSettled

\* The owner is released.
LEMMA ReleaseOwnerStep ==
  ASSUME BInv, ReleaseOwner
  PROVE  BInv'
<1>1. /\ reading = Nobody /\ alive' = alive \ {Owner}
      /\ node' = DeadNode(Kernel) /\ work' = "none" /\ ref' = ref
      /\ buf' = Forget(buf, Owner) /\ proxy' = proxy
      /\ box' = [t \in Threads |-> <<>>]
      /\ busy' = {} /\ hold' = {} /\ uS' = 0 /\ uW' = 0
      /\ reading' = reading /\ wait_for_proc_work' = wait_for_proc_work /\ stolen' = stolen
  BY KernelIs DEF ReleaseOwner, ForgetBuffers, BuffersOf, Forget, DeadNode, readVars
<1>2. Kernel' = [n |-> DeadNode(Kernel), wk |-> "none", r |-> Kernel.r]
  BY <1>1, KernelIs DEF Kernel
<1>3. Core(Kernel', buf', proxy', alive')
  BY <1>1, <1>2, Before, CoreReleaseOwner
<1>4. UserType' /\ (\A t \in Threads : Distinct(box'[t])) /\ busy' \subseteq hold'
  BY <1>1 DEF BInv, User, UserType, Distinct
<1> QED
  BY <1>1, <1>3, <1>4 DEF BInv, User

\* A thread of the owner sends the object.  The item goes to its own list, where
\* it is behind no completion; the error path leaves it there.
LEMMA SendObjectStep ==
  ASSUME BInv, NEW t \in Threads, NEW c \in Clients, NEW strong \in BOOLEAN, NEW b \in Buffers,
         SendObject(t, c, strong, b)
  PROVE  BInv'
<1> DEFINE m == [Kernel EXCEPT !.n = NewNode(Kernel.n)]
           d == binder_inc_ref(binder_get_ref_for_node(m, c), c, strong, t)
           r == HandleBuf(c, strong)
           e == binder_transaction_buffer_release(d, r)
<1>0. Kernel.n = node /\ Kernel.wk = work /\ Kernel'.wk = work'
  BY KernelIs, KernelIsNext
<1>1. /\ reading = Nobody /\ Owner \in alive /\ c \in alive /\ buf[b] = NoBuf
      /\ t \in hold /\ t \notin busy
      /\ \/ Transact(d, r, b) /\ busy' = busy \cup {t} /\ stolen' = stolen
         \/ /\ TransactFails(d, r) /\ busy' = busy
            /\ stolen' = (stolen \/ (work \in Threads \ {t} /\ work' = t))
         \/ SetKernel(m) /\ UNCHANGED <<buf, busy, stolen>>
      /\ UNCHANGED <<readVars, alive, userVars>>
  BY <1>0 DEF SendObject, HandleBuf, Free, NewNode
<1>2. Core(Kernel, buf, proxy, alive) /\ ~Kernel.n.dead
  BY <1>1, Before
<1>3. /\ Core(m, buf, proxy, alive) /\ m.n.live /\ ~m.n.dead
      /\ SameCounts(Kernel, m) /\ m.n.is = Kernel.n.is /\ m.wk = Kernel.wk /\ m.n.hs = Kernel.n.hs
      /\ Settles(Kernel, m)
  BY <1>1, <1>2, CoreNewNode
<1> HIDE DEF m
<1>4. KInv(d) /\ RefGrows(m, d, c, strong, t)
  <2>1. t # Nobody
    BY BinderAssumption
  <2> QED
    BY <1>3, <2>1, AddRef DEF Core
<1>5. r \in BufType /\ BufOK(r) /\ r.to \in alive
  BY <1>1, HandleBufFacts
<1> HIDE DEF d
<1>6. Counted(m, d, r)
  BY <1>3, <1>4, GrowsCounted
<1> HIDE DEF r
<1>7. /\ d.n.live /\ ~d.n.dead /\ d.n.hs = m.n.hs /\ d.n.hw = m.n.hw
      /\ d.n.ps = m.n.ps /\ d.n.pw = m.n.pw
      /\ (d.wk = m.wk /\ (StrongK(d) => StrongK(m) \/ m.n.hs)) \/ d.wk = t
  BY <1>3, <1>4 DEF RefGrows, SameFlags
<1>8. /\ m.n.hw = Kernel.n.hw /\ m.n.ps = Kernel.n.ps /\ m.n.pw = Kernel.n.pw
      /\ (StrongK(m) <=> StrongK(Kernel))
  BY <1>2, <1>3 DEF Settles, SameCounts, StrongK
<1>9. UNCHANGED <<readVars, box, hold, uS, uW>> /\ proxy' = proxy /\ alive' = alive
  BY <1>1 DEF userVars
<1>10. busy' \subseteq hold' /\ UserType'
  BY <1>1, <1>9 DEF BInv, User, UserType, readVars
<1>11. ASSUME ~stolen, StrongK(Kernel), ~Kernel.n.hs PROVE work \in busy /\ busy \subseteq Threads /\ work # "none"
  <2>1. work \in busy /\ busy \subseteq Threads
    BY <1>0, <1>1, <1>11 DEF BInv, User, Guarded, UserType
  <2> QED
    BY <2>1, BinderAssumption
<1>12. CASE Transact(d, r, b) /\ busy' = busy \cup {t} /\ stolen' = stolen
  <2>1. Kernel' = d
    BY <1>4, <1>12 DEF Transact, SetKernel, Kernel, KInv, Structure, KernelType
  <2>2. Core(d, [buf EXCEPT ![b] = r], proxy, alive)
    BY <1>1, <1>3, <1>4, <1>5, <1>6, <1>7, CoreSend
  <2>3. Core(Kernel', buf', proxy', alive')
    BY <1>9, <1>12, <2>1, <2>2 DEF Transact
  <2>4. /\ Kernel'.n.hs = Kernel.n.hs /\ Kernel'.n.hw = Kernel.n.hw
        /\ Kernel'.n.ps = Kernel.n.ps /\ Kernel'.n.pw = Kernel.n.pw
    BY <1>3, <1>7, <1>8, <2>1
  <2>5. ~stolen' /\ ~Kernel'.n.hs /\ StrongK(Kernel') => Kernel'.wk \in busy'
    BY <1>0, <1>3, <1>7, <1>8, <1>11, <1>12, <2>1, <2>4
  <2> QED
    BY <1>1, <1>9, <1>10, <1>12, <2>3, <2>4, <2>5, UserKept
<1>13. CASE /\ TransactFails(d, r) /\ busy' = busy
            /\ stolen' = (stolen \/ (work \in Threads \ {t} /\ work' = t))
  <2>1. Core(e, buf, proxy, alive) /\ Lessens(d, e) /\ e.n.is = m.n.is /\ SameCounts(m, e)
    BY <1>1, <1>3, <1>4, <1>5, <1>6, <1>7, CoreTakenBack
  <2> HIDE DEF e
  <2>2. Structure(e)
    BY <2>1 DEF Core, KInv
  <2>3. Kernel' = e
    BY <1>13, <2>2 DEF TransactFails, SetKernel, Kernel, Structure, KernelType, e
  <2>4. Core(Kernel', buf', proxy', alive')
    BY <1>9, <1>13, <2>1, <2>3 DEF TransactFails
  <2>5. /\ Kernel'.n.hs = Kernel.n.hs /\ Kernel'.n.hw = Kernel.n.hw
        /\ Kernel'.n.ps = Kernel.n.ps /\ Kernel'.n.pw = Kernel.n.pw
    BY <1>3, <1>7, <1>8, <2>1, <2>3 DEF Lessens
  <2>6. StrongK(e) => StrongK(Kernel)
    BY <1>8, <2>1 DEF SameCounts, StrongK
  <2>7. Settles(d, e)
    BY <2>1, <2>2, LessensSettles
  <2>8. ASSUME ~stolen', ~Kernel'.n.hs, StrongK(Kernel') PROVE Kernel'.wk \in busy'
    <3>1. ~stolen /\ ~(work \in Threads \ {t} /\ work' = t)
      BY <1>13, <2>8
    <3>2. StrongK(Kernel) /\ ~Kernel.n.hs
      BY <2>3, <2>5, <2>6, <2>8
    <3>3. work \in busy /\ busy \subseteq Threads /\ work # "none"
      BY <1>11, <3>1, <3>2
    <3>4. work' # t
      BY <1>1, <3>1, <3>3
    <3>5. e.wk = d.wk \/ d.wk = "none"
      BY <2>3, <2>7, <2>8 DEF Settles
    <3>6. d.wk = work \/ d.wk = t
      BY <1>0, <1>3, <1>7
    <3>7. t # "none"
      BY BinderAssumption
    <3> QED
      BY <1>0, <1>13, <2>3, <3>3, <3>4, <3>5, <3>6, <3>7
  <2>9. ~stolen' => ~stolen
    BY <1>13
  <2> QED
    BY <1>1, <1>9, <1>10, <2>4, <2>5, <2>8, <2>9, UserKept
<1>14. CASE SetKernel(m) /\ UNCHANGED <<buf, busy, stolen>>
  <2>1. Structure(m)
    BY <1>3 DEF Core, KInv
  <2>2. Kernel' = m
    BY <1>14, <2>1 DEF SetKernel, Kernel, Structure, KernelType
  <2>3. Core(Kernel', buf', proxy', alive') /\ Settles(Kernel, Kernel')
    BY <1>3, <1>9, <1>14, <2>2
  <2>4. proxy' \in [Clients -> [s : BOOLEAN, w : BOOLEAN]]
    BY <1>10 DEF UserType
  <2>5. UNCHANGED <<readVars, box, hold, uS, uW, busy, stolen>>
    BY <1>9, <1>14
  <2> QED
    BY <1>1, <1>9, <2>3, <2>4, <2>5, UserSettled
<1> QED
  BY <1>1, <1>12, <1>13, <1>14

-----------------------------------------------------------------------------
(* The steps of a read.                                                    *)

\* What a thread knows while its read handles the node's item.
LEMMA Reads ==
  ASSUME BInv, NEW t \in Threads, NodeWork(t)
  PROVE  /\ reading = t /\ reading # Nobody /\ Owner \in alive /\ Kernel.wk # "none"
         /\ Core(Kernel, buf, proxy, alive) /\ Kernel.n \in NodeType
         /\ Kernel.n.ls \in Nat /\ Kernel.n.lw \in Nat
         /\ Reported(Kernel, box[t]) /\ Answered(Kernel.n, box, uS, uW)
         /\ (Kernel.n.ps => Kernel.n.hs) /\ (Kernel.n.pw => Kernel.n.hw)
         /\ box \in [Threads -> Seq(Commands)] /\ box[t] \in Seq(Commands) /\ Distinct(box[t])
         /\ work = t \/ (work = "proc" /\ t \notin busy)
<1>1. reading = t /\ (work = t \/ (work = "proc" /\ t \notin busy))
  BY DEF NodeWork
<1>2. t # Nobody /\ t # "none"
  BY BinderAssumption
<1>3. Owner \in alive /\ Reported(Kernel, box[t]) /\ Answered(Kernel.n, box, uS, uW) /\ Distinct(box[t])
      /\ box \in [Threads -> Seq(Commands)]
  BY <1>1, <1>2 DEF BInv, User, UserType
<1>4. Kernel.wk # "none"
  BY <1>1, <1>2, KernelIs
<1>5. Core(Kernel, buf, proxy, alive) /\ Kernel.n \in NodeType /\ Kernel.n.ls \in Nat /\ Kernel.n.lw \in Nat
  BY CoreFacts DEF BInv
<1>6. (Kernel.n.ps => Kernel.n.hs) /\ (Kernel.n.pw => Kernel.n.hw)
  BY <1>5 DEF Core, KInv, Structure
<1> QED
  BY <1>1, <1>2, <1>3, <1>4, <1>5, <1>6

\* A thread that is told a command: what is left to show.
LEMMA TellStep ==
  ASSUME BInv, NEW t \in Threads, NodeWork(t), NEW cmd \in Commands, Tell(t, cmd),
         ~Has(box[t], cmd), Core(Kernel', buf', proxy', alive'),
         Answered(Kernel'.n, box', uS, uW),
         Has(box[t], "RELEASE") \/ cmd = "RELEASE" => ~Kernel'.n.hs /\ ~StrongK(Kernel'),
         Has(box[t], "DECREFS") \/ cmd = "DECREFS" => ~Kernel'.n.hw /\ ~WeakK(Kernel'),
         ~Kernel'.n.hs /\ StrongK(Kernel') => ~Kernel.n.hs /\ StrongK(Kernel),
         cmd = "ACQUIRE" => ~Kernel.n.hs /\ StrongK(Kernel)
  PROVE  BInv'
<1>1. /\ reading = t /\ reading # Nobody /\ Owner \in alive
      /\ box \in [Threads -> Seq(Commands)] /\ box[t] \in Seq(Commands) /\ Distinct(box[t])
      /\ work = t \/ (work = "proc" /\ t \notin busy)
  BY Reads
<1>2. /\ box' = [box EXCEPT ![t] = Append(@, cmd)]
      /\ work' = work /\ reading' = reading /\ wait_for_proc_work' = wait_for_proc_work
      /\ alive' = alive /\ busy' = busy /\ hold' = hold /\ uS' = uS /\ uW' = uW
      /\ proxy' = proxy /\ stolen' = stolen
  BY DEF Tell, readVars
<1>3. box' \in [Threads -> Seq(Commands)] /\ box'[t] = Append(box[t], cmd)
      /\ \A u \in Threads \ {t} : box'[u] = box[u]
  BY <1>1, <1>2
<1>4. \A x : Has(box'[t], x) <=> Has(box[t], x) \/ x = cmd
  BY <1>1, <1>3, HasAppend
<1>5. Distinct(box'[t])
  BY <1>1, <1>3, HasAppend
<1>6. UserType'
  BY <1>2, <1>3 DEF BInv, User, UserType
<1>7. \A u \in Threads : Distinct(box'[u])
  BY <1>3, <1>5 DEF BInv, User
<1>8. Reported(Kernel', box'[t])
  BY <1>4 DEF Reported
<1>9. ASSUME ~stolen' PROVE Guarded(Kernel', box', busy', hold')
  <2>1. Guarded(Kernel, box, busy, hold) /\ busy \subseteq hold /\ busy \subseteq Threads
    BY <1>1, <1>2, <1>9 DEF BInv, User, UserType
  <2>2. Kernel.wk = work /\ Kernel'.wk = work
    BY <1>2, KernelIs, KernelIsNext
  <2>3. ~Kernel'.n.hs /\ StrongK(Kernel') => Kernel'.wk \in busy'
    BY <1>2, <2>1, <2>2 DEF Guarded
  <2>4. cmd = "ACQUIRE" => t \in hold
    <3>1. cmd = "ACQUIRE" => work \in busy
      BY <2>1, <2>2 DEF Guarded
    <3>2. "proc" \notin Threads
      BY BinderAssumption
    <3> QED
      BY <1>1, <2>1, <3>1, <3>2
  <2>5. ASSUME NEW u \in Threads, Has(box'[u], "ACQUIRE") PROVE u \in hold'
    <3>1. CASE u = t
      BY <1>2, <1>4, <2>1, <2>4, <2>5, <3>1 DEF Guarded
    <3>2. CASE u # t
      BY <1>2, <1>3, <2>1, <2>5, <3>2 DEF Guarded
    <3> QED
      BY <3>1, <3>2
  <2> QED
    BY <2>3, <2>5 DEF Guarded
<1>10. busy' \subseteq hold'
  BY <1>2 DEF BInv, User
<1> QED
  BY <1>1, <1>2, <1>6, <1>7, <1>8, <1>9, <1>10 DEF BInv, User

\* How the answers change when thread t is told a command it has not been told.
LEMMA ToldAll ==
  ASSUME BInv, NEW t \in Threads, NodeWork(t), NEW cmd \in Commands, ~Has(box[t], cmd), Tell(t, cmd)
  PROVE  OneMore(box, box', cmd)
<1>1. box \in [Threads -> Seq(Commands)] /\ box' = [box EXCEPT ![t] = Append(@, cmd)]
  BY Reads DEF Tell
<1>2. OneMore(box, [box EXCEPT ![t] = Append(@, cmd)], cmd)
  BY <1>1, ToldMore
<1> QED
  BY <1>1, <1>2

\* A node after the driver asks for or gives back the weak reference, ...
AsksWeak(n, q) ==
  /\ q \in NodeType /\ q.is = n.is /\ q.ls = n.ls /\ q.live = n.live /\ q.dead = n.dead
  /\ q.hs = n.hs /\ q.ps = n.ps

\* ... and the strong one.
AsksStrong(n, q) ==
  /\ q \in NodeType /\ q.is = n.is /\ q.lw = n.lw /\ q.live = n.live /\ q.dead = n.dead
  /\ q.hw = n.hw /\ q.pw = n.pw

\* The changes of the node in binder_thread_read: the weak reference, ...
LEMMA AskWeakNode ==
  ASSUME NEW n \in NodeType
  PROVE  /\ LET q == [n EXCEPT !.hw = TRUE, !.pw = TRUE, !.lw = @ + 1]
            IN  AsksWeak(n, q) /\ q.hw /\ q.pw /\ q.lw = n.lw + 1
         /\ LET q == [n EXCEPT !.hw = FALSE]
            IN  AsksWeak(n, q) /\ ~q.hw /\ q.pw = n.pw /\ q.lw = n.lw
<1> DEFINE q0 == [n EXCEPT !.hw = TRUE]
           q1 == [q0 EXCEPT !.pw = TRUE]
           q2 == [q1 EXCEPT !.lw = n.lw + 1]
<1>1. n.lw + 1 \in Nat
  BY DEF NodeType
<1>2. LET q == [n EXCEPT !.hw = FALSE]
      IN  AsksWeak(n, q) /\ ~q.hw /\ q.pw = n.pw /\ q.lw = n.lw
  BY DEF NodeType, AsksWeak
<1>3. AsksWeak(n, q0) /\ q0.hw /\ q0.lw = n.lw
  BY DEF NodeType, AsksWeak
<1> HIDE DEF q0
<1>4. AsksWeak(n, q1) /\ q1.hw /\ q1.pw /\ q1.lw = n.lw
  BY <1>3 DEF NodeType, AsksWeak
<1> HIDE DEF q1
<1>5. AsksWeak(n, q2) /\ q2.hw /\ q2.pw /\ q2.lw = n.lw + 1
  BY <1>1, <1>4 DEF NodeType, AsksWeak
<1> QED
  BY <1>2, <1>5 DEF q0, q1

\* ... and the strong one.
LEMMA AskStrongNode ==
  ASSUME NEW n \in NodeType
  PROVE  /\ LET q == [n EXCEPT !.hs = TRUE, !.ps = TRUE, !.ls = @ + 1]
            IN  AsksStrong(n, q) /\ q.hs /\ q.ps /\ q.ls = n.ls + 1
         /\ LET q == [n EXCEPT !.hs = FALSE]
            IN  AsksStrong(n, q) /\ ~q.hs /\ q.ps = n.ps /\ q.ls = n.ls
<1> DEFINE q0 == [n EXCEPT !.hs = TRUE]
           q1 == [q0 EXCEPT !.ps = TRUE]
           q2 == [q1 EXCEPT !.ls = n.ls + 1]
<1>1. n.ls + 1 \in Nat
  BY DEF NodeType
<1>2. LET q == [n EXCEPT !.hs = FALSE]
      IN  AsksStrong(n, q) /\ ~q.hs /\ q.ps = n.ps /\ q.ls = n.ls
  BY DEF NodeType, AsksStrong
<1>3. AsksStrong(n, q0) /\ q0.hs /\ q0.ls = n.ls
  BY DEF NodeType, AsksStrong
<1> HIDE DEF q0
<1>4. AsksStrong(n, q1) /\ q1.hs /\ q1.ps /\ q1.ls = n.ls
  BY <1>3 DEF NodeType, AsksStrong
<1> HIDE DEF q1
<1>5. AsksStrong(n, q2) /\ q2.hs /\ q2.ps /\ q2.ls = n.ls + 1
  BY <1>1, <1>4 DEF NodeType, AsksStrong
<1> QED
  BY <1>2, <1>5 DEF q0, q1

\* The parts of the triple that telling a thread leaves alone.
LEMMA TellKernel ==
  ASSUME BInv, NEW t \in Threads, NodeWork(t), NEW cmd, Tell(t, cmd), node' \in NodeType
  PROVE  /\ Kernel' \in KernelType /\ Kernel'.n = node' /\ Kernel'.wk = Kernel.wk /\ Kernel'.r = Kernel.r
         /\ buf' = buf /\ proxy' = proxy /\ alive' = alive
<1>1. Kernel.wk \in WorkType /\ Kernel.r \in [Clients -> RefType]
  BY Reads, CoreFacts
<1>2. work' = work /\ ref' = ref /\ buf' = buf /\ proxy' = proxy /\ alive' = alive
  BY DEF Tell
<1> QED
  BY <1>1, <1>2 DEF Kernel, KernelType

\* The driver asks for the weak reference.
LEMMA BrIncrefsStep ==
  ASSUME BInv, NEW t \in Threads, BR_INCREFS(t)
  PROVE  BInv'
<1> DEFINE k == Kernel
           d == Kernel'
<1>1. /\ NodeWork(t) /\ WeakK(k) /\ ~k.n.hw /\ Tell(t, "INCREFS")
      /\ node' = [node EXCEPT !.hw = TRUE, !.pw = TRUE, !.lw = @ + 1]
  BY KernelIs DEF BR_INCREFS
<1>2. /\ Owner \in alive /\ k.wk # "none"
      /\ Core(k, buf, proxy, alive) /\ k.n \in NodeType /\ k.n.ls \in Nat /\ k.n.lw \in Nat
      /\ Reported(k, box[t]) /\ Answered(k.n, box, uS, uW)
      /\ (k.n.ps => k.n.hs) /\ (k.n.pw => k.n.hw)
  BY <1>1, Reads
<1>3. k.n = node
  BY KernelIs
<1>4. AsksWeak(k.n, node') /\ node'.hw /\ node'.pw /\ node'.lw = k.n.lw + 1
  BY <1>1, <1>2, <1>3, AskWeakNode
<1>5. /\ d \in KernelType /\ d.n = node' /\ d.wk = k.wk /\ d.r = k.r
      /\ buf' = buf /\ proxy' = proxy /\ alive' = alive
  BY <1>1, <1>4, TellKernel DEF AsksWeak
<1> HIDE DEF k, d
<1>6. /\ d.n.hw /\ d.n.pw /\ d.n.lw = k.n.lw + 1 /\ d.n.ls = k.n.ls
      /\ d.n.is = k.n.is /\ d.n.live = k.n.live /\ d.n.dead = k.n.dead /\ d.n.hs = k.n.hs /\ d.n.ps = k.n.ps
  BY <1>4, <1>5 DEF AsksWeak
<1>7. ~k.n.pw
  BY <1>1, <1>2
<1>8. One(k.n.pw) = 0 /\ One(d.n.pw) = 1 /\ One(d.n.ps) = One(k.n.ps) /\ One(d.n.hs) = One(k.n.hs)
      /\ One(k.n.hw) = 0 /\ One(d.n.hw) = 1
  BY <1>1, <1>6, <1>7 DEF One
<1>9. d.n.lw + One(k.n.pw) = k.n.lw + One(d.n.pw) /\ d.n.ls + One(k.n.ps) = k.n.ls + One(d.n.ps)
  <2>1. d.n.lw + 0 = k.n.lw + 1
    BY <1>2, <1>6
  <2> QED
    BY <1>6, <1>8, <2>1, Zenon
<1>10. Core(d, buf, proxy, alive)
  BY <1>2, <1>5, <1>6, <1>9, CoreAsk
<1>11. ~Has(box[t], "INCREFS")
  <2>1. Cardinality(Telling(box, "INCREFS")) = 0
    BY <1>2, <1>8 DEF Answered
  <2> QED
    BY <2>1, ToldType
<1>12. "INCREFS" \in Commands
  BY DEF Commands
<1>13. Answered(d.n, box', uS, uW)
  <2>1. OneMore(box, box', "INCREFS")
    BY <1>1, <1>11, <1>12, ToldAll
  <2>2. /\ Telling(box', "ACQUIRE") = Telling(box, "ACQUIRE")
        /\ Telling(box', "RELEASE") = Telling(box, "RELEASE")
        /\ Telling(box', "DECREFS") = Telling(box, "DECREFS")
        /\ Cardinality(Telling(box', "INCREFS")) = Cardinality(Telling(box, "INCREFS")) + 1
    BY <2>1 DEF OneMore
  <2>3. uW \in Nat /\ Cardinality(Telling(box, "DECREFS")) \in Nat
    BY ToldType DEF BInv, User, UserType
  <2> QED
    BY <1>2, <1>8, <2>2, <2>3 DEF Answered
<1>14. StrongK(d) <=> StrongK(k)
  BY <1>6 DEF StrongK
<1>15. ~Has(box[t], "DECREFS")
  BY <1>1, <1>2 DEF Reported
<1>16. Has(box[t], "RELEASE") => ~d.n.hs /\ ~StrongK(d)
  BY <1>2, <1>6, <1>14 DEF Reported
<1> QED
  BY <1>1, <1>5, <1>6, <1>10, <1>11, <1>12, <1>13, <1>14, <1>15, <1>16, TellStep DEF k, d

\* The driver asks for the strong reference.
LEMMA BrAcquireStep ==
  ASSUME BInv, NEW t \in Threads, BR_ACQUIRE(t)
  PROVE  BInv'
<1> DEFINE k == Kernel
           d == Kernel'
<1>1. /\ NodeWork(t) /\ StrongK(k) /\ WeakK(k) /\ ~k.n.hs /\ Tell(t, "ACQUIRE")
      /\ node' = [node EXCEPT !.hs = TRUE, !.ps = TRUE, !.ls = @ + 1]
  BY KernelIs DEF BR_ACQUIRE, Weak
<1>2. /\ Owner \in alive /\ k.wk # "none"
      /\ Core(k, buf, proxy, alive) /\ k.n \in NodeType /\ k.n.ls \in Nat /\ k.n.lw \in Nat
      /\ Reported(k, box[t]) /\ Answered(k.n, box, uS, uW)
      /\ (k.n.ps => k.n.hs) /\ (k.n.pw => k.n.hw)
  BY <1>1, Reads
<1>3. k.n = node
  BY KernelIs
<1>4. AsksStrong(k.n, node') /\ node'.hs /\ node'.ps /\ node'.ls = k.n.ls + 1
  BY <1>1, <1>2, <1>3, AskStrongNode
<1>5. /\ d \in KernelType /\ d.n = node' /\ d.wk = k.wk /\ d.r = k.r
      /\ buf' = buf /\ proxy' = proxy /\ alive' = alive
  BY <1>1, <1>4, TellKernel DEF AsksStrong
<1> HIDE DEF k, d
<1>6. /\ d.n.hs /\ d.n.ps /\ d.n.ls = k.n.ls + 1 /\ d.n.lw = k.n.lw
      /\ d.n.is = k.n.is /\ d.n.live = k.n.live /\ d.n.dead = k.n.dead /\ d.n.hw = k.n.hw /\ d.n.pw = k.n.pw
  BY <1>4, <1>5 DEF AsksStrong
<1>7. ~k.n.ps
  BY <1>1, <1>2
<1>8. One(k.n.ps) = 0 /\ One(d.n.ps) = 1 /\ One(d.n.pw) = One(k.n.pw) /\ One(d.n.hw) = One(k.n.hw)
      /\ One(k.n.hs) = 0 /\ One(d.n.hs) = 1
  BY <1>1, <1>6, <1>7 DEF One
<1>9. d.n.ls + One(k.n.ps) = k.n.ls + One(d.n.ps) /\ d.n.lw + One(k.n.pw) = k.n.lw + One(d.n.pw)
  <2>1. d.n.ls + 0 = k.n.ls + 1
    BY <1>2, <1>6
  <2> QED
    BY <1>6, <1>8, <2>1, Zenon
<1>10. Core(d, buf, proxy, alive)
  BY <1>2, <1>5, <1>6, <1>9, CoreAsk
<1>11. ~Has(box[t], "ACQUIRE")
  <2>1. Cardinality(Telling(box, "ACQUIRE")) = 0
    BY <1>2, <1>8 DEF Answered
  <2> QED
    BY <2>1, ToldType
<1>12. "ACQUIRE" \in Commands
  BY DEF Commands
<1>13. Answered(d.n, box', uS, uW)
  <2>1. OneMore(box, box', "ACQUIRE")
    BY <1>1, <1>11, <1>12, ToldAll
  <2>2. /\ Telling(box', "INCREFS") = Telling(box, "INCREFS")
        /\ Telling(box', "RELEASE") = Telling(box, "RELEASE")
        /\ Telling(box', "DECREFS") = Telling(box, "DECREFS")
        /\ Cardinality(Telling(box', "ACQUIRE")) = Cardinality(Telling(box, "ACQUIRE")) + 1
    BY <2>1 DEF OneMore
  <2>3. uS \in Nat /\ Cardinality(Telling(box, "RELEASE")) \in Nat
    BY ToldType DEF BInv, User, UserType
  <2> QED
    BY <1>2, <1>8, <2>2, <2>3 DEF Answered
<1>14. ~Has(box[t], "DECREFS") /\ ~Has(box[t], "RELEASE")
  BY <1>1, <1>2 DEF Reported
<1> QED
  BY <1>1, <1>5, <1>6, <1>10, <1>11, <1>12, <1>13, <1>14, TellStep DEF k, d

\* The driver gives the strong reference back.
LEMMA BrReleaseStep ==
  ASSUME BInv, NEW t \in Threads, BR_RELEASE(t)
  PROVE  BInv'
<1> DEFINE k == Kernel
           d == Kernel'
<1>1. /\ NodeWork(t) /\ ~StrongK(k) /\ k.n.hs /\ Tell(t, "RELEASE")
      /\ node' = [node EXCEPT !.hs = FALSE]
  BY KernelIs DEF BR_RELEASE
<1>2. /\ Owner \in alive /\ k.wk # "none"
      /\ Core(k, buf, proxy, alive) /\ k.n \in NodeType /\ k.n.ls \in Nat /\ k.n.lw \in Nat
      /\ Reported(k, box[t]) /\ Answered(k.n, box, uS, uW)
      /\ (k.n.ps => k.n.hs) /\ (k.n.pw => k.n.hw)
  BY <1>1, Reads
<1>3. k.n = node
  BY KernelIs
<1>4. AsksStrong(k.n, node') /\ ~node'.hs /\ node'.ps = k.n.ps /\ node'.ls = k.n.ls
  BY <1>1, <1>2, <1>3, AskStrongNode
<1>5. /\ d \in KernelType /\ d.n = node' /\ d.wk = k.wk /\ d.r = k.r
      /\ buf' = buf /\ proxy' = proxy /\ alive' = alive
  BY <1>1, <1>4, TellKernel DEF AsksStrong
<1> HIDE DEF k, d
<1>6. /\ ~d.n.hs /\ d.n.ps = k.n.ps /\ d.n.ls = k.n.ls /\ d.n.lw = k.n.lw
      /\ d.n.is = k.n.is /\ d.n.live = k.n.live /\ d.n.dead = k.n.dead /\ d.n.hw = k.n.hw /\ d.n.pw = k.n.pw
  BY <1>4, <1>5 DEF AsksStrong
<1>7. ~k.n.ps
  BY <1>1, <1>2, AskedCounts DEF StrongK
<1>8. One(d.n.ps) = One(k.n.ps) /\ One(d.n.pw) = One(k.n.pw) /\ One(d.n.hw) = One(k.n.hw) /\ One(k.n.ps) = 0
      /\ One(k.n.hs) = 1 /\ One(d.n.hs) = 0
  BY <1>1, <1>6, <1>7 DEF One
<1>9. d.n.ls + One(k.n.ps) = k.n.ls + One(d.n.ps) /\ d.n.lw + One(k.n.pw) = k.n.lw + One(d.n.pw)
  BY <1>6, <1>8, Zenon
<1>10. Core(d, buf, proxy, alive)
  BY <1>2, <1>5, <1>6, <1>7, <1>9, CoreAsk
<1>11. ~Has(box[t], "RELEASE")
  BY <1>1, <1>2 DEF Reported
<1>12. "RELEASE" \in Commands
  BY DEF Commands
<1>13. Answered(d.n, box', uS, uW)
  <2>1. OneMore(box, box', "RELEASE")
    BY <1>1, <1>11, <1>12, ToldAll
  <2>2. /\ Telling(box', "INCREFS") = Telling(box, "INCREFS")
        /\ Telling(box', "ACQUIRE") = Telling(box, "ACQUIRE")
        /\ Telling(box', "DECREFS") = Telling(box, "DECREFS")
        /\ Cardinality(Telling(box', "RELEASE")) = Cardinality(Telling(box, "RELEASE")) + 1
    BY <2>1 DEF OneMore
  <2>3. uS \in Nat /\ Cardinality(Telling(box, "RELEASE")) \in Nat
    BY ToldType DEF BInv, User, UserType
  <2> QED
    BY <1>2, <1>8, <2>2, <2>3 DEF Answered
<1>14. ~StrongK(d)
  BY <1>1, <1>6 DEF StrongK
<1>15. HasRefs(d) <=> HasRefs(k)
  BY <1>5 DEF HasRefs
<1>16. Has(box[t], "DECREFS") => ~d.n.hw /\ ~WeakK(d)
  BY <1>1, <1>2, <1>6, <1>14, <1>15 DEF Reported, WeakK
<1> QED
  BY <1>1, <1>5, <1>6, <1>10, <1>11, <1>12, <1>13, <1>14, <1>16, TellStep DEF k, d

\* The driver gives the weak reference back.
LEMMA BrDecrefsStep ==
  ASSUME BInv, NEW t \in Threads, BR_DECREFS(t)
  PROVE  BInv'
<1> DEFINE k == Kernel
           d == Kernel'
<1>1. /\ NodeWork(t) /\ ~WeakK(k) /\ k.n.hw /\ ~k.n.hs /\ Tell(t, "DECREFS")
      /\ node' = [node EXCEPT !.hw = FALSE]
  BY KernelIs DEF BR_DECREFS
<1>2. /\ Owner \in alive /\ k.wk # "none"
      /\ Core(k, buf, proxy, alive) /\ k.n \in NodeType /\ k.n.ls \in Nat /\ k.n.lw \in Nat
      /\ Reported(k, box[t]) /\ Answered(k.n, box, uS, uW)
      /\ (k.n.ps => k.n.hs) /\ (k.n.pw => k.n.hw)
  BY <1>1, Reads
<1>3. k.n = node
  BY KernelIs
<1>4. AsksWeak(k.n, node') /\ ~node'.hw /\ node'.pw = k.n.pw /\ node'.lw = k.n.lw
  BY <1>1, <1>2, <1>3, AskWeakNode
<1>5. /\ d \in KernelType /\ d.n = node' /\ d.wk = k.wk /\ d.r = k.r
      /\ buf' = buf /\ proxy' = proxy /\ alive' = alive
  BY <1>1, <1>4, TellKernel DEF AsksWeak
<1> HIDE DEF k, d
<1>6. /\ ~d.n.hw /\ d.n.pw = k.n.pw /\ d.n.lw = k.n.lw /\ d.n.ls = k.n.ls
      /\ d.n.is = k.n.is /\ d.n.live = k.n.live /\ d.n.dead = k.n.dead /\ d.n.hs = k.n.hs /\ d.n.ps = k.n.ps
  BY <1>4, <1>5 DEF AsksWeak
<1>7. ~k.n.pw
  BY <1>1, <1>2, AskedCounts DEF WeakK
<1>8. One(d.n.ps) = One(k.n.ps) /\ One(d.n.pw) = One(k.n.pw) /\ One(d.n.hs) = One(k.n.hs) /\ One(k.n.pw) = 0
      /\ One(k.n.hw) = 1 /\ One(d.n.hw) = 0
  BY <1>1, <1>6, <1>7 DEF One
<1>9. d.n.ls + One(k.n.ps) = k.n.ls + One(d.n.ps) /\ d.n.lw + One(k.n.pw) = k.n.lw + One(d.n.pw)
  BY <1>6, <1>8, Zenon
<1>10. Core(d, buf, proxy, alive)
  BY <1>2, <1>5, <1>6, <1>7, <1>9, CoreAsk
<1>11. ~Has(box[t], "DECREFS")
  BY <1>1, <1>2 DEF Reported
<1>12. "DECREFS" \in Commands
  BY DEF Commands
<1>13. Answered(d.n, box', uS, uW)
  <2>1. OneMore(box, box', "DECREFS")
    BY <1>1, <1>11, <1>12, ToldAll
  <2>2. /\ Telling(box', "INCREFS") = Telling(box, "INCREFS")
        /\ Telling(box', "ACQUIRE") = Telling(box, "ACQUIRE")
        /\ Telling(box', "RELEASE") = Telling(box, "RELEASE")
        /\ Cardinality(Telling(box', "DECREFS")) = Cardinality(Telling(box, "DECREFS")) + 1
    BY <2>1 DEF OneMore
  <2>3. uW \in Nat /\ Cardinality(Telling(box, "DECREFS")) \in Nat
    BY ToldType DEF BInv, User, UserType
  <2> QED
    BY <1>2, <1>8, <2>2, <2>3 DEF Answered
<1>14. HasRefs(d) <=> HasRefs(k)
  BY <1>5 DEF HasRefs
<1>15. ~StrongK(d) /\ ~WeakK(d)
  BY <1>1, <1>6, <1>14 DEF StrongK, WeakK
<1>16. Has(box[t], "RELEASE") => ~d.n.hs /\ ~StrongK(d)
  BY <1>1, <1>6, <1>15
<1> QED
  BY <1>1, <1>5, <1>6, <1>10, <1>11, <1>12, <1>13, <1>15, <1>16, TellStep DEF k, d

\* The item leaves its list.
LEMMA WorkDoneStep ==
  ASSUME BInv, NEW t \in Threads, NodeWorkDone(t)
  PROVE  BInv'
<1> DEFINE k == Kernel
           d == Kernel'
<1>1. /\ NodeWork(t) /\ (WeakK(k) <=> k.n.hw) /\ (StrongK(k) <=> k.n.hs)
      /\ work' = "none" /\ node' = IF WeakK(k) THEN k.n ELSE NoNode
      /\ UNCHANGED <<ref, readVars, buf, alive, busy, stolen, userVars>>
  BY KernelIs DEF NodeWorkDone
<1>2. /\ reading = t /\ Owner \in alive /\ k.wk # "none"
      /\ Core(k, buf, proxy, alive) /\ Reported(k, box[t]) /\ Answered(k.n, box, uS, uW)
  BY <1>1, Reads
<1>3. d = [n |-> IF WeakK(k) THEN k.n ELSE NoNode, wk |-> "none", r |-> k.r]
  BY <1>1, KernelIs DEF Kernel
<1> HIDE DEF k, d
<1>4. /\ Core(d, buf, proxy, alive)
      /\ d.n.hs = k.n.hs /\ d.n.hw = k.n.hw /\ d.n.ps = k.n.ps /\ d.n.pw = k.n.pw
      /\ StrongK(d) <=> d.n.hs
  BY <1>1, <1>2, <1>3, CoreWorkDone
<1>5. /\ box' = box /\ uS' = uS /\ uW' = uW /\ hold' = hold /\ busy' = busy /\ reading' = reading
      /\ wait_for_proc_work' = wait_for_proc_work /\ buf' = buf /\ proxy' = proxy /\ alive' = alive
      /\ stolen' = stolen
  BY <1>1 DEF readVars, userVars
<1>6. Answered(d.n, box, uS, uW)
  <2>1. /\ One(d.n.hs) = One(k.n.hs) /\ One(d.n.hw) = One(k.n.hw)
        /\ One(d.n.ps) = One(k.n.ps) /\ One(d.n.pw) = One(k.n.pw)
    BY <1>4
  <2> QED
    BY <1>2, <2>1 DEF Answered
<1>7. Reported(d, box[t])
  <2>1. HasRefs(d) <=> HasRefs(k)
    BY <1>3 DEF HasRefs
  <2>2. WeakK(d) => WeakK(k)
    <3>1. WeakK(k) => d.n = k.n
      BY <1>3
    <3>2. ~WeakK(k) => d.n.lw = 0 /\ ~HasRefs(k) /\ ~StrongK(k)
      BY <1>3 DEF NoNode, WeakK
    <3> QED
      BY <1>1, <1>4, <2>1, <3>1, <3>2 DEF WeakK
  <2> QED
    BY <1>2, <1>4, <2>2 DEF Reported
<1>8. ~stolen => Guarded(d, box, busy, hold)
  BY <1>2, <1>4 DEF BInv, User, Guarded
<1>9. UserType'
  BY <1>5 DEF BInv, User, UserType
<1> QED
  BY <1>2, <1>4, <1>5, <1>6, <1>7, <1>8, <1>9 DEF BInv, User, d

\* The steps that leave node, work list, refs and buffers alone.
LEMMA OnlyUser ==
  ASSUME BInv, UNCHANGED <<kernVars, buf, alive, proxy>>, User'
  PROVE  BInv'
<1>1. Kernel' = Kernel /\ buf' = buf /\ alive' = alive /\ proxy' = proxy
  BY DEF kernVars, Kernel
<1> QED
  BY <1>1 DEF BInv

\* A read begins with nothing left to execute, ...
LEMMA ReadStartStep ==
  ASSUME BInv, NEW t \in Threads, ReadStart(t)
  PROVE  BInv'
<1>1. /\ Owner \in alive /\ box[t] = <<>> /\ reading' = t /\ wait_for_proc_work' \in BOOLEAN
      /\ UNCHANGED <<kernVars, buf, alive, busy, stolen, userVars>>
  BY DEF ReadStart
<1>2. Kernel' = Kernel /\ box' = box /\ hold' = hold /\ uS' = uS /\ uW' = uW /\ busy' = busy
      /\ alive' = alive /\ stolen' = stolen /\ proxy' = proxy
  BY <1>1 DEF kernVars, userVars, Kernel
<1>3. Reported(Kernel, box[t])
  BY <1>1 DEF Reported, Has
<1>4. User'
  BY <1>1, <1>2, <1>3 DEF BInv, User, UserType
<1> QED
  BY <1>1, <1>4, OnlyUser DEF userVars

\* ... and ends.
LEMMA ReadReturnStep ==
  ASSUME BInv, NEW t \in Threads, ReadReturn(t)
  PROVE  BInv'
<1>1. /\ reading' = Nobody /\ wait_for_proc_work' = FALSE
      /\ UNCHANGED <<kernVars, buf, alive, busy, stolen, userVars>>
  BY DEF ReadReturn
<1>2. Kernel' = Kernel /\ box' = box /\ hold' = hold /\ uS' = uS /\ uW' = uW /\ busy' = busy
      /\ alive' = alive /\ stolen' = stolen /\ proxy' = proxy
  BY <1>1 DEF kernVars, userVars, Kernel
<1>3. UserType'
  BY <1>1, <1>2 DEF BInv, User, UserType
<1>4. User'
  BY <1>1, <1>2, <1>3 DEF BInv, User
<1> QED
  BY <1>1, <1>4, OnlyUser DEF userVars

\* The completion is read after the node's item.
LEMMA CompleteStep ==
  ASSUME BInv, NEW t \in Threads, BR_TRANSACTION_COMPLETE(t)
  PROVE  BInv'
<1>1. /\ work # t /\ busy' = busy \ {t}
      /\ UNCHANGED <<kernVars, readVars, buf, alive, stolen, userVars>>
  BY DEF BR_TRANSACTION_COMPLETE
<1>2. /\ Kernel' = Kernel /\ box' = box /\ hold' = hold /\ uS' = uS /\ uW' = uW
      /\ alive' = alive /\ stolen' = stolen /\ proxy' = proxy /\ reading' = reading
      /\ wait_for_proc_work' = wait_for_proc_work
  BY <1>1 DEF kernVars, readVars, userVars, Kernel
<1>3. Kernel.wk = work
  BY KernelIs
<1>4. ASSUME NEW hd, Guarded(Kernel, box, busy, hd) PROVE Guarded(Kernel, box, busy', hd)
  BY <1>1, <1>3, <1>4 DEF Guarded
<1>5. UserType' /\ busy' \subseteq hold'
  BY <1>1, <1>2 DEF BInv, User, UserType
<1>6. Owner \in alive /\ ~stolen => Guarded(Kernel, box, busy', hold)
  BY <1>4 DEF BInv, User
<1>7. User'
  BY <1>1, <1>2, <1>5, <1>6 DEF BInv, User
<1> QED
  BY <1>1, <1>7, OnlyUser DEF userVars

\* A thread drops its own reference only when it is not sending and has
\* nothing to execute, ...
LEMMA DropHoldStep ==
  ASSUME BInv, NEW t \in Threads, DropHold(t)
  PROVE  BInv'
<1>1. /\ t \notin busy /\ box[t] = <<>> /\ hold' = hold \ {t}
      /\ UNCHANGED <<kernVars, readVars, buf, alive, busy, stolen, box, uS, uW, proxy>>
  BY DEF DropHold
<1>2. Kernel' = Kernel /\ reading' = reading /\ wait_for_proc_work' = wait_for_proc_work
  BY <1>1 DEF kernVars, readVars, Kernel
<1>3. ~Has(box[t], "ACQUIRE")
  BY <1>1 DEF Has
<1>4. ASSUME Guarded(Kernel, box, busy, hold) PROVE Guarded(Kernel, box, busy, hold')
  BY <1>1, <1>3, <1>4 DEF Guarded
<1>5. User'
  BY <1>1, <1>2, <1>4 DEF BInv, User, UserType
<1> QED
  BY <1>1, <1>5, OnlyUser

\* ... and may take one at any time.
LEMMA TakeHoldStep ==
  ASSUME BInv, NEW t \in Threads, TakeHold(t)
  PROVE  BInv'
<1>1. /\ hold' = hold \cup {t}
      /\ UNCHANGED <<kernVars, readVars, buf, alive, busy, stolen, box, uS, uW, proxy>>
  BY DEF TakeHold
<1>2. Kernel' = Kernel /\ reading' = reading /\ wait_for_proc_work' = wait_for_proc_work
  BY <1>1 DEF kernVars, readVars, Kernel
<1>3. ASSUME Guarded(Kernel, box, busy, hold) PROVE Guarded(Kernel, box, busy, hold')
  BY <1>1, <1>3 DEF Guarded
<1>4. User'
  BY <1>1, <1>2, <1>3 DEF BInv, User, UserType
<1> QED
  BY <1>1, <1>4, OnlyUser

-----------------------------------------------------------------------------
(* The owner executes what it has read.                                    *)

\* What executing a command leaves of the commands.
LEMMA ExecutesFacts ==
  ASSUME BInv, NEW t \in Threads, NEW cmd, Executes(t, cmd)
  PROVE  /\ OneMore(box', box, cmd) /\ Has(box[t], cmd)
         /\ box' \in [Threads -> Seq(Commands)]
         /\ \A u \in Threads : Distinct(box'[u])
         /\ \A u \in Threads : \A x : Has(box'[u], x) => Has(box[u], x)
         /\ Owner \in alive /\ Core(Kernel, buf, proxy, alive) /\ Answered(Kernel.n, box, uS, uW)
         /\ \A x : Cardinality(Telling(box, x)) \in Nat /\ Cardinality(Telling(box', x)) \in Nat
         /\ reading' = reading /\ wait_for_proc_work' = wait_for_proc_work /\ reading # t
         /\ buf' = buf /\ alive' = alive /\ busy' = busy /\ stolen' = stolen
         /\ hold' = hold /\ proxy' = proxy
<1>1. /\ Owner \in alive /\ reading # t /\ box[t] # <<>> /\ Head(box[t]) = cmd
      /\ box' = [box EXCEPT ![t] = Tail(@)]
      /\ reading' = reading /\ wait_for_proc_work' = wait_for_proc_work
      /\ buf' = buf /\ alive' = alive /\ busy' = busy /\ stolen' = stolen
      /\ hold' = hold /\ proxy' = proxy
  BY DEF Executes, readVars
<1>2. /\ box \in [Threads -> Seq(Commands)] /\ \A u \in Threads : Distinct(box[u])
      /\ Answered(Kernel.n, box, uS, uW) /\ Core(Kernel, buf, proxy, alive)
  BY <1>1 DEF BInv, User, UserType
<1>3. box[t] \in Seq(Commands)
  BY <1>2
<1>4. /\ \A x : Has(Tail(box[t]), x) <=> Has(box[t], x) /\ x # cmd
      /\ Distinct(Tail(box[t])) /\ Has(box[t], cmd) /\ Tail(box[t]) \in Seq(Commands)
  BY <1>1, <1>2, <1>3, HasTail
<1>5. OneMore([box EXCEPT ![t] = Tail(@)], box, Head(box[t]))
  BY <1>1, <1>2, ToldLess
<1>6. OneMore(box', box, cmd)
  BY <1>1, <1>5
<1>7. box' \in [Threads -> Seq(Commands)] /\ box'[t] = Tail(box[t]) /\ \A u \in Threads \ {t} : box'[u] = box[u]
  BY <1>1, <1>2, <1>4
<1>8. \A u \in Threads : Distinct(box'[u])
  BY <1>2, <1>4, <1>7
<1>9. \A u \in Threads : \A x : Has(box'[u], x) => Has(box[u], x)
  BY <1>4, <1>7
<1>10. \A x : Cardinality(Telling(box, x)) \in Nat /\ Cardinality(Telling(box', x)) \in Nat
  BY ToldType
<1> QED
  BY <1>1, <1>2, <1>4, <1>6, <1>7, <1>8, <1>9, <1>10

\* The owner has taken the strong reference and says so.
LEMMA AcquireDoneStep ==
  ASSUME BInv, NEW t \in Threads, BC_ACQUIRE_DONE(t)
  PROVE  BInv'
<1> DEFINE k == Kernel
           d == binder_dec_node([k EXCEPT !.n.ps = FALSE], TRUE, FALSE)
<1>1. /\ reading = Nobody /\ Executes(t, "ACQUIRE") /\ uS' = uS + 1 /\ uW' = uW
      /\ SetKernel(IF k.n.live /\ k.n.ps THEN d ELSE k)
  BY KernelIs DEF BC_ACQUIRE_DONE
<1>2. /\ OneMore(box', box, "ACQUIRE") /\ Has(box[t], "ACQUIRE")
      /\ box' \in [Threads -> Seq(Commands)]
      /\ \A u \in Threads : Distinct(box'[u])
      /\ \A u \in Threads : \A x : Has(box'[u], x) => Has(box[u], x)
      /\ Owner \in alive /\ Core(k, buf, proxy, alive) /\ Answered(k.n, box, uS, uW)
      /\ \A x : Cardinality(Telling(box, x)) \in Nat /\ Cardinality(Telling(box', x)) \in Nat
      /\ reading' = reading /\ wait_for_proc_work' = wait_for_proc_work
      /\ buf' = buf /\ alive' = alive /\ busy' = busy /\ stolen' = stolen
      /\ hold' = hold /\ proxy' = proxy
  BY <1>1, ExecutesFacts
<1>3. k.n.ps
  <2>1. Cardinality(Telling(box, "ACQUIRE")) > 0
    BY <1>2, ToldType
  <2>2. Cardinality(Telling(box, "ACQUIRE")) = One(k.n.ps)
    BY <1>2 DEF Answered
  <2>3. ~k.n.ps => One(k.n.ps) = 0
    BY DEF One
  <2> QED
    BY <2>1, <2>2, <2>3
<1>4. k.n.live /\ k.n.hs
  BY <1>2, <1>3, AskedCounts
<1>5. /\ Core(d, buf, proxy, alive)
      /\ d.n.hs = k.n.hs /\ d.n.hw = k.n.hw /\ ~d.n.ps /\ d.n.pw = k.n.pw
  BY <1>2, <1>3, CoreAcquireDone
<1> HIDE DEF d
<1>6. Kernel' = d
  <2>1. d \in KernelType
    BY <1>5, CoreFacts
  <2>2. SetKernel(d)
    BY <1>1, <1>3, <1>4
  <2> QED
    BY <2>1, <2>2 DEF SetKernel, Kernel, KernelType
<1> HIDE DEF k
<1>7. uS \in Nat /\ uW \in Nat
  BY DEF BInv, User, UserType
<1>8. Answered(d.n, box', uS', uW')
  <2>1. One(k.n.ps) = 1 /\ One(d.n.ps) = 0 /\ One(d.n.hs) = One(k.n.hs) /\ One(d.n.hw) = One(k.n.hw)
        /\ One(d.n.pw) = One(k.n.pw)
    BY <1>3, <1>5 DEF One
  <2>2. /\ Cardinality(Telling(box, "ACQUIRE")) = Cardinality(Telling(box', "ACQUIRE")) + 1
        /\ Telling(box, "INCREFS") = Telling(box', "INCREFS")
        /\ Telling(box, "RELEASE") = Telling(box', "RELEASE")
        /\ Telling(box, "DECREFS") = Telling(box', "DECREFS")
    BY <1>2 DEF OneMore
  <2>3. /\ Cardinality(Telling(box, "ACQUIRE")) = 1
        /\ Cardinality(Telling(box, "INCREFS")) = One(k.n.pw)
        /\ uS + 1 = One(k.n.hs) + Cardinality(Telling(box, "RELEASE"))
        /\ uW + One(k.n.pw) = One(k.n.hw) + Cardinality(Telling(box, "DECREFS"))
    BY <1>2, <2>1 DEF Answered
  <2>4. Cardinality(Telling(box', "ACQUIRE")) = 0
    BY <1>2, <2>2, <2>3
  <2>5. uS' + 0 = uS + 1
    BY <1>1, <1>7
  <2> QED
    BY <1>1, <2>1, <2>2, <2>3, <2>4, <2>5 DEF Answered
<1>9. ~stolen => Guarded(d, box', busy, hold)
  BY <1>2, <1>4, <1>5 DEF BInv, User, Guarded
<1>10. UserType'
  BY <1>1, <1>2, <1>7 DEF BInv, User, UserType
<1> QED
  BY <1>1, <1>2, <1>5, <1>6, <1>8, <1>9, <1>10 DEF BInv, User

\* The owner has taken the weak reference and says so.
LEMMA IncrefsDoneStep ==
  ASSUME BInv, NEW t \in Threads, BC_INCREFS_DONE(t)
  PROVE  BInv'
<1> DEFINE k == Kernel
           d == binder_dec_node([k EXCEPT !.n.pw = FALSE], FALSE, FALSE)
<1>1. /\ reading = Nobody /\ Executes(t, "INCREFS") /\ uW' = uW + 1 /\ uS' = uS
      /\ SetKernel(IF k.n.live /\ k.n.pw THEN d ELSE k)
  BY KernelIs DEF BC_INCREFS_DONE
<1>2. /\ OneMore(box', box, "INCREFS") /\ Has(box[t], "INCREFS")
      /\ box' \in [Threads -> Seq(Commands)]
      /\ \A u \in Threads : Distinct(box'[u])
      /\ \A u \in Threads : \A x : Has(box'[u], x) => Has(box[u], x)
      /\ Owner \in alive /\ Core(k, buf, proxy, alive) /\ Answered(k.n, box, uS, uW)
      /\ \A x : Cardinality(Telling(box, x)) \in Nat /\ Cardinality(Telling(box', x)) \in Nat
      /\ reading' = reading /\ wait_for_proc_work' = wait_for_proc_work
      /\ buf' = buf /\ alive' = alive /\ busy' = busy /\ stolen' = stolen
      /\ hold' = hold /\ proxy' = proxy
  BY <1>1, ExecutesFacts
<1>3. k.n.pw
  <2>1. Cardinality(Telling(box, "INCREFS")) > 0
    BY <1>2, ToldType
  <2>2. Cardinality(Telling(box, "INCREFS")) = One(k.n.pw)
    BY <1>2 DEF Answered
  <2>3. ~k.n.pw => One(k.n.pw) = 0
    BY DEF One
  <2> QED
    BY <2>1, <2>2, <2>3
<1>4. k.n.live
  BY <1>2, <1>3, AskedCounts
<1>5. /\ Core(d, buf, proxy, alive)
      /\ d.n.hs = k.n.hs /\ d.n.hw = k.n.hw /\ ~d.n.pw /\ d.n.ps = k.n.ps
      /\ StrongK(d) /\ ~d.n.hs => StrongK(k) /\ (d.wk = k.wk \/ k.wk = "none")
  BY <1>2, <1>3, CoreIncrefsDone
<1> HIDE DEF d
<1>6. Kernel' = d
  <2>1. d \in KernelType
    BY <1>5, CoreFacts
  <2>2. SetKernel(d)
    BY <1>1, <1>3, <1>4
  <2> QED
    BY <2>1, <2>2 DEF SetKernel, Kernel, KernelType
<1>7. uS \in Nat /\ uW \in Nat
  BY DEF BInv, User, UserType
<1>8. ~stolen => Guarded(d, box', busy, hold)
  <2>1. ~stolen => Guarded(k, box, busy, hold) /\ busy \subseteq Threads
    BY <1>2 DEF BInv, User, UserType
  <2>2. "none" \notin Threads
    BY BinderAssumption
  <2> QED
    BY <1>2, <1>5, <2>1, <2>2 DEF Guarded
<1> HIDE DEF k
<1>9. Answered(d.n, box', uS', uW')
  <2>1. One(k.n.pw) = 1 /\ One(d.n.pw) = 0 /\ One(d.n.hs) = One(k.n.hs) /\ One(d.n.hw) = One(k.n.hw)
        /\ One(d.n.ps) = One(k.n.ps)
    BY <1>3, <1>5 DEF One
  <2>2. /\ Cardinality(Telling(box, "INCREFS")) = Cardinality(Telling(box', "INCREFS")) + 1
        /\ Telling(box, "ACQUIRE") = Telling(box', "ACQUIRE")
        /\ Telling(box, "RELEASE") = Telling(box', "RELEASE")
        /\ Telling(box, "DECREFS") = Telling(box', "DECREFS")
    BY <1>2 DEF OneMore
  <2>3. /\ Cardinality(Telling(box, "INCREFS")) = 1
        /\ Cardinality(Telling(box, "ACQUIRE")) = One(k.n.ps)
        /\ uW + 1 = One(k.n.hw) + Cardinality(Telling(box, "DECREFS"))
        /\ uS + One(k.n.ps) = One(k.n.hs) + Cardinality(Telling(box, "RELEASE"))
    BY <1>2, <2>1 DEF Answered
  <2>4. Cardinality(Telling(box', "INCREFS")) = 0
    BY <1>2, <2>2, <2>3
  <2>5. uW' + 0 = uW + 1
    BY <1>1, <1>7
  <2> QED
    BY <1>1, <2>1, <2>2, <2>3, <2>4, <2>5 DEF Answered
<1>10. UserType'
  BY <1>1, <1>2, <1>7 DEF BInv, User, UserType
<1> QED
  BY <1>1, <1>2, <1>5, <1>6, <1>8, <1>9, <1>10 DEF BInv, User

\* The owner drops a reference that the driver gave back.
LEMMA DropDriverRefStep ==
  ASSUME BInv, NEW t \in Threads, DropDriverRef(t)
  PROVE  BInv'
<1>0. Kernel.n.ps \in BOOLEAN /\ Kernel.n.pw \in BOOLEAN /\ (Kernel.n.ps => Kernel.n.hs) /\ (Kernel.n.pw => Kernel.n.hw)
  <2>1. Kernel.n \in NodeType
    BY Before, CoreFacts
  <2> QED
    BY <2>1 DEF BInv, Core, KInv, Structure, NodeType
<1>1. /\ One(Kernel.n.ps) \in {0, 1} /\ One(Kernel.n.hs) \in {0, 1} /\ (One(Kernel.n.ps) = 1 => One(Kernel.n.hs) = 1)
      /\ One(Kernel.n.pw) \in {0, 1} /\ One(Kernel.n.hw) \in {0, 1} /\ (One(Kernel.n.pw) = 1 => One(Kernel.n.hw) = 1)
  BY <1>0 DEF One
<1>2. uS \in Nat /\ uW \in Nat
  BY DEF BInv, User, UserType
<1>3. ASSUME NEW cmd, Executes(t, cmd), UNCHANGED kernVars,
             Answered(Kernel.n, box', uS', uW'), uS' \in Nat, uW' \in Nat
      PROVE  BInv'
  <2>1. /\ box' \in [Threads -> Seq(Commands)]
        /\ \A u \in Threads : Distinct(box'[u])
        /\ \A u \in Threads : \A x : Has(box'[u], x) => Has(box[u], x)
        /\ reading' = reading /\ wait_for_proc_work' = wait_for_proc_work
        /\ buf' = buf /\ alive' = alive /\ busy' = busy /\ stolen' = stolen
        /\ hold' = hold /\ proxy' = proxy
    BY <1>3, ExecutesFacts
  <2>2. Kernel' = Kernel
    BY <1>3 DEF kernVars, Kernel
  <2>3. UserType'
    BY <1>3, <2>1 DEF BInv, User, UserType
  <2>4. reading \in Threads /\ Reported(Kernel, box[reading]) => Reported(Kernel, box'[reading])
    BY <2>1 DEF Reported
  <2>5. reading # Nobody => reading \in Threads
    BY DEF BInv, User, UserType
  <2>6. Guarded(Kernel, box, busy, hold) => Guarded(Kernel, box', busy, hold)
    BY <2>1 DEF Guarded
  <2>7. User'
    BY <1>3, <2>1, <2>2, <2>3, <2>4, <2>5, <2>6 DEF BInv, User
  <2> QED
    BY <1>3, <2>1, <2>7, OnlyUser
<1>4. CASE Executes(t, "RELEASE") /\ uS' = uS - 1 /\ UNCHANGED <<kernVars, uW>>
  <2>1. /\ OneMore(box', box, "RELEASE") /\ Answered(Kernel.n, box, uS, uW)
        /\ \A x : Cardinality(Telling(box, x)) \in Nat /\ Cardinality(Telling(box', x)) \in Nat
    BY <1>4, ExecutesFacts
  <2>2. /\ Cardinality(Telling(box, "RELEASE")) = Cardinality(Telling(box', "RELEASE")) + 1
        /\ Telling(box, "INCREFS") = Telling(box', "INCREFS")
        /\ Telling(box, "ACQUIRE") = Telling(box', "ACQUIRE")
        /\ Telling(box, "DECREFS") = Telling(box', "DECREFS")
    BY <2>1 DEF OneMore
  <2>3. uS + One(Kernel.n.ps) = One(Kernel.n.hs) + Cardinality(Telling(box, "RELEASE"))
    BY <2>1 DEF Answered
  <2>4. uS' \in Nat /\ uS' + One(Kernel.n.ps) = One(Kernel.n.hs) + Cardinality(Telling(box', "RELEASE"))
    <3> DEFINE p == One(Kernel.n.ps)
               h == One(Kernel.n.hs)
               T == Cardinality(Telling(box, "RELEASE"))
               S == Cardinality(Telling(box', "RELEASE"))
    <3>1. /\ p \in {0, 1} /\ h \in {0, 1} /\ (p = 1 => h = 1) /\ S \in Nat /\ T = S + 1 /\ uS + p = h + T
      BY <1>1, <2>1, <2>2, <2>3
    <3> HIDE DEF p, h, S, T
    <3>2. uS' \in Nat /\ uS' + p = h + S
      BY <1>2, <1>4, <3>1
    <3> QED
      BY <3>2 DEF p, h, S
  <2>5. Answered(Kernel.n, box', uS', uW')
    BY <1>4, <2>1, <2>2, <2>4 DEF Answered
  <2> QED
    BY <1>2, <1>3, <1>4, <2>4, <2>5
<1>5. CASE Executes(t, "DECREFS") /\ uW' = uW - 1 /\ UNCHANGED <<kernVars, uS>>
  <2>1. /\ OneMore(box', box, "DECREFS") /\ Answered(Kernel.n, box, uS, uW)
        /\ \A x : Cardinality(Telling(box, x)) \in Nat /\ Cardinality(Telling(box', x)) \in Nat
    BY <1>5, ExecutesFacts
  <2>2. /\ Cardinality(Telling(box, "DECREFS")) = Cardinality(Telling(box', "DECREFS")) + 1
        /\ Telling(box, "INCREFS") = Telling(box', "INCREFS")
        /\ Telling(box, "ACQUIRE") = Telling(box', "ACQUIRE")
        /\ Telling(box, "RELEASE") = Telling(box', "RELEASE")
    BY <2>1 DEF OneMore
  <2>3. uW + One(Kernel.n.pw) = One(Kernel.n.hw) + Cardinality(Telling(box, "DECREFS"))
    BY <2>1 DEF Answered
  <2>4. uW' \in Nat /\ uW' + One(Kernel.n.pw) = One(Kernel.n.hw) + Cardinality(Telling(box', "DECREFS"))
    <3> DEFINE p == One(Kernel.n.pw)
               h == One(Kernel.n.hw)
               T == Cardinality(Telling(box, "DECREFS"))
               S == Cardinality(Telling(box', "DECREFS"))
    <3>1. /\ p \in {0, 1} /\ h \in {0, 1} /\ (p = 1 => h = 1) /\ S \in Nat /\ T = S + 1 /\ uW + p = h + T
      BY <1>1, <2>1, <2>2, <2>3
    <3> HIDE DEF p, h, S, T
    <3>2. uW' \in Nat /\ uW' + p = h + S
      BY <1>2, <1>5, <3>1
    <3> QED
      BY <3>2 DEF p, h, S
  <2>5. Answered(Kernel.n, box', uS', uW')
    BY <1>5, <2>1, <2>2, <2>4 DEF Answered
  <2> QED
    BY <1>2, <1>3, <1>5, <2>4, <2>5
<1> QED
  BY <1>4, <1>5 DEF DropDriverRef


-----------------------------------------------------------------------------
\* Before the object is sent there is no node, nothing is counted and nothing
\* is told.
LEMMA InitCore ==
  ASSUME Init
  PROVE  Core(Kernel, buf, proxy, alive)
<1>1. /\ Kernel.n = NoNode /\ Kernel.wk = "none" /\ Kernel.r = [c \in Clients |-> NoRef]
      /\ buf = [b \in Buffers |-> NoBuf] /\ alive = Clients \cup {Owner}
      /\ proxy = [c \in Clients |-> [s |-> FALSE, w |-> FALSE]]
  BY KernelIs DEF Init
<1>2. NoNode \in NodeType /\ NoRef \in RefType /\ NoBuf \in BufType
  BY DEF NoNode, NodeType, NoRef, RefType, NoBuf, BufType
<1>3. Kernel = [n |-> NoNode, wk |-> "none", r |-> [c \in Clients |-> NoRef]]
  BY <1>1, KernelIs DEF Kernel
<1>4. Kernel \in KernelType
  BY <1>2, <1>3 DEF KernelType, WorkType
<1>5. \A c \in Clients : Kernel.r[c] = NoRef /\ ~Kernel.r[c].live /\ Kernel.r[c].s = 0 /\ ~(Kernel.r[c].s > 0)
  BY <1>1 DEF NoRef
<1>6. ~HasRefs(Kernel) /\ StrongRefs(Kernel.r) = {}
  BY <1>5 DEF HasRefs, StrongRefs
<1>7. ~Kernel.n.live /\ ~Kernel.n.dead /\ ~Kernel.n.ps /\ ~Kernel.n.pw
      /\ Kernel.n.is = 0 /\ Kernel.n.ls = 0 /\ Kernel.n.lw = 0
  BY <1>1 DEF NoNode
<1>8. KInv(Kernel)
  <2>1. Structure(Kernel)
    BY <1>1, <1>4, <1>5, <1>6, <1>7 DEF Structure
  <2>2. Pending(Kernel)
    BY <1>7 DEF Pending, Idle
  <2>3. Cardinality(StrongRefs(Kernel.r)) = 0
    BY <1>6, FS_EmptySet
  <2> QED
    BY <1>7, <2>1, <2>2, <2>3 DEF KInv
<1>9. \A b \in Buffers : /\ buf[b] = NoBuf /\ buf[b].to = "none" /\ buf[b].kind = "none"
                         /\ ~buf[b].strong /\ ~buf[b].tnode
  BY <1>1 DEF NoBuf
<1>10. /\ TargetBufs(buf) = {} /\ StrongBufs(buf) = {} /\ WeakBufs(buf) = {}
       /\ \A c \in Clients : HandleBufs(buf, c) = {}
  BY <1>9 DEF TargetBufs, StrongBufs, WeakBufs, HandleBufs, CarriesStrong, CarriesWeak, HoldsHandle
<1>11. Cardinality({}) = 0
  BY FS_EmptySet
<1>12. RefBalance(Kernel, buf, proxy)
  <2>1. \A c \in Clients : ~proxy[c].s
    BY <1>1
  <2>2. \A c \in Clients : One(proxy[c].s) = 0
    BY <2>1 DEF One
  <2>3. \A c \in Clients : Cardinality(HandleBufs(buf, c)) = 0
    BY <1>10, <1>11
  <2> QED
    BY <1>5, <2>2, <2>3 DEF RefBalance
<1>13. LocalBalance(Kernel, buf, alive)
  <2>1. One(Kernel.n.ps) = 0 /\ One(Kernel.n.pw) = 0
    BY <1>7 DEF One
  <2>2. Cardinality(TargetBufs(buf)) = 0 /\ Cardinality(StrongBufs(buf)) = 0 /\ Cardinality(WeakBufs(buf)) = 0
    BY <1>10, <1>11
  <2> QED
    BY <1>7, <2>1, <2>2 DEF LocalBalance
<1>14. buf \in [Buffers -> BufType]
  BY <1>1, <1>2
<1>15. \A b \in Buffers : BufOK(buf[b]) /\ ~(buf[b].to # "none")
  BY <1>9 DEF BufOK
<1> QED
  BY <1>1, <1>7, <1>8, <1>12, <1>13, <1>14, <1>15 DEF Core

\* The initial state satisfies the invariant.
LEMMA InitInvariant ==
  ASSUME Init
  PROVE  BInv
<1>1. Core(Kernel, buf, proxy, alive)
  BY InitCore
<1>2. /\ reading = Nobody /\ wait_for_proc_work = FALSE /\ box = [t \in Threads |-> <<>>]
      /\ busy = {} /\ hold = Threads /\ uS = 0 /\ uW = 0 /\ stolen = FALSE
      /\ proxy = [c \in Clients |-> [s |-> FALSE, w |-> FALSE]]
      /\ Kernel.n = NoNode
  BY KernelIs DEF Init
<1>3. UserType
  <2>1. box \in [Threads -> Seq(Commands)]
    <3>1. <<>> \in Seq(Commands)
      OBVIOUS
    <3> QED
      BY <1>2, <3>1
  <2>2. proxy \in [Clients -> [s : BOOLEAN, w : BOOLEAN]]
    BY <1>2
  <2>3. 0 \in Nat /\ FALSE \in BOOLEAN
    OBVIOUS
  <2> QED
    BY <1>2, <2>1, <2>2, <2>3 DEF UserType
<1>4. \A t \in Threads : box[t] = <<>>
  BY <1>2
<1>5. \A t \in Threads : DOMAIN box[t] = {}
  BY <1>4
<1>6. \A t \in Threads : Distinct(box[t])
  BY <1>5 DEF Distinct
<1>7. \A t \in Threads, cmd \in Commands : ~Has(box[t], cmd)
  BY <1>5 DEF Has
<1>8. \A cmd \in Commands : Telling(box, cmd) = {}
  BY <1>7 DEF Telling
<1>9. \A cmd \in Commands : Cardinality(Telling(box, cmd)) = 0
  BY <1>8, FS_EmptySet
<1>10. ~Kernel.n.ps /\ ~Kernel.n.pw /\ ~Kernel.n.hs /\ ~Kernel.n.hw /\ Kernel.n.is = 0 /\ Kernel.n.ls = 0
  BY <1>2 DEF NoNode
<1>11. Answered(Kernel.n, box, uS, uW)
  <2>1. One(Kernel.n.ps) = 0 /\ One(Kernel.n.pw) = 0 /\ One(Kernel.n.hs) = 0 /\ One(Kernel.n.hw) = 0
    BY <1>10 DEF One
  <2>2. /\ Cardinality(Telling(box, "ACQUIRE")) = 0 /\ Cardinality(Telling(box, "INCREFS")) = 0
        /\ Cardinality(Telling(box, "RELEASE")) = 0 /\ Cardinality(Telling(box, "DECREFS")) = 0
    BY <1>9 DEF Commands
  <2> QED
    BY <1>2, <2>1, <2>2 DEF Answered
<1>12. Guarded(Kernel, box, busy, hold)
  <2>1. ~StrongK(Kernel)
    BY <1>10 DEF StrongK
  <2>2. \A t \in Threads : ~Has(box[t], "ACQUIRE")
    BY <1>7 DEF Commands
  <2> QED
    BY <2>1, <2>2 DEF Guarded
<1>13. busy \subseteq hold
  BY <1>2
<1> QED
  BY <1>1, <1>2, <1>3, <1>6, <1>11, <1>12, <1>13 DEF BInv, User

\* A command of the driver's protocol, or of the owner's threads.
LEMMA ThreadStep ==
  ASSUME BInv, NEW t \in Threads, Thread(t)
  PROVE  BInv'
BY BrIncrefsStep, BrAcquireStep, BrReleaseStep, BrDecrefsStep, WorkDoneStep, ReadStartStep, ReadReturnStep,
   CompleteStep, AcquireDoneStep, IncrefsDoneStep, DropDriverRefStep DEF Thread

\* A transaction.
LEMMA SendStep ==
  ASSUME BInv, Send
  PROVE  BInv'
<1>1. PICK b \in Buffers, strong \in BOOLEAN :
        \/ \E t \in Threads, c \in Clients : SendObject(t, c, strong, b)
        \/ \E c \in Clients, tnode \in BOOLEAN : CallOwner(c, "binder", strong, tnode, b)
        \/ \E c \in Clients : CallOwner(c, "none", FALSE, TRUE, b)
        \/ \E c, d \in Clients : SendHandle(c, d, strong, b)
  BY DEF Send
<1>2. CASE \E t \in Threads, c \in Clients : SendObject(t, c, strong, b)
  BY <1>2, SendObjectStep
<1>3. CASE \E c \in Clients, tnode \in BOOLEAN : CallOwner(c, "binder", strong, tnode, b)
  BY <1>3, CallOwnerStep
<1>4. CASE \E c \in Clients : CallOwner(c, "none", FALSE, TRUE, b)
  <2>1. PICK c \in Clients : CallOwner(c, "none", FALSE, TRUE, b)
    BY <1>4
  <2>2. "none" \in {"binder", "none"} /\ FALSE \in BOOLEAN /\ TRUE \in BOOLEAN
    OBVIOUS
  <2> QED
    BY <2>1, <2>2, CallOwnerStep, Zenon
<1>5. CASE \E c, d \in Clients : SendHandle(c, d, strong, b)
  BY <1>5, SendHandleStep
<1> QED
  BY <1>1, <1>2, <1>3, <1>4, <1>5

\* A step of a client.
LEMMA ClientStep ==
  ASSUME BInv, NEW c \in Clients,
         BC_INCREFS(c) \/ BC_ACQUIRE(c) \/ BC_RELEASE(c) \/ BC_DECREFS(c) \/ ReleaseClient(c)
  PROVE  BInv'
<1>1. FALSE \in BOOLEAN /\ TRUE \in BOOLEAN
  OBVIOUS
<1>2. CASE BC_INCREFS(c) \/ BC_ACQUIRE(c)
  BY <1>1, <1>2, ClientIncStep, Zenon DEF BC_INCREFS, BC_ACQUIRE
<1>3. CASE BC_RELEASE(c) \/ BC_DECREFS(c)
  BY <1>1, <1>3, ClientDecStep, Zenon DEF BC_RELEASE, BC_DECREFS
<1>4. CASE ReleaseClient(c)
  BY <1>4, ReleaseClientStep
<1> QED
  BY <1>2, <1>3, <1>4

\* The invariant holds in every state: it holds initially, and every action
\* preserves it.
LEMMA BinderInvariant ==
  Spec => []BInv
<1>1. Init => BInv
  BY InitInvariant
<1>2. BInv /\ [Next]_vars => BInv'
  <2> SUFFICES ASSUME BInv, [Next]_vars PROVE BInv'
    OBVIOUS
  <2>1. CASE Send
    BY <2>1, SendStep
  <2>2. CASE \E b \in Buffers : BC_FREE_BUFFER(b)
    BY <2>2, FreeBufferStep
  <2>3. CASE \E c \in Clients : \/ BC_INCREFS(c) \/ BC_ACQUIRE(c)
                                \/ BC_RELEASE(c) \/ BC_DECREFS(c)
                                \/ ReleaseClient(c)
    BY <2>3, ClientStep
  <2>4. CASE \E t \in Threads : Thread(t) \/ DropHold(t) \/ TakeHold(t)
    BY <2>4, ThreadStep, DropHoldStep, TakeHoldStep
  <2>5. CASE ReleaseOwner
    BY <2>5, ReleaseOwnerStep
  <2>6. CASE UNCHANGED vars
    <3>1. /\ node' = node /\ work' = work /\ ref' = ref /\ reading' = reading /\ buf' = buf
          /\ wait_for_proc_work' = wait_for_proc_work /\ alive' = alive /\ box' = box /\ busy' = busy
          /\ hold' = hold /\ uS' = uS /\ uW' = uW /\ proxy' = proxy /\ stolen' = stolen
      BY <2>6 DEF vars, kernVars, readVars, userVars
    <3>2. Kernel' = Kernel
      BY <3>1 DEF Kernel
    <3>3. Core(Kernel', buf', proxy', alive')
      BY <3>1, <3>2 DEF BInv
    <3> QED
      BY <3>1, <3>2, <3>3 DEF BInv, User, UserType
  <2> QED
    BY <2>1, <2>2, <2>3, <2>4, <2>5, <2>6 DEF Next
<1> QED
  BY <1>1, <1>2, PTL DEF Spec

-----------------------------------------------------------------------------
(* What the invariant is for.                                              *)

\* Every variable keeps its type, and no count of binder_inc_node,
\* binder_dec_node, binder_inc_ref and binder_dec_ref drops below zero,
\* whatever the order of commands, failed transactions and releases.
THEOREM BinderTypeCorrect == Spec => []TypeOK
<1>1. BInv => TypeOK
  <2> SUFFICES ASSUME BInv PROVE TypeOK
    OBVIOUS
  <2>1. Core(Kernel, buf, proxy, alive) /\ UserType
    BY DEF BInv, User
  <2>2. node \in NodeType /\ work \in WorkType /\ ref \in [Clients -> RefType]
    BY <2>1, CoreFacts, KernelIs
  <2>3. buf \in [Buffers -> BufType] /\ alive \subseteq Clients \cup {Owner}
    BY <2>1 DEF Core
  <2> QED
    BY <2>1, <2>2, <2>3 DEF TypeOK, UserType, NodeType, WorkType, RefType, BufType
<1> QED
  BY <1>1, BinderInvariant, PTL

\* A ref never outlives its node, and internal_strong_refs is the number of
\* refs with a strong count: binder_dec_node frees no node that a ref points
\* to, and binder_delete_ref gives the ref's count back once.
THEOREM RefsAreCounted == Spec => []RefsCounted
<1>1. BInv => RefsCounted
  <2> SUFFICES ASSUME BInv PROVE RefsCounted
    OBVIOUS
  <2>1. Core(Kernel, buf, proxy, alive)
    BY DEF BInv
  <2>2. \A c \in Clients : ref[c].live => node.live
    BY <2>1, CoreFacts, KernelIs
  <2>3. node.is = Cardinality(StrongRefs(ref))
    BY <2>1, KernelIs DEF Core, KInv
  <2> QED
    BY <2>2, <2>3 DEF RefsCounted, StrongRefs
<1> QED
  BY <1>1, BinderInvariant, PTL

\* Whenever the driver's references on the object are not the ones the node
\* calls for, the node's work item is on a list: no path of binder_inc_node,
\* binder_dec_node and binder_thread_read forgets to queue it or takes it off
\* too early.
THEOREM OwnerWillBeTold == Spec => []WorkPending
<1>1. BInv => WorkPending
  <2> SUFFICES ASSUME BInv, node.live, ~node.dead, work = "none"
               PROVE  (Weak <=> node.hw) /\ (Strong <=> node.hs)
    BY DEF WorkPending
  <2>1. Pending(Kernel)
    BY DEF BInv, Core, KInv
  <2>2. Idle(Kernel)
    BY KernelIs DEF Idle
  <2>3. (WeakK(Kernel) <=> Kernel.n.hw) /\ (StrongK(Kernel) <=> Kernel.n.hs)
    BY <2>1, <2>2 DEF Pending
  <2> QED
    BY <2>3, KernelIs
<1> QED
  BY <1>1, BinderInvariant, PTL

\* The number of threads that have still to execute a command.
LEMMA ToldIs ==
  ASSUME NEW cmd
  PROVE  Told(cmd) = Cardinality(Telling(box, cmd))
BY DEF Told, Telling, Has

\* The references that the owner has taken for the driver, and those it was
\* told to take, are has_strong_ref and has_weak_ref and those it was told to
\* drop: however many threads read, BR_ACQUIRE, BR_RELEASE, BR_INCREFS and
\* BR_DECREFS are neither repeated nor lost.
THEOREM DriverRefsAreExact == Spec => []DriverRefsExact
<1>1. BInv => DriverRefsExact
  <2> SUFFICES ASSUME BInv, Owner \in alive
               PROVE  /\ uS + Told("ACQUIRE") = (IF node.hs THEN 1 ELSE 0) + Told("RELEASE")
                      /\ uW + Told("INCREFS") = (IF node.hw THEN 1 ELSE 0) + Told("DECREFS")
    BY DEF DriverRefsExact
  <2>1. Answered(node, box, uS, uW)
    BY KernelIs DEF BInv, User
  <2>2. /\ uS + Told("ACQUIRE") = One(node.hs) + Told("RELEASE")
        /\ uW + Told("INCREFS") = One(node.hw) + Told("DECREFS")
    BY <2>1, ToldIs DEF Answered
  <2> QED
    BY <2>2 DEF One
<1> QED
  BY <1>1, BinderInvariant, PTL

\* Who counts strongly on the object is counted in the node.
LEMMA ReferencedIsCounted ==
  ASSUME BInv, Owner \in alive, StronglyReferenced
  PROVE  StrongK(Kernel)
<1>1. Core(Kernel, buf, proxy, alive) /\ KInv(Kernel)
  BY DEF BInv, Core
<1>2. /\ Kernel.n.is \in Nat /\ Kernel.n.ls \in Nat /\ Kernel.n.ps \in BOOLEAN
  <2>1. Kernel.n \in NodeType
    BY <1>1, CoreFacts
  <2> QED
    BY <2>1 DEF NodeType
<1>3. CASE \E c \in Clients : ref[c].s > 0
  <2>1. StrongRefs(Kernel.r) # {} /\ StrongRefs(Kernel.r) \in SUBSET Clients
    BY <1>3, KernelIs DEF StrongRefs
  <2>2. Cardinality(StrongRefs(Kernel.r)) > 0
    BY <2>1, CountType, BinderAssumption
  <2>3. Kernel.n.is > 0
    BY <1>1, <2>2 DEF KInv
  <2> QED
    BY <2>3 DEF StrongK
<1>4. CASE \E b \in Buffers : /\ buf[b].to = Owner
                              /\ buf[b].tnode \/ (buf[b].kind = "binder" /\ buf[b].strong)
  <2>1. TargetBufs(buf) # {} \/ StrongBufs(buf) # {}
    BY <1>4 DEF TargetBufs, StrongBufs, CarriesStrong
  <2>2. TargetBufs(buf) \in SUBSET Buffers /\ StrongBufs(buf) \in SUBSET Buffers
    BY DEF TargetBufs, StrongBufs
  <2>3. /\ Cardinality(TargetBufs(buf)) \in Nat /\ Cardinality(StrongBufs(buf)) \in Nat
        /\ Cardinality(TargetBufs(buf)) > 0 \/ Cardinality(StrongBufs(buf)) > 0
    BY <2>1, <2>2, CountType, FiniteBuffers
  <2>4. Kernel.n.ls = Cardinality(TargetBufs(buf)) + Cardinality(StrongBufs(buf)) + One(Kernel.n.ps)
    BY <1>1 DEF Core, LocalBalance
  <2>5. One(Kernel.n.ps) \in {0, 1}
    BY DEF One
  <2>6. Kernel.n.ls > 0
    BY <2>3, <2>4, <2>5
  <2> QED
    BY <2>6 DEF StrongK
<1> QED
  BY <1>3, <1>4 DEF StronglyReferenced

\* While a client or a transaction counts on the object, the owner keeps it:
\* the driver's reference on it is taken, or a thread that has been told to
\* take it, or has not yet seen the completion of its send, still has its own.
\* The one exception is the item that a failed send has left on its own list.
THEOREM ObjectStaysAlive == Spec => []ObjectAlive
<1>1. BInv => ObjectAlive
  <2> SUFFICES ASSUME BInv, Owner \in alive, StronglyReferenced, ~stolen
               PROVE  uS > 0 \/ hold # {}
    BY DEF ObjectAlive
  <2>1. StrongK(Kernel)
    BY ReferencedIsCounted
  <2>2. Guarded(Kernel, box, busy, hold) /\ busy \subseteq hold /\ Answered(Kernel.n, box, uS, uW) /\ uS \in Nat
    BY DEF BInv, User, UserType
  <2>3. CASE ~Kernel.n.hs
    BY <2>1, <2>2, <2>3 DEF Guarded
  <2>4. CASE Kernel.n.ps
    <3>1. Cardinality(Telling(box, "ACQUIRE")) = 1
      BY <2>2, <2>4 DEF Answered, One
    <3>2. Telling(box, "ACQUIRE") \in SUBSET Threads
      BY DEF Telling
    <3>3. Telling(box, "ACQUIRE") # {}
      BY <3>1, <3>2, CountType, BinderAssumption
    <3>4. PICK t \in Threads : Has(box[t], "ACQUIRE")
      BY <3>3 DEF Telling
    <3> QED
      BY <2>2, <3>4 DEF Guarded
  <2>5. CASE Kernel.n.hs /\ ~Kernel.n.ps
    <3>1. One(Kernel.n.hs) = 1 /\ One(Kernel.n.ps) = 0
      BY <2>5 DEF One
    <3>2. Telling(box, "RELEASE") \in SUBSET Threads
      BY DEF Telling
    <3>3. Cardinality(Telling(box, "RELEASE")) \in Nat
      BY <3>2, CountType, BinderAssumption
    <3>4. uS = 1 + Cardinality(Telling(box, "RELEASE"))
      BY <2>2, <3>1 DEF Answered
    <3> QED
      BY <3>3, <3>4
  <2> QED
    BY <2>3, <2>4, <2>5
<1> QED
  BY <1>1, BinderInvariant, PTL
=============================================================================
