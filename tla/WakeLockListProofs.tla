------------------------- MODULE WakeLockListProofs -------------------------
(***************************************************************************)
(* Why the order of the lists of kernel/power/wakelock.c lets the scan     *)
(* stop at the first lock without a timeout: such locks come before all    *)
(* locks that have one.  From this the lists and the flags agree, and the  *)
(* scan computes what the operators of WakeLockState say, for every set of *)
(* locks and every bound on timeouts.                                      *)
(***************************************************************************)
EXTENDS WakeLockList, WakeLockStateProofs, Recursion

\* r has the entries of list that are not in S, in the order of list.
IsRest(r, list, S) ==
  /\ r \in Seq(Locks)
  /\ Members(r) = Members(list) \ S
  /\ \A a, b \in DOMAIN r : a < b =>
       \E c, d \in DOMAIN list : c < d /\ r[a] = list[c] /\ r[b] = list[d]

\* r is what the deletion has kept of the first n entries of list.
KeptOf(r, list, S, n) ==
  /\ r \in Seq(Locks)
  /\ \A x : (\E a \in 1 .. Len(r) : r[a] = x) <=> (x \notin S /\ \E j \in 1 .. n : list[j] = x)
  /\ \A a, b \in 1 .. Len(r) : a < b =>
       \E c, d \in 1 .. n : c < d /\ r[a] = list[c] /\ r[b] = list[d]

\* One step of the deletion: the next entry goes or is appended.
LEMMA KeepNext ==
  ASSUME NEW list \in Seq(Locks), NEW S, NEW n \in 0 .. Len(list) - 1, NEW r, KeptOf(r, list, S, n)
  PROVE  KeptOf(IF list[n + 1] \in S THEN r ELSE Append(r, list[n + 1]), list, S, n + 1)
<1>0. n \in Nat /\ n + 1 \in 1 .. Len(list) /\ list[n + 1] \in Locks
      /\ r \in Seq(Locks) /\ Len(r) \in Nat
  BY DEF KeptOf
<1>1. CASE list[n + 1] \in S
  BY <1>0, <1>1 DEF KeptOf
<1>2. CASE list[n + 1] \notin S
  <2> DEFINE q == Append(r, list[n + 1])
  <2>1. /\ q \in Seq(Locks) /\ Len(q) = Len(r) + 1
        /\ \A a \in 1 .. Len(r) : q[a] = r[a]
        /\ q[Len(r) + 1] = list[n + 1]
    BY <1>0
  <2> HIDE DEF q
  <2>2. ASSUME NEW x
        PROVE  (\E a \in 1 .. Len(q) : q[a] = x) <=> (x \notin S /\ \E j \in 1 .. n + 1 : list[j] = x)
    <3>1. (\E a \in 1 .. Len(q) : q[a] = x) <=> (\E a \in 1 .. Len(r) : r[a] = x) \/ list[n + 1] = x
      <4>1. ASSUME NEW a \in 1 .. Len(q), q[a] = x
            PROVE  (\E e \in 1 .. Len(r) : r[e] = x) \/ list[n + 1] = x
        <5>1. a \in 1 .. Len(r) \/ a = Len(r) + 1
          BY <1>0, <2>1
        <5> QED
          BY <5>1, <4>1, <2>1
      <4>2. ASSUME NEW a \in 1 .. Len(r), r[a] = x
            PROVE  \E e \in 1 .. Len(q) : q[e] = x
        <5>1. a \in 1 .. Len(q) /\ q[a] = x
          BY <1>0, <2>1, <4>2
        <5> QED
          BY <5>1
      <4>3. ASSUME list[n + 1] = x
            PROVE  \E e \in 1 .. Len(q) : q[e] = x
        <5>1. Len(r) + 1 \in 1 .. Len(q) /\ q[Len(r) + 1] = x
          BY <1>0, <2>1, <4>3
        <5> QED
          BY <5>1
      <4> QED
        BY <4>1, <4>2, <4>3
    <3>2. (\E j \in 1 .. n + 1 : list[j] = x) <=> (\E j \in 1 .. n : list[j] = x) \/ list[n + 1] = x
      BY <1>0
    <3> QED
      BY <3>1, <3>2, <1>2 DEF KeptOf
  <2>3. ASSUME NEW a \in 1 .. Len(q), NEW b \in 1 .. Len(q), a < b
        PROVE  \E c, d \in 1 .. n + 1 : c < d /\ q[a] = list[c] /\ q[b] = list[d]
    <3>1. CASE b \in 1 .. Len(r)
      <4>1. a \in 1 .. Len(r) /\ q[a] = r[a] /\ q[b] = r[b]
        BY <1>0, <2>1, <2>3, <3>1
      <4>2. PICK c \in 1 .. n, d \in 1 .. n : c < d /\ r[a] = list[c] /\ r[b] = list[d]
        BY <4>1, <3>1, <2>3 DEF KeptOf
      <4>3. c \in 1 .. n + 1 /\ d \in 1 .. n + 1
        BY <1>0
      <4> QED
        BY <4>1, <4>2, <4>3
    <3>2. CASE b = Len(r) + 1
      <4>1. a \in 1 .. Len(r)
        BY <1>0, <2>1, <2>3, <3>2
      <4>2. PICK c \in 1 .. n : list[c] = r[a]
        BY <4>1 DEF KeptOf
      <4>3. c \in 1 .. n + 1 /\ n + 1 \in 1 .. n + 1 /\ c < n + 1
        BY <1>0
      <4> QED
        BY <2>1, <3>2, <4>1, <4>2, <4>3
    <3> QED
      BY <3>1, <3>2, <2>1, <1>0
  <2>4. KeptOf(q, list, S, n + 1)
    BY <2>1, <2>2, <2>3 DEF KeptOf
  <2> QED
    BY <2>4, <1>2 DEF q
<1> QED
  BY <1>1, <1>2

\* list_del removes the locks of S and leaves the others in their order.
LEMMA DeleteRest ==
  ASSUME NEW list \in Seq(Locks), NEW S
  PROVE  IsRest(list_del(list, S), list, S)
<1> DEFINE N == Len(list)
           V == Seq(Locks)
           step == [p \in (1 .. N) \X V |->
                      IF list[p[1]] \in S THEN p[2] ELSE Append(p[2], list[p[1]])]
           Def(f) == f = [i \in 0 .. N |->
                       IF i = 0 THEN <<>>
                       ELSE IF list[i] \in S THEN f[i - 1] ELSE Append(f[i - 1], list[i])]
           kept == CHOOSE f : Def(f)
<1>0. N \in Nat /\ <<>> \in V /\ \A i \in 1 .. N : list[i] \in Locks
  OBVIOUS
<1>1. step \in [(1 .. N) \X V -> V]
  <2> SUFFICES ASSUME NEW i \in 1 .. N, NEW r \in V
               PROVE  (IF list[i] \in S THEN r ELSE Append(r, list[i])) \in V
    OBVIOUS
  <2> QED
    BY <1>0
<1>2. \A i \in 1 .. N, r \in V : step[<<i, r>>] = IF list[i] \in S THEN r ELSE Append(r, list[i])
  OBVIOUS
<1>3. \E f : Def(f)
  <2> HIDE DEF step, V, N
  <2>0. PICK f : IsRecursion(f, N, V, <<>>, step)
    BY <1>0, <1>1, RecursionExists
  <2>1. /\ f \in [0 .. N -> V] /\ f[0] = <<>>
        /\ \A i \in 1 .. N : f[i] = step[<<i, f[i - 1]>>]
    BY <2>0 DEF IsRecursion
  <2>2. ASSUME NEW i \in 1 .. N
        PROVE  f[i] = IF list[i] \in S THEN f[i - 1] ELSE Append(f[i - 1], list[i])
    <3>1. i - 1 \in 0 .. N
      BY <1>0
    <3> QED
      BY <3>1, <2>1, <1>2
  <2>3. \A i \in 0 .. N : f[i] = IF i = 0 THEN <<>>
                       ELSE IF list[i] \in S THEN f[i - 1] ELSE Append(f[i - 1], list[i])
    <3> TAKE i \in 0 .. N
    <3>1. i = 0 \/ (i # 0 /\ i \in 1 .. N)
      BY <1>0
    <3> QED
      BY <3>1, <2>1, <2>2
  <2>4. f = [i \in 0 .. N |-> f[i]]
    BY <2>1
  <2>5. Def(f)
    BY <2>3, <2>4, Zenon
  <2> QED
    BY <2>5, Zenon
<1>4. Def(kept)
  BY <1>3, Zenon
<1>5. list_del(list, S) = kept[N]
  BY DEF list_del
<1> HIDE DEF kept
<1>6. kept[0] = <<>> /\ \A i \in 1 .. N :
        kept[i] = IF list[i] \in S THEN kept[i - 1] ELSE Append(kept[i - 1], list[i])
  <2>1. 0 \in 0 .. N /\ \A i \in 1 .. N : i \in 0 .. N /\ i # 0
    BY <1>0
  <2>2. \A i \in 0 .. N : kept[i] = IF i = 0 THEN <<>>
          ELSE IF list[i] \in S THEN kept[i - 1] ELSE Append(kept[i - 1], list[i])
    BY <1>4, Zenon
  <2> QED
    BY <2>1, <2>2, Zenon
<1> DEFINE P == {n \in 0 .. N : KeptOf(kept[n], list, S, n)}
<1>7. 0 \in P
  <2>1. KeptOf(<<>>, list, S, 0)
    BY DEF KeptOf
  <2> QED
    BY <2>1, <1>6, <1>0
<1>8. ASSUME NEW n \in 0 .. N - 1, n \in P PROVE n + 1 \in P
  <2>1. KeptOf(IF list[n + 1] \in S THEN kept[n] ELSE Append(kept[n], list[n + 1]), list, S, n + 1)
    BY <1>8, KeepNext
  <2>2. n + 1 \in 1 .. N /\ (n + 1) - 1 = n
    BY <1>0
  <2>3. kept[n + 1] = IF list[n + 1] \in S THEN kept[n] ELSE Append(kept[n], list[n + 1])
    BY <2>2, <1>6
  <2> QED
    BY <2>1, <2>2, <2>3
<1>9. N \in P
  <2> HIDE DEF P, N
  <2>1. 0 .. N \subseteq P
    BY <1>0, <1>7, <1>8, Induction
  <2> QED
    BY <2>1, <1>0
<1>10. KeptOf(kept[N], list, S, N)
  BY <1>9
<1> DEFINE r == kept[N]
<1>11. IsRest(r, list, S)
  <2> HIDE DEF r
  <2>1. KeptOf(r, list, S, N)
    BY <1>10 DEF r
  <2>2. DOMAIN list = 1 .. N /\ DOMAIN r = 1 .. Len(r)
    BY <2>1 DEF KeptOf
  <2>3. Members(r) = Members(list) \ S
    BY <2>1, <2>2 DEF KeptOf, Members
  <2>4. ASSUME NEW a \in DOMAIN r, NEW b \in DOMAIN r, a < b
        PROVE  \E c, d \in DOMAIN list : c < d /\ r[a] = list[c] /\ r[b] = list[d]
    <3>1. a \in 1 .. Len(r) /\ b \in 1 .. Len(r)
      BY <2>2
    <3>2. PICK c \in 1 .. N, d \in 1 .. N : c < d /\ r[a] = list[c] /\ r[b] = list[d]
      BY <2>1, <2>4, <3>1 DEF KeptOf
    <3> QED
      BY <2>2, <3>2
  <2>5. r \in Seq(Locks)
    BY <2>1 DEF KeptOf
  <2> QED
    BY <2>3, <2>4, <2>5, Zenon DEF IsRest
<1> QED
  BY <1>5, <1>11
-----------------------------------------------------------------------------
(***************************************************************************)
(* The state of one list: it holds the active locks of its type once each, *)
(* and the ones with a timeout are behind the ones without.                *)
(***************************************************************************)
TimeoutsLast(w, list) ==
  \A i, j \in DOMAIN list : i < j /\ list[i] \in w.auto_expire => list[j] \in w.auto_expire

ListHolds(w, list, type) ==
  /\ list \in Seq(Locks)
  /\ Members(list) = HeldOf(w, type)
  /\ \A i, j \in DOMAIN list : list[i] = list[j] => i = j
  /\ TimeoutsLast(w, list)

\* A list suits every state that holds the same locks of its type with and
\* without a timeout.
LEMMA SameHolds ==
  ASSUME NEW w, NEW v, NEW list, NEW type, ListHolds(w, list, type),
         HeldOf(v, type) = HeldOf(w, type),
         \A l \in HeldOf(w, type) : l \in v.auto_expire <=> l \in w.auto_expire
  PROVE  ListHolds(v, list, type)
<1>1. \A i \in DOMAIN list : list[i] \in v.auto_expire <=> list[i] \in w.auto_expire
  BY DEF ListHolds, Members
<1> QED
  BY <1>1 DEF ListHolds, TimeoutsLast

\* Deactivated locks leave the list, the rest keeps its order.
LEMMA DeleteHolds ==
  ASSUME NEW w, FlagsAgree(w), NEW list, NEW type, ListHolds(w, list, type), NEW S
  PROVE  ListHolds(Deactivate(w, S), list_del(list, S), type)
<1> DEFINE r == list_del(list, S)
           v == Deactivate(w, S)
<1>1. IsRest(r, list, S)
  BY DeleteRest DEF ListHolds
<1>2. v.active = w.active \ S /\ v.auto_expire = w.auto_expire \ S
  BY DEF Deactivate, FlagsAgree, LockState
<1> HIDE DEF r, v
<1>3. Members(r) = HeldOf(v, type) /\ r \in Seq(Locks)
  BY <1>1, <1>2 DEF IsRest, ListHolds, HeldOf
<1>4. \A i \in DOMAIN r : r[i] \in Locks /\ r[i] \notin S
  BY <1>1 DEF IsRest, Members
<1>5. DOMAIN r \subseteq Int
  BY <1>3
<1>6. ASSUME NEW a \in DOMAIN r, NEW b \in DOMAIN r, a < b
      PROVE  r[a] # r[b] /\ (r[a] \in v.auto_expire => r[b] \in v.auto_expire)
  <2>1. PICK c \in DOMAIN list, d \in DOMAIN list : c < d /\ r[a] = list[c] /\ r[b] = list[d]
    BY <1>1, <1>6 DEF IsRest
  <2>2. c # d
    <3>1. c \in Int /\ d \in Int
      BY DEF ListHolds
    <3> QED
      BY <2>1, <3>1
  <2>3. list[c] # list[d]
    BY <2>1, <2>2 DEF ListHolds
  <2>4. list[c] \in w.auto_expire => list[d] \in w.auto_expire
    BY <2>1 DEF ListHolds, TimeoutsLast
  <2> QED
    BY <1>2, <1>4, <2>1, <2>3, <2>4
<1>7. \A a, b \in DOMAIN r : r[a] = r[b] => a = b
  <2> SUFFICES ASSUME NEW a \in DOMAIN r, NEW b \in DOMAIN r, r[a] = r[b], a # b PROVE FALSE
    OBVIOUS
  <2>1. a < b \/ b < a
    BY <1>5
  <2> QED
    BY <2>1, <1>6
<1>8. TimeoutsLast(v, r)
  BY <1>6 DEF TimeoutsLast
<1>9. ListHolds(v, r, type)
  BY <1>3, <1>7, <1>8 DEF ListHolds
<1> QED
  BY <1>9 DEF r, v

\* The list of a type that loses no lock stays as it is.
LEMMA OtherHolds ==
  ASSUME NEW w, FlagsAgree(w), NEW list, NEW type, ListHolds(w, list, type), NEW S,
         \A l \in S : LockType[l] # type
  PROVE  ListHolds(Deactivate(w, S), list, type)
<1> DEFINE v == Deactivate(w, S)
<1>1. v.active = w.active \ S /\ v.auto_expire = w.auto_expire \ S
  BY DEF Deactivate, FlagsAgree, LockState
<1> HIDE DEF v
<1>2. HeldOf(v, type) = HeldOf(w, type)
  BY <1>1 DEF HeldOf
<1>3. \A l \in HeldOf(w, type) : l \in v.auto_expire <=> l \in w.auto_expire
  BY <1>1 DEF HeldOf
<1>4. ListHolds(v, list, type)
  BY <1>2, <1>3, SameHolds
<1> QED
  BY <1>4 DEF v

\* The scan of a list that holds the locks of its type expires the locks that
\* the specification of has_wake_lock_locked names.
LEMMA ScanExpires ==
  ASSUME NEW w, FlagsAgree(w), NEW list, NEW type, ListHolds(w, list, type)
  PROVE  /\ Visited(w, list) = IF AllAutoExpire(w, type) THEN HeldOf(w, type) ELSE {}
         /\ Expired(w, list) = IF AllAutoExpire(w, type)
                               THEN {l \in HeldOf(w, type) : get_expired_time(w, l)} ELSE {}
<1>0. list \in Seq(Locks) /\ DOMAIN list = 1 .. Len(list) /\ Len(list) \in Nat
  BY DEF ListHolds
<1>1. CASE AllAutoExpire(w, type)
  <2>1. \A i \in DOMAIN list : list[i] \in w.auto_expire
    BY <1>1 DEF ListHolds, Members, AllAutoExpire
  <2>2. \A i \in DOMAIN list : \A j \in 1 .. i : j \in DOMAIN list
    BY <1>0
  <2>3. Visited(w, list) = Members(list)
    BY <2>1, <2>2 DEF Visited, Members
  <2> QED
    BY <1>1, <2>3 DEF ListHolds, Expired
<1>2. CASE ~AllAutoExpire(w, type)
  <2>1. PICK k \in DOMAIN list : list[k] \notin w.auto_expire
    BY <1>2 DEF ListHolds, Members, AllAutoExpire
  <2>2. 1 \in DOMAIN list
    BY <1>0
  <2>3. list[1] \notin w.auto_expire
    <3>1. k = 1 \/ 1 < k
      BY <1>0
    <3> QED
      BY <2>1, <2>2, <3>1 DEF ListHolds, TimeoutsLast
  <2>4. \A i \in DOMAIN list : 1 \in 1 .. i
    BY <1>0
  <2>5. Visited(w, list) = {}
    BY <2>3, <2>4 DEF Visited
  <2> QED
    BY <1>2, <2>5 DEF Expired
<1> QED
  BY <1>1, <1>2

\* So the flags after the scan are those of has_wake_lock_locked.
LEMMA ScanFlagsEqual ==
  ASSUME NEW w, FlagsAgree(w), NEW list, NEW type, ListHolds(w, list, type)
  PROVE  ScanFlags(w, list) = has_wake_lock_locked(w, type)
BY ScanExpires DEF ScanFlags, has_wake_lock_locked

\* And the value the scan returns is the one documented.
LEMMA ScanValue ==
  ASSUME NEW w, FlagsAgree(w), NEW list, NEW type, ListHolds(w, list, type)
  PROVE  ScanReturns(max_timeout(w, list), w, type)
<1> DEFINE H == HeldOf(w, type)
           Longest(t) == /\ \A l \in H : w.left[l] <= t
                         /\ t = 0 \/ \E l \in H : w.left[l] = t
<1>1. CASE ~AllAutoExpire(w, type)
  <2>1. Visited(w, list) = {} /\ H # {} /\ Members(list) = H
    BY <1>1, ScanExpires DEF AllAutoExpire, ListHolds
  <2>2. max_timeout(w, list) = -1
    BY <2>1 DEF max_timeout
  <2> QED
    BY <1>1, <2>2 DEF ScanReturns
<1>2. CASE AllAutoExpire(w, type)
  <2>1. Visited(w, list) = Members(list) /\ Members(list) = H
    BY <1>2, ScanExpires DEF ListHolds
  <2>2. max_timeout(w, list) = CHOOSE t \in 0 .. MaxTimeout : Longest(t)
    BY <2>1 DEF max_timeout
  <2>3. \E t \in 0 .. MaxTimeout : Longest(t)
    <3> DEFINE T == {t \in 0 .. MaxTimeout : \A l \in H : w.left[l] <= t}
    <3>0. \A l \in H : w.left[l] \in 0 .. MaxTimeout
      BY DEF FlagsAgree, LockState, HeldOf
    <3>1. MaxTimeout \in T /\ T \in SUBSET Nat
      BY <3>0, TimeAssumption
    <3>2. PICK t \in T : \A m \in T : t <= m
      <4> HIDE DEF T
      <4> QED
        BY <3>1, LeastNat
    <3>3. ASSUME t # 0, \A l \in H : w.left[l] # t PROVE FALSE
      <4>1. \A l \in H : w.left[l] <= t - 1
        BY <3>0, <3>2, <3>3, TimeAssumption
      <4>2. t - 1 \in T
        BY <4>1, <3>2, <3>3, TimeAssumption
      <4> QED
        BY <4>2, <3>2, TimeAssumption
    <3>4. Longest(t)
      BY <3>2, <3>3
    <3> QED
      BY <3>2, <3>4
  <2> HIDE DEF Longest
  <2>4. max_timeout(w, list) \in 0 .. MaxTimeout /\ Longest(max_timeout(w, list))
    BY <2>2, <2>3, Zenon
  <2> QED
    BY <1>2, <2>4 DEF ScanReturns, Longest
<1> QED
  BY <1>1, <1>2

\* Taking a lock, with or without a timeout, moves it to the end of the list
\* where it belongs.
LEMMA TakeHolds ==
  ASSUME NEW w, FlagsAgree(w), NEW l \in w.initialized, NEW list,
         ListHolds(w, list, LockType[l]), NEW has_timeout \in BOOLEAN, NEW timeout
  PROVE  ListHolds(TakeLock(w, l, has_timeout, timeout),
                   AddToList(list_del(list, {l}), l, has_timeout), LockType[l])
<1> DEFINE v == Deactivate(w, {l})
           r == list_del(list, {l})
           t == TakeLock(w, l, has_timeout, timeout)
           q == AddToList(r, l, has_timeout)
           type == LockType[l]
<1>1. ListHolds(v, r, type)
  BY DeleteHolds
<1>2. v.active = w.active \ {l} /\ v.auto_expire = w.auto_expire \ {l}
  BY DEF Deactivate, FlagsAgree, LockState
<1>3. t.active = w.active \cup {l} /\
      t.auto_expire = IF has_timeout THEN w.auto_expire \cup {l} ELSE w.auto_expire \ {l}
  BY DEF TakeLock, FlagsAgree, LockState
<1>4. q = IF has_timeout THEN Append(r, l) ELSE <<l>> \o r
  BY DEF AddToList
<1> SUFFICES ListHolds(t, q, type)
  OBVIOUS
<1>5. l \in Locks
  BY DEF FlagsAgree, LockState
<1> HIDE DEF v, r, t, q, type
<1>6. r \in Seq(Locks) /\ DOMAIN r = 1 .. Len(r) /\ Len(r) \in Nat
  BY <1>1 DEF ListHolds
<1>7. \A i \in 1 .. Len(r) : r[i] # l
  BY <1>1, <1>2, <1>6, SMTT(30) DEF ListHolds, Members, HeldOf
<1>8. HeldOf(t, type) = HeldOf(v, type) \cup {l}
  BY <1>2, <1>3 DEF HeldOf, type
<1>9. \A i \in 1 .. Len(r) : r[i] \in t.auto_expire <=> r[i] \in v.auto_expire
  BY <1>2, <1>3, <1>7
<1>10. CASE has_timeout
  <2>1. /\ q \in Seq(Locks) /\ Len(q) = Len(r) + 1 /\ DOMAIN q = 1 .. Len(r) + 1
        /\ \A i \in 1 .. Len(r) : q[i] = r[i]
        /\ q[Len(r) + 1] = l
    BY <1>4, <1>5, <1>6, <1>10
  <2>2. Members(q) = Members(r) \cup {l}
    <3>1. 1 .. Len(r) + 1 = (1 .. Len(r)) \cup {Len(r) + 1}
      BY <1>6
    <3> QED
      BY <1>6, <2>1, <3>1 DEF Members
  <2>3. \A i, j \in DOMAIN q : q[i] = q[j] => i = j
    <3> SUFFICES ASSUME NEW i \in DOMAIN q, NEW j \in DOMAIN q, q[i] = q[j] PROVE i = j
      OBVIOUS
    <3>1. (i \in 1 .. Len(r) \/ i = Len(r) + 1) /\ (j \in 1 .. Len(r) \/ j = Len(r) + 1)
      BY <1>6, <2>1
    <3> QED
      BY <1>1, <1>6, <1>7, <2>1, <3>1 DEF ListHolds
  <2>4. TimeoutsLast(t, q)
    <3> SUFFICES ASSUME NEW i \in DOMAIN q, NEW j \in DOMAIN q, i < j, q[i] \in t.auto_expire
                 PROVE  q[j] \in t.auto_expire
      BY DEF TimeoutsLast
    <3>1. i \in 1 .. Len(r) /\ (j \in 1 .. Len(r) \/ j = Len(r) + 1)
      BY <1>6, <2>1
    <3> QED
      BY <1>1, <1>3, <1>6, <1>9, <1>10, <2>1, <3>1 DEF ListHolds, TimeoutsLast
  <2> QED
    BY <1>1, <1>8, <2>1, <2>2, <2>3, <2>4 DEF ListHolds
<1>11. CASE ~has_timeout
  <2>1. /\ q \in Seq(Locks) /\ Len(q) = Len(r) + 1 /\ DOMAIN q = 1 .. Len(r) + 1
        /\ \A i \in 2 .. Len(r) + 1 : q[i] = r[i - 1]
        /\ q[1] = l
    BY <1>4, <1>5, <1>6, <1>11
  <2>2. Members(q) = Members(r) \cup {l}
    <3>1. \A i \in DOMAIN q : i = 1 \/ (i \in 2 .. Len(r) + 1 /\ i - 1 \in 1 .. Len(r))
      BY <1>6, <2>1
    <3>2. \A i \in 1 .. Len(r) : i + 1 \in 2 .. Len(r) + 1 /\ i + 1 \in DOMAIN q /\ (i + 1) - 1 = i
      BY <1>6, <2>1
    <3>3. 1 \in DOMAIN q
      BY <1>6, <2>1
    <3>4. Members(q) \subseteq Members(r) \cup {l}
      BY <1>6, <2>1, <3>1 DEF Members
    <3>5. Members(r) \subseteq Members(q)
      <4>1. \A i \in 1 .. Len(r) : q[i + 1] = r[i]
        BY <2>1, <3>2
      <4> QED
        BY <1>6, <4>1, <3>2 DEF Members
    <3>6. l \in Members(q)
      BY <2>1, <3>3 DEF Members
    <3> QED
      BY <3>4, <3>5, <3>6
  <2>3. \A i, j \in DOMAIN q : q[i] = q[j] => i = j
    <3> SUFFICES ASSUME NEW i \in DOMAIN q, NEW j \in DOMAIN q, q[i] = q[j] PROVE i = j
      OBVIOUS
    <3>1. /\ i = 1 \/ (i \in 2 .. Len(r) + 1 /\ i - 1 \in 1 .. Len(r))
          /\ j = 1 \/ (j \in 2 .. Len(r) + 1 /\ j - 1 \in 1 .. Len(r))
      BY <1>6, <2>1
    <3>2. (i # 1 => q[i] = r[i - 1]) /\ (j # 1 => q[j] = r[j - 1])
      BY <2>1, <3>1
    <3>3. i # 1 /\ j # 1 => i - 1 = j - 1
      BY <1>1, <1>6, <3>1, <3>2 DEF ListHolds
    <3> QED
      BY <1>6, <1>7, <2>1, <3>1, <3>2, <3>3
  <2>4. TimeoutsLast(t, q)
    <3> SUFFICES ASSUME NEW i \in DOMAIN q, NEW j \in DOMAIN q, i < j, q[i] \in t.auto_expire
                 PROVE  q[j] \in t.auto_expire
      BY DEF TimeoutsLast
    <3>1. i # 1
      BY <1>3, <1>11, <2>1
    <3>2. /\ i \in 2 .. Len(r) + 1 /\ i - 1 \in 1 .. Len(r)
          /\ j \in 2 .. Len(r) + 1 /\ j - 1 \in 1 .. Len(r) /\ i - 1 < j - 1
      BY <1>6, <2>1, <3>1
    <3>3. q[i] = r[i - 1] /\ q[j] = r[j - 1]
      BY <2>1, <3>2
    <3> QED
      BY <1>1, <1>6, <1>9, <3>2, <3>3 DEF ListHolds, TimeoutsLast
  <2> QED
    BY <1>1, <1>8, <2>1, <2>2, <2>3, <2>4 DEF ListHolds
<1> QED
  BY <1>10, <1>11

\* The list of the other type stays as it is.
LEMMA TakeOtherHolds ==
  ASSUME NEW w, FlagsAgree(w), NEW l, NEW list, NEW type, type # LockType[l],
         ListHolds(w, list, type), NEW has_timeout \in BOOLEAN, NEW timeout
  PROVE  ListHolds(TakeLock(w, l, has_timeout, timeout), list, type)
<1> DEFINE v == TakeLock(w, l, has_timeout, timeout)
<1>1. v.active = w.active \cup {l} /\
      v.auto_expire = IF has_timeout THEN w.auto_expire \cup {l} ELSE w.auto_expire \ {l}
  BY DEF TakeLock, FlagsAgree, LockState
<1> HIDE DEF v
<1>2. HeldOf(v, type) = HeldOf(w, type)
  BY <1>1 DEF HeldOf
<1>3. \A k \in HeldOf(w, type) : k \in v.auto_expire <=> k \in w.auto_expire
  BY <1>1 DEF HeldOf
<1>4. ListHolds(v, list, type)
  BY <1>2, <1>3, SameHolds
<1> QED
  BY <1>4 DEF v
-----------------------------------------------------------------------------
(***************************************************************************)
(* The whole state: flags w, the two lists and inactive_locks.             *)
(***************************************************************************)
StoreHolds(w, lists, inactive) ==
  /\ FlagsAgree(w)
  /\ lists \in [Types -> Seq(Locks)]
  /\ \A type \in Types : ListHolds(w, lists[type], type)
  /\ inactive = w.initialized \ w.active

ListInv == StoreHolds(flags, active_wake_locks, inactive_locks)

\* Deactivating active locks of one type and moving them between the lists.
LEMMA MoveHolds ==
  ASSUME NEW w, NEW lists, NEW inactive, StoreHolds(w, lists, inactive),
         NEW type \in Types, NEW S \in SUBSET w.initialized, \A l \in S : LockType[l] = type
  PROVE  StoreHolds(Deactivate(w, S), [lists EXCEPT ![type] = list_del(lists[type], S)],
                    inactive \cup S)
<1> DEFINE v == Deactivate(w, S)
           r == list_del(lists[type], S)
           moved == [lists EXCEPT ![type] = r]
<1>0. FlagsAgree(w) /\ \A k \in Types : ListHolds(w, lists[k], k)
  BY DEF StoreHolds
<1>1. FlagsAgree(v)
  BY <1>0, DeactivateAgrees
<1>2. v.active = w.active \ S /\ v.initialized = w.initialized
  BY <1>0 DEF Deactivate, FlagsAgree, LockState
<1>3. ListHolds(v, r, type)
  BY <1>0, DeleteHolds
<1>4. \A k \in Types \ {type} : ListHolds(v, lists[k], k)
  BY <1>0, OtherHolds
<1> SUFFICES StoreHolds(v, moved, inactive \cup S)
  OBVIOUS
<1> HIDE DEF v, r
<1>5. moved \in [Types -> Seq(Locks)] /\ moved[type] = r /\ \A k \in Types \ {type} : moved[k] = lists[k]
  BY <1>3 DEF StoreHolds, ListHolds
<1>6. inactive \cup S = v.initialized \ v.active
  BY <1>2 DEF StoreHolds
<1> HIDE DEF moved
<1>7. \A k \in Types : ListHolds(v, moved[k], k)
  BY <1>3, <1>4, <1>5
<1> QED
  BY <1>1, <1>5, <1>6, <1>7 DEF StoreHolds

\* A scan of has_wake_lock_locked.
LEMMA ScanStore ==
  ASSUME NEW w, NEW lists, NEW inactive, StoreHolds(w, lists, inactive), NEW type \in Types
  PROVE  StoreHolds(ScanFlags(w, lists[type]),
                    [lists EXCEPT ![type] = list_del(lists[type], Expired(w, lists[type]))],
                    inactive \cup Expired(w, lists[type]))
<1> DEFINE E == Expired(w, lists[type])
<1>1. FlagsAgree(w) /\ ListHolds(w, lists[type], type)
  BY DEF StoreHolds
<1>2. E \subseteq HeldOf(w, type)
  BY <1>1, ScanExpires
<1>3. E \in SUBSET w.initialized /\ \A l \in E : LockType[l] = type
  BY <1>1, <1>2 DEF HeldOf, FlagsAgree
<1> HIDE DEF E
<1>4. StoreHolds(Deactivate(w, E), [lists EXCEPT ![type] = list_del(lists[type], E)], inactive \cup E)
  BY <1>3, MoveHolds
<1> QED
  BY <1>4 DEF E, ScanFlags

\* The first half of wake_lock_internal.
LEMMA TakeStore ==
  ASSUME NEW w, NEW lists, NEW inactive, StoreHolds(w, lists, inactive),
         NEW l \in w.initialized, NEW has_timeout \in BOOLEAN, NEW timeout \in 0 .. MaxTimeout,
         ~has_timeout => timeout = 0
  PROVE  StoreHolds(TakeLock(w, l, has_timeout, timeout),
                    [lists EXCEPT ![LockType[l]] =
                       AddToList(list_del(lists[LockType[l]], {l}), l, has_timeout)],
                    inactive \ {l})
<1> DEFINE type == LockType[l]
           v == TakeLock(w, l, has_timeout, timeout)
           r == AddToList(list_del(lists[type], {l}), l, has_timeout)
           moved == [lists EXCEPT ![type] = r]
<1>0. FlagsAgree(w) /\ (\A k \in Types : ListHolds(w, lists[k], k)) /\ type \in Types
  BY LocksAssumption DEF StoreHolds, Types, FlagsAgree, LockState
<1>1. FlagsAgree(v)
  BY <1>0, TakeAgrees
<1>2. v.active = w.active \cup {l} /\ v.initialized = w.initialized
  BY <1>0 DEF TakeLock, FlagsAgree, LockState
<1>3. ListHolds(v, r, type)
  BY <1>0, TakeHolds
<1>4. \A k \in Types \ {type} : ListHolds(v, lists[k], k)
  BY <1>0, TakeOtherHolds
<1> SUFFICES StoreHolds(v, moved, inactive \ {l})
  OBVIOUS
<1> HIDE DEF v, r, type
<1>5. moved \in [Types -> Seq(Locks)] /\ moved[type] = r /\ \A k \in Types \ {type} : moved[k] = lists[k]
  BY <1>0, <1>3 DEF StoreHolds, ListHolds
<1>6. inactive \ {l} = v.initialized \ v.active
  BY <1>2 DEF StoreHolds
<1> HIDE DEF moved
<1>7. \A k \in Types : ListHolds(v, moved[k], k)
  BY <1>3, <1>4, <1>5
<1> QED
  BY <1>1, <1>5, <1>6, <1>7 DEF StoreHolds

\* The accounting touches neither the lists nor what they depend on.
LEMMA SameStore ==
  ASSUME NEW w, NEW lists, NEW inactive, StoreHolds(w, lists, inactive), NEW v, FlagsAgree(v),
         v.initialized = w.initialized, v.active = w.active, v.auto_expire = w.auto_expire
  PROVE  StoreHolds(v, lists, inactive)
<1>1. ASSUME NEW type \in Types PROVE ListHolds(v, lists[type], type)
  <2>1. HeldOf(v, type) = HeldOf(w, type) /\ ListHolds(w, lists[type], type)
    BY DEF HeldOf, StoreHolds
  <2> QED
    BY <2>1, SameHolds
<1> QED
  BY <1>1 DEF StoreHolds

-----------------------------------------------------------------------------
\* wakelocks_init leaves the main lock on its list and the others inactive.
LEMMA ListInitInv ==
  ListInit => ListInv
<1> SUFFICES ASSUME ListInit PROVE ListInv
  OBVIOUS
<1>1. FlagsAgree(flags)
  BY LocksAssumption, TimeAssumption DEF ListInit, FlagsAgree, LockState, BuiltinLocks
<1>2. /\ flags.active = {main_wake_lock} /\ flags.initialized = BuiltinLocks
      /\ main_wake_lock \in Locks /\ LockType[main_wake_lock] = WAKE_LOCK_SUSPEND
      /\ inactive_locks = BuiltinLocks \ {main_wake_lock}
  BY LocksAssumption DEF ListInit, BuiltinLocks
<1>3. WAKE_LOCK_SUSPEND # WAKE_LOCK_IDLE
  BY DEF WAKE_LOCK_SUSPEND, WAKE_LOCK_IDLE
<1> DEFINE one == <<main_wake_lock>>
           none == <<>>
<1>4. one \in Seq(Locks) /\ DOMAIN one = {1} /\ one[1] = main_wake_lock
  BY <1>2
<1>5. none \in Seq(Locks) /\ DOMAIN none = {}
  OBVIOUS
<1>6. /\ active_wake_locks = [type \in Types |-> IF type = WAKE_LOCK_SUSPEND THEN one ELSE none]
      /\ Types = {WAKE_LOCK_SUSPEND, WAKE_LOCK_IDLE}
  BY DEF ListInit, Types
<1> HIDE DEF one, none
<1>7. ListHolds(flags, one, WAKE_LOCK_SUSPEND)
  BY <1>2, <1>4 DEF ListHolds, Members, HeldOf, TimeoutsLast
<1>8. ListHolds(flags, none, WAKE_LOCK_IDLE)
  BY <1>2, <1>3, <1>5 DEF ListHolds, Members, HeldOf, TimeoutsLast
<1>9. active_wake_locks \in [Types -> Seq(Locks)]
  BY <1>4, <1>5, <1>6
<1>10. \A type \in Types : ListHolds(flags, active_wake_locks[type], type)
  BY <1>3, <1>6, <1>7, <1>8
<1> QED
  BY <1>1, <1>2, <1>9, <1>10 DEF ListInv, StoreHolds

\* wake_lock_init of a lock that is not initialised.
LEMMA InitLockInv ==
  ASSUME ListInv, NEW l \in Locks \ BuiltinLocks, InitLock(l)
  PROVE  ListInv'
<1>0. FlagsAgree(flags) /\ l \notin flags.initialized /\ l \notin flags.active
  BY DEF ListInv, StoreHolds, InitLock, FlagsAgree
<1> DEFINE v == wake_lock_init(flags, l)
<1>1. FlagsAgree(v)
  BY <1>0, InitAgrees
<1>2. /\ v.active = flags.active /\ v.auto_expire = flags.auto_expire
      /\ v.initialized = flags.initialized \cup {l}
  BY <1>0 DEF wake_lock_init, Deactivate, FlagsAgree, LockState
<1>3. flags' = v /\ active_wake_locks' = active_wake_locks /\ inactive_locks' = inactive_locks \cup {l}
  BY DEF InitLock
<1> HIDE DEF v
<1>4. ASSUME NEW type \in Types PROVE ListHolds(v, active_wake_locks[type], type)
  <2>1. HeldOf(v, type) = HeldOf(flags, type) /\ ListHolds(flags, active_wake_locks[type], type)
    BY <1>2 DEF HeldOf, ListInv, StoreHolds
  <2> QED
    BY <2>1, <1>2, SameHolds
<1>5. inactive_locks \cup {l} = v.initialized \ v.active
  BY <1>0, <1>2 DEF ListInv, StoreHolds
<1>6. StoreHolds(v, active_wake_locks, inactive_locks \cup {l})
  BY <1>1, <1>4, <1>5 DEF ListInv, StoreHolds
<1> QED
  BY <1>3, <1>6 DEF ListInv

\* wake_lock_destroy: the lock leaves its list, active or not.
LEMMA DestroyLockInv ==
  ASSUME ListInv, NEW l \in Locks \ BuiltinLocks, DestroyLock(l)
  PROVE  ListInv'
<1> DEFINE type == LockType[l]
           v == Deactivate(flags, {l})
           d == wake_lock_destroy(flags, l)
           moved == [active_wake_locks EXCEPT ![type] = list_del(active_wake_locks[type], {l})]
<1>0. FlagsAgree(flags) /\ l \in flags.initialized /\ type \in Types
      /\ inactive_locks = flags.initialized \ flags.active
  BY LocksAssumption DEF ListInv, StoreHolds, DestroyLock, Types
<1>1. StoreHolds(v, moved, inactive_locks \cup {l})
  BY <1>0, MoveHolds DEF ListInv
<1>2. FlagsAgree(d)
  BY <1>0, DestroyAgrees
<1>3. /\ d.active = v.active /\ d.auto_expire = v.auto_expire /\ d.initialized = flags.initialized \ {l}
      /\ v.active = flags.active \ {l}
  BY <1>0 DEF wake_lock_destroy, Deactivate, FlagsAgree, LockState
<1>4. flags' = d /\ active_wake_locks' = moved /\ inactive_locks' = inactive_locks \ {l}
  BY DEF DestroyLock
<1> HIDE DEF v, d, moved, type
<1>5. ASSUME NEW k \in Types PROVE ListHolds(d, moved[k], k)
  <2>1. HeldOf(d, k) = HeldOf(v, k) /\ ListHolds(v, moved[k], k)
    BY <1>1, <1>3 DEF HeldOf, StoreHolds
  <2> QED
    BY <2>1, <1>3, SameHolds
<1>6. inactive_locks \ {l} = d.initialized \ d.active
  BY <1>0, <1>3
<1>7. StoreHolds(d, moved, inactive_locks \ {l})
  BY <1>1, <1>2, <1>5, <1>6 DEF StoreHolds
<1> QED
  BY <1>4, <1>7 DEF ListInv

\* wake_lock_internal.
LEMMA LockInv ==
  ASSUME ListInv, NEW l \in Locks, NEW has_timeout \in BOOLEAN, NEW timeout \in 0 .. MaxTimeout,
         ~has_timeout => timeout = 0, Lock(l, has_timeout, timeout)
  PROVE  ListInv'
<1> DEFINE type == LockType[l]
           taken == TakeLock(flags, l, has_timeout, timeout)
           charged == AccountLock(taken, l)
           list == AddToList(list_del(active_wake_locks[type], {l}), l, has_timeout)
           lists == [active_wake_locks EXCEPT ![type] = list]
           inactive == inactive_locks \ {l}
           E == Expired(charged, list)
<1>0. l \in flags.initialized /\ type \in Types
  BY LocksAssumption DEF Lock, Types
<1>1. StoreHolds(taken, lists, inactive)
  BY <1>0, TakeStore DEF ListInv
<1>2. StoreHolds(charged, lists, inactive)
  <2> HIDE DEF taken, lists, inactive
  <2>1. FlagsAgree(taken)
    BY <1>1 DEF StoreHolds
  <2>2. /\ FlagsAgree(charged) /\ charged.initialized = taken.initialized
        /\ charged.active = taken.active /\ charged.auto_expire = taken.auto_expire
    BY <2>1, AccountAgrees
  <2> HIDE DEF charged
  <2> QED
    BY <1>1, <2>2, SameStore
<1>3. \/ /\ flags' = ScanFlags(charged, list)
         /\ active_wake_locks' = [active_wake_locks EXCEPT ![type] = list_del(list, E)]
         /\ inactive_locks' = inactive \cup E
      \/ /\ flags' \in {charged, taken}
         /\ active_wake_locks' = lists
         /\ inactive_locks' = inactive
  BY DEF Lock, MoveExpired
<1>4. active_wake_locks \in [Types -> Seq(Locks)]
  BY DEF ListInv, StoreHolds
<1> HIDE DEF taken, charged, list, inactive, E, type
<1>5. lists[type] = list /\ \A x : [lists EXCEPT ![type] = x] = [active_wake_locks EXCEPT ![type] = x]
  BY <1>0, <1>4
<1> HIDE DEF lists
<1>6. StoreHolds(ScanFlags(charged, list), [active_wake_locks EXCEPT ![type] = list_del(list, E)],
                 inactive \cup E)
  BY <1>0, <1>2, <1>5, ScanStore DEF E
<1> QED
  BY <1>1, <1>2, <1>3, <1>6 DEF ListInv

\* wake_unlock.
LEMMA UnlockInv ==
  ASSUME ListInv, NEW l \in Locks, Unlock(l)
  PROVE  ListInv'
<1> DEFINE type == LockType[l]
           freed == Deactivate(flags, {l})
           list == list_del(active_wake_locks[type], {l})
           lists == [active_wake_locks EXCEPT ![type] = list]
           inactive == inactive_locks \cup {l}
           E == Expired(freed, list)
           scanned == ScanFlags(freed, list)
           kept == [active_wake_locks EXCEPT ![type] = list_del(list, E)]
           idle == inactive \cup E
<1>0. l \in flags.initialized /\ type \in Types
  BY LocksAssumption DEF Unlock, Types
<1>1. StoreHolds(freed, lists, inactive)
  BY <1>0, MoveHolds DEF ListInv
<1>2. \/ /\ flags' \in {scanned, update_sleep_wait_stats_locked(scanned, FALSE)}
         /\ active_wake_locks' = kept
         /\ inactive_locks' = idle
      \/ /\ flags' = freed
         /\ active_wake_locks' = lists
         /\ inactive_locks' = inactive
  BY DEF Unlock, MoveExpired
<1>3. active_wake_locks \in [Types -> Seq(Locks)]
  BY DEF ListInv, StoreHolds
<1>4. kept = [active_wake_locks EXCEPT ![type] = list_del(list, E)] /\ idle = inactive \cup E
      /\ scanned = ScanFlags(freed, list)
  OBVIOUS
<1> HIDE DEF freed, list, inactive, E, type, scanned, kept, idle
<1>5. lists[type] = list /\ \A x : [lists EXCEPT ![type] = x] = [active_wake_locks EXCEPT ![type] = x]
  BY <1>0, <1>3
<1> HIDE DEF lists
<1>6. StoreHolds(scanned, kept, idle)
  BY <1>0, <1>1, <1>4, <1>5, ScanStore DEF E
<1>7. StoreHolds(update_sleep_wait_stats_locked(scanned, FALSE), kept, idle)
  <2> DEFINE u == update_sleep_wait_stats_locked(scanned, FALSE)
  <2>1. /\ FlagsAgree(u) /\ u.initialized = scanned.initialized
        /\ u.active = scanned.active /\ u.auto_expire = scanned.auto_expire
    BY <1>6, StatsAgree DEF StoreHolds
  <2> HIDE DEF u
  <2>2. StoreHolds(u, kept, idle)
    BY <1>6, <2>1, SameStore
  <2> QED
    BY <2>2 DEF u
<1> QED
  BY <1>1, <1>2, <1>6, <1>7 DEF ListInv

\* The passing of a jiffy touches no list.
LEMMA JiffyInv ==
  ASSUME ListInv, Jiffy
  PROVE  ListInv'
<1>0. FlagsAgree(flags)
  BY DEF ListInv, StoreHolds
<1>1. /\ FlagsAgree(flags') /\ flags'.initialized = flags.initialized
      /\ flags'.active = flags.active /\ flags'.auto_expire = flags.auto_expire
  BY <1>0, TimeAssumption DEF Jiffy, FlagsAgree, LockState
<1>2. active_wake_locks' = active_wake_locks /\ inactive_locks' = inactive_locks
  BY DEF Jiffy
<1>3. StoreHolds(flags', active_wake_locks, inactive_locks)
  BY <1>1, SameStore DEF ListInv
<1> QED
  BY <1>2, <1>3 DEF ListInv

\* Every operation keeps the lists in order.
LEMMA ListNextInv ==
  ListInv /\ [ListNext]_listVars => ListInv'
<1> SUFFICES ASSUME ListInv, [ListNext]_listVars PROVE ListInv'
  OBVIOUS
<1>1. ASSUME NEW l \in Locks \ BuiltinLocks, InitLock(l) PROVE ListInv'
  BY <1>1, InitLockInv
<1>2. ASSUME NEW l \in Locks \ BuiltinLocks, DestroyLock(l) PROVE ListInv'
  BY <1>2, DestroyLockInv
<1>3. ASSUME NEW l \in Locks, Lock(l, FALSE, 0) PROVE ListInv'
  <2>1. 0 \in 0 .. MaxTimeout
    BY TimeAssumption
  <2> QED
    BY <1>3, <2>1, LockInv
<1>4. ASSUME NEW l \in Locks, Unlock(l) PROVE ListInv'
  BY <1>4, UnlockInv
<1>5. ASSUME NEW l \in Locks, NEW timeout \in 0 .. MaxTimeout, Lock(l, TRUE, timeout)
      PROVE  ListInv'
  BY <1>5, LockInv
<1>6. ASSUME NEW type \in Types, HasWakeLock(type) PROVE ListInv'
  BY <1>6, ScanStore DEF HasWakeLock, MoveExpired, ListInv
<1>7. CASE Jiffy
  BY <1>7, JiffyInv
<1>8. CASE UNCHANGED listVars
  BY <1>8 DEF listVars, ListInv
<1> QED
  BY <1>1, <1>2, <1>3, <1>4, <1>5, <1>6, <1>7, <1>8 DEF ListNext

\* The lists are in order in every reachable state.
LEMMA ListInvariant ==
  ListSpec => []ListInv
<1> QED
  BY ListInitInv, ListNextInv, PTL DEF ListSpec

\* However locks are taken, released, expired and destroyed, every lock is on
\* the list its flags name, once.
THEOREM ListsFollowFlags ==
  ListSpec => []ListsMatchFlags
<1>1. ListInv => ListsMatchFlags
  BY DEF ListInv, StoreHolds, ListHolds, ListsMatchFlags
<1> QED
  BY <1>1, ListInvariant, PTL

\* The scan that stops at the first lock without timeout expires the right
\* locks and returns the right value, in every reachable state.
THEOREM ScanCorrect ==
  ListSpec => []ScanAgrees
<1>1. ListInv => ScanAgrees
  BY ScanFlagsEqual, ScanValue DEF ListInv, StoreHolds, ScanAgrees
<1> QED
  BY <1>1, ListInvariant, PTL
=============================================================================
