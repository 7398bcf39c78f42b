------------------------- MODULE UserWakeLockProofs -------------------------
(***************************************************************************)
(* The tree of user wake locks is sorted, so that every search finds the   *)
(* lock of exactly the name asked for, whatever the names and whatever the *)
(* shape of the tree; and the timeouts are long enough.                    *)
(***************************************************************************)
EXTENDS UserWakeLock, Recursion, SequenceTheorems

-----------------------------------------------------------------------------
(* The order of names.                                                     *)

Name == Seq(Nat \ {0})

\* A character of a C string, which ends with 0.
Char(x, i) == IF i <= Len(x) THEN x[i] ELSE 0

\* a comes before b: they differ first at i, where a has the smaller character.
Before(a, b) ==
  \E i \in Nat \ {0} : /\ \A j \in 1 .. i - 1 : Char(a, j) = Char(b, j)
                       /\ Char(a, i) < Char(b, i)

\* The characters of a name are positive, after its end there are only zeroes.
LEMMA CharType ==
  ASSUME NEW a \in Name, NEW i \in Nat \ {0}
  PROVE  Char(a, i) \in Nat /\ (Char(a, i) = 0 <=> i > Len(a)) /\ Len(a) \in Nat
BY DEF Char, Name

\* Names that have the same characters are the same.
LEMMA SameChars ==
  ASSUME NEW a \in Name, NEW b \in Name, \A i \in Nat \ {0} : Char(a, i) = Char(b, i)
  PROVE  a = b
<1>1. Len(a) \in Nat /\ Len(b) \in Nat
  BY DEF Name
<1>2. Len(a) = Len(b)
  <2>1. CASE Len(a) < Len(b)
    <3>1. Len(b) \in Nat \ {0} /\ Len(b) > Len(a)
      BY <1>1, <2>1
    <3>2. Char(a, Len(b)) = 0 /\ Char(b, Len(b)) # 0
      BY <1>1, <3>1, CharType
    <3> QED
      BY <3>1, <3>2
  <2>2. CASE Len(b) < Len(a)
    <3>1. Len(a) \in Nat \ {0} /\ Len(a) > Len(b)
      BY <1>1, <2>2
    <3>2. Char(b, Len(a)) = 0 /\ Char(a, Len(a)) # 0
      BY <1>1, <3>1, CharType
    <3> QED
      BY <3>1, <3>2
  <2> QED
    BY <1>1, <2>1, <2>2
<1>3. \A i \in 1 .. Len(a) : a[i] = b[i]
  <2> TAKE i \in 1 .. Len(a)
  <2>1. i \in Nat \ {0} /\ i <= Len(a) /\ i <= Len(b)
    BY <1>1, <1>2
  <2>2. Char(a, i) = a[i] /\ Char(b, i) = b[i]
    BY <2>1 DEF Char
  <2> QED
    BY <2>1, <2>2
<1> QED
  BY <1>2, <1>3, SeqEqual DEF Name

\* The order is transitive, ...
LEMMA BeforeTransitive ==
  ASSUME NEW a \in Name, NEW b \in Name, NEW c \in Name, Before(a, b), Before(b, c)
  PROVE  Before(a, c)
<1>1. PICK i \in Nat \ {0} : (\A j \in 1 .. i - 1 : Char(a, j) = Char(b, j)) /\ Char(a, i) < Char(b, i)
  BY DEF Before
<1>2. PICK k \in Nat \ {0} : (\A j \in 1 .. k - 1 : Char(b, j) = Char(c, j)) /\ Char(b, k) < Char(c, k)
  BY DEF Before
<1>3. /\ Char(a, i) \in Nat /\ Char(b, i) \in Nat /\ Char(c, i) \in Nat
      /\ Char(a, k) \in Nat /\ Char(b, k) \in Nat /\ Char(c, k) \in Nat
  BY CharType
<1>4. CASE i <= k
  <2>1. \A j \in 1 .. i - 1 : Char(a, j) = Char(c, j)
    BY <1>1, <1>2, <1>4
  <2>2. Char(a, i) < Char(c, i)
    <3>1. CASE i = k
      BY <1>1, <1>2, <1>3, <3>1
    <3>2. CASE i < k
      <4>1. i \in 1 .. k - 1
        BY <3>2
      <4> QED
        BY <1>1, <1>2, <4>1
    <3> QED
      BY <1>4, <3>1, <3>2
  <2> QED
    BY <2>1, <2>2 DEF Before
<1>5. CASE k < i
  <2>1. k \in 1 .. i - 1 /\ \A j \in 1 .. k - 1 : Char(a, j) = Char(c, j)
    BY <1>1, <1>2, <1>5
  <2>2. Char(a, k) < Char(c, k)
    BY <1>1, <1>2, <2>1
  <2> QED
    BY <2>1, <2>2 DEF Before
<1> QED
  BY <1>4, <1>5

\* ... and no name comes before itself.
LEMMA BeforeIrreflexive ==
  ASSUME NEW a \in Name
  PROVE  ~Before(a, a)
BY CharType DEF Before

-----------------------------------------------------------------------------
(* The comparison of lookup_wake_lock_name decides the order.              *)

\* The places at which the first n characters of two names differ.
Differ(buf, name, n) == {i \in 1 .. n : Char(buf, i) # Char(name, i)}

\* strncmp looks at the first of them.
LEMMA StrncmpIs ==
  ASSUME NEW a \in Name, NEW b \in Name
  PROVE  \/ /\ strncmp(a, b, Len(a)) = 0
            /\ \A i \in 1 .. Len(a) : Char(a, i) = Char(b, i)
         \/ \E i \in 1 .. Len(a) :
              /\ \A j \in 1 .. i - 1 : Char(a, j) = Char(b, j)
              /\ Char(a, i) # Char(b, i)
              /\ strncmp(a, b, Len(a)) = IF Char(a, i) < Char(b, i) THEN -1 ELSE 1
<1> DEFINE n == Len(a)
           char(i) == IF i <= Len(b) THEN b[i] ELSE 0
           differ == {i \in 1 .. n : a[i] # char(i)}
           first == CHOOSE i \in differ : \A j \in differ : i <= j
<1>1. strncmp(a, b, n) = IF differ = {} THEN 0 ELSE IF a[first] < char(first) THEN -1 ELSE 1
  BY DEF strncmp
<1>2. n \in Nat /\ \A i \in 1 .. n : Char(a, i) = a[i] /\ Char(b, i) = char(i)
  BY DEF Char, Name
<1>3. differ \in SUBSET Nat /\ \A i \in 1 .. n : i \in differ <=> Char(a, i) # Char(b, i)
  BY <1>2
<1>4. differ \subseteq 1 .. n
  OBVIOUS
<1> HIDE DEF char, differ, n
<1>5. CASE differ = {}
  <2>1. strncmp(a, b, n) = 0
    BY <1>1, <1>5
  <2> QED
    BY <1>3, <1>5, <2>1 DEF n
<1>6. CASE differ # {}
  <2>1. \E i \in differ : \A j \in differ : i <= j
    BY <1>3, <1>6, LeastNat
  <2>2. first \in differ /\ \A j \in differ : first <= j
    BY <2>1
  <2> HIDE DEF first
  <2>3. first \in 1 .. n /\ Char(a, first) # Char(b, first)
    BY <1>3, <1>4, <2>2
  <2>4. \A j \in 1 .. first - 1 : Char(a, j) = Char(b, j)
    <3> TAKE j \in 1 .. first - 1
    <3>1. j \in 1 .. n /\ ~(first <= j)
      BY <1>2, <2>3
    <3> QED
      BY <1>3, <2>2, <3>1
  <2>5. strncmp(a, b, n) = IF Char(a, first) < Char(b, first) THEN -1 ELSE 1
    BY <1>1, <1>2, <1>6, <2>3
  <2> QED
    BY <2>3, <2>4, <2>5 DEF n
<1> QED
  BY <1>5, <1>6

\* The comparison tells before, after and the same apart.
LEMMA CompareDecides ==
  ASSUME NEW a \in Name, NEW b \in Name
  PROVE  \/ Compare(a, b) = -1 /\ Before(a, b)
         \/ Compare(a, b) = 1 /\ Before(b, a)
         \/ Compare(a, b) = 0 /\ a = b
<1> DEFINE diff == strncmp(a, b, Len(a))
<1>1. Compare(a, b) = IF diff = 0 /\ Len(b) > Len(a) THEN -1 ELSE diff
  BY DEF Compare
<1>2. Len(a) \in Nat /\ Len(b) \in Nat
  BY DEF Name
<1>3. ASSUME NEW i \in 1 .. Len(a), \A j \in 1 .. i - 1 : Char(a, j) = Char(b, j),
             Char(a, i) # Char(b, i), diff = IF Char(a, i) < Char(b, i) THEN -1 ELSE 1
      PROVE  \/ Compare(a, b) = -1 /\ Before(a, b)
             \/ Compare(a, b) = 1 /\ Before(b, a)
  <2>1. i \in Nat \ {0}
    BY <1>2
  <2>2. Char(a, i) \in Nat /\ Char(b, i) \in Nat
    BY <2>1, CharType
  <2>3. CASE Char(a, i) < Char(b, i)
    <3>1. diff = -1
      BY <1>3, <2>3
    <3>2. Before(a, b)
      BY <1>3, <2>1, <2>3 DEF Before
    <3> HIDE DEF diff
    <3> QED
      BY <1>1, <3>1, <3>2
  <2>4. CASE Char(b, i) < Char(a, i)
    <3>1. diff = 1
      BY <1>3, <2>2, <2>4
    <3>2. Before(b, a)
      BY <1>3, <2>1, <2>4 DEF Before
    <3> HIDE DEF diff
    <3> QED
      BY <1>1, <3>1, <3>2
  <2> QED
    BY <1>3, <2>2, <2>3, <2>4
<1>4. ASSUME diff = 0, \A i \in 1 .. Len(a) : Char(a, i) = Char(b, i)
      PROVE  \/ Compare(a, b) = -1 /\ Before(a, b)
             \/ Compare(a, b) = 0 /\ a = b
  <2>1. Len(a) <= Len(b)
    <3>1. CASE Len(a) = 0
      BY <1>2, <3>1
    <3>2. CASE Len(a) # 0
      <4>1. Len(a) \in Nat \ {0} /\ Len(a) \in 1 .. Len(a)
        BY <1>2, <3>2
      <4>2. Char(a, Len(a)) # 0 /\ Char(a, Len(a)) = Char(b, Len(a))
        BY <1>2, <1>4, <4>1, CharType
      <4> QED
        BY <1>2, <4>1, <4>2, CharType
    <3> QED
      BY <3>1, <3>2
  <2>2. CASE Len(b) > Len(a)
    <3> DEFINE i == Len(a) + 1
    <3>1. i \in Nat \ {0} /\ i > Len(a) /\ i <= Len(b) /\ i - 1 = Len(a)
      BY <1>2, <2>2
    <3> HIDE DEF i
    <3>2. Char(a, i) = 0 /\ Char(b, i) \in Nat /\ Char(b, i) # 0
      BY <1>2, <3>1, CharType
    <3>3. Before(a, b)
      <4>1. Char(a, i) < Char(b, i)
        BY <3>2
      <4> QED
        BY <1>4, <3>1, <4>1 DEF Before
    <3> QED
      BY <1>1, <1>4, <2>2, <3>3
  <2>3. CASE Len(b) = Len(a)
    <3>1. \A i \in Nat \ {0} : Char(a, i) = Char(b, i)
      <4> TAKE i \in Nat \ {0}
      <4>1. CASE i <= Len(a)
        BY <1>2, <1>4, <4>1
      <4>2. CASE i > Len(a)
        BY <2>3, <4>2, CharType
      <4> QED
        BY <1>2, <4>1, <4>2
    <3>2. a = b
      BY <3>1, SameChars
    <3>3. Compare(a, b) = 0
      BY <1>1, <1>2, <1>4, <2>3
    <3> QED
      BY <3>2, <3>3
  <2> QED
    BY <1>2, <2>1, <2>2, <2>3
<1> HIDE DEF diff
<1> QED
  BY <1>3, <1>4, StrncmpIs DEF diff

-----------------------------------------------------------------------------
(* The search in a sorted tree.                                            *)

Sorted(t) == \A i, j \in DOMAIN t : i < j => Before(t[i], t[j])

\* The parts of a tree of n nodes, from p[1] to p[2], and the places where a
\* search may end.
Parts(n) == (1 .. n + 1) \X (0 .. n)
Places(n) == [found : BOOLEAN, at : Int]

\* One round of the loop of lookup_wake_lock_name in part p, for what the rest
\* of the loop (f) returns.
Round(t, buf, f, p) ==
  IF p[1] > p[2] THEN {[found |-> FALSE, at |-> p[1]]}
  ELSE UNION {LET diff == Compare(buf, t[i])
              IN  IF diff < 0 THEN f[<<p[1], i - 1>>]
                  ELSE IF diff > 0 THEN f[<<i + 1, p[2]>>]
                  ELSE {[found |-> TRUE, at |-> i]} : i \in p[1] .. p[2]}

\* What f says is what the loop does.
Loops(t, buf, f) == f = [p \in Parts(Len(t)) |-> Round(t, buf, f, p)]

\* A place is right: it has the name looked for, or is where the name belongs.
Right(t, buf, place) ==
  IF place.found THEN place.at \in DOMAIN t /\ t[place.at] = buf
  ELSE /\ place.at \in 1 .. Len(t) + 1
       /\ \A i \in DOMAIN t : IF i < place.at THEN Before(t[i], buf) ELSE Before(buf, t[i])

\* The loop ends in a part of the tree and is determined by smaller parts.
LEMMA RoundType ==
  ASSUME NEW t \in Seq(Name), NEW buf \in Name, NEW f \in [Parts(Len(t)) -> SUBSET Places(Len(t))],
         NEW p \in Parts(Len(t))
  PROVE  Round(t, buf, f, p) \in SUBSET Places(Len(t))
<1> DEFINE n == Len(t)
<1>1. n \in Nat /\ p[1] \in 1 .. n + 1 /\ p[2] \in 0 .. n
  BY DEF Parts
<1> HIDE DEF n
<1>2. CASE p[1] > p[2]
  <2>1. [found |-> FALSE, at |-> p[1]] \in Places(Len(t))
    BY <1>1 DEF Places
  <2> QED
    BY <1>2, <2>1 DEF Round
<1>3. CASE ~(p[1] > p[2])
  <2> DEFINE W(i) == LET diff == Compare(buf, t[i])
                     IN  IF diff < 0 THEN f[<<p[1], i - 1>>]
                         ELSE IF diff > 0 THEN f[<<i + 1, p[2]>>]
                         ELSE {[found |-> TRUE, at |-> i]}
  <2>1. ASSUME NEW i \in p[1] .. p[2] PROVE W(i) \in SUBSET Places(Len(t))
    <3>1. <<p[1], i - 1>> \in Parts(Len(t)) /\ <<i + 1, p[2]>> \in Parts(Len(t)) /\ i \in Int
      BY <1>1 DEF Parts, n
    <3>2. /\ f[<<p[1], i - 1>>] \in SUBSET Places(Len(t)) /\ f[<<i + 1, p[2]>>] \in SUBSET Places(Len(t))
          /\ [found |-> TRUE, at |-> i] \in Places(Len(t))
      BY <3>1 DEF Places
    <3> QED
      BY <3>2
  <2>2. Round(t, buf, f, p) = UNION {W(i) : i \in p[1] .. p[2]}
    BY <1>3 DEF Round
  <2> HIDE DEF W
  <2> QED
    BY <2>1, <2>2
<1> QED
  BY <1>2, <1>3

\* The loop is well defined: every round leaves a smaller part of the tree.
LEMMA LoopExists ==
  ASSUME NEW t \in Seq(Name), NEW buf \in Name
  PROVE  \E f : Loops(t, buf, f)
<1> DEFINE n == Len(t)
           S == Parts(Len(t))
           V == SUBSET Places(Len(t))
           N == n + 1
           m == [p \in S |-> IF p[1] > p[2] THEN 0 ELSE p[2] - p[1] + 1]
           F == [f \in [S -> V] |-> [p \in S |-> Round(t, buf, f, p)]]
<1>1. n \in Nat /\ \A p \in S : p[1] \in 1 .. n + 1 /\ p[2] \in 0 .. n
  BY DEF Parts
<1>2. N \in Nat
  BY <1>1
<1>3. m \in [S -> 0 .. N]
  BY <1>1
<1>4. F \in [[S -> V] -> [S -> V]]
  BY RoundType
<1>5. V # {}
  OBVIOUS
<1>6. ASSUME NEW f \in [S -> V], NEW g \in [S -> V], NEW p \in S,
             \A q \in S : m[q] < m[p] => f[q] = g[q]
      PROVE  F[f][p] = F[g][p]
  <2>1. CASE p[1] > p[2]
    BY <2>1 DEF Round
  <2>2. CASE ~(p[1] > p[2])
    <3>1. ASSUME NEW i \in p[1] .. p[2]
          PROVE  f[<<p[1], i - 1>>] = g[<<p[1], i - 1>>] /\ f[<<i + 1, p[2]>>] = g[<<i + 1, p[2]>>]
      <4> DEFINE x == <<p[1], i - 1>>
                 y == <<i + 1, p[2]>>
      <4>1. x \in S /\ y \in S /\ x[1] = p[1] /\ x[2] = i - 1 /\ y[1] = i + 1 /\ y[2] = p[2]
        BY <1>1 DEF Parts
      <4>2. m[x] < m[p] /\ m[y] < m[p]
        BY <1>1, <2>2, <4>1, SMTT(30)
      <4> HIDE DEF x, y, m, S, V
      <4>3. f[x] = g[x] /\ f[y] = g[y]
        BY <1>6, <4>1, <4>2
      <4> QED
        BY <4>3 DEF x, y
    <3>2. Round(t, buf, f, p) = Round(t, buf, g, p)
      BY <3>1 DEF Round
    <3> QED
      BY <3>2
  <2> QED
    BY <2>1, <2>2
<1>7. IsContracting(F, S, V, m)
  <2> HIDE DEF F, S, V, m
  <2> QED
    BY <1>6 DEF IsContracting
<1>8. \A f \in [S -> V] : F[f] = [p \in S |-> Round(t, buf, f, p)]
  OBVIOUS
<1> HIDE DEF F, V, m, N, S
<1>9. PICK f : IsFixpoint(f, F, S, V)
  BY <1>2, <1>3, <1>4, <1>5, <1>7, FixpointExists
<1>10. f = [p \in S |-> Round(t, buf, f, p)]
  BY <1>8, <1>9 DEF IsFixpoint
<1> QED
  BY <1>10 DEF Loops, S

\* Search does what the loop does.
LEMMA SearchIs ==
  ASSUME user_wake_locks \in Seq(Name), NEW buf \in Name
  PROVE  \E f : Loops(user_wake_locks, buf, f) /\ Search(buf) = f[<<1, Len(user_wake_locks)>>]
<1> DEFINE t == user_wake_locks
           n == Len(t)
           Def(f) == f = [p \in (1 .. n + 1) \X (0 .. n) |->
                            IF p[1] > p[2] THEN {[found |-> FALSE, at |-> p[1]]}
                            ELSE UNION {LET diff == Compare(buf, user_wake_locks[i])
                                        IN  IF diff < 0 THEN f[<<p[1], i - 1>>]
                                            ELSE IF diff > 0 THEN f[<<i + 1, p[2]>>]
                                            ELSE {[found |-> TRUE, at |-> i]} : i \in p[1] .. p[2]}]
           from == CHOOSE f : Def(f)
<1>1. ASSUME NEW f PROVE Def(f) <=> Loops(t, buf, f)
  BY DEF Loops, Parts, Round
<1>2. \E f : Def(f)
  <2>1. PICK f : Loops(t, buf, f)
    BY LoopExists
  <2> HIDE DEF Def
  <2>2. Def(f)
    BY <1>1, <2>1
  <2> QED
    BY <2>2
<1>3. Def(from)
  BY <1>2
<1>4. Search(buf) = from[<<1, n>>]
  BY DEF Search
<1> HIDE DEF from
<1> QED
  BY <1>1, <1>3, <1>4

\* What is to the left of a part of the tree comes before the name looked for,
\* what is to its right after it.
Encloses(t, buf, p) ==
  /\ p[1] <= p[2] + 1
  /\ \A i \in DOMAIN t : (i < p[1] => Before(t[i], buf)) /\ (i > p[2] => Before(buf, t[i]))

\* The next part encloses the name too, whichever node the loop meets.
LEMMA NextEncloses ==
  ASSUME NEW t \in Seq(Name), Sorted(t), NEW buf \in Name, NEW p \in Parts(Len(t)),
         Encloses(t, buf, p), NEW i \in p[1] .. p[2]
  PROVE  /\ i \in DOMAIN t /\ t[i] \in Name
         /\ Before(buf, t[i]) => Encloses(t, buf, <<p[1], i - 1>>)
         /\ Before(t[i], buf) => Encloses(t, buf, <<i + 1, p[2]>>)
<1> DEFINE n == Len(t)
<1>1. n \in Nat /\ p[1] \in 1 .. n + 1 /\ p[2] \in 0 .. n /\ DOMAIN t = 1 .. n
  BY DEF Parts
<1>2. \A j \in DOMAIN t : t[j] \in Name
  OBVIOUS
<1> HIDE DEF n
<1>3. i \in DOMAIN t
  BY <1>1
<1>4. ASSUME Before(buf, t[i]) PROVE Encloses(t, buf, <<p[1], i - 1>>)
  <2>1. ASSUME NEW j \in DOMAIN t, j > i - 1 PROVE Before(buf, t[j])
    <3>1. CASE j = i
      BY <1>4, <3>1
    <3>2. CASE j > i
      <4>1. Before(t[i], t[j])
        BY <1>3, <3>2 DEF Sorted
      <4> QED
        BY <1>2, <1>3, <1>4, <4>1, BeforeTransitive
    <3> QED
      BY <1>1, <2>1, <3>1, <3>2
  <2>2. p[1] <= (i - 1) + 1
    BY <1>1
  <2>3. \A j \in DOMAIN t : j < p[1] => Before(t[j], buf)
    BY DEF Encloses
  <2> QED
    BY <2>1, <2>2, <2>3 DEF Encloses
<1>5. ASSUME Before(t[i], buf) PROVE Encloses(t, buf, <<i + 1, p[2]>>)
  <2>1. ASSUME NEW j \in DOMAIN t, j < i + 1 PROVE Before(t[j], buf)
    <3>1. CASE j = i
      BY <1>5, <3>1
    <3>2. CASE j < i
      <4>1. Before(t[j], t[i])
        BY <1>3, <3>2 DEF Sorted
      <4> QED
        BY <1>2, <1>3, <1>5, <4>1, BeforeTransitive
    <3> QED
      BY <1>1, <2>1, <3>1, <3>2
  <2>2. i + 1 <= p[2] + 1
    BY <1>1
  <2>3. \A j \in DOMAIN t : j > p[2] => Before(buf, t[j])
    BY DEF Encloses
  <2> QED
    BY <2>1, <2>2, <2>3 DEF Encloses
<1> QED
  BY <1>2, <1>3, <1>4, <1>5

\* In a sorted tree every search that begins in a part that encloses the name
\* ends at a right place.
LEMMA LoopRight ==
  ASSUME NEW t \in Seq(Name), Sorted(t), NEW buf \in Name, NEW f, Loops(t, buf, f)
  PROVE  \A place \in f[<<1, Len(t)>>] : Right(t, buf, place)
<1> DEFINE n == Len(t)
           P == {k \in 0 .. n : \A p \in Parts(n) :
                   p[2] + 1 - p[1] <= k /\ Encloses(t, buf, p) => \A place \in f[p] : Right(t, buf, place)}
<1>1. n \in Nat /\ DOMAIN t = 1 .. n /\ \A p \in Parts(n) : p[1] \in 1 .. n + 1 /\ p[2] \in 0 .. n
  BY DEF Parts
<1>2. \A p \in Parts(n) : f[p] = Round(t, buf, f, p)
  BY DEF Loops
<1>3. \A lo \in 1 .. n + 1, hi \in 0 .. n : <<lo, hi>> \in Parts(n)
  BY DEF Parts
<1> HIDE DEF n
<1>4. ASSUME NEW p \in Parts(n), p[1] > p[2], Encloses(t, buf, p), NEW place \in f[p]
      PROVE  Right(t, buf, place)
  <2>1. place = [found |-> FALSE, at |-> p[1]]
    BY <1>2, <1>4 DEF Round
  <2>2. ~place.found /\ place.at = p[1] /\ p[1] = p[2] + 1 /\ p[1] \in 1 .. n + 1
    BY <1>1, <1>4, <2>1 DEF Encloses
  <2>3. \A i \in DOMAIN t : IF i < p[1] THEN Before(t[i], buf) ELSE Before(buf, t[i])
    BY <1>1, <1>4, <2>2 DEF Encloses
  <2> QED
    BY <2>2, <2>3 DEF Right, n
<1>5. 0 \in P
  <2>1. \A p \in Parts(n) : p[2] + 1 - p[1] <= 0 => p[1] > p[2]
    BY <1>1
  <2> QED
    BY <1>1, <1>4, <2>1
<1>6. ASSUME NEW k \in 0 .. n - 1, k \in P PROVE k + 1 \in P
  <2>1. ASSUME NEW p \in Parts(n), p[2] + 1 - p[1] <= k + 1, Encloses(t, buf, p), ~(p[1] > p[2]),
               NEW place \in f[p]
        PROVE  Right(t, buf, place)
    <3> DEFINE W(i) == LET diff == Compare(buf, t[i])
                       IN  IF diff < 0 THEN f[<<p[1], i - 1>>]
                           ELSE IF diff > 0 THEN f[<<i + 1, p[2]>>]
                           ELSE {[found |-> TRUE, at |-> i]}
    <3>1. f[p] = UNION {W(i) : i \in p[1] .. p[2]}
      BY <1>2, <2>1 DEF Round
    <3> HIDE DEF W
    <3>2. PICK i \in p[1] .. p[2] : place \in W(i)
      BY <2>1, <3>1
    <3>3. /\ i \in DOMAIN t /\ t[i] \in Name
          /\ Before(buf, t[i]) => Encloses(t, buf, <<p[1], i - 1>>)
          /\ Before(t[i], buf) => Encloses(t, buf, <<i + 1, p[2]>>)
      BY <2>1, NextEncloses DEF n
    <3> DEFINE x == <<p[1], i - 1>>
               y == <<i + 1, p[2]>>
    <3>4. /\ x \in Parts(n) /\ y \in Parts(n)
          /\ x[2] + 1 - x[1] <= k /\ y[2] + 1 - y[1] <= k
      <4>1. x[1] = p[1] /\ x[2] = i - 1 /\ y[1] = i + 1 /\ y[2] = p[2]
        OBVIOUS
      <4>2. p[1] \in 1 .. n + 1 /\ p[2] \in 0 .. n /\ i - 1 \in 0 .. n /\ i + 1 \in 1 .. n + 1
        BY <1>1
      <4>3. x \in Parts(n) /\ y \in Parts(n)
        BY <1>3, <4>2
      <4> HIDE DEF x, y
      <4> QED
        BY <2>1, <4>1, <4>2, <4>3, SMTT(30)
    <3>5. /\ W(i) = IF Compare(buf, t[i]) < 0 THEN f[x]
                    ELSE IF Compare(buf, t[i]) > 0 THEN f[y] ELSE {[found |-> TRUE, at |-> i]}
      BY DEF W
    <3> HIDE DEF x, y
    <3>6. CASE Compare(buf, t[i]) = -1 /\ Before(buf, t[i])
      <4>1. place \in f[x]
        BY <3>2, <3>5, <3>6
      <4>2. Encloses(t, buf, x)
        BY <3>3, <3>6 DEF x
      <4> QED
        BY <1>6, <3>4, <4>1, <4>2
    <3>7. CASE Compare(buf, t[i]) = 1 /\ Before(t[i], buf)
      <4>1. place \in f[y]
        BY <3>2, <3>5, <3>7
      <4>2. Encloses(t, buf, y)
        BY <3>3, <3>7 DEF y
      <4> QED
        BY <1>6, <3>4, <4>1, <4>2
    <3>8. CASE Compare(buf, t[i]) = 0 /\ buf = t[i]
      <4>1. place = [found |-> TRUE, at |-> i]
        BY <3>2, <3>5, <3>8
      <4> QED
        BY <3>3, <3>8, <4>1 DEF Right
    <3> QED
      BY <3>3, <3>6, <3>7, <3>8, CompareDecides
  <2>2. k + 1 \in 0 .. n
    BY <1>1
  <2> QED
    BY <1>4, <2>1, <2>2
<1> HIDE DEF P
<1>7. n \in P
  BY <1>1, <1>5, <1>6, Induction
<1>8. /\ <<1, n>> \in Parts(n) /\ <<1, n>>[1] = 1 /\ <<1, n>>[2] = n /\ n + 1 - 1 <= n
  BY <1>1, <1>3
<1>9. Encloses(t, buf, <<1, n>>)
  BY <1>1 DEF Encloses
<1> QED
  BY <1>7, <1>8, <1>9 DEF P, n

\* Hence a search in the tree.
LEMMA SearchRight ==
  ASSUME user_wake_locks \in Seq(Name), Sorted(user_wake_locks), NEW buf \in Name
  PROVE  \A place \in Search(buf) : Right(user_wake_locks, buf, place)
BY SearchIs, LoopRight

-----------------------------------------------------------------------------
\* The tree t with name before its place i.
InsertAt(t, name, i) == SubSeq(t, 1, i - 1) \o <<name>> \o SubSeq(t, i, Len(t))

\* u is t with name at place i.
IsInserted(u, t, name, i) ==
  /\ u \in Seq(Name) /\ DOMAIN u = 1 .. Len(t) + 1
  /\ \A j \in 1 .. Len(t) + 1 : u[j] = IF j < i THEN t[j] ELSE IF j = i THEN name ELSE t[j - 1]

\* The tree after an insertion, ...
LEMMA InsertIs ==
  ASSUME NEW t \in Seq(Name), NEW name \in Name, NEW i \in 1 .. Len(t) + 1, NEW u,
         u = InsertAt(t, name, i)
  PROVE  IsInserted(u, t, name, i)
<1> DEFINE n == Len(t)
           a == SubSeq(t, 1, i - 1)
           c == SubSeq(t, i, n)
<1>1. n \in Nat /\ i \in Int
  OBVIOUS
<1>2. a \in Seq(Name) /\ Len(a) = i - 1 /\ \A j \in 1 .. i - 1 : a[j] = t[j]
  OBVIOUS
<1>3. c \in Seq(Name) /\ Len(c) = n - i + 1 /\ \A j \in 1 .. n - i + 1 : c[j] = t[i + j - 1]
  OBVIOUS
<1> DEFINE b == a \o <<name>>
<1> HIDE DEF a, c, n
<1>4. b \in Seq(Name) /\ Len(b) = i /\ b[i] = name /\ \A j \in 1 .. i - 1 : b[j] = t[j]
  BY <1>2, SMTT(30)
<1>5. u = b \o c
  BY DEF InsertAt, a, c, n
<1> HIDE DEF b
<1>6. u \in Seq(Name) /\ Len(u) = n + 1
  <2>1. u \in Seq(Name) /\ Len(u) = Len(b) + Len(c)
    <3>1. b \in Seq(Name) /\ c \in Seq(Name)
      BY <1>3, <1>4
    <3>2. b \o c \in Seq(Name) /\ Len(b \o c) = Len(b) + Len(c)
      BY <3>1
    <3> QED
      BY <1>5, <3>2, Zenon
  <2> QED
    BY <1>1, <1>3, <1>4, <2>1
<1>7. DOMAIN u = 1 .. n + 1
  BY <1>6
<1>8. ASSUME NEW j \in 1 .. n + 1
      PROVE  u[j] = IF j < i THEN t[j] ELSE IF j = i THEN name ELSE t[j - 1]
  <2>1. CASE j <= i
    <3>1. u[j] = b[j]
      BY <1>1, <1>3, <1>4, <1>5, <2>1
    <3> QED
      BY <1>1, <1>4, <2>1, <3>1
  <2>2. CASE j > i
    <3>1. u[j] = c[j - i] /\ j - i \in 1 .. n - i + 1
      BY <1>1, <1>3, <1>4, <1>5, <2>2, SMTT(30)
    <3>2. c[j - i] = t[i + (j - i) - 1] /\ i + (j - i) - 1 = j - 1
      BY <1>1, <1>3, <3>1
    <3> QED
      BY <1>1, <2>2, <3>1, <3>2
  <2> QED
    BY <1>1, <2>1, <2>2
<1> QED
  BY <1>6, <1>7, <1>8 DEF n, IsInserted

\* ... which keeps it sorted, at a right place.
LEMMA InsertSorted ==
  ASSUME NEW t \in Seq(Name), Sorted(t), NEW name \in Name, NEW place, ~place.found,
         Right(t, name, place), NEW u,
         u = InsertAt(t, name, place.at)
  PROVE  u \in Seq(Name) /\ Sorted(u)
<1> DEFINE n == Len(t)
           i == place.at
<1>1. n \in Nat /\ DOMAIN t = 1 .. n /\ i \in 1 .. n + 1
  BY DEF Right
<1>2. \A j \in 1 .. n : IF j < i THEN Before(t[j], name) ELSE Before(name, t[j])
  BY <1>1 DEF Right
<1> HIDE DEF n, i
<1>3. /\ u \in Seq(Name) /\ DOMAIN u = 1 .. n + 1
      /\ \A j \in 1 .. n + 1 : u[j] = IF j < i THEN t[j] ELSE IF j = i THEN name ELSE t[j - 1]
  <2>1. IsInserted(u, t, name, i)
    BY <1>1, InsertIs DEF n, i
  <2> QED
    BY <2>1 DEF IsInserted, n
<1>4. ASSUME NEW j \in 1 .. n + 1, NEW k \in 1 .. n + 1, j < k PROVE Before(u[j], u[k])
  <2>1. CASE k < i
    <3>1. j \in DOMAIN t /\ k \in DOMAIN t /\ j < i
      BY <1>1, <1>4, <2>1
    <3> QED
      BY <1>3, <1>4, <2>1, <3>1 DEF Sorted
  <2>2. CASE k = i
    <3>1. j \in 1 .. n /\ j < i
      BY <1>1, <1>4, <2>2
    <3> QED
      BY <1>2, <1>3, <2>2, <3>1
  <2>3. CASE k > i /\ j < i
    <3>1. j \in DOMAIN t /\ k - 1 \in DOMAIN t /\ j < k - 1
      BY <1>1, <1>4, <2>3
    <3>2. u[j] = t[j] /\ u[k] = t[k - 1]
      BY <1>1, <1>3, <2>3, SMTT(30)
    <3> QED
      BY <3>1, <3>2 DEF Sorted
  <2>4. CASE k > i /\ j = i
    <3>1. k - 1 \in 1 .. n /\ ~(k - 1 < i)
      BY <1>1, <1>4, <2>4
    <3>2. u[j] = name /\ u[k] = t[k - 1]
      BY <1>1, <1>3, <2>4
    <3> QED
      BY <1>2, <3>1, <3>2
  <2>5. CASE k > i /\ j > i
    <3>1. j - 1 \in DOMAIN t /\ k - 1 \in DOMAIN t /\ j - 1 < k - 1
      BY <1>1, <1>4, <2>5
    <3>2. u[j] = t[j - 1] /\ u[k] = t[k - 1]
      BY <1>1, <1>3, <2>5
    <3> QED
      BY <3>1, <3>2 DEF Sorted
  <2> QED
    BY <1>1, <2>1, <2>2, <2>3, <2>4, <2>5
<1> QED
  BY <1>3, <1>4 DEF Sorted

-----------------------------------------------------------------------------
(* Timeouts.                                                               *)

\* The remainder of a division, and what it cuts off.
LEMMA Division ==
  ASSUME NEW a \in Nat, NEW d \in Nat \ {0}
  PROVE  /\ a \div d \in Nat /\ a % d \in 0 .. d - 1
         /\ d * (a \div d) <= a /\ a < d * (a \div d) + d
OBVIOUS

\* A number smaller than the modulus stays as it is.
LEMMA SmallMod ==
  ASSUME NEW d \in Nat, NEW a \in 0 .. d - 1
  PROVE  a % d = a
OBVIOUS

\* A long is what is left of a number, and the number itself if that fits.
LEMMA ToLongIs ==
  ASSUME NEW n \in Nat
  PROVE  ToLong(n) \in Int /\ (n < 2 ^ (LongBits - 1) => ToLong(n) = n)
<1> DEFINE H == 2 ^ (LongBits - 1)
           L == 2 ^ LongBits
<1>1. H \in Nat \ {0} /\ L \in Nat \ {0} /\ L = 2 * H
  BY WidthAssumption
<1>2. ToLong(n) = IF n % L < H THEN n % L ELSE (n % L) - L
  BY DEF ToLong
<1> HIDE DEF H, L
<1>3. n % L \in Nat
  BY <1>1, Division
<1>4. ToLong(n) \in Int
  BY <1>1, <1>2, <1>3
<1>5. ASSUME n < H PROVE ToLong(n) = n
  <2>1. n \in 0 .. L - 1
    BY <1>1, <1>5
  <2>2. n % L = n
    BY <1>1, <2>1, SmallMod
  <2> QED
    BY <1>2, <1>5, <2>2
<1> QED
  BY <1>4, <1>5 DEF H

\* The timeout of ns nanoseconds is enough: user space gets what it asked for.
Enough(ns, jiffies) ==
  ns \in 0 .. NsPerJiffy * (2 ^ (LongBits - 1) - 1) =>
    /\ jiffies * NsPerJiffy >= ns
    /\ jiffies > 0
    /\ jiffies = 1 \/ (jiffies - 1) * NsPerJiffy < ns

\* The conversion of lookup_wake_lock_name rounds up.
LEMMA JiffiesEnough ==
  ASSUME NEW ns \in Nanoseconds
  PROVE  Jiffies(ns) \in Int /\ Enough(ns, Jiffies(ns))
<1> DEFINE H == 2 ^ (LongBits - 1)
           U == 2 ^ U64Bits
           d == NsPerJiffy
           x == ns + d - 1
           q == (x % U) \div d
           j == IF q <= 0 THEN 1 ELSE q
<1>1. H \in Nat \ {0, 1} /\ U \in Nat /\ d \in Nat \ {0} /\ d * H <= U
  BY WidthAssumption, UserAssumption
<1>2. ns \in 0 .. U - 1
  BY UserAssumption
<1>3. Jiffies(ns) = ToLong(j)
  BY DEF Jiffies
<1> HIDE DEF H, U, d
<1>4. ns \in Nat /\ U \in Nat \ {0} /\ x \in Nat
  BY <1>1, <1>2
<1> HIDE DEF x
<1>5. x % U \in Nat
  BY <1>4, Division
<1>6. q \in Nat
  BY <1>1, <1>5, Division
<1> HIDE DEF q
<1>7. j \in Nat \ {0}
  BY <1>6
<1>8. Jiffies(ns) \in Int
  BY <1>3, <1>7, ToLongIs
<1>9. ASSUME ns \in 0 .. d * (H - 1)
      PROVE  /\ Jiffies(ns) * d >= ns /\ Jiffies(ns) > 0
             /\ Jiffies(ns) = 1 \/ (Jiffies(ns) - 1) * d < ns
  <2>1. d * (H - 1) = d * H - d /\ d * H \in Nat
    BY <1>1
  <2>2. x < U
    BY <1>1, <1>2, <1>9, <2>1 DEF x
  <2>3. x % U = x
    BY <1>4, <2>2, SmallMod
  <2>4. q \in Nat /\ d * q <= x /\ x < d * q + d
    BY <1>1, <1>4, <2>3, Division DEF q
  <2>5. x = ns + d - 1
    BY DEF x
  <2>6. d * q \in Nat /\ ns <= d * q /\ d * q < ns + d
    BY <1>1, <1>4, <2>4, <2>5
  <2>7. q < H
    <3>1. d * q < d * H
      BY <1>1, <1>2, <1>9, <2>1, <2>6
    <3>2. ASSUME H <= q PROVE d * H <= d * q
      BY <1>1, <2>4, <3>2
    <3> QED
      BY <1>1, <2>1, <2>4, <2>6, <3>1, <3>2
  <2>8. CASE q = 0
    <3>1. j = 1
      BY <2>8
    <3>2. ns = 0
      BY <1>1, <1>4, <2>6, <2>8
    <3>3. j < H
      BY <1>1, <3>1
    <3>4. Jiffies(ns) = 1
      BY <1>3, <1>7, <3>1, <3>3, ToLongIs DEF H
    <3> QED
      BY <1>1, <3>2, <3>4
  <2>9. CASE q # 0
    <3>1. j = q
      BY <2>4, <2>9
    <3>2. Jiffies(ns) = q
      BY <1>3, <1>7, <2>7, <3>1, ToLongIs DEF H
    <3>3. q * d = d * q /\ (q - 1) * d = d * q - d
      BY <1>1, <2>4
    <3> QED
      BY <1>1, <1>4, <2>4, <2>6, <2>9, <3>2, <3>3
  <2> QED
    BY <2>8, <2>9
<1> QED
  BY <1>8, <1>9 DEF Enough, H, d

-----------------------------------------------------------------------------
(* The invariant: the tree is sorted, and the timeouts are the converted   *)
(* ones.                                                                   *)
UInv ==
  /\ user_wake_locks \in Seq(Names) /\ Sorted(user_wake_locks)
  /\ asked \in [Names -> Nanoseconds \cup {NoTimeout, Unlocked}]
  /\ timeout \in [Names -> Int]
  /\ \A name \in Names : asked[name] \in Nanoseconds => timeout[name] = Jiffies(asked[name])

\* Names are sequences of characters.
LEMMA NamesAre ==
  Names \subseteq Name /\ \A t \in Seq(Names) : t \in Seq(Name)
<1>1. Names \subseteq Name
  BY UserAssumption DEF Name
<1> QED
  BY <1>1

\* A member of the tree is a name.
LEMMA MembersAre ==
  ASSUME UInv
  PROVE  Members \subseteq Names
BY DEF UInv, Members

\* NoTimeout and Unlocked are not timeouts.
LEMMA NotTimeouts ==
  NoTimeout \notin Nanoseconds /\ Unlocked \notin Nanoseconds
<1>1. 2 ^ U64Bits \in Nat
  BY WidthAssumption
<1> QED
  BY <1>1, UserAssumption DEF NoTimeout, Unlocked

\* Searches are right in every state.
LEMMA SearchInv ==
  ASSUME UInv, NEW name \in Names
  PROVE  \A place \in Search(name) : Right(user_wake_locks, name, place)
BY NamesAre, SearchRight DEF UInv

\* Taking the lock of a name.
LEMMA TakeStep ==
  ASSUME UInv, NEW name \in Names, NEW how \in Nanoseconds \cup {NoTimeout}, Take(name, how)
  PROVE  /\ asked' \in [Names -> Nanoseconds \cup {NoTimeout, Unlocked}]
         /\ timeout' \in [Names -> Int]
         /\ \A n \in Names : asked'[n] \in Nanoseconds => timeout'[n] = Jiffies(asked'[n])
<1> DEFINE v == IF how = NoTimeout THEN 0 ELSE Jiffies(how)
<1>1. asked' = [asked EXCEPT ![name] = how] /\ timeout' = [timeout EXCEPT ![name] = v]
  BY DEF Take
<1>2. v \in Int
  BY JiffiesEnough
<1>3. how \in Nanoseconds => v = Jiffies(how)
  BY NotTimeouts
<1> HIDE DEF v
<1>4. asked' \in [Names -> Nanoseconds \cup {NoTimeout, Unlocked}] /\ timeout' \in [Names -> Int]
  BY <1>1, <1>2 DEF UInv
<1>5. ASSUME NEW n \in Names, asked'[n] \in Nanoseconds PROVE timeout'[n] = Jiffies(asked'[n])
  <2>1. CASE n = name
    BY <1>1, <1>3, <1>5, <2>1 DEF UInv
  <2>2. CASE n # name
    BY <1>1, <1>5, <2>2 DEF UInv
  <2> QED
    BY <2>1, <2>2
<1> QED
  BY <1>4, <1>5

\* A write to /sys/power/wake_lock.
LEMMA LockStep ==
  ASSUME UInv, NEW name \in Names, NEW how \in Nanoseconds \cup {NoTimeout}, wake_lock_store(name, how)
  PROVE  UInv'
<1>1. PICK place \in Search(name) :
        \/ /\ place.found
           /\ Take(user_wake_locks[place.at], how)
           /\ UNCHANGED user_wake_locks
        \/ /\ ~place.found
           /\ user_wake_locks' = Insert(name, place.at)
           /\ Take(name, how)
  BY DEF wake_lock_store
<1>2. Right(user_wake_locks, name, place)
  BY SearchInv
<1>3. CASE place.found
  <2>1. Take(name, how) /\ user_wake_locks' = user_wake_locks
    BY <1>1, <1>2, <1>3 DEF Right
  <2> QED
    BY <2>1, TakeStep DEF UInv
<1>4. CASE ~place.found
  <2>1. Take(name, how) /\ user_wake_locks' = InsertAt(user_wake_locks, name, place.at)
    BY <1>1, <1>4 DEF Insert, InsertAt
  <2>2. user_wake_locks \in Seq(Name) /\ Sorted(user_wake_locks) /\ name \in Name
    BY NamesAre DEF UInv
  <2>3. Sorted(user_wake_locks')
    BY <1>2, <1>4, <2>1, <2>2, InsertSorted
  <2>4. user_wake_locks' \in Seq(Names)
    <3>1. place.at \in 1 .. Len(user_wake_locks) + 1
      BY <1>2, <1>4 DEF Right
    <3>2. IsInserted(user_wake_locks', user_wake_locks, name, place.at)
      BY <2>1, <2>2, <3>1, InsertIs
    <3> DEFINE u == user_wake_locks'
               n == Len(user_wake_locks)
    <3>3. u \in Seq(Name) /\ DOMAIN u = 1 .. n + 1 /\ n \in Nat
      BY <3>2 DEF IsInserted, UInv
    <3>4. \A j \in 1 .. n : user_wake_locks[j] \in Names
      BY DEF UInv
    <3>5. ASSUME NEW j \in 1 .. n + 1 PROVE u[j] \in Names
      <4>1. u[j] = IF j < place.at THEN user_wake_locks[j] ELSE IF j = place.at THEN name ELSE user_wake_locks[j - 1]
        BY <3>2 DEF IsInserted
      <4>2. (j < place.at => j \in 1 .. n) /\ (j > place.at => j - 1 \in 1 .. n)
        BY <3>1, <3>3
      <4> HIDE DEF u, n
      <4> QED
        BY <3>1, <3>3, <3>4, <4>1, <4>2
    <3>6. Len(u) = n + 1 /\ u = [j \in 1 .. Len(u) |-> u[j]]
      BY <3>3
    <3> HIDE DEF u, n
    <3> QED
      BY <3>3, <3>5, <3>6, SeqDef DEF u
  <2> QED
    BY <2>1, <2>3, <2>4, TakeStep DEF UInv
<1> QED
  BY <1>3, <1>4

\* A write to /sys/power/wake_unlock.
LEMMA UnlockStep ==
  ASSUME UInv, NEW name \in Names, wake_unlock_store(name)
  PROVE  UInv'
<1>1. PICK place \in Search(name) :
        /\ place.found
        /\ asked' = [asked EXCEPT ![user_wake_locks[place.at]] = Unlocked]
        /\ timeout' = [timeout EXCEPT ![user_wake_locks[place.at]] = 0]
        /\ UNCHANGED user_wake_locks
  BY DEF wake_unlock_store
<1>2. Right(user_wake_locks, name, place)
  BY SearchInv
<1>3. asked' = [asked EXCEPT ![name] = Unlocked] /\ timeout' = [timeout EXCEPT ![name] = 0]
  BY <1>1, <1>2 DEF Right
<1>4. asked' \in [Names -> Nanoseconds \cup {NoTimeout, Unlocked}] /\ timeout' \in [Names -> Int]
  BY <1>3 DEF UInv
<1>5. ASSUME NEW n \in Names, asked'[n] \in Nanoseconds PROVE timeout'[n] = Jiffies(asked'[n])
  <2>1. n # name
    BY <1>3, <1>5, NotTimeouts DEF UInv
  <2> QED
    BY <1>3, <1>5, <2>1 DEF UInv
<1> QED
  BY <1>1, <1>4, <1>5 DEF UInv

\* The invariant holds in every state.
LEMMA UserInvariant ==
  Spec => []UInv
<1>1. Init => UInv
  <2> SUFFICES ASSUME Init PROVE UInv
    OBVIOUS
  <2>1. user_wake_locks \in Seq(Names) /\ Sorted(user_wake_locks)
    BY DEF Init, Sorted
  <2> QED
    BY <2>1, NotTimeouts DEF Init, UInv
<1>2. UInv /\ [Next]_vars => UInv'
  <2> SUFFICES ASSUME UInv, [Next]_vars PROVE UInv'
    OBVIOUS
  <2>1. CASE Next
    BY <2>1, LockStep, UnlockStep DEF Next
  <2>2. CASE UNCHANGED vars
    BY <2>2 DEF vars, UInv
  <2> QED
    BY <2>1, <2>2
<1> QED
  BY <1>1, <1>2, PTL DEF Spec

\* The search of lookup_wake_lock_name, in a tree of whatever shape and made in
\* whatever order, finds the lock of exactly the name written to sysfs, a name
\* that is a prefix of others or has such prefixes included, and else that
\* there is none.
THEOREM LookupCorrect == Spec => []LookupExact
<1>1. UInv => LookupExact
  <2> SUFFICES ASSUME UInv, NEW name \in Names, NEW place \in Search(name)
               PROVE  IF place.found THEN user_wake_locks[place.at] = name ELSE name \notin Members
    BY DEF LookupExact
  <2>1. Right(user_wake_locks, name, place)
    BY SearchInv
  <2>2. CASE place.found
    BY <2>1, <2>2 DEF Right
  <2>3. CASE ~place.found
    <3>1. \A i \in DOMAIN user_wake_locks :
            Before(user_wake_locks[i], name) \/ Before(name, user_wake_locks[i])
      BY <2>1, <2>3 DEF Right
    <3>2. ~Before(name, name)
      BY NamesAre, BeforeIrreflexive
    <3> QED
      BY <2>3, <3>1, <3>2 DEF Members
  <2> QED
    BY <2>2, <2>3
<1> QED
  BY <1>1, UserInvariant, PTL

\* A number of jiffies rounded up, less what has elapsed of the first one.
LEMMA HeldForAll ==
  ASSUME NEW ns \in Nat, NEW j \in Nat \ {0}, NEW d \in Nat \ {0}, NEW e \in 0 .. d - 1,
         j * d >= ns, j = 1 \/ (j - 1) * d < ns
  PROVE  j * d - e > 0 /\ ns - d < j * d - e /\ j * d - e <= ns + d
<1>1. j * d \in Nat /\ (j - 1) * d = j * d - d /\ j * d >= d
  <2>1. j * d \in Nat /\ (j - 1) * d = j * d - d
    OBVIOUS
  <2>2. (j - 1) * d \in Nat
    <3> DEFINE k == j - 1
    <3>1. k \in Nat
      OBVIOUS
    <3>2. k * d \in Nat
      BY <3>1
    <3> QED
      BY <3>2
  <2> QED
    BY <2>1, <2>2
<1>2. j = 1 => j * d = d
  OBVIOUS
<1> QED
  BY <1>1, <1>2

\* A lock that user space took with a timeout that fits in a long of jiffies is
\* held for a time, and less than a jiffy shorter and at most a jiffy longer than
\* asked for, whatever jiffy and widths and whatever part of the jiffy under way
\* has elapsed: the conversion rounds up and neither its sum nor its result
\* overflows.
THEOREM TimeoutsHold == Spec => []HeldAsAsked
<1>1. UInv => HeldAsAsked
  <2> SUFFICES ASSUME UInv, NEW name \in Members,
                      asked[name] \in 0 .. NsPerJiffy * (2 ^ (LongBits - 1) - 1),
                      NEW elapsed \in 0 .. NsPerJiffy - 1
               PROVE  /\ timeout[name] * NsPerJiffy - elapsed > 0
                      /\ asked[name] - NsPerJiffy < timeout[name] * NsPerJiffy - elapsed
                      /\ timeout[name] * NsPerJiffy - elapsed <= asked[name] + NsPerJiffy
    BY DEF HeldAsAsked
  <2>1. name \in Names
    BY MembersAre
  <2>2. asked[name] \in Nanoseconds
    <3>1. asked[name] \in Nanoseconds \cup {NoTimeout, Unlocked}
      BY <2>1 DEF UInv
    <3>2. 2 ^ (LongBits - 1) \in Nat /\ NsPerJiffy \in Nat
      BY WidthAssumption, UserAssumption
    <3>3. asked[name] >= 0
      BY <3>2
    <3> QED
      BY <3>1, <3>3 DEF NoTimeout, Unlocked
  <2>3. timeout[name] = Jiffies(asked[name])
    BY <2>1, <2>2 DEF UInv
  <2>4. Enough(asked[name], timeout[name])
    BY <2>2, <2>3, JiffiesEnough
  <2>5. timeout[name] \in Int /\ NsPerJiffy \in Nat \ {0}
    BY <2>2, <2>3, JiffiesEnough, UserAssumption
  <2>6. asked[name] \in Nat
    BY <2>2, UserAssumption, WidthAssumption
  <2>7. timeout[name] \in Nat \ {0} /\ timeout[name] * NsPerJiffy >= asked[name]
        /\ (timeout[name] = 1 \/ (timeout[name] - 1) * NsPerJiffy < asked[name])
    BY <2>4, <2>5 DEF Enough
  <2> QED
    BY <2>5, <2>6, <2>7, HeldForAll
<1> QED
  BY <1>1, UserInvariant, PTL
=============================================================================
