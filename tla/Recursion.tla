----------------------------- MODULE Recursion -----------------------------
(***************************************************************************)
(* Facts about natural numbers that the proofs about lists and rings need: *)
(* the least element of a set, from which inductions are made, and the     *)
(* existence of a function defined by recursion.                           *)
(***************************************************************************)
EXTENDS Integers, WellFoundedInduction, TLAPS

\* A non-empty set of natural numbers has a least element.
LEMMA LeastNat ==
  ASSUME NEW T \in SUBSET Nat, T # {}
  PROVE  \E n \in T : \A m \in T : n <= m
<1> DEFINE R == {p \in Nat \X Nat : p[1] < p[2]}
<1>1. PICK n \in T : \A m \in T : <<m, n>> \notin R
  <2>1. IsWellFoundedOn(R, Nat)
    BY NatLessThanWellFounded DEF OpToRel
  <2> HIDE DEF R
  <2> QED
    BY <2>1, WFMin
<1>2. \A m \in T : ~(m < n)
  BY <1>1
<1> QED
  BY <1>2

\* A set that has 0 and with every n < N also n + 1 has all numbers up to N.
LEMMA Induction ==
  ASSUME NEW N \in Nat, NEW P, 0 \in P,
         \A n \in 0 .. N - 1 : n \in P => n + 1 \in P
  PROVE  0 .. N \subseteq P
<1> DEFINE T == (0 .. N) \ P
<1> SUFFICES ASSUME T # {} PROVE FALSE
  OBVIOUS
<1>0. T \in SUBSET Nat
  OBVIOUS
<1> HIDE DEF T
<1>1. PICK n \in T : \A m \in T : n <= m
  BY <1>0, LeastNat
<1> USE DEF T
<1>2. n # 0 /\ n \in 0 .. N /\ n \notin P
  BY <1>1
<1>3. n - 1 \in 0 .. N - 1 /\ n - 1 \notin T
  BY <1>1, <1>2
<1>4. n - 1 \in P
  BY <1>3
<1>5. (n - 1) + 1 \in P
  BY <1>3, <1>4
<1> QED
  BY <1>2, <1>5

\* f is a function on 0 .. N with value a at 0, computed by step from there on.
IsRecursion(f, N, V, a, step) ==
  /\ f \in [0 .. N -> V]
  /\ f[0] = a
  /\ \A i \in 1 .. N : f[i] = step[<<i, f[i - 1]>>]

\* There is a function with given value at 0, whose value at every other number
\* up to N is computed by step from the value before.
LEMMA RecursionExists ==
  ASSUME NEW N \in Nat, NEW V, NEW a \in V, NEW step \in [(1 .. N) \X V -> V]
  PROVE  \E f : IsRecursion(f, N, V, a, step)
<1> DEFINE Good(n, f) == /\ f \in [0 .. n -> V] /\ f[0] = a
                         /\ \A i \in 1 .. n : f[i] = step[<<i, f[i - 1]>>]
           P == {n \in 0 .. N : \E f : Good(n, f)}
<1>1. 0 \in P
  <2> DEFINE f == [i \in 0 .. 0 |-> a]
  <2>1. Good(0, f)
    OBVIOUS
  <2>2. \E g : Good(0, g)
    BY <2>1, Zenon
  <2> HIDE DEF Good
  <2> QED
    BY <2>2
<1>2. ASSUME NEW n \in 0 .. N - 1, n \in P PROVE n + 1 \in P
  <2>1. PICK f : Good(n, f)
    BY <1>2
  <2> DEFINE v == step[<<n + 1, f[n]>>]
             g == [i \in 0 .. n + 1 |-> IF i = n + 1 THEN v ELSE f[i]]
  <2>2. v \in V
    BY <2>1
  <2>3. \A i \in 0 .. n : g[i] = f[i]
    OBVIOUS
  <2>4. g \in [0 .. n + 1 -> V] /\ g[n + 1] = v
    BY <2>1, <2>2
  <2> HIDE DEF g
  <2>5. \A i \in 1 .. n + 1 : g[i] = step[<<i, g[i - 1]>>]
    <3> TAKE i \in 1 .. n + 1
    <3>1. CASE i = n + 1
      BY <2>3, <2>4, <3>1
    <3>2. CASE i # n + 1
      <4>1. i \in 1 .. n /\ i \in 0 .. n /\ i - 1 \in 0 .. n
        BY <3>2
      <4> QED
        BY <2>1, <2>3, <4>1
    <3> QED
      BY <3>1, <3>2
  <2>6. Good(n + 1, g)
    BY <2>1, <2>3, <2>4, <2>5
  <2> QED
    BY <2>6
<1> HIDE DEF P
<1>3. N \in P
  BY <1>1, <1>2, Induction
<1> QED
  BY <1>3 DEF P, IsRecursion

-----------------------------------------------------------------------------
\* What F computes at p depends only on the values at places of smaller measure.
IsContracting(F, S, V, m) ==
  \A f, g \in [S -> V], p \in S :
    (\A q \in S : m[q] < m[p] => f[q] = g[q]) => F[f][p] = F[g][p]

IsFixpoint(f, F, S, V) == f \in [S -> V] /\ f = F[f]

\* A function is defined by recursion along any measure that decreases.
LEMMA FixpointExists ==
  ASSUME NEW S, NEW V, V # {}, NEW N \in Nat, NEW m \in [S -> 0 .. N],
         NEW F \in [[S -> V] -> [S -> V]], IsContracting(F, S, V, m)
  PROVE  \E f : IsFixpoint(f, F, S, V)
<1> DEFINE U == [S -> V]
           step == [x \in (1 .. N + 2) \X U |-> F[x[2]]]
<1>1. PICK v : v \in V
  OBVIOUS
<1> DEFINE a == [p \in S |-> v]
<1>2. a \in U
  BY <1>1
<1>3. step \in [(1 .. N + 2) \X U -> U] /\ N + 2 \in Nat
  OBVIOUS
<1>4. \A i \in 1 .. N + 2, f \in U : step[<<i, f>>] = F[f]
  OBVIOUS
<1> HIDE DEF U, step, a
<1>5. PICK g : IsRecursion(g, N + 2, U, a, step)
  BY <1>2, <1>3, RecursionExists
<1>6. g \in [0 .. N + 2 -> U] /\ \A i \in 1 .. N + 2 : g[i] = F[g[i - 1]]
  <2>1. g \in [0 .. N + 2 -> U] /\ \A i \in 1 .. N + 2 : g[i] = step[<<i, g[i - 1]>>]
    BY <1>5 DEF IsRecursion
  <2>2. \A i \in 1 .. N + 2 : g[i - 1] \in U
    <3>1. \A i \in 1 .. N + 2 : i - 1 \in 0 .. N + 2
      OBVIOUS
    <3> QED
      BY <2>1, <3>1
  <2> QED
    BY <1>4, <2>1, <2>2
<1> DEFINE P == {k \in 0 .. N + 1 : \A p \in S : m[p] < k => g[k + 1][p] = g[k][p]}
<1>7. 0 \in P
  OBVIOUS
<1>8. ASSUME NEW k \in 0 .. (N + 1) - 1, k \in P PROVE k + 1 \in P
  <2>1. /\ k \in 0 .. N + 2 /\ k + 1 \in 0 .. N + 2 /\ k + 1 \in 1 .. N + 2 /\ k + 2 \in 1 .. N + 2
        /\ (k + 1) - 1 = k /\ (k + 2) - 1 = k + 1 /\ (k + 1) + 1 = k + 2
    OBVIOUS
  <2>2. g[k] \in U /\ g[k + 1] \in U /\ g[k + 1] = F[g[k]] /\ g[k + 2] = F[g[k + 1]]
    BY <1>6, <2>1
  <2>3. ASSUME NEW p \in S, m[p] < k + 1 PROVE g[k + 2][p] = g[k + 1][p]
    <3>1. \A q \in S : m[q] \in Int /\ (m[q] < m[p] => m[q] < k)
      BY <2>3
    <3>2. \A q \in S : m[q] < m[p] => g[k + 1][q] = g[k][q]
      BY <1>8, <3>1
    <3>3. F[g[k + 1]][p] = F[g[k]][p]
      BY <2>2, <3>2 DEF IsContracting, U
    <3> QED
      BY <2>2, <3>3
  <2> QED
    BY <2>1, <2>3
<1> HIDE DEF P
<1>9. N + 1 \in P
  <2>1. N + 1 \in Nat /\ N + 1 \in 0 .. N + 1
    OBVIOUS
  <2>2. 0 .. N + 1 \subseteq P
    BY <1>7, <1>8, <2>1, Induction
  <2> QED
    BY <2>1, <2>2
<1>10. \A p \in S : g[N + 2][p] = g[N + 1][p]
  <2>1. (N + 1) + 1 = N + 2 /\ \A p \in S : m[p] < N + 1
    OBVIOUS
  <2> QED
    BY <1>9, <2>1 DEF P
<1>11. g[N + 1] \in U /\ g[N + 2] \in U /\ g[N + 2] = F[g[N + 1]]
  <2>1. N + 2 \in 1 .. N + 2 /\ (N + 2) - 1 = N + 1 /\ N + 1 \in 0 .. N + 2 /\ N + 2 \in 0 .. N + 2
    OBVIOUS
  <2> QED
    BY <1>6, <2>1
<1>12. g[N + 2] = g[N + 1]
  BY <1>10, <1>11 DEF U
<1> QED
  BY <1>11, <1>12 DEF U, IsFixpoint
=============================================================================
