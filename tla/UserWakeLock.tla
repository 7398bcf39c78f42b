---------------------------- MODULE UserWakeLock ----------------------------
(***************************************************************************)
(* kernel/power/userwakelock.c: the tree of the wake locks user space      *)
(* makes by writing their names to /sys/power/wake_lock, and the timeout   *)
(* in nanoseconds that may follow the name.  SuspendWork has one lock per  *)
(* name and converted timeouts; here is what it takes that from.           *)
(*                                                                         *)
(* A name is a sequence of characters, as the search compares prefixes.    *)
(* The red-black tree is the sequence of its names from left to right; its *)
(* shape is whatever rb_insert_color made it, so a search may meet any     *)
(* name of the part of the tree it is in first.  tree_lock makes every     *)
(* write to sysfs one step.                                                *)
(***************************************************************************)
EXTENDS Integers, Sequences

CONSTANTS
  Names,        \* the names user space uses: sequences of characters, which
                \* are positive numbers
  Nanoseconds,  \* the timeouts user space asks for
  NsPerJiffy,   \* NSEC_PER_SEC / HZ
  U64Bits,      \* the width of u64
  LongBits      \* the width of long

ASSUME UserAssumption ==
  /\ Names \subseteq Seq(Nat \ {0}) \ {<<>>}
  /\ NsPerJiffy \in Nat \ {0} /\ LongBits \in Nat \ {0, 1} /\ U64Bits \in Nat \ {0}
  /\ Nanoseconds \subseteq 0 .. 2 ^ U64Bits - 1

\* Arithmetic of powers, and that a long of jiffies fits in a u64 of nanoseconds.
ASSUME WidthAssumption ==
  /\ 2 ^ U64Bits \in Nat /\ 2 ^ (LongBits - 1) \in Nat \ {0, 1}
  /\ 2 ^ LongBits = 2 * 2 ^ (LongBits - 1)
  /\ NsPerJiffy * 2 ^ (LongBits - 1) <= 2 ^ U64Bits

VARIABLES
  user_wake_locks,  \* the tree, from left to right
  asked,            \* name -> what user space last asked for: a timeout in
                    \* nanoseconds, NoTimeout or Unlocked
  timeout           \* name -> the long given to wake_lock_timeout, 0 for
                    \* wake_lock and for a lock that is not held

vars == <<user_wake_locks, asked, timeout>>

\* Not timeouts: a lock without one, a lock that is not held.
NoTimeout == -1
Unlocked == -2

Members == {user_wake_locks[i] : i \in DOMAIN user_wake_locks}

Init ==
  /\ user_wake_locks = <<>>
  /\ asked = [name \in Names |-> Unlocked]
  /\ timeout = [name \in Names |-> 0]

-----------------------------------------------------------------------------
\* A long from a u64.
ToLong(n) == LET m == n % 2 ^ LongBits
             IN  IF m < 2 ^ (LongBits - 1) THEN m ELSE m - 2 ^ LongBits

\* Mutant: a part of a jiffy is dropped.
JiffiesFloor(ns) == LET jiffies == ns \div NsPerJiffy
                    IN  ToLong(IF jiffies <= 0 THEN 1 ELSE jiffies)

\* The timeout string of lookup_wake_lock_name.
Jiffies(ns) == LET jiffies == ((ns + NsPerJiffy - 1) % 2 ^ U64Bits) \div NsPerJiffy
               IN  ToLong(IF jiffies <= 0 THEN 1 ELSE jiffies)

\* strncmp(buf, name, n) for a buf of at least n characters: decided by the first
\* place where they differ, the end of name counting as 0.
strncmp(buf, name, n) ==
  LET char(i) == IF i <= Len(name) THEN name[i] ELSE 0
      differ == {i \in 1 .. n : buf[i] # char(i)}
  IN  IF differ = {} THEN 0
      ELSE LET i == CHOOSE i \in differ : \A j \in differ : i <= j
           IN  IF buf[i] < char(i) THEN -1 ELSE 1

\* Mutant: a name that the one looked for is a prefix of is taken for it.
ComparePrefix(buf, name) == strncmp(buf, name, Len(buf))

Compare(buf, name) ==
  LET diff == strncmp(buf, name, Len(buf))
  IN  IF diff = 0 /\ Len(name) > Len(buf) THEN -1 ELSE diff

\* The loop of lookup_wake_lock_name, for a tree of any shape: the places it
\* may end at, found, or not found and before place i.
Search(buf) ==
  LET n == Len(user_wake_locks)
      from[p \in (1 .. n + 1) \X (0 .. n)] ==
        IF p[1] > p[2] THEN {[found |-> FALSE, at |-> p[1]]}
        ELSE UNION {LET diff == Compare(buf, user_wake_locks[i])
                    IN  IF diff < 0 THEN from[<<p[1], i - 1>>]
                        ELSE IF diff > 0 THEN from[<<i + 1, p[2]>>]
                        ELSE {[found |-> TRUE, at |-> i]} : i \in p[1] .. p[2]}
  IN  from[<<1, n>>]

\* rb_link_node and rb_insert_color.
Insert(name, i) ==
  SubSeq(user_wake_locks, 1, i - 1) \o <<name>>
    \o SubSeq(user_wake_locks, i, Len(user_wake_locks))

-----------------------------------------------------------------------------
\* The lock that wake_lock_store found or made is taken.
Take(name, how) ==
  /\ asked' = [asked EXCEPT ![name] = how]
  /\ timeout' = [timeout EXCEPT ![name] = IF how = NoTimeout THEN 0 ELSE Jiffies(how)]

\* A new lock needs memory; without it, and for a text that is no name with an
\* optional number, the write fails and changes nothing.
wake_lock_store(name, how) ==
  \E place \in Search(name) :
    \/ /\ place.found
       /\ Take(user_wake_locks[place.at], how)
       /\ UNCHANGED user_wake_locks
    \/ /\ ~place.found
       /\ user_wake_locks' = Insert(name, place.at)
       /\ Take(name, how)

\* A name that is not in the tree is an error.
wake_unlock_store(name) ==
  \E place \in Search(name) :
    /\ place.found
    /\ asked' = [asked EXCEPT ![user_wake_locks[place.at]] = Unlocked]
    /\ timeout' = [timeout EXCEPT ![user_wake_locks[place.at]] = 0]
    /\ UNCHANGED user_wake_locks

Next ==
  \E name \in Names :
    \/ \E how \in Nanoseconds \cup {NoTimeout} : wake_lock_store(name, how)
    \/ wake_unlock_store(name)

Spec == Init /\ [][Next]_vars

-----------------------------------------------------------------------------
\* In whatever order locks were made and whatever the shape of the tree, the
\* search of lookup_wake_lock_name finds the lock of exactly the name asked for
\* if there is one, and else says that there is none.
LookupExact ==
  \A name \in Names : \A place \in Search(name) :
    IF place.found THEN user_wake_locks[place.at] = name ELSE name \notin Members

\* A lock with a timeout that fits in a long of jiffies is held for a time, and for
\* what user space asked for give or take a jiffy: wake_lock_timeout counts the
\* jiffy under way, of which part has elapsed, as a whole one.  (A longer timeout
\* is cut to a long, and the lock may have run out at once or have no timeout,
\* although the comment says "jiffies > 0".)
HeldAsAsked ==
  \A name \in Members :
    asked[name] \in 0 .. NsPerJiffy * (2 ^ (LongBits - 1) - 1) =>
      \A elapsed \in 0 .. NsPerJiffy - 1 :
        LET held == timeout[name] * NsPerJiffy - elapsed
        IN  /\ held > 0
            /\ asked[name] - NsPerJiffy < held
            /\ held <= asked[name] + NsPerJiffy
=============================================================================
