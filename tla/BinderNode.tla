----------------------------- MODULE BinderNode -----------------------------
(***************************************************************************)
(* Reference counting of the binder driver (drivers/staging/android/       *)
(* binder.c), for one object of one process, the owner.  The driver keeps a *)
(* node for the object, and in each client that was sent the object a ref  *)
(* (a handle) to the node.  Clients count on their refs, transaction       *)
(* buffers on the node and on refs, and the driver asks the owner, through *)
(* a work item read by one of the owner's threads, to take or to give back *)
(* the one strong and the one weak reference it holds on the object itself.*)
(*                                                                         *)
(* The user side of owner and clients is external and behaves as the       *)
(* driver's protocol wants it to: a client counts only on handles it holds, *)
(* a thread executes what it read in order, and a thread that sends the    *)
(* object keeps it until it has seen BR_TRANSACTION_COMPLETE.              *)
(*                                                                         *)
(* Every command runs under binder_lock and is one step, except that a     *)
(* read, which may return several commands, is a sequence of steps during  *)
(* which the thread `reading' holds the lock.  A transaction that fails    *)
(* leaves its error in thread->return_error, and the read of the same      *)
(* ioctl, still under the lock, returns it before it looks at any list:    *)
(* the two are one step.                                                   *)
(***************************************************************************)
EXTENDS Integers, Sequences, FiniteSets

CONSTANTS
    Threads,   \* threads of the owner
    Loopers,   \* those that come back to read again and again
    Clients,   \* the other processes
    MaxBuf,    \* bound on the transaction buffers in flight
    Nobody     \* no thread

Owner == "owner"

ASSUME BinderAssumption ==
    /\ MaxBuf \in Nat /\ Loopers \subseteq Threads
    /\ IsFiniteSet(Threads) /\ Threads \cap {Nobody, "proc", "none"} = {}
    /\ IsFiniteSet(Clients) /\ Clients \cap {Owner, "none"} = {}

Buffers == 1 .. MaxBuf

VARIABLES
    node,     \* the binder_node (NoNode: freed or not created)
    work,     \* the list node->work is on: a thread's, "proc", or "none"
    ref,      \* ref[c]: the binder_ref of client c
    buf,      \* the transaction buffers
    reading,  \* the thread inside binder_thread_read
    wait_for_proc_work,  \* whether that thread may take the process's work
    alive,    \* processes that have not been released
    box,      \* commands a thread has read and not executed
    busy,     \* threads with BR_TRANSACTION_COMPLETE in their todo list
    hold,     \* threads holding a strong reference of their own
    uS, uW,   \* references the owner holds on the object for the driver
    proxy,    \* proxy[c]: the strong and weak reference client c counts
    stolen    \* a send that failed has left on its own list the item that an
              \* earlier, successful send had put on another thread's

kernVars == <<node, work, ref>>
readVars == <<reading, wait_for_proc_work>>
userVars == <<box, hold, uS, uW, proxy>>
vars == <<kernVars, readVars, userVars, buf, alive, busy, stolen>>

NoNode == [live |-> FALSE, dead |-> FALSE, is |-> 0, ls |-> 0, lw |-> 0,
           hs |-> FALSE, hw |-> FALSE, ps |-> FALSE, pw |-> FALSE]
NoRef == [live |-> FALSE, s |-> 0, w |-> 0]
NoBuf == [to |-> "none", kind |-> "none", strong |-> FALSE, tnode |-> FALSE]

-----------------------------------------------------------------------------
(* The counting functions, on a triple of node, work list and refs.        *)

Kernel == [n |-> node, wk |-> work, r |-> ref]

HasRefs(k) == \E c \in Clients : k.r[c].live

\* One more or one less (i) of a kind of count.  The weak references of the refs
\* are not counted: the node's list of refs stands for them.
AddCount(k, strong, internal, i) ==
    IF strong THEN IF internal THEN [k EXCEPT !.n.is = @ + i] ELSE [k EXCEPT !.n.ls = @ + i]
              ELSE IF internal THEN k ELSE [k EXCEPT !.n.lw = @ + i]

binder_inc_node_fails(k, strong, internal, list) ==
    IF strong THEN internal /\ list = Nobody /\ k.n.is = 0
              ELSE ~k.n.hw /\ k.wk = "none" /\ list = Nobody

\* Mutant: the owner is told through the process's list, whoever sends.
IncNodeToProc(k, strong, internal, list) ==
    IF strong /\ binder_inc_node_fails(k, strong, internal, list) THEN k
    ELSE [AddCount(k, strong, internal, 1) EXCEPT
            !.wk = IF /\ IF strong THEN ~k.n.hs ELSE ~k.n.hw /\ @ = "none"
                      /\ list # Nobody THEN "proc" ELSE @]

\* The weak count is added before binder_inc_node finds that it fails.
binder_inc_node(k, strong, internal, list) ==
    IF strong /\ binder_inc_node_fails(k, strong, internal, list) THEN k
    ELSE [AddCount(k, strong, internal, 1) EXCEPT
            !.wk = IF /\ IF strong THEN ~k.n.hs ELSE ~k.n.hw /\ @ = "none"
                      /\ list # Nobody THEN list ELSE @]

\* Mutant: only a node with a strong reference is reported to the owner.
ReportStrongOnly(k) ==
    IF ~k.n.dead /\ k.n.hs
    THEN [k EXCEPT !.wk = IF @ = "none" THEN "proc" ELSE @]
    ELSE IF ~HasRefs(k) /\ k.n.ls = 0 /\ k.n.lw = 0 /\ ~k.n.hw
    THEN [k EXCEPT !.n = NoNode, !.wk = "none"]
    ELSE k

\* The tail of binder_dec_node, once the counts of the kind dropped are gone:
\* tell the owner, or free a node nobody refers to.
NodeUnused(k) ==
    IF ~k.n.dead /\ (k.n.hs \/ k.n.hw)
    THEN [k EXCEPT !.wk = IF @ = "none" THEN "proc" ELSE @]
    ELSE IF ~HasRefs(k) /\ k.n.ls = 0 /\ k.n.lw = 0
    THEN [k EXCEPT !.n = NoNode, !.wk = "none"]
    ELSE k

binder_dec_node(k, strong, internal) ==
    LET d == AddCount(k, strong, internal, -1)
    IN  IF IF strong THEN d.n.ls > 0 \/ d.n.is > 0 ELSE d.n.lw > 0 \/ HasRefs(d)
        THEN d ELSE NodeUnused(d)

binder_get_ref_for_node(k, c) == [k EXCEPT !.r[c].live = TRUE]

binder_inc_ref(k, c, strong, list) ==
    LET first == IF strong THEN k.r[c].s = 0 ELSE k.r[c].w = 0
    IN  IF first /\ binder_inc_node_fails(k, strong, TRUE, list) THEN k
        ELSE LET i == IF first THEN binder_inc_node(k, strong, TRUE, list) ELSE k
             IN  IF strong THEN [i EXCEPT !.r[c].s = @ + 1]
                           ELSE [i EXCEPT !.r[c].w = @ + 1]

\* Mutant: the strong count of a ref deleted with its process is kept.
DeleteRefKeepsCount(k, c) == binder_dec_node([k EXCEPT !.r[c] = NoRef], FALSE, TRUE)

\* The ref leaves the node's list between the two decrements.
binder_delete_ref(k, c) ==
    LET d == IF k.r[c].s > 0 THEN binder_dec_node(k, TRUE, TRUE) ELSE k
    IN  binder_dec_node([d EXCEPT !.r[c] = NoRef], FALSE, TRUE)

\* Mutant: the count is not tested before it is decremented.
DecRefUnchecked(k, c, strong) ==
    LET d == IF strong THEN [k EXCEPT !.r[c].s = @ - 1]
                       ELSE [k EXCEPT !.r[c].w = @ - 1]
        e == IF strong /\ d.r[c].s = 0 THEN binder_dec_node(d, TRUE, TRUE)
                                       ELSE d
    IN  IF e.r[c].s = 0 /\ e.r[c].w = 0 THEN binder_delete_ref(e, c) ELSE e

binder_dec_ref(k, c, strong) ==
    IF (IF strong THEN k.r[c].s ELSE k.r[c].w) = 0 THEN k
    ELSE LET d == IF strong THEN [k EXCEPT !.r[c].s = @ - 1]
                            ELSE [k EXCEPT !.r[c].w = @ - 1]
             e == IF strong /\ d.r[c].s = 0 THEN binder_dec_node(d, TRUE, TRUE)
                                            ELSE d
         IN  IF e.r[c].s = 0 /\ e.r[c].w = 0 THEN binder_delete_ref(e, c) ELSE e

SetKernel(k) == node' = k.n /\ work' = k.wk /\ ref' = k.r

-----------------------------------------------------------------------------
(* Transactions that carry the object or are sent to it.                   *)

Free(b) == buf[b] = NoBuf /\ \A a \in Buffers : a < b => buf[a] # NoBuf

\* What a buffer counts on is given back: the object it is sent to, then the
\* object or the handle in it.
binder_transaction_buffer_release(k, r) ==
    LET d == IF r.tnode THEN binder_dec_node(k, TRUE, FALSE) ELSE k
    IN  CASE r.kind = "binder" /\ d.n.live -> binder_dec_node(d, r.strong, FALSE)
          [] r.kind = "handle" /\ d.r[r.to].live -> binder_dec_ref(d, r.to, r.strong)
          [] OTHER -> d

\* The end of binder_transaction: buffer r is queued for its receiver, or a
\* later object of the transaction is refused and all is taken back.  The sender
\* then reads the error, and nothing else.
Transact(k, r, b) ==
    /\ SetKernel(k)
    /\ buf' = [buf EXCEPT ![b] = r]
TransactFails(k, r) ==
    /\ SetKernel(binder_transaction_buffer_release(k, r))
    /\ UNCHANGED buf

\* A thread of the owner sends the object to client c (BINDER_TYPE_BINDER,
\* or WEAK_BINDER, which becomes a handle of c); the work item for the owner
\* goes to the sender's own list, before the completion.  When there is no memory
\* for the ref, the error path leaves a node it has just made as it is: without a
\* ref, a count or a work item.
SendObject(t, c, strong, b) ==
    LET n == IF node.live THEN node ELSE [NoNode EXCEPT !.live = TRUE]
        k == binder_inc_ref(binder_get_ref_for_node([Kernel EXCEPT !.n = n], c),
                            c, strong, t)
        r == [NoBuf EXCEPT !.to = c, !.kind = "handle", !.strong = strong]
    IN  /\ reading = Nobody /\ {Owner, c} \subseteq alive /\ Free(b)
        /\ t \in hold /\ t \notin busy /\ box[t] = <<>>
        /\ \/ Transact(k, r, b) /\ busy' = busy \cup {t} /\ UNCHANGED stolen
           \/ /\ TransactFails(k, r)
              /\ stolen' = (stolen \/ (work \in Threads \ {t} /\ work' = t))
              /\ UNCHANGED busy
           \/ ~node.live /\ SetKernel([Kernel EXCEPT !.n = n]) /\ UNCHANGED <<buf, busy, stolen>>
        /\ UNCHANGED <<readVars, alive, userVars>>

\* Client c calls the object (tnode) or another one of the owner, or replies
\* to it, with or without its handle, which becomes the object again.
CallOwner(c, kind, strong, tnode, b) ==
    LET d == IF tnode THEN binder_inc_node(Kernel, TRUE, FALSE, Nobody) ELSE Kernel
        k == IF kind = "binder" THEN binder_inc_node(d, strong, FALSE, Nobody) ELSE d
        r == [NoBuf EXCEPT !.to = Owner, !.kind = kind, !.strong = strong,
                           !.tnode = tnode]
    IN  /\ reading = Nobody /\ {Owner, c} \subseteq alive /\ Free(b)
        /\ ref[c].live
        /\ IF strong \/ tnode THEN proxy[c].s ELSE proxy[c].w
        /\ \/ Transact(k, r, b)
           \/ TransactFails(k, r)
        /\ UNCHANGED <<readVars, alive, busy, stolen, userVars>>

\* Client c sends its handle to client d.
SendHandle(c, d, strong, b) ==
    LET k == binder_inc_ref(binder_get_ref_for_node(Kernel, d), d, strong, Nobody)
        r == [NoBuf EXCEPT !.to = d, !.kind = "handle", !.strong = strong]
    IN  /\ reading = Nobody /\ {c, d} \subseteq alive /\ c # d /\ Free(b)
        /\ ref[c].live
        /\ IF strong THEN proxy[c].s ELSE proxy[c].w
        /\ \/ Transact(k, r, b)
           \/ TransactFails(k, r)
        /\ UNCHANGED <<readVars, alive, busy, stolen, userVars>>

\* The receiver has been given the buffer (BR_TRANSACTION, BR_REPLY), and
\* frees it.
BC_FREE_BUFFER(b) ==
    /\ reading = Nobody /\ buf[b].to \in alive
    /\ SetKernel(binder_transaction_buffer_release(Kernel, buf[b]))
    /\ buf' = [buf EXCEPT ![b] = NoBuf]
    /\ UNCHANGED <<readVars, alive, busy, stolen, userVars>>

-----------------------------------------------------------------------------
(* Commands of a client on its handle.                                     *)

\* The client has the handle from a buffer it received, or counts on it.
Knows(c, strong) ==
    \/ \E b \in Buffers : /\ buf[b].to = c
                          /\ buf[b].kind = "handle" /\ (strong => buf[b].strong)
    \/ proxy[c].s
    \/ ~strong /\ proxy[c].w

ClientInc(c, strong) ==
    /\ reading = Nobody /\ c \in alive
    /\ Knows(c, strong)
    /\ ref[c].live
    /\ ~(IF strong THEN proxy[c].s ELSE proxy[c].w)
    /\ SetKernel(binder_inc_ref(Kernel, c, strong, Nobody))
    /\ proxy' = [proxy EXCEPT ![c] = IF strong THEN [@ EXCEPT !.s = TRUE]
                                               ELSE [@ EXCEPT !.w = TRUE]]
    /\ UNCHANGED <<buf, readVars, alive, busy, stolen, box, hold, uS, uW>>
BC_INCREFS(c) == ClientInc(c, FALSE)
BC_ACQUIRE(c) == ClientInc(c, TRUE)

ClientDec(c, strong) ==
    /\ reading = Nobody /\ c \in alive
    /\ IF strong THEN proxy[c].s ELSE proxy[c].w
    /\ SetKernel(IF ref[c].live THEN binder_dec_ref(Kernel, c, strong) ELSE Kernel)
    /\ proxy' = [proxy EXCEPT ![c] = IF strong THEN [@ EXCEPT !.s = FALSE]
                                               ELSE [@ EXCEPT !.w = FALSE]]
    /\ UNCHANGED <<buf, readVars, alive, busy, stolen, box, hold, uS, uW>>
BC_RELEASE(c) == ClientDec(c, TRUE)
BC_DECREFS(c) == ClientDec(c, FALSE)

-----------------------------------------------------------------------------
(* A thread of the owner reads commands, ...                               *)

Strong == node.is > 0 \/ node.ls > 0
Weak == HasRefs(Kernel) \/ node.lw > 0 \/ Strong

\* A thread comes back to read once it has executed what it read before.  It
\* looks at the process's list only if its own list is empty at the start.  (The
\* read after a failed send returns return_error before it looks at any list: it
\* changes nothing here.)
ReadStart(t) ==
    /\ reading = Nobody /\ Owner \in alive /\ box[t] = <<>>
    /\ work \in {t, "proc"} \/ t \in busy
    /\ reading' = t
    /\ wait_for_proc_work' = (work # t /\ t \notin busy)
    /\ UNCHANGED <<kernVars, buf, alive, busy, stolen, userVars>>

\* The node's item is the next one of thread t.
NodeWork(t) ==
    /\ reading = t
    /\ work = t \/ (work = "proc" /\ t \notin busy /\ wait_for_proc_work)

Tell(t, cmd) ==
    /\ box' = [box EXCEPT ![t] = Append(@, cmd)]
    /\ UNCHANGED <<work, ref, readVars, buf, alive, busy, hold, uS, uW, proxy, stolen>>

BR_INCREFS(t) ==
    /\ NodeWork(t)
    /\ Weak /\ ~node.hw
    /\ node' = [node EXCEPT !.hw = TRUE, !.pw = TRUE, !.lw = @ + 1]
    /\ Tell(t, "INCREFS")

BR_ACQUIRE(t) ==
    /\ NodeWork(t)
    /\ ~(Weak /\ ~node.hw) /\ Strong /\ ~node.hs
    /\ node' = [node EXCEPT !.hs = TRUE, !.ps = TRUE, !.ls = @ + 1]
    /\ Tell(t, "ACQUIRE")

\* Mutant: the driver does not note that it has given its reference back.
ReleaseKeepsRef(t) ==
    /\ NodeWork(t)
    /\ ~(Weak /\ ~node.hw) /\ ~Strong /\ node.hs
    /\ Tell(t, "RELEASE")
    /\ UNCHANGED node

BR_RELEASE(t) ==
    /\ NodeWork(t)
    /\ ~(Weak /\ ~node.hw) /\ ~Strong /\ node.hs
    /\ node' = [node EXCEPT !.hs = FALSE]
    /\ Tell(t, "RELEASE")

BR_DECREFS(t) ==
    /\ NodeWork(t)
    /\ ~Weak /\ node.hw /\ ~node.hs
    /\ node' = [node EXCEPT !.hw = FALSE]
    /\ Tell(t, "DECREFS")

\* Nothing more to say: the item leaves the list, and a node without any
\* reference is freed.
NodeWorkDone(t) ==
    /\ NodeWork(t)
    /\ Weak <=> node.hw
    /\ Strong <=> node.hs
    /\ work' = "none"
    /\ node' = IF Weak THEN node ELSE NoNode
    /\ UNCHANGED <<ref, readVars, buf, alive, busy, stolen, userVars>>

\* The item that follows the node's in the list of a thread that has sent.
BR_TRANSACTION_COMPLETE(t) ==
    /\ reading = t /\ t \in busy /\ work # t
    /\ busy' = busy \ {t}
    /\ UNCHANGED <<kernVars, readVars, buf, alive, stolen, userVars>>

\* binder_thread_read returns: nothing is left, or the user's buffer is full.
ReadReturn(t) ==
    /\ reading = t
    /\ box[t] # <<>> \/ ~(NodeWork(t) \/ t \in busy)
    /\ reading' = Nobody
    /\ wait_for_proc_work' = FALSE
    /\ UNCHANGED <<kernVars, buf, alive, busy, stolen, userVars>>

-----------------------------------------------------------------------------
(* ... and executes them, in user space and with commands to the driver.   *)

Executes(t, cmd) ==
    /\ Owner \in alive /\ reading # t
    /\ box[t] # <<>> /\ Head(box[t]) = cmd
    /\ box' = [box EXCEPT ![t] = Tail(@)]
    /\ UNCHANGED <<readVars, buf, alive, busy, stolen, hold, proxy>>

\* Mutant: the answer does not drop the count taken for it.
IncrefsKeepsCount(t) ==
    /\ reading = Nobody
    /\ Executes(t, "INCREFS")
    /\ uW' = uW + 1
    /\ node' = [node EXCEPT !.pw = FALSE]
    /\ UNCHANGED <<work, ref, uS>>

\* The references are taken, then acknowledged to the driver, which ignores
\* an answer it does not wait for.
BC_INCREFS_DONE(t) ==
    /\ reading = Nobody
    /\ Executes(t, "INCREFS")
    /\ uW' = uW + 1
    /\ SetKernel(IF node.live /\ node.pw
                 THEN binder_dec_node([Kernel EXCEPT !.n.pw = FALSE], FALSE, FALSE)
                 ELSE Kernel)
    /\ UNCHANGED uS

BC_ACQUIRE_DONE(t) ==
    /\ reading = Nobody
    /\ Executes(t, "ACQUIRE")
    /\ uS' = uS + 1
    /\ SetKernel(IF node.live /\ node.ps
                 THEN binder_dec_node([Kernel EXCEPT !.n.ps = FALSE], TRUE, FALSE)
                 ELSE Kernel)
    /\ UNCHANGED uW

\* The references given back are dropped.
DropDriverRef(t) ==
    \/ Executes(t, "RELEASE") /\ uS' = uS - 1 /\ UNCHANGED <<kernVars, uW>>
    \/ Executes(t, "DECREFS") /\ uW' = uW - 1 /\ UNCHANGED <<kernVars, uS>>

\* The owner's own use of the object: a thread drops its reference when it is
\* not sending, gets one from another thread, or from a call it received.
DropHold(t) ==
    /\ t \in hold \ busy /\ reading # t /\ box[t] = <<>> /\ Owner \in alive
    /\ hold' = hold \ {t}
    /\ UNCHANGED <<kernVars, readVars, buf, alive, busy, stolen, box, uS, uW, proxy>>

TakeHold(t) ==
    /\ t \notin hold /\ reading # t /\ box[t] = <<>> /\ Owner \in alive
    /\ \/ hold # {}
       \/ \E b \in Buffers :
             /\ buf[b].to = Owner
             /\ buf[b].tnode \/ (buf[b].kind = "binder" /\ buf[b].strong)
    /\ hold' = hold \cup {t}
    /\ UNCHANGED <<kernVars, readVars, buf, alive, busy, stolen, box, uS, uW, proxy>>

-----------------------------------------------------------------------------
(* binder_deferred_release, run when a process has closed the device.      *)

BuffersOf(p) == {b \in Buffers : buf[b].to = p}
ForgetBuffers(p) ==
    buf' = [b \in Buffers |-> IF b \in BuffersOf(p) THEN NoBuf ELSE buf[b]]

\* The owner: a node that clients refer to stays as a dead node.
ReleaseOwner ==
    /\ reading = Nobody /\ Owner \in alive
    /\ alive' = alive \ {Owner}
    /\ node' = IF HasRefs(Kernel)
               THEN [node EXCEPT !.dead = TRUE, !.ls = 0, !.lw = 0]
               ELSE NoNode
    /\ work' = "none"
    /\ ForgetBuffers(Owner)
    /\ box' = [t \in Threads |-> <<>>]
    /\ busy' = {} /\ hold' = {} /\ uS' = 0 /\ uW' = 0
    /\ UNCHANGED <<ref, readVars, proxy, stolen>>

\* A client: its ref goes, whatever its counts; its buffers are freed without
\* being looked at.
ReleaseClient(c) ==
    /\ reading = Nobody /\ c \in alive
    /\ alive' = alive \ {c}
    /\ SetKernel(IF ref[c].live THEN binder_delete_ref(Kernel, c) ELSE Kernel)
    /\ ForgetBuffers(c)
    /\ proxy' = [proxy EXCEPT ![c] = [s |-> FALSE, w |-> FALSE]]
    /\ UNCHANGED <<readVars, busy, box, hold, uS, uW, stolen>>

-----------------------------------------------------------------------------
\* The owner has made the object and has not sent it yet.
Init ==
    /\ node = NoNode /\ work = "none"
    /\ ref = [c \in Clients |-> NoRef]
    /\ buf = [b \in Buffers |-> NoBuf]
    /\ reading = Nobody /\ wait_for_proc_work = FALSE
    /\ alive = Clients \cup {Owner}
    /\ box = [t \in Threads |-> <<>>]
    /\ busy = {} /\ hold = Threads
    /\ uS = 0 /\ uW = 0
    /\ proxy = [c \in Clients |-> [s |-> FALSE, w |-> FALSE]]
    /\ stolen = FALSE

Thread(t) ==
    \/ ReadStart(t) \/ BR_INCREFS(t) \/ BR_ACQUIRE(t) \/ BR_RELEASE(t)
    \/ BR_DECREFS(t) \/ NodeWorkDone(t) \/ BR_TRANSACTION_COMPLETE(t)
    \/ ReadReturn(t)
    \/ BC_INCREFS_DONE(t) \/ BC_ACQUIRE_DONE(t) \/ DropDriverRef(t)

Send ==
    \E b \in Buffers, strong \in BOOLEAN :
        \/ \E t \in Threads, c \in Clients : SendObject(t, c, strong, b)
        \/ \E c \in Clients, tnode \in BOOLEAN : CallOwner(c, "binder", strong, tnode, b)
        \/ \E c \in Clients : CallOwner(c, "none", FALSE, TRUE, b)
        \/ \E c, d \in Clients : SendHandle(c, d, strong, b)

Next ==
    \/ Send
    \/ \E b \in Buffers : BC_FREE_BUFFER(b)
    \/ \E c \in Clients : \/ BC_INCREFS(c) \/ BC_ACQUIRE(c)
                          \/ BC_RELEASE(c) \/ BC_DECREFS(c)
                          \/ ReleaseClient(c)
    \/ \E t \in Threads : Thread(t) \/ DropHold(t) \/ TakeHold(t)
    \/ ReleaseOwner

Spec == Init /\ [][Next]_vars

\* Loopers come back to read.  Any thread that has sent reads until it has seen
\* the completion, finishes a read it is in and executes what it has read, but
\* need not come back after that, or after a send that failed.  None waits for
\* binder_lock for ever, a mutex with a queue of waiters.  Nothing else is obliged
\* to happen.
Obliged(t) == t \in Loopers \cup busy \/ reading = t \/ box[t] # <<>>
Fairness == \A t \in Threads : SF_vars(Obliged(t) /\ Thread(t))

FairSpec == Spec /\ Fairness

-----------------------------------------------------------------------------
(* Properties.                                                             *)

Commands == {"INCREFS", "ACQUIRE", "RELEASE", "DECREFS"}

\* No count drops below zero and every variable has its type: a reference is
\* given back only by who took it (binder_dec_ref, binder_dec_node).
TypeOK ==
    /\ node \in [live : BOOLEAN, dead : BOOLEAN, is : Nat, ls : Nat, lw : Nat,
                 hs : BOOLEAN, hw : BOOLEAN, ps : BOOLEAN, pw : BOOLEAN]
    /\ work \in Threads \cup {"proc", "none"}
    /\ ref \in [Clients -> [live : BOOLEAN, s : Nat, w : Nat]]
    /\ buf \in [Buffers -> [to : Clients \cup {Owner, "none"},
                            kind : {"none", "handle", "binder"},
                            strong : BOOLEAN, tnode : BOOLEAN]]
    /\ reading \in Threads \cup {Nobody} /\ wait_for_proc_work \in BOOLEAN
    /\ alive \subseteq Clients \cup {Owner}
    /\ box \in [Threads -> Seq(Commands)]
    /\ busy \subseteq Threads /\ hold \subseteq Threads
    /\ uS \in Nat /\ uW \in Nat
    /\ proxy \in [Clients -> [s : BOOLEAN, w : BOOLEAN]]
    /\ stolen \in BOOLEAN

\* A ref never outlives its node, and the node counts exactly the refs with a
\* strong count: a node freed under a ref is a use after free, one counted
\* twice is never freed (binder_delete_ref, binder_dec_node, the owner's and
\* a client's binder_deferred_release in either order).
RefsCounted ==
    /\ \A c \in Clients : ref[c].live => node.live
    /\ node.is = Cardinality({c \in Clients : ref[c].s > 0})

\* When the driver's references on the object are not the ones the node calls
\* for, the node's work item is on a list, so that the owner will be told.
WorkPending ==
    node.live /\ ~node.dead /\ work = "none" => (Weak <=> node.hw) /\ (Strong <=> node.hs)

\* Somebody outside the owner counts on the object.
StronglyReferenced ==
    \/ \E c \in Clients : ref[c].s > 0
    \/ \E b \in Buffers : buf[b].to = Owner
          /\ (buf[b].tnode \/ (buf[b].kind = "binder" /\ buf[b].strong))

\* While a client or a transaction counts on the object, the owner does not
\* destroy it: either the driver's reference is there or a thread of the owner
\* still has its own, whatever the order in which the owner's threads execute
\* the commands they read.  The one exception is a send that fails after
\* binder_inc_node has moved the item from another sender's list: the error
\* path does not put it back, and the other sender is told that its own
\* transaction is complete before the owner has been asked for a reference.
ObjectAlive ==
    Owner \in alive /\ StronglyReferenced /\ ~stolen => uS > 0 \/ hold # {}

\* What the owner did and still has to do with the commands it was given adds
\* up to the reference the driver believes to have.
Told(cmd) == Cardinality({t \in Threads : \E i \in DOMAIN box[t] : box[t][i] = cmd})
DriverRefsExact ==
    Owner \in alive =>
        /\ uS + Told("ACQUIRE") = (IF node.hs THEN 1 ELSE 0) + Told("RELEASE")
        /\ uW + Told("INCREFS") = (IF node.hw THEN 1 ELSE 0) + Told("DECREFS")

\* No client and no buffer refers to the node, and the driver holds a reference
\* of the owner or has asked for one.
Unreferenced ==
    /\ node.live /\ ~HasRefs(Kernel) /\ BuffersOf(Owner) = {}
    /\ node.hw \/ work # "none"

\* A node that nobody refers to any more, on which the driver holds a reference
\* of the owner or has asked for one, does not stay: it is freed, or somebody is
\* sent the object again.  Two things are excepted.  A node made by a send that
\* found no memory for the ref has no reference and no work item, and stays until
\* the object is sent again or the owner exits.  And an item that a failed send
\* has left with a thread that does not come back to read stays there with it.
Reclaimed ==
    Unreferenced ~> \/ ~node.live \/ HasRefs(Kernel)
                    \/ work \in Threads \ (Loopers \cup busy)
=============================================================================
