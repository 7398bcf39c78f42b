---------------------------- MODULE PacketQueue ----------------------------
(***************************************************************************)
(* What a packet device on a shared memory channel promises its users: a   *)
(* first-in first-out queue of whole packets between the end that writes   *)
(* and the end that reads.  A packet is taken in one piece, or thrown away *)
(* in one piece when the reader's buffer is too small for it.  Once one of *)
(* the ends has left the open state the packet being written may be given  *)
(* up, and nothing else is ever lost, split, duplicated or overtaken.      *)
(***************************************************************************)
EXTENDS Naturals, Sequences

CONSTANTS
    Packet(_, _), \* Packet(n, len): the content of packet number n
    Lens,         \* the lengths a packet may have
    BufLens       \* the sizes of the readers' buffers

VARIABLES
    queue,   \* the packets accepted from the writers and not yet taken
    got,     \* the packets handed to readers, oldest first
    sent,    \* number of packets accepted so far
    closed   \* an end is no longer open

vars == <<queue, got, sent, closed>>

Init ==
    /\ queue = <<>>
    /\ got = <<>>
    /\ sent = 0
    /\ closed = FALSE

Accept(len) ==
    /\ sent' = sent + 1
    /\ queue' = Append(queue, Packet(sent + 1, len))
    /\ UNCHANGED <<got, closed>>

Deliver ==
    /\ queue # <<>>
    /\ got' = Append(got, Head(queue))
    /\ queue' = Tail(queue)
    /\ UNCHANGED <<sent, closed>>

\* Only a reader whose buffer is too small throws a packet away.
Discard ==
    /\ queue # <<>>
    /\ \E size \in BufLens : size < Len(Head(queue))
    /\ queue' = Tail(queue)
    /\ UNCHANGED <<got, sent, closed>>

Close ==
    /\ closed' = TRUE
    /\ UNCHANGED <<queue, got, sent>>

GiveUp ==
    /\ closed
    /\ queue # <<>>
    /\ queue' = SubSeq(queue, 1, Len(queue) - 1)
    /\ UNCHANGED <<got, sent, closed>>

Next ==
    \/ \E len \in Lens : Accept(len)
    \/ Deliver
    \/ Discard
    \/ Close
    \/ GiveUp

Spec == Init /\ [][Next]_vars
=============================================================================
