---------------------------- MODULE PacketChannel ----------------------------
(***************************************************************************)
(* What a socket promises to the threads that send through it: the client   *)
(* gets a prefix of the packets that were queued, in the order they were    *)
(* queued, each once, until the connection breaks.  No buffers, threads,    *)
(* limits or callbacks here: Socket implements this specification.          *)
(***************************************************************************)
EXTENDS Naturals, Sequences

CONSTANT Packet

VARIABLES
    sent,       \* the packets queued so far, in order
    delivered,  \* the packets handed to the connection so far
    broken      \* the connection was closed by either side

vars == <<sent, delivered, broken>>

Init ==
    /\ sent = <<>>
    /\ delivered = <<>>
    /\ broken = FALSE

Send(p) ==
    /\ sent' = Append(sent, p)
    /\ UNCHANGED <<delivered, broken>>

\* Bytes that are on their way may still arrive while the connection breaks.
Deliver ==
    /\ \E n \in Len(delivered) + 1 .. Len(sent) : delivered' = SubSeq(sent, 1, n)
    /\ UNCHANGED <<sent, broken>>

Break ==
    /\ ~broken
    /\ broken' = TRUE
    /\ UNCHANGED <<sent, delivered>>

Next == (\E p \in Packet : Send(p)) \/ Deliver \/ Break

Spec == Init /\ [][Next]_vars
=============================================================================
