------------------------------- MODULE Socket -------------------------------
(***************************************************************************)
(* One TCP connection of the server (common/networking/Socket.h): packets   *)
(* queued by any thread, merged into buffers and written by the network     *)
(* thread, the limit of the write queue, the read loop and closing.         *)
(*                                                                          *)
(* The handlers of boost::asio and update() run on the network thread, so a *)
(* handler is one action, except update(), whose accesses to the packet     *)
(* queue and to m_isClosed interleave with the threads of the game.         *)
(* queuePacket() and a closeSocket() of another thread are split at every   *)
(* access to shared state.  Buffer contents are the packets in them, sizes  *)
(* are in bytes.                                                            *)
(***************************************************************************)
EXTENDS Integers, SequencesExt

CONSTANTS
    Packet,             \* the packets that may be sent, each at most once
    ByteSize,           \* getByteSize() of each: header and body
    Sender,             \* the threads that call queuePacket()
    NoPacket,           \* no packet in hand
    SendQueueLimit,     \* Network.SendQueueLimit, 0 is unlimited
    MaxReads            \* bound on the packets received, to keep the model finite

UINT16_MAX == 65535
MESSAGE_BUFFER_SIZE == 4096
SEND_QUEUE_UNLIMITED == 0

ASSUME PacketAssumption == NoPacket \notin Packet
ASSUME SizeAssumption == ByteSize \in [Packet -> 4 .. UINT16_MAX]
ASSUME LimitAssumption == SendQueueLimit \in Nat /\ MaxReads \in Nat

VARIABLES
    m_packetQueue,      \* ConcurrentQueue of packets not merged yet
    m_isClosed,
    m_sendQueueLimit,
    out,                \* the write queue and the state of the connection, see OutRecord
    net,                \* where the network thread is: in the event loop or in update()
    buff,               \* the buffer update() merges packets into
    packet,             \* the packet update() took from the queue
    inHand,             \* the packet a sender passed the test of m_isClosed with
    closer,             \* where the thread that kicks the player is in closeSocket()
    reader,             \* the read handler that is armed
    reads,              \* packets passed to onReceivedData() (bounded by MaxReads)
    reset,              \* the peer or the network broke the connection (external)
    accepted,           \* the packets in the order they were queued (history)
    delivered           \* the packets the kernel took, in order (history)

queueVars == <<m_packetQueue, inHand, accepted>>
mergeVars == <<net, buff, packet>>
readVars == <<reader, reads>>
vars == <<m_packetQueue, m_isClosed, m_sendQueueLimit, out, net, buff, packet, inHand,
          closer, reader, reads, reset, accepted, delivered>>

Buffer == [size : 0 .. UINT16_MAX, packets : Seq(Packet)]

(***************************************************************************)
(* queue and size are m_writeQueue and m_writeQueueSize; isWriting is       *)
(* m_isWritingAsync; pending says that the handler of async_write has not   *)
(* run yet and taken how many packets of the front buffer the kernel took;  *)
(* shutdown says that the sending side of the TCP connection was shut down. *)
(***************************************************************************)
OutRecord == [queue : Seq(Buffer), size : Nat, isWriting : BOOLEAN, pending : BOOLEAN,
              taken : Nat, shutdown : BOOLEAN]

EmptyBuffer == [size |-> MESSAGE_BUFFER_SIZE, packets |-> <<>>]

\* The sum of a sequence of sizes.
Total(sizes) ==
    LET total[i \in 0 .. Len(sizes)] == IF i = 0 THEN 0 ELSE total[i - 1] + sizes[i]
    IN  total[Len(sizes)]

\* The uint16 size of a buffer's contents: the write position minus the read position.
ActiveSize(b) == Total([i \in DOMAIN b.packets |-> ByteSize[b.packets[i]]])
RemainingSpace(b) == b.size - ActiveSize(b)

(***************************************************************************)
(* m_writeQueueSize is an int32; its type here is Nat, so TypeOK also says  *)
(* that it is never decremented below zero.                                 *)
(***************************************************************************)
TypeOK ==
    /\ m_packetQueue \in Seq(Packet)
    /\ m_isClosed \in BOOLEAN
    /\ m_sendQueueLimit \in {SendQueueLimit, SEND_QUEUE_UNLIMITED}
    /\ out \in OutRecord
    /\ net \in {"loop", "merge", "taken"}
    /\ buff \in Buffer
    /\ packet \in Packet \cup {NoPacket}
    /\ inHand \in [Sender -> Packet \cup {NoPacket}]
    /\ closer \in {"idle", "shutdown", "done"}
    /\ reader \in {"idle", "header", "body", "stopped"}
    /\ reads \in 0 .. MaxReads
    /\ reset \in BOOLEAN
    /\ accepted \in Seq(Packet)
    /\ delivered \in Seq(Packet)

Init ==
    /\ m_packetQueue = <<>>
    /\ m_isClosed = FALSE
    /\ m_sendQueueLimit = SendQueueLimit
    /\ out = [queue |-> <<>>, size |-> 0, isWriting |-> FALSE, pending |-> FALSE,
              taken |-> 0, shutdown |-> FALSE]
    /\ net = "loop"
    /\ buff = EmptyBuffer
    /\ packet = NoPacket
    /\ inHand = [s \in Sender |-> NoPacket]
    /\ closer = "idle"
    /\ reader = "idle"
    /\ reads = 0
    /\ reset = FALSE
    /\ accepted = <<>>
    /\ delivered = <<>>

-----------------------------------------------------------------------------
(***************************************************************************)
(* Any thread.                                                              *)
(***************************************************************************)

\* queuePacket() returns at once on a closed socket ...
QueueTest(s, p) ==
    /\ inHand[s] = NoPacket
    /\ ~m_isClosed
    /\ p \notin ToSet(accepted) \cup {inHand[t] : t \in Sender}
    /\ inHand' = [inHand EXCEPT ![s] = p]
    /\ UNCHANGED <<m_packetQueue, m_isClosed, m_sendQueueLimit, out, mergeVars, closer, readVars,
                   reset, accepted, delivered>>

\* ... and adds the packet to the queue later, under the queue's own lock only.
QueueAdd(s) ==
    /\ inHand[s] # NoPacket
    /\ m_packetQueue' = Append(m_packetQueue, inHand[s])
    /\ accepted' = Append(accepted, inHand[s])
    /\ inHand' = [inHand EXCEPT ![s] = NoPacket]
    /\ UNCHANGED <<m_isClosed, m_sendQueueLimit, out, mergeVars, closer, readVars, reset, delivered>>

\* closeSocket() called by a thread of the game: m_isClosed.exchange(true) ...
CloseExchange ==
    /\ closer = "idle"
    /\ m_isClosed' = TRUE
    /\ closer' = IF m_isClosed THEN "done" ELSE "shutdown"
    /\ UNCHANGED <<queueVars, m_sendQueueLimit, out, mergeVars, readVars, reset, delivered>>

\* ... and the shutdown of the sending side by the thread that won the exchange.
CloseShutdown ==
    /\ closer = "shutdown"
    /\ out' = [out EXCEPT !.shutdown = TRUE]
    /\ closer' = "done"
    /\ UNCHANGED <<queueVars, m_isClosed, m_sendQueueLimit, mergeVars, readVars, reset, delivered>>

-----------------------------------------------------------------------------
(***************************************************************************)
(* The network thread: closing, the write queue and update().               *)
(***************************************************************************)

\* closeSocket() on the network thread: what becomes of out; m_isClosed is set as well.
CloseSocket(o) == [o EXCEPT !.shutdown = @ \/ ~m_isClosed]

ProcessWriteQueue(o) ==
    IF o.isWriting THEN o ELSE [o EXCEPT !.isWriting = TRUE, !.pending = TRUE, !.taken = 0]

\* Mutant: the limit is tested with > instead of >=.
MutIsFull(o) == m_sendQueueLimit # SEND_QUEUE_UNLIMITED /\ o.size > m_sendQueueLimit

IsFull(o) == m_sendQueueLimit # SEND_QUEUE_UNLIMITED /\ o.size >= m_sendQueueLimit

AddToWriteQueue(o, b) ==
    IF IsFull(o)
    THEN CloseSocket(o)
    ELSE ProcessWriteQueue([o EXCEPT !.size = @ + b.size, !.queue = Append(@, b)])

\* The timer of the network thread fires, the socket is open and has packets.
UpdateBegin ==
    /\ net = "loop"
    /\ reader # "idle"
    /\ ~m_isClosed
    /\ m_packetQueue # <<>>
    /\ net' = "merge"
    /\ buff' = EmptyBuffer
    /\ UNCHANGED <<queueVars, m_isClosed, m_sendQueueLimit, out, packet, closer, readVars, reset,
                   delivered>>

MergeNext ==
    /\ net = "merge"
    /\ m_packetQueue # <<>>
    /\ packet' = Head(m_packetQueue)
    /\ m_packetQueue' = Tail(m_packetQueue)
    /\ net' = "taken"
    /\ UNCHANGED <<inHand, accepted, m_isClosed, m_sendQueueLimit, out, buff, closer, readVars,
                   reset, delivered>>

\* The socket was closed meanwhile: update() returns and drops packet and buffer.
MergeClosed ==
    /\ net = "taken"
    /\ m_isClosed
    /\ net' = "loop"
    /\ packet' = NoPacket
    /\ buff' = EmptyBuffer
    /\ UNCHANGED <<queueVars, m_isClosed, m_sendQueueLimit, out, closer, readVars, reset, delivered>>

\* Mutant: a large packet overtakes the packets that wait in the buffer.
MutMergePacket ==
    /\ net = "taken"
    /\ ~m_isClosed
    /\ LET size == ByteSize[packet]
           fits == RemainingSpace(buff) >= size
           large == [size |-> size, packets |-> <<packet>>]
       IN  /\ out' = IF fits THEN out ELSE AddToWriteQueue(out, large)
           /\ buff' = IF fits THEN [buff EXCEPT !.packets = Append(@, packet)] ELSE buff
           /\ m_isClosed' = (~fits /\ IsFull(out))
    /\ packet' = NoPacket
    /\ net' = "merge"
    /\ UNCHANGED <<queueVars, m_sendQueueLimit, closer, readVars, reset, delivered>>

(***************************************************************************)
(* The packet goes into the buffer, which is written first if it has no     *)
(* room left, or into a buffer of its own if it is larger than a buffer.  A *)
(* buffer the full write queue rejected keeps its contents: it has not been *)
(* moved from.                                                              *)
(***************************************************************************)
MergePacket ==
    /\ net = "taken"
    /\ ~m_isClosed
    /\ LET size == ByteSize[packet]
           flush == RemainingSpace(buff) < size /\ ActiveSize(buff) > 0
           flushed == IF flush THEN AddToWriteQueue(out, buff) ELSE out
           room == IF flush /\ ~IsFull(out) THEN EmptyBuffer ELSE buff
           fits == RemainingSpace(room) >= size
           large == [size |-> size, packets |-> <<packet>>]
       IN  /\ out' = IF fits THEN flushed ELSE AddToWriteQueue(flushed, large)
           /\ buff' = IF fits THEN [room EXCEPT !.packets = Append(@, packet)] ELSE room
           /\ m_isClosed' = ((flush /\ IsFull(out)) \/ (~fits /\ IsFull(flushed)))
    /\ packet' = NoPacket
    /\ net' = "merge"
    /\ UNCHANGED <<queueVars, m_sendQueueLimit, closer, readVars, reset, delivered>>

\* Mutant: a buffer that is not full waits for the next update(), which starts with a new one.
MutMergeEnd ==
    /\ net = "merge"
    /\ m_packetQueue = <<>>
    /\ buff' = EmptyBuffer
    /\ net' = "loop"
    /\ UNCHANGED <<queueVars, m_isClosed, m_sendQueueLimit, out, packet, closer, readVars, reset,
                   delivered>>

\* The packet queue is empty: the last buffer is written and update() returns.
MergeEnd ==
    /\ net = "merge"
    /\ m_packetQueue = <<>>
    /\ LET rest == ActiveSize(buff) > 0
       IN  /\ out' = IF rest THEN AddToWriteQueue(out, buff) ELSE out
           /\ m_isClosed' = (m_isClosed \/ (rest /\ IsFull(out)))
    /\ buff' = EmptyBuffer
    /\ net' = "loop"
    /\ UNCHANGED <<queueVars, m_sendQueueLimit, packet, closer, readVars, reset, delivered>>

\* Mutant: the next buffer is not written until something is added to the queue.
MutWriteCompleted ==
    /\ net = "loop"
    /\ out.pending
    /\ out.taken = Len(Head(out.queue).packets)
    /\ out' = [out EXCEPT !.isWriting = FALSE, !.pending = FALSE,
                          !.size = @ - Head(out.queue).size, !.queue = Tail(@)]
    /\ UNCHANGED <<queueVars, m_isClosed, m_sendQueueLimit, mergeVars, closer, readVars, reset,
                   delivered>>

\* The handler of async_write after all bytes of the front buffer were transferred.
WriteCompleted ==
    /\ net = "loop"
    /\ out.pending
    /\ out.taken = Len(Head(out.queue).packets)
    /\ LET done == [out EXCEPT !.isWriting = FALSE, !.pending = FALSE,
                              !.size = @ - Head(out.queue).size, !.queue = Tail(@)]
       IN  out' = IF done.queue # <<>> THEN ProcessWriteQueue(done) ELSE done
    /\ UNCHANGED <<queueVars, m_isClosed, m_sendQueueLimit, mergeVars, closer, readVars, reset,
                   delivered>>

\* The handler of async_write after an error: nothing is written any more.
WriteFailed ==
    /\ net = "loop"
    /\ out.pending
    /\ out.taken < Len(Head(out.queue).packets)
    /\ out.shutdown \/ reset
    /\ out' = CloseSocket([out EXCEPT !.pending = FALSE])
    /\ m_isClosed' = TRUE
    /\ UNCHANGED <<queueVars, m_sendQueueLimit, mergeVars, closer, readVars, reset, delivered>>

-----------------------------------------------------------------------------
(***************************************************************************)
(* The network thread: the read loop.                                       *)
(***************************************************************************)

\* start(), called by processPendingSockets(), arms the first read.
AsyncRead ==
    /\ net = "loop"
    /\ reader = "idle"
    /\ reader' = "header"
    /\ UNCHANGED <<queueVars, m_isClosed, m_sendQueueLimit, out, mergeVars, closer, reads, reset,
                   delivered>>

\* A header was read; a packet without a body is complete.
HeaderRead(hasBody) ==
    /\ net = "loop"
    /\ reader = "header"
    /\ ~reset
    /\ reads < MaxReads
    /\ reader' = IF hasBody THEN "body" ELSE "header"
    /\ reads' = IF hasBody THEN reads ELSE reads + 1
    /\ UNCHANGED <<queueVars, m_isClosed, m_sendQueueLimit, out, mergeVars, closer, reset, delivered>>

(***************************************************************************)
(* The body of a packet was read.  The packet may be the proof of a game    *)
(* master, for which handleAuthProof() lifts the limit of the write queue.  *)
(***************************************************************************)
BodyRead(gm) ==
    /\ net = "loop"
    /\ reader = "body"
    /\ ~reset
    /\ reader' = "header"
    /\ reads' = reads + 1
    /\ m_sendQueueLimit' = IF gm THEN SEND_QUEUE_UNLIMITED ELSE m_sendQueueLimit
    /\ UNCHANGED <<queueVars, m_isClosed, out, mergeVars, closer, reset, delivered>>

\* decodeHeader() throws, or the read fails: closeSocket(), and no further read.
ReadFailed ==
    /\ net = "loop"
    /\ reader \in {"header", "body"}
    /\ reset \/ reader = "header"
    /\ reader' = "stopped"
    /\ out' = CloseSocket(out)
    /\ m_isClosed' = TRUE
    /\ UNCHANGED <<queueVars, m_sendQueueLimit, mergeVars, closer, reads, reset, delivered>>

-----------------------------------------------------------------------------
(***************************************************************************)
(* The kernel and the peer (external).                                      *)
(***************************************************************************)

\* The kernel takes the bytes of one or more further packets of the front buffer.
KernelTakes ==
    /\ out.pending
    /\ ~out.shutdown
    /\ ~reset
    /\ \E n \in out.taken + 1 .. Len(Head(out.queue).packets) :
          /\ out' = [out EXCEPT !.taken = n]
          /\ delivered' = delivered \o SubSeq(Head(out.queue).packets, out.taken + 1, n)
    /\ UNCHANGED <<queueVars, m_isClosed, m_sendQueueLimit, mergeVars, closer, readVars, reset>>

\* The peer closes or resets the connection.
PeerResets ==
    /\ ~reset
    /\ reset' = TRUE
    /\ UNCHANGED <<queueVars, m_isClosed, m_sendQueueLimit, out, mergeVars, closer, readVars,
                   delivered>>

NetworkThread ==
    \/ UpdateBegin \/ MergeNext \/ MergeClosed \/ MergePacket \/ MergeEnd
    \/ WriteCompleted \/ WriteFailed \/ AsyncRead \/ ReadFailed
    \/ \E b \in BOOLEAN : HeaderRead(b) \/ BodyRead(b)

Next ==
    \/ \E s \in Sender : QueueAdd(s) \/ \E p \in Packet : QueueTest(s, p)
    \/ CloseExchange
    \/ CloseShutdown
    \/ NetworkThread
    \/ KernelTakes
    \/ PeerResets

Spec == Init /\ [][Next]_vars

(***************************************************************************)
(* The timer of the network thread rearms itself and the event loop runs    *)
(* until stop(); a sender finishes the call it is in.  That the kernel      *)
(* takes bytes of a connection that stays up is an assumption about the     *)
(* peer: one that stops reading fills the write queue.                      *)
(***************************************************************************)
FairSpec ==
    /\ Spec
    /\ WF_vars(AsyncRead) /\ WF_vars(UpdateBegin) /\ WF_vars(MergeNext)
    /\ WF_vars(MergePacket) /\ WF_vars(MergeEnd) /\ WF_vars(WriteCompleted)
    /\ WF_vars(KernelTakes)
    /\ \A s \in Sender : WF_vars(QueueAdd(s))

-----------------------------------------------------------------------------
(***************************************************************************)
(* Properties.                                                              *)
(***************************************************************************)

\* Packets the kernel has not taken, in the order in which they are going to be written.
InFlight ==
    LET written == [i \in DOMAIN out.queue |-> out.queue[i].packets]
        rest == FlattenSeq(written)
    IN  SubSeq(rest, out.taken + 1, Len(rest)) \o buff.packets
          \o (IF packet = NoPacket THEN <<>> ELSE <<packet>>) \o m_packetQueue

(***************************************************************************)
(* While the socket is open, merging, splitting over buffers, large packets *)
(* and partial writes neither lose, duplicate nor reorder a packet: what    *)
(* was taken and what is under way make up what was queued (Socket::update  *)
(* and processWriteQueue).                                                  *)
(***************************************************************************)
NothingLost == ~m_isClosed => delivered \o InFlight = accepted

LargestBuffer == Max({MESSAGE_BUFFER_SIZE} \cup {ByteSize[p] : p \in Packet})

(***************************************************************************)
(* The limit of the send queue bounds the memory of a client that does not  *)
(* read: m_writeQueueSize is the total size of the buffers that wait, and   *)
(* it exceeds the limit by less than one buffer (addToWriteQueue), as long  *)
(* as the limit is not lifted.                                              *)
(***************************************************************************)
QueueBounded ==
    /\ out.size = Total([i \in DOMAIN out.queue |-> out.queue[i].size])
    /\ m_sendQueueLimit # SEND_QUEUE_UNLIMITED => out.size < m_sendQueueLimit + LargestBuffer

(***************************************************************************)
(* An open socket is served: its read is armed, and one write is under way  *)
(* exactly when the write queue is not empty (processWriteQueue and the     *)
(* handlers); the buffer a write refers to stays the front of the queue.    *)
(***************************************************************************)
OpenIsServed ==
    /\ ~m_isClosed => reader # "stopped"
    /\ ~m_isClosed => (out.isWriting <=> out.queue # <<>>) /\ (out.pending <=> out.isWriting)
    /\ out.pending => out.queue # <<>> /\ out.taken <= Len(Head(out.queue).packets)

\* Every packet that was queued is taken by the kernel, or the connection ends.
SentIsDelivered ==
    \A p \in Packet : p \in ToSet(accepted) ~> (p \in ToSet(delivered) \/ m_isClosed \/ reset)

\* The socket implements the channel its users see.
Channel == INSTANCE PacketChannel WITH sent <- accepted, broken <- m_isClosed
ImplementsChannel == Channel!Spec
=============================================================================
