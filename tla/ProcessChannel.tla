--------------------------- MODULE ProcessChannel ---------------------------
(***************************************************************************)
(* The framed message channel between two Lunaria processes, channel_open  *)
(* to channel_close of src/src/luna_process_ipc.c, with one endpoint in    *)
(* each process and a stream socket pair between them.                     *)
(*                                                                         *)
(* The stream carries units in place of bytes: packet number n of a sender *)
(* is HeaderSize header units and as many payload units as its size, and   *)
(* unit i of it is <<n, i>>.  A header is good (the magic matches) when    *)
(* the eight bytes read for it are the header of one packet; its length    *)
(* field is then that packet's size.  Every send() and recv() is a step of *)
(* its own, because the peer process runs in between; the rest of a call   *)
(* runs under the endpoint's mutex.  One thread per endpoint ticks; any    *)
(* thread sends, the callback of a tick included.                          *)
(***************************************************************************)
EXTENDS Integers, SequencesExt

CONSTANTS Ends,         \* the two endpoints
          Sizes,        \* payload sizes, at most LUNA_PROCESS_MESSAGE_MAX
          HeaderSize,   \* 8
          QueueMax,     \* QUEUE_MAX
          SocketSize,   \* what the kernel buffers in one direction
          TickMax,      \* 32
          MaxSends      \* bound: packets accepted from each endpoint

ASSUME EndsAssumption == \E a, b \in Ends : a # b /\ Ends = {a, b}
ASSUME SizesAssumption == /\ Sizes \subseteq Nat
                          /\ HeaderSize \in Nat \ {0}
                          /\ {QueueMax, SocketSize, TickMax} \subseteq Nat \ {0}
                          /\ MaxSends \in [Ends -> Nat]

VARIABLES sent,      \* history: sizes of the packets accepted from e
          got,       \* history: payloads passed to e's callback
          queue,     \* c->head .. c->tail: packets left to send, [no, offset]
          queued,    \* c->queued
          error,     \* c->error
          header,    \* c->header, the header_size units read so far
          incoming,  \* c->incoming, the received units of it, or Nothing
          batch,     \* head .. tail of the tick: complete payloads
          wire,      \* units on their way to e, in the kernel
          open,      \* e has not closed its descriptor
          reset,     \* the peer of e closed without reading all it was sent
          passed,    \* history: how many packets of e went whole into the socket
          epipe,     \* history: a send() of e found the peer gone
          pc

endpoint == <<queue, queued, error, header, incoming, batch>>
history == <<passed, epipe>>
vars == <<sent, got, queue, queued, error, header, incoming, batch, wire, open, reset, history, pc>>

Peer(e) == CHOOSE p \in Ends : p # e
Unit(n, i) == <<n, i>>
Nothing == <<Unit(0, 0)>>   \* no packet has such a unit

PC == {"idle", "flush", "deliver", "deliver flush", "tick", "recv"}
Errno == {"none", "EPIPE", "EPROTO", "ECONNRESET"}

TypeOK == /\ sent \in [Ends -> Seq(Sizes)]
          /\ \A e \in Ends :
               /\ \A i \in 1..Len(queue[e]) :
                    LET p == queue[e][i]
                    IN /\ p.no \in 1..Len(sent[e])
                       /\ p.offset \in 0..(HeaderSize + sent[e][p.no] - 1)
               /\ queued[e] \in 0..QueueMax
               /\ Len(header[e]) <= HeaderSize
               /\ Len(batch[e]) <= TickMax
               /\ Len(wire[e]) <= SocketSize
          /\ error \in [Ends -> Errno]
          /\ open \in [Ends -> BOOLEAN]
          /\ reset \in [Ends -> BOOLEAN]
          /\ epipe \in [Ends -> BOOLEAN]
          /\ \A e \in Ends : open[e] => passed[e] + Len(queue[e]) = Len(sent[e])
          /\ pc \in [Ends -> PC]

Init == /\ sent = [e \in Ends |-> <<>>] /\ got = [e \in Ends |-> <<>>]
        /\ queue = [e \in Ends |-> <<>>] /\ queued = [e \in Ends |-> 0]
        /\ error = [e \in Ends |-> "none"]
        /\ header = [e \in Ends |-> <<>>] /\ incoming = [e \in Ends |-> Nothing]
        /\ batch = [e \in Ends |-> <<>>] /\ wire = [e \in Ends |-> <<>>]
        /\ open = [e \in Ends |-> TRUE] /\ reset = [e \in Ends |-> FALSE]
        /\ passed = [e \in Ends |-> 0] /\ epipe = [e \in Ends |-> FALSE]
        /\ pc = [e \in Ends |-> "idle"]

Least(m, n) == IF m < n THEN m ELSE n
Goto(e, label) == pc' = [pc EXCEPT ![e] = label]

-----------------------------------------------------------------------------
\* Mutant: the limit counts whole packets only, not the one being added.
SendUnbounded(e, size) ==
    /\ open[e] /\ pc[e] \in {"idle", "deliver"}
    /\ error[e] = "none"
    /\ queued[e] <= QueueMax
    /\ Len(sent[e]) < MaxSends[e]
    /\ sent' = [sent EXCEPT ![e] = Append(@, size)]
    /\ queue' = [queue EXCEPT ![e] = Append(@, [no |-> Len(sent[e]) + 1, offset |-> 0])]
    /\ queued' = [queued EXCEPT ![e] = @ + size + HeaderSize]
    /\ Goto(e, IF pc[e] = "idle" THEN "flush" ELSE "deliver flush")
    /\ UNCHANGED <<got, error, header, incoming, batch, wire, open, reset, history>>

\* luna_process_channel_send, by the ticking thread, a callback or another
\* thread.  A channel in error and a full queue refuse the packet.
Send(e, size) ==
    /\ open[e] /\ pc[e] \in {"idle", "deliver"}
    /\ error[e] = "none"
    /\ queued[e] + size + HeaderSize <= QueueMax
    /\ Len(sent[e]) < MaxSends[e]
    /\ sent' = [sent EXCEPT ![e] = Append(@, size)]
    /\ queue' = [queue EXCEPT ![e] = Append(@, [no |-> Len(sent[e]) + 1, offset |-> 0])]
    /\ queued' = [queued EXCEPT ![e] = @ + size + HeaderSize]
    /\ Goto(e, IF pc[e] = "idle" THEN "flush" ELSE "deliver flush")
    /\ UNCHANGED <<got, error, header, incoming, batch, wire, open, reset, history>>

\* Where a call goes on after flush has returned 0, and after it has failed.
FlushDone(e) == CASE pc[e] = "flush" -> "idle"
                  [] pc[e] = "deliver flush" -> "deliver"
                  [] pc[e] = "tick" -> "recv"
FlushFailed(e) == IF pc[e] = "flush" THEN "idle" ELSE "deliver"
Flushing(e) == pc[e] \in {"flush", "deliver flush", "tick"}

\* Mutant: a partial send takes the rest of the packet off the count.
FlushSomeCountsPacket(e) ==
    /\ Flushing(e) /\ queue[e] # <<>> /\ open[Peer(e)]
    /\ LET p == Head(queue[e])
           size == HeaderSize + sent[e][p.no]
       IN \E n \in 1..Least(size - p.offset, SocketSize - Len(wire[Peer(e)])) :
            /\ wire' = [wire EXCEPT ![Peer(e)] = @ \o [i \in 1..n |-> Unit(p.no, p.offset + i)]]
            /\ queued' = [queued EXCEPT ![e] = @ - (size - p.offset)]
            /\ IF p.offset + n = size
               THEN queue' = [queue EXCEPT ![e] = Tail(@)] /\ passed' = [passed EXCEPT ![e] = @ + 1]
               ELSE queue' = [queue EXCEPT ![e][1].offset = p.offset + n] /\ UNCHANGED passed
    /\ UNCHANGED <<sent, got, error, header, incoming, batch, open, reset, pc, epipe>>

\* One send() of flush: some of the first packet, no more than the kernel takes.
FlushSome(e) ==
    /\ Flushing(e) /\ queue[e] # <<>> /\ open[Peer(e)]
    /\ LET p == Head(queue[e])
           size == HeaderSize + sent[e][p.no]
       IN \E n \in 1..Least(size - p.offset, SocketSize - Len(wire[Peer(e)])) :
            /\ wire' = [wire EXCEPT ![Peer(e)] = @ \o [i \in 1..n |-> Unit(p.no, p.offset + i)]]
            /\ queued' = [queued EXCEPT ![e] = @ - n]
            /\ IF p.offset + n = size
               THEN queue' = [queue EXCEPT ![e] = Tail(@)] /\ passed' = [passed EXCEPT ![e] = @ + 1]
               ELSE queue' = [queue EXCEPT ![e][1].offset = p.offset + n] /\ UNCHANGED passed
    /\ UNCHANGED <<sent, got, error, header, incoming, batch, open, reset, pc, epipe>>

\* The queue is empty, or the kernel buffer is full (EAGAIN).
FlushReturns(e) ==
    /\ Flushing(e)
    /\ queue[e] = <<>> \/ (open[Peer(e)] /\ Len(wire[Peer(e)]) = SocketSize)
    /\ Goto(e, FlushDone(e))
    /\ UNCHANGED <<sent, got, queue, queued, error, header, incoming, batch, wire, open, reset, history>>

\* The peer is gone (EPIPE): the error stays on the channel and the tick
\* goes on with what it has received so far, which is nothing.
FlushFails(e) ==
    /\ Flushing(e) /\ queue[e] # <<>> /\ ~open[Peer(e)]
    /\ error' = [error EXCEPT ![e] = "EPIPE"]
    /\ epipe' = [epipe EXCEPT ![e] = TRUE]
    /\ Goto(e, FlushFailed(e))
    /\ UNCHANGED <<sent, got, queue, queued, header, incoming, batch, wire, open, reset, passed>>

-----------------------------------------------------------------------------
\* Mutant: the tick only receives.
TickWithoutFlush(e) == /\ open[e] /\ pc[e] = "idle" /\ error[e] = "none"
           /\ Goto(e, "recv")
           /\ UNCHANGED <<sent, got, endpoint, wire, open, reset, history>>

\* luna_process_channel_tick takes the lock; an error ends it at once.
Tick(e) == /\ open[e] /\ pc[e] = "idle" /\ error[e] = "none"
           /\ Goto(e, "tick")
           /\ UNCHANGED <<sent, got, endpoint, wire, open, reset, history>>

Receiving(e) == pc[e] = "recv" /\ Len(batch[e]) < TickMax

\* get32 of a whole header, the size of the packet it announces.
Announced(e) == sent[Peer(e)][header[e][1][1]]

\* The header of one packet, in order: what starts with the magic.
GoodHeader(e) == \A i \in 1..HeaderSize : header[e][i] = Unit(header[e][1][1], i)

\* What the next recv() may fill.
Left(e) == IF Len(header[e]) < HeaderSize THEN HeaderSize - Len(header[e])
           ELSE Announced(e) - Len(incoming[e])

\* The header is whole: check it and make room for the payload.
StartPacket(e) ==
    /\ Receiving(e) /\ Len(header[e]) = HeaderSize /\ incoming[e] = Nothing
    /\ IF GoodHeader(e)
       THEN /\ incoming' = [incoming EXCEPT ![e] = <<>>]
            /\ UNCHANGED <<error, pc>>
       ELSE /\ error' = [error EXCEPT ![e] = "EPROTO"]
            /\ Goto(e, "deliver")
            /\ UNCHANGED incoming
    /\ UNCHANGED <<sent, got, queue, queued, header, batch, wire, open, reset, history>>

\* Mutant: the header of the finished packet is not reset.
FinishPacketKeepsHeader(e) ==
    /\ Receiving(e) /\ incoming[e] # Nothing /\ Left(e) = 0
    /\ batch' = [batch EXCEPT ![e] = Append(@, [from |-> header[e], data |-> incoming[e]])]
    /\ incoming' = [incoming EXCEPT ![e] = Nothing]
    /\ UNCHANGED <<sent, got, queue, queued, error, header, wire, open, reset, pc, history>>

\* The payload is whole: it joins the batch and the next header begins.
FinishPacket(e) ==
    /\ Receiving(e) /\ incoming[e] # Nothing /\ Left(e) = 0
    /\ batch' = [batch EXCEPT ![e] = Append(@, [from |-> header[e], data |-> incoming[e]])]
    /\ incoming' = [incoming EXCEPT ![e] = Nothing]
    /\ header' = [header EXCEPT ![e] = <<>>]
    /\ UNCHANGED <<sent, got, queue, queued, error, wire, open, reset, pc, history>>

Wanting(e) == /\ Receiving(e)
              /\ Len(header[e]) < HeaderSize \/ (incoming[e] # Nothing /\ Left(e) > 0)

\* One recv(): some of what there is, no more than was asked for.
Recv(e) ==
    /\ Wanting(e)
    /\ \E n \in 1..Least(Left(e), Len(wire[e])) :
         LET units == SubSeq(wire[e], 1, n)
         IN /\ wire' = [wire EXCEPT ![e] = SubSeq(@, n + 1, Len(@))]
            /\ IF Len(header[e]) < HeaderSize
               THEN header' = [header EXCEPT ![e] = @ \o units] /\ UNCHANGED incoming
               ELSE incoming' = [incoming EXCEPT ![e] = @ \o units] /\ UNCHANGED header
    /\ UNCHANGED <<sent, got, queue, queued, error, batch, open, reset, pc, history>>

\* Mutant: running dry inside a packet is taken for its end.
RecvReturnsStrict(e) ==
    /\ \/ Wanting(e) /\ wire[e] = <<>> /\ open[Peer(e)]
       \/ pc[e] = "recv" /\ Len(batch[e]) = TickMax
    /\ Goto(e, "deliver")
    /\ error' = [error EXCEPT ![e] = IF header[e] # <<>> THEN "EPROTO" ELSE @]
    /\ UNCHANGED <<sent, got, queue, queued, header, incoming, batch, wire, open, reset, history>>

\* Nothing to read now (EAGAIN), or the tick has its fill.
RecvReturns(e) ==
    /\ \/ Wanting(e) /\ wire[e] = <<>> /\ open[Peer(e)]
       \/ pc[e] = "recv" /\ Len(batch[e]) = TickMax
    /\ Goto(e, "deliver")
    /\ UNCHANGED <<sent, got, endpoint, wire, open, reset, history>>

\* Mutant: the tick that meets the end frees what it received before it.
RecvEndDropsBatch(e) ==
    /\ Wanting(e) /\ wire[e] = <<>> /\ ~open[Peer(e)]
    /\ error' = [error EXCEPT ![e] =
                   CASE reset[e] -> "ECONNRESET"
                     [] ~reset[e] /\ (header[e] # <<>> \/ incoming[e] # Nothing) -> "EPROTO"
                     [] OTHER -> "EPIPE"]
    /\ batch' = [batch EXCEPT ![e] = <<>>]
    /\ Goto(e, "deliver")
    /\ UNCHANGED <<sent, got, queue, queued, header, incoming, wire, open, reset, history>>

\* End of file: in the middle of a packet it is a protocol error.  A peer that
\* closed with input unread makes recv() fail instead.
RecvEnd(e) ==
    /\ Wanting(e) /\ wire[e] = <<>> /\ ~open[Peer(e)]
    /\ error' = [error EXCEPT ![e] =
                   CASE reset[e] -> "ECONNRESET"
                     [] ~reset[e] /\ (header[e] # <<>> \/ incoming[e] # Nothing) -> "EPROTO"
                     [] OTHER -> "EPIPE"]
    /\ Goto(e, "deliver")
    /\ UNCHANGED <<sent, got, queue, queued, header, incoming, batch, wire, open, reset, history>>

\* The lock is dropped; the callback sees the packets of this tick in order.
Deliver(e) ==
    /\ pc[e] = "deliver"
    /\ IF batch[e] = <<>>
       THEN Goto(e, "idle") /\ UNCHANGED <<got, batch>>
       ELSE /\ got' = [got EXCEPT ![e] = Append(@, Head(batch[e]))]
            /\ batch' = [batch EXCEPT ![e] = Tail(@)]
            /\ UNCHANGED pc
    /\ UNCHANGED <<sent, queue, queued, error, header, incoming, wire, open, reset, history>>

\* luna_process_channel_close, or the end of the process.
Close(e) ==
    /\ open[e] /\ pc[e] = "idle"
    /\ open' = [open EXCEPT ![e] = FALSE]
    /\ reset' = [reset EXCEPT ![Peer(e)] = wire[e] # <<>>]
    /\ wire' = [wire EXCEPT ![e] = <<>>]
    /\ queue' = [queue EXCEPT ![e] = <<>>] /\ queued' = [queued EXCEPT ![e] = 0]
    /\ header' = [header EXCEPT ![e] = <<>>] /\ incoming' = [incoming EXCEPT ![e] = Nothing]
    /\ UNCHANGED <<sent, got, error, batch, pc, history>>

Step(e) == \/ FlushSome(e) \/ FlushReturns(e) \/ FlushFails(e)
           \/ StartPacket(e) \/ FinishPacket(e) \/ Recv(e) \/ RecvReturns(e) \/ RecvEnd(e)
           \/ Deliver(e)
Next == \E e \in Ends : Step(e) \/ Tick(e) \/ Close(e) \/ \E size \in Sizes : Send(e, size)
Spec == Init /\ [][Next]_vars
\* Each process goes on with the call it is in and ticks its channel from
\* its main loop once a frame.  Nobody need send or close.
FairSpec == Spec /\ \A e \in Ends : WF_vars(Step(e)) /\ WF_vars(Tick(e))

-----------------------------------------------------------------------------
Whole(e, n) == [from |-> [i \in 1..HeaderSize |-> Unit(n, i)],
                data |-> [i \in 1..sent[e][n] |-> Unit(n, HeaderSize + i)]]

\* The callback of an endpoint sees the packets of its peer unharmed, in the
\* order they were sent, each once, however the stream was cut up by partial
\* sends, partial receives, full queues and the limit of one tick.
InOrder == \A e \in Ends :
             LET all == got[e] \o batch[e]
             IN /\ Len(all) <= Len(sent[Peer(e)])
                /\ \A n \in 1..Len(all) : all[n] = Whole(Peer(e), n)

\* queued is what the queue still holds, so the limit of luna_process_channel_send
\* is neither reached early nor passed after partial sends.
QueueAccounted ==
    \A e \in Ends :
      LET rest(p) == HeaderSize + sent[e][p.no] - p.offset
      IN queued[e] = FoldLeft(LAMBDA sum, p : sum + rest(p), 0, queue[e])

\* Two processes that keep their ends open never disagree about where a packet
\* begins: a protocol error means that the peer closed inside a packet.
FramingHolds ==
    \A e \in Ends : open[e] /\ error[e] = "EPROTO" => ~open[Peer(e)] /\ header[e] # <<>>

\* A peer that hangs up takes back nothing it got into the socket: its last whole
\* packets reach the callback even though the tick that reads them, or a later one,
\* meets the end of the stream, and whatever error that end is.  Two ways out are
\* the endpoint's own: it closes, or its tick finds a packet of its own unsendable
\* and returns before it reads.
LastPacketsArrive ==
    \A e \in Ends : \A n \in 1..MaxSends[e] :
      passed[e] >= n ~> \/ Len(got[Peer(e)]) >= n
                        \/ ~open[Peer(e)]
                        \/ epipe[Peer(e)]

\* What was sent arrives, unless one of the processes closes its end: a full
\* socket or queue is flushed by a later tick.
Arrives == \A e \in Ends : \A n \in 1..MaxSends[e] :
             Len(sent[e]) >= n ~> \/ Len(got[Peer(e)]) >= n
                                  \/ \E x \in Ends : ~open[x]
=============================================================================
