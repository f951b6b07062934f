------------------------------- MODULE Relay --------------------------------
(***************************************************************************)
(* relay.go: relayConn and peekHostname, the life of one connection.       *)
(*                                                                         *)
(* The proxy sniffs the client's first bytes, resolves the host, dials it  *)
(* through the tunnel and then copies in both directions, "up" from client *)
(* to upstream and "down" from upstream to client, in two goroutines that  *)
(* end independently.  Either peer may shut down its side (FIN), abort     *)
(* (RST) or stop reading at any time; a write to one that does not read    *)
(* blocks.  A stream's bytes are numbered from 1.                          *)
(***************************************************************************)
EXTENDS Naturals, Sequences, FiniteSets

CONSTANT MaxBytes    \* bound of the model: bytes that a peer sends

ASSUME RelayAssumption == MaxBytes \in Nat

Conns      == {"client", "upstream"}
Directions == {"up", "down"}
Source(d)  == IF d = "up" THEN "client" ELSE "upstream"
Sink(d)    == IF d = "up" THEN "upstream" ELSE "client"

VARIABLES
  pc,      \* relayConn: "peek", "resolve", "dial", "splice", "closed" or "dropped"
  sent,    \* [Directions -> number of bytes the source has sent]
  fin,     \* [Directions -> whether the source has sent FIN]
  reset,   \* [Conns -> whether the peer has aborted the connection]
  queue,   \* [Directions -> bytes received by the proxy's kernel, not yet copied]
  sniffed, \* bytes read by peekHostname, to be replayed first
  timer,   \* whether client has a read deadline
  copier,  \* [Directions -> "off", "copy", "write" (a byte that was read),
           \*               "half" (before CloseWrite) or "done"]
  room,    \* [Directions -> whether the sink's window takes another byte]
  got,     \* [Directions -> bytes written to the sink]
  eof      \* [Directions -> whether the sink has been sent FIN]

peers == <<sent, fin, reset>>
vars  == <<pc, peers, queue, sniffed, timer, copier, room, got, eof>>

Init ==
  /\ pc = "peek"
  /\ sent    = [d \in Directions |-> 0]
  /\ fin     = [d \in Directions |-> FALSE]
  /\ reset   = [c \in Conns |-> FALSE]
  /\ queue   = [d \in Directions |-> <<>>]
  /\ sniffed = <<>>
  /\ timer   = TRUE
  /\ copier  = [d \in Directions |-> "off"]
  /\ room    = [d \in Directions |-> TRUE]
  /\ got     = [d \in Directions |-> <<>>]
  /\ eof     = [d \in Directions |-> FALSE]

Ended == pc \in {"closed", "dropped"}

-----------------------------------------------------------------------------
(* The peers.                                                              *)

Connected(c) == ~Ended /\ (c = "client" \/ pc = "splice") /\ ~reset[c]

Send(d) ==
  /\ Connected(Source(d)) /\ ~fin[d] /\ sent[d] < MaxBytes
  /\ sent' = [sent EXCEPT ![d] = @ + 1]
  /\ queue' = [queue EXCEPT ![d] = Append(@, sent[d] + 1)]
  /\ UNCHANGED <<pc, fin, reset, sniffed, timer, copier, room, got, eof>>

ShutDown(d) ==
  /\ Connected(Source(d)) /\ ~fin[d]
  /\ fin' = [fin EXCEPT ![d] = TRUE]
  /\ UNCHANGED <<pc, sent, reset, queue, sniffed, timer, copier, room, got, eof>>

Abort(c) ==
  /\ Connected(c)
  /\ reset' = [reset EXCEPT ![c] = TRUE]
  /\ UNCHANGED <<pc, sent, fin, queue, sniffed, timer, copier, room, got, eof>>

\* The sink of d reads, so that its window opens.
Take(d) ==
  /\ Connected(Sink(d)) /\ ~room[d]
  /\ room' = [room EXCEPT ![d] = TRUE]
  /\ UNCHANGED <<pc, peers, queue, sniffed, timer, copier, got, eof>>

-----------------------------------------------------------------------------
(* relayConn up to the splice.                                             *)

\* peekHostname returns, having read n bytes.  There is a host to relay to if
\* these hold one or a fallback target is configured; the connection is
\* dropped otherwise.
PeekReturns(n, replay, armed) ==
  /\ pc = "peek"
  /\ \E host \in BOOLEAN : pc' = IF host THEN "resolve" ELSE "dropped"
  /\ queue' = [queue EXCEPT !["up"] = SubSeq(@, n + 1, Len(@))]
  /\ sniffed' = replay
  /\ timer' = armed
  /\ UNCHANGED <<peers, copier, room, got, eof>>

\* Mutant: what was sniffed is not replayed.
PeekAndForget ==
  \E n \in 1 .. Len(queue["up"]) : PeekReturns(n, <<>>, FALSE)

\* Mutant: the read deadline stays armed.
PeekAndKeepTimer ==
  \E n \in 1 .. Len(queue["up"]) : PeekReturns(n, SubSeq(queue["up"], 1, n), TRUE)

\* One Read: some of what has arrived.
Peek ==
  \E n \in 1 .. Len(queue["up"]) : PeekReturns(n, SubSeq(queue["up"], 1, n), FALSE)

\* Nothing came in time, or nothing will.
PeekNothing ==
  /\ queue["up"] = <<>> \/ reset["client"]
  /\ PeekReturns(0, <<>>, FALSE)

\* Resolve, as NameService has it, returns an address or an error.
Resolve ==
  /\ pc = "resolve"
  /\ pc' \in {"dial", "dropped"}
  /\ UNCHANGED <<peers, queue, sniffed, timer, copier, room, got, eof>>

Dial ==
  /\ pc = "dial"
  /\ \/ pc' = "splice" /\ copier' = [d \in Directions |-> "copy"]
     \/ pc' = "dropped" /\ UNCHANGED copier
  /\ UNCHANGED <<peers, queue, sniffed, timer, room, got, eof>>

-----------------------------------------------------------------------------
(* The splice: two goroutines, each an io.Copy followed by CloseWrite.     *)

\* The reader of direction d: the client's replays what was sniffed first.
Replaying(d) == d = "up" /\ sniffed # <<>>

\* A read returns a byte; until it is written the copier looks at nothing else.
ReadByte(d) ==
  /\ copier[d] = "copy" /\ (Replaying(d) \/ (queue[d] # <<>> /\ ~Ended))
  /\ copier' = [copier EXCEPT ![d] = "write"]
  /\ UNCHANGED <<pc, peers, queue, sniffed, timer, room, got, eof>>

\* The byte is written, which may fill the sink's window, or the sink is gone and
\* the write fails, which ends the copy.  Otherwise Write blocks: it has no deadline.
CopyByte(d, b) ==
  /\ copier[d] = "write"
  /\ \/ /\ reset[Sink(d)] \/ Ended
        /\ copier' = [copier EXCEPT ![d] = "half"] /\ UNCHANGED <<got, room>>
     \/ /\ ~(reset[Sink(d)] \/ Ended) /\ room[d]
        /\ copier' = [copier EXCEPT ![d] = "copy"]
        /\ got' = [got EXCEPT ![d] = Append(@, b)]
        /\ \E more \in BOOLEAN : room' = [room EXCEPT ![d] = more]
  /\ UNCHANGED <<pc, peers, timer, eof>>

CopyReplayed(d) ==
  /\ Replaying(d)
  /\ CopyByte(d, Head(sniffed))
  /\ sniffed' = Tail(sniffed)
  /\ UNCHANGED queue

CopyReceived(d) ==
  /\ ~Replaying(d) /\ queue[d] # <<>>
  /\ CopyByte(d, Head(queue[d]))
  /\ queue' = [queue EXCEPT ![d] = Tail(@)]
  /\ UNCHANGED sniffed

\* Mutant: FIN overtakes the bytes that are still in the queue.
EndsEarly(d) ==
  /\ copier[d] = "copy" /\ ~Replaying(d)
  /\ fin[d] \/ reset[Source(d)] \/ (d = "up" /\ timer) \/ Ended
  /\ copier' = [copier EXCEPT ![d] = "half"]
  /\ UNCHANGED <<pc, peers, queue, sniffed, timer, room, got, eof>>

\* The copy is over: the source is at its end, was aborted, is past its read
\* deadline, or has been closed by relayConn.
CopyEnds(d) ==
  /\ copier[d] = "copy" /\ ~Replaying(d)
  /\ \/ fin[d] /\ queue[d] = <<>>
     \/ reset[Source(d)]
     \/ d = "up" /\ timer
     \/ Ended
  /\ copier' = [copier EXCEPT ![d] = "half"]
  /\ UNCHANGED <<pc, peers, queue, sniffed, timer, room, got, eof>>

\* Mutant: no half-close, the sink is not told.
CloseNothing(d) ==
  /\ copier[d] = "half"
  /\ copier' = [copier EXCEPT ![d] = "done"]
  /\ UNCHANGED <<pc, peers, queue, sniffed, timer, room, got, eof>>

\* The sink gets its FIN, also when the source was aborted.
CloseWrite(d) ==
  /\ copier[d] = "half"
  /\ copier' = [copier EXCEPT ![d] = "done"]
  /\ eof' = [eof EXCEPT ![d] = ~Ended /\ ~reset[Sink(d)]]
  /\ UNCHANGED <<pc, peers, queue, sniffed, timer, room, got>>

CloseWhen(ready) ==
  /\ pc = "splice" /\ ready
  /\ pc' = "closed"
  /\ UNCHANGED <<peers, queue, sniffed, timer, copier, room, got, eof>>

\* Mutant: relayConn waits for one of the goroutines only.
CloseAfterOne == CloseWhen(\E d \in Directions : copier[d] = "done")

\* <-done, twice; then both connections are closed.
CloseBoth == CloseWhen(\A d \in Directions : copier[d] = "done")

-----------------------------------------------------------------------------
Peer == \E d \in Directions : Send(d) \/ ShutDown(d) \/ Abort(Source(d)) \/ Take(d)

Copier(d) ==
  ReadByte(d) \/ CopyReplayed(d) \/ CopyReceived(d) \/ CopyEnds(d) \/ CloseWrite(d)

Main == Peek \/ PeekNothing \/ Resolve \/ Dial \/ CloseBoth

\* The connection is over.
Over == Ended /\ (\A d \in Directions : copier[d] \in {"off", "done"}) /\ UNCHANGED vars

Next == Peer \/ Main \/ (\E d \in Directions : Copier(d)) \/ Over

Spec == Init /\ [][Next]_vars

\* Goroutines that can run do; Resolve and Dial return (by their deadlines).
\* The peers need not do anything, not even read.
FairSpec == Spec /\ WF_vars(Main) /\ \A d \in Directions : WF_vars(Copier(d))

-----------------------------------------------------------------------------
(* Properties.                                                             *)

Bytes(n) == [i \in 1 .. n |-> i]

\* Types; copiers run from the splice on only.
TypeOK ==
  /\ pc \in {"peek", "resolve", "dial", "splice", "closed", "dropped"}
  /\ sent \in [Directions -> 0 .. MaxBytes]
  /\ fin \in [Directions -> BOOLEAN] /\ eof \in [Directions -> BOOLEAN]
  /\ reset \in [Conns -> BOOLEAN]
  /\ timer \in BOOLEAN
  /\ copier \in [Directions -> {"off", "copy", "write", "half", "done"}]
  /\ room \in [Directions -> BOOLEAN]
  /\ \A d \in Directions : copier[d] = "off" <=> pc \notin {"splice", "closed"}

\* The relay is transparent: each peer gets a prefix of what the other sent,
\* nothing lost, repeated or out of order, the bytes that were sniffed included.
StreamIntact ==
  \A d \in Directions : got[d] = Bytes(Len(got[d])) /\ Len(got[d]) <= sent[d]

\* Unless a peer aborts, FIN is relayed only after FIN, with all data before it:
\* a slow client is not cut off by the deadline that peekHostname needed.
FinMeansFinished ==
  \A d \in Directions : eof[d] /\ ~reset[Source(d)] =>
    fin[d] /\ got[d] = Bytes(sent[d])

\* Unless a peer aborts, the connections are closed only after both streams
\* have been relayed to their ends: shutting down one direction leaves the
\* other alone.
ClosedWhenComplete ==
  pc = "closed" /\ (\A c \in Conns : ~reset[c]) =>
    \A d \in Directions : fin[d] /\ eof[d] /\ got[d] = Bytes(sent[d])

\* The relay does what its peers need of two streams.
S == INSTANCE ByteStreams WITH
       state     <- CASE pc = "closed" -> "closed" [] pc = "dropped" -> "refused" [] OTHER -> "open",
       aborted   <- reset,
       delivered <- got,
       ended     <- eof
RefinesStreams == S!Spec

Gone(d) == fin[d] \/ reset[Source(d)]

\* The sink of d never stops reading for good, unless it aborts.
KeepsReading(d) == []<>(room[d] \/ reset[Sink(d)] \/ Ended)

\* No connection is left open when its peers are done with it: if the client
\* ends, the upstream does once it has seen the end of its input, and neither
\* stops reading what the other one sent, then relayConn returns.  It need not
\* when one does, also if both have ended: Write has no deadline.
EveryConnectionEnds ==
  /\ <>Gone("up")
  /\ eof["up"] ~> Gone("down") \/ Ended
  /\ \A d \in Directions : KeepsReading(d)
  => <>Ended
=============================================================================
