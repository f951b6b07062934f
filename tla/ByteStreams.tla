---------------------------- MODULE ByteStreams -----------------------------
(***************************************************************************)
(* What the two peers of a relayed connection need of what is between      *)
(* them, and nothing of how the relay does it: two byte streams, "up" and  *)
(* "down", each delivered in order and ended behind its last byte, neither *)
(* at the expense of the other.  Until anything is delivered the           *)
(* connection may be refused; it is closed when both streams have ended.   *)
(* Only a peer's abort cuts a stream short.  Relay is shown to implement   *)
(* this specification.                                                     *)
(***************************************************************************)
EXTENDS Naturals, Sequences

Streams  == {"up", "down"}
Peers    == {"client", "upstream"}
Sender(s)   == IF s = "up" THEN "client" ELSE "upstream"
Receiver(s) == IF s = "up" THEN "upstream" ELSE "client"

VARIABLES
  state,     \* "open", "refused" or "closed"
  sent,      \* [Streams -> number of bytes sent]
  fin,       \* [Streams -> whether the sender has ended the stream]
  aborted,   \* [Peers -> whether the peer has aborted]
  delivered, \* [Streams -> bytes that the receiver has been given]
  ended      \* [Streams -> whether the receiver has been told of the end]

vars == <<state, sent, fin, aborted, delivered, ended>>

Init ==
  /\ state     = "open"
  /\ sent      = [s \in Streams |-> 0]
  /\ fin       = [s \in Streams |-> FALSE]
  /\ aborted   = [p \in Peers |-> FALSE]
  /\ delivered = [s \in Streams |-> <<>>]
  /\ ended     = [s \in Streams |-> FALSE]

Alive(p) == state = "open" /\ ~aborted[p]

\* A stream's bytes are numbered from 1.
Send(s) ==
  /\ Alive(Sender(s)) /\ ~fin[s]
  /\ sent' = [sent EXCEPT ![s] = @ + 1]
  /\ UNCHANGED <<state, fin, aborted, delivered, ended>>

ShutDown(s) ==
  /\ Alive(Sender(s)) /\ ~fin[s]
  /\ fin' = [fin EXCEPT ![s] = TRUE]
  /\ UNCHANGED <<state, sent, aborted, delivered, ended>>

Abort(p) ==
  /\ Alive(p)
  /\ aborted' = [aborted EXCEPT ![p] = TRUE]
  /\ UNCHANGED <<state, sent, fin, delivered, ended>>

\* The next byte, if it has been sent.
Deliver(s) ==
  /\ Alive(Receiver(s)) /\ ~ended[s]
  /\ Len(delivered[s]) < sent[s]
  /\ delivered' = [delivered EXCEPT ![s] = Append(@, Len(@) + 1)]
  /\ UNCHANGED <<state, sent, fin, aborted, ended>>

\* The end, behind the last byte; of a sender that aborts anywhere.
End(s) ==
  /\ Alive(Receiver(s)) /\ ~ended[s]
  /\ aborted[Sender(s)] \/ (fin[s] /\ Len(delivered[s]) = sent[s])
  /\ ended' = [ended EXCEPT ![s] = TRUE]
  /\ UNCHANGED <<state, sent, fin, aborted, delivered>>

\* No host to relay to, or none that can be reached.
Refuse ==
  /\ state = "open" /\ \A s \in Streams : delivered[s] = <<>> /\ ~ended[s]
  /\ state' = "refused"
  /\ UNCHANGED <<sent, fin, aborted, delivered, ended>>

\* A receiver that has aborted is not waited for.
Close ==
  /\ state = "open" /\ \A s \in Streams : ended[s] \/ aborted[Receiver(s)]
  /\ state' = "closed"
  /\ UNCHANGED <<sent, fin, aborted, delivered, ended>>

Next ==
  \/ \E s \in Streams : Send(s) \/ ShutDown(s) \/ Deliver(s) \/ End(s)
  \/ \E p \in Peers : Abort(p)
  \/ Refuse
  \/ Close

Spec == Init /\ [][Next]_vars
=============================================================================
