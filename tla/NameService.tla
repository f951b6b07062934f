---------------------------- MODULE NameService ----------------------------
(***************************************************************************)
(* What the relay needs from name resolution, and nothing of how the       *)
(* resolver does it: a connection asks for a host, and is told to give up  *)
(* or given an address it may dial.  An address given for a name is one    *)
(* the tunnel's DNS has returned for that name, never another name's, and  *)
(* never a loopback address, which would lead back into the proxy itself.  *)
(* Resolver is shown to implement this specification.                      *)
(***************************************************************************)
CONSTANTS
  Callers,    \* connections that may be resolving at the same time
  Names,      \* host names, as spelled by clients
  Keys,       \* host names, in the spelling the service treats as one
  KeyOf,      \* [Names -> Keys]
  Addrs,      \* IP addresses; a host may already be one
  Dialable,   \* the addresses a connection may be sent to
  None        \* no host, or the reply "no address"

VARIABLES
  asking,     \* [Callers -> host asked for, None when the caller asks nothing]
  replied,    \* [Callers -> whether its question has been answered]
  given,      \* [Callers -> the address given, None when it was told to give up]
  learned     \* [Keys -> addresses the tunnel's DNS has returned for the name]

vars == <<asking, replied, given, learned>>

Init ==
  /\ asking  = [p \in Callers |-> None]
  /\ replied = [p \in Callers |-> FALSE]
  /\ given   = [p \in Callers |-> None]
  /\ learned = [k \in Keys |-> {}]

\* An address is its own answer, at once, if it may be dialled at all.
AskAddress(p, a) ==
  /\ asking[p] = None
  /\ asking'  = [asking EXCEPT ![p] = a]
  /\ replied' = [replied EXCEPT ![p] = TRUE]
  /\ given'   = [given EXCEPT ![p] = IF a \in Dialable THEN a ELSE None]
  /\ UNCHANGED learned

AskName(p, n) ==
  /\ asking[p] = None
  /\ asking' = [asking EXCEPT ![p] = n]
  /\ UNCHANGED <<replied, given, learned>>

\* The tunnel's DNS returns an address.
Learn(k, a) ==
  /\ learned' = [learned EXCEPT ![k] = @ \union {a}]
  /\ UNCHANGED <<asking, replied, given>>

\* Any address learned for the name will do, however long ago: the service
\* promises no more.  It may also fail.
Reply(p) ==
  /\ asking[p] \in Names
  /\ ~replied[p]
  /\ replied' = [replied EXCEPT ![p] = TRUE]
  /\ \E a \in learned[KeyOf[asking[p]]] \union {None} :
       given' = [given EXCEPT ![p] = a]
  /\ UNCHANGED <<asking, learned>>

\* The caller takes the reply and asks no more.
Leave(p) ==
  /\ replied[p]
  /\ asking'  = [asking EXCEPT ![p] = None]
  /\ replied' = [replied EXCEPT ![p] = FALSE]
  /\ given'   = [given EXCEPT ![p] = None]
  /\ UNCHANGED learned

Next ==
  \/ \E p \in Callers : \/ \E a \in Addrs : AskAddress(p, a)
                        \/ \E n \in Names : AskName(p, n)
                        \/ Reply(p)
                        \/ Leave(p)
  \/ \E k \in Keys, a \in Dialable : Learn(k, a)

Spec == Init /\ [][Next]_vars
=============================================================================
