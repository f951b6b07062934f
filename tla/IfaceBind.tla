----------------------------- MODULE IfaceBind ------------------------------
(***************************************************************************)
(* bind_darwin.go: the UDP socket that WireGuard's own packets use when it *)
(* is pinned to a physical interface.  WireGuard opens and closes it, from *)
(* several goroutines sends through it, and runs the receive function that *)
(* each Open returns until that fails.                                     *)
(***************************************************************************)
CONSTANT Sockets    \* identities of sockets, used again when nothing refers to one

VARIABLES
  conn,       \* b.conn: {} for nil, or one socket
  open,       \* the sockets that are open
  receiving,  \* the sockets whose receive functions have not failed yet
  sending     \* the sockets that calls of Send have taken from b.conn

bind == <<conn, open, receiving, sending>>

Init ==
  /\ conn = {} /\ open = {}
  /\ receiving = {} /\ sending = {}

\* Each critical section of b.mu is one step.

\* A new socket, pinned as TunnelSocket has it.  It is its own receive
\* function's for good.
Open(s) ==
  /\ conn = {}
  /\ s \notin open \union receiving \union sending
  /\ conn' = {s}
  /\ open' = open \union {s}
  /\ receiving' = receiving \union {s}
  /\ UNCHANGED sending

\* Mutant: the socket is forgotten but not closed.
ForgetSocket ==
  /\ conn' = {}
  /\ UNCHANGED <<open, receiving, sending>>

\* Without a socket this changes nothing.
Close ==
  /\ conn' = {}
  /\ open' = open \ conn
  /\ UNCHANGED <<receiving, sending>>

\* Send takes the socket under the lock and lets the lock go; without a socket
\* it fails at once.
SendTakes ==
  /\ conn # {} /\ ~(conn \subseteq sending)
  /\ sending' = sending \union conn
  /\ UNCHANGED <<conn, open, receiving>>

\* All datagrams are written, or a write has failed, as it does when the socket
\* has been closed since.
SendEnds(s) ==
  /\ s \in sending
  /\ sending' = sending \ {s}
  /\ UNCHANGED <<conn, open, receiving>>

\* The receive function fails on a closed socket.
ReceiveFails(s) ==
  /\ s \in receiving \ open
  /\ receiving' = receiving \ {s}
  /\ UNCHANGED <<conn, open, sending>>
=============================================================================
