---------------------------- MODULE BoundTunnel -----------------------------
(***************************************************************************)
(* Lifecycle together with IfaceBind: with -bind-iface, the WireGuard      *)
(* device that startTunnel makes owns a pinned socket.  dev.Up opens it;   *)
(* dev.Close closes it and waits for its receive functions, and run cannot *)
(* return before these have failed.  In between the device may go down and *)
(* up again, as it does with the interface.                                *)
(***************************************************************************)
EXTENDS Lifecycle

CONSTANT Sockets

VARIABLES
  bound,    \* whether -bind-iface is given (on macOS)
  conn, open, receiving, sending

B == INSTANCE IfaceBind

socket    == <<conn, open, receiving, sending>>
boundVars == <<vars, bound, socket>>

BoundInit ==
  /\ Init /\ B!Init
  /\ bound \in IF platform = "darwin" THEN BOOLEAN ELSE {FALSE}

-----------------------------------------------------------------------------
Up == <<"up">> \in made

Vanishes == conn' = {} /\ open' = {} /\ receiving' = {} /\ sending' = {}

\* What a step of the process means for the socket.  A process that is killed
\* leaves none; any other way for the device to go is dev.Close.
Device ==
  IF ~bound \/ Up' = Up THEN UNCHANGED socket
  ELSE IF Up' THEN \E s \in Sockets : B!Open(s)
  ELSE IF exit' = "killed" THEN Vanishes
  ELSE conn = {} /\ receiving = {} /\ UNCHANGED socket

\* Without a socket no peer's answer arrives.
Reachable == shook' # shook => ~bound \/ conn # {}

Process == Next /\ Device /\ Reachable /\ UNCHANGED bound

\* The process is about to close the device, which stays down then.
Stopping == pc = "select" /\ (sig > 0 \/ errc > 0)

DeviceDown == conn # {} /\ B!Close

DeviceUp ==
  /\ conn = {} /\ receiving = {} /\ ~Stopping
  /\ \E s \in Sockets : B!Open(s)

Receivers == \E s \in Sockets : B!ReceiveFails(s)

\* What WireGuard's goroutines do meanwhile.
InBackground(step) == bound /\ Up /\ step /\ UNCHANGED <<vars, bound>>

BoundNext ==
  \/ Process
  \/ InBackground(DeviceDown) \/ InBackground(DeviceUp)
  \/ InBackground(Receivers)
  \/ InBackground(B!SendTakes)
  \/ \E s \in Sockets : InBackground(B!SendEnds(s))

\* run goes on whenever it can, if it has to by closing the device; a receive
\* function that can fail does.
BoundSpec ==
  /\ BoundInit /\ [][BoundNext]_boundVars
  /\ WF_boundVars(Run /\ Device /\ UNCHANGED bound)
  /\ WF_boundVars(InBackground(DeviceDown) /\ (Stopping \/ pc = "poll" \/ pc = "check"))
  /\ WF_boundVars(InBackground(Receivers))

-----------------------------------------------------------------------------
(* Properties.                                                             *)

\* Through all downs and ups no socket is open but the one that the next Close
\* will close, it has a reader, and when the process returns there is none.
NoSocketLeaks ==
  /\ open = conn /\ open \subseteq receiving
  /\ exit # "no" => open = {}
=============================================================================
