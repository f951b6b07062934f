----------------------------- MODULE Lifecycle ------------------------------
(***************************************************************************)
(* main.go's run, startTunnel of tunnel_darwin.go and tunnel_windows.go,   *)
(* waitForHandshake of wireguard.go and the listeners of relay.go: how the *)
(* process comes up step by step, any of which may fail, and how it stops. *)
(***************************************************************************)
EXTENDS Naturals, Sequences, FiniteSets

CONSTANTS
  Ports,      \* -ports: one listener each
  Timeout,    \* how long waitForHandshake waits
  Interval,   \* how long it sleeps between two polls
  MaxTime     \* bound of the model: where the clock stops

ASSUME LifecycleAssumption ==
  /\ IsFiniteSet(Ports)
  /\ Timeout \in Nat /\ Interval \in Nat \ {0}
  /\ MaxTime \in Nat /\ MaxTime >= Timeout + Interval

VARIABLES
  platform,   \* "darwin" or "windows"
  families,   \* address families of the tunnel's own addresses
  pc,         \* where run is
  stage,      \* next step of startTunnel
  made,       \* what the steps have set up and nobody has taken down
  closes,     \* how often the tun device was closed
  now, wake,  \* the clock; when waitForHandshake polls next
  asked,      \* when waitForHandshake last asked the device for its peers (history)
  shook,      \* the time at which a first peer completed its handshake, if one has
  listener,   \* [Ports -> "off", "starting", "listening" or "failed"]
  errc,       \* number of errors in the channel of that name
  notified,   \* whether signal.Notify has been called
  sig,        \* number of signals in the channel of that name, at most 1
  exit        \* "no", how run returned ("ok", "error", "timeout"), or "killed"

machine == <<platform, families>>
tunnel  == <<stage, made, closes>>
clock   == <<now, wake, asked, shook>>
serving == <<listener, errc>>
signals == <<notified, sig>>
vars == <<machine, pc, tunnel, clock, serving, signals, exit>>

Init ==
  /\ platform \in {"darwin", "windows"}
  /\ families \in SUBSET {"4", "6"}
  /\ pc = "setup" /\ stage = 1
  /\ made = {} /\ closes = 0
  /\ now = 0 /\ wake = 0 /\ asked = 0 /\ shook = {}
  /\ listener = [p \in Ports |-> "off"] /\ errc = 0
  /\ notified = FALSE /\ sig = 0
  /\ exit = "no"

-----------------------------------------------------------------------------
(* startTunnel: each step adds something to what has been made and, if it  *)
(* fails, closes the tun device (by itself or with the WireGuard device    *)
(* that owns it by then) or, as long as there is none, nothing.            *)

Closing(things) == <<[makes |-> things, closes |-> TRUE]>>
Leaving(things) == <<[makes |-> things, closes |-> FALSE]>>

\* A step for each address family the tunnel has an address of.
Each(S(_)) == (IF "4" \in families THEN S("4") ELSE <<>>)
              \o (IF "6" \in families THEN S("6") ELSE <<>>)

CreateTUN    == Leaving({}) \o Leaving({}) \o Leaving({<<"tun">>})
Address(f)   == Closing({<<"address", f>>})
Route(f)     == Closing({<<"route", f>>})
MTU(f)       == Closing({<<"mtu", f>>})
CreateDevice == Closing({<<"device">>}) \o Closing({<<"up">>})

\* Mutant: the error path for the name of the device does not close it.
LeakySteps ==
  CreateTUN \o Leaving({<<"name">>}) \o Each(Address) \o Each(Route)
  \o Closing({<<"interface">>}) \o Closing({<<"bind">>}) \o CreateDevice

\* Mutant: only IPv4 gets its default route.
OneRouteSteps ==
  CreateTUN \o Closing({<<"name">>}) \o Each(Address)
  \o (IF "4" \in families THEN Route("4") ELSE <<>>)
  \o Closing({<<"interface">>}) \o Closing({<<"bind">>}) \o CreateDevice

\* ifconfig for each address, then the scoped default routes; then the bind,
\* which fails if -bind-iface names no interface.
DarwinSteps ==
  CreateTUN \o Closing({<<"name">>}) \o Each(Address) \o Each(Route)
  \o Closing({<<"interface">>}) \o Closing({<<"bind">>}) \o CreateDevice

\* All addresses at once, then MTU and route family by family.
WindowsSteps ==
  CreateTUN \o Closing({<<"luid">>}) \o Closing({<<"address", f>> : f \in families})
  \o Each(LAMBDA f : MTU(f) \o Route(f))
  \o Closing({<<"interface">>}) \o CreateDevice

Steps == IF platform = "darwin" THEN DarwinSteps ELSE WindowsSteps

\* The tun device goes, and with it the interface, its addresses and routes.
CloseTun ==
  /\ made' = {}
  /\ closes' = closes + 1
  /\ UNCHANGED stage

\* run returns, with an error or without, and main exits.
Return(how) == pc' = "exited" /\ exit' = how

\* Arguments, privileges and the config file.
SetupFails ==
  /\ pc = "setup"
  /\ Return("error")
  /\ UNCHANGED <<machine, tunnel, clock, serving, signals>>

SetupWorks ==
  /\ pc = "setup" /\ pc' = "tunnel"
  /\ UNCHANGED <<machine, tunnel, clock, serving, signals, exit>>

StepWorks ==
  /\ pc = "tunnel"
  /\ made' = made \union Steps[stage].makes
  /\ stage' = stage + 1
  /\ IF stage = Len(Steps) THEN pc' = "poll" /\ wake' = now ELSE UNCHANGED <<pc, wake>>
  /\ UNCHANGED <<machine, closes, now, asked, shook, serving, signals, exit>>

StepFails ==
  /\ pc = "tunnel"
  /\ Return("error")
  /\ IF Steps[stage].closes THEN CloseTun ELSE UNCHANGED tunnel
  /\ UNCHANGED <<machine, clock, serving, signals>>

-----------------------------------------------------------------------------
(* waitForHandshake; its deadline is Timeout, as the clock starts with it. *)

\* peerStatuses asks the device: on with the listeners if a peer has answered.
Poll ==
  /\ pc = "poll"
  /\ pc' = IF shook # {} THEN "spawn" ELSE "check"
  /\ asked' = now
  /\ UNCHANGED <<machine, tunnel, now, wake, shook, serving, signals, exit>>

GiveUp(why) ==
  /\ Return(why) /\ CloseTun
  /\ UNCHANGED <<machine, clock, serving, signals>>

PollFails == pc = "poll" /\ GiveUp("error")

\* Mutant: the deadline is looked at before the peers are.
GiveUpAtPoll == pc = "poll" /\ now > Timeout /\ GiveUp("timeout")

\* time.Now() is later than the answer of the device, by any time.
TimesOut == pc = "check" /\ now > Timeout /\ GiveUp("timeout")

SleepUntil(inTime) ==
  /\ pc = "check" /\ inTime
  /\ pc' = "sleep" /\ wake' = now + Interval
  /\ UNCHANGED <<machine, tunnel, now, asked, shook, serving, signals, exit>>

\* Mutant: there is no deadline.
SleepAlways == SleepUntil(TRUE)

Sleep == SleepUntil(now <= Timeout)

Wake ==
  /\ pc = "sleep" /\ now >= wake /\ pc' = "poll"
  /\ UNCHANGED <<machine, tunnel, clock, serving, signals, exit>>

Waiting == pc \in {"poll", "check", "sleep"}

\* Time passes anywhere in waitForHandshake.
Tick ==
  /\ Waiting /\ now < MaxTime
  /\ now' = now + 1
  /\ UNCHANGED <<machine, pc, tunnel, wake, asked, shook, serving, signals, exit>>

\* A peer answers, in the background.
Handshake ==
  /\ <<"up">> \in made /\ shook = {}
  /\ shook' = {now}
  /\ UNCHANGED <<machine, pc, tunnel, now, wake, asked, serving, signals, exit>>

-----------------------------------------------------------------------------
(* Serving and stopping.                                                   *)

Spawn ==
  /\ pc = "spawn" /\ pc' = "notify"
  /\ listener' = [p \in Ports |-> "starting"]
  /\ UNCHANGED <<machine, tunnel, clock, errc, signals, exit>>

Notify ==
  /\ pc = "notify" /\ pc' = "select"
  /\ notified' = TRUE
  /\ UNCHANGED <<machine, tunnel, clock, serving, sig, exit>>

Listen(p) ==
  /\ listener[p] = "starting" /\ pc # "exited"
  /\ listener' = [listener EXCEPT ![p] = "listening"]
  /\ UNCHANGED <<machine, pc, tunnel, clock, errc, signals, exit>>

\* The port cannot be bound, or Accept fails later on.
ServeFails(p) ==
  /\ listener[p] \in {"starting", "listening"} /\ pc # "exited"
  /\ listener' = [listener EXCEPT ![p] = "failed"]
  /\ errc' = errc + 1
  /\ UNCHANGED <<machine, pc, tunnel, clock, signals, exit>>

\* SIGINT or SIGTERM: fatal until Notify; then queued, if there is room.
Signal ==
  /\ pc # "exited"
  /\ IF notified
     THEN sig = 0 /\ sig' = 1 /\ UNCHANGED <<pc, tunnel, exit>>
     ELSE /\ pc' = "exited" /\ exit' = "killed" /\ made' = {}
          /\ UNCHANGED <<sig, stage, closes>>
  /\ UNCHANGED <<machine, clock, serving, notified>>

\* The select of run, and the deferred t.Close.
Stop(how) ==
  /\ pc = "select"
  /\ Return(how) /\ CloseTun
  /\ UNCHANGED <<machine, clock>>

StopAfter(errors) ==
  /\ errc >= errors /\ errc' = errc - 1
  /\ Stop("error")
  /\ UNCHANGED <<listener, signals>>

\* Mutant: run goes on until every listener has failed.
StopAfterAll == StopAfter(Cardinality(Ports))

StopOnError == StopAfter(1)

StopOnSignal ==
  /\ sig > 0 /\ sig' = 0
  /\ Stop("ok")
  /\ UNCHANGED <<notified, serving>>

-----------------------------------------------------------------------------
Run ==
  \/ SetupFails \/ SetupWorks \/ StepWorks \/ StepFails
  \/ Poll \/ PollFails \/ TimesOut \/ Sleep \/ Wake \/ Tick
  \/ Spawn \/ Notify \/ StopOnError \/ StopOnSignal

Exited == pc = "exited" /\ UNCHANGED vars

Next ==
  \/ Run \/ Handshake \/ Signal \/ Exited
  \/ \E p \in Ports : Listen(p) \/ ServeFails(p)

Spec == Init /\ [][Next]_vars

\* run goes on whenever it can.  Handshakes, signals and failures may come.
FairSpec == Spec /\ WF_vars(Run)

-----------------------------------------------------------------------------
(* Properties.                                                             *)

\* Types; no poll is due later than one interval after the timeout.
TypeOK ==
  /\ pc \in {"setup", "tunnel", "poll", "check", "sleep", "spawn", "notify", "select", "exited"}
  /\ stage \in 1 .. Len(Steps) + 1
  /\ now \in 0 .. MaxTime /\ asked \in 0 .. now /\ wake \in 0 .. Timeout + Interval
  /\ listener \in [Ports -> {"off", "starting", "listening", "failed"}]
  /\ errc \in 0 .. Cardinality(Ports) /\ sig \in {0, 1}
  /\ exit \in {"no", "ok", "error", "timeout", "killed"}

\* However run returns, on whichever of its error paths, the tun device it
\* created has been closed, and no more than once: no interface, address or
\* route of the tunnel is left behind.
NothingLeftBehind ==
  exit \in {"ok", "error", "timeout"} => made = {} /\ closes <= 1

\* Connections are accepted only once a peer has answered and the interface
\* has an address and a default route in every family.
ServesThroughTunnel ==
  (\E p \in Ports : listener[p] # "off") /\ exit = "no" =>
    /\ shook # {}
    /\ <<"up">> \in made
    /\ \A f \in families : {<<"address", f>>, <<"route", f>>} \subseteq made

\* Start-up is given up for want of a handshake only behind the deadline and only
\* if there was none when the device was last asked, which it was after the last
\* sleep: a handshake that is completed during a sleep is never missed, however
\* late run wakes up; one between that question and time.Now() may be.
TimeoutIsReal ==
  exit = "timeout" => now > Timeout /\ asked >= wake /\ \A t \in shook : t >= asked

\* A listener that fails, or a signal once it is caught, ends the process.
StopsWhenTold ==
  ((\E p \in Ports : listener[p] = "failed") \/ sig > 0) ~> exit # "no"
=============================================================================
