----------------------------- MODULE DnsLookup ------------------------------
(***************************************************************************)
(* resolver.go: lookup, queryDNSRetry and queryDNS, the DNS queries behind *)
(* one lookup of a name.  They are plain UDP through the tunnel: responses *)
(* get lost, arrive late or arrive twice, and a late one may reach the     *)
(* socket of a later query when that got the same local port.              *)
(*                                                                         *)
(* Time passes only while a response is awaited: the code between two      *)
(* reads takes none.  The network keeps its word (a response within Delay) *)
(* except for at most MaxFaults faults.                                    *)
(***************************************************************************)
EXTENDS Naturals, Sequences, FiniteSets

CONSTANTS
  ServerLists, \* sequences of DNS servers that a config may name
  Ports,       \* local ports the kernel may give to a query's socket
  Timeout,     \* r.timeout
  Delay,       \* a response takes at most this long, if nothing goes wrong
  MaxFaults,   \* bound of the model: what may go wrong on the network
  V4, V6, Lo,  \* an IPv4, an IPv6 and a loopback address
  Empty,       \* no record of the type asked for
  NoSuchName,  \* RCode NXDOMAIN
  BadName      \* a name that does not fit a DNS question

ASSUME DnsAssumption ==
  /\ ServerLists \subseteq Seq(STRING)
  /\ Timeout \in Nat \ {0} /\ Delay \in Nat /\ MaxFaults \in Nat

dnsAttempts == 3
budget      == (Timeout * dnsAttempts * (dnsAttempts + 1)) \div 2

VARIABLES
  servers,  \* r.dnsServers
  ipv4Only, \* r.ipv4Only
  now,      \* time since the start of the lookup, whose ctx ends at budget
  zone,     \* what DNS has for the name: [A, AAAA]
  status,   \* [server -> "up", "dead" or "refusing"]
  pc,       \* "try": at the top of the retry loop; "wait": in conn.Read; "done"
  qtype,    \* the type being queried
  attempt,  \* of the retry loop
  port,     \* local port of the query's socket
  until,    \* the socket's deadline
  net,      \* responses under way
  faults,   \* how many things have gone wrong on the network so far
  outcome   \* what lookup returns

query == <<pc, qtype, attempt, port, until, outcome>>
world == <<servers, ipv4Only, zone, status>>
vars  == <<now, world, query, net, faults>>

\* A name cannot be asked for, or does not exist, or has, for each type, an
\* address or none.
Zones ==
  {[A |-> x, AAAA |-> x] : x \in {NoSuchName, BadName}}
  \union [A : {V4, Lo, Empty}, AAAA : {V6, Empty}]

\* What lookup makes of the first address record, or of none.
Verdict(a) == CASE a = Lo    -> [is |-> "loopback"]
                [] a = Empty -> [is |-> "no record"]
                [] OTHER     -> [is |-> "found", ip |-> a]
Failed  == [is |-> "failed"]
Pending == [is |-> "pending"]

\* The random ID of a query: unique, as this attempt of this lookup is.
Id == <<qtype, attempt>>

ServerSet == {servers[i] : i \in DOMAIN servers}

\* Responses to earlier lookups that may still be under way.
Leftovers == [id : {<<"earlier">>}, from : ServerSet,
              port : Ports, answer : {V4, Empty}, due : {0}, late : {TRUE}]

Init ==
  /\ now = 0
  /\ servers \in ServerLists /\ ipv4Only \in BOOLEAN
  /\ zone \in Zones
  /\ status \in [ServerSet -> {"up", "dead", "refusing"}]
  /\ pc = "try" /\ qtype = "A" /\ attempt = 0
  /\ port \in Ports /\ until = 0
  /\ \/ net = {} /\ faults = 0
     \/ MaxFaults > 0 /\ faults = 1 /\ \E m \in Leftovers : net = {m}
  /\ outcome = Pending

-----------------------------------------------------------------------------
(* The lookup.                                                             *)

AtMost(x, y) == IF x <= y THEN x ELSE y

\* Mutant: every attempt asks the first server.
AlwaysFirst(n) == servers[1]

ServerOf(n) == servers[(n % Len(servers)) + 1]

\* Mutant: only the per-attempt timeout counts, not the deadline of the ctx.
UncappedDeadline == now + Timeout * (attempt + 1)

Deadline == AtMost(now + Timeout * (attempt + 1), budget)

\* A server that is up answers with what the zone has; one that refuses
\* answers with an error code; one that is dead does not answer.
Response(p) ==
  LET s == ServerOf(attempt)
      a == IF status[s] = "up" THEN zone[qtype] ELSE "error"
  IN  [id |-> Id, from |-> s, port |-> p, answer |-> a, due |-> now + Delay, late |-> FALSE]

\* Mutant: one attempt too many.
OneMoreAttempt == attempt <= dnsAttempts /\ now < budget

MoreAttempts == attempt < dnsAttempts /\ now < budget

\* lookup ends.
Return(o) ==
  /\ pc' = "done"
  /\ outcome' = o
  /\ UNCHANGED <<qtype, attempt, port, until>>

NoServers ==
  /\ pc = "try" /\ Len(servers) = 0
  /\ Return(Failed)
  /\ UNCHANGED <<now, world, net, faults>>

\* Something goes wrong on the network.
Fault == faults < MaxFaults /\ faults' = faults + 1

\* The kernel hands out a port for which a response is still under way.
Reused(p) == \E m \in net : m.port = p /\ m.from = ServerOf(attempt)

\* queryDNS up to its conn.Read.  Dialling a UDP server sends nothing.
SendQuery ==
  /\ pc = "try" /\ Len(servers) > 0 /\ MoreAttempts
  /\ zone.A # BadName
  /\ pc' = "wait"
  /\ until' = Deadline
  /\ \E p \in Ports :
       /\ port' = p
       /\ IF Reused(p) THEN Fault ELSE UNCHANGED faults
       /\ net' = IF status[ServerOf(attempt)] = "dead" THEN net
                 ELSE net \union {Response(p)}
  /\ UNCHANGED <<now, world, qtype, attempt, outcome>>

\* The attempt fails: on to the next one.
Retry ==
  /\ pc' = "try"
  /\ attempt' = attempt + 1
  /\ UNCHANGED <<qtype, port, until, outcome>>

\* Mutant: the socket has no deadline.
ReadForever == pc = "wait" /\ FALSE /\ UNCHANGED vars

\* conn.Read fails at the deadline.
ReadTimesOut ==
  /\ pc = "wait" /\ now >= until
  /\ Retry
  /\ UNCHANGED <<now, world, net, faults>>

\* The query cannot be built, or not be dialled or sent (no route, say).
SendFails ==
  /\ pc = "try" /\ Len(servers) > 0 /\ MoreAttempts
  /\ IF zone.A = BadName THEN UNCHANGED faults ELSE Fault
  /\ Retry
  /\ UNCHANGED <<now, world, net>>

OutOfAttempts ==
  /\ pc = "try" /\ Len(servers) > 0 /\ ~MoreAttempts
  /\ Return(Failed)
  /\ UNCHANGED <<now, world, net, faults>>

\* Mutant: the ID of the response is not compared with the query's.
AnyId(m) == TRUE

Matches(m) == m.id = Id

\* A response whose records are taken, the type of the query notwithstanding.
\* Without an A record, and unless -ipv4-only, it is the turn of AAAA.
Accept(a) ==
  IF a = Empty /\ qtype = "A" /\ ~ipv4Only
  THEN /\ pc' = "try" /\ qtype' = "AAAA" /\ attempt' = 0
       /\ UNCHANGED <<port, until, outcome>>
  ELSE Return(Verdict(a))

\* conn.Read returns a datagram: the socket is connected, so it comes from the
\* server that was asked, but not necessarily in answer to this query.
ReadResponse(m) ==
  /\ pc = "wait" /\ m \in net
  /\ m.port = port /\ m.from = ServerOf(attempt)
  /\ net' = net \ {m}
  /\ IF Matches(m) /\ m.answer \notin {"error", NoSuchName}
     THEN Accept(m.answer) ELSE Retry
  /\ UNCHANGED <<now, world, faults>>

-----------------------------------------------------------------------------
(* The network and the clock.                                              *)

\* A response to a socket that is closed, or not connected to its sender.
Discard(m) ==
  /\ m \in net
  /\ ~(pc = "wait" /\ m.port = port /\ m.from = ServerOf(attempt))
  /\ net' = net \ {m}
  /\ UNCHANGED <<now, world, query, faults>>

\* The query or its response is lost.
Lose(m) ==
  /\ m \in net /\ ~m.late /\ Fault
  /\ net' = net \ {m}
  /\ UNCHANGED <<now, world, query>>

\* The response takes as long as it takes.
Late(m) ==
  /\ m \in net /\ ~m.late /\ Fault
  /\ net' = (net \ {m}) \union {[m EXCEPT !.late = TRUE]}
  /\ UNCHANGED <<now, world, query>>

\* The response comes a second time, some time later.
Duplicate(m) ==
  /\ m \in net /\ ~m.late /\ Fault
  /\ net' = net \union {[m EXCEPT !.late = TRUE]}
  /\ UNCHANGED <<now, world, query>>

Tick ==
  /\ pc = "wait" /\ now < until
  /\ \A m \in net : m.late \/ now < m.due
  /\ now' = now + 1
  /\ UNCHANGED <<world, query, net, faults>>

Step ==
  \/ NoServers \/ SendQuery \/ SendFails \/ ReadTimesOut \/ OutOfAttempts
  \/ \E m \in net : ReadResponse(m)

Next ==
  \/ Step
  \/ \E m \in net : Discard(m) \/ Lose(m) \/ Late(m) \/ Duplicate(m)
  \/ Tick

\* The clock runs, and what can be delivered, sent or timed out is.
Spec == Init /\ [][Next]_vars
FairSpec == Spec /\ WF_vars(Step \/ Tick \/ \E m \in net : Discard(m))

-----------------------------------------------------------------------------
(* Properties.                                                             *)

Messages == [id : {<<"earlier">>} \union ({"A", "AAAA"} \X (0 .. dnsAttempts - 1)),
             from : ServerSet, port : Ports,
             answer : {V4, V6, Lo, Empty, NoSuchName} \union {"error"},
             due : Nat, late : BOOLEAN]

\* Types; the retry loop never counts past its attempts.
TypeOK ==
  /\ now \in Nat /\ until \in Nat
  /\ servers \in ServerLists /\ ipv4Only \in BOOLEAN
  /\ zone \in Zones
  /\ status \in [ServerSet -> {"up", "dead", "refusing"}]
  /\ pc \in {"try", "wait", "done"}
  /\ qtype \in {"A", "AAAA"}
  /\ attempt \in 0 .. dnsAttempts
  /\ pc = "wait" => attempt < dnsAttempts
  /\ port \in Ports
  /\ net \subseteq Messages
  /\ faults \in 0 .. MaxFaults

\* All attempts of the A query, and of the AAAA query that may follow, are
\* over when the budget is: no read waits past it.
WithinBudget == now <= budget /\ until <= budget

\* lookup says what the DNS says: it gives the address of the name, the A
\* record's if there is one, and reports that there is no record only if there
\* is none.  Lost, late and repeated responses, to this or to another query,
\* may make it fail but never make it err.
Truthful ==
  /\ outcome.is = "found" =>
       outcome.ip = IF zone.A # Empty THEN zone.A ELSE zone.AAAA
  /\ outcome.is = "no record" =>
       zone.A = Empty /\ (ipv4Only \/ zone.AAAA = Empty)

Unhelpful == {s \in ServerSet : status[s] # "up"}

\* One thing may go wrong -- one of several servers is dead or refuses, one
\* packet is lost, late or comes twice, one query cannot be sent -- and the
\* lookup still does not fail, A and AAAA query together.  (A stray response
\* that meets a reused port is two faults: it costs the attempt that reads it,
\* and the next one too if that gets the port again.)
SurvivesOneFault ==
  outcome = Failed =>
    \/ zone.A \in {NoSuchName, BadName}
    \/ Len(servers) = 0
    \/ Unhelpful = ServerSet
    \/ Cardinality(Unhelpful) + faults > 1

\* Every lookup returns: what Resolver's callers in flight depend on.
LookupReturns == <>(pc = "done")
=============================================================================
