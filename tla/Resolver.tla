------------------------------ MODULE Resolver ------------------------------
(***************************************************************************)
(* resolver.go: the cache of resolved names and the sharing of lookups     *)
(* between the connections that want the same name.                        *)
(*                                                                         *)
(* A caller is a relayConn goroutine.  It passes through Resolve and       *)
(* lookupShared in steps, one for each of the critical sections of r.mu    *)
(* and one for each reading of the clock; between two of them any other    *)
(* goroutine may run.  A lookup runs in a goroutine of its own, detached   *)
(* from the callers that wait for it; its queries are one step here (module*)
(* DnsLookup has them in detail), followed by the critical section that    *)
(* publishes the answer and by the closing of the done channel.            *)
(***************************************************************************)
EXTENDS Naturals

CONSTANTS
  Callers,    \* connections that may be resolving at the same time
  Names,      \* host names, as spelled by clients
  Keys,       \* their lower-case forms
  KeyOf,      \* [Names -> Keys], strings.ToLower
  Addrs,      \* IP addresses; a host may already be one
  Loopback,   \* the addresses of which IsLoopback holds
  IPv6,       \* the addresses that are not IPv4, even unmapped
  Calls,      \* identities of lookupCall objects
  TTLs,       \* TTLs that DNS answers carry
  MinTTL,     \* r.minTTL
  MaxTTL,     \* r.maxTTL: main sets it to max(-dns-max-ttl, -dns-min-ttl)
  Budget,     \* r.budget()
  IPv4Only,   \* r.ipv4Only
  MaxTime,    \* bound of the model: the clock stops here
  None        \* no host, entry, call or address

Entry  == [ip : Addrs, expiry : Nat, obtained : Nat]
Answer == [ip : Addrs \union {None}, ttl : Nat, obtained : Nat]

ASSUME ResolverAssumption ==
  /\ KeyOf \in [Names -> Keys]
  /\ Names \intersect Addrs = {}
  /\ Loopback \subseteq Addrs /\ IPv6 \subseteq Addrs
  /\ TTLs \subseteq Nat
  /\ MinTTL \in Nat /\ MaxTTL \in Nat /\ MinTTL <= MaxTTL
  /\ Budget \in Nat /\ MaxTime \in Nat
  /\ IPv4Only \in BOOLEAN
  /\ None \notin Names \union Addrs \union Calls
  /\ None \notin Entry

VARIABLES
  now,        \* the clock
  cache,      \* r.cache: [Keys -> Entry or None]
  inflight,   \* r.inflight: [Keys -> Calls or None]
  phase,      \* [Calls -> where the lookup's goroutine is]
  ckey,       \* [Calls -> the name looked up, None for an unused identity]
  answer,     \* [Calls -> ip and ttl as returned by r.lookup; ip = None for an error]
  result,     \* [Calls -> call.ip and call.err]
  pc,         \* [Callers -> where the caller is in Resolve and lookupShared]
  host,       \* [Callers -> the host it wants]
  deadline,   \* [Callers -> deadline of its ctx]
  seen,       \* [Callers -> entry, as read from the cache]
  call,       \* [Callers -> the call it waits for]
  reply,      \* [Callers -> what Resolve returned, and from where]
  learned     \* history: [Keys -> addresses lookups of the name have returned]

lookupVars == <<phase, ckey, answer, result>>
callerVars == <<pc, host, deadline, seen, call, reply>>
vars == <<now, cache, inflight, lookupVars, callerVars, learned>>

Unpublished == {"running", "returned"}
Phases      == {"free", "published", "closed"} \union Unpublished
PCs         == {"idle", "read", "check", "join", "wait", "done"}
NoAnswer    == [ip |-> None, ttl |-> 0, obtained |-> 0]
NoResult    == [ip |-> None, err |-> FALSE]
NoReply     == [from |-> "none", ip |-> None]
Failed      == [from |-> "failed", ip |-> None]
Sources     == {"none", "failed", "literal", "cache", "lookup", "stale"}

\* Addresses Resolve lets through when the host is one.
Dialable == {a \in Addrs : a \notin Loopback /\ ~(IPv4Only /\ a \in IPv6)}
\* Addresses the servers may answer with: under -ipv4-only lookup asks for A
\* records only, and a server is assumed to answer with what it is asked for.
Answerable == IF IPv4Only THEN Addrs \ IPv6 ELSE Addrs

\* Mutant: a loopback address in an answer is not refused.
AnyAnswer == Answerable

\* Addresses lookup may return.
LookupAddrs == Answerable \ Loopback

Init ==
  /\ now      = 0
  /\ cache    = [k \in Keys |-> None]
  /\ inflight = [k \in Keys |-> None]
  /\ phase    = [c \in Calls |-> "free"]
  /\ ckey     = [c \in Calls |-> None]
  /\ answer   = [c \in Calls |-> NoAnswer]
  /\ result   = [c \in Calls |-> NoResult]
  /\ pc       = [p \in Callers |-> "idle"]
  /\ host     = [p \in Callers |-> None]
  /\ deadline = [p \in Callers |-> 0]
  /\ seen     = [p \in Callers |-> None]
  /\ call     = [p \in Callers |-> None]
  /\ reply    = [p \in Callers |-> NoReply]
  /\ learned  = [k \in Keys |-> {}]

-----------------------------------------------------------------------------
(* The caller: relayConn's call of Resolve, Resolve itself, lookupShared.  *)

Goto(p, from, to) == pc[p] = from /\ pc' = [pc EXCEPT ![p] = to]

\* Resolve returns r to relayConn; its locals and the ctx are gone.
Return(p, from, r) ==
  /\ Goto(p, from, "done")
  /\ reply' = [reply EXCEPT ![p] = r]
  /\ deadline' = [deadline EXCEPT ![p] = 0]
  /\ seen' = [seen EXCEPT ![p] = None]
  /\ call' = [call EXCEPT ![p] = None]

\* The host is already an address: no network, no cache, no clock.
ResolveLiteral(p, a) ==
  /\ Return(p, "idle", IF a \in Dialable THEN [from |-> "literal", ip |-> a]
                                         ELSE Failed)
  /\ host' = [host EXCEPT ![p] = a]
  /\ UNCHANGED <<now, cache, inflight, lookupVars, learned>>

\* The guard on the clock bounds the model: it leaves room for the deadline.
ResolveUntil(p, n, d) ==
  /\ now + Budget <= MaxTime
  /\ Goto(p, "idle", "read")
  /\ host' = [host EXCEPT ![p] = n]
  /\ deadline' = [deadline EXCEPT ![p] = d]
  /\ UNCHANGED <<now, cache, inflight, lookupVars, seen, call, reply, learned>>

\* Mutant: relayConn passes a ctx without a deadline.
ResolveUnbounded(p, n) == ResolveUntil(p, n, MaxTime + 1)

\* relayConn gives the call a ctx of one budget.
ResolveName(p, n) == ResolveUntil(p, n, now + Budget)

Key(p) == KeyOf[host[p]]

\* First critical section: a snapshot of the entry.
ReadCache(p) ==
  /\ Goto(p, "read", "check")
  /\ seen' = [seen EXCEPT ![p] = cache[Key(p)]]
  /\ UNCHANGED <<now, cache, inflight, lookupVars, host, deadline, call, reply, learned>>

Fresh(e) == e # None /\ now < e.expiry

HitCache(p) ==
  /\ pc[p] = "check"
  /\ Fresh(seen[p])
  /\ Return(p, "check", [from |-> "cache", ip |-> seen[p].ip])
  /\ UNCHANGED <<now, cache, inflight, lookupVars, host, learned>>

MissCache(p) ==
  /\ Goto(p, "check", "join")
  /\ ~Fresh(seen[p])
  /\ UNCHANGED <<now, cache, inflight, lookupVars, host, deadline, seen, call, reply, learned>>

\* Second critical section: wait for the lookup that is running, ...
JoinLookup(p) ==
  /\ Goto(p, "join", "wait")
  /\ inflight[Key(p)] # None
  /\ call' = [call EXCEPT ![p] = inflight[Key(p)]]
  /\ UNCHANGED <<now, cache, inflight, lookupVars, host, deadline, seen, reply, learned>>

\* ... or start one, whose goroutine runs from here on.
StartLookup(p) ==
  /\ Goto(p, "join", "wait")
  /\ inflight[Key(p)] = None
  /\ \E c \in Calls :
       /\ phase[c] = "free"
       /\ phase' = [phase EXCEPT ![c] = "running"]
       /\ ckey' = [ckey EXCEPT ![c] = Key(p)]
       /\ inflight' = [inflight EXCEPT ![Key(p)] = c]
       /\ call' = [call EXCEPT ![p] = c]
  /\ UNCHANGED <<now, cache, answer, result, host, deadline, seen, reply, learned>>

\* The lookup failed, or took too long: an entry read at the start will do,
\* expired as it is.
Fallback(p) ==
  IF seen[p] = None THEN Failed ELSE [from |-> "stale", ip |-> seen[p].ip]

\* The select of lookupShared: the done channel is closed ...
Receive(p) ==
  /\ call[p] # None
  /\ phase[call[p]] = "closed"
  /\ Return(p, "wait", IF result[call[p]].err THEN Fallback(p)
                       ELSE [from |-> "lookup", ip |-> result[call[p]].ip])
  /\ UNCHANGED <<now, cache, inflight, lookupVars, host, learned>>

\* ... or the caller's ctx is done; when both are, either may be taken.
GiveUp(p) ==
  /\ now >= deadline[p]
  /\ Return(p, "wait", Fallback(p))
  /\ UNCHANGED <<now, cache, inflight, lookupVars, host, learned>>

\* relayConn goes on with the address or drops the connection; the goroutine's
\* place is taken by another connection.
Leave(p) ==
  /\ Goto(p, "done", "idle")
  /\ host' = [host EXCEPT ![p] = None]
  /\ reply' = [reply EXCEPT ![p] = NoReply]
  /\ UNCHANGED <<now, cache, inflight, lookupVars, deadline, seen, call, learned>>

-----------------------------------------------------------------------------
(* The lookup's goroutine.                                                 *)

AtMost(x, y)  == IF x <= y THEN x ELSE y
AtLeast(x, y) == IF x >= y THEN x ELSE y

\* Mutant: the ceiling is forgotten.
ClampBelowOnly(ttl) == AtLeast(ttl, MinTTL)

Clamp(ttl) == AtMost(AtLeast(ttl, MinTTL), MaxTTL)

\* The map of calls in flight without c's.
Landed(c) == [inflight EXCEPT ![ckey[c]] = None]

Succeed(c, flying) ==
  /\ phase[c] = "running"
  /\ phase' = [phase EXCEPT ![c] = "returned"]
  /\ \E a \in LookupAddrs, t \in TTLs :
       /\ answer' = [answer EXCEPT ![c] = [ip |-> a, ttl |-> Clamp(t), obtained |-> now]]
       /\ learned' = [learned EXCEPT ![ckey[c]] = @ \union {a}]
  /\ inflight' = flying
  /\ UNCHANGED <<now, cache, ckey, result, callerVars>>

\* Mutant: the call leaves inflight as soon as lookup returns.
SucceedAndLand(c) == Succeed(c, Landed(c))

LookupSucceeds(c) == Succeed(c, inflight)

LookupFails(c) ==
  /\ phase[c] = "running"
  /\ phase' = [phase EXCEPT ![c] = "returned"]
  /\ UNCHANGED <<now, cache, inflight, ckey, answer, result, callerVars, learned>>

Succeeded(c) == answer[c].ip # None

\* The cache with c's answer, whose life starts when it is published.
Filled(c) ==
  [cache EXCEPT ![ckey[c]] = [ip       |-> answer[c].ip,
                              expiry   |-> now + answer[c].ttl,
                              obtained |-> answer[c].obtained]]

PublishAs(c, entries, flying) ==
  /\ phase[c] = "returned"
  /\ phase' = [phase EXCEPT ![c] = "published"]
  /\ cache' = entries
  /\ inflight' = flying
  /\ UNCHANGED <<now, ckey, answer, result, callerVars, learned>>

\* Mutant: failures are cached too.
PublishFailure(c) == PublishAs(c, Filled(c), Landed(c))

\* Mutant: a failed call is left in flight.
PublishOnlySuccess(c) ==
  PublishAs(c, IF Succeeded(c) THEN Filled(c) ELSE cache,
               IF Succeeded(c) THEN Landed(c) ELSE inflight)

\* Third critical section: a success enters the cache, and either way the
\* call is no longer in flight.
Publish(c) == PublishAs(c, IF Succeeded(c) THEN Filled(c) ELSE cache, Landed(c))

CloseFrom(c, stage, res) ==
  /\ phase[c] = stage
  /\ phase' = [phase EXCEPT ![c] = "closed"]
  /\ result' = [result EXCEPT ![c] = res]
  /\ UNCHANGED <<now, cache, inflight, ckey, answer, callerVars, learned>>

Outcome(c) == [ip |-> answer[c].ip, err |-> ~Succeeded(c)]

\* Mutant: the channel is closed before the outcome is set.
CloseBeforeResult(c) == CloseFrom(c, "published", NoResult)

\* Mutant: the waiters are told before the cache and the map are updated.
CloseBeforePublish(c) == CloseFrom(c, "returned", Outcome(c))

\* call.ip and call.err are set before the channel closes; nobody reads them
\* until it has.
Close(c) == CloseFrom(c, "published", Outcome(c))

\* Not a step of the program: an object nobody refers to any more gives its
\* identity back, so that a few identities serve any number of lookups.
Recycle(c) ==
  /\ phase[c] = "closed"
  /\ \A p \in Callers : call[p] # c
  /\ phase' = [phase EXCEPT ![c] = "free"]
  /\ ckey' = [ckey EXCEPT ![c] = None]
  /\ answer' = [answer EXCEPT ![c] = NoAnswer]
  /\ result' = [result EXCEPT ![c] = NoResult]
  /\ UNCHANGED <<now, cache, inflight, callerVars, learned>>

Tick ==
  /\ now < MaxTime
  /\ now' = now + 1
  /\ UNCHANGED <<cache, inflight, lookupVars, callerVars, learned>>

-----------------------------------------------------------------------------
CallerStep(p) ==
  \/ ReadCache(p) \/ HitCache(p) \/ MissCache(p)
  \/ JoinLookup(p) \/ StartLookup(p) \/ Receive(p) \/ GiveUp(p)

LookupStep(c) ==
  \/ LookupSucceeds(c) \/ LookupFails(c) \/ Publish(c) \/ Close(c) \/ Recycle(c)

Next ==
  \/ \E p \in Callers : \/ \E a \in Addrs : ResolveLiteral(p, a)
                        \/ \E n \in Names : ResolveName(p, n)
                        \/ CallerStep(p)
                        \/ Leave(p)
  \/ \E c \in Calls : LookupStep(c)
  \/ Tick

Spec == Init /\ [][Next]_vars

\* The clock runs and goroutines that can run are scheduled.  Nothing is
\* assumed of the lookups: whether one ever returns is up to the network.
Fairness ==
  /\ WF_vars(Tick)
  /\ \A p \in Callers : WF_vars(CallerStep(p))
  /\ \A c \in Calls : WF_vars(Publish(c) \/ Close(c) \/ Recycle(c))

FairSpec == Spec /\ Fairness

-----------------------------------------------------------------------------
(* Properties.                                                             *)

\* Every variable has its type; in particular the cache holds addresses only,
\* never the outcome of a lookup that failed (resolver.go:172).
TypeOK ==
  /\ now \in Nat
  /\ cache \in [Keys -> Entry \union {None}]
  /\ inflight \in [Keys -> Calls \union {None}]
  /\ phase \in [Calls -> Phases]
  /\ ckey \in [Calls -> Keys \union {None}]
  /\ answer \in [Calls -> Answer]
  /\ result \in [Calls -> [ip : Addrs \union {None}, err : BOOLEAN]]
  /\ pc \in [Callers -> PCs]
  /\ host \in [Callers -> Names \union Addrs \union {None}]
  /\ deadline \in [Callers -> Nat]
  /\ seen \in [Callers -> Entry \union {None}]
  /\ call \in [Callers -> Calls \union {None}]
  /\ reply \in [Callers -> [from : Sources, ip : Addrs \union {None}]]
  /\ learned \in [Keys -> SUBSET Addrs]

\* The map of calls in flight names exactly the lookups that have not yet
\* published: a name never has two, and a name whose lookup failed is not
\* left with one that nobody will ever finish.
SingleFlight ==
  \A k \in Keys, c \in Calls :
    inflight[k] = c <=> phase[c] \in Unpublished /\ ckey[c] = k

\* Whichever of the five ways Resolve returns, what it returns is an error or
\* an address that may be dialled: the host itself, or one that a lookup of
\* this very name has returned -- by way of a snapshot of the cache, of
\* another caller's lookup, or of both.
ReplySound ==
  \A p \in Callers : pc[p] = "done" =>
    \/ reply[p] = Failed
    \/ reply[p].from = "literal" /\ reply[p].ip = host[p] /\ host[p] \in Dialable
    \/ /\ reply[p].from \in {"cache", "lookup", "stale"}
       /\ host[p] \in Names
       /\ reply[p].ip \in learned[Key(p)] \intersect Dialable

\* Once waiters can see an answer so can everybody else: when done is closed
\* the cache has that answer or a later one, and a connection that comes next
\* need not ask again.
AnswerInCacheFirst ==
  \A c \in Calls : phase[c] = "closed" /\ ~result[c].err =>
    /\ cache[ckey[c]] # None
    /\ cache[ckey[c]].obtained >= answer[c].obtained

\* No answer outlives the ceiling, however long a TTL the server sends, and
\* none is dropped before the floor.
PinnedWithinTTL ==
  \A k \in Keys : cache[k] # None =>
    /\ cache[k].expiry <= now + MaxTTL
    /\ cache[k].obtained + MinTTL <= cache[k].expiry

\* A cached address is only ever replaced by one that the DNS returned later:
\* a slow lookup cannot overwrite the answer of one that overtook it.
CacheMovesForward ==
  [][\A k \in Keys : cache[k] # None =>
       cache'[k] # None /\ cache'[k].obtained >= cache[k].obtained]_vars

\* The resolver does what the relay needs of a name service.
NS == INSTANCE NameService WITH
        asking  <- host,
        replied <- [p \in Callers |-> pc[p] = "done"],
        given   <- [p \in Callers |-> reply[p].ip]
RefinesNameService == NS!Spec

\* Resolve returns to every connection within its budget's time, also when
\* the lookup it waits for never returns.
EveryResolveReturns ==
  \A p \in Callers : pc[p] \in {"read", "check", "join", "wait"} ~> pc[p] = "done"

\* If lookups return, as their own budget makes them, then no name stays in
\* flight for ever, which would make every later lookup of it wait in vain.
EveryFlightLands ==
  (\A c \in Calls : phase[c] = "running" ~> phase[c] # "running")
  => \A k \in Keys : inflight[k] # None ~> inflight[k] = None

\* resolver.go:145 promises that concurrent callers for a name share a single
\* set of queries, and TestResolverCoalescesConcurrentLookups counts them:
\* then no lookup starts for a name whose answer is in the cache and fresh.
NoLookupWhileFresh ==
  [][\A k \in Keys : inflight[k] = None /\ inflight'[k] # None => ~Fresh(cache[k])]_vars
=============================================================================
