# vpnproxy in TLA+

A formal model of [vpnproxy](../src/README.md): a TCP relay that finds out which
host a connection is meant for, resolves that host through a WireGuard tunnel's
own DNS and relays the bytes through the tunnel. TLC checks the modules on small
instances; TLAPS proves the safety of every component, and that the resolver and the
relay implement their abstract specifications, for every instance (see 4). Liveness is
only model-checked.

`PROJECT.json` lists the runs, the map from definitions to source lines, the
hazards and the theorems. This file explains them.

## 1. The system

| Part | State | Operations | Correct when |
|---|---|---|---|
| Resolver (`resolver.go`) | `cache`, `inflight`, one `lookupCall` per lookup | `Resolve`, `lookupShared`, the lookup's goroutine | one lookup per name at a time; an answer goes to the name it belongs to; it can be dialled; TTLs are bounded; every caller returns |
| DNS queries (`resolver.go`) | attempt, server, socket, deadline | `lookup`, `queryDNSRetry`, `queryDNS` | stays in its budget; says what DNS says in spite of loss, delay, duplicates; one fault is survived |
| Relay (`relay.go`) | two connections, sniffed bytes, two copiers | `serveRelay`, `relayConn`, `peekHostname` | both streams arrive intact; half-close is relayed; connections end |
| Sniffing (`relay.go`) | none | `parseSNI`, `parseHTTPHost` | finds the host in a complete message; reads nothing else into an incomplete one |
| Process (`main.go`, `tunnel_*.go`, `wireguard.go`) | tun device, WireGuard device, listeners, channels | `run`, `startTunnel`, `configureInterface`, `waitForHandshake`, `Close` | nothing left behind on any path; serves only through a working tunnel; stops when told |
| Fetch (`vault.go`) | token, token file, configs, temporary files | `runFetch`, `oidcLogin`, `kvRead`, `writeConfigs`, `writeFileAtomic` | configs always whole; nothing from an invalid secret; ends |
| Peer status (`wireguard.go`) | none | `parsePeerStatuses`, `logPeerStatus` | each peer's state is that peer's; DNS servers that are not routed are warned of |
| Config lookup (`config.go`) | none | `findConfig`, `runList` | what one lists the other finds |
| Bound sockets (`tunnel_*.go`) | none | `boundControl` | the kernel pins the socket to the tunnel's interface |
| Hosts wrappers (`run-with-hosts.*`) | the hosts file | add, remove, trap | entries are gone after exit; the user's own lines stay |
| Interface bind (`bind_darwin.go`) | one socket under a mutex | `Open`, `Close`, `Send`, the receive function | no socket is left open, none without a reader |

How they interact: `run` starts the tunnel, makes one resolver and starts one
`serveRelay` per port. Each accepted connection is a goroutine (`relayConn`) that
calls `Resolve` with a deadline, dials, and starts two copiers. `Resolve` starts
at most one lookup per name, in a goroutine of its own; connections and lookups
share `cache` and `inflight` under `r.mu`, and a lookup's result through a channel
that is closed. With `-bind-iface`, the WireGuard device owns an `ifaceBind`, which it
opens and closes with itself. `fetch` is a separate process that shares only files with
it, and the hosts wrappers are separate ones that start it and share the hosts file with
each other.

What is hard here: the three critical sections of the resolver and what may happen
between them; lookups detached from the connections that wait for them; UDP; two
directions of a connection that end independently; the error paths of start-up;
processes that are killed or interrupted while they write files; messages that are cut
off anywhere. `hazards` in `PROJECT.json` gives
the line of each, and the property that watches it.

## 2. Modules

| Module | Models | Uses |
|---|---|---|
| `NameService` | what the relay needs of name resolution (abstract) | |
| `Resolver` | cache and shared lookups | `NameService` by refinement |
| `ResolverProofs` | proofs about `Resolver` | `Resolver` |
| `DnsLookup` | the queries of one lookup and the network | |
| `ByteStreams` | what a connection's two peers need of what is between them (abstract) | |
| `Relay` | one connection | `ByteStreams` by refinement |
| `Lifecycle` | start-up and shut-down | |
| `IfaceBind` | the socket of `-bind-iface`: actions without a next-state relation of their own | |
| `BoundTunnel` | a process and its socket | composes `Lifecycle` (EXTENDS) and `IfaceBind` (INSTANCE) |
| `Fetch` | `vpnproxy fetch` | |
| `HostsFile` | `run-with-hosts.sh` and `.ps1` | |
| `Sniff` | `peekHostname`'s parsers, as operators | |
| `PeerStatus` | `parsePeerStatuses` and the warnings, as operators | |
| `Configs` | `findConfig` and `runList`, as operators | |
| `TunnelSocket` | `boundControl`, as operators | |
| `ClientMessages` | ClientHellos and HTTP requests: the grammar of what clients send first | |
| `Parsers` | `Sniff`, `PeerStatus`, `Configs`, `TunnelSocket`, applied to an input; their properties | these four and `ClientMessages` |
| `RelayProofs`, `FetchProofs`, `DnsLookupProofs`, `HostsFileProofs` | proofs | the module they are named after |
| `LifecycleProofs` | proofs about `Lifecycle` and `BoundTunnel` | `BoundTunnel` |
| `ParserProofs` | proofs about `PeerStatus`, `Configs` and `TunnelSocket` | `Parsers` |
| `SniffProofs` | proofs about `Sniff` | `ParserProofs` (`Parsers`, lemmas on sequences) |
| other `MC*` | values for the constants, symmetry | the module they are named after; `MCLifecycle` `BoundTunnel` |

Names follow the source where TLA+ allows it. An operator marked *Mutant* is no
part of the model: it is a plausible mistake in the definition that follows it,
kept to show that a property would notice.

### Resolver

`cache` and `inflight` are the maps of that name, with `None` for a missing key. A
`lookupCall` is a member of `Calls`; `phase` says where its goroutine is:
`running` (in `lookup`), `returned`, `published` (after the critical section),
`closed` (after `close(call.done)`). `pc` says where a connection is: `read` (before
the first critical section), `check` (before `time.Now`), `join` (before the second
critical section), `wait` (the `select`), `done`. `seen` is the local variable
`entry`. So each critical section, each reading of the clock and each `select` is
one action, and everything may happen in between. `obtained` in an entry and the
variable `learned` are history: they record when an address was obtained and which
addresses lookups have returned for a name, and no action's guard reads them.

Not in the code: `Recycle` gives the identity of an object nobody refers to back
(Go's allocator has no end of them). `MaxTime` bounds the clock.

A server that is asked for A records is assumed to answer with A records; the code
takes any address record of a response.

### DnsLookup

One lookup from its start: `attempt`, `qtype`, the socket's port and deadline, and a
set `net` of responses under way. The random ID is unique per attempt. Network
faults are counted: a response lost, late or repeated, a query that cannot be sent,
a response of an earlier lookup still under way, and a local port handed out while a
response for it is under way. Without a fault a response takes at most `Delay`.
Time passes only while a response is awaited.

### Relay

`queue`, `got`, `fin`, `eof` are indexed by direction ("up": client to upstream).
Bytes are numbered, so that loss, repetition and reordering are visible. `timer` is
the read deadline of the client's connection. `io.Copy` copies byte by byte: `ReadByte`
takes one, and the copier is then in state `write` until the write has succeeded or failed.
`room` says whether the sink's window and the buffers before it take another byte; any
write may fill them, and only the sink's reading (`Take`) empties them. Until then `Write`
blocks, as it has no deadline, and the copier looks at nothing else.
`Resolve` and `Dial` succeed or fail arbitrarily.

`ByteStreams` is the same seen from the peers: two streams, each delivered in order and
ended behind its last byte, neither at the expense of the other. It knows nothing of
sniffing, deadlines or goroutines. `RefinesStreams` maps `got` to what is delivered, `eof`
to the ends that the receivers have been told of, and `pc` to whether the connection is
open, refused or closed.

### Lifecycle

`startTunnel` is a sequence of steps computed from platform and address families;
each makes something and says whether its error path closes the device. The clock
starts with `waitForHandshake` and runs everywhere in it, as handshakes come anywhere:
asking the device (`Poll`), looking at the time (`TimesOut` or `Sleep`) and waking up are
separate steps. `asked`, which no guard reads, records when the device was asked last. Several addresses of one family are one step, as
are the two calls of `setInterfaceMTU`. After the device is closed the interface and
its routes are gone (that is `wireguard.go`'s own account of both systems). A signal
before `signal.Notify` kills the process.

### IfaceBind and BoundTunnel

`conn` is `b.conn`; each critical section of `b.mu` is one action. A receive function
keeps the socket it was made for and is over when a read fails, which it does on a
closed socket (`receiving`); `Send` takes the socket under the lock and uses it after
(`sending`). `BoundTunnel` joins every step of the process with what it means for the
socket (`Device`): the step that brings the device up opens it; one that closes the
device is possible only when the socket is closed and its receive function has ended,
because `device.Close` waits for that. Meanwhile the device may close and open the bind
again, as wireguard-go does when the interface goes down and up. With the socket closed,
no handshake completes.

### HostsFile

`file` is a sequence of lines; a line says which of the user's lines and which managed
entries are on it, and whether it ends in a newline. So an entry that is appended to an
unfinished line shows, and so does what its removal takes along. `lang` chooses the
script. `remove_hosts_entry` is called from three places, and `after` says where it
returns. `sed -i` writes a new file and renames it; `WriteAllLines` truncates and writes.

`Interrupt` is Ctrl+C as bash handles it: the command that runs gets the signal too,
then the trap runs, and as it does not exit, the script goes on. `Resumptions` lists
where: a condition that was killed counts as false, a killed `sed` ends the script by
`set -e`. `Kill` is SIGKILL or a crash. The script in PowerShell is not interrupted
here, only killed (see 5). It writes in ASCII: `Ascii` says what each text turns into, and
`WriteLines` applies it to all the lines that are kept.

### Sniff, PeerStatus, Configs, TunnelSocket

Pure functions, so operators. `Sniff` is byte for byte, with Go's rules: an index is
checked against the length, the upper bound of a slice against the capacity, and beyond
what has been read the buffer holds zeros. White space and the word "host" are ASCII's: Go's
`TrimSpace` also trims Unicode's spaces, and `EqualFold` takes U+017F for an s.

`ClientMessages` has the messages: records of their parts, of which `HelloBytes` and
`RequestBytes` make the bytes. `ClientHello` and `Request` say which records are messages:
a hello in one record with a name of less than 256 bytes, any extensions before and
anything after it; a request whose first Host header may be written in either case, with
white space around it, and hold a name, a name and a port, or an IPv6 address in brackets.

`PeerStatus` has lines that are already split
and numbers that are already parsed; a prefix is a family, its first address and its size,
a power of two in fact, which is all that shifting its host bits out needs.
In `Configs` a file system gives the state of a directory and the kind of each entry.
`TunnelSocket` has the option's four bytes in memory and the kernel's reading of them.
`Parsers` draws one input per behaviour and states the properties; there is nothing to
happen after that. `MCParsers` has the inputs for TLC.

### Fetch

Each request may fail. Tokens are an "old" one (environment or file), which Vault
may or may not accept, and a "new" one from a login. `tokenFile` is truncated and
then written, as `os.WriteFile` does. A secret's version says which fields are valid
and which are not. `Kill` is SIGKILL, a crash or Ctrl+C, which `fetch` does not
catch. `temp` after a kill is the file that is left behind.

## 3. Runs

| Run | Instance | Distinct states | Shows |
|---|---|---|---|
| `resolver_safety` | 2 connections, 2 names, 2 lookups, 3 addresses (IPv4, IPv6, loopback) with `-ipv4-only`, TTLs clamped to 1 or 2, clock to 1 | 166 k, with symmetry | all safety properties of the resolver, and the refinement |
| `resolver_liveness` | 2 connections, 1 name, clock to 1, lookups that may hang | 73 k | `EveryResolveReturns`, `EveryFlightLands` |
| `resolver_sharing` | a name in two spellings | violation | a fresh name is looked up again |
| `dns_lookup` | 0 to 2 servers, 2 ports, up to 2 faults, with and without `-ipv4-only` | 577 k | `WithinBudget`, `Truthful`, `SurvivesOneFault`, `LookupReturns` |
| `relay` | 3 bytes each way, windows that fill after any byte | 103 k | streams intact, half-close, end, and the refinement of `ByteStreams` |
| `lifecycle` | both platforms, all sets of families, 2 ports, with and without `-bind-iface`, 2 sockets; a time-out of 3, polls every 2, clock to 6 | 397 k | nothing left behind, no early listener, real timeouts, no socket leaks, stops |
| `fetch` | 2 fetches, 2 regions, a valid and an invalid secret | 0.97 M, with symmetry | configs whole and valid, no litter |
| `fetch_ends` | 1 fetch, again and again, 2 valid secrets and an invalid one | 66 k | `OkMeansAllWritten`, `EveryFetchEnds` |
| `fetch_login` | 1 fetch | violation | a login in spite of a usable token |
| `hosts` | 2 runs of either script, 2 hosts, up to 2 user lines with and without a last newline, one of them not in ASCII, 1 Ctrl+C each | 346 k | the user's lines stay, no entry outlives its run, stale ones are repaired |
| `parsers` | 73 complete messages and each prefix that the buffer holds, devices with up to 2 of 32 peers, 20,000 file systems with a search, 48 sockets | 25 k | the properties of `Parsers` |
| `sniff_truncated` | the same messages | violation | a host name that never arrived in full |

Why the bounds are enough. Resolver: a race needs two connections for one name, a
wrong answer two names, an overtaking lookup two calls; one tick of
the clock passes a deadline and the shorter TTL's expiry, at any point of a
connection's way, and not the longer one's. The proofs remove these bounds.
DnsLookup: two servers are the least with which rotation matters; three attempts are
the code's own number; one fault is what `SurvivesOneFault` allows and the second one
shows what happens past it. Relay: with three bytes the sniffed part may be a proper
prefix of what has arrived, with more to come. Lifecycle: two listeners let one fail
while the other works; 3 and 2 let the deadline fall between two polls, and 6 is past
the first poll behind it, so that a handshake may come before, during and after the last sleep; with two sockets
one can be open while an old one is still in use. Fetch: two regions are the least of
which one can be written and the other not; two fetches for what they do to each other,
and a second valid secret where one alone must leave all that it read. HostsFile: the
second run meets what the first one left or is doing; a third, without interruptions, has
been tried and finds nothing more. Sniff: a buffer of 128 bytes is exceeded by hellos
with a padding extension and holds the others entirely. PeerStatus: with addresses below
8 a prefix of all of them and one of the upper half have servers inside and outside.

`dns_lookup` and `hosts` have no deadlock check, because a lookup and a script end; the other
models go on or say explicitly that they are over.

Fairness. Goroutines that can run are scheduled and the clock advances (weak fairness
on the steps of a caller, of a lookup's publication, of a copier, of `run`, of a
fetch). For the socket, a receive function that can fail does, and `device.Close`, which has
begun when `run` has a reason to stop, does close the bind. Nothing is assumed of peers, servers, browsers, users or signals,
nor that a lookup returns, except as an explicit hypothesis: `EveryFlightLands` assumes that
lookups return, which `LookupReturns` shows of `DnsLookup`; `EveryConnectionEnds`
assumes that the client ends, that the upstream does after its EOF, and that neither stops
reading for good unless it aborts (`KeepsReading`). The last one is necessary, not
convenient: fairness of a copier does not finish a write that is blocked, and a connection whose
peer has stopped reading is never closed, even if both peers have sent their FIN. The time-outs
behind the fairness of `Relay`'s `Resolve` and `Dial` and of `Fetch`'s requests are in
the code or in the kernel.

### What the three violations show

* `resolver_sharing`: `Resolve` reads the cache and `lookupShared` joins or starts a
  lookup in two separate critical sections. A connection between the two misses a
  lookup that publishes just then, and starts another for a name that is fresh. The
  comment and the test on coalescing want one set of queries. Harmless: one more
  round trip.
* `fetch_login`: `tokenValid` takes every error for "not valid", so a failed request
  leads to a browser login although, in the words of the comment, a login is for when
  "there's no usable token".
* `sniff_truncated`: when the one `Read` ends within the host name of a ClientHello, the
  slice for the name goes beyond the data but not beyond the buffer, which Go allows.
  `parseSNI` then returns the part that has arrived, filled up with zeros, as a name, where
  its comment promises "couldn't parse". The connection is closed when that name does not
  resolve, even if there is a fallback target. `SniffsNothingElse` shows that this is the
  worst that can happen: the bytes that have arrived are right.

Also noticed, without a run: Ctrl+C while `run-with-hosts.sh` is adding entries removes
them, but the script goes on, so that vpnproxy may run with some hosts not redirected
(`RunningMeansRedirected` excepts interrupted runs for that reason; no entry is left in the
end, `NoEntryOutlivesItsRun`). Its comment at line 79 says that removal is "in place" and
keeps the inode, but `sed -i` renames a new file. `run-with-hosts.ps1` cannot remove entries
from a hosts file that has nothing else in it (`OnlyManaged`), and replaces the characters that ASCII
does not have in the user's lines. A handshake that completes within the time-out but after
the last `IpcGet` before the deadline, while `waitForHandshake` is on its way to
`time.Now()`, is missed, and start-up fails for want of one. The comment of
`logPeerStatus` speaks of a DNS server that is in no peer's AllowedIPs; the code warns at
each peer that does not cover it, so that with two peers a server that one of them covers is
warned of all the same (`UnroutedServersAreFlagged` states what the code does, peer by peer). `README.md` of the repository says that TTLs are clamped to
5s–5min, the code's defaults are 5 minutes and 1 hour; and a stray response that meets
a reused local port costs the attempt that reads it, and the next one too if that gets
the same port again, so two such coincidences can fail a lookup (`SurvivesOneFault`
counts them as faults).

## 4. Proofs

`ResolverProofs` proves, for any sets of connections, names, addresses and calls, any
TTLs, bounds and budget (assumption `ResolverAssumption`: constants have their types,
`MinTTL <= MaxTTL` as `main.go` ensures, `None` is no value):

* `TypeCorrect`, `OneLookupPerName`, `RepliesAreSound`, `EntriesAreClamped`,
  `AnswersAreCachedFirst`: the invariants of `resolver_safety`;
* `CacheIsMonotonic`: the action property;
* `ResolverImplementsNameService`: the refinement, initial states and steps.

The inductive invariant is `Inv`, built in layers:

1. `TypeInv`: `TypeOK`, and that a caller inside `Resolve` has a name (`Placed`), without
   which `Key(p)` has no value;
2. `SingleFlight`, which is inductive on top of it: only `StartLookup` adds to
   `inflight`, where there is nothing, and `Publish` removes exactly its own call;
3. `Sourced`: every copy of an address (cache, snapshot, answer, result) is one learned
   for that name, and a caller waits for a call of its own name that is not recycled.
   `ReplySound` alone is not inductive: it says nothing of the copies on the way;
4. `Timely`: an answer still to be published is no older than the entry it will replace.
   It holds because of `SingleFlight`: nobody else publishes for that name meanwhile.
   `CacheMovesForward`, `AnswerInCacheFirst` and `PinnedWithinTTL` rest on it.

The refinement then goes action by action: `ResolveLiteral`, `ResolveName`, `Leave` and
`LookupSucceeds` are steps of `NameService`, the three ways to return are its `Reply`
(this needs `Sourced`), the rest stutters.

### The other proof modules

Each but `ParserProofs` and `SniffProofs`, which have no steps to speak of, has an inductive invariant and
proves all safety invariants of its component's run from it. `TypeInv` is always its first part: types, and what is known of the program
counter's past. Lemmas go action by action, so that a leaf names the one action it is about.

* `RelayProofs` (any `MaxBytes`): `Types`, `Transparent`, `FinComesLast`, `ClosesLast`,
  `RelayImplementsStreams`.
  `StreamIntact` speaks of what was written only. `Ordered` adds that the sniffed bytes
  still to be replayed and the queue follow it without a gap, up to the last byte sent;
  `EndsInOrder`, that a copier is over only when all is delivered or a peer has aborted, and
  that only its end closes the sink. The refinement rests on the same invariant: the byte a
  copier writes is the next one of its stream by `Ordered`; a half-close is `ByteStreams`'
  `End`, and closing both connections its `Close`, by `EndsInOrder`; sniffing and resolving
  stutter, and so do reading a byte and the sink's window. That a refused connection has
  delivered nothing needs one part more, `Untouched`.
* `LifecycleProofs` (any finite set of ports, any timeout and interval, any sockets): `Types`,
  `CleansUp`, `ServesOnlyThroughTunnel`, `GivesUpForAReason`, `SocketsDoNotLeak`. A lemma says what the steps of
  `startTunnel` make on either platform for each set of families: the first two make nothing,
  the third creates the device, and the error paths of all later ones close it. On it rest
  `Tidy` (nothing is there before the device, nor after the end) and `Complete` (while the process lives, all
  that its past steps have made is there). `Counted` bounds the channel of errors by the
  listeners that have failed. `Timely` is what `waitForHandshake` knows: a poll is behind the sleep
  before it, and from the device's answer to the look at the clock any handshake is later than
  the question (`Informed`). Every step of `BoundTunnel` is one
  of `Lifecycle` or leaves its variables alone, so that the invariant holds there as
  well; with `Owned`, the open socket is the one in `conn`, and there is none unless the
  device is up.
* `FetchProofs` (any fetches, regions, versions of the secret): `Types`, `ConfigsAreWhole`,
  `LeavesNoLitter`, `AsksWithToken`, `SuccessMeansAllWritten`. `Local` says of a fetch at each
  place what its temporary file holds and which token it has; a rename then puts a whole file
  into place. The last theorem supposes one fetch at a time, as run `fetch_ends` does: with two, the
  other one's older secret may be written last.
* `DnsLookupProofs` (any lists of servers, timeouts, delays, numbers of faults): `Types`,
  `KeepsToBudget`, `TellsTheTruth`, `SurvivesAFault`. `Sound` says that a response to this lookup
  repeats the zone or reports an error (`Honest`), and that AAAA is asked for only without A
  records. `SurvivesAFault` needs `Mild`: while at most one thing is wrong (`Calm`), at most
  one attempt has failed, its successor goes to another server with time left, and
  unless a fault or a dead server explains it an answer is on its way. TLC checked that invariant
  first. The theorem has three hypotheses (`Orderly`): a response that nothing delays arrives
  before the time-out, no server is listed twice, and the names of the model's records
  are not those of its errors. The first two are real limits: with a server listed
  twice the second attempt may go to the dead one again.
* `HostsFileProofs` (any number of runs, hosts, lines and interrupts): `KeepsUserLines`,
  `CleansUp`, `Redirects`. `Kempt`: lines that are about to be appended to end in a newline.
  `Intact`: the user's text is in the file, and in what removal will put in its place; for
  PowerShell as it was or in ASCII (`Theirs`). That it does not matter how often it is rewritten
  rests on `Ascii` being idempotent, an assumption of `HostsFile`. `Entries`,
  `Quiet`, `Over`: who may have entries in the file, and that none is left when nobody runs.
  `Redirected`: a run that was not interrupted has entered each host so far once, on lines
  of their own. `Redirects` supposes that no host is listed twice: each would get
  two entries.
* `ParserProofs`: `ReadsPeersBack` and `FlagsUnroutedServers` (any number of peers, prefixes,
  servers), `ListMatchesRun` (any file systems, directories, regions), `SocketsArePinned` (any 32-bit
  index), from `ParsersAssumption`: a device's prefixes have no host bits set, as WireGuard masks them. `Scans(text, before, after)` says that the loop of `parsePeerStatuses` gets from one list
  of peers to another in a text; texts compose, so that each kind of line is looked at
  once, then the lines of a peer, then those of a device.
* `SniffProofs` (any buffer size, any messages, cut off at any byte): `CompleteMessagesAreSniffed`,
  `NothingElseIsSniffed`. The invariant, `SniffInput`, says what the input is; the work
  is in two lemmas about one message.

  `HostOfHello` follows the fields of a ClientHello. `Holds(b, at, s)` says that `s` is in the
  bytes from an offset on; a concatenation holds its parts there. So each offset of `parseSNI`
  is that of the field it should be, or the length read there is 0 because it has not arrived, and
  the record is then too short. The extensions before server_name are passed one after the
  other, by the least counterexample. What is returned is the name, its end zeros if it was cut off.

  `HostOfRequest` goes by lines. Those of the head are no Host header, cut off or not, because
  the first colon of a line decides and stays where it is; the next line is one as soon as
  its colon has arrived. `HostLeft` says what `net.SplitHostPort` makes of each beginning of a
  value: that beginning, or the host.

  The hypotheses are in `ParsersAssumption` and `ClientMessages`, and TLC evaluates them for all
  messages of the runs. Names of less than 256 bytes (DNS has 253), a hello in one record and printable ASCII
  in a Host header are limits of the theorems. That a request's `head` has no Host header only
  says which one is the first. That a ClientHello does not spell one (`SpellsNoHost`) is a real
  exception: if it is cut off before its name, `parseHTTPHost` gets to see it, and would take bytes
  of it (of the session ID, say) that happen to be CR LF, `host:` and a value for a header.

What a recursive definition computes (what `sed` keeps of a file, what the loop over WireGuard's
text collects) is proved of recursive *functions*, by the least counterexample
(`WFMin` of the library): the induction rules that take a predicate cannot be used by
these provers.

### Only model-checked

* Liveness (`EveryResolveReturns`, `EveryFlightLands`, `LookupReturns`, `EveryConnectionEnds`,
  `StopsWhenTold`, `EveryFetchEnds`): fairness and ENABLED are out of the prover's reach.
* The runs that expect a violation: they refute.

Every safety invariant, action property and refinement that a passing run checks is a theorem.
`TypeOK` of `Relay` is one (`Types`) without a run.

## 5. Not modelled

* The wire format of DNS, HTTP and JSON of Vault's API: a message is the content that the
  code tells apart, or the failure of a request.
* `describePeers` and `routeInterface`, which word a log line, and all other messages.
* Flag parsing, `parsePorts` and `requireElevated` beyond "may fail": checks of one value
  each, before anything has been set up.
* The CancelKeyPress handler of `run-with-hosts.ps1`: on which thread it runs, and whether
  `finally` runs besides, depends on the PowerShell host, as its comment says.
  `run-with-hosts.bat` only asks for elevation.
* Commands of the hosts wrappers that fail for other reasons than a signal (a full disk, say).
* File names that differ in case only: `Configs` compares names exactly. On the file systems
  of both platforms, which usually ignore case, `run` also finds a config under a spelling that
  `list` does not show.
* Packets: what WireGuard and the sockets of `ifaceBind` send. A peer with an IPv6 endpoint,
  which `ifaceBind` refuses, is one that never answers.
* Build, packaging, CI, slides and the wintun driver: not part of the running program.

## 6. What could follow

All modules of section 2 are checked and proved as section 4 says. Further work would go
beyond them:

1. the composition of `Resolver` and `DnsLookup`, so that `EveryFlightLands` need not suppose
   that lookups return;
2. several connections of `Relay` under the listeners of `Lifecycle`.
