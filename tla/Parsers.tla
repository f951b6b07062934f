------------------------------ MODULE Parsers -------------------------------
(***************************************************************************)
(* The program's pure functions: each behaviour takes one input and checks *)
(* the function's result against what it should be.                        *)
(***************************************************************************)
EXTENDS Sniff, ClientMessages, PeerStatus, Configs, TunnelSocket

CONSTANTS
  Messages,     \* what clients send, complete
  Devices,      \* what may be a device's peers: sequences
  Servers,      \* DNS servers
  FileSystems,
  ConfigDirs,   \* the values of -config-dir
  Indices       \* of network interfaces

\* WireGuard reports a prefix without the bits behind it.
Prefix ==
  {p \in [family : {4, 6}, addr : Nat, size : Nat \ {0}] : p.addr % p.size = 0}
Peer == [endpoint : STRING, allowedIPs : Seq(Prefix), handshake : Nat, txBytes : Nat, rxBytes : Nat]

\* The parts of a request are what they are by the Host header that comes first, and a
\* ClientHello, of which some bytes may be any, does not happen to spell one.
SpellsNoHost(bytes) == \A s \in LineStarts(bytes) : ~IsHostHeader(LineAt(bytes, s))

ASSUME ParsersAssumption ==
  /\ \A m \in Messages :
       \/ m.tls = TRUE /\ ClientHello(m) /\ SpellsNoHost(Wire(m))
       \/ m.tls = FALSE /\ Request(m) /\ SpellsNoHost(m.head)
  /\ Devices \subseteq Seq(Peer)
  /\ Servers \subseteq [family : {4, 6}, addr : Nat]
  /\ Indices \subseteq {n \in Nat : n \div (256 * 256 * 256) < 256}

VARIABLE input    \* a record; its field about says what function it is for

LOCAL INSTANCE FiniteSetsExt

Networks == [proto : {"tcp", "udp"}, version : {4, 6}]

Init ==
  \/ \E m \in Messages : \E received \in 1 .. Min({Len(Wire(m)), BufSize}) :
       input = [about |-> "sniff", message |-> m, bytes |-> Wire(m), received |-> received]
  \/ \E peers \in Devices : input = [about |-> "peers", peers |-> peers]
  \/ \E fs \in FileSystems, configDir \in ConfigDirs :
       input = [about |-> "configs", fs |-> fs, configDir |-> configDir]
  \/ \E platform \in {"darwin", "windows"}, network \in Networks, ifIndex \in Indices :
       input = [about |-> "socket", platform |-> platform, network |-> network, ifIndex |-> ifIndex]

Next == UNCHANGED input

Spec == Init /\ [][Next]_input

-----------------------------------------------------------------------------
(* Properties.                                                             *)

Received == SubSeq(input.bytes, 1, input.received)
Complete == input.received = Len(input.bytes)

\* A ClientHello, whatever else it holds, or a request (without a body) that
\* arrives in one piece yields the host it is meant for; its port is stripped.
SniffsCompleteMessages ==
  input.about = "sniff" /\ Complete => peekHostname(Received) = input.message.name

\* Of a message cut off anywhere, what was received is not misread: the host
\* is none, or has the right bytes as far as these have arrived, with zeros for
\* the rest of an SNI and nothing for the rest of a Host header.
SniffsNothingElse ==
  input.about = "sniff" /\ peekHostname(Received) \notin {<<>>, input.message.name} =>
    LET host == peekHostname(Received)
    IN IF input.message.tls
       THEN /\ Len(host) = Len(input.message.name)
            /\ \E n \in 0 .. Min({Len(host), input.received}) :
                 /\ host = SubSeq(input.message.name, 1, n) \o [i \in 1 .. Len(host) - n |-> 0]
                 /\ SubSeq(host, 1, n) = SubSeq(Received, input.received - n + 1, input.received)
       ELSE /\ Len(host) <= Len(input.message.value)
            /\ host = SubSeq(input.message.value, 1, Len(host))

\* The comment of parseSNI: of truncated input a slice that is out of range just
\* means "couldn't parse".
TruncatedIsNotParsed ==
  input.about = "sniff" /\ input.message.tls =>
    peekHostname(Received) \in {<<>>, input.message.name}

\* Every peer's fields end up with that peer, and a device that has no handshake
\* with any of them, 0 in its text, is not taken for connected.
PeersAreReadBack ==
  input.about = "peers" =>
    LET text == IpcGet(input.peers)
    IN /\ parsePeerStatuses(text) =
            [i \in DOMAIN input.peers |->
               [endpoint |-> input.peers[i].endpoint, allowedIPs |-> input.peers[i].allowedIPs,
                lastHandshake |->
                  IF input.peers[i].handshake = 0 THEN {} ELSE {input.peers[i].handshake},
                txBytes |-> input.peers[i].txBytes, rxBytes |-> input.peers[i].rxBytes]]
       /\ HandshakeCompleted(text) <=> \E i \in DOMAIN input.peers : input.peers[i].handshake > 0

\* Whether WireGuard may send packets for addr to peer.
Covers(peer, addr) ==
  \E j \in DOMAIN peer.allowedIPs :
    LET prefix == peer.allowedIPs[j]
    IN  /\ prefix.family = addr.family
        /\ addr.addr \in prefix.addr .. prefix.addr + prefix.size - 1

\* Each peer is judged alone: a DNS server is warned of, at the peer in question, if
\* and only if none of that peer's AllowedIPs covers it.  So a server that no peer
\* covers is warned of, and so is one that some other peer does cover.
UnroutedServersAreFlagged ==
  input.about = "peers" =>
    Warnings(IpcGet(input.peers), Servers) =
      {w \in (DOMAIN input.peers) \X Servers : ~Covers(input.peers[w[1]], w[2])}

\* list and run agree: a region is listed if and only if run would find a config
\* for it, links that lead nowhere and directories with such a name apart.
ListedIsFound ==
  input.about = "configs" /\ ~ListFails(input.fs, input.configDir) =>
    \A r \in Regions \ {""} :
      LET kinds == {input.fs[d].entries[r] :
                      d \in {e \in DirSet(input.configDir) : input.fs[e].state = "open"}}
      IN kinds \intersect {"dir", "dangling"} = {} =>
           (r \in runList(input.fs, input.configDir)
              <=> findConfig(input.fs, r, input.configDir) # {})

\* A socket of either family is bound to the interface it should be, as the
\* kernel reads the option.
PinnedToTunnel ==
  input.about = "socket" =>
    InterfaceOf(input.network.version,
                boundControl(input.platform, input.network, input.ifIndex)) = input.ifIndex
=============================================================================
