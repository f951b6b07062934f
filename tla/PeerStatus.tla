----------------------------- MODULE PeerStatus -----------------------------
(***************************************************************************)
(* wireguard.go: what the process learns of its peers from the text of     *)
(* IpcGet, and which DNS servers it then warns of.  A line "key=value" is  *)
(* a record, its value already parsed.  An address is a family and a       *)
(* number; a prefix is the first of its addresses and how many there are.  *)
(***************************************************************************)
EXTENDS Integers, Sequences

-----------------------------------------------------------------------------
(* device.IpcGet of wireguard-go: the keys of the device, then those of    *)
(* each of its peers, which begin with the public key.  A peer has an      *)
(* endpoint ("" is none) only if one is configured or has been learnt.     *)

KeyValue(key, val) == [key |-> key, val |-> val]

PeerLines(p) ==
  <<KeyValue("public_key", "k"), KeyValue("protocol_version", 1)>>
  \o (IF p.endpoint = "" THEN <<>> ELSE <<KeyValue("endpoint", p.endpoint)>>)
  \o <<KeyValue("last_handshake_time_sec", p.handshake),
       KeyValue("last_handshake_time_nsec", 5),
       KeyValue("tx_bytes", p.txBytes), KeyValue("rx_bytes", p.rxBytes)>>
  \o [i \in DOMAIN p.allowedIPs |-> KeyValue("allowed_ip", p.allowedIPs[i])]

IpcGet(peers) ==
  LET text[n \in 0 .. Len(peers)] ==
        IF n = 0 THEN <<KeyValue("listen_port", 1), KeyValue("fwmark", 2)>>
        ELSE text[n - 1] \o PeerLines(peers[n])
  IN text[Len(peers)]

-----------------------------------------------------------------------------
(* parsePeerStatuses.  lastHandshake is {} for the zero time.              *)

peerStatus == [endpoint |-> "", allowedIPs |-> <<>>, lastHandshake |-> {},
               txBytes |-> 0, rxBytes |-> 0]

\* Mutant: the time 0, which stands for no handshake, is a time like any other.
AnyTime(old, secs) == {secs}

HandshakeTime(old, secs) == IF secs > 0 THEN {secs} ELSE old

WithField(p, line) ==
  CASE line.key = "endpoint" -> [p EXCEPT !.endpoint = line.val]
    [] line.key = "allowed_ip" -> [p EXCEPT !.allowedIPs = Append(@, line.val)]
    [] line.key = "tx_bytes" -> [p EXCEPT !.txBytes = line.val]
    [] line.key = "rx_bytes" -> [p EXCEPT !.rxBytes = line.val]
    [] line.key = "last_handshake_time_sec" ->
         [p EXCEPT !.lastHandshake = HandshakeTime(@, line.val)]
    [] OTHER -> p

\* One more line: it starts a peer, or it is about the last one that started.
WithLine(peers, line) ==
  IF line.key = "public_key" THEN Append(peers, peerStatus)
  ELSE IF peers = <<>> THEN peers
  ELSE [peers EXCEPT ![Len(peers)] = WithField(@, line)]

parsePeerStatuses(text) ==
  LET peers[n \in 0 .. Len(text)] ==
        IF n = 0 THEN <<>> ELSE WithLine(peers[n - 1], text[n])
  IN peers[Len(text)]

\* waitForHandshake: whether one look at the peers is enough.
HandshakeCompleted(text) ==
  \E i \in DOMAIN parsePeerStatuses(text) : parsePeerStatuses(text)[i].lastHandshake # {}

-----------------------------------------------------------------------------
(* logPeerStatus.                                                          *)

\* netip.Prefix.Contains: the bits in front are the same, those behind, of which the size
\* of the prefix is the power of two, are shifted out.
PrefixContains(prefix, addr) ==
  /\ prefix.family = addr.family
  /\ prefix.addr \div prefix.size = addr.addr \div prefix.size

anyPrefixContains(prefixes, addr) ==
  \E i \in DOMAIN prefixes : PrefixContains(prefixes[i], addr)

\* Mutant: a server that some other peer covers is not warned of.
WarningsOfNone(text, dnsServers) ==
  LET peers == parsePeerStatuses(text)
  IN {w \in (DOMAIN peers) \X dnsServers :
        \A i \in DOMAIN peers : ~anyPrefixContains(peers[i].allowedIPs, w[2])}

\* The warnings of logPeerStatus: peers by number, with a DNS server each.
Warnings(text, dnsServers) ==
  LET peers == parsePeerStatuses(text)
  IN {w \in (DOMAIN peers) \X dnsServers : ~anyPrefixContains(peers[w[1]].allowedIPs, w[2])}
=============================================================================
