---------------------------- MODULE TunnelSocket ----------------------------
(***************************************************************************)
(* boundControl of tunnel_darwin.go and tunnel_windows.go: the option that *)
(* pins a socket to the tunnel's interface.  A network such as "tcp6" is a *)
(* record of its protocol and version.                                     *)
(***************************************************************************)
EXTENDS Naturals, Sequences

\* The bytes in memory of a 32-bit integer; all platforms are little-endian.
LittleEndian(n) ==
  <<n % 256, (n \div 256) % 256, (n \div (256 * 256)) % 256, (n \div (256 * 256 * 256)) % 256>>
BigEndian(n) == LET b == LittleEndian(n) IN <<b[4], b[3], b[2], b[1]>>

\* isIPv6Network; strings.Contains(network, "6") comes to the same.
isIPv6Network(network) == network.version = 6

\* setsockopt(level, name, &value)
SockOpt(level, name, value) == [level |-> level, name |-> name, value |-> value]

\* Mutant: IP_UNICAST_IF in host order, as its counterpart for IPv6.
HostOrder(network, ifIndex) ==
  IF isIPv6Network(network)
  THEN SockOpt("IPPROTO_IPV6", "IPV6_UNICAST_IF", LittleEndian(ifIndex))
  ELSE SockOpt("IPPROTO_IP", "IP_UNICAST_IF", LittleEndian(ifIndex))

\* The index for IPv4 is put in network byte order first.
WindowsControl(network, ifIndex) ==
  IF isIPv6Network(network)
  THEN SockOpt("IPPROTO_IPV6", "IPV6_UNICAST_IF", LittleEndian(ifIndex))
  ELSE SockOpt("IPPROTO_IP", "IP_UNICAST_IF", BigEndian(ifIndex))

DarwinControl(network, ifIndex) ==
  IF isIPv6Network(network)
  THEN SockOpt("IPPROTO_IPV6", "IPV6_BOUND_IF", LittleEndian(ifIndex))
  ELSE SockOpt("IPPROTO_IP", "IP_BOUND_IF", LittleEndian(ifIndex))

boundControl(platform, network, ifIndex) ==
  IF platform = "darwin" THEN DarwinControl(network, ifIndex) ELSE WindowsControl(network, ifIndex)

-----------------------------------------------------------------------------
(* The kernel's side: the interface that a socket with such an option uses *)
(* (0: whichever the routing table says).                                  *)

FromLittleEndian(b) == b[1] + 256 * (b[2] + 256 * (b[3] + 256 * b[4]))
FromBigEndian(b)    == b[4] + 256 * (b[3] + 256 * (b[2] + 256 * b[1]))

InterfaceOf(version, opt) ==
  CASE version = 4 /\ opt.name = "IP_UNICAST_IF" -> FromBigEndian(opt.value)
    [] version = 4 /\ opt.name = "IP_BOUND_IF" -> FromLittleEndian(opt.value)
    [] version = 6 /\ opt.level = "IPPROTO_IPV6" -> FromLittleEndian(opt.value)
    [] OTHER -> 0
=============================================================================
