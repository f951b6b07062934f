---------------------------- MODULE ParserProofs ----------------------------
(***************************************************************************)
(* Proofs about the pure functions of Parsers, for any device, any file    *)
(* system and any interface.  parsePeerStatuses is a recursive function of *)
(* the text, and so is the text of the peers: what it makes of them is     *)
(* composed from what it makes of each of their lines (Scans).             *)
(***************************************************************************)
EXTENDS Parsers, WellFoundedInduction, SequenceTheorems, TLAPS

-----------------------------------------------------------------------------
(* Induction.                                                              *)

\* A set of natural numbers has a least one.
LEMMA Least ==
  ASSUME NEW S \in SUBSET Nat, S # {}
  PROVE  \E r \in S : \A s \in S : r <= s
<1> DEFINE T == S
<1>0. T # {} /\ T \subseteq Nat
  OBVIOUS
<1>1. PICK r \in T : \A s \in T : ~(<<s, r>> \in OpToRel(<, Nat))
  <2> HIDE DEF T
  <2> QED
    BY <1>0, NatLessThanWellFounded, WFMin, Zenon
<1>2. ASSUME NEW s \in S PROVE r <= s
  <2>1. r \in Nat /\ s \in Nat
    OBVIOUS
  <2>2. <<s, r>> \in Nat \X Nat /\ <<s, r>>[1] = s /\ <<s, r>>[2] = r
    BY <2>1
  <2>3. ~(s < r)
    BY <1>1, <2>2, Zenon DEF OpToRel
  <2> QED
    BY <2>1, <2>3
<1> QED
  BY <1>2

\* Induction, by the least counterexample.
LEMMA Induction ==
  ASSUME NEW S \in SUBSET Nat, 0 \in S, \A n \in S : n + 1 \in S
  PROVE  \A n \in Nat : n \in S
<1>1. SUFFICES ASSUME Nat \ S # {} PROVE FALSE
  OBVIOUS
<1>2. PICK r \in Nat \ S : \A s \in Nat \ S : r <= s
  BY <1>1, Least
<1>3. r \in Nat /\ r # 0 /\ r - 1 \in Nat /\ (r - 1) + 1 = r /\ ~(r <= r - 1)
  BY <1>2
<1>4. r - 1 \in S
  BY <1>2, <1>3
<1> QED
  BY <1>2, <1>3, <1>4

\* A sequence of one element.
LEMMA Singleton == ASSUME NEW S, NEW x \in S PROVE <<x>> \in Seq(S)
  OBVIOUS

-----------------------------------------------------------------------------
(* Socket options.                                                         *)

\* Each byte of a 32-bit number.
LEMMA BytesOfIndex ==
  ASSUME NEW n \in Nat, n \div (256 * 256 * 256) < 256
  PROVE  FromLittleEndian(LittleEndian(n)) = n /\ FromBigEndian(BigEndian(n)) = n
<1> DEFINE a == n % 256
           b == (n \div 256) % 256
           c == (n \div (256 * 256)) % 256
           d == (n \div (256 * 256 * 256)) % 256
<1>1. LittleEndian(n) = <<a, b, c, d>> /\ BigEndian(n) = <<d, c, b, a>>
  BY DEF LittleEndian, BigEndian
<1>2. a + 256 * (b + 256 * (c + 256 * d)) = n
  BY SMT
<1> HIDE DEF a, b, c, d
<1> QED
  BY <1>1, <1>2 DEF FromLittleEndian, FromBigEndian

\* On either platform the kernel reads the index that boundControl was given.
LEMMA Pinned ==
  ASSUME NEW platform, NEW network \in Networks, NEW ifIndex \in Indices
  PROVE  InterfaceOf(network.version, boundControl(platform, network, ifIndex)) = ifIndex
<1>1. ifIndex \in Nat /\ ifIndex \div (256 * 256 * 256) < 256
  BY ParsersAssumption
<1>2. /\ FromLittleEndian(LittleEndian(ifIndex)) = ifIndex
      /\ FromBigEndian(BigEndian(ifIndex)) = ifIndex
  BY <1>1, BytesOfIndex
<1>3. network.version \in {4, 6}
  BY DEF Networks
<1> DEFINE little == LittleEndian(ifIndex)
           big    == BigEndian(ifIndex)
<1> HIDE DEF little, big
<1>4. CASE network.version = 6
  <2>1. boundControl(platform, network, ifIndex).level = "IPPROTO_IPV6"
        /\ boundControl(platform, network, ifIndex).value = little
    BY <1>4 DEF little, boundControl, DarwinControl, WindowsControl, isIPv6Network, SockOpt
  <2> QED
    BY <1>2, <1>4, <2>1 DEF InterfaceOf, little
<1>5. CASE network.version = 4 /\ platform = "darwin"
  <2>1. boundControl(platform, network, ifIndex).name = "IP_BOUND_IF"
        /\ boundControl(platform, network, ifIndex).value = little
    BY <1>5 DEF little, boundControl, DarwinControl, isIPv6Network, SockOpt
  <2> QED
    BY <1>2, <1>5, <2>1 DEF InterfaceOf, little
<1>6. CASE network.version = 4 /\ platform # "darwin"
  <2>1. boundControl(platform, network, ifIndex).name = "IP_UNICAST_IF"
        /\ boundControl(platform, network, ifIndex).value = big
    BY <1>6 DEF big, boundControl, WindowsControl, isIPv6Network, SockOpt
  <2> QED
    BY <1>2, <1>6, <2>1 DEF InterfaceOf, big
<1> QED
  BY <1>3, <1>4, <1>5, <1>6

\* Sockets of either family are pinned to the tunnel on either platform, whatever the
\* 32-bit index of its interface.
THEOREM SocketsArePinned == Spec => []PinnedToTunnel
<1>1. Init => PinnedToTunnel
  <2> SUFFICES ASSUME Init, input.about = "socket" PROVE PinnedToTunnel
    BY DEF PinnedToTunnel
  <2>1. \E platform \in {"darwin", "windows"}, network \in Networks, ifIndex \in Indices :
          input = [about |-> "socket", platform |-> platform, network |-> network,
                   ifIndex |-> ifIndex]
    <3>1. ASSUME NEW m \in Messages, NEW n,
                 input = [about |-> "sniff", message |-> m, bytes |-> Wire(m), received |-> n]
          PROVE  FALSE
      BY <3>1
    <3>2. ASSUME NEW peers \in Devices, input = [about |-> "peers", peers |-> peers] PROVE FALSE
      BY <3>2
    <3>3. ASSUME NEW fs, NEW dir, input = [about |-> "configs", fs |-> fs, configDir |-> dir]
          PROVE  FALSE
      BY <3>3
    <3> QED
      BY <3>1, <3>2, <3>3 DEF Init
  <2> QED
    BY <2>1, Pinned DEF PinnedToTunnel
<1>2. PinnedToTunnel /\ [Next]_input => PinnedToTunnel'
  BY DEF Next, PinnedToTunnel
<1> QED
  BY <1>1, <1>2, PTL DEF Spec

-----------------------------------------------------------------------------
(* Configs.                                                                *)

\* findConfig finds a config if and only if some directory has one.
LEMMA FindsConfig ==
  ASSUME NEW fs, NEW region, NEW configDir
  PROVE  findConfig(fs, region, configDir) # {}
           <=> \E d \in DirSet(configDir) : Stat(fs, d, region)
<1> DEFINE dirs  == configDirs(configDir)
           found == {i \in DOMAIN dirs : Stat(fs, dirs[i], region)}
<1>1. \E n \in Nat : DOMAIN dirs = 1 .. n
  <2>1. CASE configDir # ""
    <3>1. DOMAIN <<configDir>> = 1 .. 1
      OBVIOUS
    <3> QED
      BY <2>1, <3>1 DEF configDirs
  <2>2. CASE configDir = ""
    <3> DEFINE Dirs == STRING \union {"."}
    <3>1. <<".">> \in Seq(Dirs)
      BY Singleton, "." \in Dirs, Zenon
    <3>2. UserDirs \in Seq(Dirs)
      BY ConfigsAssumption, SeqMonotonic, STRING \subseteq Dirs, Zenon
    <3>3. <<".">> \o UserDirs \in Seq(Dirs)
      BY <3>1, <3>2, ConcatProperties
    <3> QED
      BY <2>2, <3>3, LenProperties DEF configDirs
  <2> QED
    BY <2>1, <2>2
<1>2. findConfig(fs, region, configDir) # {} => found # {}
  BY DEF findConfig
<1>3. ASSUME found # {} PROVE findConfig(fs, region, configDir) # {}
  <2>1. found \in SUBSET Nat
    BY <1>1
  <2>2. PICK i \in found : \A k \in found : i <= k
    BY <1>3, <2>1, Least
  <2> QED
    BY <2>2 DEF findConfig
<1>4. found # {} <=> \E d \in DirSet(configDir) : Stat(fs, d, region)
  BY DEF DirSet
<1> QED
  BY <1>2, <1>3, <1>4

\* In any file system, list shows the regions for which run would find a config.
THEOREM ListMatchesRun == Spec => []ListedIsFound
<1>1. ListedIsFound
  <2> SUFFICES ASSUME NEW fs, NEW configDir, ~ListFails(fs, configDir), NEW r \in Regions \ {""}
               PROVE  LET kinds == {fs[d].entries[r] :
                                      d \in {e \in DirSet(configDir) : fs[e].state = "open"}}
                      IN kinds \intersect {"dir", "dangling"} = {} =>
                           (r \in runList(fs, configDir) <=> findConfig(fs, r, configDir) # {})
    BY DEF ListedIsFound
  <2> DEFINE kinds == {fs[d].entries[r] : d \in {e \in DirSet(configDir) : fs[e].state = "open"}}
  <2>1. SUFFICES ASSUME kinds \intersect {"dir", "dangling"} = {}
                 PROVE  r \in runList(fs, configDir) <=> findConfig(fs, r, configDir) # {}
    OBVIOUS
  <2>2. ASSUME NEW d \in DirSet(configDir)
        PROVE  r \in ListedIn(fs, d) <=> Stat(fs, d, r)
    <3>1. fs[d].state \in {"open", "missing"}
      BY DEF ListFails, Skipped
    <3>2. fs[d].state = "open" => fs[d].entries[r] \notin {"dir", "dangling"}
      BY <2>1
    <3> QED
      BY <3>1, <3>2 DEF ListedIn, Stat
  <2>3. r \in runList(fs, configDir) <=> \E d \in DirSet(configDir) : r \in ListedIn(fs, d)
    BY DEF runList
  <2> QED
    BY <2>2, <2>3, FindsConfig
<1> QED
  BY <1>1, PTL

-----------------------------------------------------------------------------
(* Lines of a device's text.                                               *)

\* The peers are h[n] after n lines of a text, from those before to those after it.
Scans(text, before, after) ==
  \E h : /\ h[0] = before /\ h[Len(text)] = after
         /\ \A n \in 1 .. Len(text) : h[n] = WithLine(h[n - 1], text[n])

\* It is what parsePeerStatuses does.
LEMMA ParsingIs ==
  ASSUME NEW L, NEW text \in Seq(L), NEW after, Scans(text, <<>>, after)
  PROVE  parsePeerStatuses(text) = after
<1> DEFINE Parsing(g) == g = [n \in 0 .. Len(text) |->
                                IF n = 0 THEN <<>> ELSE WithLine(g[n - 1], text[n])]
           c == CHOOSE g : Parsing(g)
<1>1. PICK h : /\ h[0] = <<>> /\ h[Len(text)] = after
               /\ \A n \in 1 .. Len(text) : h[n] = WithLine(h[n - 1], text[n])
  BY DEF Scans
<1>2. Len(text) \in Nat
  OBVIOUS
<1>3. Parsing(c)
  <2> DEFINE g == [n \in 0 .. Len(text) |-> h[n]]
  <2>1. ASSUME NEW n \in 0 .. Len(text)
        PROVE  g[n] = IF n = 0 THEN <<>> ELSE WithLine(g[n - 1], text[n])
    <3>1. CASE n = 0
      BY <1>1, <1>2, <3>1
    <3>2. CASE n # 0
      <4>1. n \in 1 .. Len(text) /\ n - 1 \in 0 .. Len(text)
        BY <1>2, <3>2
      <4>2. g[n] = h[n] /\ g[n - 1] = h[n - 1]
        BY <4>1
      <4> QED
        BY <1>1, <3>2, <4>1, <4>2
    <3> QED
      BY <3>1, <3>2
  <2>2. g = [n \in 0 .. Len(text) |-> IF n = 0 THEN <<>> ELSE WithLine(g[n - 1], text[n])]
    BY <2>1
  <2>3. Parsing(g)
    BY <2>2
  <2> HIDE DEF g
  <2> QED
    BY <2>3
<1>4. parsePeerStatuses(text) = c[Len(text)]
  BY DEF parsePeerStatuses
<1> DEFINE N == {n \in Nat : n <= Len(text) => c[n] = h[n]}
<1>5. 0 \in N
  <2> HIDE DEF c
  <2>1. c[0] = <<>>
    BY <1>2, <1>3
  <2> QED
    BY <1>1, <2>1
<1>6. ASSUME NEW n \in N PROVE n + 1 \in N
  <2> HIDE DEF c
  <2>1. SUFFICES ASSUME n + 1 <= Len(text) PROVE c[n + 1] = h[n + 1]
    OBVIOUS
  <2>2. /\ n \in Nat /\ n + 1 \in 0 .. Len(text) /\ n + 1 \in 1 .. Len(text) /\ n + 1 # 0
        /\ (n + 1) - 1 = n /\ n <= Len(text)
    BY <1>2, <2>1
  <2>3. c[n + 1] = WithLine(c[n], text[n + 1])
    BY <1>3, <2>2
  <2>4. h[n + 1] = WithLine(h[n], text[n + 1])
    BY <1>1, <2>2
  <2> QED
    BY <2>2, <2>3, <2>4
<1>7. \A n \in Nat : n \in N
  <2>1. N \in SUBSET Nat
    OBVIOUS
  <2> HIDE DEF N
  <2> QED
    BY <1>5, <1>6, <2>1, Induction
<1> QED
  BY <1>1, <1>2, <1>4, <1>7

\* No line changes nothing.
LEMMA ScanNothing == ASSUME NEW peers PROVE Scans(<<>>, peers, peers)
<1> DEFINE h == [n \in 0 .. 0 |-> peers]
<1>1. h[0] = peers /\ Len(<<>>) = 0
  OBVIOUS
<1>2. 1 .. Len(<<>>) = {}
  BY <1>1
<1> HIDE DEF h
<1> QED
  BY <1>1, <1>2, Zenon DEF Scans

\* Two lines change the peers one after the other.
LEMMA ScanTwo ==
  ASSUME NEW k, NEW l, NEW peers
  PROVE  Scans(<<k, l>>, peers, WithLine(WithLine(peers, k), l))
<1> DEFINE one == WithLine(peers, k)
           two == WithLine(one, l)
           h == [n \in 0 .. 2 |-> IF n = 0 THEN peers ELSE IF n = 1 THEN one ELSE two]
<1>1. h[0] = peers /\ h[1] = one /\ h[2] = two
  <2> HIDE DEF one, two
  <2> QED
    OBVIOUS
<1>2. Len(<<k, l>>) = 2 /\ <<k, l>>[1] = k /\ <<k, l>>[2] = l
  OBVIOUS
<1> HIDE DEF h
<1>3. ASSUME NEW n \in 1 .. 2 PROVE h[n] = WithLine(h[n - 1], <<k, l>>[n])
  <2>1. n = 1 \/ n = 2
    OBVIOUS
  <2>2. CASE n = 1
    BY <1>1, <1>2, <2>2
  <2>3. CASE n = 2
    BY <1>1, <1>2, <2>3
  <2> QED
    BY <2>1, <2>2, <2>3
<1> QED
  BY <1>1, <1>2, <1>3 DEF Scans

\* One line changes the peers as WithLine says.
LEMMA ScanOne ==
  ASSUME NEW l, NEW peers
  PROVE  Scans(<<l>>, peers, WithLine(peers, l))
<1> DEFINE one == WithLine(peers, l)
           h == [n \in 0 .. 1 |-> IF n = 0 THEN peers ELSE one]
<1>1. h[0] = peers /\ h[1] = one
  <2> HIDE DEF one
  <2> QED
    OBVIOUS
<1>2. Len(<<l>>) = 1 /\ <<l>>[1] = l
  OBVIOUS
<1> HIDE DEF h
<1>3. ASSUME NEW n \in 1 .. 1 PROVE h[n] = WithLine(h[n - 1], <<l>>[n])
  BY <1>1, <1>2, n = 1
<1> QED
  BY <1>1, <1>2, <1>3 DEF Scans

\* One text after another.
LEMMA ScanConcat ==
  ASSUME NEW L, NEW s \in Seq(L), NEW t \in Seq(L), NEW a, NEW b, NEW c,
         Scans(s, a, b), Scans(t, b, c)
  PROVE  Scans(s \o t, a, c)
<1>1. PICK f : /\ f[0] = a /\ f[Len(s)] = b
               /\ \A n \in 1 .. Len(s) : f[n] = WithLine(f[n - 1], s[n])
  BY DEF Scans
<1>2. PICK g : /\ g[0] = b /\ g[Len(t)] = c
               /\ \A n \in 1 .. Len(t) : g[n] = WithLine(g[n - 1], t[n])
  BY DEF Scans
<1> DEFINE m == Len(s)
           k == Len(t)
           h == [n \in 0 .. m + k |-> IF n <= m THEN f[n] ELSE g[n - m]]
<1>3. m \in Nat /\ k \in Nat /\ Len(s \o t) = m + k
      /\ \A n \in 1 .. m + k : (s \o t)[n] = IF n <= m THEN s[n] ELSE t[n - m]
  BY ConcatProperties
<1>4. \A n \in 0 .. m + k : h[n] = IF n <= m THEN f[n] ELSE g[n - m]
  OBVIOUS
<1> HIDE DEF m, k, h
<1>5. h[0] = a
  <2>1. 0 \in 0 .. m + k /\ 0 <= m
    BY <1>3
  <2> QED
    BY <1>1, <1>4, <2>1
<1>6. h[m + k] = c
  <2>1. CASE k = 0
    BY <1>1, <1>2, <1>3, <1>4, <2>1 DEF m, k
  <2>2. CASE k # 0
    <3>1. m + k \in 0 .. m + k /\ ~(m + k <= m) /\ (m + k) - m = k
      BY <1>3, <2>2
    <3> QED
      BY <1>2, <1>4, <3>1 DEF k
  <2> QED
    BY <2>1, <2>2
<1>7. ASSUME NEW n \in 1 .. m + k PROVE h[n] = WithLine(h[n - 1], (s \o t)[n])
  <2>1. CASE n <= m
    <3>1. n \in 1 .. m /\ n \in 0 .. m + k /\ n - 1 \in 0 .. m + k /\ n - 1 <= m
      BY <1>3, <2>1
    <3>2. h[n] = f[n] /\ h[n - 1] = f[n - 1] /\ (s \o t)[n] = s[n]
      BY <1>3, <1>4, <2>1, <3>1
    <3> QED
      BY <1>1, <3>1, <3>2 DEF m
  <2>2. CASE n = m + 1
    <3>1. /\ n \in 0 .. m + k /\ n - 1 \in 0 .. m + k /\ n - 1 <= m /\ ~(n <= m)
          /\ n - m = 1 /\ n - 1 = m /\ 1 \in 1 .. k /\ 1 - 1 = 0
      BY <1>3, <2>2
    <3>2. h[n] = g[1] /\ h[n - 1] = f[m] /\ (s \o t)[n] = t[1]
      BY <1>3, <1>4, <3>1
    <3>3. f[m] = g[0]
      BY <1>1, <1>2 DEF m
    <3>4. g[1] = WithLine(g[0], t[1])
      BY <1>2, <3>1 DEF k
    <3> QED
      BY <3>2, <3>3, <3>4
  <2>3. CASE n > m + 1
    <3>1. /\ n \in 0 .. m + k /\ n - 1 \in 0 .. m + k /\ ~(n - 1 <= m) /\ ~(n <= m)
          /\ (n - 1) - m = (n - m) - 1 /\ n - m \in 1 .. k
      BY <1>3, <2>3
    <3>2. h[n] = g[n - m] /\ h[n - 1] = g[(n - m) - 1] /\ (s \o t)[n] = t[n - m]
      BY <1>3, <1>4, <3>1
    <3>3. g[n - m] = WithLine(g[(n - m) - 1], t[n - m])
      BY <1>2, <3>1 DEF k
    <3> QED
      BY <3>2, <3>3
  <2>4. n <= m \/ n = m + 1 \/ n > m + 1
    BY <1>3
  <2> QED
    BY <2>1, <2>2, <2>3, <2>4
<1>8. h[Len(s \o t)] = c /\ (1 .. Len(s \o t)) = 1 .. m + k
  BY <1>3, <1>6
<1>9. \A n \in 1 .. Len(s \o t) : h[n] = WithLine(h[n - 1], (s \o t)[n])
  BY <1>7, <1>8, Zenon
<1> QED
  BY <1>5, <1>8, <1>9, Zenon DEF Scans

\* What is known of a peer.
Status(e, a, h, t, r) ==
  [endpoint |-> e, allowedIPs |-> a, lastHandshake |-> h, txBytes |-> t, rxBytes |-> r]

Statuses == [endpoint : STRING \union {""}, allowedIPs : Seq(Prefix), lastHandshake : SUBSET Nat,
             txBytes : Nat, rxBytes : Nat]

\* A line about the last peer.
LEMMA LineOfLast ==
  ASSUME NEW S, NEW peers \in Seq(S), NEW p \in S, NEW l,
         l.key # "public_key", WithField(p, l) \in S
  PROVE  WithLine(Append(peers, p), l) = Append(peers, WithField(p, l))
<1> DEFINE ps == Append(peers, p)
           q  == WithField(p, l)
           n  == Len(peers) + 1
<1>1. ps \in Seq(S) /\ Len(ps) = n /\ ps[n] = p /\ n \in Nat \ {0} /\ ps # <<>>
      /\ \A i \in 1 .. Len(peers) : ps[i] = peers[i]
  <2>1. ps \in Seq(S) /\ Len(ps) = n /\ ps[n] = p /\ n \in Nat \ {0}
        /\ \A i \in 1 .. Len(peers) : ps[i] = peers[i]
    BY AppendProperties, LenProperties
  <2>2. ps # <<>>
    BY <2>1, EmptySeq
  <2> QED
    BY <2>1, <2>2
<1>2. WithLine(ps, l) = [ps EXCEPT ![n] = q]
  BY <1>1 DEF WithLine
<1> HIDE DEF q, ps
<1>3. n \in 1 .. Len(ps) /\ q \in S
  BY <1>1 DEF q
<1> DEFINE left == [ps EXCEPT ![n] = q]
           right == Append(peers, q)
<1>4. left \in Seq(S) /\ Len(left) = n /\ \A j \in 1 .. n : left[j] = IF j = n THEN q ELSE ps[j]
  BY <1>1, <1>3, ExceptSeq
<1>5. right \in Seq(S) /\ Len(right) = n /\ right[n] = q
      /\ \A i \in 1 .. Len(peers) : right[i] = peers[i]
  BY <1>3, AppendProperties
<1>6. ASSUME NEW j \in 1 .. n PROVE left[j] = right[j]
  <2>1. j = n \/ j \in 1 .. Len(peers)
    BY LenProperties
  <2>2. j \in 1 .. Len(peers) => j # n
    BY LenProperties
  <2> QED
    BY <1>1, <1>4, <1>5, <2>1, <2>2
<1>7. left = right
  <2> HIDE DEF left, right, n
  <2> QED
    BY <1>4, <1>5, <1>6, SeqEqual
<1> QED
  BY <1>2, <1>7 DEF ps, q

\* Its fields one by one.
LEMMA FieldIs ==
  \A e, a, h, t, r, v :
    /\ WithField(Status(e, a, h, t, r), KeyValue("endpoint", v)) = Status(v, a, h, t, r)
    /\ WithField(Status(e, a, h, t, r), KeyValue("allowed_ip", v))
         = Status(e, Append(a, v), h, t, r)
    /\ WithField(Status(e, a, h, t, r), KeyValue("last_handshake_time_sec", v))
         = Status(e, a, HandshakeTime(h, v), t, r)
    /\ WithField(Status(e, a, h, t, r), KeyValue("tx_bytes", v)) = Status(e, a, h, v, r)
    /\ WithField(Status(e, a, h, t, r), KeyValue("rx_bytes", v)) = Status(e, a, h, t, v)
    /\ WithField(Status(e, a, h, t, r), KeyValue("protocol_version", v)) = Status(e, a, h, t, r)
    /\ WithField(Status(e, a, h, t, r), KeyValue("last_handshake_time_nsec", v))
         = Status(e, a, h, t, r)
<1> TAKE e, a, h, t, r, v
<1> QED
  BY DEF WithField, KeyValue, Status

\* Four lines are two and two.
LEMMA FourLines ==
  ASSUME NEW S, NEW w \in S, NEW x \in S, NEW y \in S, NEW z \in S
  PROVE  <<w, x>> \in Seq(S) /\ <<y, z>> \in Seq(S) /\ <<w, x>> \o <<y, z>> = <<w, x, y, z>>
<1>1. <<w, x>> \in Seq(S) /\ <<y, z>> \in Seq(S) /\ <<w, x, y, z>> \in Seq(S)
  OBVIOUS
<1> DEFINE s == <<w, x>> \o <<y, z>>
<1>2. s \in Seq(S) /\ Len(s) = 4
  BY <1>1
<1>3. s[1] = w /\ s[2] = x /\ s[3] = y /\ s[4] = z
  BY <1>1
<1> HIDE DEF s
<1>4. ASSUME NEW i \in 1 .. 4 PROVE s[i] = <<w, x, y, z>>[i]
  <2>1. i = 1 \/ i = 2 \/ i = 3 \/ i = 4
    OBVIOUS
  <2> QED
    BY <1>3, <2>1
<1>5. s = <<w, x, y, z>>
  BY <1>1, <1>2, <1>4, Len(<<w, x, y, z>>) = 4, SeqEqual
<1> QED
  BY <1>1, <1>5 DEF s

\* Lines of IpcGet.
Lines ==
  [key : {"listen_port", "fwmark", "public_key", "protocol_version", "endpoint",
          "last_handshake_time_sec", "last_handshake_time_nsec", "tx_bytes", "rx_bytes",
          "allowed_ip"},
   val : {"k"} \union STRING \union Nat \union Prefix]

\* Every line that the model of IpcGet writes is one.
LEMMA LineType ==
  ASSUME NEW v \in {"k"} \union STRING \union Nat \union Prefix,
         NEW key \in {"listen_port", "fwmark", "public_key", "protocol_version", "endpoint",
                      "last_handshake_time_sec", "last_handshake_time_nsec", "tx_bytes",
                      "rx_bytes", "allowed_ip"}
  PROVE  KeyValue(key, v) \in Lines
  BY DEF KeyValue, Lines

\* After a line about it the last peer is still what the line says.
LEMMA LastLine ==
  ASSUME NEW peers \in Seq(Statuses), NEW p \in Statuses, NEW q \in Statuses,
         NEW key, key # "public_key", NEW v, WithField(p, KeyValue(key, v)) = q
  PROVE  WithLine(Append(peers, p), KeyValue(key, v)) = Append(peers, q)
<1>1. KeyValue(key, v).key # "public_key"
  BY DEF KeyValue
<1> QED
  BY <1>1, LineOfLast

\* The lines that begin a peer.
LEMMA ScanStart ==
  ASSUME NEW peers \in Seq(Statuses)
  PROVE  Scans(<<KeyValue("public_key", "k"), KeyValue("protocol_version", 1)>>,
               peers, Append(peers, Status("", <<>>, {}, 0, 0)))
<1> DEFINE p == Status("", <<>>, {}, 0, 0)
<1>1. p \in Statuses /\ peerStatus = p
  BY EmptySeq DEF Statuses, Status, peerStatus
<1>2. WithLine(peers, KeyValue("public_key", "k")) = Append(peers, p)
  BY <1>1 DEF WithLine, KeyValue
<1>3. WithField(p, KeyValue("protocol_version", 1)) = p
  <2>1. \A e, a, h, t, r, v :
          WithField(Status(e, a, h, t, r), KeyValue("protocol_version", v)) = Status(e, a, h, t, r)
    BY FieldIs
  <2> QED
    BY <2>1, Zenon
<1> HIDE DEF p
<1>4. WithLine(Append(peers, p), KeyValue("protocol_version", 1)) = Append(peers, p)
  BY <1>1, <1>3, LastLine
<1>5. Scans(<<KeyValue("public_key", "k"), KeyValue("protocol_version", 1)>>,
            peers, Append(peers, p))
  BY <1>2, <1>4, ScanTwo
<1> QED
  BY <1>5 DEF p

\* Its endpoint, if it has one.
LEMMA ScanEndpoint ==
  ASSUME NEW peers \in Seq(Statuses), NEW e \in STRING
  PROVE  Scans(IF e = "" THEN <<>> ELSE <<KeyValue("endpoint", e)>>,
               Append(peers, Status("", <<>>, {}, 0, 0)), Append(peers, Status(e, <<>>, {}, 0, 0)))
<1> DEFINE p == Status("", <<>>, {}, 0, 0)
           q == Status(e, <<>>, {}, 0, 0)
<1>1. p \in Statuses /\ q \in Statuses
  BY EmptySeq DEF Statuses, Status
<1>2. WithField(p, KeyValue("endpoint", e)) = q
  <2>1. \A d : WithField(Status(d, <<>>, {}, 0, 0), KeyValue("endpoint", e)) = q
    BY FieldIs
  <2> QED
    BY <2>1, Zenon
<1>3. CASE e = ""
  BY <1>3, ScanNothing
<1>4. CASE e # ""
  <2> HIDE DEF p, q
  <2>1. WithLine(Append(peers, p), KeyValue("endpoint", e)) = Append(peers, q)
    BY <1>1, <1>2, LastLine
  <2>2. Scans(<<KeyValue("endpoint", e)>>, Append(peers, p), Append(peers, q))
    BY <2>1, ScanOne
  <2> QED
    BY <1>4, <2>2 DEF p, q
<1> QED
  BY <1>3, <1>4

\* Its handshake and counters.
LEMMA ScanNumbers ==
  ASSUME NEW peers \in Seq(Statuses), NEW e \in STRING, NEW secs \in Nat,
         NEW t \in Nat, NEW r \in Nat
  PROVE  Scans(<<KeyValue("last_handshake_time_sec", secs), KeyValue("last_handshake_time_nsec", 5),
                 KeyValue("tx_bytes", t), KeyValue("rx_bytes", r)>>,
               Append(peers, Status(e, <<>>, {}, 0, 0)),
               Append(peers, Status(e, <<>>, IF secs = 0 THEN {} ELSE {secs}, t, r)))
<1> DEFINE h == IF secs = 0 THEN {} ELSE {secs}
           p == Status(e, <<>>, {}, 0, 0)
           p1 == Status(e, <<>>, h, 0, 0)
           p2 == Status(e, <<>>, h, t, 0)
           p3 == Status(e, <<>>, h, t, r)
           k1 == KeyValue("last_handshake_time_sec", secs)
           k2 == KeyValue("last_handshake_time_nsec", 5)
           k3 == KeyValue("tx_bytes", t)
           k4 == KeyValue("rx_bytes", r)
<1>1. HandshakeTime({}, secs) = h /\ h \in SUBSET Nat
  BY DEF HandshakeTime
<1> HIDE DEF h
<1>2. p \in Statuses /\ p1 \in Statuses /\ p2 \in Statuses /\ p3 \in Statuses
  BY <1>1, EmptySeq DEF Statuses, Status
<1>3. /\ WithField(p, k1) = p1 /\ WithField(p1, k2) = p1
      /\ WithField(p1, k3) = p2 /\ WithField(p2, k4) = p3
  BY <1>1, FieldIs
<1> HIDE DEF p, p1, p2, p3
<1>4. WithLine(Append(peers, p), k1) = Append(peers, p1)
  BY <1>2, <1>3, LastLine
<1>5. WithLine(Append(peers, p1), k2) = Append(peers, p1)
  BY <1>2, <1>3, LastLine
<1>6. WithLine(Append(peers, p1), k3) = Append(peers, p2)
  BY <1>2, <1>3, LastLine
<1>7. WithLine(Append(peers, p2), k4) = Append(peers, p3)
  BY <1>2, <1>3, LastLine
<1>8. k1 \in Lines /\ k2 \in Lines /\ k3 \in Lines /\ k4 \in Lines
  BY LineType
<1> HIDE DEF k1, k2, k3, k4
<1>9. Scans(<<k1, k2>>, Append(peers, p), Append(peers, p1))
  BY <1>4, <1>5, ScanTwo
<1>10. Scans(<<k3, k4>>, Append(peers, p1), Append(peers, p3))
  BY <1>6, <1>7, ScanTwo
<1>11. <<k1, k2>> \in Seq(Lines) /\ <<k3, k4>> \in Seq(Lines)
  BY <1>8, FourLines
<1>12. <<k1, k2>> \o <<k3, k4>> = <<k1, k2, k3, k4>>
  BY <1>8, FourLines
<1>13. Scans(<<k1, k2>> \o <<k3, k4>>, Append(peers, p), Append(peers, p3))
  BY <1>9, <1>10, <1>11, ScanConcat
<1> QED
  BY <1>12, <1>13 DEF k1, k2, k3, k4, p, p3, h

\* Its prefixes.
LEMMA ScanPrefixes ==
  ASSUME NEW peers \in Seq(Statuses), NEW e \in STRING, NEW ips \in Seq(Prefix),
         NEW h \in SUBSET Nat, NEW t \in Nat, NEW r \in Nat
  PROVE  Scans([i \in DOMAIN ips |-> KeyValue("allowed_ip", ips[i])],
               Append(peers, Status(e, <<>>, h, t, r)), Append(peers, Status(e, ips, h, t, r)))
<1> DEFINE text == [i \in DOMAIN ips |-> KeyValue("allowed_ip", ips[i])]
           m == Len(ips)
           q(n) == Status(e, SubSeq(ips, 1, n), h, t, r)
           g == [n \in 0 .. m |-> Append(peers, q(n))]
<1>1. m \in Nat /\ DOMAIN ips = 1 .. m /\ \A n \in 1 .. m : ips[n] \in Prefix
  BY LenProperties, ElementOfSeq
<1>2. Len(text) = m /\ \A n \in 1 .. m : text[n] = KeyValue("allowed_ip", ips[n])
  BY <1>1
<1>3. SubSeq(ips, 1, 0) = <<>> /\ SubSeq(ips, 1, m) = ips
  BY <1>1, SubSeqEmpty, SubSeqFull
<1>4. ASSUME NEW n \in 0 .. m PROVE SubSeq(ips, 1, n) \in Seq(Prefix)
  BY <1>1, SubSeqProperties
<1>5. ASSUME NEW n \in 1 .. m PROVE Append(SubSeq(ips, 1, n - 1), ips[n]) = SubSeq(ips, 1, n)
  <2>1. SubSeq(ips, 1, n) = SubSeq(ips, 1, n - 1) \o <<ips[n]>>
    BY <1>1, SubSeqRecursiveSecond
  <2>2. n - 1 \in 0 .. m
    BY <1>1
  <2>3. SubSeq(ips, 1, n - 1) \in Seq(Prefix) /\ ips[n] \in Prefix
    BY <1>1, <1>4, <2>2
  <2> QED
    BY <2>1, <2>3, AppendIsConcat
<1>6. \A n \in 0 .. m : g[n] = Append(peers, q(n))
  OBVIOUS
<1> HIDE DEF g, text
<1>7. ASSUME NEW n \in 1 .. m PROVE g[n] = WithLine(g[n - 1], text[n])
  <2>1. n \in 0 .. m /\ n - 1 \in 0 .. m
    BY <1>1
  <2>2. q(n) \in Statuses /\ q(n - 1) \in Statuses
    <3>1. SubSeq(ips, 1, n) \in Seq(Prefix) /\ SubSeq(ips, 1, n - 1) \in Seq(Prefix)
      BY <1>4, <2>1
    <3> QED
      BY <3>1 DEF Statuses, Status
  <2>3. WithField(q(n - 1), KeyValue("allowed_ip", ips[n])) = q(n)
    <3>1. Append(SubSeq(ips, 1, n - 1), ips[n]) = SubSeq(ips, 1, n)
      BY <1>5
    <3>2. WithField(q(n - 1), KeyValue("allowed_ip", ips[n]))
            = Status(e, Append(SubSeq(ips, 1, n - 1), ips[n]), h, t, r)
      BY FieldIs
    <3> QED
      BY <3>1, <3>2, Zenon
  <2> HIDE DEF q
  <2>4. WithLine(Append(peers, q(n - 1)), KeyValue("allowed_ip", ips[n])) = Append(peers, q(n))
    BY <2>2, <2>3, LastLine
  <2> QED
    BY <1>2, <1>6, <2>1, <2>4
<1>8. g[0] = Append(peers, q(0)) /\ g[m] = Append(peers, q(m))
  <2>1. 0 \in 0 .. m /\ m \in 0 .. m
    BY <1>1
  <2> HIDE DEF q, m
  <2> QED
    BY <1>6, <2>1
<1>9. Scans(text, Append(peers, q(0)), Append(peers, q(m)))
  <2> HIDE DEF q, m
  <2> QED
    BY <1>2, <1>7, <1>8 DEF Scans
<1> QED
  BY <1>3, <1>9 DEF text

-----------------------------------------------------------------------------
(* The text of all peers.                                                  *)

\* What parsePeerStatuses should say of a peer.
StatusOf(p) ==
  Status(p.endpoint, p.allowedIPs, IF p.handshake = 0 THEN {} ELSE {p.handshake},
         p.txBytes, p.rxBytes)

\* The lines about a peer, after those about others, add what it should.
LEMMA ScanPeer ==
  ASSUME NEW peers \in Seq(Statuses), NEW p \in Peer
  PROVE  /\ PeerLines(p) \in Seq(Lines)
         /\ Scans(PeerLines(p), peers, Append(peers, StatusOf(p)))
         /\ StatusOf(p) \in Statuses
<1> DEFINE s1 == <<KeyValue("public_key", "k"), KeyValue("protocol_version", 1)>>
           s2 == IF p.endpoint = "" THEN <<>> ELSE <<KeyValue("endpoint", p.endpoint)>>
           s3 == <<KeyValue("last_handshake_time_sec", p.handshake),
                   KeyValue("last_handshake_time_nsec", 5),
                   KeyValue("tx_bytes", p.txBytes), KeyValue("rx_bytes", p.rxBytes)>>
           s4 == [i \in DOMAIN p.allowedIPs |-> KeyValue("allowed_ip", p.allowedIPs[i])]
           h  == IF p.handshake = 0 THEN {} ELSE {p.handshake}
           a0 == Append(peers, Status("", <<>>, {}, 0, 0))
           a1 == Append(peers, Status(p.endpoint, <<>>, {}, 0, 0))
           a2 == Append(peers, Status(p.endpoint, <<>>, h, p.txBytes, p.rxBytes))
           a3 == Append(peers, Status(p.endpoint, p.allowedIPs, h, p.txBytes, p.rxBytes))
<1>1. /\ p.endpoint \in STRING /\ p.allowedIPs \in Seq(Prefix) /\ p.handshake \in Nat
      /\ p.txBytes \in Nat /\ p.rxBytes \in Nat /\ h \in SUBSET Nat
  BY DEF Peer
<1>2. s1 \in Seq(Lines) /\ s2 \in Seq(Lines) /\ s3 \in Seq(Lines) /\ s4 \in Seq(Lines)
  <2>1. s1 \in Seq(Lines)
    BY LineType, FourLines
  <2>2. s2 \in Seq(Lines)
    BY <1>1, LineType, Singleton, EmptySeq
  <2>3. s3 \in Seq(Lines)
    <3> DEFINE k1 == KeyValue("last_handshake_time_sec", p.handshake)
               k2 == KeyValue("last_handshake_time_nsec", 5)
               k3 == KeyValue("tx_bytes", p.txBytes)
               k4 == KeyValue("rx_bytes", p.rxBytes)
    <3>1. k1 \in Lines /\ k2 \in Lines /\ k3 \in Lines /\ k4 \in Lines
      BY <1>1, LineType
    <3> HIDE DEF k1, k2, k3, k4
    <3>2. <<k1, k2, k3, k4>> \in Seq(Lines)
      BY <3>1
    <3> QED
      BY <3>2 DEF k1, k2, k3, k4
  <2>4. s4 \in Seq(Lines)
    <3>1. \A i \in 1 .. Len(p.allowedIPs) : KeyValue("allowed_ip", p.allowedIPs[i]) \in Lines
      BY <1>1, LineType, ElementOfSeq
    <3>2. DOMAIN p.allowedIPs = 1 .. Len(p.allowedIPs) /\ Len(p.allowedIPs) \in Nat
      BY <1>1, LenProperties
    <3> QED
      BY <3>1, <3>2
  <2> QED
    BY <2>1, <2>2, <2>3, <2>4
<1>3. Scans(s1, peers, a0)
  BY ScanStart
<1>4. Scans(s2, a0, a1)
  BY <1>1, ScanEndpoint
<1>5. Scans(s3, a1, a2)
  BY <1>1, ScanNumbers
<1>6. Scans(s4, a2, a3)
  BY <1>1, ScanPrefixes
<1>7. PeerLines(p) = ((s1 \o s2) \o s3) \o s4
  BY DEF PeerLines
<1>8. a3 = Append(peers, StatusOf(p))
  BY DEF StatusOf
<1>9. StatusOf(p) \in Statuses
  BY <1>1 DEF StatusOf, Status, Statuses
<1> HIDE DEF s1, s2, s3, s4, a0, a1, a2, a3
<1>10. s1 \o s2 \in Seq(Lines) /\ Scans(s1 \o s2, peers, a1)
  BY <1>2, <1>3, <1>4, ScanConcat, ConcatProperties
<1>11. (s1 \o s2) \o s3 \in Seq(Lines) /\ Scans((s1 \o s2) \o s3, peers, a2)
  BY <1>2, <1>5, <1>10, ScanConcat, ConcatProperties
<1>12. ((s1 \o s2) \o s3) \o s4 \in Seq(Lines) /\ Scans(((s1 \o s2) \o s3) \o s4, peers, a3)
  BY <1>2, <1>6, <1>11, ScanConcat, ConcatProperties
<1> QED
  BY <1>7, <1>8, <1>9, <1>12

\* text[n] is what IpcGet says of the device and its first n peers.
Texts(text, peers, m) ==
  text = [n \in 0 .. m |->
            IF n = 0 THEN <<KeyValue("listen_port", 1), KeyValue("fwmark", 2)>>
            ELSE text[n - 1] \o PeerLines(peers[n])]

\* There is such a function.
LEMMA TextsExist ==
  ASSUME NEW peers
  PROVE  \A m \in Nat : \E text : Texts(text, peers, m)
<1> DEFINE N == {m \in Nat : \E text : Texts(text, peers, m)}
           start == <<KeyValue("listen_port", 1), KeyValue("fwmark", 2)>>
<1>1. 0 \in N
  <2> DEFINE g == [n \in 0 .. 0 |-> start]
  <2> HIDE DEF start
  <2>1. \A n \in 0 .. 0 : n = 0
    OBVIOUS
  <2>2. g = [n \in 0 .. 0 |-> IF n = 0 THEN start ELSE g[n - 1] \o PeerLines(peers[n])]
    BY <2>1
  <2>3. Texts(g, peers, 0)
    BY <2>2 DEF Texts, start
  <2> QED
    BY <2>3
<1>2. ASSUME NEW m \in N PROVE m + 1 \in N
  <2>1. PICK g : Texts(g, peers, m)
    OBVIOUS
  <2> DEFINE h == [n \in 0 .. m + 1 |->
                     IF n <= m THEN g[n] ELSE g[m] \o PeerLines(peers[n])]
  <2> HIDE DEF start
  <2>0. g = [n \in 0 .. m |-> IF n = 0 THEN start ELSE g[n - 1] \o PeerLines(peers[n])]
    BY <2>1 DEF Texts, start
  <2>2. ASSUME NEW n \in 0 .. m + 1
        PROVE  h[n] = IF n = 0 THEN start ELSE h[n - 1] \o PeerLines(peers[n])
    <3>1. CASE n = 0
      <4>1. 0 <= m /\ 0 \in 0 .. m
        OBVIOUS
      <4> QED
        BY <2>0, <3>1, <4>1
    <3>2. CASE n # 0 /\ n <= m
      <4>1. n - 1 \in 0 .. m + 1 /\ n - 1 <= m /\ n \in 0 .. m
        BY <3>2
      <4>2. h[n] = g[n] /\ h[n - 1] = g[n - 1]
        BY <3>2, <4>1
      <4> QED
        BY <2>0, <3>2, <4>1, <4>2
    <3>3. CASE n = m + 1
      <4>1. n - 1 = m /\ m \in 0 .. m + 1 /\ ~(n <= m) /\ n # 0 /\ m <= m
        BY <3>3
      <4>2. h[n - 1] = g[m]
        BY <4>1
      <4>3. h[n] = g[m] \o PeerLines(peers[n])
        BY <4>1
      <4> QED
        BY <4>1, <4>2, <4>3
    <3> QED
      BY <3>1, <3>2, <3>3
  <2>3. h = [n \in 0 .. m + 1 |-> IF n = 0 THEN start ELSE h[n - 1] \o PeerLines(peers[n])]
    BY <2>2
  <2>4. Texts(h, peers, m + 1)
    BY <2>3 DEF Texts, start
  <2> HIDE DEF h
  <2> QED
    BY <2>4
<1>3. N \in SUBSET Nat
  OBVIOUS
<1>4. \A m \in Nat : m \in N
  <2> HIDE DEF N
  <2> QED
    BY <1>1, <1>2, <1>3, Induction
<1> QED
  BY <1>4

\* It has its type.
LEMMA StatusType == ASSUME NEW p \in Peer PROVE StatusOf(p) \in Statuses
  BY EmptySeq, ScanPeer

\* The first elements of a sequence, one at a time.
LEMMA OneMore ==
  ASSUME NEW S, NEW f, NEW n \in Nat, \A i \in 1 .. n + 1 : f[i] \in S
  PROVE  /\ [i \in 1 .. n |-> f[i]] \in Seq(S)
         /\ Append([i \in 1 .. n |-> f[i]], f[n + 1]) = [i \in 1 .. n + 1 |-> f[i]]
<1> DEFINE s == [i \in 1 .. n |-> f[i]]
           t == [i \in 1 .. n + 1 |-> f[i]]
<1>1. s \in Seq(S) /\ Len(s) = n /\ \A i \in 1 .. n : s[i] = f[i]
  OBVIOUS
<1>2. t \in Seq(S) /\ Len(t) = n + 1 /\ \A i \in 1 .. n + 1 : t[i] = f[i]
  OBVIOUS
<1>3. n + 1 \in 1 .. n + 1 /\ f[n + 1] \in S
  OBVIOUS
<1> HIDE DEF s, t
<1>4. /\ Append(s, f[n + 1]) \in Seq(S) /\ Len(Append(s, f[n + 1])) = n + 1
      /\ \A i \in 1 .. n : Append(s, f[n + 1])[i] = f[i]
      /\ Append(s, f[n + 1])[n + 1] = f[n + 1]
  BY <1>1, <1>3, AppendProperties
<1>5. ASSUME NEW i \in 1 .. n + 1 PROVE Append(s, f[n + 1])[i] = t[i]
  <2>1. i \in 1 .. n \/ i = n + 1
    OBVIOUS
  <2> QED
    BY <1>2, <1>4, <2>1
<1>6. Append(s, f[n + 1]) = t
  BY <1>2, <1>4, <1>5, SeqEqual
<1> QED
  BY <1>1, <1>6 DEF s, t

\* parsePeerStatuses reads back what IpcGet writes.
LEMMA ReadBack ==
  ASSUME NEW peers \in Seq(Peer)
  PROVE  parsePeerStatuses(IpcGet(peers)) = [i \in 1 .. Len(peers) |-> StatusOf(peers[i])]
<1> DEFINE m == Len(peers)
           c == CHOOSE text : Texts(text, peers, m)
           f == [i \in 1 .. m |-> StatusOf(peers[i])]
           after(n) == [i \in 1 .. n |-> f[i]]
<1>1. m \in Nat /\ \A i \in 1 .. m : peers[i] \in Peer
  BY LenProperties, ElementOfSeq
<1>2. Texts(c, peers, m)
  <2>1. \E text : Texts(text, peers, m)
    BY <1>1, TextsExist
  <2> QED
    BY <2>1
<1>3. IpcGet(peers) = c[m]
  BY DEF IpcGet, Texts
<1>4. \A i \in 1 .. m : f[i] = StatusOf(peers[i]) /\ f[i] \in Statuses
  BY <1>1, StatusType
<1>5. after(0) = <<>>
  <2>1. 1 .. 0 = {}
    OBVIOUS
  <2> QED
    BY <2>1
<1> HIDE DEF c, m, f, after
<1> DEFINE N == {n \in Nat : n <= m => c[n] \in Seq(Lines) /\ Scans(c[n], <<>>, after(n))}
<1>6. 0 \in N
  <2> DEFINE k == KeyValue("listen_port", 1)
             l == KeyValue("fwmark", 2)
  <2>1. c[0] = <<k, l>>
    BY <1>1, <1>2 DEF Texts
  <2>2. k \in Lines /\ l \in Lines /\ k.key # "public_key" /\ l.key # "public_key"
    <3>1. k \in Lines /\ l \in Lines
      BY LineType
    <3>2. k.key # "public_key" /\ l.key # "public_key"
      BY DEF KeyValue
    <3> QED
      BY <3>1, <3>2
  <2> HIDE DEF k, l
  <2>3. WithLine(<<>>, k) = <<>> /\ WithLine(<<>>, l) = <<>>
    BY <2>2 DEF WithLine
  <2>4. Scans(<<k, l>>, <<>>, <<>>)
    BY <2>3, ScanTwo
  <2>5. <<k, l>> \in Seq(Lines)
    BY <2>2
  <2> QED
    BY <1>5, <2>1, <2>4, <2>5
<1>7. ASSUME NEW n \in N PROVE n + 1 \in N
  <2>1. SUFFICES ASSUME n + 1 <= m
                 PROVE  c[n + 1] \in Seq(Lines) /\ Scans(c[n + 1], <<>>, after(n + 1))
    OBVIOUS
  <2>2. /\ n \in Nat /\ n <= m /\ n + 1 \in 0 .. m /\ n + 1 # 0 /\ (n + 1) - 1 = n
        /\ n + 1 \in 1 .. m
    BY <1>1, <2>1
  <2>3. c[n] \in Seq(Lines) /\ Scans(c[n], <<>>, after(n))
    BY <2>2
  <2>4. c[n + 1] = c[n] \o PeerLines(peers[n + 1])
    BY <1>2, <2>2 DEF Texts
  <2>5. \A i \in 1 .. n + 1 : f[i] \in Statuses
    BY <1>1, <1>4, <2>2
  <2>6. after(n) \in Seq(Statuses) /\ Append(after(n), f[n + 1]) = after(n + 1)
    BY <2>2, <2>5, OneMore DEF after
  <2>7. peers[n + 1] \in Peer /\ f[n + 1] = StatusOf(peers[n + 1])
    BY <1>1, <1>4, <2>2
  <2>8. /\ PeerLines(peers[n + 1]) \in Seq(Lines)
        /\ Scans(PeerLines(peers[n + 1]), after(n), after(n + 1))
    BY <2>6, <2>7, ScanPeer
  <2> QED
    BY <2>3, <2>4, <2>8, ScanConcat, ConcatProperties
<1>8. \A n \in Nat : n \in N
  <2>1. N \in SUBSET Nat
    OBVIOUS
  <2> HIDE DEF N
  <2> QED
    BY <1>6, <1>7, <2>1, Induction
<1>9. c[m] \in Seq(Lines) /\ Scans(c[m], <<>>, after(m))
  BY <1>1, <1>8
<1>10. parsePeerStatuses(c[m]) = after(m)
  BY <1>9, ParsingIs
<1>11. after(m) = f
  BY DEF after, f
<1> QED
  BY <1>3, <1>10, <1>11 DEF f, m

\* An input of Parsers about a device's peers.
LEMMA PeersInput ==
  ASSUME Init, input.about = "peers"
  PROVE  input.peers \in Seq(Peer)
<1>1. ASSUME NEW m, NEW n,
             input = [about |-> "sniff", message |-> m, bytes |-> Wire(m), received |-> n]
      PROVE  FALSE
  BY <1>1
<1>2. ASSUME NEW fs, NEW dir, input = [about |-> "configs", fs |-> fs, configDir |-> dir]
      PROVE  FALSE
  BY <1>2
<1>3. ASSUME NEW platform, NEW network, NEW ifIndex,
             input = [about |-> "socket", platform |-> platform, network |-> network,
                      ifIndex |-> ifIndex]
      PROVE  FALSE
  BY <1>3
<1>4. \E peers \in Devices : input = [about |-> "peers", peers |-> peers]
  BY <1>1, <1>2, <1>3 DEF Init
<1>5. input.peers \in Devices
  BY <1>4
<1> QED
  BY <1>5, ParsersAssumption

\* Whatever peers a device has, waitForHandshake and logPeerStatus are told of each what
\* WireGuard knows of it.
THEOREM ReadsPeersBack == Spec => []PeersAreReadBack
<1>1. Init => PeersAreReadBack
  <2> SUFFICES ASSUME Init, input.about = "peers" PROVE PeersAreReadBack
    BY DEF PeersAreReadBack
  <2> DEFINE peers == input.peers
             read  == parsePeerStatuses(IpcGet(peers))
  <2>1. peers \in Seq(Peer)
    BY PeersInput
  <2>2. read = [i \in 1 .. Len(peers) |-> StatusOf(peers[i])] /\ DOMAIN peers = 1 .. Len(peers)
    BY <2>1, ReadBack, LenProperties
  <2>3. read = [i \in DOMAIN peers |->
                  [endpoint |-> peers[i].endpoint, allowedIPs |-> peers[i].allowedIPs,
                   lastHandshake |-> IF peers[i].handshake = 0 THEN {} ELSE {peers[i].handshake},
                   txBytes |-> peers[i].txBytes, rxBytes |-> peers[i].rxBytes]]
    BY <2>2 DEF StatusOf, Status
  <2>4. HandshakeCompleted(IpcGet(peers)) <=> \E i \in DOMAIN peers : peers[i].handshake > 0
    <3>1. \A i \in DOMAIN peers : peers[i].handshake \in Nat
      <4>1. \A i \in 1 .. Len(peers) : peers[i] \in Peer
        BY <2>1, ElementOfSeq
      <4>2. \A p \in Peer : p.handshake \in Nat
        BY DEF Peer
      <4> QED
        BY <2>2, <4>1, <4>2
    <3>2. DOMAIN read = DOMAIN peers
      BY <2>3
    <3>3. \A i \in DOMAIN peers : read[i].lastHandshake # {} <=> peers[i].handshake > 0
      <4> TAKE i \in DOMAIN peers
      <4>1. read[i].lastHandshake = IF peers[i].handshake = 0 THEN {} ELSE {peers[i].handshake}
        BY <2>3
      <4> QED
        BY <3>1, <4>1
    <3> HIDE DEF peers
    <3> QED
      BY <3>2, <3>3 DEF HandshakeCompleted
  <2> QED
    BY <2>3, <2>4 DEF PeersAreReadBack
<1>2. PeersAreReadBack /\ [Next]_input => PeersAreReadBack'
  BY DEF Next, PeersAreReadBack
<1> QED
  BY <1>1, <1>2, PTL DEF Spec

\* A prefix contains the addresses from its first one on.
LEMMA ContainsIs ==
  ASSUME NEW prefix \in Prefix, NEW server \in [family : {4, 6}, addr : Nat]
  PROVE  PrefixContains(prefix, server) <=>
           prefix.family = server.family /\ server.addr \in prefix.addr .. prefix.addr + prefix.size - 1
<1>1. /\ prefix.addr \in Nat /\ prefix.size \in Nat \ {0} /\ prefix.addr % prefix.size = 0
      /\ server.addr \in Nat
  BY DEF Prefix
<1>2. \A m \in Nat \ {0} : \A x, y \in Nat :
        x % m = 0 /\ x \div m = y \div m => y \in x .. x + m - 1
  <2> TAKE m \in Nat \ {0}
  <2> TAKE x, y \in Nat
  <2>1. x % m = 0 /\ x \div m = y \div m => y = x + (y % m)
    BY SMT
  <2>2. y % m \in 0 .. m - 1
    BY SMT
  <2> QED
    BY <2>1, <2>2
<1>3. \A m \in Nat \ {0} : \A x, y \in Nat :
        x % m = 0 /\ y \in x .. x + m - 1 => x \div m = y \div m
  <2>1. \A m \in Nat \ {0} : \A x, l \in Nat : x % m = 0 /\ l < m => (x + l) \div m = x \div m
    BY SMT
  <2> TAKE m \in Nat \ {0}
  <2> TAKE x, y \in Nat
  <2>2. y \in x .. x + m - 1 => y - x \in Nat /\ y - x < m /\ x + (y - x) = y
    OBVIOUS
  <2> QED
    BY <2>1, <2>2
<1> QED
  BY <1>1, <1>2, <1>3 DEF PrefixContains

\* At each peer the DNS servers are warned of that its own AllowedIPs do not cover, and no
\* others: a server that no peer covers is, whatever the other peers are.
THEOREM FlagsUnroutedServers == Spec => []UnroutedServersAreFlagged
<1>1. Init => UnroutedServersAreFlagged
  <2> SUFFICES ASSUME Init, input.about = "peers" PROVE UnroutedServersAreFlagged
    BY DEF UnroutedServersAreFlagged
  <2> DEFINE peers == input.peers
             read  == parsePeerStatuses(IpcGet(peers))
  <2>1. peers \in Seq(Peer)
    BY PeersInput
  <2>2. DOMAIN peers = 1 .. Len(peers) /\ \A i \in DOMAIN peers : peers[i] \in Peer
    BY <2>1, LenProperties, ElementOfSeq
  <2>3. DOMAIN read = DOMAIN peers
        /\ \A i \in DOMAIN peers : read[i].allowedIPs = peers[i].allowedIPs
    <3>1. read = [i \in 1 .. Len(peers) |-> StatusOf(peers[i])]
      BY <2>1, ReadBack
    <3>2. \A p : StatusOf(p).allowedIPs = p.allowedIPs
      BY DEF StatusOf, Status
    <3> QED
      BY <2>2, <3>1, <3>2
  <2>4. ASSUME NEW s \in Servers, NEW i \in DOMAIN peers
        PROVE  anyPrefixContains(read[i].allowedIPs, s) <=> Covers(peers[i], s)
    <3>1. s \in [family : {4, 6}, addr : Nat]
      BY ParsersAssumption
    <3>2. ASSUME NEW j \in DOMAIN peers[i].allowedIPs
          PROVE  PrefixContains(peers[i].allowedIPs[j], s) <=>
                   /\ peers[i].allowedIPs[j].family = s.family
                   /\ s.addr \in peers[i].allowedIPs[j].addr ..
                        peers[i].allowedIPs[j].addr + peers[i].allowedIPs[j].size - 1
      <4>1. peers[i].allowedIPs \in Seq(Prefix)
        BY <2>2 DEF Peer
      <4>2. peers[i].allowedIPs[j] \in Prefix
        BY <4>1, LenProperties, ElementOfSeq
      <4> QED
        BY <3>1, <4>2, ContainsIs
    <3>3. anyPrefixContains(read[i].allowedIPs, s) <=>
            \E j \in DOMAIN peers[i].allowedIPs : PrefixContains(peers[i].allowedIPs[j], s)
      BY <2>3 DEF anyPrefixContains
    <3> QED
      BY <3>2, <3>3 DEF Covers
  <2>5. Warnings(IpcGet(peers), Servers) =
          {w \in (DOMAIN peers) \X Servers : ~anyPrefixContains(read[w[1]].allowedIPs, w[2])}
    BY <2>3 DEF Warnings
  <2>6. \A w \in (DOMAIN peers) \X Servers :
          anyPrefixContains(read[w[1]].allowedIPs, w[2]) <=> Covers(peers[w[1]], w[2])
    <3> HIDE DEF peers, read
    <3>1. \A w \in (DOMAIN peers) \X Servers : w[1] \in DOMAIN peers /\ w[2] \in Servers
      OBVIOUS
    <3> QED
      BY <2>4, <3>1
  <2> HIDE DEF read
  <2> QED
    BY <2>5, <2>6 DEF UnroutedServersAreFlagged
<1>2. UnroutedServersAreFlagged /\ [Next]_input => UnroutedServersAreFlagged'
  BY DEF Next, UnroutedServersAreFlagged, Covers
<1> QED
  BY <1>1, <1>2, PTL DEF Spec
=============================================================================
