---------------------------- MODULE SniffProofs -----------------------------
(***************************************************************************)
(* Proofs of what relayConn sniffs, for any ClientHello and any request of *)
(* ClientMessages, cut off anywhere.  In order: how bytes hold what they   *)
(* are put together from; the extensions of a ClientHello, by induction    *)
(* over them; parseSNI; lines and Host headers; StripPort; requests.       *)
(***************************************************************************)
EXTENDS ParserProofs, FiniteSetTheorems
LOCAL INSTANCE FiniteSetsExt

-----------------------------------------------------------------------------
\* s is in b from offset at on.
Holds(b, at, s) ==
  at \in Nat /\ at + Len(s) <= Len(b) /\ \A i \in 0 .. Len(s) - 1 : b[at + i + 1] = s[i + 1]

\* A sequence holds itself.
LEMMA HoldsItself == ASSUME NEW b \in Seq(Nat) PROVE Holds(b, 0, b)
<1>1. Len(b) \in Nat
  OBVIOUS
<1> QED
  BY <1>1 DEF Holds

\* What holds two sequences one behind the other holds each of them.
LEMMA HoldsParts ==
  ASSUME NEW b \in Seq(Nat), NEW at \in Nat, NEW s \in Seq(Nat), NEW t \in Seq(Nat),
         Holds(b, at, s \o t)
  PROVE  Holds(b, at, s) /\ Holds(b, at + Len(s), t)
<1> DEFINE m == Len(s)
           n == Len(t)
           c == Len(b)
           st == s \o t
<1>1. /\ m \in Nat /\ n \in Nat /\ Len(st) = m + n /\ c \in Nat
      /\ \A i \in 1 .. m + n : st[i] = IF i <= m THEN s[i] ELSE t[i - m]
  BY ConcatProperties, LenProperties
<1>2. at + Len(st) <= c /\ \A i \in 0 .. Len(st) - 1 : b[at + i + 1] = st[i + 1]
  BY DEF Holds
<1> HIDE DEF m, n, c, st
<1>3. at + m + n <= c /\ \A i \in 0 .. m + n - 1 : b[at + i + 1] = st[i + 1]
  BY <1>1, <1>2
<1>4. ASSUME NEW i \in 0 .. m - 1 PROVE b[at + i + 1] = s[i + 1]
  <2>1. i \in 0 .. m + n - 1 /\ i + 1 \in 1 .. m + n /\ i + 1 <= m
    BY <1>1
  <2>2. st[i + 1] = s[i + 1]
    BY <1>1, <2>1
  <2> QED
    BY <1>3, <2>1, <2>2
<1>5. ASSUME NEW i \in 0 .. n - 1 PROVE b[(at + m) + i + 1] = t[i + 1]
  <2> DEFINE j == m + i
  <2>1. /\ j \in 0 .. m + n - 1 /\ j + 1 \in 1 .. m + n /\ ~(j + 1 <= m)
        /\ (j + 1) - m = i + 1 /\ at + j + 1 = (at + m) + i + 1
    BY <1>1
  <2> HIDE DEF j
  <2>2. st[j + 1] = t[(j + 1) - m]
    BY <1>1, <2>1
  <2>3. b[at + j + 1] = st[j + 1]
    BY <1>3, <2>1
  <2> QED
    BY <2>1, <2>2, <2>3
<1>6. at + m <= c /\ at + m \in Nat /\ (at + m) + n <= c
  BY <1>1, <1>3
<1>7. Holds(b, at, s)
  BY <1>4, <1>6 DEF Holds, m, c
<1>8. Holds(b, at + m, t)
  BY <1>5, <1>6 DEF Holds, n, c
<1> QED
  BY <1>7, <1>8 DEF m

-----------------------------------------------------------------------------
(* What has been received of b are its first r bytes.                      *)

\* They are a sequence of numbers, and U8 reads 0 behind them.
LEMMA ReceivedBytes ==
  ASSUME NEW b \in Seq(Nat), NEW r \in 0 .. Len(b)
  PROVE  LET data == SubSeq(b, 1, r)
         IN  /\ data \in Seq(Nat) /\ Len(data) = r
             /\ \A i \in Nat : U8(data, i) = IF i < r THEN b[i + 1] ELSE 0
             /\ \A i \in Nat : U8(data, i) \in Nat
<1>1. Len(b) \in Nat /\ r \in Nat /\ r <= Len(b)
  BY LenProperties
<1> DEFINE data == SubSeq(b, 1, r)
<1>2. data \in Seq(Nat) /\ Len(data) = r /\ \A i \in 1 .. r : data[i] = b[i]
  BY <1>1, SubSeqProperties
<1> HIDE DEF data
<1>3. ASSUME NEW i \in Nat PROVE U8(data, i) = IF i < r THEN b[i + 1] ELSE 0
  <2>1. CASE i < r
    <3>1. i + 1 \in 1 .. r
      BY <1>1, <2>1
    <3> QED
      BY <1>2, <2>1, <3>1 DEF U8
  <2>2. CASE ~(i < r)
    BY <1>2, <2>2 DEF U8
  <2> QED
    BY <2>1, <2>2
<1>4. ASSUME NEW i \in Nat PROVE U8(data, i) \in Nat
  <2>1. CASE i < r
    <3>1. i + 1 \in 1 .. Len(b)
      BY <1>1, <2>1
    <3> QED
      BY <1>3, <2>1, <3>1, ElementOfSeq
  <2>2. CASE ~(i < r)
    BY <1>3, <2>2
  <2> QED
    BY <2>1, <2>2
<1> QED
  BY <1>2, <1>3, <1>4 DEF data

\* Both bytes of a length.
LEMMA TwoBytes == ASSUME NEW n \in Nat PROVE 256 * (n \div 256) + (n % 256) = n /\ n \div 256 \in Nat /\ n % 256 \in Byte
  BY DEF Byte

\* A length of less than 256 in two bytes of which only the first one is there is 0.
LEMMA HighByte == ASSUME NEW n \in Nat, n < 256 PROVE n \div 256 = 0
  OBVIOUS

-----------------------------------------------------------------------------
(* Lengths in front of what they are the length of.                        *)

\* A vector is a sequence of numbers, and longer than what it holds by its length.
LEMMA Vector8Type ==
  ASSUME NEW s \in Seq(Nat)
  PROVE  Vector8(s) \in Seq(Nat) /\ Len(Vector8(s)) = 1 + Len(s)
<1>1. <<Len(s)>> \in Seq(Nat) /\ Len(<<Len(s)>>) = 1
  BY LenProperties
<1> QED
  BY <1>1, ConcatProperties DEF Vector8

\* The same with two bytes of length.
LEMMA Vector16Type ==
  ASSUME NEW s \in Seq(Nat)
  PROVE  Vector16(s) \in Seq(Nat) /\ Len(Vector16(s)) = 2 + Len(s)
<1>1. Len(s) \in Nat
  BY LenProperties
<1>2. Len(s) \div 256 \in Nat /\ Len(s) % 256 \in Nat
  BY <1>1, TwoBytes DEF Byte
<1> DEFINE t == <<Len(s) \div 256, Len(s) % 256>>
<1>3. t \in Seq(Nat) /\ Len(t) = 2
  BY <1>2
<1>4. Vector16(s) = t \o s
  BY DEF Vector16
<1> HIDE DEF t
<1>5. t \o s \in Seq(Nat) /\ Len(t \o s) = Len(t) + Len(s)
  BY <1>3, ConcatProperties
<1> QED
  BY <1>3, <1>4, <1>5

\* Where a vector is, there is its length, and what it holds is behind that.
LEMMA HoldsVector8 ==
  ASSUME NEW b \in Seq(Nat), NEW at \in Nat, NEW s \in Seq(Nat), Holds(b, at, Vector8(s))
  PROVE  b[at + 1] = Len(s) /\ Holds(b, at + 1, s)
<1> DEFINE t == <<Len(s)>>
<1>1. t \in Seq(Nat) /\ Len(t) = 1 /\ t[1] = Len(s)
  BY LenProperties
<1>2. Vector8(s) = t \o s
  BY DEF Vector8
<1> HIDE DEF t
<1>3. Holds(b, at, t) /\ Holds(b, at + 1, s)
  BY <1>1, <1>2, HoldsParts
<1>4. b[at + 0 + 1] = t[0 + 1]
  BY <1>1, <1>3 DEF Holds
<1> QED
  BY <1>1, <1>3, <1>4

\* The same with two bytes of length.
LEMMA HoldsVector16 ==
  ASSUME NEW b \in Seq(Nat), NEW at \in Nat, NEW s \in Seq(Nat), Holds(b, at, Vector16(s))
  PROVE  /\ b[at + 1] = Len(s) \div 256 /\ b[at + 2] = Len(s) % 256
         /\ Holds(b, at + 2, s)
<1>1. Len(s) \div 256 \in Nat /\ Len(s) % 256 \in Nat
  BY LenProperties, TwoBytes DEF Byte
<1> DEFINE t == <<Len(s) \div 256, Len(s) % 256>>
<1>2. t \in Seq(Nat) /\ Len(t) = 2 /\ t[1] = Len(s) \div 256 /\ t[2] = Len(s) % 256
  BY <1>1
<1>3. Vector16(s) = t \o s
  BY DEF Vector16
<1> HIDE DEF t
<1>4. Holds(b, at, t) /\ Holds(b, at + 2, s)
  BY <1>2, <1>3, HoldsParts
<1>5. b[at + 0 + 1] = t[0 + 1] /\ b[at + 1 + 1] = t[1 + 1]
  BY <1>2, <1>4 DEF Holds
<1> QED
  BY <1>2, <1>4, <1>5

\* Of a length in two bytes, both have been received, or none, or only the first, which
\* of one of less than 256 is 0.
LEMMA LengthReceived ==
  ASSUME NEW b \in Seq(Nat), NEW r \in 0 .. Len(b), NEW at \in Nat, NEW s \in Seq(Nat),
         Holds(b, at, Vector16(s))
  PROVE  LET data == SubSeq(b, 1, r)
         IN  /\ at + 2 <= r => U16(data, at) = Len(s)
             /\ r <= at + 1 /\ Len(s) < 256 => U16(data, at) = 0
<1> DEFINE data == SubSeq(b, 1, r)
           n == Len(s)
<1>1. n \in Nat /\ r \in Nat
  BY LenProperties
<1>2. b[at + 1] = n \div 256 /\ b[at + 2] = n % 256
  BY HoldsVector16
<1>3. \A i \in Nat : U8(data, i) = IF i < r THEN b[i + 1] ELSE 0
  BY ReceivedBytes
<1>4. at + 1 \in Nat /\ (at + 1) + 1 = at + 2
  OBVIOUS
<1> HIDE DEF data, n
<1>5. U8(data, at) = IF at < r THEN n \div 256 ELSE 0
  BY <1>2, <1>3
<1>6. U8(data, at + 1) = IF at + 1 < r THEN n % 256 ELSE 0
  BY <1>2, <1>3, <1>4
<1>7. ASSUME at + 2 <= r PROVE U16(data, at) = n
  <2>1. at < r /\ at + 1 < r
    BY <1>1, <1>7
  <2>2. U8(data, at) = n \div 256 /\ U8(data, at + 1) = n % 256
    BY <1>5, <1>6, <2>1
  <2> QED
    BY <1>1, <2>2, TwoBytes DEF U16
<1>8. ASSUME r <= at + 1, n < 256 PROVE U16(data, at) = 0
  <2>1. ~(at + 1 < r)
    BY <1>1, <1>8
  <2>2. U8(data, at) = 0 /\ U8(data, at + 1) = 0
    BY <1>1, <1>5, <1>6, <1>8, <2>1, HighByte
  <2> QED
    BY <2>2 DEF U16
<1> QED
  BY <1>7, <1>8 DEF data, n

\* Of what has not been received at all the buffer holds zeros.
LEMMA NotReceived ==
  ASSUME NEW b \in Seq(Nat), NEW r \in 0 .. Len(b), NEW at \in Nat, r <= at
  PROVE  U8(SubSeq(b, 1, r), at) = 0 /\ U16(SubSeq(b, 1, r), at) = 0
<1>1. r \in Nat /\ at + 1 \in Nat /\ ~(at < r) /\ ~(at + 1 < r)
  BY LenProperties
<1>2. \A i \in Nat : U8(SubSeq(b, 1, r), i) = IF i < r THEN b[i + 1] ELSE 0
  BY ReceivedBytes
<1>3. U8(SubSeq(b, 1, r), at) = 0 /\ U8(SubSeq(b, 1, r), at + 1) = 0
  BY <1>1, <1>2
<1> QED
  BY <1>3 DEF U16

(***************************************************************************)
(* The extensions of a ClientHello.                                        *)
(***************************************************************************)

\* What Extensions makes of those from offset at on, if scan is what it makes of the
\* ones behind the first.
Scanned(scan, data, end, at) ==
  LET next == at + 4 + U16(data, at + 2)
  IN CASE at + 4 > end \/ next > BufSize -> NotFound
       [] at + 4 <= end /\ next <= BufSize /\ U16(data, at) = 0 -> ServerName(data, at + 4, next)
       [] OTHER -> IF next <= end THEN scan[next] ELSE NotFound

\* The ones behind the first are at higher offsets.
LEMMA ScannedLooksAhead ==
  ASSUME NEW data, \A i \in Nat : U16(data, i) \in Nat, NEW end \in Nat, NEW at \in 0 .. end,
         NEW f, NEW g, \A n \in 0 .. end : at < n => f[n] = g[n]
  PROVE  Scanned(f, data, end, at) = Scanned(g, data, end, at)
<1> DEFINE u == U16(data, at + 2)
           next == at + 4 + u
           t == U16(data, at) = 0
           sn == ServerName(data, at + 4, next)
<1>1. u \in Nat
  <2>1. at + 2 \in Nat
    OBVIOUS
  <2> QED
    BY <2>1
<1> HIDE DEF u
<1>2. next \in Nat /\ at < next
  BY <1>1
<1> HIDE DEF next
<1>3. next <= end => f[next] = g[next]
  BY <1>2
<1> HIDE DEF t, sn
<1>4. Scanned(f, data, end, at) =
        CASE at + 4 > end \/ next > BufSize -> NotFound
          [] at + 4 <= end /\ next <= BufSize /\ t -> sn
          [] OTHER -> IF next <= end THEN f[next] ELSE NotFound
  BY DEF Scanned, next, u, t, sn
<1>5. Scanned(g, data, end, at) =
        CASE at + 4 > end \/ next > BufSize -> NotFound
          [] at + 4 <= end /\ next <= BufSize /\ t -> sn
          [] OTHER -> IF next <= end THEN g[next] ELSE NotFound
  BY DEF Scanned, next, u, t, sn
<1> QED
  BY <1>3, <1>4, <1>5

\* There is a function of the offset that is what Extensions defines.
LEMMA ScanExists ==
  ASSUME NEW data, \A i \in Nat : U16(data, i) \in Nat, NEW end \in Nat
  PROVE  \E scan : scan = [at \in 0 .. end |-> Scanned(scan, data, end, at)]
<1> DEFINE Upper(g, k) == \A at \in 0 .. end : end < at + k => g[at] = Scanned(g, data, end, at)
           K == {k \in Nat : k <= end + 1 => \E g : Upper(g, k)}
<1>1. 0 \in K
  <2>1. Upper(<<>>, 0)
    OBVIOUS
  <2> QED
    BY <2>1
<1>2. ASSUME NEW k \in K PROVE k + 1 \in K
  <2>1. SUFFICES ASSUME k <= end PROVE \E h : Upper(h, k + 1)
    OBVIOUS
  <2>2. PICK g : Upper(g, k)
    BY <2>1
  <2> DEFINE top == end - k
             new == Scanned(g, data, end, top)
             h == [at \in 0 .. end |-> IF at = top THEN new ELSE g[at]]
  <2>3. top \in 0 .. end
    BY <2>1
  <2>4. ASSUME NEW at \in 0 .. end, end < at + (k + 1) PROVE h[at] = Scanned(h, data, end, at)
    <3>1. top <= at
      BY <2>4
    <3>2. \A n \in 0 .. end : at < n => g[n] = h[n]
      BY <2>3, <3>1
    <3>3. Scanned(g, data, end, at) = Scanned(h, data, end, at)
      <4> HIDE DEF h
      <4> QED
        BY <3>2, ScannedLooksAhead
    <3>4. CASE at = top
      BY <3>3, <3>4
    <3>5. CASE at # top
      <4>1. end < at + k
        BY <2>3, <2>4, <3>1, <3>5
      <4>2. g[at] = Scanned(g, data, end, at)
        BY <2>2, <4>1
      <4>3. h[at] = g[at]
        BY <3>5
      <4> QED
        BY <3>3, <4>2, <4>3
    <3> QED
      BY <3>4, <3>5
  <2> HIDE DEF h
  <2> QED
    BY <2>4
<1>3. end + 1 \in K
  <2>1. K \in SUBSET Nat /\ end + 1 \in Nat
    OBVIOUS
  <2> HIDE DEF K
  <2> QED
    BY <1>1, <1>2, <2>1, Induction
<1>4. PICK g : Upper(g, end + 1)
  BY <1>3
<1> DEFINE f == [at \in 0 .. end |-> g[at]]
<1>5. ASSUME NEW at \in 0 .. end PROVE f[at] = Scanned(f, data, end, at)
  <2>1. g[at] = Scanned(g, data, end, at)
    <3>1. end < at + (end + 1)
      OBVIOUS
    <3> QED
      BY <1>4, <3>1
  <2>2. \A n \in 0 .. end : at < n => g[n] = f[n]
    OBVIOUS
  <2>3. f[at] = g[at]
    OBVIOUS
  <2> HIDE DEF f
  <2>4. Scanned(g, data, end, at) = Scanned(f, data, end, at)
    BY <2>2, ScannedLooksAhead
  <2> QED
    BY <2>1, <2>3, <2>4
<1>6. f = [at \in 0 .. end |-> f[at]]
  OBVIOUS
<1> HIDE DEF f
<1>7. f = [at \in 0 .. end |-> Scanned(f, data, end, at)]
  BY <1>5, <1>6
<1> QED
  BY <1>7

\* Extensions looks at the first one, and then at those behind it.
LEMMA ExtensionsAre ==
  ASSUME NEW data, \A i \in Nat : U16(data, i) \in Nat, NEW end \in Nat, NEW at \in 0 .. end
  PROVE  LET next == at + 4 + U16(data, at + 2)
         IN Extensions(data, at, end) =
              IF at + 4 > end \/ next > BufSize THEN NotFound
              ELSE IF U16(data, at) = 0 THEN ServerName(data, at + 4, next)
              ELSE IF next <= end THEN Extensions(data, next, end) ELSE NotFound
<1> DEFINE scan == CHOOSE f : f = [x \in 0 .. end |-> Scanned(f, data, end, x)]
<1>1. scan = [x \in 0 .. end |-> Scanned(scan, data, end, x)]
  BY ScanExists
<1>2. \A x : Extensions(data, x, end) = scan[x]
  BY DEF Extensions, Scanned
<1> HIDE DEF scan
<1>3. scan[at] = Scanned(scan, data, end, at)
  BY <1>1
<1> DEFINE u == U16(data, at + 2)
           next == at + 4 + u
           t == U16(data, at) = 0
           sn == ServerName(data, at + 4, next)
<1>4. u \in Nat
  <2>1. at + 2 \in Nat
    OBVIOUS
  <2> QED
    BY <2>1
<1>5. Scanned(scan, data, end, at) =
        CASE at + 4 > end \/ next > BufSize -> NotFound
          [] at + 4 <= end /\ next <= BufSize /\ t -> sn
          [] OTHER -> IF next <= end THEN scan[next] ELSE NotFound
  BY DEF Scanned
<1> HIDE DEF u, t, sn
<1>6. BufSize \in Nat
  BY SniffAssumption
<1>7. Scanned(scan, data, end, at) =
        IF at + 4 > end \/ next > BufSize THEN NotFound
        ELSE IF t THEN sn ELSE IF next <= end THEN scan[next] ELSE NotFound
  <2>1. CASE at + 4 > end \/ next > BufSize
    BY <1>4, <1>5, <1>6, <2>1
  <2>2. CASE ~(at + 4 > end \/ next > BufSize)
    <3>1. at + 4 <= end /\ next <= BufSize
      BY <1>4, <1>6, <2>2
    <3> HIDE DEF next
    <3>2. CASE t
      BY <1>5, <2>2, <3>1, <3>2
    <3>3. CASE ~t
      BY <1>5, <2>2, <3>1, <3>3
    <3> QED
      BY <3>2, <3>3
  <2> QED
    BY <2>1, <2>2
<1> QED
  BY <1>2, <1>3, <1>7 DEF u, t, sn

\* Bytes received, as the lemmas on extensions use them.
LEMMA LengthsAreNumbers ==
  ASSUME NEW b \in Seq(Nat), NEW r \in 0 .. Len(b)
  PROVE  \A i \in Nat : U16(SubSeq(b, 1, r), i) \in Nat
<1> DEFINE data == SubSeq(b, 1, r)
<1>1. \A i \in Nat : U8(data, i) \in Nat
  BY ReceivedBytes
<1> HIDE DEF data
<1>2. ASSUME NEW i \in Nat PROVE U16(data, i) \in Nat
  <2>1. i + 1 \in Nat
    OBVIOUS
  <2>2. U8(data, i) \in Nat /\ U8(data, i + 1) \in Nat
    BY <1>1, <2>1
  <2> QED
    BY <2>2 DEF U16
<1> QED
  BY <1>2 DEF data

\* A server_name of which nothing has been received has no name in it.
LEMMA NoServerName ==
  ASSUME NEW b \in Seq(Nat), NEW r \in 0 .. Len(b), NEW from \in Nat, NEW to \in Nat, r <= from
  PROVE  ServerName(SubSeq(b, 1, r), from, to) = NotFound
<1> DEFINE data == SubSeq(b, 1, r)
<1>1. U16(data, from) = 0
  BY NotReceived
<1> HIDE DEF data
<1> DEFINE list == from + 2
<1>2. ~((list + U16(data, from)) - list >= 3)
  BY <1>1
<1> QED
  BY <1>2 DEF ServerName, data

\* At or behind the end of what has been received there is no name.
LEMMA NothingBehind ==
  ASSUME NEW b \in Seq(Nat), NEW r \in 0 .. Len(b), NEW end \in Nat, NEW at \in 0 .. end, r <= at
  PROVE  Extensions(SubSeq(b, 1, r), at, end) = NotFound
<1> DEFINE data == SubSeq(b, 1, r)
           u == U16(data, at + 2)
           next == at + 4 + u
<1>0. r \in Nat
  BY LenProperties
<1>1. \A i \in Nat : U16(data, i) \in Nat
  BY LengthsAreNumbers
<1>2. U16(data, at) = 0
  BY NotReceived
<1>3. ServerName(data, at + 4, next) = NotFound
  <2>1. at + 2 \in Nat
    OBVIOUS
  <2>2. u \in Nat
    BY <1>1, <2>1
  <2>3. at + 4 \in Nat /\ r <= at + 4
    BY <1>0
  <2> HIDE DEF u
  <2>4. next \in Nat
    BY <2>2
  <2> HIDE DEF next
  <2> QED
    BY <2>3, <2>4, NoServerName
<1> HIDE DEF data
<1>4. Extensions(data, at, end) =
        IF at + 4 > end \/ next > BufSize THEN NotFound
        ELSE IF U16(data, at) = 0 THEN ServerName(data, at + 4, next)
        ELSE IF next <= end THEN Extensions(data, next, end) ELSE NotFound
  BY <1>1, ExtensionsAre
<1> QED
  BY <1>2, <1>3, <1>4 DEF data

\* Nor is there in an extension whose type and length have not arrived.
LEMMA NothingInPart ==
  ASSUME NEW b \in Seq(Nat), NEW r \in 0 .. Len(b), NEW end \in Nat, NEW at \in 0 .. end,
         r < at + 4
  PROVE  Extensions(SubSeq(b, 1, r), at, end) = NotFound
<1> DEFINE data == SubSeq(b, 1, r)
           u == U16(data, at + 2)
           next == at + 4 + u
<1>0. r \in Nat
  BY LenProperties
<1>1. \A i \in Nat : U16(data, i) \in Nat
  BY LengthsAreNumbers
<1>2. next \in Nat /\ r <= at + 4 /\ at + 4 \in Nat /\ r <= next
  <2>1. at + 2 \in Nat
    OBVIOUS
  <2>2. u \in Nat
    BY <1>1, <2>1
  <2> HIDE DEF u
  <2> QED
    BY <1>0, <2>2
<1> HIDE DEF next
<1>3. ServerName(data, at + 4, next) = NotFound
  BY <1>2, NoServerName
<1>4. next <= end => Extensions(data, next, end) = NotFound
  <2>1. next <= end => next \in 0 .. end
    BY <1>2
  <2> QED
    BY <1>2, <2>1, NothingBehind
<1> HIDE DEF data
<1>5. Extensions(data, at, end) =
        IF at + 4 > end \/ next > BufSize THEN NotFound
        ELSE IF U16(data, at) = 0 THEN ServerName(data, at + 4, next)
        ELSE IF next <= end THEN Extensions(data, next, end) ELSE NotFound
  BY <1>1, ExtensionsAre DEF next
<1> QED
  BY <1>3, <1>4, <1>5 DEF data

\* A pair of bytes.
LEMMA PairOfBytes ==
  ASSUME NEW t \in Byte \X Byte
  PROVE  t = <<t[1], t[2]>> /\ t \in Seq(Nat) /\ Len(t) = 2 /\ t[1] \in Nat /\ t[2] \in Nat
<1>1. PICK x \in Byte, y \in Byte : t = <<x, y>>
  OBVIOUS
<1>2. x \in Nat /\ y \in Nat
  BY DEF Byte
<1>3. <<x, y>> \in Seq(Nat) /\ Len(<<x, y>>) = 2 /\ <<x, y>>[1] = x /\ <<x, y>>[2] = y
  BY <1>2
<1> QED
  BY <1>1, <1>2, <1>3

\* Bytes are numbers.
LEMMA BytesAreNumbers == ASSUME NEW s \in Seq(Byte) PROVE s \in Seq(Nat)
<1>1. Byte \subseteq Nat
  BY DEF Byte
<1> QED
  BY <1>1, SeqMonotonic

\* An extension that is held: its type, its length and its data.
LEMMA HoldsExtension ==
  ASSUME NEW b \in Seq(Nat), NEW at \in Nat, NEW e, e.type \in Byte \X Byte, e.data \in Seq(Nat),
         Holds(b, at, Extension(e))
  PROVE  /\ b[at + 1] = e.type[1] /\ b[at + 2] = e.type[2]
         /\ Holds(b, at + 2, Vector16(e.data)) /\ Holds(b, at + 4, e.data)
         /\ at + 4 + Len(e.data) <= Len(b)
<1> DEFINE t == e.type
           d == e.data
<1>1. t \in Seq(Nat) /\ Len(t) = 2
  BY PairOfBytes
<1>2. Vector16(d) \in Seq(Nat)
  BY Vector16Type
<1>3. Extension(e) = t \o Vector16(d)
  BY DEF Extension
<1> HIDE DEF t, d
<1>4. Holds(b, at, t) /\ Holds(b, at + 2, Vector16(d))
  BY <1>1, <1>2, <1>3, HoldsParts
<1>5. b[at + 0 + 1] = t[0 + 1] /\ b[at + 1 + 1] = t[1 + 1]
  BY <1>1, <1>4 DEF Holds
<1>6. b[at + 1] = t[1] /\ b[at + 2] = t[2]
  BY <1>5
<1>7. at + 2 \in Nat /\ d \in Seq(Nat) /\ (at + 2) + 2 = at + 4
  BY DEF d
<1>8. Holds(b, (at + 2) + 2, d)
  BY <1>4, <1>7, HoldsVector16
<1>9. Holds(b, at + 4, d)
  BY <1>7, <1>8
<1>10. at + 4 + Len(d) <= Len(b)
  BY <1>9 DEF Holds
<1> QED
  BY <1>4, <1>6, <1>9, <1>10 DEF t, d

\* One that is not server_name is skipped, unless it has not been received or ends
\* outside the buffer.
LEMMA SkipsExtension ==
  ASSUME NEW b \in Seq(Nat), NEW r \in 0 .. Len(b), NEW end \in Nat, end <= Len(b),
         NEW at \in 0 .. end,
         NEW e \in [type : (Byte \X Byte) \ {<<0, 0>>}, data : Seq(Byte)],
         Holds(b, at, Extension(e)), at + 4 + Len(e.data) <= end
  PROVE  LET data == SubSeq(b, 1, r)
         IN \/ Extensions(data, at, end) = Extensions(data, at + 4 + Len(e.data), end)
            \/ Extensions(data, at, end) = NotFound /\ ~(r = Len(b) /\ Len(b) <= BufSize)
<1> DEFINE data == SubSeq(b, 1, r)
           n == Len(e.data)
           next == at + 4 + n
<1>0. r \in Nat /\ BufSize \in Nat /\ Len(b) \in Nat
  BY LenProperties, SniffAssumption
<1>1. \A i \in Nat : U16(data, i) \in Nat
  BY LengthsAreNumbers
<1>2. e.type \in Byte \X Byte /\ e.type # <<0, 0>> /\ e.data \in Seq(Nat)
  <2>1. e.data \in Seq(Byte) /\ e.type \in (Byte \X Byte) \ {<<0, 0>>}
    OBVIOUS
  <2> QED
    BY <2>1, BytesAreNumbers
<1>3. n \in Nat
  BY <1>2, LenProperties
<1>4. /\ b[at + 1] = e.type[1] /\ b[at + 2] = e.type[2]
      /\ Holds(b, at + 2, Vector16(e.data))
  <2>1. at \in Nat
    OBVIOUS
  <2> QED
    BY <1>2, <2>1, HoldsExtension, Zenon
<1>5. CASE r < at + 4
  <2>1. Extensions(data, at, end) = NotFound
    BY <1>5, NothingInPart
  <2> HIDE DEF n
  <2>2. r # Len(b)
    BY <1>0, <1>3, <1>5 DEF n
  <2> QED
    BY <2>1, <2>2
<1>6. CASE at + 4 <= r
  <2>1. U16(data, at + 2) = n
    <3>1. at + 2 \in Nat /\ (at + 2) + 2 <= r
      BY <1>0, <1>6
    <3> QED
      BY <1>2, <1>4, <3>1, LengthReceived
  <2>2. U16(data, at) # 0
    <3>1. at < r /\ at + 1 < r /\ at + 1 \in Nat /\ (at + 1) + 1 = at + 2
      BY <1>0, <1>6
    <3>2. \A i \in Nat : U8(data, i) = IF i < r THEN b[i + 1] ELSE 0
      BY ReceivedBytes
    <3> HIDE DEF data
    <3>3. U8(data, at) = e.type[1] /\ U8(data, at + 1) = e.type[2]
      <4>1. U8(data, at) = b[at + 1]
        BY <3>1, <3>2
      <4>2. U8(data, at + 1) = b[(at + 1) + 1]
        BY <3>1, <3>2
      <4> QED
        BY <1>4, <3>1, <4>1, <4>2
    <3>4. /\ e.type = <<e.type[1], e.type[2]>> /\ e.type[1] \in Nat /\ e.type[2] \in Nat
      BY <1>2, PairOfBytes
    <3>5. ~(e.type[1] = 0 /\ e.type[2] = 0)
      BY <1>2, <3>4
    <3>6. \A x, y \in Nat : ~(x = 0 /\ y = 0) => 256 * x + y # 0
      OBVIOUS
    <3>7. 256 * e.type[1] + e.type[2] # 0
      BY <3>4, <3>5, <3>6
    <3> QED
      BY <3>3, <3>7 DEF U16
  <2> HIDE DEF data
  <2>3. Extensions(data, at, end) =
          IF at + 4 > end \/ at + 4 + U16(data, at + 2) > BufSize THEN NotFound
          ELSE IF U16(data, at) = 0 THEN ServerName(data, at + 4, at + 4 + U16(data, at + 2))
          ELSE IF at + 4 + U16(data, at + 2) <= end
               THEN Extensions(data, at + 4 + U16(data, at + 2), end) ELSE NotFound
    BY <1>1, ExtensionsAre
  <2>4. next <= end
    OBVIOUS
  <2> HIDE DEF n
  <2>5. at + 4 <= end
    BY <1>3, <2>4
  <2>6. Extensions(data, at, end) = IF next > BufSize THEN NotFound ELSE Extensions(data, next, end)
    <3>1. next = at + 4 + U16(data, at + 2)
      BY <2>1
    <3> HIDE DEF next
    <3>2. ~(at + 4 > end)
      BY <2>5
    <3> QED
      BY <2>2, <2>3, <2>4, <3>1, <3>2
  <2>7. next > BufSize => ~(Len(b) <= BufSize)
    BY <1>0, <1>3, <2>4
  <2> QED
    BY <2>6, <2>7 DEF data, n
<1> QED
  BY <1>0, <1>5, <1>6 DEF data, n

\* Parts one behind the other, a part at a time.
Joined(text, start, part, m) ==
  text = [n \in 0 .. m |-> IF n = 0 THEN start ELSE text[n - 1] \o part[n]]

\* There is such a function.
LEMMA JoinedExist ==
  ASSUME NEW start, NEW part
  PROVE  \A m \in Nat : \E text : Joined(text, start, part, m)
<1> DEFINE N == {m \in Nat : \E text : Joined(text, start, part, m)}
<1>1. 0 \in N
  <2> DEFINE g == [n \in 0 .. 0 |-> start]
  <2>1. \A n \in 0 .. 0 : n = 0
    OBVIOUS
  <2>2. g = [n \in 0 .. 0 |-> IF n = 0 THEN start ELSE g[n - 1] \o part[n]]
    BY <2>1
  <2>3. Joined(g, start, part, 0)
    BY <2>2 DEF Joined
  <2> QED
    BY <2>3
<1>2. ASSUME NEW m \in N PROVE m + 1 \in N
  <2>1. PICK g : Joined(g, start, part, m)
    OBVIOUS
  <2> DEFINE h == [n \in 0 .. m + 1 |-> IF n <= m THEN g[n] ELSE g[m] \o part[n]]
  <2>2. g = [n \in 0 .. m |-> IF n = 0 THEN start ELSE g[n - 1] \o part[n]]
    BY <2>1 DEF Joined
  <2>3. ASSUME NEW n \in 0 .. m + 1
        PROVE  h[n] = IF n = 0 THEN start ELSE h[n - 1] \o part[n]
    <3>1. CASE n = 0
      <4>1. 0 <= m /\ 0 \in 0 .. m
        OBVIOUS
      <4> QED
        BY <2>2, <3>1, <4>1
    <3>2. CASE n # 0 /\ n <= m
      <4>1. n - 1 \in 0 .. m + 1 /\ n - 1 <= m /\ n \in 0 .. m
        BY <3>2
      <4>2. h[n] = g[n] /\ h[n - 1] = g[n - 1]
        BY <3>2, <4>1
      <4> QED
        BY <2>2, <3>2, <4>1, <4>2
    <3>3. CASE n = m + 1
      <4>1. n - 1 = m /\ m \in 0 .. m + 1 /\ ~(n <= m) /\ n # 0 /\ m <= m
        BY <3>3
      <4>2. h[n - 1] = g[m]
        BY <4>1
      <4>3. h[n] = g[m] \o part[n]
        BY <4>1
      <4> QED
        BY <4>1, <4>2, <4>3
    <3> QED
      BY <3>1, <3>2, <3>3
  <2>4. h = [n \in 0 .. m + 1 |-> IF n = 0 THEN start ELSE h[n - 1] \o part[n]]
    BY <2>3
  <2>5. Joined(h, start, part, m + 1)
    BY <2>4 DEF Joined
  <2> HIDE DEF h
  <2> QED
    BY <2>5
<1>3. N \in SUBSET Nat
  OBVIOUS
<1>4. \A m \in Nat : m \in N
  <2> HIDE DEF N
  <2> QED
    BY <1>1, <1>2, <1>3, Induction
<1> QED
  BY <1>4

\* Extensions that are not server_name.
Others == [type : (Byte \X Byte) \ {<<0, 0>>}, data : Seq(Byte)]

\* The type of an extension, and its length.
LEMMA ExtensionType ==
  ASSUME NEW e, e.type \in Byte \X Byte, e.data \in Seq(Nat)
  PROVE  Extension(e) \in Seq(Nat) /\ Len(Extension(e)) = 4 + Len(e.data)
<1> DEFINE t == e.type
           d == e.data
           v == Vector16(d)
<1>1. t \in Seq(Nat) /\ Len(t) = 2
  BY PairOfBytes
<1>2. d \in Seq(Nat) /\ Len(d) \in Nat
  BY LenProperties
<1>3. v \in Seq(Nat) /\ Len(v) = 2 + Len(d)
  BY <1>2, Vector16Type
<1>4. Extension(e) = t \o v
  BY DEF Extension
<1> HIDE DEF t, d, v
<1>5. t \o v \in Seq(Nat) /\ Len(t \o v) = Len(t) + Len(v)
  BY <1>1, <1>3, ConcatProperties
<1> QED
  BY <1>1, <1>2, <1>3, <1>4, <1>5 DEF d

\* The same of an extension that is not server_name.
LEMMA OtherType ==
  ASSUME NEW e \in Others
  PROVE  /\ e.type \in Byte \X Byte /\ e.data \in Seq(Nat) /\ Len(e.data) \in Nat
         /\ Extension(e) \in Seq(Nat) /\ Len(Extension(e)) = 4 + Len(e.data)
<1>1. e.type \in Byte \X Byte /\ e.data \in Seq(Byte)
  BY DEF Others
<1>2. e.data \in Seq(Nat)
  BY <1>1, BytesAreNumbers
<1> QED
  BY <1>1, <1>2, ExtensionType, LenProperties

\* What Flat makes of extensions, one at a time.
LEMMA FlatIs ==
  ASSUME NEW exts \in Seq(Others)
  PROVE  \E text : /\ text[0] = <<>> /\ Flat(exts) = text[Len(exts)]
                   /\ \A n \in 0 .. Len(exts) : text[n] \in Seq(Nat)
                   /\ \A n \in 1 .. Len(exts) : text[n] = text[n - 1] \o Extension(exts[n])
<1> DEFINE size == Len(exts)
           text == CHOOSE f : f = [n \in 0 .. size |-> IF n = 0 THEN <<>>
                                                       ELSE f[n - 1] \o Extension(exts[n])]
           part == [n \in 1 .. size |-> Extension(exts[n])]
<1>0. size \in Nat
  BY LenProperties
<1>1. Flat(exts) = text[size]
  BY DEF Flat
<1>2. PICK g : Joined(g, <<>>, part, size)
  BY <1>0, JoinedExist
<1>3. g = [n \in 0 .. size |-> IF n = 0 THEN <<>> ELSE g[n - 1] \o part[n]]
  BY <1>2 DEF Joined
<1>4. ASSUME NEW n \in 0 .. size
      PROVE  g[n] = IF n = 0 THEN <<>> ELSE g[n - 1] \o Extension(exts[n])
  <2>1. g[n] = IF n = 0 THEN <<>> ELSE g[n - 1] \o part[n]
    BY <1>3
  <2>2. n # 0 => part[n] = Extension(exts[n])
    OBVIOUS
  <2> QED
    BY <2>1, <2>2
<1>5. g = [n \in 0 .. size |-> g[n]]
  BY <1>3
<1> HIDE DEF size
<1>6. g = [n \in 0 .. size |-> IF n = 0 THEN <<>> ELSE g[n - 1] \o Extension(exts[n])]
  BY <1>4, <1>5
<1>7. text = [n \in 0 .. size |-> IF n = 0 THEN <<>> ELSE text[n - 1] \o Extension(exts[n])]
  BY <1>6
<1> HIDE DEF text
<1>8. text[0] = <<>>
  BY <1>0, <1>7
<1>9. \A n \in 1 .. size : text[n] = text[n - 1] \o Extension(exts[n])
  BY <1>0, <1>7
<1> DEFINE T == {n \in Nat : n <= size => text[n] \in Seq(Nat)}
<1>10. \A n \in Nat : n \in T
  <2>1. 0 \in T
    BY <1>8, EmptySeq
  <2>2. ASSUME NEW n \in T PROVE n + 1 \in T
    <3>1. SUFFICES ASSUME n + 1 <= size PROVE text[n + 1] \in Seq(Nat)
      OBVIOUS
    <3>2. n + 1 \in 1 .. size /\ (n + 1) - 1 = n /\ n <= size
      BY <1>0, <3>1
    <3>3. text[n] \in Seq(Nat)
      BY <3>2
    <3>4. exts[n + 1] \in Others
      BY <3>2, ElementOfSeq DEF size
    <3>5. Extension(exts[n + 1]) \in Seq(Nat)
      BY <3>4, OtherType
    <3>6. text[n] \o Extension(exts[n + 1]) \in Seq(Nat)
      BY <3>3, <3>5, ConcatProperties
    <3> QED
      BY <1>9, <3>2, <3>6
  <2>3. T \in SUBSET Nat
    OBVIOUS
  <2> HIDE DEF T
  <2> QED
    BY <2>1, <2>2, <2>3, Induction
<1>11. \A n \in 0 .. size : text[n] \in Seq(Nat)
  BY <1>0, <1>10
<1> QED
  BY <1>1, <1>8, <1>9, <1>11 DEF size

\* Those in front of server_name are skipped one after the other.
LEMMA SkipsOthers ==
  ASSUME NEW b \in Seq(Nat), NEW r \in 0 .. Len(b), NEW end \in Nat, end <= Len(b),
         NEW at \in 0 .. end, NEW exts \in Seq(Others),
         Holds(b, at, Flat(exts)), at + Len(Flat(exts)) <= end
  PROVE  LET data == SubSeq(b, 1, r)
         IN \/ Extensions(data, at, end) = Extensions(data, at + Len(Flat(exts)), end)
            \/ Extensions(data, at, end) = NotFound /\ ~(r = Len(b) /\ Len(b) <= BufSize)
<1> DEFINE size == Len(exts)
           data == SubSeq(b, 1, r)
<1>0. size \in Nat /\ at \in Nat
  BY LenProperties
<1>1. PICK text : /\ text[0] = <<>> /\ Flat(exts) = text[size]
                  /\ \A n \in 0 .. size : text[n] \in Seq(Nat)
                  /\ \A n \in 1 .. size : text[n] = text[n - 1] \o Extension(exts[n])
  BY FlatIs
<1> HIDE DEF size
<1> DEFINE off(n) == at + Len(text[n])
<1>2. ASSUME NEW n \in 0 .. size - 1
      PROVE  /\ n + 1 \in 1 .. size /\ (n + 1) - 1 = n /\ n \in 0 .. size /\ n + 1 \in 0 .. size
             /\ text[n + 1] = text[n] \o Extension(exts[n + 1])
             /\ exts[n + 1] \in Others
             /\ text[n] \in Seq(Nat) /\ Extension(exts[n + 1]) \in Seq(Nat)
             /\ Len(exts[n + 1].data) \in Nat /\ Len(text[n]) \in Nat
             /\ Len(text[n + 1]) = Len(text[n]) + (4 + Len(exts[n + 1].data))
  <2>1. n + 1 \in 1 .. size /\ (n + 1) - 1 = n /\ n \in 0 .. size /\ n + 1 \in 0 .. size
    BY <1>0
  <2>2. text[n + 1] = text[n] \o Extension(exts[n + 1])
    BY <1>1, <2>1
  <2>3. exts[n + 1] \in Others
    BY <2>1, ElementOfSeq DEF size
  <2>4. /\ text[n] \in Seq(Nat) /\ Extension(exts[n + 1]) \in Seq(Nat)
        /\ Len(Extension(exts[n + 1])) = 4 + Len(exts[n + 1].data)
        /\ Len(exts[n + 1].data) \in Nat
    BY <1>1, <2>1, <2>3, OtherType
  <2>5. Len(text[n] \o Extension(exts[n + 1])) = Len(text[n]) + Len(Extension(exts[n + 1]))
    <3>1. \A s, t \in Seq(Nat) : Len(s \o t) = Len(s) + Len(t)
      BY ConcatProperties
    <3> QED
      BY <2>4, <3>1, Zenon
  <2>6. Len(text[n]) \in Nat
    BY <2>4, LenProperties
  <2> QED
    BY <2>1, <2>2, <2>3, <2>4, <2>5, <2>6
<1> DEFINE H == {k \in Nat : k <= size => Holds(b, at, text[size - k]) /\ off(size - k) <= end}
<1>3. \A k \in Nat : k \in H
  <2>1. 0 \in H
    <3>1. size - 0 = size
      BY <1>0
    <3> QED
      BY <1>1, <3>1
  <2>2. ASSUME NEW k \in H PROVE k + 1 \in H
    <3>1. SUFFICES ASSUME k + 1 <= size
                   PROVE  Holds(b, at, text[size - (k + 1)]) /\ off(size - (k + 1)) <= end
      OBVIOUS
    <3> DEFINE n == size - (k + 1)
    <3>2. n \in 0 .. size - 1 /\ n + 1 = size - k /\ k <= size
      BY <1>0, <3>1
    <3> HIDE DEF n
    <3>3. Holds(b, at, text[n + 1]) /\ off(n + 1) <= end
      BY <3>2
    <3>4. Holds(b, at, text[n])
      <4>1. Holds(b, at, text[n] \o Extension(exts[n + 1]))
        BY <1>2, <3>2, <3>3
      <4> QED
        BY <1>0, <1>2, <3>2, <4>1, HoldsParts
    <3>5. off(n) <= end
      <4>1. /\ Len(exts[n + 1].data) \in Nat /\ Len(text[n]) \in Nat
            /\ Len(text[n + 1]) = Len(text[n]) + (4 + Len(exts[n + 1].data))
        BY <1>2, <3>2
      <4>2. \A x, y, z \in Nat : at + (x + (4 + y)) <= z => at + x <= z
        BY <1>0
      <4> QED
        BY <3>3, <4>1, <4>2
    <3> QED
      BY <3>4, <3>5 DEF n
  <2>3. H \in SUBSET Nat
    OBVIOUS
  <2> HIDE DEF H
  <2> QED
    BY <2>1, <2>2, <2>3, Induction
<1>4. ASSUME NEW n \in 0 .. size PROVE Holds(b, at, text[n]) /\ off(n) <= end
  <2>1. size - n \in Nat /\ size - n <= size /\ size - (size - n) = n
    BY <1>0
  <2>2. size - n \in H
    BY <1>3, <2>1
  <2> QED
    BY <2>1, <2>2
<1> DEFINE PassedBy(n) ==
             \/ Extensions(data, at, end) = Extensions(data, off(n), end)
             \/ Extensions(data, at, end) = NotFound /\ ~(r = Len(b) /\ Len(b) <= BufSize)
           C == {n \in Nat : n <= size => PassedBy(n)}
<1>5. \A n \in Nat : n \in C
  <2>1. 0 \in C
    <3>1. off(0) = at
      BY <1>0, <1>1, EmptySeq
    <3> QED
      BY <3>1
  <2>2. ASSUME NEW n \in C PROVE n + 1 \in C
    <3>1. SUFFICES ASSUME n + 1 <= size PROVE PassedBy(n + 1)
      OBVIOUS
    <3>2. n \in 0 .. size - 1 /\ n <= size
      BY <1>0, <3>1
    <3> DEFINE e == exts[n + 1]
               here == at + Len(text[n])
    <3>3. /\ n \in 0 .. size /\ n + 1 \in 0 .. size
          /\ text[n + 1] = text[n] \o Extension(e) /\ e \in Others
          /\ text[n] \in Seq(Nat) /\ Extension(e) \in Seq(Nat)
          /\ Len(e.data) \in Nat /\ Len(text[n]) \in Nat
          /\ Len(text[n + 1]) = Len(text[n]) + (4 + Len(e.data))
      BY <1>2, <3>2
    <3>4. Holds(b, at, text[n + 1]) /\ off(n + 1) <= end
      BY <1>4, <3>3
    <3>5. Holds(b, at + Len(text[n]), Extension(e))
      BY <1>0, <3>3, <3>4, HoldsParts
    <3>6. off(n + 1) = here + 4 + Len(e.data)
      <4> DEFINE x == Len(text[n])
                 y == Len(e.data)
      <4>1. x \in Nat /\ y \in Nat /\ Len(text[n + 1]) = x + (4 + y)
        BY <3>3
      <4> HIDE DEF x, y, e
      <4>2. at + (x + (4 + y)) = (at + x) + 4 + y
        BY <1>0, <4>1
      <4> QED
        BY <4>1, <4>2 DEF x, y
    <3>7. here \in 0 .. end
      BY <1>0, <1>4, <3>3
    <3> HIDE DEF data, e, here
    <3>8. \/ Extensions(data, here, end) = Extensions(data, here + 4 + Len(e.data), end)
          \/ Extensions(data, here, end) = NotFound /\ ~(r = Len(b) /\ Len(b) <= BufSize)
      <4>1. here + 4 + Len(e.data) <= end
        BY <3>4, <3>6
      <4>2. e \in [type : (Byte \X Byte) \ {<<0, 0>>}, data : Seq(Byte)]
        BY <3>3 DEF Others
      <4>3. Holds(b, here, Extension(e))
        BY <3>5 DEF here
      <4> QED
        BY <3>7, <4>1, <4>2, <4>3, SkipsExtension, Zenon DEF data
    <3>9. PassedBy(n)
      BY <3>2
    <3>10. \/ Extensions(data, at, end) = Extensions(data, here, end)
           \/ Extensions(data, at, end) = NotFound /\ ~(r = Len(b) /\ Len(b) <= BufSize)
      BY <3>9 DEF here
    <3> QED
      BY <3>6, <3>8, <3>10
  <2>3. C \in SUBSET Nat
    OBVIOUS
  <2> HIDE DEF C
  <2> QED
    BY <2>1, <2>2, <2>3, Induction
<1>6. PassedBy(size)
  <2>1. size \in C
    BY <1>0, <1>5
  <2> QED
    BY <1>0, <2>1
<1> QED
  BY <1>1, <1>6

\* The parts of the extension server_name.
LEMMA ServerNameParts ==
  ASSUME NEW b \in Seq(Nat), NEW at \in Nat, NEW name \in Seq(Nat),
         Holds(b, at, Extension(ServerNameExtension(name)))
  PROVE  /\ b[at + 1] = 0 /\ b[at + 2] = 0
         /\ Holds(b, at + 2, Vector16(ServerNameList(name)))
         /\ Holds(b, at + 4, Vector16(<<0>> \o Vector16(name)))
         /\ b[at + 7] = 0
         /\ Holds(b, at + 7, Vector16(name))
         /\ Holds(b, at + 9, name)
         /\ Len(ServerNameList(name)) = 5 + Len(name)
         /\ <<0>> \o Vector16(name) \in Seq(Nat) /\ Len(<<0>> \o Vector16(name)) = 3 + Len(name)
         /\ ServerNameList(name) \in Seq(Nat)
<1> DEFINE v == Vector16(name)
           z == <<0>>
           n == Len(name)
           list == ServerNameList(name)
           e == ServerNameExtension(name)
<1>1. v \in Seq(Nat) /\ Len(v) = 2 + n /\ n \in Nat
  BY Vector16Type, LenProperties
<1>2. z \in Seq(Nat) /\ Len(z) = 1 /\ z[1] = 0
  OBVIOUS
<1>3. list = Vector16(z \o v)
  BY DEF ServerNameList
<1>4. /\ e.type = <<0, 0>> /\ e.data = list
  BY DEF ServerNameExtension
<1>5. e.type \in Byte \X Byte /\ e.type[1] = 0 /\ e.type[2] = 0
  BY <1>4 DEF Byte
<1> HIDE DEF v, z, n, list, e
<1>6. z \o v \in Seq(Nat) /\ Len(z \o v) = 3 + n
  <2>1. z \o v \in Seq(Nat) /\ Len(z \o v) = Len(z) + Len(v)
    BY <1>1, <1>2, ConcatProperties
  <2> QED
    BY <1>1, <1>2, <2>1
<1>7. list \in Seq(Nat) /\ Len(list) = 5 + n
  <2>1. list \in Seq(Nat) /\ Len(list) = 2 + Len(z \o v)
    BY <1>3, <1>6, Vector16Type
  <2> QED
    BY <1>1, <1>6, <2>1
<1>8. /\ b[at + 1] = 0 /\ b[at + 2] = 0
      /\ Holds(b, at + 2, Vector16(list)) /\ Holds(b, at + 4, list)
  <2>1. Holds(b, at, Extension(e))
    BY DEF e
  <2>2. e.data \in Seq(Nat)
    BY <1>4, <1>7
  <2> QED
    BY <1>4, <1>5, <2>1, <2>2, HoldsExtension
<1>9. Holds(b, (at + 4) + 2, z \o v)
  <2>1. at + 4 \in Nat
    OBVIOUS
  <2> QED
    BY <1>3, <1>6, <1>8, <2>1, HoldsVector16
<1>10. Holds(b, at + 6, z) /\ Holds(b, (at + 6) + 1, v)
  <2>1. at + 6 \in Nat /\ (at + 4) + 2 = at + 6
    OBVIOUS
  <2> QED
    BY <1>1, <1>2, <1>9, <2>1, HoldsParts
<1>11. b[at + 7] = 0
  <2>1. b[at + 6 + 0 + 1] = z[0 + 1]
    BY <1>2, <1>10 DEF Holds
  <2>2. at + 6 + 0 + 1 = at + 7
    OBVIOUS
  <2> QED
    BY <1>2, <2>1, <2>2
<1>12. Holds(b, at + 7, v) /\ Holds(b, at + 9, name)
  <2>1. (at + 6) + 1 = at + 7 /\ at + 7 \in Nat /\ (at + 7) + 2 = at + 9
    OBVIOUS
  <2>2. Holds(b, at + 7, v)
    BY <1>10, <2>1
  <2>3. Holds(b, (at + 7) + 2, name)
    BY <2>1, <2>2, HoldsVector16 DEF v
  <2> QED
    BY <2>1, <2>2, <2>3
<1> QED
  BY <1>1, <1>3, <1>6, <1>7, <1>8, <1>11, <1>12 DEF v, z, n, list

\* No bytes.
LEMMA NoBytes == ASSUME NEW data, NEW p \in Nat PROVE Bytes(data, p, p) = <<>>
<1>1. 1 .. p - p = {}
  OBVIOUS
<1> QED
  BY <1>1 DEF Bytes

\* server_name has no name in it, or an empty one, as long as not all that is in front
\* of the name has been received; then it has the name, as far as that has.
LEMMA FindsName ==
  ASSUME NEW b \in Seq(Nat), NEW r \in 0 .. Len(b), NEW end \in Nat, end <= Len(b),
         NEW at \in 0 .. end, NEW name \in Seq(Nat), Len(name) < 256,
         Holds(b, at, Extension(ServerNameExtension(name))), at + 9 + Len(name) <= end
  PROVE  LET data == SubSeq(b, 1, r)
             found == Extensions(data, at, end)
             p == at + 9
         IN \/ found = NotFound /\ ~(r = Len(b) /\ Len(b) <= BufSize)
            \/ found = Found(<<>>) /\ ~(r = Len(b) /\ Len(b) <= BufSize)
            \/ found = Found(Bytes(data, p, p + Len(name))) /\ p <= r
<1> DEFINE data == SubSeq(b, 1, r)
           n == Len(name)
           whole == r = Len(b) /\ Len(b) <= BufSize
           found == Extensions(data, at, end)
           p == at + 9
<1>0. r \in Nat /\ n \in Nat /\ BufSize \in Nat /\ at \in Nat /\ Len(b) \in Nat /\ n < 256
  BY LenProperties, SniffAssumption
<1>1. \A i \in Nat : U16(data, i) \in Nat
  BY LengthsAreNumbers
<1>2. /\ b[at + 1] = 0 /\ b[at + 2] = 0
      /\ Holds(b, at + 2, Vector16(ServerNameList(name)))
      /\ Holds(b, at + 4, Vector16(<<0>> \o Vector16(name)))
      /\ b[at + 7] = 0
      /\ Holds(b, at + 7, Vector16(name))
      /\ Len(ServerNameList(name)) = 5 + n
      /\ <<0>> \o Vector16(name) \in Seq(Nat) /\ Len(<<0>> \o Vector16(name)) = 3 + n
      /\ ServerNameList(name) \in Seq(Nat)
  BY <1>0, ServerNameParts
<1>3. CASE r < at + 4
  <2>1. found = NotFound
    BY <1>3, NothingInPart
  <2> HIDE DEF n
  <2>2. r # Len(b)
    BY <1>0, <1>3 DEF n
  <2> QED
    BY <2>1, <2>2
<1>4. CASE at + 4 <= r
  <2>1. U16(data, at + 2) = 5 + n
    <3>1. at + 2 \in Nat /\ (at + 2) + 2 <= r
      BY <1>0, <1>4
    <3> QED
      BY <1>2, <3>1, LengthReceived
  <2>2. U16(data, at) = 0
    <3>1. at < r /\ at + 1 < r /\ at + 1 \in Nat /\ (at + 1) + 1 = at + 2
      BY <1>0, <1>4
    <3>2. \A i \in Nat : U8(data, i) = IF i < r THEN b[i + 1] ELSE 0
      BY ReceivedBytes
    <3> HIDE DEF data
    <3>3. U8(data, at) = 0 /\ U8(data, at + 1) = 0
      BY <1>0, <1>2, <3>1, <3>2
    <3> QED
      BY <3>3 DEF U16
  <2> DEFINE name16 == U16(data, at + 7)
             list16 == U16(data, at + 4)
             type8  == U8(data, at + 6)
  <2>3. /\ at + 9 <= r => name16 = n
        /\ r < at + 9 => name16 = 0
    <3>1. at + 7 \in Nat /\ (at + 7) + 2 = at + 9 /\ (r < at + 9 => r <= (at + 7) + 1)
      BY <1>0
    <3>2. /\ (at + 7) + 2 <= r => U16(data, at + 7) = n
          /\ r <= (at + 7) + 1 /\ n < 256 => U16(data, at + 7) = 0
      BY <1>2, <3>1, LengthReceived
    <3> QED
      BY <1>0, <3>1, <3>2
  <2>4. /\ at + 6 <= r => list16 = 3 + n
    <3>1. at + 4 \in Nat /\ (at + 4) + 2 = at + 6
      BY <1>0
    <3>2. (at + 4) + 2 <= r => U16(data, at + 4) = 3 + n
      BY <1>2, <3>1, LengthReceived
    <3> QED
      BY <3>1, <3>2
  <2>5. at + 7 <= r => type8 = 0
    <3>1. at + 6 \in Nat /\ (at + 6) + 1 = at + 7 /\ (at + 7 <= r => at + 6 < r)
      BY <1>0
    <3>2. \A i \in Nat : U8(data, i) = IF i < r THEN b[i + 1] ELSE 0
      BY ReceivedBytes
    <3> HIDE DEF data
    <3> QED
      BY <1>2, <3>1, <3>2
  <2>6. name16 \in Nat /\ list16 \in Nat
    <3>1. at + 7 \in Nat /\ at + 4 \in Nat
      BY <1>0
    <3> QED
      BY <1>1, <3>1
  <2> HIDE DEF data, name16, list16, type8
  <2> DEFINE next == at + 4 + (5 + n)
             sn == ServerName(data, at + 4, next)
  <2>7. found = IF at + 4 > end \/ next > BufSize THEN NotFound ELSE sn
    <3>1. Extensions(data, at, end) =
            IF at + 4 > end \/ at + 4 + U16(data, at + 2) > BufSize THEN NotFound
            ELSE IF U16(data, at) = 0 THEN ServerName(data, at + 4, at + 4 + U16(data, at + 2))
            ELSE IF at + 4 + U16(data, at + 2) <= end
                 THEN Extensions(data, at + 4 + U16(data, at + 2), end) ELSE NotFound
      BY <1>1, ExtensionsAre DEF data
    <3> QED
      BY <2>1, <2>2, <3>1
  <2> HIDE DEF n
  <2>8. at + 4 <= end /\ next = p + n /\ next <= Len(b)
    BY <1>0 DEF n
  <2>9. sn = IF /\ next - (at + 4) >= 2 /\ at + 6 + list16 <= BufSize
                /\ (at + 6 + list16) - (at + 6) >= 3 /\ type8 = 0
                /\ p + name16 <= BufSize
             THEN Found(Bytes(data, p, p + name16)) ELSE NotFound
    <3>1. (at + 4) + 2 = at + 6 /\ (at + 6) + 3 = p /\ (at + 6) + 1 = at + 7
      BY <1>0
    <3> HIDE DEF p
    <3> QED
      BY <3>1 DEF ServerName, list16, type8, name16
  <2>10. CASE whole
    <3>1. /\ at + 9 <= r /\ at + 6 <= r /\ at + 7 <= r /\ next <= BufSize
          /\ p <= r
      BY <1>0, <2>8, <2>10
    <3>2. name16 = n /\ list16 = 3 + n /\ type8 = 0
      BY <2>3, <2>4, <2>5, <3>1
    <3>3. /\ next - (at + 4) >= 2 /\ at + 6 + list16 <= BufSize
          /\ (at + 6 + list16) - (at + 6) >= 3 /\ p + name16 <= BufSize
      BY <1>0, <2>8, <3>1, <3>2
    <3> HIDE DEF sn, next, p
    <3>4. sn = Found(Bytes(data, p, p + n))
      BY <2>9, <3>2, <3>3
    <3>5. found = sn
      BY <1>0, <2>7, <2>8, <3>1
    <3> QED
      BY <3>1, <3>4, <3>5 DEF p, n, data
  <2>11. CASE ~whole
    <3> HIDE DEF sn, next, p, found, whole
    <3>1. found = NotFound \/ found = sn
      BY <2>7
    <3>2. sn = NotFound \/ sn = Found(Bytes(data, p, p + name16))
      BY <2>9
    <3>3. CASE p <= r
      <4>1. name16 = n
        BY <2>3, <3>3 DEF p
      <4> QED
        BY <2>11, <3>1, <3>2, <3>3, <4>1 DEF p, n, data, found, whole
    <3>4. CASE ~(p <= r)
      <4>1. name16 = 0
        BY <1>0, <2>3, <3>4 DEF p
      <4>2. p \in Nat /\ p + 0 = p
        BY <1>0 DEF p
      <4>3. Bytes(data, p, p + name16) = <<>>
        BY <4>1, <4>2, NoBytes
      <4> QED
        BY <2>11, <3>1, <3>2, <4>3 DEF found, whole, data
    <3> QED
      BY <3>3, <3>4
  <2> QED
    BY <2>10, <2>11
<1> QED
  BY <1>0, <1>3, <1>4

\* One sequence behind the other.
LEMMA Behind ==
  ASSUME NEW s \in Seq(Nat), NEW t \in Seq(Nat)
  PROVE  s \o t \in Seq(Nat) /\ Len(s \o t) = Len(s) + Len(t) /\ Len(s) \in Nat /\ Len(t) \in Nat
  BY ConcatProperties, LenProperties

\* The parts of what is held, and where the second of them is.
LEMMA PartsHeld ==
  ASSUME NEW b \in Seq(Nat), NEW at \in Nat, NEW s \in Seq(Nat), NEW t \in Seq(Nat),
         NEW st, st = s \o t, Holds(b, at, st), NEW next, next = at + Len(s)
  PROVE  Holds(b, at, s) /\ Holds(b, next, t)
<1>1. Holds(b, at, s \o t)
  OBVIOUS
<1>2. Holds(b, at, s) /\ Holds(b, at + Len(s), t)
  BY <1>1, HoldsParts
<1> QED
  BY <1>2

\* The types of the parts of a ClientHello.
LEMMA HelloTypes ==
  ASSUME NEW m, ClientHello(m)
  PROVE  /\ m.versionRandom \in Seq(Nat) /\ Len(m.versionRandom) = 34
         /\ m.session \in Seq(Nat) /\ m.ciphers \in Seq(Nat) /\ m.compressions \in Seq(Nat)
         /\ m.before \in Seq(Others) /\ Flat(m.before) \in Seq(Nat)
         /\ m.name \in Seq(Nat) /\ Len(m.name) < 256 /\ m.after \in Seq(Nat) /\ m.rest \in Seq(Nat)
         /\ m.sni \in BOOLEAN /\ (~m.sni => m.name = <<>> /\ m.after = <<>>)
<1>1. /\ m.versionRandom \in Seq(Byte) /\ m.session \in Seq(Byte) /\ m.ciphers \in Seq(Byte)
      /\ m.compressions \in Seq(Byte) /\ m.name \in Seq(Byte) /\ m.after \in Seq(Byte)
      /\ m.rest \in Seq(Byte) /\ Len(m.versionRandom) = 34 /\ Len(m.name) < 256
      /\ m.sni \in BOOLEAN /\ (~m.sni => m.name = <<>> /\ m.after = <<>>)
  BY DEF ClientHello
<1>2. m.before \in Seq(Others)
  BY DEF ClientHello, Others
<1>3. \A s \in Seq(Byte) : s \in Seq(Nat)
  BY BytesAreNumbers
<1>4. Flat(m.before) \in Seq(Nat)
  <2> DEFINE exts == m.before
  <2>1. exts \in Seq(Others)
    BY <1>2
  <2>2. Len(exts) \in 0 .. Len(exts)
    BY <2>1, LenProperties
  <2> HIDE DEF exts
  <2>3. Flat(exts) \in Seq(Nat)
    BY <2>1, <2>2, FlatIs
  <2> QED
    BY <2>3 DEF exts
<1> QED
  BY <1>1, <1>2, <1>3, <1>4, Zenon

\* The extensions of a ClientHello are a sequence of numbers.
LEMMA HelloExtensionsType ==
  ASSUME NEW m, ClientHello(m)
  PROVE  HelloExtensions(m) \in Seq(Nat)
<1> DEFINE flat == Flat(m.before)
           e == ServerNameExtension(m.name)
           sni == IF m.sni THEN Extension(e) ELSE <<>>
           after == m.after
           tail == sni \o after
<1>1. flat \in Seq(Nat) /\ after \in Seq(Nat) /\ m.name \in Seq(Nat)
  BY HelloTypes
<1>2. e.type \in Byte \X Byte /\ e.data = ServerNameList(m.name)
  BY DEF ServerNameExtension, Byte
<1>3. ServerNameList(m.name) \in Seq(Nat)
  <2> DEFINE name == m.name
             v == Vector16(name)
             z == <<0>>
  <2>1. v \in Seq(Nat)
    BY <1>1, Vector16Type
  <2>2. z \in Seq(Nat)
    OBVIOUS
  <2> HIDE DEF v, z
  <2>3. z \o v \in Seq(Nat)
    BY <2>1, <2>2, Behind
  <2>4. Vector16(z \o v) \in Seq(Nat)
    BY <2>3, Vector16Type
  <2> QED
    BY <2>4 DEF ServerNameList, v, z
<1>4. HelloExtensions(m) = flat \o tail
  BY DEF HelloExtensions
<1> HIDE DEF e, flat, after
<1>5. Extension(e) \in Seq(Nat)
  BY <1>2, <1>3, ExtensionType
<1>6. sni \in Seq(Nat)
  BY <1>5, EmptySeq
<1> HIDE DEF sni
<1>7. tail \in Seq(Nat)
  BY <1>1, <1>6, Behind
<1> HIDE DEF tail
<1> QED
  BY <1>1, <1>4, <1>7, Behind

\* Where the parts of a ClientHello are in its bytes.
LEMMA HelloLayout ==
  ASSUME NEW m, ClientHello(m)
  PROVE  LET b == HelloBytes(m)
             x == Len(m.session)
             y == Len(m.ciphers)
             z == Len(m.compressions)
         IN /\ b \in Seq(Nat) /\ b[1] = 22 /\ b[6] = 1
            /\ Handshake(m) \in Seq(Nat) /\ Holds(b, 3, Vector16(Handshake(m)))
            /\ Holds(b, 43, Vector8(m.session))
            /\ Holds(b, 44 + x, Vector16(m.ciphers))
            /\ Holds(b, 46 + x + y, Vector8(m.compressions))
            /\ Holds(b, 47 + x + y + z, Vector16(HelloExtensions(m)))
            /\ Len(Handshake(m)) = 44 + x + y + z + Len(HelloExtensions(m))
<1> DEFINE random == m.versionRandom
           ses == m.session
           ciph == m.ciphers
           comp == m.compressions
           exts == HelloExtensions(m)
           rest == m.rest
           start == <<22, 3, 1>>
           type == <<1, 0>>
           v5 == Vector16(exts)
           v4 == Vector8(comp)
           v3 == Vector16(ciph)
           v2 == Vector8(ses)
           t4 == v4 \o v5
           t3 == v3 \o t4
           t2 == v2 \o t3
           body == HelloBody(m)
           w == Vector16(body)
           shake == Handshake(m)
           u == Vector16(shake)
           t1 == u \o rest
           b == HelloBytes(m)
           x == Len(ses)
           y == Len(ciph)
           z == Len(comp)
           n == Len(exts)
<1>1. random \in Seq(Nat) /\ Len(random) = 34
  BY HelloTypes
<1>2. ses \in Seq(Nat) /\ ciph \in Seq(Nat) /\ comp \in Seq(Nat) /\ rest \in Seq(Nat)
  BY HelloTypes
<1>3. exts \in Seq(Nat)
  BY HelloExtensionsType
<1>4. start \in Seq(Nat) /\ Len(start) = 3 /\ start[1] = 22
  OBVIOUS
<1>5. type \in Seq(Nat) /\ Len(type) = 2 /\ type[1] = 1
  OBVIOUS
<1>6. body = random \o t2
  BY DEF HelloBody
<1>7. shake = type \o w
  BY DEF Handshake
<1>8. b = start \o t1
  BY DEF HelloBytes
<1> HIDE DEF random, ses, ciph, comp, exts, rest, start, type, body, shake, b
<1>9. x \in Nat /\ y \in Nat /\ z \in Nat /\ n \in Nat
  BY <1>2, <1>3, LenProperties
<1>10. v2 \in Seq(Nat) /\ Len(v2) = 1 + x
  BY <1>2, Vector8Type
<1>11. v3 \in Seq(Nat) /\ Len(v3) = 2 + y
  BY <1>2, Vector16Type
<1>12. v4 \in Seq(Nat) /\ Len(v4) = 1 + z
  BY <1>2, Vector8Type
<1>13. v5 \in Seq(Nat) /\ Len(v5) = 2 + n
  BY <1>3, Vector16Type
<1> HIDE DEF v2, v3, v4, v5, x, y, z, n
<1>14. t4 \in Seq(Nat) /\ Len(t4) = 3 + z + n
  <2>1. t4 \in Seq(Nat) /\ Len(t4) = Len(v4) + Len(v5)
    BY <1>12, <1>13, Behind
  <2> QED
    BY <1>9, <1>12, <1>13, <2>1
<1>15. t4 = v4 \o v5
  OBVIOUS
<1> HIDE DEF t4
<1>16. t3 \in Seq(Nat) /\ Len(t3) = 5 + y + z + n
  <2>1. t3 \in Seq(Nat) /\ Len(t3) = Len(v3) + Len(t4)
    BY <1>11, <1>14, Behind
  <2> QED
    BY <1>9, <1>11, <1>14, <2>1
<1>17. t3 = v3 \o t4
  OBVIOUS
<1> HIDE DEF t3
<1>18. t2 \in Seq(Nat) /\ Len(t2) = 6 + x + y + z + n
  <2>1. t2 \in Seq(Nat) /\ Len(t2) = Len(v2) + Len(t3)
    BY <1>10, <1>16, Behind
  <2> QED
    BY <1>9, <1>10, <1>16, <2>1
<1>19. t2 = v2 \o t3
  OBVIOUS
<1> HIDE DEF t2
<1>20. body \in Seq(Nat) /\ Len(body) = 40 + x + y + z + n
  <2>1. random \o t2 \in Seq(Nat) /\ Len(random \o t2) = Len(random) + Len(t2)
    BY <1>1, <1>18, Behind
  <2> QED
    BY <1>1, <1>6, <1>9, <1>18, <2>1
<1>21. w \in Seq(Nat) /\ Len(w) = 42 + x + y + z + n
  <2>1. w \in Seq(Nat) /\ Len(w) = 2 + Len(body)
    BY <1>20, Vector16Type
  <2> QED
    BY <1>9, <1>20, <2>1
<1>22. w = Vector16(body)
  OBVIOUS
<1> HIDE DEF w
<1>23. shake \in Seq(Nat) /\ Len(shake) = 44 + x + y + z + n
  <2>1. type \o w \in Seq(Nat) /\ Len(type \o w) = Len(type) + Len(w)
    BY <1>5, <1>21, Behind
  <2> QED
    BY <1>5, <1>7, <1>9, <1>21, <2>1
<1>24. u \in Seq(Nat) /\ Len(u) \in Nat
  BY <1>23, Vector16Type, LenProperties
<1>25. u = Vector16(shake)
  OBVIOUS
<1> HIDE DEF u
<1>26. t1 \in Seq(Nat)
  BY <1>2, <1>24, Behind
<1>27. t1 = u \o rest
  OBVIOUS
<1> HIDE DEF t1
<1>28. b \in Seq(Nat)
  BY <1>4, <1>8, <1>26, Behind
<1>29. Holds(b, 0, start) /\ Holds(b, 3, t1)
  <2>1. Holds(b, 0, b)
    BY <1>28, HoldsItself
  <2>2. 3 = 0 + Len(start) /\ 0 \in Nat
    BY <1>4
  <2> QED
    BY <1>4, <1>8, <1>26, <1>28, <2>1, <2>2, PartsHeld
<1>30. b[1] = 22
  <2>1. b[0 + 0 + 1] = start[0 + 1]
    BY <1>4, <1>29 DEF Holds
  <2> QED
    BY <1>4, <2>1
<1>31. Holds(b, 3, u)
  <2>1. 3 \in Nat
    OBVIOUS
  <2> QED
    BY <1>2, <1>24, <1>27, <1>28, <1>29, <2>1, HoldsParts
<1>32. Holds(b, 5, type) /\ Holds(b, 7, w)
  <2>1. 3 \in Nat
    OBVIOUS
  <2>2. Holds(b, 3 + 2, shake)
    BY <1>23, <1>25, <1>28, <1>31, <2>1, HoldsVector16
  <2>3. 3 + 2 = 5 /\ 7 = 5 + Len(type) /\ 5 \in Nat
    BY <1>5
  <2>4. Holds(b, 5, type \o w)
    BY <1>7, <2>2, <2>3
  <2>5. Holds(b, 5, type) /\ Holds(b, 5 + Len(type), w)
    BY <1>5, <1>21, <1>28, <2>3, <2>4, HoldsParts
  <2> QED
    BY <2>3, <2>5
<1>33. b[6] = 1
  <2>1. b[5 + 0 + 1] = type[0 + 1]
    BY <1>5, <1>32 DEF Holds
  <2> QED
    BY <1>5, <2>1
<1>34. Holds(b, 43, t2)
  <2>1. 7 \in Nat
    OBVIOUS
  <2>2. Holds(b, 7 + 2, body)
    BY <1>20, <1>22, <1>28, <1>32, <2>1, HoldsVector16
  <2>3. 7 + 2 = 9 /\ 43 = 9 + Len(random) /\ 9 \in Nat
    BY <1>1
  <2>4. Holds(b, 9, random \o t2)
    BY <1>6, <2>2, <2>3
  <2>5. Holds(b, 9 + Len(random), t2)
    BY <1>1, <1>18, <1>28, <2>3, <2>4, HoldsParts
  <2> QED
    BY <2>3, <2>5
<1>35. Holds(b, 43, v2) /\ Holds(b, 44 + x, t3)
  <2>1. 44 + x = 43 + Len(v2) /\ 43 \in Nat
    BY <1>9, <1>10
  <2> QED
    BY <1>10, <1>16, <1>19, <1>28, <1>34, <2>1, PartsHeld
<1>36. Holds(b, 44 + x, v3) /\ Holds(b, 46 + x + y, t4)
  <2>1. 44 + x \in Nat /\ 46 + x + y = (44 + x) + Len(v3)
    BY <1>9, <1>11
  <2>2. Holds(b, 44 + x, v3 \o t4)
    BY <1>17, <1>35
  <2>3. Holds(b, 44 + x, v3) /\ Holds(b, (44 + x) + Len(v3), t4)
    BY <1>11, <1>14, <1>28, <2>1, <2>2, HoldsParts
  <2> QED
    BY <2>1, <2>3
<1>37. Holds(b, 46 + x + y, v4) /\ Holds(b, 47 + x + y + z, v5)
  <2>1. 46 + x + y \in Nat /\ 47 + x + y + z = (46 + x + y) + Len(v4)
    BY <1>9, <1>12
  <2> QED
    BY <1>12, <1>13, <1>15, <1>28, <1>36, <2>1, PartsHeld
<1>38. /\ b \in Seq(Nat) /\ b[1] = 22 /\ b[6] = 1
       /\ shake \in Seq(Nat) /\ Holds(b, 3, u)
       /\ Holds(b, 43, v2) /\ Holds(b, 44 + x, v3) /\ Holds(b, 46 + x + y, v4)
       /\ Holds(b, 47 + x + y + z, v5)
       /\ Len(shake) = 44 + x + y + z + n
  BY <1>23, <1>28, <1>30, <1>31, <1>33, <1>35, <1>36, <1>37
<1> QED
  BY <1>38 DEF u, v2, v3, v4, v5, x, y, z, n, b, shake, ses, ciph, comp, exts

\* The lesser of two numbers.
LEMMA LesserOfTwo ==
  ASSUME NEW x \in Nat, NEW y \in Nat
  PROVE  Min({x, y}) \in {x, y} /\ Min({x, y}) <= x /\ Min({x, y}) <= y
<1>1. \E m \in {x, y} : \A z \in {x, y} : m <= z
  <2>1. CASE x <= y
    BY <2>1
  <2>2. CASE y <= x
    BY <2>2
  <2> QED
    BY <2>1, <2>2
<1> QED
  BY <1>1 DEF Min

\* parseSNI finds the extensions where they are, unless they begin behind what has been
\* received or end outside the buffer.
LEMMA FindsExtensions ==
  ASSUME NEW m, ClientHello(m), NEW r \in 1 .. Len(HelloBytes(m))
  PROVE  LET b == HelloBytes(m)
             data == SubSeq(b, 1, r)
             start == 49 + Len(m.session) + Len(m.ciphers) + Len(m.compressions)
             end == start + Len(HelloExtensions(m))
         IN /\ Holds(b, start, HelloExtensions(m)) /\ end <= Len(b)
            /\ \/ parseSNI(data) = NotFound /\ ~(r = Len(b) /\ Len(b) <= BufSize)
               \/ parseSNI(data) = Extensions(data, start, end)
<1> DEFINE b == HelloBytes(m)
           data == SubSeq(b, 1, r)
           ses == m.session
           ciph == m.ciphers
           comp == m.compressions
           exts == HelloExtensions(m)
           shake == Handshake(m)
           x == Len(ses)
           y == Len(ciph)
           z == Len(comp)
           n == Len(exts)
           start == 49 + x + y + z
           end == start + n
           whole == r = Len(b) /\ Len(b) <= BufSize
<1>1. ses \in Seq(Nat) /\ ciph \in Seq(Nat) /\ comp \in Seq(Nat)
  BY HelloTypes
<1>2. exts \in Seq(Nat)
  BY HelloExtensionsType
<1>3. /\ b \in Seq(Nat) /\ b[1] = 22 /\ b[6] = 1
      /\ shake \in Seq(Nat) /\ Holds(b, 3, Vector16(shake))
  BY HelloLayout
<1>4. Holds(b, 43, Vector8(ses)) /\ Holds(b, 44 + x, Vector16(ciph))
  BY HelloLayout
<1>5. Holds(b, 46 + x + y, Vector8(comp)) /\ Holds(b, 47 + x + y + z, Vector16(exts))
  BY HelloLayout
<1>6. Len(shake) = 44 + x + y + z + n
  BY HelloLayout
<1>7. r \in Nat /\ Len(b) \in Nat /\ r \in 0 .. Len(b) /\ r \in 1 .. Len(b) /\ BufSize \in Nat
  BY <1>3, LenProperties, SniffAssumption
<1> HIDE DEF b, ses, ciph, comp, exts, shake
<1>8. x \in Nat /\ y \in Nat /\ z \in Nat /\ n \in Nat
  BY <1>1, <1>2, LenProperties
<1>9. \A i \in Nat : U8(data, i) = IF i < r THEN b[i + 1] ELSE 0
  BY <1>3, <1>7, ReceivedBytes
<1>10. \A i \in Nat : U8(data, i) \in Nat
  BY <1>3, <1>7, ReceivedBytes
<1>11. \A i \in Nat : U16(data, i) \in Nat
  BY <1>3, <1>7, LengthsAreNumbers
<1>12. Len(data) = r
  BY <1>3, <1>7, ReceivedBytes
<1> HIDE DEF x, y, z, n
<1>13. 44 <= r => U8(data, 43) = x
  <2>1. 43 \in Nat /\ 43 + 1 = 44
    OBVIOUS
  <2>2. b[43 + 1] = x
    BY <1>1, <1>3, <1>4, <2>1, HoldsVector8 DEF x
  <2>3. 44 <= r => 43 < r
    BY <1>7
  <2> HIDE DEF data
  <2> QED
    BY <1>9, <2>1, <2>2, <2>3
<1>14. 46 + x <= r => U16(data, 44 + x) = y
  <2>1. 44 + x \in Nat /\ (44 + x) + 2 = 46 + x
    BY <1>8
  <2>2. (44 + x) + 2 <= r => U16(data, 44 + x) = Len(ciph)
    BY <1>1, <1>3, <1>4, <1>7, <2>1, LengthReceived
  <2> QED
    BY <2>1, <2>2 DEF y
<1>15. 47 + x + y <= r => U8(data, 46 + x + y) = z
  <2>1. /\ 46 + x + y \in Nat /\ (46 + x + y) + 1 = 47 + x + y
        /\ (47 + x + y <= r => 46 + x + y < r)
    BY <1>7, <1>8
  <2>2. b[(46 + x + y) + 1] = z
    <3> DEFINE p == 46 + x + y
    <3>1. p \in Nat /\ Holds(b, p, Vector8(comp))
      BY <1>5, <2>1
    <3> HIDE DEF p
    <3>2. b[p + 1] = Len(comp)
      BY <1>1, <1>3, <3>1, HoldsVector8
    <3> QED
      BY <3>2 DEF p, z
  <2> HIDE DEF data
  <2> QED
    BY <1>9, <2>1, <2>2
<1>16. 49 + x + y + z <= r => U16(data, 47 + x + y + z) = n
  <2>1. 47 + x + y + z \in Nat /\ (47 + x + y + z) + 2 = 49 + x + y + z
    BY <1>8
  <2>2. (47 + x + y + z) + 2 <= r => U16(data, 47 + x + y + z) = Len(exts)
    BY <1>2, <1>3, <1>5, <1>7, <2>1, LengthReceived
  <2> QED
    BY <2>1, <2>2 DEF n
<1>17. Holds(b, start, exts) /\ end <= Len(b)
  <2>1. 47 + x + y + z \in Nat /\ (47 + x + y + z) + 2 = start
    BY <1>8
  <2>2. Holds(b, (47 + x + y + z) + 2, exts)
    BY <1>2, <1>3, <1>5, <2>1, HoldsVector16
  <2>3. Holds(b, start, exts)
    BY <2>1, <2>2
  <2>4. start + Len(exts) <= Len(b)
    BY <2>3 DEF Holds
  <2> QED
    BY <2>3, <2>4 DEF n
<1>18. 5 <= r => U16(data, 3) = end - 5
  <2>1. 3 \in Nat /\ 3 + 2 = 5
    OBVIOUS
  <2>2. 3 + 2 <= r => U16(data, 3) = Len(shake)
    BY <1>3, <1>7, <2>1, LengthReceived
  <2>3. Len(shake) = end - 5
    BY <1>6, <1>8 DEF x, y, z, n
  <2> QED
    BY <2>1, <2>2, <2>3
<1>19. /\ 1 <= r => data[1] = 22
       /\ 6 <= r => data[6] = 1
  <2>1. 0 \in Nat /\ 0 + 1 = 1 /\ 5 \in Nat /\ 5 + 1 = 6
    OBVIOUS
  <2> HIDE DEF data
  <2>2. /\ 1 <= r => U8(data, 0) = b[0 + 1] /\ U8(data, 0) = data[0 + 1]
        /\ 6 <= r => U8(data, 5) = b[5 + 1] /\ U8(data, 5) = data[5 + 1]
    BY <1>7, <1>9, <1>12, <2>1 DEF U8
  <2> QED
    BY <1>3, <2>1, <2>2
<1> HIDE DEF data
<1> DEFINE recEnd == Min({r, 5 + U16(data, 3)})
           c1 == 44 + U8(data, 43)
           c2 == c1 + 2 + U16(data, c1)
           c3 == c2 + 1 + U8(data, c2)
           at == c3 + 2
           atEnd == at + U16(data, c3)
           cond == /\ r >= 5 /\ data[1] = 22
                   /\ recEnd >= 9 /\ data[6] = 1
                   /\ at <= recEnd /\ atEnd <= BufSize
<1>20. parseSNI(data) = IF cond THEN Extensions(data, at, atEnd) ELSE NotFound
  <2>1. 5 + 4 + 2 + 32 = 43 /\ 43 + 1 + U8(data, 43) = c1
    <3>1. U8(data, 43) \in Nat
      BY <1>10
    <3> QED
      BY <3>1
  <2> DEFINE s == 5 + 4 + 2 + 32
             d1 == s + 1 + U8(data, s)
  <2>2. s = 43 /\ d1 = c1
    BY <2>1
  <2>3. parseSNI(data) =
          LET d2 == d1 + 2 + U16(data, d1)
              d3 == d2 + 1 + U8(data, d2)
              e == d3 + 2
              f == e + U16(data, d3)
              rec == Min({Len(data), 5 + U16(data, 3)})
          IN IF /\ Len(data) >= 5 /\ data[1] = 22
                /\ rec >= 9 /\ data[6] = 1
                /\ e <= rec /\ f <= BufSize
             THEN Extensions(data, e, f) ELSE NotFound
    BY DEF parseSNI
  <2> HIDE DEF d1, c1
  <2> QED
    BY <1>12, <2>2, <2>3
<1>21. recEnd \in {r, 5 + U16(data, 3)} /\ recEnd <= r
  <2>1. U16(data, 3) \in Nat
    BY <1>11
  <2>2. 5 + U16(data, 3) \in Nat
    BY <2>1
  <2> QED
    BY <1>7, <2>2, LesserOfTwo
<1>22. c1 \in Nat /\ 44 <= c1 /\ (44 <= r => c1 = 44 + x)
  <2>1. U8(data, 43) \in Nat
    BY <1>10
  <2> QED
    BY <1>13, <2>1
<1> HIDE DEF c1
<1>23. c2 \in Nat /\ c1 + 2 <= c2
  <2>1. U16(data, c1) \in Nat
    BY <1>11, <1>22
  <2> QED
    BY <1>22, <2>1
<1>24. 46 + x <= r => c2 = 46 + x + y
  <2>1. SUFFICES ASSUME 46 + x <= r PROVE c2 = 46 + x + y
    OBVIOUS
  <2>2. c1 = 44 + x
    BY <1>7, <1>8, <1>22, <2>1
  <2>3. U16(data, c1) = y
    BY <1>14, <2>1, <2>2
  <2> QED
    BY <1>8, <2>2, <2>3
<1> HIDE DEF c2
<1>25. c3 \in Nat /\ c2 + 1 <= c3
  <2>1. U8(data, c2) \in Nat
    BY <1>10, <1>23
  <2> QED
    BY <1>23, <2>1
<1>26. 47 + x + y <= r => c3 = 47 + x + y + z
  <2>1. SUFFICES ASSUME 47 + x + y <= r PROVE c3 = 47 + x + y + z
    OBVIOUS
  <2>2. c2 = 46 + x + y
    BY <1>7, <1>8, <1>24, <2>1
  <2>3. U8(data, c2) = z
    BY <1>15, <2>1, <2>2
  <2> QED
    BY <1>8, <2>2, <2>3
<1> HIDE DEF c3
<1>27. start <= r => at = start /\ U16(data, c3) = n
  <2>1. SUFFICES ASSUME start <= r PROVE at = start /\ U16(data, c3) = n
    OBVIOUS
  <2>2. c3 = 47 + x + y + z
    BY <1>7, <1>8, <1>26, <2>1
  <2>3. U16(data, c3) = n
    BY <1>16, <2>1, <2>2
  <2> QED
    BY <1>8, <2>2, <2>3
<1>28. at <= r => start <= r
  <2>1. SUFFICES ASSUME c3 + 2 <= r PROVE start <= r
    OBVIOUS
  <2>2. 44 <= r /\ 46 + x <= r
    BY <1>7, <1>8, <1>22, <1>23, <1>25, <2>1
  <2>3. 47 + x + y <= r
    BY <1>7, <1>8, <1>23, <1>24, <1>25, <2>1, <2>2
  <2> QED
    BY <1>7, <1>8, <1>26, <2>1, <2>3
<1> HIDE DEF recEnd
<1>29. cond => at = start /\ atEnd = end
  <2>1. cond => at <= r
    <3>1. \A a, e \in Nat : a <= e /\ e <= r => a <= r
      BY <1>7
    <3>2. at \in Nat /\ recEnd \in Nat
      BY <1>7, <1>11, <1>21, <1>25
    <3> QED
      BY <1>21, <3>1, <3>2
  <2> QED
    BY <1>27, <1>28, <2>1
<1>30. whole => cond
  <2>1. SUFFICES ASSUME whole PROVE cond
    OBVIOUS
  <2>2. end <= r /\ r <= BufSize
    BY <1>17, <2>1
  <2>3. 49 <= r /\ start <= r /\ start <= end /\ 5 <= r /\ 49 <= start
    BY <1>7, <1>8, <2>2
  <2>4. at = start /\ atEnd = end
    BY <1>27, <2>3
  <2>5. recEnd = r \/ recEnd = end
    <3>1. U16(data, 3) = end - 5
      BY <1>18, <2>3
    <3>2. 5 + (end - 5) = end
      BY <1>8
    <3> HIDE DEF end
    <3> QED
      BY <1>21, <3>1, <3>2
  <2>6. recEnd >= 9 /\ start <= recEnd
    <3> HIDE DEF end, start
    <3>1. \A s, e \in Nat : 49 <= s /\ s <= e /\ s <= r =>
            /\ e >= 9 /\ r >= 9
      BY <1>7
    <3>2. start \in Nat /\ end \in Nat
      BY <1>8 DEF start, end
    <3> QED
      BY <2>3, <2>5, <3>1, <3>2
  <2>7. data[1] = 22 /\ data[6] = 1 /\ r >= 5
    BY <1>7, <1>19, <2>3
  <2>8. atEnd <= BufSize
    BY <2>2, <2>4, <1>7, <1>8
  <2> HIDE DEF at, atEnd, start, end
  <2> QED
    BY <2>4, <2>6, <2>7, <2>8
<1>31. \/ parseSNI(data) = NotFound /\ ~whole
       \/ parseSNI(data) = Extensions(data, start, end)
  <2> HIDE DEF cond, whole, at, atEnd, start, end
  <2> QED
    BY <1>20, <1>29, <1>30
<1>32. Holds(b, start, exts) /\ end <= Len(b)
  BY <1>17
<1> QED
  BY <1>31, <1>32 DEF data, b, x, y, z, n, ses, ciph, comp, exts

\* What parseSNI makes of what has been received of a ClientHello.
LEMMA SniffsHello ==
  ASSUME NEW m, ClientHello(m), NEW r \in 1 .. Len(HelloBytes(m))
  PROVE  LET b == HelloBytes(m)
             data == SubSeq(b, 1, r)
             found == parseSNI(data)
         IN \/ found = NotFound /\ (~m.sni \/ ~(r = Len(b) /\ Len(b) <= BufSize))
            \/ found = Found(<<>>) /\ ~(r = Len(b) /\ Len(b) <= BufSize)
            \/ \E p \in 0 .. r : /\ found = Found(Bytes(data, p, p + Len(m.name)))
                                 /\ Holds(b, p, m.name)
<1> DEFINE b == HelloBytes(m)
           data == SubSeq(b, 1, r)
           found == parseSNI(data)
           exts == HelloExtensions(m)
           flat == Flat(m.before)
           name == m.name
           sne == Extension(ServerNameExtension(name))
           sni == IF m.sni THEN sne ELSE <<>>
           after == m.after
           tail == sni \o after
           start == 49 + Len(m.session) + Len(m.ciphers) + Len(m.compressions)
           end == start + Len(exts)
           here == start + Len(flat)
           whole == r = Len(b) /\ Len(b) <= BufSize
<1>1. /\ flat \in Seq(Nat) /\ m.before \in Seq(Others) /\ name \in Seq(Nat) /\ Len(name) < 256
      /\ after \in Seq(Nat) /\ m.sni \in BOOLEAN /\ (~m.sni => name = <<>> /\ after = <<>>)
  BY HelloTypes
<1>2. start \in Nat /\ 49 <= start
  <2> DEFINE x == Len(m.session)
             y == Len(m.ciphers)
             z == Len(m.compressions)
  <2>1. x \in Nat /\ y \in Nat /\ z \in Nat
    <3>1. m.session \in Seq(Nat) /\ m.ciphers \in Seq(Nat) /\ m.compressions \in Seq(Nat)
      BY HelloTypes
    <3> QED
      BY <3>1, LenProperties
  <2> HIDE DEF x, y, z
  <2>2. 49 + x + y + z \in Nat /\ 49 <= 49 + x + y + z
    BY <2>1
  <2> QED
    BY <2>2 DEF x, y, z
<1>3. b \in Seq(Nat)
  BY HelloLayout
<1>4. exts \in Seq(Nat)
  BY HelloExtensionsType
<1>5. exts = flat \o tail
  BY DEF HelloExtensions
<1>6. Holds(b, start, exts) /\ end <= Len(b)
  BY FindsExtensions
<1>7. (found = NotFound /\ ~whole) \/ found = Extensions(data, start, end)
  BY FindsExtensions
<1>8. r \in Nat /\ r \in 0 .. Len(b) /\ Len(b) \in Nat
  BY <1>3, LenProperties
<1> HIDE DEF b, exts, flat, name, after, start, sne
<1>9. Len(exts) \in Nat /\ Len(flat) \in Nat /\ Len(after) \in Nat /\ Len(name) \in Nat
  BY <1>1, <1>4, LenProperties
<1>10. sne \in Seq(Nat) /\ Len(sne) = 9 + Len(name)
  <2> DEFINE list == ServerNameList(name)
             e == ServerNameExtension(name)
             v == Vector16(name)
             z == <<0>>
  <2>1. v \in Seq(Nat) /\ Len(v) = 2 + Len(name)
    BY <1>1, Vector16Type
  <2>2. z \in Seq(Nat) /\ Len(z) = 1
    OBVIOUS
  <2>3. list = Vector16(z \o v)
    BY DEF ServerNameList
  <2>4. e.type \in Byte \X Byte /\ e.data = list
    BY DEF ServerNameExtension, Byte
  <2> HIDE DEF list, e, v, z
  <2>5. z \o v \in Seq(Nat) /\ Len(z \o v) = Len(z) + Len(v)
    BY <2>1, <2>2, Behind
  <2>6. list \in Seq(Nat) /\ Len(list) = 2 + Len(z \o v)
    BY <2>3, <2>5, Vector16Type
  <2>7. Extension(e) \in Seq(Nat) /\ Len(Extension(e)) = 4 + Len(list)
    BY <2>4, <2>6, ExtensionType
  <2>8. Len(Extension(e)) = 9 + Len(name)
    BY <1>9, <2>1, <2>2, <2>5, <2>6, <2>7
  <2> QED
    BY <2>7, <2>8 DEF e, sne
<1>11. sni \in Seq(Nat) /\ Len(sni) \in Nat /\ (~m.sni => sni = <<>> /\ Len(sni) = 0)
       /\ (m.sni => sni = sne)
  <2>1. \A S : <<>> \in Seq(S) /\ Len(<<>>) = 0
    BY EmptySeq
  <2> QED
    BY <1>9, <1>10, <2>1
<1> HIDE DEF sni
<1>12. tail \in Seq(Nat) /\ Len(tail) = Len(sni) + Len(after)
  BY <1>1, <1>11, Behind
<1> HIDE DEF tail
<1>13. Len(exts) = Len(flat) + Len(tail)
  <2>1. Len(flat \o tail) = Len(flat) + Len(tail)
    BY <1>1, <1>12, Behind
  <2> QED
    BY <1>5, <2>1
<1>14. Holds(b, start, flat) /\ Holds(b, here, tail)
  <2>1. Holds(b, start, flat \o tail)
    BY <1>5, <1>6
  <2> QED
    BY <1>1, <1>2, <1>3, <1>12, <2>1, HoldsParts
<1>15. here \in Nat /\ here <= end /\ start \in 0 .. end /\ here \in 0 .. end /\ end \in Nat
       /\ here + (Len(sni) + Len(after)) = end
  BY <1>2, <1>9, <1>11, <1>12, <1>13
<1>16. (found = NotFound /\ ~whole) \/ found = Extensions(data, here, end)
  <2>1. \/ Extensions(data, start, end) = Extensions(data, here, end)
        \/ Extensions(data, start, end) = NotFound /\ ~whole
    <3> HIDE DEF end
    <3>1. start + Len(Flat(m.before)) <= end
      BY <1>15 DEF flat
    <3>2. Holds(b, start, Flat(m.before))
      BY <1>14 DEF flat
    <3> QED
      BY <1>1, <1>3, <1>6, <1>8, <1>15, <3>1, <3>2, SkipsOthers DEF flat
  <2> HIDE DEF found, whole, data, end, here
  <2> QED
    BY <1>7, <2>1
<1>17. CASE ~m.sni
  <2>1. here = end
    <3>1. Len(after) = 0
      BY <1>1, <1>17, EmptySeq
    <3> QED
      BY <1>2, <1>9, <1>11, <1>15, <1>17, <3>1
  <2>2. Extensions(data, here, end) = NotFound
    <3>1. \A i \in Nat : U16(data, i) \in Nat
      BY <1>3, <1>8, LengthsAreNumbers
    <3>2. here + 4 > end
      BY <1>15, <2>1
    <3> HIDE DEF here, end, data
    <3> QED
      BY <1>15, <3>1, <3>2, ExtensionsAre
  <2> HIDE DEF found, whole, data, end, here
  <2>3. found = NotFound
    BY <1>16, <2>2
  <2> QED
    BY <1>17, <2>3 DEF found, data, b
<1>18. CASE m.sni
  <2> DEFINE p == here + 9
  <2>1. Holds(b, here, sne)
    <3>1. Holds(b, here, sni \o after)
      BY <1>14 DEF tail
    <3>2. Holds(b, here, sni)
      BY <1>1, <1>3, <1>11, <1>15, <3>1, HoldsParts
    <3> QED
      BY <1>11, <1>18, <3>2
  <2>2. here + 9 + Len(name) <= end
    BY <1>2, <1>9, <1>10, <1>11, <1>15, <1>18
  <2> HIDE DEF here, end
  <2>3. \/ Extensions(data, here, end) = NotFound /\ ~whole
        \/ Extensions(data, here, end) = Found(<<>>) /\ ~whole
        \/ Extensions(data, here, end) = Found(Bytes(data, p, p + Len(name))) /\ p <= r
    <3>1. Holds(b, here, Extension(ServerNameExtension(name)))
      BY <2>1 DEF sne
    <3>2. end \in Nat /\ here \in 0 .. end /\ end <= Len(b)
      BY <1>6, <1>15
    <3> QED
      BY <1>1, <1>3, <1>8, <2>2, <3>1, <3>2, FindsName, Zenon
  <2>4. Holds(b, p, name)
    BY <1>1, <1>3, <1>15, <2>1, ServerNameParts DEF sne
  <2>5. p \in Nat
    BY <1>15
  <2> HIDE DEF p, found, whole, data
  <2>6. p <= r => p \in 0 .. r
    BY <1>8, <2>5
  <2>7. \/ found = NotFound /\ ~whole
        \/ found = Found(<<>>) /\ ~whole
        \/ found = Found(Bytes(data, p, p + Len(name))) /\ p \in 0 .. r
    BY <1>16, <2>3, <2>6
  <2> QED
    BY <2>4, <2>7 DEF found, whole, data, b, name
<1> QED
  BY <1>1, <1>17, <1>18

\* A function from 1 to n is a sequence.
LEMMA NumbersOfLength ==
  ASSUME NEW n \in Nat, NEW f \in [1 .. n -> Nat]
  PROVE  f \in Seq(Nat) /\ Len(f) = n
  OBVIOUS

\* host is name as far as it is among the r bytes received, with zeros for the rest.
AsReceived(host, name, data, r) ==
  /\ Len(host) = Len(name)
  /\ \E n \in 0 .. r : /\ n <= Len(host)
       /\ host = SubSeq(name, 1, n) \o [i \in 1 .. Len(host) - n |-> 0]
       /\ SubSeq(host, 1, n) = SubSeq(data, r - n + 1, r)

\* The name in a server_name, as far as it has been received.
LEMMA NameReceived ==
  ASSUME NEW b \in Seq(Nat), NEW r \in 0 .. Len(b), NEW name \in Seq(Nat), NEW p \in 0 .. r,
         Holds(b, p, name)
  PROVE  LET data == SubSeq(b, 1, r)
             host == Bytes(data, p, p + Len(name))
         IN \/ host = name
            \/ r # Len(b) /\ AsReceived(host, name, data, r)
<1> DEFINE data == SubSeq(b, 1, r)
           size == Len(name)
           host == Bytes(data, p, p + size)
<1>1. r \in Nat /\ p \in Nat /\ p <= r /\ size \in Nat /\ Len(b) \in Nat
  BY LenProperties
<1>2. p + size <= Len(b) /\ \A i \in 0 .. size - 1 : b[p + i + 1] = name[i + 1]
  BY DEF Holds
<1>3. /\ \A i \in Nat : U8(data, i) = IF i < r THEN b[i + 1] ELSE 0
      /\ data \in Seq(Nat) /\ Len(data) = r
  BY ReceivedBytes
<1>4. \A i \in 1 .. r : data[i] = b[i]
  BY SubSeqProperties, <1>1, LenProperties
<1> HIDE DEF data
<1>5. host = [i \in 1 .. size |-> U8(data, p + i - 1)]
  <2>1. (p + size) - p = size
    BY <1>1
  <2> HIDE DEF size
  <2> QED
    BY <2>1 DEF Bytes
<1>6. \A i \in 1 .. size : name[i] \in Nat
  BY ElementOfSeq
<1> HIDE DEF host, size
<1>7. ASSUME NEW i \in 1 .. size
      PROVE  host[i] = IF p + i <= r THEN name[i] ELSE 0
  <2>1. host[i] = U8(data, p + i - 1)
    BY <1>5
  <2>2. p + i - 1 \in Nat /\ i - 1 \in 0 .. size - 1 /\ (i - 1) + 1 = i
        /\ p + (i - 1) + 1 = (p + i - 1) + 1 /\ (p + i - 1 < r <=> p + i <= r)
    BY <1>1
  <2>3. b[(p + i - 1) + 1] = name[i]
    BY <1>2, <2>2
  <2> QED
    BY <1>3, <2>1, <2>2, <2>3
<1>8. host \in Seq(Nat) /\ Len(host) = size
  <2>1. ASSUME NEW i \in 1 .. size PROVE host[i] \in Nat
    <3>1. name[i] \in Nat /\ 0 \in Nat
      BY <1>6
    <3> QED
      BY <1>7, <3>1
  <2>2. host \in [1 .. size -> Nat]
    BY <1>5, <2>1
  <2> QED
    BY <1>1, <2>2, NumbersOfLength
<1>9. CASE p + size <= r
  <2>1. \A i \in 1 .. size : host[i] = name[i]
    <3>1. \A i \in 1 .. size : p + i <= r
      BY <1>1, <1>9
    <3> QED
      BY <1>7, <3>1
  <2>2. host = name
    BY <1>8, <2>1, SeqEqual DEF size
  <2> QED
    BY <2>2 DEF host, data, size
<1>10. CASE r < p + size
  <2> DEFINE n == r - p
             zeros == [i \in 1 .. Len(host) - n |-> 0]
             head == SubSeq(name, 1, n)
  <2>1. n \in 0 .. r /\ n <= size /\ n \in Nat
    BY <1>1, <1>10
  <2>2. r # Len(b)
    BY <1>1, <1>2, <1>10
  <2>3. /\ head \in Seq(Nat) /\ Len(head) = n /\ \A i \in 1 .. n : head[i] = name[i]
    <3>1. \A i \in 1 .. n : name[i] \in Nat
      BY <1>1, <1>6, <2>1
    <3> HIDE DEF n
    <3> QED
      BY <2>1, <3>1, SubSeqProperties
  <2>4. zeros \in Seq(Nat) /\ Len(zeros) = size - n /\ \A i \in 1 .. size - n : zeros[i] = 0
    <3>1. size - n \in Nat /\ zeros = [i \in 1 .. size - n |-> 0]
      BY <1>1, <1>8, <2>1
    <3> HIDE DEF n, zeros
    <3> QED
      BY <3>1
  <2>5. host = head \o zeros
    <3> HIDE DEF head, zeros, n
    <3>1. /\ head \o zeros \in Seq(Nat) /\ Len(head \o zeros) = n + (size - n)
          /\ \A i \in 1 .. n + (size - n) :
               (head \o zeros)[i] = IF i <= n THEN head[i] ELSE zeros[i - n]
      <4>1. /\ head \o zeros \in Seq(Nat) /\ Len(head \o zeros) = Len(head) + Len(zeros)
            /\ \A i \in 1 .. Len(head) + Len(zeros) :
                 (head \o zeros)[i] = IF i <= Len(head) THEN head[i] ELSE zeros[i - Len(head)]
        BY <2>3, <2>4, ConcatProperties
      <4> QED
        BY <2>3, <2>4, <4>1
    <3>2. n + (size - n) = size
      BY <1>1, <2>1
    <3>3. ASSUME NEW i \in 1 .. size PROVE host[i] = (head \o zeros)[i]
      <4>1. CASE i <= n
        <5>1. i \in 1 .. n /\ p + i <= r
          BY <1>1, <2>1, <4>1 DEF n
        <5> QED
          BY <1>7, <2>3, <3>1, <3>2, <4>1, <5>1
      <4>2. CASE ~(i <= n)
        <5>1. i - n \in 1 .. size - n /\ ~(p + i <= r)
          BY <1>1, <2>1, <4>2 DEF n
        <5> QED
          BY <1>7, <2>4, <3>1, <3>2, <4>2, <5>1
      <4> QED
        BY <4>1, <4>2
    <3> QED
      BY <1>8, <3>1, <3>2, <3>3, SeqEqual
  <2>6. SubSeq(host, 1, n) = SubSeq(data, r - n + 1, r)
    <3> DEFINE s == SubSeq(host, 1, n)
               t == SubSeq(data, p + 1, r)
    <3>1. s \in Seq(Nat) /\ Len(s) = n /\ \A i \in 1 .. n : s[i] = host[i]
      <4>1. \A i \in 1 .. n : host[i] \in Nat
        BY <1>8, <2>1, ElementOfSeq
      <4> HIDE DEF n
      <4> QED
        BY <2>1, <4>1, SubSeqProperties
    <3>2. t \in Seq(Nat) /\ Len(t) = n /\ \A i \in 1 .. n : t[i] = data[p + i]
      <4>1. \A i \in p + 1 .. r : data[i] \in Nat
        <5>1. \A i \in p + 1 .. r : i \in 1 .. Len(data)
          BY <1>1, <1>3
        <5> QED
          BY <1>3, <5>1, ElementOfSeq
      <4>2. p + 1 \in Int /\ r \in Int /\ r - (p + 1) + 1 = n
            /\ (p + 1 <= r \/ n = 0)
        BY <1>1
      <4>3. /\ t \in Seq(Nat) /\ Len(t) = IF p + 1 <= r THEN r - (p + 1) + 1 ELSE 0
            /\ \A i \in 1 .. r - (p + 1) + 1 : t[i] = data[(p + 1) + i - 1]
        BY <4>1, <4>2, SubSeqProperties
      <4>4. \A i \in 1 .. n : (p + 1) + i - 1 = p + i
        BY <1>1
      <4> HIDE DEF n, t
      <4> QED
        BY <4>2, <4>3, <4>4
    <3>3. ASSUME NEW i \in 1 .. n PROVE s[i] = t[i]
      <4>1. /\ i \in 1 .. size /\ p + i <= r /\ p + i \in 1 .. r
            /\ i - 1 \in 0 .. size - 1 /\ p + (i - 1) + 1 = p + i /\ (i - 1) + 1 = i
        BY <1>1, <2>1
      <4>2. data[p + i] = b[p + i] /\ b[p + i] = name[i] /\ host[i] = name[i]
        BY <1>2, <1>4, <1>7, <4>1
      <4> HIDE DEF n, s, t
      <4> QED
        BY <3>1, <3>2, <4>2
    <3>4. r - n + 1 = p + 1
      BY <1>1
    <3> HIDE DEF s, t, n
    <3>5. s = t
      BY <3>1, <3>2, <3>3, SeqEqual
    <3> QED
      BY <3>4, <3>5 DEF s, t
  <2> HIDE DEF n
  <2>7. n <= Len(host)
    BY <1>8, <2>1
  <2>8. AsReceived(host, name, data, r)
    BY <1>8, <2>1, <2>5, <2>6, <2>7 DEF AsReceived, size
  <2> QED
    BY <2>2, <2>8 DEF host, data, size
<1>11. p + size <= r \/ r < p + size
  BY <1>1
<1> QED
  BY <1>9, <1>10, <1>11, Zenon

(***************************************************************************)
(* Lines of a request.                                                     *)
(***************************************************************************)

\* The least of some numbers.
LEMMA MinIs ==
  ASSUME NEW S, NEW x \in S, S \in SUBSET Nat, \A y \in S : x <= y
  PROVE  Min(S) = x
<1>1. Min(S) \in S /\ \A y \in S : Min(S) <= y
  BY DEF Min
<1>2. Min(S) \in Nat /\ x \in Nat /\ Min(S) <= x /\ x <= Min(S)
  BY <1>1
<1> QED
  BY <1>2

\* The greatest of some numbers.
LEMMA MaxIs ==
  ASSUME NEW S, NEW x \in S, S \in SUBSET Nat, \A y \in S : y <= x
  PROVE  Max(S) = x
<1>1. x >= x /\ \A y \in S : x >= y
  OBVIOUS
<1>2. Max(S) \in S /\ \A y \in S : Max(S) >= y
  BY <1>1 DEF Max
<1>3. Max(S) \in Nat /\ x \in Nat /\ Max(S) >= x /\ Max(S) <= x
  BY <1>2
<1> QED
  BY <1>3

\* A part of a sequence.
LEMMA Cut ==
  ASSUME NEW s \in Seq(Nat), NEW i \in 1 .. Len(s) + 1, NEW j \in i - 1 .. Len(s)
  PROVE  /\ SubSeq(s, i, j) \in Seq(Nat) /\ Len(SubSeq(s, i, j)) = j - i + 1
         /\ \A k \in 1 .. j - i + 1 : SubSeq(s, i, j)[k] = s[i + k - 1]
<1>1. Len(s) \in Nat
  BY LenProperties
<1>2. i \in Int /\ j \in Int /\ (i <= j \/ j - i + 1 = 0)
  BY <1>1
<1>3. \A k \in i .. j : s[k] \in Nat
  <2>1. \A k \in i .. j : k \in 1 .. Len(s)
    BY <1>1
  <2> QED
    BY <2>1, ElementOfSeq
<1>4. /\ SubSeq(s, i, j) \in Seq(Nat)
      /\ Len(SubSeq(s, i, j)) = IF i <= j THEN j - i + 1 ELSE 0
      /\ \A k \in 1 .. j - i + 1 : SubSeq(s, i, j)[k] = s[i + k - 1]
  BY <1>2, <1>3, SubSeqProperties
<1> QED
  BY <1>2, <1>4

\* A part of a part.
LEMMA CutOfCut ==
  ASSUME NEW s \in Seq(Nat), NEW i \in 1 .. Len(s) + 1, NEW j \in i - 1 .. Len(s),
         NEW k \in 1 .. j - i + 2, NEW l \in k - 1 .. j - i + 1
  PROVE  SubSeq(SubSeq(s, i, j), k, l) = SubSeq(s, i + k - 1, i + l - 1)
<1> DEFINE t == SubSeq(s, i, j)
           u == SubSeq(t, k, l)
           v == SubSeq(s, i + k - 1, i + l - 1)
<1>1. Len(s) \in Nat
  BY LenProperties
<1>2. t \in Seq(Nat) /\ Len(t) = j - i + 1 /\ \A x \in 1 .. j - i + 1 : t[x] = s[i + x - 1]
  BY Cut
<1>3. k \in 1 .. Len(t) + 1 /\ l \in k - 1 .. Len(t)
  BY <1>1, <1>2
<1> HIDE DEF t
<1>4. u \in Seq(Nat) /\ Len(u) = l - k + 1 /\ \A x \in 1 .. l - k + 1 : u[x] = t[k + x - 1]
  BY <1>2, <1>3, Cut
<1> DEFINE i2 == i + k - 1
           j2 == i + l - 1
<1>5. i2 \in 1 .. Len(s) + 1 /\ j2 \in i2 - 1 .. Len(s) /\ j2 - i2 + 1 = l - k + 1
  BY <1>1
<1>6. v = SubSeq(s, i2, j2)
  OBVIOUS
<1> HIDE DEF u, v
<1>7. v \in Seq(Nat) /\ Len(v) = l - k + 1 /\ \A x \in 1 .. l - k + 1 : v[x] = s[i2 + x - 1]
  <2> HIDE DEF i2, j2
  <2> QED
    BY <1>5, <1>6, Cut
<1>8. ASSUME NEW x \in 1 .. l - k + 1 PROVE u[x] = v[x]
  <2>1. k + x - 1 \in 1 .. j - i + 1 /\ i + (k + x - 1) - 1 = i2 + x - 1
    BY <1>1
  <2>2. t[k + x - 1] = s[i + (k + x - 1) - 1]
    BY <1>2, <2>1
  <2> HIDE DEF i2
  <2> QED
    BY <1>4, <1>7, <2>1, <2>2
<1>9. u = v
  BY <1>4, <1>7, <1>8, SeqEqual
<1> QED
  BY <1>9 DEF u, v, t

\* Parts of two sequences that agree.
LEMMA SameCut ==
  ASSUME NEW s \in Seq(Nat), NEW t \in Seq(Nat), NEW i \in Nat, 1 <= i,
         NEW j \in Nat, i <= j + 1, j <= Len(s), j <= Len(t), \A k \in i .. j : s[k] = t[k]
  PROVE  SubSeq(s, i, j) = SubSeq(t, i, j)
<1> DEFINE u == SubSeq(s, i, j)
           v == SubSeq(t, i, j)
<1>1. Len(s) \in Nat /\ Len(t) \in Nat
  BY LenProperties
<1>2. i \in 1 .. Len(s) + 1 /\ j \in i - 1 .. Len(s) /\ i \in 1 .. Len(t) + 1 /\ j \in i - 1 .. Len(t)
  BY <1>1
<1>3. u \in Seq(Nat) /\ Len(u) = j - i + 1 /\ \A x \in 1 .. j - i + 1 : u[x] = s[i + x - 1]
  BY <1>2, Cut
<1>4. v \in Seq(Nat) /\ Len(v) = j - i + 1 /\ \A x \in 1 .. j - i + 1 : v[x] = t[i + x - 1]
  BY <1>2, Cut
<1> HIDE DEF u, v
<1>5. ASSUME NEW x \in 1 .. j - i + 1 PROVE u[x] = v[x]
  <2>1. i + x - 1 \in i .. j
    OBVIOUS
  <2> QED
    BY <1>3, <1>4, <2>1
<1>6. u = v
  BY <1>3, <1>4, <1>5, SeqEqual
<1> QED
  BY <1>6 DEF u, v

-----------------------------------------------------------------------------
\* The line that begins at s ends in front of e.
Ends(d, s, e) ==
  /\ e \in s .. Len(d) + 1
  /\ \A i \in LineBreaks(d) : ~(s <= i /\ i < e)
  /\ e = Len(d) + 1 \/ e \in LineBreaks(d)

\* What such a line is.
LEMMA LineIs ==
  ASSUME NEW d \in Seq(Nat), NEW s \in 1 .. Len(d) + 1, NEW e, Ends(d, s, e)
  PROVE  LineAt(d, s) = SubSeq(d, s, e - 1)
<1> DEFINE ends == {i \in LineBreaks(d) : i >= s} \union {Len(d) + 1}
<1>1. Len(d) \in Nat
  BY LenProperties
<1>2. LineBreaks(d) \subseteq 1 .. Len(d) - 1
  BY DEF LineBreaks
<1>3. e \in ends /\ ends \in SUBSET Nat
  BY <1>1, <1>2 DEF Ends
<1>4. ASSUME NEW y \in ends PROVE e <= y
  BY <1>1, <1>2 DEF Ends
<1> HIDE DEF ends
<1>5. Min(ends) = e
  BY <1>3, <1>4, MinIs
<1> QED
  BY <1>5 DEF LineAt, ends

\* Every line ends somewhere.
LEMMA LineEnds ==
  ASSUME NEW d \in Seq(Nat), NEW s \in 1 .. Len(d) + 1
  PROVE  \E e : Ends(d, s, e)
<1> DEFINE ends == {i \in LineBreaks(d) : i >= s} \union {Len(d) + 1}
<1>1. Len(d) \in Nat
  BY LenProperties
<1>2. LineBreaks(d) \subseteq 1 .. Len(d) - 1
  BY DEF LineBreaks
<1>3. ends \in SUBSET Nat /\ Len(d) + 1 \in ends /\ \A x \in ends : s <= x /\ x <= Len(d) + 1
  BY <1>1, <1>2
<1> HIDE DEF ends
<1>4. PICK e \in ends : \A x \in ends : e <= x
  BY <1>3, Least
<1>5. e \in s .. Len(d) + 1
  BY <1>1, <1>3, <1>4
<1>6. ASSUME NEW i \in LineBreaks(d), s <= i, i < e PROVE FALSE
  <2>1. i \in ends
    BY <1>2, <1>6 DEF ends
  <2>2. e <= i /\ i \in Nat /\ e \in Nat
    BY <1>3, <1>4, <2>1
  <2> QED
    BY <1>6, <2>2
<1>7. e = Len(d) + 1 \/ e \in LineBreaks(d)
  BY DEF ends
<1> QED
  BY <1>5, <1>6, <1>7 DEF Ends

\* From s there is a line's beginning up to a colon at c, and it is the name of a Host header.
HostAt(d, s, c) ==
  /\ c \in s .. Len(d) /\ d[c] = Colon
  /\ \A j \in s .. c - 1 : d[j] # Colon /\ ~(d[j] = CR /\ d[j + 1] = LF)
  /\ IsHost(TrimSpace(SubSeq(d, s, c - 1)))

\* That is what a line needs to be a Host header.
LEMMA HostHeaderIs ==
  ASSUME NEW d \in Seq(Nat), NEW s \in 1 .. Len(d) + 1, IsHostHeader(LineAt(d, s))
  PROVE  \E c : HostAt(d, s, c)
<1>1. PICK e : Ends(d, s, e)
  BY LineEnds
<1> DEFINE line == SubSeq(d, s, e - 1)
           colons == Positions(line, Colon)
<1>2. Len(d) \in Nat /\ s \in Nat /\ e \in Nat /\ s <= e /\ e <= Len(d) + 1 /\ 1 <= s
  BY <1>1, LenProperties DEF Ends
<1>3. e - 1 \in s - 1 .. Len(d)
  BY <1>2
<1>4. line \in Seq(Nat) /\ Len(line) = (e - 1) - s + 1
      /\ \A k \in 1 .. (e - 1) - s + 1 : line[k] = d[s + k - 1]
  BY <1>3, Cut
<1>5. line = LineAt(d, s)
  BY <1>1, LineIs
<1>6. colons # {} /\ IsHost(TrimSpace(SubSeq(line, 1, Min(colons) - 1)))
  BY <1>5 DEF IsHostHeader, HeaderName
<1>7. colons = {k \in 1 .. Len(line) : line[k] = Colon}
  BY <1>4, LenProperties DEF Positions
<1> HIDE DEF line, colons
<1>8. colons \in SUBSET Nat
  BY <1>7
<1>9. PICK k \in colons : \A x \in colons : k <= x
  BY <1>6, <1>8, Least
<1>10. Min(colons) = k
  BY <1>8, <1>9, MinIs
<1> DEFINE c == s + k - 1
<1>11. k \in 1 .. (e - 1) - s + 1 /\ line[k] = Colon /\ k \in Nat
  BY <1>4, <1>7, <1>9
<1>12. c \in s .. Len(d) /\ c < e /\ d[c] = Colon
  <2>1. k \in Nat /\ 1 <= k /\ k <= (e - 1) - s + 1
    BY <1>2, <1>11
  <2>2. c \in Nat /\ s <= c /\ c < e /\ c <= Len(d)
    BY <1>2, <2>1
  <2>3. d[s + k - 1] = Colon
    BY <1>4, <1>11
  <2> QED
    BY <1>2, <2>2, <2>3
<1>13. ASSUME NEW j \in s .. c - 1 PROVE d[j] # Colon /\ ~(d[j] = CR /\ d[j + 1] = LF)
  <2>1. j \in Nat /\ s <= j /\ j < e /\ j \in 1 .. Len(d) - 1
    BY <1>2, <1>11, <1>12
  <2>2. d[j] # Colon
    <3> DEFINE x == j - s + 1
    <3>1. x \in 1 .. (e - 1) - s + 1 /\ s + x - 1 = j /\ ~(k <= x) /\ x \in 1 .. Len(line)
      BY <1>2, <1>4, <1>11
    <3> HIDE DEF x
    <3>2. x \notin colons
      BY <1>9, <3>1
    <3>3. line[x] = d[j]
      BY <1>4, <3>1
    <3> QED
      BY <1>7, <3>1, <3>2, <3>3
  <2>3. j \notin LineBreaks(d)
    BY <1>1, <2>1 DEF Ends
  <2> QED
    BY <2>1, <2>2, <2>3 DEF LineBreaks
<1>14. SubSeq(line, 1, k - 1) = SubSeq(d, s, c - 1)
  <2> DEFINE j == e - 1
             l == k - 1
  <2>1. j \in s - 1 .. Len(d) /\ 1 \in 1 .. j - s + 2 /\ l \in 1 - 1 .. j - s + 1
    BY <1>2, <1>3, <1>11
  <2> HIDE DEF j, l
  <2>2. SubSeq(SubSeq(d, s, j), 1, l) = SubSeq(d, s + 1 - 1, s + l - 1)
    BY <2>1, CutOfCut
  <2>3. s + 1 - 1 = s /\ s + l - 1 = c - 1
    BY <1>2, <1>11 DEF l
  <2> QED
    BY <2>2, <2>3 DEF j, l, line
<1> HIDE DEF c
<1>15. HostAt(d, s, c)
  BY <1>6, <1>10, <1>12, <1>13, <1>14 DEF HostAt
<1> QED
  BY <1>15

\* A line with the name of a Host header is one, and its value is what is behind the colon.
LEMMA IsHeader ==
  ASSUME NEW d \in Seq(Nat), NEW s \in 1 .. Len(d) + 1, NEW e, Ends(d, s, e),
         NEW c, HostAt(d, s, c)
  PROVE  /\ c < e /\ IsHostHeader(LineAt(d, s))
         /\ HeaderValue(LineAt(d, s)) = TrimSpace(SubSeq(d, c + 1, e - 1))
<1> DEFINE line == SubSeq(d, s, e - 1)
           colons == Positions(line, Colon)
           k == c - s + 1
<1>1. Len(d) \in Nat /\ s \in Nat /\ e \in Nat /\ s <= e /\ e <= Len(d) + 1 /\ 1 <= s
  BY LenProperties DEF Ends
<1>2. /\ c \in Nat /\ s <= c /\ c <= Len(d) /\ d[c] = Colon
      /\ \A j \in s .. c - 1 : d[j] # Colon /\ ~(d[j] = CR /\ d[j + 1] = LF)
      /\ IsHost(TrimSpace(SubSeq(d, s, c - 1)))
  BY <1>1 DEF HostAt
<1>3. c < e
  <2>1. SUFFICES ASSUME e <= c PROVE FALSE
    BY <1>1, <1>2
  <2>2. e \in LineBreaks(d)
    BY <1>1, <1>2, <2>1 DEF Ends
  <2>3. d[e] = CR /\ d[e + 1] = LF
    BY <2>2 DEF LineBreaks
  <2>4. e # c
    BY <1>2, <2>3 DEF CR, Colon
  <2>5. e \in s .. c - 1
    BY <1>1, <1>2, <2>1, <2>4
  <2> QED
    BY <1>2, <2>3, <2>5
<1>4. e - 1 \in s - 1 .. Len(d)
  BY <1>1
<1>5. line \in Seq(Nat) /\ Len(line) = (e - 1) - s + 1
      /\ \A x \in 1 .. (e - 1) - s + 1 : line[x] = d[s + x - 1]
  BY <1>4, Cut
<1>6. line = LineAt(d, s)
  BY LineIs
<1>7. colons = {x \in 1 .. Len(line) : line[x] = Colon}
  BY <1>5, LenProperties DEF Positions
<1>8. k \in Nat /\ k \in 1 .. (e - 1) - s + 1 /\ s + k - 1 = c
  BY <1>1, <1>2, <1>3
<1> HIDE DEF line, colons, k
<1>9. k \in colons
  BY <1>2, <1>5, <1>7, <1>8
<1>10. ASSUME NEW x \in colons PROVE k <= x
  <2>1. SUFFICES ASSUME x < k PROVE FALSE
    BY <1>5, <1>7, <1>8
  <2>2. x \in 1 .. (e - 1) - s + 1 /\ line[x] = Colon /\ s + x - 1 \in s .. c - 1
    BY <1>1, <1>5, <1>7, <1>8, <2>1
  <2> QED
    BY <1>2, <1>5, <2>2
<1>11. Min(colons) = k
  <2>1. colons \in SUBSET Nat
    BY <1>7
  <2> QED
    BY <1>9, <1>10, <2>1, MinIs
<1> DEFINE j == e - 1
<1>12. j \in s - 1 .. Len(d) /\ j \in Nat
  BY <1>1, <1>2, <1>3
<1>13. SubSeq(line, 1, k - 1) = SubSeq(d, s, c - 1)
  <2> DEFINE l == k - 1
  <2>1. 1 \in 1 .. j - s + 2 /\ l \in 1 - 1 .. j - s + 1
    BY <1>1, <1>8
  <2>2. line = SubSeq(d, s, j)
    BY DEF line
  <2> HIDE DEF j, l
  <2>3. SubSeq(SubSeq(d, s, j), 1, l) = SubSeq(d, s + 1 - 1, s + l - 1)
    BY <1>12, <2>1, CutOfCut
  <2>4. s + 1 - 1 = s /\ s + l - 1 = c - 1
    BY <1>1, <1>8 DEF l
  <2> QED
    BY <2>2, <2>3, <2>4 DEF l
<1>14. SubSeq(line, k + 1, Len(line)) = SubSeq(d, c + 1, e - 1)
  <2> DEFINE l == Len(line)
             m == k + 1
  <2>1. m \in 1 .. j - s + 2 /\ l \in m - 1 .. j - s + 1 /\ l = j - s + 1
    BY <1>1, <1>5, <1>8
  <2>2. line = SubSeq(d, s, j)
    BY DEF line
  <2>3. s + m - 1 = c + 1 /\ s + l - 1 = e - 1
    BY <1>1, <1>5, <1>8
  <2> HIDE DEF j, l, m
  <2>4. SubSeq(SubSeq(d, s, j), m, l) = SubSeq(d, s + m - 1, s + l - 1)
    BY <1>12, <2>1, CutOfCut
  <2> QED
    BY <2>2, <2>3, <2>4 DEF l, m
<1>15. IsHostHeader(line)
  BY <1>2, <1>9, <1>11, <1>13 DEF IsHostHeader, HeaderName, colons
<1>16. HeaderValue(line) = TrimSpace(SubSeq(d, c + 1, e - 1))
  BY <1>11, <1>14 DEF HeaderValue, colons
<1> QED
  BY <1>3, <1>6, <1>15, <1>16

\* The beginning of a line is the same in bytes that agree so far.
LEMMA SameHostAt ==
  ASSUME NEW d \in Seq(Nat), NEW b \in Seq(Nat), NEW s \in Nat, 1 <= s, NEW c, HostAt(d, s, c),
         c <= Len(b), \A i \in 1 .. c : d[i] = b[i]
  PROVE  HostAt(b, s, c)
<1>1. Len(d) \in Nat /\ Len(b) \in Nat
  BY LenProperties
<1>2. /\ c \in Nat /\ s <= c /\ c <= Len(d) /\ d[c] = Colon
      /\ \A j \in s .. c - 1 : d[j] # Colon /\ ~(d[j] = CR /\ d[j + 1] = LF)
      /\ IsHost(TrimSpace(SubSeq(d, s, c - 1)))
  <2>1. c \in s .. Len(d)
    BY DEF HostAt
  <2>2. c \in Nat /\ s <= c /\ c <= Len(d)
    BY <1>1, <2>1
  <2> QED
    BY <2>2 DEF HostAt
<1>3. SubSeq(d, s, c - 1) = SubSeq(b, s, c - 1)
  <2> DEFINE j == c - 1
  <2>1. /\ j \in Nat /\ s <= j + 1 /\ j <= Len(d) /\ j <= Len(b)
        /\ \A k \in s .. j : d[k] = b[k]
    BY <1>1, <1>2
  <2> HIDE DEF j
  <2>2. SubSeq(d, s, j) = SubSeq(b, s, j)
    BY <2>1, SameCut
  <2> QED
    BY <2>2 DEF j
<1>4. b[c] = Colon /\ c \in s .. Len(b)
  BY <1>1, <1>2
<1>5. ASSUME NEW j \in s .. c - 1 PROVE b[j] # Colon /\ ~(b[j] = CR /\ b[j + 1] = LF)
  <2>1. j \in 1 .. c /\ j + 1 \in 1 .. c
    BY <1>2
  <2>2. d[j] = b[j] /\ d[j + 1] = b[j + 1]
    BY <2>1
  <2> QED
    BY <1>2, <2>2
<1> QED
  BY <1>2, <1>3, <1>4, <1>5 DEF HostAt

\* Where lines begin.
LEMMA LineStartsAre ==
  ASSUME NEW d \in Seq(Nat), NEW s \in LineStarts(d)
  PROVE  /\ s \in 1 .. Len(d) + 1
         /\ s = 1 \/ (s - 2 \in 1 .. Len(d) - 1 /\ d[s - 2] = CR /\ d[s - 1] = LF)
<1>1. Len(d) \in Nat
  BY LenProperties
<1>2. CASE s = 1
  BY <1>1, <1>2
<1>3. CASE s # 1
  <2>1. PICK i \in LineBreaks(d) : s = i + 2
    BY <1>3 DEF LineStarts
  <2>2. i \in 1 .. Len(d) - 1 /\ d[i] = CR /\ d[i + 1] = LF
    BY DEF LineBreaks
  <2>3. i = s - 2 /\ i + 1 = s - 1 /\ s \in 1 .. Len(d) + 1
    BY <1>1, <2>1, <2>2
  <2> QED
    BY <2>2, <2>3
<1> QED
  BY <1>2, <1>3

\* That is enough.
LEMMA IsLineStart ==
  ASSUME NEW d \in Seq(Nat), NEW s \in Nat,
         s = 1 \/ (s - 2 \in 1 .. Len(d) - 1 /\ d[s - 2] = CR /\ d[s - 1] = LF)
  PROVE  s \in LineStarts(d)
<1>1. CASE s = 1
  BY <1>1 DEF LineStarts
<1>2. CASE s - 2 \in 1 .. Len(d) - 1 /\ d[s - 2] = CR /\ d[s - 1] = LF
  <2>1. (s - 2) + 1 = s - 1 /\ (s - 2) + 2 = s
    OBVIOUS
  <2>2. s - 2 \in LineBreaks(d)
    BY <1>2, <2>1 DEF LineBreaks
  <2> QED
    BY <2>1, <2>2 DEF LineStarts
<1> QED
  BY <1>1, <1>2

\* The lines of bytes that spell no host.
LEMMA NoHostAt ==
  ASSUME NEW b \in Seq(Nat), SpellsNoHost(b), NEW s \in LineStarts(b), NEW c
  PROVE  ~HostAt(b, s, c)
<1>1. s \in 1 .. Len(b) + 1
  BY LineStartsAre
<1>2. ~IsHostHeader(LineAt(b, s))
  BY DEF SpellsNoHost
<1>3. PICK e : Ends(b, s, e)
  BY <1>1, LineEnds
<1> QED
  BY <1>1, <1>2, <1>3, IsHeader

\* What has been received of them spells none either.
LEMMA NoHostInPart ==
  ASSUME NEW b \in Seq(Nat), SpellsNoHost(b), NEW r \in 0 .. Len(b)
  PROVE  parseHTTPHost(SubSeq(b, 1, r)) = NotFound
<1> DEFINE d == SubSeq(b, 1, r)
<1>1. Len(b) \in Nat /\ r \in Nat /\ r <= Len(b)
  BY LenProperties
<1>2. d \in Seq(Nat) /\ Len(d) = r /\ \A i \in 1 .. r : d[i] = b[i]
  <2>1. 1 \in 1 .. Len(b) + 1 /\ r \in 1 - 1 .. Len(b) /\ r - 1 + 1 = r
    BY <1>1
  <2>2. /\ d \in Seq(Nat) /\ Len(d) = r - 1 + 1
        /\ \A i \in 1 .. r - 1 + 1 : d[i] = b[1 + i - 1]
    BY <2>1, Cut
  <2>3. \A i \in 1 .. r : 1 + i - 1 = i
    BY <1>1
  <2> HIDE DEF d
  <2> QED
    BY <2>1, <2>2, <2>3
<1> HIDE DEF d
<1>3. ASSUME NEW s \in LineStarts(d), IsHostHeader(LineAt(d, s)) PROVE FALSE
  <2>1. s \in 1 .. Len(d) + 1
    BY <1>2, LineStartsAre
  <2>2. PICK c : HostAt(d, s, c)
    BY <1>2, <1>3, <2>1, HostHeaderIs
  <2>3. s \in Nat /\ 1 <= s /\ c \in Nat /\ c <= r /\ s <= c
    BY <1>1, <1>2, <2>1, <2>2 DEF HostAt
  <2>4. c <= Len(b) /\ \A i \in 1 .. c : d[i] = b[i]
    BY <1>1, <1>2, <2>3
  <2>5. HostAt(b, s, c)
    BY <1>2, <2>2, <2>3, <2>4, SameHostAt
  <2>6. s \in LineStarts(b)
    <3>1. CASE s = 1
      BY <2>3, <3>1, IsLineStart
    <3>2. CASE s - 2 \in 1 .. Len(d) - 1 /\ d[s - 2] = CR /\ d[s - 1] = LF
      <4>1. s - 2 \in 1 .. r /\ s - 1 \in 1 .. r /\ s - 2 \in 1 .. Len(b) - 1
        BY <1>1, <1>2, <2>3, <3>2
      <4>2. b[s - 2] = CR /\ b[s - 1] = LF
        BY <1>2, <3>2, <4>1
      <4> QED
        BY <2>3, <4>1, <4>2, IsLineStart
    <3> QED
      BY <1>2, <3>1, <3>2, LineStartsAre
  <2> QED
    BY <2>5, <2>6, NoHostAt
<1>4. parseHTTPHost(d) = NotFound
  BY <1>3 DEF parseHTTPHost
<1> QED
  BY <1>4 DEF d

-----------------------------------------------------------------------------
\* Of a ClientHello peekHostname makes the name in it, nothing, or as much of the name as
\* has been received.
LEMMA HostOfHello ==
  ASSUME NEW m, ClientHello(m), SpellsNoHost(HelloBytes(m)), NEW r \in 1 .. Len(HelloBytes(m))
  PROVE  LET b == HelloBytes(m)
             data == SubSeq(b, 1, r)
             host == peekHostname(data)
         IN /\ r = Len(b) /\ Len(b) <= BufSize => host = m.name
            /\ \/ host \in {<<>>, m.name}
               \/ /\ Len(host) = Len(m.name)
                  /\ \E n \in 0 .. Min({Len(host), r}) :
                       /\ host = SubSeq(m.name, 1, n) \o [i \in 1 .. Len(host) - n |-> 0]
                       /\ SubSeq(host, 1, n) = SubSeq(data, r - n + 1, r)
<1> DEFINE b == HelloBytes(m)
           data == SubSeq(b, 1, r)
           host == peekHostname(data)
           sni == parseSNI(data)
           whole == r = Len(b) /\ Len(b) <= BufSize
           name == m.name
           Part(h) == /\ Len(h) = Len(name)
                      /\ \E n \in 0 .. Min({Len(h), r}) :
                           /\ h = SubSeq(name, 1, n) \o [i \in 1 .. Len(h) - n |-> 0]
                           /\ SubSeq(h, 1, n) = SubSeq(data, r - n + 1, r)
<1>1. b \in Seq(Nat)
  BY HelloLayout
<1>2. name \in Seq(Nat) /\ m.sni \in BOOLEAN /\ (~m.sni => name = <<>>)
  BY HelloTypes
<1>3. r \in Nat /\ 1 <= r /\ Len(b) \in Nat /\ r <= Len(b) /\ r \in 0 .. Len(b)
  BY <1>1, LenProperties
<1>4. parseHTTPHost(data) = NotFound
  BY <1>1, <1>3, NoHostInPart
<1>5. \/ sni = NotFound /\ (~m.sni \/ ~whole)
      \/ sni = Found(<<>>) /\ ~whole
      \/ \E p \in 0 .. r : sni = Found(Bytes(data, p, p + Len(name))) /\ Holds(b, p, name)
  BY SniffsHello
<1>6. Len(data) = r
  BY <1>1, <1>3, ReceivedBytes
<1>7. data # <<>>
  BY <1>3, <1>6, EmptySeq
<1>8. host = IF sni.ok THEN sni.name ELSE <<>>
  BY <1>4, <1>7 DEF peekHostname, NotFound
<1> HIDE DEF host, sni, whole, name, b
<1>9. CASE sni = NotFound /\ (~m.sni \/ ~whole)
  <2>1. host = <<>>
    BY <1>8, <1>9 DEF NotFound
  <2>2. whole => host = name
    BY <1>2, <1>9, <2>1
  <2> QED
    BY <2>1, <2>2 DEF host, whole, name, b
<1>10. CASE sni = Found(<<>>) /\ ~whole
  <2>1. host = <<>>
    BY <1>8, <1>10 DEF Found
  <2> QED
    BY <1>10, <2>1 DEF host, whole, name, b
<1>11. ASSUME NEW p \in 0 .. r, sni = Found(Bytes(data, p, p + Len(name))), Holds(b, p, name)
       PROVE  (whole => host = name) /\ (host = name \/ Part(host))
  <2>1. host = Bytes(data, p, p + Len(name))
    BY <1>8, <1>11 DEF Found
  <2>2. host = name \/ (r # Len(b) /\ AsReceived(host, name, data, r))
    BY <1>1, <1>2, <1>3, <1>11, <2>1, NameReceived
  <2>3. CASE host = name
    BY <2>3
  <2>4. CASE host # name
    <3>1. PICK n \in 0 .. r : /\ n <= Len(host)
                /\ host = SubSeq(name, 1, n) \o [i \in 1 .. Len(host) - n |-> 0]
                /\ SubSeq(host, 1, n) = SubSeq(data, r - n + 1, r)
      BY <2>2, <2>4 DEF AsReceived
    <3>2. Len(host) = Len(name) /\ Len(host) \in Nat /\ ~whole
      BY <1>2, <2>2, <2>4, LenProperties DEF whole, AsReceived
    <3>3. Min({Len(host), r}) \in {Len(host), r}
      BY <1>3, <3>2, LesserOfTwo
    <3>4. n \in 0 .. Min({Len(host), r})
      BY <1>3, <3>1, <3>2, <3>3
    <3>5. Part(host)
      <4> HIDE DEF data
      <4> QED
        BY <3>1, <3>2, <3>4
    <3> QED
      BY <3>2, <3>5
  <2> QED
    BY <2>3, <2>4
<1>12. CASE \E p \in 0 .. r : sni = Found(Bytes(data, p, p + Len(name))) /\ Holds(b, p, name)
  <2>1. (whole => host = name) /\ (host = name \/ Part(host))
    BY <1>11, <1>12
  <2> QED
    BY <2>1 DEF host, whole, name, b
<1> QED
  BY <1>5, <1>9, <1>10, <1>12, Zenon

\* What strings.TrimSpace leaves is from the first byte that is no space to the last.
LEMMA Trimmed ==
  ASSUME NEW s \in Seq(Nat), NEW i \in 1 .. Len(s) + 1, NEW j \in i - 1 .. Len(s),
         \A k \in 1 .. Len(s) : s[k] \notin Space <=> (i <= k /\ k <= j)
  PROVE  TrimSpace(s) = SubSeq(s, i, j)
<1> DEFINE ink == {k \in DOMAIN s : s[k] \notin Space}
<1>1. Len(s) \in Nat /\ DOMAIN s = 1 .. Len(s)
  BY LenProperties
<1>2. ink = i .. j /\ i \in Nat /\ j \in Int
  BY <1>1
<1>3. TrimSpace(s) = IF ink = {} THEN <<>> ELSE SubSeq(s, Min(ink), Max(ink))
  BY DEF TrimSpace
<1> HIDE DEF ink
<1>4. CASE j < i
  <2>1. ink = {}
    BY <1>2, <1>4
  <2>2. SubSeq(s, i, j) = <<>>
    BY <1>2, <1>4, SubSeqEmpty
  <2> QED
    BY <1>3, <2>1, <2>2
<1>5. CASE i <= j
  <2>1. i \in ink /\ j \in ink /\ ink \in SUBSET Nat /\ \A y \in ink : i <= y /\ y <= j
    BY <1>2, <1>5
  <2>2. Min(ink) = i /\ Max(ink) = j
    BY <2>1, MinIs, MaxIs
  <2> QED
    BY <1>3, <2>1, <2>2
<1> QED
  BY <1>2, <1>4, <1>5

-----------------------------------------------------------------------------
(* StripPort.                                                              *)

\* A set of one number.
LEMMA OneElement == ASSUME NEW x \in Nat PROVE Cardinality({x}) = 1 /\ Min({x}) = x
<1>1. Cardinality({x}) = 1
  BY FS_Singleton
<1> DEFINE S == {x}
<1>2. x \in S /\ S \in SUBSET Nat /\ \A y \in S : x <= y
  OBVIOUS
<1> HIDE DEF S
<1>3. Min(S) = x
  BY <1>2, MinIs
<1> QED
  BY <1>1, <1>3 DEF S

\* The greatest of some numbers from 1 to k is one of them.
LEMMA Greatest ==
  ASSUME NEW k \in Nat, NEW S \in SUBSET (1 .. k), S # {}
  PROVE  Max(S) \in S
<1> DEFINE T == {k - y : y \in S}
<1>1. \A y \in S : y \in Nat /\ y <= k /\ k - y \in Nat
  OBVIOUS
<1>2. T \in SUBSET Nat /\ T # {}
  BY <1>1
<1>3. PICK t \in T : \A u \in T : t <= u
  <2> HIDE DEF T
  <2> QED
    BY <1>2, Least
<1>4. PICK x \in S : t = k - x
  OBVIOUS
<1>5. ASSUME NEW y \in S PROVE y <= x
  <2>1. k - y \in T
    OBVIOUS
  <2>2. k - x <= k - y
    BY <1>3, <1>4, <2>1
  <2> QED
    BY <1>1, <2>2
<1>6. S \in SUBSET Nat
  BY <1>1
<1>7. Max(S) = x
  BY <1>5, <1>6, MaxIs
<1> QED
  BY <1>7

\* What is left of the beginning of a Host header's value is that, or the host.
LEMMA HostLeft ==
  ASSUME NEW value \in Seq(Nat), NEW name, HostValue(value, name), NEW k \in 0 .. Len(value)
  PROVE  LET part == SubSeq(value, 1, k)
         IN /\ StripPort(part) \in {part, name}
            /\ k = Len(value) => StripPort(part) = name
<1> DEFINE part == SubSeq(value, 1, k)
           colons == Positions(part, Colon)
           opens  == Positions(part, OpenBracket)
           closes == Positions(part, CloseBracket)
           size == Len(value)
<1>1. size \in Nat /\ k \in Nat /\ k <= size /\ DOMAIN value = 1 .. size
  BY LenProperties
<1>2. part \in Seq(Nat) /\ Len(part) = k /\ \A i \in 1 .. k : part[i] = value[i]
  <2>1. 1 \in 1 .. Len(value) + 1 /\ k \in 1 - 1 .. Len(value) /\ k - 1 + 1 = k
    BY <1>1
  <2>2. /\ part \in Seq(Nat) /\ Len(part) = k - 1 + 1
        /\ \A i \in 1 .. k - 1 + 1 : part[i] = value[1 + i - 1]
    BY <2>1, Cut
  <2>3. \A i \in 1 .. k : 1 + i - 1 = i
    BY <1>1
  <2> HIDE DEF part
  <2> QED
    BY <2>1, <2>2, <2>3
<1>3. k = size => part = value
  BY SubSeqFull
<1> HIDE DEF part, size
<1>4. DOMAIN part = 1 .. k
  BY <1>2, LenProperties
<1>5. /\ colons = {i \in 1 .. k : value[i] = 58}
      /\ opens = {i \in 1 .. k : value[i] = 91}
      /\ closes = {i \in 1 .. k : value[i] = 93}
  BY <1>2, <1>4 DEF Positions, Colon, OpenBracket, CloseBracket
<1>6. StripPort(part) =
        IF colons = {} THEN part
        ELSE IF part[1] = 91
        THEN IF /\ closes # {} /\ Min(closes) + 1 = Max(colons)
                /\ opens = {1} /\ Cardinality(closes) = 1
             THEN SubSeq(part, 2, Min(closes) - 1)
             ELSE part
        ELSE IF Cardinality(colons) = 1 /\ opens = {} /\ closes = {}
             THEN SubSeq(part, 1, Min(colons) - 1)
             ELSE part
  BY DEF StripPort, OpenBracket
<1> HIDE DEF colons, opens, closes
<1> DEFINE Left == StripPort(part) \in {part, name} /\ (k = size => StripPort(part) = name)
\* A name.
<1>7. ASSUME value = name, Without(value, 1, size, {58}) PROVE Left
  <2>1. colons = {}
    BY <1>1, <1>5, <1>7 DEF Without
  <2> QED
    BY <1>3, <1>6, <1>7, <2>1
\* A name and a port.
<1>8. ASSUME NEW n \in 1 .. size, value[n] = 58, name = SubSeq(value, 1, n - 1),
             Without(value, 1, n - 1, Punctuation), Without(value, n + 1, size, Punctuation)
      PROVE  Left
  <2>1. \A i \in 1 .. size : i # n => value[i] \notin {58, 91, 93}
    <3>1. \A i \in 1 .. size : i # n => i \in 1 .. n - 1 \/ i \in n + 1 .. size
      BY <1>1
    <3> QED
      BY <1>8, <3>1 DEF Without, Punctuation
  <2>2. CASE k < n
    <3>1. colons = {}
      BY <1>1, <1>5, <2>1, <2>2
    <3> QED
      BY <1>1, <1>6, <2>2, <3>1
  <2>3. CASE n <= k
    <3>1. colons = {n} /\ opens = {} /\ closes = {}
      BY <1>1, <1>5, <1>8, <2>1, <2>3
    <3>2. part[1] # 91
      <4>1. 1 \in 1 .. k
        BY <1>1, <2>3
      <4> QED
        BY <1>2, <1>5, <3>1, <4>1
    <3>3. Min(colons) = n /\ Cardinality(colons) = 1
      BY <1>1, <3>1, OneElement
    <3>4. StripPort(part) = SubSeq(part, 1, n - 1)
      BY <1>6, <3>1, <3>2, <3>3
    <3>5. SubSeq(part, 1, n - 1) = name
      <4> DEFINE j == n - 1
      <4>1. /\ j \in Nat /\ 1 <= j + 1 /\ j <= Len(part) /\ j <= Len(value)
            /\ \A i \in 1 .. j : part[i] = value[i]
        BY <1>1, <1>2, <2>3 DEF size
      <4> HIDE DEF j
      <4>2. SubSeq(part, 1, j) = SubSeq(value, 1, j)
        BY <1>2, <4>1, SameCut
      <4> QED
        BY <1>8, <4>2 DEF j
    <3> QED
      BY <3>4, <3>5
  <2> QED
    BY <1>1, <2>2, <2>3
\* An address in brackets and a port.
<1>9. ASSUME NEW n \in 1 .. size, n + 1 \in 1 .. size, value[1] = 91, value[n] = 93,
             value[n + 1] = 58, name = SubSeq(value, 2, n - 1),
             Without(value, 2, n - 1, {91, 93}), Without(value, n + 2, size, Punctuation)
      PROVE  Left
  <2>1. \A i \in 1 .. size : /\ value[i] = 91 => i = 1
                             /\ value[i] = 93 => i = n
                             /\ value[i] = 58 => i <= n + 1
    <3>1. \A i \in 1 .. size :
            i = 1 \/ i \in 2 .. n - 1 \/ i = n \/ i = n + 1 \/ i \in n + 2 .. size
      BY <1>1
    <3>2. \A i \in 2 .. n - 1 : value[i] # 91 /\ value[i] # 93 /\ i <= n + 1
      BY <1>9 DEF Without
    <3>3. \A i \in n + 2 .. size : value[i] # 91 /\ value[i] # 93 /\ value[i] # 58
      BY <1>9 DEF Without, Punctuation
    <3>4. n \in Nat /\ value[1] = 91 /\ value[n] = 93 /\ value[n + 1] = 58 /\ n <= n + 1
          /\ 1 <= n + 1 /\ n + 1 <= n + 1
      BY <1>9
    <3> SUFFICES ASSUME NEW i \in 1 .. size
                 PROVE  /\ value[i] = 91 => i = 1
                        /\ value[i] = 93 => i = n
                        /\ value[i] = 58 => i <= n + 1
      OBVIOUS
    <3>5. CASE i = 1
      BY <3>4, <3>5
    <3>6. CASE i \in 2 .. n - 1
      BY <3>2, <3>6
    <3>7. CASE i = n
      BY <3>4, <3>7
    <3>8. CASE i = n + 1
      BY <3>4, <3>8
    <3>9. CASE i \in n + 2 .. size
      BY <3>3, <3>9
    <3> QED
      BY <3>1, <3>5, <3>6, <3>7, <3>8, <3>9
  <2>2. n # 1 /\ 2 <= n
    BY <1>9
  <2>3. CASE k < n + 1
    <3>1. closes = {} \/ Min(closes) + 1 # Max(colons) \/ colons = {}
      <4>1. SUFFICES ASSUME closes # {}, colons # {} PROVE Min(closes) + 1 # Max(colons)
        OBVIOUS
      <4>2. closes = {n}
        BY <1>1, <1>5, <2>1, <4>1
      <4>3. Min(closes) = n
        <5>1. n \in Nat
          BY <1>1
        <5>2. Min({n}) = n
          BY <5>1, OneElement
        <5> QED
          BY <4>2, <5>2
      <4>4. colons \subseteq 1 .. k
        BY <1>5
      <4>5. ASSUME n + 1 \in colons PROVE FALSE
        BY <1>1, <2>3, <4>4, <4>5
      <4>6. SUFFICES ASSUME Max(colons) = n + 1 PROVE FALSE
        BY <4>3
      <4>7. Max(colons) \in colons
        BY <1>1, <4>1, <4>4, Greatest
      <4> QED
        BY <4>5, <4>6, <4>7
    <3>2. colons # {} => part[1] = 91
      BY <1>1, <1>2, <1>5, <1>9
    <3>3. k # size
      BY <1>9, <1>1, <2>3
    <3> QED
      BY <1>6, <3>1, <3>2, <3>3
  <2>4. CASE n + 1 <= k
    <3>1. closes = {n} /\ opens = {1} /\ n + 1 \in colons /\ colons # {}
      <4>1. n \in 1 .. k /\ 1 \in 1 .. k /\ n + 1 \in 1 .. k
        BY <1>1, <2>4
      <4>2. n \in closes /\ 1 \in opens /\ n + 1 \in colons
        BY <1>5, <1>9, <4>1
      <4>3. \A i \in 1 .. k : i \in 1 .. size
        BY <1>1
      <4>4. (\A i \in closes : i = n) /\ (\A i \in opens : i = 1)
        BY <1>5, <2>1, <4>3
      <4> QED
        BY <4>2, <4>4
    <3>2. \A y \in colons : y <= n + 1
      BY <1>1, <1>5, <2>1
    <3>3. Min(closes) = n /\ Cardinality(closes) = 1 /\ Max(colons) = n + 1
      <4>1. colons \in SUBSET Nat
        BY <1>5
      <4>2. Min(closes) = n /\ Cardinality(closes) = 1
        BY <1>1, <3>1, OneElement
      <4>3. Max(colons) = n + 1
        BY <3>1, <3>2, <4>1, MaxIs
      <4> QED
        BY <4>2, <4>3
    <3>4. part[1] = 91
      BY <1>1, <1>2, <1>9, <2>4
    <3>5. StripPort(part) = SubSeq(part, 2, n - 1)
      BY <1>6, <3>1, <3>3, <3>4
    <3>6. SubSeq(part, 2, n - 1) = name
      <4> DEFINE j == n - 1
      <4>1. /\ j \in Nat /\ 2 <= j + 1 /\ j <= Len(part) /\ j <= Len(value)
            /\ \A i \in 2 .. j : part[i] = value[i]
        BY <1>1, <1>2, <2>2, <2>4 DEF size
      <4> HIDE DEF j
      <4>2. SubSeq(part, 2, j) = SubSeq(value, 2, j)
        BY <1>2, <4>1, SameCut
      <4> QED
        BY <1>9, <4>2 DEF j
    <3> QED
      BY <3>5, <3>6
  <2> QED
    BY <1>1, <2>3, <2>4
\* An address in brackets.
<1>10. ASSUME value = name, value # <<>>, value[1] = 91, value[size] = 93,
              Without(value, 2, size - 1, {91, 93})
       PROVE  Left
  <2>1. 1 <= size
    BY <1>10, EmptySeq DEF size
  <2>2. \A i \in closes : i = size /\ i = k
    <3>1. \A i \in 1 .. size : i = 1 \/ i \in 2 .. size - 1 \/ i = size
      BY <1>1
    <3>2. \A i \in 1 .. size : value[i] = 93 => i = size
      BY <1>10, <3>1 DEF Without
    <3> QED
      BY <1>1, <1>5, <3>2
  <2>3. CASE colons = {}
    BY <1>3, <1>6, <1>10, <2>3
  <2>4. CASE colons # {} /\ closes = {}
    <3>1. part[1] = 91
      BY <1>1, <1>2, <1>5, <1>10, <2>4
    <3> QED
      BY <1>3, <1>6, <1>10, <2>4, <3>1
  <2>5. CASE colons # {} /\ closes # {}
    <3>1. closes = {size} /\ k = size
      BY <2>2, <2>5
    <3>2. Min(closes) = size
      BY <1>1, <3>1, OneElement
    <3>3. part[1] = 91
      BY <1>1, <1>2, <1>10, <2>1, <3>1
    <3>4. StripPort(part) = part \/ StripPort(part) = SubSeq(part, 2, size - 1)
      BY <1>6, <2>5, <3>2, <3>3
    <3>5. size + 1 \notin colons /\ \A y \in colons : y <= size
      BY <1>1, <1>5
    <3>6. Max(colons) # size + 1
      <4>1. colons \in SUBSET (1 .. k)
        BY <1>5
      <4> QED
        BY <1>1, <2>5, <3>5, <4>1, Greatest
    <3>7. StripPort(part) = part
      BY <1>6, <2>5, <3>2, <3>3, <3>6
    <3> QED
      BY <1>3, <1>10, <3>7
  <2> QED
    BY <2>3, <2>4, <2>5
<1>11. Left
  <2> DEFINE Whole == value = name /\ Without(value, 1, size, {58})
             Port(n) == /\ value[n] = 58 /\ name = SubSeq(value, 1, n - 1)
                        /\ Without(value, 1, n - 1, Punctuation)
                        /\ Without(value, n + 1, size, Punctuation)
             Address(n) == /\ n + 1 \in DOMAIN value
                           /\ value[1] = 91 /\ value[n] = 93 /\ value[n + 1] = 58
                           /\ name = SubSeq(value, 2, n - 1)
                           /\ Without(value, 2, n - 1, {91, 93})
                           /\ Without(value, n + 2, size, Punctuation)
             Bare == /\ value = name /\ value # <<>> /\ value[1] = 91 /\ value[size] = 93
                     /\ Without(value, 2, size - 1, {91, 93})
  <2>1. Whole \/ (\E n \in DOMAIN value : Port(n)) \/ (\E n \in DOMAIN value : Address(n)) \/ Bare
    BY DEF HostValue, size
  <2>2. ASSUME NEW n \in DOMAIN value, Port(n) PROVE Left
    BY <1>1, <1>8, <2>2
  <2>3. ASSUME NEW n \in DOMAIN value, Address(n) PROVE Left
    BY <1>1, <1>9, <2>3
  <2>4. Whole => Left
    BY <1>7
  <2>5. Bare => Left
    BY <1>10
  <2> HIDE DEF Left, Whole, Port, Address, Bare
  <2> QED
    BY <2>1, <2>2, <2>3, <2>4, <2>5
<1> QED
  BY <1>11 DEF part, size

(***************************************************************************)
(* Requests.                                                               *)
(***************************************************************************)

\* The types of the parts of a request with a Host header.
LEMMA RequestTypes ==
  ASSUME NEW m, Request(m), m.hosted
  PROVE  /\ m.head \in Seq(Nat) /\ Len(m.head) > 1
         /\ m.head[Len(m.head) - 1] = 13 /\ m.head[Len(m.head)] = 10
         /\ m.label \in Seq(Nat) /\ Len(m.label) = 4 /\ IsHost(m.label)
         /\ \A i \in 1 .. 4 : m.label[i] > 58
         /\ m.gap \in Seq(Nat) /\ \A i \in 1 .. Len(m.gap) : m.gap[i] \in {9, 32}
         /\ m.pad \in Seq(Nat) /\ \A i \in 1 .. Len(m.pad) : m.pad[i] \in {9, 32}
         /\ m.value \in Seq(Nat) /\ \A i \in 1 .. Len(m.value) : m.value[i] > 32
         /\ HostValue(m.value, m.name)
         /\ m.tail \in Seq(Nat)
<1>1. /\ m.head \in Seq(Byte) /\ Len(m.head) > 1
      /\ m.head[Len(m.head) - 1] = 13 /\ m.head[Len(m.head)] = 10
      /\ m.gap \in Seq({9, 32}) /\ m.pad \in Seq({9, 32}) /\ m.value \in Seq(33 .. 126)
      /\ HostValue(m.value, m.name) /\ m.tail \in Seq(Byte) /\ m.label \in HostLabels
  BY DEF Request
<1>2. m.head \in Seq(Nat) /\ m.tail \in Seq(Nat)
  BY <1>1, BytesAreNumbers
<1>3. \A s \in Seq({9, 32}) : s \in Seq(Nat) /\ \A i \in 1 .. Len(s) : s[i] \in {9, 32}
  <2>1. {9, 32} \subseteq Nat
    OBVIOUS
  <2> QED
    BY <2>1, SeqMonotonic, ElementOfSeq
<1>4. \A s \in Seq(33 .. 126) : s \in Seq(Nat) /\ \A i \in 1 .. Len(s) : s[i] > 32
  <2>1. 33 .. 126 \subseteq Nat
    OBVIOUS
  <2>2. \A s \in Seq(33 .. 126) : s \in Seq(Nat)
    BY <2>1, SeqMonotonic
  <2>3. \A s \in Seq(33 .. 126) : \A i \in 1 .. Len(s) : s[i] \in 33 .. 126
    BY ElementOfSeq
  <2>4. \A s \in Seq(33 .. 126) : \A i \in 1 .. Len(s) : s[i] > 32
    <3>1. \A x \in 33 .. 126 : x > 32
      OBVIOUS
    <3> QED
      BY <2>3, <3>1, Zenon
  <2> QED
    BY <2>2, <2>4, Zenon
<1>5. /\ m.label \in Seq(Nat) /\ Len(m.label) = 4 /\ IsHost(m.label)
      /\ \A i \in 1 .. 4 : m.label[i] > 58
  <2> DEFINE l == m.label
             x == l[1]
             y == l[2]
             z == l[3]
             w == l[4]
             t == <<x, y, z, w>>
  <2>1. l = t /\ x \in {72, 104} /\ y \in {79, 111} /\ z \in {83, 115} /\ w \in {84, 116}
    <3>1. l \in {72, 104} \X {79, 111} \X {83, 115} \X {84, 116}
      BY <1>1 DEF HostLabels
    <3> HIDE DEF l
    <3> QED
      BY <3>1
  <2> HIDE DEF x, y, z, w, l
  <2>2. t \in Seq(Nat) /\ Len(t) = 4 /\ t[1] = x /\ t[2] = y /\ t[3] = z /\ t[4] = w
    BY <2>1
  <2> HIDE DEF t
  <2>3. IsHost(t)
    BY <2>1, <2>2 DEF IsHost
  <2>4. \A i \in 1 .. 4 : t[i] > 58
    <3>1. \A i \in 1 .. 4 : i = 1 \/ i = 2 \/ i = 3 \/ i = 4
      OBVIOUS
    <3>2. x > 58 /\ y > 58 /\ z > 58 /\ w > 58
      BY <2>1
    <3> QED
      BY <2>2, <3>1, <3>2
  <2> QED
    BY <2>1, <2>2, <2>3, <2>4 DEF l
<1> QED
  BY <1>1, <1>2, <1>3, <1>4, <1>5

\* What is held, position by position.
LEMMA HeldAt ==
  ASSUME NEW b, NEW at \in Nat, NEW s, Len(s) \in Nat, Holds(b, at, s)
  PROVE  \A i \in 1 .. Len(s) : b[at + i] = s[i]
<1>1. \A i \in 0 .. Len(s) - 1 : b[at + i + 1] = s[i + 1]
  BY DEF Holds
<1>2. ASSUME NEW i \in 1 .. Len(s) PROVE b[at + i] = s[i]
  <2>1. i - 1 \in 0 .. Len(s) - 1 /\ at + (i - 1) + 1 = at + i /\ (i - 1) + 1 = i
    OBVIOUS
  <2>2. b[at + (i - 1) + 1] = s[(i - 1) + 1]
    BY <1>1, <2>1
  <2> QED
    BY <2>1, <2>2
<1> QED
  BY <1>2

\* Where they are: the label of the Host header behind the head, its colon at c, and the
\* value from from + 1 on.
LEMMA RequestLayout ==
  ASSUME NEW m, Request(m), m.hosted
  PROVE  LET b == RequestBytes(m)
             h == Len(m.head)
             c == h + 5 + Len(m.gap)
             from == c + Len(m.pad)
             to == from + Len(m.value)
         IN /\ b \in Seq(Nat) /\ to + 2 <= Len(b)
            /\ \A i \in 1 .. h : b[i] = m.head[i]
            /\ \A i \in 1 .. 4 : b[h + i] = m.label[i]
            /\ \A i \in 1 .. Len(m.gap) : b[h + 4 + i] = m.gap[i]
            /\ b[c] = Colon
            /\ \A i \in 1 .. Len(m.pad) : b[c + i] = m.pad[i]
            /\ \A i \in 1 .. Len(m.value) : b[from + i] = m.value[i]
            /\ b[to + 1] = CR /\ b[to + 2] = LF
<1> DEFINE b == RequestBytes(m)
           head == m.head
           label == m.label
           gap == m.gap
           colon == <<58>>
           pad == m.pad
           value == m.value
           tail == m.tail
           end == CrLf
           t6 == end \o tail
           t5 == value \o t6
           t4 == pad \o t5
           t3 == colon \o t4
           t2 == gap \o t3
           t1 == label \o t2
           h == Len(head)
           g == Len(gap)
           p == Len(pad)
           v == Len(value)
           c == h + 5 + g
           from == c + p
           to == from + v
<1>1. head \in Seq(Nat) /\ h \in Nat
  BY RequestTypes, LenProperties
<1>2. label \in Seq(Nat) /\ Len(label) = 4
  BY RequestTypes
<1>3. gap \in Seq(Nat) /\ g \in Nat
  BY RequestTypes, LenProperties
<1>4. pad \in Seq(Nat) /\ p \in Nat
  BY RequestTypes, LenProperties
<1>5. value \in Seq(Nat) /\ v \in Nat
  BY RequestTypes, LenProperties
<1>6. tail \in Seq(Nat)
  BY RequestTypes
<1>7. colon \in Seq(Nat) /\ Len(colon) = 1 /\ colon[1] = Colon
  BY DEF Colon
<1>8. end \in Seq(Nat) /\ Len(end) = 2 /\ end[1] = CR /\ end[2] = LF
  BY DEF CrLf, CR, LF
<1>9. b = head \o t1
  BY DEF RequestBytes
<1> HIDE DEF head, label, gap, colon, pad, value, tail, end, b, h, g, p, v
<1>10. t6 \in Seq(Nat)
  BY <1>6, <1>8, Behind
<1>11. t6 = end \o tail
  OBVIOUS
<1> HIDE DEF t6
<1>12. t5 \in Seq(Nat)
  BY <1>5, <1>10, Behind
<1>13. t5 = value \o t6
  OBVIOUS
<1> HIDE DEF t5
<1>14. t4 \in Seq(Nat)
  BY <1>4, <1>12, Behind
<1>15. t4 = pad \o t5
  OBVIOUS
<1> HIDE DEF t4
<1>16. t3 \in Seq(Nat)
  BY <1>7, <1>14, Behind
<1>17. t3 = colon \o t4
  OBVIOUS
<1> HIDE DEF t3
<1>18. t2 \in Seq(Nat)
  BY <1>3, <1>16, Behind
<1>19. t2 = gap \o t3
  OBVIOUS
<1> HIDE DEF t2
<1>20. t1 \in Seq(Nat)
  BY <1>2, <1>18, Behind
<1>21. t1 = label \o t2
  OBVIOUS
<1> HIDE DEF t1
<1>22. b \in Seq(Nat)
  BY <1>1, <1>9, <1>20, Behind
<1>23. Holds(b, 0, head) /\ Holds(b, h, t1)
  <2>1. Holds(b, 0, head \o t1)
    BY <1>9, <1>22, HoldsItself
  <2>2. 0 \in Nat /\ 0 + Len(head) = h
    BY <1>1 DEF h
  <2>3. Holds(b, 0, head) /\ Holds(b, 0 + Len(head), t1)
    BY <1>1, <1>20, <1>22, <2>1, <2>2, HoldsParts
  <2> QED
    BY <2>2, <2>3
<1>24. Holds(b, h, label) /\ Holds(b, h + 4, t2)
  <2>1. Holds(b, h, label) /\ Holds(b, h + Len(label), t2)
    BY <1>1, <1>2, <1>18, <1>21, <1>22, <1>23, HoldsParts
  <2> QED
    BY <1>2, <2>1
<1> DEFINE at3 == h + 4 + g
<1>25. Holds(b, h + 4, gap) /\ Holds(b, at3, t3)
  <2>1. h + 4 \in Nat
    BY <1>1
  <2> QED
    BY <1>3, <1>16, <1>19, <1>22, <1>24, <2>1, HoldsParts DEF g
<1>26. at3 \in Nat /\ at3 + 1 = c /\ c \in Nat /\ from \in Nat /\ to \in Nat
  BY <1>1, <1>3, <1>4, <1>5
<1> HIDE DEF at3, c, from, to
<1>27. Holds(b, at3, colon) /\ Holds(b, c, t4)
  <2>1. Holds(b, at3, colon) /\ Holds(b, at3 + Len(colon), t4)
    BY <1>7, <1>14, <1>17, <1>22, <1>25, <1>26, HoldsParts
  <2> QED
    BY <1>7, <1>26, <2>1
<1>28. Holds(b, c, pad) /\ Holds(b, from, t5)
  BY <1>4, <1>12, <1>15, <1>22, <1>26, <1>27, HoldsParts DEF p, from
<1>29. Holds(b, from, value) /\ Holds(b, to, t6)
  BY <1>5, <1>10, <1>13, <1>22, <1>26, <1>28, HoldsParts DEF v, to
<1>30. Holds(b, to, end)
  BY <1>6, <1>8, <1>11, <1>22, <1>26, <1>29, HoldsParts
<1>31. \A i \in 1 .. h : b[i] = head[i]
  <2>1. \A i \in 1 .. Len(head) : b[0 + i] = head[i]
    <3>1. 0 \in Nat /\ Len(head) \in Nat
      BY <1>1 DEF h
    <3> QED
      BY <1>23, <3>1, HeldAt
  <2>2. \A i \in 1 .. h : 0 + i = i
    OBVIOUS
  <2> QED
    BY <2>1, <2>2 DEF h
<1>32. \A i \in 1 .. 4 : b[h + i] = label[i]
  <2>1. \A i \in 1 .. Len(label) : b[h + i] = label[i]
    <3>1. Len(label) \in Nat
      BY <1>2
    <3> QED
      BY <1>1, <1>24, <3>1, HeldAt
  <2> QED
    BY <1>2, <2>1
<1>33. \A i \in 1 .. g : b[h + 4 + i] = gap[i]
  <2>1. h + 4 \in Nat /\ Len(gap) \in Nat
    BY <1>1, <1>3 DEF g
  <2> QED
    BY <1>25, <2>1, HeldAt DEF g
<1>34. b[c] = Colon
  <2>1. \A i \in 1 .. Len(colon) : b[at3 + i] = colon[i]
    BY <1>7, <1>26, <1>27, HeldAt
  <2>2. 1 \in 1 .. Len(colon)
    BY <1>7
  <2> QED
    BY <1>7, <1>26, <2>1, <2>2
<1>35. \A i \in 1 .. p : b[c + i] = pad[i]
  <2>1. Len(pad) \in Nat
    BY <1>4 DEF p
  <2>2. \A i \in 1 .. Len(pad) : b[c + i] = pad[i]
    BY <1>26, <1>28, <2>1, HeldAt
  <2> QED
    BY <2>2 DEF p
<1>36. \A i \in 1 .. v : b[from + i] = value[i]
  <2>1. Len(value) \in Nat
    BY <1>5 DEF v
  <2>2. \A i \in 1 .. Len(value) : b[from + i] = value[i]
    BY <1>26, <1>29, <2>1, HeldAt
  <2> QED
    BY <2>2 DEF v
<1>37. b[to + 1] = CR /\ b[to + 2] = LF /\ to + 2 <= Len(b)
  <2>1. \A i \in 1 .. Len(end) : b[to + i] = end[i]
    <3>1. Len(end) \in Nat
      BY <1>8
    <3> QED
      BY <1>26, <1>30, <3>1, HeldAt
  <2>2. to + Len(end) <= Len(b)
    BY <1>30 DEF Holds
  <2> QED
    BY <1>8, <2>1, <2>2
<1> QED
  BY <1>22, <1>31, <1>32, <1>33, <1>34, <1>35, <1>36, <1>37
     DEF b, h, g, p, v, c, from, to, head, label, gap, pad, value

\* What has been received of b is its beginning.
LEMMA Beginning ==
  ASSUME NEW b \in Seq(Nat), NEW r \in 0 .. Len(b), NEW d, d = SubSeq(b, 1, r)
  PROVE  d \in Seq(Nat) /\ Len(d) = r /\ \A i \in 1 .. r : d[i] = b[i]
<1>1. Len(b) \in Nat /\ 1 \in 1 .. Len(b) + 1 /\ r \in 1 - 1 .. Len(b) /\ r - 1 + 1 = r
  BY LenProperties
<1>2. /\ SubSeq(b, 1, r) \in Seq(Nat) /\ Len(SubSeq(b, 1, r)) = r - 1 + 1
      /\ \A i \in 1 .. r - 1 + 1 : SubSeq(b, 1, r)[i] = b[1 + i - 1]
  BY <1>1, Cut
<1>3. \A i \in 1 .. r : 1 + i - 1 = i
  BY <1>1
<1> QED
  BY <1>1, <1>2, <1>3

\* The head of a request, at the end of which a line ends, spells no Host header, and the
\* line behind it begins one.
LEMMA NoneInHead ==
  ASSUME NEW head \in Seq(Nat), Len(head) > 1, head[Len(head) - 1] = 13, head[Len(head)] = 10,
         SpellsNoHost(head), NEW d \in Seq(Nat),
         \A i \in 1 .. Len(head) : i <= Len(d) => d[i] = head[i],
         NEW s \in LineStarts(d), s <= Len(head), IsHostHeader(LineAt(d, s))
  PROVE  FALSE
<1> DEFINE h == Len(head)
           r == Len(d)
<1>1. h \in Nat /\ r \in Nat /\ h > 1
  BY LenProperties
<1>2. \A i \in 1 .. h : i <= r => d[i] = head[i]
  OBVIOUS
<1>3. s \in 1 .. r + 1
  BY LineStartsAre
<1>4. s = 1 \/ (s - 2 \in 1 .. r - 1 /\ d[s - 2] = CR /\ d[s - 1] = LF)
  BY LineStartsAre
<1>5. PICK c : HostAt(d, s, c)
  BY <1>3, HostHeaderIs
<1>6. s <= h /\ head[h - 1] = 13 /\ head[h] = 10
  OBVIOUS
<1> HIDE DEF h, r
<1>7. c \in s .. r /\ \A j \in s .. c - 1 : ~(d[j] = CR /\ d[j + 1] = LF)
  BY <1>5 DEF HostAt, r
<1>8. s \in Nat /\ 1 <= s /\ c \in Nat /\ s <= c /\ c <= r
  BY <1>1, <1>3, <1>7
<1>9. CASE c <= h
  <2>1. \A i \in 1 .. c : d[i] = head[i]
    BY <1>1, <1>2, <1>8, <1>9
  <2>2. HostAt(head, s, c)
    BY <1>5, <1>8, <1>9, <2>1, SameHostAt DEF h
  <2>3. s = 1 \/ (s - 2 \in 1 .. h - 1 /\ head[s - 2] = CR /\ head[s - 1] = LF)
    <3>1. CASE s # 1
      <4>1. s - 2 \in 1 .. h - 1 /\ s - 2 \in 1 .. c /\ s - 1 \in 1 .. c
        BY <1>1, <1>4, <1>6, <1>8, <3>1
      <4> QED
        BY <1>4, <2>1, <3>1, <4>1
    <3> QED
      BY <3>1
  <2>4. s \in LineStarts(head)
    BY <1>8, <2>3, IsLineStart DEF h
  <2> QED
    BY <2>2, <2>4, NoHostAt
<1>10. CASE h < c
  <2>1. h - 1 \in 1 .. h /\ h \in 1 .. h /\ h - 1 <= r /\ h <= r /\ (h - 1) + 1 = h
    BY <1>1, <1>8, <1>10
  <2>2. d[h - 1] = 13 /\ d[h] = 10
    BY <1>2, <1>6, <2>1
  <2>3. CASE s <= h - 1
    <3>1. h - 1 \in s .. c - 1
      BY <1>1, <1>8, <1>10, <2>3
    <3> QED
      BY <1>7, <2>1, <2>2, <3>1 DEF CR, LF
  <2>4. CASE s = h
    <3>1. d[s - 1] = LF
      BY <1>1, <1>4, <2>4
    <3> QED
      BY <2>2, <2>4, <3>1 DEF LF
  <2> QED
    BY <1>1, <1>6, <1>8, <2>3, <2>4
<1> QED
  BY <1>1, <1>8, <1>9, <1>10

\* A printable character is no space.
LEMMA InkIsNoSpace == ASSUME NEW y \in Nat, y > 32 PROVE y \notin Space
  BY DEF Space

\* Behind h, d has the name of a Host header in letters, spaces, and its colon at c.
LabelAt(d, h, label, gap, c) ==
  /\ d \in Seq(Nat) /\ h \in Nat /\ label \in Seq(Nat) /\ gap \in Seq(Nat)
  /\ Len(label) = 4 /\ IsHost(label) /\ c = h + 5 + Len(gap) /\ c <= Len(d) + 1
  /\ \A i \in 1 .. 4 : label[i] > 58 /\ d[h + i] = label[i]
  /\ \A i \in 1 .. Len(gap) : gap[i] \in {9, 32} /\ d[h + 4 + i] = gap[i]

\* The name is what a Host header's name should be.
LEMMA LabelIsHost ==
  ASSUME NEW d, NEW h, NEW label, NEW gap, NEW c, LabelAt(d, h, label, gap, c)
  PROVE  IsHost(TrimSpace(SubSeq(d, h + 1, c - 1)))
<1> DEFINE g == Len(gap)
           i0 == h + 1
           j0 == c - 1
           u == SubSeq(d, i0, j0)
<1>12. d \in Seq(Nat) /\ label \in Seq(Nat) /\ Len(label) = 4 /\ IsHost(label)
  BY DEF LabelAt
<1>1. g \in Nat /\ Len(d) \in Nat /\ h \in Nat
  BY LenProperties DEF LabelAt
<1>2. c = h + 5 + g /\ c <= Len(d) + 1
  BY DEF LabelAt
<1>3. \A i \in 1 .. g : gap[i] \in {9, 32} /\ d[h + 4 + i] = gap[i]
  BY DEF LabelAt
<1>13. \A i \in 1 .. 4 : label[i] > 58 /\ d[h + i] = label[i]
  BY DEF LabelAt
<1> DEFINE n == Len(d)
<1> HIDE DEF g, n
<1>4. i0 \in 1 .. n + 1 /\ j0 \in i0 - 1 .. n /\ j0 - i0 + 1 = 4 + g
  <2>1. n \in Nat /\ c <= n + 1
    BY <1>1, <1>2 DEF n
  <2>2. c \in Nat /\ i0 \in Nat /\ j0 \in Nat /\ j0 = h + 4 + g /\ i0 = h + 1
    <3>1. \A x, y \in Nat : x + 5 + y \in Nat /\ (x + 5 + y) - 1 \in Nat
                            /\ (x + 5 + y) - 1 = x + 4 + y /\ x + 1 \in Nat
      OBVIOUS
    <3>2. h + 5 + g \in Nat /\ (h + 5 + g) - 1 \in Nat /\ (h + 5 + g) - 1 = h + 4 + g
          /\ h + 1 \in Nat
      BY <1>1, <3>1
    <3> QED
      BY <1>2, <3>2
  <2> HIDE DEF i0, j0
  <2>3. j0 <= n
    BY <1>1, <1>2, <2>1, <2>2
  <2> QED
    BY <1>1, <2>1, <2>2, <2>3
<1>5. \A x \in Nat : i0 + x - 1 = h + x
  BY <1>1
<1> HIDE DEF i0, j0
<1>6. u \in Seq(Nat) /\ Len(u) = 4 + g /\ \A x \in 1 .. 4 + g : u[x] = d[i0 + x - 1]
  <2>1. i0 \in 1 .. Len(d) + 1 /\ j0 \in i0 - 1 .. Len(d)
    BY <1>4 DEF n
  <2>2. /\ SubSeq(d, i0, j0) \in Seq(Nat) /\ Len(SubSeq(d, i0, j0)) = j0 - i0 + 1
        /\ \A x \in 1 .. j0 - i0 + 1 : SubSeq(d, i0, j0)[x] = d[i0 + x - 1]
    BY <1>12, <2>1, Cut
  <2> QED
    BY <1>4, <2>2
<1> HIDE DEF u
<1>7. \A x \in 1 .. 4 + g : u[x] = d[h + x]
  <2>1. \A x \in 1 .. 4 + g : x \in Nat
    BY <1>1
  <2> QED
    BY <1>5, <1>6, <2>1
<1>8. \A x \in 1 .. 4 : u[x] = label[x]
  <2>1. \A x \in 1 .. 4 : x \in 1 .. 4 + g
    BY <1>1
  <2> QED
    BY <1>7, <1>13, <2>1
<1>9. ASSUME NEW x \in 1 .. Len(u) PROVE u[x] \notin Space <=> (1 <= x /\ x <= 4)
  <2>1. x \in 1 .. 4 + g /\ x \in Nat /\ 1 <= x
    BY <1>1, <1>6
  <2>2. CASE x <= 4
    <3>1. x \in 1 .. 4
      BY <2>1, <2>2
    <3>2. label[x] > 58 /\ u[x] = label[x] /\ label[x] \in Nat
      BY <1>8, <1>12, <1>13, <3>1, ElementOfSeq
    <3>3. u[x] \notin Space
      BY <3>2, label[x] > 32, InkIsNoSpace
    <3> QED
      BY <2>1, <2>2, <3>3
  <2>3. CASE ~(x <= 4)
    <3>1. x - 4 \in 1 .. g /\ h + 4 + (x - 4) = h + x
      BY <1>1, <2>1, <2>3
    <3>2. u[x] = d[h + x] /\ d[h + x] = gap[x - 4] /\ gap[x - 4] \in {9, 32}
      <4>1. u[x] = d[h + x]
        BY <1>7, <2>1
      <4>2. gap[x - 4] \in {9, 32} /\ d[h + 4 + (x - 4)] = gap[x - 4]
        BY <1>3, <3>1
      <4> QED
        BY <3>1, <4>1, <4>2
    <3> QED
      BY <2>3, <3>2 DEF Space
  <2> QED
    BY <2>2, <2>3
<1>10. TrimSpace(u) = SubSeq(u, 1, 4)
  <2>1. 1 \in 1 .. Len(u) + 1 /\ 4 \in 1 - 1 .. Len(u)
    BY <1>1, <1>6
  <2>2. \A k \in 1 .. Len(u) : u[k] \notin Space <=> (1 <= k /\ k <= 4)
    BY <1>9
  <2> QED
    BY <1>6, <2>1, <2>2, Trimmed
<1>11. SubSeq(u, 1, 4) = label
  <2> DEFINE t == SubSeq(u, 1, 4)
  <2>1. 1 \in 1 .. Len(u) + 1 /\ 4 \in 1 - 1 .. Len(u) /\ 4 - 1 + 1 = 4
    BY <1>1, <1>6
  <2>2. t \in Seq(Nat) /\ Len(t) = 4 - 1 + 1 /\ \A x \in 1 .. 4 - 1 + 1 : t[x] = u[1 + x - 1]
    BY <1>6, <2>1, Cut
  <2>3. \A x \in 1 .. 4 : 1 + x - 1 = x
    OBVIOUS
  <2> HIDE DEF t
  <2>4. Len(t) = 4 /\ \A x \in 1 .. 4 : t[x] = label[x]
    BY <1>8, <1>12, <2>1, <2>2, <2>3
  <2>5. t \in Seq(Nat) /\ label \in Seq(Nat) /\ Len(t) = Len(label)
        /\ \A x \in 1 .. Len(t) : t[x] = label[x]
    BY <1>12, <2>2, <2>4
  <2>6. t = label
    BY <2>5, SeqEqual
  <2> QED
    BY <2>6 DEF t
<1> QED
  BY <1>10, <1>11, <1>12 DEF u, i0, j0

\* Of a request of whose Host header no colon has been received, there is no Host header.
LEMMA NoColonYet ==
  ASSUME NEW head \in Seq(Nat), Len(head) > 1, head[Len(head) - 1] = 13, head[Len(head)] = 10,
         SpellsNoHost(head), NEW d \in Seq(Nat),
         \A i \in 1 .. Len(head) : i <= Len(d) => d[i] = head[i],
         \A i \in 1 .. Len(d) : i > Len(head) => d[i] # Colon
  PROVE  parseHTTPHost(d) = NotFound
<1>1. Len(head) \in Nat /\ Len(d) \in Nat
  BY LenProperties
<1>2. ASSUME NEW s \in LineStarts(d), IsHostHeader(LineAt(d, s)) PROVE FALSE
  <2>1. s \in 1 .. Len(d) + 1
    BY LineStartsAre
  <2>2. ~(s <= Len(head))
    BY <1>2, NoneInHead
  <2>3. PICK c : HostAt(d, s, c)
    BY <1>2, <2>1, HostHeaderIs
  <2>4. c \in s .. Len(d) /\ d[c] = Colon
    BY <2>3 DEF HostAt
  <2>5. c \in 1 .. Len(d) /\ c > Len(head)
    BY <1>1, <2>1, <2>2, <2>4
  <2> QED
    BY <2>4, <2>5
<1> QED
  BY <1>2 DEF parseHTTPHost

\* The Host header behind the head comes first.
LEMMA ComesFirst ==
  ASSUME NEW head \in Seq(Nat), Len(head) > 1, head[Len(head) - 1] = 13, head[Len(head)] = 10,
         SpellsNoHost(head), NEW d \in Seq(Nat), Len(head) < Len(d),
         \A i \in 1 .. Len(head) : i <= Len(d) => d[i] = head[i],
         NEW c, HostAt(d, Len(head) + 1, c)
  PROVE  LET host == StripPort(HeaderValue(LineAt(d, Len(head) + 1)))
         IN parseHTTPHost(d) = IF host = <<>> THEN NotFound ELSE Found(host)
<1> DEFINE h == Len(head)
           starts == {s \in LineStarts(d) : IsHostHeader(LineAt(d, s))}
<1>1. h \in Nat /\ Len(d) \in Nat /\ h > 1 /\ h < Len(d)
  BY LenProperties
<1>2. h + 1 \in LineStarts(d)
  <2>1. h - 1 \in 1 .. h /\ h \in 1 .. h /\ h - 1 <= Len(d) /\ (h + 1) - 2 = h - 1
        /\ (h + 1) - 1 = h /\ (h + 1) - 2 \in 1 .. Len(d) - 1 /\ h + 1 \in Nat
    <3> DEFINE n == Len(d)
    <3>1. n \in Nat /\ h \in Nat /\ h > 1 /\ h < n
      BY <1>1
    <3> HIDE DEF n, h
    <3>2. h - 1 \in 1 .. h /\ h \in 1 .. h /\ h - 1 <= n
      BY <3>1
    <3>3. (h + 1) - 2 = h - 1 /\ (h + 1) - 1 = h /\ h - 1 \in 1 .. n - 1 /\ h + 1 \in Nat
      BY <3>1
    <3> QED
      BY <3>2, <3>3 DEF n
  <2>2. head[h - 1] = 13 /\ head[h] = 10 /\ \A i \in 1 .. h : i <= Len(d) => d[i] = head[i]
    OBVIOUS
  <2> HIDE DEF h
  <2>4. d[h - 1] = CR /\ d[h] = LF
    <3>1. h <= Len(d)
      BY <1>1
    <3>2. d[h - 1] = head[h - 1] /\ d[h] = head[h]
      BY <2>1, <2>2, <3>1, Zenon
    <3> QED
      BY <2>2, <3>2 DEF CR, LF
  <2>3. d[(h + 1) - 2] = CR /\ d[(h + 1) - 1] = LF
    BY <2>1, <2>4
  <2> QED
    BY <2>1, <2>3, IsLineStart
<1>3. h + 1 \in 1 .. Len(d) + 1
  BY <1>1
<1>4. IsHostHeader(LineAt(d, h + 1))
  <2>1. PICK e : Ends(d, h + 1, e)
    BY <1>3, LineEnds
  <2> QED
    BY <1>3, <2>1, IsHeader
<1>5. ASSUME NEW s \in starts PROVE h + 1 <= s
  <2>1. s \in LineStarts(d) /\ IsHostHeader(LineAt(d, s))
    OBVIOUS
  <2>2. s \in 1 .. Len(d) + 1
    BY <2>1, LineStartsAre
  <2>3. ~(s <= h)
    BY <2>1, NoneInHead
  <2> HIDE DEF h
  <2> QED
    BY <1>1, <2>2, <2>3
<1>6. starts \in SUBSET Nat
  <2>1. \A s \in LineStarts(d) : s \in 1 .. Len(d) + 1
    BY LineStartsAre
  <2> QED
    BY <1>1, <2>1
<1>7. h + 1 \in starts
  BY <1>2, <1>4
<1>8. Min(starts) = h + 1
  <2> HIDE DEF starts, h
  <2> QED
    BY <1>5, <1>6, <1>7, MinIs
<1> QED
  BY <1>7, <1>8 DEF parseHTTPHost

\* As far as d goes, there are p spaces behind its c-th byte, a value, and a line's end.
ValueAt(d, c, p, value) ==
  /\ \A i \in 1 .. p : c + i <= Len(d) => d[c + i] \in {9, 32}
  /\ \A i \in 1 .. Len(value) :
       value[i] > 32 /\ (c + p + i <= Len(d) => d[c + p + i] = value[i])
  /\ c + p + Len(value) + 1 <= Len(d) => d[c + p + Len(value) + 1] = CR
  /\ c + p + Len(value) + 2 <= Len(d) => d[c + p + Len(value) + 2] = LF

\* Positions behind the p-th.
LEMMA PastSpaces ==
  ASSUME NEW p \in Nat, NEW v \in Nat, NEW x \in Nat, 1 <= x, x <= v
  PROVE  p + x > p /\ p + x <= p + v /\ (p + x) - p = x /\ p + x # p + v + 1
  OBVIOUS

\* What is received of a Host header's value: s is where the header begins, c its colon.
LEMMA ValueReceived ==
  ASSUME NEW d \in Seq(Nat), NEW s \in Nat, 1 <= s, NEW c \in Nat, HostAt(d, s, c),
         NEW p \in Nat, NEW value \in Seq(Nat), ValueAt(d, c, p, value)
  PROVE  \E k \in 0 .. Len(value) : /\ HeaderValue(LineAt(d, s)) = SubSeq(value, 1, k)
                                    /\ Len(d) >= c + p + Len(value) => k = Len(value)
<1>15. PICK r \in Nat, v \in Nat : r = Len(d) /\ v = Len(value)
  BY LenProperties
<1> USE <1>15
<1>16. /\ \A i \in 1 .. p : c + i <= r => d[c + i] \in {9, 32}
       /\ \A i \in 1 .. v : value[i] > 32 /\ (c + p + i <= r => d[c + p + i] = value[i])
       /\ c + p + v + 1 <= r => d[c + p + v + 1] = CR
       /\ c + p + v + 2 <= r => d[c + p + v + 2] = LF
  BY DEF ValueAt
<1> DEFINE to == c + p + v
           e == IF r >= to + 2 THEN to + 1 ELSE r + 1
<1>1. to \in Nat /\ e \in Nat /\ to >= c + p
  OBVIOUS
<1>2. (r >= to + 2 /\ e = to + 1) \/ (r < to + 2 /\ e = r + 1)
  OBVIOUS
<1>7. (r >= to + 2) => d[to + 1] = CR /\ d[to + 2] = LF
  BY <1>1, <1>16
<1> HIDE DEF to, e
<1>3. s <= c /\ c <= r /\ d[c] = Colon
      /\ \A j \in s .. c - 1 : ~(d[j] = CR /\ d[j + 1] = LF)
  <2>1. c \in s .. Len(d)
    BY DEF HostAt
  <2> QED
    BY <2>1 DEF HostAt
<1>4. s \in 1 .. Len(d) + 1
  BY <1>3
<1>5. c < e /\ e <= r + 1 /\ e <= to + 2
  BY <1>1, <1>2, <1>3
<1>6. ASSUME NEW i \in Nat, c < i, i < e
      PROVE  \/ i - c \in 1 .. p /\ d[i] \in {9, 32}
             \/ i - c - p \in 1 .. v /\ d[i] = value[i - c - p] /\ d[i] > 32
             \/ i = to + 1 /\ i = r /\ d[i] = CR
  <2>1. i <= r
    BY <1>1, <1>5, <1>6
  <2>2. CASE i <= c + p
    <3>1. i - c \in 1 .. p /\ c + (i - c) = i
      BY <1>6, <2>2
    <3>2. d[c + (i - c)] \in {9, 32}
      BY <1>16, <2>1, <3>1
    <3> QED
      BY <3>1, <3>2
  <2>3. CASE c + p < i /\ i <= to
    <3>1. i - c - p \in 1 .. v /\ c + p + (i - c - p) = i
      BY <1>6, <2>3 DEF to
    <3>2. d[c + p + (i - c - p)] = value[i - c - p] /\ value[i - c - p] > 32
      BY <1>16, <2>1, <3>1
    <3> QED
      BY <3>1, <3>2
  <2>4. CASE to < i
    <3>1. i = to + 1 /\ i = r
      BY <1>1, <1>2, <1>6, <2>1, <2>4
    <3> QED
      BY <1>16, <2>1, <3>1 DEF to
  <2> QED
    <3>1. i <= c + p \/ (c + p < i /\ i <= to) \/ to < i
      BY <1>1, <1>6
    <3> QED
      BY <2>2, <2>3, <2>4, <3>1, Zenon
<1>8. Ends(d, s, e)
  <2>1. e \in s .. Len(d) + 1
    BY <1>1, <1>3, <1>5
  <2>2. ASSUME NEW i \in LineBreaks(d), s <= i, i < e PROVE FALSE
    <3>1. i \in Nat /\ i < r /\ d[i] = CR /\ d[i + 1] = LF
      BY <2>2 DEF LineBreaks
    <3>2. i \in s .. c - 1 \/ i = c \/ c < i
      BY <2>2, <3>1
    <3>3. CASE i = c
      BY <1>3, <3>1, <3>3 DEF CR, Colon
    <3>4. CASE c < i
      <4>1. \/ d[i] \in {9, 32} \/ d[i] > 32 \/ i = r
        BY <1>6, <2>2, <3>1, <3>4
      <4> QED
        BY <3>1, <4>1 DEF CR
    <3> QED
      BY <1>3, <3>1, <3>2, <3>3, <3>4
  <2>3. e = Len(d) + 1 \/ e \in LineBreaks(d)
    <3>1. CASE r >= to + 2 /\ e = to + 1
      <4>1. e \in 1 .. Len(d) - 1 /\ e + 1 = to + 2
        BY <1>1, <3>1
      <4>2. d[e] = CR /\ d[e + 1] = LF
        BY <1>7, <3>1, <4>1
      <4> QED
        BY <4>1, <4>2 DEF LineBreaks
    <3> QED
      BY <1>2, <3>1
  <2> QED
    BY <2>1, <2>2, <2>3 DEF Ends
<1> DEFINE w == SubSeq(d, c + 1, e - 1)
           n == e - 1 - c
<1>9. HeaderValue(LineAt(d, s)) = TrimSpace(w)
  BY <1>4, <1>8, IsHeader
<1>10. n \in Nat /\ w \in Seq(Nat) /\ Len(w) = n /\ \A x \in 1 .. n : w[x] = d[c + x]
  <2> DEFINE i1 == c + 1
             j1 == e - 1
  <2>1. i1 \in 1 .. Len(d) + 1 /\ j1 \in i1 - 1 .. Len(d) /\ j1 - i1 + 1 = n /\ n \in Nat
    BY <1>1, <1>3, <1>5
  <2>2. \A x \in 1 .. n : i1 + x - 1 = c + x
    OBVIOUS
  <2>3. w = SubSeq(d, i1, j1)
    OBVIOUS
  <2> HIDE DEF i1, j1, n, w
  <2>4. /\ w \in Seq(Nat) /\ Len(w) = j1 - i1 + 1
        /\ \A x \in 1 .. j1 - i1 + 1 : w[x] = d[i1 + x - 1]
    BY <2>1, <2>3, Cut
  <2> QED
    BY <2>1, <2>2, <2>4
<1>11. ASSUME NEW x \in 1 .. n
       PROVE  \/ x <= p /\ w[x] \in {9, 32}
              \/ p < x /\ x <= p + v /\ w[x] = value[x - p] /\ w[x] > 32
              \/ x = p + v + 1 /\ c + x = r /\ w[x] = CR
  <2>1. c + x \in Nat /\ c < c + x /\ c + x < e /\ (c + x) - c = x
    BY <1>1
  <2>2. \/ x \in 1 .. p /\ d[c + x] \in {9, 32}
        \/ x - p \in 1 .. v /\ d[c + x] = value[x - p] /\ d[c + x] > 32
        \/ c + x = to + 1 /\ c + x = r /\ d[c + x] = CR
    BY <1>6, <2>1
  <2>3. w[x] = d[c + x]
    BY <1>10
  <2> HIDE DEF n, w
  <2>4. c + x = to + 1 => x = p + v + 1
    BY <1>10 DEF to
  <2> QED
    BY <2>2, <2>3, <2>4
<1>14. n = e - 1 - c
  OBVIOUS
<1> HIDE DEF w, n
<1>12. CASE r < c + p
  <2>1. n < p /\ ~(r >= to)
    BY <1>1, <1>2, <1>3, <1>12, <1>14
  <2>2. ASSUME NEW x \in 1 .. Len(w) PROVE w[x] \in Space
    <3>1. x \in 1 .. n /\ x <= p /\ ~(p < x) /\ ~(x = p + v + 1)
      BY <1>10, <2>1
    <3>2. w[x] \in {9, 32}
      BY <1>11, <3>1
    <3> QED
      BY <3>2 DEF Space
  <2>3. TrimSpace(w) = SubSeq(w, 1, 0)
    <3>1. 1 \in 1 .. Len(w) + 1 /\ 0 \in 1 - 1 .. Len(w)
      BY <1>10
    <3>2. \A x \in 1 .. Len(w) : w[x] \notin Space <=> (1 <= x /\ x <= 0)
      BY <2>2
    <3> QED
      BY <1>10, <3>1, <3>2, Trimmed
  <2>4. SubSeq(w, 1, 0) = SubSeq(value, 1, 0)
    BY <1>10, SubSeqEmpty
  <2> QED
    BY <1>9, <2>1, <2>3, <2>4 DEF to
<1>13. CASE r >= c + p
  <2> DEFINE k == IF r >= to THEN v ELSE r - (c + p)
             l == p + k
  <2>11. (r >= to /\ k = v) \/ (r < to /\ k = r - (c + p))
    BY <1>1
  <2> HIDE DEF k
  <2>1. k \in 0 .. v /\ (r >= to => k = v)
    BY <1>1, <1>13, <2>11 DEF to
  <2>2. l <= n /\ (n <= l \/ (k = v /\ n = l + 1))
    <3>1. to = c + p + v /\ l = p + k
      BY DEF to
    <3> HIDE DEF l
    <3>2. CASE r >= to /\ k = v
      <4>1. l = p + v /\ to - c = l
        BY <3>1, <3>2
      <4>2. n = l \/ n = l + 1
        <5>1. CASE r >= to + 2 /\ e = to + 1
          BY <1>1, <1>14, <4>1, <5>1
        <5>2. CASE r < to + 2 /\ e = r + 1
          <6>1. r = to \/ r = to + 1
            BY <1>1, <3>2, <5>2
          <6> QED
            BY <1>1, <1>14, <4>1, <5>2, <6>1
        <5> QED
          BY <1>2, <5>1, <5>2
      <4> QED
        BY <3>1, <3>2, <4>1, <4>2
    <3>3. CASE r < to /\ k = r - (c + p)
      <4>1. l = r - c
        BY <3>1, <3>3
      <4>2. e = r + 1
        BY <1>1, <1>2, <3>3
      <4>3. n = r - c
        BY <1>14, <4>2
      <4> QED
        BY <1>10, <4>1, <4>3
    <3> QED
      BY <2>11, <3>2, <3>3
  <2>3. l \in Nat /\ k \in Nat
    BY <2>1
  <2>4. ASSUME NEW x \in 1 .. Len(w) PROVE w[x] \notin Space <=> (p + 1 <= x /\ x <= l)
    <3>1. x \in 1 .. n
      BY <1>10
    <3>2. CASE x <= p /\ w[x] \in {9, 32}
      BY <3>1, <3>2 DEF Space
    <3>3. CASE p < x /\ x <= p + v /\ w[x] = value[x - p] /\ w[x] > 32
      <4>1. w[x] \notin Space
        <5>1. w[x] \in Nat
          BY <1>10, <3>1
        <5> QED
          BY <3>3, <5>1, InkIsNoSpace
      <4>2. p + 1 <= x /\ x <= l
        BY <1>10, <2>1, <2>2, <2>3, <3>1, <3>3
      <4> QED
        BY <4>1, <4>2
    <3>4. CASE x = p + v + 1 /\ c + x = r /\ w[x] = CR
      <4>1. x > l
        BY <2>1, <2>3, <3>4
      <4> QED
        <5>1. w[x] \in Space
          BY <3>4 DEF Space, CR
        <5>2. ~(x <= l)
          BY <1>10, <2>3, <3>1, <4>1
        <5> QED
          BY <5>1, <5>2
    <3> QED
      <4>1. \/ x <= p /\ w[x] \in {9, 32}
            \/ p < x /\ x <= p + v /\ w[x] = value[x - p] /\ w[x] > 32
            \/ x = p + v + 1 /\ c + x = r /\ w[x] = CR
        BY <1>11, <3>1
      <4> QED
        BY <3>2, <3>3, <3>4, <4>1, Zenon
  <2>5. p + 1 \in 1 .. Len(w) + 1 /\ l \in (p + 1) - 1 .. Len(w)
    BY <1>10, <2>2, <2>3
  <2> DEFINE t == SubSeq(w, p + 1, l)
             u == SubSeq(value, 1, k)
  <2>6. TrimSpace(w) = t
    BY <1>10, <2>4, <2>5, Trimmed
  <2>7. t \in Seq(Nat) /\ Len(t) = k /\ \A x \in 1 .. k : t[x] = w[p + x]
    <3> DEFINE i1 == p + 1
    <3>1. i1 \in 1 .. Len(w) + 1 /\ l \in i1 - 1 .. Len(w)
      BY <2>5
    <3>2. l - i1 + 1 = k /\ \A x \in 1 .. k : i1 + x - 1 = p + x
      BY <2>3
    <3>3. t = SubSeq(w, i1, l)
      OBVIOUS
    <3> HIDE DEF i1, l, t
    <3>4. t \in Seq(Nat) /\ Len(t) = l - i1 + 1 /\ \A x \in 1 .. l - i1 + 1 : t[x] = w[i1 + x - 1]
      BY <1>10, <3>1, <3>3, Cut
    <3> QED
      BY <3>2, <3>4
  <2>8. u \in Seq(Nat) /\ Len(u) = k /\ \A x \in 1 .. k : u[x] = value[x]
    <3>1. k \in 0 .. Len(value)
      BY <2>1
    <3> HIDE DEF u
    <3> QED
      BY <3>1, Beginning DEF u
  <2> HIDE DEF t, u
  <2>9. ASSUME NEW x \in 1 .. k PROVE t[x] = u[x]
    <3>1. p + x \in 1 .. n /\ p + x > p /\ p + x <= p + v /\ (p + x) - p = x /\ p + x # p + v + 1
      <4>1. x \in Nat /\ 1 <= x /\ x <= k /\ k <= v
        BY <2>1, <2>3
      <4>2. p + x <= l
        BY <2>3, <4>1
      <4> HIDE DEF l
      <4>3. p + x \in Nat /\ 1 <= p + x /\ p + x <= n
        BY <1>10, <2>2, <2>3, <4>1, <4>2
      <4>4. p + x > p /\ p + x <= p + v /\ (p + x) - p = x /\ p + x # p + v + 1
        <5>1. x \in Nat /\ 1 <= x /\ x <= v
          BY <2>3, <4>1
        <5> QED
          BY <5>1, PastSpaces
      <4> QED
        BY <1>10, <4>3, <4>4
    <3>2. w[p + x] = value[(p + x) - p]
      <4> HIDE DEF n, l
      <4>1. p + x \in 1 .. n /\ ~(p + x <= p) /\ p + x # p + v + 1
        BY <3>1
      <4> QED
        BY <1>11, <4>1
    <3> QED
      BY <2>7, <2>8, <3>1, <3>2
  <2>10. t = u
    BY <2>7, <2>8, <2>9, SeqEqual
  <2>12. HeaderValue(LineAt(d, s)) = SubSeq(value, 1, k)
    BY <1>9, <2>6, <2>10 DEF u
  <2>13. r >= c + p + v => k = v
    BY <2>1 DEF to
  <2>14. Len(d) = r /\ Len(value) = v
    OBVIOUS
  <2>15. k \in 0 .. Len(value) /\ (Len(d) >= c + p + Len(value) => k = Len(value))
    BY <2>1, <2>13, <2>14, Zenon
  <2> QED
    BY <2>12, <2>15
<1>18. r < c + p \/ r >= c + p
  BY <1>1
<1> QED
  BY <1>12, <1>13, <1>18, Zenon

\* What does not begin like a TLS record is taken for a request.
LEMMA TakenForRequest ==
  ASSUME NEW data, data # <<>>, data[1] # 22
  PROVE  peekHostname(data) = parseHTTPHost(data).name
<1>1. parseSNI(data) = NotFound
  BY DEF parseSNI
<1> QED
  BY <1>1 DEF peekHostname, NotFound

\* The host of a request with a Host header: what has been received of its value, without
\* a port; the name when it has been received whole.
LEMMA HostReceived ==
  ASSUME NEW m, Request(m), m.hosted, SpellsNoHost(m.head), NEW r \in 1 .. Len(RequestBytes(m))
  PROVE  LET host == parseHTTPHost(SubSeq(RequestBytes(m), 1, r)).name
         IN /\ r = Len(RequestBytes(m)) => host = m.name
            /\ \/ host \in {<<>>, m.name}
               \/ \E k \in 0 .. Len(m.value) : host = SubSeq(m.value, 1, k)
<1> DEFINE b == RequestBytes(m)
           head == m.head
           h == Len(head)
           g == Len(m.gap)
           p == Len(m.pad)
           v == Len(m.value)
           c == h + 5 + g
           to == c + p + v
           d == SubSeq(b, 1, r)
           http == parseHTTPHost(d)
<1>1. /\ head \in Seq(Nat) /\ h > 1 /\ head[h - 1] = 13 /\ head[h] = 10
  BY RequestTypes
<1>2. h \in Nat /\ g \in Nat /\ p \in Nat /\ v \in Nat
  BY RequestTypes, LenProperties
<1>3. /\ b \in Seq(Nat) /\ to + 2 <= Len(b)
      /\ \A i \in 1 .. h : b[i] = head[i]
      /\ \A i \in 1 .. 4 : b[h + i] = m.label[i]
      /\ \A i \in 1 .. g : b[h + 4 + i] = m.gap[i]
      /\ b[c] = Colon
      /\ \A i \in 1 .. p : b[c + i] = m.pad[i]
      /\ \A i \in 1 .. v : b[c + p + i] = m.value[i]
      /\ b[to + 1] = CR /\ b[to + 2] = LF
  BY RequestLayout
<1>4. m.label \in Seq(Nat) /\ Len(m.label) = 4 /\ IsHost(m.label) /\ \A i \in 1 .. 4 : m.label[i] > 58
  BY RequestTypes
<1>5. m.gap \in Seq(Nat) /\ \A i \in 1 .. g : m.gap[i] \in {9, 32}
  BY RequestTypes
<1>6. \A i \in 1 .. p : m.pad[i] \in {9, 32}
  BY RequestTypes
<1>7. m.value \in Seq(Nat) /\ HostValue(m.value, m.name) /\ \A i \in 1 .. v : m.value[i] > 32
  BY RequestTypes
<1>19. to + 2 <= Len(b) /\ b \in Seq(Nat)
  BY <1>3
<1>20. c = h + 5 + g /\ to = c + p + v
  OBVIOUS
<1> HIDE DEF b, h, g, p, v, c, to
<1>8. Len(b) \in Nat /\ r \in Nat /\ r \in 0 .. Len(b)
  BY <1>19, LenProperties DEF b
<1>9. d \in Seq(Nat) /\ Len(d) = r /\ \A i \in 1 .. r : d[i] = b[i]
  BY <1>8, <1>19, Beginning
<1>10. SpellsNoHost(head)
  OBVIOUS
<1>11. c \in Nat /\ c = h + 5 + g /\ to = c + p + v /\ to \in Nat
  BY <1>2, <1>20
<1> DEFINE name == m.name
           value == m.value
           label == m.label
           gap == m.gap
           pad == m.pad
<1> HIDE DEF head, d, label, gap, pad, value, name
<1>12. \A i \in 1 .. Len(head) : i <= Len(d) => d[i] = head[i]
  <2>1. \A i \in 1 .. h : i <= r => i \in 1 .. r /\ b[i] = head[i]
    BY <1>2, <1>3, <1>8
  <2> QED
    BY <1>9, <2>1 DEF h
<1>13. \A i \in 1 .. 4 : label[i] > 58 /\ b[h + i] = label[i]
  BY <1>3, <1>4 DEF label
<1>14. \A i \in 1 .. g : gap[i] \in {9, 32} /\ b[h + 4 + i] = gap[i]
  BY <1>3, <1>5 DEF gap
<1>15. ASSUME NEW i \in Nat, h < i, i < c PROVE b[i] # Colon /\ b[i] # CR
  <2>1. CASE i - h <= 4
    <3>1. i - h \in 1 .. 4 /\ h + (i - h) = i
      BY <1>2, <1>15, <2>1
    <3>2. b[i] > 58
      BY <1>13, <3>1
    <3> QED
      BY <3>2 DEF Colon, CR
  <2>2. CASE ~(i - h <= 4)
    <3>1. i - h - 4 \in 1 .. g /\ h + 4 + (i - h - 4) = i
      BY <1>2, <1>11, <1>15, <2>2
    <3>2. b[i] \in {9, 32}
      BY <1>14, <3>1
    <3> QED
      BY <3>2 DEF Colon, CR
  <2> QED
    BY <2>1, <2>2
<1>16. r = Len(b) => r >= to /\ r >= c
  BY <1>2, <1>8, <1>11, <1>19
<1>17. CASE r < c
  <2>1. \A i \in 1 .. Len(d) : i > Len(head) => d[i] # Colon
    <3>1. ASSUME NEW i \in 1 .. r, i > h PROVE d[i] # Colon
      <4>1. i \in Nat /\ h < i /\ i < c
        BY <1>8, <1>11, <1>17, <3>1
      <4>2. b[i] # Colon
        BY <1>15, <4>1
      <4> QED
        BY <1>9, <4>2
    <3> QED
      BY <1>9, <3>1 DEF h
  <2>2. http = NotFound
    BY <1>1, <1>9, <1>10, <1>12, <2>1, NoColonYet DEF h
  <2>3. r # Len(b)
    BY <1>8, <1>11, <1>16, <1>17
  <2> QED
    BY <2>2, <2>3 DEF NotFound, b, d
<1>18. CASE r >= c
  <2> DEFINE s == h + 1
  <2>1. c \in 1 .. r /\ s \in Nat /\ 1 <= s /\ s <= c /\ h < r
    BY <1>2, <1>8, <1>11, <1>18
  <2>2. HostAt(d, s, c)
    <3>1. d[c] = Colon /\ c \in s .. Len(d)
      <4>1. d[c] = b[c] /\ b[c] = Colon
        BY <1>3, <1>9, <2>1
      <4>2. Len(d) = r /\ c <= r /\ c \in Nat
        BY <1>9, <1>11, <1>18
      <4> HIDE DEF s
      <4>3. c \in s .. r
        BY <1>8, <2>1, <4>2
      <4> QED
        BY <4>1, <4>2, <4>3
    <3>2. ASSUME NEW j \in s .. c - 1 PROVE d[j] # Colon /\ ~(d[j] = CR /\ d[j + 1] = LF)
      <4>1. j \in Nat /\ h < j /\ j < c /\ j \in 1 .. r
        BY <1>2, <1>8, <1>18, <2>1
      <4> QED
        BY <1>9, <1>15, <4>1
    <3>3. IsHost(TrimSpace(SubSeq(d, h + 1, c - 1)))
      <4>1. \A i \in 1 .. 4 : d[h + i] = label[i]
        <5>1. \A i \in 1 .. 4 : h + i \in 1 .. r
          BY <1>2, <1>8, <1>11, <1>18
        <5> QED
          BY <1>9, <1>13, <5>1
      <4>2. \A i \in 1 .. g : d[h + 4 + i] = gap[i]
        <5>1. \A i \in 1 .. g : h + 4 + i \in 1 .. r
          BY <1>2, <1>8, <1>11, <1>18
        <5> QED
          BY <1>9, <1>14, <5>1
      <4>3. c <= Len(d) + 1
        BY <1>8, <1>9, <2>1
      <4>4. LabelAt(d, h, label, gap, c)
        BY <1>2, <1>4, <1>5, <1>9, <1>11, <1>13, <1>14, <4>1, <4>2, <4>3 DEF LabelAt, g, label, gap
      <4> QED
        BY <4>4, LabelIsHost
    <3> QED
      BY <3>1, <3>2, <3>3 DEF HostAt
  <2>3. \A i \in 1 .. p : c + i <= r => d[c + i] \in {9, 32}
    <3>1. \A i \in 1 .. p : c + i <= r => c + i \in 1 .. r
      BY <1>2, <1>8, <1>11
    <3>2. \A i \in 1 .. p : b[c + i] \in {9, 32}
      BY <1>3, <1>6
    <3> QED
      BY <1>9, <3>1, <3>2
  <2>4. \A i \in 1 .. v : value[i] > 32 /\ (c + p + i <= r => d[c + p + i] = value[i])
    <3>1. \A i \in 1 .. v : c + p + i <= r => c + p + i \in 1 .. r
      BY <1>2, <1>8, <1>11
    <3>2. \A i \in 1 .. v : value[i] > 32 /\ b[c + p + i] = value[i]
      BY <1>3, <1>7 DEF value
    <3> QED
      BY <1>9, <3>1, <3>2
  <2>5. (c + p + v + 1 <= r => d[c + p + v + 1] = CR) /\ (c + p + v + 2 <= r => d[c + p + v + 2] = LF)
    <3>1. /\ to + 1 <= r => to + 1 \in 1 .. r
          /\ to + 2 <= r => to + 2 \in 1 .. r
      BY <1>8, <1>11
    <3>2. (to + 1 <= r => d[to + 1] = CR) /\ (to + 2 <= r => d[to + 2] = LF)
      BY <1>3, <1>9, <3>1
    <3> QED
      BY <1>11, <3>2
  <2>6. value \in Seq(Nat) /\ v = Len(value) /\ r = Len(d) /\ HostValue(value, name)
    BY <1>7, <1>9 DEF value, v, name
  <2>12. ValueAt(d, c, p, value)
    BY <1>9, <2>3, <2>4, <2>5, <2>6 DEF ValueAt
  <2> HIDE DEF s
  <2>7. PICK k \in 0 .. v : /\ HeaderValue(LineAt(d, s)) = SubSeq(value, 1, k)
                            /\ r >= c + p + v => k = v
    <3>1. c \in Nat /\ p \in Nat /\ s \in Nat /\ 1 <= s /\ d \in Seq(Nat) /\ value \in Seq(Nat)
      BY <1>2, <1>9, <1>11, <2>1, <2>6
    <3>2. \E k \in 0 .. Len(value) : /\ HeaderValue(LineAt(d, s)) = SubSeq(value, 1, k)
                                     /\ Len(d) >= c + p + Len(value) => k = Len(value)
      BY <2>2, <2>12, <3>1, ValueReceived
    <3> QED
      BY <2>6, <3>2
  <2> DEFINE part == SubSeq(value, 1, k)
             left == StripPort(part)
  <2>8. left \in {part, name} /\ (k = v => left = name)
    <3>1. k \in 0 .. Len(value) /\ v = Len(value)
      BY <2>6
    <3> QED
      BY <2>6, <3>1, HostLeft
  <2>9. http = IF left = <<>> THEN NotFound ELSE Found(left)
    <3>1. Len(head) < Len(d) /\ HostAt(d, Len(head) + 1, c)
      BY <1>9, <2>1, <2>2 DEF h, s
    <3>2. LET host == StripPort(HeaderValue(LineAt(d, Len(head) + 1)))
          IN http = IF host = <<>> THEN NotFound ELSE Found(host)
      BY <1>1, <1>9, <1>10, <1>12, <3>1, ComesFirst DEF h
    <3> QED
      BY <2>7, <3>2 DEF h, s
  <2>10. http.name = left
    BY <2>9 DEF NotFound, Found
  <2>11. r = Len(b) => http.name = name
    BY <1>11, <1>16, <2>7, <2>8, <2>10
  <2> QED
    BY <2>6, <2>8, <2>10, <2>11 DEF name, value, b, d
<1> QED
  BY <1>8, <1>11, <1>17, <1>18

\* Of a request peekHostname makes its host, nothing, or what has been received of it.
LEMMA HostOfRequest ==
  ASSUME NEW m, Request(m), SpellsNoHost(m.head), NEW r \in 1 .. Len(RequestBytes(m))
  PROVE  LET b == RequestBytes(m)
             host == peekHostname(SubSeq(b, 1, r))
         IN /\ r = Len(b) => host = m.name
            /\ \/ host \in {<<>>, m.name}
               \/ Len(host) <= Len(m.value) /\ host = SubSeq(m.value, 1, Len(host))
<1> DEFINE b == RequestBytes(m)
           d == SubSeq(b, 1, r)
           host == peekHostname(d)
<1>1. m.head \in Seq(Nat) /\ m.head # <<>> /\ m.head[1] # 22 /\ (~m.hosted => m.name = <<>>)
  <2>1. m.head \in Seq(Byte) /\ m.head # <<>> /\ m.head[1] # 22 /\ (~m.hosted => m.name = <<>>)
    BY DEF Request
  <2> QED
    BY <2>1, BytesAreNumbers
<1>2. b \in Seq(Nat) /\ b[1] = m.head[1]
  <2>1. CASE m.hosted
    <3>1. b \in Seq(Nat) /\ \A i \in 1 .. Len(m.head) : b[i] = m.head[i]
      BY <2>1, RequestLayout
    <3>2. 1 \in 1 .. Len(m.head)
      BY <2>1, RequestTypes, LenProperties
    <3> QED
      BY <3>1, <3>2
  <2>2. CASE ~m.hosted
    BY <1>1, <2>2 DEF RequestBytes
  <2> QED
    BY <2>1, <2>2
<1>3. Len(b) \in Nat /\ r \in 0 .. Len(b) /\ 1 \in 1 .. r
  BY <1>2, LenProperties
<1>4. d \in Seq(Nat) /\ Len(d) = r /\ \A i \in 1 .. r : d[i] = b[i]
  BY <1>2, <1>3, Beginning
<1>5. d # <<>> /\ d[1] # 22
  <2>1. Len(d) # 0
    BY <1>3, <1>4
  <2> QED
    BY <1>1, <1>2, <1>3, <1>4, <2>1, EmptySeq
<1>6. host = parseHTTPHost(d).name
  BY <1>5, TakenForRequest
<1>7. CASE m.hosted
  <2>1. /\ r = Len(b) => host = m.name
        /\ \/ host \in {<<>>, m.name}
           \/ \E k \in 0 .. Len(m.value) : host = SubSeq(m.value, 1, k)
    BY <1>6, <1>7, HostReceived
  <2>2. ASSUME NEW k \in 0 .. Len(m.value), host = SubSeq(m.value, 1, k)
        PROVE  Len(host) <= Len(m.value) /\ host = SubSeq(m.value, 1, Len(host))
    <3>1. m.value \in Seq(Nat) /\ Len(m.value) \in Nat
      BY <1>7, RequestTypes, LenProperties
    <3>2. Len(host) = k
      BY <2>2, <3>1, Beginning
    <3> QED
      BY <2>2, <3>1, <3>2
  <2> HIDE DEF host
  <2> QED
    BY <2>1, <2>2 DEF host
<1>8. CASE ~m.hosted
  <2>1. b = m.head
    BY <1>8 DEF RequestBytes
  <2>2. parseHTTPHost(d) = NotFound
    BY <1>2, <1>3, <2>1, NoHostInPart
  <2>3. host = <<>>
    BY <1>6, <2>2 DEF NotFound
  <2> QED
    BY <1>1, <1>8, <2>3
<1> QED
  BY <1>7, <1>8

-----------------------------------------------------------------------------
\* The connections that are sniffed at.
SniffInput ==
  input.about = "sniff" =>
    \E m \in Messages : \E received \in 1 .. Min({Len(Wire(m)), BufSize}) :
      input = [about |-> "sniff", message |-> m, bytes |-> Wire(m), received |-> received]

\* Every state is about one input, and those of connections are of this kind.
LEMMA InputsToSniff == Spec => []SniffInput
<1>1. Init => SniffInput
  <2> SUFFICES ASSUME Init, input.about = "sniff" PROVE SniffInput
    BY DEF SniffInput
  <2>1. ASSUME NEW peers \in Devices, input = [about |-> "peers", peers |-> peers] PROVE FALSE
    BY <2>1
  <2>2. ASSUME NEW fs, NEW dir, input = [about |-> "configs", fs |-> fs, configDir |-> dir]
        PROVE  FALSE
    BY <2>2
  <2>3. ASSUME NEW platform, NEW network, NEW ifIndex,
               input = [about |-> "socket", platform |-> platform, network |-> network,
                        ifIndex |-> ifIndex]
        PROVE  FALSE
    BY <2>3
  <2> QED
    BY <2>1, <2>2, <2>3 DEF Init, SniffInput
<1>2. SniffInput /\ [Next]_input => SniffInput'
  BY DEF Next, SniffInput
<1> QED
  BY <1>1, <1>2, PTL DEF Spec

\* What a message and its first bytes are.
LEMMA InputIs ==
  ASSUME SniffInput, input.about = "sniff"
  PROVE  \E m, r :
           /\ input.message = m /\ input.received = r /\ input.bytes = Wire(m) /\ r <= BufSize
           /\ \/ m.tls = TRUE /\ ClientHello(m) /\ SpellsNoHost(HelloBytes(m))
                 /\ Wire(m) = HelloBytes(m) /\ r \in 1 .. Len(HelloBytes(m))
              \/ m.tls = FALSE /\ Request(m) /\ SpellsNoHost(m.head)
                 /\ Wire(m) = RequestBytes(m) /\ r \in 1 .. Len(RequestBytes(m))
<1>1. PICK m \in Messages : \E received \in 1 .. Min({Len(Wire(m)), BufSize}) :
        input = [about |-> "sniff", message |-> m, bytes |-> Wire(m), received |-> received]
  BY DEF SniffInput
<1>2. PICK r \in 1 .. Min({Len(Wire(m)), BufSize}) :
        input = [about |-> "sniff", message |-> m, bytes |-> Wire(m), received |-> r]
  BY <1>1
<1>3. input.message = m /\ input.received = r /\ input.bytes = Wire(m)
  BY <1>2
<1>4. \/ m.tls = TRUE /\ ClientHello(m) /\ SpellsNoHost(Wire(m))
      \/ m.tls = FALSE /\ Request(m) /\ SpellsNoHost(m.head)
  BY ParsersAssumption
<1>5. Wire(m) \in Seq(Nat)
  <2>1. CASE m.tls = TRUE /\ ClientHello(m)
    BY <2>1, HelloLayout DEF Wire
  <2>2. CASE m.tls = FALSE /\ Request(m)
    <3>1. CASE m.hosted
      BY <2>2, <3>1, RequestLayout DEF Wire
    <3>2. CASE ~m.hosted
      <4>1. m.head \in Seq(Byte)
        BY <2>2 DEF Request
      <4> QED
        BY <2>2, <3>2, <4>1, BytesAreNumbers DEF Wire, RequestBytes
    <3> QED
      BY <3>1, <3>2
  <2> QED
    BY <1>4, <2>1, <2>2
<1>6. Len(Wire(m)) \in Nat /\ BufSize \in Nat
  BY <1>5, LenProperties, SniffAssumption
<1>7. r \in 1 .. Len(Wire(m)) /\ r <= BufSize
  <2>1. Min({Len(Wire(m)), BufSize}) <= Len(Wire(m)) /\ Min({Len(Wire(m)), BufSize}) <= BufSize
        /\ Min({Len(Wire(m)), BufSize}) \in {Len(Wire(m)), BufSize}
    BY <1>6, LesserOfTwo
  <2>2. \A x, y \in Nat : \A n \in {x, y} :
          n <= x /\ n <= y => \A i \in 1 .. n : i \in 1 .. x /\ i <= y
    OBVIOUS
  <2> QED
    BY <1>6, <2>1, <2>2
<1>8. (m.tls = TRUE => Wire(m) = HelloBytes(m)) /\ (m.tls = FALSE => Wire(m) = RequestBytes(m))
  BY DEF Wire
<1>9. \/ m.tls = TRUE /\ ClientHello(m) /\ SpellsNoHost(HelloBytes(m))
         /\ Wire(m) = HelloBytes(m) /\ r \in 1 .. Len(HelloBytes(m))
      \/ m.tls = FALSE /\ Request(m) /\ SpellsNoHost(m.head)
         /\ Wire(m) = RequestBytes(m) /\ r \in 1 .. Len(RequestBytes(m))
  BY <1>4, <1>7, <1>8
<1> QED
  BY <1>3, <1>7, <1>9

\* A ClientHello or a request, whatever its names, its other extensions and headers, its
\* lengths and the letters of its header are, that arrives in one piece yields its host.
THEOREM CompleteMessagesAreSniffed == Spec => []SniffsCompleteMessages
<1>1. SniffInput => SniffsCompleteMessages
  <2> SUFFICES ASSUME SniffInput, input.about = "sniff", Complete
               PROVE  peekHostname(Received) = input.message.name
    BY DEF SniffsCompleteMessages
  <2>1. PICK m, r :
          /\ input.message = m /\ input.received = r /\ input.bytes = Wire(m) /\ r <= BufSize
          /\ \/ m.tls = TRUE /\ ClientHello(m) /\ SpellsNoHost(HelloBytes(m))
                /\ Wire(m) = HelloBytes(m) /\ r \in 1 .. Len(HelloBytes(m))
             \/ m.tls = FALSE /\ Request(m) /\ SpellsNoHost(m.head)
                /\ Wire(m) = RequestBytes(m) /\ r \in 1 .. Len(RequestBytes(m))
    BY InputIs
  <2>2. Received = SubSeq(Wire(m), 1, r) /\ r = Len(Wire(m))
    BY <2>1 DEF Received, Complete
  <2>3. CASE m.tls = TRUE /\ ClientHello(m) /\ SpellsNoHost(HelloBytes(m))
             /\ Wire(m) = HelloBytes(m) /\ r \in 1 .. Len(HelloBytes(m))
    <3>1. r = Len(HelloBytes(m)) /\ Len(HelloBytes(m)) <= BufSize
      BY <2>1, <2>2, <2>3
    <3>2. peekHostname(SubSeq(HelloBytes(m), 1, r)) = m.name
      BY <2>3, <3>1, HostOfHello
    <3> QED
      BY <2>1, <2>2, <2>3, <3>2
  <2>4. CASE m.tls = FALSE /\ Request(m) /\ SpellsNoHost(m.head)
             /\ Wire(m) = RequestBytes(m) /\ r \in 1 .. Len(RequestBytes(m))
    <3>1. r = Len(RequestBytes(m))
      BY <2>2, <2>4
    <3>2. peekHostname(SubSeq(RequestBytes(m), 1, r)) = m.name
      BY <2>4, <3>1, HostOfRequest
    <3> QED
      BY <2>1, <2>2, <2>4, <3>2
  <2> QED
    BY <2>1, <2>3, <2>4
<1> QED
  BY <1>1, InputsToSniff, PTL

\* Cut off at any byte, it yields that host, none, or the bytes of it that have arrived.
THEOREM NothingElseIsSniffed == Spec => []SniffsNothingElse
<1>1. SniffInput => SniffsNothingElse
  <2> SUFFICES ASSUME SniffInput, input.about = "sniff",
                      peekHostname(Received) \notin {<<>>, input.message.name}
               PROVE  LET host == peekHostname(Received)
                      IN IF input.message.tls
                         THEN /\ Len(host) = Len(input.message.name)
                              /\ \E n \in 0 .. Min({Len(host), input.received}) :
                                   /\ host = SubSeq(input.message.name, 1, n)
                                               \o [i \in 1 .. Len(host) - n |-> 0]
                                   /\ SubSeq(host, 1, n) =
                                        SubSeq(Received, input.received - n + 1, input.received)
                         ELSE /\ Len(host) <= Len(input.message.value)
                              /\ host = SubSeq(input.message.value, 1, Len(host))
    BY DEF SniffsNothingElse
  <2>1. PICK m, r :
          /\ input.message = m /\ input.received = r /\ input.bytes = Wire(m) /\ r <= BufSize
          /\ \/ m.tls = TRUE /\ ClientHello(m) /\ SpellsNoHost(HelloBytes(m))
                /\ Wire(m) = HelloBytes(m) /\ r \in 1 .. Len(HelloBytes(m))
             \/ m.tls = FALSE /\ Request(m) /\ SpellsNoHost(m.head)
                /\ Wire(m) = RequestBytes(m) /\ r \in 1 .. Len(RequestBytes(m))
    BY InputIs
  <2>2. Received = SubSeq(Wire(m), 1, r)
    BY <2>1 DEF Received
  <2>3. PICK data, host : data = Received /\ host = peekHostname(data) /\ host \notin {<<>>, m.name}
    BY <2>1
  <2>4. CASE m.tls = TRUE /\ ClientHello(m) /\ SpellsNoHost(HelloBytes(m))
             /\ Wire(m) = HelloBytes(m) /\ r \in 1 .. Len(HelloBytes(m))
    <3>1. data = SubSeq(HelloBytes(m), 1, r)
      BY <2>2, <2>3, <2>4
    <3>2. \/ host \in {<<>>, m.name}
          \/ /\ Len(host) = Len(m.name)
             /\ \E n \in 0 .. Min({Len(host), r}) :
                  /\ host = SubSeq(m.name, 1, n) \o [i \in 1 .. Len(host) - n |-> 0]
                  /\ SubSeq(host, 1, n) = SubSeq(data, r - n + 1, r)
      <4>1. peekHostname(SubSeq(HelloBytes(m), 1, r)) = host
        BY <2>3, <3>1
      <4>2. LET b == HelloBytes(m)
                bytes == SubSeq(b, 1, r)
                found == peekHostname(bytes)
            IN  \/ found \in {<<>>, m.name}
                \/ /\ Len(found) = Len(m.name)
                   /\ \E n \in 0 .. Min({Len(found), r}) :
                        /\ found = SubSeq(m.name, 1, n) \o [i \in 1 .. Len(found) - n |-> 0]
                        /\ SubSeq(found, 1, n) = SubSeq(bytes, r - n + 1, r)
        BY <2>4, HostOfHello, Zenon
      <4> QED
        BY <3>1, <4>1, <4>2, Zenon
    <3> QED
      BY <2>1, <2>3, <2>4, <3>2
  <2>5. CASE m.tls = FALSE /\ Request(m) /\ SpellsNoHost(m.head)
             /\ Wire(m) = RequestBytes(m) /\ r \in 1 .. Len(RequestBytes(m))
    <3>1. data = SubSeq(RequestBytes(m), 1, r)
      BY <2>2, <2>3, <2>5
    <3>2. \/ host \in {<<>>, m.name}
          \/ Len(host) <= Len(m.value) /\ host = SubSeq(m.value, 1, Len(host))
      BY <2>3, <2>5, <3>1, HostOfRequest
    <3> QED
      BY <2>1, <2>3, <2>5, <3>2
  <2> QED
    BY <2>1, <2>4, <2>5
<1> QED
  BY <1>1, InputsToSniff, PTL
=============================================================================
