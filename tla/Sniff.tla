------------------------------- MODULE Sniff --------------------------------
(***************************************************************************)
(* relay.go: peekHostname and the two parsers it applies to the bytes that *)
(* one Read has put into its buffer.                                       *)
(*                                                                         *)
(* Go checks an index against the length of a slice, but the upper bound   *)
(* of a slice expression only against its capacity, which here is that of  *)
(* the buffer; behind the bytes received the buffer holds zeros.  Offsets  *)
(* are from 0, as in the source.                                           *)
(***************************************************************************)
EXTENDS Naturals, Sequences, FiniteSets

LOCAL INSTANCE FiniteSetsExt

CONSTANT BufSize    \* size of the buffer: 4096

ASSUME SniffAssumption == BufSize \in Nat

\* What a parser that finds nothing returns: "", false.
NotFound == [ok |-> FALSE, name |-> <<>>]
Found(name) == [ok |-> TRUE, name |-> name]

-----------------------------------------------------------------------------
(* parseSNI.  A slice out of range panics, which is recovered and reported *)
(* as NotFound.                                                            *)

U8(data, i)  == IF i < Len(data) THEN data[i + 1] ELSE 0
U16(data, i) == 256 * U8(data, i) + U8(data, i + 1)
Bytes(data, from, to) == [i \in 1 .. to - from |-> U8(data, from + i - 1)]

\* The extension server_name: the first entry of its list, if that is a host.
ServerName(data, from, to) ==
  LET list    == from + 2
      listEnd == list + U16(data, from)
      name    == list + 3
      nameEnd == name + U16(data, list + 1)
  IN IF /\ to - from >= 2 /\ listEnd <= BufSize
        /\ listEnd - list >= 3 /\ U8(data, list) = 0
        /\ nameEnd <= BufSize
     THEN Found(Bytes(data, name, nameEnd))
     ELSE NotFound

\* Mutant: only the first extension is looked at.
FirstExtension(data, exts, end) ==
  IF exts + 4 <= end /\ U16(data, exts) = 0
  THEN ServerName(data, exts + 4, exts + 4 + U16(data, exts + 2))
  ELSE NotFound

\* The extensions one after the other, from exts to end.
Extensions(data, exts, end) ==
  LET scan[at \in 0 .. end] ==
        LET next == at + 4 + U16(data, at + 2)
        IN CASE at + 4 > end \/ next > BufSize -> NotFound
             [] at + 4 <= end /\ next <= BufSize /\ U16(data, at) = 0 ->
                  ServerName(data, at + 4, next)
             [] OTHER -> IF next <= end THEN scan[next] ELSE NotFound
  IN scan[exts]

\* Record header, ClientHello header, version and random; then session ID,
\* cipher suites and compression methods, each behind its length.  A length
\* outside the record is noticed at the latest where those of the extensions
\* should be, as offsets only grow.
parseSNI(data) ==
  LET recEnd       == Min({Len(data), 5 + U16(data, 3)})
      session      == 5 + 4 + 2 + 32
      ciphers      == session + 1 + U8(data, session)
      compressions == ciphers + 2 + U16(data, ciphers)
      extensions   == compressions + 1 + U8(data, compressions)
      exts         == extensions + 2
      end          == exts + U16(data, extensions)
  IN IF /\ Len(data) >= 5 /\ data[1] = 22
        /\ recEnd >= 9 /\ data[6] = 1
        /\ exts <= recEnd /\ end <= BufSize
     THEN Extensions(data, exts, end)
     ELSE NotFound

-----------------------------------------------------------------------------
(* parseHTTPHost.                                                          *)

Space == {9, 10, 11, 12, 13, 32}
LF == 10    CR == 13    Colon == 58    OpenBracket == 91    CloseBracket == 93

Positions(s, b) == {i \in DOMAIN s : s[i] = b}

\* strings.TrimSpace, of ASCII.
TrimSpace(s) ==
  LET ink == {i \in DOMAIN s : s[i] \notin Space}
  IN IF ink = {} THEN <<>> ELSE SubSeq(s, Min(ink), Max(ink))

\* strings.EqualFold(s, "host"), of ASCII.
IsHost(s) ==
  /\ Len(s) = 4
  /\ s[1] \in {72, 104} /\ s[2] \in {79, 111} /\ s[3] \in {83, 115} /\ s[4] \in {84, 116}

\* strings.Split(data, CR LF), as where lines begin and what they hold.
LineBreaks(data) == {i \in 1 .. Len(data) - 1 : data[i] = CR /\ data[i + 1] = LF}
LineStarts(data) == {1} \union {i + 2 : i \in LineBreaks(data)}
LineAt(data, start) ==
  LET ends == {i \in LineBreaks(data) : i >= start} \union {Len(data) + 1}
  IN SubSeq(data, start, Min(ends) - 1)

\* What is before and behind the first colon of a line.
HeaderName(line)  == TrimSpace(SubSeq(line, 1, Min(Positions(line, Colon)) - 1))
HeaderValue(line) == TrimSpace(SubSeq(line, Min(Positions(line, Colon)) + 1, Len(line)))
IsHostHeader(line) == Positions(line, Colon) # {} /\ IsHost(HeaderName(line))

\* net.SplitHostPort, of which an error leaves the host as it is.
StripPort(host) ==
  LET colons == Positions(host, Colon)
      opens  == Positions(host, OpenBracket)
      closes == Positions(host, CloseBracket)
  IN IF colons = {} THEN host
     ELSE IF host[1] = OpenBracket
     THEN IF /\ closes # {} /\ Min(closes) + 1 = Max(colons)
             /\ opens = {1} /\ Cardinality(closes) = 1
          THEN SubSeq(host, 2, Min(closes) - 1)
          ELSE host
     ELSE IF Cardinality(colons) = 1 /\ opens = {} /\ closes = {}
          THEN SubSeq(host, 1, Min(colons) - 1)
          ELSE host

\* Mutant: the last Host header counts.
LastHost(data) ==
  LET starts == {s \in LineStarts(data) : IsHostHeader(LineAt(data, s))}
  IN IF starts = {} THEN NotFound
     ELSE Found(StripPort(HeaderValue(LineAt(data, Max(starts)))))

\* The first Host header.
parseHTTPHost(data) ==
  LET starts == {s \in LineStarts(data) : IsHostHeader(LineAt(data, s))}
      host   == StripPort(HeaderValue(LineAt(data, Min(starts))))
  IN IF starts = {} \/ host = <<>> THEN NotFound ELSE Found(host)

-----------------------------------------------------------------------------
\* The host of a connection of whose bytes the one Read returned these; <<>>
\* if there is none, upon which relayConn takes the fallback target.
peekHostname(data) ==
  IF data = <<>> THEN <<>>
  ELSE IF parseSNI(data).ok THEN parseSNI(data).name ELSE parseHTTPHost(data).name
=============================================================================
