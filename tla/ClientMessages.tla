--------------------------- MODULE ClientMessages ---------------------------
(***************************************************************************)
(* What clients send first: a TLS record with a ClientHello (RFC 8446, 4.1.2 *)
(* and RFC 6066, 3), or an HTTP/1 request (RFC 9112).  A message is a record  *)
(* of its parts, and the name of the host that it is meant for; Wire gives   *)
(* its bytes.                                                              *)
(***************************************************************************)
EXTENDS Naturals, Sequences

Byte == 0 .. 255

-----------------------------------------------------------------------------
(* ClientHello: [tls, versionRandom, session, ciphers, compressions,       *)
(* before, sni, name, after, rest].                                        *)

\* A vector of bytes behind its length in one or two bytes.
Vector8(s)  == <<Len(s)>> \o s
Vector16(s) == <<Len(s) \div 256, Len(s) % 256>> \o s

Extension(e) == e.type \o Vector16(e.data)

\* server_name: a list of one name, whose type is host_name.
ServerNameList(name) == Vector16(<<0>> \o Vector16(name))
ServerNameExtension(name) == [type |-> <<0, 0>>, data |-> ServerNameList(name)]

\* Extensions one behind the other.
Flat(exts) ==
  LET text[n \in 0 .. Len(exts)] ==
        IF n = 0 THEN <<>> ELSE text[n - 1] \o Extension(exts[n])
  IN text[Len(exts)]

HelloExtensions(m) ==
  Flat(m.before) \o ((IF m.sni THEN Extension(ServerNameExtension(m.name)) ELSE <<>>) \o m.after)

HelloBody(m) ==
  m.versionRandom \o (Vector8(m.session) \o (Vector16(m.ciphers)
    \o (Vector8(m.compressions) \o Vector16(HelloExtensions(m)))))

\* The first of the three bytes of a handshake message's length is 0.
Handshake(m) == <<1, 0>> \o Vector16(HelloBody(m))

HelloBytes(m) == <<22, 3, 1>> \o (Vector16(Handshake(m)) \o m.rest)

\* Host names have less than 256 characters.  Extensions behind server_name are
\* not looked at and may be anything.
ClientHello(m) ==
  /\ m.versionRandom \in Seq(Byte) /\ Len(m.versionRandom) = 34
  /\ m.session \in Seq(Byte) /\ Len(m.session) < 256
  /\ m.ciphers \in Seq(Byte)
  /\ m.compressions \in Seq(Byte) /\ Len(m.compressions) < 256
  /\ m.before \in Seq([type : (Byte \X Byte) \ {<<0, 0>>}, data : Seq(Byte)])
  /\ m.sni \in BOOLEAN
  /\ m.name \in Seq(Byte) /\ Len(m.name) < 256
  /\ m.after \in Seq(Byte) /\ m.rest \in Seq(Byte)
  /\ ~m.sni => m.name = <<>> /\ m.after = <<>>
  /\ Len(Handshake(m)) < 256 * 256

-----------------------------------------------------------------------------
(* Request: [tls, head, hosted, label, gap, pad, value, name, tail].       *)

CrLf == <<13, 10>>

\* What precedes the Host header, if there is one, that header and the rest.
RequestBytes(m) ==
  IF m.hosted
  THEN m.head \o (m.label \o (m.gap \o (<<58>> \o (m.pad \o (m.value \o (CrLf \o m.tail))))))
  ELSE m.head

\* "host" in upper or lower case.
HostLabels == {72, 104} \X {79, 111} \X {83, 115} \X {84, 116}

\* Whether s has any of these bytes between positions i and j.
Without(s, i, j, bytes) == \A k \in i .. j : s[k] \notin bytes

\* ':', '[' and ']'
Punctuation == {58, 91, 93}

\* The value of a Host header, of printable ASCII, is a name, a name and a port, an IPv6 address in
\* brackets and a port, or one without a port, whose brackets are kept.
HostValue(value, name) ==
  \/ value = name /\ Without(value, 1, Len(value), {58})
  \/ \E n \in DOMAIN value :
       /\ value[n] = 58 /\ name = SubSeq(value, 1, n - 1)
       /\ Without(value, 1, n - 1, Punctuation) /\ Without(value, n + 1, Len(value), Punctuation)
  \/ \E n \in DOMAIN value :
       /\ n + 1 \in DOMAIN value /\ value[1] = 91 /\ value[n] = 93 /\ value[n + 1] = 58
       /\ name = SubSeq(value, 2, n - 1)
       /\ Without(value, 2, n - 1, {91, 93}) /\ Without(value, n + 2, Len(value), Punctuation)
  \/ /\ value = name /\ value # <<>> /\ value[1] = 91 /\ value[Len(value)] = 93
     /\ Without(value, 2, Len(value) - 1, {91, 93})

Request(m) ==
  /\ m.head \in Seq(Byte) /\ m.head # <<>> /\ m.head[1] # 22
  /\ m.hosted =>
       /\ Len(m.head) > 1 /\ m.head[Len(m.head) - 1] = 13 /\ m.head[Len(m.head)] = 10
       /\ m.label \in HostLabels
       /\ m.gap \in Seq({9, 32}) /\ m.pad \in Seq({9, 32})
       /\ m.value \in Seq(33 .. 126) /\ HostValue(m.value, m.name)
       /\ m.tail \in Seq(Byte)
  /\ ~m.hosted => m.name = <<>>

-----------------------------------------------------------------------------
Wire(m) == IF m.tls THEN HelloBytes(m) ELSE RequestBytes(m)
=============================================================================
