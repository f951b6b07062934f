----------------------------- MODULE MCParsers ------------------------------
(* Inputs for Parsers: complete ClientHellos and requests, devices with up *)
(* to two peers, file systems with two directories, interface indices.     *)
EXTENDS Parsers

LOCAL INSTANCE SequencesExt

-----------------------------------------------------------------------------
(* What clients send: complete messages with the host they are meant for.  *)

Ext(type, data) == [type |-> type, data |-> data]
Grease  == Ext(<<10, 10>>, <<>>)
Alpn    == Ext(<<0, 16>>, <<0, 5>>)
Padding == Ext(<<0, 21>>, [i \in 1 .. 260 |-> 0])

\* "ab", ".", "e"
HostName == <<97, 98, 46, 101>>
NextRecord == <<20, 3, 3, 0, 1, 1>>

Hello(session, before, sni, name, after, rest) ==
  [tls |-> TRUE, versionRandom |-> <<3, 3>> \o [i \in 1 .. 32 |-> 7], session |-> session,
   ciphers |-> <<19, 1, 19, 2>>, compressions |-> <<0>>, before |-> before, sni |-> sni,
   name |-> name, after |-> Flat(after), rest |-> rest]

Hellos ==
  {Hello(session, exts[1], TRUE, HostName, exts[2], rest) :
     session \in {<<>>, <<9, 9>>}, rest \in {<<>>, NextRecord},
     exts \in {<<<<>>, <<>>>>, <<<<Grease>>, <<Alpn>>>>, <<<<Alpn, Grease>>, <<>>>>,
               <<<<Padding>>, <<>>>>, <<<<>>, <<Padding>>>>}}
  \union {Hello(<<>>, exts, FALSE, <<>>, <<>>, <<>>) : exts \in {<<>>, <<Grease, Alpn>>}}
  \union {Hello(<<>>, <<>>, TRUE, <<>>, <<>>, <<>>)}

RequestLine == <<71, 32, 47>> \o CrLf
Accept == <<65, 58, 32, 104, 111, 115, 116, 58>> \o CrLf    \* "A: host:"
Host2  == <<72, 111, 115, 116, 58, 32, 120>> \o CrLf

\* Values of a Host header, with the host that is in them.
HostValues ==
  {<<HostName, HostName>>, <<HostName \o <<58, 56>>, HostName>>,
   <<<<91, 58, 58, 49, 93, 58, 56>>, <<58, 58, 49>>>>,        \* "[::1]:8"
   <<<<91, 58, 58, 49, 93>>, <<91, 58, 58, 49, 93>>>>,        \* "[::1]"
   <<<<58, 56>>, <<>>>>, <<<<>>, <<>>>>}

Hosted(before, label, gap, v, after) ==
  [tls |-> FALSE, head |-> RequestLine \o before, hosted |-> TRUE, label |-> label, gap |-> gap,
   pad |-> <<32>>, value |-> v[1], name |-> v[2], tail |-> after \o CrLf]
Unhosted(head) == [tls |-> FALSE, head |-> head, hosted |-> FALSE, name |-> <<>>, value |-> <<>>]

Requests ==
  {Hosted(before, spelling[1], spelling[2], v, after) :
     v \in HostValues, before \in {<<>>, Accept}, after \in {<<>>, Host2},
     spelling \in {<<<<72, 111, 115, 116>>, <<>>>>, <<<<104, 79, 83, 116>>, <<32>>>>}}
  \union {Unhosted(RequestLine \o Accept \o CrLf), Unhosted(<<0, 22, 3>>)}

-----------------------------------------------------------------------------
(* Devices, file systems and sockets.                                      *)

\* Addresses are below 8.
Prefix4 == [family |-> 4, addr |-> 4, size |-> 4]
AllOf(f) == [family |-> f, addr |-> 0, size |-> 8]

DevicePeers ==
  [endpoint : {"", "e"}, allowedIPs : {<<>>, <<Prefix4>>, <<AllOf(6)>>, <<Prefix4, AllOf(6)>>},
   handshake : {0, 3}, txBytes : {0, 2}, rxBytes : {4}]

MCServers == {[family |-> 4, addr |-> 2], [family |-> 4, addr |-> 7], [family |-> 6, addr |-> 2]}

Kinds == {"none", "file", "dir", "link", "dangling"}
States == {"open", "missing", "denied", "unlistable"}
Directories == [state : States, entries : [Regions -> Kinds]]

MCRegions == {"", "FR"}
MCUserDirs == <<"user">>
MCConfigDirs == {"", "user"}
MCFileSystems ==
  {[d \in {".", "user"} |-> IF d = "." THEN here ELSE user] : here, user \in Directories}

MCMessages == Hellos \union Requests
MCDevices  == SeqOf(DevicePeers, 2)
MCIndices  == {1, 5, 255, 256, 65538, 16909060}
=============================================================================
