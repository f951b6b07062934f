---------------------------- MODULE MCDnsLookup -----------------------------
(* DnsLookup with no, one or two DNS servers.                       *)
EXTENDS DnsLookup

UpToTwo == {<<>>, <<"dns1">>, <<"dns1", "dns2">>}
=============================================================================
