---------------------------- MODULE MCHostsFile -----------------------------
(* Two runs, one after the other or at once, for two hosts; one of the     *)
(* user's two lines has an accent, which ASCII lacks.                      *)
EXTENDS HostsFile

MCHosts     == <<"adobeid", "geo">>
MCUserLines == <<"localhost", "cafe'">>
MCAscii     == [u \in {"localhost", "cafe'", "caf?"} |-> IF u = "cafe'" THEN "caf?" ELSE u]
=============================================================================
