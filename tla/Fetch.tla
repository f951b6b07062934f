------------------------------- MODULE Fetch --------------------------------
(***************************************************************************)
(* vault.go: "vpnproxy fetch".  A fetch finds a token or logs in with the  *)
(* browser, reads the secret that holds the configs, checks its fields and *)
(* writes them to <region>.conf, one file after the other.  Several may    *)
(* run at the same time, for one user and one directory, and each may be   *)
(* killed at any moment: Ctrl+C is not caught, so that nothing deferred is *)
(* done.  Every request to Vault may fail.                                 *)
(***************************************************************************)
EXTENDS Naturals

CONSTANTS
  Fetches,    \* processes that may be fetching
  Regions,    \* names of fields, as numbers in the order they sort
  Versions,   \* what the secret may be, over time
  Good,       \* [Versions -> fields with a region's name and a string for a value]
  Bad,        \* [Versions -> other fields]
  None        \* no file, secret, result or process

ASSUME FetchAssumption ==
  /\ Regions \subseteq Nat
  /\ Good \in [Versions -> SUBSET Regions] /\ Bad \in [Versions -> SUBSET Regions]
  /\ None \notin Versions \union Fetches

Torn == [content |-> "torn"]           \* a file that is not completely written
Whole(v) == [content |-> "whole", version |-> v]
Files == {Whole(v) : v \in Versions} \union {Torn}
NoToken == ""
Tokens  == {"old", "new"}              \* one from earlier, one from logging in
NoFile  == [content |-> "none"]

VARIABLES
  secret,     \* Vault: the secret's version, None if it is deleted
  kv,         \* Vault: version of the KV mount it is in
  valid,      \* Vault: tokens it accepts
  issued,     \* history: tokens it has ever accepted or issued
  tokenFile,  \* ~/.vault-token, NoToken if there is none or it is empty
  conf,       \* [Regions -> <region>.conf]
  port,       \* the fetch that listens on -oidc-port, if any
  pc,         \* [Fetches -> where it is]
  token,      \* [Fetches -> c.token]
  done,       \* [Fetches -> what the channel of that name holds]
  mount,      \* [Fetches -> the KV version it takes the mount for]
  data,       \* [Fetches -> the version it has read]
  todo,       \* [Fetches -> fields it has still to write]
  temp,       \* [Fetches -> its temporary file]
  exit        \* [Fetches -> how it ended: "no", "ok", "error" or "killed"]

vault == <<secret, kv, valid, issued>>
login == <<port, done>>
files == <<conf, todo, temp>>
vars  == <<vault, tokenFile, pc, token, login, mount, data, files, exit>>

Init ==
  /\ secret \in Versions \union {None} /\ kv \in {"1", "2"}
  /\ valid \in SUBSET {"old"} /\ issued = valid /\ tokenFile \in {NoToken, "old"}
  /\ conf = [r \in Regions |-> NoFile]
  /\ port = None
  /\ pc    = [f \in Fetches |-> "start"]
  /\ token = [f \in Fetches |-> NoToken]
  /\ done  = [f \in Fetches |-> None]
  /\ mount = [f \in Fetches |-> "2"]
  /\ data  = [f \in Fetches |-> None]
  /\ todo  = [f \in Fetches |-> {}]
  /\ temp  = [f \in Fetches |-> NoFile]
  /\ exit  = [f \in Fetches |-> "no"]

Goto(f, from, to) == pc[f] = from /\ pc' = [pc EXCEPT ![f] = to]

Ends(f, how) ==
  /\ pc' = [pc EXCEPT ![f] = "exited"]
  /\ exit' = [exit EXCEPT ![f] = how]

Free(f) == port' = IF port = f THEN None ELSE port

-----------------------------------------------------------------------------
(* A token: $VAULT_TOKEN or ~/.vault-token, or one from logging in.        *)

FindToken(f) ==
  /\ Goto(f, "start", "check")
  /\ token' = [token EXCEPT ![f] = "old"] \/ token' = [token EXCEPT ![f] = tokenFile]
  /\ UNCHANGED <<vault, tokenFile, login, mount, data, files, exit>>

\* Mutant: any token will do.
AnyToken(f) == token[f] # NoToken

\* tokenValid: Vault is asked and accepts the token.
Accepted(f) == token[f] \in valid

TokenWorks(f) ==
  /\ Accepted(f)
  /\ Goto(f, "check", "mount")
  /\ UNCHANGED <<vault, tokenFile, token, login, mount, data, files, exit>>

\* There is no token, or tokenValid gets an error, whichever.
TokenFails(f) ==
  /\ Goto(f, "check", "listen")
  /\ UNCHANGED <<vault, tokenFile, token, login, mount, data, files, exit>>

Listen(f) ==
  /\ port = None /\ port' = f
  /\ Goto(f, "listen", "auth_url")
  /\ UNCHANGED <<vault, tokenFile, token, done, mount, data, files, exit>>

\* The port is taken, perhaps by another fetch.
ListenFails(f) ==
  /\ pc[f] = "listen"
  /\ Ends(f, "error")
  /\ UNCHANGED <<vault, tokenFile, token, login, mount, data, files>>

\* The callback's server runs from here on.
AuthURL(f) ==
  /\ Goto(f, "auth_url", "open")
  /\ UNCHANGED <<vault, tokenFile, token, login, mount, data, files, exit>>

AuthURLFails(f) ==
  /\ pc[f] = "auth_url"
  /\ Ends(f, "error") /\ Free(f)
  /\ UNCHANGED <<vault, tokenFile, token, done, mount, data, files>>

OpenBrowser(f) ==
  /\ Goto(f, "open", "select")
  /\ UNCHANGED <<vault, tokenFile, token, login, mount, data, files, exit>>

\* The browser comes to /oidc/callback, once or more often, be it before open
\* has returned.  Vault issues a token or refuses; the channel takes the first
\* outcome.
Callback(f) ==
  /\ pc[f] \in {"open", "select"}
  /\ \E res \in {"new", "error"} :
       /\ valid' = valid \union ({res} \intersect Tokens)
       /\ issued' = issued \union ({res} \intersect Tokens)
       /\ done' = IF done[f] = None THEN [done EXCEPT ![f] = [login |-> res]] ELSE done
  /\ UNCHANGED <<secret, kv, tokenFile, pc, token, port, mount, data, files, exit>>

LoggedIn(f) ==
  /\ pc[f] = "select" /\ done[f] # None /\ done[f].login = "new"
  /\ Goto(f, "select", "save") /\ Free(f)
  /\ token' = [token EXCEPT ![f] = "new"]
  /\ done' = [done EXCEPT ![f] = None]
  /\ UNCHANGED <<vault, tokenFile, mount, data, files, exit>>

LoginFails(f) ==
  /\ pc[f] = "select" /\ done[f] # None /\ done[f].login = "error"
  /\ Ends(f, "error") /\ Free(f)
  /\ UNCHANGED <<vault, tokenFile, token, done, mount, data, files>>

\* Mutant: the select has no timeout.
WaitForEver(f) == pc[f] = "select" /\ FALSE /\ UNCHANGED vars

LoginTimesOut(f) ==
  /\ pc[f] = "select"
  /\ Ends(f, "error") /\ Free(f)
  /\ UNCHANGED <<vault, tokenFile, token, done, mount, data, files>>

\* saveVaultToken truncates the file, then writes it; an error is only logged.
Truncate(f) ==
  /\ Goto(f, "save", "saving")
  /\ tokenFile' = NoToken
  /\ UNCHANGED <<vault, token, login, mount, data, files, exit>>

SaveToken(f) ==
  /\ Goto(f, "saving", "mount")
  /\ tokenFile' = token[f]
  /\ UNCHANGED <<vault, token, login, mount, data, files, exit>>

SaveFails(f) ==
  /\ pc[f] \in {"save", "saving"} /\ Goto(f, pc[f], "mount")
  /\ UNCHANGED <<vault, tokenFile, token, login, mount, data, files, exit>>

-----------------------------------------------------------------------------
(* The secret.                                                             *)

\* kvMount asks for the mount's version and takes it for "2" if it gets none.
FindMount(f) ==
  /\ Goto(f, "mount", "read")
  /\ \E answered \in BOOLEAN : mount' = [mount EXCEPT ![f] = IF answered THEN kv ELSE "2"]
  /\ UNCHANGED <<vault, tokenFile, token, login, data, files, exit>>

ReadIf(f, present) ==
  /\ Goto(f, "read", "validate")
  /\ token[f] \in valid /\ mount[f] = kv /\ present
  /\ data' = [data EXCEPT ![f] = secret]
  /\ UNCHANGED <<vault, tokenFile, token, login, mount, files, exit>>

\* Mutant: a deleted secret is taken for one with no data.
ReadAnything(f) == ReadIf(f, TRUE)

ReadSecret(f) == ReadIf(f, secret # None)

\* Wrong path, no access, no secret or no answer.
ReadFails(f) ==
  /\ pc[f] = "read"
  /\ Ends(f, "error")
  /\ UNCHANGED <<vault, tokenFile, token, login, mount, data, files>>

-----------------------------------------------------------------------------
(* writeConfigs.                                                           *)

\* There are fields, and each has a region's name and a string.
Writable(v) == Good[v] # {} /\ Bad[v] = {}

Validate(f) ==
  /\ Goto(f, "validate", "create")
  /\ Writable(data[f])
  /\ todo' = [todo EXCEPT ![f] = Good[data[f]]]
  /\ UNCHANGED <<vault, tokenFile, token, login, mount, data, conf, temp, exit>>

\* Invalid fields, or the directory cannot be made.
ValidateFails(f) ==
  /\ pc[f] = "validate"
  /\ Ends(f, "error")
  /\ UNCHANGED <<vault, tokenFile, token, login, mount, data, files>>

First(S) == CHOOSE r \in S : \A s \in S : r <= s
Region(f) == First(todo[f])

\* writeFileAtomic: a new file of any name but a config's, ...
Create(f) ==
  /\ todo[f] # {}
  /\ Goto(f, "create", "fill")
  /\ temp' = [temp EXCEPT ![f] = Torn]
  /\ UNCHANGED <<vault, tokenFile, token, login, mount, data, conf, todo, exit>>

\* Mutant: the config itself is written over.
FillInPlace(f) ==
  /\ Goto(f, "fill", "rename")
  /\ conf' = [conf EXCEPT ![Region(f)] = Torn]
  /\ temp' = [temp EXCEPT ![f] = Whole(data[f])]
  /\ UNCHANGED <<vault, tokenFile, token, login, mount, data, todo, exit>>

\* ... its mode and its content, ...
Fill(f) ==
  /\ Goto(f, "fill", "rename")
  /\ temp' = [temp EXCEPT ![f] = Whole(data[f])]
  /\ UNCHANGED <<vault, tokenFile, token, login, mount, data, conf, todo, exit>>

\* ... and its final name.
Rename(f) ==
  /\ Goto(f, "rename", "create")
  /\ conf' = [conf EXCEPT ![Region(f)] = temp[f]]
  /\ todo' = [todo EXCEPT ![f] = @ \ {Region(f)}]
  /\ temp' = [temp EXCEPT ![f] = NoFile]
  /\ UNCHANGED <<vault, tokenFile, token, login, mount, data, exit>>

WriteEnds(f, how, left) ==
  /\ Ends(f, how)
  /\ temp' = [temp EXCEPT ![f] = left]
  /\ UNCHANGED <<vault, tokenFile, token, login, mount, data, conf, todo>>

\* Mutant: the loop goes on with the next file.
FailAndSkip(f) ==
  /\ pc[f] \in {"create", "fill", "rename"} /\ todo[f] # {}
  /\ pc' = [pc EXCEPT ![f] = "create"]
  /\ todo' = [todo EXCEPT ![f] = @ \ {Region(f)}]
  /\ temp' = [temp EXCEPT ![f] = NoFile]
  /\ UNCHANGED <<vault, tokenFile, token, login, mount, data, conf, exit>>

\* Mutant: the temporary file is not removed.
FailAndLeave(f) ==
  /\ pc[f] \in {"create", "fill", "rename"} /\ todo[f] # {}
  /\ WriteEnds(f, "error", temp[f])

\* Any of these fails: the temporary file is removed, the files that have been
\* written stay.
WriteFails(f) ==
  /\ pc[f] \in {"create", "fill", "rename"} /\ todo[f] # {}
  /\ WriteEnds(f, "error", NoFile)

Finish(f) ==
  /\ pc[f] = "create" /\ todo[f] = {}
  /\ WriteEnds(f, "ok", NoFile)

-----------------------------------------------------------------------------
\* The process is gone; a temporary file stays, under a name nobody reads.
Kill(f) ==
  /\ pc[f] # "exited"
  /\ Ends(f, "killed") /\ Free(f)
  /\ UNCHANGED <<vault, tokenFile, token, done, mount, data, files>>

\* The user tries again; a file that a killed fetch left is not this one's.
Restart(f) ==
  /\ Goto(f, "exited", "start")
  /\ exit'  = [exit EXCEPT ![f] = "no"]
  /\ token' = [token EXCEPT ![f] = NoToken]
  /\ done'  = [done EXCEPT ![f] = None]
  /\ mount' = [mount EXCEPT ![f] = "2"]
  /\ data'  = [data EXCEPT ![f] = None]
  /\ todo'  = [todo EXCEPT ![f] = {}]
  /\ temp'  = [temp EXCEPT ![f] = NoFile]
  /\ UNCHANGED <<vault, tokenFile, port, conf>>

\* Somebody puts or deletes the secret; a token expires.
Put ==
  /\ secret' \in (Versions \union {None}) \ {secret}
  /\ UNCHANGED <<kv, valid, issued, tokenFile, pc, token, login, mount, data, files, exit>>

Expire ==
  /\ \E t \in valid : valid' = valid \ {t}
  /\ UNCHANGED <<secret, kv, issued, tokenFile, pc, token, login, mount, data, files, exit>>

Step(f) ==
  \/ FindToken(f) \/ TokenWorks(f) \/ TokenFails(f)
  \/ Listen(f) \/ ListenFails(f) \/ AuthURL(f) \/ AuthURLFails(f) \/ OpenBrowser(f)
  \/ LoggedIn(f) \/ LoginFails(f) \/ LoginTimesOut(f)
  \/ Truncate(f) \/ SaveToken(f) \/ SaveFails(f)
  \/ FindMount(f) \/ ReadSecret(f) \/ ReadFails(f)
  \/ Validate(f) \/ ValidateFails(f)
  \/ Create(f) \/ Fill(f) \/ Rename(f) \/ WriteFails(f) \/ Finish(f)

Next ==
  \/ \E f \in Fetches : Step(f) \/ Callback(f) \/ Kill(f) \/ Restart(f)
  \/ Put \/ Expire

Spec == Init /\ [][Next]_vars

\* A fetch goes on: requests to Vault have a timeout, and so has the login.
\* The browser need not come.
FairSpec == Spec /\ \A f \in Fetches : WF_vars(Step(f))

-----------------------------------------------------------------------------
(* Properties.                                                             *)

Phases == {"start", "check", "listen", "auth_url", "open", "select", "save", "saving",
           "mount", "read", "validate", "create", "fill", "rename", "exited"}

\* Types; what is validated and written is a secret that exists.
TypeOK ==
  /\ secret \in Versions \union {None}
  /\ tokenFile \in Tokens \union {NoToken}
  /\ conf \in [Regions -> Files \union {NoFile}]
  /\ port \in Fetches \union {None}
  /\ pc \in [Fetches -> Phases]
  /\ token \in [Fetches -> Tokens \union {NoToken}]
  /\ data \in [Fetches -> Versions \union {None}]
  /\ \A f \in Fetches : pc[f] \in {"validate", "create"} => data[f] # None
  /\ temp \in [Fetches -> Files \union {NoFile}]

\* Whatever is killed, whenever, and whichever fetches overlap: a config, which
\* a starting proxy may be reading, is not there or complete, and comes from a
\* secret that had this field and no invalid one.
ConfsAreWhole ==
  \A r \in Regions : conf[r] # NoFile =>
    \E v \in Versions : conf[r] = Whole(v) /\ r \in Good[v] /\ Bad[v] = {}

\* A fetch that returns, also with an error, leaves no temporary file behind.
NoLitter == \A f \in Fetches : exit[f] \in {"ok", "error"} => temp[f] = NoFile

\* A fetch that reports success, and that no other one disturbs, has brought all
\* the secret's fields up to date, also over files of an earlier fetch that failed
\* or was killed half-way with another version of the secret.
OkMeansAllWritten ==
  \A f \in Fetches : exit[f] = "ok" => \A r \in Good[data[f]] : conf[r] = Whole(data[f])

\* The secret is asked for with a token that Vault has accepted or issued, never
\* with one of unknown origin or one that a killed fetch left half-saved.
AskedWithToken ==
  \A f \in Fetches : pc[f] \in {"mount", "read"} => token[f] \in issued

\* Every fetch comes to an end, the user's browser or not.
EveryFetchEnds == \A f \in Fetches : pc[f] = "start" ~> pc[f] = "exited"

\* The comment at vault.go:94: a login only if there is no usable token.
LoginOnlyIfNeeded ==
  [][\A f \in Fetches : pc[f] = "check" /\ pc'[f] = "listen" => token[f] \notin valid]_vars
=============================================================================
