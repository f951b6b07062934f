---------------------------- MODULE FetchProofs -----------------------------
(***************************************************************************)
(* Proofs of the safety properties of Fetch, for any number of fetches,    *)
(* regions and versions of the secret.                                     *)
(***************************************************************************)
EXTENDS Fetch, WellFoundedInduction, TLAPS

-----------------------------------------------------------------------------
(* Types.                                                                  *)

Writing == {"create", "fill", "rename"}

TypeInv ==
  /\ secret \in Versions \union {None}
  /\ valid \subseteq issued /\ issued \subseteq Tokens
  /\ tokenFile \in Tokens \union {NoToken}
  /\ conf \in [Regions -> Files \union {NoFile}]
  /\ port \in Fetches \union {None}
  /\ pc \in [Fetches -> Phases]
  /\ token \in [Fetches -> Tokens \union {NoToken}]
  /\ done \in [Fetches -> [login : {"new", "error"}] \union {None}]
  /\ data \in [Fetches -> Versions \union {None}]
  /\ \A f \in Fetches : pc[f] \in {"validate"} \union Writing => data[f] \in Versions
  /\ todo \in [Fetches -> SUBSET Regions]
  /\ temp \in [Fetches -> Files \union {NoFile}]
  /\ exit \in [Fetches -> {"no", "ok", "error", "killed"}]

\* At first every variable has its type.
LEMMA InitTypeInv == Init => TypeInv
  BY DEF Init, TypeInv, Tokens, Phases, Writing

\* The steps of a fetch up to the secret preserve the types ...
LEMMA LoginTypeInv ==
  ASSUME TypeInv, NEW f \in Fetches,
         \/ FindToken(f) \/ TokenWorks(f) \/ TokenFails(f)
         \/ Listen(f) \/ ListenFails(f) \/ AuthURL(f) \/ AuthURLFails(f) \/ OpenBrowser(f)
         \/ LoggedIn(f) \/ LoginFails(f) \/ LoginTimesOut(f)
         \/ Truncate(f) \/ SaveToken(f) \/ SaveFails(f)
         \/ Callback(f) \/ Kill(f) \/ Restart(f)
  PROVE  TypeInv'
<1> USE DEF TypeInv, Phases, Writing, vault, login, files
<1>1. CASE FindToken(f)
  BY <1>1 DEF FindToken, Goto, Tokens
<1>2. CASE TokenWorks(f)
  BY <1>2 DEF TokenWorks, Goto
<1>3. CASE TokenFails(f)
  BY <1>3 DEF TokenFails, Goto
<1>4. CASE Listen(f)
  BY <1>4 DEF Listen, Goto
<1>5. CASE ListenFails(f)
  BY <1>5 DEF ListenFails, Ends
<1>6. CASE AuthURL(f)
  BY <1>6 DEF AuthURL, Goto
<1>7. CASE AuthURLFails(f)
  BY <1>7 DEF AuthURLFails, Ends, Free
<1>8. CASE OpenBrowser(f)
  BY <1>8 DEF OpenBrowser, Goto
<1>9. CASE LoggedIn(f)
  BY <1>9 DEF LoggedIn, Goto, Free, Tokens
<1>10. CASE LoginFails(f)
  BY <1>10 DEF LoginFails, Ends, Free
<1>11. CASE LoginTimesOut(f)
  BY <1>11 DEF LoginTimesOut, Ends, Free
<1>12. CASE Truncate(f)
  BY <1>12 DEF Truncate, Goto
<1>13. CASE SaveToken(f)
  BY <1>13 DEF SaveToken, Goto
<1>14. CASE SaveFails(f)
  BY <1>14 DEF SaveFails, Goto
<1>15. CASE Callback(f)
  BY <1>15 DEF Callback, Tokens
<1>16. CASE Kill(f)
  BY <1>16 DEF Kill, Ends, Free
<1>17. CASE Restart(f)
  BY <1>17 DEF Restart, Goto
<1> QED
  BY <1>1, <1>2, <1>3, <1>4, <1>5, <1>6, <1>7, <1>8, <1>9, <1>10, <1>11, <1>12, <1>13,
     <1>14, <1>15, <1>16, <1>17

\* ... and so do those that read it and write its fields, and what happens to the
\* secret and the token meanwhile.
LEMMA WriteTypeInv ==
  ASSUME TypeInv, NEW f \in Fetches,
         \/ FindMount(f) \/ ReadSecret(f) \/ ReadFails(f) \/ Validate(f) \/ ValidateFails(f)
         \/ Create(f) \/ Fill(f) \/ Rename(f) \/ WriteFails(f) \/ Finish(f)
  PROVE  TypeInv'
<1> USE DEF TypeInv, Phases, Writing, vault, login, files
<1>1. CASE FindMount(f)
  BY <1>1 DEF FindMount, Goto
<1>2. CASE ReadSecret(f)
  BY <1>2 DEF ReadSecret, ReadIf, Goto
<1>3. CASE ReadFails(f)
  BY <1>3 DEF ReadFails, Ends
<1>4. CASE Validate(f)
  <2>1. Good[data[f]] \in SUBSET Regions
    BY <1>4, FetchAssumption DEF Validate, Goto
  <2> QED
    BY <1>4, <2>1 DEF Validate, Goto
<1>5. CASE ValidateFails(f)
  BY <1>5 DEF ValidateFails, Ends
<1>6. CASE Create(f)
  BY <1>6 DEF Create, Goto, Files
<1>7. CASE Fill(f)
  BY <1>7 DEF Fill, Goto, Files
<1>8. CASE Rename(f)
  BY <1>8 DEF Rename, Goto
<1>9. CASE WriteFails(f)
  BY <1>9 DEF WriteFails, WriteEnds, Ends
<1>10. CASE Finish(f)
  BY <1>10 DEF Finish, WriteEnds, Ends
<1> QED
  BY <1>1, <1>2, <1>3, <1>4, <1>5, <1>6, <1>7, <1>8, <1>9, <1>10

\* Every step preserves the types.
LEMMA NextTypeInv == TypeInv /\ [Next]_vars => TypeInv'
<1> SUFFICES ASSUME TypeInv, [Next]_vars PROVE TypeInv'
  OBVIOUS
<1>1. ASSUME NEW f \in Fetches, Step(f) \/ Callback(f) \/ Kill(f) \/ Restart(f)
      PROVE  TypeInv'
  BY <1>1, LoginTypeInv, WriteTypeInv DEF Step
<1>2. CASE Put
  BY <1>2 DEF Put, TypeInv, login, files
<1>3. CASE Expire
  BY <1>3 DEF Expire, TypeInv, login, files
<1>4. CASE UNCHANGED vars
  BY <1>4 DEF vars, vault, login, files, TypeInv
<1> QED
  BY <1>1, <1>2, <1>3, <1>4 DEF Next

-----------------------------------------------------------------------------
(* One fetch.                                                              *)

\* A fetch asks with a token that Vault has accepted or issued, writes the fields
\* of a valid secret only, and keeps a temporary file only while it writes.
Local(f) ==
  /\ exit[f] = "no" <=> pc[f] # "exited"
  /\ pc[f] \in {"save", "saving", "mount", "read"} => token[f] \in issued
  /\ done[f] # None /\ done[f].login = "new" => "new" \in issued
  /\ pc[f] \in Writing => Bad[data[f]] = {} /\ todo[f] \subseteq Good[data[f]]
  /\ pc[f] \in {"fill", "rename"} => todo[f] # {}
  /\ pc[f] = "rename" => temp[f] = Whole(data[f])
  /\ temp[f] # NoFile => pc[f] \in {"fill", "rename"} \/ exit[f] = "killed"

\* The claims about one fetch hold at first.
LEMMA InitLocal == Init => \A f \in Fetches : Local(f)
  BY DEF Init, Local, Writing

\* A fetch that makes no step; others may have tokens issued.
Rests(f) ==
  /\ pc'[f] = pc[f] /\ exit'[f] = exit[f] /\ token'[f] = token[f] /\ done'[f] = done[f]
  /\ data'[f] = data[f] /\ todo'[f] = todo[f] /\ temp'[f] = temp[f]
  /\ issued \subseteq issued'

\* A step of others preserves the claims about a fetch.
LEMMA RestsLocal ==
  ASSUME NEW f \in Fetches, Local(f), Rests(f)
  PROVE  Local(f)'
  BY DEF Local, Rests

\* The steps of one fetch leave the others alone.
LEMMA OthersRest ==
  ASSUME TypeInv, NEW f \in Fetches, Step(f) \/ Callback(f) \/ Kill(f) \/ Restart(f),
         NEW g \in Fetches, g # f
  PROVE  Rests(g)
<1> USE DEF TypeInv, Rests, Goto, Ends, vault, login, files
<1>1. CASE \/ FindToken(f) \/ TokenWorks(f) \/ TokenFails(f) \/ Listen(f) \/ ListenFails(f)
           \/ AuthURL(f) \/ AuthURLFails(f) \/ OpenBrowser(f)
  BY <1>1 DEF FindToken, TokenWorks, TokenFails, Listen, ListenFails, AuthURL, AuthURLFails,
              OpenBrowser
<1>2. CASE \/ LoggedIn(f) \/ LoginFails(f) \/ LoginTimesOut(f)
           \/ Truncate(f) \/ SaveToken(f) \/ SaveFails(f)
  BY <1>2 DEF LoggedIn, LoginFails, LoginTimesOut, Truncate, SaveToken, SaveFails
<1>3. CASE \/ FindMount(f) \/ ReadSecret(f) \/ ReadFails(f) \/ Validate(f) \/ ValidateFails(f)
  BY <1>3 DEF FindMount, ReadSecret, ReadIf, ReadFails, Validate, ValidateFails
<1>4. CASE Create(f) \/ Fill(f) \/ Rename(f) \/ WriteFails(f) \/ Finish(f)
  BY <1>4 DEF Create, Fill, Rename, WriteFails, Finish, WriteEnds
<1>5. CASE Callback(f) \/ Kill(f) \/ Restart(f)
  BY <1>5 DEF Callback, Kill, Restart
<1> QED
  BY <1>1, <1>2, <1>3, <1>4, <1>5 DEF Step

\* The steps of a fetch itself.
LEMMA LoginLocal ==
  ASSUME TypeInv, NEW f \in Fetches, Local(f),
         \/ FindToken(f) \/ TokenWorks(f) \/ TokenFails(f)
         \/ Listen(f) \/ ListenFails(f) \/ AuthURL(f) \/ AuthURLFails(f) \/ OpenBrowser(f)
         \/ LoggedIn(f) \/ LoginFails(f) \/ LoginTimesOut(f)
         \/ Truncate(f) \/ SaveToken(f) \/ SaveFails(f)
         \/ Callback(f) \/ Kill(f) \/ Restart(f)
  PROVE  Local(f)'
<1> USE DEF TypeInv, Local, Writing, Phases, Goto, Ends, vault, login, files
<1>1. CASE FindToken(f)
  BY <1>1 DEF FindToken
<1>2. CASE TokenWorks(f)
  BY <1>2 DEF TokenWorks, Accepted
<1>3. CASE TokenFails(f) \/ AuthURL(f) \/ OpenBrowser(f)
  BY <1>3 DEF TokenFails, AuthURL, OpenBrowser
<1>4. CASE Listen(f)
  BY <1>4 DEF Listen
<1>5. CASE ListenFails(f) \/ AuthURLFails(f) \/ LoginFails(f) \/ LoginTimesOut(f)
  BY <1>5 DEF ListenFails, AuthURLFails, LoginFails, LoginTimesOut
<1>6. CASE LoggedIn(f)
  BY <1>6 DEF LoggedIn
<1>7. CASE Truncate(f) \/ SaveToken(f) \/ SaveFails(f)
  BY <1>7 DEF Truncate, SaveToken, SaveFails
<1>8. CASE Callback(f)
  <2>1. PICK res \in {"new", "error"} :
          /\ issued' = issued \union ({res} \intersect Tokens)
          /\ done' = IF done[f] = None THEN [done EXCEPT ![f] = [login |-> res]] ELSE done
    BY <1>8 DEF Callback
  <2>2. /\ pc'[f] \notin Writing \union {"save", "saving", "mount", "read"}
        /\ UNCHANGED <<pc, exit, token, data, todo, temp>>
    BY <1>8 DEF Callback
  <2>3. done'[f] = done[f] \/ done'[f] = [login |-> res]
    BY <2>1
  <2>4. done'[f] # None /\ done'[f].login = "new" => "new" \in issued'
    BY <2>1, <2>3 DEF Tokens
  <2> QED
    BY <2>2, <2>4
<1>9. CASE Kill(f)
  BY <1>9 DEF Kill
<1>10. CASE Restart(f)
  BY <1>10 DEF Restart
<1> QED
  BY <1>1, <1>2, <1>3, <1>4, <1>5, <1>6, <1>7, <1>8, <1>9, <1>10

\* So do its own steps that write the fields of the secret ...
LEMMA WriteLocal ==
  ASSUME TypeInv, NEW f \in Fetches, Local(f),
         \/ FindMount(f) \/ ReadSecret(f) \/ ReadFails(f) \/ Validate(f) \/ ValidateFails(f)
         \/ Create(f) \/ Fill(f) \/ Rename(f) \/ WriteFails(f) \/ Finish(f)
  PROVE  Local(f)'
<1> USE DEF TypeInv, Local, Writing, Phases, Goto, Ends, vault, login, files
<1>1. CASE FindMount(f)
  BY <1>1 DEF FindMount
<1>2. CASE ReadSecret(f)
  BY <1>2 DEF ReadSecret, ReadIf
<1>3. CASE ReadFails(f) \/ ValidateFails(f)
  BY <1>3 DEF ReadFails, ValidateFails
<1>4. CASE Validate(f)
  BY <1>4 DEF Validate, Writable
<1>5. CASE Create(f)
  BY <1>5 DEF Create
<1>6. CASE Fill(f)
  BY <1>6 DEF Fill
<1>7. CASE Rename(f)
  BY <1>7 DEF Rename
<1>8. CASE WriteFails(f) \/ Finish(f)
  BY <1>8 DEF WriteFails, Finish, WriteEnds
<1> QED
  BY <1>1, <1>2, <1>3, <1>4, <1>5, <1>6, <1>7, <1>8

\* ... and so does every step there is.
LEMMA NextLocal ==
  TypeInv /\ (\A f \in Fetches : Local(f)) /\ [Next]_vars => \A f \in Fetches : Local(f)'
<1> SUFFICES ASSUME TypeInv, \A f \in Fetches : Local(f), [Next]_vars, NEW f \in Fetches
             PROVE  Local(f)'
  OBVIOUS
<1>1. ASSUME NEW g \in Fetches, Step(g) \/ Callback(g) \/ Kill(g) \/ Restart(g)
      PROVE  Local(f)'
  <2>1. CASE f = g
    BY <1>1, <2>1, LoginLocal, WriteLocal DEF Step
  <2>2. CASE f # g
    BY <1>1, <2>2, OthersRest, RestsLocal
  <2> QED
    BY <2>1, <2>2
<1>2. CASE Put \/ Expire \/ UNCHANGED vars
  <2>1. Rests(f)
    BY <1>2 DEF Put, Expire, vars, vault, login, files, Rests
  <2> QED
    BY <2>1, RestsLocal
<1> QED
  BY <1>1, <1>2 DEF Next

-----------------------------------------------------------------------------
(* The configs.                                                            *)

\* The field that is written next is one of those that are left.
LEMMA FirstIsLeft ==
  ASSUME NEW S \in SUBSET Nat, S # {}
  PROVE  First(S) \in S
<1>1. PICK r \in S : \A s \in S : ~(<<s, r>> \in OpToRel(<, Nat))
  BY NatLessThanWellFounded, WFMin
<1>2. ASSUME NEW s \in S PROVE r <= s
  <2>1. s \in Nat /\ r \in Nat /\ <<s, r>> \in Nat \X Nat
    OBVIOUS
  <2>2. <<s, r>>[1] = s /\ <<s, r>>[2] = r
    OBVIOUS
  <2>3. ~(s < r)
    BY <1>1, <2>1, <2>2, Zenon DEF OpToRel
  <2> QED
    BY <2>1, <2>3
<1> QED
  BY <1>2 DEF First

\* Only Rename writes to a config, and what it writes is whole.
LEMMA RenameIsWhole ==
  ASSUME TypeInv, NEW f \in Fetches, Local(f), Rename(f)
  PROVE  /\ Region(f) \in todo[f] /\ Region(f) \in Regions /\ data[f] \in Versions
         /\ Region(f) \in Good[data[f]] /\ Bad[data[f]] = {}
         /\ conf' = [conf EXCEPT ![Region(f)] = Whole(data[f])]
<1>1. pc[f] = "rename"
  BY DEF Rename, Goto
<1>2. /\ todo[f] \in SUBSET Regions /\ todo[f] # {} /\ temp[f] = Whole(data[f])
      /\ data[f] \in Versions /\ Bad[data[f]] = {} /\ todo[f] \subseteq Good[data[f]]
  BY <1>1 DEF TypeInv, Local, Writing
<1>3. Region(f) \in todo[f]
  BY <1>2, FirstIsLeft, FetchAssumption DEF Region
<1> QED
  BY <1>2, <1>3 DEF Rename

\* Only renaming a temporary file changes a config.
LEMMA OthersWriteNothing ==
  ASSUME [Next]_vars, \A f \in Fetches : ~Rename(f)
  PROVE  conf' = conf
<1>1. ASSUME NEW f \in Fetches, Step(f) \/ Callback(f) \/ Kill(f) \/ Restart(f)
      PROVE  conf' = conf
  BY <1>1 DEF Step, Callback, Kill, Restart, FindToken, TokenWorks, TokenFails, Listen,
     ListenFails, AuthURL, AuthURLFails, OpenBrowser, LoggedIn, LoginFails, LoginTimesOut,
     Truncate, SaveToken, SaveFails, FindMount, ReadSecret, ReadIf, ReadFails, Validate,
     ValidateFails, Create, Fill, WriteFails, Finish, WriteEnds, files
<1> QED
  BY <1>1 DEF Next, Put, Expire, vars, files

\* Every step leaves whole configs: what is renamed has been written in full.
LEMMA NextConfs ==
  TypeInv /\ (\A f \in Fetches : Local(f)) /\ ConfsAreWhole /\ [Next]_vars => ConfsAreWhole'
<1> SUFFICES ASSUME TypeInv, \A f \in Fetches : Local(f), ConfsAreWhole, [Next]_vars
             PROVE  ConfsAreWhole'
  OBVIOUS
<1>1. ASSUME NEW f \in Fetches, Rename(f) PROVE ConfsAreWhole'
  <2>1. /\ Region(f) \in Regions /\ data[f] \in Versions
        /\ Region(f) \in Good[data[f]] /\ Bad[data[f]] = {}
        /\ conf' = [conf EXCEPT ![Region(f)] = Whole(data[f])]
    BY <1>1, RenameIsWhole
  <2>2. ASSUME NEW r \in Regions, conf'[r] # NoFile
        PROVE  \E v \in Versions : conf'[r] = Whole(v) /\ r \in Good[v] /\ Bad[v] = {}
    <3>1. CASE r = Region(f)
      BY <2>1, <3>1 DEF TypeInv
    <3>2. CASE r # Region(f)
      <4>1. conf'[r] = conf[r]
        BY <2>1, <3>2 DEF TypeInv
      <4> QED
        BY <2>2, <4>1 DEF ConfsAreWhole
    <3> QED
      BY <3>1, <3>2
  <2> QED
    BY <2>2 DEF ConfsAreWhole
<1>2. CASE conf' = conf
  BY <1>2 DEF ConfsAreWhole
<1> QED
  BY <1>1, <1>2, OthersWriteNothing

-----------------------------------------------------------------------------
(* The theorems.                                                           *)

Inv == TypeInv /\ (\A f \in Fetches : Local(f)) /\ ConfsAreWhole

\* The invariant holds at first.
LEMMA InitInv == Init => Inv
<1>1. Init => ConfsAreWhole
  BY DEF Init, ConfsAreWhole
<1> QED
  BY <1>1, InitTypeInv, InitLocal DEF Inv

\* Every step preserves the invariant.
LEMMA NextInv == Inv /\ [Next]_vars => Inv'
  BY NextTypeInv, NextLocal, NextConfs DEF Inv

\* The invariant holds however many fetches overlap, are killed or started again.
THEOREM Invariance == Spec => []Inv
  BY InitInv, NextInv, PTL DEF Spec

\* The types hold: what is validated and written is a secret that exists.
THEOREM Types == Spec => []TypeOK
<1>1. Inv => TypeOK
  BY FetchAssumption DEF Inv, TypeInv, TypeOK, Writing
<1> QED
  BY <1>1, Invariance, PTL

\* A proxy that starts at any moment finds each config complete or missing, and
\* its content was a good field of a secret without a bad one.
THEOREM ConfigsAreWhole == Spec => []ConfsAreWhole
<1>1. Inv => ConfsAreWhole
  BY DEF Inv
<1> QED
  BY <1>1, Invariance, PTL

\* A fetch that returns leaves no temporary file.
THEOREM LeavesNoLitter == Spec => []NoLitter
<1>1. Inv => NoLitter
  BY DEF Inv, Local, NoLitter
<1> QED
  BY <1>1, Invariance, PTL

\* Vault is asked only with a token that it has accepted or issued.
THEOREM AsksWithToken == Spec => []AskedWithToken
<1>1. Inv => AskedWithToken
  BY DEF Inv, Local, AskedWithToken
<1> QED
  BY <1>1, Invariance, PTL

-----------------------------------------------------------------------------
(* One fetch at a time.                                                    *)

\* What f has read is in the configs, but for what it has still to write.
Written(f) ==
  /\ pc[f] \in Writing => \A r \in Good[data[f]] \ todo[f] : conf[r] = Whole(data[f])
  /\ exit[f] = "ok" => \A r \in Good[data[f]] : conf[r] = Whole(data[f])

\* A fetch without company keeps what it has written, until it is started again.
LEMMA NextWritten ==
  ASSUME \A f, g \in Fetches : f = g, NEW f \in Fetches, Inv, Written(f), [Next]_vars
  PROVE  Written(f)'
<1> USE DEF Writing
<1>1. TypeInv /\ Local(f)
  BY DEF Inv
<1>2. CASE Rename(f)
  <2>1. /\ Region(f) \in Regions /\ conf' = [conf EXCEPT ![Region(f)] = Whole(data[f])]
        /\ todo'[f] = todo[f] \ {Region(f)} /\ UNCHANGED <<data, exit>>
        /\ pc[f] = "rename"
    BY <1>1, <1>2, RenameIsWhole DEF Rename, Goto, TypeInv
  <2>2. exit[f] = "no" /\ data[f] \in Versions /\ Good[data[f]] \subseteq Regions
    BY <1>1, <2>1, FetchAssumption DEF Local, TypeInv
  <2>3. ASSUME NEW r \in Good[data[f]] \ todo'[f] PROVE conf'[r] = Whole(data[f])
    <3>1. CASE r = Region(f)
      BY <1>1, <2>1, <3>1 DEF TypeInv
    <3>2. CASE r # Region(f)
      BY <1>1, <2>1, <2>2, <3>2 DEF TypeInv, Written
    <3> QED
      BY <3>1, <3>2
  <2> QED
    BY <2>1, <2>2, <2>3 DEF Written
<1>3. ASSUME conf' = conf,
             \/ Rests(f)
             \/ pc'[f] \notin Writing /\ exit'[f] # "ok"
             \/ Validate(f) \/ Create(f) \/ Fill(f) \/ Finish(f)
      PROVE  Written(f)'
  BY <1>1, <1>3 DEF Written, Rests, Validate, Create, Fill, Finish, WriteEnds, Ends, Goto,
     Local, TypeInv, files
<1>4. CASE Step(f) /\ ~Rename(f)
  <2>1. \/ pc'[f] \notin Writing /\ exit'[f] # "ok"
        \/ Validate(f) \/ Create(f) \/ Fill(f) \/ Finish(f)
    BY <1>1, <1>4 DEF Step, FindToken, TokenWorks, TokenFails, Listen,
     ListenFails, AuthURL, AuthURLFails, OpenBrowser, LoggedIn, LoginFails, LoginTimesOut,
     Truncate, SaveToken, SaveFails, FindMount, ReadSecret, ReadIf, ReadFails,
     ValidateFails, WriteFails, WriteEnds, Goto, Ends, Local, TypeInv
  <2>2. conf' = conf
    BY <1>4, OthersWriteNothing
  <2> QED
    BY <1>3, <2>1, <2>2
<1>5. CASE Callback(f) \/ Kill(f) \/ Restart(f)
  BY <1>1, <1>3, <1>5 DEF Callback, Kill, Restart, Goto, Ends, Local, TypeInv, files
<1>6. CASE Put \/ Expire \/ UNCHANGED vars
  BY <1>3, <1>6 DEF Put, Expire, vars, vault, login, files, Rests
<1> QED
  BY <1>2, <1>4, <1>5, <1>6 DEF Next

\* If only one fetch ever runs at a time, success means that every field of the
\* secret it has read is in its config.
THEOREM SuccessMeansAllWritten ==
  ASSUME \A f, g \in Fetches : f = g
  PROVE  Spec => []OkMeansAllWritten
<1> DEFINE AllWritten == \A f \in Fetches : Written(f)
<1>1. Init => AllWritten
  BY DEF Init, Written, Writing
<1>2. Inv /\ AllWritten /\ [Next]_vars => AllWritten'
  BY NextWritten
<1>3. AllWritten => OkMeansAllWritten
  BY DEF Written, OkMeansAllWritten
<1> QED
  BY <1>1, <1>2, <1>3, Invariance, PTL DEF Spec
=============================================================================
