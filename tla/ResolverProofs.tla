--------------------------- MODULE ResolverProofs ---------------------------
(***************************************************************************)
(* Proofs of the safety properties of Resolver, for any number of          *)
(* connections, names, addresses and lookups and any settings of the TTL   *)
(* bounds and the budget, and of its refinement of NameService.            *)
(***************************************************************************)
EXTENDS Resolver, TLAPS

Resolving == {"read", "check", "join", "wait"}

\* A caller that is in Resolve wants a name, one that is not wants nothing,
\* and a lookup is of a name: what TypeOK needs to be inductive.
Placed ==
  /\ \A p \in Callers : /\ pc[p] \in Resolving => host[p] \in Names
                        /\ pc[p] = "idle" => host[p] = None
  /\ \A c \in Calls : phase[c] # "free" => ckey[c] \in Keys

TypeInv == TypeOK /\ Placed

\* The resolver that newResolver returns has well-typed maps and no callers.
LEMMA InitTypeInv == Init => TypeInv
  BY ResolverAssumption
  DEF Init, TypeInv, Placed, Resolving, TypeOK, Phases, Unpublished, PCs, NoAnswer,
      NoResult, NoReply, Answer, Sources

\* Each step of a caller, of a lookup and of the clock keeps types and places.
LEMMA NextTypeInv == TypeInv /\ [Next]_vars => TypeInv'
<1> SUFFICES ASSUME TypeInv, [Next]_vars PROVE TypeInv'
  OBVIOUS
<1> USE ResolverAssumption
        DEF TypeInv, Placed, Resolving, TypeOK, Phases, Unpublished, PCs, Answer, Entry, Sources,
            lookupVars, callerVars, Goto, Return, Failed
<1>1. ASSUME NEW p \in Callers, NEW a \in Addrs, ResolveLiteral(p, a) PROVE TypeInv'
  BY <1>1 DEF ResolveLiteral, Dialable
<1>2. ASSUME NEW p \in Callers, NEW n \in Names, ResolveName(p, n) PROVE TypeInv'
  BY <1>2 DEF ResolveName, ResolveUntil
<1>3. ASSUME NEW p \in Callers, ReadCache(p) PROVE TypeInv'
  BY <1>3 DEF ReadCache, Key
<1>4. ASSUME NEW p \in Callers, HitCache(p) PROVE TypeInv'
  BY <1>4 DEF HitCache, Fresh
<1>5. ASSUME NEW p \in Callers, MissCache(p) PROVE TypeInv'
  BY <1>5 DEF MissCache
<1>6. ASSUME NEW p \in Callers, JoinLookup(p) PROVE TypeInv'
  BY <1>6 DEF JoinLookup, Key
<1>7. ASSUME NEW p \in Callers, StartLookup(p) PROVE TypeInv'
  BY <1>7 DEF StartLookup, Key
<1>8. ASSUME NEW p \in Callers, Receive(p) PROVE TypeInv'
  BY <1>8 DEF Receive, Fallback
<1>9. ASSUME NEW p \in Callers, GiveUp(p) PROVE TypeInv'
  BY <1>9 DEF GiveUp, Fallback
<1>10. ASSUME NEW p \in Callers, Leave(p) PROVE TypeInv'
  BY <1>10 DEF Leave, NoReply
<1>11. ASSUME NEW c \in Calls, LookupSucceeds(c) PROVE TypeInv'
  BY <1>11 DEF LookupSucceeds, Succeed, LookupAddrs, Answerable, Clamp, AtMost, AtLeast
<1>12. ASSUME NEW c \in Calls, LookupFails(c) PROVE TypeInv'
  BY <1>12 DEF LookupFails
<1>13. ASSUME NEW c \in Calls, Publish(c) PROVE TypeInv'
  BY <1>13 DEF Publish, PublishAs, Filled, Landed, Succeeded
<1>14. ASSUME NEW c \in Calls, Close(c) PROVE TypeInv'
  BY <1>14 DEF Close, CloseFrom, Outcome, Succeeded
<1>15. ASSUME NEW c \in Calls, Recycle(c) PROVE TypeInv'
  BY <1>15 DEF Recycle, NoAnswer, NoResult
<1>16. CASE Tick
  BY <1>16 DEF Tick
<1>17. CASE UNCHANGED vars
  BY <1>17 DEF vars
<1> QED
  BY <1>1, <1>2, <1>3, <1>4, <1>5, <1>6, <1>7, <1>8, <1>9, <1>10, <1>11, <1>12,
     <1>13, <1>14, <1>15, <1>16, <1>17
  DEF Next, CallerStep, LookupStep

\* Every variable keeps its type; no failed lookup ever enters the cache.
THEOREM TypeCorrect == Spec => []TypeOK
  <1>1. TypeInv => TypeOK
  BY DEF TypeInv
<1> QED
  BY <1>1, InitTypeInv, NextTypeInv, PTL DEF Spec

-----------------------------------------------------------------------------
(* One lookup at a time for each name.                                     *)

\* What SingleFlight says of a call and of the name it is in flight for.
LEMMA InFlight ==
  SingleFlight => \A k \in Keys, c \in Calls :
    /\ inflight[k] = c => phase[c] # "free" /\ ckey[c] = k
    /\ phase[c] = "returned" /\ ckey[c] = k => inflight[k] = c
  BY DEF SingleFlight, Unpublished

\* At the start nothing is in flight.
LEMMA InitSingleFlight == Init => SingleFlight
  BY ResolverAssumption DEF Init, SingleFlight, Unpublished

\* Only StartLookup adds a call in flight, where there was none, and only
\* Publish, the last critical section of every lookup, takes one out.
LEMMA NextSingleFlight == TypeInv /\ SingleFlight /\ [Next]_vars => SingleFlight'
<1> SUFFICES ASSUME TypeInv, SingleFlight, [Next]_vars PROVE SingleFlight'
  OBVIOUS
<1> USE ResolverAssumption
        DEF TypeInv, Placed, Resolving, TypeOK, SingleFlight, Unpublished, Goto,
            lookupVars, callerVars
<1>1. CASE UNCHANGED <<inflight, phase, ckey>>
  BY <1>1
<1>2. ASSUME NEW p \in Callers, StartLookup(p) PROVE SingleFlight'
  BY <1>2 DEF StartLookup, Key
<1>3. ASSUME NEW c \in Calls, LookupSucceeds(c) PROVE SingleFlight'
  BY <1>3 DEF LookupSucceeds, Succeed
<1>4. ASSUME NEW c \in Calls, LookupFails(c) PROVE SingleFlight'
  BY <1>4 DEF LookupFails
<1>5. ASSUME NEW c \in Calls, Publish(c) PROVE SingleFlight'
  BY <1>5 DEF Publish, PublishAs, Landed
<1>6. ASSUME NEW c \in Calls, Close(c) PROVE SingleFlight'
  BY <1>6 DEF Close, CloseFrom
<1>7. ASSUME NEW c \in Calls, Recycle(c) PROVE SingleFlight'
  BY <1>7 DEF Recycle
<1> QED
  BY <1>1, <1>2, <1>3, <1>4, <1>5, <1>6, <1>7
  DEF Next, vars, CallerStep, LookupStep, ResolveLiteral, ResolveName, ResolveUntil,
      ReadCache, HitCache, MissCache, JoinLookup, Receive, GiveUp, Leave, Tick

\* However connections and lookups interleave, a name has at most one lookup
\* in flight, and the map of calls in flight holds no other.
THEOREM OneLookupPerName == Spec => []SingleFlight
  BY InitTypeInv, NextTypeInv, InitSingleFlight, NextSingleFlight, PTL DEF Spec

-----------------------------------------------------------------------------
(* Where addresses come from.                                              *)

\* Every place that holds an address of a name -- the cache, a caller's copy
\* of an entry, an answer on its way -- holds one that a lookup of that name
\* returned; a caller waits for a lookup of the name it wants.
Sourced ==
  /\ \A k \in Keys : /\ learned[k] \subseteq Dialable
                     /\ cache[k] # None => cache[k].ip \in learned[k]
  /\ \A c \in Calls :
       /\ phase[c] \in {"free", "running"} => answer[c].ip = None
       /\ answer[c].ip # None => answer[c].ip \in learned[ckey[c]]
       /\ phase[c] = "closed" => result[c] = Outcome(c)
  /\ \A p \in Callers :
       /\ seen[p] # None => pc[p] \in Resolving /\ seen[p].ip \in learned[Key(p)]
       /\ pc[p] = "read" => seen[p] = None
       /\ call[p] # None => /\ pc[p] = "wait"
                            /\ phase[call[p]] # "free"
                            /\ ckey[call[p]] = Key(p)

\* At the start there is no address whose source is in doubt.
LEMMA InitSourced == Init => Sourced /\ ReplySound
  BY ResolverAssumption DEF Init, Sourced, ReplySound, NoAnswer

\* Snapshots, shared results and cache entries hand on addresses of the name
\* they belong to, so that what Resolve returns is one of its own name's.
LEMMA NextSourced ==
  TypeInv /\ SingleFlight /\ Sourced /\ ReplySound /\ [Next]_vars => Sourced' /\ ReplySound'
<1> SUFFICES ASSUME TypeInv, SingleFlight, Sourced, ReplySound, [Next]_vars
             PROVE  Sourced' /\ ReplySound'
  OBVIOUS
<1> USE ResolverAssumption
        DEF TypeInv, Placed, Resolving, TypeOK, Sourced, ReplySound, Key, Entry, Answer,
            lookupVars, callerVars, Goto, Return, Failed, Outcome, Succeeded
<1>1. ASSUME NEW p \in Callers, NEW a \in Addrs, ResolveLiteral(p, a)
      PROVE  Sourced' /\ ReplySound'
  BY <1>1 DEF ResolveLiteral, Dialable
<1>2. ASSUME NEW p \in Callers, NEW n \in Names, ResolveName(p, n)
      PROVE  Sourced' /\ ReplySound'
  BY <1>2 DEF ResolveName, ResolveUntil
<1>3. ASSUME NEW p \in Callers, ReadCache(p) PROVE Sourced' /\ ReplySound'
  BY <1>3 DEF ReadCache
<1>4. ASSUME NEW p \in Callers, HitCache(p) PROVE Sourced' /\ ReplySound'
  BY <1>4 DEF HitCache, Fresh
<1>5. ASSUME NEW p \in Callers, MissCache(p) PROVE Sourced' /\ ReplySound'
  BY <1>5 DEF MissCache
<1>6. ASSUME NEW p \in Callers, JoinLookup(p) PROVE Sourced' /\ ReplySound'
  <2> DEFINE c == inflight[Key(p)]
  <2>1. c \in Calls /\ phase[c] # "free" /\ ckey[c] = Key(p)
    <3>1. c \in Calls /\ Key(p) \in Keys
      BY <1>6 DEF JoinLookup
    <3> QED
      BY <3>1, InFlight
  <2> QED
    BY <1>6, <2>1 DEF JoinLookup
<1>7. ASSUME NEW p \in Callers, StartLookup(p) PROVE Sourced' /\ ReplySound'
  BY <1>7 DEF StartLookup
<1>8. ASSUME NEW p \in Callers, Receive(p) PROVE Sourced' /\ ReplySound'
  BY <1>8 DEF Receive, Fallback
<1>9. ASSUME NEW p \in Callers, GiveUp(p) PROVE Sourced' /\ ReplySound'
  BY <1>9 DEF GiveUp, Fallback
<1>10. ASSUME NEW p \in Callers, Leave(p) PROVE Sourced' /\ ReplySound'
  BY <1>10 DEF Leave
<1>11. ASSUME NEW c \in Calls, LookupSucceeds(c) PROVE Sourced' /\ ReplySound'
  BY <1>11 DEF LookupSucceeds, Succeed, LookupAddrs, Answerable, Dialable
<1>12. ASSUME NEW c \in Calls, LookupFails(c) PROVE Sourced' /\ ReplySound'
  BY <1>12 DEF LookupFails
<1>13. ASSUME NEW c \in Calls, Publish(c) PROVE Sourced' /\ ReplySound'
  BY <1>13 DEF Publish, PublishAs, Filled
<1>14. ASSUME NEW c \in Calls, Close(c) PROVE Sourced' /\ ReplySound'
  BY <1>14 DEF Close, CloseFrom
<1>15. ASSUME NEW c \in Calls, Recycle(c) PROVE Sourced' /\ ReplySound'
  BY <1>15 DEF Recycle, NoAnswer
<1>16. CASE Tick
  BY <1>16 DEF Tick
<1>17. CASE UNCHANGED vars
  BY <1>17 DEF vars
<1> QED
  BY <1>1, <1>2, <1>3, <1>4, <1>5, <1>6, <1>7, <1>8, <1>9, <1>10, <1>11, <1>12,
     <1>13, <1>14, <1>15, <1>16, <1>17
  DEF Next, CallerStep, LookupStep

\* Whatever Resolve returns, to whichever of the callers that share a lookup,
\* is a failure or a dialable address that belongs to the host asked for.
THEOREM RepliesAreSound == Spec => []ReplySound
  BY InitTypeInv, NextTypeInv, InitSingleFlight, NextSingleFlight, InitSourced, NextSourced,
     PTL
  DEF Spec

-----------------------------------------------------------------------------
(* Answers in time.                                                        *)

\* Answers come from the past, with a TTL within its bounds; one that is still
\* to be published is no older than the entry it will replace, and one that
\* has been published is no newer than the entry now there.
Timely ==
  /\ \A k \in Keys : cache[k] # None => cache[k].obtained <= now
  /\ \A c \in Calls : answer[c].ip # None =>
       /\ answer[c].obtained <= now
       /\ MinTTL <= answer[c].ttl /\ answer[c].ttl <= MaxTTL
       /\ phase[c] = "returned" /\ cache[ckey[c]] # None =>
            cache[ckey[c]].obtained <= answer[c].obtained
       /\ phase[c] \in {"published", "closed"} =>
            /\ cache[ckey[c]] # None
            /\ answer[c].obtained <= cache[ckey[c]].obtained

\* At the start there is no entry that could be too old or live too long.
LEMMA InitTimely == Init => Timely /\ PinnedWithinTTL
  BY DEF Init, Timely, PinnedWithinTTL, NoAnswer

\* Of a name at most one lookup has returned and not yet published.
LEMMA OneReturned ==
  TypeInv /\ SingleFlight => \A c, d \in Calls :
    phase[c] = "returned" /\ phase[d] = "returned" /\ ckey[c] = ckey[d] => c = d
<1> SUFFICES ASSUME TypeInv, SingleFlight, NEW c \in Calls, NEW d \in Calls,
                    phase[c] = "returned", phase[d] = "returned", ckey[c] = ckey[d]
             PROVE  c = d
  OBVIOUS
<1>1. ckey[c] \in Keys
  BY DEF TypeInv, Placed
<1>2. inflight[ckey[c]] = c /\ inflight[ckey[c]] = d
  BY <1>1, InFlight
<1> QED
  BY <1>2

\* Clamping bounds the life of an entry, and because a name has one lookup at
\* a time, the answer that is published is the latest of its name.
LEMMA NextTimely ==
  TypeInv /\ SingleFlight /\ Sourced /\ Timely /\ PinnedWithinTTL /\ [Next]_vars
  => Timely' /\ PinnedWithinTTL'
<1> SUFFICES ASSUME TypeInv, SingleFlight, Sourced, Timely, PinnedWithinTTL, [Next]_vars
             PROVE  Timely' /\ PinnedWithinTTL'
  OBVIOUS
<1> USE ResolverAssumption
        DEF TypeInv, Placed, Resolving, TypeOK, Timely, PinnedWithinTTL, Entry, Answer,
            lookupVars, callerVars
<1>1. CASE UNCHANGED <<now, cache, phase, ckey, answer>>
  BY <1>1
<1>2. ASSUME NEW p \in Callers, StartLookup(p) PROVE Timely' /\ PinnedWithinTTL'
  BY <1>2 DEF StartLookup, Sourced
<1>3. ASSUME NEW c \in Calls, LookupSucceeds(c) PROVE Timely' /\ PinnedWithinTTL'
  <2>1. \A t \in TTLs : Clamp(t) \in Nat /\ MinTTL <= Clamp(t) /\ Clamp(t) <= MaxTTL
    BY DEF Clamp, AtMost, AtLeast
  <2> QED
    BY <1>3, <2>1 DEF LookupSucceeds, Succeed
<1>4. ASSUME NEW c \in Calls, LookupFails(c) PROVE Timely' /\ PinnedWithinTTL'
  BY <1>4 DEF LookupFails, Sourced
<1>5. ASSUME NEW c \in Calls, Publish(c) PROVE Timely' /\ PinnedWithinTTL'
  <2>1. \A d \in Calls : phase[d] = "returned" /\ ckey[d] = ckey[c] => d = c
    BY <1>5, OneReturned, Zenon DEF Publish, PublishAs
  <2> QED
    BY <1>5, <2>1 DEF Publish, PublishAs, Filled, Succeeded
<1>6. ASSUME NEW c \in Calls, Close(c) PROVE Timely' /\ PinnedWithinTTL'
  BY <1>6 DEF Close, CloseFrom
<1>7. ASSUME NEW c \in Calls, Recycle(c) PROVE Timely' /\ PinnedWithinTTL'
  BY <1>7 DEF Recycle, NoAnswer
<1>8. CASE Tick
  BY <1>8 DEF Tick
<1> QED
  BY <1>1, <1>2, <1>3, <1>4, <1>5, <1>6, <1>7, <1>8
  DEF Next, vars, CallerStep, LookupStep, ResolveLiteral, ResolveName, ResolveUntil,
      ReadCache, HitCache, MissCache, JoinLookup, Receive, GiveUp, Leave

\* The inductive invariant.
Inv == TypeInv /\ SingleFlight /\ Sourced /\ ReplySound /\ Timely /\ PinnedWithinTTL

\* The inductive invariant holds in every reachable state.
LEMMA Invariance == Spec => []Inv
<1>1. Init => Inv
  BY InitTypeInv, InitSingleFlight, InitSourced, InitTimely DEF Inv
<1>2. Inv /\ [Next]_vars => Inv'
  BY NextTypeInv, NextSingleFlight, NextSourced, NextTimely DEF Inv
<1> QED
  BY <1>1, <1>2, PTL DEF Spec

\* An answer stays in the cache at least for the floor and at most for the
\* ceiling, for every TTL the servers may send.
THEOREM EntriesAreClamped == Spec => []PinnedWithinTTL
<1>1. Inv => PinnedWithinTTL
  BY DEF Inv
<1> QED
  BY <1>1, Invariance, PTL

\* When a lookup's waiters can see its answer, so can every later connection.
THEOREM AnswersAreCachedFirst == Spec => []AnswerInCacheFirst
<1>1. Inv => AnswerInCacheFirst
  BY DEF Inv, Sourced, Timely, AnswerInCacheFirst, Outcome, Succeeded, TypeInv, TypeOK,
         Placed, Entry, Answer
<1> QED
  BY <1>1, Invariance, PTL

\* No interleaving of lookups replaces an entry of the cache by an older one.
THEOREM CacheIsMonotonic == Spec => CacheMovesForward
<1> DEFINE Forward == \A k \in Keys : cache[k] # None =>
                        cache'[k] # None /\ cache'[k].obtained >= cache[k].obtained
<1>1. Inv /\ [Next]_vars => [Forward]_vars
  <2> SUFFICES ASSUME Inv, Next PROVE Forward
    OBVIOUS
  <2> USE ResolverAssumption DEF Inv, TypeInv, TypeOK, Placed, Entry
  <2>1. CASE UNCHANGED cache
    BY <2>1
  <2>2. ASSUME NEW c \in Calls, Publish(c) PROVE Forward
    BY <2>2 DEF Publish, PublishAs, Filled, Succeeded, Timely, Answer
  <2> QED
    BY <2>1, <2>2
    DEF Next, CallerStep, LookupStep, ResolveLiteral, ResolveName, ResolveUntil, ReadCache,
        HitCache, MissCache, JoinLookup, StartLookup, Receive, GiveUp, Leave,
        LookupSucceeds, Succeed, LookupFails, Close, CloseFrom, Recycle, Tick
<1> QED
  BY <1>1, Invariance, PTL DEF Spec, CacheMovesForward

-----------------------------------------------------------------------------
(* The resolver implements the name service.                               *)

\* A resolver without callers is a name service nobody has asked.
LEMMA InitRefines == Init => NS!Init
<1> SUFFICES ASSUME Init PROVE NS!Init
  OBVIOUS
<1>1. \A p \in Callers : pc[p] # "done"
  BY DEF Init
<1>2. [p \in Callers |-> pc[p] = "done"] = [p \in Callers |-> FALSE]
  BY <1>1, Zenon
<1>3. [p \in Callers |-> reply[p].ip] = [p \in Callers |-> None]
  BY DEF Init, NoReply
<1> QED
  BY <1>2, <1>3 DEF Init, NS!Init

\* A caller that returns from Resolve with a learned address, or none, takes
\* the name service's Reply step.
LEMMA ReturnRefines ==
  ASSUME TypeInv, NEW p \in Callers, NEW from \in Resolving, NEW r,
         Return(p, from, r), r.ip \in learned[Key(p)] \union {None},
         UNCHANGED <<host, learned>>
  PROVE  NS!Next
<1>1. NS!Reply(p)
  BY DEF NS!Reply, Return, Goto, TypeInv, TypeOK, Placed, Key, Resolving
<1> QED
  BY <1>1 DEF NS!Next

\* Every step of the resolver is one of the name service, or invisible to it.
LEMMA NextRefines == Inv /\ [Next]_vars => [NS!Next]_(NS!vars)
<1> SUFFICES ASSUME Inv, [Next]_vars PROVE [NS!Next]_(NS!vars)
  OBVIOUS
<1> USE DEF Inv
<1>0. CASE UNCHANGED <<host, pc, reply, learned>>
  BY <1>0 DEF NS!vars
<1> DEFINE Silent(p, from, to) ==
      Goto(p, from, to) /\ from # "done" /\ to # "done" /\ UNCHANGED <<host, reply, learned>>
<1>s. ASSUME NEW p \in Callers, NEW from, NEW to, Silent(p, from, to)
      PROVE  UNCHANGED NS!vars
  BY <1>s DEF NS!vars, Goto, TypeInv, TypeOK
<1>1. ASSUME NEW p \in Callers, NEW a \in Addrs, ResolveLiteral(p, a) PROVE NS!Next
  <2>1. NS!AskAddress(p, a)
    BY <1>1 DEF ResolveLiteral, Return, Goto, Failed, NS!AskAddress, TypeInv, TypeOK, Placed
  <2> QED
    BY <2>1 DEF NS!Next
<1>2. ASSUME NEW p \in Callers, NEW n \in Names, ResolveName(p, n) PROVE NS!Next
  <2>1. NS!AskName(p, n)
    BY <1>2 DEF ResolveName, ResolveUntil, Goto, NS!AskName, TypeInv, TypeOK, Placed
  <2> QED
    BY <2>1 DEF NS!Next
<1>3. ASSUME NEW p \in Callers, ReadCache(p) \/ MissCache(p) \/ JoinLookup(p) \/ StartLookup(p)
      PROVE  UNCHANGED NS!vars
  BY <1>3, <1>s DEF ReadCache, MissCache, JoinLookup, StartLookup
<1>4. ASSUME NEW p \in Callers, HitCache(p) PROVE NS!Next
  BY <1>4, ReturnRefines DEF HitCache, Fresh, Sourced, Resolving
<1>5. ASSUME NEW p \in Callers, Receive(p) PROVE NS!Next
  <2> DEFINE r == IF result[call[p]].err THEN Fallback(p)
                  ELSE [from |-> "lookup", ip |-> result[call[p]].ip]
  <2>1. r.ip \in learned[Key(p)] \union {None}
    BY <1>5 DEF Receive, Return, Goto, Fallback, Failed, Sourced, Resolving, Outcome, Succeeded,
         TypeInv, TypeOK, Answer
  <2>2. Return(p, "wait", r) /\ UNCHANGED <<host, learned>> /\ "wait" \in Resolving
    BY <1>5 DEF Receive, Resolving
  <2> HIDE DEF r
  <2> QED
    BY <2>1, <2>2, ReturnRefines
<1>6. ASSUME NEW p \in Callers, GiveUp(p) PROVE NS!Next
  BY <1>6, ReturnRefines DEF GiveUp, Fallback, Failed, Sourced, Resolving
<1>7. ASSUME NEW p \in Callers, Leave(p) PROVE NS!Next
  <2>1. NS!Leave(p)
    BY <1>7 DEF Leave, Goto, NoReply, NS!Leave, TypeInv, TypeOK
  <2> QED
    BY <2>1 DEF NS!Next
<1>8. ASSUME NEW c \in Calls, LookupSucceeds(c) PROVE NS!Next
  <2>1. PICK a \in LookupAddrs : learned' = [learned EXCEPT ![ckey[c]] = @ \union {a}]
    BY <1>8 DEF LookupSucceeds, Succeed
  <2>2. a \in Dialable /\ ckey[c] \in Keys
    BY <1>8, ResolverAssumption
    DEF LookupAddrs, Answerable, Dialable, LookupSucceeds, Succeed, TypeInv, Placed
  <2>3. NS!Learn(ckey[c], a)
    BY <1>8, <2>1 DEF LookupSucceeds, Succeed, callerVars, NS!Learn
  <2> QED
    BY <2>2, <2>3 DEF NS!Next
<1> QED
  BY <1>0, <1>1, <1>2, <1>3, <1>4, <1>5, <1>6, <1>7, <1>8
  DEF Next, vars, callerVars, CallerStep, LookupStep, LookupFails, Publish, PublishAs,
      Close, CloseFrom, Recycle, Tick

\* Caching, expiry, stale answers and shared lookups are invisible to the
\* relay: it gets what the name service promises.
THEOREM ResolverImplementsNameService == Spec => RefinesNameService
  BY InitRefines, NextRefines, Invariance, PTL DEF Spec, NS!Spec, RefinesNameService
=============================================================================
