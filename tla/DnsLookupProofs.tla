-------------------------- MODULE DnsLookupProofs ---------------------------
(***************************************************************************)
(* Proofs of the safety properties of DnsLookup, for any lists of servers, *)
(* any timeout and delay, and any number of faults.  That one fault does   *)
(* no harm supposes a network and a config that are Orderly.               *)
(***************************************************************************)
EXTENDS DnsLookup, FiniteSetTheorems, TLAPS

-----------------------------------------------------------------------------
(* Types and times.                                                        *)

\* The time and the socket's deadline stay within the budget.
TypeInv ==
  /\ TypeOK
  /\ budget \in Nat /\ WithinBudget

\* There is a budget, and there are servers to ask.
LEMMA BudgetType == budget \in Nat
  BY DnsAssumption DEF budget, dnsAttempts

\* An attempt asks one of the servers there are.
LEMMA ServerOfType ==
  ASSUME servers \in ServerLists, Len(servers) > 0, NEW n \in Nat
  PROVE  ServerOf(n) \in ServerSet
<1>1. servers \in Seq(STRING) /\ Len(servers) \in Nat \ {0} /\ DOMAIN servers = 1 .. Len(servers)
  BY DnsAssumption
<1>2. n % Len(servers) \in 0 .. Len(servers) - 1
  BY <1>1
<1>3. (n % Len(servers)) + 1 \in DOMAIN servers
  BY <1>1, <1>2
<1> QED
  BY <1>3 DEF ServerOf, ServerSet

\* Every deadline is a time, within the budget.
LEMMA DeadlineType ==
  ASSUME now \in Nat, attempt \in Nat
  PROVE  Deadline \in Nat /\ Deadline <= budget
<1>1. Timeout * (attempt + 1) \in Nat
  BY DnsAssumption
<1>2. now + Timeout * (attempt + 1) \in Nat
  BY <1>1
<1> QED
  BY <1>2, BudgetType DEF Deadline, AtMost

\* The answer of a server is one that a response may have.
LEMMA ResponseType ==
  ASSUME TypeInv, pc = "try", attempt < dnsAttempts, Len(servers) > 0, zone.A # BadName,
         NEW p \in Ports
  PROVE  Response(p) \in Messages
<1> DEFINE a == IF status[ServerOf(attempt)] = "up" THEN zone[qtype] ELSE "error"
<1>1. attempt \in 0 .. dnsAttempts - 1 /\ qtype \in {"A", "AAAA"}
  BY DEF TypeInv, TypeOK, dnsAttempts
<1>2. Id \in {"A", "AAAA"} \X (0 .. dnsAttempts - 1)
  BY <1>1 DEF Id
<1>3. zone[qtype] \in {V4, V6, Lo, Empty, NoSuchName}
  BY <1>1 DEF TypeInv, TypeOK, Zones
<1>4. ServerOf(attempt) \in ServerSet /\ now + Delay \in Nat
  BY <1>1, ServerOfType, DnsAssumption DEF TypeInv, TypeOK, dnsAttempts
<1>5. a \in {V4, V6, Lo, Empty, NoSuchName} \union {"error"}
  BY <1>3
<1> QED
  BY <1>2, <1>4, <1>5 DEF Response, Messages

\* A lookup starts with no message but perhaps one left over.
LEMMA InitTypeInv == Init => TypeInv
<1> SUFFICES ASSUME Init PROVE TypeInv
  OBVIOUS
<1>1. net \subseteq Messages /\ faults \in 0 .. MaxFaults
  <2>1. Leftovers \subseteq Messages
    <3> SUFFICES ASSUME NEW m \in Leftovers PROVE m \in Messages
      OBVIOUS
    <3>1. PICK s \in ServerSet, p \in Ports, a \in {V4, Empty} :
            m = [id |-> <<"earlier">>, from |-> s, port |-> p, answer |-> a,
                 due |-> 0, late |-> TRUE]
      BY DEF Leftovers
    <3> QED
      BY <3>1 DEF Messages
  <2>2. CASE net = {} /\ faults = 0
    BY <2>2, DnsAssumption
  <2>3. CASE MaxFaults > 0 /\ faults = 1 /\ \E m \in Leftovers : net = {m}
    BY <2>1, <2>3, DnsAssumption
  <2> QED
    BY <2>2, <2>3 DEF Init
<1>2. WithinBudget
  BY BudgetType DEF Init, WithinBudget
<1> QED
  BY <1>1, <1>2, BudgetType DEF Init, TypeInv, TypeOK, dnsAttempts

\* What happens to a message on the network leaves it a message.
LEMMA MessageType ==
  ASSUME NEW m \in Messages
  PROVE  [m EXCEPT !.late = TRUE] \in Messages
  BY DEF Messages

\* Every step preserves the types and stays within the budget.
LEMMA NextTypeInv == TypeInv /\ [Next]_vars => TypeInv'
<1> SUFFICES ASSUME TypeInv, [Next]_vars PROVE TypeInv'
  OBVIOUS
<1>1. budget \in Nat /\ ServerSet' = ServerSet /\ Messages' = Messages /\ UNCHANGED world
  <2>1. UNCHANGED world
    BY DEF Next, Step, NoServers, SendQuery, SendFails, ReadTimesOut, OutOfAttempts,
       ReadResponse, Discard, Lose, Late, Duplicate, Tick, vars
  <2> QED
    BY <2>1, BudgetType DEF world, ServerSet, Messages
<1>2. /\ attempt \in Nat /\ now \in Nat /\ faults \in Nat /\ dnsAttempts = 3
      /\ Fault => faults' \in 0 .. MaxFaults
  BY DnsAssumption DEF TypeInv, TypeOK, dnsAttempts, Fault
<1> USE DEF TypeInv, TypeOK, WithinBudget, world, query
<1>3. CASE NoServers
  BY <1>1, <1>3 DEF NoServers, Return
<1>4. CASE SendQuery
  <2>1. PICK p \in Ports :
          /\ port' = p
          /\ IF Reused(p) THEN Fault ELSE UNCHANGED faults
          /\ net' = IF status[ServerOf(attempt)] = "dead" THEN net
                    ELSE net \union {Response(p)}
    BY <1>4 DEF SendQuery
  <2>2. net' \subseteq Messages
    BY <1>4, <2>1, ResponseType DEF SendQuery, MoreAttempts
  <2>3. until' \in Nat /\ until' <= budget
    BY <1>2, <1>4, DeadlineType DEF SendQuery
  <2> QED
    BY <1>1, <1>2, <1>4, <2>1, <2>2, <2>3 DEF SendQuery, MoreAttempts
<1>5. CASE SendFails
  BY <1>1, <1>2, <1>5 DEF SendFails, Retry, MoreAttempts
<1>6. CASE ReadTimesOut
  BY <1>1, <1>2, <1>6 DEF ReadTimesOut, Retry
<1>7. CASE OutOfAttempts
  BY <1>1, <1>7 DEF OutOfAttempts, Return
<1>8. ASSUME NEW m \in net, ReadResponse(m) PROVE TypeInv'
  <2>1. \/ Retry
        \/ pc' = "try" /\ qtype' = "AAAA" /\ attempt' = 0 /\ UNCHANGED <<port, until>>
        \/ pc' = "done" /\ UNCHANGED <<qtype, attempt, port, until>>
    BY <1>8 DEF ReadResponse, Accept, Return
  <2> QED
    BY <1>1, <1>2, <1>8, <2>1 DEF ReadResponse, Retry
<1>9. ASSUME NEW m \in net, Discard(m) \/ Lose(m) \/ Late(m) \/ Duplicate(m) PROVE TypeInv'
  <2>1. net' \subseteq Messages
    BY <1>9, MessageType DEF Discard, Lose, Late, Duplicate
  <2>2. UNCHANGED <<now, world, query>> /\ (UNCHANGED faults \/ Fault)
    BY <1>9 DEF Discard, Lose, Late, Duplicate
  <2> QED
    BY <1>1, <1>2, <2>1, <2>2
<1>10. CASE Tick
  BY <1>1, <1>10 DEF Tick
<1>11. CASE UNCHANGED vars
  BY <1>1, <1>11 DEF vars
<1> QED
  BY <1>3, <1>4, <1>5, <1>6, <1>7, <1>8, <1>9, <1>10, <1>11 DEF Next, Step

-----------------------------------------------------------------------------
(* Answers.                                                                *)

\* A response to a query of this lookup says what the zone has for its type, or
\* that there was an error.
Honest(m) ==
  m.id # <<"earlier">> =>
    m.answer = zone[m.id[1]] \/ m.answer = "error"

\* So AAAA is asked for only if there is no A record, and lookup is right.
Sound ==
  /\ \A m \in net : Honest(m)
  /\ qtype = "AAAA" => zone.A = Empty
  /\ Truthful

\* At first only a response of an earlier lookup may be under way, and it says so.
LEMMA InitSound == Init => Sound
<1> SUFFICES ASSUME Init PROVE Sound
  OBVIOUS
<1>1. \A m \in Leftovers : m.id = <<"earlier">>
  BY DEF Leftovers
<1>2. \A m \in net : Honest(m)
  BY <1>1 DEF Init, Honest
<1>3. qtype = "A" /\ outcome.is = "pending"
  BY DEF Init, Pending
<1> QED
  BY <1>2, <1>3 DEF Sound, Truthful

\* What a matching response is accepted for is what the zone has.
LEMMA AcceptedIsTrue ==
  ASSUME TypeInv, Sound, NEW m \in net, Matches(m), m.answer # "error"
  PROVE  m.answer = zone[qtype]
<1>1. m.id = <<qtype, attempt>> /\ m.id # <<"earlier">>
  BY DEF Matches, Id
<1> QED
  BY <1>1 DEF Sound, Honest

\* The outcome of a lookup that accepts such a response.
LEMMA AcceptIsSound ==
  ASSUME TypeInv, qtype = "AAAA" => zone.A = Empty, Truthful, UNCHANGED world,
         Accept(zone[qtype])
  PROVE  (qtype' = "AAAA" => zone'.A = Empty) /\ Truthful'
<1> DEFINE a == zone[qtype]
<1>1. qtype \in {"A", "AAAA"} /\ UNCHANGED <<zone, ipv4Only>>
  BY DEF TypeInv, TypeOK, world
<1>2. CASE a = Empty /\ qtype = "A" /\ ~ipv4Only
  <2>1. UNCHANGED outcome /\ zone.A = Empty
    BY <1>2 DEF Accept
  <2> QED
    BY <1>1, <2>1 DEF Truthful
<1>3. CASE ~(a = Empty /\ qtype = "A" /\ ~ipv4Only)
  <2>1. outcome' = Verdict(a) /\ qtype' = qtype
    BY <1>3 DEF Accept, Return
  <2>2. CASE a = Lo
    <3>1. Verdict(a).is = "loopback" \/ (a = Empty /\ Verdict(a).is = "no record")
      BY <2>2 DEF Verdict
    <3> QED
      BY <1>1, <1>3, <2>1, <3>1 DEF Truthful
  <2>3. CASE a # Lo /\ a = Empty
    BY <1>1, <1>3, <2>1, <2>3 DEF Verdict, Truthful
  <2>4. CASE a # Lo /\ a # Empty
    <3>1. outcome'.is = "found" /\ outcome'.ip = a
      BY <2>1, <2>4 DEF Verdict
    <3> QED
      BY <1>1, <2>1, <2>4, <3>1 DEF Truthful
  <2> QED
    BY <1>1, <2>1, <2>2, <2>3, <2>4
<1> QED
  BY <1>2, <1>3

\* Every step preserves that answers are honest, and lookup right.
LEMMA NextSound == TypeInv /\ Sound /\ [Next]_vars => Sound'
<1> SUFFICES ASSUME TypeInv, Sound, [Next]_vars PROVE Sound'
  OBVIOUS
<1>1. UNCHANGED world
  BY DEF Next, Step, NoServers, SendQuery, SendFails, ReadTimesOut, OutOfAttempts,
     ReadResponse, Discard, Lose, Late, Duplicate, Tick, vars
<1>2. UNCHANGED <<zone, ipv4Only>> /\ \A m : Honest(m) => Honest(m)'
  BY <1>1 DEF world, Honest
<1>3. ASSUME UNCHANGED <<qtype, outcome>>, \A m \in net' : Honest(m) PROVE Sound'
  BY <1>2, <1>3 DEF Sound, Truthful
<1>4. ASSUME net' \subseteq net, UNCHANGED qtype, outcome' = Failed PROVE Sound'
  BY <1>2, <1>4 DEF Sound, Truthful, Failed
<1>5. CASE NoServers \/ OutOfAttempts
  BY <1>4, <1>5 DEF NoServers, OutOfAttempts, Return
<1>6. CASE SendQuery
  <2>1. PICK p \in Ports : net' \subseteq net \union {Response(p)}
    BY <1>6 DEF SendQuery
  <2>2. Response(p).id[1] = qtype /\ Response(p).answer \in {zone[qtype], "error"}
    BY DEF Response, Id
  <2>3. Honest(Response(p))
    BY <2>2 DEF Honest
  <2>4. UNCHANGED <<qtype, outcome>>
    BY <1>6 DEF SendQuery
  <2> QED
    BY <1>3, <2>1, <2>3, <2>4 DEF Sound
<1>7. CASE SendFails \/ ReadTimesOut
  BY <1>3, <1>7 DEF SendFails, ReadTimesOut, Retry, Sound
<1>8. ASSUME NEW m \in net, ReadResponse(m) PROVE Sound'
  <2>1. net' \subseteq net
    BY <1>8 DEF ReadResponse
  <2>2. CASE Retry
    BY <1>3, <2>1, <2>2 DEF Retry, Sound
  <2>3. CASE Matches(m) /\ m.answer # "error" /\ Accept(m.answer)
    <3>1. Accept(zone[qtype])
      BY <2>3, AcceptedIsTrue
    <3>2. (qtype' = "AAAA" => zone'.A = Empty) /\ Truthful'
      BY <1>1, <3>1, AcceptIsSound DEF Sound
    <3> QED
      BY <1>2, <2>1, <3>2 DEF Sound
  <2> QED
    BY <1>8, <2>2, <2>3 DEF ReadResponse
<1>9. ASSUME NEW m \in net, Discard(m) \/ Lose(m) \/ Late(m) \/ Duplicate(m) PROVE Sound'
  <2>1. UNCHANGED query /\ net' \subseteq net \union {[m EXCEPT !.late = TRUE]}
    BY <1>9 DEF Discard, Lose, Late, Duplicate
  <2>2. m \in Messages /\ Honest(m)
    BY DEF Sound, TypeInv, TypeOK
  <2>3. Honest([m EXCEPT !.late = TRUE])
    BY <2>2 DEF Honest, Messages
  <2> QED
    BY <1>3, <2>1, <2>3 DEF query, Sound
<1>10. CASE Tick \/ UNCHANGED vars
  BY <1>3, <1>10 DEF Tick, vars, query, Sound
<1> QED
  BY <1>5, <1>6, <1>7, <1>8, <1>9, <1>10 DEF Next, Step

-----------------------------------------------------------------------------
(* One fault.                                                              *)

\* At most one thing is wrong, as SurvivesOneFault supposes.
Calm ==
  /\ zone.A \notin {NoSuchName, BadName}
  /\ Len(servers) > 0 /\ Unhelpful # ServerSet
  /\ \A s, t \in Unhelpful : s = t
  /\ faults <= 1
  /\ Unhelpful # {} => faults = 0

\* A response says what its server would.
Candid(m) ==
  m.id # <<"earlier">> =>
    m.answer = IF status[m.from] = "up" THEN zone[m.id[1]] ELSE "error"

\* A response that the socket takes.
Receivable(m) == m.port = port /\ m.from = ServerOf(attempt)

\* When the attempt begins at the latest.
Base == (IF qtype = "A" THEN 0 ELSE Timeout + Timeout) + (IF attempt = 0 THEN 0 ELSE Timeout)

\* A response that the socket gets in time.
Arriving(m) ==
  Receivable(m) /\ ~m.late /\ now <= m.due /\ m.due < until /\ m.due <= Base + Timeout

\* At the top of the retry loop, and in conn.Read.  With no fault yet, nothing but the
\* answer to this attempt is under way.
Trying == now <= Base /\ (faults = 0 => net = {})

Waiting ==
  /\ now <= Base + Timeout
  /\ attempt = 0 => until <= Base + Timeout
  /\ \A m \in net : Receivable(m) => Matches(m)
  /\ faults = 0 => \A m \in net : Receivable(m) /\ \A l \in net : l = m
  /\ faults = 0 /\ status[ServerOf(attempt)] = "dead" => net = {}
  /\ (faults = 0 \/ attempt = 1) /\ status[ServerOf(attempt)] # "dead" =>
       \E m \in net : Arriving(m)

\* One attempt at most has failed, for a reason.
Mild ==
  /\ attempt \in {0, 1}
  /\ attempt = 1 => faults = 1 \/ ServerOf(0) \in Unhelpful
  /\ pc = "try" => Trying
  /\ pc = "wait" => Waiting
  /\ outcome # Failed

\* The promises of the network and of the config that the property needs: an answer
\* takes less than a time-out, no server is named twice, and a record is no error.
Orderly ==
  /\ Delay < Timeout
  /\ \A list \in ServerLists : \A i, j \in DOMAIN list : list[i] = list[j] => i = j
  /\ {V4, V6, Lo, Empty} \intersect {NoSuchName, "error"} = {}

\* The budget is six time-outs: those of attempts 1, 2 and 3.
LEMMA BudgetIs ==
  /\ Timeout \in Nat \ {0}
  /\ budget = Timeout + Timeout + Timeout + Timeout + Timeout + Timeout
<1>1. \A t \in Nat : (t * 3 * (3 + 1)) \div 2 = t + t + t + t + t + t
  OBVIOUS
<1> QED
  BY <1>1, DnsAssumption DEF budget, dnsAttempts

\* While one attempt at most has failed there is time for another.
LEMMA DeadlineIs ==
  ASSUME TypeInv, attempt \in {0, 1}, now <= Base
  PROVE  /\ now < budget
         /\ now + Timeout <= Deadline
         /\ attempt = 0 => Deadline = now + Timeout
<1>1. \A t, n \in Nat : /\ n + t * (0 + 1) = n + t
                        /\ n + t * (1 + 1) = n + t + t
  OBVIOUS
<1>2. \A t \in Nat \ {0} : \A n \in Nat :
        n <= t + t + t => /\ n < t + t + t + t + t + t
                          /\ n + t <= t + t + t + t + t + t
                          /\ n + t + t <= t + t + t + t + t + t
                          /\ n + t <= n + t + t
  OBVIOUS
<1>3. now <= Timeout + Timeout + Timeout /\ now \in Nat
  BY BudgetIs DEF Base, TypeInv, TypeOK
<1>4. CASE attempt = 0
  <2>1. now + Timeout * (attempt + 1) = now + Timeout
    BY <1>1, <1>3, <1>4, BudgetIs
  <2> QED
    BY <1>2, <1>3, <2>1, BudgetIs DEF Deadline, AtMost
<1>5. CASE attempt = 1
  <2>1. now + Timeout * (attempt + 1) = now + Timeout + Timeout
    BY <1>1, <1>3, <1>5, BudgetIs
  <2> QED
    BY <1>2, <1>3, <1>5, <2>1, BudgetIs DEF Deadline, AtMost
<1> QED
  BY <1>4, <1>5

\* The second attempt asks another server than the first, if there is one.
LEMMA OtherServer ==
  ASSUME TypeInv, Orderly, Len(servers) > 0, ServerSet # {ServerOf(0)}
  PROVE  ServerOf(0) # ServerOf(1)
<1>1. servers \in Seq(STRING) /\ Len(servers) \in Nat \ {0} /\ DOMAIN servers = 1 .. Len(servers)
  BY DnsAssumption DEF TypeInv, TypeOK
<1>2. ServerOf(0) = servers[1]
  <2>1. \A k \in Nat \ {0} : (0 % k) + 1 = 1
    OBVIOUS
  <2> QED
    BY <1>1, <2>1 DEF ServerOf
<1>3. Len(servers) # 1
  BY <1>1, <1>2 DEF ServerSet
<1>4. ServerOf(1) = servers[2]
  <2>1. \A k \in Nat \ {0} : k # 1 => (1 % k) + 1 = 2
    OBVIOUS
  <2> QED
    BY <1>1, <1>3, <2>1 DEF ServerOf
<1>5. 1 \in DOMAIN servers /\ 2 \in DOMAIN servers /\ servers \in ServerLists
  BY <1>1, <1>3 DEF TypeInv, TypeOK
<1> QED
  BY <1>2, <1>4, <1>5 DEF Orderly

\* Where one server has failed, or a fault was to blame, the next one is up.
LEMMA NextServerIsUp ==
  ASSUME TypeInv, Orderly, Calm, faults = 1 \/ ServerOf(0) \in Unhelpful
  PROVE  status[ServerOf(1)] = "up"
<1>1. ServerOf(0) \in ServerSet /\ ServerOf(1) \in ServerSet
  BY ServerOfType DEF TypeInv, TypeOK, Calm
<1>2. CASE faults = 1
  BY <1>1, <1>2 DEF Calm, Unhelpful
<1>3. CASE ServerOf(0) \in Unhelpful
  <2>1. ServerSet # {ServerOf(0)}
    BY <1>3 DEF Calm, Unhelpful
  <2>2. ServerOf(1) \notin Unhelpful
    BY <1>3, <2>1, OtherServer DEF Calm
  <2> QED
    BY <1>1, <2>2 DEF Unhelpful
<1> QED
  BY <1>2, <1>3

\* What the hypotheses of SurvivesOneFault say, without counting.
LEMMA CalmIs ==
  ASSUME TypeInv, zone.A \notin {NoSuchName, BadName}, Len(servers) # 0, Unhelpful # ServerSet,
         ~(Cardinality(Unhelpful) + faults > 1)
  PROVE  Calm
<1>1. servers \in [1 .. Len(servers) -> STRING] /\ Len(servers) \in Nat
  BY DnsAssumption DEF TypeInv, TypeOK
<1>2. servers \in Surjection(1 .. Len(servers), ServerSet)
  BY <1>1 DEF Surjection, ServerSet
<1>3. IsFiniteSet(ServerSet)
  BY <1>1, <1>2, FS_Surjection, FS_Interval
<1>4. IsFiniteSet(Unhelpful)
  BY <1>3, FS_Subset DEF Unhelpful
<1>5. Cardinality(Unhelpful) \in Nat
  BY <1>4, FS_CardinalityType
<1>6. faults \in Nat
  BY DnsAssumption DEF TypeInv, TypeOK
<1>7. /\ Cardinality(Unhelpful) = 0 \/ Cardinality(Unhelpful) = 1
      /\ faults <= 1 /\ (Cardinality(Unhelpful) = 1 => faults = 0)
  BY <1>5, <1>6
<1>8. CASE Cardinality(Unhelpful) = 0
  BY <1>1, <1>4, <1>7, <1>8, FS_EmptySet DEF Calm
<1>9. CASE Cardinality(Unhelpful) = 1
  <2>1. PICK s : Unhelpful = {s}
    BY <1>4, <1>9, FS_Singleton
  <2> QED
    BY <1>1, <1>7, <1>9, <2>1 DEF Calm
<1> QED
  BY <1>7, <1>8, <1>9

\* All responses do.
Sincere == \A m \in net : Candid(m)

\* A lookup starts with time for all attempts and, without a fault, an empty network.
LEMMA InitMild ==
  ASSUME Init
  PROVE  Sincere /\ (Calm => Mild)
<1>1. \A m \in Leftovers : m.id = <<"earlier">>
  BY DEF Leftovers
<1>2. Sincere
  BY <1>1 DEF Init, Sincere, Candid
<1>3. Base = 0
  BY DEF Init, Base
<1>4. Trying
  BY <1>3, DnsAssumption DEF Init, Trying
<1>5. outcome # Failed
  <2>1. outcome.is = "pending" /\ Failed.is = "failed"
    BY DEF Init, Pending, Failed
  <2> QED
    BY <2>1
<1> QED
  BY <1>2, <1>4, <1>5 DEF Init, Mild

\* The response to a query says what the server would.
LEMMA ResponseIs ==
  ASSUME NEW p
  PROVE  LET m == Response(p)
         IN /\ m.id = Id /\ m.from = ServerOf(attempt) /\ m.port = p
            /\ m.answer = IF status[ServerOf(attempt)] = "up" THEN zone[qtype] ELSE "error"
            /\ m.due = now + Delay /\ m.late = FALSE
  BY DEF Response

\* Every step preserves that responses say what their servers would.
LEMMA NextSincere == TypeInv /\ Sincere /\ [Next]_vars => Sincere'
<1> SUFFICES ASSUME TypeInv, Sincere, [Next]_vars PROVE Sincere'
  OBVIOUS
<1>1. UNCHANGED world
  BY DEF Next, Step, NoServers, SendQuery, SendFails, ReadTimesOut, OutOfAttempts,
     ReadResponse, Discard, Lose, Late, Duplicate, Tick, vars
<1>2. \A m : Candid(m)' <=> Candid(m)
  BY <1>1 DEF world, Candid
<1>3. ASSUME net' \subseteq net PROVE Sincere'
  BY <1>2, <1>3 DEF Sincere
<1>4. CASE SendQuery
  <2>1. PICK p \in Ports : net' \subseteq net \union {Response(p)}
    BY <1>4 DEF SendQuery
  <2>2. Candid(Response(p))
    <3>1. Response(p).id[1] = qtype /\ Response(p).from = ServerOf(attempt)
      BY DEF Response, Id
    <3> QED
      BY <3>1, ResponseIs DEF Candid
  <2> QED
    BY <1>2, <2>1, <2>2 DEF Sincere
<1>5. ASSUME NEW m \in net, Discard(m) \/ Lose(m) \/ Late(m) \/ Duplicate(m) PROVE Sincere'
  <2>1. net' \subseteq net \union {[m EXCEPT !.late = TRUE]}
    BY <1>5 DEF Discard, Lose, Late, Duplicate
  <2>2. m \in Messages /\ Candid(m)
    BY DEF Sincere, TypeInv, TypeOK
  <2>3. Candid([m EXCEPT !.late = TRUE])
    BY <2>2 DEF Candid, Messages
  <2> QED
    BY <1>2, <2>1, <2>3 DEF Sincere
<1>6. CASE NoServers \/ SendFails \/ ReadTimesOut \/ OutOfAttempts \/ Tick \/ UNCHANGED vars
  BY <1>3, <1>6 DEF NoServers, SendFails, ReadTimesOut, OutOfAttempts, Tick, vars
<1>7. CASE \E m \in net : ReadResponse(m)
  BY <1>3, <1>7 DEF ReadResponse
<1> QED
  BY <1>4, <1>5, <1>6, <1>7 DEF Next, Step

\* What goes wrong stays wrong.
LEMMA CalmBefore ==
  ASSUME TypeInv, [Next]_vars, Calm'
  PROVE  Calm /\ UNCHANGED world /\ ServerSet' = ServerSet /\ (\A n : ServerOf(n)' = ServerOf(n))
<1>1. UNCHANGED world
  BY DEF Next, Step, NoServers, SendQuery, SendFails, ReadTimesOut, OutOfAttempts,
     ReadResponse, Discard, Lose, Late, Duplicate, Tick, vars
<1>2. faults \in Nat /\ (faults' = faults \/ faults' = faults + 1)
  <2>1. faults \in Nat
    BY DnsAssumption DEF TypeInv, TypeOK
  <2>2. faults' = faults \/ faults' = faults + 1
    BY DEF Next, Step, NoServers, SendQuery, SendFails, ReadTimesOut, OutOfAttempts,
       ReadResponse, Discard, Lose, Late, Duplicate, Tick, vars, Fault
  <2> QED
    BY <2>1, <2>2
<1>3. ServerSet' = ServerSet /\ Unhelpful' = Unhelpful /\ \A n : ServerOf(n)' = ServerOf(n)
  BY <1>1 DEF world, ServerSet, Unhelpful, ServerOf
<1>4. (faults' = 0 => faults = 0) /\ (faults' <= 1 => faults <= 1)
  BY <1>2
<1> QED
  BY <1>1, <1>3, <1>4 DEF Calm, world

\* What a server that is up answers is a record, or that there is none.
LEMMA Answers ==
  ASSUME TypeInv, Sound, Sincere, Orderly, Calm, NEW m \in net, Matches(m),
         status[m.from] = "up"
  PROVE  m.answer = zone[qtype] /\ m.answer \notin {"error", NoSuchName}
<1>1. m.id = <<qtype, attempt>> /\ m.id # <<"earlier">> /\ m.id[1] = qtype
  BY DEF Matches, Id
<1>2. m.answer = zone[qtype]
  BY <1>1 DEF Sincere, Candid
<1>3. zone \in [A : {V4, Lo, Empty}, AAAA : {V6, Empty}]
  BY DEF TypeInv, TypeOK, Zones, Calm
<1>4. zone[qtype] \in {V4, V6, Lo, Empty}
  BY <1>3 DEF TypeInv, TypeOK
<1> QED
  BY <1>2, <1>4 DEF Orderly

\* While calm and mild, an attempt that is out and may be the second one, or has met
\* with no fault, is answered in time unless its server is dead.
LEMMA SendMild ==
  ASSUME TypeInv, Orderly, Calm, Mild, SendQuery, Calm'
  PROVE  Mild'
<1>1. PICK p \in Ports :
        /\ port' = p
        /\ IF Reused(p) THEN Fault ELSE UNCHANGED faults
        /\ net' = IF status[ServerOf(attempt)] = "dead" THEN net
                  ELSE net \union {Response(p)}
  BY DEF SendQuery
<1>2. /\ pc = "try" /\ pc' = "wait" /\ until' = Deadline
      /\ UNCHANGED <<now, qtype, attempt, outcome, servers, status>>
  BY DEF SendQuery, world
<1>3. Trying /\ attempt \in {0, 1} /\ now \in Nat /\ faults \in Nat /\ Delay \in Nat
  BY <1>2, DnsAssumption DEF Mild, TypeInv, TypeOK
<1>4. ~Reused(p) /\ faults' = faults
  <2>1. ASSUME Reused(p) PROVE FALSE
    <3>1. faults' = faults + 1 /\ net # {}
      BY <1>1, <2>1 DEF Fault, Reused
    <3>2. faults # 0
      BY <1>3, <3>1 DEF Trying
    <3> QED
      BY <1>3, <3>1, <3>2 DEF Calm
  <2> QED
    BY <1>1, <2>1
<1>5. now + Timeout <= Deadline /\ (attempt = 0 => Deadline = now + Timeout)
  BY <1>3, DeadlineIs DEF Trying
<1>6. Base' = Base /\ Base \in Nat /\ \A n : ServerOf(n)' = ServerOf(n)
  BY <1>2, <1>3, DnsAssumption DEF Base, ServerOf
<1>0. PICK r : r = Response(p)
  OBVIOUS
<1>7. /\ r.id = Id /\ r.from = ServerOf(attempt) /\ r.port = p
      /\ r.due = now + Delay /\ r.late = FALSE
  BY <1>0 DEF Response
<1>8. Matches(r)' /\ Receivable(r)'
  BY <1>1, <1>2, <1>6, <1>7 DEF Matches, Id, Receivable
<1>9. now \in Nat /\ Deadline \in Nat /\ now <= Base
  BY <1>3, DeadlineType DEF Trying, TypeInv, TypeOK
<1>10. /\ now <= now + Delay /\ now + Delay < Deadline /\ now + Delay <= Base + Timeout
       /\ now <= Base + Timeout /\ (attempt = 0 => Deadline <= Base + Timeout)
  BY <1>3, <1>5, <1>6, <1>9, BudgetIs DEF Orderly
<1>11. Arriving(r)'
  BY <1>2, <1>6, <1>7, <1>8, <1>10 DEF Arriving
<1>12. net' \subseteq net \union {r} /\ (status[ServerOf(attempt)] = "dead" => net' = net)
       /\ (status[ServerOf(attempt)] # "dead" => r \in net')
  BY <1>0, <1>1
<1>13. \A m \in net : ~Receivable(m)'
  BY <1>1, <1>2, <1>4, <1>6 DEF Receivable, Reused
<1>14. faults = 0 => net = {}
  BY <1>3 DEF Trying
<1>15. Waiting'
  <2>1. now' <= Base' + Timeout /\ (attempt' = 0 => until' <= Base' + Timeout)
    BY <1>2, <1>6, <1>10
  <2>2. \A m \in net' : Receivable(m)' => Matches(m)'
    BY <1>8, <1>12, <1>13
  <2>3. faults' = 0 => \A m \in net' : Receivable(m)' /\ \A l \in net' : l = m
    BY <1>4, <1>8, <1>12, <1>14
  <2>4. faults' = 0 /\ status'[ServerOf(attempt)'] = "dead" => net' = {}
    BY <1>2, <1>4, <1>6, <1>12, <1>14
  <2>5. (faults' = 0 \/ attempt' = 1) /\ status'[ServerOf(attempt)'] # "dead" =>
           \E m \in net' : Arriving(m)'
    BY <1>2, <1>6, <1>11, <1>12
  <2> QED
    BY <2>1, <2>2, <2>3, <2>4, <2>5 DEF Waiting
<1>16. ServerOf(0)' = ServerOf(0) /\ Unhelpful' = Unhelpful
  BY <1>2, <1>6 DEF Unhelpful, ServerSet
<1> QED
  BY <1>2, <1>4, <1>15, <1>16 DEF Mild

\* An attempt that fails was the first, and had a reason to.
LEMMA RetryMild ==
  ASSUME TypeInv, Mild, Retry, attempt = 0, pc \in {"try", "wait"}, UNCHANGED <<now, world>>,
         faults' = 1 \/ ServerOf(0) \in Unhelpful, faults' = 0 => net' = {}
  PROVE  Mild'
<1>1. pc' = "try" /\ attempt' = 1 /\ UNCHANGED <<qtype, outcome>>
  BY DEF Retry
<1>2. now \in Nat /\ Timeout \in Nat
  BY DnsAssumption DEF TypeInv, TypeOK
<1>3. now' <= Base'
  <2>1. CASE qtype = "A"
    BY <1>1, <1>2, <2>1 DEF Mild, Trying, Waiting, Base
  <2>2. CASE qtype # "A"
    BY <1>1, <1>2, <2>2 DEF Mild, Trying, Waiting, Base
  <2> QED
    BY <2>1, <2>2
<1>4. ServerOf(0)' = ServerOf(0) /\ Unhelpful' = Unhelpful
  BY DEF world, ServerOf, Unhelpful, ServerSet
<1> QED
  BY <1>1, <1>3, <1>4 DEF Mild, Trying

\* The second attempt is answered in time, and so is the first, with no fault before it,
\* unless the server is dead.
LEMMA WillArrive ==
  ASSUME TypeInv, Orderly, Calm, Mild, pc = "wait",
         attempt # 0 \/ (faults = 0 /\ status[ServerOf(0)] # "dead")
  PROVE  \E m \in net : Arriving(m)
<1>1. CASE attempt = 0
  BY <1>1 DEF Mild, Waiting
<1>2. CASE attempt = 1
  <2>1. status[ServerOf(1)] = "up"
    BY <1>2, NextServerIsUp DEF Mild
  <2> QED
    BY <1>2, <2>1 DEF Mild, Waiting
<1> QED
  BY <1>1, <1>2 DEF Mild

\* The socket that waits takes the answer to its query or, from a server that refuses, an
\* error.
LEMMA ReadMild ==
  ASSUME TypeInv, Sound, Sincere, Orderly, Calm, Mild, NEW m \in net, ReadResponse(m), Calm'
  PROVE  Mild'
<1>1. /\ pc = "wait" /\ Receivable(m) /\ net' = net \ {m}
      /\ UNCHANGED <<now, world, faults>>
      /\ IF Matches(m) /\ m.answer \notin {"error", NoSuchName} THEN Accept(m.answer) ELSE Retry
  BY DEF ReadResponse, Receivable
<1>2. Waiting /\ Matches(m) /\ attempt \in {0, 1}
  BY <1>1 DEF Mild, Waiting
<1>3. faults = 0 => net' = {}
  BY <1>1, <1>2 DEF Waiting
<1>4. m.from = ServerOf(attempt) /\ ServerOf(attempt) \in ServerSet
  BY <1>1, <1>2, ServerOfType DEF Receivable, TypeInv, TypeOK, Calm
<1>5. CASE status[m.from] = "up"
  <2>1. Accept(m.answer) /\ m.answer = zone[qtype]
    BY <1>1, <1>2, <1>5, Answers
  <2>2. CASE m.answer = Empty /\ qtype = "A" /\ ~ipv4Only
    <3>1. pc' = "try" /\ qtype' = "AAAA" /\ attempt' = 0 /\ UNCHANGED outcome
      BY <2>1, <2>2 DEF Accept
    <3>2. now \in Nat /\ Timeout \in Nat
      BY DnsAssumption DEF TypeInv, TypeOK
    <3>3. now <= Timeout + Timeout
      BY <1>2, <2>2, <3>2 DEF Waiting, Base
    <3>4. now' <= Base'
      BY <1>1, <3>1, <3>2, <3>3 DEF Base
    <3> QED
      BY <1>1, <1>3, <3>1, <3>4 DEF Mild, Trying
  <2>3. CASE ~(m.answer = Empty /\ qtype = "A" /\ ~ipv4Only)
    <3>1. pc' = "done" /\ outcome' = Verdict(m.answer) /\ UNCHANGED attempt
      BY <2>1, <2>3 DEF Accept, Return
    <3>2. Verdict(m.answer).is \in {"loopback", "no record", "found"}
      <4>1. CASE m.answer = Lo
        <5>1. Verdict(m.answer).is = "loopback" \/ (m.answer = Empty /\ Verdict(m.answer).is = "no record")
          BY <4>1 DEF Verdict
        <5> QED
          BY <5>1
      <4>2. CASE m.answer # Lo /\ m.answer = Empty
        BY <4>2 DEF Verdict
      <4>3. CASE m.answer # Lo /\ m.answer # Empty
        BY <4>3 DEF Verdict
      <4> QED
        BY <4>1, <4>2, <4>3
    <3>3. outcome' # Failed
      <4>1. Failed.is = "failed"
        BY DEF Failed
      <4> QED
        BY <3>1, <3>2, <4>1
    <3>4. ServerOf(0)' = ServerOf(0) /\ Unhelpful' = Unhelpful
      BY <1>1 DEF world, ServerOf, Unhelpful, ServerSet
    <3> QED
      BY <1>1, <3>1, <3>3, <3>4 DEF Mild
  <2> QED
    BY <2>2, <2>3
<1>6. CASE status[m.from] # "up"
  <2>1. attempt = 0 /\ ServerOf(0) \in Unhelpful
    <3>1. attempt = 0
      BY <1>2, <1>4, <1>6, NextServerIsUp DEF Mild
    <3> QED
      BY <1>4, <1>6, <3>1 DEF Unhelpful
  <2>2. m.answer = "error"
    BY <1>2, <1>6 DEF Sincere, Candid, Matches, Id
  <2>3. Retry
    BY <1>1, <2>2
  <2> QED
    BY <1>1, <1>3, <2>1, <2>3, RetryMild
<1> QED
  BY <1>5, <1>6

\* No time-out without a reason.
LEMMA TimeOutMild ==
  ASSUME TypeInv, Orderly, Calm, Mild, ReadTimesOut, Calm'
  PROVE  Mild'
<1>1. pc = "wait" /\ now >= until /\ Retry /\ UNCHANGED <<now, world, net, faults>>
  BY DEF ReadTimesOut
<1>2. ASSUME NEW m \in net PROVE ~Arriving(m)
  <2>1. m.due \in Nat /\ now \in Nat /\ until \in Nat
    BY DEF TypeInv, TypeOK, Messages
  <2> QED
    BY <1>1, <2>1 DEF Arriving
<1>3. attempt = 0 /\ (faults # 0 \/ status[ServerOf(0)] = "dead")
  BY <1>1, <1>2, WillArrive
<1>4. ServerOf(0) \in ServerSet /\ Waiting
  BY <1>1, ServerOfType DEF TypeInv, TypeOK, Calm, Mild
<1>5. faults \in Nat /\ (faults = 0 \/ faults = 1)
  BY DnsAssumption DEF TypeInv, TypeOK, Calm
<1>6. faults' = 1 \/ ServerOf(0) \in Unhelpful
  BY <1>1, <1>3, <1>4, <1>5 DEF Unhelpful
<1>7. faults' = 0 => net' = {}
  BY <1>1, <1>3, <1>4 DEF Waiting
<1> QED
  BY <1>1, <1>3, <1>6, <1>7, RetryMild

\* A first fault finds no attempt failed before.
LEMMA FaultMild ==
  ASSUME TypeInv, Calm, Mild, Fault, Calm', UNCHANGED world
  PROVE  faults = 0 /\ faults' = 1 /\ Unhelpful = {} /\ attempt = 0
<1>1. faults = 0 /\ faults' = 1
  BY DnsAssumption DEF Fault, Calm, TypeInv, TypeOK
<1>2. Unhelpful = {}
  <2>1. Unhelpful' = Unhelpful
    BY DEF world, Unhelpful, ServerSet
  <2> QED
    BY <1>1, <2>1 DEF Calm
<1> QED
  BY <1>1, <1>2 DEF Mild

\* What befalls a response under way is the first fault, so the attempt may fail.
LEMMA NetFaultMild ==
  ASSUME TypeInv, Calm, Mild, NEW m \in net, Lose(m) \/ Late(m) \/ Duplicate(m), Calm'
  PROVE  Mild'
<1>1. /\ UNCHANGED <<now, world, query>> /\ Fault
      /\ net' \subseteq net \union {[m EXCEPT !.late = TRUE]}
  BY DEF Lose, Late, Duplicate
<1>2. faults = 0 /\ faults' = 1 /\ attempt = 0
  BY <1>1, FaultMild
<1>3. UNCHANGED <<now, pc, qtype, attempt, port, until, outcome, servers, status>>
  BY <1>1 DEF query, world
<1>4. /\ Base' = Base /\ ServerOf(0)' = ServerOf(0) /\ ServerOf(attempt)' = ServerOf(attempt)
      /\ Unhelpful' = Unhelpful
  BY <1>3 DEF Base, ServerOf, Unhelpful, ServerSet
<1>5. pc # "try"
  BY <1>2 DEF Mild, Trying
<1>6. ASSUME pc = "wait" PROVE Waiting'
  <2>1. Waiting
    BY <1>6 DEF Mild
  <2>2. \A l \in net' : \E k \in net : l.id = k.id /\ l.port = k.port /\ l.from = k.from
    <3>1. m \in Messages
      BY DEF TypeInv, TypeOK
    <3>2. LET l == [m EXCEPT !.late = TRUE]
          IN  l.id = m.id /\ l.port = m.port /\ l.from = m.from
      BY <3>1 DEF Messages
    <3> QED
      BY <1>1, <3>2
  <2>3. \A l \in net' : Receivable(l)' => Matches(l)'
    BY <1>3, <1>4, <2>1, <2>2 DEF Waiting, Receivable, Matches, Id
  <2> QED
    BY <1>2, <1>3, <1>4, <2>1, <2>3 DEF Waiting
<1> QED
  BY <1>2, <1>3, <1>4, <1>5, <1>6 DEF Mild

\* A response that goes unread was not the awaited one.
LEMMA DiscardMild ==
  ASSUME TypeInv, Calm, Mild, NEW m \in net, Discard(m)
  PROVE  Mild'
<1>1. /\ UNCHANGED <<now, world, query, faults>> /\ net' = net \ {m}
      /\ pc = "wait" => ~Receivable(m)
  BY DEF Discard, Receivable
<1>2. UNCHANGED <<now, pc, qtype, attempt, port, until, outcome, servers, status, faults>>
  BY <1>1 DEF query, world
<1>3. /\ Base' = Base /\ ServerOf(0)' = ServerOf(0) /\ ServerOf(attempt)' = ServerOf(attempt)
      /\ Unhelpful' = Unhelpful
  BY <1>2 DEF Base, ServerOf, Unhelpful, ServerSet
<1>4. ASSUME pc = "try" PROVE Trying'
  BY <1>1, <1>2, <1>3, <1>4 DEF Mild, Trying
<1>5. ASSUME pc = "wait" PROVE Waiting'
  <2>1. Waiting /\ faults # 0
    BY <1>1, <1>5 DEF Mild, Waiting
  <2>2. /\ \A l : Receivable(l)' <=> Receivable(l)
        /\ \A l : Matches(l)' <=> Matches(l)
        /\ \A l : Arriving(l)' <=> Arriving(l)
    BY <1>2, <1>3 DEF Receivable, Matches, Id, Arriving
  <2>3. \A l \in net : Arriving(l) => l \in net'
    BY <1>1, <1>5 DEF Arriving
  <2>4. \A l \in net' : l \in net
    BY <1>1
  <2>5. \A l \in net' : Receivable(l)' => Matches(l)'
    BY <2>1, <2>2, <2>4 DEF Waiting
  <2>6. attempt' = 1 /\ status'[ServerOf(attempt)'] # "dead" => \E l \in net' : Arriving(l)'
    BY <1>2, <1>3, <2>1, <2>2, <2>3 DEF Waiting
  <2> QED
    BY <1>2, <1>3, <2>1, <2>5, <2>6 DEF Waiting
<1> QED
  BY <1>2, <1>3, <1>4, <1>5 DEF Mild

\* Time does not pass the awaited response.
LEMMA TickMild ==
  ASSUME TypeInv, Orderly, Calm, Mild, Tick
  PROVE  Mild'
<1>1. /\ pc = "wait" /\ now < until /\ now' = now + 1
      /\ UNCHANGED <<world, query, net, faults>>
      /\ \A m \in net : m.late \/ now < m.due
  BY DEF Tick
<1>2. UNCHANGED <<pc, qtype, attempt, port, until, outcome, servers, status, faults, net>>
  BY <1>1 DEF query, world
<1>3. /\ Base' = Base /\ ServerOf(0)' = ServerOf(0) /\ ServerOf(attempt)' = ServerOf(attempt)
      /\ Unhelpful' = Unhelpful
  BY <1>2 DEF Base, ServerOf, Unhelpful, ServerSet
<1>4. now \in Nat /\ until \in Nat /\ Base + Timeout \in Nat /\ \A m \in net : m.due \in Nat
  BY DnsAssumption DEF TypeInv, TypeOK, Messages, Base
<1>5. Waiting /\ attempt \in {0, 1}
  BY <1>1 DEF Mild
<1>6. /\ \A l : Receivable(l)' <=> Receivable(l)
      /\ \A l : Matches(l)' <=> Matches(l)
  BY <1>2, <1>3 DEF Receivable, Matches, Id
<1>7. ASSUME NEW m \in net, Arriving(m) PROVE Arriving(m)' /\ now' <= Base + Timeout
  <2>1. /\ Receivable(m) /\ ~m.late /\ now < m.due /\ m.due < until /\ m.due <= Base + Timeout
    BY <1>1, <1>7 DEF Arriving
  <2>2. now' <= m.due /\ now' <= Base + Timeout
    BY <1>1, <1>4, <2>1
  <2> QED
    BY <1>2, <1>3, <1>6, <2>1, <2>2 DEF Arriving
<1>8. now' <= Base + Timeout
  <2>1. CASE attempt = 0
    BY <1>1, <1>4, <1>5, <2>1 DEF Waiting
  <2>2. CASE attempt # 0
    <3>1. \E m \in net : Arriving(m)
      BY <1>1, <2>2, WillArrive
    <3> QED
      BY <1>7, <3>1
  <2> QED
    BY <2>1, <2>2
<1>9. Waiting'
  <2>1. attempt' = 0 => until' <= Base' + Timeout
    BY <1>2, <1>3, <1>5 DEF Waiting
  <2>2. \A m \in net' : Receivable(m)' => Matches(m)'
    BY <1>2, <1>5, <1>6 DEF Waiting
  <2>3. faults' = 0 => \A m \in net' : Receivable(m)' /\ \A l \in net' : l = m
    BY <1>2, <1>5, <1>6 DEF Waiting
  <2>4. faults' = 0 /\ status'[ServerOf(attempt)'] = "dead" => net' = {}
    BY <1>2, <1>3, <1>5 DEF Waiting
  <2>5. (faults' = 0 \/ attempt' = 1) /\ status'[ServerOf(attempt)'] # "dead" =>
           \E m \in net' : Arriving(m)'
    BY <1>2, <1>3, <1>5, <1>7 DEF Waiting
  <2> QED
    BY <1>3, <1>8, <2>1, <2>2, <2>3, <2>4, <2>5 DEF Waiting
<1> QED
  BY <1>1, <1>2, <1>3, <1>9 DEF Mild

\* Every step of a lookup that stays calm keeps it mild.
LEMMA NextMild ==
  ASSUME TypeInv, Sound, Sincere, Orderly, Calm => Mild, [Next]_vars
  PROVE  Calm' => Mild'
<1> SUFFICES ASSUME Calm' PROVE Mild'
  OBVIOUS
<1>1. Calm /\ Mild /\ UNCHANGED world
  BY CalmBefore
<1>2. ~NoServers
  BY <1>1 DEF Calm, NoServers, TypeInv, TypeOK
<1>3. ~OutOfAttempts
  <2>1. pc = "try" => MoreAttempts
    BY <1>1, DeadlineIs DEF Mild, Trying, MoreAttempts, dnsAttempts
  <2> QED
    BY <2>1 DEF OutOfAttempts
<1>4. CASE SendQuery
  BY <1>1, <1>4, SendMild
<1>5. CASE SendFails
  <2>1. Fault /\ Retry /\ UNCHANGED <<now, world, net>> /\ pc = "try"
    BY <1>1, <1>5 DEF SendFails, Calm
  <2>2. faults' = 1 /\ attempt = 0
    BY <1>1, <2>1, FaultMild
  <2> QED
    BY <1>1, <2>1, <2>2, RetryMild
<1>6. CASE ReadTimesOut
  BY <1>1, <1>6, TimeOutMild
<1>7. ASSUME NEW m \in net, ReadResponse(m) PROVE Mild'
  BY <1>1, <1>7, ReadMild
<1>8. ASSUME NEW m \in net, Discard(m) PROVE Mild'
  BY <1>1, <1>8, DiscardMild
<1>9. ASSUME NEW m \in net, Lose(m) \/ Late(m) \/ Duplicate(m) PROVE Mild'
  BY <1>1, <1>9, NetFaultMild
<1>10. CASE Tick
  BY <1>1, <1>10, TickMild
<1>11. CASE UNCHANGED vars
  <2>1. UNCHANGED <<now, pc, qtype, attempt, port, until, outcome, servers, status, faults, net>>
    BY <1>11 DEF vars, query, world
  <2> QED
    BY <1>1, <2>1 DEF Mild, Trying, Waiting, Receivable, Arriving, Matches, Id, Base, ServerOf,
       Unhelpful, ServerSet
<1> QED
  BY <1>2, <1>3, <1>4, <1>5, <1>6, <1>7, <1>8, <1>9, <1>10, <1>11 DEF Next, Step

-----------------------------------------------------------------------------
(* The theorems.                                                           *)

Inv == TypeInv /\ Sound

\* The invariant holds in every reachable state, whatever gets lost, late or
\* comes twice.
THEOREM Invariance == Spec => []Inv
<1>1. Init => Inv
  BY InitTypeInv, InitSound DEF Inv
<1>2. Inv /\ [Next]_vars => Inv'
  BY NextTypeInv, NextSound DEF Inv
<1> QED
  BY <1>1, <1>2, PTL DEF Spec

\* The types hold: no attempt past the last, no answer of another kind.
THEOREM Types == Spec => []TypeOK
<1>1. Inv => TypeOK
  BY DEF Inv, TypeInv
<1> QED
  BY <1>1, Invariance, PTL

\* No read of the A query or of the AAAA query waits past the lookup's deadline.
THEOREM KeepsToBudget == Spec => []WithinBudget
<1>1. Inv => WithinBudget
  BY DEF Inv, TypeInv
<1> QED
  BY <1>1, Invariance, PTL

\* The network may make a lookup fail but never make it err.
THEOREM TellsTheTruth == Spec => []Truthful
<1>1. Inv => Truthful
  BY DEF Inv, Sound
<1> QED
  BY <1>1, Invariance, PTL

\* With two servers or more, one dead server or one fault of the network, as long as
\* it answers within a time-out otherwise, makes no lookup fail.
THEOREM SurvivesAFault == ASSUME Orderly PROVE Spec => []SurvivesOneFault
<1>1. Init => Sincere /\ (Calm => Mild)
  BY InitMild
<1>2. Inv /\ Sincere /\ (Calm => Mild) /\ [Next]_vars => Sincere' /\ (Calm => Mild)'
  BY NextSincere, NextMild DEF Inv
<1>3. Inv /\ (Calm => Mild) => SurvivesOneFault
  BY CalmIs DEF Inv, SurvivesOneFault, Mild
<1> QED
  BY <1>1, <1>2, <1>3, Invariance, PTL DEF Spec
=============================================================================
