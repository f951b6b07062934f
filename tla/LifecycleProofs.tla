-------------------------- MODULE LifecycleProofs ---------------------------
(***************************************************************************)
(* Proofs of the safety properties of Lifecycle, for any number of ports,  *)
(* any timeout and any interval, and that the sockets of BoundTunnel do    *)
(* not leak, for any identities of sockets and any number of downs and ups *)
(* of the device.                                                          *)
(***************************************************************************)
EXTENDS BoundTunnel, FiniteSetTheorems, SequenceTheorems, TLAPS

-----------------------------------------------------------------------------
(* What the steps of startTunnel set up, on either platform.               *)

Families == {"4", "6"}
Things == {<<"tun">>, <<"name">>, <<"luid">>, <<"interface">>, <<"bind">>, <<"device">>, <<"up">>}
          \union ({"address", "route", "mtu"} \X Families)
StepKinds == [makes : SUBSET Things, closes : BOOLEAN]

Sets(s, things) == \A x \in things : \E i \in 1 .. Len(s) : x \in s[i].makes

\* Steps that close the tun device if they fail, and set up things.
Cleaning(s, things) ==
  /\ s \in Seq(StepKinds)
  /\ \A i \in 1 .. Len(s) : s[i].closes
  /\ Sets(s, things)

\* The same behind the steps that create the device.
Starting(s, things) ==
  /\ s \in Seq(StepKinds) /\ Len(s) >= 3
  /\ \A i \in 1 .. Len(s) : s[i].closes <=> i > 3
  /\ s[1].makes = {} /\ s[2].makes = {}
  /\ Sets(s, things)

\* Sequences of steps are put together.
LEMMA SetsBoth ==
  ASSUME NEW s \in Seq(StepKinds), NEW t \in Seq(StepKinds), NEW S, NEW T, Sets(s, S), Sets(t, T)
  PROVE  Sets(s \o t, S \union T)
<1>1. /\ Len(s) \in Nat /\ Len(t) \in Nat /\ Len(s \o t) = Len(s) + Len(t)
      /\ \A i \in 1 .. Len(s) + Len(t) : (s \o t)[i] =
           IF i <= Len(s) THEN s[i] ELSE t[i - Len(s)]
  BY ConcatProperties, LenProperties
<1>2. ASSUME NEW x \in S PROVE \E i \in 1 .. Len(s \o t) : x \in (s \o t)[i].makes
  <2>1. PICK i \in 1 .. Len(s) : x \in s[i].makes
    BY DEF Sets
  <2>2. i \in 1 .. Len(s) + Len(t) /\ i <= Len(s)
    BY <1>1, <2>1
  <2> QED
    BY <1>1, <2>1, <2>2
<1>3. ASSUME NEW x \in T PROVE \E i \in 1 .. Len(s \o t) : x \in (s \o t)[i].makes
  <2>1. PICK j \in 1 .. Len(t) : x \in t[j].makes
    BY DEF Sets
  <2>2. PICK i \in 1 .. Len(s) + Len(t) : ~(i <= Len(s)) /\ i - Len(s) = j
    <3>1. /\ Len(s) + j \in 1 .. Len(s) + Len(t)
          /\ ~(Len(s) + j <= Len(s)) /\ (Len(s) + j) - Len(s) = j
      BY <1>1
    <3> QED
      BY <3>1
  <2> QED
    BY <1>1, <2>1, <2>2
<1> QED
  BY <1>2, <1>3 DEF Sets

\* Two parts of a sequence of steps of which each cleans up clean up together ...
LEMMA CleaningBoth ==
  ASSUME NEW s, NEW t, NEW S, NEW T, Cleaning(s, S), Cleaning(t, T)
  PROVE  Cleaning(s \o t, S \union T)
<1>1. /\ s \in Seq(StepKinds) /\ t \in Seq(StepKinds)
      /\ \A i \in 1 .. Len(s) : s[i].closes
      /\ \A i \in 1 .. Len(t) : t[i].closes
  BY DEF Cleaning
<1>2. /\ s \o t \in Seq(StepKinds)
      /\ Len(s) \in Nat /\ Len(t) \in Nat /\ Len(s \o t) = Len(s) + Len(t)
      /\ \A i \in 1 .. Len(s) + Len(t) : (s \o t)[i] =
           IF i <= Len(s) THEN s[i] ELSE t[i - Len(s)]
  BY <1>1, ConcatProperties, LenProperties
<1>3. ASSUME NEW i \in 1 .. Len(s) + Len(t) PROVE (s \o t)[i].closes
  <2>1. CASE i <= Len(s)
    BY <1>1, <1>2, <2>1
  <2>2. CASE ~(i <= Len(s))
    <3>1. i - Len(s) \in 1 .. Len(t)
      BY <1>2, <2>2
    <3> QED
      BY <1>1, <1>2, <2>2, <3>1
  <2> QED
    BY <2>1, <2>2
<1> QED
  BY <1>1, <1>2, <1>3, SetsBoth DEF Cleaning

\* ... and two parts that start bring up what both bring up.
LEMMA StartingBoth ==
  ASSUME NEW s, NEW t, NEW S, NEW T, Starting(s, S), Cleaning(t, T)
  PROVE  Starting(s \o t, S \union T)
<1>1. /\ s \in Seq(StepKinds) /\ t \in Seq(StepKinds) /\ Len(s) >= 3
      /\ \A i \in 1 .. Len(s) : s[i].closes <=> i > 3
      /\ s[1].makes = {} /\ s[2].makes = {}
      /\ \A i \in 1 .. Len(t) : t[i].closes
  BY DEF Starting, Cleaning
<1>2. /\ s \o t \in Seq(StepKinds)
      /\ Len(s) \in Nat /\ Len(t) \in Nat /\ Len(s \o t) = Len(s) + Len(t)
      /\ \A i \in 1 .. Len(s) + Len(t) : (s \o t)[i] =
           IF i <= Len(s) THEN s[i] ELSE t[i - Len(s)]
  BY <1>1, ConcatProperties, LenProperties
<1>3. ASSUME NEW i \in 1 .. Len(s) + Len(t) PROVE (s \o t)[i].closes <=> i > 3
  <2>1. CASE i <= Len(s)
    BY <1>1, <1>2, <2>1
  <2>2. CASE ~(i <= Len(s))
    <3>1. i - Len(s) \in 1 .. Len(t) /\ i > 3
      BY <1>1, <1>2, <2>2
    <3> QED
      BY <1>1, <1>2, <2>2, <3>1
  <2> QED
    BY <2>1, <2>2
<1>4. (s \o t)[1].makes = {} /\ (s \o t)[2].makes = {} /\ Len(s \o t) >= 3
  <2>1. /\ 1 \in 1 .. Len(s) + Len(t) /\ 1 <= Len(s)
        /\ 2 \in 1 .. Len(s) + Len(t) /\ 2 <= Len(s)
        /\ Len(s) + Len(t) >= 3
    BY <1>1, <1>2
  <2> QED
    BY <1>1, <1>2, <2>1
<1>5. Sets(s \o t, S \union T)
  BY <1>1, SetsBoth DEF Starting, Cleaning
<1> QED
  BY <1>2, <1>3, <1>4, <1>5 DEF Starting

\* A single step cleans up if its own error path does.
LEMMA CleaningOne ==
  ASSUME NEW things \in SUBSET Things
  PROVE  Cleaning(Closing(things), things)
<1>1. Closing(things) \in Seq(StepKinds) /\ Len(Closing(things)) = 1
  BY DEF Closing, StepKinds
<1> QED
  BY <1>1 DEF Closing, Cleaning, Sets

\* No steps leave nothing behind.
LEMMA CleaningNothing == Cleaning(<<>>, {})
  BY EmptySeq DEF Cleaning, Sets

\* One of the things that there is of each family.
Of(thing) == {<<thing, f>> : f \in families}

\* S if there is an IPv4 address, T if there is an IPv6 address, or both.
Both(S, T) == (IF "4" \in families THEN S ELSE {}) \union (IF "6" \in families THEN T ELSE {})

\* A step for each address family, as Each has it.
LEMMA EachCleans ==
  ASSUME NEW s, NEW t, NEW S, NEW T, Cleaning(s, S), Cleaning(t, T),
         NEW things, things \subseteq Both(S, T)
  PROVE  Cleaning((IF "4" \in families THEN s ELSE <<>>) \o (IF "6" \in families THEN t ELSE <<>>),
                  things)
<1>1. Cleaning(IF "4" \in families THEN s ELSE <<>>, IF "4" \in families THEN S ELSE {})
  BY CleaningNothing
<1>2. Cleaning(IF "6" \in families THEN t ELSE <<>>, IF "6" \in families THEN T ELSE {})
  BY CleaningNothing
<1>3. Cleaning((IF "4" \in families THEN s ELSE <<>>) \o (IF "6" \in families THEN t ELSE <<>>),
               Both(S, T))
  BY <1>1, <1>2, CleaningBoth DEF Both
<1> QED
  BY <1>3 DEF Cleaning, Sets

\* The tun device itself: until it exists there is nothing to close.
LEMMA CreateStarts == Starting(CreateTUN, {})
<1> DEFINE a == [makes |-> {}, closes |-> FALSE]
           b == [makes |-> {<<"tun">>}, closes |-> FALSE]
<1>1. a \in StepKinds /\ b \in StepKinds
  BY DEF StepKinds, Things
<1>2. CreateTUN = (<<a>> \o <<a>>) \o <<b>>
  BY DEF CreateTUN, Leaving
<1> HIDE DEF a, b
<1> DEFINE s == <<a>> \o <<a>>
<1>3. /\ s \in Seq(StepKinds) /\ Len(s) = 2
      /\ \A i \in 1 .. 2 : s[i] = IF i <= 1 THEN <<a>>[i] ELSE <<a>>[i - 1]
  <2>1. <<a>> \in Seq(StepKinds) /\ Len(<<a>>) = 1
    BY <1>1
  <2> QED
    BY <2>1, ConcatProperties
<1> HIDE DEF s
<1>4. /\ s \o <<b>> \in Seq(StepKinds) /\ Len(s \o <<b>>) = 3
      /\ \A i \in 1 .. 3 : (s \o <<b>>)[i] = IF i <= 2 THEN s[i] ELSE <<b>>[i - 2]
  <2>1. <<b>> \in Seq(StepKinds) /\ Len(<<b>>) = 1
    BY <1>1
  <2>2. /\ s \o <<b>> \in Seq(StepKinds) /\ Len(s \o <<b>>) = Len(s) + Len(<<b>>)
        /\ \A i \in 1 .. Len(s) + Len(<<b>>) : (s \o <<b>>)[i] =
             IF i <= Len(s) THEN s[i] ELSE <<b>>[i - Len(s)]
    BY <1>3, <2>1, ConcatProperties
  <2>3. Len(s) = 2 /\ Len(s) + Len(<<b>>) = 3
    BY <1>3, <2>1
  <2> QED
    BY <2>2, <2>3
<1>5. s[1] = a /\ s[2] = a
  BY <1>3
<1>6. CreateTUN[1] = a /\ CreateTUN[2] = a /\ CreateTUN[3] = b
  <2>1. (s \o <<b>>)[1] = a /\ (s \o <<b>>)[2] = a /\ (s \o <<b>>)[3] = b
    BY <1>4, <1>5
  <2> QED
    BY <1>2, <2>1 DEF s
<1>7. CreateTUN \in Seq(StepKinds) /\ Len(CreateTUN) = 3
  BY <1>2, <1>4 DEF s
<1> QED
  BY <1>6, <1>7 DEF Starting, Sets, a, b

\* Addresses, one by one.
LEMMA AddressesClean ==
  ASSUME families \in SUBSET Families
  PROVE  Cleaning(Each(Address), Of("address"))
<1> DEFINE A(f) == {<<"address", f>>}
<1>1. Cleaning(Address("4"), A("4")) /\ Cleaning(Address("6"), A("6"))
  BY CleaningOne DEF Address, Things, Families
<1>2. Of("address") \subseteq Both(A("4"), A("6"))
  <2>1. \A f \in families : f = "4" \/ f = "6"
    BY DEF Families
  <2> QED
    BY <2>1 DEF Both, Of
<1> QED
  BY <1>1, <1>2, EachCleans DEF Each

\* Routes, one by one.
LEMMA RoutesClean ==
  ASSUME families \in SUBSET Families
  PROVE  Cleaning(Each(Route), Of("route"))
<1> DEFINE A(f) == {<<"route", f>>}
<1>1. Cleaning(Route("4"), A("4")) /\ Cleaning(Route("6"), A("6"))
  BY CleaningOne DEF Route, Things, Families
<1>2. Of("route") \subseteq Both(A("4"), A("6"))
  <2>1. \A f \in families : f = "4" \/ f = "6"
    BY DEF Families
  <2> QED
    BY <2>1 DEF Both, Of
<1> QED
  BY <1>1, <1>2, EachCleans DEF Each

\* MTU and route, family by family.
LEMMA MTUsAndRoutesClean ==
  ASSUME families \in SUBSET Families
  PROVE  Cleaning(Each(LAMBDA f : MTU(f) \o Route(f)), Of("mtu") \union Of("route"))
<1> DEFINE A(f) == {<<"mtu", f>>} \union {<<"route", f>>}
<1>1. ASSUME NEW f \in Families PROVE Cleaning(MTU(f) \o Route(f), A(f))
  <2>1. {<<"mtu", f>>} \in SUBSET Things /\ {<<"route", f>>} \in SUBSET Things
    BY DEF Things
  <2> QED
    BY <2>1, CleaningOne, CleaningBoth DEF MTU, Route
<1>2. Cleaning(MTU("4") \o Route("4"), A("4")) /\ Cleaning(MTU("6") \o Route("6"), A("6"))
  BY <1>1 DEF Families
<1>3. Of("mtu") \union Of("route") \subseteq Both(A("4"), A("6"))
  <2>1. \A f \in families : f = "4" \/ f = "6"
    BY DEF Families
  <2> QED
    BY <2>1 DEF Both, Of
<1> QED
  BY <1>2, <1>3, EachCleans DEF Each
\* What every start-up makes, if none of its steps fails.
Needed == {<<"up">>} \union Of("address") \union Of("route")

\* On either platform, a step that fails closes the tun device unless there is
\* none, and all that is needed is set up by one of them.
LEMMA StepsStart ==
  ASSUME families \in SUBSET Families, platform \in {"darwin", "windows"}
  PROVE  Starting(Steps, Needed)
<1>1. /\ {<<"name">>} \in SUBSET Things /\ {<<"luid">>} \in SUBSET Things
      /\ {<<"interface">>} \in SUBSET Things /\ {<<"bind">>} \in SUBSET Things
      /\ {<<"device">>} \in SUBSET Things /\ {<<"up">>} \in SUBSET Things
      /\ Of("address") \in SUBSET Things
  BY DEF Things, Of
<1>2. Cleaning(CreateDevice, {<<"device">>} \union {<<"up">>})
  BY <1>1, CleaningOne, CleaningBoth DEF CreateDevice
<1>3. CASE platform = "darwin"
  <2> DEFINE s1 == CreateTUN \o Closing({<<"name">>})
             t1 == {} \union {<<"name">>}
             s2 == s1 \o Each(Address)
             t2 == t1 \union Of("address")
             s3 == s2 \o Each(Route)
             t3 == t2 \union Of("route")
             s4 == s3 \o Closing({<<"interface">>})
             t4 == t3 \union {<<"interface">>}
             s5 == s4 \o Closing({<<"bind">>})
             t5 == t4 \union {<<"bind">>}
             t6 == t5 \union ({<<"device">>} \union {<<"up">>})
  <2>1. Starting(s1, t1)
    BY <1>1, CreateStarts, CleaningOne, StartingBoth
  <2> HIDE DEF s1, t1
  <2>2. Starting(s2, t2)
    BY <2>1, AddressesClean, StartingBoth
  <2> HIDE DEF s2, t2
  <2>3. Starting(s3, t3)
    BY <2>2, RoutesClean, StartingBoth
  <2> HIDE DEF s3, t3
  <2>4. Starting(s4, t4)
    BY <1>1, <2>3, CleaningOne, StartingBoth
  <2> HIDE DEF s4, t4
  <2>5. Starting(s5, t5)
    BY <1>1, <2>4, CleaningOne, StartingBoth
  <2> HIDE DEF s5, t5
  <2>6. Starting(s5 \o CreateDevice, t6)
    BY <1>2, <2>5, StartingBoth
  <2>7. Steps = s5 \o CreateDevice
    BY <1>3 DEF Steps, DarwinSteps, s1, s2, s3, s4, s5
  <2>8. Needed \subseteq t6
    BY DEF Needed, t1, t2, t3, t4, t5
  <2> QED
    BY <2>6, <2>7, <2>8 DEF Starting, Sets
<1>4. CASE platform = "windows"
  <2> DEFINE s1 == CreateTUN \o Closing({<<"luid">>})
             t1 == {} \union {<<"luid">>}
             s2 == s1 \o Closing({<<"address", f>> : f \in families})
             t2 == t1 \union Of("address")
             s3 == s2 \o Each(LAMBDA f : MTU(f) \o Route(f))
             t3 == t2 \union (Of("mtu") \union Of("route"))
             s4 == s3 \o Closing({<<"interface">>})
             t4 == t3 \union {<<"interface">>}
             t5 == t4 \union ({<<"device">>} \union {<<"up">>})
  <2>1. Starting(s1, t1)
    BY <1>1, CreateStarts, CleaningOne, StartingBoth
  <2> HIDE DEF s1, t1
  <2>2. Starting(s2, t2)
    BY <1>1, <2>1, CleaningOne, StartingBoth DEF Of
  <2> HIDE DEF s2, t2
  <2>3. Starting(s3, t3)
    BY <2>2, MTUsAndRoutesClean, StartingBoth
  <2> HIDE DEF s3, t3
  <2>4. Starting(s4, t4)
    BY <1>1, <2>3, CleaningOne, StartingBoth
  <2> HIDE DEF s4, t4
  <2>5. Starting(s4 \o CreateDevice, t5)
    BY <1>2, <2>4, StartingBoth
  <2>6. Steps = s4 \o CreateDevice
    BY <1>4 DEF Steps, WindowsSteps, s1, s2, s3, s4
  <2>7. Needed \subseteq t5
    BY DEF Needed, t1, t2, t3, t4
  <2> QED
    BY <2>5, <2>6, <2>7 DEF Starting, Sets
<1> QED
  BY <1>3, <1>4

\* The steps are the same throughout.
LEMMA StepsStay == UNCHANGED machine => Steps' = Steps
BY DEF machine, Steps, DarwinSteps, WindowsSteps, Each, CreateTUN, CreateDevice,
       Address, Route, MTU, Closing, Leaving

-----------------------------------------------------------------------------
(* Types, the order of run's phases, and how many errors there can be.     *)

\* startTunnel is at a step of its own, before the clock starts, and nobody listens
\* before the tunnel is up; the last poll is due an interval behind the deadline at the latest.
TypeInv ==
  /\ platform \in {"darwin", "windows"} /\ families \in SUBSET Families
  /\ pc \in {"setup", "tunnel", "poll", "check", "sleep", "spawn", "notify", "select", "exited"}
  /\ exit \in {"no", "ok", "error", "timeout", "killed"}
  /\ sig \in {0, 1} /\ notified \in BOOLEAN
  /\ listener \in [Ports -> {"off", "starting", "listening", "failed"}]
  /\ now \in Nat /\ now <= MaxTime
  /\ asked \in Nat /\ asked <= now
  /\ wake \in Nat /\ wake <= Timeout + Interval
  /\ stage \in Nat \ {0} /\ stage <= Len(Steps) + 1
  /\ exit = "no" <=> pc # "exited"
  /\ pc = "tunnel" => stage <= Len(Steps)
  /\ pc = "setup" => stage = 1
  /\ pc \in {"setup", "tunnel"} => now = 0
  /\ pc \in {"poll", "check", "sleep", "spawn", "notify", "select"} => stage = Len(Steps) + 1
  /\ (\E p \in Ports : listener[p] # "off") => pc \in {"notify", "select", "exited"}

\* No step of the process changes the machine.
LEMMA MachineStays == [Next]_vars => UNCHANGED machine
BY DEF Next, Run, Exited, vars, SetupFails, SetupWorks, StepWorks, StepFails, Poll, PollFails,
       TimesOut, GiveUp, Sleep, SleepUntil, Wake, Tick, Spawn, Notify, Listen, ServeFails,
       StopOnError, StopOnSignal, StopAfter, Stop, Handshake, Signal

\* There are steps to count.
LEMMA StepsTyped ==
  ASSUME TypeInv
  PROVE  /\ Len(Steps) \in Nat /\ Len(Steps) >= 3
         /\ \A i \in 1 .. Len(Steps) : Steps[i].closes <=> i > 3
         /\ Steps[1].makes = {} /\ Steps[2].makes = {}
         /\ Sets(Steps, Needed)
<1>1. Starting(Steps, Needed)
  BY StepsStart DEF TypeInv
<1> QED
  BY <1>1, LenProperties DEF Starting

\* In the initial state nothing has been done.
LEMMA InitTypeInv == Init => TypeInv
<1> SUFFICES ASSUME Init PROVE TypeInv
  OBVIOUS
<1>1. Starting(Steps, Needed)
  BY StepsStart DEF Init, Families
<1>2. Len(Steps) \in Nat /\ 1 <= Len(Steps) + 1
  BY <1>1, LenProperties DEF Starting
<1>3. 0 <= Timeout + Interval /\ 0 <= MaxTime
  BY LifecycleAssumption
<1>4. platform \in {"darwin", "windows"} /\ families \in SUBSET Families
  BY DEF Init, Families
<1>5. pc = "setup" /\ stage = 1 /\ exit = "no" /\ now = 0 /\ wake = 0 /\ asked = 0
      /\ sig = 0
  BY DEF Init
<1>6. listener = [p \in Ports |-> "off"] /\ notified = FALSE
  BY DEF Init
<1>7. /\ listener \in [Ports -> {"off", "starting", "listening", "failed"}]
      /\ ~(\E p \in Ports : listener[p] # "off")
  BY <1>6
<1>8. stage \in Nat \ {0} /\ stage <= Len(Steps) + 1 /\ (pc = "tunnel" => stage <= Len(Steps))
  BY <1>2, <1>5
<1>9. /\ now \in Nat /\ now <= MaxTime
      /\ asked \in Nat /\ asked <= now
      /\ wake \in Nat /\ wake <= Timeout + Interval
  BY <1>3, <1>5
<1>10. /\ pc \notin {"poll", "check", "sleep", "spawn", "notify", "select"}
       /\ pc \in {"setup", "tunnel", "poll", "check", "sleep", "spawn", "notify", "select",
                  "exited"}
       /\ exit \in {"no", "ok", "error", "timeout", "killed"} /\ sig \in {0, 1}
       /\ exit = "no" <=> pc # "exited"
  BY <1>5
<1> QED
  BY <1>4, <1>5, <1>6, <1>7, <1>8, <1>9, <1>10 DEF TypeInv

\* Every step preserves the types and the order of the phases.
LEMMA NextTypeInv == TypeInv /\ [Next]_vars => TypeInv'
<1> SUFFICES ASSUME TypeInv, [Next]_vars PROVE TypeInv'
  OBVIOUS
<1> DEFINE n == Len(Steps)
<1>1. n \in Nat /\ n' = n /\ UNCHANGED machine
  BY StepsTyped, StepsStay, MachineStays
<1> HIDE DEF n
<1> USE <1>1, LifecycleAssumption DEF TypeInv, machine
<1>3. CASE SetupFails
  BY <1>3 DEF SetupFails, Return, tunnel, clock, serving, signals, n
<1>4. CASE SetupWorks
  BY <1>4, StepsTyped DEF SetupWorks, tunnel, clock, serving, signals, n
<1>5. CASE StepWorks
  BY <1>5 DEF StepWorks, serving, signals, n
<1>6. CASE StepFails
  BY <1>6 DEF StepFails, Return, CloseTun, tunnel, clock, serving, signals, n
<1>7. CASE Poll
  BY <1>7 DEF Poll, tunnel, serving, signals, n
<1>8. CASE PollFails \/ TimesOut
  BY <1>8 DEF PollFails, TimesOut, GiveUp, Return, CloseTun, clock, serving, signals, n
<1>20. CASE Sleep
  BY <1>20 DEF Sleep, SleepUntil, tunnel, serving, signals, n
<1>9. CASE Wake
  BY <1>9 DEF Wake, tunnel, clock, serving, signals, n
<1>10. CASE Tick
  BY <1>10 DEF Tick, Waiting, tunnel, serving, signals, n
<1>11. CASE Handshake
  BY <1>11 DEF Handshake, tunnel, serving, signals, n
<1>12. CASE Spawn
  BY <1>12 DEF Spawn, tunnel, clock, signals, n
<1>13. CASE Notify
  BY <1>13 DEF Notify, tunnel, clock, serving, n
<1>14. ASSUME NEW p \in Ports, Listen(p) PROVE TypeInv'
  BY <1>14 DEF Listen, tunnel, clock, signals, n
<1>15. ASSUME NEW p \in Ports, ServeFails(p) PROVE TypeInv'
  BY <1>15 DEF ServeFails, tunnel, clock, signals, n
<1>16. CASE Signal
  BY <1>16 DEF Signal, tunnel, clock, serving, n
<1>17. CASE StopOnError
  BY <1>17 DEF StopOnError, StopAfter, Stop, Return, CloseTun, clock, signals, n
<1>18. CASE StopOnSignal
  BY <1>18 DEF StopOnSignal, Stop, Return, CloseTun, clock, serving, n
<1>19. CASE UNCHANGED vars
  BY <1>19 DEF vars, tunnel, clock, serving, signals, n
<1> QED
  BY <1>3, <1>4, <1>5, <1>6, <1>7, <1>8, <1>9, <1>10, <1>11, <1>12, <1>13, <1>14, <1>15,
     <1>16, <1>17, <1>18, <1>19, <1>20 DEF Next, Run, Exited

-----------------------------------------------------------------------------
(* Errors in the channel.                                                  *)

FailedPorts == {p \in Ports : listener[p] = "failed"}

\* Each listener fails at most once.
Counted == errc \in Nat /\ errc <= Cardinality(FailedPorts)

\* The claims about time and listeners hold at first.
LEMMA InitCounted == Init => Counted
<1> SUFFICES ASSUME Init PROVE Counted
  OBVIOUS
<1>1. FailedPorts = {} /\ errc = 0
  BY DEF Init, FailedPorts
<1> QED
  BY <1>1, FS_EmptySet DEF Counted

\* Every step preserves them.
LEMMA NextCounted == TypeInv /\ Counted /\ [Next]_vars => Counted'
<1> SUFFICES ASSUME TypeInv, Counted, [Next]_vars PROVE Counted'
  OBVIOUS
<1>1. IsFiniteSet(FailedPorts) /\ Cardinality(FailedPorts) \in Nat
  BY LifecycleAssumption, FS_Subset, FS_CardinalityType DEF FailedPorts
<1>2. CASE UNCHANGED <<listener, errc>>
  BY <1>2 DEF Counted, FailedPorts
<1>3. CASE Spawn
  <2>1. FailedPorts = {}
    BY <1>3 DEF Spawn, TypeInv, FailedPorts
  <2>2. FailedPorts' = {} /\ errc' = errc
    BY <1>3 DEF Spawn, FailedPorts
  <2> QED
    BY <2>1, <2>2 DEF Counted
<1>4. ASSUME NEW p \in Ports, Listen(p) PROVE Counted'
  <2>1. FailedPorts' = FailedPorts /\ errc' = errc
    BY <1>4 DEF Listen, TypeInv, FailedPorts
  <2> QED
    BY <2>1 DEF Counted
<1>5. ASSUME NEW p \in Ports, ServeFails(p) PROVE Counted'
  <2>1. FailedPorts' = FailedPorts \union {p} /\ p \notin FailedPorts /\ errc' = errc + 1
    BY <1>5 DEF ServeFails, TypeInv, FailedPorts
  <2>2. Cardinality(FailedPorts') = Cardinality(FailedPorts) + 1
    BY <1>1, <2>1, FS_AddElement
  <2> QED
    BY <1>1, <2>1, <2>2 DEF Counted
<1>6. CASE StopOnError
  <2>1. errc >= 1 /\ errc' = errc - 1 /\ FailedPorts' = FailedPorts
    BY <1>6 DEF StopOnError, StopAfter, FailedPorts
  <2> QED
    BY <1>1, <2>1 DEF Counted
<1> QED
  BY <1>2, <1>3, <1>4, <1>5, <1>6
  DEF Next, Run, Exited, vars, SetupFails, SetupWorks, StepWorks, StepFails, Poll, PollFails,
      TimesOut, GiveUp, Sleep, SleepUntil, Wake, Tick, Notify, StopOnSignal, Handshake, Signal,
      serving

-----------------------------------------------------------------------------
(* What has been made is taken down again, once.                           *)

Tidy ==
  /\ exit # "no" => made = {}
  /\ stage <= 3 => made = {}
  /\ closes \in {0, 1}
  /\ exit = "no" => closes = 0

\* At first there is nothing to tidy up.
LEMMA InitTidy == Init => Tidy
BY DEF Init, Tidy

\* Every step leaves only what the process still accounts for.
LEMMA NextTidy == TypeInv /\ Tidy /\ [Next]_vars => Tidy'
<1> SUFFICES ASSUME TypeInv, Tidy, [Next]_vars PROVE Tidy'
  OBVIOUS
<1> USE DEF Tidy
<1>1. exit = "no" <=> pc # "exited"
  BY DEF TypeInv
<1>2. CASE UNCHANGED <<stage, made, closes, exit>>
  BY <1>2
<1>3. CASE SetupFails
  BY <1>1, <1>3 DEF SetupFails, Return, TypeInv, tunnel
<1>4. CASE StepWorks
  <2>1. /\ stage \in Nat \ {0} /\ stage' = stage + 1 /\ UNCHANGED <<closes, exit>> /\ exit = "no"
        /\ made' = made \union Steps[stage].makes
    BY <1>1, <1>4 DEF StepWorks, TypeInv
  <2>2. stage' <= 3 => stage = 1 \/ stage = 2
    BY <2>1
  <2> QED
    BY <2>1, <2>2, StepsTyped
<1>5. CASE StepFails
  <2>1. stage \in 1 .. Len(Steps)
    BY <1>5, StepsTyped DEF StepFails, TypeInv
  <2>2. CASE Steps[stage].closes
    BY <1>1, <1>5, <2>2 DEF StepFails, Return, CloseTun
  <2>3. CASE ~Steps[stage].closes
    <3>1. ~(stage > 3)
      BY <2>1, <2>3, StepsTyped
    <3>2. stage <= 3
      BY <2>1, <3>1, StepsTyped
    <3> QED
      BY <1>1, <1>5, <2>3, <3>2 DEF StepFails, Return, tunnel
  <2> QED
    BY <2>2, <2>3
<1>6. CASE Poll \/ Sleep
  BY <1>6 DEF Poll, Sleep, SleepUntil, tunnel
<1>7. CASE PollFails \/ TimesOut
  BY <1>1, <1>7 DEF PollFails, TimesOut, GiveUp, Return, CloseTun
<1>8. CASE Signal
  BY <1>1, <1>8 DEF Signal, tunnel
<1>9. CASE StopOnError \/ StopOnSignal
  BY <1>1, <1>9 DEF StopOnError, StopAfter, StopOnSignal, Stop, Return, CloseTun
<1> QED
  BY <1>2, <1>3, <1>4, <1>5, <1>6, <1>7, <1>8, <1>9
  DEF Next, Run, Exited, vars, SetupWorks, Wake, Tick, Spawn, Notify, Listen, ServeFails,
      Handshake, tunnel

-----------------------------------------------------------------------------
(* What the tunnel needs is there while the process runs.                  *)

\* What the steps so far have set up is still there, a peer has answered before
\* the listeners start.
Complete ==
  /\ exit = "no" => \A i \in 1 .. stage - 1 : Steps[i].makes \subseteq made
  /\ pc \in {"spawn", "notify", "select"} => shook # {}

\* The claims about a tunnel that is up hold at first.
LEMMA InitComplete == Init => Complete
BY DEF Init, Complete

\* Every step preserves them.
LEMMA NextComplete == TypeInv /\ Tidy /\ Complete /\ [Next]_vars => Complete'
<1> SUFFICES ASSUME TypeInv, Tidy, Complete, [Next]_vars PROVE Complete'
  OBVIOUS
<1>1. exit = "no" <=> pc # "exited"
  BY DEF TypeInv
<1>2. Steps' = Steps
  BY StepsStay, MachineStays
<1>3. ASSUME UNCHANGED <<stage, made, exit, shook>>, pc' \in {"spawn", "notify", "select"} => pc \in {"spawn", "notify", "select"}
      PROVE  Complete'
  BY <1>2, <1>3 DEF Complete
<1>4. CASE StepWorks
  <2>1. /\ stage \in Nat \ {0} /\ stage' = stage + 1 /\ UNCHANGED <<exit, shook>> /\ exit = "no"
        /\ made' = made \union Steps[stage].makes /\ pc' \in {"tunnel", "poll"}
    BY <1>1, <1>4 DEF StepWorks, TypeInv
  <2>2. ASSUME NEW i \in 1 .. stage' - 1 PROVE Steps[i].makes \subseteq made'
    <3>1. i = stage \/ i \in 1 .. stage - 1
      BY <2>1
    <3> QED
      BY <2>1, <3>1 DEF Complete
  <2> QED
    BY <1>2, <2>1, <2>2 DEF Complete
<1>5. ASSUME exit' # "no", pc' = "exited" PROVE Complete'
  BY <1>5 DEF Complete
<1>6. CASE Poll
  BY <1>1, <1>2, <1>6 DEF Poll, tunnel, Complete
<1>7. CASE Handshake
  BY <1>2, <1>7 DEF Handshake, tunnel, Complete, Tidy
<1>8. CASE Signal
  <2>1. CASE notified
    BY <1>3, <1>8, <2>1 DEF Signal, tunnel, clock
  <2>2. CASE ~notified
    BY <1>5, <1>8, <2>2 DEF Signal
  <2> QED
    BY <2>1, <2>2
<1>9. CASE SetupFails \/ StepFails \/ PollFails \/ TimesOut \/ StopOnError \/ StopOnSignal
  BY <1>5, <1>9 DEF SetupFails, StepFails, PollFails, TimesOut, StopOnError, StopOnSignal,
                    StopAfter, Stop, GiveUp, Return
<1>10. CASE SetupWorks \/ Sleep \/ Wake \/ Tick \/ Spawn \/ Notify \/ UNCHANGED vars
  BY <1>3, <1>10 DEF SetupWorks, Sleep, SleepUntil, Wake, Tick, Spawn, Notify, vars, tunnel, clock
<1>11. ASSUME NEW p \in Ports, Listen(p) \/ ServeFails(p) PROVE Complete'
  BY <1>3, <1>11 DEF Listen, ServeFails, tunnel, clock
<1> QED
  BY <1>4, <1>6, <1>7, <1>8, <1>9, <1>10, <1>11 DEF Next, Run, Exited

-----------------------------------------------------------------------------
(* What waitForHandshake knows when it gives up.                           *)

\* The device was asked behind the last sleep, and had no handshake then.
Informed == wake <= asked /\ \A t \in shook : asked <= t

\* It is so from the answer of the device on, until the next sleep; before that
\* the sleep is over, and a timeout ends everything.
Timely ==
  /\ pc = "poll" => wake <= now
  /\ pc = "check" => Informed
  /\ exit = "timeout" => made = {} /\ Informed /\ now > Timeout

\* At first nobody has waited.
LEMMA InitTimely == Init => Timely
BY DEF Init, Timely

\* A handshake that is completed later is completed behind the question.
LEMMA NextTimely == TypeInv /\ Tidy /\ Timely /\ [Next]_vars => Timely'
<1> SUFFICES ASSUME TypeInv, Tidy, Timely, [Next]_vars PROVE Timely'
  OBVIOUS
<1> USE DEF Timely, Informed
<1>1. /\ exit = "no" <=> pc # "exited"
      /\ now \in Nat /\ asked \in Nat /\ wake \in Nat /\ asked <= now
  BY DEF TypeInv
<1>2. ASSUME pc' \notin {"poll", "check"}, exit' # "timeout" PROVE Timely'
  BY <1>2
<1>3. CASE SetupFails \/ SetupWorks \/ StepFails \/ PollFails \/ Spawn \/ Notify \/ StopOnError
           \/ StopOnSignal
  BY <1>1, <1>2, <1>3 DEF SetupFails, SetupWorks, StepFails, PollFails, GiveUp, Spawn, Notify,
     StopOnError, StopOnSignal, StopAfter, Stop, Return
<1>4. CASE StepWorks
  BY <1>1, <1>4 DEF StepWorks
<1>5. CASE Poll
  BY <1>1, <1>5 DEF Poll
<1>6. CASE TimesOut
  BY <1>6 DEF TimesOut, GiveUp, Return, CloseTun, clock
<1>7. CASE Sleep \/ Wake
  BY <1>1, <1>7 DEF Sleep, SleepUntil, Wake, clock
<1>8. CASE Tick
  BY <1>1, <1>8 DEF Tick, Waiting, tunnel
<1>9. CASE Handshake
  BY <1>1, <1>9 DEF Handshake, tunnel
<1>10. CASE Signal
  <2>1. CASE notified
    BY <1>10, <2>1 DEF Signal, tunnel, clock
  <2>2. CASE ~notified
    BY <1>2, <1>10, <2>2 DEF Signal
  <2> QED
    BY <2>1, <2>2
<1>11. ASSUME NEW p \in Ports, Listen(p) \/ ServeFails(p) PROVE Timely'
  BY <1>11 DEF Listen, ServeFails, tunnel, clock
<1>12. CASE UNCHANGED vars
  BY <1>12 DEF vars, tunnel, clock
<1> QED
  BY <1>3, <1>4, <1>5, <1>6, <1>7, <1>8, <1>9, <1>10, <1>11, <1>12 DEF Next, Run, Exited

-----------------------------------------------------------------------------
(* The theorems.                                                           *)

Inv == TypeInv /\ Counted /\ Tidy /\ Complete /\ Timely

\* The invariant holds at first.
LEMMA InitInv == Init => Inv
BY InitTypeInv, InitCounted, InitTidy, InitComplete, InitTimely DEF Inv

\* Every step preserves the invariant.
LEMMA NextInv == Inv /\ [Next]_vars => Inv'
BY NextTypeInv, NextCounted, NextTidy, NextComplete, NextTimely DEF Inv

\* The types follow: there are never more errors than listeners.
LEMMA InvTypeOK == Inv => TypeOK
<1> SUFFICES ASSUME Inv PROVE TypeOK
  OBVIOUS
<1>1. TypeInv /\ Counted
  BY DEF Inv
<1>2. errc \in 0 .. Cardinality(Ports)
  <2>1. /\ Cardinality(FailedPorts) \in Nat /\ Cardinality(Ports) \in Nat
        /\ Cardinality(FailedPorts) <= Cardinality(Ports)
    BY LifecycleAssumption, FS_Subset, FS_CardinalityType DEF FailedPorts
  <2> QED
    BY <1>1, <2>1 DEF Counted
<1>3. stage \in 1 .. Len(Steps) + 1 /\ now \in 0 .. MaxTime /\ asked \in 0 .. now
      /\ wake \in 0 .. Timeout + Interval
  BY <1>1, StepsTyped, LifecycleAssumption DEF TypeInv
<1> QED
  BY <1>1, <1>2, <1>3 DEF TypeOK, TypeInv

\* Whatever fails, and however run returns, the tun device has been closed.
LEMMA InvNothingLeftBehind == Inv => NothingLeftBehind
BY DEF Inv, Tidy, NothingLeftBehind

\* Behind the last step, all that is needed is there.
LEMMA InvServesThroughTunnel == Inv => ServesThroughTunnel
<1> SUFFICES ASSUME Inv, \E p \in Ports : listener[p] # "off", exit = "no"
             PROVE  shook # {} /\ Needed \subseteq made
  BY DEF ServesThroughTunnel, Needed, Of
<1>1. TypeInv /\ Complete
  BY DEF Inv
<1>2. pc \in {"notify", "select"} /\ stage = Len(Steps) + 1
  BY <1>1 DEF TypeInv
<1>3. shook # {} /\ \A i \in 1 .. stage - 1 : Steps[i].makes \subseteq made
  BY <1>1, <1>2 DEF Complete
<1>4. Len(Steps) \in Nat /\ Sets(Steps, Needed)
  BY <1>1, StepsTyped
<1>5. ASSUME NEW x \in Needed PROVE x \in made
  <2>1. PICK i \in 1 .. Len(Steps) : x \in Steps[i].makes
    BY <1>4 DEF Sets
  <2>2. i \in 1 .. stage - 1
    BY <1>2, <1>4
  <2> QED
    BY <1>3, <2>1, <2>2
<1> QED
  BY <1>3, <1>5

\* There was no handshake to be had when the device was asked last.
LEMMA InvTimeoutIsReal == Inv => TimeoutIsReal
<1> SUFFICES ASSUME Inv, exit = "timeout"
             PROVE  now > Timeout /\ asked >= wake /\ \A t \in shook : t >= asked
  BY DEF TimeoutIsReal
<1>1. wake <= asked /\ now > Timeout /\ \A t \in shook : asked <= t
  BY DEF Inv, Timely, Informed
<1> QED
  BY <1>1

\* The invariant holds in every reachable state, with any number of listeners.
THEOREM Invariance == Spec => []Inv
  BY InitInv, NextInv, PTL DEF Spec

\* The types hold: no step of startTunnel is out of range, waitForHandshake gives
\* up in time, and the channel has room for every error.
THEOREM Types == Spec => []TypeOK
  BY Invariance, InvTypeOK, PTL

\* On no error path, of either platform, is anything of the tunnel left behind.
THEOREM CleansUp == Spec => []NothingLeftBehind
  BY Invariance, InvNothingLeftBehind, PTL

\* Nothing is served before a peer has answered and every family has its address
\* and its route.
THEOREM ServesOnlyThroughTunnel == Spec => []ServesThroughTunnel
  BY Invariance, InvServesThroughTunnel, PTL

\* The wait for a handshake is given up only behind the deadline, and only if none
\* was completed up to the last question, which came after the last sleep.
THEOREM GivesUpForAReason == Spec => []TimeoutIsReal
  BY Invariance, InvTimeoutIsReal, PTL

-----------------------------------------------------------------------------
(* Sockets of the device.                                                  *)

\* The socket that is open is the one that the next Close will close, and has a
\* reader; there is none, and no reader, unless the device is up.
Owned ==
  /\ open = conn /\ open \subseteq receiving
  /\ (conn # {} \/ receiving # {}) => bound /\ Up

\* What the process and WireGuard's goroutines do together is a behaviour of the
\* process.
LEMMA BoundStep == [BoundNext]_boundVars => [Next]_vars
  BY DEF BoundNext, Process, InBackground, boundVars

\* A process with a socket keeps the invariant of the process.
LEMMA BoundInvariance == BoundSpec => []Inv
<1>1. BoundInit => Inv
  BY InitInv DEF BoundInit
<1>2. Inv /\ [BoundNext]_boundVars => Inv'
  BY NextInv, BoundStep
<1> QED
  BY <1>1, <1>2, PTL DEF BoundSpec

\* Opening a socket while there is none.
LEMMA OpenOwned ==
  ASSUME Owned, NEW s \in Sockets, B!Open(s)
  PROVE  open' = conn' /\ open' \subseteq receiving'
  BY DEF Owned, B!Open

\* At first the socket is closed, and so it may be.
LEMMA InitOwned == BoundInit => Owned
  BY DEF BoundInit, B!Init, Owned

\* Every step of the process or of its device leaves the socket where it should be.
LEMMA NextOwned == Owned /\ [BoundNext]_boundVars => Owned'
<1> SUFFICES ASSUME Owned, [BoundNext]_boundVars PROVE Owned'
  OBVIOUS
<1>1. CASE Process
  <2>1. UNCHANGED bound /\ Device
    BY <1>1 DEF Process
  <2>2. CASE ~bound
    BY <2>1, <2>2 DEF Device, Owned, socket
  <2>3. CASE bound /\ (Up' <=> Up)
    <3>1. Up' = Up
      BY <2>3 DEF Up
    <3>2. UNCHANGED socket
      BY <2>1, <3>1 DEF Device
    <3> QED
      BY <2>1, <2>3, <3>2 DEF Owned, socket
  <2>4. CASE bound /\ ~Up /\ Up'
    <3>1. PICK s \in Sockets : B!Open(s)
      BY <2>1, <2>4 DEF Device
    <3> QED
      BY <2>1, <2>4, <3>1, OpenOwned DEF Owned
  <2>5. CASE bound /\ Up /\ ~Up'
    <3>1. \/ Vanishes
          \/ conn = {} /\ receiving = {} /\ UNCHANGED socket
      BY <2>1, <2>5 DEF Device
    <3> QED
      BY <3>1 DEF Vanishes, Owned, socket
  <2> QED
    BY <2>2, <2>3, <2>4, <2>5
<1>2. ASSUME UNCHANGED <<vars, bound>> PROVE UNCHANGED bound /\ (Up' <=> Up)
  BY <1>2 DEF vars, tunnel, Up
<1>3. CASE InBackground(DeviceDown)
  BY <1>2, <1>3 DEF InBackground, DeviceDown, B!Close, Owned
<1>4. CASE InBackground(DeviceUp)
  <2>1. PICK s \in Sockets : B!Open(s)
    BY <1>4 DEF InBackground, DeviceUp
  <2> QED
    BY <1>2, <1>4, <2>1, OpenOwned DEF InBackground, Owned
<1>5. CASE InBackground(Receivers)
  BY <1>2, <1>5 DEF InBackground, Receivers, B!ReceiveFails, Owned
<1>6. CASE InBackground(B!SendTakes)
  BY <1>2, <1>6 DEF InBackground, B!SendTakes, Owned
<1>7. ASSUME NEW s \in Sockets, InBackground(B!SendEnds(s)) PROVE Owned'
  BY <1>2, <1>7 DEF InBackground, B!SendEnds, Owned
<1>8. CASE UNCHANGED boundVars
  BY <1>2, <1>8 DEF boundVars, socket, Owned
<1> QED
  BY <1>1, <1>3, <1>4, <1>5, <1>6, <1>7, <1>8 DEF BoundNext

\* Through all downs and ups at most the one socket is open that the next Close
\* closes, and when the process has returned there is none.
THEOREM SocketsDoNotLeak == BoundSpec => []NoSocketLeaks
<1>1. BoundSpec => []Owned
  BY InitOwned, NextOwned, PTL DEF BoundSpec
<1>2. Inv /\ Owned => NoSocketLeaks
  BY DEF Inv, Tidy, Owned, Up, NoSocketLeaks
<1> QED
  BY <1>1, <1>2, BoundInvariance, PTL
=============================================================================
