----------------------------- MODULE HostsFile ------------------------------
(***************************************************************************)
(* run-with-hosts.sh and run-with-hosts.ps1: the hosts file while vpnproxy *)
(* runs.  Each instance of the script looks for entries that a previous    *)
(* one has left, removes them, appends its own, runs vpnproxy, and removes *)
(* all managed entries when it exits.  It can be killed anywhere, and in   *)
(* the shell script Ctrl+C kills the command that is running and then runs *)
(* the INT trap, which removes the entries but does not exit.              *)
(***************************************************************************)
EXTENDS Naturals, Sequences

CONSTANTS
  Instances,      \* runs of the script
  Hosts,          \* HOSTS_ENTRY_HOSTS, a sequence
  UserLines,      \* the user's own lines, a sequence
  Ascii,          \* what such a line turns into when it is written in ASCII, a function
  MaxInterrupts   \* bound of the model: how often Ctrl+C hits one instance

ASSUME HostsFileAssumption ==
  /\ Hosts \in Seq(STRING) /\ Hosts # <<>>
  /\ UserLines \in Seq(DOMAIN Ascii)
  /\ Ascii \in [DOMAIN Ascii -> DOMAIN Ascii]
  /\ \A u \in DOMAIN Ascii : Ascii[Ascii[u]] = Ascii[u]
  /\ MaxInterrupts \in Nat

VARIABLES
  lang,       \* which script it is: "sh" or "ps1"
  file,       \* the hosts file, a sequence of lines
  pc,         \* [Instances -> where it is; "idle" before, "gone" or "killed" after]
  after,      \* [Instances -> where remove_hosts_entry returns to]
  kept,       \* [Instances -> what removal will write]
  added,      \* [Instances -> number of entries appended]
  interrupts, \* [Instances -> number of Ctrl+Cs so far]
  original,   \* the file at first (history)
  overlapped  \* whether two instances have ever run at the same time (history)

script == <<after, kept, added, interrupts>>
fixed  == <<lang, original>>
vars   == <<file, pc, script, fixed, overlapped>>

\* A line: the user's lines on it, the managed entries on it (host and instance),
\* and whether it ends in a newline, which only the last line may lack.
Line(user, entries, ended) == [user |-> user, entries |-> entries, ended |-> ended]

AllHosts == {Hosts[k] : k \in DOMAIN Hosts}
Lines ==
  [user : SUBSET DOMAIN Ascii,
   entries : SUBSET (AllHosts \X Instances), ended : BOOLEAN]

Unmanaged == {line \in Lines : line.entries = {}}
Users     == {line \in Lines : line.user # {}}

Init ==
  /\ lang \in {"sh", "ps1"}
  /\ \E n \in 0 .. Len(UserLines), ended \in BOOLEAN :
       file = [i \in 1 .. n |-> Line({UserLines[i]}, {}, i < n \/ ended)]
  /\ original = file
  /\ pc = [i \in Instances |-> "idle"]
  /\ after = [i \in Instances |-> "end"]
  /\ kept = [i \in Instances |-> <<>>]
  /\ added = [i \in Instances |-> 0]
  /\ interrupts = [i \in Instances |-> 0]
  /\ overlapped = FALSE

Active(i) == pc[i] \notin {"idle", "gone", "killed", "torn"}

-----------------------------------------------------------------------------
(* What the commands do to the file.                                       *)

Unended(f) == f # <<>> /\ ~f[Len(f)].ended

\* >>: text that ends in a newline goes to the end of the last line, if that
\* has none.
Appended(f, entries) ==
  IF Unended(f)
  THEN [f EXCEPT ![Len(f)] = Line(@.user, @.entries \union entries, TRUE)]
  ELSE Append(f, Line({}, entries, TRUE))

Newline(f) == Appended(f, {})

HasMarker(f) == \E n \in DOMAIN f : f[n].entries # {}

\* The lines of f that are in S, in their order.
Only(f, S) ==
  LET upTo[n \in 0 .. Len(f)] ==
        IF n = 0 THEN <<>>
        ELSE IF f[n] \in S THEN Append(upTo[n - 1], f[n]) ELSE upTo[n - 1]
  IN upTo[Len(f)]

\* sed /marker/d
WithoutMarker(f) == Only(f, Unmanaged)

-----------------------------------------------------------------------------
(* The steps of an instance.                                               *)

GoTo(i, place) == pc' = [pc EXCEPT ![i] = place]

\* remove_hosts_entry is called, to return to place.
Remove(i, place) ==
  /\ GoTo(i, "find")
  /\ after' = [after EXCEPT ![i] = place]

Start(i) ==
  /\ pc[i] = "idle"
  /\ GoTo(i, "stale")
  /\ overlapped' = (overlapped \/ \E j \in Instances : Active(j))
  /\ UNCHANGED <<file, script, fixed>>

\* Mutant: entries that are there already stay.
IgnoreStale(i) ==
  /\ pc[i] = "stale" /\ GoTo(i, "guard")
  /\ UNCHANGED <<file, script, fixed, overlapped>>

\* add_hosts_entry: entries of a previous run are removed first.
CheckStale(i) ==
  /\ pc[i] = "stale"
  /\ IF HasMarker(file) THEN Remove(i, "guard") ELSE GoTo(i, "guard") /\ UNCHANGED after
  /\ UNCHANGED <<file, kept, added, interrupts, fixed, overlapped>>

\* Mutant: no newline is ever missing.
NoGuard(i) ==
  /\ pc[i] = "guard" /\ GoTo(i, "append")
  /\ UNCHANGED <<file, script, fixed, overlapped>>

Guard(i) ==
  /\ pc[i] = "guard"
  /\ GoTo(i, IF Unended(file) THEN "newline" ELSE "append")
  /\ UNCHANGED <<file, script, fixed, overlapped>>

\* One entry is written to f; vpnproxy is run behind the last one.
AppendEntry(i, f) ==
  /\ file' = Appended(f, {<<Hosts[added[i] + 1], i>>})
  /\ added' = [added EXCEPT ![i] = @ + 1]
  /\ GoTo(i, IF added[i] + 1 = Len(Hosts) THEN "run" ELSE "append")
  /\ UNCHANGED <<after, kept, interrupts, fixed, overlapped>>

\* A write of its own in the shell; a prefix of the first entry in PowerShell.
AddNewline(i) ==
  /\ pc[i] = "newline"
  /\ IF lang = "sh"
     THEN file' = Newline(file) /\ GoTo(i, "append") /\ UNCHANGED <<script, fixed, overlapped>>
     ELSE AppendEntry(i, Newline(file))

AddEntry(i) == pc[i] = "append" /\ AppendEntry(i, file)

\* Mutant: there is no EXIT trap.
JustExit(i) ==
  /\ pc[i] \in {"run", "exit"} /\ GoTo(i, "gone")
  /\ UNCHANGED <<file, script, fixed, overlapped>>

\* vpnproxy has ended, or set -e has; EXIT trap or finally.
Exit(i) ==
  /\ pc[i] \in {"run", "exit"} /\ Remove(i, "end")
  /\ UNCHANGED <<file, kept, added, interrupts, fixed, overlapped>>

Return(i) == GoTo(i, IF after[i] = "end" THEN "gone" ELSE after[i])

\* grep, and sed later; Get-Content is the one reading in PowerShell, and there
\* is an exception when nothing else is in the file.
Find(i) ==
  /\ pc[i] = "find"
  /\ kept' = [kept EXCEPT ![i] = IF lang = "ps1" THEN WithoutMarker(file) ELSE <<>>]
  /\ IF ~HasMarker(file) \/ (lang = "ps1" /\ WithoutMarker(file) = <<>>) THEN Return(i)
     ELSE GoTo(i, IF lang = "sh" THEN "sed" ELSE "write")
  /\ UNCHANGED <<file, after, added, interrupts, fixed, overlapped>>

\* sed writes a temporary file ...
Sed(i) ==
  /\ pc[i] = "sed" /\ GoTo(i, "rename")
  /\ kept' = [kept EXCEPT ![i] = WithoutMarker(file)]
  /\ UNCHANGED <<file, after, added, interrupts, fixed, overlapped>>

\* ... and renames it.
Rename(i) ==
  /\ pc[i] = "rename" /\ Return(i)
  /\ file' = kept[i]
  /\ UNCHANGED <<script, fixed, overlapped>>

\* WriteAllLines truncates the file, then writes: every line gets its newline,
\* and loses the characters that ASCII lacks.
Truncate(i) ==
  /\ pc[i] = "write" /\ GoTo(i, "writing")
  /\ file' = <<>>
  /\ UNCHANGED <<script, fixed, overlapped>>

WriteLines(i) ==
  /\ pc[i] = "writing" /\ Return(i)
  /\ file' = [n \in DOMAIN kept[i] |->
                 Line({Ascii[u] : u \in kept[i][n].user}, kept[i][n].entries, TRUE)]
  /\ UNCHANGED <<script, fixed, overlapped>>

-----------------------------------------------------------------------------
(* Interruptions.                                                          *)

\* Where the script goes on after the INT trap: where it was, or behind the
\* command that runs and dies.  A condition is false then, so that entries look
\* absent and a newline seems to be missing; sed ends the script, unless that is
\* ending anyway; vpnproxy ends as it does by itself.
Resumptions(i) ==
  CASE pc[i] = "stale" -> {"stale", "guard"}
    [] pc[i] = "guard" -> {"guard"} \union IF file = <<>> THEN {} ELSE {"newline"}
    [] pc[i] = "find" -> {after[i]}
    [] pc[i] \in {"sed", "rename"} -> {after[i], IF after[i] = "end" THEN "end" ELSE "exit"}
    [] pc[i] = "run" -> {"run", "exit"}
    [] OTHER -> {pc[i]}

Interrupt(i) ==
  /\ lang = "sh" /\ Active(i) /\ interrupts[i] < MaxInterrupts
  /\ interrupts' = [interrupts EXCEPT ![i] = @ + 1]
  /\ \E place \in Resumptions(i) : Remove(i, place)
  /\ UNCHANGED <<file, kept, added, fixed, overlapped>>

\* SIGKILL, or the machine stops.
Kill(i) ==
  /\ Active(i)
  /\ GoTo(i, IF pc[i] = "writing" THEN "torn" ELSE "killed")
  /\ UNCHANGED <<file, script, fixed, overlapped>>

-----------------------------------------------------------------------------
Step(i) ==
  \/ CheckStale(i) \/ Guard(i) \/ AddNewline(i) \/ AddEntry(i)
  \/ Exit(i) \/ Find(i) \/ Sed(i) \/ Rename(i) \/ Truncate(i) \/ WriteLines(i)

Next == \E i \in Instances : Start(i) \/ Step(i) \/ Interrupt(i) \/ Kill(i)

Spec == Init /\ [][Next]_vars

-----------------------------------------------------------------------------
(* Properties.                                                             *)

UsersLines(f) == Only(f, Users)
WhoseText(f) == [n \in DOMAIN UsersLines(f) |-> UsersLines(f)[n].user]

\* What texts turn into when they are written in ASCII.
InAscii(texts) == [n \in DOMAIN texts |-> {Ascii[u] : u \in texts[n]}]

\* The user's own lines survive every run, interruption and kill, in their order
\* and each on a line of its own, even with two runs at once: the shell script
\* leaves their text alone, and PowerShell either does or has written all of them
\* in ASCII, which changes those with other characters.  As it writes in place,
\* all is lost while a rewriting is under way and when it was cut short, and
\* anything may be with two runs at once.
UserLinesSafe ==
  \/ WhoseText(file) = WhoseText(original)
  \/ /\ lang = "ps1"
     /\ \/ WhoseText(file) = InAscii(WhoseText(original))
        \/ overlapped
        \/ \E i \in Instances : pc[i] \in {"writing", "torn"}

\* The lines on which instance i redirects a host.
Redirecting(host, i) == {n \in DOMAIN file : <<host, i>> \in file[n].entries}
Leftover(i) == \E host \in AllHosts : Redirecting(host, i) # {}

\* WriteAllLines refuses to write nothing.
OnlyManaged == lang = "ps1" /\ WithoutMarker(file) = <<>>

\* However often it was interrupted, a run that exits leaves no entry, if it was
\* alone; and when none is left but that were killed, there are no others'.
NoEntryOutlivesItsRun ==
  \A i \in Instances : pc[i] = "gone" /\ Leftover(i) =>
    OnlyManaged \/ (overlapped /\ \E j \in Instances : Active(j) \/ pc[j] \in {"killed", "torn"})

\* While vpnproxy runs for a script that was neither interrupted nor run twice,
\* each host has the one entry it should have, on a line of its own, also after
\* earlier runs that were killed.
RunningMeansRedirected ==
  \A i \in Instances : pc[i] = "run" /\ interrupts[i] = 0 /\ ~overlapped =>
    /\ \A k \in DOMAIN Hosts : \E n \in DOMAIN file :
         Redirecting(Hosts[k], i) = {n} /\ file[n].user = {}
    /\ \A j \in Instances \ {i} : ~Leftover(j) \/ OnlyManaged
=============================================================================
