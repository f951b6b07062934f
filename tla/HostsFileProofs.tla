-------------------------- MODULE HostsFileProofs ---------------------------
(***************************************************************************)
(* Proofs about HostsFile, for any runs, hosts, lines and interrupts.      *)
(*                                                                         *)
(* What sed and Where-Object keep of a file is a recursive function of it, *)
(* so that the lemmas about it are by induction, over the length of a      *)
(* file or by appending lines.  The invariant says which files the scripts *)
(* make (Kempt), that the user's text is in them or in what will replace   *)
(* them (Intact), who can have entries (Entries, Quiet, Over), and, for a  *)
(* run without interruption or overlap, where they are (Redirected).       *)
(***************************************************************************)
EXTENDS HostsFile, WellFoundedInduction, SequenceTheorems, TLAPS

-----------------------------------------------------------------------------
(* Induction, and the lines that are kept of a file.                       *)

\* Induction, by a least counterexample.
LEMMA Induction ==
  ASSUME NEW S \in SUBSET Nat, 0 \in S, \A n \in S : n + 1 \in S
  PROVE  \A n \in Nat : n \in S
<1> DEFINE T == Nat \ S
<1>1. SUFFICES ASSUME T # {} PROVE FALSE
  OBVIOUS
<1>2. PICK r \in T : \A s \in T : ~(<<s, r>> \in OpToRel(<, Nat))
  BY <1>1, NatLessThanWellFounded, WFMin, T \subseteq Nat
<1>3. r \in Nat /\ r # 0 /\ r - 1 \in Nat /\ r - 1 < r /\ (r - 1) + 1 = r
  OBVIOUS
<1>4. r - 1 \in T
  BY <1>3
<1>5. <<r - 1, r>> \in Nat \X Nat /\ <<r - 1, r>>[1] = r - 1 /\ <<r - 1, r>>[2] = r
  BY <1>3
<1>6. <<r - 1, r>> \in OpToRel(<, Nat)
  BY <1>3, <1>5, Zenon DEF OpToRel
<1> QED
  BY <1>2, <1>4, <1>6

\* g lists what is kept of each prefix of f, up to m lines.
Filtering(g, f, S, m) ==
  g = [n \in 0 .. m |->
         IF n = 0 THEN <<>>
         ELSE IF f[n] \in S THEN Append(g[n - 1], f[n]) ELSE g[n - 1]]

\* What is kept of a file is the last of the prefixes that Only goes through, where there
\* is a function that lists them.
LEMMA OnlyIs ==
  ASSUME NEW f, NEW S, \E g : Filtering(g, f, S, Len(f))
  PROVE  \E g : Filtering(g, f, S, Len(f)) /\ Only(f, S) = g[Len(f)]
<1> DEFINE c == CHOOSE g : Filtering(g, f, S, Len(f))
<1>1. Filtering(c, f, S, Len(f))
  OBVIOUS
<1>2. Only(f, S) = c[Len(f)]
  BY DEF Only, Filtering
<1> QED
  BY <1>1, <1>2

\* There is such a function, for a prefix of any length.
LEMMA Filters ==
  ASSUME NEW f, NEW S
  PROVE  \A m \in Nat : \E g : Filtering(g, f, S, m)
<1> DEFINE N == {m \in Nat : \E g : Filtering(g, f, S, m)}
<1>1. 0 \in N
  <2>1. Filtering([n \in 0 .. 0 |-> <<>>], f, S, 0)
    BY DEF Filtering
  <2> QED
    BY <2>1
<1>2. ASSUME NEW m \in N PROVE m + 1 \in N
  <2>1. PICK g : Filtering(g, f, S, m)
    OBVIOUS
  <2> DEFINE h == [n \in 0 .. m + 1 |->
                     IF n <= m THEN g[n]
                     ELSE IF f[n] \in S THEN Append(g[m], f[n]) ELSE g[m]]
  <2>2. ASSUME NEW n \in 0 .. m + 1
        PROVE  h[n] = IF n = 0 THEN <<>>
                      ELSE IF f[n] \in S THEN Append(h[n - 1], f[n]) ELSE h[n - 1]
    <3>1. CASE n = 0
      BY <2>1, <3>1 DEF Filtering
    <3>2. CASE n # 0 /\ n <= m
      <4>1. n - 1 \in 0 .. m + 1 /\ n - 1 <= m /\ n \in 0 .. m
        BY <3>2
      <4>2. h[n] = g[n] /\ h[n - 1] = g[n - 1]
        BY <3>2, <4>1
      <4> QED
        BY <2>1, <3>2, <4>1, <4>2 DEF Filtering
    <3>3. CASE n = m + 1
      <4>1. n - 1 = m /\ m \in 0 .. m + 1 /\ ~(n <= m) /\ n # 0 /\ m <= m
        BY <3>3
      <4>2. h[n - 1] = g[m]
        BY <4>1
      <4>3. h[n] = IF f[n] \in S THEN Append(g[m], f[n]) ELSE g[m]
        BY <4>1
      <4> QED
        BY <4>1, <4>2, <4>3
    <3> QED
      BY <3>1, <3>2, <3>3
  <2>3. h = [n \in 0 .. m + 1 |->
               IF n = 0 THEN <<>>
               ELSE IF f[n] \in S THEN Append(h[n - 1], f[n]) ELSE h[n - 1]]
    BY <2>2
  <2>4. Filtering(h, f, S, m + 1)
    BY <2>3 DEF Filtering
  <2> QED
    BY <2>4
<1>3. N \in SUBSET Nat
  OBVIOUS
<1>4. \A m \in Nat : m \in N
  <2> HIDE DEF N
  <2> QED
    BY <1>1, <1>2, <1>3, Induction
<1> QED
  BY <1>4

\* The functions of two files agree where the files do.
LEMMA FilteringAgrees ==
  ASSUME NEW f, NEW S, NEW g, NEW m \in Nat, Filtering(g, f, S, m),
         NEW h, NEW e, NEW k \in Nat, m <= k, Filtering(h, e, S, k),
         \A n \in 1 .. m : e[n] = f[n]
  PROVE  \A n \in 0 .. m : h[n] = g[n]
<1> DEFINE N == {n \in Nat : n <= m => h[n] = g[n]}
<1>1. 0 \in N
  BY DEF Filtering
<1>2. ASSUME NEW n \in N PROVE n + 1 \in N
  <2>1. SUFFICES ASSUME n + 1 <= m PROVE h[n + 1] = g[n + 1]
    OBVIOUS
  <2>2. n \in Nat /\ n + 1 \in 0 .. m /\ n + 1 \in 0 .. k /\ n + 1 # 0
        /\ (n + 1) - 1 = n /\ n <= m /\ n + 1 \in 1 .. m
    BY <2>1
  <2>3. h[n + 1] = IF e[n + 1] \in S THEN Append(h[n], e[n + 1]) ELSE h[n]
    BY <2>2 DEF Filtering
  <2>4. g[n + 1] = IF f[n + 1] \in S THEN Append(g[n], f[n + 1]) ELSE g[n]
    BY <2>2 DEF Filtering
  <2> QED
    BY <2>2, <2>3, <2>4
<1>3. N \in SUBSET Nat
  OBVIOUS
<1>4. \A n \in Nat : n \in N
  <2> HIDE DEF N
  <2> QED
    BY <1>1, <1>2, <1>3, Induction
<1> QED
  BY <1>4

\* Nothing is kept of an empty file.
LEMMA OnlyOfNothing == ASSUME NEW S PROVE Only(<<>>, S) = <<>>
<1>1. PICK g : Filtering(g, <<>>, S, Len(<<>>)) /\ Only(<<>>, S) = g[Len(<<>>)]
  BY OnlyIs, Filters, Len(<<>>) = 0
<1> QED
  BY <1>1 DEF Filtering

\* What is kept of a sequence with one more line.
LEMMA OnlyOfAppend ==
  ASSUME NEW L, NEW f \in Seq(L), NEW x \in L, NEW S
  PROVE  Only(Append(f, x), S) = IF x \in S THEN Append(Only(f, S), x) ELSE Only(f, S)
<1> DEFINE m == Len(f)
           e == Append(f, x)
<1>1. m \in Nat /\ m + 1 \in Nat /\ Len(e) = m + 1 /\ m <= m + 1
      /\ e[m + 1] = x /\ \A n \in 1 .. m : e[n] = f[n]
  OBVIOUS
<1>2. PICK g : Filtering(g, f, S, m) /\ Only(f, S) = g[m]
  BY OnlyIs, Filters, <1>1
<1>3. PICK h : Filtering(h, e, S, m + 1) /\ Only(e, S) = h[m + 1]
  BY OnlyIs, Filters, <1>1
<1> HIDE DEF e, m
<1>4. h[m] = g[m]
  <2>1. \A n \in 0 .. m : h[n] = g[n]
    BY <1>1, <1>2, <1>3, FilteringAgrees
  <2> QED
    BY <1>1, <2>1
<1>5. m + 1 \in 0 .. m + 1 /\ m + 1 # 0 /\ (m + 1) - 1 = m
  BY <1>1
<1>6. h[m + 1] = IF e[m + 1] \in S THEN Append(h[m], e[m + 1]) ELSE h[m]
  BY <1>3, <1>5 DEF Filtering
<1> QED
  BY <1>1, <1>2, <1>3, <1>4, <1>6 DEF e, m

\* What holds of the empty sequence and is preserved by appending an element holds
\* of every sequence.
LEMMA SequenceInduction ==
  ASSUME NEW L, NEW P \in SUBSET Seq(L), <<>> \in P,
         \A f \in P, x \in L : Append(f, x) \in P
  PROVE  \A f \in Seq(L) : f \in P
<1> DEFINE N == {n \in Nat : \A f \in Seq(L) : Len(f) = n => f \in P}
<1>1. 0 \in N
  BY EmptySeq
<1>2. ASSUME NEW n \in N PROVE n + 1 \in N
  <2>1. SUFFICES ASSUME NEW f \in Seq(L), Len(f) = n + 1 PROVE f \in P
    OBVIOUS
  <2>2. f # <<>> /\ n \in Nat
    BY <2>1, EmptySeq
  <2>3. PICK g \in Seq(L), x \in L : f = Append(g, x)
    BY <2>2, SequenceEmptyOrAppend
  <2>4. Len(g) = n
    BY <2>1, <2>2, <2>3, AppendProperties, LenProperties
  <2> QED
    BY <2>3, <2>4
<1>3. N \in SUBSET Nat
  OBVIOUS
<1>4. \A n \in Nat : n \in N
  <2> HIDE DEF N
  <2> QED
    BY <1>1, <1>2, <1>3, Induction
<1> QED
  BY <1>4, LenProperties

\* The lines that are kept are lines of the file, and among those asked for.
LEMMA OnlyType ==
  ASSUME NEW L, NEW S
  PROVE  \A f \in Seq(L) : Only(f, S) \in Seq(L \intersect S)
<1> DEFINE P == {f \in Seq(L) : Only(f, S) \in Seq(L \intersect S)}
<1>1. <<>> \in P
  BY OnlyOfNothing, EmptySeq
<1>2. ASSUME NEW f \in P, NEW x \in L PROVE Append(f, x) \in P
  <2>1. Append(f, x) \in Seq(L)
    OBVIOUS
  <2>2. Only(Append(f, x), S) = IF x \in S THEN Append(Only(f, S), x) ELSE Only(f, S)
    BY OnlyOfAppend
  <2>3. x \in S => x \in L \intersect S
    OBVIOUS
  <2>4. Only(Append(f, x), S) \in Seq(L \intersect S)
    BY <2>2, <2>3, AppendProperties
  <2> QED
    BY <2>1, <2>4
<1>3. P \in SUBSET Seq(L)
  OBVIOUS
<1>4. \A f \in Seq(L) : f \in P
  <2> HIDE DEF P
  <2> QED
    BY <1>1, <1>2, <1>3, SequenceInduction
<1> QED
  BY <1>4

-----------------------------------------------------------------------------
(* The text of the user's lines.                                           *)

\* What the user's lines may read.
Names == DOMAIN Ascii

\* A line of the user's lines and managed entries is one, and has these.
LEMMA LineType ==
  ASSUME NEW user \in SUBSET Names, NEW entries \in SUBSET (AllHosts \X Instances),
         NEW ended \in BOOLEAN
  PROVE  /\ Line(user, entries, ended) \in Lines
         /\ Line(user, entries, ended).user = user
         /\ Line(user, entries, ended).entries = entries
         /\ Line(user, entries, ended).ended = ended
  BY DEF Line, Lines, Names

\* What the fields of a line are, and how they tell what is the user's and what is managed.
LEMMA FieldTypes ==
  ASSUME NEW x \in Lines
  PROVE  /\ x.user \in SUBSET Names /\ x.entries \in SUBSET (AllHosts \X Instances)
         /\ x.ended \in BOOLEAN
         /\ x \in Users <=> x.user # {}
         /\ x \in Unmanaged <=> x.entries = {}
  BY DEF Lines, Names, Users, Unmanaged

\* An empty file has no text of the user's.
LEMMA TextOfNothing == WhoseText(<<>>) = <<>>
<1>1. UsersLines(<<>>) = <<>>
  BY OnlyOfNothing DEF UsersLines
<1> QED
  BY <1>1 DEF WhoseText

\* The user's text is a sequence of sets of the user's lines, one for each line it is on.
LEMMA TextType ==
  ASSUME NEW f \in Seq(Lines)
  PROVE  /\ UsersLines(f) \in Seq(Lines)
         /\ WhoseText(f) \in Seq(SUBSET Names)
         /\ Len(WhoseText(f)) = Len(UsersLines(f))
<1>1. UsersLines(f) \in Seq(Lines \intersect Users)
  BY OnlyType DEF UsersLines
<1>2. UsersLines(f) \in Seq(Lines)
  BY <1>1, SeqMonotonic, Lines \intersect Users \subseteq Lines
<1>3. /\ Len(UsersLines(f)) \in Nat /\ DOMAIN UsersLines(f) = 1 .. Len(UsersLines(f))
      /\ \A n \in 1 .. Len(UsersLines(f)) : UsersLines(f)[n].user \in SUBSET Names
  BY <1>2, LenProperties, ElementOfSeq, FieldTypes
<1>4. WhoseText(f) = [n \in 1 .. Len(UsersLines(f)) |-> UsersLines(f)[n].user]
  BY <1>3 DEF WhoseText
<1> HIDE DEF WhoseText
<1> QED
  BY <1>2, <1>3, <1>4

\* The text of a file with one more line.
LEMMA TextOfAppend ==
  ASSUME NEW f \in Seq(Lines), NEW x \in Lines
  PROVE  WhoseText(Append(f, x)) =
           IF x.user # {} THEN Append(WhoseText(f), x.user) ELSE WhoseText(f)
<1>1. UsersLines(Append(f, x)) =
        IF x.user # {} THEN Append(UsersLines(f), x) ELSE UsersLines(f)
  BY OnlyOfAppend, FieldTypes DEF UsersLines
<1>2. CASE x.user = {}
  BY <1>1, <1>2 DEF WhoseText
<1>3. CASE x.user # {}
  <2> DEFINE u == UsersLines(f)
             v == UsersLines(Append(f, x))
             s == WhoseText(Append(f, x))
             t == Append(WhoseText(f), x.user)
  <2>1. /\ u \in Seq(Lines) /\ Len(u) \in Nat /\ DOMAIN u = 1 .. Len(u)
        /\ v = Append(u, x)
        /\ v \in Seq(Lines) /\ Len(v) = Len(u) + 1 /\ DOMAIN v = 1 .. Len(u) + 1
        /\ v[Len(u) + 1] = x /\ \A n \in 1 .. Len(u) : v[n] = u[n]
    BY <1>1, <1>3, TextType, AppendProperties, LenProperties
  <2>2. /\ WhoseText(f) \in Seq(SUBSET Names) /\ Len(WhoseText(f)) = Len(u)
        /\ s \in Seq(SUBSET Names) /\ Len(s) = Len(v)
        /\ x.user \in SUBSET Names
    BY TextType, AppendProperties, FieldTypes
  <2>3. /\ t \in Seq(SUBSET Names) /\ Len(t) = Len(u) + 1
        /\ t[Len(u) + 1] = x.user /\ \A n \in 1 .. Len(u) : t[n] = WhoseText(f)[n]
    BY <2>2, AppendProperties
  <2>4. ASSUME NEW n \in 1 .. Len(u) + 1 PROVE s[n] = t[n]
    <3>1. s[n] = v[n].user
      BY <2>1 DEF WhoseText
    <3>2. CASE n \in 1 .. Len(u)
      <4>1. WhoseText(f)[n] = u[n].user
        BY <2>1, <3>2 DEF WhoseText
      <4> QED
        BY <2>1, <2>3, <3>1, <3>2, <4>1
    <3>3. CASE n = Len(u) + 1
      BY <2>1, <2>3, <3>1, <3>3
    <3>4. n \in 1 .. Len(u) \/ n = Len(u) + 1
      BY <2>1
    <3> QED
      BY <3>2, <3>3, <3>4
  <2> HIDE DEF s, t, u, v
  <2>5. s = t
    BY <2>1, <2>2, <2>3, <2>4, SeqEqual
  <2> QED
    BY <1>3, <2>5 DEF s, t
<1> QED
  BY <1>2, <1>3

\* Lines that hold either something of the user's or managed entries.
Pure == {x \in Lines : x.user = {} \/ x.entries = {}}

\* Removing the managed entries from such lines leaves the user's text alone.
LEMMA RemovalKeepsText ==
  \A f \in Seq(Pure) : WhoseText(WithoutMarker(f)) = WhoseText(f)
<1> DEFINE P == {f \in Seq(Pure) : WhoseText(WithoutMarker(f)) = WhoseText(f)}
<1>1. <<>> \in P
  BY OnlyOfNothing, EmptySeq DEF WithoutMarker
<1>2. ASSUME NEW f \in P, NEW x \in Pure PROVE Append(f, x) \in P
  <2>1. /\ f \in Seq(Pure) /\ Append(f, x) \in Seq(Pure)
        /\ f \in Seq(Lines) /\ x \in Lines /\ (x.user = {} \/ x.entries = {})
        /\ WhoseText(WithoutMarker(f)) = WhoseText(f)
    BY AppendProperties, SeqMonotonic, Pure \subseteq Lines DEF Pure
  <2>2. WithoutMarker(f) \in Seq(Lines)
    <3>1. WithoutMarker(f) \in Seq(Lines \intersect Unmanaged)
      BY <2>1, OnlyType DEF WithoutMarker
    <3> QED
      BY <3>1, SeqMonotonic, Lines \intersect Unmanaged \subseteq Lines
  <2>3. WithoutMarker(Append(f, x)) =
          IF x.entries = {} THEN Append(WithoutMarker(f), x) ELSE WithoutMarker(f)
    BY <2>1, OnlyOfAppend, FieldTypes DEF WithoutMarker
  <2>4. WhoseText(WithoutMarker(Append(f, x))) = WhoseText(Append(f, x))
    <3>1. WhoseText(Append(f, x)) =
            IF x.user # {} THEN Append(WhoseText(f), x.user) ELSE WhoseText(f)
      BY <2>1, TextOfAppend
    <3>2. CASE x.entries = {}
      <4>1. WhoseText(Append(WithoutMarker(f), x)) =
              IF x.user # {} THEN Append(WhoseText(f), x.user) ELSE WhoseText(f)
        BY <2>1, <2>2, TextOfAppend
      <4> QED
        BY <2>3, <3>1, <3>2, <4>1
    <3>3. CASE x.entries # {}
      BY <2>1, <2>3, <3>1, <3>3
    <3> QED
      BY <3>2, <3>3
  <2> QED
    BY <2>1, <2>4
<1>3. P \in SUBSET Seq(Pure)
  OBVIOUS
<1>4. \A f \in Seq(Pure) : f \in P
  <2> HIDE DEF P
  <2> QED
    BY <1>1, <1>2, <1>3, SequenceInduction
<1> QED
  BY <1>4

\* What ASCII makes of the texts on a line ...
Plain(user) == {Ascii[u] : u \in user}

\* ... and WriteLines of a line, and of the lines it has kept.
Rewritten(x) == Line(Plain(x.user), x.entries, TRUE)
Ended(f) == [n \in DOMAIN f |-> Rewritten(f[n])]

\* ASCII makes texts of texts, some of any, and nothing more of what it has made.
LEMMA PlainIs ==
  ASSUME NEW user \in SUBSET Names
  PROVE  /\ Plain(user) \in SUBSET Names /\ Plain(Plain(user)) = Plain(user)
         /\ Plain(user) = {} <=> user = {}
BY HostsFileAssumption DEF Plain, Names

\* A line that was rewritten is one.
LEMMA RewrittenType ==
  ASSUME NEW x \in Lines
  PROVE  /\ Rewritten(x) \in Lines /\ Rewritten(x).ended
         /\ Rewritten(x).user = Plain(x.user) /\ Rewritten(x).entries = x.entries
<1>1. Plain(x.user) \in SUBSET Names /\ x.entries \in SUBSET (AllHosts \X Instances)
  BY FieldTypes, PlainIs
<1> QED
  BY <1>1, LineType DEF Rewritten

\* The lines keep their places and entries.
LEMMA EndedType ==
  ASSUME NEW f \in Seq(Lines)
  PROVE  /\ Ended(f) \in Seq(Lines) /\ Len(Ended(f)) = Len(f)
         /\ \A n \in 1 .. Len(f) :
              /\ Ended(f)[n] = Rewritten(f[n]) /\ Ended(f)[n].ended
              /\ Ended(f)[n].entries = f[n].entries
<1>1. Len(f) \in Nat /\ DOMAIN f = 1 .. Len(f) /\ \A n \in 1 .. Len(f) : f[n] \in Lines
  BY LenProperties, ElementOfSeq
<1>2. Ended(f) = [n \in 1 .. Len(f) |-> Rewritten(f[n])]
  BY <1>1 DEF Ended
<1>4. ASSUME NEW n \in 1 .. Len(f)
      PROVE  /\ Ended(f)[n] = Rewritten(f[n]) /\ Ended(f)[n] \in Lines
             /\ Ended(f)[n].ended /\ Ended(f)[n].entries = f[n].entries
  <2>1. Ended(f)[n] = Rewritten(f[n]) /\ f[n] \in Lines
    BY <1>1, <1>2
  <2> QED
    BY <2>1, RewrittenType
<1>5. Ended(f) \in [1 .. Len(f) -> Lines]
  BY <1>2, <1>4
<1>6. Ended(f) \in Seq(Lines) /\ Len(Ended(f)) = Len(f)
  BY <1>1, <1>5
<1> QED
  BY <1>4, <1>6

\* ASCII makes something of each line: one more at the end, if one more is.
LEMMA InAsciiIs ==
  ASSUME NEW t \in Seq(SUBSET Names)
  PROVE  /\ InAscii(t) \in Seq(SUBSET Names) /\ Len(InAscii(t)) = Len(t)
         /\ \A n \in 1 .. Len(t) : InAscii(t)[n] = Plain(t[n])
         /\ InAscii(InAscii(t)) = InAscii(t)
         /\ \A u \in SUBSET Names : InAscii(Append(t, u)) = Append(InAscii(t), Plain(u))
<1>1. ASSUME NEW s \in Seq(SUBSET Names)
      PROVE  /\ InAscii(s) \in Seq(SUBSET Names) /\ Len(InAscii(s)) = Len(s)
             /\ \A n \in 1 .. Len(s) : InAscii(s)[n] = Plain(s[n])
  <2>1. Len(s) \in Nat /\ DOMAIN s = 1 .. Len(s) /\ \A n \in 1 .. Len(s) : s[n] \in SUBSET Names
    BY LenProperties, ElementOfSeq
  <2>2. InAscii(s) = [n \in 1 .. Len(s) |-> Plain(s[n])]
    BY <2>1 DEF InAscii, Plain
  <2>3. InAscii(s) \in [1 .. Len(s) -> SUBSET Names]
    BY <2>1, <2>2, PlainIs
  <2> QED
    BY <2>1, <2>2, <2>3
<1>2. Len(t) \in Nat /\ \A n \in 1 .. Len(t) : t[n] \in SUBSET Names
  BY LenProperties, ElementOfSeq
<1>3. InAscii(InAscii(t)) = InAscii(t)
  <2>1. /\ InAscii(InAscii(t)) \in Seq(SUBSET Names) /\ Len(InAscii(InAscii(t))) = Len(t)
        /\ \A n \in 1 .. Len(t) : InAscii(InAscii(t))[n] = Plain(Plain(t[n]))
    BY <1>1
  <2>2. \A n \in 1 .. Len(t) : InAscii(InAscii(t))[n] = InAscii(t)[n]
    BY <1>1, <1>2, <2>1, PlainIs
  <2> QED
    BY <1>1, <2>1, <2>2, SeqEqual
<1>4. ASSUME NEW u \in SUBSET Names
      PROVE  InAscii(Append(t, u)) = Append(InAscii(t), Plain(u))
  <2> DEFINE v == InAscii(Append(t, u))
             w == Append(InAscii(t), Plain(u))
  <2>1. /\ Append(t, u) \in Seq(SUBSET Names) /\ Len(Append(t, u)) = Len(t) + 1
        /\ Append(t, u)[Len(t) + 1] = u /\ \A n \in 1 .. Len(t) : Append(t, u)[n] = t[n]
    BY AppendProperties
  <2>2. /\ v \in Seq(SUBSET Names) /\ Len(v) = Len(t) + 1
        /\ \A n \in 1 .. Len(t) + 1 : v[n] = Plain(Append(t, u)[n])
    BY <1>1, <2>1
  <2>3. /\ w \in Seq(SUBSET Names) /\ Len(w) = Len(t) + 1
        /\ w[Len(t) + 1] = Plain(u) /\ \A n \in 1 .. Len(t) : w[n] = InAscii(t)[n]
    BY <1>1, PlainIs, AppendProperties
  <2> HIDE DEF v, w
  <2>4. ASSUME NEW n \in 1 .. Len(t) + 1 PROVE v[n] = w[n]
    <3>1. n \in 1 .. Len(t) \/ n = Len(t) + 1
      BY <1>2
    <3>2. CASE n \in 1 .. Len(t)
      BY <1>1, <2>1, <2>2, <2>3, <3>2
    <3>3. CASE n = Len(t) + 1
      BY <2>1, <2>2, <2>3, <3>3
    <3> QED
      BY <3>1, <3>2, <3>3
  <2>5. v = w
    BY <2>2, <2>3, <2>4, SeqEqual
  <2> QED
    BY <2>5 DEF v, w
<1> QED
  BY <1>1, <1>3, <1>4

\* WriteLines writes the user's text in ASCII.
LEMMA EndingKeepsText == \A f \in Seq(Lines) : WhoseText(Ended(f)) = InAscii(WhoseText(f))
<1> DEFINE P == {f \in Seq(Lines) : WhoseText(Ended(f)) = InAscii(WhoseText(f))}
<1>1. <<>> \in P
  <2>1. Ended(<<>>) = <<>> /\ InAscii(<<>>) = <<>>
    BY DEF Ended, InAscii
  <2> QED
    BY <2>1, EmptySeq, TextOfNothing
<1>2. ASSUME NEW f \in P, NEW x \in Lines PROVE Append(f, x) \in P
  <2> DEFINE y == Rewritten(x)
  <2>1. /\ f \in Seq(Lines) /\ Append(f, x) \in Seq(Lines) /\ Len(Append(f, x)) = Len(f) + 1
        /\ WhoseText(Ended(f)) = InAscii(WhoseText(f)) /\ Len(f) \in Nat
        /\ Append(f, x)[Len(f) + 1] = x /\ \A n \in 1 .. Len(f) : Append(f, x)[n] = f[n]
    BY AppendProperties, LenProperties
  <2>2. y \in Lines /\ y.user = Plain(x.user)
    BY RewrittenType
  <2>3. Ended(Append(f, x)) = Append(Ended(f), y)
    <3> DEFINE s == Ended(Append(f, x))
               t == Append(Ended(f), y)
    <3>1. /\ Ended(f) \in Seq(Lines) /\ Len(Ended(f)) = Len(f)
          /\ \A n \in 1 .. Len(f) : Ended(f)[n] = Rewritten(f[n])
      BY <2>1, EndedType
    <3>2. /\ s \in Seq(Lines) /\ Len(s) = Len(f) + 1
          /\ \A n \in 1 .. Len(f) + 1 : s[n] = Rewritten(Append(f, x)[n])
      BY <2>1, EndedType
    <3>3. /\ t \in Seq(Lines) /\ Len(t) = Len(f) + 1
          /\ t[Len(f) + 1] = y /\ \A n \in 1 .. Len(f) : t[n] = Ended(f)[n]
      BY <2>2, <3>1, AppendProperties
    <3>4. ASSUME NEW n \in 1 .. Len(f) + 1 PROVE s[n] = t[n]
      <4>1. n \in 1 .. Len(f) \/ n = Len(f) + 1
        BY <2>1
      <4> HIDE DEF s, t, y
      <4>2. CASE n \in 1 .. Len(f)
        BY <2>1, <3>1, <3>2, <3>3, <4>2
      <4>3. CASE n = Len(f) + 1
        <5>1. s[n] = Rewritten(x)
          BY <2>1, <3>2, <4>3
        <5> QED
          BY <3>3, <4>3, <5>1 DEF y
      <4> QED
        BY <4>1, <4>2, <4>3
    <3> HIDE DEF s, t
    <3>5. s = t
      BY <3>2, <3>3, <3>4, SeqEqual
    <3> QED
      BY <3>5 DEF s, t
  <2> HIDE DEF y
  <2>4. WhoseText(Append(Ended(f), y)) = InAscii(WhoseText(Append(f, x)))
    <3>1. WhoseText(Append(f, x)) =
            IF x.user # {} THEN Append(WhoseText(f), x.user) ELSE WhoseText(f)
      BY <2>1, TextOfAppend
    <3>2. Ended(f) \in Seq(Lines)
      BY <2>1, EndedType
    <3>3. WhoseText(Append(Ended(f), y)) =
            IF y.user # {} THEN Append(WhoseText(Ended(f)), y.user) ELSE WhoseText(Ended(f))
      BY <2>2, <3>2, TextOfAppend
    <3>4. x.user \in SUBSET Names /\ (y.user # {} <=> x.user # {})
      BY <2>2, FieldTypes, PlainIs
    <3>5. WhoseText(f) \in Seq(SUBSET Names)
      BY <2>1, TextType
    <3>6. InAscii(Append(WhoseText(f), x.user)) = Append(InAscii(WhoseText(f)), Plain(x.user))
      BY <3>4, <3>5, InAsciiIs
    <3> QED
      BY <2>1, <2>2, <3>1, <3>3, <3>4, <3>6
  <2> QED
    BY <2>1, <2>3, <2>4
<1>3. P \in SUBSET Seq(Lines)
  OBVIOUS
<1>4. \A f \in Seq(Lines) : f \in P
  <2> HIDE DEF P
  <2> QED
    BY <1>1, <1>2, <1>3, SequenceInduction
<1> QED
  BY <1>4

\* What an append leaves of the lines there were, and adds to them.
LEMMA AppendedShape ==
  ASSUME NEW f \in Seq(Lines), NEW e \in SUBSET (AllHosts \X Instances)
  PROVE  \/ /\ ~Unended(f) /\ Appended(f, e) = Append(f, Line({}, e, TRUE))
         \/ /\ Unended(f)
            /\ \E g \in Seq(Lines), x \in Lines :
                 /\ f = Append(g, x) /\ ~x.ended
                 /\ Appended(f, e) = Append(g, Line(x.user, x.entries \union e, TRUE))
<1>1. CASE ~Unended(f)
  BY <1>1 DEF Appended
<1>2. CASE Unended(f)
  <2>1. PICK g \in Seq(Lines), x \in Lines : f = Append(g, x)
    BY <1>2, SequenceEmptyOrAppend DEF Unended
  <2> DEFINE y == Line(x.user, x.entries \union e, TRUE)
             m == Len(g)
  <2>2. /\ m \in Nat /\ Len(f) = m + 1 /\ f[Len(f)] = x
        /\ Len(f) \in 1 .. Len(f) /\ \A n \in 1 .. m : f[n] = g[n]
    BY <2>1, AppendProperties, LenProperties
  <2>9. y \in Lines
    <3>1. x.user \in SUBSET Names /\ x.entries \union e \in SUBSET (AllHosts \X Instances)
      BY FieldTypes
    <3> QED
      BY <3>1, LineType
  <2>3. Appended(f, e) = [f EXCEPT ![Len(f)] = y]
    BY <1>2, <2>2 DEF Appended
  <2>4. ~x.ended
    BY <1>2, <2>2 DEF Unended
  <2> HIDE DEF y, m
  <2>5. /\ Appended(f, e) \in Seq(Lines) /\ Len(Appended(f, e)) = Len(f)
        /\ \A n \in 1 .. Len(f) : Appended(f, e)[n] = IF n = Len(f) THEN y ELSE f[n]
    BY <2>2, <2>3, <2>9, ExceptSeq
  <2>6. /\ Append(g, y) \in Seq(Lines) /\ Len(Append(g, y)) = m + 1
        /\ Append(g, y)[m + 1] = y /\ \A n \in 1 .. m : Append(g, y)[n] = g[n]
    BY <2>2, <2>9, AppendProperties DEF m
  <2>7. ASSUME NEW n \in 1 .. Len(f) PROVE Appended(f, e)[n] = Append(g, y)[n]
    <3>1. n = Len(f) \/ (n \in 1 .. m /\ n # Len(f))
      BY <2>2
    <3> QED
      BY <2>2, <2>5, <2>6, <3>1
  <2>8. Appended(f, e) = Append(g, y)
    BY <2>2, <2>5, <2>6, <2>7, SeqEqual
  <2> QED
    BY <1>2, <2>1, <2>4, <2>8 DEF y
<1> QED
  BY <1>1, <1>2

\* Appending leaves the user's text alone.
LEMMA AppendedKeepsText ==
  ASSUME NEW f \in Seq(Lines), NEW e \in SUBSET (AllHosts \X Instances)
  PROVE  Appended(f, e) \in Seq(Lines) /\ WhoseText(Appended(f, e)) = WhoseText(f)
<1>1. CASE ~Unended(f)
  <2>1. Appended(f, e) = Append(f, Line({}, e, TRUE))
    BY <1>1, AppendedShape
  <2> DEFINE y == Line({}, e, TRUE)
  <2>2. y \in Lines /\ y.user = {}
    BY LineType, {} \in SUBSET Names, TRUE \in BOOLEAN
  <2> HIDE DEF y
  <2>3. Append(f, y) \in Seq(Lines) /\ WhoseText(Append(f, y)) = WhoseText(f)
    BY <2>2, TextOfAppend, AppendProperties
  <2> QED
    BY <2>1, <2>3 DEF y
<1>2. CASE Unended(f)
  <2>1. PICK g \in Seq(Lines), x \in Lines :
          /\ f = Append(g, x) /\ ~x.ended
          /\ Appended(f, e) = Append(g, Line(x.user, x.entries \union e, TRUE))
    BY <1>2, AppendedShape
  <2> DEFINE y == Line(x.user, x.entries \union e, TRUE)
  <2>2. y \in Lines /\ y.user = x.user
    <3>1. x.user \in SUBSET Names /\ x.entries \union e \in SUBSET (AllHosts \X Instances)
      BY FieldTypes
    <3> QED
      BY <3>1, LineType
  <2> HIDE DEF y
  <2>3. Append(g, y) \in Seq(Lines)
    BY <2>2, AppendProperties
  <2>4. /\ WhoseText(Append(g, y)) =
            IF y.user # {} THEN Append(WhoseText(g), y.user) ELSE WhoseText(g)
        /\ WhoseText(Append(g, x)) =
            IF x.user # {} THEN Append(WhoseText(g), x.user) ELSE WhoseText(g)
    BY <2>2, TextOfAppend
  <2> QED
    BY <2>1, <2>2, <2>3, <2>4 DEF y
<1> QED
  BY <1>1, <1>2

-----------------------------------------------------------------------------
(* Neat files, and appending to them.                                      *)

\* Every line has its newline.
Settled(f) == \A n \in DOMAIN f : f[n].ended

\* A file as the shell script, or a single run of the other one, keeps it.
Neat(f) ==
  /\ \A n \in DOMAIN f : n < Len(f) => f[n].ended
  /\ \A n \in DOMAIN f : f[n].user = {} \/ f[n].entries = {}
  /\ HasMarker(f) => Settled(f)

\* Where an entry is.
Places(f, x) == {n \in DOMAIN f : x \in f[n].entries}

\* A file as a function on the numbers of its lines.
LEMMA LinesOf ==
  ASSUME NEW f \in Seq(Lines)
  PROVE  /\ Len(f) \in Nat /\ DOMAIN f = 1 .. Len(f)
         /\ \A n \in 1 .. Len(f) :
              /\ f[n] \in Lines /\ f[n].entries \in SUBSET (AllHosts \X Instances)
              /\ f[n].user \in SUBSET Names /\ f[n].ended \in BOOLEAN
         /\ Unended(f) <=> Len(f) > 0 /\ ~f[Len(f)].ended
<1>1. Len(f) \in Nat /\ DOMAIN f = 1 .. Len(f) /\ \A n \in 1 .. Len(f) : f[n] \in Lines
  BY LenProperties, ElementOfSeq
<1>2. f # <<>> <=> Len(f) > 0
  BY <1>1, EmptySeq
<1> QED
  BY <1>1, <1>2, FieldTypes DEF Unended

\* An append to lines that are all ended is a line of its own.
LEMMA EntryShape ==
  ASSUME NEW f \in Seq(Lines), ~Unended(f), NEW e \in SUBSET (AllHosts \X Instances)
  PROVE  /\ Appended(f, e) = Append(f, Line({}, e, TRUE))
         /\ Appended(f, e) \in Seq(Lines) /\ DOMAIN Appended(f, e) = 1 .. Len(f) + 1
         /\ Len(Appended(f, e)) = Len(f) + 1
         /\ Len(f) + 1 \in 1 .. Len(f) + 1 /\ Len(f) + 1 \notin 1 .. Len(f)
         /\ \A n \in 1 .. Len(f) + 1 : n \in 1 .. Len(f) \/ n = Len(f) + 1
         /\ \A n \in 1 .. Len(f) : n \in 1 .. Len(f) + 1 /\ Appended(f, e)[n] = f[n]
         /\ Appended(f, e)[Len(f) + 1].user = {}
         /\ Appended(f, e)[Len(f) + 1].entries = e
         /\ Appended(f, e)[Len(f) + 1].ended
<1> DEFINE x == Line({}, e, TRUE)
<1>1. x \in Lines /\ x.user = {} /\ x.entries = e /\ x.ended
  BY LineType, {} \in SUBSET Names, TRUE \in BOOLEAN
<1>2. Appended(f, e) = Append(f, x)
  BY DEF Appended
<1> HIDE DEF x
<1>3. Len(f) \in Nat
  BY LenProperties
<1>4. /\ Append(f, x) \in Seq(Lines) /\ Len(Append(f, x)) = Len(f) + 1
      /\ \A n \in 1 .. Len(f) : Append(f, x)[n] = f[n]
      /\ Append(f, x)[Len(f) + 1] = x
      /\ DOMAIN Append(f, x) = 1 .. Len(f) + 1
  BY <1>1, AppendProperties, LenProperties
<1>5. /\ Len(f) + 1 \in 1 .. Len(f) + 1 /\ Len(f) + 1 \notin 1 .. Len(f)
      /\ \A n \in 1 .. Len(f) + 1 : n \in 1 .. Len(f) \/ n = Len(f) + 1
      /\ \A n \in 1 .. Len(f) : n \in 1 .. Len(f) + 1
  BY <1>3
<1> QED
  BY <1>1, <1>2, <1>4, <1>5 DEF x

\* An append to a last line without a newline ends it.
LEMMA EndShape ==
  ASSUME NEW f \in Seq(Lines), Unended(f), NEW e \in SUBSET (AllHosts \X Instances)
  PROVE  /\ Appended(f, e) \in Seq(Lines) /\ DOMAIN Appended(f, e) = 1 .. Len(f)
         /\ Len(Appended(f, e)) = Len(f) /\ Len(f) \in 1 .. Len(f)
         /\ \A n \in 1 .. Len(f) : n # Len(f) => Appended(f, e)[n] = f[n]
         /\ Appended(f, e)[Len(f)].user = f[Len(f)].user
         /\ Appended(f, e)[Len(f)].entries = f[Len(f)].entries \union e
         /\ Appended(f, e)[Len(f)].ended
<1>1. /\ Len(f) \in Nat /\ DOMAIN f = 1 .. Len(f) /\ Len(f) \in 1 .. Len(f)
      /\ f[Len(f)] \in Lines
  BY LinesOf
<1> DEFINE x == Line(f[Len(f)].user, f[Len(f)].entries \union e, TRUE)
<1>2. /\ x \in Lines /\ x.user = f[Len(f)].user /\ x.ended
      /\ x.entries = f[Len(f)].entries \union e
  <2> DEFINE u == f[Len(f)].user
             g == f[Len(f)].entries \union e
  <2>1. u \in SUBSET Names /\ g \in SUBSET (AllHosts \X Instances)
    BY <1>1, FieldTypes
  <2> HIDE DEF u, g
  <2>2. /\ Line(u, g, TRUE) \in Lines /\ Line(u, g, TRUE).user = u
        /\ Line(u, g, TRUE).ended /\ Line(u, g, TRUE).entries = g
    BY <2>1, LineType, TRUE \in BOOLEAN
  <2> QED
    BY <2>2 DEF u, g
<1>3. Appended(f, e) = [f EXCEPT ![Len(f)] = x]
  BY <1>1 DEF Appended
<1> HIDE DEF x
<1>4. /\ Appended(f, e) \in Seq(Lines) /\ Len(Appended(f, e)) = Len(f)
      /\ \A n \in 1 .. Len(f) : Appended(f, e)[n] = IF n = Len(f) THEN x ELSE f[n]
  BY <1>1, <1>2, <1>3, ExceptSeq
<1>5. DOMAIN Appended(f, e) = 1 .. Len(f) /\ Appended(f, e)[Len(f)] = x
  BY <1>1, <1>4, LenProperties
<1> QED
  BY <1>1, <1>2, <1>4, <1>5

\* A newline, where one is missing, settles a neat file and moves no entry.
LEMMA NewlineShape ==
  ASSUME NEW f \in Seq(Lines), Neat(f)
  PROVE  /\ Newline(f) \in Seq(Lines) /\ Neat(Newline(f)) /\ Settled(Newline(f))
         /\ HasMarker(Newline(f)) <=> HasMarker(f)
         /\ \A x : /\ Places(Newline(f), x) = Places(f, x)
                   /\ \A n \in Places(f, x) : Newline(f)[n].user = f[n].user
<1> DEFINE h == Newline(f)
<1>1. {} \in SUBSET (AllHosts \X Instances)
  OBVIOUS
<1> HIDE DEF h
<1>2. Len(f) \in Nat /\ DOMAIN f = 1 .. Len(f)
  BY LinesOf
<1>3. CASE Unended(f)
  <2>1. /\ h \in Seq(Lines) /\ Len(h) = Len(f) /\ DOMAIN h = 1 .. Len(f)
        /\ Len(f) \in 1 .. Len(f)
        /\ \A n \in 1 .. Len(f) : n # Len(f) => h[n] = f[n]
        /\ h[Len(f)].user = f[Len(f)].user /\ h[Len(f)].entries = f[Len(f)].entries
        /\ h[Len(f)].ended
    <3>1. /\ Appended(f, {}) \in Seq(Lines) /\ DOMAIN Appended(f, {}) = 1 .. Len(f)
          /\ Len(Appended(f, {})) = Len(f) /\ Len(f) \in 1 .. Len(f)
          /\ \A n \in 1 .. Len(f) : n # Len(f) => Appended(f, {})[n] = f[n]
          /\ Appended(f, {})[Len(f)].user = f[Len(f)].user
          /\ Appended(f, {})[Len(f)].entries = f[Len(f)].entries \union {}
          /\ Appended(f, {})[Len(f)].ended
      BY <1>1, <1>3, EndShape, Zenon
    <3> QED
      BY <3>1 DEF h, Newline
  <2>2. \A n \in 1 .. Len(f) : h[n].user = f[n].user /\ h[n].entries = f[n].entries
    BY <2>1
  <2>3. Settled(h)
    <3>1. \A k \in Nat : \A n \in 1 .. k : n # k => n < k
      OBVIOUS
    <3> QED
      BY <1>2, <2>1, <3>1 DEF Settled, Neat
  <2>4. Neat(h)
    BY <1>2, <2>1, <2>2, <2>3 DEF Neat, Settled
  <2>5. HasMarker(h) <=> HasMarker(f)
    BY <1>2, <2>1, <2>2 DEF HasMarker
  <2>6. \A x : Places(h, x) = Places(f, x)
    BY <1>2, <2>1, <2>2 DEF Places
  <2>7. \A x : \A n \in Places(f, x) : h[n].user = f[n].user
    BY <1>2, <2>2 DEF Places
  <2> QED
    BY <2>1, <2>3, <2>4, <2>5, <2>6, <2>7 DEF h
<1>4. CASE ~Unended(f)
  <2> DEFINE m == Len(f) + 1
  <2>1. /\ h \in Seq(Lines) /\ DOMAIN h = 1 .. m /\ m \in 1 .. m /\ m \notin 1 .. Len(f)
        /\ \A n \in 1 .. m : n \in 1 .. Len(f) \/ n = m
        /\ \A n \in 1 .. Len(f) : n \in 1 .. m /\ h[n] = f[n]
        /\ h[m].user = {} /\ h[m].entries = {} /\ h[m].ended
    <3>1. /\ Appended(f, {}) = Append(f, Line({}, {}, TRUE))
          /\ Appended(f, {}) \in Seq(Lines) /\ DOMAIN Appended(f, {}) = 1 .. Len(f) + 1
          /\ Len(Appended(f, {})) = Len(f) + 1
          /\ Len(f) + 1 \in 1 .. Len(f) + 1 /\ Len(f) + 1 \notin 1 .. Len(f)
          /\ \A n \in 1 .. Len(f) + 1 : n \in 1 .. Len(f) \/ n = Len(f) + 1
          /\ \A n \in 1 .. Len(f) : n \in 1 .. Len(f) + 1 /\ Appended(f, {})[n] = f[n]
          /\ Appended(f, {})[Len(f) + 1].user = {}
          /\ Appended(f, {})[Len(f) + 1].entries = {}
          /\ Appended(f, {})[Len(f) + 1].ended
      BY <1>1, <1>4, EntryShape, Zenon
    <3> QED
      BY <3>1 DEF h, m, Newline
  <2> HIDE DEF m
  <2>2. Settled(f)
    <3>1. f = <<>> \/ f[Len(f)].ended
      BY <1>4 DEF Unended
    <3>2. f = <<>> => Len(f) = 0
      OBVIOUS
    <3>3. \A k \in Nat : \A n \in 1 .. k : n # k => n < k
      OBVIOUS
    <3> QED
      BY <1>2, <3>1, <3>2, <3>3 DEF Settled, Neat
  <2>3. Settled(h)
    BY <1>2, <2>1, <2>2 DEF Settled
  <2>4. Neat(h)
    BY <1>2, <2>1, <2>3 DEF Neat, Settled
  <2>5. HasMarker(h) <=> HasMarker(f)
    BY <1>2, <2>1 DEF HasMarker
  <2>6. \A x : Places(h, x) = Places(f, x)
    BY <1>2, <2>1 DEF Places
  <2>7. \A x : \A n \in Places(f, x) : h[n].user = f[n].user
    BY <1>2, <2>1 DEF Places
  <2> QED
    BY <2>1, <2>3, <2>4, <2>5, <2>6, <2>7 DEF h
<1> QED
  BY <1>3, <1>4

\* An entry appended to a settled file is on a line of its own; no other moves, and what
\* removal will keep is the same.
LEMMA EntryKeepsNeat ==
  ASSUME NEW f \in Seq(Lines), Neat(f), Settled(f), NEW x \in AllHosts \X Instances
  PROVE  LET h == Appended(f, {x})
         IN /\ h \in Seq(Lines) /\ Neat(h) /\ Settled(h)
            /\ \A y : y # x => Places(h, y) = Places(f, y)
            /\ Places(h, x) = Places(f, x) \union {Len(f) + 1}
            /\ \A n \in DOMAIN f : h[n].user = f[n].user
            /\ h[Len(f) + 1].user = {}
            /\ WithoutMarker(h) = WithoutMarker(f)
<1> DEFINE h == Appended(f, {x})
           m == Len(f) + 1
<1>1. Len(f) \in Nat /\ DOMAIN f = 1 .. Len(f)
  BY LinesOf
<1>2. ~Unended(f)
  BY <1>1, LinesOf DEF Settled
<1>3. {x} \in SUBSET (AllHosts \X Instances)
  OBVIOUS
<1> HIDE DEF h, m
<1>4. /\ h = Append(f, Line({}, {x}, TRUE)) /\ h \in Seq(Lines)
      /\ DOMAIN h = 1 .. m /\ m \in 1 .. m /\ m \notin 1 .. Len(f)
      /\ \A n \in 1 .. m : n \in 1 .. Len(f) \/ n = m
      /\ \A n \in 1 .. Len(f) : n \in 1 .. m /\ h[n] = f[n]
      /\ h[m].user = {} /\ h[m].entries = {x} /\ h[m].ended
  <2>1. /\ Appended(f, {x}) = Append(f, Line({}, {x}, TRUE))
        /\ Appended(f, {x}) \in Seq(Lines) /\ DOMAIN Appended(f, {x}) = 1 .. Len(f) + 1
        /\ Len(Appended(f, {x})) = Len(f) + 1
        /\ Len(f) + 1 \in 1 .. Len(f) + 1 /\ Len(f) + 1 \notin 1 .. Len(f)
        /\ \A n \in 1 .. Len(f) + 1 : n \in 1 .. Len(f) \/ n = Len(f) + 1
        /\ \A n \in 1 .. Len(f) : n \in 1 .. Len(f) + 1 /\ Appended(f, {x})[n] = f[n]
        /\ Appended(f, {x})[Len(f) + 1].user = {}
        /\ Appended(f, {x})[Len(f) + 1].entries = {x}
        /\ Appended(f, {x})[Len(f) + 1].ended
    BY <1>2, <1>3, EntryShape, Zenon
  <2> QED
    BY <2>1 DEF h, m
<1>5. WithoutMarker(h) = WithoutMarker(f)
  <2> DEFINE l == Line({}, {x}, TRUE)
  <2>1. l \in Lines /\ l.entries = {x}
    BY <1>3, LineType, {} \in SUBSET Names, TRUE \in BOOLEAN
  <2>2. l \notin Unmanaged
    BY <2>1, FieldTypes
  <2> HIDE DEF l
  <2>3. WithoutMarker(Append(f, l)) = WithoutMarker(f)
    BY <2>1, <2>2, OnlyOfAppend DEF WithoutMarker
  <2> QED
    BY <1>4, <2>3 DEF l
<1>6. Settled(h)
  BY <1>1, <1>4 DEF Settled
<1>7. Neat(h)
  <2>1. \A n \in 1 .. m : h[n].user = {} \/ h[n].entries = {}
    <3>1. ASSUME NEW n \in 1 .. Len(f) PROVE h[n].user = {} \/ h[n].entries = {}
      BY <1>1, <1>4 DEF Neat
    <3> QED
      BY <1>4, <3>1
  <2> QED
    BY <1>4, <1>6, <2>1 DEF Neat, Settled
<1>8. ASSUME NEW y, y # x PROVE Places(h, y) = Places(f, y)
  <2>1. y \notin h[m].entries
    BY <1>4, <1>8
  <2>2. \A n \in 1 .. Len(f) : y \in h[n].entries <=> y \in f[n].entries
    BY <1>4
  <2> QED
    BY <1>1, <1>4, <2>1, <2>2 DEF Places
<1>9. Places(h, x) = Places(f, x) \union {m}
  BY <1>1, <1>4 DEF Places
<1> QED
  BY <1>1, <1>4, <1>5, <1>6, <1>7, <1>8, <1>9 DEF h, m

-----------------------------------------------------------------------------
(* Types, and what is local to an instance.                                *)

\* The places of remove_hosts_entry, all places, and those it returns to.
Removal == {"find", "sed", "rename", "write", "writing"}
Stages  == {"idle", "stale", "guard", "newline", "append", "run", "exit", "gone", "killed",
            "torn"} \union Removal
Returns == {"stale", "guard", "newline", "append", "run", "exit", "end"}

\* Where each variable lives.
TypeInv ==
  /\ lang \in {"sh", "ps1"}
  /\ file \in Seq(Lines) /\ original \in Seq(Lines)
  /\ pc \in [Instances -> Stages]
  /\ after \in [Instances -> Returns]
  /\ kept \in [Instances -> Seq(Unmanaged)]
  /\ added \in [Instances -> Nat]
  /\ interrupts \in [Instances -> Nat]
  /\ overlapped \in BOOLEAN

\* Where i is, or returns to from the removal it is in.
Place(i) == IF pc[i] \in Removal THEN after[i] ELSE pc[i]

\* How far i has come is what it has added, and each script has steps of its own.
Local(i) ==
  /\ Place(i) \in {"idle", "stale", "guard", "newline"} => added[i] = 0
  /\ Place(i) = "append" => added[i] < Len(Hosts)
  /\ Place(i) = "run" => added[i] = Len(Hosts)
  /\ added[i] <= Len(Hosts)
  /\ pc[i] \in {"sed", "rename"} => lang = "sh"
  /\ pc[i] \in {"write", "writing", "torn"} => lang = "ps1"
  /\ lang = "ps1" => interrupts[i] = 0
  /\ interrupts[i] = 0 => after[i] \in {"guard", "end"} /\ pc[i] # "exit"
  /\ pc[i] = "idle" => interrupts[i] = 0

\* The constants as functions on the numbers of their elements.
LEMMA Constants ==
  /\ Len(Hosts) \in Nat \ {0} /\ DOMAIN Hosts = 1 .. Len(Hosts)
  /\ Len(UserLines) \in Nat /\ DOMAIN UserLines = 1 .. Len(UserLines)
  BY HostsFileAssumption, EmptySeq, LenProperties

\* At first the file is the user's, and only its last line may lack a newline.
LEMMA InitLines ==
  ASSUME Init
  PROVE  /\ file \in Seq(Lines)
         /\ \A n \in DOMAIN file :
              file[n].entries = {} /\ (n < Len(file) => file[n].ended)
<1>1. PICK m \in 0 .. Len(UserLines), ended \in BOOLEAN :
        file = [i \in 1 .. m |-> Line({UserLines[i]}, {}, i < m \/ ended)]
  BY DEF Init
<1>2. m \in Nat /\ m <= Len(UserLines)
  BY Constants
<1>3. ASSUME NEW i \in 1 .. m
      PROVE  /\ file[i] \in Lines /\ file[i].entries = {}
             /\ file[i].ended = (i < m \/ ended)
  <2> DEFINE e == i < m \/ ended
             u == {UserLines[i]}
             line == Line(u, {}, e)
  <2>1. {UserLines[i]} \in SUBSET Names
    BY <1>2, Constants, HostsFileAssumption DEF Names
  <2>2. {} \in SUBSET (AllHosts \X Instances) /\ (i < m \/ ended) \in BOOLEAN
    OBVIOUS
  <2>4. file[i] = line
    BY <1>1
  <2>3. line \in Lines /\ line.user = u /\ line.entries = {} /\ line.ended = e
    <3> HIDE DEF u, e
    <3>1. u \in SUBSET Names /\ {} \in SUBSET (AllHosts \X Instances) /\ e \in BOOLEAN
      BY <2>1, <2>2 DEF u, e
    <3> QED
      BY <3>1, LineType
  <2> HIDE DEF line
  <2> QED
    BY <2>3, <2>4
<1>4. file \in [1 .. m -> Lines]
  BY <1>1, <1>3
<1>5. file \in Seq(Lines) /\ DOMAIN file = 1 .. m /\ Len(file) = m
  BY <1>2, <1>4
<1> QED
  BY <1>3, <1>5

\* At first every variable is in its set, and no run has begun.
LEMMA InitTypeInv == Init => TypeInv /\ \A i \in Instances : Local(i)
<1> SUFFICES ASSUME Init PROVE TypeInv /\ \A i \in Instances : Local(i)
  OBVIOUS
<1>1. TypeInv
  BY InitLines, EmptySeq DEF Init, TypeInv, Removal, Stages, Returns
<1>2. ASSUME NEW i \in Instances PROVE Local(i)
  <2>1. pc[i] = "idle" /\ after[i] = "end" /\ added[i] = 0 /\ interrupts[i] = 0
    BY DEF Init
  <2> QED
    BY <2>1, Constants DEF Local, Place, Removal
<1> QED
  BY <1>1, <1>2

\* What sed and Where-Object keep holds no managed entry (run-with-hosts.sh and .ps1).
LEMMA RemovalType ==
  ASSUME NEW f \in Seq(Lines)
  PROVE  WithoutMarker(f) \in Seq(Unmanaged)
<1>1. Lines \intersect Unmanaged = Unmanaged
  BY DEF Unmanaged
<1> QED
  BY <1>1, OnlyType DEF WithoutMarker

\* The file that a run appends its next entry to, and the entry.
Target(i) == IF pc[i] = "newline" THEN Newline(file) ELSE file
Entry(i)  == <<Hosts[added[i] + 1], i>>

\* A run that appends has a host left to append, and a newline changes no text.
LEMMA TargetType ==
  ASSUME TypeInv, NEW i \in Instances, Local(i), pc[i] \in {"newline", "append"}
  PROVE  /\ Target(i) \in Seq(Lines) /\ WhoseText(Target(i)) = WhoseText(file)
         /\ Newline(file) \in Seq(Lines) /\ WhoseText(Newline(file)) = WhoseText(file)
         /\ added[i] + 1 \in DOMAIN Hosts /\ Entry(i) \in AllHosts \X Instances
<1>1. file \in Seq(Lines) /\ {} \in SUBSET (AllHosts \X Instances)
  BY DEF TypeInv
<1>2. Newline(file) \in Seq(Lines) /\ WhoseText(Newline(file)) = WhoseText(file)
  BY <1>1, AppendedKeepsText, Zenon DEF Newline
<1>3. added[i] \in Nat /\ added[i] < Len(Hosts)
  BY Constants DEF TypeInv, Local, Place, Removal
<1>4. added[i] + 1 \in DOMAIN Hosts
  BY <1>3, Constants
<1>5. Entry(i) \in AllHosts \X Instances
  BY <1>4 DEF Entry, AllHosts
<1> QED
  BY <1>1, <1>2, <1>4, <1>5 DEF Target

\* An append leaves a file, with the user's text as it was.
LEMMA AppendEntryType ==
  ASSUME TypeInv, NEW i \in Instances, Local(i), pc[i] \in {"newline", "append"},
         AppendEntry(i, Target(i))
  PROVE  /\ file' = Appended(Target(i), {Entry(i)})
         /\ file' \in Seq(Lines) /\ WhoseText(file') = WhoseText(file)
<1>1. file' = Appended(Target(i), {Entry(i)})
  BY DEF AppendEntry, Entry
<1>2. {Entry(i)} \in SUBSET (AllHosts \X Instances)
  BY TargetType
<1>3. /\ Appended(Target(i), {Entry(i)}) \in Seq(Lines)
      /\ WhoseText(Appended(Target(i), {Entry(i)})) = WhoseText(Target(i))
  BY <1>2, TargetType, AppendedKeepsText, Zenon
<1> QED
  BY <1>1, <1>3, TargetType

\* Where a script goes on after an interruption.
LEMMA ResumptionsType ==
  ASSUME TypeInv, NEW i \in Instances, Local(i), lang = "sh", Active(i),
         NEW place \in Resumptions(i)
  PROVE  /\ place \in Returns
         /\ \/ place = Place(i)
            \/ place = "guard" /\ pc[i] = "stale"
            \/ place = "newline" /\ pc[i] = "guard"
            \/ place = "exit"
            \/ place = "end" /\ after[i] = "end" /\ pc[i] \in {"sed", "rename"}
<1>1. after[i] \in Returns
  BY DEF TypeInv
<1>2. pc[i] \in {"stale", "guard", "newline", "append", "run", "exit", "find", "sed", "rename"}
  BY DEF TypeInv, Local, Active, Stages, Removal
<1>3. CASE pc[i] = "stale"
  BY <1>3 DEF Resumptions, Place, Removal, Returns
<1>4. CASE pc[i] = "guard"
  <2>1. place \in {"guard", "newline"}
    BY <1>4 DEF Resumptions
  <2> QED
    BY <1>4, <2>1 DEF Place, Removal, Returns
<1>5. CASE pc[i] = "find"
  BY <1>1, <1>5 DEF Resumptions, Place, Removal
<1>6. CASE pc[i] \in {"sed", "rename"}
  <2>1. place \in {after[i], IF after[i] = "end" THEN "end" ELSE "exit"}
    BY <1>6 DEF Resumptions
  <2> QED
    BY <1>1, <1>6, <2>1 DEF Place, Removal, Returns
<1>7. CASE pc[i] = "run"
  BY <1>7 DEF Resumptions, Place, Removal, Returns
<1>8. CASE pc[i] \in {"newline", "append", "exit"}
  <2>1. place = pc[i]
    BY <1>8 DEF Resumptions
  <2> QED
    BY <1>8, <2>1 DEF Place, Removal, Returns
<1> QED
  BY <1>2, <1>3, <1>4, <1>5, <1>6, <1>7, <1>8

\* Every step of an instance preserves the types.
LEMMA StepTypeInv ==
  ASSUME TypeInv, NEW i \in Instances, Local(i), Start(i) \/ Step(i) \/ Interrupt(i) \/ Kill(i)
  PROVE  TypeInv'
<1>1. CASE Start(i)
  BY <1>1 DEF Start, GoTo, TypeInv, Stages, script, fixed
<1>2. CASE CheckStale(i)
  BY <1>2 DEF CheckStale, Remove, GoTo, TypeInv, Stages, Removal, Returns, fixed
<1>3. CASE Guard(i)
  BY <1>3 DEF Guard, GoTo, TypeInv, Stages, script, fixed
<1>4. CASE AppendEntry(i, Target(i)) /\ pc[i] \in {"newline", "append"}
  <2>1. file' \in Seq(Lines)
    BY <1>4, AppendEntryType
  <2> QED
    BY <1>4, <2>1 DEF AppendEntry, GoTo, TypeInv, Stages, fixed
<1>5. CASE AddNewline(i)
  <2>1. CASE lang = "sh"
    <3>1. file' \in Seq(Lines)
      BY <1>5, <2>1, TargetType DEF AddNewline
    <3> QED
      BY <1>5, <2>1, <3>1 DEF AddNewline, GoTo, TypeInv, Stages, script, fixed
  <2> QED
    BY <1>4, <1>5, <2>1 DEF AddNewline, Target
<1>6. CASE AddEntry(i)
  BY <1>4, <1>6 DEF AddEntry, Target
<1>7. CASE Exit(i)
  BY <1>7 DEF Exit, Remove, GoTo, TypeInv, Stages, Removal, Returns, fixed
<1>8. CASE Find(i)
  <2>1. kept' \in [Instances -> Seq(Unmanaged)]
    BY <1>8, RemovalType, EmptySeq DEF Find, TypeInv
  <2> QED
    BY <1>8, <2>1 DEF Find, Return, GoTo, TypeInv, Stages, Removal, Returns, fixed
<1>9. CASE Sed(i)
  <2>1. kept' \in [Instances -> Seq(Unmanaged)]
    BY <1>9, RemovalType DEF Sed, TypeInv
  <2> QED
    BY <1>9, <2>1 DEF Sed, GoTo, TypeInv, Stages, Removal, fixed
<1>10. ASSUME Rename(i) \/ WriteLines(i), file' \in Seq(Lines) PROVE TypeInv'
  BY <1>10 DEF Rename, WriteLines, Return, GoTo, TypeInv, Stages, Returns, script, fixed
<1>11. kept[i] \in Seq(Lines)
  BY SeqMonotonic, Unmanaged \subseteq Lines DEF TypeInv, Unmanaged
<1>12. CASE Rename(i)
  BY <1>10, <1>11, <1>12 DEF Rename
<1>13. CASE WriteLines(i)
  BY <1>10, <1>11, <1>13, EndedType DEF WriteLines, Ended, Rewritten, Plain
<1>14. CASE Truncate(i)
  BY <1>14, EmptySeq DEF Truncate, GoTo, TypeInv, Stages, Removal, script, fixed
<1>15. CASE Interrupt(i)
  <2>1. PICK place \in Resumptions(i) : Remove(i, place)
    BY <1>15 DEF Interrupt
  <2>2. place \in Returns
    BY <1>15, <2>1, ResumptionsType DEF Interrupt
  <2> QED
    BY <1>15, <2>1, <2>2 DEF Interrupt, Remove, GoTo, TypeInv, Stages, Removal, fixed
<1>16. CASE Kill(i)
  BY <1>16 DEF Kill, GoTo, TypeInv, Stages, script, fixed
<1> QED
  BY <1>1, <1>2, <1>3, <1>5, <1>6, <1>7, <1>8, <1>9, <1>12, <1>13, <1>14, <1>15, <1>16 DEF Step

\* An instance that makes no step.
Rests(j) ==
  /\ pc'[j] = pc[j] /\ after'[j] = after[j] /\ kept'[j] = kept[j]
  /\ added'[j] = added[j] /\ interrupts'[j] = interrupts[j]

\* The steps of an instance.
Moves(i) == Start(i) \/ Step(i) \/ Interrupt(i) \/ Kill(i)

\* The steps of an instance leave the others where they are, and the script and the
\* original file.
LEMMA OthersRest ==
  ASSUME TypeInv, NEW i \in Instances, Moves(i)
  PROVE  UNCHANGED <<lang, original>> /\ \A j \in Instances : j # i => Rests(j)
<1> USE DEF TypeInv, Rests, GoTo, Remove, Return, script, fixed
<1>1. CASE Start(i) \/ CheckStale(i) \/ Guard(i) \/ Exit(i) \/ Kill(i)
  BY <1>1 DEF Start, CheckStale, Guard, Exit, Kill
<1>2. CASE AddNewline(i) \/ AddEntry(i)
  BY <1>2 DEF AddNewline, AddEntry, AppendEntry
<1>3. CASE Find(i) \/ Sed(i) \/ Rename(i) \/ Truncate(i) \/ WriteLines(i)
  BY <1>3 DEF Find, Sed, Rename, Truncate, WriteLines
<1>4. CASE Interrupt(i)
  BY <1>4 DEF Interrupt
<1> QED
  BY <1>1, <1>2, <1>3, <1>4 DEF Moves, Step

\* What is local to an instance holds on while it rests.
LEMMA RestsLocal ==
  ASSUME NEW j \in Instances, Local(j), Rests(j), lang' = lang
  PROVE  Local(j)' /\ Place(j)' = Place(j) /\ (Active(j)' <=> Active(j))
  BY DEF Local, Place, Rests, Active

\* The step of an instance preserves what is local to it.
LEMMA StepLocal ==
  ASSUME TypeInv, NEW i \in Instances, Local(i), Moves(i)
  PROVE  Local(i)'
<1> USE DEF TypeInv, Local, Place, GoTo, Remove, Return, Removal, script, fixed
<1>1. CASE Start(i)
  BY <1>1 DEF Start
<1>2. CASE CheckStale(i)
  BY <1>2 DEF CheckStale
<1>3. CASE Guard(i)
  BY <1>3, Constants DEF Guard
<1>4. CASE AppendEntry(i, Target(i)) /\ pc[i] \in {"newline", "append"}
  <2>1. added[i] \in Nat /\ added[i] < Len(Hosts) /\ added'[i] = added[i] + 1
    BY <1>4, Constants DEF AppendEntry
  <2>2. /\ pc'[i] = IF added[i] + 1 = Len(Hosts) THEN "run" ELSE "append"
        /\ UNCHANGED <<after, interrupts, lang>>
    BY <1>4 DEF AppendEntry
  <2>3. added[i] + 1 <= Len(Hosts) /\ (added[i] + 1 # Len(Hosts) => added[i] + 1 < Len(Hosts))
    <3>1. \A m, n \in Nat : m < n => m + 1 <= n /\ (m + 1 # n => m + 1 < n)
      OBVIOUS
    <3> QED
      BY <2>1, <3>1, Constants
  <2> QED
    BY <1>4, <2>1, <2>2, <2>3
<1>5. CASE AddNewline(i)
  <2>1. CASE lang = "sh"
    BY <1>5, <2>1, Constants DEF AddNewline
  <2> QED
    BY <1>4, <1>5, <2>1 DEF AddNewline, Target
<1>6. CASE AddEntry(i)
  BY <1>4, <1>6 DEF AddEntry, Target
<1>7. CASE Exit(i)
  BY <1>7 DEF Exit
<1>8. CASE Find(i)
  BY <1>8 DEF Find, Returns
<1>9. CASE Sed(i)
  BY <1>9 DEF Sed
<1>10. CASE Rename(i) \/ WriteLines(i)
  BY <1>10 DEF Rename, WriteLines, Returns
<1>11. CASE Truncate(i)
  BY <1>11 DEF Truncate
<1>12. CASE Interrupt(i)
  <2>1. PICK place \in Resumptions(i) : Remove(i, place)
    BY <1>12 DEF Interrupt
  <2>2. /\ place \in Returns
        /\ \/ place = Place(i)
           \/ place = "guard" /\ pc[i] = "stale"
           \/ place = "newline" /\ pc[i] = "guard"
           \/ place = "exit"
           \/ place = "end" /\ after[i] = "end" /\ pc[i] \in {"sed", "rename"}
    BY <1>12, ResumptionsType DEF Interrupt
  <2>3. /\ pc'[i] = "find" /\ after'[i] = place /\ interrupts'[i] = interrupts[i] + 1
        /\ UNCHANGED <<added, lang>> /\ lang = "sh"
    BY <1>12, <2>1 DEF Interrupt
  <2>4. interrupts'[i] # 0
    BY <2>3
  <2> QED
    BY <2>2, <2>3, <2>4
<1>13. CASE Kill(i)
  BY <1>13 DEF Kill, Active
<1> QED
  BY <1>1, <1>2, <1>3, <1>5, <1>6, <1>7, <1>8, <1>9, <1>10, <1>11, <1>12, <1>13 DEF Moves, Step

-----------------------------------------------------------------------------
(* The file stays neat.                                                    *)

\* Lines that are kept hold no entry, and those of a file that is all ended are ended.
LEMMA KeptLines ==
  ASSUME NEW f \in Seq(Unmanaged)
  PROVE  /\ f \in Seq(Lines) /\ ~HasMarker(f) /\ (Settled(f) => Neat(f))
         /\ Ended(f) \in Seq(Lines) /\ ~HasMarker(Ended(f))
         /\ Settled(Ended(f)) /\ Neat(Ended(f))
<1>1. f \in Seq(Lines)
  BY SeqMonotonic, Unmanaged \subseteq Lines DEF Unmanaged
<1>2. DOMAIN f = 1 .. Len(f) /\ \A n \in 1 .. Len(f) : f[n].entries = {}
  BY LenProperties, ElementOfSeq DEF Unmanaged
<1>3. /\ Ended(f) \in Seq(Lines) /\ DOMAIN Ended(f) = 1 .. Len(f)
      /\ \A n \in 1 .. Len(f) : Ended(f)[n].ended /\ Ended(f)[n].entries = {}
  BY <1>1, <1>2, EndedType, LenProperties
<1> QED
  BY <1>1, <1>2, <1>3 DEF HasMarker, Settled, Neat

\* Removal from a settled file leaves one.
LEMMA RemovalSettled ==
  ASSUME NEW f \in Seq(Lines), Settled(f)
  PROVE  Settled(WithoutMarker(f))
<1> DEFINE L == {x \in Lines : x.ended}
<1>1. f \in Seq(L)
  <2>1. f \in [1 .. Len(f) -> L] /\ Len(f) \in Nat
    BY LenProperties, ElementOfSeq DEF Settled
  <2> QED
    BY <2>1
<1>2. WithoutMarker(f) \in Seq(L \intersect Unmanaged)
  BY <1>1, OnlyType DEF WithoutMarker
<1>3. \A n \in DOMAIN WithoutMarker(f) : WithoutMarker(f)[n] \in L
  BY <1>2, LenProperties, ElementOfSeq
<1> QED
  BY <1>3 DEF Settled

\* Removal from a neat file leaves the user's text.
LEMMA NeatText ==
  ASSUME NEW f \in Seq(Lines), Neat(f)
  PROVE  WhoseText(WithoutMarker(f)) = WhoseText(f)
<1>1. f \in [1 .. Len(f) -> Pure] /\ Len(f) \in Nat
  BY LenProperties, ElementOfSeq DEF Neat, Pure
<1>2. f \in Seq(Pure)
  BY <1>1
<1> QED
  BY <1>2, RemovalKeepsText

\* Two runs at once, of the script that writes in place, are left out.
Orderly == lang = "sh" \/ ~overlapped

\* Without overlap one run at a time is active.
Alone == ~overlapped => \A i, j \in Instances : Active(i) /\ Active(j) => i = j

\* Nothing is appended to, or kept of, a file whose last line has no newline.
Careful(i) ==
  /\ Place(i) = "append" \/ pc[i] \in {"sed", "rename"} => Settled(file)
  /\ pc[i] = "rename" => Settled(kept[i])
  /\ lang = "ps1" /\ pc[i] = "newline" => Unended(file)

\* Unless disorderly, the file is neat and everybody careful.
Kempt == Orderly => Neat(file) /\ \A i \in Instances : Careful(i)

\* Only a start makes runs overlap, and what overlapped once always has.
LEMMA Monotonic ==
  ASSUME TypeInv, NEW i \in Instances, Moves(i)
  PROVE  (overlapped => overlapped') /\ (~Start(i) => overlapped' = overlapped)
  BY DEF Moves, TypeInv, Start, Step, CheckStale, Guard, AddNewline, AddEntry, AppendEntry,
         Exit, Find, Sed, Rename, Truncate, WriteLines, Interrupt, Kill, fixed

\* Without overlap nobody else is active when an instance makes a step.
LEMMA Sole ==
  ASSUME TypeInv, Alone, NEW i \in Instances, Moves(i), ~overlapped'
  PROVE  \A j \in Instances : j # i => ~Active(j)
<1>1. ~overlapped
  BY Monotonic
<1>2. CASE Start(i)
  BY <1>2 DEF Start
<1>3. CASE ~Start(i)
  <2>1. Active(i)
    BY <1>3 DEF Moves, Step, CheckStale, Guard, AddNewline, AddEntry, AppendEntry,
           Exit, Find, Sed, Rename, Truncate, WriteLines, Interrupt, Kill, Active
  <2> QED
    BY <1>1, <2>1 DEF Alone
<1> QED
  BY <1>2, <1>3

\* Without overlap there is one active run at a time.
LEMMA StepAlone ==
  ASSUME TypeInv, Alone, NEW i \in Instances, Moves(i)
  PROVE  Alone'
<1> SUFFICES ASSUME ~overlapped' PROVE \A j, k \in Instances : Active(j)' /\ Active(k)' => j = k
  BY DEF Alone
<1>1. \A j \in Instances : j # i => ~Active(j)
  BY Sole
<1>2. \A j \in Instances : j # i => ~Active(j)'
  BY <1>1, OthersRest DEF Rests, Active
<1> QED
  BY <1>2

\* What a step makes of the file.
LEMMA FileStep ==
  ASSUME TypeInv, NEW i \in Instances, Local(i), Moves(i)
  PROVE  \/ file' = file
         \/ AddNewline(i) /\ lang = "sh" /\ file' = Newline(file)
         \/ /\ pc[i] \in {"newline", "append"} /\ AppendEntry(i, Target(i))
            /\ (pc[i] = "newline" => lang = "ps1")
            /\ file' = Appended(Target(i), {Entry(i)})
         \/ Rename(i) /\ pc[i] = "rename" /\ file' = kept[i]
         \/ Truncate(i) /\ pc[i] = "write" /\ file' = <<>>
         \/ WriteLines(i) /\ pc[i] = "writing" /\ file' = Ended(kept[i])
<1>1. CASE \/ Start(i) \/ CheckStale(i) \/ Guard(i) \/ Exit(i) \/ Find(i) \/ Sed(i)
           \/ Interrupt(i) \/ Kill(i)
  BY <1>1 DEF Start, CheckStale, Guard, Exit, Find, Sed, Interrupt, Kill
<1>2. CASE AddNewline(i)
  BY <1>2 DEF AddNewline, Target, AppendEntry, Entry, TypeInv
<1>3. CASE AddEntry(i)
  BY <1>3 DEF AddEntry, Target, AppendEntry, Entry
<1>4. CASE Rename(i)
  BY <1>4 DEF Rename
<1>5. CASE Truncate(i)
  BY <1>5 DEF Truncate
<1>6. CASE WriteLines(i)
  BY <1>6 DEF WriteLines, Ended, Rewritten, Plain
<1> QED
  BY <1>1, <1>2, <1>3, <1>4, <1>5, <1>6 DEF Moves, Step

\* The file stays neat, and settled once it is.
LEMMA StepNeat ==
  ASSUME TypeInv, NEW i \in Instances, Local(i), Moves(i), Neat(file), Careful(i)
  PROVE  Neat(file') /\ (Settled(file) => Settled(file'))
<1> USE DEF TypeInv
<1>1. CASE file' = file
  BY <1>1 DEF Neat, Settled, HasMarker
<1>2. CASE file' = Newline(file)
  BY <1>2, NewlineShape
<1>3. CASE pc[i] \in {"newline", "append"} /\ file' = Appended(Target(i), {Entry(i)})
  <2>1. Neat(Target(i)) /\ Settled(Target(i)) /\ Target(i) \in Seq(Lines)
    BY <1>3, NewlineShape DEF Target, Careful, Place, Removal
  <2>2. Entry(i) \in AllHosts \X Instances
    BY <1>3, TargetType
  <2>3. Neat(Appended(Target(i), {Entry(i)})) /\ Settled(Appended(Target(i), {Entry(i)}))
    BY <2>1, <2>2, EntryKeepsNeat
  <2> QED
    BY <1>3, <2>3
<1>4. CASE pc[i] = "rename" /\ file' = kept[i]
  <2>1. kept[i] \in Seq(Unmanaged) /\ Settled(kept[i])
    BY <1>4 DEF Careful
  <2> QED
    BY <1>4, <2>1, KeptLines
<1>5. CASE file' = <<>>
  <2>1. Neat(<<>>) /\ Settled(<<>>)
    BY DEF Neat, Settled, HasMarker
  <2> QED
    BY <1>5, <2>1
<1>6. CASE file' = Ended(kept[i])
  BY <1>6, KeptLines
<1> QED
  BY <1>1, <1>2, <1>3, <1>4, <1>5, <1>6, FileStep

\* A neat file whose last line has its newline is settled.
LEMMA NeatSettled ==
  ASSUME NEW f \in Seq(Lines), Neat(f), ~Unended(f)
  PROVE  Settled(f)
<1>1. Len(f) \in Nat /\ DOMAIN f = 1 .. Len(f) /\ (Len(f) = 0 \/ f[Len(f)].ended)
  BY LinesOf
<1>2. \A k \in Nat : \A n \in 1 .. k : k # 0 /\ (n # k => n < k)
  OBVIOUS
<1> QED
  BY <1>1, <1>2 DEF Settled, Neat

\* The user's file is neat, and unmarked.
LEMMA InitNeat == Init => Neat(file) /\ ~HasMarker(file)
<1> SUFFICES ASSUME Init PROVE Neat(file) /\ ~HasMarker(file)
  OBVIOUS
<1>1. \A n \in DOMAIN file : file[n].entries = {} /\ (n < Len(file) => file[n].ended)
  BY InitLines
<1> QED
  BY <1>1 DEF Neat, HasMarker

\* The step of an instance leaves it careful ...
LEMMA StepCareful ==
  ASSUME TypeInv, NEW i \in Instances, Local(i), Moves(i), Neat(file), Careful(i)
  PROVE  Careful(i)'
<1> USE DEF TypeInv, Careful, Place, GoTo, Remove, Return, Removal, script, fixed
<1>1. Settled(file) => Settled(file')
  BY StepNeat
<1>2. Neat(file) /\ file \in Seq(Lines)
  OBVIOUS
<1>3. CASE Start(i)
  BY <1>3 DEF Start
<1>4. CASE CheckStale(i)
  BY <1>4 DEF CheckStale
<1>5. CASE Guard(i)
  <2>1. file' = file /\ UNCHANGED <<kept, lang, after>>
    BY <1>5 DEF Guard
  <2>2. CASE Unended(file)
    <3>1. pc'[i] = "newline"
      BY <1>5, <2>2 DEF Guard
    <3>2. Unended(file')
      BY <2>1, <2>2
    <3> QED
      BY <2>1, <3>1, <3>2
  <2>3. CASE ~Unended(file)
    <3>1. pc'[i] = "append"
      BY <1>5, <2>3 DEF Guard
    <3>2. Settled(file')
      BY <1>2, <2>1, <2>3, NeatSettled
    <3> QED
      BY <3>1, <3>2
  <2> QED
    BY <2>2, <2>3
<1>6. CASE AppendEntry(i, Target(i)) /\ pc[i] \in {"newline", "append"}
  <2>1. Neat(Target(i)) /\ Settled(Target(i)) /\ Target(i) \in Seq(Lines)
    BY <1>6, NewlineShape DEF Target
  <2>2. Entry(i) \in AllHosts \X Instances
    BY <1>6, TargetType
  <2>3. Settled(Appended(Target(i), {Entry(i)}))
    BY <2>1, <2>2, EntryKeepsNeat
  <2>4. Settled(file')
    BY <1>6, <2>3 DEF AppendEntry, Entry
  <2>5. pc'[i] \in {"run", "append"}
    BY <1>6 DEF AppendEntry
  <2> QED
    BY <2>4, <2>5
<1>7. CASE AddNewline(i)
  <2>1. CASE lang = "sh"
    <3>1. file' = Newline(file) /\ pc'[i] = "append"
      BY <1>7, <2>1 DEF AddNewline
    <3>2. Settled(file')
      BY <1>2, <3>1, NewlineShape
    <3> QED
      BY <3>1, <3>2
  <2> QED
    BY <1>6, <1>7, <2>1 DEF AddNewline, Target
<1>8. CASE AddEntry(i)
  BY <1>6, <1>8 DEF AddEntry, Target
<1>9. CASE Exit(i)
  BY <1>9 DEF Exit
<1>10. CASE Find(i)
  <2>1. HasMarker(file) => Settled(file)
    BY DEF Neat
  <2>2. file' = file /\ UNCHANGED <<after, lang>> /\ pc[i] = "find"
    BY <1>10 DEF Find
  <2>3. CASE HasMarker(file) /\ pc'[i] \in {"sed", "write"}
    BY <1>1, <2>1, <2>2, <2>3
  <2>4. CASE pc'[i] = IF after[i] = "end" THEN "gone" ELSE after[i]
    BY <1>1, <2>2, <2>4 DEF Local, Returns
  <2> QED
    BY <1>10, <2>3, <2>4 DEF Find
<1>11. CASE Sed(i)
  BY <1>1, <1>2, <1>11, RemovalSettled DEF Sed
<1>12. CASE Rename(i) \/ WriteLines(i)
  BY <1>1, <1>12 DEF Rename, WriteLines, Returns, Local
<1>13. CASE Truncate(i)
  BY <1>1, <1>13 DEF Truncate
<1>14. CASE Interrupt(i)
  <2>1. PICK place \in Resumptions(i) : Remove(i, place)
    BY <1>14 DEF Interrupt
  <2>2. place = "append" => place = Place(i)
    BY <1>14, ResumptionsType DEF Interrupt
  <2>3. pc'[i] = "find" /\ after'[i] = place /\ lang' = lang
    BY <1>14, <2>1 DEF Interrupt
  <2> QED
    BY <1>1, <2>2, <2>3
<1>15. CASE Kill(i)
  BY <1>15 DEF Kill
<1> QED
  BY <1>3, <1>4, <1>5, <1>7, <1>8, <1>9, <1>10, <1>11, <1>12, <1>13, <1>14, <1>15
     DEF Moves, Step

\* ... and the others too, unless two runs of the PowerShell script overlap.
LEMMA StepKempt ==
  ASSUME TypeInv, Alone, NEW i \in Instances, Local(i), Moves(i), Kempt
  PROVE  Kempt'
<1> SUFFICES ASSUME Orderly' PROVE Neat(file') /\ \A j \in Instances : Careful(j)'
  BY DEF Kempt, Neat, Settled, HasMarker
<1>1. Orderly
  BY Monotonic, OthersRest DEF Orderly
<1>2. Neat(file) /\ \A j \in Instances : Careful(j)
  BY <1>1 DEF Kempt
<1>3. Neat(file') /\ (Settled(file) => Settled(file'))
  BY <1>2, StepNeat
<1>4. ASSUME NEW j \in Instances, j # i PROVE Careful(j)'
  <2>1. Rests(j) /\ lang' = lang
    BY <1>4, OthersRest
  <2>2. ASSUME lang = "ps1", pc[j] = "newline" PROVE FALSE
    BY <1>4, <2>1, <2>2, Sole DEF Orderly, Active
  <2> QED
    BY <1>2, <1>3, <2>1, <2>2 DEF Careful, Rests, Place
<1> QED
  BY <1>2, <1>3, <1>4, StepCareful

-----------------------------------------------------------------------------
(* The user's text survives.                                               *)

\* Some rewriting in place was cut short.
Torn == \E i \in Instances : pc[i] = "torn"

\* The user's text, or what PowerShell has made of it.
Theirs(text) ==
  \/ text = WhoseText(original)
  \/ lang = "ps1" /\ text = InAscii(WhoseText(original))

\* The user's text is what it was or what ASCII makes of it, in the file and in what
\* will replace it, unless a rewriting in place is under way or was cut short.
Unharmed ==
  /\ (\A i \in Instances : pc[i] # "writing") => Theirs(WhoseText(file))
  /\ \A i \in Instances : pc[i] \in {"rename", "write", "writing"} =>
       Theirs(WhoseText(kept[i]))

\* Where it can be promised, the user's text is unharmed.
Intact == Orderly /\ ~Torn => Unharmed

\* The claims about the next state, with the user's text of this one.
LEMMA UnharmedThen ==
  ASSUME UNCHANGED <<lang, original>>,
         (\A i \in Instances : pc'[i] # "writing") => Theirs(WhoseText(file')),
         \A i \in Instances : pc'[i] \in {"rename", "write", "writing"} =>
           Theirs(WhoseText(kept'[i]))
  PROVE  Unharmed'
<1>1. WhoseText(original)' = WhoseText(original) /\ WhoseText(file)' = WhoseText(file')
      /\ InAscii(WhoseText(original))' = InAscii(WhoseText(original))
  BY DEF WhoseText, UsersLines, InAscii
<1>2. \A j \in Instances : WhoseText(kept[j])' = WhoseText(kept'[j])
  BY DEF WhoseText, UsersLines
<1> QED
  BY <1>1, <1>2 DEF Unharmed, Theirs

\* A step that leaves the file, or the user's text in it, as it is.
LEMMA StepUnharmed ==
  ASSUME TypeInv, NEW i \in Instances, Unharmed, UNCHANGED <<lang, original>>,
         \A j \in Instances : j # i => Rests(j),
         WhoseText(file') = WhoseText(file), pc[i] # "writing" \/ pc'[i] = "writing",
         pc'[i] \in {"rename", "write", "writing"} => Theirs(WhoseText(kept'[i]))
  PROVE  Unharmed'
<1>1. \A j \in Instances : WhoseText(kept[j])' = WhoseText(kept'[j])
  BY DEF WhoseText, UsersLines
<1>2. ASSUME \A j \in Instances : pc'[j] # "writing"
      PROVE  Theirs(WhoseText(file'))
  BY <1>2 DEF Unharmed, Rests
<1>3. ASSUME NEW j \in Instances, pc'[j] \in {"rename", "write", "writing"}
      PROVE  Theirs(WhoseText(kept'[j]))
  BY <1>3 DEF Unharmed, Rests
<1> QED
  BY <1>1, <1>2, <1>3, UnharmedThen

\* While the user's text is accounted for, every step keeps it so.
LEMMA StepIntact ==
  ASSUME TypeInv, Alone, \A j \in Instances : Local(j), Kempt, Intact,
         NEW i \in Instances, Moves(i)
  PROVE  Intact'
<1> SUFFICES ASSUME Orderly', ~Torn' PROVE Unharmed'
  BY DEF Intact
<1>1. UNCHANGED <<lang, original>> /\ \A j \in Instances : j # i => Rests(j)
  BY OthersRest
<1>2. Orderly
  BY <1>1, Monotonic DEF Orderly
<1>3. pc[i] # "torn"
  BY DEF Moves, Start, Step, CheckStale, Guard, AddNewline, AddEntry, AppendEntry,
         Exit, Find, Sed, Rename, Truncate, WriteLines, Interrupt, Kill, Active
<1>4. ~Torn
  BY <1>1, <1>3 DEF Torn, Rests
<1>5. Unharmed /\ Neat(file) /\ Careful(i) /\ Local(i)
  BY <1>2, <1>4 DEF Intact, Kempt
<1>6. pc[i] # "writing" => \A j \in Instances : pc[j] # "writing"
  <2>1. CASE lang = "sh"
    BY <2>1 DEF Local
  <2>2. CASE lang = "ps1"
    BY <1>1, <2>2, Sole DEF Orderly, Active
  <2> QED
    BY <2>1, <2>2 DEF TypeInv
<1>7. pc[i] # "writing" => Theirs(WhoseText(file))
  BY <1>5, <1>6 DEF Unharmed
<1>8. file \in Seq(Lines) /\ WhoseText(WithoutMarker(file)) = WhoseText(file)
  BY <1>5, NeatText DEF TypeInv
<1> USE DEF TypeInv, GoTo, Remove, Return, script, fixed
<1>9. CASE Start(i) \/ CheckStale(i) \/ Guard(i) \/ Exit(i)
  <2>1. file' = file /\ pc[i] # "writing" /\ pc'[i] \notin {"rename", "write", "writing"}
    BY <1>9 DEF Start, CheckStale, Guard, Exit
  <2> QED
    BY <1>1, <1>5, <2>1, StepUnharmed
<1>10. CASE Kill(i)
  <2>1. file' = file /\ pc'[i] \notin {"rename", "write", "writing"}
    BY <1>10 DEF Kill
  <2>2. pc[i] # "writing"
    BY <1>10 DEF Kill, Torn
  <2> QED
    BY <1>1, <1>5, <2>1, <2>2, StepUnharmed
<1>11. CASE Interrupt(i)
  <2>1. file' = file /\ pc'[i] = "find" /\ pc[i] # "writing"
    BY <1>5, <1>11 DEF Interrupt, Local
  <2> QED
    BY <1>1, <1>5, <2>1, StepUnharmed
<1>12. CASE AppendEntry(i, Target(i)) /\ pc[i] \in {"newline", "append"}
  <2>1. WhoseText(file') = WhoseText(file)
    BY <1>5, <1>12, AppendEntryType
  <2>2. pc[i] # "writing" /\ pc'[i] \notin {"rename", "write", "writing"}
    BY <1>12 DEF AppendEntry
  <2> QED
    BY <1>1, <1>5, <2>1, <2>2, StepUnharmed
<1>13. CASE AddNewline(i)
  <2>1. CASE lang = "sh"
    <3>1. WhoseText(file') = WhoseText(file)
      BY <1>5, <1>13, <2>1, TargetType DEF AddNewline
    <3>2. pc[i] # "writing" /\ pc'[i] = "append"
      BY <1>13, <2>1 DEF AddNewline
    <3> QED
      BY <1>1, <1>5, <3>1, <3>2, StepUnharmed
  <2> QED
    BY <1>12, <1>13, <2>1 DEF AddNewline, Target
<1>14. CASE AddEntry(i)
  BY <1>12, <1>14 DEF AddEntry, Target
<1>15. CASE Find(i)
  <2>1. file' = file /\ pc[i] = "find"
    BY <1>15 DEF Find
  <2>2. ASSUME pc'[i] \in {"rename", "write", "writing"}
        PROVE  Theirs(WhoseText(kept'[i]))
    <3>1. lang = "ps1"
      BY <1>5, <1>15, <2>2 DEF Find, Returns
    <3>2. kept'[i] = WithoutMarker(file)
      BY <1>15, <3>1 DEF Find
    <3> QED
      BY <1>7, <1>8, <2>1, <3>2
  <2> QED
    BY <1>1, <1>5, <2>1, <2>2, StepUnharmed
<1>16. CASE Sed(i)
  <2>1. file' = file /\ pc[i] = "sed" /\ kept'[i] = WithoutMarker(file)
    BY <1>16 DEF Sed
  <2>2. Theirs(WhoseText(kept'[i]))
    BY <1>7, <1>8, <2>1
  <2> QED
    BY <1>1, <1>5, <2>1, <2>2, StepUnharmed
<1>17. CASE Rename(i)
  <2>1. file' = kept[i] /\ pc[i] = "rename" /\ pc'[i] \notin {"rename", "write", "writing"}
    BY <1>17 DEF Rename, Returns
  <2>2. lang = "sh" /\ Theirs(WhoseText(kept[i])) /\ Theirs(WhoseText(file))
    BY <1>5, <1>7, <2>1 DEF Unharmed, Local
  <2>3. WhoseText(file') = WhoseText(file)
    BY <2>1, <2>2 DEF Theirs
  <2> QED
    BY <1>1, <1>5, <2>1, <2>3, StepUnharmed
<1>20. ASSUME NEW j \in Instances, kept' = kept, pc'[j] \in {"rename", "write", "writing"},
              j # i \/ pc[i] \in {"write", "writing"}
       PROVE  Theirs(WhoseText(kept'[j]))
  BY <1>1, <1>5, <1>20 DEF Unharmed, Rests
<1>18. CASE Truncate(i)
  <2>1. pc[i] = "write" /\ pc'[i] = "writing" /\ kept' = kept
    BY <1>18 DEF Truncate
  <2> QED
    BY <1>1, <1>20, <2>1, UnharmedThen
<1>19. CASE WriteLines(i)
  <2>1. pc[i] = "writing" /\ kept' = kept /\ file' = Ended(kept[i])
    BY <1>19 DEF WriteLines, Ended, Rewritten, Plain
  <2>2. kept[i] \in Seq(Lines) /\ original \in Seq(Lines)
    BY KeptLines
  <2>3. lang = "ps1" /\ Theirs(WhoseText(kept[i]))
    BY <1>5, <2>1 DEF Unharmed, Local
  <2>4. WhoseText(file') = InAscii(WhoseText(kept[i]))
    BY <2>1, <2>2, EndingKeepsText
  <2>5. WhoseText(original) \in Seq(SUBSET Names)
    BY <2>2, TextType
  <2>6. InAscii(WhoseText(kept[i])) = InAscii(WhoseText(original))
    BY <2>3, <2>5, InAsciiIs DEF Theirs
  <2>7. Theirs(WhoseText(file'))
    BY <2>3, <2>4, <2>6 DEF Theirs
  <2> QED
    BY <1>1, <1>20, <2>1, <2>7, UnharmedThen
<1> QED
  BY <1>9, <1>10, <1>11, <1>13, <1>14, <1>15, <1>16, <1>17, <1>18, <1>19 DEF Moves, Step

-----------------------------------------------------------------------------
(* Entries of runs that are over.                                          *)

\* Appending entries leaves all others where they are.
LEMMA AppendedPlaces ==
  ASSUME NEW f \in Seq(Lines), NEW e \in SUBSET (AllHosts \X Instances), NEW x, x \notin e
  PROVE  Places(Appended(f, e), x) = Places(f, x)
<1>1. Len(f) \in Nat /\ DOMAIN f = 1 .. Len(f)
  BY LinesOf
<1>2. CASE Unended(f)
  <2>1. /\ DOMAIN Appended(f, e) = 1 .. Len(f)
        /\ \A n \in 1 .. Len(f) : n # Len(f) => Appended(f, e)[n] = f[n]
        /\ Appended(f, e)[Len(f)].entries = f[Len(f)].entries \union e
    BY <1>2, EndShape
  <2>2. \A n \in 1 .. Len(f) : x \in Appended(f, e)[n].entries <=> x \in f[n].entries
    BY <2>1
  <2> QED
    BY <1>1, <2>1, <2>2 DEF Places
<1>3. CASE ~Unended(f)
  <2>1. /\ DOMAIN Appended(f, e) = 1 .. Len(f) + 1
        /\ Len(f) + 1 \in 1 .. Len(f) + 1
        /\ \A n \in 1 .. Len(f) + 1 : n \in 1 .. Len(f) \/ n = Len(f) + 1
        /\ \A n \in 1 .. Len(f) : n \in 1 .. Len(f) + 1 /\ Appended(f, e)[n] = f[n]
        /\ Appended(f, e)[Len(f) + 1].entries = e
    <3>1. /\ Appended(f, e) = Append(f, Line({}, e, TRUE))
          /\ Appended(f, e) \in Seq(Lines) /\ DOMAIN Appended(f, e) = 1 .. Len(f) + 1
          /\ Len(Appended(f, e)) = Len(f) + 1
          /\ Len(f) + 1 \in 1 .. Len(f) + 1 /\ Len(f) + 1 \notin 1 .. Len(f)
          /\ \A n \in 1 .. Len(f) + 1 : n \in 1 .. Len(f) \/ n = Len(f) + 1
          /\ \A n \in 1 .. Len(f) : n \in 1 .. Len(f) + 1 /\ Appended(f, e)[n] = f[n]
          /\ Appended(f, e)[Len(f) + 1].user = {}
          /\ Appended(f, e)[Len(f) + 1].entries = e
          /\ Appended(f, e)[Len(f) + 1].ended
      BY <1>3, EntryShape, Zenon
    <3> QED
      BY <3>1
  <2>2. x \notin Appended(f, e)[Len(f) + 1].entries
    BY <2>1
  <2> QED
    BY <1>1, <2>1, <2>2 DEF Places
<1> QED
  BY <1>2, <1>3

\* Where nothing is marked no instance has an entry.
LEMMA NoMarkerNoEntry ==
  ASSUME NEW f, ~HasMarker(f), NEW x
  PROVE  Places(f, x) = {}
  BY DEF HasMarker, Places

\* An instance leaves the entries of another where they are, or removes them all; and
\* a file that holds nothing but entries, if it holds any of these, stays such a file.
LEMMA OthersEntries ==
  ASSUME TypeInv, NEW i \in Instances, Local(i), Moves(i), NEW x, x[2] # i
  PROVE  Places(file', x) = Places(file, x) \/ Places(file', x) = {}
<1> USE DEF TypeInv
<1>1. CASE file' = file
  BY <1>1
<1>2. Places(Newline(file), x) = Places(file, x)
  BY AppendedPlaces DEF Newline
<1>3. CASE pc[i] \in {"newline", "append"} /\ file' = Appended(Target(i), {Entry(i)})
  <2>1. Target(i) \in Seq(Lines) /\ Places(Target(i), x) = Places(file, x)
    BY <1>2, <1>3, TargetType DEF Target
  <2>2. {Entry(i)} \in SUBSET (AllHosts \X Instances) /\ x \notin {Entry(i)}
    BY <1>3, TargetType DEF Entry
  <2>3. Places(Appended(Target(i), {Entry(i)}), x) = Places(Target(i), x)
    BY <2>1, <2>2, AppendedPlaces
  <2> QED
    BY <1>3, <2>1, <2>3
<1>4. ~HasMarker(kept[i]) /\ ~HasMarker(Ended(kept[i])) /\ ~HasMarker(<<>>)
  BY KeptLines DEF HasMarker
<1>5. CASE file' = kept[i]
  BY <1>4, <1>5, NoMarkerNoEntry
<1>6. CASE file' = <<>>
  BY <1>4, <1>6, NoMarkerNoEntry
<1>7. CASE file' = Ended(kept[i])
  BY <1>4, <1>7, NoMarkerNoEntry
<1> QED
  BY <1>1, <1>2, <1>3, <1>5, <1>6, <1>7, FileStep

\* What an instance has added is all it can have left.
Entries == \A i \in Instances : added[i] = 0 => ~Leftover(i)

\* Only a run that has added an entry has one in the file.
LEMMA StepEntries ==
  ASSUME TypeInv, NEW i \in Instances, Local(i), Moves(i), Entries
  PROVE  Entries'
<1> SUFFICES ASSUME NEW j \in Instances, added'[j] = 0, NEW host \in AllHosts
             PROVE  Places(file', <<host, j>>) = {}
  BY DEF Entries, Leftover, Redirecting, Places
<1> DEFINE x == <<host, j>>
<1>1. added[j] = 0 => Places(file, x) = {}
  BY DEF Entries, Leftover, Redirecting, Places
<1>2. CASE j # i
  <2>1. added'[j] = added[j] /\ x[2] # i
    BY <1>2, OthersRest DEF Rests
  <2> HIDE DEF x
  <2>2. Places(file', x) = Places(file, x) \/ Places(file', x) = {}
    BY <2>1, OthersEntries
  <2> QED
    BY <1>1, <2>1, <2>2 DEF x
<1>3. CASE j = i
  <2> USE DEF TypeInv
  <2>1. ~AppendEntry(i, Target(i))
    <3>1. ASSUME AppendEntry(i, Target(i)) PROVE added'[i] = added[i] + 1 /\ added[i] \in Nat
      BY <3>1 DEF AppendEntry
    <3>2. \A n \in Nat : n + 1 # 0
      OBVIOUS
    <3> QED
      BY <1>3, <3>1, <3>2
  <2>2. added'[i] = added[i]
    BY <2>1 DEF Moves, Start, Step, CheckStale, Guard, AddNewline, AddEntry, Target,
           Exit, Find, Sed, Rename, Truncate, WriteLines, Interrupt, Kill, script
  <2>3. Places(Newline(file), x) = Places(file, x)
    <3> HIDE DEF x
    <3> QED
      BY AppendedPlaces DEF Newline
  <2>4. ~HasMarker(kept[i]) /\ ~HasMarker(Ended(kept[i])) /\ ~HasMarker(<<>>)
    BY KeptLines DEF HasMarker
  <2>5. \/ file' = file \/ file' = Newline(file) \/ ~HasMarker(file')
    BY <2>1, <2>4, FileStep
  <2> QED
    BY <1>1, <1>3, <2>2, <2>3, <2>5, NoMarkerNoEntry
<1> QED
  BY <1>2, <1>3

\* A run that is over, or that has removed what an earlier one left, leaves no entry in
\* the file, or nothing but entries.
LEMMA Cleared ==
  ASSUME TypeInv, NEW i \in Instances, Local(i), Moves(i), pc'[i] \in {"gone", "guard"}
  PROVE  ~HasMarker(file') \/ OnlyManaged'
<1> USE DEF TypeInv, GoTo, Remove, Return, script, fixed
<1>1. CASE Start(i) \/ Guard(i) \/ Exit(i) \/ Sed(i) \/ Truncate(i) \/ Interrupt(i) \/ Kill(i)
  BY <1>1 DEF Start, Guard, Exit, Sed, Truncate, Interrupt, Kill
<1>2. CASE AddNewline(i) \/ AddEntry(i)
  BY <1>2 DEF AddNewline, AddEntry, AppendEntry
<1>3. CASE CheckStale(i)
  BY <1>3 DEF CheckStale
<1>4. CASE Find(i)
  <2>1. ~HasMarker(file) \/ (lang = "ps1" /\ WithoutMarker(file) = <<>>)
    BY <1>4 DEF Find
  <2>2. UNCHANGED <<file, lang>>
    BY <1>4 DEF Find
  <2>3. WithoutMarker(file)' = WithoutMarker(file)
    BY <2>2 DEF WithoutMarker
  <2> QED
    BY <2>1, <2>2, <2>3 DEF OnlyManaged
<1>5. ~HasMarker(kept[i]) /\ ~HasMarker(Ended(kept[i]))
  BY KeptLines
<1>6. CASE Rename(i)
  BY <1>5, <1>6 DEF Rename
<1>7. CASE WriteLines(i)
  BY <1>5, <1>7 DEF WriteLines, Ended, Rewritten, Plain
<1> QED
  BY <1>1, <1>2, <1>3, <1>4, <1>6, <1>7 DEF Moves, Step

\* When nobody runs, and nobody was killed, no entry is left.
Quiet ==
  (\A i \in Instances : ~Active(i) /\ pc[i] \notin {"killed", "torn"}) =>
    ~HasMarker(file) \/ OnlyManaged

\* The run that ends last takes the entries with it.
LEMMA StepQuiet ==
  ASSUME TypeInv, NEW i \in Instances, Local(i), Moves(i)
  PROVE  Quiet'
<1> SUFFICES ASSUME ~Active(i)', pc'[i] \notin {"killed", "torn"}
             PROVE  ~HasMarker(file') \/ OnlyManaged'
  BY DEF Quiet, HasMarker
<1>1. pc'[i] # "idle"
  BY DEF Moves, Start, Step, CheckStale, Guard, AddNewline, AddEntry, AppendEntry,
         Exit, Find, Sed, Rename, Truncate, WriteLines, Interrupt, Kill,
         GoTo, Return, Remove, TypeInv, Returns
<1>2. pc'[i] = "gone"
  BY <1>1 DEF Active
<1> QED
  BY <1>2, Cleared

\* What is left of others was there before, and what held nothing but entries still does.
LEMMA OthersLeft ==
  ASSUME TypeInv, NEW i \in Instances, Local(i), Moves(i), Neat(file), Careful(i),
         NEW j \in Instances, j # i, Leftover(j)'
  PROVE  Leftover(j) /\ (OnlyManaged => OnlyManaged')
<1> USE DEF TypeInv
<1>1. PICK host \in AllHosts : Places(file', <<host, j>>) # {}
  BY DEF Leftover, Redirecting, Places
<1>2. Places(file, <<host, j>>) # {} /\ HasMarker(file')
  <2> DEFINE x == <<host, j>>
  <2>1. x[2] # i
    OBVIOUS
  <2> HIDE DEF x
  <2>2. Places(file', x) # {}
    BY <1>1 DEF x
  <2>3. Places(file, x) # {} /\ HasMarker(file')
    BY <2>1, <2>2, OthersEntries, NoMarkerNoEntry
  <2> QED
    BY <2>3 DEF x
<1>3. Leftover(j)
  BY <1>2 DEF Leftover, Redirecting, Places
<1>4. HasMarker(file)
  BY <1>2 DEF HasMarker, Places
<1>5. ~HasMarker(kept[i]) /\ ~HasMarker(Ended(kept[i])) /\ ~HasMarker(<<>>)
  BY KeptLines DEF HasMarker
<1>6. ASSUME OnlyManaged PROVE OnlyManaged'
  <2>1. lang = "ps1" /\ lang' = lang /\ WithoutMarker(file) = <<>>
    BY <1>6, OthersRest DEF OnlyManaged
  <2>2. WithoutMarker(file)' = WithoutMarker(file')
    BY DEF WithoutMarker
  <2>3. CASE file' = file
    BY <2>1, <2>2, <2>3 DEF OnlyManaged
  <2>4. CASE pc[i] \in {"newline", "append"} /\ file' = Appended(Target(i), {Entry(i)})
    <3>1. Settled(file) /\ file \in Seq(Lines)
      BY <1>4 DEF Neat
    <3>2. ~Unended(file)
      <4>1. Len(file) \in Nat /\ DOMAIN file = 1 .. Len(file)
        BY LinesOf
      <4>2. \A k \in Nat : k > 0 => k \in 1 .. k
        OBVIOUS
      <4> QED
        BY <3>1, <4>1, <4>2, LinesOf DEF Settled
    <3>3. pc[i] = "append" /\ Target(i) = file
      BY <2>1, <2>4, <3>2 DEF Careful, Target
    <3>4. Entry(i) \in AllHosts \X Instances
      BY <2>4, TargetType
    <3>5. WithoutMarker(Appended(file, {Entry(i)})) = WithoutMarker(file)
      BY <3>1, <3>4, EntryKeepsNeat
    <3> QED
      BY <2>1, <2>2, <2>4, <3>3, <3>5 DEF OnlyManaged
  <2> QED
    BY <1>2, <1>5, <2>1, <2>3, <2>4, FileStep
<1> QED
  BY <1>3, <1>6

\* Without overlap a run that is over has left nothing.
Over == ~overlapped => \A i \in Instances : pc[i] = "gone" /\ Leftover(i) => OnlyManaged

\* A run that is over stays without entries while no two overlap.
LEMMA StepOver ==
  ASSUME TypeInv, Alone, NEW i \in Instances, Local(i), Moves(i), Kempt, Over
  PROVE  Over'
<1> SUFFICES ASSUME ~overlapped', NEW j \in Instances, pc'[j] = "gone", Leftover(j)'
             PROVE  OnlyManaged'
  BY DEF Over
<1>1. ~overlapped
  BY Monotonic
<1>2. CASE j = i
  <2>1. HasMarker(file')
    BY DEF Leftover, Redirecting, HasMarker
  <2> QED
    BY <1>2, <2>1, Cleared
<1>3. CASE j # i
  <2>1. Neat(file) /\ Careful(i)
    BY <1>1 DEF Kempt, Orderly
  <2>2. Leftover(j) /\ (OnlyManaged => OnlyManaged')
    BY <1>3, <2>1, OthersLeft
  <2>3. pc[j] = "gone"
    BY <1>3, OthersRest DEF Rests
  <2> QED
    BY <1>1, <2>2, <2>3 DEF Over
<1> QED
  BY <1>2, <1>3

-----------------------------------------------------------------------------
(* Entries of a run that goes on.                                          *)

\* No host is listed twice.
Distinct == \A k, l \in DOMAIN Hosts : Hosts[k] = Hosts[l] => k = l

\* The hosts that i has come to have their one entry, on a line of its own, and the
\* others have none.
Entered(i) ==
  \A k \in DOMAIN Hosts :
    IF k <= added[i]
    THEN \E n \in DOMAIN file : Redirecting(Hosts[k], i) = {n} /\ file[n].user = {}
    ELSE Redirecting(Hosts[k], i) = {}

\* Nothing is left of the others, unless there is nothing else.
Swept(i) == \A j \in Instances \ {i} : Leftover(j) => OnlyManaged

\* What holds of a run that was not interrupted and is about to, or does, redirect.
Redirected ==
  \A i \in Instances :
    /\ ~overlapped /\ interrupts[i] = 0
    /\ pc[i] \in {"guard", "newline", "append", "run"}
    => Entered(i) /\ Swept(i)

\* When i is about to append, without interruption, it has entered what it added, if
\* that was so before.
LEMMA EntryEntered ==
  ASSUME TypeInv, Distinct, NEW i \in Instances, Local(i), Neat(file), Careful(i), Entered(i),
         pc[i] \in {"newline", "append"}, AppendEntry(i, Target(i))
  PROVE  Entered(i)'
<1> USE DEF TypeInv
<1>1. /\ Target(i) \in Seq(Lines) /\ Neat(Target(i)) /\ Settled(Target(i))
      /\ \A x : /\ Places(Target(i), x) = Places(file, x)
                /\ \A n \in Places(file, x) : Target(i)[n].user = file[n].user
  <2>1. CASE pc[i] = "newline"
    BY <2>1, NewlineShape DEF Target
  <2>2. CASE pc[i] = "append"
    BY <2>2 DEF Target, Careful, Place, Removal
  <2> QED
    BY <2>1, <2>2
<1>2. Entry(i) \in AllHosts \X Instances /\ added[i] + 1 \in DOMAIN Hosts /\ added[i] \in Nat
  BY TargetType
<1>3. file' = Appended(Target(i), {Entry(i)}) /\ added'[i] = added[i] + 1
  BY DEF AppendEntry, Entry
<1> DEFINE m == Len(Target(i)) + 1
<1>4. /\ \A y : y # Entry(i) => Places(file', y) = Places(Target(i), y)
      /\ Places(file', Entry(i)) = Places(Target(i), Entry(i)) \union {m}
      /\ \A n \in DOMAIN Target(i) : file'[n].user = Target(i)[n].user
      /\ file'[m].user = {}
  <2> DEFINE g == Target(i)
             x == Entry(i)
             h == Appended(g, {x})
  <2>1. g \in Seq(Lines) /\ Neat(g) /\ Settled(g) /\ x \in AllHosts \X Instances
    BY <1>1, <1>2
  <2> HIDE DEF g, x
  <2>2. /\ h \in Seq(Lines) /\ Neat(h) /\ Settled(h)
        /\ \A y : y # x => Places(h, y) = Places(g, y)
        /\ Places(h, x) = Places(g, x) \union {Len(g) + 1}
        /\ \A n \in DOMAIN g : h[n].user = g[n].user
        /\ h[Len(g) + 1].user = {}
        /\ WithoutMarker(h) = WithoutMarker(g)
    BY <2>1, EntryKeepsNeat, Zenon
  <2> HIDE DEF h
  <2>3. file' = h
    BY <1>3 DEF g, h, x
  <2> QED
    BY <2>2, <2>3 DEF g, x
<1> HIDE DEF m
<1>5. ASSUME NEW k \in DOMAIN Hosts
      PROVE  IF k <= added'[i]
             THEN \E n \in DOMAIN file' :
                    Places(file', <<Hosts[k], i>>) = {n} /\ file'[n].user = {}
             ELSE Places(file', <<Hosts[k], i>>) = {}
  <2> DEFINE x == <<Hosts[k], i>>
  <2>1. k \in Nat
    BY Constants
  <2>2. k <= added[i] \/ k = added[i] + 1 \/ ~(k <= added[i] + 1)
    BY <1>2, <2>1
  <2>3. k <= added[i] => k <= added[i] + 1 /\ k # added[i] + 1
    BY <1>2, <2>1
  <2>4. ~(k <= added[i] + 1) => ~(k <= added[i]) /\ k # added[i] + 1
    BY <1>2, <2>1
  <2>5. k = added[i] + 1 => k <= added[i] + 1 /\ ~(k <= added[i])
    BY <1>2, <2>1
  <2>6. k # added[i] + 1 => x # Entry(i)
    BY <1>2 DEF Distinct, Entry
  <2>7. CASE k <= added[i]
    <3>1. PICK n \in DOMAIN file : Places(file, x) = {n} /\ file[n].user = {}
      BY <2>7 DEF Entered, Redirecting, Places
    <3> HIDE DEF x
    <3>2. Places(file', x) = {n} /\ Places(Target(i), x) = {n} /\ Target(i)[n].user = {}
      BY <1>1, <1>4, <2>3, <2>6, <2>7, <3>1
    <3>3. n \in DOMAIN Target(i) /\ n \in DOMAIN file'
      BY <3>2 DEF Places
    <3>4. file'[n].user = {}
      BY <1>4, <3>2, <3>3
    <3>5. \E l \in DOMAIN file' : Places(file', x) = {l} /\ file'[l].user = {}
      BY <3>2, <3>3, <3>4
    <3> QED
      BY <1>3, <2>3, <2>7, <3>5 DEF x
  <2>8. CASE k = added[i] + 1
    <3>1. x = Entry(i)
      BY <2>8 DEF Entry
    <3>2. Places(file, x) = {}
      BY <2>5, <2>8 DEF Entered, Redirecting, Places
    <3> HIDE DEF x
    <3>3. Places(file', x) = {m}
      BY <1>1, <1>4, <3>1, <3>2
    <3>4. m \in DOMAIN file'
      BY <3>3 DEF Places
    <3>5. \E l \in DOMAIN file' : Places(file', x) = {l} /\ file'[l].user = {}
      BY <1>4, <3>3, <3>4
    <3> QED
      BY <1>3, <2>5, <2>8, <3>5 DEF x
  <2>9. CASE ~(k <= added[i] + 1)
    <3>1. Places(file, x) = {}
      BY <2>4, <2>9 DEF Entered, Redirecting, Places
    <3> HIDE DEF x
    <3>2. Places(file', x) = {}
      BY <1>1, <1>4, <2>4, <2>6, <2>9, <3>1
    <3> QED
      BY <1>3, <2>9, <3>2 DEF x
  <2> QED
    BY <2>2, <2>7, <2>8, <2>9
<1> QED
  BY <1>5 DEF Entered, Redirecting, Places

\* A run that has just found, or left, the file clear has entered nothing yet.
LEMMA GuardEntered ==
  ASSUME TypeInv, Entries, NEW i \in Instances, Local(i), Moves(i), pc'[i] = "guard", Entries'
  PROVE  Entered(i)' /\ Swept(i)'
<1>1. ~HasMarker(file') \/ OnlyManaged'
  BY Cleared
<1>2. added'[i] = 0
  <2>1. Local(i)'
    BY StepLocal
  <2> QED
    BY <2>1 DEF Local, Place, Removal
<1>3. \A k \in DOMAIN Hosts : ~(k <= added'[i]) /\ Places(file', <<Hosts[k], i>>) = {}
  <2>1. \A k \in DOMAIN Hosts : ~(k <= 0) /\ Hosts[k] \in AllHosts
    BY Constants DEF AllHosts
  <2> QED
    BY <1>2, <2>1 DEF Entries, Leftover, Redirecting, Places
<1>4. Entered(i)'
  BY <1>3 DEF Entered, Redirecting, Places
<1>5. Swept(i)'
  BY <1>1 DEF Swept, Leftover, Redirecting, HasMarker
<1> QED
  BY <1>4, <1>5

\* Every step preserves that the uninterrupted run redirects what it has come to, and
\* nothing is left of others.
LEMMA StepRedirected ==
  ASSUME TypeInv, Alone, Distinct, Kempt, Entries, Redirected,
         NEW i \in Instances, Local(i), Moves(i)
  PROVE  Redirected'
<1> SUFFICES ASSUME NEW r \in Instances, ~overlapped', interrupts'[r] = 0,
                    pc'[r] \in {"guard", "newline", "append", "run"}
             PROVE  Entered(r)' /\ Swept(r)'
  BY DEF Redirected
<1>1. ~overlapped /\ Neat(file) /\ Careful(i)
  BY Monotonic DEF Kempt, Orderly
<1>2. r = i
  BY OthersRest, Sole DEF Rests, Active
<1>3. Entries'
  BY StepEntries
<1> USE DEF TypeInv, GoTo, Remove, Return, script, fixed
<1>4. CASE pc'[i] = "guard"
  BY <1>2, <1>3, <1>4, GuardEntered
<1>5. ASSUME interrupts[i] = 0, pc[i] \in {"guard", "newline", "append", "run"}
      PROVE  Entered(i) /\ Swept(i)'
  <2>1. Entered(i) /\ Swept(i)
    BY <1>1, <1>5 DEF Redirected
  <2>2. Swept(i)'
    BY <1>1, <2>1, OthersLeft DEF Swept
  <2> QED
    BY <2>1, <2>2
<1>6. CASE Guard(i)
  <2>1. UNCHANGED <<file, added, interrupts>> /\ pc[i] = "guard"
    BY <1>6 DEF Guard
  <2> QED
    BY <1>2, <1>5, <2>1 DEF Entered, Redirecting
<1>7. CASE AppendEntry(i, Target(i)) /\ pc[i] \in {"newline", "append"}
  <2>1. interrupts[i] = 0
    BY <1>2, <1>7 DEF AppendEntry
  <2> QED
    BY <1>1, <1>2, <1>5, <1>7, <2>1, EntryEntered
<1>8. CASE AddNewline(i)
  <2>1. CASE lang = "sh"
    <3>1. /\ file' = Newline(file) /\ UNCHANGED <<added, interrupts>>
          /\ pc[i] = "newline"
      BY <1>8, <2>1 DEF AddNewline
    <3>2. Entered(i) /\ Swept(i)'
      BY <1>2, <1>5, <3>1
    <3>3. \A x : /\ Places(file', x) = Places(file, x)
                 /\ \A n \in Places(file, x) : file'[n].user = file[n].user
      BY <1>1, <3>1, NewlineShape
    <3>4. ASSUME NEW k \in DOMAIN Hosts, k <= added[i]
          PROVE  \E n \in DOMAIN file' :
                   Places(file', <<Hosts[k], i>>) = {n} /\ file'[n].user = {}
      <4>1. PICK n \in DOMAIN file : Places(file, <<Hosts[k], i>>) = {n} /\ file[n].user = {}
        BY <3>2, <3>4 DEF Entered, Redirecting, Places
      <4> DEFINE x == <<Hosts[k], i>>
      <4> HIDE DEF x
      <4>2. Places(file, x) = {n}
        BY <4>1 DEF x
      <4>3. Places(file', x) = {n} /\ file'[n].user = {}
        BY <3>3, <4>1, <4>2
      <4>4. n \in DOMAIN file'
        BY <4>3 DEF Places
      <4> QED
        BY <4>3, <4>4 DEF x
    <3>5. ASSUME NEW k \in DOMAIN Hosts, ~(k <= added[i])
          PROVE  Places(file', <<Hosts[k], i>>) = {}
      BY <3>2, <3>3, <3>5 DEF Entered, Redirecting, Places
    <3>6. Entered(i)'
      BY <3>1, <3>4, <3>5 DEF Entered, Redirecting, Places
    <3> QED
      BY <1>2, <3>2, <3>6
  <2> QED
    BY <1>7, <1>8, <2>1 DEF AddNewline, Target
<1>9. CASE AddEntry(i)
  BY <1>7, <1>9 DEF AddEntry, Target
<1>10. CASE Start(i) \/ Exit(i) \/ Sed(i) \/ Truncate(i) \/ Interrupt(i) \/ Kill(i)
  BY <1>2, <1>10 DEF Start, Exit, Sed, Truncate, Interrupt, Kill
<1>11. CASE CheckStale(i)
  <2>1. pc'[i] \in {"find", "guard"}
    BY <1>11 DEF CheckStale
  <2> QED
    BY <1>2, <1>4, <2>1
<1>12. CASE Find(i) \/ Rename(i) \/ WriteLines(i)
  <2>1. interrupts[i] = 0
    BY <1>2, <1>12 DEF Find, Rename, WriteLines
  <2>2. after[i] \in {"guard", "end"}
    BY <2>1 DEF Local
  <2>3. pc'[i] \in {"guard", "gone", "sed", "write"}
    BY <1>12, <2>2 DEF Find, Rename, WriteLines
  <2> QED
    BY <1>2, <1>4, <2>3
<1> QED
  BY <1>6, <1>8, <1>9, <1>10, <1>11, <1>12 DEF Moves, Step

-----------------------------------------------------------------------------
(* The invariant, and what follows from it.                                *)

\* The inductive invariant.
Inv ==
  /\ TypeInv
  /\ \A i \in Instances : Local(i)
  /\ Alone
  /\ Kempt
  /\ Intact
  /\ Entries
  /\ Quiet
  /\ Over

\* The invariant holds at first.
LEMMA InitInv == Init => Inv /\ Redirected
<1> SUFFICES ASSUME Init PROVE Inv /\ Redirected
  OBVIOUS
<1>1. TypeInv /\ (\A i \in Instances : Local(i)) /\ Neat(file) /\ ~HasMarker(file)
  BY InitTypeInv, InitNeat
<1>2. /\ \A i \in Instances : pc[i] = "idle" /\ after[i] = "end"
      /\ original = file /\ overlapped = FALSE
  BY DEF Init
<1>3. Alone /\ Quiet
  BY <1>1, <1>2 DEF Alone, Active, Quiet
<1>4. Kempt
  BY <1>1, <1>2 DEF Kempt, Careful, Place, Removal
<1>5. Intact
  BY <1>2 DEF Intact, Unharmed, Theirs
<1>6. Entries /\ Over
  BY <1>1 DEF Entries, Over, Leftover, Redirecting, HasMarker
<1>7. Redirected
  BY <1>2 DEF Redirected
<1> QED
  BY <1>1, <1>3, <1>4, <1>5, <1>6, <1>7 DEF Inv

\* Every step preserves the invariant.
LEMMA StepInv == Inv /\ [Next]_vars => Inv'
<1> SUFFICES ASSUME Inv, [Next]_vars PROVE Inv'
  OBVIOUS
<1>1. CASE UNCHANGED vars
  <2>1. UNCHANGED <<lang, file, pc, after, kept, added, interrupts, original, overlapped>>
    BY <1>1 DEF vars, script, fixed
  <2>2. TypeInv' /\ (\A i \in Instances : Local(i)') /\ Alone'
    BY <2>1 DEF Inv, TypeInv, Local, Place, Alone, Active
  <2>3. Kempt'
    BY <2>1 DEF Inv, Kempt, Orderly, Careful, Place, Neat, Settled, HasMarker, Unended
  <2>4. Intact'
    <3>1. ASSUME Orderly', ~Torn' PROVE Unharmed'
      <4>1. Unharmed
        BY <2>1, <3>1 DEF Inv, Intact, Orderly, Torn
      <4> QED
        BY <2>1, <4>1, UnharmedThen DEF Unharmed
    <3> QED
      BY <3>1 DEF Intact
  <2>5. Entries' /\ Quiet' /\ Over'
    BY <2>1 DEF Inv, Entries, Quiet, Over, Leftover, Redirecting, Active, HasMarker,
         OnlyManaged, WithoutMarker
  <2> QED
    BY <2>2, <2>3, <2>4, <2>5 DEF Inv
<1>2. CASE Next
  <2>1. PICK i \in Instances : Moves(i)
    BY <1>2 DEF Next, Moves
  <2>2. TypeInv /\ Alone /\ Local(i) /\ Kempt /\ Intact /\ Entries /\ Over
    BY DEF Inv
  <2>3. TypeInv'
    BY <2>1, <2>2, StepTypeInv DEF Moves
  <2>4. ASSUME NEW j \in Instances PROVE Local(j)'
    <3>1. CASE j = i
      BY <2>1, <2>2, <3>1, StepLocal
    <3>2. CASE j # i
      BY <2>1, <2>2, <3>2, OthersRest, RestsLocal DEF Inv
    <3> QED
      BY <3>1, <3>2
  <2>5. Alone' /\ Kempt' /\ Intact'
    BY <2>1, <2>2, StepAlone, StepKempt, StepIntact DEF Inv
  <2>6. Entries' /\ Quiet' /\ Over'
    BY <2>1, <2>2, StepEntries, StepQuiet, StepOver
  <2> QED
    BY <2>3, <2>4, <2>5, <2>6 DEF Inv
<1> QED
  BY <1>1, <1>2

\* With no host listed twice, every step preserves Redirected.
LEMMA StepRedirectedInv == Distinct /\ Inv /\ Redirected /\ [Next]_vars => Redirected'
<1> SUFFICES ASSUME Distinct, Inv, Redirected, [Next]_vars PROVE Redirected'
  OBVIOUS
<1>1. CASE UNCHANGED vars
  <2>1. UNCHANGED <<lang, file, pc, after, kept, added, interrupts, original, overlapped>>
    BY <1>1 DEF vars, script, fixed
  <2> QED
    BY <2>1 DEF Redirected, Entered, Swept, Leftover, Redirecting, OnlyManaged, WithoutMarker
<1>2. CASE Next
  <2>1. PICK i \in Instances : Moves(i)
    BY <1>2 DEF Next, Moves
  <2> QED
    BY <2>1, StepRedirected DEF Inv
<1> QED
  BY <1>1, <1>2

\* Whatever the scripts do, are interrupted at or killed in, the invariant holds.
THEOREM Invariance == Spec => []Inv
  BY InitInv, StepInv, PTL DEF Spec

\* The text of the user's lines survives every run, interruption and kill of
\* run-with-hosts.sh.  With run-with-hosts.ps1 the lines do, and each reads as it did or
\* as it does in ASCII, unless a rewriting is cut short or runs overlap.  This is for any
\* number of runs, hosts, lines and interrupts.
THEOREM KeepsUserLines == Spec => []UserLinesSafe
<1>1. ASSUME Inv PROVE UserLinesSafe
  <2>1. TypeInv /\ Intact /\ \A i \in Instances : Local(i)
    BY <1>1 DEF Inv
  <2>2. ASSUME \A i \in Instances : pc[i] \notin {"writing", "torn"}, Orderly
        PROVE  Theirs(WhoseText(file))
    BY <2>1, <2>2 DEF Intact, Torn, Unharmed
  <2>3. CASE lang = "sh"
    <3>1. \A i \in Instances : pc[i] \notin {"writing", "torn"}
      BY <2>1, <2>3 DEF Local
    <3> QED
      BY <2>2, <2>3, <3>1 DEF UserLinesSafe, Orderly, Theirs
  <2>4. CASE lang = "ps1"
    BY <2>2, <2>4 DEF UserLinesSafe, Orderly, Theirs
  <2> QED
    BY <2>1, <2>3, <2>4 DEF TypeInv
<1> QED
  BY <1>1, Invariance, PTL

\* A run that exits leaves no entry, if it was alone, and none is left when all others
\* have exited too (the traps and finally blocks of both scripts).
THEOREM CleansUp == Spec => []NoEntryOutlivesItsRun
<1>1. ASSUME Inv PROVE NoEntryOutlivesItsRun
  <2> SUFFICES ASSUME NEW i \in Instances, pc[i] = "gone", Leftover(i), ~OnlyManaged
               PROVE  /\ overlapped
                      /\ \E j \in Instances : Active(j) \/ pc[j] \in {"killed", "torn"}
    BY DEF NoEntryOutlivesItsRun
  <2>1. overlapped
    BY <1>1 DEF Inv, TypeInv, Over
  <2>2. HasMarker(file)
    BY DEF Leftover, Redirecting, HasMarker
  <2> QED
    BY <1>1, <2>1, <2>2 DEF Inv, Quiet
<1> QED
  BY <1>1, Invariance, PTL

\* While vpnproxy runs for a script that was neither interrupted nor overlapped, each host
\* of HOSTS_ENTRY_HOSTS, listed once, has exactly its one entry on a line of its own, and
\* nothing is left of killed runs, whatever they left the file in.
THEOREM Redirects ==
  ASSUME \A k, l \in DOMAIN Hosts : Hosts[k] = Hosts[l] => k = l
  PROVE  Spec => []RunningMeansRedirected
<1>1. Distinct
  BY DEF Distinct
<1>2. Spec => []Redirected
  <2>1. Inv /\ Redirected /\ [Next]_vars => Redirected'
    BY <1>1, StepRedirectedInv
  <2> QED
    BY <2>1, InitInv, Invariance, PTL DEF Spec
<1>3. ASSUME Inv, Redirected PROVE RunningMeansRedirected
  <2> SUFFICES ASSUME NEW i \in Instances, pc[i] = "run", interrupts[i] = 0, ~overlapped
               PROVE  /\ \A k \in DOMAIN Hosts : \E n \in DOMAIN file :
                           Redirecting(Hosts[k], i) = {n} /\ file[n].user = {}
                      /\ \A j \in Instances \ {i} : ~Leftover(j) \/ OnlyManaged
    BY DEF RunningMeansRedirected
  <2>1. Entered(i) /\ Swept(i)
    BY <1>3 DEF Redirected
  <2>2. added[i] = Len(Hosts)
    BY <1>3 DEF Inv, Local, Place, Removal
  <2>3. \A k \in DOMAIN Hosts : k <= added[i]
    BY <2>2, Constants
  <2> QED
    BY <2>1, <2>3 DEF Entered, Swept
<1> QED
  BY <1>2, <1>3, Invariance, PTL
=============================================================================
