---------------------------- MODULE RelayProofs -----------------------------
(***************************************************************************)
(* Proofs of the safety properties of Relay, for streams of any length.    *)
(***************************************************************************)
EXTENDS Relay, SequenceTheorems, TLAPS

-----------------------------------------------------------------------------
(* Runs of consecutive bytes.                                              *)

\* The bytes of s are the ones that follow byte number k.
Numbered(s, k) == \A i \in 1 .. Len(s) : s[i] = k + i

\* Send puts the next byte at the end of a queue.
LEMMA NumberedAppend ==
  ASSUME NEW s \in Seq(Nat), NEW k \in Nat, Numbered(s, k)
  PROVE  LET t == Append(s, k + Len(s) + 1)
         IN t \in Seq(Nat) /\ Len(t) = Len(s) + 1 /\ Numbered(t, k)
<1> DEFINE t == Append(s, k + Len(s) + 1)
<1>1. Len(s) \in Nat /\ k + Len(s) + 1 \in Nat
  BY LenProperties
<1>2. /\ t \in Seq(Nat) /\ Len(t) = Len(s) + 1
      /\ \A i \in 1 .. Len(s) : t[i] = s[i]
      /\ t[Len(s) + 1] = k + Len(s) + 1
  BY <1>1, AppendProperties
<1> HIDE DEF t
<1>3. ASSUME NEW i \in 1 .. Len(t) PROVE t[i] = k + i
  <2>1. CASE i = Len(s) + 1
    BY <1>1, <1>2, <2>1
  <2>2. CASE i # Len(s) + 1
    <3>1. i \in 1 .. Len(s)
      BY <1>1, <1>2, <2>2
    <3> QED
      BY <1>2, <3>1 DEF Numbered
  <2> QED
    BY <2>1, <2>2
<1>4. Numbered(t, k)
  BY <1>3 DEF Numbered
<1> QED
  BY <1>2, <1>4 DEF t

\* A copier takes the first byte of what it reads.
LEMMA NumberedTail ==
  ASSUME NEW s \in Seq(Nat), NEW k \in Nat, Numbered(s, k), s # <<>>
  PROVE  /\ Len(s) \in Nat \ {0} /\ Head(s) = k + 1
         /\ Tail(s) \in Seq(Nat) /\ Len(Tail(s)) = Len(s) - 1
         /\ Numbered(Tail(s), k + 1)
<1>1. Len(s) \in Nat \ {0} /\ Head(s) = s[1]
  BY EmptySeq
<1>2. /\ Tail(s) \in Seq(Nat) /\ Len(Tail(s)) = Len(s) - 1
      /\ \A i \in 1 .. Len(Tail(s)) : Tail(s)[i] = s[i + 1]
  BY HeadTailProperties
<1>3. Numbered(Tail(s), k + 1)
  BY <1>1, <1>2 DEF Numbered
<1> QED
  BY <1>1, <1>2, <1>3 DEF Numbered

\* peekHostname splits what has arrived into what one Read returns and the rest.
LEMMA NumberedSplit ==
  ASSUME NEW s \in Seq(Nat), NEW k \in Nat, Numbered(s, k), NEW n \in 0 .. Len(s)
  PROVE  LET first == SubSeq(s, 1, n)
             rest  == SubSeq(s, n + 1, Len(s))
         IN /\ first \in Seq(Nat) /\ Len(first) = n /\ Numbered(first, k)
            /\ rest \in Seq(Nat) /\ Len(rest) = Len(s) - n /\ Numbered(rest, k + n)
<1> DEFINE first == SubSeq(s, 1, n)
           rest  == SubSeq(s, n + 1, Len(s))
<1>1. Len(s) \in Nat /\ \A i \in 1 .. Len(s) : s[i] \in Nat
  BY LenProperties, ElementOfSeq
<1>2. /\ first \in Seq(Nat) /\ Len(first) = n
      /\ \A i \in 1 .. n : first[i] = s[i]
  BY <1>1, SubSeqProperties
<1>3. /\ rest \in Seq(Nat) /\ Len(rest) = Len(s) - n
      /\ \A i \in 1 .. Len(s) - n : rest[i] = s[n + i]
  BY <1>1, SubSeqProperties
<1> HIDE DEF first, rest
<1>4. \A i \in 1 .. n : i \in 1 .. Len(s)
  BY <1>1
<1>5. \A i \in 1 .. Len(s) - n : n + i \in 1 .. Len(s) /\ k + (n + i) = (k + n) + i
  BY <1>1
<1>6. Numbered(first, k)
  BY <1>2, <1>4 DEF Numbered
<1>7. Numbered(rest, k + n)
  BY <1>3, <1>5 DEF Numbered
<1> QED
  BY <1>2, <1>3, <1>6, <1>7 DEF first, rest

\* A run that follows byte 0 is a stream from its beginning.
LEMMA NumberedFromZero ==
  ASSUME NEW s \in Seq(Nat), Numbered(s, 0)
  PROVE  s = Bytes(Len(s))
<1>1. Len(s) \in Nat /\ s = [i \in 1 .. Len(s) |-> s[i]]
  BY LenProperties
<1>2. \A i \in 1 .. Len(s) : s[i] = i
  BY <1>1 DEF Numbered
<1> QED
  BY <1>1, <1>2 DEF Bytes

-----------------------------------------------------------------------------
(* The inductive invariant.                                                *)

\* Types, also of the streams; relayConn goes on to the splice without a read
\* deadline, and closes the connections only behind both copiers.
TypeInv ==
  /\ TypeOK
  /\ queue \in [Directions -> Seq(Nat)] /\ got \in [Directions -> Seq(Nat)]
  /\ sniffed \in Seq(Nat)
  /\ pc # "peek" => ~timer
  /\ pc = "peek" => sniffed = <<>>
  /\ pc = "closed" => \A d \in Directions : copier[d] = "done"

\* What a copier has to write before it gets to the queue.
Replay(d) == IF d = "up" THEN sniffed ELSE <<>>

\* What has been written is the beginning of the stream.  Until the copier gives
\* up, what it has to replay and the queue adjoin that in this order, up to the
\* last byte sent.
Ordered(d) ==
  /\ Numbered(got[d], 0) /\ Len(got[d]) <= sent[d]
  /\ copier[d] \in {"off", "copy", "write"} =>
       /\ Numbered(Replay(d), Len(got[d]))
       /\ Numbered(queue[d], Len(got[d]) + Len(Replay(d)))
       /\ Len(got[d]) + Len(Replay(d)) + Len(queue[d]) = sent[d]

\* All that the source of d will ever send has been written.
Delivered(d) == fin[d] /\ Len(got[d]) = sent[d]

\* A copier ends after its last byte or because of an abort, and only its
\* ending closes the sink.
EndsInOrder(d) ==
  /\ copier[d] \in {"half", "done"} =>
       reset[Source(d)] \/ reset[Sink(d)] \/ Delivered(d)
  /\ eof[d] => reset[Source(d)] \/ Delivered(d)
  /\ eof[d] => copier[d] = "done"
  /\ copier[d] = "done" => eof[d] \/ reset[Sink(d)]

Inv == TypeInv /\ \A d \in Directions : Ordered(d) /\ EndsInOrder(d)

\* In the initial state nothing has been sent.
LEMMA InitInv == Init => Inv
<1> SUFFICES ASSUME Init PROVE Inv
  OBVIOUS
<1>1. <<>> \in Seq(Nat) /\ Len(<<>>) = 0 /\ \A k \in Nat : Numbered(<<>>, k)
  BY EmptySeq DEF Numbered
<1>2. TypeInv
  BY <1>1, RelayAssumption DEF Init, TypeInv, TypeOK
<1>3. ASSUME NEW d \in Directions PROVE Ordered(d) /\ EndsInOrder(d)
  BY <1>1 DEF Init, Ordered, EndsInOrder, Replay
<1> QED
  BY <1>2, <1>3 DEF Inv

\* Types are preserved by every step, and so is the order of relayConn's phases.
LEMMA NextTypeInv == TypeInv /\ [Next]_vars => TypeInv'
<1> SUFFICES ASSUME TypeInv, [Next]_vars PROVE TypeInv'
  OBVIOUS
<1> USE RelayAssumption DEF TypeInv, TypeOK
<1>1. ASSUME NEW d \in Directions, Send(d) PROVE TypeInv'
  <2>1. sent[d] + 1 \in Nat /\ queue[d] \in Seq(Nat)
    BY <1>1 DEF Send
  <2>2. Append(queue[d], sent[d] + 1) \in Seq(Nat)
    BY <2>1, AppendProperties
  <2> QED
    BY <1>1, <2>1, <2>2 DEF Send
<1>2. ASSUME NEW d \in Directions, ShutDown(d) PROVE TypeInv'
  BY <1>2 DEF ShutDown
<1>3. ASSUME NEW d \in Directions, Abort(Source(d)) PROVE TypeInv'
  BY <1>3 DEF Abort, Directions, Conns, Source
<1>4. ASSUME NEW n \in Nat, n <= Len(queue["up"]), NEW s \in Seq(Nat), PeekReturns(n, s, FALSE)
      PROVE  TypeInv'
  <2>1. "up" \in Directions /\ queue["up"] \in Seq(Nat)
    BY DEF Directions
  <2>2. SubSeq(queue["up"], n + 1, Len(queue["up"])) \in Seq(Nat)
    BY <1>4, <2>1, LenProperties, ElementOfSeq, SubSeqProperties
  <2> QED
    BY <1>4, <2>2 DEF PeekReturns, peers
<1>5. CASE Peek
  <2>1. PICK n \in 1 .. Len(queue["up"]) : PeekReturns(n, SubSeq(queue["up"], 1, n), FALSE)
    BY <1>5 DEF Peek
  <2>2. queue["up"] \in Seq(Nat)
    BY DEF Directions
  <2>3. n \in Nat /\ n <= Len(queue["up"]) /\ SubSeq(queue["up"], 1, n) \in Seq(Nat)
    BY <2>2, LenProperties, ElementOfSeq, SubSeqProperties
  <2> QED
    BY <1>4, <2>1, <2>3
<1>6. CASE PeekNothing
  <2>1. queue["up"] \in Seq(Nat) /\ <<>> \in Seq(Nat)
    BY DEF Directions
  <2>2. 0 <= Len(queue["up"])
    BY <2>1, LenProperties
  <2> QED
    BY <1>4, <1>6, <2>1, <2>2 DEF PeekNothing
<1>7. CASE Resolve
  BY <1>7 DEF Resolve, peers
<1>8. CASE Dial
  BY <1>8 DEF Dial, peers
<1>9. CASE CloseBoth
  BY <1>9 DEF CloseBoth, CloseWhen, peers
<1>10. ASSUME NEW d \in Directions, NEW b \in Nat, CopyByte(d, b), TypeInv
       PROVE  /\ got' \in [Directions -> Seq(Nat)]
              /\ copier' \in [Directions -> {"off", "copy", "write", "half", "done"}]
              /\ room' \in [Directions -> BOOLEAN]
              /\ \A e \in Directions : copier'[e] = "off" <=> copier[e] = "off"
              /\ pc # "closed"
  <2>1. Append(got[d], b) \in Seq(Nat)
    BY AppendProperties
  <2>2. CASE copier' = [copier EXCEPT ![d] = "half"] /\ UNCHANGED <<got, room>>
    <3>1. copier[d] = "write" /\ pc # "closed"
      BY <1>10 DEF CopyByte
    <3>2. /\ copier' \in [Directions -> {"off", "copy", "write", "half", "done"}]
          /\ \A e \in Directions : copier'[e] = "off" <=> copier[e] = "off"
      BY <2>2, <3>1
    <3> QED
      BY <2>2, <3>1, <3>2
  <2>3. CASE /\ copier' = [copier EXCEPT ![d] = "copy"]
             /\ got' = [got EXCEPT ![d] = Append(@, b)]
             /\ \E more \in BOOLEAN : room' = [room EXCEPT ![d] = more]
    <3>1. copier[d] = "write" /\ pc # "closed"
      BY <1>10 DEF CopyByte
    <3>2. /\ copier' \in [Directions -> {"off", "copy", "write", "half", "done"}]
          /\ \A e \in Directions : copier'[e] = "off" <=> copier[e] = "off"
      BY <2>3, <3>1
    <3>3. got' \in [Directions -> Seq(Nat)]
      BY <2>1, <2>3
    <3>4. room' \in [Directions -> BOOLEAN]
      BY <2>3
    <3> QED
      BY <3>1, <3>2, <3>3, <3>4
  <2> QED
    BY <1>10, <2>2, <2>3 DEF CopyByte
<1>11. ASSUME NEW d \in Directions, CopyReplayed(d) PROVE TypeInv'
  <2>1. Head(sniffed) \in Nat /\ Tail(sniffed) \in Seq(Nat)
    BY <1>11, HeadTailProperties DEF CopyReplayed, Replaying
  <2> QED
    BY <1>10, <1>11, <2>1 DEF CopyReplayed, Replaying, CopyByte, peers
<1>12. ASSUME NEW d \in Directions, CopyReceived(d) PROVE TypeInv'
  <2>1. Head(queue[d]) \in Nat /\ Tail(queue[d]) \in Seq(Nat)
    BY <1>12, HeadTailProperties DEF CopyReceived
  <2> QED
    BY <1>10, <1>12, <2>1 DEF CopyReceived, CopyByte, peers
<1>13. ASSUME NEW d \in Directions, CopyEnds(d) PROVE TypeInv'
  BY <1>13 DEF CopyEnds, peers
<1>14. ASSUME NEW d \in Directions, CloseWrite(d) PROVE TypeInv'
  BY <1>14 DEF CloseWrite, peers
<1>15. CASE UNCHANGED vars
  BY <1>15 DEF vars, peers
<1>16. ASSUME NEW d \in Directions, ReadByte(d) PROVE TypeInv'
  BY <1>16 DEF ReadByte, peers
<1>17. ASSUME NEW d \in Directions, Take(d) PROVE TypeInv'
  BY <1>17 DEF Take, peers
<1> QED
  BY <1>1, <1>2, <1>3, <1>5, <1>6, <1>7, <1>8, <1>9, <1>11, <1>12, <1>13, <1>14, <1>15,
     <1>16, <1>17
  DEF Next, Peer, Main, Copier, Over

\* Nothing but a read from the stream changes what is to be replayed; the sizes
\* that Ordered compares are numbers.
LEMMA Sizes ==
  ASSUME NEW d \in Directions, TypeInv
  PROVE  /\ queue[d] \in Seq(Nat) /\ got[d] \in Seq(Nat) /\ Replay(d) \in Seq(Nat)
         /\ sent[d] \in Nat /\ Len(got[d]) \in Nat
         /\ Len(Replay(d)) \in Nat /\ Len(queue[d]) \in Nat
<1>1. queue[d] \in Seq(Nat) /\ got[d] \in Seq(Nat) /\ sniffed \in Seq(Nat) /\ sent[d] \in Nat
  BY RelayAssumption DEF TypeInv, TypeOK
<1>2. Replay(d) \in Seq(Nat)
  BY <1>1 DEF Replay
<1> QED
  BY <1>1, <1>2, LenProperties

\* Nothing is read from or written to the stream of d, though a peer may end or
\* abort, or the copier start or come to its next byte.
Kept(d) ==
  /\ sent'[d] = sent[d] /\ queue'[d] = queue[d] /\ got'[d] = got[d] /\ eof'[d] = eof[d]
  /\ \/ copier'[d] = copier[d]
     \/ copier[d] = "off" /\ copier'[d] = "copy"
     \/ copier[d] = "copy" /\ copier'[d] = "write"
  /\ Replay(d)' = Replay(d)
  /\ fin[d] => fin'[d]
  /\ \A c \in Conns : reset[c] => reset'[c]

\* A stream of which nothing is read or written stays in order, also if a peer
\* ends or aborts meanwhile.
LEMMA StreamKept ==
  ASSUME NEW d \in Directions, TypeInv, Ordered(d), EndsInOrder(d),
         Kept(d)
  PROVE  Ordered(d)' /\ EndsInOrder(d)'
<1>1. Source(d) \in Conns /\ Sink(d) \in Conns
  BY DEF Source, Sink, Conns
<1>2. Ordered(d)'
  BY DEF Ordered, Numbered, Kept
<1>3. EndsInOrder(d)'
  BY <1>1 DEF Kept, EndsInOrder, Delivered, TypeInv, TypeOK
<1> QED
  BY <1>2, <1>3

\* One more byte is sent.
LEMMA SendInOrder ==
  ASSUME NEW d \in Directions, TypeInv, Ordered(d), EndsInOrder(d), Send(d)
  PROVE  Ordered(d)' /\ EndsInOrder(d)'
<1>1. /\ sent'[d] = sent[d] + 1 /\ queue'[d] = Append(queue[d], sent[d] + 1)
      /\ UNCHANGED <<sniffed, got, copier, eof, reset, fin>> /\ ~fin[d]
  BY DEF Send, TypeInv, TypeOK
<1>2. Numbered(got[d], 0)' /\ (Len(got[d]) <= sent[d])' /\ Replay(d)' = Replay(d)
  BY <1>1, Sizes DEF Ordered, Numbered, Replay
<1>3. ASSUME copier'[d] \in {"off", "copy", "write"}
      PROVE  /\ Numbered(Replay(d), Len(got[d]))'
             /\ Numbered(queue[d], Len(got[d]) + Len(Replay(d)))'
             /\ (Len(got[d]) + Len(Replay(d)) + Len(queue[d]) = sent[d])'
  <2> DEFINE k == Len(got[d]) + Len(Replay(d))
  <2>1. /\ k \in Nat /\ queue[d] \in Seq(Nat) /\ Len(queue[d]) \in Nat /\ sent[d] \in Nat
        /\ k' = k
    BY <1>1, <1>2, Sizes
  <2>2. Numbered(Replay(d), Len(got[d])) /\ Numbered(queue[d], k) /\ k + Len(queue[d]) = sent[d]
    BY <1>1, <1>3 DEF Ordered
  <2> HIDE DEF k
  <2>3. queue'[d] = Append(queue[d], k + Len(queue[d]) + 1)
    BY <1>1, <2>2
  <2>4. Len(queue'[d]) = Len(queue[d]) + 1 /\ Numbered(queue'[d], k)
    BY <2>1, <2>2, <2>3, NumberedAppend
  <2>5. k' + Len(queue'[d]) = sent'[d]
    BY <1>1, <2>1, <2>2, <2>4
  <2>6. Numbered(Replay(d), Len(got[d]))'
    BY <1>1, <1>2, <2>2 DEF Numbered
  <2> QED
    BY <2>1, <2>4, <2>5, <2>6 DEF k
<1>4. Ordered(d)'
  BY <1>2, <1>3 DEF Ordered
<1>5. EndsInOrder(d)'
  BY <1>1 DEF EndsInOrder, Delivered
<1> QED
  BY <1>4, <1>5

\* A byte that is lost had nowhere to go: the sink has been aborted.
LEMMA ByteLost ==
  ASSUME NEW d \in Directions, NEW b, TypeInv, Ordered(d), EndsInOrder(d),
         CopyByte(d, b), copier'[d] # "copy"
  PROVE  Ordered(d)' /\ EndsInOrder(d)'
<1>1. /\ UNCHANGED <<got, sent, reset, eof>> /\ copier'[d] = "half" /\ reset[Sink(d)]
      /\ copier[d] = "write"
  BY DEF CopyByte, peers, TypeInv, TypeOK, Ended
<1>2. Ordered(d)'
  BY <1>1 DEF Ordered, Numbered
<1> QED
  BY <1>1, <1>2 DEF EndsInOrder

\* The byte that a copier reads is the next one of the stream, so what is
\* written continues what was.
LEMMA ByteWritten ==
  ASSUME NEW d \in Directions, NEW b, TypeInv, Ordered(d), EndsInOrder(d), CopyByte(d, b),
         copier'[d] = "copy", b = Len(got[d]) + 1, Len(got[d]) + 1 <= sent[d]
  PROVE  /\ got'[d] = Append(got[d], b) /\ Len(got'[d]) = Len(got[d]) + 1
         /\ Numbered(got[d], 0)' /\ (Len(got[d]) <= sent[d])'
         /\ EndsInOrder(d)'
<1>1. /\ UNCHANGED <<sent, fin, reset, eof>> /\ got'[d] = Append(got[d], b)
      /\ copier[d] = "write"
  BY DEF CopyByte, peers, TypeInv, TypeOK
<1>2. got[d] \in Seq(Nat) /\ Len(got[d]) \in Nat /\ Numbered(got[d], 0)
  BY Sizes DEF Ordered
<1>3. got'[d] = Append(got[d], 0 + Len(got[d]) + 1)
  BY <1>1, <1>2
<1>4. Len(got'[d]) = Len(got[d]) + 1 /\ Numbered(got'[d], 0)
  BY <1>2, <1>3, NumberedAppend
<1>5. EndsInOrder(d)'
  BY <1>1 DEF EndsInOrder
<1> QED
  BY <1>1, <1>4, <1>5

\* A byte is read from what was sniffed.
LEMMA ReplayedInOrder ==
  ASSUME NEW d \in Directions, TypeInv, Ordered(d), EndsInOrder(d), CopyReplayed(d)
  PROVE  Ordered(d)' /\ EndsInOrder(d)'
<1>1. CASE copier'[d] # "copy"
  BY <1>1, ByteLost DEF CopyReplayed
<1>2. CASE copier'[d] = "copy"
  <2> DEFINE k == Len(got[d])
  <2>1. /\ CopyByte(d, Head(sniffed)) /\ UNCHANGED <<sent, queue>> /\ copier[d] = "write"
        /\ Replay(d) = sniffed /\ Replay(d)' = Tail(sniffed) /\ sniffed # <<>>
    BY DEF CopyReplayed, CopyByte, Replaying, Replay, peers
  <2>2. /\ k \in Nat /\ sniffed \in Seq(Nat) /\ Len(queue[d]) \in Nat /\ sent[d] \in Nat
        /\ Numbered(sniffed, k) /\ Numbered(queue[d], k + Len(sniffed))
        /\ k + Len(sniffed) + Len(queue[d]) = sent[d]
    BY <2>1, Sizes DEF Ordered
  <2>3. /\ Len(sniffed) \in Nat \ {0} /\ Head(sniffed) = k + 1
        /\ Len(Tail(sniffed)) = Len(sniffed) - 1 /\ Numbered(Tail(sniffed), k + 1)
    BY <2>1, <2>2, NumberedTail
  <2>4. k + 1 <= sent[d]
    <3>1. \A x, z \in Nat, y \in Nat \ {0} : x + 1 <= x + y + z
      OBVIOUS
    <3> QED
      BY <2>2, <2>3, <3>1
  <2>5. /\ Len(got'[d]) = k + 1 /\ Numbered(got[d], 0)' /\ (Len(got[d]) <= sent[d])'
        /\ EndsInOrder(d)'
    BY <1>2, <2>1, <2>3, <2>4, ByteWritten
  <2> HIDE DEF k
  <2>6. (k + 1) + (Len(sniffed) - 1) = k + Len(sniffed)
    BY <2>2, <2>3
  <2>7. /\ Numbered(Replay(d)', Len(got'[d]))
        /\ Numbered(queue'[d], Len(got'[d]) + Len(Replay(d)'))
        /\ Len(got'[d]) + Len(Replay(d)') + Len(queue'[d]) = sent'[d]
    BY <2>1, <2>2, <2>3, <2>5, <2>6
  <2> QED
    BY <2>5, <2>7 DEF Ordered
<1> QED
  BY <1>1, <1>2

\* A byte is read from the queue, once nothing is left to be replayed.
LEMMA ReceivedInOrder ==
  ASSUME NEW d \in Directions, TypeInv, Ordered(d), EndsInOrder(d), CopyReceived(d)
  PROVE  Ordered(d)' /\ EndsInOrder(d)'
<1>1. CASE copier'[d] # "copy"
  BY <1>1, ByteLost DEF CopyReceived
<1>2. CASE copier'[d] = "copy"
  <2> DEFINE k == Len(got[d])
             q == queue[d]
  <2>1. /\ CopyByte(d, Head(q)) /\ UNCHANGED sent /\ queue'[d] = Tail(q)
        /\ copier[d] = "write" /\ q # <<>>
        /\ Replay(d) = <<>> /\ Replay(d)' = <<>>
    BY DEF CopyReceived, CopyByte, Replaying, Replay, peers, TypeInv
  <2>2. /\ k \in Nat /\ q \in Seq(Nat) /\ sent[d] \in Nat /\ Len(<<>>) = 0
        /\ Numbered(<<>>, k) /\ Numbered(q, k + 0) /\ k + 0 + Len(q) = sent[d]
    BY <2>1, Sizes, EmptySeq DEF Ordered
  <2>3. k + 0 = k /\ k + 1 + 0 = k + 1
    BY <2>2
  <2>4. /\ Len(q) \in Nat \ {0} /\ Head(q) = k + 1
        /\ Len(Tail(q)) = Len(q) - 1 /\ Numbered(Tail(q), k + 1)
    BY <2>1, <2>2, <2>3, NumberedTail
  <2>5. k + 1 <= sent[d] /\ (k + 1) + (Len(q) - 1) = sent[d]
    <3>1. \A x \in Nat, y \in Nat \ {0} : x + 1 <= x + 0 + y /\ (x + 1) + (y - 1) = x + 0 + y
      OBVIOUS
    <3> QED
      BY <2>2, <2>4, <3>1
  <2>6. /\ Len(got'[d]) = k + 1 /\ Numbered(got[d], 0)' /\ (Len(got[d]) <= sent[d])'
        /\ EndsInOrder(d)'
    BY <1>2, <2>1, <2>4, <2>5, ByteWritten
  <2> HIDE DEF k, q
  <2>7. Numbered(<<>>, k + 1)
    BY <2>2 DEF Numbered
  <2>8. /\ Numbered(Replay(d)', Len(got'[d]))
        /\ Numbered(queue'[d], Len(got'[d]) + Len(Replay(d)'))
        /\ Len(got'[d]) + Len(Replay(d)') + Len(queue'[d]) = sent'[d]
    BY <2>1, <2>2, <2>3, <2>4, <2>5, <2>6, <2>7
  <2> QED
    BY <2>6, <2>8 DEF Ordered
<1> QED
  BY <1>1, <1>2

\* peekHostname moves the beginning of the queue to what is replayed.
LEMMA PeekInOrder ==
  ASSUME NEW d \in Directions, TypeInv, Ordered(d), EndsInOrder(d),
         NEW n \in 0 .. Len(queue["up"]),
         PeekReturns(n, SubSeq(queue["up"], 1, n), FALSE)
  PROVE  Ordered(d)' /\ EndsInOrder(d)'
<1>1. /\ UNCHANGED <<sent, fin, reset, copier, got, eof>>
      /\ "up" \in Directions /\ copier["up"] = "off"
      /\ queue'["up"] = SubSeq(queue["up"], n + 1, Len(queue["up"]))
      /\ d # "up" => queue'[d] = queue[d]
      /\ sniffed = <<>> /\ sniffed' = SubSeq(queue["up"], 1, n)
  BY DEF PeekReturns, peers, Directions, TypeInv, TypeOK
<1>2. CASE d # "up"
  <2>1. Kept(d)
    BY <1>1, <1>2 DEF Kept, Replay
  <2> QED
    BY <2>1, StreamKept
<1>3. CASE d = "up"
  <2> DEFINE k == Len(got[d])
             q == queue[d]
             a == Replay(d)'
             z == queue'[d]
  <2>1. Replay(d) = <<>> /\ a = SubSeq(q, 1, n) /\ z = SubSeq(q, n + 1, Len(q))
    BY <1>1, <1>3 DEF Replay
  <2>2. /\ k \in Nat /\ q \in Seq(Nat) /\ sent[d] \in Nat /\ Len(<<>>) = 0 /\ n \in 0 .. Len(q)
        /\ Numbered(q, k + 0) /\ k + 0 + Len(q) = sent[d]
    BY <1>1, <1>3, <2>1, Sizes, EmptySeq DEF Ordered
  <2>3. k + 0 = k
    BY <2>2
  <2>4. /\ Len(a) = n /\ Numbered(a, k)
        /\ Len(z) = Len(q) - n /\ Numbered(z, k + n)
    <3> HIDE DEF k, q, a, z
    <3>1. Numbered(q, k)
      BY <2>2, <2>3
    <3> QED
      BY <2>1, <2>2, <3>1, NumberedSplit
  <2>5. k + n + (Len(q) - n) = sent[d]
    <3>1. Len(q) \in Nat /\ n \in Nat
      BY <2>2, LenProperties
    <3>2. \A x, y, w \in Nat : x + w + (y - w) = x + 0 + y
      OBVIOUS
    <3> QED
      BY <2>2, <3>1, <3>2
  <2>6. Numbered(got'[d], 0) /\ Len(got'[d]) <= sent'[d] /\ Len(got'[d]) = k
    BY <1>1 DEF Ordered
  <2> HIDE DEF k, q
  <2>7. /\ Numbered(a, Len(got'[d]))
        /\ Numbered(z, Len(got'[d]) + Len(a))
        /\ Len(got'[d]) + Len(a) + Len(z) = sent'[d]
    BY <1>1, <2>4, <2>5, <2>6
  <2>8. Ordered(d)'
    BY <2>6, <2>7 DEF Ordered
  <2>9. EndsInOrder(d)'
    BY <1>1 DEF EndsInOrder, Delivered
  <2> QED
    BY <2>8, <2>9
<1> QED
  BY <1>2, <1>3

\* A copier that ends by itself has written everything, or its source is gone.
LEMMA EndInOrder ==
  ASSUME NEW d \in Directions, TypeInv, Ordered(d), EndsInOrder(d), CopyEnds(d)
  PROVE  Ordered(d)' /\ EndsInOrder(d)'
<1>1. /\ UNCHANGED <<sent, fin, reset, got, eof>>
      /\ copier[d] = "copy" /\ copier'[d] = "half" /\ Replay(d) = <<>>
  BY DEF CopyEnds, Replaying, Replay, peers, TypeInv, TypeOK
<1>2. reset[Source(d)] \/ (fin[d] /\ queue[d] = <<>>)
  BY DEF CopyEnds, Ended, TypeInv, TypeOK
<1>3. CASE fin[d] /\ queue[d] = <<>>
  <2>1. Len(<<>>) = 0 /\ Len(got[d]) \in Nat /\ Len(got[d]) + 0 + 0 = sent[d]
    BY <1>1, <1>3, EmptySeq, Sizes DEF Ordered
  <2>2. Delivered(d)
    BY <1>3, <2>1 DEF Delivered
  <2> QED
    BY <1>1, <2>2 DEF Ordered, EndsInOrder, Delivered, Numbered
<1>4. CASE reset[Source(d)]
  BY <1>1, <1>4 DEF Ordered, EndsInOrder, Numbered
<1> QED
  BY <1>2, <1>3, <1>4

\* The sink is closed behind a copier that has ended.
LEMMA CloseWriteInOrder ==
  ASSUME NEW d \in Directions, TypeInv, Ordered(d), EndsInOrder(d), CloseWrite(d)
  PROVE  Ordered(d)' /\ EndsInOrder(d)'
<1>1. /\ UNCHANGED <<sent, fin, reset, got>> /\ copier[d] = "half" /\ copier'[d] = "done"
      /\ eof'[d] = ~reset[Sink(d)]
  BY DEF CloseWrite, peers, TypeInv, TypeOK, Ended
<1>2. Ordered(d)'
  BY <1>1 DEF Ordered, Numbered
<1>3. Source(d) \in Conns /\ Sink(d) \in Conns /\ reset[Sink(d)] \in BOOLEAN
  BY DEF Source, Sink, Conns, TypeInv, TypeOK
<1>4. EndsInOrder(d)'
  BY <1>1, <1>3 DEF EndsInOrder, Delivered
<1> QED
  BY <1>2, <1>4


\* Every step preserves the invariant.
LEMMA NextInv == Inv /\ [Next]_vars => Inv'
<1> SUFFICES ASSUME Inv, [Next]_vars, NEW d \in Directions
             PROVE  Ordered(d)' /\ EndsInOrder(d)'
  BY NextTypeInv DEF Inv
<1>1. TypeInv /\ Ordered(d) /\ EndsInOrder(d)
  BY DEF Inv
<1>2. ASSUME NEW e \in Directions, Send(e), e # d PROVE Kept(d)
  BY <1>1, <1>2 DEF Send, Kept, Replay, TypeInv, TypeOK
<1>3. ASSUME NEW e \in Directions, ShutDown(e) PROVE Kept(d)
  BY <1>1, <1>3 DEF ShutDown, Kept, Replay, TypeInv, TypeOK
<1>4. ASSUME NEW e \in Directions, Abort(Source(e)) PROVE Kept(d)
  BY <1>1, <1>4 DEF Abort, Kept, Replay, TypeInv, TypeOK
<1>5. CASE Peek
  <2>1. PICK n \in 1 .. Len(queue["up"]) : PeekReturns(n, SubSeq(queue["up"], 1, n), FALSE)
    BY <1>5 DEF Peek
  <2>2. n \in 0 .. Len(queue["up"])
    OBVIOUS
  <2> QED
    BY <1>1, <2>1, <2>2, PeekInOrder
<1>6. CASE PeekNothing
  <2>1. queue["up"] \in Seq(Nat)
    BY <1>1 DEF TypeInv, Directions
  <2>2. 0 \in 0 .. Len(queue["up"]) /\ SubSeq(queue["up"], 1, 0) = <<>>
    BY <2>1, LenProperties, SubSeqProperties, EmptySeq
  <2>3. PeekReturns(0, SubSeq(queue["up"], 1, 0), FALSE)
    BY <1>6, <2>2 DEF PeekNothing
  <2> QED
    BY <1>1, <2>2, <2>3, PeekInOrder
<1>7. ASSUME Resolve PROVE Kept(d)
  BY <1>7 DEF Resolve, Kept, Replay, peers
<1>8. ASSUME Dial PROVE Kept(d)
  BY <1>1, <1>8 DEF Dial, Kept, Replay, peers, TypeInv, TypeOK
<1>9. ASSUME CloseBoth PROVE Kept(d)
  BY <1>9 DEF CloseBoth, CloseWhen, Kept, Replay, peers
<1>10. ASSUME NEW e \in Directions, Copier(e), e # d PROVE Kept(d)
  <2>1. /\ UNCHANGED <<sent, fin, reset>>
        /\ queue'[d] = queue[d] /\ got'[d] = got[d]
        /\ eof'[d] = eof[d] /\ copier'[d] = copier[d]
    BY <1>1, <1>10 DEF Copier, ReadByte, CopyReplayed, CopyReceived, CopyByte, CopyEnds, CloseWrite,
                       peers, TypeInv, TypeOK
  <2>2. Replay(d)' = Replay(d)
    BY <1>10 DEF Copier, ReadByte, CopyReplayed, CopyReceived, CopyEnds, CloseWrite, Replaying, Replay
  <2> QED
    BY <2>1, <2>2 DEF Kept
<1>11. ASSUME UNCHANGED vars PROVE Kept(d)
  BY <1>11 DEF vars, peers, Kept, Replay
<1>13. ASSUME NEW e \in Directions, ReadByte(e) PROVE Kept(d)
  BY <1>1, <1>13 DEF ReadByte, Kept, Replay, peers, TypeInv, TypeOK
<1>14. ASSUME NEW e \in Directions, Take(e) PROVE Kept(d)
  BY <1>14 DEF Take, Kept, Replay, peers
<1>15. Copier(d) \/ Send(d) \/ Kept(d) \/ (Ordered(d)' /\ EndsInOrder(d)')
  BY <1>2, <1>3, <1>4, <1>5, <1>6, <1>7, <1>8, <1>9, <1>10, <1>11, <1>14
  DEF Next, Peer, Main, Over
<1> QED
  BY <1>1, <1>13, <1>15, StreamKept, SendInOrder, ReplayedInOrder, ReceivedInOrder, EndInOrder,
     CloseWriteInOrder DEF Copier

-----------------------------------------------------------------------------
(* The theorems.                                                           *)

\* The invariant holds in every reachable state, whatever relayConn, the two
\* goroutines and the two peers do and in whichever order.
THEOREM Invariance == Spec => []Inv
  BY InitInv, NextInv, PTL DEF Spec

\* Types hold, and the goroutines run from the splice on only.
THEOREM Types == Spec => []TypeOK
<1>1. Inv => TypeOK
  BY DEF Inv, TypeInv
<1> QED
  BY <1>1, Invariance, PTL

\* The relay is transparent: at any time a peer has been given a prefix of what
\* the other one has sent, the sniffed bytes included.
THEOREM Transparent == Spec => []StreamIntact
<1>1. ASSUME Inv, NEW d \in Directions
      PROVE  got[d] = Bytes(Len(got[d])) /\ Len(got[d]) <= sent[d]
  <2>1. TypeInv /\ Ordered(d)
    BY <1>1 DEF Inv
  <2>2. got[d] \in Seq(Nat) /\ Numbered(got[d], 0) /\ Len(got[d]) <= sent[d]
    BY <2>1, Sizes DEF Ordered
  <2> QED
    BY <2>2, NumberedFromZero
<1>2. Inv => StreamIntact
  BY <1>1 DEF StreamIntact
<1> QED
  BY <1>2, Invariance, PTL

\* A stream of which everything has been delivered is complete at its sink.
LEMMA DeliveredIsComplete ==
  ASSUME Inv, NEW d \in Directions, Delivered(d)
  PROVE  fin[d] /\ got[d] = Bytes(sent[d])
<1>1. TypeInv /\ Ordered(d)
  BY DEF Inv
<1>2. got[d] \in Seq(Nat) /\ Numbered(got[d], 0)
  BY <1>1, Sizes DEF Ordered
<1>3. got[d] = Bytes(Len(got[d]))
  BY <1>2, NumberedFromZero
<1> QED
  BY <1>3 DEF Delivered

\* Unless the source aborts, its sink is sent FIN only behind all of its bytes.
THEOREM FinComesLast == Spec => []FinMeansFinished
<1>1. ASSUME Inv, NEW d \in Directions, eof[d], ~reset[Source(d)]
      PROVE  fin[d] /\ got[d] = Bytes(sent[d])
  <2>1. Delivered(d)
    BY <1>1 DEF Inv, EndsInOrder
  <2> QED
    BY <1>1, <2>1, DeliveredIsComplete
<1>2. Inv => FinMeansFinished
  BY <1>1 DEF FinMeansFinished
<1> QED
  BY <1>2, Invariance, PTL

\* Unless a peer aborts, relayConn closes the connections only after both
\* streams have been relayed to their ends.
THEOREM ClosesLast == Spec => []ClosedWhenComplete
<1>1. ASSUME Inv, pc = "closed", \A c \in Conns : ~reset[c], NEW d \in Directions
      PROVE  fin[d] /\ eof[d] /\ got[d] = Bytes(sent[d])
  <2>1. copier[d] = "done" /\ EndsInOrder(d)
    BY <1>1 DEF Inv, TypeInv
  <2>2. Source(d) \in Conns /\ Sink(d) \in Conns
    BY DEF Source, Sink, Conns
  <2>3. eof[d] /\ Delivered(d)
    BY <1>1, <2>1, <2>2 DEF EndsInOrder
  <2> QED
    BY <1>1, <2>3, DeliveredIsComplete
<1>2. Inv => ClosedWhenComplete
  BY <1>1 DEF ClosedWhenComplete
<1> QED
  BY <1>2, Invariance, PTL

-----------------------------------------------------------------------------
(* The relay implements two byte streams.                                  *)

\* Before the splice nothing has been written and no sink closed.
Untouched == \A d \in Directions : copier[d] = "off" => got[d] = <<>> /\ ~eof[d]

\* Only copiers write.
LEMMA NextUntouched == Inv /\ Untouched /\ [Next]_vars => Untouched'
<1> SUFFICES ASSUME Inv, Untouched, [Next]_vars, NEW d \in Directions, copier'[d] = "off"
             PROVE  got'[d] = <<>> /\ ~eof'[d]
  BY DEF Untouched
<1>1. TypeInv
  BY DEF Inv
<1>2. copier[d] = "off" /\ got'[d] = got[d] /\ eof'[d] = eof[d]
  BY <1>1 DEF Next, Peer, Main, Copier, Over, Send, ShutDown, Abort, Peek, PeekNothing, PeekReturns,
     Resolve, Dial, CloseBoth, CloseWhen, Take, ReadByte, CopyReplayed, CopyReceived, CopyByte,
     CopyEnds, CloseWrite, TypeInv, TypeOK, vars, peers
<1> QED
  BY <1>2 DEF Untouched

\* A connection that begins is one of two empty streams.
LEMMA InitRefines == Init => S!Init
  BY DEF Init, S!Init, S!Streams, S!Peers, Directions, Conns

\* The byte that is copied is the next one of its stream, or the sink is gone.
LEMMA CopyRefines ==
  ASSUME TypeInv, NEW d \in Directions, Ordered(d), EndsInOrder(d),
         NEW b, CopyByte(d, b), b = Len(got[d]) + 1, Len(got[d]) < sent[d]
  PROVE  [S!Next]_(S!vars)
<1>1. CASE reset[Sink(d)] \/ Ended
  BY <1>1 DEF CopyByte, S!vars, peers
<1>2. CASE ~(reset[Sink(d)] \/ Ended)
  <2>1. ~eof[d] /\ pc \notin {"closed", "dropped"}
    BY <1>2 DEF EndsInOrder, CopyByte, Ended
  <2>2. S!Deliver(d)
    BY <1>2, <2>1 DEF CopyByte, S!Deliver, S!Alive, S!Receiver, Sink, peers
  <2> QED
    BY <2>2 DEF S!Next, S!Streams, Directions
<1> QED
  BY <1>1, <1>2

\* Every step of the relay is one of the streams, or invisible to the peers.
LEMMA NextRefines == Inv /\ Untouched /\ [Next]_vars => [S!Next]_(S!vars)
<1> SUFFICES ASSUME Inv, Untouched, [Next]_vars PROVE [S!Next]_(S!vars)
  OBVIOUS
<1>1. TypeInv /\ \A d \in Directions : Ordered(d) /\ EndsInOrder(d)
  BY DEF Inv
<1>2. S!Streams = Directions /\ S!Peers = Conns
      /\ \A d \in Directions : S!Sender(d) = Source(d) /\ S!Receiver(d) = Sink(d)
  BY DEF S!Streams, S!Peers, S!Sender, S!Receiver, Directions, Conns, Source, Sink
<1>3. ASSUME NEW d \in Directions, Send(d) \/ ShutDown(d) \/ Abort(Source(d)) PROVE S!Next
  <2>1. Source(d) \in Conns /\ S!Alive(S!Sender(d)) /\ S!Alive(Source(d))
    BY <1>2, <1>3 DEF Send, ShutDown, Abort, Connected, Ended, S!Alive, Source, Conns
  <2>2. S!Send(d) \/ S!ShutDown(d) \/ S!Abort(Source(d))
    BY <1>3, <2>1 DEF Send, ShutDown, Abort, S!Send, S!ShutDown, S!Abort
  <2> QED
    BY <1>2, <2>1, <2>2 DEF S!Next
<1>4. ASSUME pc \notin {"splice", "closed", "dropped"}, pc' = "dropped",
             UNCHANGED <<peers, got, eof>>
      PROVE  S!Next
  <2>1. \A d \in Directions : copier[d] = "off"
    BY <1>1, <1>4 DEF TypeInv, TypeOK
  <2>2. S!Refuse
    BY <1>2, <1>4, <2>1 DEF Untouched, S!Refuse, peers
  <2> QED
    BY <2>2 DEF S!Next
<1>5. ASSUME pc \notin {"closed", "dropped"}, pc' \notin {"closed", "dropped"},
             UNCHANGED <<peers, got, eof>>
      PROVE  UNCHANGED S!vars
  BY <1>5 DEF S!vars, peers
<1>6. CASE Peek \/ PeekNothing \/ Resolve \/ Dial
  <2>1. /\ pc \in {"peek", "resolve", "dial"} /\ pc' \in {"resolve", "dial", "splice", "dropped"}
        /\ UNCHANGED <<peers, got, eof>>
    BY <1>6 DEF Peek, PeekNothing, PeekReturns, Resolve, Dial
  <2> QED
    BY <1>4, <1>5, <2>1
<1>7. CASE CloseBoth
  <2>1. \A d \in Directions : eof[d] \/ reset[Sink(d)]
    BY <1>1, <1>7 DEF CloseBoth, CloseWhen, EndsInOrder
  <2>2. S!Close
    BY <1>2, <1>7, <2>1 DEF CloseBoth, CloseWhen, S!Close, peers
  <2> QED
    BY <2>2 DEF S!Next
<1>8. ASSUME NEW d \in Directions, CopyReplayed(d) PROVE [S!Next]_(S!vars)
  <2>1. sniffed \in Seq(Nat) /\ sniffed # <<>> /\ d = "up" /\ CopyByte(d, Head(sniffed))
        /\ copier[d] = "write"
    BY <1>1, <1>8 DEF TypeInv, CopyReplayed, Replaying, CopyByte
  <2>2. Numbered(sniffed, Len(got[d])) /\ Len(got[d]) + Len(sniffed) + Len(queue[d]) = sent[d]
    BY <1>1, <2>1 DEF Ordered, Replay
  <2>3. Len(sniffed) \in Nat \ {0} /\ Head(sniffed) = sniffed[1]
    BY <2>1
  <2>4. Len(got[d]) \in Nat /\ Len(queue[d]) \in Nat /\ sent[d] \in Nat
        /\ \A x, z \in Nat, y \in Nat \ {0} : x < x + y + z
    BY <1>1, Sizes
  <2>5. Head(sniffed) = Len(got[d]) + 1
    BY <2>2, <2>3 DEF Numbered
  <2>6. Len(got[d]) < sent[d]
    BY <2>2, <2>3, <2>4
  <2> QED
    BY <1>1, <2>1, <2>5, <2>6, CopyRefines
<1>9. ASSUME NEW d \in Directions, CopyReceived(d) PROVE [S!Next]_(S!vars)
  <2>1. queue[d] \in Seq(Nat) /\ queue[d] # <<>> /\ CopyByte(d, Head(queue[d]))
        /\ copier[d] = "write" /\ Replay(d) = <<>>
    BY <1>1, <1>9 DEF TypeInv, CopyReceived, Replaying, CopyByte, Replay
  <2>2. Len(got[d]) \in Nat /\ Len(<<>>) = 0 /\ \A x \in Nat, y \in Nat \ {0} : x < x + 0 + y
    BY <1>1, Sizes, EmptySeq
  <2>3. Numbered(queue[d], Len(got[d]) + 0) /\ Len(got[d]) + 0 + Len(queue[d]) = sent[d]
    BY <1>1, <2>1, <2>2 DEF Ordered
  <2>4. Len(queue[d]) \in Nat \ {0} /\ Head(queue[d]) = queue[d][1]
    BY <2>1
  <2>5. Head(queue[d]) = Len(got[d]) + 1
    BY <2>2, <2>3, <2>4 DEF Numbered
  <2>6. Len(got[d]) < sent[d]
    BY <2>2, <2>3, <2>4
  <2> QED
    BY <1>1, <2>1, <2>5, <2>6, CopyRefines
<1>10. ASSUME NEW d \in Directions, CopyEnds(d) PROVE UNCHANGED S!vars
  BY <1>10 DEF CopyEnds, S!vars, peers
<1>11. ASSUME NEW d \in Directions, CloseWrite(d) PROVE [S!Next]_(S!vars)
  <2>1. copier[d] = "half" /\ eof' = [eof EXCEPT ![d] = ~Ended /\ ~reset[Sink(d)]]
        /\ UNCHANGED <<pc, peers, got>>
    BY <1>11 DEF CloseWrite
  <2>2. ~eof[d] /\ eof \in [Directions -> BOOLEAN] /\ pc \notin {"closed", "dropped"}
    BY <1>1, <2>1 DEF EndsInOrder, TypeInv, TypeOK
  <2>3. CASE reset[Sink(d)]
    <3>1. eof' = eof
      BY <2>1, <2>2, <2>3
    <3> QED
      BY <2>1, <3>1 DEF S!vars, peers
  <2>4. CASE ~reset[Sink(d)]
    <3>1. reset[Source(d)] \/ (fin[d] /\ Len(got[d]) = sent[d])
      BY <1>1, <2>1, <2>4 DEF EndsInOrder, Delivered
    <3>2. eof' = [eof EXCEPT ![d] = TRUE]
      BY <2>1, <2>2, <2>4 DEF Ended
    <3>3. S!End(d)
      BY <1>2, <2>1, <2>2, <2>4, <3>1, <3>2 DEF S!End, S!Alive, peers
    <3> QED
      BY <1>2, <3>3 DEF S!Next
  <2> QED
    BY <2>3, <2>4
<1>12. CASE UNCHANGED vars
  BY <1>12 DEF vars, peers, S!vars
<1>13. ASSUME NEW d \in Directions, ReadByte(d) \/ Take(d) PROVE UNCHANGED S!vars
  BY <1>13 DEF ReadByte, Take, S!vars, peers
<1> QED
  BY <1>3, <1>6, <1>7, <1>8, <1>9, <1>10, <1>11, <1>12, <1>13
  DEF Next, Peer, Main, Copier, Over

\* Sniffing, replaying, two goroutines and half-closes are invisible to the two
\* peers: what is between them behaves like two byte streams.
THEOREM RelayImplementsStreams == Spec => RefinesStreams
<1>1. Init => Untouched
  BY DEF Init, Untouched
<1>2. Spec => []Untouched
  BY <1>1, NextUntouched, Invariance, PTL DEF Spec
<1> QED
  BY <1>2, InitRefines, NextRefines, Invariance, PTL DEF Spec, S!Spec, RefinesStreams
=============================================================================
