--------------------------- MODULE ScpQueueProofs ---------------------------
(***************************************************************************)
(* Proofs about ScpQueue, for any set of pushing threads, any bounds and   *)
(* any trigger batch.                                                      *)
(***************************************************************************)
EXTENDS ScpQueue, TLAPS

(***************************************************************************)
(* Sequences                                                               *)
(***************************************************************************)

\* What Tail and Head do to a sequence that is not empty.
LEMMA TailFacts ==
  ASSUME NEW S, NEW s \in Seq(S), s # <<>>
  PROVE  /\ Tail(s) \in Seq(S)
         /\ Len(s) \in Nat /\ Len(s) >= 1
         /\ Len(Tail(s)) = Len(s) - 1
         /\ Head(s) \in S
         /\ Head(s) = s[1]
         /\ \A k \in 1 .. Len(s) - 1 : Tail(s)[k] = s[k + 1]
  OBVIOUS

\* What Append does to a sequence.
LEMMA AppendFacts ==
  ASSUME NEW S, NEW s \in Seq(S), NEW e \in S
  PROVE  /\ Append(s, e) \in Seq(S)
         /\ Append(s, e) # <<>>
         /\ Len(s) \in Nat
         /\ Len(Append(s, e)) = Len(s) + 1
         /\ Append(s, e)[Len(s) + 1] = e
         /\ \A k \in 1 .. Len(s) : Append(s, e)[k] = s[k]
  OBVIOUS

\* The empty sequence is the one of length zero.
LEMMA EmptyFacts ==
  ASSUME NEW S
  PROVE  /\ <<>> \in Seq(S) /\ Len(<<>>) = 0
         /\ \A s \in Seq(S) : Len(s) \in Nat /\ (s = <<>> <=> Len(s) = 0)
  OBVIOUS

(***************************************************************************)
(* Types and the count, whatever the instrument's speed                    *)
(***************************************************************************)

Counted == TypeOK /\ CountMatches

\* Everything starts well typed, with an empty list and a count of zero.
LEMMA InitCounted == Init => Counted
<1> SUFFICES ASSUME Init PROVE Counted
  OBVIOUS
<1>1. <<>> \in Seq(Command) /\ <<>> \in Seq(BOOLEAN) /\ <<>> \in Seq(Nat)
      /\ <<>> \in Seq(Packet) /\ Len(<<>>) = 0
  BY EmptyFacts
<1>2. [kind |-> "part", id |-> 0] \in Packet
  BY DEF Packet
<1>3. TypeOK
  BY <1>1, <1>2 DEF Init, TypeOK, WriterPlaces, ReaderPlaces
<1>4. CountMatches
  BY <1>1 DEF Init, CountMatches
<1> QED
  BY <1>3, <1>4 DEF Counted

\* One step keeps the types and the count.  The only delicate actions are the
\* two halves of a push and the pops: a pop happens with the mutex free, when
\* the count is the length of a list that is not empty.
LEMMA CountedStep == Counted /\ [Next]_vars => Counted'
<1> SUFFICES ASSUME Counted, [Next]_vars PROVE Counted'
  OBVIOUS
<1> USE DEF Counted, queueVars, writerVars, readerVars, scopeVars, killVars
<1>t. TypeOK /\ CountMatches
  OBVIOUS
<1>q. /\ Len(queue) \in Nat
      /\ queue # <<>> => Len(queue) >= 1 /\ Head(queue) \in Command /\ Tail(queue) \in Seq(Command)
                         /\ Len(Tail(queue)) = Len(queue) - 1
      /\ <<>> \in Seq(Command) /\ Len(<<>>) = 0
  BY <1>t, TailFacts, EmptyFacts DEF TypeOK
<1>f. First \in Command \cup {NoCmd}
  BY <1>q DEF First
<1>e. ASSUME NEW t \in Pushers \cup {Reader}, NEW h \in BOOLEAN, Enqueue(t, h)
      PROVE  /\ CountMatches' /\ queue' \in Seq(Command) /\ pushed' \in Nat /\ cmdc' \in Nat
             /\ mutex' \in Pushers \cup {Reader, None}
  <2>1. [id |-> pushed + 1, hdlr |-> h] \in Command
    BY <1>t DEF TypeOK, Command
  <2>2. queue' \in Seq(Command) /\ Len(queue') = Len(queue) + 1
    BY <1>t, <1>e, <2>1, AppendFacts DEF TypeOK, Enqueue
  <2>3. t # None
    BY ThreadsAssumption
  <2> QED
    BY <1>t, <1>e, <1>q, <2>2, <2>3 DEF TypeOK, CountMatches, Enqueue
<1>p. ASSUME Pop, queue # <<>>
      PROVE  /\ CountMatches' /\ queue' \in Seq(Command) /\ pushed' \in Nat /\ cmdc' \in Nat
             /\ mutex' \in Pushers \cup {Reader, None}
  BY <1>t, <1>q, <1>p DEF TypeOK, CountMatches, Pop
<1>1. ASSUME NEW t \in Pushers, NEW h \in BOOLEAN, PushStart(t, h) PROVE Counted'
  <2>1. Enqueue(t, h)
    BY <1>1 DEF PushStart
  <2> QED
    BY <1>t, <1>1, <1>e, <2>1 DEF TypeOK, PushStart
<1>2. ASSUME NEW t \in Pushers \cup {Reader}, PushFinish(t) PROVE Counted'
  <2>1. TypeOK'
    BY <1>t, <1>2 DEF TypeOK, PushFinish, SignalWriter, WriterPlaces
  <2>2. CountMatches'
    BY <1>t, <1>2, <1>q, ThreadsAssumption DEF TypeOK, CountMatches, PushFinish
  <2> QED
    BY <2>1, <2>2
<1>3. CASE WTop
  BY <1>t, <1>3 DEF TypeOK, CountMatches, WTop, WriterPlaces
<1>4. CASE WLock
  BY <1>t, <1>4 DEF TypeOK, CountMatches, WLock, WriterPlaces
<1>5. CASE WTest
  BY <1>t, <1>5 DEF TypeOK, CountMatches, WTest, WriterPlaces
<1>6. CASE WSpurious
  BY <1>t, <1>6 DEF TypeOK, CountMatches, WSpurious, WriterPlaces
<1>7. CASE WGet
  BY <1>t, <1>7, <1>f DEF TypeOK, CountMatches, WGet, WriterPlaces
<1>8. CASE WSend
  <2>1. CountMatches'
    BY <1>t, <1>8 DEF CountMatches, WSend
  <2>2. CASE wcmd = NoCmd
    BY <1>t, <1>8, <2>1, <2>2 DEF TypeOK, WSend
  <2>3. CASE wcmd # NoCmd
    <3>1. wcmd \in Command /\ wcmd.id \in Nat
      BY <1>t, <2>3 DEF TypeOK, Command
    <3>2. asked' \in Seq(Nat)
      <4>1. asked \in Seq(Nat) /\ Append(asked, wcmd.id) \in Seq(Nat)
        BY <1>t, <3>1, AppendFacts DEF TypeOK
      <4>2. asked' = asked \/ asked' = Append(asked, wcmd.id)
        BY <1>8, <2>3 DEF WSend
      <4> QED
        BY <4>1, <4>2
    <3>3. wpc' \in WriterPlaces /\ lastSent' \in Nat /\ phase' = phase
      BY <1>8, <2>3, <3>1 DEF WSend, WriterPlaces
    <3> QED
      BY <1>t, <1>8, <2>1, <3>2, <3>3 DEF TypeOK, WSend
  <2> QED
    BY <2>2, <2>3
<1>9. CASE WBranch
  BY <1>t, <1>9 DEF TypeOK, CountMatches, WBranch, WriterPlaces
<1>10. CASE WPop
  <2>1. CASE queue = <<>>
    BY <1>t, <1>10, <2>1 DEF TypeOK, CountMatches, WPop
  <2>2. CASE queue # <<>>
    BY <1>t, <1>10, <1>p, <2>2 DEF TypeOK, WPop, WriterPlaces
  <2> QED
    BY <2>1, <2>2
<1>11. CASE WDigest
  BY <1>t, <1>11 DEF TypeOK, CountMatches, WDigest, WriterPlaces
<1>12. CASE RTop
  BY <1>t, <1>12 DEF TypeOK, CountMatches, RTop, ReaderPlaces
<1>13. CASE RRead
  <2>1. pkt' \in Packet /\ outbox' \in Seq(Packet)
    BY <1>t, <1>13, TailFacts DEF TypeOK, RRead
  <2>2. trgleft' \in Seq(BOOLEAN)
    BY <1>t, <1>13, BoundsAssumption, EmptyFacts DEF TypeOK, RRead
  <2> QED
    BY <1>t, <1>13, <2>1, <2>2 DEF TypeOK, CountMatches, RRead, ReaderPlaces
<1>14. CASE RTrgPush
  <2>1. trgleft' \in Seq(BOOLEAN) /\ Head(trgleft) \in BOOLEAN
    BY <1>t, <1>14, TailFacts DEF TypeOK, RTrgPush
  <2>2. Enqueue(Reader, Head(trgleft))
    BY <1>14 DEF RTrgPush
  <2> QED
    BY <1>t, <1>14, <1>e, <2>1, <2>2 DEF TypeOK, RTrgPush
<1>15. CASE RTrgDone
  BY <1>t, <1>15 DEF TypeOK, CountMatches, RTrgDone, ReaderPlaces
<1>16. CASE RGet
  BY <1>t, <1>16, <1>f DEF TypeOK, CountMatches, RGet, ReaderPlaces
<1>17. CASE RHandle
  <2>1. rcmd.id \in Nat
    BY <1>t DEF TypeOK, Command, NoCmd
  <2> QED
    BY <1>t, <1>17, <2>1 DEF TypeOK, CountMatches, RHandle, ReaderPlaces
<1>18. CASE RPop
  <2>1. CASE queue = <<>>
    BY <1>t, <1>18, <2>1 DEF TypeOK, CountMatches, RPop
  <2>2. CASE queue # <<>>
    BY <1>t, <1>18, <1>p, <2>2 DEF TypeOK, RPop, ReaderPlaces
  <2> QED
    BY <2>1, <2>2
<1>19. CASE RDigested
  BY <1>t, <1>19 DEF TypeOK, CountMatches, RDigested, SignalWriter, ReaderPlaces, WriterPlaces
<1>20. CASE ScopePart
  <2>1. Head(asked) \in Nat
    BY <1>t, <1>20, TailFacts DEF TypeOK, ScopePart
  <2>2. [kind |-> "part", id |-> Head(asked)] \in Packet
    BY <2>1 DEF Packet
  <2>3. outbox' \in Seq(Packet)
    BY <1>t, <1>20, <2>2, AppendFacts DEF TypeOK, ScopePart
  <2> QED
    BY <1>t, <1>20, <2>3 DEF TypeOK, CountMatches, ScopePart
<1>21. CASE ScopeLast
  <2>1. Head(asked) \in Nat /\ asked' \in Seq(Nat)
    BY <1>t, <1>21, TailFacts DEF TypeOK, ScopeLast
  <2>2. [kind |-> "last", id |-> Head(asked)] \in Packet
    BY <2>1 DEF Packet
  <2>3. outbox' \in Seq(Packet)
    BY <1>t, <1>21, <2>2, AppendFacts DEF TypeOK, ScopeLast
  <2> QED
    BY <1>t, <1>21, <2>1, <2>3 DEF TypeOK, CountMatches, ScopeLast
<1>22. CASE ScopeTrig
  <2>1. [kind |-> "trig", id |-> 0] \in Packet
    BY DEF Packet
  <2>2. outbox' \in Seq(Packet)
    BY <1>t, <1>22, <2>1, AppendFacts DEF TypeOK, ScopeTrig
  <2> QED
    BY <1>t, <1>22, <2>2 DEF TypeOK, CountMatches, ScopeTrig
<1>23. CASE DestroyReadKill
  BY <1>t, <1>23 DEF TypeOK, CountMatches, DestroyReadKill
<1>24. CASE DestroyWriteKill
  BY <1>t, <1>24 DEF TypeOK, CountMatches, DestroyWriteKill
<1>25. CASE DestroyFree
  BY <1>t, <1>25 DEF TypeOK, CountMatches, DestroyFree
<1>26. CASE UNCHANGED vars
  BY <1>t, <1>26 DEF TypeOK, CountMatches, vars
<1> QED
  BY <1>1, <1>2, <1>3, <1>4, <1>5, <1>6, <1>7, <1>8, <1>9, <1>10, <1>11, <1>12, <1>13,
     <1>14, <1>15, <1>16, <1>17, <1>18, <1>19, <1>20, <1>21, <1>22, <1>23, <1>24, <1>25,
     <1>26 DEF Next, WriterStep, ReaderStep

\* Every variable keeps its type, and cmdc its meaning, at any speed of the
\* instrument.
THEOREM TypeCorrect == Spec => []TypeOK
<1>1. Init => Counted
  BY InitCounted
<1>2. Counted /\ [Next]_vars => Counted'
  BY CountedStep
<1>3. Counted => TypeOK
  BY DEF Counted
<1> QED
  BY <1>1, <1>2, <1>3, PTL DEF Spec

\* scp_cmd_push and scp_cmd_pop keep cmdc equal to the length of the list.
THEOREM CountCorrect == Spec => []CountMatches
<1>1. Init => Counted
  BY InitCounted
<1>2. Counted /\ [Next]_vars => Counted'
  BY CountedStep
<1>3. Counted => CountMatches
  BY DEF Counted
<1> QED
  BY <1>1, <1>2, <1>3, PTL DEF Spec

(***************************************************************************)
(* Pacing, when the last packet of an answer never overtakes scp_write     *)
(***************************************************************************)

\* Nothing is sent, asked or answered at the start.
LEMMA InitPacing == Init => Pacing
<1> SUFFICES ASSUME Init PROVE Pacing
  OBVIOUS
<1>1. Len(<<>>) = 0
  BY EmptyFacts
<1>2. ~AnswerUnderWay
  BY <1>1 DEF Init, AnswerUnderWay
<1>3. Consecutive /\ SentPrefix
  BY <1>1, <1>2 DEF Init, Consecutive, SentPrefix, HeadSent
<1>4. OneAnswer
  BY <1>1, <1>2 DEF Init, OneAnswer
<1>5. WriterKnows /\ ReaderKnows
  BY <1>1, <1>2 DEF Init, WriterKnows, ReaderKnows
<1> QED
  BY <1>3, <1>4, <1>5 DEF Pacing

\* What Pacing says of a list whose head has been sent, and of one whose head
\* has not.
LEMMA HeadFacts ==
  ASSUME Counted, Pacing
  PROVE  /\ Len(queue) \in Nat
         /\ queue # <<>> <=> Len(queue) >= 1
         /\ queue # <<>> =>
              /\ Head(queue) \in Command
              /\ Head(queue) = queue[1]
              /\ Head(queue).id = pushed - Len(queue) + 1
              /\ Head(queue).id # 0
         /\ HeadSent => queue # <<>> /\ Head(queue).id = lastSent
         /\ queue # <<>> /\ ~HeadSent => Head(queue).id = lastSent + 1
<1>1. queue \in Seq(Command) /\ pushed \in Nat /\ lastSent \in Nat
  BY DEF Counted, TypeOK
<1>2. /\ Len(queue) \in Nat
      /\ queue # <<>> <=> Len(queue) >= 1
  BY <1>1, EmptyFacts
<1>3. ASSUME queue # <<>>
      PROVE  Head(queue) \in Command /\ Head(queue) = queue[1] /\ Head(queue).id # 0
  <2>1. Head(queue) \in Command /\ Head(queue) = queue[1]
    BY <1>1, <1>3, TailFacts
  <2> QED
    BY <2>1 DEF Command
<1>4. queue # <<>> => Head(queue).id = pushed - Len(queue) + 1
  BY <1>1, <1>2, <1>3 DEF Pacing, Consecutive
<1> QED
  BY <1>1, <1>2, <1>3, <1>4 DEF Pacing, SentPrefix

\* A push touches the tail of the list only.
LEMMA EnqueuePacing ==
  ASSUME Counted, Pacing, NEW t, NEW h \in BOOLEAN, Enqueue(t, h),
         UNCHANGED <<asked, outbox, rpc, pkt, rcmd, wpc, wcmd, lastSent, digested, phase>>
  PROVE  Pacing'
<1>1. [id |-> pushed + 1, hdlr |-> h] \in Command
  BY DEF Counted, TypeOK, Command
<1>2. /\ queue \in Seq(Command)
      /\ queue' = Append(queue, [id |-> pushed + 1, hdlr |-> h])
      /\ pushed \in Nat /\ pushed' = pushed + 1 /\ lastSent \in Nat
      /\ cmdc' = cmdc
  BY DEF Counted, TypeOK, Enqueue
<1>3. /\ queue' \in Seq(Command)
      /\ queue' # <<>>
      /\ Len(queue) \in Nat
      /\ Len(queue') = Len(queue) + 1
      /\ queue'[Len(queue) + 1].id = pushed + 1
      /\ \A k \in 1 .. Len(queue) : queue'[k] = queue[k]
  BY <1>1, <1>2, AppendFacts
<1>4. queue # <<>> => Head(queue') = Head(queue)
  BY <1>2, <1>3, HeadFacts, TailFacts
<1>5. AnswerUnderWay' = AnswerUnderWay /\ HeadSent' = HeadSent /\ ReadyToSend' = ReadyToSend
  BY <1>2 DEF AnswerUnderWay, HeadSent, ReadyToSend
<1>6. Consecutive'
  BY <1>2, <1>3 DEF Pacing, Consecutive
<1>7. SentPrefix'
  <2>1. /\ Len(queue) \in Nat /\ Len(queue') = Len(queue) + 1 /\ pushed \in Nat
        /\ pushed' = pushed + 1 /\ lastSent \in Nat /\ lastSent' = lastSent
    BY <1>2, <1>3
  <2>2. CASE HeadSent
    <3>1. lastSent + Len(queue) = pushed + 1
      BY <2>2 DEF Pacing, SentPrefix
    <3>2. lastSent' + Len(queue') = pushed' + 1
      BY <2>1, <3>1
    <3> QED
      BY <1>3, <1>5, <2>2, <3>2 DEF SentPrefix
  <2>3. CASE ~HeadSent
    <3>1. lastSent + Len(queue) = pushed
      BY <2>3 DEF Pacing, SentPrefix
    <3>2. lastSent' + Len(queue') = pushed'
      BY <2>1, <3>1
    <3> QED
      BY <1>5, <2>3, <3>2 DEF SentPrefix
  <2> QED
    BY <2>2, <2>3
<1>8. AnswerUnderWay => queue # <<>>
  BY HeadFacts DEF HeadSent
<1>9. OneAnswer'
  BY <1>4, <1>5, <1>8 DEF Pacing, OneAnswer
<1>10. wpc \in {"get", "send", "sent", "digest", "pop"} => queue # <<>>
  BY HeadFacts DEF HeadSent, Pacing, WriterKnows
<1>11. WriterKnows'
  BY <1>3, <1>4, <1>5, <1>10 DEF Pacing, WriterKnows
<1>12. ReaderKnows'
  BY <1>4, <1>5, <1>8 DEF Pacing, ReaderKnows, AnswerUnderWay
<1> QED
  BY <1>6, <1>7, <1>9, <1>11, <1>12 DEF Pacing

\* A pop takes exactly the head away.
LEMMA PopFacts ==
  ASSUME Counted, Pacing, Pop, queue # <<>>
  PROVE  /\ Len(queue') = Len(queue) - 1
         /\ pushed' = pushed
         /\ Consecutive'
<1>1. /\ queue \in Seq(Command) /\ cmdc \in Nat /\ pushed \in Nat /\ pushed' = pushed
      /\ cmdc = Len(queue) /\ cmdc' = cmdc - 1
      /\ queue' = IF cmdc' > 0 THEN Tail(queue) ELSE <<>>
  BY DEF Counted, TypeOK, CountMatches, Pop
<1>2. /\ Len(queue) \in Nat /\ Len(queue) >= 1
      /\ Len(Tail(queue)) = Len(queue) - 1
      /\ \A k \in 1 .. Len(queue) - 1 : Tail(queue)[k] = queue[k + 1]
      /\ Len(<<>>) = 0
  BY <1>1, TailFacts, EmptyFacts
<1>3. /\ Len(queue') = Len(queue) - 1
      /\ \A k \in 1 .. Len(queue) - 1 : queue'[k] = queue[k + 1]
  BY <1>1, <1>2
<1>4. Consecutive'
  <2>1. Len(queue') <= pushed'
    BY <1>1, <1>2, <1>3 DEF Pacing, Consecutive
  <2>2. ASSUME NEW k \in 1 .. Len(queue')
        PROVE  queue'[k].id = pushed' - Len(queue') + k
    <3>0. k \in 1 .. Len(queue) - 1
      BY <1>3
    <3>1. k + 1 \in 1 .. Len(queue) /\ queue'[k] = queue[k + 1]
      BY <1>2, <1>3, <3>0
    <3>2. queue[k + 1].id = pushed - Len(queue) + (k + 1)
      BY <3>1 DEF Pacing, Consecutive
    <3>3. /\ pushed \in Nat /\ pushed' = pushed /\ Len(queue) \in Nat
          /\ Len(queue') = Len(queue) - 1 /\ k \in Nat
      BY <1>1, <1>2, <1>3, <3>0
    <3> QED
      BY <3>1, <3>2, <3>3
  <2> QED
    BY <2>1, <2>2 DEF Consecutive
<1> QED
  BY <1>1, <1>3, <1>4

\* Taking the packet off the wire moves it from outbox to pkt.
LEMMA ReadPacing ==
  ASSUME Counted, Pacing, RRead
  PROVE  Pacing'
<1> USE DEF queueVars, writerVars, readerVars, scopeVars, killVars
<1>1. /\ outbox \in Seq(Packet) /\ outbox # <<>> /\ lastSent \in Nat
      /\ outbox' = Tail(outbox) /\ pkt' = Head(outbox)
      /\ rpc = "read" /\ rpc' = IF pkt'.kind = "trig" THEN "trg" ELSE "get"
      /\ UNCHANGED <<queue, cmdc, pushed, digested, wpc, wcmd, lastSent, rcmd, asked, phase>>
  BY DEF Counted, TypeOK, RRead
<1>2. /\ Len(outbox) \in Nat /\ Len(outbox) >= 1
      /\ Len(outbox') = Len(outbox) - 1
      /\ outbox[1] = pkt'
      /\ \A k \in 1 .. Len(outbox') : outbox'[k] = outbox[k + 1]
      /\ \A k \in 2 .. Len(outbox) : outbox'[k - 1] = outbox[k]
  BY <1>1, TailFacts
<1>3. pkt'.kind \in {"part", "last", "trig"}
  <2>1. pkt' \in Packet
    BY <1>1, TailFacts
  <2> QED
    BY <2>1 DEF Packet
<1>4. OneAnswer
  BY DEF Pacing
<1>5. AnswerUnderWay' = AnswerUnderWay
  <2>1. AnswerUnderWay' => AnswerUnderWay
    BY <1>1, <1>2 DEF AnswerUnderWay
  <2>2. ASSUME AnswerUnderWay PROVE AnswerUnderWay'
    <3>1. CASE asked # <<>>
      BY <1>1, <3>1 DEF AnswerUnderWay
    <3>2. CASE pkt'.kind # "trig"
      BY <1>1, <3>2 DEF AnswerUnderWay
    <3>3. CASE asked = <<>> /\ pkt'.kind = "trig"
      <4>1. PICK k \in 1 .. Len(outbox) : outbox[k].kind # "trig"
        BY <1>1, <2>2, <3>3 DEF AnswerUnderWay
      <4>2. k - 1 \in 1 .. Len(outbox') /\ outbox'[k - 1].kind # "trig"
        BY <1>2, <3>3, <4>1
      <4> QED
        BY <4>2 DEF AnswerUnderWay
    <3> QED
      BY <3>1, <3>2, <3>3
  <2> QED
    BY <2>1, <2>2 DEF AnswerUnderWay
<1>6. HeadSent' = HeadSent /\ ReadyToSend' = ReadyToSend
  BY <1>1, <1>5 DEF HeadSent, ReadyToSend
<1>7. Consecutive' /\ SentPrefix'
  BY <1>1, <1>6 DEF Pacing, Consecutive, SentPrefix
<1>8. WriterKnows' /\ ReaderKnows'
  BY <1>1, <1>5, <1>6 DEF Pacing, WriterKnows, ReaderKnows
<1>9. OneAnswer'
  <2>1. /\ AnswerUnderWay' => Head(queue').hdlr
        /\ Len(asked') <= 1
        /\ asked' # <<>> => asked'[1] = lastSent'
    BY <1>1, <1>4, <1>5 DEF OneAnswer
  <2>2. \A k \in 1 .. Len(outbox') : outbox'[k].kind # "trig" => outbox'[k].id = lastSent'
    BY <1>1, <1>2, <1>4 DEF OneAnswer
  <2>3. ASSUME NEW k \in 1 .. Len(outbox'), outbox'[k].kind = "last"
        PROVE  asked' = <<>> /\ \A j \in k + 1 .. Len(outbox') : outbox'[j].kind = "trig"
    <3>1. k + 1 \in 1 .. Len(outbox) /\ outbox[k + 1].kind = "last"
      BY <1>2, <2>3
    <3>2. asked = <<>> /\ \A j \in k + 2 .. Len(outbox) : outbox[j].kind = "trig"
      BY <1>2, <1>4, <3>1 DEF OneAnswer
    <3> QED
      BY <1>1, <1>2, <3>2
  <2>4. ASSUME NEW k \in 1 .. Len(outbox'), outbox'[k].kind = "part", asked' = <<>>
        PROVE  \E j \in k + 1 .. Len(outbox') : outbox'[j].kind = "last"
    <3>1. k + 1 \in 1 .. Len(outbox) /\ outbox[k + 1].kind = "part"
      BY <1>2, <2>4
    <3>2. PICK j \in k + 2 .. Len(outbox) : outbox[j].kind = "last"
      BY <1>1, <1>2, <1>4, <2>4, <3>1 DEF OneAnswer
    <3>3. j - 1 \in k + 1 .. Len(outbox') /\ outbox'[j - 1].kind = "last"
      BY <1>2, <3>2
    <3> QED
      BY <3>3
  <2>5. rpc' \in {"get", "hdlr"} => pkt'.kind # "trig" /\ pkt'.id = lastSent'
    BY <1>1, <1>2, <1>4 DEF OneAnswer
  <2>6. ASSUME pkt'.kind = "part", asked' = <<>>
        PROVE  \E k \in 1 .. Len(outbox') : outbox'[k].kind = "last"
    <3>1. PICK j \in 2 .. Len(outbox) : outbox[j].kind = "last"
      BY <1>1, <1>2, <1>4, <2>6 DEF OneAnswer
    <3>2. j - 1 \in 1 .. Len(outbox') /\ outbox'[j - 1].kind = "last"
      BY <1>2, <3>1
    <3> QED
      BY <3>2
  <2>7. ASSUME pkt'.kind = "last"
        PROVE  asked' = <<>> /\ \A k \in 1 .. Len(outbox') : outbox'[k].kind = "trig"
    <3>1. asked = <<>> /\ \A j \in 2 .. Len(outbox) : outbox[j].kind = "trig"
      BY <1>2, <1>4, <2>7 DEF OneAnswer
    <3> QED
      BY <1>1, <1>2, <3>1
  <2>8. rpc' # "pop"
    BY <1>1
  <2> QED
    BY <2>1, <2>2, <2>3, <2>4, <2>5, <2>6, <2>7, <2>8 DEF OneAnswer
<1> QED
  BY <1>7, <1>8, <1>9 DEF Pacing

\* A packet that joins the wire leaves the earlier ones in their places.
LEMMA WireFacts ==
  ASSUME Counted, NEW p \in Packet, outbox' = Append(outbox, p)
  PROVE  /\ Len(outbox) \in Nat
         /\ Len(outbox') = Len(outbox) + 1
         /\ outbox'[Len(outbox) + 1] = p
         /\ \A k \in 1 .. Len(outbox) : outbox'[k] = outbox[k]
         /\ \A k \in 1 .. Len(outbox') : k \in 1 .. Len(outbox) \/ k = Len(outbox) + 1
<1>1. outbox \in Seq(Packet)
  BY DEF Counted, TypeOK
<1> QED
  BY <1>1, AppendFacts

\* A service request on the wire disturbs no answer.
LEMMA TrigPacing == Counted /\ Pacing /\ ScopeTrig => Pacing'
<1> SUFFICES ASSUME Counted, Pacing, ScopeTrig PROVE Pacing'
  OBVIOUS
<1> USE DEF queueVars, writerVars, readerVars, killVars
<1>1. /\ outbox' = Append(outbox, [kind |-> "trig", id |-> 0])
      /\ UNCHANGED <<queue, cmdc, pushed, digested, wpc, wcmd, lastSent, rpc, rcmd, pkt, asked, phase>>
  BY DEF ScopeTrig
<1>2. [kind |-> "trig", id |-> 0] \in Packet
  BY DEF Packet
<1>3. /\ Len(outbox) \in Nat
      /\ Len(outbox') = Len(outbox) + 1
      /\ outbox'[Len(outbox) + 1].kind = "trig"
      /\ \A k \in 1 .. Len(outbox) : outbox'[k] = outbox[k]
      /\ \A k \in 1 .. Len(outbox') : k \in 1 .. Len(outbox) \/ k = Len(outbox) + 1
  BY <1>1, <1>2, WireFacts
<1>4. AnswerUnderWay' = AnswerUnderWay
  BY <1>1, <1>3 DEF AnswerUnderWay
<1>5. HeadSent' = HeadSent /\ ReadyToSend' = ReadyToSend
  BY <1>1, <1>4 DEF HeadSent, ReadyToSend
<1>6. Consecutive' /\ SentPrefix'
  BY <1>1, <1>5 DEF Pacing, Consecutive, SentPrefix
<1>7. WriterKnows' /\ ReaderKnows'
  BY <1>1, <1>4, <1>5 DEF Pacing, WriterKnows, ReaderKnows
<1>8. OneAnswer'
  <2>1. OneAnswer
    BY DEF Pacing
  <2>2. /\ AnswerUnderWay' => Head(queue').hdlr
        /\ Len(asked') <= 1
        /\ asked' # <<>> => asked'[1] = lastSent'
        /\ rpc' \in {"get", "hdlr"} => pkt'.kind # "trig" /\ pkt'.id = lastSent'
    BY <1>1, <1>4, <2>1 DEF OneAnswer
  <2>3. \A k \in 1 .. Len(outbox') : outbox'[k].kind # "trig" => outbox'[k].id = lastSent'
    BY <1>1, <1>3, <2>1 DEF OneAnswer
  <2>4. ASSUME NEW k \in 1 .. Len(outbox'), outbox'[k].kind = "last"
        PROVE  asked' = <<>> /\ \A j \in k + 1 .. Len(outbox') : outbox'[j].kind = "trig"
    <3>1. k \in 1 .. Len(outbox) /\ outbox[k].kind = "last"
      BY <1>3, <2>4
    <3>2. asked = <<>> /\ \A j \in k + 1 .. Len(outbox) : outbox[j].kind = "trig"
      BY <2>1, <3>1 DEF OneAnswer
    <3> QED
      BY <1>1, <1>3, <3>1, <3>2
  <2>5. ASSUME NEW k \in 1 .. Len(outbox'), outbox'[k].kind = "part", asked' = <<>>
        PROVE  \E j \in k + 1 .. Len(outbox') : outbox'[j].kind = "last"
    <3>1. k \in 1 .. Len(outbox) /\ outbox[k].kind = "part"
      BY <1>3, <2>5
    <3>2. PICK j \in k + 1 .. Len(outbox) : outbox[j].kind = "last"
      BY <1>1, <2>1, <2>5, <3>1 DEF OneAnswer
    <3>3. j \in k + 1 .. Len(outbox') /\ outbox'[j].kind = "last"
      BY <1>3, <3>1, <3>2
    <3> QED
      BY <3>3
  <2>6. rpc' \in {"get", "hdlr"} /\ pkt'.kind = "part" =>
          asked' # <<>> \/ \E k \in 1 .. Len(outbox') : outbox'[k].kind = "last"
    BY <1>1, <1>3, <2>1 DEF OneAnswer
  <2>7. rpc' = "pop" \/ (rpc' \in {"get", "hdlr"} /\ pkt'.kind = "last") =>
          asked' = <<>> /\ \A k \in 1 .. Len(outbox') : outbox'[k].kind = "trig"
    BY <1>1, <1>3, <2>1 DEF OneAnswer
  <2> QED
    BY <2>2, <2>3, <2>4, <2>5, <2>6, <2>7 DEF OneAnswer
<1> QED
  BY <1>6, <1>7, <1>8 DEF Pacing

\* One more packet of the answer, the question staying open.
LEMMA PartPacing == Counted /\ Pacing /\ ScopePart => Pacing'
<1> SUFFICES ASSUME Counted, Pacing, ScopePart PROVE Pacing'
  OBVIOUS
<1> USE DEF queueVars, writerVars, readerVars, killVars
<1> DEFINE p == [kind |-> "part", id |-> Head(asked)]
<1>1. /\ outbox' = Append(outbox, p)
      /\ asked # <<>>
      /\ UNCHANGED <<queue, cmdc, pushed, digested, wpc, wcmd, lastSent, rpc, rcmd, pkt, asked, phase>>
  BY DEF ScopePart
<1>2. Head(asked) = asked[1] /\ Head(asked) \in Nat
  BY <1>1, TailFacts DEF Counted, TypeOK
<1>3. OneAnswer /\ Head(asked) = lastSent
  BY <1>1, <1>2 DEF Pacing, OneAnswer
<1>4. p \in Packet
  BY <1>2 DEF Packet
<1> HIDE DEF p
<1>5. /\ Len(outbox) \in Nat
      /\ Len(outbox') = Len(outbox) + 1
      /\ outbox'[Len(outbox) + 1] = p
      /\ \A k \in 1 .. Len(outbox) : outbox'[k] = outbox[k]
      /\ \A k \in 1 .. Len(outbox') : k \in 1 .. Len(outbox) \/ k = Len(outbox) + 1
  BY <1>1, <1>4, WireFacts
<1>6. p.kind = "part" /\ p.id = lastSent
  BY <1>3 DEF p
<1>7. AnswerUnderWay' /\ AnswerUnderWay
  BY <1>1 DEF AnswerUnderWay
<1>8. HeadSent' = HeadSent /\ ReadyToSend' = ReadyToSend
  BY <1>1, <1>7 DEF HeadSent, ReadyToSend
<1>9. Consecutive' /\ SentPrefix'
  BY <1>1, <1>8 DEF Pacing, Consecutive, SentPrefix
<1>10. WriterKnows' /\ ReaderKnows'
  BY <1>1, <1>7, <1>8 DEF Pacing, WriterKnows, ReaderKnows
<1>11. OneAnswer'
  <2>1. \A k \in 1 .. Len(outbox') : outbox'[k].kind # "trig" => outbox'[k].id = lastSent'
    BY <1>1, <1>3, <1>5, <1>6 DEF OneAnswer
  <2>2. \A k \in 1 .. Len(outbox') : outbox'[k].kind # "last"
    BY <1>1, <1>3, <1>5, <1>6 DEF OneAnswer
  <2> QED
    BY <1>1, <1>3, <1>7, <2>1, <2>2 DEF OneAnswer
<1> QED
  BY <1>9, <1>10, <1>11 DEF Pacing

\* The end of the answer closes the question; scp_write is past its
\* bookkeeping by then.
LEMMA LastPacing == ~PromptScope /\ Counted /\ Pacing /\ ScopeLast => Pacing'
<1> SUFFICES ASSUME ~PromptScope, Counted, Pacing, ScopeLast PROVE Pacing'
  OBVIOUS
<1> USE DEF queueVars, writerVars, readerVars, killVars
<1> DEFINE p == [kind |-> "last", id |-> Head(asked)]
<1>1. /\ outbox' = Append(outbox, p)
      /\ asked # <<>> /\ asked' = Tail(asked)
      /\ wpc \notin {"sent", "digest"}
      /\ UNCHANGED <<queue, cmdc, pushed, digested, wpc, wcmd, lastSent, rpc, rcmd, pkt, phase>>
  BY DEF ScopeLast
<1>2. /\ Head(asked) = asked[1] /\ Head(asked) \in Nat
      /\ Tail(asked) \in Seq(Nat) /\ Len(asked) \in Nat /\ Len(Tail(asked)) = Len(asked) - 1
  BY <1>1, TailFacts DEF Counted, TypeOK
<1>3. OneAnswer /\ Head(asked) = lastSent
  BY <1>1, <1>2 DEF Pacing, OneAnswer
<1>4. p \in Packet
  BY <1>2 DEF Packet
<1> HIDE DEF p
<1>5. /\ Len(outbox) \in Nat
      /\ Len(outbox') = Len(outbox) + 1
      /\ outbox'[Len(outbox) + 1] = p
      /\ \A k \in 1 .. Len(outbox) : outbox'[k] = outbox[k]
      /\ \A k \in 1 .. Len(outbox') : k \in 1 .. Len(outbox) \/ k = Len(outbox) + 1
  BY <1>1, <1>4, WireFacts
<1>6. p.kind = "last" /\ p.id = lastSent
  BY <1>3 DEF p
<1>7. asked' = <<>>
  <2>1. Len(Tail(asked)) <= 0
    BY <1>2, <1>3 DEF OneAnswer
  <2>2. Len(Tail(asked)) = 0
    BY <1>2, <2>1, EmptyFacts
  <2> QED
    BY <1>1, <1>2, <2>2, EmptyFacts
<1>8. AnswerUnderWay' /\ AnswerUnderWay
  <2>1. Len(outbox) + 1 \in 1 .. Len(outbox')
    BY <1>5
  <2> QED
    BY <1>1, <1>5, <1>6, <2>1 DEF AnswerUnderWay
<1>9. HeadSent' = HeadSent /\ ReadyToSend' = ReadyToSend
  BY <1>1, <1>8 DEF HeadSent, ReadyToSend
<1>10. Consecutive' /\ SentPrefix'
  BY <1>1, <1>9 DEF Pacing, Consecutive, SentPrefix
<1>11. WriterKnows' /\ ReaderKnows'
  BY <1>1, <1>8, <1>9 DEF Pacing, WriterKnows, ReaderKnows
<1>12. OneAnswer'
  <2>1. \A k \in 1 .. Len(outbox') : outbox'[k].kind # "trig" => outbox'[k].id = lastSent'
    BY <1>1, <1>3, <1>5, <1>6 DEF OneAnswer
  <2>2. \A k \in 1 .. Len(outbox) : outbox[k].kind # "last"
    BY <1>1, <1>3 DEF OneAnswer
  <2>3. ASSUME NEW k \in 1 .. Len(outbox'), outbox'[k].kind = "last"
        PROVE  \A j \in k + 1 .. Len(outbox') : outbox'[j].kind = "trig"
    <3>1. k = Len(outbox) + 1
      BY <1>5, <2>2, <2>3
    <3> QED
      BY <1>5, <3>1
  <2>4. ASSUME NEW k \in 1 .. Len(outbox'), outbox'[k].kind = "part"
        PROVE  \E j \in k + 1 .. Len(outbox') : outbox'[j].kind = "last"
    <3>1. Len(outbox) + 1 \in k + 1 .. Len(outbox')
      BY <1>5, <1>6, <2>4
    <3> QED
      BY <1>5, <1>6, <3>1
  <2>5. \E k \in 1 .. Len(outbox') : outbox'[k].kind = "last"
    <3>1. Len(outbox) + 1 \in 1 .. Len(outbox')
      BY <1>5
    <3> QED
      BY <1>5, <1>6, <3>1
  <2>6. rpc' # "pop" /\ (rpc' \in {"get", "hdlr"} => pkt'.kind # "last")
    BY <1>1, <1>3 DEF OneAnswer
  <2>7. Len(asked') <= 1
    BY <1>7, EmptyFacts
  <2>8. /\ AnswerUnderWay' => Head(queue').hdlr
        /\ rpc' \in {"get", "hdlr"} => pkt'.kind # "trig" /\ pkt'.id = lastSent'
    BY <1>1, <1>3, <1>8 DEF OneAnswer
  <2> QED
    BY <1>7, <2>1, <2>3, <2>4, <2>5, <2>6, <2>7, <2>8 DEF OneAnswer
<1> QED
  BY <1>10, <1>11, <1>12 DEF Pacing

\* Steps that only move a program counter among places that mean the same, or
\* change nothing that Pacing mentions.
LEMMA FramePacing ==
  ASSUME Counted, Pacing,
         UNCHANGED <<queue, pushed, asked, outbox, pkt, lastSent, phase>>,
         AnswerUnderWay' = AnswerUnderWay
  PROVE  /\ Consecutive'
         /\ UNCHANGED rpc => OneAnswer'
         /\ HeadSent' = HeadSent => SentPrefix'
         /\ UNCHANGED <<rpc, rcmd>> => ReaderKnows'
<1>1. Consecutive'
  BY DEF Pacing, Consecutive
<1>2. ASSUME UNCHANGED rpc PROVE OneAnswer'
  BY <1>2 DEF Pacing, OneAnswer
<1>3. ASSUME HeadSent' = HeadSent PROVE SentPrefix'
  BY <1>3 DEF Pacing, SentPrefix
<1>4. ASSUME UNCHANGED <<rpc, rcmd>> PROVE ReaderKnows'
  BY <1>4 DEF Pacing, ReaderKnows
<1> QED
  BY <1>1, <1>2, <1>3, <1>4

\* The steps of scp_write keep Pacing.
LEMMA WriterPacing == Counted /\ Pacing /\ (WriterStep \/ WSpurious) => Pacing'
<1> SUFFICES ASSUME Counted, Pacing, WriterStep \/ WSpurious PROVE Pacing'
  OBVIOUS
<1> USE DEF queueVars, writerVars, readerVars, scopeVars, killVars
<1>t. wpc \in WriterPlaces /\ digested \in BOOLEAN /\ lastSent \in Nat /\ pushed \in Nat
  BY DEF Counted, TypeOK
<1>p. Consecutive /\ SentPrefix /\ OneAnswer /\ WriterKnows /\ ReaderKnows
  BY DEF Pacing
<1>a. ASSUME UNCHANGED <<asked, outbox, rpc>> PROVE AnswerUnderWay' = AnswerUnderWay
  BY <1>a DEF AnswerUnderWay
<1>b. ASSUME UNCHANGED <<queue, cmdc, pushed, asked, outbox, rpc, rcmd, pkt, lastSent, phase>>
      PROVE  /\ AnswerUnderWay' = AnswerUnderWay
             /\ Consecutive' /\ OneAnswer' /\ ReaderKnows'
             /\ HeadSent' = HeadSent => SentPrefix'
             /\ HeadSent' = HeadSent /\ WriterKnows' => Pacing'
  <2>1. AnswerUnderWay' = AnswerUnderWay
    BY <1>a, <1>b
  <2>2. /\ Consecutive' /\ OneAnswer' /\ ReaderKnows'
        /\ HeadSent' = HeadSent => SentPrefix'
    BY <1>b, <2>1, FramePacing
  <2> QED
    BY <2>1, <2>2 DEF Pacing
<1>1. CASE WTop
  <2>1. HeadSent' = HeadSent
    BY <1>1, <1>b DEF WTop, HeadSent
  <2>2. WriterKnows'
    BY <1>1, <1>b, <1>p DEF WTop, WriterKnows
  <2> QED
    BY <1>1, <1>b, <2>1, <2>2 DEF WTop
<1>2. CASE WLock
  <2>1. HeadSent' = HeadSent
    BY <1>2, <1>b DEF WLock, HeadSent
  <2>2. WriterKnows'
    BY <1>2, <1>b, <1>p DEF WLock, WriterKnows
  <2> QED
    BY <1>2, <1>b, <2>1, <2>2 DEF WLock
<1>3. CASE WTest
  <2>1. HeadSent' = HeadSent
    BY <1>3, <1>b DEF WTest, HeadSent
  <2>2. ReadyToSend' = ReadyToSend
    BY <1>3 DEF WTest, ReadyToSend
  <2>3. ReadyToSend => queue # <<>>
    <3>1. queue \in Seq(Command) /\ cmdc \in Nat /\ CountMatches
      BY DEF Counted, TypeOK
    <3> QED
      BY <3>1, EmptyFacts DEF ReadyToSend, CountMatches
  <2>4. wpc = "test" /\ digested = (~AnswerUnderWay /\ rpc # "digested")
    BY <1>3, <1>p DEF WTest, WriterKnows
  <2>5. CASE ReadyToSend
    <3>1. wpc' = "get" /\ digested /\ digested' = digested /\ rpc' = rpc /\ queue' = queue
      BY <1>3, <2>5 DEF WTest, ReadyToSend
    <3>2. AnswerUnderWay' = AnswerUnderWay
      BY <1>3, <1>b DEF WTest
    <3>3. queue' # <<>> /\ ~AnswerUnderWay' /\ digested' /\ rpc' # "digested"
      BY <2>3, <2>4, <2>5, <3>1, <3>2
    <3>4. WriterKnows'
      BY <3>1, <3>3 DEF WriterKnows
    <3> QED
      BY <1>3, <1>b, <2>1, <3>4 DEF WTest
  <2>6. CASE ~ReadyToSend
    <3>1. wpc' = "wait" /\ digested' = digested /\ rpc' = rpc
      BY <1>3, <2>6 DEF WTest
    <3>2. WriterKnows'
      BY <1>3, <1>b, <2>2, <2>4, <2>6, <3>1 DEF WTest, WriterKnows
    <3> QED
      BY <1>3, <1>b, <2>1, <3>2 DEF WTest
  <2> QED
    BY <2>5, <2>6
<1>4. CASE WSpurious
  <2>1. HeadSent' = HeadSent
    BY <1>4, <1>b DEF WSpurious, HeadSent
  <2>2. WriterKnows'
    BY <1>4, <1>b, <1>p DEF WSpurious, WriterKnows
  <2> QED
    BY <1>4, <1>b, <2>1, <2>2 DEF WSpurious
<1>5. CASE WGet
  <2>1. HeadSent' = HeadSent
    BY <1>5, <1>b DEF WGet, HeadSent
  <2>2. queue # <<>> /\ wcmd' = Head(queue)
    BY <1>5, <1>p DEF WGet, WriterKnows, First
  <2>3. WriterKnows'
    BY <1>5, <1>b, <1>p, <2>2 DEF WGet, WriterKnows
  <2> QED
    BY <1>5, <1>b, <2>1, <2>3 DEF WGet
<1>6. CASE WSend
  <2>1. /\ queue # <<>> /\ ~AnswerUnderWay /\ wcmd = Head(queue)
        /\ digested /\ rpc # "digested" /\ wpc = "send"
    BY <1>6, <1>p DEF WSend, WriterKnows
  <2>2. ~HeadSent
    BY <2>1 DEF HeadSent
  <2>3. wcmd \in Command /\ wcmd.id = lastSent + 1 /\ wcmd.id # 0 /\ wcmd.id \in Nat
    BY <1>t, <2>1, <2>2, HeadFacts
  <2>4. wcmd # NoCmd
    BY <2>3 DEF NoCmd
  <2>5. /\ wpc' = "sent" /\ lastSent' = wcmd.id
        /\ asked' = IF wcmd.hdlr THEN Append(asked, wcmd.id) ELSE asked
        /\ UNCHANGED <<queue, cmdc, pushed, digested, wcmd, rpc, rcmd, pkt, outbox, phase>>
    BY <1>6, <2>4 DEF WSend
  <2>6. asked = <<>> /\ rpc \notin {"get", "hdlr", "pop"}
        /\ \A k \in 1 .. Len(outbox) : outbox[k].kind = "trig"
    BY <2>1 DEF AnswerUnderWay
  <2>7. wcmd.hdlr => asked' # <<>> /\ Len(asked') = 1 /\ asked'[1] = lastSent'
    BY <2>3, <2>5, <2>6
  <2>8. ~wcmd.hdlr => asked' = <<>>
    BY <2>5, <2>6
  <2>9. AnswerUnderWay' = wcmd.hdlr
    <3>1. wcmd.hdlr \in BOOLEAN
      BY <2>3 DEF Command
    <3> QED
      BY <2>5, <2>6, <2>7, <2>8, <3>1 DEF AnswerUnderWay
  <2>10. Consecutive'
    BY <1>p, <2>5 DEF Consecutive
  <2>11. SentPrefix'
    <3>1. HeadSent'
      BY <2>5 DEF HeadSent
    <3>2. lastSent' = lastSent + 1 /\ lastSent + Len(queue) = pushed
      BY <1>p, <2>2, <2>3, <2>5 DEF SentPrefix
    <3>3. Len(queue) \in Nat
      BY HeadFacts
    <3> QED
      BY <1>t, <2>1, <2>5, <3>1, <3>2, <3>3 DEF SentPrefix
  <2>12. Len(<<>>) = 0
    BY EmptyFacts
  <2>13. OneAnswer'
    BY <2>1, <2>5, <2>6, <2>7, <2>8, <2>9, <2>12 DEF OneAnswer
  <2>14. WriterKnows'
    BY <2>1, <2>5, <2>7, <2>9 DEF WriterKnows
  <2>15. ReaderKnows'
    BY <1>p, <2>1, <2>5, <2>6 DEF ReaderKnows
  <2> QED
    BY <2>10, <2>11, <2>13, <2>14, <2>15 DEF Pacing
<1>7. CASE WBranch
  <2>1. HeadSent' = HeadSent
    BY <1>7, <1>b DEF WBranch, HeadSent
  <2>2. wcmd = Head(queue) /\ queue # <<>> /\ digested /\ rpc # "digested" /\ wpc = "sent"
        /\ IF wcmd.hdlr THEN asked # <<>> ELSE ~AnswerUnderWay
    BY <1>7, <1>p, HeadFacts DEF WBranch, WriterKnows, HeadSent
  <2>3. Queued(wcmd)
    BY <2>2, HeadFacts DEF Queued
  <2>4. wpc' = IF wcmd.hdlr THEN "digest" ELSE "pop"
    BY <1>7, <2>3 DEF WBranch
  <2>5. WriterKnows'
    BY <1>7, <1>b, <2>2, <2>4 DEF WBranch, WriterKnows
  <2> QED
    BY <1>7, <1>b, <2>1, <2>5 DEF WBranch
<1>8. CASE WPop
  <2>1. queue # <<>> /\ ~AnswerUnderWay /\ digested /\ rpc # "digested" /\ wpc = "pop"
    BY <1>8, <1>p DEF WPop, WriterKnows
  <2>2. /\ Pop /\ wpc' = "top"
        /\ UNCHANGED <<asked, outbox, rpc, rcmd, pkt, digested, lastSent, phase>>
    BY <1>8, <2>1 DEF WPop
  <2>3. Len(queue') = Len(queue) - 1 /\ pushed' = pushed /\ Consecutive'
    BY <2>1, <2>2, PopFacts
  <2>4. ~AnswerUnderWay' /\ ~HeadSent'
    BY <1>a, <2>1, <2>2 DEF HeadSent
  <2>5. SentPrefix'
    <3>1. lastSent + Len(queue) = pushed + 1 /\ Len(queue) \in Nat
      BY <1>p, <2>1, HeadFacts DEF SentPrefix, HeadSent
    <3> QED
      BY <1>t, <2>2, <2>3, <2>4, <3>1 DEF SentPrefix
  <2>6. OneAnswer'
    BY <1>p, <2>2, <2>4 DEF OneAnswer
  <2>7. WriterKnows'
    BY <2>1, <2>2, <2>4 DEF WriterKnows
  <2>8. ReaderKnows'
    BY <1>p, <2>1, <2>2, <2>4 DEF ReaderKnows, AnswerUnderWay
  <2> QED
    BY <2>3, <2>5, <2>6, <2>7, <2>8 DEF Pacing
<1>9. CASE WDigest
  <2>1. asked # <<>> /\ wpc = "digest"
    BY <1>9, <1>p DEF WDigest, WriterKnows
  <2>2. AnswerUnderWay
    BY <2>1 DEF AnswerUnderWay
  <2>3. UNCHANGED <<queue, cmdc, pushed, asked, outbox, rpc, rcmd, pkt, lastSent, phase>>
        /\ wpc' = "top" /\ digested' = FALSE
    BY <1>9 DEF WDigest
  <2>4. HeadSent' = HeadSent
    BY <1>b, <2>2, <2>3 DEF HeadSent
  <2>5. WriterKnows'
    BY <1>b, <2>2, <2>3 DEF WriterKnows
  <2> QED
    BY <1>b, <2>3, <2>4, <2>5
<1> QED
  BY <1>1, <1>2, <1>3, <1>4, <1>5, <1>6, <1>7, <1>8, <1>9 DEF WriterStep

\* The steps of scp_read keep Pacing.
LEMMA ReaderPacing == Counted /\ Pacing /\ ReaderStep => Pacing'
<1> SUFFICES ASSUME Counted, Pacing, ReaderStep PROVE Pacing'
  OBVIOUS
<1> USE DEF queueVars, writerVars, readerVars, scopeVars, killVars
<1>t. wpc \in WriterPlaces /\ digested \in BOOLEAN /\ lastSent \in Nat /\ pushed \in Nat
      /\ pkt \in Packet /\ trgleft \in Seq(BOOLEAN)
  BY DEF Counted, TypeOK
<1>p. Consecutive /\ SentPrefix /\ OneAnswer /\ WriterKnows /\ ReaderKnows
  BY DEF Pacing
<1>b. ASSUME UNCHANGED <<queue, cmdc, pushed, asked, outbox, pkt, lastSent, phase, wpc, wcmd, digested>>,
             AnswerUnderWay' = AnswerUnderWay
      PROVE  /\ Consecutive' /\ SentPrefix' /\ HeadSent' = HeadSent
             /\ (rpc' # "digested" /\ rpc # "digested") => WriterKnows'
  <2>1. HeadSent' = HeadSent /\ ReadyToSend' = ReadyToSend
    BY <1>b DEF HeadSent, ReadyToSend
  <2>2. ASSUME rpc' # "digested", rpc # "digested" PROVE WriterKnows'
    BY <1>b, <1>p, <2>1, <2>2 DEF WriterKnows
  <2> QED
    BY <1>b, <2>1, <2>2, FramePacing
<1>1. CASE RTop
  <2>1. rpc = "top" /\ rpc' \in {"read", "done"}
        /\ UNCHANGED <<queue, cmdc, pushed, asked, outbox, pkt, lastSent, phase, wpc, wcmd, digested>>
    BY <1>1 DEF RTop
  <2>2. AnswerUnderWay' = AnswerUnderWay
    BY <2>1 DEF AnswerUnderWay
  <2>3. OneAnswer' /\ ReaderKnows'
    BY <1>p, <2>1, <2>2 DEF OneAnswer, ReaderKnows
  <2> QED
    BY <1>b, <2>1, <2>2, <2>3 DEF Pacing
<1>2. CASE RRead
  BY <1>2, ReadPacing
<1>3. CASE RTrgPush
  <2>1. Head(trgleft) \in BOOLEAN
    BY <1>3, <1>t, TailFacts DEF RTrgPush
  <2>2. Enqueue(Reader, Head(trgleft))
        /\ UNCHANGED <<asked, outbox, rpc, pkt, rcmd, wpc, wcmd, lastSent, digested, phase>>
    BY <1>3 DEF RTrgPush
  <2> QED
    BY <2>1, <2>2, EnqueuePacing
<1>4. CASE RTrgDone
  <2>1. rpc = "trg" /\ rpc' = "top"
        /\ UNCHANGED <<queue, cmdc, pushed, asked, outbox, pkt, lastSent, phase, wpc, wcmd, digested>>
    BY <1>4 DEF RTrgDone
  <2>2. AnswerUnderWay' = AnswerUnderWay
    BY <2>1 DEF AnswerUnderWay
  <2>3. OneAnswer' /\ ReaderKnows'
    BY <1>p, <2>1, <2>2 DEF OneAnswer, ReaderKnows
  <2> QED
    BY <1>b, <2>1, <2>2, <2>3 DEF Pacing
<1>5. CASE RGet
  <2>1. rpc = "get" /\ rpc' = "hdlr" /\ rcmd' = First
        /\ UNCHANGED <<queue, cmdc, pushed, asked, outbox, pkt, lastSent, phase, wpc, wcmd, digested>>
    BY <1>5 DEF RGet
  <2>2. AnswerUnderWay' = AnswerUnderWay /\ AnswerUnderWay
    BY <2>1 DEF AnswerUnderWay
  <2>3. OneAnswer'
    BY <1>p, <2>1, <2>2 DEF OneAnswer
  <2>4. ReaderKnows'
    <3>1. queue # <<>>
      BY <2>2, HeadFacts DEF HeadSent
    <3> QED
      BY <1>p, <2>1, <2>2, <3>1 DEF ReaderKnows, First
  <2> QED
    BY <1>b, <2>1, <2>2, <2>3, <2>4 DEF Pacing
<1>6. CASE RHandle
  <2>1. rpc = "hdlr" /\ AnswerUnderWay /\ rcmd = Head(queue) /\ Head(queue).hdlr
    BY <1>6, <1>p DEF RHandle, AnswerUnderWay, OneAnswer, ReaderKnows
  <2>2. /\ rpc' = IF pkt.kind = "last" THEN "pop" ELSE "top"
        /\ UNCHANGED <<queue, cmdc, pushed, asked, outbox, pkt, lastSent, phase, wpc, wcmd, digested>>
    BY <1>6, <2>1 DEF RHandle
  <2>3. CASE pkt.kind = "last"
    <3>1. AnswerUnderWay' = AnswerUnderWay
      BY <2>1, <2>2, <2>3 DEF AnswerUnderWay
    <3>2. OneAnswer' /\ ReaderKnows'
      BY <1>p, <2>1, <2>2, <2>3, <3>1 DEF OneAnswer, ReaderKnows
    <3> QED
      BY <1>b, <2>1, <2>2, <2>3, <3>1, <3>2 DEF Pacing
  <2>4. CASE pkt.kind # "last"
    <3>1. pkt.kind = "part"
      BY <1>t, <1>p, <2>1, <2>4 DEF OneAnswer, Packet
    <3>2. asked # <<>> \/ \E k \in 1 .. Len(outbox) : outbox[k].kind = "last"
      BY <1>p, <2>1, <3>1 DEF OneAnswer
    <3>3. asked # <<>> \/ \E k \in 1 .. Len(outbox) : outbox[k].kind # "trig"
      BY <3>2
    <3>4. AnswerUnderWay' = AnswerUnderWay
      BY <2>1, <2>2, <3>3 DEF AnswerUnderWay
    <3>5. OneAnswer' /\ ReaderKnows'
      BY <1>p, <2>1, <2>2, <2>4, <3>4 DEF OneAnswer, ReaderKnows
    <3> QED
      BY <1>b, <2>1, <2>2, <2>4, <3>4, <3>5 DEF Pacing
  <2> QED
    BY <2>3, <2>4
<1>7. CASE RPop
  <2>1. rpc = "pop" /\ AnswerUnderWay /\ HeadSent
    BY <1>7 DEF RPop, AnswerUnderWay, HeadSent
  <2>2. queue # <<>>
    BY <2>1, HeadFacts
  <2>3. asked = <<>> /\ \A k \in 1 .. Len(outbox) : outbox[k].kind = "trig"
    BY <1>p, <2>1 DEF OneAnswer
  <2>4. wpc \in {"top", "lock", "test", "wait", "woken", "done"} /\ digested = FALSE
    BY <1>t, <1>p, <2>1, <2>3 DEF WriterKnows, WriterPlaces
  <2>5. /\ Pop /\ rpc' = "digested"
        /\ UNCHANGED <<asked, outbox, pkt, lastSent, phase, wpc, wcmd, digested>>
    BY <1>7, <2>2 DEF RPop
  <2>6. Len(queue') = Len(queue) - 1 /\ pushed' = pushed /\ Consecutive'
    BY <2>2, <2>5, PopFacts
  <2>7. ~AnswerUnderWay' /\ ~HeadSent'
    BY <2>3, <2>4, <2>5 DEF AnswerUnderWay, HeadSent
  <2>8. SentPrefix'
    <3>1. lastSent + Len(queue) = pushed + 1 /\ Len(queue) \in Nat
      BY <1>p, <2>1, HeadFacts DEF SentPrefix
    <3> QED
      BY <1>t, <2>5, <2>6, <2>7, <3>1 DEF SentPrefix
  <2>9. OneAnswer'
    BY <1>p, <2>3, <2>5, <2>7 DEF OneAnswer
  <2>10. WriterKnows'
    BY <2>4, <2>5, <2>7 DEF WriterKnows, ReadyToSend
  <2>11. ReaderKnows'
    BY <1>p, <2>5, <2>7 DEF ReaderKnows
  <2> QED
    BY <2>6, <2>8, <2>9, <2>10, <2>11 DEF Pacing
<1>8. CASE RDigested
  <2>1. rpc = "digested" /\ ~AnswerUnderWay
    BY <1>8, <1>p DEF RDigested, ReaderKnows
  <2>2. wpc \in {"top", "lock", "test", "wait", "woken", "done"}
    BY <1>t, <1>p, <2>1 DEF WriterKnows, WriterPlaces
  <2>3. /\ rpc' = "top" /\ digested' = TRUE
        /\ wpc' \in {"top", "lock", "test", "woken", "done"}
        /\ UNCHANGED <<queue, cmdc, pushed, asked, outbox, rcmd, pkt, lastSent, phase, wcmd>>
    BY <1>8, <2>2 DEF RDigested, SignalWriter
  <2>4. AnswerUnderWay' = AnswerUnderWay
    BY <2>1, <2>3 DEF AnswerUnderWay
  <2>5. HeadSent' = HeadSent
    BY <2>2, <2>3, <2>4 DEF HeadSent
  <2>6. Consecutive' /\ SentPrefix'
    BY <2>3, <2>4, <2>5, FramePacing
  <2>7. OneAnswer' /\ ReaderKnows'
    BY <1>p, <2>1, <2>3, <2>4 DEF OneAnswer, ReaderKnows
  <2>8. WriterKnows'
    BY <2>1, <2>3, <2>4 DEF WriterKnows
  <2> QED
    BY <2>6, <2>7, <2>8 DEF Pacing
<1> QED
  BY <1>1, <1>2, <1>3, <1>4, <1>5, <1>6, <1>7, <1>8 DEF ReaderStep

\* Every step keeps Pacing, given the types and the count.
LEMMA PacingStep ==
  ~PromptScope /\ Counted /\ Pacing /\ [Next]_vars => Pacing'
<1> SUFFICES ASSUME ~PromptScope, Counted, Pacing, [Next]_vars PROVE Pacing'
  OBVIOUS
<1> USE DEF queueVars, writerVars, readerVars, scopeVars, killVars
<1>p. Consecutive /\ SentPrefix /\ OneAnswer /\ WriterKnows /\ ReaderKnows
  BY DEF Pacing
<1>f. ASSUME UNCHANGED <<queue, cmdc, pushed, asked, outbox, rpc, rcmd, pkt, lastSent,
                          wpc, wcmd, digested>>,
             phase' # "segv"
      PROVE  Pacing'
  <2>1. AnswerUnderWay' = AnswerUnderWay
    BY <1>f DEF AnswerUnderWay
  <2>2. HeadSent' = HeadSent /\ ReadyToSend' = ReadyToSend
    BY <1>f, <2>1 DEF HeadSent, ReadyToSend
  <2>3. Consecutive' /\ SentPrefix' /\ OneAnswer'
    BY <1>f, <1>p, <2>1, <2>2 DEF Consecutive, SentPrefix, OneAnswer
  <2>4. WriterKnows' /\ ReaderKnows'
    BY <1>f, <1>p, <2>1, <2>2 DEF WriterKnows, ReaderKnows
  <2> QED
    BY <2>3, <2>4 DEF Pacing
<1>1. ASSUME NEW t \in Pushers, NEW h \in BOOLEAN, PushStart(t, h) PROVE Pacing'
  <2>1. Enqueue(t, h)
        /\ UNCHANGED <<asked, outbox, rpc, pkt, rcmd, wpc, wcmd, lastSent, digested, phase>>
    BY <1>1 DEF PushStart
  <2> QED
    BY <2>1, EnqueuePacing
<1>2. ASSUME NEW t \in Pushers \cup {Reader}, PushFinish(t) PROVE Pacing'
  <2>1. /\ wpc' = IF wpc = "wait" THEN "woken" ELSE wpc
        /\ UNCHANGED <<queue, pushed, asked, outbox, rpc, rcmd, pkt, lastSent, wcmd, digested, phase>>
    BY <1>2 DEF PushFinish, SignalWriter
  <2>2. AnswerUnderWay' = AnswerUnderWay
    BY <2>1 DEF AnswerUnderWay
  <2>3. HeadSent' = HeadSent
    BY <2>1, <2>2 DEF HeadSent
  <2>4. Consecutive' /\ SentPrefix' /\ OneAnswer' /\ ReaderKnows'
    BY <2>1, <2>2, <2>3, FramePacing
  <2>5. WriterKnows'
    BY <1>p, <2>1, <2>2 DEF WriterKnows
  <2> QED
    BY <2>4, <2>5 DEF Pacing
<1>3. CASE WriterStep \/ WSpurious
  BY <1>3, WriterPacing
<1>4. CASE ReaderStep
  BY <1>4, ReaderPacing
<1>5. CASE ScopePart
  BY <1>5, PartPacing
<1>6. CASE ScopeLast
  BY <1>6, LastPacing
<1>7. CASE ScopeTrig
  BY <1>7, TrigPacing
<1>8. CASE DestroyReadKill
  BY <1>8, <1>f, <1>p DEF DestroyReadKill, ReaderKnows
<1>9. CASE DestroyWriteKill
  BY <1>9, <1>f, <1>p DEF DestroyWriteKill, ReaderKnows
<1>10. CASE DestroyFree
  BY <1>10, <1>f DEF DestroyFree
<1>11. CASE UNCHANGED vars
  BY <1>11, <1>f, <1>p DEF vars, ReaderKnows
<1> QED
  BY <1>1, <1>2, <1>3, <1>4, <1>5, <1>6, <1>7, <1>8, <1>9, <1>10, <1>11 DEF Next

\* If no answer ends while scp_write is still busy with its query, the digested
\* flag paces the two threads as intended, for any number of pushing threads.
THEOREM PacingCorrect == ASSUME ~PromptScope PROVE Spec => [](Counted /\ Pacing)
<1>1. Init => Counted /\ Pacing
  BY InitCounted, InitPacing
<1>2. (Counted /\ Pacing) /\ [Next]_vars => (Counted /\ Pacing)'
  BY CountedStep, PacingStep
<1> QED
  BY <1>1, <1>2, PTL DEF Spec

\* What Pacing is for: answers reach the handler of their query, one answer at
\* a time, through pointers that are alive, nothing is lost, and the writer
\* does not sleep on work.
LEMMA PacingSafe ==
  Counted /\ Pacing =>
    ReplyMatches /\ OneOutstanding /\ NoDanglingUse /\ NoLostCommand /\ NoStall
<1> SUFFICES ASSUME Counted, Pacing
             PROVE  ReplyMatches /\ OneOutstanding /\ NoDanglingUse /\ NoLostCommand /\ NoStall
  OBVIOUS
<1>p. Consecutive /\ SentPrefix /\ OneAnswer /\ WriterKnows /\ ReaderKnows
  BY DEF Pacing
<1>t. lastSent \in Nat /\ pushed \in Nat /\ digested \in BOOLEAN
  BY DEF Counted, TypeOK
<1>h. rpc = "hdlr" => AnswerUnderWay /\ HeadSent
  BY DEF AnswerUnderWay, HeadSent
<1>1. ReplyMatches
  BY <1>p, <1>h, HeadFacts DEF ReplyMatches, OneAnswer, ReaderKnows
<1>2. OneOutstanding
  BY <1>p DEF OneOutstanding, WriterKnows
<1>3. NoDanglingUse
  <2>1. wpc \in {"send", "sent"} => queue # <<>> /\ wcmd = queue[1]
    BY <1>p, HeadFacts DEF WriterKnows, HeadSent
  <2>2. rpc = "hdlr" => queue # <<>> /\ rcmd = queue[1]
    BY <1>p, <1>h, HeadFacts DEF ReaderKnows
  <2>3. queue # <<>> => 1 \in 1 .. Len(queue)
    BY HeadFacts
  <2> QED
    BY <2>1, <2>2, <2>3 DEF NoDanglingUse, Queued
<1>4. NoLostCommand
  <2>1. SUFFICES ASSUME NEW i \in 1 .. pushed, ~(i <= lastSent)
                 PROVE  \E k \in 1 .. Len(queue) : queue[k].id = i
    BY DEF NoLostCommand
  <2>2. Len(queue) \in Nat /\ i \in Nat /\ i <= pushed /\ i > lastSent
    BY <1>t, <2>1, HeadFacts
  <2>3. pushed - Len(queue) <= lastSent
    BY <1>t, <1>p, <2>2 DEF SentPrefix
  <2>4. i - (pushed - Len(queue)) \in 1 .. Len(queue)
    BY <1>t, <2>2, <2>3
  <2>5. queue[i - (pushed - Len(queue))].id = pushed - Len(queue) + (i - (pushed - Len(queue)))
    BY <1>p, <2>4 DEF Consecutive
  <2>6. pushed - Len(queue) + (i - (pushed - Len(queue))) = i
    BY <1>t, <2>2
  <2> QED
    BY <2>4, <2>5, <2>6
<1>5. NoStall
  BY <1>p, <1>t DEF NoStall, WriterKnows, ReadyToSend
<1> QED
  BY <1>1, <1>2, <1>3, <1>4, <1>5

\* scp_read always calls the handler of the query whose answer it holds, never
\* NULL.
THEOREM RepliesMatch == ASSUME ~PromptScope PROVE Spec => []ReplyMatches
<1>1. Counted /\ Pacing => ReplyMatches
  BY PacingSafe
<1> QED
  BY <1>1, PacingCorrect, PTL

\* "Wait til scope has finished digested": one answer at a time.
THEOREM OneAtATime == ASSUME ~PromptScope PROVE Spec => []OneOutstanding
<1>1. Counted /\ Pacing => OneOutstanding
  BY PacingSafe
<1> QED
  BY <1>1, PacingCorrect, PTL

\* Neither thread uses a command after the other freed it.
THEOREM PointersAlive == ASSUME ~PromptScope PROVE Spec => []NoDanglingUse
<1>1. Counted /\ Pacing => NoDanglingUse
  BY PacingSafe
<1> QED
  BY <1>1, PacingCorrect, PTL

\* Every command pushed is sent or still in the list.
THEOREM NothingLost == ASSUME ~PromptScope PROVE Spec => []NoLostCommand
<1>1. Counted /\ Pacing => NoLostCommand
  BY PacingSafe
<1> QED
  BY <1>1, PacingCorrect, PTL

\* The writer never sleeps on a counted command with nothing to wake it.
THEOREM NoLostWakeup == ASSUME ~PromptScope PROVE Spec => []NoStall
<1>1. Counted /\ Pacing => NoStall
  BY PacingSafe
<1> QED
  BY <1>1, PacingCorrect, PTL

\* Commands go out once each, in the order of the pushes.
THEOREM InOrder == ASSUME ~PromptScope PROVE Spec => SentInOrder
<1>1. Counted /\ Pacing /\ [Next]_vars => [lastSent' = lastSent + 1]_lastSent
  <2> SUFFICES ASSUME Counted, Pacing, [Next]_vars, lastSent' # lastSent
               PROVE  lastSent' = lastSent + 1
    OBVIOUS
  <2>1. WSend
    BY DEF Next, vars, queueVars, writerVars, readerVars, scopeVars, killVars,
           PushStart, PushFinish, WriterStep, WTop, WLock, WTest, WSpurious, WGet,
           WBranch, WPop, WDigest, ReaderStep, RTop, RRead, RTrgPush, RTrgDone, RGet,
           RHandle, RPop, RDigested, ScopePart, ScopeLast, ScopeTrig,
           DestroyReadKill, DestroyWriteKill, DestroyFree
  <2>2. wcmd = Head(queue) /\ queue # <<>> /\ ~AnswerUnderWay /\ wpc = "send"
    BY <2>1 DEF WSend, Pacing, WriterKnows
  <2>3. wcmd.id = lastSent + 1
    BY <2>2, HeadFacts DEF HeadSent
  <2> QED
    BY <2>1, <2>3 DEF WSend
<1> QED
  BY <1>1, PacingCorrect, PTL DEF Spec, SentInOrder

(***************************************************************************)
(* ScpQueue implements the safety part of CommandService                   *)
(***************************************************************************)

\* The last answer delivered is an older one until the handler of the query
\* under way has seen its last packet.
DeliveryKnown ==
  /\ delivered <= lastSent
  /\ AnswerUnderWay /\ rpc # "pop" => delivered < lastSent
  /\ rpc = "pop" => delivered = lastSent

\* One step keeps DeliveryKnown.
LEMMA DeliveryStep ==
  Counted /\ Pacing /\ DeliveryKnown /\ [Next]_vars => DeliveryKnown'
<1> SUFFICES ASSUME Counted, Pacing, DeliveryKnown, [Next]_vars PROVE DeliveryKnown'
  OBVIOUS
<1> USE DEF queueVars, writerVars, readerVars, scopeVars, killVars
<1>p. Consecutive /\ SentPrefix /\ OneAnswer /\ WriterKnows /\ ReaderKnows
  BY DEF Pacing
<1>t. lastSent \in Nat /\ delivered \in Nat /\ outbox \in Seq(Packet)
  BY DEF Counted, TypeOK
<1>k. ASSUME UNCHANGED <<delivered, lastSent>>, AnswerUnderWay' => AnswerUnderWay,
             rpc # "pop", rpc' # "pop"
      PROVE  DeliveryKnown'
  BY <1>k DEF DeliveryKnown
<1>f. ASSUME UNCHANGED <<delivered, lastSent, asked, outbox, rpc>> PROVE DeliveryKnown'
  BY <1>f DEF DeliveryKnown, AnswerUnderWay
<1>1. ASSUME NEW t \in Pushers, NEW h \in BOOLEAN, PushStart(t, h) PROVE DeliveryKnown'
  BY <1>1, <1>f DEF PushStart
<1>2. ASSUME NEW t \in Pushers \cup {Reader}, PushFinish(t) PROVE DeliveryKnown'
  BY <1>2, <1>f DEF PushFinish
<1>3. CASE WTop \/ WLock \/ WTest \/ WSpurious \/ WGet \/ WBranch \/ WPop \/ WDigest
  BY <1>3, <1>f DEF WTop, WLock, WTest, WSpurious, WGet, WBranch, WPop, WDigest
<1>4. CASE WSend
  <2>1. queue # <<>> /\ ~AnswerUnderWay /\ wcmd = Head(queue) /\ wpc = "send"
    BY <1>4, <1>p DEF WSend, WriterKnows
  <2>2. wcmd.id = lastSent + 1 /\ wcmd.id # 0
    BY <2>1, HeadFacts DEF HeadSent
  <2>3. wcmd # NoCmd
    BY <2>2 DEF NoCmd
  <2>4. lastSent' = lastSent + 1 /\ delivered' = delivered /\ rpc' = rpc
    BY <1>4, <2>2, <2>3 DEF WSend
  <2>5. rpc # "pop"
    BY <2>1 DEF AnswerUnderWay
  <2> QED
    BY <1>t, <2>4, <2>5 DEF DeliveryKnown
<1>5. CASE RTop \/ RTrgDone \/ RGet \/ RDigested
  BY <1>5, <1>k DEF RTop, RTrgDone, RGet, RDigested, AnswerUnderWay
<1>6. CASE RRead
  <2>1. \A k \in 1 .. Len(outbox') : k + 1 \in 1 .. Len(outbox) /\ outbox'[k] = outbox[k + 1]
    BY <1>6, <1>t, TailFacts DEF RRead
  <2>2. AnswerUnderWay' => AnswerUnderWay
    <3>1. CASE asked # <<>>
      BY <3>1 DEF AnswerUnderWay
    <3>2. CASE outbox[1].kind # "trig"
      <4>1. 1 \in 1 .. Len(outbox)
        BY <1>6, <1>t, TailFacts DEF RRead
      <4> QED
        BY <3>2, <4>1 DEF AnswerUnderWay
    <3>3. CASE asked = <<>> /\ outbox[1].kind = "trig"
      <4>1. pkt' = outbox[1]
        BY <1>6, <1>t, TailFacts DEF RRead
      <4>2. rpc' = "trg" /\ asked' = asked
        BY <1>6, <3>3, <4>1 DEF RRead
      <4> QED
        BY <2>1, <3>3, <4>2 DEF AnswerUnderWay
    <3> QED
      BY <3>1, <3>2, <3>3
  <2> QED
    BY <1>6, <1>k, <2>2 DEF RRead
<1>7. CASE RTrgPush
  BY <1>7, <1>f DEF RTrgPush
<1>8. CASE RHandle
  <2>1. rpc = "hdlr" /\ AnswerUnderWay /\ rcmd = Head(queue) /\ Head(queue).hdlr
    BY <1>8, <1>p DEF RHandle, AnswerUnderWay, OneAnswer, ReaderKnows
  <2>2. Head(queue).id = lastSent
    BY <2>1, HeadFacts DEF HeadSent
  <2>3. CASE pkt.kind = "last"
    BY <1>8, <1>t, <2>1, <2>2, <2>3 DEF RHandle, DeliveryKnown
  <2>4. CASE pkt.kind # "last"
    BY <1>8, <1>k, <2>1, <2>4 DEF RHandle
  <2> QED
    BY <2>3, <2>4
<1>9. CASE RPop
  <2>1. rpc = "pop" /\ AnswerUnderWay /\ HeadSent
    BY <1>9 DEF RPop, AnswerUnderWay, HeadSent
  <2>2. queue # <<>>
    BY <2>1, HeadFacts
  <2>3. asked = <<>> /\ \A k \in 1 .. Len(outbox) : outbox[k].kind = "trig"
    BY <1>p, <2>1 DEF OneAnswer
  <2>4. rpc' = "digested" /\ UNCHANGED <<asked, outbox, delivered, lastSent>>
    BY <1>9, <2>2 DEF RPop
  <2>5. ~AnswerUnderWay'
    BY <2>3, <2>4 DEF AnswerUnderWay
  <2> QED
    BY <2>4, <2>5 DEF DeliveryKnown
<1>10. CASE ScopePart \/ ScopeLast
  <2>1. asked # <<>> /\ UNCHANGED <<delivered, lastSent, rpc>>
    BY <1>10 DEF ScopePart, ScopeLast
  <2>2. AnswerUnderWay /\ rpc # "pop"
    BY <1>p, <2>1 DEF AnswerUnderWay, OneAnswer
  <2> QED
    BY <1>k, <2>1, <2>2
<1>11. CASE ScopeTrig
  <2>1. outbox' = Append(outbox, [kind |-> "trig", id |-> 0])
        /\ UNCHANGED <<asked, rpc, delivered, lastSent>>
    BY <1>11 DEF ScopeTrig
  <2>2. [kind |-> "trig", id |-> 0] \in Packet
    BY DEF Packet
  <2>3. /\ outbox'[Len(outbox) + 1].kind = "trig"
        /\ \A k \in 1 .. Len(outbox) : outbox'[k] = outbox[k]
        /\ \A k \in 1 .. Len(outbox') : k \in 1 .. Len(outbox) \/ k = Len(outbox) + 1
    BY <2>1, <2>2, WireFacts
  <2>4. AnswerUnderWay' => AnswerUnderWay
    BY <2>1, <2>3 DEF AnswerUnderWay
  <2> QED
    BY <2>1, <2>4 DEF DeliveryKnown
<1>12. CASE DestroyReadKill \/ DestroyWriteKill \/ DestroyFree
  BY <1>12, <1>f DEF DestroyReadKill, DestroyWriteKill, DestroyFree
<1>13. CASE UNCHANGED vars
  BY <1>13, <1>f DEF vars
<1> QED
  BY <1>1, <1>2, <1>3, <1>4, <1>5, <1>6, <1>7, <1>8, <1>9, <1>10, <1>11, <1>12, <1>13
     DEF Next, WriterStep, ReaderStep

\* The initial state is one of CommandService.
LEMMA ServiceInit == Init => Service!Init
  BY DEF Init, Service!Init, Waiting, Current, NoCmd, Service!Nothing

\* A step that touches nothing the mapping reads is a stutter.
LEMMA ServiceStutter ==
  ASSUME UNCHANGED <<pushed, queue, lastSent, delivered, writekill>>
  PROVE  UNCHANGED Service!svars
  BY DEF Service!svars, Waiting, Current

\* A push is Submit.
LEMMA ServiceSubmit ==
  ASSUME Counted, Pacing, NEW t, NEW h \in BOOLEAN, Enqueue(t, h),
         UNCHANGED <<lastSent, delivered, writekill>>
  PROVE  Service!Submit(h)
<1> DEFINE c == [id |-> pushed + 1, hdlr |-> h]
<1>1. /\ queue \in Seq(Command) /\ c \in Command
      /\ queue' = Append(queue, c)
      /\ pushed \in Nat /\ pushed' = pushed + 1 /\ lastSent \in Nat /\ lastSent' = lastSent
      /\ c.id = pushed + 1
  BY DEF Counted, TypeOK, Enqueue, Command
<1>2. queue # <<>> => /\ Tail(queue) \in Seq(Command)
                      /\ queue' # <<>>
                      /\ Head(queue') = Head(queue)
                      /\ Tail(queue') = Append(Tail(queue), c)
  <2> HIDE DEF c
  <2> QED
    BY <1>1
<1>3. lastSent <= pushed
  <2>1. Len(queue) \in Nat /\ (queue # <<>> => Len(queue) >= 1)
    BY HeadFacts
  <2> QED
    BY <1>1, <2>1 DEF Pacing, SentPrefix
<1>4. Waiting' = Append(Waiting, c)
  <2>1. CASE queue = <<>>
    <3>1. queue' = <<c>> /\ Head(queue') = c /\ queue' # <<>>
      BY <1>1, <2>1
    <3>2. ~(c.id <= lastSent)
      BY <1>1, <1>3
    <3>3. Waiting = <<>> /\ Waiting' = queue'
      BY <1>1, <2>1, <3>1, <3>2 DEF Waiting
    <3> QED
      BY <1>1, <2>1, <3>3
  <2>2. CASE queue # <<>>
    <3>1. queue' # <<>> /\ (Head(queue').id <= lastSent') = (Head(queue).id <= lastSent)
      BY <1>1, <1>2, <2>2
    <3> QED
      BY <1>1, <1>2, <2>2, <3>1 DEF Waiting
  <2> QED
    BY <2>1, <2>2
<1>5. Current' = Current
  <2>1. CASE queue = <<>>
    <3>1. Head(queue') = c /\ c.id # lastSent
      BY <1>1, <1>3, <2>1
    <3> QED
      BY <1>1, <2>1, <3>1 DEF Current
  <2>2. CASE queue # <<>>
    BY <1>1, <1>2, <2>2 DEF Current
  <2> QED
    BY <2>1, <2>2
<1> QED
  BY <1>1, <1>4, <1>5 DEF Service!Submit

\* A pop of a head that is done with changes nothing the service shows.
LEMMA ServicePop ==
  ASSUME Counted, Pacing, Pop, HeadSent, Current = NoCmd, ~HeadSent',
         UNCHANGED <<lastSent, delivered, writekill>>
  PROVE  UNCHANGED Service!svars
<1>1. queue # <<>> /\ Head(queue).id = lastSent
  BY HeadFacts
<1>2. /\ queue \in Seq(Command) /\ cmdc \in Nat /\ pushed \in Nat /\ pushed' = pushed
      /\ lastSent \in Nat
      /\ cmdc = Len(queue) /\ cmdc' = cmdc - 1
      /\ queue' = IF cmdc' > 0 THEN Tail(queue) ELSE <<>>
  BY DEF Counted, TypeOK, CountMatches, Pop
<1>3. queue' = Tail(queue)
  <2>1. /\ Tail(queue) \in Seq(Command) /\ Len(queue) \in Nat /\ Len(queue) >= 1
        /\ Len(Tail(queue)) = Len(queue) - 1
    BY <1>1, <1>2, TailFacts
  <2>2. CASE cmdc' > 0
    BY <1>2, <2>2
  <2>3. CASE ~(cmdc' > 0)
    <3>1. Len(Tail(queue)) = 0
      BY <1>2, <2>1, <2>3
    <3>2. Tail(queue) = <<>>
      BY <2>1, <3>1, EmptyFacts
    <3> QED
      BY <1>2, <2>3, <3>2
  <2> QED
    BY <2>2, <2>3
<1>4. queue' # <<>> => Head(queue').id = lastSent + 1
  <2>1. SUFFICES ASSUME queue' # <<>> PROVE Head(queue').id = lastSent + 1
    OBVIOUS
  <2>2. queue' \in Seq(Command) /\ Len(queue') >= 1 /\ Head(queue') = queue'[1] /\ Len(queue') \in Nat
    BY <1>1, <1>2, <1>3, <2>1, TailFacts
  <2>3. Consecutive' /\ Len(queue') = Len(queue) - 1
    BY <1>1, PopFacts
  <2>4. Head(queue').id = pushed - Len(queue') + 1
    <3>1. 1 \in 1 .. Len(queue')
      BY <2>2
    <3>2. queue'[1].id = pushed' - Len(queue') + 1
      BY <2>3, <3>1 DEF Consecutive
    <3> QED
      BY <1>2, <2>2, <3>2
  <2>5. lastSent + Len(queue) = pushed + 1 /\ Len(queue) \in Nat
    BY HeadFacts DEF Pacing, SentPrefix
  <2>6. pushed - Len(queue') + 1 = lastSent + 1
    <3>1. Len(queue') = Len(queue) - 1 /\ Len(queue') \in Nat
      BY <2>2, <2>3
    <3>2. pushed \in Nat /\ lastSent \in Nat
      BY <1>2
    <3> QED
      BY <2>5, <3>1, <3>2
  <2> QED
    BY <2>4, <2>6
<1>5. Waiting' = Waiting
  <2>1. Waiting = queue'
    <3>1. Head(queue).id <= lastSent
      BY <1>1, <1>2
    <3> QED
      BY <1>1, <1>3, <3>1 DEF Waiting
  <2>2. Waiting' = queue'
    <3>1. CASE queue' = <<>>
      BY <3>1 DEF Waiting
    <3>2. CASE queue' # <<>>
      <4>1. ~(Head(queue').id <= lastSent')
        BY <1>2, <1>4, <3>2
      <4> QED
        BY <4>1 DEF Waiting
    <3> QED
      BY <3>1, <3>2
  <2> QED
    BY <2>1, <2>2
<1>6. Current' = NoCmd
  BY <1>2, <1>4 DEF Current
<1> QED
  BY <1>2, <1>5, <1>6 DEF Service!svars

\* Every step is a step of CommandService or changes nothing it shows.
LEMMA ServiceStep ==
  Counted /\ Pacing /\ Pacing' /\ DeliveryKnown /\ [Next]_vars
    => [Service!Next]_(Service!svars)
<1> SUFFICES ASSUME Counted, Pacing, Pacing', DeliveryKnown, [Next]_vars
             PROVE  Service!Next \/ UNCHANGED Service!svars
  OBVIOUS
<1> USE DEF queueVars, writerVars, readerVars, scopeVars, killVars
<1>p. Consecutive /\ SentPrefix /\ OneAnswer /\ WriterKnows /\ ReaderKnows
  BY DEF Pacing
<1>t. lastSent \in Nat /\ delivered \in Nat /\ queue \in Seq(Command)
  BY DEF Counted, TypeOK
<1>f. ASSUME UNCHANGED <<pushed, queue, lastSent, delivered, writekill>>
      PROVE  UNCHANGED Service!svars
  BY <1>f, ServiceStutter
<1>1. ASSUME NEW t \in Pushers, NEW h \in BOOLEAN, PushStart(t, h) PROVE Service!Next
  <2>1. Enqueue(t, h) /\ UNCHANGED <<lastSent, delivered, writekill>>
    BY <1>1 DEF PushStart
  <2>2. Service!Submit(h)
    BY <2>1, ServiceSubmit
  <2> QED
    BY <2>2 DEF Service!Next
<1>2. ASSUME NEW t \in Pushers \cup {Reader}, PushFinish(t) PROVE UNCHANGED Service!svars
  BY <1>2, <1>f DEF PushFinish
<1>3. CASE WTop \/ WLock \/ WTest \/ WSpurious \/ WGet \/ WBranch \/ WDigest
  BY <1>3, <1>f DEF WTop, WLock, WTest, WSpurious, WGet, WBranch, WDigest
<1>4. CASE WSend
  <2>1. queue # <<>> /\ ~AnswerUnderWay /\ wcmd = Head(queue) /\ wpc = "send"
    BY <1>4, <1>p DEF WSend, WriterKnows
  <2>2. /\ wcmd \in Command /\ wcmd.id = lastSent + 1 /\ wcmd.id # 0
    BY <2>1, HeadFacts DEF HeadSent
  <2>3. wcmd # NoCmd
    BY <2>2 DEF NoCmd
  <2>4. lastSent' = lastSent + 1 /\ UNCHANGED <<queue, pushed, delivered, writekill>>
    BY <1>4, <2>2, <2>3 DEF WSend
  <2>5. Waiting = queue /\ Current = NoCmd
    BY <1>t, <2>1, <2>2 DEF Waiting, Current
  <2>6. Waiting' = Tail(queue)
    BY <1>t, <2>1, <2>2, <2>4 DEF Waiting
  <2>7. Current' = IF Head(queue).hdlr THEN Head(queue) ELSE NoCmd
    <3>1. delivered' # lastSent'
      BY <1>t, <2>4 DEF DeliveryKnown
    <3> QED
      BY <1>t, <2>1, <2>2, <2>4, <3>1 DEF Current
  <2>8. Service!Send
    BY <2>1, <2>4, <2>5, <2>6, <2>7 DEF Service!Send, Service!Nothing, NoCmd
  <2> QED
    BY <2>8 DEF Service!Next
<1>5. CASE WPop
  <2>1. queue # <<>> /\ ~AnswerUnderWay /\ wpc = "pop" /\ wcmd = Head(queue) /\ ~wcmd.hdlr
        /\ HeadSent
    BY <1>5, <1>p DEF WPop, WriterKnows, HeadSent
  <2>2. Pop /\ wpc' = "top" /\ UNCHANGED <<asked, outbox, rpc, lastSent, delivered, writekill>>
    BY <1>5, <2>1 DEF WPop
  <2>3. ~HeadSent'
    BY <2>1, <2>2 DEF HeadSent, AnswerUnderWay
  <2>4. Current = NoCmd
    BY <2>1 DEF Current
  <2> QED
    BY <2>1, <2>2, <2>3, <2>4, ServicePop
<1>6. CASE RTop \/ RRead \/ RTrgDone \/ RGet \/ RDigested
  BY <1>6, <1>f DEF RTop, RRead, RTrgDone, RGet, RDigested
<1>7. CASE RTrgPush
  <2>1. Head(trgleft) \in BOOLEAN
    BY <1>7, TailFacts DEF RTrgPush, Counted, TypeOK
  <2>2. Enqueue(Reader, Head(trgleft)) /\ UNCHANGED <<lastSent, delivered, writekill>>
    BY <1>7 DEF RTrgPush
  <2>3. Service!Submit(Head(trgleft))
    BY <2>1, <2>2, ServiceSubmit
  <2> QED
    BY <2>1, <2>3 DEF Service!Next
<1>8. CASE RHandle
  <2>1. rpc = "hdlr" /\ AnswerUnderWay /\ rcmd = Head(queue) /\ Head(queue).hdlr
    BY <1>8, <1>p DEF RHandle, AnswerUnderWay, OneAnswer, ReaderKnows
  <2>2. queue # <<>> /\ Head(queue).id = lastSent /\ Head(queue).id # 0
    BY <2>1, HeadFacts DEF HeadSent
  <2>3. CASE pkt.kind # "last"
    BY <1>8, <1>f, <2>1, <2>3 DEF RHandle
  <2>4. CASE pkt.kind = "last"
    <3>1. delivered' = Head(queue).id /\ UNCHANGED <<queue, pushed, lastSent, writekill>>
      BY <1>8, <2>1, <2>4 DEF RHandle
    <3>2. delivered # lastSent
      BY <1>t, <2>1 DEF DeliveryKnown
    <3>3. Current = Head(queue) /\ Current # NoCmd
      BY <2>1, <2>2, <3>2 DEF Current, NoCmd
    <3>4. Current' = NoCmd /\ Waiting' = Waiting
      BY <2>2, <3>1 DEF Current, Waiting
    <3>5. Service!Complete
      BY <3>1, <3>3, <3>4 DEF Service!Complete, Service!Nothing, NoCmd
    <3> QED
      BY <3>5 DEF Service!Next
  <2> QED
    BY <2>3, <2>4
<1>9. CASE RPop
  <2>1. rpc = "pop" /\ HeadSent
    BY <1>9 DEF RPop, AnswerUnderWay, HeadSent
  <2>2. queue # <<>>
    BY <2>1, HeadFacts
  <2>3. Pop /\ rpc' = "digested" /\ UNCHANGED <<lastSent, delivered, writekill, asked, outbox, wpc>>
    BY <1>9, <2>2 DEF RPop
  <2>4. Current = NoCmd
    BY <2>1 DEF Current, DeliveryKnown
  <2>5. ~HeadSent'
    <3>1. asked = <<>> /\ \A k \in 1 .. Len(outbox) : outbox[k].kind = "trig"
      BY <1>p, <2>1 DEF OneAnswer
    <3>2. wpc \notin {"sent", "digest", "pop"}
      BY <1>p, <2>1, <3>1 DEF WriterKnows, AnswerUnderWay
    <3> QED
      BY <2>3, <3>1, <3>2 DEF HeadSent, AnswerUnderWay
  <2> QED
    BY <2>1, <2>3, <2>4, <2>5, ServicePop
<1>10. CASE ScopePart \/ ScopeLast \/ ScopeTrig \/ DestroyReadKill \/ DestroyFree
  BY <1>10, <1>f DEF ScopePart, ScopeLast, ScopeTrig, DestroyReadKill, DestroyFree
<1>11. CASE DestroyWriteKill
  <2>1. ~writekill /\ writekill' = TRUE /\ UNCHANGED <<queue, pushed, lastSent, delivered>>
    BY <1>11 DEF DestroyWriteKill
  <2>2. Waiting' = Waiting /\ Current' = Current
    BY <2>1 DEF Waiting, Current
  <2>3. Service!Close
    BY <2>1, <2>2 DEF Service!Close
  <2> QED
    BY <2>3 DEF Service!Next
<1>12. CASE UNCHANGED vars
  BY <1>12, <1>f DEF vars
<1> QED
  BY <1>1, <1>2, <1>3, <1>4, <1>5, <1>6, <1>7, <1>8, <1>9, <1>10, <1>11, <1>12
     DEF Next, WriterStep, ReaderStep

\* The queue with its threads does what CommandService allows, step by step:
\* one command at a time, in order, each answer completed before the next
\* command goes out.
THEOREM ServiceImplemented ==
  ASSUME ~PromptScope
  PROVE  Spec => Service!Init /\ [][Service!Next]_(Service!svars)
<1>1. Init => Service!Init
  BY ServiceInit
<1>2. Init => DeliveryKnown
  BY EmptyFacts DEF Init, DeliveryKnown, AnswerUnderWay
<1>3. Counted /\ Pacing /\ DeliveryKnown /\ [Next]_vars => DeliveryKnown'
  BY DeliveryStep
<1>4. Counted /\ Pacing /\ Pacing' /\ DeliveryKnown /\ [Next]_vars
        => [Service!Next]_(Service!svars)
  BY ServiceStep
<1> QED
  BY <1>1, <1>2, <1>3, <1>4, PacingCorrect, PTL DEF Spec

=============================================================================
