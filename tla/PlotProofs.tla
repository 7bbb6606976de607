------------------------------- MODULE PlotProofs -------------------------------
(***************************************************************************)
(* Proofs about Plot, for any number of channels, samples, commands and    *)
(* connections, and any announcements of the instrument, as long as no     *)
(* connection ends within a frame (Tidy).  What is drawn as which trace    *)
(* needs one batcher as well: README, section 3.                           *)
(***************************************************************************)
EXTENDS Plot, SequenceTheorems, TLAPS

(***************************************************************************)
(* The inductive invariant, first part: the queue and the waveform under   *)
(* way                                                                     *)
(***************************************************************************)

Entry == [id : Nat, hdlr : BOOLEAN]

IsQuery(i) == content[i].kind \in {"wave", "query"}

\* Number of commands sent; the last of them is the one being answered.
Gone == submitted - Len(waiting)

Queue ==
  /\ submitted \in Nat /\ waiting \in Seq(Entry) /\ current \in Entry
  /\ Len(waiting) <= submitted
  /\ \A i \in 1 .. Len(waiting) : waiting[i] = [id |-> Gone + i, hdlr |-> IsQuery(Gone + i)]
  /\ current # Service!Nothing => current.id = Gone /\ Gone >= 1 /\ IsQuery(Gone)
  /\ answer = <<>> <=> current = Service!Nothing

\* Batches are numbered, and every waveform is one of a channel.
Contents ==
  /\ batches <= MaxBatches
  /\ \A t \in Batchers : pos[t] # 1 => batch[t] \in 1 .. batches
  /\ \A i \in 1 .. Len(content) :
       /\ content[i].kind \in {"src", "wave"} => content[i].ch \in 1 .. Chc
       /\ content[i].kind = "wave" => content[i].batch \in 1 .. MaxBatches

\* The waveform that is being sent, and how it may be cut in two.
Wave == Samples(wavesrc, content[Gone].batch)
Fst(r) == SubSeq(Wave, 1, r)
Snd(r) == SubSeq(Wave, r + 1, Points)

\* Some samples of the waveform are missing, and gui_dtwave has complained.
Short == ~panic /\ Len(data) <= Points /\ \A j \in 1 .. Len(data) : data[j].ch = wavesrc

\* gui_dtwave before the announcement, before the samples, between two packets
\* of samples, behind the samples.
Announcing ==
  /\ header /\ data = <<>>
  /\ \E m \in 1 .. Points :
       \/ answer = <<TextPacket(m), DataPacket(Wave), LastPacket>>
       \/ \E r \in 1 .. Points - 1 :
            answer = <<TextPacket(m), DataPacket(Fst(r)), DataPacket(Snd(r)), LastPacket>>

Announced ==
  /\ ~header /\ data = <<>>
  /\ \/ answer = <<DataPacket(Wave), LastPacket>>
     \/ \E r \in 1 .. Points - 1 :
          answer = <<DataPacket(Fst(r)), DataPacket(Snd(r)), LastPacket>>

Between ==
  /\ ~header
  /\ \E r \in 1 .. Points - 1 :
       /\ answer = <<DataPacket(Snd(r)), LastPacket>>
       /\ data = Fst(r) \/ (~panic /\ data = <<>>)

Collected ==
  /\ ~header
  /\ answer = <<LastPacket>>
  /\ data = Wave \/ Short

InWave == current # Service!Nothing /\ content[Gone].kind = "wave"

Handling ==
  /\ InWave => Announcing \/ Announced \/ Between \/ Collected
  /\ ~InWave => header /\ data = <<>>
  /\ current # Service!Nothing /\ content[Gone].kind = "query" => answer = <<LastPacket>>

HInv == TypeOK /\ Queue /\ Contents /\ Handling

(***************************************************************************)
(* The inductive invariant, second part, for one batcher: which waveform   *)
(* is which                                                                *)
(***************************************************************************)

\* No command of a kind from the i-th to the j-th.
NoneIn(kind, i, j) == \A m \in i .. j : content[m].kind # kind

\* The i-th is the last "src" among the first n commands.
LastSrc(i, n) == i \in 1 .. n /\ content[i].kind = "src" /\ NoneIn("src", i + 1, n)

\* The oldest command that is not done with.
First == IF current = Service!Nothing THEN Gone + 1 ELSE Gone

\* The waveforms not done with: the first, the last, two in a row, or none.
IsWave(i) == i \in First .. Len(content) /\ content[i].kind = "wave"
FirstWave(i) == IsWave(i) /\ NoneIn("wave", First, i - 1)
LastWave(i) == IsWave(i) /\ NoneIn("wave", i + 1, Len(content))
NextWave(i, k) == IsWave(i) /\ IsWave(k) /\ i < k /\ NoneIn("wave", i + 1, k - 1)
NoWave == NoneIn("wave", First, Len(content))

Column(i) == (i - 2) \div 3 + 1
Row(i) == (i - 2) % 3

\* The channel of the next waveform a batcher will ask for.
Coming(t) == IF pos[t] = 1 THEN 1 ELSE Column(pos[t])

After(c) == IF c = Chc THEN 1 ELSE c + 1

\* The instrument's source is the channel of every waveform asked for.
Sources ==
  /\ \A j \in 1 .. Gone : LastSrc(j, Gone) => wavesrc = content[j].ch
  /\ \A i \in 1 .. Len(content) : content[i].kind = "wave" =>
       \E j \in 1 .. i : LastSrc(j, i) /\ content[j].ch = content[i].ch
  /\ \A t \in Batchers : pos[t] # 1 /\ Row(pos[t]) # 0 =>
       \E j \in 1 .. Len(content) :
         LastSrc(j, Len(content)) /\ content[j].ch = Column(pos[t])

\* The waveforms come channel by channel and batch by batch, and ch is where
\* they have got to.
Order ==
  /\ \A i \in First .. Len(content) : FirstWave(i) => content[i].ch = ch + 1
  /\ \A t \in Batchers : NoWave => Coming(t) = ch + 1
  /\ \A i, k \in First .. Len(content) : NextWave(i, k) =>
       /\ content[k].ch = After(content[i].ch)
       /\ content[i].ch # Chc => content[k].batch = content[i].batch
  /\ \A t \in Batchers : \A i \in First .. Len(content) : LastWave(i) =>
       /\ Coming(t) = After(content[i].ch)
       /\ content[i].ch # Chc => batch[t] = content[i].batch

\* Every trace of the image shows its channel.
Drawn ==
  \A k \in Traces :
    /\ \A j \in 1 .. Len(image[k]) : image[k][j].ch = k + 1
    /\ panic /\ image[k] # <<>> => \E b \in 1 .. MaxBatches : image[k] = Samples(k + 1, b)

\* The traces drawn so far are of batch b, and so are the ones to come.
OfBatch(b) ==
  /\ \A k \in 0 .. ch - 1 : image[k] = Samples(k + 1, b)
  /\ \A i \in First .. Len(content) : FirstWave(i) => content[i].batch = b
  /\ \A t \in Batchers : NoWave => batch[t] = b

HalfDrawn == panic /\ Points > 1 /\ ch # 0 => \E b \in 1 .. MaxBatches : OfBatch(b)

PInv ==
  /\ HInv
  /\ Sources
  /\ Order
  /\ Drawn
  /\ HalfDrawn
  /\ Points > 1 => FrameIsOneBatch

(***************************************************************************)
(* Batches, waveforms and packets                                          *)
(***************************************************************************)

\* Where in a batch the commands of a channel are.
LEMMA BatchFacts ==
  ASSUME NEW i \in 1 .. BatchLen, NEW b
  PROVE  /\ BatchLen \in Nat /\ BatchLen = 1 + 3 * Chc
         /\ BatchCommand(i, b).batch = b
         /\ i = 1 => BatchCommand(i, b).kind = "set" /\ BatchCommand(i, b).ch = 0
         /\ i # 1 =>
              /\ Column(i) \in 1 .. Chc /\ Row(i) \in 0 .. 2
              /\ i = 3 * (Column(i) - 1) + Row(i) + 2
              /\ BatchCommand(i, b).ch = Column(i)
              /\ Row(i) = 0 => BatchCommand(i, b).kind = "src"
              /\ Row(i) = 1 => BatchCommand(i, b).kind = "set"
              /\ Row(i) = 2 => BatchCommand(i, b).kind = "wave"
<1>1. Chc \in Nat \ {0} /\ BatchLen \in Nat /\ BatchLen = 1 + 3 * Chc /\ i \in Nat /\ i <= 1 + 3 * Chc
  BY PlotAssumption DEF BatchLen
<1>2. BatchCommand(i, b).batch = b
  BY DEF BatchCommand
<1>3. i = 1 => BatchCommand(i, b).kind = "set" /\ BatchCommand(i, b).ch = 0
  BY DEF BatchCommand
<1>4. ASSUME i # 1
      PROVE  /\ Column(i) \in 1 .. Chc /\ Row(i) \in 0 .. 2
             /\ i = 3 * (Column(i) - 1) + Row(i) + 2
             /\ BatchCommand(i, b).ch = Column(i)
             /\ Row(i) = 0 => BatchCommand(i, b).kind = "src"
             /\ Row(i) = 1 => BatchCommand(i, b).kind = "set"
             /\ Row(i) = 2 => BatchCommand(i, b).kind = "wave"
  <2>1. Column(i) \in 1 .. Chc /\ Row(i) \in 0 .. 2 /\ i = 3 * (Column(i) - 1) + Row(i) + 2
    BY <1>1, <1>4 DEF Column, Row
  <2>2. /\ BatchCommand(i, b).ch = Column(i)
        /\ BatchCommand(i, b).kind = <<"src", "set", "wave">>[Row(i) + 1]
    BY <1>4 DEF BatchCommand, Column, Row
  <2>3. /\ Row(i) = 0 => BatchCommand(i, b).kind = "src"
        /\ Row(i) = 1 => BatchCommand(i, b).kind = "set"
        /\ Row(i) = 2 => BatchCommand(i, b).kind = "wave"
    BY <2>2
  <2> QED
    BY <2>1, <2>2, <2>3
<1> QED
  BY <1>1, <1>2, <1>3, <1>4

\* What a batch pushes are commands.
LEMMA BatchTyped ==
  ASSUME NEW i \in 1 .. BatchLen, NEW b \in Nat
  PROVE  BatchCommand(i, b) \in Commands
<1>1. /\ BatchCommand(i, b).batch = b
      /\ BatchCommand(i, b).kind \in {"set", "src", "wave"} /\ BatchCommand(i, b).ch \in Nat
  <2>1. CASE i = 1
    BY <2>1, BatchFacts
  <2>2. CASE i # 1
    <3>1. /\ Column(i) \in Nat /\ Row(i) \in 0 .. 2
          /\ BatchCommand(i, b).ch = Column(i)
          /\ Row(i) = 0 => BatchCommand(i, b).kind = "src"
          /\ Row(i) = 1 => BatchCommand(i, b).kind = "set"
          /\ Row(i) = 2 => BatchCommand(i, b).kind = "wave"
      BY <2>2, BatchFacts
    <3> QED
      BY <3>1, BatchFacts
  <2> QED
    BY <2>1, <2>2
<1>2. BatchCommand(i, b) =
        [kind |-> BatchCommand(i, b).kind, ch |-> BatchCommand(i, b).ch, batch |-> BatchCommand(i, b).batch]
  BY DEF BatchCommand
<1> QED
  BY <1>1, <1>2 DEF Commands

\* A waveform.
LEMMA SamplesFacts ==
  ASSUME NEW c \in Nat, NEW b \in Nat
  PROVE  /\ Samples(c, b) \in Seq(Bytes) /\ Len(Samples(c, b)) = Points
         /\ \A j \in 1 .. Points : Samples(c, b)[j].ch = c
<1> DEFINE e(j) == [ch |-> c, batch |-> b, rank |-> j]
<1>1. Points \in Nat
  BY PlotAssumption
<1>2. \A j \in 1 .. Points : e(j) \in Bytes
  BY DEF Bytes
<1>3. \A j \in 1 .. Points : e(j).ch = c
  OBVIOUS
<1> HIDE DEF e
<1>4. [j \in 1 .. Points |-> e(j)] \in Seq(Bytes)
  BY <1>1, <1>2, IsASeq
<1>5. Samples(c, b) = [j \in 1 .. Points |-> e(j)]
  BY DEF Samples, e
<1>6. Len(Samples(c, b)) = Points
  BY <1>1, <1>4, <1>5
<1> QED
  BY <1>3, <1>4, <1>5, <1>6

\* A waveform of channel c cut in two.
LEMMA CutFacts ==
  ASSUME NEW c, NEW w \in Seq(Bytes), Len(w) = Points, \A j \in 1 .. Points : w[j].ch = c,
         NEW r \in 1 .. Points - 1
  PROVE  /\ SubSeq(w, 1, r) \in Seq(Bytes) /\ Len(SubSeq(w, 1, r)) = r
         /\ \A j \in 1 .. r : SubSeq(w, 1, r)[j].ch = c
         /\ SubSeq(w, r + 1, Points) \in Seq(Bytes) /\ Len(SubSeq(w, r + 1, Points)) = Points - r
         /\ \A j \in 1 .. Points - r : SubSeq(w, r + 1, Points)[j].ch = c
         /\ SubSeq(w, 1, r) \o SubSeq(w, r + 1, Points) = w
<1>1. Points \in Nat /\ r \in Nat /\ r >= 1 /\ r < Points
  BY PlotAssumption
<1>2. \A j \in 1 .. Points : w[j] \in Bytes
  OBVIOUS
<1>a. PICK a : a = SubSeq(w, 1, r)
  OBVIOUS
<1>b. PICK b : b = SubSeq(w, r + 1, Points)
  OBVIOUS
<1>3. a \in Seq(Bytes) /\ Len(a) = r /\ \A j \in 1 .. r : a[j] = w[j]
  <2>1. 1 \in Int /\ r \in Int /\ \A j \in 1 .. r : w[j] \in Bytes
    BY <1>1, <1>2
  <2>2. /\ SubSeq(w, 1, r) \in Seq(Bytes)
        /\ Len(SubSeq(w, 1, r)) = IF 1 <= r THEN r - 1 + 1 ELSE 0
        /\ \A i \in 1 .. r - 1 + 1 : SubSeq(w, 1, r)[i] = w[1 + i - 1]
    BY <2>1, SubSeqProperties
  <2> QED
    BY <1>1, <1>a, <2>2
<1>4. b \in Seq(Bytes) /\ Len(b) = Points - r /\ \A j \in 1 .. Points - r : b[j] = w[r + j]
  <2>1. r + 1 \in Int /\ Points \in Int /\ \A j \in r + 1 .. Points : w[j] \in Bytes
    BY <1>1, <1>2
  <2>2. /\ SubSeq(w, r + 1, Points) \in Seq(Bytes)
        /\ Len(SubSeq(w, r + 1, Points)) = IF r + 1 <= Points THEN Points - (r + 1) + 1 ELSE 0
        /\ \A i \in 1 .. Points - (r + 1) + 1 : SubSeq(w, r + 1, Points)[i] = w[(r + 1) + i - 1]
    BY <2>1, SubSeqProperties
  <2> QED
    BY <1>1, <1>b, <2>2
<1>5. \A j \in 1 .. r : a[j].ch = c
  <2> SUFFICES ASSUME NEW j \in 1 .. r PROVE a[j].ch = c
    OBVIOUS
  <2>1. j \in 1 .. Points
    BY <1>1
  <2> QED
    BY <1>3, <2>1
<1>6. \A j \in 1 .. Points - r : b[j].ch = c
  <2> SUFFICES ASSUME NEW j \in 1 .. Points - r PROVE b[j].ch = c
    OBVIOUS
  <2>1. r + j \in 1 .. Points
    BY <1>1
  <2> QED
    BY <1>4, <2>1
<1>7. /\ a \o b \in Seq(Bytes) /\ Len(a \o b) = Points
      /\ \A i \in 1 .. Points : (a \o b)[i] = IF i <= r THEN a[i] ELSE b[i - r]
  <2>1. /\ a \o b \in Seq(Bytes)
        /\ Len(a \o b) = Len(a) + Len(b)
        /\ \A i \in 1 .. Len(a) + Len(b) :
             (a \o b)[i] = IF i <= Len(a) THEN a[i] ELSE b[i - Len(a)]
    BY <1>3, <1>4, ConcatProperties, ZenonT(60)
  <2>2. Len(a) + Len(b) = Points
    BY <1>1, <1>3, <1>4
  <2> QED
    BY <1>3, <2>1, <2>2
<1>8. ASSUME NEW i \in 1 .. Points PROVE (a \o b)[i] = w[i]
  <2>1. CASE i <= r
    BY <1>1, <1>3, <1>7, <2>1
  <2>2. CASE ~(i <= r)
    <3>1. i - r \in 1 .. Points - r /\ r + (i - r) = i
      BY <1>1, <2>2
    <3> QED
      BY <1>4, <1>7, <2>2, <3>1
  <2> QED
    BY <2>1, <2>2
<1>9. a \o b = w
  BY <1>7, <1>8, SeqEqual
<1> QED
  BY <1>3, <1>4, <1>5, <1>6, <1>9, <1>a, <1>b

\* A packet of samples fits into gui->data.
LEMMA ClippedFacts ==
  ASSUME NEW d \in Seq(Bytes), Len(d) <= Points
  PROVE  Clipped(d) = d
<1>1. Len(d) \in Nat /\ Points \in Nat /\ PntMax \in Nat /\ PntMax >= Points
  BY PlotAssumption
<1>2. CASE Len(d) < PntMax
  BY <1>2 DEF Clipped
<1>3. CASE ~(Len(d) < PntMax)
  <2>1. Clipped(d) = SubSeq(d, 1, PntMax)
    BY <1>3 DEF Clipped
  <2>2. Len(d) = PntMax
    BY <1>1, <1>3
  <2>3. 1 \in Int /\ PntMax \in Int /\ \A j \in 1 .. PntMax : d[j] \in Bytes
    BY <1>1, <2>2
  <2>4. /\ SubSeq(d, 1, PntMax) \in Seq(Bytes)
        /\ Len(SubSeq(d, 1, PntMax)) = IF 1 <= PntMax THEN PntMax - 1 + 1 ELSE 0
        /\ \A i \in 1 .. PntMax - 1 + 1 : SubSeq(d, 1, PntMax)[i] = d[1 + i - 1]
    BY <2>3, SubSeqProperties
  <2>5. Len(SubSeq(d, 1, PntMax)) = Len(d)
    BY <1>1, <2>2, <2>4
  <2>6. \A i \in 1 .. Len(d) : SubSeq(d, 1, PntMax)[i] = d[i]
    BY <1>1, <2>2, <2>4
  <2>7. SubSeq(d, 1, PntMax) = d
    BY <2>4, <2>5, <2>6, SeqEqual
  <2> QED
    BY <2>1, <2>7
<1> QED
  BY <1>2, <1>3

Packet == [last : BOOLEAN, bytes : Seq(Bytes), says : Nat]

\* What the packets of an answer are.
LEMMA PacketFacts ==
  /\ LastPacket \in Packet /\ LastPacket.last /\ LastPacket.says = 0
  /\ \A m \in Nat : TextPacket(m) \in Packet /\ ~TextPacket(m).last /\ TextPacket(m).says = m
  /\ \A d \in Seq(Bytes) : /\ DataPacket(d) \in Packet /\ ~DataPacket(d).last
                           /\ DataPacket(d).says = 0 /\ DataPacket(d).bytes = d
<1>1. TextByte \in Bytes
  BY DEF TextByte, Bytes
<1>2. <<TextByte>> \in Seq(Bytes)
  BY <1>1
<1>3. LastPacket \in Packet /\ LastPacket.last /\ LastPacket.says = 0
  BY <1>2 DEF LastPacket, Packet
<1>4. ASSUME NEW m \in Nat
      PROVE  TextPacket(m) \in Packet /\ ~TextPacket(m).last /\ TextPacket(m).says = m
  <2>1. TextLen \in Nat /\ \A i \in 1 .. TextLen : TextByte \in Bytes
    BY <1>1, PlotAssumption
  <2>2. [i \in 1 .. TextLen |-> TextByte] \in Seq(Bytes)
    BY <2>1, IsASeq
  <2> QED
    BY <2>2 DEF TextPacket, Packet
<1>5. ASSUME NEW d \in Seq(Bytes)
      PROVE  DataPacket(d) \in Packet /\ ~DataPacket(d).last
             /\ DataPacket(d).says = 0 /\ DataPacket(d).bytes = d
  BY DEF DataPacket, Packet
<1> QED
  BY <1>3, <1>4, <1>5

\* Sequences of one to four elements, and what remains without the first.
LEMMA TupleFacts ==
  ASSUME NEW S, NEW a \in S, NEW b \in S, NEW c \in S, NEW d \in S
  PROVE  /\ <<a>> \in Seq(S) /\ <<a>> # <<>> /\ Head(<<a>>) = a /\ Tail(<<a>>) = <<>>
         /\ <<a, b>> \in Seq(S) /\ <<a, b>> # <<>> /\ Head(<<a, b>>) = a /\ Tail(<<a, b>>) = <<b>>
         /\ <<a, b, c>> \in Seq(S) /\ <<a, b, c>> # <<>>
         /\ Head(<<a, b, c>>) = a /\ Tail(<<a, b, c>>) = <<b, c>>
         /\ <<a, b, c, d>> \in Seq(S) /\ <<a, b, c, d>> # <<>>
         /\ Head(<<a, b, c, d>>) = a /\ Tail(<<a, b, c, d>>) = <<b, c, d>>
<1>1. <<a>> \in Seq(S) /\ <<a>> # <<>> /\ Head(<<a>>) = a
  OBVIOUS
<1>2. Tail(<<a>>) = <<>>
  OBVIOUS
<1>3. <<a, b>> \in Seq(S) /\ <<a, b>> # <<>> /\ Head(<<a, b>>) = a
  OBVIOUS
<1>4. Tail(<<a, b>>) = <<b>>
  OBVIOUS
<1>5. <<a, b, c>> \in Seq(S) /\ <<a, b, c>> # <<>> /\ Head(<<a, b, c>>) = a
  OBVIOUS
<1>6. Tail(<<a, b, c>>) = <<b, c>>
  OBVIOUS
<1>7. <<a, b, c, d>> \in Seq(S) /\ <<a, b, c, d>> # <<>> /\ Head(<<a, b, c, d>>) = a
  OBVIOUS
<1>8. Tail(<<a, b, c, d>>) = <<b, c, d>>
  OBVIOUS
<1> QED
  BY <1>1, <1>2, <1>3, <1>4, <1>5, <1>6, <1>7, <1>8, Zenon

\* Three packets in a row.
LEMMA JoinedThree ==
  ASSUME NEW S, NEW a \in S, NEW b \in S, NEW c \in S
  PROVE  <<a>> \o <<b>> = <<a, b>> /\ <<a>> \o <<b>> \o <<c>> = <<a, b, c>>
<1>1. <<a>> \o <<b>> = <<a, b>>
  <2>1. <<a>> \in Seq(S) /\ <<b>> \in Seq(S) /\ <<a, b>> \in Seq(S)
    OBVIOUS
  <2>2. PICK t : t = <<a>> \o <<b>>
    OBVIOUS
  <2>3. t \in Seq(S) /\ Len(t) = 2 /\ t[1] = a /\ t[2] = b
    BY <2>1, <2>2, ConcatProperties
  <2>4. \A i \in 1 .. 2 : t[i] = <<a, b>>[i]
    BY <2>3
  <2> QED
    BY <2>1, <2>2, <2>3, <2>4, SeqEqual
<1>2. <<a, b>> \o <<c>> = <<a, b, c>>
  <2>1. <<a, b>> \in Seq(S) /\ <<c>> \in Seq(S) /\ <<a, b, c>> \in Seq(S)
    OBVIOUS
  <2>2. PICK t : t = <<a, b>> \o <<c>>
    OBVIOUS
  <2>3. t \in Seq(S) /\ Len(t) = 3 /\ t[1] = a /\ t[2] = b /\ t[3] = c
    BY <2>1, <2>2, ConcatProperties
  <2>4. \A i \in 1 .. 3 : t[i] = <<a, b, c>>[i]
    BY <2>3
  <2> QED
    BY <2>1, <2>2, <2>3, <2>4, SeqEqual
<1> QED
  BY <1>1, <1>2, Zenon

\* Four packets in a row.
LEMMA JoinedFour ==
  ASSUME NEW S, NEW a \in S, NEW b \in S, NEW c \in S, NEW d \in S
  PROVE  <<a>> \o <<b, c>> \o <<d>> = <<a, b, c, d>>
<1>1. <<a>> \in Seq(S) /\ <<b>> \in Seq(S) /\ <<c>> \in Seq(S) /\ <<d>> \in Seq(S)
  OBVIOUS
<1>2. <<a>> \o <<b, c>> = <<a, b, c>>
  <2>1. (<<a>> \o <<b>>) \o <<c>> = <<a>> \o (<<b>> \o <<c>>)
    BY <1>1, ConcatAssociative
  <2>2. <<a>> \o <<b>> \o <<c>> = <<a, b, c>>
    BY JoinedThree
  <2>3. <<b>> \o <<c>> = <<b, c>>
    BY JoinedThree
  <2> QED
    BY <2>1, <2>2, <2>3, Zenon
<1>3. <<a, b, c>> \o <<d>> = <<a, b, c, d>>
  <2>1. <<a, b, c>> \in Seq(S) /\ <<a, b, c, d>> \in Seq(S)
    OBVIOUS
  <2>2. PICK t : t = <<a, b, c>> \o <<d>>
    OBVIOUS
  <2>3. t \in Seq(S) /\ Len(t) = 4 /\ t[1] = a /\ t[2] = b /\ t[3] = c /\ t[4] = d
    BY <1>1, <2>1, <2>2, ConcatProperties
  <2>4. \A i \in 1 .. 4 : t[i] = <<a, b, c, d>>[i]
    BY <2>3
  <2> QED
    BY <2>1, <2>2, <2>3, <2>4, SeqEqual
<1> QED
  BY <1>2, <1>3, Zenon

\* What the instrument sends: a waveform in two or three packets before the
\* last, a newline, nothing.
LEMMA AnswersFacts ==
  ASSUME NEW cmd, NEW a \in Answers(cmd), wavesrc \in Nat, NEW w,
         w = Samples(wavesrc, cmd.batch), cmd.kind = "wave" => cmd.batch \in Nat
  PROVE  /\ cmd.kind = "wave" => \E m \in 1 .. Points :
              \/ a = <<TextPacket(m), DataPacket(w), LastPacket>>
              \/ \E r \in 1 .. Points - 1 :
                   a = <<TextPacket(m), DataPacket(SubSeq(w, 1, r)),
                         DataPacket(SubSeq(w, r + 1, Points)), LastPacket>>
         /\ cmd.kind = "query" => a = <<LastPacket>>
         /\ cmd.kind \notin {"wave", "query"} => a = <<>>
<1>1. ASSUME cmd.kind = "wave"
      PROVE  \E m \in 1 .. Points :
              \/ a = <<TextPacket(m), DataPacket(w), LastPacket>>
              \/ \E r \in 1 .. Points - 1 :
                   a = <<TextPacket(m), DataPacket(SubSeq(w, 1, r)),
                         DataPacket(SubSeq(w, r + 1, Points)), LastPacket>>
  <2>1. a \in {<<TextPacket(n)>> \o packets \o <<LastPacket>> :
                 n \in IF Honest THEN {Points} ELSE 1 .. Points, packets \in InPackets(w)}
    BY <1>1, SMTT(40) DEF Answers
  <2>2. PICK n \in IF Honest THEN {Points} ELSE 1 .. Points, q \in InPackets(w) :
          a = <<TextPacket(n)>> \o q \o <<LastPacket>>
    BY <2>1
  <2>3. n \in 1 .. Points /\ n \in Nat
    BY <2>2, PlotAssumption
  <2>4. TextPacket(n) \in Packet /\ LastPacket \in Packet
    BY <2>3, PacketFacts
  <2>5. w \in Seq(Bytes) /\ Len(w) = Points /\ \A j \in 1 .. Points : w[j].ch = wavesrc
    BY <1>1, SamplesFacts
  <2>6. CASE q = <<DataPacket(w)>>
    <3>1. DataPacket(w) \in Packet
      BY <2>5, PacketFacts
    <3>2. <<TextPacket(n)>> \o <<DataPacket(w)>> \o <<LastPacket>>
            = <<TextPacket(n), DataPacket(w), LastPacket>>
      BY <2>4, <3>1, JoinedThree
    <3> QED
      BY <2>2, <2>3, <2>6, <3>2, Zenon
  <2>7. CASE q \in {<<DataPacket(SubSeq(w, 1, k)), DataPacket(SubSeq(w, k + 1, Points))>> :
                      k \in 1 .. Points - 1}
    <3>1. PICK r \in 1 .. Points - 1 :
            q = <<DataPacket(SubSeq(w, 1, r)), DataPacket(SubSeq(w, r + 1, Points))>>
      BY <2>7
    <3>2. SubSeq(w, 1, r) \in Seq(Bytes) /\ SubSeq(w, r + 1, Points) \in Seq(Bytes)
      BY <2>5, CutFacts
    <3>3. DataPacket(SubSeq(w, 1, r)) \in Packet /\ DataPacket(SubSeq(w, r + 1, Points)) \in Packet
      BY <3>2, PacketFacts
    <3>4. PICK d, e : d = DataPacket(SubSeq(w, 1, r)) /\ e = DataPacket(SubSeq(w, r + 1, Points))
      OBVIOUS
    <3>5. d \in Packet /\ e \in Packet
      BY <3>3, <3>4
    <3>6. <<TextPacket(n)>> \o <<d, e>> \o <<LastPacket>> = <<TextPacket(n), d, e, LastPacket>>
      BY <2>4, <3>5, JoinedFour
    <3>7. a = <<TextPacket(n), d, e, LastPacket>>
      BY <2>2, <3>1, <3>4, <3>6, Zenon
    <3> QED
      BY <2>3, <3>4, <3>7, Zenon
  <2> QED
    BY <2>2, <2>6, <2>7 DEF InPackets
<1>2. cmd.kind = "query" => a = <<LastPacket>>
  BY DEF Answers
<1>3. cmd.kind \notin {"wave", "query"} => a = <<>>
  BY DEF Answers
<1> QED
  BY <1>1, <1>2, <1>3

(***************************************************************************)
(* What HInv says of the state a step starts from                          *)
(***************************************************************************)

\* The command that is answered, and the one that goes out next.
LEMMA QueueFacts ==
  HInv =>
    /\ submitted \in Nat /\ Len(content) = submitted /\ Len(waiting) \in Nat
    /\ Gone \in 0 .. submitted
    /\ current # Service!Nothing =>
         /\ current.id = Gone /\ Gone \in 1 .. Len(content) /\ IsQuery(Gone)
         /\ answer # <<>>
    /\ current = Service!Nothing => answer = <<>>
    /\ waiting # <<>> =>
         /\ Gone + 1 \in 1 .. Len(content)
         /\ Head(waiting) = [id |-> Gone + 1, hdlr |-> IsQuery(Gone + 1)]
<1> SUFFICES ASSUME HInv PROVE
    /\ submitted \in Nat /\ Len(content) = submitted /\ Len(waiting) \in Nat
    /\ Gone \in 0 .. submitted
    /\ current # Service!Nothing =>
         /\ current.id = Gone /\ Gone \in 1 .. Len(content) /\ IsQuery(Gone)
         /\ answer # <<>>
    /\ current = Service!Nothing => answer = <<>>
    /\ waiting # <<>> =>
         /\ Gone + 1 \in 1 .. Len(content)
         /\ Head(waiting) = [id |-> Gone + 1, hdlr |-> IsQuery(Gone + 1)]
  OBVIOUS
<1>1. /\ submitted \in Nat /\ Len(content) = submitted /\ waiting \in Seq(Entry)
      /\ Len(waiting) <= submitted
  BY DEF HInv, TypeOK, Queue
<1>2. Len(waiting) \in Nat /\ Gone \in 0 .. submitted
  BY <1>1 DEF Gone
<1>3. current # Service!Nothing =>
         /\ current.id = Gone /\ Gone >= 1 /\ IsQuery(Gone) /\ answer # <<>>
  BY DEF HInv, Queue
<1>4. current = Service!Nothing => answer = <<>>
  BY DEF HInv, Queue
<1>5. ASSUME waiting # <<>>
      PROVE  /\ Gone + 1 \in 1 .. Len(content)
             /\ Head(waiting) = [id |-> Gone + 1, hdlr |-> IsQuery(Gone + 1)]
  <2>1. Len(waiting) \in Nat /\ Len(waiting) >= 1 /\ Head(waiting) = waiting[1]
    BY <1>1, <1>5
  <2>2. waiting[1] = [id |-> Gone + 1, hdlr |-> IsQuery(Gone + 1)]
    BY <2>1 DEF HInv, Queue
  <2>3. Gone + 1 \in 1 .. Len(content)
    BY <1>1, <2>1 DEF Gone
  <2> QED
    BY <2>1, <2>2, <2>3
<1> QED
  BY <1>1, <1>2, <1>3, <1>4, <1>5

\* The waveform that is being sent is a waveform.
LEMMA WaveFacts ==
  HInv /\ InWave =>
    /\ wavesrc \in Nat /\ content[Gone].batch \in 1 .. MaxBatches /\ Points \in Nat /\ Points >= 1
    /\ Wave \in Seq(Bytes) /\ Len(Wave) = Points
    /\ \A j \in 1 .. Points : Wave[j].ch = wavesrc
<1> SUFFICES ASSUME HInv, InWave PROVE
    /\ wavesrc \in Nat /\ content[Gone].batch \in 1 .. MaxBatches /\ Points \in Nat /\ Points >= 1
    /\ Wave \in Seq(Bytes) /\ Len(Wave) = Points
    /\ \A j \in 1 .. Points : Wave[j].ch = wavesrc
  OBVIOUS
<1>1. Gone \in 1 .. Len(content) /\ content[Gone].kind = "wave"
  BY QueueFacts DEF InWave
<1>2. content[Gone].batch \in 1 .. MaxBatches
  BY <1>1 DEF HInv, Contents
<1>3. wavesrc \in Nat /\ content[Gone].batch \in Nat /\ Points \in Nat /\ Points >= 1
  BY <1>2, PlotAssumption DEF HInv, TypeOK
<1>4. /\ Wave \in Seq(Bytes) /\ Len(Wave) = Points
      /\ \A j \in 1 .. Points : Wave[j].ch = wavesrc
  BY <1>3, SamplesFacts DEF Wave
<1> QED
  BY <1>2, <1>3, <1>4

\* In which state of gui_dtwave the statics and the answer are.
LEMMA HandlingFacts ==
  HInv =>
    /\ header => data = <<>>
    /\ InWave /\ header => Announcing
    /\ InWave /\ ~header => Announced \/ Between \/ Collected
    /\ ~InWave => header
BY DEF HInv, Handling, Announcing, Announced, Between, Collected

\* Handling is about the command being answered, the answer and the statics.
LEMMA HandlingSame ==
  ASSUME HInv, Gone' = Gone, UNCHANGED <<current, answer, wavesrc, header, data, panic>>,
         current # Service!Nothing => content'[Gone] = content[Gone]
  PROVE  Handling'
<1>1. InWave' <=> InWave
  BY DEF InWave, Service!Nothing
<1>2. ASSUME InWave PROVE Wave' = Wave
  BY <1>2 DEF InWave, Wave, Samples
<1>3. ASSUME InWave PROVE (Announcing \/ Announced \/ Between \/ Collected)'
  <2>1. Announcing \/ Announced \/ Between \/ Collected
    BY <1>3 DEF HInv, Handling
  <2>2. CASE Announcing
    BY <1>2, <1>3, <2>2 DEF Announcing, Fst, Snd
  <2>3. CASE Announced
    BY <1>2, <1>3, <2>3 DEF Announced, Fst, Snd
  <2>4. CASE Between
    BY <1>2, <1>3, <2>4 DEF Between, Fst, Snd
  <2>5. CASE Collected
    BY <1>2, <1>3, <2>5 DEF Collected, Short
  <2> QED
    BY <2>1, <2>2, <2>3, <2>4, <2>5
<1>4. ~InWave => header /\ data = <<>>
  BY DEF HInv, Handling
<1>5. (current # Service!Nothing /\ content[Gone].kind = "query" => answer = <<LastPacket>>)'
  BY DEF HInv, Handling, Service!Nothing
<1> QED
  BY <1>1, <1>3, <1>4, <1>5 DEF Handling

(***************************************************************************)
(* HInv, action by action                                                  *)
(***************************************************************************)

\* At the start nothing is queued and gui_dtwave waits for an announcement.
LEMMA HInvInit == Init => HInv
<1> SUFFICES ASSUME Init PROVE HInv
  OBVIOUS
<1>1. Chc \in Nat /\ Chc >= 1 /\ BatchLen \in Nat /\ BatchLen >= 1
  BY PlotAssumption DEF BatchLen
<1>2. TypeOK
  <2>1. content \in Seq(Commands) /\ Len(content) = submitted
    BY DEF Init, Service!Init
  <2>2. /\ pos \in [Batchers -> 1 .. BatchLen] /\ batch \in [Batchers -> Nat]
        /\ batches \in Nat /\ others \in Nat /\ reconnects \in Nat /\ wavesrc \in 1 .. Chc
    BY <1>1 DEF Init
  <2>3. answer \in Seq(Packet) /\ data \in Seq(Bytes)
    BY DEF Init
  <2>4. image \in [Traces -> Seq(Bytes)] /\ frame \in [Traces -> Seq(Bytes)]
    BY DEF Init, Blank
  <2>5. ch \in Traces /\ len \in Nat /\ frames \in Nat
    BY <1>1 DEF Init, Traces
  <2>6. header \in BOOLEAN /\ panic \in BOOLEAN
    BY Zenon DEF Init
  <2> QED
    BY <2>1, <2>2, <2>3, <2>4, <2>5, <2>6 DEF TypeOK, Packet
<1>3. Queue
  BY DEF Init, Service!Init, Service!Nothing, Queue, Entry, Gone
<1>4. Contents
  BY PlotAssumption DEF Init, Contents
<1>5. Handling
  BY DEF Init, Service!Init, Handling, InWave
<1> QED
  BY <1>2, <1>3, <1>4, <1>5 DEF HInv

\* A command is put at the end of the queue.
LEMMA Pushed ==
  ASSUME HInv, NEW cmd \in Commands, Push(cmd), UNCHANGED answer
  PROVE  /\ content' \in Seq(Commands) /\ Len(content') = submitted'
         /\ Len(content') = Len(content) + 1
         /\ \A i \in 1 .. Len(content) : content'[i] = content[i]
         /\ content'[Len(content) + 1] = cmd
         /\ Gone' = Gone /\ UNCHANGED current
         /\ Queue'
<1>1. /\ submitted \in Nat /\ content \in Seq(Commands) /\ Len(content) = submitted
      /\ waiting \in Seq(Entry) /\ current \in Entry /\ Len(waiting) <= submitted
      /\ Len(waiting) \in Nat
  BY DEF HInv, TypeOK, Queue
<1>2. PICK e : e = [id |-> submitted + 1, hdlr |-> cmd.kind \in {"wave", "query"}]
  OBVIOUS
<1>3. /\ submitted' = submitted + 1 /\ waiting' = Append(waiting, e)
      /\ content' = Append(content, cmd) /\ UNCHANGED current
  BY <1>2 DEF Push, Service!Submit
<1>4. e \in Entry
  BY <1>1, <1>2 DEF Entry
<1>5. /\ content' \in Seq(Commands) /\ Len(content') = Len(content) + 1
      /\ \A i \in 1 .. Len(content) : content'[i] = content[i]
      /\ content'[Len(content) + 1] = cmd
  BY <1>1, <1>3, AppendProperties
<1>6. /\ waiting' \in Seq(Entry) /\ Len(waiting') = Len(waiting) + 1
      /\ \A i \in 1 .. Len(waiting) : waiting'[i] = waiting[i]
      /\ waiting'[Len(waiting) + 1] = e
  BY <1>1, <1>3, <1>4, AppendProperties
<1>7. Gone' = Gone /\ Gone \in Nat /\ Gone + Len(waiting) = submitted
  BY <1>1, <1>3, <1>6 DEF Gone
<1>8. ASSUME NEW i \in 1 .. Len(waiting')
      PROVE  waiting'[i] = [id |-> Gone + i, hdlr |-> IsQuery(Gone + i)']
  <2>1. CASE i \in 1 .. Len(waiting)
    <3>1. waiting[i] = [id |-> Gone + i, hdlr |-> IsQuery(Gone + i)]
      BY <2>1 DEF HInv, Queue
    <3>2. Gone + i \in 1 .. Len(content)
      BY <1>1, <1>7, <2>1
    <3>3. IsQuery(Gone + i)' = IsQuery(Gone + i)
      BY <1>5, <1>7, <3>2 DEF IsQuery
    <3> QED
      BY <1>6, <2>1, <3>1, <3>3
  <2>2. CASE i = Len(waiting) + 1
    <3>1. Gone + i = submitted + 1 /\ Len(content) + 1 = submitted + 1
      BY <1>1, <1>7, <2>2
    <3>2. IsQuery(Gone + i)' = (cmd.kind \in {"wave", "query"})
      BY <1>5, <1>7, <3>1 DEF IsQuery
    <3> QED
      BY <1>2, <1>6, <2>2, <3>1, <3>2
  <2> QED
    BY <1>1, <1>6, <2>1, <2>2
<1>9. (current # Service!Nothing => current.id = Gone /\ Gone >= 1 /\ IsQuery(Gone))'
  <2> SUFFICES ASSUME current # Service!Nothing
               PROVE  current.id = Gone /\ Gone >= 1 /\ IsQuery(Gone)'
    BY <1>3, <1>7 DEF Service!Nothing
  <2>1. current.id = Gone /\ Gone \in 1 .. Len(content) /\ IsQuery(Gone)
    BY QueueFacts
  <2>2. IsQuery(Gone)' = IsQuery(Gone)
    BY <1>5, <1>7, <2>1 DEF IsQuery
  <2> QED
    BY <1>7, <2>1, <2>2
<1>10. (answer = <<>> <=> current = Service!Nothing)'
  BY <1>3 DEF HInv, Queue, Service!Nothing
<1>11. Len(waiting') <= submitted' /\ submitted' \in Nat /\ current' \in Entry
  BY <1>1, <1>3, <1>6
<1>12. Queue'
  <2>1. \A i \in 1 .. Len(waiting') : waiting'[i] = [id |-> Gone' + i, hdlr |-> IsQuery(Gone + i)']
    BY <1>7, <1>8
  <2> QED
    BY <1>6, <1>9, <1>10, <1>11, <2>1 DEF Queue
<1> QED
  BY <1>1, <1>3, <1>5, <1>7, <1>12

\* A batcher pushes the next command of its batch.
LEMMA PushBatchFacts ==
  ASSUME HInv, NEW t \in Batchers, PushBatch(t)
  PROVE  /\ batches' \in Nat /\ batches' >= batches /\ batches' <= MaxBatches
         /\ batch' \in [Batchers -> Nat] /\ batch'[t] \in 1 .. batches'
         /\ \A u \in Batchers : u # t => batch'[u] = batch[u]
         /\ pos[t] # 1 => batch'[t] = batch[t]
         /\ BatchCommand(pos[t], batch'[t]) \in Commands
         /\ Push(BatchCommand(pos[t], batch'[t]))
         /\ pos' = [pos EXCEPT ![t] = IF @ = BatchLen THEN 1 ELSE @ + 1]
         /\ pos[t] \in 1 .. BatchLen
         /\ UNCHANGED <<others, reconnects, wavesrc, answer, plotVars>>
<1>1. /\ pos[t] \in 1 .. BatchLen /\ batch[t] \in Nat /\ batches \in Nat
      /\ batch \in [Batchers -> Nat] /\ MaxBatches \in Nat
  BY PlotAssumption DEF HInv, TypeOK
<1>2. /\ batches' \in Nat /\ batches' >= batches /\ batches' <= MaxBatches
      /\ batch' \in [Batchers -> Nat] /\ batch'[t] \in 1 .. batches'
      /\ \A u \in Batchers : u # t => batch'[u] = batch[u]
      /\ pos[t] # 1 => batch'[t] = batch[t]
  <2>1. CASE pos[t] = 1
    <3>1. batches < MaxBatches /\ batches' = batches + 1
          /\ batch' = [batch EXCEPT ![t] = batches + 1]
      BY <2>1 DEF PushBatch
    <3> QED
      BY <1>1, <2>1, <3>1
  <2>2. CASE pos[t] # 1
    <3>1. batches' = batches /\ batch' = batch
      BY <2>2 DEF PushBatch
    <3>2. batch[t] \in 1 .. batches /\ batches <= MaxBatches
      BY <2>2 DEF HInv, Contents
    <3> QED
      BY <1>1, <3>1, <3>2
  <2> QED
    BY <2>1, <2>2
<1>3. BatchCommand(pos[t], batch'[t]) \in Commands
  BY <1>1, <1>2, BatchTyped
<1>4. /\ Push(BatchCommand(pos[t], batch'[t]))
      /\ pos' = [pos EXCEPT ![t] = IF @ = BatchLen THEN 1 ELSE @ + 1]
      /\ UNCHANGED <<others, reconnects, wavesrc, answer, plotVars>>
  BY DEF PushBatch
<1> QED
  BY <1>1, <1>2, <1>3, <1>4

\* A command of a batch goes to the end of the queue; what is handled stays.
LEMMA PushBatchKeepsHInv ==
  ASSUME HInv, NEW t \in Batchers, PushBatch(t)
  PROVE  HInv'
<1>1. /\ pos[t] \in 1 .. BatchLen /\ batches \in Nat
      /\ pos \in [Batchers -> 1 .. BatchLen] /\ batch \in [Batchers -> Nat]
      /\ BatchLen \in Nat /\ MaxBatches \in Nat
  BY PlotAssumption DEF HInv, TypeOK, BatchLen
<1>2. /\ batches' \in Nat /\ batches' >= batches /\ batches' <= MaxBatches
      /\ batch' \in [Batchers -> Nat] /\ batch'[t] \in 1 .. batches'
      /\ \A u \in Batchers : u # t => batch'[u] = batch[u]
  BY PushBatchFacts
<1>c. PICK cmd : cmd = BatchCommand(pos[t], batch'[t])
  OBVIOUS
<1>3. cmd \in Commands
  BY <1>c, PushBatchFacts
<1>4. /\ cmd.kind \in {"src", "wave"} => cmd.ch \in 1 .. Chc
      /\ cmd.batch = batch'[t]
  BY <1>1, <1>c, BatchFacts
<1>5. /\ Push(cmd) /\ pos' = [pos EXCEPT ![t] = IF @ = BatchLen THEN 1 ELSE @ + 1]
      /\ UNCHANGED <<others, reconnects, wavesrc, answer, plotVars>>
  BY <1>c, PushBatchFacts
<1>6. /\ content' \in Seq(Commands) /\ Len(content') = submitted'
      /\ Len(content') = Len(content) + 1
      /\ \A i \in 1 .. Len(content) : content'[i] = content[i]
      /\ content'[Len(content) + 1] = cmd
      /\ Gone' = Gone /\ UNCHANGED current
      /\ Queue'
  BY <1>3, <1>5, Pushed
<1>7. TypeOK'
  <2>1. pos' \in [Batchers -> 1 .. BatchLen]
    BY <1>1, <1>5
  <2> QED
    BY <1>2, <1>5, <1>6, <2>1 DEF HInv, TypeOK, plotVars
<1>8. Contents'
  <2>1. ASSUME NEW u \in Batchers, pos'[u] # 1 PROVE batch'[u] \in 1 .. batches'
    <3>1. CASE u = t
      BY <1>2, <3>1
    <3>2. CASE u # t
      <4>1. pos'[u] = pos[u] /\ batch'[u] = batch[u]
        BY <1>1, <1>2, <1>5, <3>2
      <4>2. batch[u] \in 1 .. batches
        BY <2>1, <4>1 DEF HInv, Contents
      <4> QED
        BY <1>1, <1>2, <4>1, <4>2
    <3> QED
      BY <3>1, <3>2
  <2>2. ASSUME NEW i \in 1 .. Len(content')
        PROVE  /\ content'[i].kind \in {"src", "wave"} => content'[i].ch \in 1 .. Chc
               /\ content'[i].kind = "wave" => content'[i].batch \in 1 .. MaxBatches
    <3>1. Len(content) \in Nat
      BY DEF HInv, TypeOK
    <3>2. CASE i \in 1 .. Len(content)
      BY <1>6, <3>2 DEF HInv, Contents
    <3>3. CASE i = Len(content) + 1
      <4>1. batch'[t] \in 1 .. MaxBatches
        BY <1>1, <1>2
      <4> QED
        BY <1>4, <1>6, <3>3, <4>1
    <3> QED
      BY <1>6, <3>1, <3>2, <3>3
  <2> QED
    BY <1>2, <2>1, <2>2 DEF Contents
<1>9. Handling'
  <2>1. current # Service!Nothing => content'[Gone] = content[Gone]
    BY <1>6, QueueFacts
  <2> QED
    BY <1>5, <1>6, <2>1, HandlingSame DEF plotVars
<1> QED
  BY <1>6, <1>7, <1>8, <1>9 DEF HInv

\* So does a command of anybody else.
LEMMA PushOtherKeepsHInv ==
  ASSUME HInv, NEW kind \in {"set", "query"}, PushOther(kind)
  PROVE  HInv'
<1>c. PICK cmd : cmd = [kind |-> kind, ch |-> 0, batch |-> 0]
  OBVIOUS
<1>1. cmd \in Commands /\ cmd.kind \notin {"src", "wave"}
  BY <1>c DEF Commands
<1>2. /\ Push(cmd) /\ others' = others + 1
      /\ UNCHANGED <<batchVars, reconnects, wavesrc, answer, plotVars>>
  BY <1>c DEF PushOther
<1>3. /\ content' \in Seq(Commands) /\ Len(content') = submitted'
      /\ Len(content') = Len(content) + 1
      /\ \A i \in 1 .. Len(content) : content'[i] = content[i]
      /\ content'[Len(content) + 1] = cmd
      /\ Gone' = Gone /\ UNCHANGED current
      /\ Queue'
  BY <1>1, <1>2, Pushed
<1>4. TypeOK'
  BY <1>2, <1>3 DEF HInv, TypeOK, batchVars, plotVars
<1>5. Contents'
  <2>1. ASSUME NEW i \in 1 .. Len(content')
        PROVE  /\ content'[i].kind \in {"src", "wave"} => content'[i].ch \in 1 .. Chc
               /\ content'[i].kind = "wave" => content'[i].batch \in 1 .. MaxBatches
    <3>1. Len(content) \in Nat
      BY DEF HInv, TypeOK
    <3>2. CASE i \in 1 .. Len(content)
      BY <1>3, <3>2 DEF HInv, Contents
    <3>3. CASE i = Len(content) + 1
      BY <1>1, <1>3, <3>3
    <3> QED
      BY <1>3, <3>1, <3>2, <3>3
  <2> QED
    BY <1>2, <2>1 DEF HInv, Contents, batchVars
<1>6. Handling'
  <2>1. current # Service!Nothing => content'[Gone] = content[Gone]
    BY <1>3, QueueFacts
  <2> QED
    BY <1>2, <1>3, <2>1, HandlingSame DEF plotVars
<1> QED
  BY <1>3, <1>4, <1>5, <1>6 DEF HInv

\* The oldest command goes out.
LEMMA SendFacts ==
  ASSUME HInv, Send
  PROVE  /\ current = Service!Nothing /\ waiting # <<>>
         /\ Gone' = Gone + 1 /\ Gone + 1 \in 1 .. Len(content)
         /\ current' = IF IsQuery(Gone + 1) THEN [id |-> Gone + 1, hdlr |-> TRUE] ELSE Service!Nothing
         /\ wavesrc' = IF content[Gone + 1].kind = "src" THEN content[Gone + 1].ch ELSE wavesrc
         /\ answer' \in Answers(content[Gone + 1])
         /\ UNCHANGED <<submitted, content, batchVars, others, reconnects, plotVars>>
         /\ waiting' = Tail(waiting) /\ waiting' \in Seq(Entry) /\ Len(waiting') = Len(waiting) - 1
         /\ \A i \in 1 .. Len(waiting') : waiting'[i] = waiting[i + 1]
<1>1. current = Service!Nothing /\ waiting # <<>> /\ waiting' = Tail(waiting)
      /\ current' = (IF Head(waiting).hdlr THEN Head(waiting) ELSE Service!Nothing)
      /\ UNCHANGED <<submitted, content, batchVars, others, reconnects, plotVars>>
  BY DEF Send, Service!Send
<1>2. submitted \in Nat /\ waiting \in Seq(Entry) /\ Len(waiting) \in Nat
  BY DEF HInv, Queue
<1>3. /\ Gone + 1 \in 1 .. Len(content)
      /\ Head(waiting) = [id |-> Gone + 1, hdlr |-> IsQuery(Gone + 1)]
  BY <1>1, QueueFacts
<1>4. /\ waiting' \in Seq(Entry) /\ Len(waiting') = Len(waiting) - 1
      /\ \A i \in 1 .. Len(waiting') : waiting'[i] = waiting[i + 1]
  BY <1>1, <1>2, HeadTailProperties
<1>5. Gone' = Gone + 1
  BY <1>1, <1>2, <1>4 DEF Gone
<1>6. Head(waiting).id = Gone + 1
  BY <1>3
<1>7. /\ wavesrc' = IF content[Gone + 1].kind = "src" THEN content[Gone + 1].ch ELSE wavesrc
      /\ answer' \in Answers(content[Gone + 1])
  BY <1>6 DEF Send
<1>8. current' = IF IsQuery(Gone + 1) THEN [id |-> Gone + 1, hdlr |-> TRUE] ELSE Service!Nothing
  <2>1. CASE IsQuery(Gone + 1)
    <3>1. IsQuery(Gone + 1) = TRUE
      BY <2>1 DEF IsQuery
    <3>2. Head(waiting) = [id |-> Gone + 1, hdlr |-> TRUE]
      BY <1>3, <3>1, Zenon
    <3>3. Head(waiting).hdlr
      BY <3>2
    <3>4. current' = Head(waiting)
      BY <1>1, <3>3
    <3> QED
      BY <2>1, <3>2, <3>4, Zenon
  <2>2. CASE ~IsQuery(Gone + 1)
    <3>1. ~Head(waiting).hdlr
      BY <1>3, <2>2
    <3> QED
      BY <1>1, <2>2, <3>1
  <2> QED
    BY <2>1, <2>2
<1> QED
  BY <1>1, <1>3, <1>4, <1>5, <1>7, <1>8

\* A waveform that is asked for begins with its announcement.
LEMMA SendKeepsHInv ==
  ASSUME HInv, Send
  PROVE  HInv'
<1>1. /\ current = Service!Nothing /\ waiting # <<>>
      /\ Gone' = Gone + 1 /\ Gone + 1 \in 1 .. Len(content)
      /\ current' = (IF IsQuery(Gone + 1) THEN [id |-> Gone + 1, hdlr |-> TRUE] ELSE Service!Nothing)
      /\ wavesrc' = (IF content[Gone + 1].kind = "src" THEN content[Gone + 1].ch ELSE wavesrc)
      /\ answer' \in Answers(content[Gone + 1])
      /\ UNCHANGED <<submitted, content, batchVars, others, reconnects, plotVars>>
      /\ waiting' \in Seq(Entry) /\ Len(waiting') = Len(waiting) - 1
      /\ \A i \in 1 .. Len(waiting') : waiting'[i] = waiting[i + 1]
  BY SendFacts
<1>2. /\ submitted \in Nat /\ waiting \in Seq(Entry) /\ Len(waiting) \in Nat
      /\ Len(waiting) <= submitted /\ Gone \in Nat /\ Len(content) = submitted
  BY QueueFacts DEF HInv, Queue
<1>c. PICK cmd : cmd = content[Gone + 1]
  OBVIOUS
<1>3. /\ cmd.kind \in {"src", "wave"} => cmd.ch \in 1 .. Chc
      /\ cmd.kind = "wave" => cmd.batch \in 1 .. MaxBatches
  BY <1>1, <1>c DEF HInv, Contents
<1>4. wavesrc \in 1 .. Chc /\ wavesrc' \in 1 .. Chc /\ wavesrc \in Nat /\ Points \in Nat
  BY <1>1, <1>3, <1>c, PlotAssumption DEF HInv, TypeOK
<1>w. PICK w : w = Samples(wavesrc, cmd.batch)
  OBVIOUS
<1>5. /\ cmd.kind = "wave" => \E m \in 1 .. Points :
              \/ answer' = <<TextPacket(m), DataPacket(w), LastPacket>>
              \/ \E r \in 1 .. Points - 1 :
                   answer' = <<TextPacket(m), DataPacket(SubSeq(w, 1, r)),
                               DataPacket(SubSeq(w, r + 1, Points)), LastPacket>>
      /\ cmd.kind = "query" => answer' = <<LastPacket>>
      /\ cmd.kind \notin {"wave", "query"} => answer' = <<>>
  <2>1. cmd.kind = "wave" => cmd.batch \in Nat
    BY <1>3
  <2>2. answer' \in Answers(cmd)
    BY <1>1, <1>c
  <2> QED
    BY <1>4, <1>w, <2>1, <2>2, AnswersFacts
<1>6. answer' \in Seq(Packet) /\ (answer' = <<>> <=> cmd.kind \notin {"wave", "query"})
  <2>1. CASE cmd.kind = "wave"
    <3>1. w \in Seq(Bytes) /\ Len(w) = Points /\ \A j \in 1 .. Points : w[j].ch = wavesrc
      BY <1>3, <1>4, <1>w, <2>1, SamplesFacts
    <3>2. PICK m \in 1 .. Points :
              \/ answer' = <<TextPacket(m), DataPacket(w), LastPacket>>
              \/ \E r \in 1 .. Points - 1 :
                   answer' = <<TextPacket(m), DataPacket(SubSeq(w, 1, r)),
                               DataPacket(SubSeq(w, r + 1, Points)), LastPacket>>
      BY <1>5, <2>1
    <3>3. m \in Nat
      BY <1>4
    <3>4. TextPacket(m) \in Packet /\ LastPacket \in Packet /\ DataPacket(w) \in Packet
      BY <3>1, <3>3, PacketFacts
    <3>5. CASE answer' = <<TextPacket(m), DataPacket(w), LastPacket>>
      BY <2>1, <3>4, <3>5, TupleFacts
    <3>6. CASE \E r \in 1 .. Points - 1 :
                   answer' = <<TextPacket(m), DataPacket(SubSeq(w, 1, r)),
                               DataPacket(SubSeq(w, r + 1, Points)), LastPacket>>
      <4>1. PICK r \in 1 .. Points - 1 :
                   answer' = <<TextPacket(m), DataPacket(SubSeq(w, 1, r)),
                               DataPacket(SubSeq(w, r + 1, Points)), LastPacket>>
        BY <3>6
      <4>2. SubSeq(w, 1, r) \in Seq(Bytes) /\ SubSeq(w, r + 1, Points) \in Seq(Bytes)
        BY <3>1, CutFacts
      <4>3. PICK d, e : d = DataPacket(SubSeq(w, 1, r)) /\ e = DataPacket(SubSeq(w, r + 1, Points))
        OBVIOUS
      <4>4. d \in Packet /\ e \in Packet
        BY <4>2, <4>3, PacketFacts
      <4>5. answer' = <<TextPacket(m), d, e, LastPacket>>
        BY <4>1, <4>3
      <4>6. <<TextPacket(m), d, e, LastPacket>> \in Seq(Packet) /\ <<TextPacket(m), d, e, LastPacket>> # <<>>
        BY <3>4, <4>4, TupleFacts
      <4> QED
        BY <2>1, <4>5, <4>6
    <3> QED
      BY <3>2, <3>5, <3>6
  <2>2. CASE cmd.kind = "query"
    <3>1. answer' = <<LastPacket>>
      BY <1>5, <2>2
    <3>2. <<LastPacket>> \in Seq(Packet) /\ <<LastPacket>> # <<>>
      BY PacketFacts, TupleFacts
    <3> QED
      BY <2>2, <3>1, <3>2, Zenon
  <2>3. CASE cmd.kind \notin {"wave", "query"}
    <3>1. answer' = <<>>
      BY <1>5, <2>3
    <3> QED
      BY <2>3, <3>1
  <2> QED
    BY <2>1, <2>2, <2>3
<1>7. TypeOK'
  BY <1>1, <1>4, <1>6 DEF HInv, TypeOK, batchVars, plotVars, Packet
<1>8. IsQuery(Gone + 1) <=> cmd.kind \in {"wave", "query"}
  BY <1>c DEF IsQuery
<1>9. current' # Service!Nothing <=> cmd.kind \in {"wave", "query"}
  BY <1>1, <1>2, <1>8 DEF Service!Nothing
<1>10. Queue'
  <2>1. Len(waiting') \in Nat /\ Len(waiting') <= submitted' /\ submitted' \in Nat
    BY <1>1, <1>2
  <2>2. current' \in Entry
    BY <1>1, <1>2 DEF Entry, Service!Nothing
  <2>3. ASSUME NEW i \in 1 .. Len(waiting')
        PROVE  waiting'[i] = [id |-> Gone' + i, hdlr |-> IsQuery(Gone + i)']
    <3>1. i + 1 \in 1 .. Len(waiting) /\ Gone + (i + 1) = (Gone + 1) + i
      <4>1. /\ Len(waiting') = Len(waiting) - 1 /\ Len(waiting) \in Nat /\ Gone \in Nat
            /\ Len(waiting') \in Nat
        BY <1>1, <1>2, <2>1
      <4> QED
        BY <4>1
    <3>2. waiting[i + 1] = [id |-> Gone + (i + 1), hdlr |-> IsQuery(Gone + (i + 1))]
      BY <3>1 DEF HInv, Queue
    <3>3. IsQuery(Gone + i)' = IsQuery(Gone + (i + 1))
      BY <1>1, <3>1 DEF IsQuery
    <3> QED
      BY <1>1, <3>1, <3>2, <3>3
  <2>4. (current # Service!Nothing => current.id = Gone /\ Gone >= 1 /\ IsQuery(Gone))'
    <3> SUFFICES ASSUME current' # Service!Nothing
                 PROVE  current'.id = Gone' /\ Gone' >= 1 /\ IsQuery(Gone)'
      BY DEF Service!Nothing
    <3>1. current' = [id |-> Gone + 1, hdlr |-> TRUE]
      BY <1>1, <1>8, <1>9
    <3>2. IsQuery(Gone)'
      BY <1>1, <1>9, <1>c DEF IsQuery
    <3> QED
      BY <1>1, <1>2, <3>1, <3>2
  <2>5. (answer = <<>> <=> current = Service!Nothing)'
    BY <1>6, <1>9 DEF Service!Nothing
  <2> QED
    BY <1>1, <2>1, <2>2, <2>3, <2>4, <2>5 DEF Queue
<1>11. Contents'
  BY <1>1 DEF HInv, Contents, batchVars
<1>12. Handling'
  <2>1. header /\ data = <<>> /\ header' /\ data' = <<>>
    BY <1>1, HandlingFacts DEF InWave, plotVars
  <2>2. InWave' <=> cmd.kind = "wave"
    BY <1>1, <1>9, <1>c DEF InWave, Service!Nothing
  <2>3. ASSUME InWave' PROVE Announcing'
    <3>1. cmd.kind = "wave"
      BY <2>2, <2>3
    <3>2. Wave' = w
      BY <1>1, <1>c, <1>w, <3>1 DEF Wave, Samples
    <3>3. \E m \in 1 .. Points :
              \/ answer' = <<TextPacket(m), DataPacket(w), LastPacket>>
              \/ \E r \in 1 .. Points - 1 :
                   answer' = <<TextPacket(m), DataPacket(SubSeq(w, 1, r)),
                               DataPacket(SubSeq(w, r + 1, Points)), LastPacket>>
      BY <1>5, <3>1
    <3> QED
      BY <2>1, <3>2, <3>3 DEF Announcing, Fst, Snd
  <2>4. (current # Service!Nothing /\ content[Gone].kind = "query" => answer = <<LastPacket>>)'
    BY <1>1, <1>5, <1>c DEF LastPacket, TextByte
  <2> QED
    BY <2>1, <2>2, <2>3, <2>4 DEF Handling
<1> QED
  BY <1>7, <1>10, <1>11, <1>12 DEF HInv

\* A handler is called with a packet of the answer to the command sent last.
LEMMA HandleFacts ==
  ASSUME HInv, NEW kind, Handle(kind)
  PROVE  /\ current # Service!Nothing /\ content[Gone].kind = kind /\ answer # <<>>
         /\ answer' = Tail(answer)
         /\ UNCHANGED <<content, batchVars, others, reconnects, wavesrc, submitted, waiting>>
         /\ Head(answer).last => current' = Service!Nothing
         /\ ~Head(answer).last => UNCHANGED current
         /\ Gone' = Gone /\ Gone \in 1 .. Len(content)
<1>1. answer # <<>> /\ content[current.id].kind = kind /\ answer' = Tail(answer)
  BY DEF Handle
<1>2. current # Service!Nothing /\ current.id = Gone /\ Gone \in 1 .. Len(content)
  BY <1>1, QueueFacts
<1>3. UNCHANGED <<content, batchVars, others, reconnects, wavesrc, submitted, waiting>>
  BY DEF Handle, Service!Complete, service
<1>4. /\ Head(answer).last => current' = Service!Nothing
      /\ ~Head(answer).last => UNCHANGED current
  BY DEF Handle, Service!Complete, service
<1> QED
  BY <1>1, <1>2, <1>3, <1>4 DEF Gone

\* The queue while the next packet is handled, provided the answer ends with
\* the last.
LEMMA HandleKeepsQueue ==
  ASSUME HInv, NEW kind, Handle(kind), Tail(answer) = <<>> <=> Head(answer).last
  PROVE  Queue' /\ Contents'
<1>1. /\ current # Service!Nothing /\ answer' = Tail(answer)
      /\ UNCHANGED <<content, batchVars, submitted, waiting>>
      /\ Head(answer).last => current' = Service!Nothing
      /\ ~Head(answer).last => UNCHANGED current
      /\ Gone' = Gone
  BY HandleFacts
<1>2. \A i : IsQuery(i)' = IsQuery(i)
  BY <1>1 DEF IsQuery
<1>3. /\ submitted \in Nat /\ waiting \in Seq(Entry) /\ current \in Entry
      /\ Len(waiting) <= submitted
      /\ \A i \in 1 .. Len(waiting) : waiting[i] = [id |-> Gone + i, hdlr |-> IsQuery(Gone + i)]
      /\ current.id = Gone /\ Gone >= 1 /\ IsQuery(Gone)
  BY <1>1 DEF HInv, Queue
<1>4. Service!Nothing \in Entry
  BY DEF Entry, Service!Nothing
<1>5. IsQuery(Gone)' = IsQuery(Gone)
  BY <1>1 DEF IsQuery
<1>6. \A i \in 1 .. Len(waiting') : waiting'[i] = [id |-> Gone' + i, hdlr |-> IsQuery(Gone + i)']
  <2> SUFFICES ASSUME NEW i \in 1 .. Len(waiting')
               PROVE  waiting'[i] = [id |-> Gone' + i, hdlr |-> IsQuery(Gone + i)']
    OBVIOUS
  <2>1. IsQuery(Gone + i)' = IsQuery(Gone + i)
    BY <1>1 DEF IsQuery
  <2> QED
    BY <1>1, <1>3, <2>1
<1>7. Queue'
  <2>1. CASE Head(answer).last
    <3>1. current' = Service!Nothing /\ answer' = <<>>
      BY <1>1, <2>1
    <3> QED
      BY <1>1, <1>3, <1>4, <1>6, <3>1 DEF Queue, Service!Nothing
  <2>2. CASE ~Head(answer).last
    <3>1. UNCHANGED current /\ answer' # <<>>
      BY <1>1, <2>2
    <3> QED
      BY <1>1, <1>3, <1>5, <1>6, <3>1 DEF Queue, Service!Nothing
  <2> QED
    BY <2>1, <2>2
<1>8. Contents'
  BY <1>1 DEF HInv, Contents, batchVars
<1> QED
  BY <1>7, <1>8

\* Packets of other answers do not touch the statics of gui_dtwave.
LEMMA HandleOtherKeepsHInv ==
  ASSUME HInv, HandleOther
  PROVE  HInv'
<1>1. Handle("query") /\ UNCHANGED plotVars
  BY DEF HandleOther
<1>2. /\ current # Service!Nothing /\ content[Gone].kind = "query"
      /\ answer' = Tail(answer)
      /\ UNCHANGED <<content, batchVars, others, reconnects, wavesrc, submitted, waiting>>
      /\ Head(answer).last => current' = Service!Nothing
  BY <1>1, HandleFacts
<1>3. answer = <<LastPacket>>
  BY <1>2 DEF HInv, Handling
<1>4. Head(answer) = LastPacket /\ Tail(answer) = <<>>
  BY <1>3, PacketFacts, TupleFacts
<1>5. Head(answer).last /\ answer' = <<>> /\ current' = Service!Nothing
  BY <1>2, <1>4, PacketFacts
<1>6. Queue' /\ Contents'
  BY <1>1, <1>4, <1>5, HandleKeepsQueue
<1>7. TypeOK'
  <2>1. answer' \in Seq(Packet)
    BY <1>5
  <2> QED
    BY <1>1, <1>2, <2>1 DEF HInv, TypeOK, batchVars, plotVars, Packet
<1>8. header /\ data = <<>>
  BY <1>2, HandlingFacts DEF InWave
<1>9. Handling'
  BY <1>1, <1>5, <1>8 DEF Handling, InWave, Service!Nothing, plotVars
<1> QED
  BY <1>6, <1>7, <1>9 DEF HInv

\* A packet of a waveform that is not the last.
LEMMA WaveStep ==
  ASSUME HInv, Handle("wave"), ~Head(answer).last, Tail(answer) # <<>>, Tail(answer) \in Seq(Packet),
         UNCHANGED <<ch, image, frame, frames>>, header' \in BOOLEAN, len' \in Nat, panic' \in BOOLEAN,
         data' \in Seq(Bytes),
         Wave' = Wave => (Announcing \/ Announced \/ Between \/ Collected)'
  PROVE  HInv'
<1>1. /\ current # Service!Nothing /\ content[Gone].kind = "wave" /\ answer' = Tail(answer)
      /\ UNCHANGED <<content, batchVars, others, reconnects, wavesrc, submitted, waiting>>
      /\ UNCHANGED current /\ Gone' = Gone
  BY HandleFacts
<1>2. Queue' /\ Contents'
  BY HandleKeepsQueue
<1>3. TypeOK'
  BY <1>1 DEF HInv, TypeOK, batchVars, Packet
<1>4. Wave' = Wave
  BY <1>1 DEF Wave, Samples
<1>5. InWave' /\ content'[Gone'].kind # "query"
  BY <1>1 DEF InWave, Service!Nothing
<1> QED
  BY <1>2, <1>3, <1>4, <1>5 DEF HInv, Handling

\* The waveform being handled and its two parts, as packets.
LEMMA PartFacts ==
  ASSUME HInv, InWave
  PROVE  /\ Wave \in Seq(Bytes) /\ Len(Wave) = Points /\ Clipped(Wave) = Wave
         /\ \A j \in 1 .. Points : Wave[j].ch = wavesrc
         /\ DataPacket(Wave) \in Packet
         /\ \A r \in 1 .. Points - 1 :
              /\ Fst(r) \in Seq(Bytes) /\ Snd(r) \in Seq(Bytes)
              /\ Len(Fst(r)) \in Nat /\ Len(Fst(r)) <= Points
              /\ Len(Snd(r)) \in Nat /\ Len(Snd(r)) <= Points
              /\ Clipped(Fst(r)) = Fst(r) /\ Clipped(Snd(r)) = Snd(r)
              /\ \A j \in 1 .. Len(Fst(r)) : Fst(r)[j].ch = wavesrc
              /\ \A j \in 1 .. Len(Snd(r)) : Snd(r)[j].ch = wavesrc
              /\ Fst(r) \o Snd(r) = Wave
              /\ DataPacket(Fst(r)) \in Packet /\ DataPacket(Snd(r)) \in Packet
<1>1. /\ Points \in Nat /\ Wave \in Seq(Bytes) /\ Len(Wave) = Points
      /\ \A j \in 1 .. Points : Wave[j].ch = wavesrc
  BY WaveFacts
<1>2. Clipped(Wave) = Wave /\ DataPacket(Wave) \in Packet
  BY <1>1, ClippedFacts, PacketFacts
<1>3. ASSUME NEW r \in 1 .. Points - 1
      PROVE   /\ Fst(r) \in Seq(Bytes) /\ Snd(r) \in Seq(Bytes)
              /\ Len(Fst(r)) \in Nat /\ Len(Fst(r)) <= Points
              /\ Len(Snd(r)) \in Nat /\ Len(Snd(r)) <= Points
              /\ Clipped(Fst(r)) = Fst(r) /\ Clipped(Snd(r)) = Snd(r)
              /\ \A j \in 1 .. Len(Fst(r)) : Fst(r)[j].ch = wavesrc
              /\ \A j \in 1 .. Len(Snd(r)) : Snd(r)[j].ch = wavesrc
              /\ Fst(r) \o Snd(r) = Wave
              /\ DataPacket(Fst(r)) \in Packet /\ DataPacket(Snd(r)) \in Packet
  <2>w. PICK w : w = Wave
    OBVIOUS
  <2>1. /\ SubSeq(w, 1, r) \in Seq(Bytes) /\ Len(SubSeq(w, 1, r)) = r
        /\ \A j \in 1 .. r : SubSeq(w, 1, r)[j].ch = wavesrc
        /\ SubSeq(w, r + 1, Points) \in Seq(Bytes) /\ Len(SubSeq(w, r + 1, Points)) = Points - r
        /\ \A j \in 1 .. Points - r : SubSeq(w, r + 1, Points)[j].ch = wavesrc
        /\ SubSeq(w, 1, r) \o SubSeq(w, r + 1, Points) = w
    BY <1>1, <2>w, CutFacts
  <2>2. Fst(r) = SubSeq(w, 1, r) /\ Snd(r) = SubSeq(w, r + 1, Points)
    BY <2>w DEF Fst, Snd
  <2>3. /\ Fst(r) \in Seq(Bytes) /\ Len(Fst(r)) = r /\ \A j \in 1 .. r : Fst(r)[j].ch = wavesrc
        /\ Snd(r) \in Seq(Bytes) /\ Len(Snd(r)) = Points - r
        /\ \A j \in 1 .. Points - r : Snd(r)[j].ch = wavesrc
        /\ Fst(r) \o Snd(r) = Wave
    BY <2>1, <2>2, <2>w
  <2>4. /\ Len(Fst(r)) \in Nat /\ Len(Fst(r)) <= Points
        /\ Len(Snd(r)) \in Nat /\ Len(Snd(r)) <= Points
    <3>1. r \in Nat /\ r <= Points /\ Points - r \in Nat /\ Points - r <= Points
      BY <1>1
    <3> QED
      BY <2>3, <3>1
  <2>5. Clipped(Fst(r)) = Fst(r) /\ Clipped(Snd(r)) = Snd(r)
    BY <2>3, <2>4, ClippedFacts
  <2>6. DataPacket(Fst(r)) \in Packet /\ DataPacket(Snd(r)) \in Packet
    BY <2>3, PacketFacts
  <2> QED
    BY <2>3, <2>4, <2>5, <2>6
<1> QED
  BY <1>1, <1>2, <1>3

\* The announcement fits what is still to come, or gui_dtwave panics.
LEMMA DtHeaderKeepsHInv ==
  ASSUME HInv, DtHeader
  PROVE  HInv'
<1>1. /\ Handle("wave") /\ header /\ len' = Head(answer).says /\ header' = FALSE
      /\ UNCHANGED <<ch, panic, data, image, frame, frames>>
  BY DEF DtHeader
<1>2. InWave /\ answer' = Tail(answer)
  BY <1>1, HandleFacts DEF InWave
<1>3. header /\ data = <<>>
  BY <1>1, HandlingFacts
<1>4. PICK m \in 1 .. Points :
       \/ answer = <<TextPacket(m), DataPacket(Wave), LastPacket>>
       \/ \E r \in 1 .. Points - 1 :
            answer = <<TextPacket(m), DataPacket(Fst(r)), DataPacket(Snd(r)), LastPacket>>
  BY <1>1, <1>2, HandlingFacts DEF Announcing
<1>5. m \in Nat
  BY PlotAssumption
<1>6. /\ TextPacket(m) \in Packet /\ LastPacket \in Packet /\ DataPacket(Wave) \in Packet
      /\ ~TextPacket(m).last /\ TextPacket(m).says \in Nat
  BY <1>2, <1>5, PacketFacts, PartFacts
<1>7. /\ Head(answer) = TextPacket(m) /\ Tail(answer) # <<>> /\ Tail(answer) \in Seq(Packet)
      /\ \/ Tail(answer) = <<DataPacket(Wave), LastPacket>>
         \/ \E r \in 1 .. Points - 1 :
              Tail(answer) = <<DataPacket(Fst(r)), DataPacket(Snd(r)), LastPacket>>
  <2>1. CASE answer = <<TextPacket(m), DataPacket(Wave), LastPacket>>
    <3>1. PICK x, y, z : x = TextPacket(m) /\ y = DataPacket(Wave) /\ z = LastPacket
      OBVIOUS
    <3>2. x \in Packet /\ y \in Packet /\ z \in Packet
      BY <1>6, <3>1
    <3>3. /\ Head(<<x, y, z>>) = x /\ Tail(<<x, y, z>>) = <<y, z>>
          /\ <<y, z>> # <<>> /\ <<y, z>> \in Seq(Packet)
      BY <3>2, TupleFacts
    <3>4. answer = <<x, y, z>>
      BY <2>1, <3>1
    <3> QED
      BY <3>1, <3>3, <3>4, Zenon
  <2>2. CASE \E r \in 1 .. Points - 1 :
            answer = <<TextPacket(m), DataPacket(Fst(r)), DataPacket(Snd(r)), LastPacket>>
    <3>1. PICK r \in 1 .. Points - 1 :
            answer = <<TextPacket(m), DataPacket(Fst(r)), DataPacket(Snd(r)), LastPacket>>
      BY <2>2
    <3>2. PICK x, y, z, w : x = TextPacket(m) /\ y = DataPacket(Fst(r)) /\ z = DataPacket(Snd(r))
                            /\ w = LastPacket
      OBVIOUS
    <3>3. DataPacket(Fst(r)) \in Packet /\ DataPacket(Snd(r)) \in Packet
      BY <1>2, PartFacts
    <3>4. x \in Packet /\ y \in Packet /\ z \in Packet /\ w \in Packet
      BY <1>6, <3>2, <3>3
    <3>5. /\ Head(<<x, y, z, w>>) = x /\ Tail(<<x, y, z, w>>) = <<y, z, w>>
          /\ <<y, z, w>> # <<>> /\ <<y, z, w>> \in Seq(Packet)
      BY <3>4, TupleFacts
    <3>6. answer = <<x, y, z, w>>
      BY <3>1, <3>2
    <3> QED
      BY <3>2, <3>5, <3>6, Zenon
  <2> QED
    BY <1>4, <2>1, <2>2
<1>8. Wave' = Wave => Announced'
  BY <1>1, <1>2, <1>3, <1>7 DEF Announced, Fst, Snd
<1>9. len' \in Nat /\ data' \in Seq(Bytes)
  BY <1>1, <1>3, <1>6, <1>7
<1>10. header' \in BOOLEAN /\ panic' \in BOOLEAN
  BY <1>1, Zenon DEF HInv, TypeOK
<1> QED
  BY <1>1, <1>6, <1>7, <1>8, <1>9, <1>10, WaveStep

\* The packets of samples still to come.
LEMMA DataFacts ==
  ASSUME HInv, InWave, ~header, ~Head(answer).last
  PROVE  \/ /\ data = <<>> /\ Head(answer) = DataPacket(Wave) /\ Tail(answer) = <<LastPacket>>
         \/ \E r \in 1 .. Points - 1 :
              /\ data = <<>> /\ Head(answer) = DataPacket(Fst(r))
              /\ Tail(answer) = <<DataPacket(Snd(r)), LastPacket>>
         \/ \E r \in 1 .. Points - 1 :
              /\ data = Fst(r) \/ (~panic /\ data = <<>>)
              /\ Head(answer) = DataPacket(Snd(r)) /\ Tail(answer) = <<LastPacket>>
<1>1. LastPacket \in Packet /\ LastPacket.last /\ DataPacket(Wave) \in Packet
      /\ \A r \in 1 .. Points - 1 : DataPacket(Fst(r)) \in Packet /\ DataPacket(Snd(r)) \in Packet
  BY PacketFacts, PartFacts
<1>2. Announced \/ Between \/ Collected
  BY HandlingFacts
<1>3. ~Collected
  <2> SUFFICES ASSUME answer = <<LastPacket>> PROVE FALSE
    BY DEF Collected
  <2>1. Head(<<LastPacket>>) = LastPacket
    BY <1>1, TupleFacts
  <2>2. Head(answer).last
    BY <1>1, <2>1, Zenon
  <2> QED
    BY <2>2
<1>4. ASSUME NEW x \in Packet
      PROVE  Head(<<x, LastPacket>>) = x /\ Tail(<<x, LastPacket>>) = <<LastPacket>>
  BY <1>1, TupleFacts
<1>5. ASSUME NEW x \in Packet, NEW y \in Packet
      PROVE  Head(<<x, y, LastPacket>>) = x /\ Tail(<<x, y, LastPacket>>) = <<y, LastPacket>>
  BY <1>1, TupleFacts
<1>6. CASE Announced
  <2>1. CASE answer = <<DataPacket(Wave), LastPacket>>
    <3>1. Head(answer) = DataPacket(Wave) /\ Tail(answer) = <<LastPacket>>
      BY <1>1, <1>4, <2>1
    <3> QED
      BY <1>6, <3>1 DEF Announced
  <2>2. CASE \E r \in 1 .. Points - 1 :
          answer = <<DataPacket(Fst(r)), DataPacket(Snd(r)), LastPacket>>
    <3>1. PICK r \in 1 .. Points - 1 :
          answer = <<DataPacket(Fst(r)), DataPacket(Snd(r)), LastPacket>>
      BY <2>2
    <3>2. Head(answer) = DataPacket(Fst(r)) /\ Tail(answer) = <<DataPacket(Snd(r)), LastPacket>>
      BY <1>1, <1>5, <3>1
    <3> QED
      BY <1>6, <3>2 DEF Announced
  <2> QED
    BY <1>6, <2>1, <2>2 DEF Announced
<1>7. CASE Between
  <2>1. PICK r \in 1 .. Points - 1 :
       /\ answer = <<DataPacket(Snd(r)), LastPacket>>
       /\ data = Fst(r) \/ (~panic /\ data = <<>>)
    BY <1>7 DEF Between
  <2>2. Head(answer) = DataPacket(Snd(r)) /\ Tail(answer) = <<LastPacket>>
    BY <1>1, <1>4, <2>1
  <2> QED
    BY <2>1, <2>2
<1> QED
  BY <1>2, <1>3, <1>6, <1>7

\* Samples are added to those of the same waveform.
LEMMA DtStoreKeepsHInv ==
  ASSUME HInv, DtStore
  PROVE  HInv'
<1>1. /\ Handle("wave") /\ ~header /\ ~Head(answer).last
      /\ data' = data \o Clipped(Head(answer).bytes)
      /\ UNCHANGED <<ch, header, len, panic, image, frame, frames>>
  BY DEF DtStore
<1>2. InWave /\ answer' = Tail(answer)
  BY <1>1, HandleFacts DEF InWave
<1>3. /\ Wave \in Seq(Bytes) /\ Clipped(Wave) = Wave
      /\ Len(Wave) = Points /\ \A j \in 1 .. Points : Wave[j].ch = wavesrc
  BY <1>2, PartFacts
<1>4. LastPacket \in Packet /\ <<LastPacket>> \in Seq(Packet) /\ <<LastPacket>> # <<>>
  BY PacketFacts, TupleFacts
<1>5. /\ Tail(answer) # <<>> /\ Tail(answer) \in Seq(Packet) /\ data' \in Seq(Bytes)
      /\ Wave' = Wave => (Between \/ Collected)'
  <2>1. CASE data = <<>> /\ Head(answer) = DataPacket(Wave) /\ Tail(answer) = <<LastPacket>>
    <3>1. Head(answer).bytes = Wave
      BY <1>3, <2>1, PacketFacts
    <3>2. data' = Wave
      BY <1>1, <1>3, <2>1, <3>1, ConcatEmptySeq
    <3>3. Wave' = Wave => Collected'
      BY <1>1, <1>2, <2>1, <3>2 DEF Collected, LastPacket, TextByte
    <3> QED
      BY <1>3, <1>4, <2>1, <3>2, <3>3
  <2>2. CASE \E r \in 1 .. Points - 1 :
              /\ data = <<>> /\ Head(answer) = DataPacket(Fst(r))
              /\ Tail(answer) = <<DataPacket(Snd(r)), LastPacket>>
    <3>1. PICK r \in 1 .. Points - 1 :
              /\ data = <<>> /\ Head(answer) = DataPacket(Fst(r))
              /\ Tail(answer) = <<DataPacket(Snd(r)), LastPacket>>
      BY <2>2
    <3>2. Fst(r) \in Seq(Bytes) /\ Clipped(Fst(r)) = Fst(r) /\ DataPacket(Snd(r)) \in Packet
      BY <1>2, PartFacts
    <3>3. Head(answer).bytes = Fst(r)
      BY <3>1, <3>2, PacketFacts
    <3>4. data' = Fst(r)
      BY <1>1, <3>1, <3>2, <3>3, ConcatEmptySeq
    <3>5. Wave' = Wave => Between'
      BY <1>1, <1>2, <3>1, <3>4 DEF Between, Fst, Snd, LastPacket, TextByte, DataPacket
    <3>6. Tail(answer) # <<>> /\ Tail(answer) \in Seq(Packet)
      <4>1. PICK x, y : x = DataPacket(Snd(r)) /\ y = LastPacket
        OBVIOUS
      <4>2. x \in Packet /\ y \in Packet
        BY <1>4, <3>2, <4>1
      <4>3. <<x, y>> # <<>> /\ <<x, y>> \in Seq(Packet)
        BY <4>2, TupleFacts
      <4> QED
        BY <3>1, <4>1, <4>3
    <3> QED
      BY <3>2, <3>4, <3>5, <3>6
  <2>3. CASE \E r \in 1 .. Points - 1 :
              /\ data = Fst(r) \/ (~panic /\ data = <<>>)
              /\ Head(answer) = DataPacket(Snd(r)) /\ Tail(answer) = <<LastPacket>>
    <3>1. PICK r \in 1 .. Points - 1 :
              /\ data = Fst(r) \/ (~panic /\ data = <<>>)
              /\ Head(answer) = DataPacket(Snd(r)) /\ Tail(answer) = <<LastPacket>>
      BY <2>3
    <3>2. /\ Fst(r) \in Seq(Bytes) /\ Snd(r) \in Seq(Bytes) /\ Clipped(Snd(r)) = Snd(r)
          /\ Len(Snd(r)) <= Points /\ \A j \in 1 .. Len(Snd(r)) : Snd(r)[j].ch = wavesrc
          /\ Fst(r) \o Snd(r) = Wave
      BY <1>2, PartFacts
    <3>3. Head(answer).bytes = Snd(r)
      BY <3>1, <3>2, PacketFacts
    <3>4. data' = data \o Snd(r)
      BY <1>1, <3>2, <3>3
    <3>5. data' = Wave \/ (~panic /\ data' = Snd(r))
      BY <3>1, <3>2, <3>4, ConcatEmptySeq
    <3>6. data' = Wave \/ Short'
      BY <1>1, <1>2, <3>2, <3>5, HandleFacts DEF Short
    <3>7. Wave' = Wave => Collected'
      BY <1>1, <1>2, <3>1, <3>6 DEF Collected, LastPacket, TextByte
    <3>8. data' \in Seq(Bytes)
      BY <1>3, <3>2, <3>5
    <3> QED
      BY <1>4, <3>1, <3>7, <3>8
  <2> QED
    BY <1>1, <1>2, <2>1, <2>2, <2>3, DataFacts
<1>6. len' \in Nat
  BY <1>1 DEF HInv, TypeOK
<1>7. header' \in BOOLEAN /\ panic' \in BOOLEAN
  BY <1>1, Zenon DEF HInv, TypeOK
<1> QED
  BY <1>1, <1>5, <1>6, <1>7, WaveStep

\* A panic lasts to the end of its waveform.
LEMMA DtPanicKeepsHInv ==
  ASSUME HInv, DtPanic
  PROVE  HInv'
<1>1. /\ Handle("wave") /\ ~header /\ ~Head(answer).last /\ panic' = FALSE
      /\ UNCHANGED <<ch, header, len, data, image, frame, frames>>
  BY DEF DtPanic
<1>2. InWave /\ answer' = Tail(answer) /\ UNCHANGED wavesrc
  BY <1>1, HandleFacts DEF InWave
<1>3. LastPacket \in Packet /\ <<LastPacket>> \in Seq(Packet) /\ <<LastPacket>> # <<>>
  BY PacketFacts, TupleFacts
<1>4. Points \in Nat
  BY PlotAssumption
<1>5. /\ Tail(answer) # <<>> /\ Tail(answer) \in Seq(Packet)
      /\ Wave' = Wave => (Between \/ Collected)'
  <2>1. CASE data = <<>> /\ Tail(answer) = <<LastPacket>>
    <3>1. Short'
      BY <1>1, <1>4, <2>1 DEF Short
    <3>2. Collected'
      BY <1>1, <1>2, <2>1, <3>1 DEF Collected, LastPacket, TextByte
    <3> QED
      BY <1>3, <2>1, <3>2
  <2>2. CASE \E r \in 1 .. Points - 1 :
              /\ data = <<>> /\ Tail(answer) = <<DataPacket(Snd(r)), LastPacket>>
    <3>1. PICK r \in 1 .. Points - 1 :
              /\ data = <<>> /\ Tail(answer) = <<DataPacket(Snd(r)), LastPacket>>
      BY <2>2
    <3>2. DataPacket(Snd(r)) \in Packet
      BY <1>2, PartFacts
    <3>3. Wave' = Wave => Between'
      BY <1>1, <1>2, <3>1 DEF Between, Fst, Snd, LastPacket, TextByte, DataPacket
    <3>4. Tail(answer) # <<>> /\ Tail(answer) \in Seq(Packet)
      <4>1. PICK x, y : x = DataPacket(Snd(r)) /\ y = LastPacket
        OBVIOUS
      <4>2. x \in Packet /\ y \in Packet
        BY <1>3, <3>2, <4>1
      <4>3. <<x, y>> # <<>> /\ <<x, y>> \in Seq(Packet)
        BY <4>2, TupleFacts
      <4> QED
        BY <3>1, <4>1, <4>3
    <3> QED
      BY <3>3, <3>4
  <2>3. CASE \E r \in 1 .. Points - 1 :
              /\ data = Fst(r) /\ Tail(answer) = <<LastPacket>>
    <3>1. PICK r \in 1 .. Points - 1 : data = Fst(r) /\ Tail(answer) = <<LastPacket>>
      BY <2>3
    <3>2. Len(Fst(r)) <= Points /\ \A j \in 1 .. Len(Fst(r)) : Fst(r)[j].ch = wavesrc
      BY <1>2, PartFacts
    <3>3. Short'
      BY <1>1, <1>2, <3>1, <3>2 DEF Short
    <3>4. Collected'
      BY <1>1, <1>2, <3>1, <3>3 DEF Collected, LastPacket, TextByte
    <3> QED
      BY <1>3, <3>1, <3>4
  <2> QED
    BY <1>1, <1>2, <2>1, <2>2, <2>3, DataFacts
<1>6. len' \in Nat /\ data' \in Seq(Bytes)
  BY <1>1 DEF HInv, TypeOK
<1>7. header' \in BOOLEAN /\ panic' \in BOOLEAN
  BY <1>1, Zenon DEF HInv, TypeOK
<1> QED
  BY <1>1, <1>5, <1>6, <1>7, WaveStep

\* The packet that ends a waveform.
LEMMA DtDrawFacts ==
  ASSUME HInv, DtDraw
  PROVE  /\ InWave /\ Collected /\ header' = TRUE /\ data' = <<>>
         /\ answer' = <<>> /\ current' = Service!Nothing
         /\ UNCHANGED <<len, panic, content, batchVars, others, reconnects, wavesrc, submitted, waiting>>
         /\ Gone' = Gone
         /\ image' = IF Len(data) > 1
                       THEN [(IF ch = 0 THEN Blank ELSE image) EXCEPT ![ch] = data]
                       ELSE IF ch = 0 THEN Blank ELSE image
         /\ image' \in [Traces -> Seq(Bytes)]
<1>1. Handle("wave") /\ ~header /\ Head(answer).last
  BY DEF DtDraw
<1>2. /\ InWave /\ answer' = Tail(answer) /\ current' = Service!Nothing
      /\ UNCHANGED <<content, batchVars, others, reconnects, wavesrc, submitted, waiting>>
      /\ Gone' = Gone
  BY <1>1, HandleFacts DEF InWave
<1>3. LastPacket \in Packet /\ DataPacket(Wave) \in Packet /\ ~DataPacket(Wave).last
      /\ \A r \in 1 .. Points - 1 :
           /\ DataPacket(Fst(r)) \in Packet /\ ~DataPacket(Fst(r)).last
           /\ DataPacket(Snd(r)) \in Packet /\ ~DataPacket(Snd(r)).last
  BY <1>2, PacketFacts, PartFacts
<1>4. ~Announced
  <2>1. CASE answer = <<DataPacket(Wave), LastPacket>>
    <3>1. Head(answer) = DataPacket(Wave)
      BY <1>3, <2>1, TupleFacts
    <3> QED
      BY <1>1, <1>3, <3>1
  <2>2. CASE \E r \in 1 .. Points - 1 :
          answer = <<DataPacket(Fst(r)), DataPacket(Snd(r)), LastPacket>>
    <3>1. PICK r \in 1 .. Points - 1 :
          answer = <<DataPacket(Fst(r)), DataPacket(Snd(r)), LastPacket>>
      BY <2>2
    <3>2. Head(answer) = DataPacket(Fst(r))
      BY <1>3, <3>1, TupleFacts
    <3> QED
      BY <1>1, <1>3, <3>2
  <2> QED
    BY <2>1, <2>2 DEF Announced
<1>5. ~Between
  <2> SUFFICES ASSUME NEW r \in 1 .. Points - 1, answer = <<DataPacket(Snd(r)), LastPacket>>
               PROVE  FALSE
    BY DEF Between
  <2>1. Head(<<DataPacket(Snd(r)), LastPacket>>) = DataPacket(Snd(r))
    BY <1>3, TupleFacts
  <2>2. Head(answer) = DataPacket(Snd(r))
    BY <2>1, Zenon
  <2> QED
    BY <1>1, <1>3, <2>2
<1>6. Collected
  BY <1>1, <1>2, <1>4, <1>5, HandlingFacts
<1>7. answer' = <<>>
  <2>1. answer = <<LastPacket>>
    BY <1>6 DEF Collected
  <2>2. Tail(<<LastPacket>>) = <<>>
    BY <1>3, TupleFacts
  <2> QED
    BY <1>2, <2>1, <2>2, Zenon
<1>8. header' = TRUE /\ data' = <<>> /\ UNCHANGED <<len, panic>>
  BY DEF DtDraw, StartOver
<1>9. image' = IF Len(data) > 1
                 THEN [(IF ch = 0 THEN Blank ELSE image) EXCEPT ![ch] = data]
                 ELSE IF ch = 0 THEN Blank ELSE image
  BY DEF DtDraw
<1>10. image' \in [Traces -> Seq(Bytes)]
  <2>1. image \in [Traces -> Seq(Bytes)] /\ data \in Seq(Bytes)
    BY DEF HInv, TypeOK
  <2>2. Blank \in [Traces -> Seq(Bytes)]
    BY DEF Blank
  <2>3. (IF ch = 0 THEN Blank ELSE image) \in [Traces -> Seq(Bytes)]
    BY <2>1, <2>2
  <2> QED
    BY <1>9, <2>1, <2>3
<1> QED
  BY <1>2, <1>6, <1>7, <1>8, <1>9, <1>10

\* After the last packet the statics are as before the first.
LEMMA DtDrawKeepsHInv ==
  ASSUME HInv, DtDraw
  PROVE  HInv'
<1>1. /\ InWave /\ Collected /\ header' = TRUE /\ data' = <<>>
      /\ answer' = <<>> /\ current' = Service!Nothing
      /\ UNCHANGED <<len, panic, content, batchVars, others, reconnects, wavesrc, submitted, waiting>>
      /\ image' \in [Traces -> Seq(Bytes)]
  BY DtDrawFacts
<1>2. Handle("wave") /\ Head(answer).last /\ ch' = NextTrace
  BY DEF DtDraw
<1>3. answer' = Tail(answer)
  BY <1>2, HandleFacts
<1>4. Queue' /\ Contents'
  BY <1>1, <1>2, <1>3, HandleKeepsQueue
<1>5. ch' \in Traces
  <2>1. Chc \in Nat /\ Chc >= 1 /\ ch \in Nat
    BY PlotAssumption DEF HInv, TypeOK, Traces
  <2> QED
    BY <1>2, <2>1 DEF NextTrace, Traces
<1>6. frame' \in [Traces -> Seq(Bytes)] /\ frames' \in Nat
  <2>1. frame \in [Traces -> Seq(Bytes)] /\ frames \in Nat
    BY DEF HInv, TypeOK
  <2>2. (frame' = image' /\ frames' = frames + 1) \/ UNCHANGED <<frame, frames>>
    BY DEF DtDraw
  <2> QED
    BY <1>1, <2>1, <2>2
<1>7. TypeOK'
  <2>1. answer' \in Seq(Packet) /\ data' \in Seq(Bytes)
    BY <1>1
  <2> QED
    BY <1>1, <1>5, <1>6, <2>1 DEF HInv, TypeOK, batchVars, Packet
<1>8. Handling'
  BY <1>1 DEF Handling, InWave, Service!Nothing
<1> QED
  BY <1>4, <1>7, <1>8 DEF HInv

\* A disconnect between two frames leaves the statics as they were.
LEMMA ReconnectKeepsHInv ==
  ASSUME HInv, Tidy, Reconnect
  PROVE  HInv'
<1>1. /\ reconnects' = reconnects + 1 /\ header /\ \A t \in Batchers : pos[t] = 1
      /\ submitted' = 0 /\ waiting' = <<>> /\ current' = Service!Nothing
      /\ content' = <<>> /\ answer' = <<>>
      /\ UNCHANGED <<batchVars, others, wavesrc, plotVars>>
  BY DEF Reconnect
<1>2. header' /\ data' = <<>>
  BY <1>1, HandlingFacts DEF plotVars
<1>3. TypeOK'
  <2>1. answer' \in Seq(Packet) /\ content' \in Seq(Commands) /\ Len(content') = submitted'
    BY <1>1
  <2> QED
    BY <1>1, <2>1 DEF HInv, TypeOK, batchVars, plotVars, Packet
<1>4. Queue'
  BY <1>1 DEF Queue, Gone, Entry, Service!Nothing
<1>5. Contents'
  BY <1>1 DEF HInv, Contents, batchVars
<1>6. Handling'
  BY <1>1, <1>2 DEF Handling, InWave, Service!Nothing
<1> QED
  BY <1>3, <1>4, <1>5, <1>6 DEF HInv

\* Nothing happens.
LEMMA IdleKeepsHInv ==
  ASSUME HInv, UNCHANGED vars
  PROVE  HInv'
<1>1. TypeOK'
  BY DEF HInv, vars, service, batchVars, plotVars, TypeOK
<1>2. Queue'
  BY DEF HInv, vars, service, Queue, Gone, IsQuery, Service!Nothing
<1>3. Contents'
  BY DEF HInv, vars, batchVars, Contents
<1>4. Handling'
  <2>1. Gone' = Gone
    BY DEF vars, service, Gone
  <2> QED
    BY <2>1, HandlingSame DEF vars, service, plotVars
<1> QED
  BY <1>1, <1>2, <1>3, <1>4 DEF HInv

\* The packet that announces a waveform.
LEMMA AnnouncingFacts ==
  ASSUME HInv, InWave, header
  PROVE  /\ ~Head(answer).last
         /\ \E m \in 1 .. Points : Head(answer) = TextPacket(m) /\ TextPacket(m).says = m
<1>1. PICK m \in 1 .. Points :
   \/ answer = <<TextPacket(m), DataPacket(Wave), LastPacket>>
   \/ \E r \in 1 .. Points - 1 :
        answer = <<TextPacket(m), DataPacket(Fst(r)), DataPacket(Snd(r)), LastPacket>>
  BY HandlingFacts DEF Announcing
<1>2. m \in Nat
  BY PlotAssumption
<1>3. TextPacket(m) \in Packet /\ TextPacket(m).says = m /\ ~TextPacket(m).last
      /\ LastPacket \in Packet /\ DataPacket(Wave) \in Packet
      /\ \A r \in 1 .. Points - 1 : DataPacket(Fst(r)) \in Packet /\ DataPacket(Snd(r)) \in Packet
  BY <1>2, PacketFacts, PartFacts
<1>4. Head(answer) = TextPacket(m)
  <2>1. CASE answer = <<TextPacket(m), DataPacket(Wave), LastPacket>>
    BY <1>3, <2>1, TupleFacts
  <2>2. CASE \E r \in 1 .. Points - 1 :
        answer = <<TextPacket(m), DataPacket(Fst(r)), DataPacket(Snd(r)), LastPacket>>
    BY <1>3, <2>2, TupleFacts
  <2> QED
    BY <1>1, <2>1, <2>2
<1> QED
  BY <1>3, <1>4

\* However commands are pushed and sent, and whatever is announced, gui_dtwave
\* always knows which packet of which waveform comes next, as long as no
\* connection ends within a waveform.
THEOREM HandlingKnown == ASSUME Tidy PROVE Spec => []HInv
<1>1. Init => HInv
  BY HInvInit
<1>2. HInv /\ [Next]_vars => HInv'
  <2> SUFFICES ASSUME HInv, [Next]_vars PROVE HInv'
    OBVIOUS
  <2>1. ASSUME NEW t \in Batchers, PushBatch(t) PROVE HInv'
    BY <2>1, PushBatchKeepsHInv
  <2>2. ASSUME NEW kind \in {"set", "query"}, PushOther(kind) PROVE HInv'
    BY <2>2, PushOtherKeepsHInv
  <2>3. CASE Send
    BY <2>3, SendKeepsHInv
  <2>4. CASE HandlerStep
    BY <2>4, HandleOtherKeepsHInv, DtHeaderKeepsHInv, DtStoreKeepsHInv, DtPanicKeepsHInv,
       DtDrawKeepsHInv DEF HandlerStep
  <2>5. CASE Reconnect
    BY <2>5, ReconnectKeepsHInv
  <2>6. CASE UNCHANGED vars
    BY <2>6, IdleKeepsHInv
  <2> QED
    BY <2>1, <2>2, <2>3, <2>4, <2>5, <2>6 DEF Next
<1> QED
  BY <1>1, <1>2, PTL DEF Spec

\* gui_dtwave stays within gui->data and within the traces.
THEOREM DataInBuffer == ASSUME Tidy PROVE Spec => []InBuffer
<1>1. HInv => InBuffer
  <2> SUFFICES ASSUME HInv PROVE InBuffer
    OBVIOUS
  <2>1. TypeOK
    BY DEF HInv
  <2>2. Points \in Nat /\ PntMax \in Nat /\ PntMax >= Points /\ Len(<<>>) = 0
    BY PlotAssumption
  <2>3. CASE data = <<>>
    BY <2>1, <2>2, <2>3 DEF InBuffer
  <2>4. CASE data # <<>>
    <3>1. ~header /\ InWave
      BY <2>4, HandlingFacts
    <3>2. Announced \/ Between \/ Collected
      BY <3>1, HandlingFacts
    <3>3. Len(data) \in Nat
      BY <2>1 DEF TypeOK
    <3>4. \/ data = Wave \/ Len(data) <= Points
          \/ \E r \in 1 .. Points - 1 : data = Fst(r)
      BY <2>4, <3>2 DEF Announced, Between, Collected, Short
    <3>5. Len(data) <= Points
      BY <3>1, <3>4, <2>2, PartFacts
    <3>6. Len(data) <= PntMax
      BY <2>2, <3>3, <3>5
    <3> QED
      BY <2>1, <3>6 DEF InBuffer
  <2> QED
    BY <2>3, <2>4
<1> QED
  BY <1>1, HandlingKnown, PTL

\* The flag of gui_dtwave says whether the next packet of a waveform is the one
\* that announces it.
THEOREM HeaderFlag == ASSUME Tidy PROVE Spec => []HeaderTracked
<1>1. HInv => HeaderTracked
  <2> SUFFICES ASSUME HInv PROVE HeaderTracked
    OBVIOUS
  <2>1. header \in BOOLEAN
    BY DEF HInv, TypeOK
  <2>2. CASE ~InWave
    <3>1. header
      BY <2>2, HandlingFacts
    <3>2. ~InWaveform
      BY <2>2, QueueFacts DEF InWaveform, InWave
    <3> QED
      BY <2>1, <3>1, <3>2, Zenon DEF HeaderTracked
  <2>3. CASE InWave /\ header
    <3>1. PICK m \in 1 .. Points : Head(answer) = TextPacket(m) /\ TextPacket(m).says = m
      BY <2>3, AnnouncingFacts
    <3>2. m # 0
      BY PlotAssumption
    <3>3. ~InWaveform
      BY <3>1, <3>2 DEF InWaveform
    <3> QED
      BY <2>1, <2>3, <3>3, Zenon DEF HeaderTracked
  <2>4. CASE InWave /\ ~header
    <3>1. Head(answer).says = 0
      <4>1. CASE Head(answer).last
        <5>1. LastPacket \in Packet /\ LastPacket.says = 0
          BY PacketFacts
        <5>2. Announced \/ Between \/ Collected
          BY <2>4, HandlingFacts
        <5>3. DataPacket(Wave) \in Packet /\ DataPacket(Wave).says = 0
              /\ \A r \in 1 .. Points - 1 :
                   /\ DataPacket(Fst(r)) \in Packet /\ DataPacket(Fst(r)).says = 0
                   /\ DataPacket(Snd(r)) \in Packet /\ DataPacket(Snd(r)).says = 0
          BY <2>4, PacketFacts, PartFacts
        <5> QED
          BY <5>1, <5>2, <5>3, TupleFacts DEF Announced, Between, Collected
      <4>2. CASE ~Head(answer).last
        BY <2>4, <4>2, DataFacts, PacketFacts, PartFacts
      <4> QED
        BY <4>1, <4>2
    <3>2. InWaveform
      BY <2>4, <3>1, QueueFacts DEF InWaveform, InWave
    <3> QED
      BY <2>1, <2>4, <3>2, Zenon DEF HeaderTracked
  <2> QED
    BY <2>2, <2>3, <2>4
<1> QED
  BY <1>1, HandlingKnown, PTL

(***************************************************************************)
(* PInv: waveforms are added at one end of the queue and done with at the  *)
(* other                                                                   *)
(***************************************************************************)

OneBatcher == \A s, t \in Batchers : s = t

\* Where the commands that are not yet answered begin.
LEMMA FirstFacts ==
  HInv =>
    /\ Len(content) \in Nat /\ Gone \in Nat /\ Gone <= Len(content)
    /\ First \in Nat /\ First >= 1 /\ First <= Len(content) + 1
    /\ current = Service!Nothing => First = Gone + 1
    /\ current # Service!Nothing => First = Gone /\ First \in 1 .. Len(content)
<1> SUFFICES ASSUME HInv PROVE
    /\ Len(content) \in Nat /\ Gone \in Nat /\ Gone <= Len(content)
    /\ First \in Nat /\ First >= 1 /\ First <= Len(content) + 1
    /\ current = Service!Nothing => First = Gone + 1
    /\ current # Service!Nothing => First = Gone /\ First \in 1 .. Len(content)
  OBVIOUS
<1>1. Len(content) \in Nat /\ Gone \in 0 .. Len(content)
  BY QueueFacts
<1>2. CASE current = Service!Nothing
  BY <1>1, <1>2 DEF First
<1>3. CASE current # Service!Nothing
  <2>1. First = Gone /\ Gone \in 1 .. Len(content)
    BY <1>3, QueueFacts DEF First
  <2> QED
    BY <1>1, <1>3, <2>1
<1> QED
  BY <1>2, <1>3

\* No waveform appears, and what remains of them keeps its order.
WavesKept ==
  /\ \A i : FirstWave(i)' => FirstWave(i) /\ content'[i] = content[i]
  /\ \A i : LastWave(i)' => LastWave(i) /\ content'[i] = content[i]
  /\ \A i, k : NextWave(i, k)' =>
       NextWave(i, k) /\ content'[i] = content[i] /\ content'[k] = content[k]
  /\ NoWave' => NoWave

\* A setting or another query is pushed.
LEMMA PushKeepsWaves ==
  ASSUME HInv, NEW cmd \in Commands, Push(cmd), UNCHANGED answer, cmd.kind # "wave"
  PROVE  WavesKept
<1>1. /\ Len(content') = Len(content) + 1
      /\ \A i \in 1 .. Len(content) : content'[i] = content[i]
      /\ content'[Len(content) + 1] = cmd
      /\ Gone' = Gone /\ UNCHANGED current
  BY Pushed
<1>2. Len(content) \in Nat /\ First \in Nat /\ First >= 1 /\ First <= Len(content) + 1
  BY FirstFacts
<1>3. First' = First
  BY <1>1 DEF First, Service!Nothing
<1>4. ASSUME NEW i, IsWave(i)'
      PROVE  IsWave(i) /\ i \in 1 .. Len(content) /\ content'[i] = content[i]
  <2>1. i \in First .. Len(content) + 1 /\ content'[i].kind = "wave"
    BY <1>1, <1>3, <1>4 DEF IsWave
  <2>2. i # Len(content) + 1
    BY <1>1, <2>1
  <2>3. i \in First .. Len(content) /\ i \in 1 .. Len(content)
    BY <1>2, <2>1, <2>2
  <2> QED
    BY <1>1, <2>1, <2>3 DEF IsWave
<1>5. ASSUME NEW a \in Int, NEW b \in Int, a >= 1, b <= Len(content), NoneIn("wave", a, b)'
      PROVE  NoneIn("wave", a, b)
  <2> SUFFICES ASSUME NEW m \in a .. b PROVE content[m].kind # "wave"
    BY DEF NoneIn
  <2>1. content'[m].kind # "wave"
    BY <1>5 DEF NoneIn
  <2>2. m \in 1 .. Len(content)
    BY <1>2, <1>5
  <2> QED
    BY <1>1, <2>1, <2>2
<1>6. ASSUME NEW a \in Int, a >= 1, NoneIn("wave", a, Len(content))'
      PROVE  NoneIn("wave", a, Len(content))
  <2> SUFFICES ASSUME NEW m \in a .. Len(content) PROVE content[m].kind # "wave"
    BY DEF NoneIn
  <2>1. m \in a .. Len(content') /\ m \in 1 .. Len(content)
    BY <1>1, <1>2, <1>6
  <2>2. content'[m].kind # "wave"
    BY <1>6, <2>1 DEF NoneIn
  <2> QED
    BY <1>1, <2>1, <2>2
<1>7. ASSUME NEW i, FirstWave(i)' PROVE FirstWave(i) /\ content'[i] = content[i]
  <2>1. IsWave(i) /\ i \in 1 .. Len(content) /\ content'[i] = content[i]
    BY <1>4, <1>7 DEF FirstWave
  <2>2. NoneIn("wave", First, i - 1)'
    BY <1>7 DEF FirstWave
  <2>3. \A m \in First .. i - 1 : content'[m].kind # "wave"
    BY <1>3, <2>2 DEF NoneIn
  <2>4. \A m \in First .. i - 1 : content[m].kind # "wave"
    <3> SUFFICES ASSUME NEW m \in First .. i - 1 PROVE content[m].kind # "wave"
      OBVIOUS
    <3>1. m \in 1 .. Len(content)
      BY <1>2, <2>1
    <3> QED
      BY <1>1, <2>3, <3>1
  <2> QED
    BY <2>1, <2>4 DEF FirstWave, NoneIn
<1>8. ASSUME NEW i, LastWave(i)' PROVE LastWave(i) /\ content'[i] = content[i]
  <2>1. IsWave(i) /\ i \in 1 .. Len(content) /\ content'[i] = content[i]
    BY <1>4, <1>8 DEF LastWave
  <2>2. i + 1 \in Int /\ i + 1 >= 1
    BY <2>1
  <2>3. NoneIn("wave", i + 1, Len(content))'
    BY <1>8 DEF LastWave
  <2> QED
    BY <1>6, <2>1, <2>2, <2>3 DEF LastWave
<1>9. ASSUME NEW i, NEW k, NextWave(i, k)'
      PROVE  NextWave(i, k) /\ content'[i] = content[i] /\ content'[k] = content[k]
  <2>1. /\ IsWave(i) /\ i \in 1 .. Len(content) /\ content'[i] = content[i]
        /\ IsWave(k) /\ k \in 1 .. Len(content) /\ content'[k] = content[k]
        /\ i < k /\ NoneIn("wave", i + 1, k - 1)'
    BY <1>4, <1>9 DEF NextWave
  <2>2. i + 1 \in Int /\ i + 1 >= 1 /\ k - 1 \in Int /\ k - 1 <= Len(content)
    BY <1>2, <2>1
  <2>3. NoneIn("wave", i + 1, k - 1)
    BY <1>5, <2>1, <2>2
  <2> QED
    BY <2>1, <2>3 DEF NextWave
<1>10. ASSUME NoWave' PROVE NoWave
  <2>1. \A m \in First .. Len(content) + 1 : content'[m].kind # "wave"
    BY <1>1, <1>3, <1>10 DEF NoWave, NoneIn
  <2>2. \A m \in First .. Len(content) : content[m].kind # "wave"
    <3> SUFFICES ASSUME NEW m \in First .. Len(content) PROVE content[m].kind # "wave"
      OBVIOUS
    <3>1. m \in 1 .. Len(content) /\ m \in First .. Len(content) + 1
      BY <1>2
    <3> QED
      BY <1>1, <2>1, <3>1
  <2> QED
    BY <2>2 DEF NoWave, NoneIn
<1> QED
  BY <1>7, <1>8, <1>9, <1>10 DEF WavesKept

\* A command that is no waveform is done with.
LEMMA SkipKeepsWaves ==
  ASSUME HInv, UNCHANGED content,
         First' = First \/ (First' = First + 1 /\ content[First].kind # "wave")
  PROVE  WavesKept
<1>1. Len(content) \in Nat /\ First \in Nat /\ First >= 1
  BY FirstFacts
<1>2. ASSUME NEW i, IsWave(i)' PROVE IsWave(i) /\ i \in First' .. Len(content)
  <2>1. i \in First' .. Len(content) /\ content[i].kind = "wave"
    BY <1>2 DEF IsWave
  <2>2. i \in First .. Len(content)
    BY <1>1, <2>1
  <2> QED
    BY <2>1, <2>2 DEF IsWave
<1>4. ASSUME NEW i, FirstWave(i)' PROVE FirstWave(i)
  <2>1. IsWave(i) /\ i \in First' .. Len(content)
    BY <1>2, <1>4 DEF FirstWave
  <2>2. \A m \in First' .. i - 1 : content[m].kind # "wave"
    BY <1>4 DEF FirstWave, NoneIn
  <2>3. ASSUME NEW m \in First .. i - 1 PROVE content[m].kind # "wave"
    <3>1. m = First \/ m \in First' .. i - 1
      BY <1>1, <2>1
    <3>2. First' = First \/ content[First].kind # "wave"
      OBVIOUS
    <3> QED
      BY <2>2, <3>1, <3>2
  <2> QED
    BY <2>1, <2>3 DEF FirstWave, NoneIn
<1>5. ASSUME NEW i, LastWave(i)' PROVE LastWave(i)
  BY <1>2, <1>5 DEF LastWave, NoneIn
<1>6. ASSUME NEW i, NEW k, NextWave(i, k)' PROVE NextWave(i, k)
  BY <1>2, <1>6 DEF NextWave, NoneIn
<1>7. ASSUME NoWave' PROVE NoWave
  <2>1. \A m \in First' .. Len(content) : content[m].kind # "wave"
    BY <1>7 DEF NoWave, NoneIn
  <2>2. ASSUME NEW m \in First .. Len(content) PROVE content[m].kind # "wave"
    <3>1. m = First \/ m \in First' .. Len(content)
      BY <1>1
    <3>2. First' = First \/ content[First].kind # "wave"
      OBVIOUS
    <3> QED
      BY <2>1, <3>1, <3>2
  <2> QED
    BY <2>2 DEF NoWave, NoneIn
<1> QED
  BY <1>4, <1>5, <1>6, <1>7 DEF WavesKept

\* A waveform is asked for: it is the last one now, and the first if there was
\* none.
LEMMA PushedWave ==
  ASSUME HInv, NEW cmd \in Commands, Push(cmd), UNCHANGED answer, cmd.kind = "wave",
         NEW n, n = Len(content) + 1
  PROVE  /\ \A i : FirstWave(i)' => (FirstWave(i) /\ content'[i] = content[i]) \/ (i = n /\ NoWave)
         /\ \A i : LastWave(i)' => i = n
         /\ \A i, k : NextWave(i, k)' =>
              /\ content'[i] = content[i]
              /\ (NextWave(i, k) /\ content'[k] = content[k]) \/ (k = n /\ LastWave(i))
         /\ ~NoWave'
         /\ content'[n] = cmd
<1>1. /\ Len(content') = n /\ content'[n] = cmd
      /\ \A i \in 1 .. Len(content) : content'[i] = content[i]
      /\ Gone' = Gone /\ UNCHANGED current
  BY Pushed
<1>2. Len(content) \in Nat /\ First \in Nat /\ First >= 1 /\ First <= Len(content) + 1
  BY FirstFacts
<1>3. First' = First
  BY <1>1 DEF First, Service!Nothing
<1>4. n \in Nat /\ n = Len(content) + 1 /\ n \in First' .. Len(content')
  BY <1>1, <1>2, <1>3
<1>5. ASSUME NEW i, IsWave(i)', i # n
      PROVE  IsWave(i) /\ i \in 1 .. Len(content) /\ content'[i] = content[i]
  <2>1. i \in First .. n /\ content'[i].kind = "wave"
    BY <1>1, <1>3, <1>5 DEF IsWave
  <2>2. i \in First .. Len(content) /\ i \in 1 .. Len(content)
    BY <1>2, <1>4, <1>5, <2>1
  <2> QED
    BY <1>1, <2>1, <2>2 DEF IsWave
<1>6. ASSUME NEW a \in Nat, NEW b \in Nat, a >= 1, b <= Len(content),
             \A m \in a .. b : content'[m].kind # "wave"
      PROVE  NoneIn("wave", a, b)
  <2> SUFFICES ASSUME NEW m \in a .. b PROVE content[m].kind # "wave"
    BY DEF NoneIn
  <2>1. content'[m].kind # "wave"
    BY <1>6
  <2>2. m \in 1 .. Len(content)
    BY <1>2, <1>6
  <2> QED
    BY <1>1, <2>1, <2>2
<1>7. ASSUME NEW i, FirstWave(i)'
      PROVE  (FirstWave(i) /\ content'[i] = content[i]) \/ (i = n /\ NoWave)
  <2>1. \A m \in First .. i - 1 : content'[m].kind # "wave"
    BY <1>3, <1>7 DEF FirstWave, NoneIn
  <2>2. CASE i = n
    <3>1. \A m \in First .. Len(content) : content'[m].kind # "wave"
      BY <1>2, <1>4, <2>1, <2>2
    <3>2. NoWave
      BY <1>2, <1>6, <3>1 DEF NoWave
    <3> QED
      BY <2>2, <3>2
  <2>3. CASE i # n
    <3>1. IsWave(i) /\ i \in 1 .. Len(content) /\ content'[i] = content[i]
      BY <1>5, <1>7, <2>3 DEF FirstWave
    <3>2. i - 1 \in Nat /\ i - 1 <= Len(content)
      BY <1>2, <3>1
    <3>3. NoneIn("wave", First, i - 1)
      BY <1>2, <1>6, <2>1, <3>2
    <3> QED
      BY <3>1, <3>3 DEF FirstWave
  <2> QED
    BY <2>2, <2>3
<1>8. ASSUME NEW i, LastWave(i)' PROVE i = n
  <2> SUFFICES ASSUME i # n PROVE FALSE
    OBVIOUS
  <2>1. i \in 1 .. Len(content)
    BY <1>5, <1>8 DEF LastWave
  <2>2. \A m \in i + 1 .. n : content'[m].kind # "wave"
    BY <1>1, <1>8 DEF LastWave, NoneIn
  <2>3. n \in i + 1 .. n
    BY <1>2, <1>4, <2>1
  <2> QED
    BY <1>1, <2>2, <2>3
<1>9. ASSUME NEW i, NEW k, NextWave(i, k)'
      PROVE  /\ content'[i] = content[i]
             /\ (NextWave(i, k) /\ content'[k] = content[k]) \/ (k = n /\ LastWave(i))
  <2>1. IsWave(i)' /\ IsWave(k)' /\ i < k /\ \A m \in i + 1 .. k - 1 : content'[m].kind # "wave"
    BY <1>9 DEF NextWave, NoneIn
  <2>2. i \in Nat /\ k \in Nat /\ k <= n
    BY <1>1, <1>2, <1>3, <1>4, <2>1 DEF IsWave
  <2>3. i # n
    BY <1>4, <2>1, <2>2
  <2>4. IsWave(i) /\ i \in 1 .. Len(content) /\ content'[i] = content[i]
    BY <1>5, <2>1, <2>3
  <2>5. CASE k = n
    <3>1. \A m \in i + 1 .. Len(content) : content'[m].kind # "wave"
      BY <1>2, <1>4, <2>1, <2>5
    <3>2. i + 1 \in Nat /\ i + 1 >= 1
      BY <2>2
    <3>3. NoneIn("wave", i + 1, Len(content))
      BY <1>2, <1>6, <3>1, <3>2
    <3> QED
      BY <2>4, <2>5, <3>3 DEF LastWave
  <2>6. CASE k # n
    <3>1. IsWave(k) /\ k \in 1 .. Len(content) /\ content'[k] = content[k]
      BY <1>5, <2>1, <2>6
    <3>2. i + 1 \in Nat /\ i + 1 >= 1 /\ k - 1 \in Nat /\ k - 1 <= Len(content)
      BY <1>2, <2>2, <3>1
    <3>3. NoneIn("wave", i + 1, k - 1)
      BY <1>6, <2>1, <3>2
    <3> QED
      BY <2>1, <2>4, <3>1, <3>3 DEF NextWave
  <2> QED
    BY <2>4, <2>5, <2>6
<1>10. ~NoWave'
  <2> SUFFICES ASSUME NoWave' PROVE FALSE
    OBVIOUS
  <2>1. \A m \in First' .. Len(content') : content'[m].kind # "wave"
    BY DEF NoWave, NoneIn
  <2> QED
    BY <1>1, <1>4, <2>1
<1> QED
  BY <1>1, <1>7, <1>8, <1>9, <1>10

\* A waveform is done with: the next in line is the first now.
LEMMA DoneWave ==
  ASSUME HInv, UNCHANGED content, First' = First + 1, IsWave(First)
  PROVE  /\ FirstWave(First)
         /\ \A i : FirstWave(i)' => NextWave(First, i)
         /\ \A i : LastWave(i)' => LastWave(i)
         /\ \A i, k : NextWave(i, k)' => NextWave(i, k)
         /\ NoWave' => LastWave(First)
<1>1. Len(content) \in Nat /\ First \in Nat /\ First >= 1
  BY FirstFacts
<1>2. ASSUME NEW i, IsWave(i)' PROVE IsWave(i) /\ i \in First + 1 .. Len(content)
  <2>1. i \in First + 1 .. Len(content) /\ content[i].kind = "wave"
    BY <1>2 DEF IsWave
  <2>2. i \in First .. Len(content)
    BY <1>1, <2>1
  <2> QED
    BY <2>1, <2>2 DEF IsWave
<1>3. FirstWave(First)
  <2>1. \A m \in First .. First - 1 : content[m].kind # "wave"
    BY <1>1
  <2> QED
    BY <2>1 DEF FirstWave, NoneIn
<1>4. ASSUME NEW i, FirstWave(i)' PROVE NextWave(First, i)
  <2>1. IsWave(i) /\ i \in First + 1 .. Len(content)
    BY <1>2, <1>4 DEF FirstWave
  <2>2. First < i
    BY <1>1, <2>1
  <2>3. \A m \in First + 1 .. i - 1 : content[m].kind # "wave"
    BY <1>4 DEF FirstWave, NoneIn
  <2> QED
    BY <2>1, <2>2, <2>3 DEF NextWave, NoneIn
<1>5. ASSUME NEW i, LastWave(i)' PROVE LastWave(i)
  BY <1>2, <1>5 DEF LastWave, NoneIn
<1>6. ASSUME NEW i, NEW k, NextWave(i, k)' PROVE NextWave(i, k)
  BY <1>2, <1>6 DEF NextWave, NoneIn
<1>7. ASSUME NoWave' PROVE LastWave(First)
  <2>1. \A m \in First + 1 .. Len(content) : content[m].kind # "wave"
    BY <1>7 DEF NoWave, NoneIn
  <2> QED
    BY <2>1 DEF LastWave, NoneIn
<1> QED
  BY <1>3, <1>4, <1>5, <1>6, <1>7

\* What Order says, without the ranges.
LEMMA OrderFacts ==
  ASSUME Order
  PROVE  /\ \A i : FirstWave(i) => content[i].ch = ch + 1
         /\ \A t \in Batchers : NoWave => Coming(t) = ch + 1
         /\ \A i, k : NextWave(i, k) =>
              /\ content[k].ch = After(content[i].ch)
              /\ content[i].ch # Chc => content[k].batch = content[i].batch
         /\ \A t \in Batchers : \A i : LastWave(i) =>
              /\ Coming(t) = After(content[i].ch)
              /\ content[i].ch # Chc => batch[t] = content[i].batch
BY DEF Order, FirstWave, LastWave, NextWave, IsWave

\* Order and HalfDrawn stay when no waveform is asked for, sent in full, or
\* begun anew with another batch.
LEMMA OrderKept ==
  ASSUME HInv, Order, HalfDrawn, WavesKept, UNCHANGED <<ch, image>>, panic' => panic,
         \A t \in Batchers : Coming(t)' = Coming(t),
         \A t \in Batchers : Coming(t) # 1 => batch'[t] = batch[t]
  PROVE  Order' /\ HalfDrawn'
<1>1. ASSUME NEW i, FirstWave(i)' PROVE content'[i].ch = ch' + 1
  BY <1>1, OrderFacts DEF WavesKept
<1>2. ASSUME NEW t \in Batchers, NoWave' PROVE Coming(t)' = ch' + 1
  BY <1>2, OrderFacts DEF WavesKept
<1>3. ASSUME NEW i, NEW k, NextWave(i, k)'
      PROVE  /\ content'[k].ch = After(content'[i].ch)
             /\ content'[i].ch # Chc => content'[k].batch = content'[i].batch
  BY <1>3, OrderFacts DEF WavesKept
<1>4. ASSUME NEW t \in Batchers, NEW i, LastWave(i)'
      PROVE  /\ Coming(t)' = After(content'[i].ch)
             /\ content'[i].ch # Chc => batch'[t] = content'[i].batch
  <2>1. LastWave(i) /\ content'[i] = content[i]
    BY <1>4 DEF WavesKept
  <2>2. /\ Coming(t) = After(content[i].ch)
        /\ content[i].ch # Chc => batch[t] = content[i].batch
    BY <2>1, OrderFacts
  <2>3. content[i].ch \in Nat /\ content[i].ch >= 1
    <3>1. i \in 1 .. Len(content) /\ content[i].kind = "wave"
      BY <2>1, FirstFacts DEF LastWave, IsWave
    <3>2. content[i].ch \in 1 .. Chc
      BY <3>1 DEF HInv, Contents
    <3> QED
      BY <3>2, PlotAssumption
  <2>4. content[i].ch # Chc => Coming(t) # 1
    BY <2>2, <2>3 DEF After
  <2> QED
    BY <2>1, <2>2, <2>4
<1>5. Order'
  <2>1. \A t \in Batchers : NoWave' => Coming(t)' = ch' + 1
    BY <1>2
  <2>2. \A t \in Batchers : \A i : LastWave(i)' =>
          /\ Coming(t)' = After(content'[i].ch)
          /\ content'[i].ch # Chc => batch'[t] = content'[i].batch
    BY <1>4
  <2> QED
    BY <1>1, <1>3, <2>1, <2>2 DEF Order
<1>6. ASSUME panic', Points > 1, ch' # 0 PROVE \E b \in 1 .. MaxBatches : OfBatch(b)'
  <2>1. panic /\ ch # 0
    BY <1>6
  <2>2. PICK b \in 1 .. MaxBatches : OfBatch(b)
    BY <1>6, <2>1 DEF HalfDrawn
  <2>3. \A k \in 0 .. ch' - 1 : image'[k] = Samples(k + 1, b)
    BY <2>2 DEF OfBatch
  <2>4. ASSUME NEW i \in First' .. Len(content'), FirstWave(i)' PROVE content'[i].batch = b
    <3>1. FirstWave(i) /\ content'[i] = content[i]
      BY <2>4 DEF WavesKept
    <3>2. i \in First .. Len(content)
      BY <3>1 DEF FirstWave, IsWave
    <3> QED
      BY <2>2, <3>1, <3>2 DEF OfBatch
  <2>5. ASSUME NEW t \in Batchers, NoWave' PROVE batch'[t] = b
    <3>1. NoWave
      BY <2>5 DEF WavesKept
    <3>2. Coming(t) = ch + 1 /\ batch[t] = b
      BY <2>2, <3>1, OrderFacts DEF OfBatch
    <3>3. Coming(t) # 1
      <4>1. ch \in Nat
        BY PlotAssumption DEF HInv, TypeOK, Traces
      <4> QED
        BY <2>1, <3>2, <4>1
    <3> QED
      BY <3>2, <3>3
  <2>6. OfBatch(b)'
    BY <2>3, <2>4, <2>5 DEF OfBatch, Samples
  <2> QED
    BY <2>6
<1>7. HalfDrawn'
  BY <1>6 DEF HalfDrawn
<1> QED
  BY <1>5, <1>7

(***************************************************************************)
(* PInv: the source of the instrument                                      *)
(***************************************************************************)

\* Sources is about commands that stay where they are.
LEMMA LastSrcKept ==
  ASSUME HInv, NEW n, n \in 0 .. Len(content),
         \A i \in 1 .. Len(content) : content'[i] = content[i]
  PROVE  \A j : LastSrc(j, n)' <=> LastSrc(j, n)
<1>1. Len(content) \in Nat
  BY FirstFacts
<1>2. \A m \in 1 .. n : content'[m] = content[m]
  BY <1>1
<1> SUFFICES ASSUME NEW j, j \in 1 .. n PROVE LastSrc(j, n)' <=> LastSrc(j, n)
  BY DEF LastSrc
<1>3. \A m \in j + 1 .. n : content'[m] = content[m]
  BY <1>1, <1>2
<1> QED
  BY <1>2, <1>3 DEF LastSrc, NoneIn

\* A command behind the first n.
LastSrcSteps ==
  \A n \in Nat : n + 1 <= Len(content) =>
    /\ content[n + 1].kind # "src" => \A j : LastSrc(j, n + 1) <=> LastSrc(j, n)
    /\ content[n + 1].kind = "src" => \A j : LastSrc(j, n + 1) <=> j = n + 1

\* The last choice of a source stays it until the next.
LEMMA LastSrcNext == HInv => LastSrcSteps
<1> SUFFICES ASSUME HInv, NEW n \in Nat, n + 1 <= Len(content)
             PROVE  /\ content[n + 1].kind # "src" => \A j : LastSrc(j, n + 1) <=> LastSrc(j, n)
                    /\ content[n + 1].kind = "src" => \A j : LastSrc(j, n + 1) <=> j = n + 1
  BY DEF LastSrcSteps
<1>1. n \in Nat
  OBVIOUS
<1>2. ASSUME content[n + 1].kind # "src", NEW j PROVE LastSrc(j, n + 1) <=> LastSrc(j, n)
  <2>1. ASSUME LastSrc(j, n + 1) PROVE LastSrc(j, n)
    <3>1. j \in 1 .. n + 1 /\ content[j].kind = "src"
          /\ \A m \in j + 1 .. n + 1 : content[m].kind # "src"
      BY <2>1 DEF LastSrc, NoneIn
    <3>2. j # n + 1
      BY <1>2, <3>1
    <3>3. j \in 1 .. n /\ \A m \in j + 1 .. n : m \in j + 1 .. n + 1
      BY <1>1, <3>1, <3>2
    <3> QED
      BY <3>1, <3>3 DEF LastSrc, NoneIn
  <2>2. ASSUME LastSrc(j, n) PROVE LastSrc(j, n + 1)
    <3>1. j \in 1 .. n /\ content[j].kind = "src"
          /\ \A m \in j + 1 .. n : content[m].kind # "src"
      BY <2>2 DEF LastSrc, NoneIn
    <3>2. j \in 1 .. n + 1 /\ \A m \in j + 1 .. n + 1 : m = n + 1 \/ m \in j + 1 .. n
      BY <1>1, <3>1
    <3>3. \A m \in j + 1 .. n + 1 : content[m].kind # "src"
      BY <1>2, <3>1, <3>2
    <3> QED
      BY <3>1, <3>2, <3>3 DEF LastSrc, NoneIn
  <2> QED
    BY <2>1, <2>2
<1>3. ASSUME content[n + 1].kind = "src", NEW j PROVE LastSrc(j, n + 1) <=> j = n + 1
  <2>1. ASSUME LastSrc(j, n + 1) PROVE j = n + 1
    <3>1. j \in 1 .. n + 1 /\ \A m \in j + 1 .. n + 1 : content[m].kind # "src"
      BY <2>1 DEF LastSrc, NoneIn
    <3>2. n + 1 \notin j + 1 .. n + 1
      BY <1>3, <3>1
    <3> QED
      BY <1>1, <3>1, <3>2
  <2>2. ASSUME j = n + 1 PROVE LastSrc(j, n + 1)
    <3>1. j \in 1 .. n + 1 /\ j + 1 .. n + 1 = {}
      BY <1>1, <2>2
    <3> QED
      BY <1>3, <2>2, <3>1 DEF LastSrc, NoneIn
  <2> QED
    BY <2>1, <2>2
<1> QED
  BY <1>2, <1>3

\* A command is pushed behind the first n: the first two parts of Sources.
SourceOfPushed(n, cmd) ==
  /\ \A j \in 1 .. Gone' : LastSrc(j, Gone)' => wavesrc' = content'[j].ch
  /\ \A i \in 1 .. Len(content') : content'[i].kind = "wave" =>
       \E j \in 1 .. i : LastSrc(j, i)' /\ content'[j].ch = content'[i].ch
  /\ n \in Nat /\ Len(content') = n + 1 /\ content'[n + 1] = cmd
  /\ \A i \in 1 .. n : content'[i] = content[i]
  /\ cmd.kind # "src" => \A j : LastSrc(j, n + 1)' <=> LastSrc(j, n)
  /\ cmd.kind = "src" => \A j : LastSrc(j, n + 1)' <=> j = n + 1

\* A command that is pushed does not change what waveforms come from.
LEMMA PushKeepsSources ==
  ASSUME HInv, HInv', Sources, NEW cmd \in Commands, Push(cmd), UNCHANGED <<answer, wavesrc>>,
         NEW n, n = Len(content),
         cmd.kind = "wave" => \E j \in 1 .. n : LastSrc(j, n) /\ content[j].ch = cmd.ch
  PROVE  SourceOfPushed(n, cmd)
<1>1. /\ Len(content') = n + 1 /\ content'[n + 1] = cmd
      /\ \A i \in 1 .. n : content'[i] = content[i]
      /\ Gone' = Gone
  BY Pushed
<1>2. n \in Nat /\ Gone \in 0 .. n
  BY FirstFacts
<1>3. \A j : LastSrc(j, n)' <=> LastSrc(j, n)
  <2>1. n \in 0 .. Len(content)
    BY <1>2
  <2> QED
    BY <1>1, <2>1, LastSrcKept
<1>4. /\ cmd.kind # "src" => \A j : LastSrc(j, n + 1)' <=> LastSrc(j, n)'
      /\ cmd.kind = "src" => \A j : LastSrc(j, n + 1)' <=> j = n + 1
  <2>1. LastSrcSteps'
    BY LastSrcNext, PTL
  <2>2. n \in Nat /\ n + 1 <= Len(content')
    BY <1>1, <1>2
  <2>3. \A m \in Nat : m + 1 <= Len(content') =>
          /\ content'[m + 1].kind # "src" => \A j : LastSrc(j, m + 1)' <=> LastSrc(j, m)'
          /\ content'[m + 1].kind = "src" => \A j : LastSrc(j, m + 1)' <=> j = m + 1
    BY <2>1 DEF LastSrcSteps
  <2>4. /\ content'[n + 1].kind # "src" => \A j : LastSrc(j, n + 1)' <=> LastSrc(j, n)'
        /\ content'[n + 1].kind = "src" => \A j : LastSrc(j, n + 1)' <=> j = n + 1
    BY <2>2, <2>3
  <2> QED
    BY <1>1, <2>4
<1>5. ASSUME NEW j \in 1 .. Gone', LastSrc(j, Gone)' PROVE wavesrc' = content'[j].ch
  <2>1. LastSrc(j, Gone)
    BY <1>1, <1>2, <1>5, LastSrcKept
  <2>2. wavesrc = content[j].ch
    BY <1>1, <1>5, <2>1 DEF Sources
  <2> QED
    BY <1>1, <1>2, <1>5, <2>2
<1>6. ASSUME NEW i \in 1 .. Len(content'), content'[i].kind = "wave"
      PROVE  \E j \in 1 .. i : LastSrc(j, i)' /\ content'[j].ch = content'[i].ch
  <2>1. CASE i \in 1 .. n
    <3>1. content[i].kind = "wave" /\ content'[i] = content[i]
      BY <1>1, <1>6, <2>1
    <3>2. PICK j \in 1 .. i : LastSrc(j, i) /\ content[j].ch = content[i].ch
      BY <2>1, <3>1 DEF Sources
    <3>3. i \in 0 .. Len(content) /\ j \in 1 .. n
      BY <1>2, <2>1
    <3>4. LastSrc(j, i)'
      BY <1>1, <3>2, <3>3, LastSrcKept
    <3> QED
      BY <1>1, <3>1, <3>2, <3>3, <3>4
  <2>2. CASE i = n + 1
    <3>1. content'[i] = cmd /\ cmd.kind = "wave"
      BY <1>1, <1>6, <2>2
    <3>2. PICK j \in 1 .. n : LastSrc(j, n) /\ content[j].ch = cmd.ch
      BY <3>1
    <3>3. LastSrc(j, i)'
      BY <1>3, <1>4, <2>2, <3>1, <3>2
    <3>4. j \in 1 .. i
      BY <1>2, <2>2
    <3> QED
      BY <1>1, <3>1, <3>2, <3>3, <3>4
  <2> QED
    BY <1>1, <1>2, <2>1, <2>2
<1> QED
  BY <1>1, <1>2, <1>3, <1>4, <1>5, <1>6 DEF SourceOfPushed

(***************************************************************************)
(* PInv, action by action                                                  *)
(***************************************************************************)

\* What is drawn changes only when a waveform is complete.
LEMMA DrawnKept ==
  ASSUME PInv, UNCHANGED <<image, frame, frames>>, panic' => panic
  PROVE  Drawn' /\ (Points > 1 => FrameIsOneBatch')
BY DEF PInv, Drawn, FrameIsOneBatch, Samples

\* The place in the batch after a push.
LEMMA NextPos ==
  ASSUME NEW i \in 1 .. BatchLen, NEW p, p = IF i = BatchLen THEN 1 ELSE i + 1
  PROVE  /\ i = 1 => p # 1 /\ Row(p) = 0 /\ Column(p) = 1
         /\ i # 1 /\ Row(i) # 2 => p # 1 /\ Row(p) = Row(i) + 1 /\ Column(p) = Column(i)
         /\ i # 1 /\ Row(i) = 2 /\ Column(i) # Chc => p # 1 /\ Row(p) = 0 /\ Column(p) = Column(i) + 1
         /\ i # 1 /\ Row(i) = 2 /\ Column(i) = Chc => p = 1
<1>1. Chc \in Nat /\ Chc >= 1 /\ BatchLen = 1 + 3 * Chc /\ i \in Nat /\ i >= 1 /\ i <= 1 + 3 * Chc
  BY PlotAssumption DEF BatchLen
<1>2. i # 1 => /\ Column(i) \in 1 .. Chc /\ Row(i) \in 0 .. 2
               /\ i = 3 * (Column(i) - 1) + Row(i) + 2
  BY BatchFacts
<1>3. CASE i = 1
  <2>1. p = 2
    BY <1>1, <1>3
  <2> QED
    BY <1>3, <2>1 DEF Row, Column
<1>4. CASE i # 1 /\ Row(i) # 2
  <2>1. i # BatchLen
    BY <1>1, <1>2, <1>4
  <2>2. p = i + 1 /\ p # 1
    BY <1>1, <2>1
  <2>3. Row(p) = Row(i) + 1 /\ Column(p) = Column(i)
    BY <1>1, <1>4, <2>2 DEF Row, Column
  <2> QED
    BY <1>4, <2>2, <2>3
<1>5. CASE i # 1 /\ Row(i) = 2 /\ Column(i) # Chc
  <2>1. i # BatchLen
    BY <1>1, <1>2, <1>5
  <2>2. p = i + 1 /\ p # 1
    BY <1>1, <2>1
  <2>3. Row(p) = 0 /\ Column(p) = Column(i) + 1
    BY <1>1, <1>5, <2>2 DEF Row, Column
  <2> QED
    BY <1>5, <2>2, <2>3
<1>6. CASE i # 1 /\ Row(i) = 2 /\ Column(i) = Chc
  <2>1. i = BatchLen
    BY <1>1, <1>2, <1>6
  <2> QED
    BY <1>6, <2>1
<1> QED
  BY <1>3, <1>4, <1>5, <1>6

\* A batch chooses a source before each waveform it asks for.
LEMMA PushBatchKeepsSources ==
  ASSUME HInv, HInv', Sources, OneBatcher, NEW t \in Batchers, PushBatch(t)
  PROVE  Sources'
<1>c. PICK cmd : cmd = BatchCommand(pos[t], batch'[t])
  OBVIOUS
<1>n. PICK n : n = Len(content)
  OBVIOUS
<1>p. PICK p : p = IF pos[t] = BatchLen THEN 1 ELSE pos[t] + 1
  OBVIOUS
<1>1. /\ cmd \in Commands /\ Push(cmd) /\ UNCHANGED <<answer, wavesrc>>
      /\ pos' = [pos EXCEPT ![t] = p] /\ pos[t] \in 1 .. BatchLen
  BY <1>c, <1>p, PushBatchFacts DEF plotVars
<1>2. pos'[t] = p
  BY <1>1 DEF HInv, TypeOK
<1>3. /\ pos[t] = 1 => cmd.kind = "set"
      /\ pos[t] # 1 =>
           /\ cmd.ch = Column(pos[t]) /\ Row(pos[t]) \in 0 .. 2
           /\ Row(pos[t]) = 0 => cmd.kind = "src"
           /\ Row(pos[t]) = 1 => cmd.kind = "set"
           /\ Row(pos[t]) = 2 => cmd.kind = "wave"
  BY <1>1, <1>c, BatchFacts
<1>4. pos[t] # 1 /\ Row(pos[t]) # 0 =>
        \E j \in 1 .. n : LastSrc(j, n) /\ content[j].ch = Column(pos[t])
  BY <1>n DEF Sources
<1>5. cmd.kind = "wave" => \E j \in 1 .. n : LastSrc(j, n) /\ content[j].ch = cmd.ch
  BY <1>3, <1>4
<1>6. /\ \A j \in 1 .. Gone' : LastSrc(j, Gone)' => wavesrc' = content'[j].ch
      /\ \A i \in 1 .. Len(content') : content'[i].kind = "wave" =>
           \E j \in 1 .. i : LastSrc(j, i)' /\ content'[j].ch = content'[i].ch
      /\ n \in Nat /\ Len(content') = n + 1 /\ content'[n + 1] = cmd
      /\ \A i \in 1 .. n : content'[i] = content[i]
      /\ cmd.kind # "src" => \A j : LastSrc(j, n + 1)' <=> LastSrc(j, n)
      /\ cmd.kind = "src" => \A j : LastSrc(j, n + 1)' <=> j = n + 1
  <2>1. SourceOfPushed(n, cmd)
    BY <1>1, <1>5, <1>n, PushKeepsSources
  <2> QED
    BY <2>1 DEF SourceOfPushed
<1>7. ASSUME p # 1, Row(p) # 0
      PROVE  \E j \in 1 .. n + 1 : LastSrc(j, n + 1)' /\ content'[j].ch = Column(p)
  <2>1. pos[t] # 1 /\ Row(pos[t]) # 2 /\ Column(p) = Column(pos[t])
    BY <1>1, <1>7, <1>p, NextPos
  <2>2. CASE Row(pos[t]) = 0
    <3>1. cmd.kind = "src" /\ cmd.ch = Column(p)
      BY <1>3, <2>1, <2>2
    <3>2. n + 1 \in 1 .. n + 1 /\ LastSrc(n + 1, n + 1)' /\ content'[n + 1].ch = Column(p)
      BY <1>6, <3>1
    <3> QED
      BY <3>2
  <2>3. CASE Row(pos[t]) = 1
    <3>1. cmd.kind = "set"
      BY <1>3, <2>1, <2>3
    <3>2. PICK j \in 1 .. n : LastSrc(j, n) /\ content[j].ch = Column(p)
      BY <1>4, <2>1, <2>3
    <3>3. j \in 1 .. n + 1
      BY <1>6
    <3> QED
      BY <1>6, <3>1, <3>2, <3>3
  <2> QED
    BY <1>3, <2>1, <2>2, <2>3
<1>8. ASSUME NEW u \in Batchers, pos'[u] # 1 /\ Row(pos'[u]) # 0
      PROVE  \E j \in 1 .. Len(content') :
               LastSrc(j, Len(content))' /\ content'[j].ch = Column(pos'[u])
  <2>1. u = t
    BY DEF OneBatcher
  <2>2. PICK j \in 1 .. n + 1 : LastSrc(j, n + 1)' /\ content'[j].ch = Column(p)
    BY <1>2, <1>7, <1>8, <2>1
  <2>3. LastSrc(j, Len(content))'
    BY <1>6, <2>2 DEF LastSrc, NoneIn
  <2> QED
    BY <1>2, <1>6, <2>1, <2>2, <2>3
<1> QED
  BY <1>6, <1>8 DEF Sources, Row, Column

\* Nobody else chooses a source.
LEMMA PushOtherKeepsSources ==
  ASSUME HInv, HInv', Sources, NEW kind \in {"set", "query"}, PushOther(kind)
  PROVE  Sources'
<1>c. PICK cmd : cmd = [kind |-> kind, ch |-> 0, batch |-> 0]
  OBVIOUS
<1>n. PICK n : n = Len(content)
  OBVIOUS
<1>1. cmd \in Commands /\ cmd.kind \notin {"src", "wave"}
  BY <1>c DEF Commands
<1>2. Push(cmd) /\ UNCHANGED <<answer, wavesrc, pos>>
  BY <1>c DEF PushOther, batchVars
<1>3. /\ \A j \in 1 .. Gone' : LastSrc(j, Gone)' => wavesrc' = content'[j].ch
      /\ \A i \in 1 .. Len(content') : content'[i].kind = "wave" =>
           \E j \in 1 .. i : LastSrc(j, i)' /\ content'[j].ch = content'[i].ch
      /\ n \in Nat /\ Len(content') = n + 1
      /\ \A i \in 1 .. n : content'[i] = content[i]
      /\ \A j : LastSrc(j, n + 1)' <=> LastSrc(j, n)
  <2>1. SourceOfPushed(n, cmd)
    BY <1>1, <1>2, <1>n, PushKeepsSources
  <2> QED
    BY <1>1, <2>1 DEF SourceOfPushed
<1>4. ASSUME NEW u \in Batchers, pos'[u] # 1 /\ Row(pos'[u]) # 0
      PROVE  \E j \in 1 .. Len(content') :
               LastSrc(j, Len(content))' /\ content'[j].ch = Column(pos'[u])
  <2>1. PICK j \in 1 .. n : LastSrc(j, n) /\ content[j].ch = Column(pos[u])
    BY <1>2, <1>4, <1>n DEF Sources
  <2>2. LastSrc(j, n + 1)' /\ j \in 1 .. n + 1
    BY <1>3, <2>1
  <2>3. LastSrc(j, Len(content))'
    BY <1>3, <2>2 DEF LastSrc, NoneIn
  <2> QED
    BY <1>2, <1>3, <2>1, <2>2, <2>3
<1> QED
  BY <1>3, <1>4 DEF Sources, Row, Column

\* The source the instrument has is the last one that was sent.
LEMMA SendKeepsSources ==
  ASSUME HInv, Sources, Send
  PROVE  Sources'
<1>1. /\ Gone' = Gone + 1 /\ Gone + 1 \in 1 .. Len(content)
      /\ wavesrc' = (IF content[Gone + 1].kind = "src" THEN content[Gone + 1].ch ELSE wavesrc)
      /\ UNCHANGED <<content, pos>>
  BY SendFacts DEF batchVars
<1>2. Gone \in Nat
  BY FirstFacts
<1>3. /\ content[Gone + 1].kind # "src" => \A j : LastSrc(j, Gone + 1) <=> LastSrc(j, Gone)
      /\ content[Gone + 1].kind = "src" => \A j : LastSrc(j, Gone + 1) <=> j = Gone + 1
  <2>1. Gone + 1 <= Len(content)
    BY <1>1
  <2> QED
    BY <1>2, <2>1, LastSrcNext DEF LastSrcSteps
<1>4. ASSUME NEW j \in 1 .. Gone', LastSrc(j, Gone)' PROVE wavesrc' = content'[j].ch
  <2>1. LastSrc(j, Gone + 1)
    BY <1>1, <1>4 DEF LastSrc, NoneIn
  <2>2. CASE content[Gone + 1].kind = "src"
    <3>1. j = Gone + 1
      BY <1>3, <2>1, <2>2
    <3> QED
      BY <1>1, <2>2, <3>1
  <2>3. CASE content[Gone + 1].kind # "src"
    <3>1. LastSrc(j, Gone)
      BY <1>3, <2>1, <2>3
    <3>2. wavesrc = content[j].ch
      BY <3>1 DEF Sources, LastSrc
    <3> QED
      BY <1>1, <2>3, <3>2
  <2> QED
    BY <2>2, <2>3
<1>5. \A j, i : LastSrc(j, i)' <=> LastSrc(j, i)
  BY <1>1 DEF LastSrc, NoneIn
<1>6. \A i \in 1 .. Len(content') : content'[i].kind = "wave" =>
        \E j \in 1 .. i : LastSrc(j, i)' /\ content'[j].ch = content'[i].ch
  BY <1>1, <1>5 DEF Sources
<1>7. \A u \in Batchers : pos'[u] # 1 /\ Row(pos'[u]) # 0 =>
        \E j \in 1 .. Len(content') : LastSrc(j, Len(content)) /\ content'[j].ch = Column(pos'[u])
  BY <1>1 DEF Sources
<1>8. \A j : LastSrc(j, Len(content))' <=> LastSrc(j, Len(content))
  BY <1>1 DEF LastSrc, NoneIn
<1> QED
  BY <1>4, <1>6, <1>7, <1>8 DEF Sources, Row, Column

\* The other steps change nothing that Sources is about.
LEMMA SourcesKept ==
  ASSUME Sources, UNCHANGED <<content, pos, wavesrc>>, Gone' = Gone
  PROVE  Sources'
BY DEF Sources, LastSrc, NoneIn, Row, Column

\* What a push of a batcher does to Order and HalfDrawn.
LEMMA PushBatchKeepsOrder ==
  ASSUME PInv, OneBatcher, NEW t \in Batchers, PushBatch(t)
  PROVE  Order' /\ HalfDrawn'
<1>c. PICK cmd : cmd = BatchCommand(pos[t], batch'[t])
  OBVIOUS
<1>p. PICK p : p = IF pos[t] = BatchLen THEN 1 ELSE pos[t] + 1
  OBVIOUS
<1>n. PICK n : n = Len(content) + 1
  OBVIOUS
<1>0. HInv /\ Order /\ HalfDrawn
  BY DEF PInv
<1>1. /\ cmd \in Commands /\ Push(cmd) /\ UNCHANGED <<answer, ch, image, panic>>
      /\ pos' = [pos EXCEPT ![t] = p] /\ pos[t] \in 1 .. BatchLen
      /\ pos[t] # 1 => batch'[t] = batch[t]
  BY <1>0, <1>c, <1>p, PushBatchFacts DEF plotVars
<1>2. pos'[t] = p
  BY <1>0, <1>1 DEF HInv, TypeOK
<1>3. /\ cmd.batch = batch'[t]
      /\ pos[t] = 1 => cmd.kind = "set"
      /\ pos[t] # 1 =>
           /\ cmd.ch = Column(pos[t]) /\ Row(pos[t]) \in 0 .. 2
           /\ Row(pos[t]) = 0 => cmd.kind = "src"
           /\ Row(pos[t]) = 1 => cmd.kind = "set"
           /\ Row(pos[t]) = 2 => cmd.kind = "wave"
  BY <1>1, <1>c, BatchFacts
<1>4. /\ Coming(t)' = IF p = 1 THEN 1 ELSE Column(p)
      /\ Coming(t) = IF pos[t] = 1 THEN 1 ELSE Column(pos[t])
  BY <1>2 DEF Coming, Column
<1>5. CASE cmd.kind # "wave"
  <2>1. WavesKept
    BY <1>0, <1>1, <1>5, PushKeepsWaves
  <2>2. Coming(t)' = Coming(t)
    <3>1. pos[t] = 1 \/ Row(pos[t]) # 2
      BY <1>3, <1>5
    <3> QED
      BY <1>1, <1>4, <1>p, <3>1, NextPos
  <2>3. Coming(t) # 1 => batch'[t] = batch[t]
    BY <1>1, <1>4
  <2>4. /\ \A u \in Batchers : Coming(u)' = Coming(u)
        /\ \A u \in Batchers : Coming(u) # 1 => batch'[u] = batch[u]
    BY <2>2, <2>3 DEF OneBatcher
  <2> QED
    BY <1>0, <1>1, <2>1, <2>4, OrderKept
<1>6. CASE cmd.kind = "wave"
  <2>1. pos[t] # 1 /\ Row(pos[t]) = 2
    BY <1>3, <1>6
  <2>2. /\ cmd.ch = Coming(t) /\ cmd.batch = batch[t] /\ batch'[t] = batch[t]
    BY <1>1, <1>3, <1>4, <2>1
  <2>3. Coming(t)' = After(cmd.ch)
    <3>1. cmd.ch = Column(pos[t])
      BY <1>3, <2>1
    <3> QED
      BY <1>1, <1>4, <1>p, <2>1, <3>1, NextPos DEF After
  <2>4. /\ \A i : FirstWave(i)' => (FirstWave(i) /\ content'[i] = content[i]) \/ (i = n /\ NoWave)
        /\ \A i : LastWave(i)' => i = n
        /\ \A i, k : NextWave(i, k)' =>
             /\ content'[i] = content[i]
             /\ (NextWave(i, k) /\ content'[k] = content[k]) \/ (k = n /\ LastWave(i))
        /\ ~NoWave'
        /\ content'[n] = cmd
    BY <1>0, <1>1, <1>6, <1>n, PushedWave
  <2>5. /\ \A i : FirstWave(i) => content[i].ch = ch + 1
        /\ NoWave => Coming(t) = ch + 1
        /\ \A i, k : NextWave(i, k) =>
             /\ content[k].ch = After(content[i].ch)
             /\ content[i].ch # Chc => content[k].batch = content[i].batch
        /\ \A i : LastWave(i) =>
             /\ Coming(t) = After(content[i].ch)
             /\ content[i].ch # Chc => batch[t] = content[i].batch
    BY <1>0, OrderFacts
  <2>6. ASSUME NEW i, FirstWave(i)' PROVE content'[i].ch = ch' + 1
    BY <1>1, <2>2, <2>4, <2>5, <2>6
  <2>7. ASSUME NEW i, NEW k, NextWave(i, k)'
        PROVE  /\ content'[k].ch = After(content'[i].ch)
               /\ content'[i].ch # Chc => content'[k].batch = content'[i].batch
    <3>1. CASE NextWave(i, k) /\ content'[k] = content[k]
      BY <2>4, <2>5, <2>7, <3>1
    <3>2. CASE k = n /\ LastWave(i)
      BY <2>2, <2>4, <2>5, <2>7, <3>2
    <3> QED
      BY <2>4, <2>7, <3>1, <3>2
  <2>8. ASSUME NEW u \in Batchers, NEW i, LastWave(i)'
        PROVE  /\ Coming(u)' = After(content'[i].ch)
               /\ content'[i].ch # Chc => batch'[u] = content'[i].batch
    <3>1. u = t /\ i = n
      BY <2>4, <2>8 DEF OneBatcher
    <3> QED
      BY <2>2, <2>3, <2>4, <3>1
  <2>9. Order'
    <3>1. \A u \in Batchers : NoWave' => Coming(u)' = ch' + 1
      BY <2>4
    <3>2. \A u \in Batchers : \A i : LastWave(i)' =>
            /\ Coming(u)' = After(content'[i].ch)
            /\ content'[i].ch # Chc => batch'[u] = content'[i].batch
      BY <2>8
    <3> QED
      BY <2>6, <2>7, <3>1, <3>2 DEF Order
  <2>10. ASSUME panic', Points > 1, ch' # 0 PROVE \E b \in 1 .. MaxBatches : OfBatch(b)'
    <3>1. PICK b \in 1 .. MaxBatches : OfBatch(b)
      BY <1>0, <1>1, <2>10 DEF HalfDrawn
    <3>2. \A k \in 0 .. ch' - 1 : image'[k] = Samples(k + 1, b)
      BY <1>1, <3>1 DEF OfBatch
    <3>3. ASSUME NEW i, FirstWave(i)' PROVE content'[i].batch = b
      <4>1. CASE FirstWave(i) /\ content'[i] = content[i]
        <5>1. i \in First .. Len(content)
          BY <4>1 DEF FirstWave, IsWave
        <5> QED
          BY <3>1, <4>1, <5>1 DEF OfBatch
      <4>2. CASE i = n /\ NoWave
        BY <2>2, <2>4, <3>1, <4>2 DEF OfBatch
      <4> QED
        BY <2>4, <3>3, <4>1, <4>2
    <3>4. OfBatch(b)'
      BY <2>4, <3>2, <3>3 DEF OfBatch, Samples
    <3> QED
      BY <3>4
  <2> QED
    BY <2>9, <2>10 DEF HalfDrawn
<1> QED
  BY <1>5, <1>6

\* A waveform a batch asks for is that of the next channel.
LEMMA PushBatchKeepsPInv ==
  ASSUME PInv, OneBatcher, NEW t \in Batchers, PushBatch(t)
  PROVE  PInv'
<1>1. HInv' /\ Sources'
  BY PushBatchKeepsHInv, PushBatchKeepsSources DEF PInv
<1>2. Order' /\ HalfDrawn'
  BY PushBatchKeepsOrder
<1>3. UNCHANGED <<image, frame, frames, panic>>
  BY PushBatchFacts DEF PInv, plotVars
<1>4. Drawn' /\ (Points > 1 => FrameIsOneBatch')
  BY <1>3, DrawnKept
<1> QED
  BY <1>1, <1>2, <1>4 DEF PInv

\* Commands of others are no waveforms.
LEMMA PushOtherKeepsPInv ==
  ASSUME PInv, NEW kind \in {"set", "query"}, PushOther(kind)
  PROVE  PInv'
<1>1. HInv' /\ Sources'
  BY PushOtherKeepsHInv, PushOtherKeepsSources DEF PInv
<1>c. PICK cmd : cmd = [kind |-> kind, ch |-> 0, batch |-> 0]
  OBVIOUS
<1>2. cmd \in Commands /\ cmd.kind # "wave"
  BY <1>c DEF Commands
<1>3. Push(cmd) /\ UNCHANGED <<answer, pos, batch, ch, image, frame, frames, panic>>
  BY <1>c DEF PushOther, batchVars, plotVars
<1>4. WavesKept
  BY <1>2, <1>3, PushKeepsWaves DEF PInv
<1>5. /\ \A t \in Batchers : Coming(t)' = Coming(t)
      /\ \A t \in Batchers : Coming(t) # 1 => batch'[t] = batch[t]
  BY <1>3 DEF Coming, Column
<1>6. Order' /\ HalfDrawn'
  BY <1>3, <1>4, <1>5, OrderKept DEF PInv
<1>7. Drawn' /\ (Points > 1 => FrameIsOneBatch')
  BY <1>3, DrawnKept
<1> QED
  BY <1>1, <1>6, <1>7 DEF PInv

\* A step that pushes nothing and completes no waveform.
LEMMA SkipKeepsPInv ==
  ASSUME PInv, HInv', Sources', UNCHANGED <<content, pos, batch, ch, image, frame, frames>>,
         panic' => panic,
         First' = First \/ (First' = First + 1 /\ content[First].kind # "wave")
  PROVE  PInv'
<1>1. WavesKept
  BY SkipKeepsWaves DEF PInv
<1>2. /\ \A t \in Batchers : Coming(t)' = Coming(t)
      /\ \A t \in Batchers : Coming(t) # 1 => batch'[t] = batch[t]
  BY DEF Coming, Column
<1>3. Order' /\ HalfDrawn'
  BY <1>1, <1>2, OrderKept DEF PInv
<1>4. Drawn' /\ (Points > 1 => FrameIsOneBatch')
  BY DrawnKept
<1> QED
  BY <1>3, <1>4 DEF PInv

\* The waveform that is sent is that of the channel gui_dtwave expects.
LEMMA SendKeepsPInv ==
  ASSUME PInv, Send
  PROVE  PInv'
<1>0. HInv /\ Sources
  BY DEF PInv
<1>1. HInv' /\ Sources'
  BY <1>0, SendKeepsHInv, SendKeepsSources
<1>2. /\ current = Service!Nothing /\ Gone' = Gone + 1
      /\ current' = (IF IsQuery(Gone + 1) THEN [id |-> Gone + 1, hdlr |-> TRUE] ELSE Service!Nothing)
      /\ UNCHANGED <<content, pos, batch, ch, image, frame, frames, panic>>
  BY <1>0, SendFacts DEF batchVars, plotVars
<1>3. Gone \in Nat /\ First = Gone + 1
  BY <1>0, <1>2, FirstFacts
<1>4. CASE IsQuery(Gone + 1)
  <2>1. current' # Service!Nothing
    BY <1>2, <1>4 DEF Service!Nothing
  <2>2. First' = First
    BY <1>2, <1>3, <2>1 DEF First, Service!Nothing
  <2> QED
    BY <1>1, <1>2, <2>2, SkipKeepsPInv
<1>5. CASE ~IsQuery(Gone + 1)
  <2>1. First' = First + 1
    BY <1>2, <1>3, <1>5 DEF First, Service!Nothing
  <2>2. content[First].kind # "wave"
    BY <1>3, <1>5 DEF IsQuery
  <2> QED
    BY <1>1, <1>2, <2>1, <2>2, SkipKeepsPInv
<1> QED
  BY <1>4, <1>5

\* Other answers leave the order of the waveforms alone.
LEMMA HandleOtherKeepsPInv ==
  ASSUME PInv, HandleOther
  PROVE  PInv'
<1>0. HInv /\ Sources /\ Handle("query")
  BY DEF PInv, HandleOther
<1>1. /\ UNCHANGED <<content, pos, batch, wavesrc, ch, image, frame, frames, panic>>
      /\ Gone' = Gone /\ current # Service!Nothing /\ content[Gone].kind = "query"
      /\ current' = Service!Nothing \/ UNCHANGED current
  BY <1>0, HandleFacts DEF HandleOther, batchVars, plotVars
<1>2. HInv' /\ Sources'
  BY <1>0, <1>1, HandleOtherKeepsHInv, SourcesKept
<1>3. First = Gone
  BY <1>1 DEF First
<1>4. First' = First \/ First' = First + 1
  BY <1>1, <1>3 DEF First, Service!Nothing
<1> QED
  BY <1>1, <1>2, <1>3, <1>4, SkipKeepsPInv

\* The handling of a packet of a waveform that is not the last.
LEMMA WaveStepKeepsPInv ==
  ASSUME PInv, DtHeader \/ DtStore \/ DtPanic
  PROVE  PInv'
<1>0. HInv /\ Sources /\ Handle("wave")
  BY DEF PInv, DtHeader, DtStore, DtPanic
<1>1. HInv'
  BY <1>0, DtHeaderKeepsHInv, DtStoreKeepsHInv, DtPanicKeepsHInv
<1>2. ~Head(answer).last
  <2>1. CASE DtHeader
    <3>1. InWave /\ header
      BY <1>0, <2>1, HandleFacts DEF InWave, DtHeader
    <3> QED
      BY <1>0, <3>1, AnnouncingFacts
  <2>2. CASE DtStore \/ DtPanic
    BY <2>2 DEF DtStore, DtPanic
  <2> QED
    BY <2>1, <2>2
<1>3. UNCHANGED <<content, pos, batch, wavesrc, current>> /\ Gone' = Gone
  BY <1>0, <1>2, HandleFacts DEF batchVars
<1>4. UNCHANGED <<ch, image, frame, frames>> /\ (panic' => panic)
  BY DEF DtHeader, DtStore, DtPanic
<1>5. First' = First
  BY <1>3 DEF First, Service!Nothing
<1>6. Sources'
  BY <1>0, <1>3, SourcesKept
<1> QED
  BY <1>1, <1>3, <1>4, <1>5, <1>6, SkipKeepsPInv

\* The samples that are drawn are those of the channel of the trace.
LEMMA RightSource ==
  ASSUME PInv, InWave
  PROVE  /\ First = Gone /\ IsWave(First) /\ FirstWave(First)
         /\ content[Gone].ch = ch + 1 /\ wavesrc = ch + 1
<1>1. HInv /\ Order /\ Sources
  BY DEF PInv
<1>2. First = Gone /\ Gone \in 1 .. Len(content) /\ Len(content) \in Nat
  BY <1>1, FirstFacts, QueueFacts DEF InWave
<1>3. IsWave(First)
  <2>1. First \in First .. Len(content)
    BY <1>2
  <2> QED
    BY <1>2, <2>1 DEF IsWave, InWave
<1>4. FirstWave(First)
  <2>1. \A m \in First .. First - 1 : content[m].kind # "wave"
    BY <1>2
  <2> QED
    BY <1>3, <2>1 DEF FirstWave, NoneIn
<1>5. content[Gone].ch = ch + 1
  BY <1>1, <1>2, <1>4, OrderFacts
<1>6. PICK j \in 1 .. Gone : LastSrc(j, Gone) /\ content[j].ch = content[Gone].ch
  BY <1>1, <1>2 DEF Sources, InWave
<1>7. wavesrc = content[j].ch
  BY <1>1, <1>6 DEF Sources
<1> QED
  BY <1>2, <1>3, <1>4, <1>5, <1>6, <1>7

\* The image after a waveform has been drawn.
LEMMA ImageFacts ==
  ASSUME PInv, DtDraw
  PROVE  /\ Drawn'
         /\ panic /\ Points > 1 =>
              \A k \in 0 .. ch : image'[k] = Samples(k + 1, content[Gone].batch)
<1>0. HInv /\ Drawn /\ HalfDrawn
  BY DEF PInv
<1>1. /\ InWave /\ Collected /\ UNCHANGED panic
      /\ image' = IF Len(data) > 1
                    THEN [(IF ch = 0 THEN Blank ELSE image) EXCEPT ![ch] = data]
                    ELSE IF ch = 0 THEN Blank ELSE image
  BY <1>0, DtDrawFacts
<1>2. FirstWave(First) /\ First = Gone /\ content[Gone].ch = ch + 1 /\ wavesrc = ch + 1
  BY <1>1, RightSource
<1>3. /\ ch \in Traces /\ ch \in Nat /\ image \in [Traces -> Seq(Bytes)]
      /\ Points \in Nat /\ Chc \in Nat
  BY <1>0, PlotAssumption DEF HInv, TypeOK, Traces
<1>4. PICK b : b = content[Gone].batch
  OBVIOUS
<1>5. b \in 1 .. MaxBatches /\ Len(Wave) = Points /\ Wave = Samples(ch + 1, b)
      /\ \A j \in 1 .. Points : Wave[j].ch = wavesrc
  BY <1>0, <1>1, <1>2, <1>4, WaveFacts DEF Wave
<1>6. /\ \A j \in 1 .. Len(data) : data[j].ch = ch + 1
      /\ panic => data = Samples(ch + 1, b) /\ Len(data) = Points
  BY <1>1, <1>2, <1>5 DEF Collected, Short
<1>c. PICK cleared : cleared = IF ch = 0 THEN Blank ELSE image
  OBVIOUS
<1>7. cleared \in [Traces -> Seq(Bytes)]
  BY <1>3, <1>c DEF Blank
<1>8. ASSUME NEW k \in Traces
      PROVE  /\ \A j \in 1 .. Len(cleared[k]) : cleared[k][j].ch = k + 1
             /\ panic /\ cleared[k] # <<>> => \E d \in 1 .. MaxBatches : cleared[k] = Samples(k + 1, d)
  <2>1. CASE ch = 0
    <3>1. cleared[k] = <<>>
      BY <1>c, <2>1 DEF Blank
    <3> QED
      BY <3>1
  <2>2. CASE ch # 0
    BY <1>0, <1>c, <2>2 DEF Drawn
  <2> QED
    BY <2>1, <2>2
<1>9. image' = IF Len(data) > 1 THEN [cleared EXCEPT ![ch] = data] ELSE cleared
  BY <1>1, <1>c
<1>10. ASSUME NEW k \in Traces
       PROVE  /\ \A j \in 1 .. Len(image'[k]) : image'[k][j].ch = k + 1
              /\ panic' /\ image'[k] # <<>> => \E d \in 1 .. MaxBatches : image'[k] = Samples(k + 1, d)
  <2>1. CASE k = ch /\ Len(data) > 1
    <3>1. image'[k] = data
      BY <1>7, <1>9, <2>1
    <3> QED
      BY <1>1, <1>5, <1>6, <2>1, <3>1
  <2>2. CASE ~(k = ch /\ Len(data) > 1)
    <3>1. image'[k] = cleared[k]
      BY <1>7, <1>9, <2>2
    <3> QED
      BY <1>1, <1>8, <3>1
  <2> QED
    BY <2>1, <2>2
<1>11. Drawn'
  BY <1>10 DEF Drawn, Samples
<1>12. ASSUME panic, Points > 1, NEW k \in 0 .. ch PROVE image'[k] = Samples(k + 1, b)
  <2>1. k \in Traces /\ k \in Nat
    BY <1>3 DEF Traces
  <2>2. image' = [cleared EXCEPT ![ch] = data]
    BY <1>3, <1>6, <1>9, <1>12
  <2>3. CASE k = ch
    BY <1>3, <1>6, <1>7, <1>12, <2>2, <2>3
  <2>4. CASE k # ch
    <3>1. ch # 0 /\ k \in 0 .. ch - 1
      BY <1>3, <2>1, <2>4
    <3>2. PICK d \in 1 .. MaxBatches : OfBatch(d)
      BY <1>0, <1>12, <3>1 DEF HalfDrawn
    <3>3. d = b
      <4>1. First \in First .. Len(content)
        BY <1>2 DEF FirstWave, IsWave
      <4> QED
        BY <1>2, <1>4, <3>2, <4>1 DEF OfBatch
    <3>4. image[k] = Samples(k + 1, b)
      BY <3>1, <3>2, <3>3 DEF OfBatch
    <3>5. image'[k] = image[k]
      BY <1>7, <1>c, <2>1, <2>2, <2>4, <3>1
    <3> QED
      BY <3>4, <3>5
  <2> QED
    BY <2>3, <2>4
<1> QED
  BY <1>4, <1>11, <1>12

\* A trace is drawn, the next channel is expected.
LEMMA DtDrawKeepsPInv ==
  ASSUME PInv, DtDraw
  PROVE  PInv'
<1>0. HInv /\ Order /\ Sources /\ HalfDrawn
  BY DEF PInv
<1>1. /\ InWave /\ current' = Service!Nothing /\ Gone' = Gone
      /\ UNCHANGED <<content, pos, batch, wavesrc, panic>>
  BY <1>0, DtDrawFacts DEF batchVars
<1>2. /\ First = Gone /\ IsWave(First) /\ content[Gone].ch = ch + 1
  BY <1>1, RightSource
<1>3. First' = First + 1
  BY <1>1, <1>2 DEF First, Service!Nothing
<1>4. /\ \A i : FirstWave(i)' => NextWave(First, i)
      /\ \A i : LastWave(i)' => LastWave(i)
      /\ \A i, k : NextWave(i, k)' => NextWave(i, k)
      /\ NoWave' => LastWave(First)
  BY <1>0, <1>1, <1>2, <1>3, DoneWave
<1>5. /\ Chc \in Nat /\ Chc >= 1 /\ ch \in 0 .. Chc - 1 /\ ch' = (ch + 1) % Chc
  BY <1>0, PlotAssumption DEF HInv, TypeOK, Traces, DtDraw, NextTrace
<1>6. ch' = IF ch = Chc - 1 THEN 0 ELSE ch + 1
  BY <1>5
<1>7. After(ch + 1) = ch' + 1
  BY <1>5, <1>6 DEF After
<1>8. HInv' /\ Sources'
  BY <1>0, <1>1, DtDrawKeepsHInv, SourcesKept
<1>9. /\ \A i, k : NextWave(i, k) =>
           /\ content[k].ch = After(content[i].ch)
           /\ content[i].ch # Chc => content[k].batch = content[i].batch
      /\ \A t \in Batchers : \A i : LastWave(i) =>
           /\ Coming(t) = After(content[i].ch)
           /\ content[i].ch # Chc => batch[t] = content[i].batch
  BY <1>0, OrderFacts
<1>10. \A t \in Batchers : Coming(t)' = Coming(t)
  BY <1>1 DEF Coming, Column
<1>11. Order'
  <2>1. \A i : FirstWave(i)' => content'[i].ch = ch' + 1
    BY <1>1, <1>2, <1>4, <1>7, <1>9
  <2>2. \A t \in Batchers : NoWave' => Coming(t)' = ch' + 1
    BY <1>2, <1>4, <1>7, <1>9, <1>10
  <2>3. \A i, k : NextWave(i, k)' =>
          /\ content'[k].ch = After(content'[i].ch)
          /\ content'[i].ch # Chc => content'[k].batch = content'[i].batch
    BY <1>1, <1>4, <1>9
  <2>4. \A t \in Batchers : \A i : LastWave(i)' =>
          /\ Coming(t)' = After(content'[i].ch)
          /\ content'[i].ch # Chc => batch'[t] = content'[i].batch
    BY <1>1, <1>4, <1>9, <1>10
  <2> QED
    BY <2>1, <2>2, <2>3, <2>4 DEF Order
<1>b. PICK b : b = content[Gone].batch
  OBVIOUS
<1>12. b \in 1 .. MaxBatches
  BY <1>0, <1>1, <1>b, WaveFacts
<1>13. /\ Drawn'
       /\ panic /\ Points > 1 => \A k \in 0 .. ch : image'[k] = Samples(k + 1, b)
  BY <1>b, ImageFacts
<1>14. ASSUME panic', Points > 1, ch' # 0 PROVE OfBatch(b)'
  <2>1. ch' - 1 = ch /\ ch + 1 # Chc
    BY <1>5, <1>6, <1>14
  <2>2. \A k \in 0 .. ch' - 1 : image'[k] = Samples(k + 1, b)
    BY <1>1, <1>13, <1>14, <2>1
  <2>3. \A i : FirstWave(i)' => content'[i].batch = b
    BY <1>1, <1>2, <1>4, <1>9, <1>b, <2>1
  <2>4. \A t \in Batchers : NoWave' => batch'[t] = b
    BY <1>1, <1>2, <1>4, <1>9, <1>b, <2>1
  <2> QED
    BY <2>2, <2>3, <2>4 DEF OfBatch, Samples
<1>15. HalfDrawn'
  BY <1>12, <1>14 DEF HalfDrawn
<1>16. ASSUME Points > 1, frames' > 0, panic'
       PROVE  \E d \in 1 .. MaxBatches : \A k \in Traces : frame'[k] = Samples(k + 1, d)
  <2>1. CASE LastTrace
    <3>1. frame' = image' /\ ch = Chc - 1
      BY <2>1 DEF DtDraw, LastTrace
    <3>2. \A k \in Traces : frame'[k] = Samples(k + 1, b)
      BY <1>1, <1>13, <1>16, <3>1 DEF Traces
    <3> QED
      BY <1>12, <3>2
  <2>2. CASE ~LastTrace
    <3>1. UNCHANGED <<frame, frames>>
      BY <2>2 DEF DtDraw
    <3> QED
      BY <1>1, <1>16, <3>1 DEF PInv, FrameIsOneBatch
  <2> QED
    BY <2>1, <2>2
<1>17. Points > 1 => FrameIsOneBatch'
  BY <1>16 DEF FrameIsOneBatch, Samples
<1> QED
  BY <1>8, <1>11, <1>13, <1>15, <1>17 DEF PInv

\* A disconnect between two frames leaves nothing queued and both counts at the start.
LEMMA ReconnectKeepsPInv ==
  ASSUME PInv, Tidy, Reconnect
  PROVE  PInv'
<1>0. HInv /\ HInv'
  BY ReconnectKeepsHInv DEF PInv
<1>1. /\ ch = 0 /\ \A t \in Batchers : pos[t] = 1
      /\ submitted' = 0 /\ waiting' = <<>> /\ content' = <<>>
      /\ UNCHANGED <<pos, batch, wavesrc, ch, image, frame, frames, panic>>
  BY DEF Reconnect, batchVars, plotVars
<1>2. Len(content') = 0 /\ Gone' = 0
  <2>1. Len(content') = 0 /\ Len(waiting') = 0 /\ submitted' = 0
    BY <1>1
  <2>2. Gone' = 0
    BY <2>1 DEF Gone
  <2> QED
    BY <2>1, <2>2
<1>3. First' \in Nat /\ First' >= 1
  <2>1. (First \in Nat /\ First >= 1)'
    BY <1>0, <1>2, <1>1 DEF First, HInv, Queue
  <2> QED
    BY <2>1
<1>4. First' .. Len(content') = {} /\ 1 .. Gone' = {} /\ 1 .. Len(content') = {}
  BY <1>2, <1>3
<1>5. Sources'
  BY <1>1, <1>4 DEF Sources
<1>6. Order'
  <2>1. \A t \in Batchers : Coming(t)' = 1 /\ ch' + 1 = 1
    BY <1>1 DEF Coming
  <2>2. \A t \in Batchers : NoWave' => Coming(t)' = ch' + 1
    BY <2>1
  <2> QED
    BY <1>4, <2>2 DEF Order
<1>7. HalfDrawn'
  BY <1>1 DEF HalfDrawn
<1>8. Drawn' /\ (Points > 1 => FrameIsOneBatch')
  BY <1>1, DrawnKept
<1> QED
  BY <1>0, <1>5, <1>6, <1>7, <1>8 DEF PInv

\* Nothing happens.
LEMMA IdleKeepsPInv ==
  ASSUME PInv, UNCHANGED vars
  PROVE  PInv'
<1>1. HInv' /\ Gone' = Gone /\ First' = First
  BY IdleKeepsHInv DEF PInv, vars, service, Gone, First, Service!Nothing
<1>2. UNCHANGED <<content, pos, batch, wavesrc, ch, image, frame, frames, panic>>
  BY DEF vars, batchVars, plotVars
<1>3. Sources'
  BY <1>1, <1>2, SourcesKept DEF PInv
<1> QED
  BY <1>1, <1>2, <1>3, SkipKeepsPInv

\* At the start the first channel is expected and the first is asked for.
LEMMA PInvInit == Init => PInv
<1> SUFFICES ASSUME Init PROVE PInv
  OBVIOUS
<1>1. HInv
  BY HInvInit
<1>2. /\ content = <<>> /\ submitted = 0 /\ waiting = <<>> /\ current = Service!Nothing
      /\ ch = 0 /\ image = Blank /\ frames = 0 /\ \A t \in Batchers : pos[t] = 1
  BY DEF Init, Service!Init
<1>3. Len(content) = 0 /\ Gone = 0 /\ First = 1
  <2>1. Len(content) = 0 /\ Len(waiting) = 0 /\ submitted = 0
    BY <1>2
  <2>2. Gone = 0
    BY <2>1 DEF Gone
  <2> QED
    BY <1>2, <2>1, <2>2 DEF First
<1>4. First .. Len(content) = {} /\ 1 .. Gone = {} /\ 1 .. Len(content) = {}
  BY <1>3
<1>5. Sources
  BY <1>2, <1>4 DEF Sources
<1>6. Order
  BY <1>2, <1>4 DEF Order, Coming
<1>7. Drawn
  BY <1>2 DEF Drawn, Blank
<1>8. HalfDrawn /\ FrameIsOneBatch
  BY <1>2 DEF HalfDrawn, FrameIsOneBatch
<1> QED
  BY <1>1, <1>5, <1>6, <1>7, <1>8 DEF PInv

\* With one thread that pushes batches, gui_dtwave's count of waveforms and the
\* instrument's source agree, however long the queue is and whatever else is
\* in it.
THEOREM WaveformsInOrder == ASSUME Tidy, OneBatcher PROVE Spec => []PInv
<1>1. Init => PInv
  BY PInvInit
<1>2. PInv /\ [Next]_vars => PInv'
  <2> SUFFICES ASSUME PInv, [Next]_vars PROVE PInv'
    OBVIOUS
  <2>1. ASSUME NEW t \in Batchers, PushBatch(t) PROVE PInv'
    BY <2>1, PushBatchKeepsPInv
  <2>2. ASSUME NEW kind \in {"set", "query"}, PushOther(kind) PROVE PInv'
    BY <2>2, PushOtherKeepsPInv
  <2>3. CASE Send
    BY <2>3, SendKeepsPInv
  <2>4. CASE HandlerStep
    BY <2>4, HandleOtherKeepsPInv, WaveStepKeepsPInv, DtDrawKeepsPInv DEF HandlerStep
  <2>5. CASE Reconnect
    BY <2>5, ReconnectKeepsPInv
  <2>6. CASE UNCHANGED vars
    BY <2>6, IdleKeepsPInv
  <2> QED
    BY <2>1, <2>2, <2>3, <2>4, <2>5, <2>6 DEF Next
<1> QED
  BY <1>1, <1>2, PTL DEF Spec

\* gui_dtwave draws as trace k the samples of channel k + 1 and no others.
THEOREM ChannelOnItsTrace == ASSUME Tidy, OneBatcher PROVE Spec => []TraceIsChannel
<1>1. PInv => TraceIsChannel
  BY DEF PInv, Drawn, TraceIsChannel
<1> QED
  BY <1>1, WaveformsInOrder, PTL

\* What is put on the screen is one screenshot, provided a waveform has more
\* than one sample: a single one is not drawn.
THEOREM WholeFrames == ASSUME Tidy, OneBatcher, Points > 1 PROVE Spec => []FrameIsOneBatch
<1>1. PInv => FrameIsOneBatch
  BY DEF PInv
<1> QED
  BY <1>1, WaveformsInOrder, PTL

================================================================================
