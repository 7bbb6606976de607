---------------------------- MODULE VicpReaderProofs ----------------------------
(***************************************************************************)
(* Proofs about VicpReader, for any sizes of header, buffer and dustbin,   *)
(* any packets and any cutting of the stream.                              *)
(***************************************************************************)
EXTENDS VicpReader, SequenceTheorems, TLAPS

(***************************************************************************)
(* The inductive invariant                                                 *)
(***************************************************************************)

Byte == Nat \X Nat

\* Bytes of packet n on the wire.
Full(n) == HeaderLen + sent[n].len

\* What is on the wire is a stretch of what was sent.  No clause goes from a
\* byte to the next but one by way of the next, so that no induction over the
\* bytes is needed.
Stretch ==
  /\ \A i \in 1 .. Len(wire) :
       wire[i][1] \in 1 .. Len(sent) /\ wire[i][2] \in 1 .. Full(wire[i][1])
  /\ \A i, j \in 1 .. Len(wire) :
       i <= j /\ wire[i][2] + (j - i) <= Full(wire[i][1])
         => wire[j] = <<wire[i][1], wire[i][2] + (j - i)>>
  /\ \A i \in 1 .. Len(wire) - 1 :
       wire[i][2] = Full(wire[i][1]) => wire[i + 1] = <<wire[i][1] + 1, 1>>

\* As long as the connection stands it reaches to the end of what was sent.
Complete ==
  conn = "up" =>
    /\ \A i \in 1 .. Len(wire) : Full(wire[i][1]) - wire[i][2] <= Len(wire) - i
    /\ wire # <<>> => wire[Len(wire)][1] = Len(sent)

\* q bytes of packet k have been read, and nothing behind them.
ReadUpTo(k, q) ==
  /\ wire # <<>> =>
       /\ k <= Len(sent)
       /\ wire[1] = IF q < Full(k) THEN <<k, q + 1>> ELSE <<k + 1, 1>>
  /\ conn = "up" /\ wire = <<>> =>
       (k = Len(sent) + 1 /\ q = 0) \/ (k = Len(sent) /\ q = Full(k))

\* The packet the thread is at, and how much of it has been read.
Current == Len(handled) + 1

HasRead ==
  CASE place = "header" -> Len(hbuf)
    [] place = "data" -> HeaderLen + Len(strdata)
    [] place = "dust" -> HeaderLen + Len(strdata) + rdc
    [] OTHER -> 0

\* read() has failed: there is nothing left, for ever.
Lost == conn = "eof" /\ wire = <<>>

Fits(n) == Smaller(n, Bunch)

AtHeader ==
  /\ hbuf = Bytes(Current, 1, Len(hbuf))
  /\ hbuf # <<>> => Current <= Len(sent)
  /\ rdc = Len(hbuf) \/ (Lost /\ rdc < HeaderLen)

InPacket ==
  /\ Current <= Len(sent)
  /\ h = sent[Current]
  /\ strdata = Bytes(Current, HeaderLen + 1, HeaderLen + Len(strdata))

AtData ==
  /\ InPacket
  /\ Len(strdata) <= Fits(h.len)
  /\ rdc = Len(strdata) \/ (Lost /\ rdc < Fits(h.len))

AtDust ==
  /\ InPacket
  /\ \/ Len(strdata) = Fits(h.len) /\ leftover = h.len - Len(strdata) /\ rdc \in 0 .. leftover
     \/ Lost /\ rdc < leftover

Placed ==
  /\ place \in {"top", "ended"} => rdc >= 0
  /\ place = "header" => AtHeader
  /\ place = "data" => AtData
  /\ place = "dust" => AtDust

HandledTyped == handled \in Seq([len : Lens, flag : Flags, data : Seq(Byte)])

VInv ==
  /\ InBuffers
  /\ HandledTyped
  /\ HandledWhole
  /\ Stretch
  /\ Complete
  /\ ReadUpTo(Current, HasRead)
  /\ Placed

(***************************************************************************)
(* Bytes                                                                   *)
(***************************************************************************)

\* The smaller of two numbers.
LEMMA SmallerFacts ==
  ASSUME NEW a \in Int, NEW b \in Int
  PROVE  /\ Smaller(a, b) \in Int /\ Smaller(a, b) <= a /\ Smaller(a, b) <= b
         /\ \A c \in Int : (c <= a /\ c <= b) <=> c <= Smaller(a, b)
         /\ \A c \in Int : (c < a /\ c < b) <=> c < Smaller(a, b)
BY DEF Smaller

\* The bytes of a packet that strdata has room for.
LEMMA FitsFacts ==
  ASSUME NEW n \in Nat
  PROVE  Fits(n) \in Nat /\ Fits(n) <= n /\ Fits(n) <= Bunch
BY VicpAssumption DEF Fits, Smaller

\* t is a piece of packet n that begins behind its byte q.
Continues(t, n, q) == \A i \in 1 .. Len(t) : t[i] = <<n, q + i>>

\* What Bytes makes is a sequence of bytes, one rank after the other.
LEMMA BytesFacts ==
  ASSUME NEW n \in Nat, NEW from \in Nat, NEW to \in Nat, from <= to + 1
  PROVE  /\ Bytes(n, from, to) \in Seq(Byte)
         /\ Len(Bytes(n, from, to)) = to - from + 1
         /\ \A i \in 1 .. to - from + 1 : Bytes(n, from, to)[i] = <<n, from + i - 1>>
<1> DEFINE m == to - from + 1
           e(i) == <<n, from + i - 1>>
<1>1. m \in Nat
  OBVIOUS
<1>2. \A i \in 1 .. m : e(i) \in Byte
  BY DEF Byte
<1>3. [i \in 1 .. m |-> e(i)] \in Seq(Byte)
  BY <1>1, <1>2, IsASeq
<1>4. Len([i \in 1 .. m |-> e(i)]) = m
  BY <1>1, <1>3
<1> QED
  BY <1>3, <1>4 DEF Bytes

\* Bytes that are followed by the next bytes of the same packet.
LEMMA BytesMore ==
  ASSUME NEW n \in Nat, NEW from \in Nat, NEW to \in Nat, from <= to + 1
  PROVE  \A t \in Seq(Byte), m \in Nat, e \in Nat :
           Len(t) = m /\ Continues(t, n, to) /\ e = to + m
             => Bytes(n, from, to) \o t = Bytes(n, from, e)
<1>1. /\ Bytes(n, from, to) \in Seq(Byte)
      /\ Len(Bytes(n, from, to)) = to - from + 1
      /\ \A i \in 1 .. to - from + 1 : Bytes(n, from, to)[i] = <<n, from + i - 1>>
  BY BytesFacts
<1>8. ASSUME NEW e \in Nat, from <= e + 1
      PROVE  /\ Bytes(n, from, e) \in Seq(Byte)
             /\ Len(Bytes(n, from, e)) = e - from + 1
             /\ \A i \in 1 .. e - from + 1 : Bytes(n, from, e)[i] = <<n, from + i - 1>>
  BY <1>8, BytesFacts, ZenonT(60)
<1> SUFFICES ASSUME NEW t \in Seq(Byte), NEW m \in Nat, NEW e \in Nat,
                    Len(t) = m, Continues(t, n, to), e = to + m
             PROVE  Bytes(n, from, to) \o t = Bytes(n, from, e)
  OBVIOUS
<1>2. /\ Bytes(n, from, e) \in Seq(Byte)
      /\ Len(Bytes(n, from, e)) = e - from + 1
      /\ \A i \in 1 .. e - from + 1 : Bytes(n, from, e)[i] = <<n, from + i - 1>>
  <2>1. from <= e + 1
    OBVIOUS
  <2> QED
    BY <1>8, <2>1
<1> PICK s \in Seq(Byte) : s = Bytes(n, from, to)
  BY <1>1
<1> PICK u \in Seq(Byte) : u = Bytes(n, from, e)
  BY <1>2
<1> PICK l \in Nat : l = to - from + 1
  OBVIOUS
<1>3. Len(s) = l /\ \A i \in 1 .. l : s[i] = <<n, from + i - 1>>
  BY <1>1
<1>4. Len(u) = l + m /\ \A i \in 1 .. l + m : u[i] = <<n, from + i - 1>>
  <2>1. e - from + 1 = l + m
    OBVIOUS
  <2> QED
    BY <1>2, <2>1
<1>5. /\ s \o t \in Seq(Byte)
      /\ Len(s \o t) = l + m
      /\ \A i \in 1 .. l + m : (s \o t)[i] = IF i <= l THEN s[i] ELSE t[i - l]
  <2>1. /\ s \o t \in Seq(Byte)
        /\ Len(s \o t) = Len(s) + Len(t)
        /\ \A i \in 1 .. Len(s) + Len(t) :
             (s \o t)[i] = IF i <= Len(s) THEN s[i] ELSE t[i - Len(s)]
    BY ConcatProperties, ZenonT(60)
  <2> QED
    BY <1>3, <2>1
<1> PICK v \in Seq(Byte) : v = s \o t
  BY <1>5
<1>6. ASSUME NEW i \in 1 .. l + m PROVE v[i] = u[i]
  <2>1. u[i] = <<n, from + i - 1>>
    BY <1>4
  <2>2. CASE i <= l
    <3>1. i \in 1 .. l /\ v[i] = s[i]
      BY <1>5, <2>2
    <3> QED
      BY <1>3, <2>1, <3>1
  <2>3. CASE ~(i <= l)
    <3>1. i - l \in 1 .. m
      BY <2>3
    <3>2. t[i - l] = <<n, to + (i - l)>>
      BY <3>1 DEF Continues
    <3>3. to + (i - l) = from + i - 1
      OBVIOUS
    <3>4. v[i] = t[i - l]
      BY <1>5, <2>3
    <3> QED
      BY <2>1, <3>2, <3>3, <3>4
  <2> QED
    BY <2>2, <2>3
<1>7. v = u
  BY <1>4, <1>5, <1>6, SeqEqual, ZenonT(60)
<1> QED
  BY <1>7

\* A packet that was sent, and its bytes on the wire.
LEMMA FullFacts ==
  ASSUME TypeOK, NEW k \in 1 .. Len(sent)
  PROVE  /\ sent[k] \in Packets /\ sent[k].len \in Nat
         /\ Full(k) \in Nat /\ HeaderLen <= Full(k)
<1>1. sent \in Seq(Packets)
  BY DEF TypeOK
<1>2. sent[k] \in Packets
  BY <1>1
<1>3. sent[k].len \in Nat
  BY <1>2, VicpAssumption DEF Packets
<1> QED
  BY <1>2, <1>3, VicpAssumption DEF Full

\* What the bytes on the wire are made of.
LEMMA WireFacts ==
  ASSUME TypeOK, Stretch, NEW i \in 1 .. Len(wire)
  PROVE  /\ Len(wire) \in Nat /\ Len(sent) \in Nat
         /\ wire[i] \in Byte
         /\ wire[i] = <<wire[i][1], wire[i][2]>>
         /\ wire[i][1] \in 1 .. Len(sent)
         /\ wire[i][2] \in Nat \ {0} /\ wire[i][2] <= Full(wire[i][1])
         /\ Full(wire[i][1]) \in Nat
<1>1. wire \in Seq(Byte) /\ sent \in Seq(Packets)
  BY DEF TypeOK, Byte
<1>2. wire[i] \in Byte /\ Len(wire) \in Nat /\ Len(sent) \in Nat
  BY <1>1
<1>3. wire[i][1] \in 1 .. Len(sent) /\ wire[i][2] \in 1 .. Full(wire[i][1])
  BY DEF Stretch
<1>4. Full(wire[i][1]) \in Nat
  BY <1>3, FullFacts
<1>5. wire[i] = <<wire[i][1], wire[i][2]>>
  BY <1>2 DEF Byte
<1> QED
  BY <1>2, <1>3, <1>4, <1>5

\* read() takes n bytes of packet k, of which q have been read: they are the
\* next ones, and what remains is a stretch that begins behind them.
LEMMA ReadSome ==
  ASSUME TypeOK, Stretch, Complete,
         NEW k \in Nat \ {0}, NEW q \in Nat, ReadUpTo(k, q),
         NEW n \in 1 .. Len(wire), k <= Len(sent) => q + n <= Full(k),
         wire' = SubSeq(wire, n + 1, Len(wire)), UNCHANGED <<sent, conn>>
  PROVE  /\ k <= Len(sent)
         /\ Some(n) \in Seq(Byte) /\ Len(Some(n)) = n
         /\ Continues(Some(n), k, q)
         /\ wire' \in Seq(Byte)
         /\ Stretch' /\ Complete' /\ ReadUpTo(k, q + n)'
<1>1. /\ wire \in Seq(Byte) /\ Len(wire) \in Nat /\ wire # <<>>
      /\ \A i \in 1 .. Len(wire) : wire[i] \in Byte
  <2>1. wire \in Seq(Byte)
    BY DEF TypeOK, Byte
  <2> QED
    BY <2>1
<1>w. /\ 1 \in 1 .. Len(wire) /\ n \in Nat /\ n >= 1 /\ n <= Len(wire)
      /\ Len(wire) \in 1 .. Len(wire) /\ Len(sent) \in Nat
  BY <1>1, SMTT(40) DEF TypeOK
<1>2. k <= Len(sent) /\ wire[1] = IF q < Full(k) THEN <<k, q + 1>> ELSE <<k + 1, 1>>
  BY <1>1 DEF ReadUpTo
<1>3. k \in 1 .. Len(sent) /\ Full(k) \in Nat /\ q + n <= Full(k) /\ wire[1] = <<k, q + 1>>
  <2>1. k \in 1 .. Len(sent)
    BY <1>2, <1>w
  <2>2. Full(k) \in Nat /\ q + n <= Full(k)
    BY <1>2, <2>1, FullFacts
  <2> QED
    BY <1>2, <1>w, <2>1, <2>2
<1>4. \A j \in 1 .. Len(wire) : q + j <= Full(k) => wire[j] = <<k, q + j>>
  <2> SUFFICES ASSUME NEW j \in 1 .. Len(wire), q + j <= Full(k) PROVE wire[j] = <<k, q + j>>
    OBVIOUS
  <2>1. wire[1][1] = k /\ wire[1][2] = q + 1
    BY <1>3
  <2>2. j \in Nat /\ 1 <= j
    BY <1>1
  <2>3. wire[1][2] + (j - 1) = q + j
    BY <2>1, <2>2
  <2>4. 1 <= j /\ wire[1][2] + (j - 1) <= Full(wire[1][1])
          => wire[j] = <<wire[1][1], wire[1][2] + (j - 1)>>
    BY <1>w DEF Stretch
  <2> QED
    BY <2>1, <2>2, <2>3, <2>4
<1>5. /\ Some(n) \in Seq(Byte) /\ Len(Some(n)) = n
      /\ \A i \in 1 .. n : Some(n)[i] = wire[i]
  <2>1. n \in Nat /\ 1 \in Int /\ n \in Int /\ \A i \in 1 .. n : wire[i] \in Byte
    BY <1>1
  <2>2. /\ SubSeq(wire, 1, n) \in Seq(Byte)
        /\ Len(SubSeq(wire, 1, n)) = IF 1 <= n THEN n - 1 + 1 ELSE 0
        /\ \A i \in 1 .. n - 1 + 1 : SubSeq(wire, 1, n)[i] = wire[1 + i - 1]
    BY <2>1, SubSeqProperties
  <2> QED
    BY <2>2 DEF Some
<1>6. Continues(Some(n), k, q)
  <2> SUFFICES ASSUME NEW i \in 1 .. n PROVE Some(n)[i] = <<k, q + i>>
    BY <1>5 DEF Continues
  <2>1. i \in 1 .. Len(wire) /\ q + i <= Full(k)
    BY <1>w, <1>3
  <2> QED
    BY <1>4, <1>5, <2>1
<1>7. /\ wire' \in Seq(Byte) /\ Len(wire') = Len(wire) - n
      /\ \A i \in 1 .. Len(wire) - n : wire'[i] = wire[i + n]
  <2>1. n + 1 \in Int /\ Len(wire) \in Int /\ \A i \in n + 1 .. Len(wire) : wire[i] \in Byte
    BY <1>1
  <2>2. /\ wire' \in Seq(Byte)
        /\ Len(wire') = IF n + 1 <= Len(wire) THEN Len(wire) - (n + 1) + 1 ELSE 0
        /\ \A i \in 1 .. Len(wire) - (n + 1) + 1 : wire'[i] = wire[(n + 1) + i - 1]
    BY <2>1, SubSeqProperties
  <2> QED
    BY <1>w, <2>2
<1>m. \A i \in 1 .. Len(wire') : i + n \in 1 .. Len(wire) /\ wire'[i] = wire[i + n]
  BY <1>w, <1>7
<1>8. Stretch'
  <2>1. ASSUME NEW i \in 1 .. Len(wire')
        PROVE  wire'[i][1] \in 1 .. Len(sent') /\ wire'[i][2] \in 1 .. Full(wire[i][1])'
    BY <1>m DEF Stretch, Full
  <2>2. ASSUME NEW i \in 1 .. Len(wire'), NEW j \in 1 .. Len(wire'),
               i <= j, wire'[i][2] + (j - i) <= Full(wire[i][1])'
        PROVE  wire'[j] = <<wire'[i][1], wire'[i][2] + (j - i)>>
    <3>1. (j + n) - (i + n) = j - i /\ i + n <= j + n
      BY <1>w, <1>7, <2>2
    <3>2. wire[i + n][2] + ((j + n) - (i + n)) <= Full(wire[i + n][1])
      BY <1>m, <2>2, <3>1 DEF Full
    <3> QED
      BY <1>m, <3>1, <3>2, ZenonT(60) DEF Stretch
  <2>3. ASSUME NEW i \in 1 .. Len(wire') - 1, wire'[i][2] = Full(wire[i][1])'
        PROVE  wire'[i + 1] = <<wire'[i][1] + 1, 1>>
    <3>1. /\ i \in 1 .. Len(wire') /\ i + 1 \in 1 .. Len(wire') /\ (i + 1) + n = (i + n) + 1
          /\ i + n \in 1 .. Len(wire) - 1
      <4>1. PICK a, b : a = Len(wire) /\ b = Len(wire')
        OBVIOUS
      <4>2. a \in Nat /\ n \in 1 .. a
        BY <1>w, <4>1
      <4>3. b = a - n
        BY <1>7, <4>1, Zenon
      <4>4. i \in 1 .. b - 1
        BY <2>3, <4>1, Zenon
      <4>5. i \in 1 .. b /\ i + 1 \in 1 .. b /\ (i + 1) + n = (i + n) + 1 /\ i + n \in 1 .. a - 1
        BY <4>2, <4>3, <4>4
      <4> QED
        BY <4>1, <4>5, Zenon
    <3>2. wire[i + n][2] = Full(wire[i + n][1])
      BY <1>m, <2>3, <3>1 DEF Full
    <3> QED
      BY <1>m, <3>1, <3>2, ZenonT(60) DEF Stretch
  <2> QED
    BY <2>1, <2>2, <2>3 DEF Stretch
<1>9. Complete'
  <2> SUFFICES ASSUME conn = "up"
               PROVE  /\ \A i \in 1 .. Len(wire') :
                           Full(wire[i][1])' - wire'[i][2] <= Len(wire') - i
                      /\ wire' # <<>> => wire'[Len(wire')][1] = Len(sent')
    BY DEF Complete
  <2>1. ASSUME NEW i \in 1 .. Len(wire')
        PROVE  Full(wire[i][1])' - wire'[i][2] <= Len(wire') - i
    <3>1. i \in Nat /\ Len(wire) - (i + n) = Len(wire') - i
      BY <1>w, <1>7
    <3>2. Full(wire[i + n][1]) - wire[i + n][2] <= Len(wire) - (i + n)
      BY <1>m DEF Complete
    <3> QED
      BY <1>m, <3>1, <3>2 DEF Full
  <2>2. ASSUME wire' # <<>> PROVE wire'[Len(wire')][1] = Len(sent')
    <3>1. Len(wire') \in 1 .. Len(wire') /\ Len(wire') + n = Len(wire)
      BY <1>w, <1>7, <2>2
    <3> QED
      BY <1>1, <1>m, <3>1 DEF Complete
  <2> QED
    BY <2>1, <2>2
<1>10. ReadUpTo(k, q + n)'
  <2>1. CASE n < Len(wire)
    <3>1. wire' # <<>> /\ wire'[1] = wire[n + 1] /\ n + 1 \in 1 .. Len(wire) /\ n \in 1 .. Len(wire) - 1
      <4>1. n + 1 \in 1 .. Len(wire) /\ n \in 1 .. Len(wire) - 1 /\ 1 \in 1 .. Len(wire) - n /\ Len(wire') # 0
        BY <1>w, <1>7, <2>1
      <4>2. wire'[1] = wire[1 + n] /\ 1 + n = n + 1
        BY <1>w, <1>7, <4>1
      <4> QED
        BY <4>1, <4>2
    <3>2. CASE q + n < Full(k)
      <4>1. q + (n + 1) <= Full(k) /\ q + (n + 1) = (q + n) + 1
        BY <1>w, <1>3, <3>2
      <4>2. wire'[1] = <<k, (q + n) + 1>>
        BY <1>4, <3>1, <4>1
      <4>3. Full(k)' = Full(k) /\ k <= Len(sent')
        BY <1>2 DEF Full
      <4> QED
        BY <3>1, <3>2, <4>2, <4>3 DEF ReadUpTo
    <3>3. CASE q + n = Full(k)
      <4>1. wire[n] = <<k, q + n>>
        BY <1>3, <1>4, <3>3
      <4>2. wire[n][1] = k /\ wire[n][2] = Full(k)
        BY <4>1, <3>3
      <4>3. wire[n + 1] = <<k + 1, 1>>
        BY <3>1, <4>2 DEF Stretch
      <4>4. ~(q + n < Full(k))
        BY <1>3, <3>3
      <4> QED
        BY <1>2, <3>1, <4>3, <4>4 DEF ReadUpTo, Full
    <3> QED
      BY <1>w, <1>3, <3>2, <3>3
  <2>2. CASE n = Len(wire)
    <3>1. wire' = <<>>
      BY <1>w, <1>7, <2>2
    <3>2. wire[n] = <<k, q + n>>
      BY <1>3, <1>4
    <3>3. wire[n][1] = k /\ wire[n][2] = q + n
      BY <3>2
    <3>4. ASSUME conn = "up" PROVE k = Len(sent) /\ q + n = Full(k)
      <4>1. Full(wire[n][1]) - wire[n][2] <= Len(wire) - n
        BY <3>4 DEF Complete
      <4>2. wire[Len(wire)][1] = Len(sent)
        BY <1>1, <3>4 DEF Complete
      <4>3. Full(k) - (q + n) <= 0
        BY <1>w, <2>2, <3>3, <4>1
      <4> QED
        BY <1>w, <1>3, <2>2, <3>3, <4>2, <4>3, SMTT(40)
    <3> QED
      BY <3>1, <3>4 DEF ReadUpTo, Full
  <2> QED
    BY <1>w, <2>1, <2>2
<1> QED
  BY <1>2, <1>5, <1>6, <1>7, <1>8, <1>9, <1>10

(***************************************************************************)
(* The steps                                                               *)
(***************************************************************************)

\* What the invariant says of the variables' types.
LEMMA Typed ==
  ASSUME VInv
  PROVE  /\ sent \in Seq(Packets) /\ Len(sent) \in Nat
         /\ wire \in Seq(Byte) /\ Len(wire) \in Nat
         /\ conn \in {"up", "reset", "eof"}
         /\ rdc \in Int /\ leftover \in Int
         /\ hbuf \in Seq(Byte) /\ Len(hbuf) \in Nat /\ Len(hbuf) <= HeaderLen
         /\ strdata \in Seq(Byte) /\ Len(strdata) \in Nat /\ Len(strdata) <= Bunch
         /\ h.len \in Nat
         /\ Len(handled) \in Nat /\ DOMAIN handled = 1 .. Len(handled)
         /\ Current \in Nat \ {0} /\ Current <= Len(sent) + 1
         /\ HeaderLen \in Nat \ {0} /\ Bunch \in Nat \ {0} /\ Dust \in Nat \ {0}
<1>1. TypeOK /\ Len(hbuf) <= HeaderLen /\ Len(strdata) <= Bunch
  BY DEF VInv, InBuffers
<1>2. handled \in Seq([len : Lens, flag : Flags, data : Seq(Byte)])
  BY DEF VInv, HandledTyped
<1>3. h.len \in Nat
  <2>1. h \in Packets \cup {NoHeader}
    BY <1>1 DEF TypeOK
  <2>2. CASE h \in Packets
    BY <2>2, VicpAssumption DEF Packets
  <2>3. CASE h = NoHeader
    BY <2>3 DEF NoHeader
  <2> QED
    BY <2>1, <2>2, <2>3
<1>4. Len(handled) \in Nat /\ DOMAIN handled = 1 .. Len(handled)
  BY <1>2
<1>5. sent \in Seq(Packets) /\ Len(sent) \in Nat /\ DOMAIN sent = 1 .. Len(sent)
  BY <1>1 DEF TypeOK
<1>6. Len(handled) <= Len(sent)
  <2>1. ASSUME Len(handled) >= 1 PROVE Len(handled) \in DOMAIN sent
    <3>1. Len(handled) \in DOMAIN handled
      BY <1>4, <2>1
    <3> QED
      BY <3>1 DEF VInv, HandledWhole
  <2> QED
    BY <1>4, <1>5, <2>1
<1>7. wire \in Seq(Byte) /\ hbuf \in Seq(Byte) /\ strdata \in Seq(Byte)
      /\ rdc \in Int /\ leftover \in Int /\ conn \in {"up", "reset", "eof"}
  BY <1>1 DEF TypeOK, Byte
<1>8. Len(wire) \in Nat /\ Len(hbuf) \in Nat /\ Len(strdata) \in Nat
  BY <1>7
<1> QED
  BY <1>1, <1>3, <1>4, <1>5, <1>6, <1>7, <1>8, VicpAssumption DEF Current

\* Steps that give no packet to a handler and send none.
LEMMA HandledKept ==
  ASSUME VInv, UNCHANGED <<sent, handled>>
  PROVE  HandledTyped' /\ HandledWhole' /\ Current' = Current
BY DEF VInv, HandledTyped, HandledWhole, Current

\* Steps that read nothing.
LEMMA StreamKept ==
  ASSUME VInv, UNCHANGED <<sent, wire, conn, handled>>, HasRead' = HasRead
  PROVE  Stretch' /\ Complete' /\ ReadUpTo(Current, HasRead)'
<1>1. Stretch /\ Complete /\ ReadUpTo(Current, HasRead)
  BY DEF VInv
<1>2. Stretch' /\ Complete'
  BY <1>1 DEF Stretch, Complete, Full
<1> QED
  BY <1>1, <1>2 DEF ReadUpTo, Current, Full

\* An empty stretch of bytes.
LEMMA NoBytes ==
  ASSUME NEW n \in Nat, NEW from \in Nat \ {0}
  PROVE  <<>> = Bytes(n, from, from - 1) /\ <<>> \in Seq(Byte) /\ Len(<<>>) = 0
<1>1. Bytes(n, from, from - 1) \in Seq(Byte) /\ Len(Bytes(n, from, from - 1)) = from - 1 - from + 1
  BY BytesFacts
<1> QED
  BY <1>1

\* Nothing sent, nothing read.
LEMMA VInit == Init => VInv
<1> SUFFICES ASSUME Init PROVE VInv
  OBVIOUS
<1> USE DEF Init
<1>1. <<>> \in Seq(Packets) /\ <<>> \in Seq(Byte) /\ Len(<<>>) = 0
      /\ <<>> \in Seq([len : Lens, flag : Flags, data : Seq(Byte)])
  OBVIOUS
<1>2. InBuffers
  <2>1. TypeOK
    <3>1. 0 \in Int /\ NoHeader \in Packets \cup {NoHeader}
      OBVIOUS
    <3> QED
      BY <1>1, <3>1, Zenon DEF TypeOK, Byte
  <2> QED
    BY <1>1, <2>1, VicpAssumption DEF InBuffers
<1>3. HandledTyped /\ HandledWhole
  BY <1>1 DEF HandledTyped, HandledWhole
<1>4. Stretch /\ Complete
  BY <1>1 DEF Stretch, Complete
<1>5. Current = 1 /\ HasRead = 0
  BY <1>1 DEF Current, HasRead
<1>6. ReadUpTo(Current, HasRead)
  BY <1>1, <1>5 DEF ReadUpTo
<1>7. Placed
  BY DEF Placed
<1> QED
  BY <1>2, <1>3, <1>4, <1>6, <1>7 DEF VInv

\* The thread begins with the next packet.
LEMMA TopKeeps == VInv /\ RTop => VInv'
<1> SUFFICES ASSUME VInv, RTop PROVE VInv'
  OBVIOUS
<1>1. UNCHANGED <<sent, wire, conn, h, strdata, leftover, handled, readkill>>
      /\ place = "top" /\ rdc' = 0 /\ hbuf' = <<>> /\ place' \in {"ended", "header"}
  BY DEF RTop, wireVars
<1>2. <<>> = Bytes(Current, 1, 0) /\ <<>> \in Seq(Byte) /\ Len(<<>>) = 0
  <2>1. 1 - 1 = 0 /\ Current \in Nat
    BY Typed
  <2> QED
    BY <2>1, NoBytes
<1>3. HandledTyped' /\ HandledWhole' /\ Current' = Current
  BY <1>1, HandledKept
<1>4. HasRead = 0 /\ HasRead' = 0
  BY <1>1, <1>2 DEF HasRead
<1>5. Stretch' /\ Complete' /\ ReadUpTo(Current, HasRead)'
  BY <1>1, <1>4, StreamKept
<1>6. InBuffers'
  BY <1>1, <1>2, Typed DEF VInv, InBuffers, TypeOK, Byte
<1>7. Placed'
  BY <1>1, <1>2, <1>3 DEF Placed, AtHeader
<1> QED
  BY <1>3, <1>5, <1>6, <1>7 DEF VInv

\* scp_destroy touches nothing the reader has.
LEMMA KillKeeps == VInv /\ Kill => VInv'
<1> SUFFICES ASSUME VInv, Kill PROVE VInv'
  OBVIOUS
<1>1. UNCHANGED <<sent, wire, conn, place, rdc, hbuf, h, strdata, leftover, handled>> /\ readkill' = TRUE
  BY DEF Kill, wireVars, bufVars
<1>3. HandledTyped' /\ HandledWhole' /\ Current' = Current
  BY <1>1, HandledKept
<1>4. HasRead' = HasRead
  BY <1>1 DEF HasRead
<1>5. Stretch' /\ Complete' /\ ReadUpTo(Current, HasRead)'
  BY <1>1, <1>4, StreamKept
<1>6. InBuffers'
  BY <1>1 DEF VInv, InBuffers, TypeOK
<1>7. Placed'
  BY <1>1, <1>3 DEF VInv, Placed, AtHeader, AtData, AtDust, InPacket, Lost
<1> QED
  BY <1>3, <1>5, <1>6, <1>7 DEF VInv

\* read() fails: the count is wrong from now on, and nothing is left to read.
LEMMA FailsKeeps == VInv /\ RFails => VInv'
<1> SUFFICES ASSUME VInv, RFails PROVE VInv'
  OBVIOUS
<1>1. UNCHANGED <<sent, wire, place, hbuf, h, strdata, leftover, handled, readkill>>
      /\ rdc' = rdc - 1 /\ conn' = "eof" /\ wire = <<>> /\ Reading
  BY DEF RFails, bufVars
<1>3. HandledTyped' /\ HandledWhole' /\ Current' = Current
  BY <1>1, HandledKept
<1>4. Stretch' /\ Complete' /\ ReadUpTo(Current, HasRead)'
  BY <1>1 DEF VInv, Stretch, Complete, ReadUpTo, Full
<1>5. rdc - 1 \in Int
  BY Typed
<1>6. InBuffers'
  BY <1>1, <1>5 DEF VInv, InBuffers, TypeOK
<1>7. Placed'
  <2>1. Lost'
    BY <1>1 DEF Lost
  <2>2. CASE place = "header"
    <3>1. rdc' < HeaderLen
      BY <1>1, <2>2, Typed DEF Reading
    <3> QED
      BY <1>1, <1>3, <2>1, <2>2, <3>1 DEF VInv, Placed, AtHeader
  <2>3. CASE place = "data"
    <3>1. rdc' < Fits(h.len)'
      BY <1>1, <2>3, Typed, SMTT(40) DEF Reading, Fits, Smaller
    <3> QED
      BY <1>1, <1>3, <2>1, <2>3, <3>1 DEF VInv, Placed, AtData, InPacket, Fits
  <2>4. CASE place = "dust"
    <3>1. rdc' < leftover'
      BY <1>1, <2>4, Typed DEF Reading
    <3> QED
      BY <1>1, <1>3, <2>1, <2>4, <3>1 DEF VInv, Placed, AtDust, InPacket
  <2> QED
    BY <1>1, <2>2, <2>3, <2>4 DEF Reading
<1> QED
  BY <1>3, <1>4, <1>6, <1>7 DEF VInv

\* Bytes of the header.
LEMMA HeaderKeeps == VInv /\ RHeader => VInv'
<1> SUFFICES ASSUME VInv, RHeader PROVE VInv'
  OBVIOUS
<1>n. PICK n \in 1 .. HeaderLen : Takes(n, HeaderLen - rdc) /\ hbuf' = hbuf \o Some(n)
  BY DEF RHeader
<1>1. /\ UNCHANGED <<sent, conn, place, h, strdata, leftover, handled, readkill>>
      /\ place = "header" /\ rdc' = rdc + n /\ wire' = SubSeq(wire, n + 1, Len(wire))
      /\ n <= HeaderLen - rdc /\ n <= Len(wire)
  BY <1>n DEF RHeader, Takes
<1>2. n \in 1 .. Len(wire) /\ n \in Nat /\ wire # <<>>
  BY <1>1, Typed
<1>3. AtHeader /\ rdc = Len(hbuf) /\ HasRead = Len(hbuf)
  BY <1>1, <1>2 DEF VInv, Placed, AtHeader, Lost, HasRead
<1>4. Len(hbuf) + n <= HeaderLen
  BY <1>1, <1>2, <1>3, Typed, SMTT(40)
<1>5. Current <= Len(sent) => Len(hbuf) + n <= Full(Current)
  <2> SUFFICES ASSUME Current <= Len(sent) PROVE Len(hbuf) + n <= Full(Current)
    OBVIOUS
  <2>1. Current \in 1 .. Len(sent)
    BY Typed
  <2>2. Full(Current) \in Nat /\ HeaderLen <= Full(Current)
    BY <2>1, FullFacts DEF VInv, InBuffers
  <2> QED
    BY <1>2, <1>4, <2>2, Typed, SMTT(40)
<1>k. PICK k \in Nat \ {0}, q \in Nat : k = Current /\ q = Len(hbuf)
  BY Typed
<1>6. /\ k <= Len(sent)
      /\ Some(n) \in Seq(Byte) /\ Len(Some(n)) = n
      /\ Continues(Some(n), k, q)
      /\ wire' \in Seq(Byte)
      /\ Stretch' /\ Complete' /\ ReadUpTo(k, q + n)'
  <2>1. ReadUpTo(k, q) /\ TypeOK /\ Stretch /\ Complete
    BY <1>3, <1>k DEF VInv, InBuffers
  <2> QED
    BY <1>1, <1>2, <1>5, <1>k, <2>1, ReadSome
<1>7. HandledTyped' /\ HandledWhole' /\ Current' = Current
  BY <1>1, HandledKept
<1>8. /\ hbuf' \in Seq(Byte) /\ Len(hbuf') = Len(hbuf) + n
      /\ hbuf' = Bytes(Current, 1, Len(hbuf'))
  <2>1. hbuf = Bytes(k, 1, q) /\ 1 <= q + 1 /\ hbuf \in Seq(Byte) /\ k \in Nat /\ 1 \in Nat
    BY <1>3, <1>k, Typed DEF AtHeader
  <2>e. PICK e \in Nat : e = q + n
    BY <1>2
  <2>2. Bytes(k, 1, q) \o Some(n) = Bytes(k, 1, e)
    <3>1. k \in Nat /\ 1 \in Nat /\ q \in Nat /\ 1 <= q + 1
      BY <2>1
    <3>2. \A t \in Seq(Byte), m \in Nat, e1 \in Nat :
            Len(t) = m /\ Continues(t, k, q) /\ e1 = q + m
              => Bytes(k, 1, q) \o t = Bytes(k, 1, e1)
      BY <3>1, BytesMore
    <3> QED
      BY <1>2, <1>6, <2>e, <3>2
  <2>3. /\ hbuf \o Some(n) \in Seq(Byte)
        /\ Len(hbuf \o Some(n)) = e
    <3>1. /\ hbuf \o Some(n) \in Seq(Byte)
          /\ Len(hbuf \o Some(n)) = Len(hbuf) + Len(Some(n))
      BY <1>6, <2>1, ConcatProperties
    <3> QED
      BY <1>6, <1>k, <2>e, <3>1
  <2> QED
    BY <1>n, <1>7, <1>k, <2>e, <2>1, <2>2, <2>3
<1>9. ReadUpTo(Current, HasRead)'
  <2>1. HasRead' = q + n
    BY <1>1, <1>8, <1>k DEF HasRead
  <2>2. Current' = k
    BY <1>7, <1>k
  <2> QED
    BY <1>6, <2>1, <2>2 DEF ReadUpTo, Full
<1>10. InBuffers'
  <2>1. rdc' \in Int /\ rdc' >= 0 /\ Len(hbuf') <= HeaderLen
    BY <1>1, <1>2, <1>3, <1>4, <1>8, Typed
  <2> QED
    BY <1>1, <1>6, <1>8, <2>1 DEF VInv, InBuffers, TypeOK, Byte
<1>11. Placed'
  BY <1>1, <1>3, <1>6, <1>7, <1>8, <1>k DEF Placed, AtHeader
<1> QED
  BY <1>6, <1>7, <1>9, <1>10, <1>11 DEF VInv

\* The header is complete: it is the current packet's, and says what that is.
LEMMA LengthKeeps == VInv /\ RLength => VInv'
<1> SUFFICES ASSUME VInv, RLength PROVE VInv'
  OBVIOUS
<1>1. /\ UNCHANGED <<sent, wire, conn, hbuf, leftover, handled, readkill>>
      /\ place = "header" /\ ~Reading /\ place' = "data" /\ rdc' = 0 /\ strdata' = <<>>
      /\ h' = LET n == hbuf[1][1]
              IN IF hbuf = Bytes(n, 1, HeaderLen) THEN sent[n] ELSE NoHeader
  BY DEF RLength, wireVars
<1>2. AtHeader /\ rdc = Len(hbuf) /\ Len(hbuf) = HeaderLen
  <2>1. AtHeader /\ rdc >= HeaderLen
    BY <1>1, Typed DEF VInv, Placed, Reading
  <2> QED
    BY <2>1, Typed DEF AtHeader
<1>3. hbuf = Bytes(Current, 1, HeaderLen) /\ Current \in 1 .. Len(sent)
  <2>1. hbuf # <<>>
    BY <1>2, Typed
  <2> QED
    BY <1>2, <2>1, Typed DEF AtHeader
<1>4. hbuf[1][1] = Current
  <2>1. \A k \in Nat : Bytes(k, 1, HeaderLen)[1] = <<k, 1>>
    <3> SUFFICES ASSUME NEW k \in Nat PROVE Bytes(k, 1, HeaderLen)[1] = <<k, 1>>
      OBVIOUS
    <3>1. 1 \in 1 .. HeaderLen - 1 + 1 /\ 1 \in Nat /\ HeaderLen \in Nat /\ 1 <= HeaderLen + 1
      BY VicpAssumption
    <3>2. Bytes(k, 1, HeaderLen)[1] = <<k, 1 + 1 - 1>>
      BY <3>1, BytesFacts
    <3> QED
      BY <3>2
  <2>2. Current \in Nat
    BY Typed
  <2> QED
    BY <1>3, <2>1, <2>2
<1>5. h' = sent[Current]
  BY <1>1, <1>3, <1>4
<1>6. HandledTyped' /\ HandledWhole' /\ Current' = Current
  BY <1>1, HandledKept
<1>7. HasRead = HeaderLen /\ HasRead' = HeaderLen
  BY <1>1, <1>2, Typed DEF HasRead
<1>8. Stretch' /\ Complete' /\ ReadUpTo(Current, HasRead)'
  BY <1>1, <1>7, StreamKept
<1>9. sent[Current] \in Packets /\ sent[Current].len \in Nat
  BY <1>3, FullFacts DEF VInv, InBuffers
<1>10. <<>> \in Seq(Byte) /\ Len(<<>>) = 0 /\ <<>> = Bytes(Current, HeaderLen + 1, HeaderLen + 0)
  <2>1. HeaderLen + 1 \in Nat \ {0} /\ Current \in Nat /\ HeaderLen + 0 = (HeaderLen + 1) - 1
    BY Typed, SMTT(40)
  <2>2. <<>> = Bytes(Current, HeaderLen + 1, (HeaderLen + 1) - 1) /\ <<>> \in Seq(Byte) /\ Len(<<>>) = 0
    BY <2>1, NoBytes
  <2> QED
    BY <2>1, <2>2
<1>11. InBuffers'
  <2>1. TypeOK'
    BY <1>1, <1>5, <1>9, <1>10, SMTT(40) DEF VInv, InBuffers, TypeOK, Byte
  <2> QED
    BY <1>1, <1>10, <2>1, Typed DEF VInv, InBuffers
<1>12. Placed'
  <2>1. InPacket'
    BY <1>1, <1>3, <1>5, <1>6, <1>10 DEF InPacket
  <2>2. 0 <= Fits(h.len)'
    BY <1>5, <1>9, Typed DEF Fits, Smaller
  <2> QED
    BY <1>1, <1>10, <2>1, <2>2 DEF Placed, AtData
<1> QED
  BY <1>6, <1>8, <1>11, <1>12 DEF VInv

\* Bytes that fit into strdata.
LEMMA DataKeeps == VInv /\ RData => VInv'
<1> SUFFICES ASSUME VInv, RData PROVE VInv'
  OBVIOUS
<1>n. PICK n \in 1 .. Len(wire) : Takes(n, Wanted) /\ strdata' = strdata \o Some(n)
  BY DEF RData
<1>1. /\ UNCHANGED <<sent, conn, place, hbuf, h, leftover, handled, readkill>>
      /\ place = "data" /\ rdc' = rdc + n /\ wire' = SubSeq(wire, n + 1, Len(wire))
      /\ n <= Wanted
  BY <1>n DEF RData, Takes
<1>2. n \in Nat /\ n >= 1 /\ wire # <<>>
  BY Typed
<1>t. /\ rdc \in Int /\ h.len \in Nat /\ Len(strdata) \in Nat
      /\ HeaderLen \in Nat \ {0} /\ Bunch \in Nat \ {0}
  BY Typed
<1>3. AtData /\ InPacket /\ rdc = Len(strdata) /\ HasRead = HeaderLen + Len(strdata)
  BY <1>1, <1>2 DEF VInv, Placed, AtData, Lost, HasRead
<1>4. Len(strdata) + n <= Fits(h.len) /\ Fits(h.len) <= h.len /\ Fits(h.len) <= Bunch
  <2>1. n <= h.len - rdc /\ n <= Bunch - rdc
    <3>1. h.len - rdc \in Int /\ Bunch - rdc \in Int /\ n \in Int
      BY <1>2, <1>t
    <3>2. n <= Smaller(h.len - rdc, Bunch - rdc)
      BY <1>1 DEF Wanted
    <3> QED
      BY <3>1, <3>2, SmallerFacts, Zenon
  <2>2. Len(strdata) + n \in Int /\ Len(strdata) + n <= h.len /\ Len(strdata) + n <= Bunch
    BY <1>2, <1>3, <1>t, <2>1
  <2>3. h.len \in Int /\ Bunch \in Int
    BY <1>t
  <2> QED
    BY <2>2, <2>3, SmallerFacts DEF Fits
<1>k. PICK k \in Nat \ {0}, q \in Nat : k = Current /\ q = HeaderLen + Len(strdata)
  BY Typed
<1>5. k \in 1 .. Len(sent) /\ q + n <= Full(k)
  <2>1. k \in 1 .. Len(sent) /\ h = sent[k]
    BY <1>3, <1>k, Typed DEF InPacket
  <2> QED
    <3>1. Full(k) = HeaderLen + h.len
      BY <2>1 DEF Full
    <3>2. Fits(h.len) \in Nat
      BY <1>t, FitsFacts
    <3>3. Len(strdata) + n <= h.len
      BY <1>2, <1>4, <1>t, <3>2
    <3>4. q + n = HeaderLen + (Len(strdata) + n)
      BY <1>2, <1>k, <1>t
    <3> QED
      BY <1>2, <1>t, <2>1, <3>1, <3>3, <3>4
<1>6. /\ Some(n) \in Seq(Byte) /\ Len(Some(n)) = n
      /\ Continues(Some(n), k, q)
      /\ wire' \in Seq(Byte)
      /\ Stretch' /\ Complete' /\ ReadUpTo(k, q + n)'
  <2>1. ReadUpTo(k, q) /\ TypeOK /\ Stretch /\ Complete
    BY <1>3, <1>k DEF VInv, InBuffers
  <2> QED
    BY <1>1, <1>5, <2>1, ReadSome
<1>7. HandledTyped' /\ HandledWhole' /\ Current' = Current
  BY <1>1, HandledKept
<1>8. /\ strdata' \in Seq(Byte) /\ Len(strdata') = Len(strdata) + n
      /\ strdata' = Bytes(Current, HeaderLen + 1, HeaderLen + Len(strdata'))
  <2>1. /\ strdata = Bytes(k, HeaderLen + 1, q) /\ strdata \in Seq(Byte) /\ k \in Nat
        /\ HeaderLen + 1 <= q + 1 /\ HeaderLen + 1 \in Nat
    <3>1. strdata = Bytes(k, HeaderLen + 1, q) /\ strdata \in Seq(Byte) /\ k \in Nat
      BY <1>3, <1>k, Typed DEF InPacket
    <3>2. HeaderLen + 1 <= q + 1 /\ HeaderLen + 1 \in Nat
      BY <1>k, <1>t
    <3> QED
      BY <3>1, <3>2
  <2>e. PICK e \in Nat : e = q + n
    BY <1>2
  <2>2. Bytes(k, HeaderLen + 1, q) \o Some(n) = Bytes(k, HeaderLen + 1, e)
    <3>1. HeaderLen + 1 \in Nat /\ HeaderLen + 1 <= q + 1
      BY <2>1
    <3>2. \A t \in Seq(Byte), m \in Nat, e1 \in Nat :
            Len(t) = m /\ Continues(t, k, q) /\ e1 = q + m
              => Bytes(k, HeaderLen + 1, q) \o t = Bytes(k, HeaderLen + 1, e1)
      BY <3>1, BytesMore
    <3> QED
      BY <1>2, <1>6, <2>e, <3>2
  <2>3. /\ strdata \o Some(n) \in Seq(Byte)
        /\ Len(strdata \o Some(n)) = Len(strdata) + n
    <3>1. /\ strdata \o Some(n) \in Seq(Byte)
          /\ Len(strdata \o Some(n)) = Len(strdata) + Len(Some(n))
      BY <1>6, <2>1, ConcatProperties
    <3> QED
      BY <1>6, <3>1
  <2>4. e = HeaderLen + (Len(strdata) + n)
    BY <1>2, <1>k, <1>t, <2>e
  <2> QED
    BY <1>n, <1>k, <2>1, <2>2, <2>3, <2>4
<1>9. ReadUpTo(Current, HasRead)'
  <2>1. HasRead' = q + n
    <3>1. HasRead' = HeaderLen + (Len(strdata) + n)
      BY <1>1, <1>8 DEF HasRead
    <3> QED
      BY <1>2, <1>k, <1>t, <3>1
  <2>2. Current' = k
    BY <1>7, <1>k
  <2> QED
    BY <1>6, <2>1, <2>2 DEF ReadUpTo, Full
<1>10. InBuffers'
  <2>1. rdc' \in Int /\ rdc' >= 0 /\ Len(strdata') <= Bunch
    <3>1. Fits(h.len) \in Nat
      BY <1>t, FitsFacts
    <3> QED
      BY <1>1, <1>2, <1>3, <1>4, <1>8, <1>t, <3>1
  <2> QED
    BY <1>1, <1>6, <1>8, <2>1 DEF VInv, InBuffers, TypeOK, Byte
<1>11. Placed'
  <2>1. InPacket'
    BY <1>1, <1>3, <1>7, <1>8 DEF InPacket
  <2>2. Len(strdata') <= Fits(h.len)' /\ rdc' = Len(strdata')
    BY <1>1, <1>3, <1>4, <1>8 DEF Fits
  <2> QED
    BY <1>1, <2>1, <2>2 DEF Placed, AtData
<1> QED
  BY <1>6, <1>7, <1>9, <1>10, <1>11 DEF VInv

\* strdata is full, the packet is complete, or read() has failed before the
\* first byte.
LEMMA DataEndKeeps == VInv /\ RDataEnd => VInv'
<1> SUFFICES ASSUME VInv, RDataEnd PROVE VInv'
  OBVIOUS
<1>1. /\ UNCHANGED <<sent, wire, conn, hbuf, h, strdata, handled, readkill>>
      /\ place = "data" /\ ~Reading /\ place' = "dust" /\ rdc' = 0
      /\ leftover' = h.len - rdc
  BY DEF RDataEnd, wireVars
<1>2. AtData /\ InPacket
  BY <1>1 DEF VInv, Placed, AtData
<1>3. ~(0 <= rdc /\ rdc < h.len /\ rdc < Bunch)
  BY <1>1 DEF Reading
<1>4. HandledTyped' /\ HandledWhole' /\ Current' = Current
  BY <1>1, HandledKept
<1>5. HasRead = HeaderLen + Len(strdata) /\ HasRead' = HeaderLen + Len(strdata)
  BY <1>1, Typed DEF HasRead
<1>6. Stretch' /\ Complete' /\ ReadUpTo(Current, HasRead)'
  BY <1>1, <1>5, StreamKept
<1>7. InBuffers'
  <2>1. leftover' \in Int /\ rdc' \in Int /\ rdc' >= 0
    BY <1>1, Typed
  <2> QED
    BY <1>1, <2>1 DEF VInv, InBuffers, TypeOK
<1>8. InPacket'
  BY <1>1, <1>2, <1>4 DEF InPacket
<1>9. Placed'
  <2>1. CASE rdc = Len(strdata)
    <3>1. Len(strdata) = Fits(h.len) /\ Len(strdata) <= h.len
      BY <1>2, <1>3, <2>1, Typed DEF AtData, Fits, Smaller
    <3>2. leftover' = h.len - Len(strdata) /\ rdc' \in 0 .. leftover'
      BY <1>1, <2>1, <3>1, Typed
    <3> QED
      BY <1>1, <1>8, <3>1, <3>2 DEF Placed, AtDust, Fits
  <2>2. CASE Lost /\ rdc < Fits(h.len)
    <3>1. rdc < 0
      BY <1>3, <2>2, Typed DEF Fits, Smaller
    <3>2. rdc' < leftover'
      BY <1>1, <3>1, Typed, SMTT(40)
    <3> QED
      BY <1>1, <1>8, <2>2, <3>2 DEF Placed, AtDust, Lost
  <2> QED
    BY <1>2, <2>1, <2>2 DEF AtData
<1> QED
  BY <1>4, <1>6, <1>7, <1>9 DEF VInv

\* Bytes that do not fit go into the dustbin.
LEMMA DustKeeps == VInv /\ RDust => VInv'
<1> SUFFICES ASSUME VInv, RDust PROVE VInv'
  OBVIOUS
<1>n. PICK n \in 1 .. Dust : Takes(n, Smaller(leftover - rdc, Dust))
  BY DEF RDust
<1>1. /\ UNCHANGED <<sent, conn, place, hbuf, h, strdata, leftover, handled, readkill>>
      /\ place = "dust" /\ rdc' = rdc + n /\ wire' = SubSeq(wire, n + 1, Len(wire))
      /\ n <= Smaller(leftover - rdc, Dust) /\ n <= Len(wire)
  BY <1>n DEF RDust, Takes, bufVars
<1>t. /\ rdc \in Int /\ leftover \in Int /\ h.len \in Nat /\ Len(strdata) \in Nat
      /\ HeaderLen \in Nat \ {0} /\ Dust \in Nat \ {0} /\ n \in Nat /\ n >= 1
      /\ n \in 1 .. Len(wire) /\ wire # <<>>
  BY <1>1, Typed
<1>2. /\ InPacket /\ Len(strdata) = Fits(h.len) /\ leftover = h.len - Len(strdata)
      /\ rdc \in 0 .. leftover /\ HasRead = HeaderLen + Len(strdata) + rdc
  BY <1>1, <1>t DEF VInv, Placed, AtDust, Lost, HasRead
<1>3. rdc + n <= leftover
  <2>1. leftover - rdc \in Int /\ Dust \in Int /\ n \in Int
    BY <1>t
  <2>2. n <= leftover - rdc
    BY <1>1, <2>1, SmallerFacts
  <2> QED
    BY <1>t, <2>2
<1>k. PICK k \in Nat \ {0}, q \in Nat : k = Current /\ q = HeaderLen + Len(strdata) + rdc
  <2>1. Current \in Nat \ {0}
    BY Typed
  <2>2. HeaderLen + Len(strdata) + rdc \in Nat
    BY <1>t, <1>2
  <2> QED
    BY <2>1, <2>2
<1>4. k \in 1 .. Len(sent) /\ q + n <= Full(k)
  <2>1. k \in 1 .. Len(sent) /\ h = sent[k]
    BY <1>2, <1>k, Typed DEF InPacket
  <2>2. Full(k) = HeaderLen + h.len
    BY <2>1 DEF Full
  <2>3. PICK a, b, u, v, d :
          a = HeaderLen /\ b = h.len /\ u = Len(strdata) /\ v = rdc /\ d = leftover
    OBVIOUS
  <2>4. a \in Int /\ b \in Int /\ u \in Int /\ v \in Int /\ d \in Int /\ n \in Int
    BY <1>t, <2>3
  <2>5. q = a + u + v /\ v + n <= d /\ d = b - u
    BY <1>2, <1>3, <1>k, <2>3
  <2>6. q + n <= a + b
    BY <2>4, <2>5
  <2> QED
    BY <2>1, <2>2, <2>3, <2>6
<1>5. Stretch' /\ Complete' /\ ReadUpTo(k, q + n)' /\ wire' \in Seq(Byte)
  <2>1. ReadUpTo(k, q) /\ TypeOK /\ Stretch /\ Complete
    BY <1>2, <1>k DEF VInv, InBuffers
  <2> QED
    BY <1>1, <1>t, <1>4, <2>1, ReadSome
<1>6. HandledTyped' /\ HandledWhole' /\ Current' = Current
  BY <1>1, HandledKept
<1>7. ReadUpTo(Current, HasRead)'
  <2>1. HasRead' = q + n
    <3>1. HasRead' = HeaderLen + Len(strdata) + (rdc + n)
      BY <1>1 DEF HasRead
    <3> QED
      BY <1>k, <1>t, <3>1
  <2>2. Current' = k
    BY <1>6, <1>k
  <2> QED
    BY <1>5, <2>1, <2>2 DEF ReadUpTo, Full
<1>8. InBuffers'
  <2>1. rdc' \in Int /\ rdc' >= 0
    BY <1>1, <1>t, <1>2
  <2> QED
    BY <1>1, <1>5, <2>1 DEF VInv, InBuffers, TypeOK, Byte
<1>9. Placed'
  <2>1. InPacket'
    BY <1>1, <1>2, <1>6 DEF InPacket
  <2>2. rdc' \in 0 .. leftover'
    BY <1>1, <1>t, <1>2, <1>3
  <2> QED
    BY <1>1, <1>2, <2>1, <2>2 DEF Placed, AtDust, Fits
<1> QED
  BY <1>5, <1>6, <1>7, <1>8, <1>9 DEF VInv

\* The packet has been read to its end when a handler is given it.
LEMMA DispatchFacts ==
  ASSUME VInv, RDispatch
  PROVE  /\ InPacket /\ Len(strdata) = Fits(h.len) /\ rdc >= 0
         /\ HasRead = Full(Current) /\ Current \in 1 .. Len(sent)
         /\ Current' = Current + 1 /\ Len(handled') = Len(handled) + 1
         /\ handled'[Current] = [len |-> h.len, flag |-> h.flag, data |-> strdata]
         /\ \A i \in 1 .. Len(handled) : handled'[i] = handled[i]
         /\ HandledTyped'
<1>1. /\ place = "dust" /\ ~Reading
      /\ handled' = Append(handled, [len |-> h.len, flag |-> h.flag, data |-> strdata])
  BY DEF RDispatch
<1>t. /\ rdc \in Int /\ leftover \in Int /\ h.len \in Nat /\ Len(strdata) \in Nat
      /\ HeaderLen \in Nat \ {0} /\ strdata \in Seq(Byte) /\ Len(handled) \in Nat
  BY Typed
<1>2. rdc >= leftover
  BY <1>1, <1>t DEF Reading
<1>3. InPacket /\ Len(strdata) = Fits(h.len) /\ leftover = h.len - Len(strdata) /\ rdc \in 0 .. leftover
  BY <1>1, <1>t, <1>2 DEF VInv, Placed, AtDust
<1>4. Current \in 1 .. Len(sent) /\ h = sent[Current]
  BY <1>3, Typed DEF InPacket
<1>5. HasRead = Full(Current)
  <2>1. HasRead = HeaderLen + Len(strdata) + rdc
    BY <1>1 DEF HasRead
  <2>2. Full(Current) = HeaderLen + h.len
    BY <1>4 DEF Full
  <2> QED
    BY <1>t, <1>2, <1>3, <2>1, <2>2
<1>6. h \in Packets
  BY <1>4, FullFacts DEF VInv, InBuffers
<1>7. [len |-> h.len, flag |-> h.flag, data |-> strdata] \in [len : Lens, flag : Flags, data : Seq(Byte)]
  BY <1>t, <1>6 DEF Packets
<1>8. /\ HandledTyped' /\ Len(handled') = Len(handled) + 1
      /\ handled'[Len(handled) + 1] = [len |-> h.len, flag |-> h.flag, data |-> strdata]
      /\ \A i \in 1 .. Len(handled) : handled'[i] = handled[i]
  BY <1>1, <1>7, AppendProperties DEF VInv, HandledTyped
<1>9. Current' = Current + 1
  BY <1>8, <1>t DEF Current
<1> QED
  BY <1>3, <1>4, <1>5, <1>8, <1>9 DEF Current

\* A handler is given the packet: it is the current one, whole.
LEMMA DispatchKeeps == VInv /\ RDispatch => VInv'
<1> SUFFICES ASSUME VInv, RDispatch PROVE VInv'
  OBVIOUS
<1>1. /\ UNCHANGED <<sent, wire, conn, rdc, hbuf, h, strdata, leftover, readkill>>
      /\ place = "dust" /\ place' = "top"
  BY DEF RDispatch, wireVars, bufVars
<1>2. /\ InPacket /\ Len(strdata) = Fits(h.len) /\ rdc >= 0
      /\ HasRead = Full(Current) /\ Current \in 1 .. Len(sent)
      /\ Current' = Current + 1 /\ Len(handled') = Len(handled) + 1
      /\ handled'[Current] = [len |-> h.len, flag |-> h.flag, data |-> strdata]
      /\ \A i \in 1 .. Len(handled) : handled'[i] = handled[i]
      /\ HandledTyped'
  BY DispatchFacts
<1>3. HandledWhole'
  <2> SUFFICES ASSUME NEW i \in 1 .. Len(handled) + 1
               PROVE  /\ i \in DOMAIN sent
                      /\ handled'[i].len = sent[i].len /\ handled'[i].flag = sent[i].flag
                      /\ handled'[i].data =
                           Bytes(i, HeaderLen + 1, HeaderLen + Smaller(sent[i].len, Bunch))
    <3>1. DOMAIN handled' = 1 .. Len(handled) + 1
      BY <1>2 DEF HandledTyped
    <3> QED
      BY <1>1, <3>1 DEF HandledWhole
  <2>1. CASE i \in 1 .. Len(handled)
    BY <1>2, <2>1, Typed DEF VInv, HandledWhole
  <2>2. CASE i = Current
    <3>1. h = sent[i] /\ i \in 1 .. Len(sent) /\ sent \in Seq(Packets)
      BY <1>2, <2>2, Typed DEF InPacket
    <3>2. strdata = Bytes(i, HeaderLen + 1, HeaderLen + Fits(h.len))
      BY <1>2, <2>2 DEF InPacket
    <3>3. i \in DOMAIN sent
      BY <3>1
    <3>4. handled'[i] = [len |-> h.len, flag |-> h.flag, data |-> strdata]
      BY <1>2, <2>2
    <3> QED
      BY <3>1, <3>2, <3>3, <3>4 DEF Fits
  <2>3. i \in 1 .. Len(handled) \/ i = Current
    BY Typed DEF Current
  <2> QED
    BY <2>1, <2>2, <2>3
<1>4. Stretch' /\ Complete'
  BY <1>1 DEF VInv, Stretch, Complete, Full
<1>5. ReadUpTo(Current, HasRead)'
  <2>k. PICK k \in Nat \ {0} : k = Current
    BY Typed
  <2>1. HasRead' = 0
    BY <1>1 DEF HasRead
  <2>2. Current' = k + 1
    BY <1>2, <2>k
  <2>3. k \in 1 .. Len(sent) /\ Full(k) \in Nat /\ ReadUpTo(k, Full(k))
    <3>1. k \in 1 .. Len(sent)
      BY <1>2, <2>k
    <3>2. Full(k) \in Nat
      BY <3>1, FullFacts DEF VInv, InBuffers
    <3> QED
      BY <1>2, <2>k, <3>1, <3>2 DEF VInv
  <2>4. ASSUME wire # <<>>
        PROVE  k + 1 <= Len(sent) /\ wire[1] = <<k + 1, 1>> /\ 0 < Full(k + 1)
    <3>1. wire[1] = <<k + 1, 1>>
      <4>1. ~(Full(k) < Full(k))
        BY <2>3
      <4> QED
        BY <2>3, <2>4, <4>1 DEF ReadUpTo
    <3>2. 1 \in 1 .. Len(wire)
      BY <2>4, Typed
    <3>3. wire[1][1] \in 1 .. Len(sent)
      BY <3>2, WireFacts DEF VInv, InBuffers
    <3>4. k + 1 \in 1 .. Len(sent)
      BY <3>1, <3>3
    <3>5. Full(k + 1) \in Nat /\ HeaderLen <= Full(k + 1)
      BY <3>4, FullFacts DEF VInv, InBuffers
    <3> QED
      BY <3>1, <3>4, <3>5, Typed
  <2>5. ASSUME conn = "up", wire = <<>> PROVE k + 1 = Len(sent) + 1
    BY <2>3, <2>5, Typed, SMTT(40) DEF ReadUpTo
  <2>6. Full(k + 1)' = Full(k + 1)
    BY <1>1 DEF Full
  <2>7. 0 + 1 = 1
    OBVIOUS
  <2> QED
    BY <1>1, <2>1, <2>2, <2>4, <2>5, <2>6, <2>7 DEF ReadUpTo
<1>6. InBuffers'
  BY <1>1 DEF VInv, InBuffers, TypeOK
<1>7. Placed'
  BY <1>1, <1>2 DEF Placed
<1> QED
  BY <1>2, <1>3, <1>4, <1>5, <1>6, <1>7 DEF VInv

\* The connection ends: a stretch without its end is a stretch.
LEMMA LoseKeeps == VInv /\ Lose => VInv'
<1> SUFFICES ASSUME VInv, Lose PROVE VInv'
  OBVIOUS
<1>n. PICK n \in 0 .. Len(wire) : wire' = SubSeq(wire, 1, n)
  BY DEF Lose
<1>1. /\ UNCHANGED <<sent, place, rdc, hbuf, h, strdata, leftover, handled, readkill>>
      /\ conn = "up" /\ conn' \in {"reset", "eof"} /\ conn' # "up"
  BY DEF Lose, bufVars
<1>2. /\ n \in Nat /\ n <= Len(wire) /\ Len(wire) \in Nat
      /\ wire' \in Seq(Byte) /\ Len(wire') = n
      /\ \A i \in 1 .. n : i \in 1 .. Len(wire) /\ wire'[i] = wire[i]
  <2>1. /\ n \in Nat /\ n <= Len(wire) /\ wire \in Seq(Byte) /\ Len(wire) \in Nat
        /\ 1 \in Int /\ n \in Int
    BY Typed
  <2>2. \A i \in 1 .. n : i \in 1 .. Len(wire) /\ wire[i] \in Byte
    BY <2>1
  <2>3. /\ SubSeq(wire, 1, n) \in Seq(Byte)
        /\ Len(SubSeq(wire, 1, n)) = IF 1 <= n THEN n - 1 + 1 ELSE 0
        /\ \A i \in 1 .. n - 1 + 1 : SubSeq(wire, 1, n)[i] = wire[1 + i - 1]
    BY <2>1, <2>2, SubSeqProperties
  <2>4. \A i \in 1 .. n : wire'[i] = wire[i]
    BY <1>n, <2>1, <2>3
  <2> QED
    BY <1>n, <2>1, <2>2, <2>3, <2>4
<1>3. HandledTyped' /\ HandledWhole' /\ Current' = Current
  BY <1>1, HandledKept
<1>4. Stretch'
  <2>1. ASSUME NEW i \in 1 .. Len(wire')
        PROVE  wire'[i][1] \in 1 .. Len(sent') /\ wire'[i][2] \in 1 .. Full(wire[i][1])'
    BY <1>1, <1>2 DEF VInv, Stretch, Full
  <2>2. ASSUME NEW i \in 1 .. Len(wire'), NEW j \in 1 .. Len(wire'),
               i <= j, wire'[i][2] + (j - i) <= Full(wire[i][1])'
        PROVE  wire'[j] = <<wire'[i][1], wire'[i][2] + (j - i)>>
    BY <1>1, <1>2, <2>2 DEF VInv, Stretch, Full
  <2>3. ASSUME NEW i \in 1 .. Len(wire') - 1, wire'[i][2] = Full(wire[i][1])'
        PROVE  wire'[i + 1] = <<wire'[i][1] + 1, 1>>
    <3>1. i \in 1 .. n /\ i + 1 \in 1 .. n /\ i \in 1 .. Len(wire) - 1
      BY <1>2
    <3> QED
      BY <1>1, <1>2, <2>3, <3>1 DEF VInv, Stretch, Full
  <2> QED
    BY <2>1, <2>2, <2>3 DEF Stretch
<1>5. Complete'
  BY <1>1 DEF Complete
<1>6. ReadUpTo(Current, HasRead)'
  <2>1. HasRead' = HasRead
    BY <1>1 DEF HasRead
  <2>2. ASSUME wire' # <<>> PROVE wire # <<>> /\ wire'[1] = wire[1]
    <3>1. n >= 1 /\ 1 \in 1 .. n
      BY <1>2, <2>2
    <3> QED
      BY <1>2, <3>1
  <2>3. ReadUpTo(Current, HasRead)
    BY DEF VInv
  <2> QED
    BY <1>1, <1>3, <2>1, <2>2, <2>3 DEF ReadUpTo, Full
<1>7. InBuffers'
  <2>1. TypeOK'
    BY <1>1, <1>2 DEF VInv, InBuffers, TypeOK, Byte
  <2>2. rdc >= 0
    BY <1>1 DEF VInv, InBuffers
  <2> QED
    BY <1>1, <2>1, <2>2 DEF VInv, InBuffers
<1>8. Placed'
  <2>1. ~Lost
    BY <1>1 DEF Lost
  <2>2. CASE place = "header"
    <3>1. AtHeader'
      BY <1>1, <1>3, <2>1, <2>2 DEF VInv, Placed, AtHeader
    <3> QED
      BY <1>1, <2>2, <3>1 DEF Placed
  <2>3. CASE place = "data"
    <3>1. AtData'
      BY <1>1, <1>3, <2>1, <2>3 DEF VInv, Placed, AtData, InPacket, Fits
    <3> QED
      BY <1>1, <2>3, <3>1 DEF Placed
  <2>4. CASE place = "dust"
    <3>1. AtDust'
      BY <1>1, <1>3, <2>1, <2>4 DEF VInv, Placed, AtDust, InPacket, Fits
    <3> QED
      BY <1>1, <2>4, <3>1 DEF Placed
  <2>5. CASE place \in {"top", "ended"}
    BY <1>1, <2>5 DEF VInv, Placed
  <2>6. place \in {"top", "header", "data", "dust", "ended"}
    BY DEF VInv, InBuffers, TypeOK
  <2> QED
    BY <2>2, <2>3, <2>4, <2>5, <2>6
<1> QED
  BY <1>3, <1>4, <1>5, <1>6, <1>7, <1>8 DEF VInv

\* What a packet that is sent adds to the wire: its bytes, from the first to
\* the last, behind those of the packet before it.
LEMMA SendFacts ==
  ASSUME VInv, NEW p \in Packets, Send(p)
  PROVE  \E N, w, l \in Nat :
         /\ N = Len(sent) + 1 /\ w = Len(wire) /\ l >= 1
         /\ sent' \in Seq(Packets) /\ Len(sent') = N
         /\ \A i \in 1 .. Len(sent) : sent'[i] = sent[i] /\ Full(i)' = Full(i)
         /\ Full(N)' = l
         /\ wire' \in Seq(Byte) /\ Len(wire') = w + l
         /\ \A i \in 1 .. w : wire'[i] = wire[i]
         /\ \A i \in w + 1 .. w + l : wire'[i] = <<N, i - w>>
<1>k. PICK N \in Nat : N = Len(sent) + 1
  BY Typed
<1>w. PICK w \in Nat : w = Len(wire)
  BY Typed
<1>l. PICK l \in Nat : l = HeaderLen + p.len /\ l >= 1
  <2>1. p.len \in Nat
    BY VicpAssumption DEF Packets
  <2>2. HeaderLen + p.len \in Nat /\ HeaderLen + p.len >= 1
    BY <2>1, VicpAssumption
  <2> QED
    BY <2>2
<1>1. /\ sent' = Append(sent, p)
      /\ wire' = wire \o Bytes(Len(sent'), 1, HeaderLen + p.len)
  BY DEF Send
<1>t. /\ sent \in Seq(Packets) /\ wire \in Seq(Byte) /\ HeaderLen \in Nat \ {0}
      /\ Len(sent) \in Nat /\ Len(wire) \in Nat
  BY Typed
<1>2. /\ sent' \in Seq(Packets) /\ Len(sent') = Len(sent) + 1
      /\ sent'[Len(sent) + 1] = p
      /\ \A i \in 1 .. Len(sent) : sent'[i] = sent[i]
  BY <1>1, <1>t, AppendProperties
<1>4. l >= 1
  BY <1>l
<1>5. /\ Bytes(N, 1, l) \in Seq(Byte) /\ Len(Bytes(N, 1, l)) = l
      /\ \A i \in 1 .. l : Bytes(N, 1, l)[i] = <<N, i>>
  <2>1. 1 \in Nat /\ 1 <= l + 1
    BY <1>4
  <2>2. /\ Bytes(N, 1, l) \in Seq(Byte) /\ Len(Bytes(N, 1, l)) = l - 1 + 1
        /\ \A i \in 1 .. l - 1 + 1 : Bytes(N, 1, l)[i] = <<N, 1 + i - 1>>
    BY <2>1, BytesFacts, ZenonT(60)
  <2>3. l - 1 + 1 = l /\ \A i \in 1 .. l : 1 + i - 1 = i
    OBVIOUS
  <2> QED
    BY <2>2, <2>3
<1>b. PICK b \in Seq(Byte) : b = Bytes(N, 1, l)
  BY <1>5
<1>6. wire' = wire \o b
  BY <1>1, <1>2, <1>b, <1>k, <1>l
<1>7. /\ wire' \in Seq(Byte) /\ Len(wire') = w + l
      /\ \A i \in 1 .. w + l : wire'[i] = IF i <= w THEN wire[i] ELSE b[i - w]
  <2>1. /\ wire \o b \in Seq(Byte)
        /\ Len(wire \o b) = Len(wire) + Len(b)
        /\ \A i \in 1 .. Len(wire) + Len(b) :
             (wire \o b)[i] = IF i <= Len(wire) THEN wire[i] ELSE b[i - Len(wire)]
    BY <1>t, ConcatProperties
  <2>2. Len(b) = l
    BY <1>5, <1>b
  <2> QED
    BY <1>6, <1>w, <2>1, <2>2
<1>8. \A i \in w + 1 .. w + l : wire'[i] = <<N, i - w>>
  <2> SUFFICES ASSUME NEW i \in w + 1 .. w + l PROVE wire'[i] = <<N, i - w>>
    OBVIOUS
  <2>1. i \in 1 .. w + l /\ ~(i <= w) /\ i - w \in 1 .. l
    OBVIOUS
  <2>2. wire'[i] = b[i - w]
    BY <1>7, <2>1
  <2> QED
    BY <1>5, <1>b, <2>1, <2>2
<1>9. \A i \in 1 .. w : wire'[i] = wire[i]
  <2> SUFFICES ASSUME NEW i \in 1 .. w PROVE wire'[i] = wire[i]
    OBVIOUS
  <2>1. i \in 1 .. w + l /\ i <= w
    BY <1>4
  <2> QED
    BY <1>7, <2>1
<1>10. Full(N)' = l /\ \A i \in 1 .. Len(sent) : Full(i)' = Full(i)
  BY <1>2, <1>k, <1>l DEF Full
<1>11. sent' \in Seq(Packets) /\ Len(sent') = N
  BY <1>2, <1>k
<1>12. /\ N = Len(sent) + 1 /\ w = Len(wire) /\ l >= 1
       /\ sent' \in Seq(Packets) /\ Len(sent') = N
       /\ \A i \in 1 .. Len(sent) : sent'[i] = sent[i] /\ Full(i)' = Full(i)
       /\ Full(N)' = l
       /\ wire' \in Seq(Byte) /\ Len(wire') = w + l
       /\ \A i \in 1 .. w : wire'[i] = wire[i]
       /\ \A i \in w + 1 .. w + l : wire'[i] = <<N, i - w>>
  BY <1>2, <1>4, <1>7, <1>8, <1>9, <1>10, <1>11, <1>k, <1>w
<1> QED
  BY <1>12, ZenonT(60)

\* A packet goes on the wire behind the others.
LEMMA SendKeeps == ASSUME NEW p \in Packets PROVE VInv /\ Send(p) => VInv'
<1> SUFFICES ASSUME VInv, Send(p) PROVE VInv'
  OBVIOUS
<1>1. /\ UNCHANGED <<conn, place, rdc, hbuf, h, strdata, leftover, handled, readkill>>
      /\ conn = "up"
  BY DEF Send, bufVars
<1>f. PICK N, w, l \in Nat :
        /\ N = Len(sent) + 1 /\ w = Len(wire) /\ l >= 1
        /\ sent' \in Seq(Packets) /\ Len(sent') = N
        /\ \A i \in 1 .. Len(sent) : sent'[i] = sent[i] /\ Full(i)' = Full(i)
        /\ Full(N)' = l
        /\ wire' \in Seq(Byte) /\ Len(wire') = w + l
        /\ \A i \in 1 .. w : wire'[i] = wire[i]
        /\ \A i \in w + 1 .. w + l : wire'[i] = <<N, i - w>>
  BY SendFacts
<1>k. N = Len(sent) + 1
  BY <1>f
<1>w. w = Len(wire)
  BY <1>f
<1>2. /\ l >= 1
      /\ sent' \in Seq(Packets) /\ Len(sent') = N
      /\ \A i \in 1 .. Len(sent) : sent'[i] = sent[i] /\ Full(i)' = Full(i)
      /\ Full(N)' = l
      /\ wire' \in Seq(Byte) /\ Len(wire') = w + l
      /\ \A i \in 1 .. w : wire'[i] = wire[i]
      /\ \A i \in w + 1 .. w + l : wire'[i] = <<N, i - w>>
  BY <1>f
<1>3. \A i \in 1 .. w + l : i \in 1 .. w \/ i \in w + 1 .. w + l
  OBVIOUS
<1>4. ASSUME NEW i \in 1 .. w
      PROVE  /\ wire'[i] = wire[i] /\ wire[i][1] \in 1 .. Len(sent) /\ wire[i][2] \in Nat \ {0}
             /\ Full(wire[i][1])' = Full(wire[i][1]) /\ Full(wire[i][1]) \in Nat
             /\ wire[i][2] <= Full(wire[i][1])
             /\ Full(wire[i][1]) - wire[i][2] <= w - i
  <2>1. i \in 1 .. Len(wire)
    BY <1>w
  <2>2. /\ wire[i][1] \in 1 .. Len(sent)
        /\ wire[i][2] \in Nat \ {0} /\ wire[i][2] <= Full(wire[i][1])
        /\ Full(wire[i][1]) \in Nat
    BY <2>1, WireFacts DEF VInv, InBuffers
  <2>3. Full(wire[i][1]) - wire[i][2] <= w - i
    BY <1>1, <1>w, <2>1 DEF VInv, Complete
  <2>4. Full(wire[i][1])' = Full(wire[i][1])
    <3>1. \A m \in 1 .. Len(sent) : sent'[m] = sent[m]
      BY <1>2
    <3>2. wire'[i] = wire[i]
      BY <1>2
    <3> QED
      BY <2>2, <3>1, <3>2 DEF Full
  <2> QED
    BY <1>2, <2>2, <2>3, <2>4
<1>5. ASSUME NEW i \in w + 1 .. w + l
      PROVE  /\ wire'[i][1] = N /\ wire'[i][2] = i - w
             /\ Full(wire[i][1])' = l
  <2>1. wire'[i][1] = N /\ wire'[i][2] = i - w
    BY <1>2
  <2> QED
    BY <1>2, <2>1 DEF Full
<1>6. Stretch'
  <2>1. ASSUME NEW i \in 1 .. w + l
        PROVE  wire'[i][1] \in 1 .. Len(sent') /\ wire'[i][2] \in 1 .. Full(wire[i][1])'
    <3>1. CASE i \in 1 .. w
      <4>1. wire[i][1] \in 1 .. Len(sent') /\ wire[i][2] \in 1 .. Full(wire[i][1])
        <5>1. /\ wire[i][1] \in 1 .. Len(sent) /\ wire[i][2] \in Nat \ {0}
              /\ Full(wire[i][1]) \in Nat /\ wire[i][2] <= Full(wire[i][1])
          BY <1>4, <3>1
        <5>2. Len(sent) \in Nat /\ Len(sent') = Len(sent) + 1
          BY <1>2, <1>k, Typed
        <5> QED
          BY <5>1, <5>2
      <4> QED
        BY <1>4, <3>1, <4>1
    <3>2. CASE i \in w + 1 .. w + l
      <4>1. N \in 1 .. N /\ i - w \in 1 .. l
        BY <1>k, <3>2, Typed
      <4> QED
        BY <1>2, <1>5, <3>2, <4>1
    <3> QED
      BY <1>3, <3>1, <3>2
  <2>2. ASSUME NEW i \in 1 .. w + l, NEW j \in 1 .. w + l,
               i <= j, wire'[i][2] + (j - i) <= Full(wire[i][1])'
        PROVE  wire'[j] = <<wire'[i][1], wire'[i][2] + (j - i)>>
    <3>1. CASE i \in 1 .. w
      <4>1. wire[i][2] + (j - i) <= Full(wire[i][1])
        BY <1>4, <2>2, <3>1
      <4>2. j \in 1 .. w
        BY <1>4, <2>2, <3>1, <4>1
      <4>3. wire[j] = <<wire[i][1], wire[i][2] + (j - i)>>
        BY <1>w, <2>2, <3>1, <4>1, <4>2 DEF VInv, Stretch
      <4> QED
        BY <1>2, <3>1, <4>2, <4>3
    <3>2. CASE i \in w + 1 .. w + l
      <4>1. j \in w + 1 .. w + l /\ (i - w) + (j - i) = j - w
        BY <2>2, <3>2
      <4>2. wire'[j] = <<N, j - w>>
        BY <1>2, <4>1
      <4> QED
        BY <1>5, <3>2, <4>1, <4>2
    <3> QED
      BY <1>3, <3>1, <3>2
  <2>3. ASSUME NEW i \in 1 .. w + l - 1, wire'[i][2] = Full(wire[i][1])'
        PROVE  wire'[i + 1] = <<wire'[i][1] + 1, 1>>
    <3>0. i \in 1 .. w + l
      OBVIOUS
    <3>1. CASE i \in 1 .. w - 1
      <4>1. i \in 1 .. w /\ i + 1 \in 1 .. w /\ i \in 1 .. Len(wire) - 1
        BY <1>w, <3>1
      <4>2. wire[i][2] = Full(wire[i][1])
        BY <1>4, <2>3, <4>1
      <4>3. wire[i + 1] = <<wire[i][1] + 1, 1>>
        BY <4>1, <4>2 DEF VInv, Stretch
      <4> QED
        BY <1>2, <4>1, <4>3
    <3>2. CASE i = w /\ w > 0
      <4>1. i \in 1 .. w /\ i + 1 \in w + 1 .. w + l /\ (i + 1) - w = 1
        BY <1>2, <3>2
      <4>2. wire # <<>> /\ wire[Len(wire)][1] = Len(sent)
        <5>1. wire # <<>>
          BY <1>w, <3>2
        <5> QED
          BY <1>1, <5>1 DEF VInv, Complete
      <4>3. wire'[i][1] = Len(sent)
        BY <1>2, <1>w, <3>2, <4>1, <4>2
      <4>4. wire'[i + 1] = <<N, 1>>
        BY <1>2, <4>1
      <4> QED
        BY <1>k, <4>3, <4>4
    <3>3. CASE i \in w + 1 .. w + l
      BY <1>5, <2>3, <3>3
    <3>4. i \in 1 .. w - 1 \/ (i = w /\ w > 0) \/ i \in w + 1 .. w + l
      BY <3>0
    <3> QED
      BY <3>1, <3>2, <3>3, <3>4
  <2> QED
    BY <1>2, <2>1, <2>2, <2>3 DEF Stretch
<1>7. Complete'
  <2>1. ASSUME NEW i \in 1 .. w + l
        PROVE  Full(wire[i][1])' - wire'[i][2] <= w + l - i
    <3>1. CASE i \in 1 .. w
      <4>1. /\ wire'[i] = wire[i] /\ Full(wire[i][1])' = Full(wire[i][1])
            /\ Full(wire[i][1]) \in Nat /\ wire[i][2] \in Nat
            /\ Full(wire[i][1]) - wire[i][2] <= w - i
        BY <1>4, <3>1
      <4>2. Full(wire[i][1]) - wire[i][2] <= w + l - i
        BY <4>1
      <4> QED
        BY <4>1, <4>2
    <3>2. CASE i \in w + 1 .. w + l
      BY <1>5, <3>2
    <3> QED
      BY <1>3, <3>1, <3>2
  <2>2. wire'[w + l][1] = N
    <3>1. w + l \in w + 1 .. w + l
      BY <1>2
    <3> QED
      BY <1>5, <3>1
  <2> QED
    BY <1>2, <2>1, <2>2 DEF Complete
<1>8. Current' = Current /\ HasRead' = HasRead
  BY <1>1 DEF Current, HasRead
<1>9. ReadUpTo(Current, HasRead)'
  <2>k. PICK k, q : k \in Nat \ {0} /\ k = Current /\ q = HasRead
    BY Typed
  <2>n. k \in Nat \ {0}
    BY <2>k
  <2>1. ReadUpTo(k, q)
    BY <2>k DEF VInv
  <2>2. wire' # <<>>
    BY <1>2
  <2>3. CASE wire # <<>>
    <3>1. 1 \in 1 .. w
      BY <1>w, <2>3, Typed
    <3>2. k <= Len(sent) /\ wire'[1] = IF q < Full(k) THEN <<k, q + 1>> ELSE <<k + 1, 1>>
      BY <1>2, <2>1, <2>3, <3>1 DEF ReadUpTo
    <3>3. k \in 1 .. Len(sent) /\ k <= Len(sent')
      BY <1>2, <1>k, <2>n, <3>2, Typed
    <3>4. Full(k)' = Full(k)
      BY <1>2, <3>3
    <3> QED
      BY <1>1, <1>8, <2>2, <2>k, <3>2, <3>3, <3>4 DEF ReadUpTo, Full
  <2>4. CASE wire = <<>>
    <3>1. w = 0 /\ 1 \in w + 1 .. w + l /\ 1 - w = 1
      BY <1>2, <1>w, <2>4
    <3>2. wire'[1] = <<N, 1>>
      BY <1>2, <3>1
    <3>3. (k = N /\ q = 0) \/ (k = Len(sent) /\ q = Full(k))
      BY <1>1, <1>k, <2>1, <2>4 DEF ReadUpTo
    <3>4. CASE k = N /\ q = 0
      <4>1. k <= Len(sent') /\ q < Full(k)' /\ q + 1 = 1
        BY <1>2, <2>n, <3>4
      <4> QED
        BY <1>1, <1>8, <2>2, <2>k, <3>2, <3>4, <4>1 DEF ReadUpTo, Full
    <3>5. CASE k = Len(sent) /\ q = Full(k)
      <4>1. k \in 1 .. Len(sent)
        BY <2>n, <3>5, Typed
      <4>2. Full(k)' = Full(k) /\ Full(k) \in Nat
        BY <1>2, <4>1, FullFacts DEF VInv, InBuffers
      <4>3. k <= Len(sent') /\ ~(q < Full(k)') /\ k + 1 = N
        BY <1>2, <1>k, <2>n, <3>5, <4>2
      <4> QED
        BY <1>1, <1>8, <2>2, <2>k, <3>2, <4>3 DEF ReadUpTo, Full
    <3> QED
      BY <3>3, <3>4, <3>5
  <2> QED
    BY <2>3, <2>4
<1>10. HandledTyped' /\ HandledWhole'
  <2>1. DOMAIN sent = 1 .. Len(sent) /\ DOMAIN sent' = 1 .. N /\ 1 .. Len(sent) \subseteq 1 .. N
    <3>1. DOMAIN sent = 1 .. Len(sent) /\ DOMAIN sent' = 1 .. N
      BY <1>2, Typed
    <3> QED
      BY <1>k, <3>1, Typed
  <2>2. \A i \in DOMAIN sent : i \in DOMAIN sent' /\ sent'[i] = sent[i]
    BY <1>2, <2>1
  <2> QED
    BY <1>1, <2>2 DEF VInv, HandledTyped, HandledWhole
<1>11. InBuffers'
  <2>1. rdc >= 0
    BY <1>1 DEF VInv, InBuffers
  <2>2. TypeOK'
    BY <1>1, <1>2 DEF VInv, InBuffers, TypeOK, Byte
  <2> QED
    BY <1>1, <2>1, <2>2 DEF VInv, InBuffers
<1>12. Placed'
  <2>1. ~Lost
    BY <1>1 DEF Lost
  <2>2. Current <= Len(sent) => Current <= Len(sent') /\ sent'[Current] = sent[Current]
    <3> SUFFICES ASSUME Current <= Len(sent)
                 PROVE  Current <= Len(sent') /\ sent'[Current] = sent[Current]
      OBVIOUS
    <3>1. Current \in 1 .. Len(sent)
      BY Typed
    <3> QED
      BY <1>2, <1>k, <3>1, Typed
  <2>3. InPacket => InPacket'
    BY <1>1, <1>8, <2>2 DEF InPacket
  <2>4. CASE place = "header"
    <3>1. AtHeader'
      BY <1>1, <1>8, <2>1, <2>2, <2>4 DEF VInv, Placed, AtHeader
    <3> QED
      BY <1>1, <2>4, <3>1 DEF Placed
  <2>5. CASE place = "data"
    <3>1. AtData'
      BY <1>1, <2>1, <2>3, <2>5 DEF VInv, Placed, AtData, Fits
    <3> QED
      BY <1>1, <2>5, <3>1 DEF Placed
  <2>6. CASE place = "dust"
    <3>1. AtDust'
      BY <1>1, <2>1, <2>3, <2>6 DEF VInv, Placed, AtDust, Fits
    <3> QED
      BY <1>1, <2>6, <3>1 DEF Placed
  <2>7. CASE place \in {"top", "ended"}
    BY <1>1, <2>7 DEF VInv, Placed
  <2>8. place \in {"top", "header", "data", "dust", "ended"}
    BY DEF VInv, InBuffers, TypeOK
  <2> QED
    BY <2>4, <2>5, <2>6, <2>7, <2>8
<1> QED
  BY <1>6, <1>7, <1>9, <1>10, <1>11, <1>12 DEF VInv

(***************************************************************************)
(* The theorems                                                            *)
(***************************************************************************)

\* Every step of the instrument, the network, the other threads or the reader
\* keeps the invariant.
LEMMA VStep == VInv /\ [Next]_vars => VInv'
<1> SUFFICES ASSUME VInv, [Next]_vars PROVE VInv'
  OBVIOUS
<1>1. CASE \E p \in Packets : Send(p)
  BY <1>1, SendKeeps
<1>2. CASE Lose
  BY <1>2, LoseKeeps
<1>3. CASE Kill
  BY <1>3, KillKeeps
<1>4. CASE ReaderStep
  BY <1>4, TopKeeps, HeaderKeeps, LengthKeeps, DataKeeps, DataEndKeeps, DustKeeps,
     DispatchKeeps, FailsKeeps DEF ReaderStep
<1>5. CASE UNCHANGED vars
  <2>1. UNCHANGED <<sent, wire, conn, place, rdc, hbuf, h, strdata, leftover, handled, readkill>>
    BY <1>5 DEF vars, wireVars, bufVars
  <2>2. HandledTyped' /\ HandledWhole' /\ Current' = Current
    BY <2>1, HandledKept
  <2>3. HasRead' = HasRead
    BY <2>1 DEF HasRead
  <2>4. Stretch' /\ Complete' /\ ReadUpTo(Current, HasRead)'
    BY <2>1, <2>3, StreamKept
  <2>5. InBuffers'
    BY <2>1 DEF VInv, InBuffers, TypeOK
  <2>6. Placed'
    BY <2>1, <2>2 DEF VInv, Placed, AtHeader, AtData, AtDust, InPacket, Lost, Fits
  <2> QED
    BY <2>2, <2>4, <2>5, <2>6 DEF VInv
<1> QED
  BY <1>1, <1>2, <1>3, <1>4, <1>5 DEF Next

\* The reader is always at the place of the stream its variables say.
THEOREM ReaderInvariant == Spec => []VInv
BY VInit, VStep, PTL DEF Spec

\* scp_read: whatever the lengths of the packets and however the stream is
\* cut, read() never writes in front of or behind h and strdata, not even
\* after its own failure has made the count wrong.
THEOREM BuffersKept == Spec => []InBuffers
<1>1. VInv => InBuffers
  BY DEF VInv
<1> QED
  BY <1>1, ReaderInvariant, PTL

\* scp_read: every packet is handled with its own length, flag and bytes, and
\* none of which the connection kept something back.
THEOREM PacketsWhole == Spec => []HandledWhole
<1>1. VInv => HandledWhole
  BY DEF VInv
<1> QED
  BY <1>1, ReaderInvariant, PTL

\* What the handlers have been given, without the bytes.
Given == [i \in DOMAIN handled |-> [len |-> handled[i].len, flag |-> handled[i].flag]]

GivenAsSent ==
  /\ Given \in Seq(Packets) /\ Len(Given) = Len(handled)
  /\ \A i \in 1 .. Len(handled) : Given[i] = sent[i]

\* The packets given are the first ones that were sent.
LEMMA GivenFacts == VInv => GivenAsSent
<1> SUFFICES ASSUME VInv PROVE GivenAsSent
  OBVIOUS
<1>1. Len(handled) \in Nat /\ DOMAIN handled = 1 .. Len(handled) /\ sent \in Seq(Packets)
  BY Typed
<1>2. ASSUME NEW i \in 1 .. Len(handled)
      PROVE  [len |-> handled[i].len, flag |-> handled[i].flag] = sent[i] /\ sent[i] \in Packets
  <2>1. /\ i \in DOMAIN sent
        /\ handled[i].len = sent[i].len /\ handled[i].flag = sent[i].flag
    BY <1>1 DEF VInv, HandledWhole
  <2>2. sent[i] \in Packets
    BY <1>1, <2>1
  <2>3. sent[i] = [len |-> sent[i].len, flag |-> sent[i].flag]
    BY <2>2 DEF Packets
  <2> QED
    BY <2>1, <2>2, <2>3
<1> DEFINE e(i) == [len |-> handled[i].len, flag |-> handled[i].flag]
<1>3. \A i \in 1 .. Len(handled) : e(i) \in Packets /\ e(i) = sent[i]
  BY <1>2
<1> HIDE DEF e
<1>4. [i \in 1 .. Len(handled) |-> e(i)] \in Seq(Packets)
  BY <1>1, <1>3, IsASeq
<1>5. Given = [i \in 1 .. Len(handled) |-> e(i)]
  BY <1>1 DEF Given, e
<1>6. Len(Given) = Len(handled)
  BY <1>1, <1>4, <1>5
<1> QED
  BY <1>3, <1>4, <1>5, <1>6 DEF GivenAsSent

\* A packet given to a handler is the next one of the channel.
LEMMA DispatchGives == VInv /\ VInv' /\ RDispatch => Channel!Give
<1> SUFFICES ASSUME VInv, VInv', RDispatch PROVE Channel!Give
  OBVIOUS
<1>1. UNCHANGED <<sent, conn, readkill>>
  BY DEF RDispatch, wireVars
<1>2. /\ Len(handled) \in Nat /\ Len(handled') = Len(handled) + 1
      /\ Len(handled) + 1 \in 1 .. Len(sent) /\ sent \in Seq(Packets)
  BY DispatchFacts, Typed DEF Current
<1>3. /\ Given \in Seq(Packets) /\ Len(Given) = Len(handled)
      /\ \A i \in 1 .. Len(handled) : Given[i] = sent[i]
  BY GivenFacts DEF GivenAsSent
<1>4. /\ Given' \in Seq(Packets) /\ Len(Given') = Len(handled')
      /\ \A i \in 1 .. Len(handled') : Given'[i] = sent'[i]
  <2>1. GivenAsSent'
    BY GivenFacts, PTL
  <2> QED
    BY <2>1 DEF GivenAsSent
<1>k. PICK k \in Nat : k = Len(handled)
  BY <1>2
<1>5. sent[k + 1] \in Packets
  BY <1>2, <1>k
<1>6. /\ Append(Given, sent[k + 1]) \in Seq(Packets)
      /\ Len(Append(Given, sent[k + 1])) = k + 1
      /\ \A i \in 1 .. k : Append(Given, sent[k + 1])[i] = Given[i]
      /\ Append(Given, sent[k + 1])[k + 1] = sent[k + 1]
  BY <1>3, <1>5, <1>k, AppendProperties
<1>7. Len(Given') = k + 1 /\ \A i \in 1 .. k + 1 : Given'[i] = sent[i]
  BY <1>1, <1>2, <1>4, <1>k
<1>8. \A i \in 1 .. k + 1 : Append(Given, sent[k + 1])[i] = sent[i]
  BY <1>3, <1>6, <1>k
<1>9. Given' = Append(Given, sent[k + 1])
  BY <1>4, <1>6, <1>7, <1>8, SeqEqual
<1>10. Len(Given) < Len(sent)
  BY <1>2, <1>3
<1> QED
  BY <1>1, <1>3, <1>9, <1>10, <1>k DEF Channel!Give, Given

\* The initial states of the reader are those of the channel.
LEMMA ChannelInit == Init => Channel!Init
<1> SUFFICES ASSUME Init PROVE Channel!Init
  OBVIOUS
<1>1. sent = <<>> /\ handled = <<>> /\ conn = "up" /\ readkill = FALSE
  BY DEF Init
<1>2. Given = <<>>
  BY <1>1 DEF Given
<1> QED
  BY <1>1, <1>2 DEF Channel!Init, Given

\* A step of the reader or of what is around it is a step of the channel or
\* none.
LEMMA ChannelStep == VInv /\ VInv' /\ [Next]_vars => [Channel!Next]_(Channel!chan)
<1> SUFFICES ASSUME VInv, VInv', [Next]_vars PROVE [Channel!Next]_(Channel!chan)
  OBVIOUS
<1>1. ASSUME UNCHANGED <<sent, handled>>, (conn = "up" /\ ~readkill)' = (conn = "up" /\ ~readkill)
      PROVE  UNCHANGED Channel!chan
  BY <1>1 DEF Channel!chan
<1>2. ASSUME UNCHANGED <<sent, handled>>, conn = "up" /\ ~readkill, ~(conn' = "up" /\ ~readkill')
      PROVE  Channel!Next
  BY <1>2, Zenon DEF Channel!Next, Channel!Close
<1>3. CASE \E p \in Packets : Send(p)
  <2>p. PICK p \in Packets : Send(p)
    BY <1>3
  <2>1. sent' = Append(sent, p) /\ UNCHANGED <<handled, conn, readkill>>
    BY <2>p DEF Send
  <2>2. Channel!Send(p)
    BY <2>1 DEF Channel!Send
  <2> QED
    BY <2>2 DEF Channel!Next
<1>4. CASE Lose
  <2>1. UNCHANGED <<sent, handled, readkill>> /\ conn = "up" /\ conn' # "up"
    BY <1>4 DEF Lose
  <2> QED
    BY <1>1, <1>2, <2>1, Zenon
<1>5. CASE Kill
  <2>1. UNCHANGED <<sent, handled, conn>> /\ ~readkill /\ readkill' = TRUE
    BY <1>5 DEF Kill, wireVars
  <2> QED
    BY <1>1, <1>2, <2>1, Zenon
<1>6. CASE RDispatch
  BY <1>6, DispatchGives DEF Channel!Next
<1>7. CASE RFails
  <2>1. UNCHANGED <<sent, handled, readkill>> /\ conn # "up" /\ conn' # "up"
    BY <1>7 DEF RFails
  <2> QED
    BY <1>1, <2>1
<1>8. CASE RTop \/ RHeader \/ RLength \/ RData \/ RDataEnd \/ RDust
  <2>1. UNCHANGED <<sent, handled, conn, readkill>>
    BY <1>8 DEF RTop, RHeader, RLength, RData, RDataEnd, RDust, wireVars
  <2> QED
    BY <1>1, <2>1
<1>9. CASE UNCHANGED vars
  <2>1. UNCHANGED <<sent, handled, conn, readkill>>
    BY <1>9 DEF vars, wireVars
  <2> QED
    BY <1>1, <2>1
<1> QED
  BY <1>3, <1>4, <1>5, <1>6, <1>7, <1>8, <1>9 DEF Next, ReaderStep

\* The reader with its buffers does what PacketChannel allows, step by step:
\* the handlers are given the packets that were sent, each once and in order.
THEOREM ChannelImplemented == Spec => Channel!Init /\ [][Channel!Next]_(Channel!chan)
BY ChannelInit, ChannelStep, ReaderInvariant, PTL DEF Spec

================================================================================
