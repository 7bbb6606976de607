------------------------------- MODULE PrfProofs -------------------------------
(***************************************************************************)
(* Proofs about Prf: for any file, any text typed, any length of the       *)
(* table, any number of saves and restarts.                                *)
(***************************************************************************)
EXTENDS Prf, SequenceTheorems, TLAPS

Strings == Seq(Chars)

Pairs == [lineno : Nat, key : Strings, val : Strings]

Comments == [lineno : Nat, data : Strings]

Tables == [prfs : Seq(Pairs), cmts : Seq(Comments), linec : Nat]

\* A table is sound if its lines are numbered below its line count and it
\* keeps a place for a comment because one is taken by a pair: prf_read tests
\* the sum of both before it adds a comment, and adds it after.
Sound(p) ==
  /\ p \in Tables
  /\ \A j \in DOMAIN p.prfs : p.prfs[j].lineno < p.linec
  /\ \A j \in DOMAIN p.cmts : p.cmts[j].lineno < p.linec
  /\ Len(p.prfs) \in 1 .. MaxLen
  /\ Entries(p) <= MaxLen + 1

\* What the state machine works on.
Texts ==
  /\ body \in Strings /\ key \in Strings /\ val \in Strings /\ cmt \in Strings
  /\ i \in 1 .. Len(body) + 1
  /\ state \in States
  /\ cmtset \in BOOLEAN

\* No line before position n begins with #.
NoComment(n) == \A j \in 1 .. n - 1 : LineStart(j) => body[j] # "hash"

\* The state machine is within a line, or looks at something else than #.
Midway == (i > 1 /\ body[i - 1] # "nl") \/ body[i] # "hash"

\* As long as cmt_i has no value, no comment line was read.
Unset ==
  ~cmtset => /\ NoComment(i)
             /\ state \notin {"LINE", "COMMENT"} => Midway

\* What prf_write works on.
Writer ==
  /\ Sound(saved) /\ out \in Strings
  /\ prf_i \in 1 .. Len(saved.prfs) + 1 /\ cmt_i \in 1 .. Len(saved.cmts) + 1

Phases ==
  /\ phase \in {"read", "ready", "edited", "write", "written", "wild"}
  /\ phase = "write" => saved = prf
  /\ phase = "wild" => ~cmtset

\* The inductive invariant.
IInv == Sound(prf) /\ Texts /\ Unset /\ Writer /\ Phases

(***************************************************************************)
(* The table                                                               *)
(***************************************************************************)

\* What a sound table is made of.
LEMMA SoundFacts ==
  ASSUME NEW p, Sound(p)
  PROVE  /\ p = [prfs |-> p.prfs, cmts |-> p.cmts, linec |-> p.linec]
         /\ p.prfs \in Seq(Pairs) /\ p.cmts \in Seq(Comments) /\ p.linec \in Nat
         /\ Len(p.prfs) \in Nat /\ Len(p.cmts) \in Nat
         /\ Entries(p) = Len(p.prfs) + Len(p.cmts)
BY DEF Sound, Tables, Entries

\* A table from its parts.
LEMMA TableSound ==
  ASSUME NEW prfs \in Seq(Pairs), NEW cmts \in Seq(Comments), NEW linec \in Nat,
         \A j \in DOMAIN prfs : prfs[j].lineno < linec,
         \A j \in DOMAIN cmts : cmts[j].lineno < linec,
         Len(prfs) \in 1 .. MaxLen, Len(prfs) + Len(cmts) <= MaxLen + 1
  PROVE  Sound([prfs |-> prfs, cmts |-> cmts, linec |-> linec])
<1>1. PICK p : p = [prfs |-> prfs, cmts |-> cmts, linec |-> linec]
  OBVIOUS
<1>2. p.prfs = prfs /\ p.cmts = cmts /\ p.linec = linec /\ p \in Tables
  BY <1>1 DEF Tables
<1> QED
  BY <1>1, <1>2 DEF Sound, Entries

\* A sequence with one more element at its end.
LEMMA AppendFacts ==
  ASSUME NEW S, NEW q \in Seq(S), NEW e \in S
  PROVE  /\ Append(q, e) \in Seq(S) /\ Len(Append(q, e)) = Len(q) + 1
         /\ DOMAIN Append(q, e) = 1 .. Len(q) + 1 /\ DOMAIN q = 1 .. Len(q)
         /\ \A j \in 1 .. Len(q) : Append(q, e)[j] = q[j]
         /\ Append(q, e)[Len(q) + 1] = e
OBVIOUS

\* The lines of a table have numbers.
LEMMA Numbered ==
  ASSUME NEW prfs \in Seq(Pairs), NEW cmts \in Seq(Comments)
  PROVE  /\ \A j \in DOMAIN prfs : prfs[j] \in Pairs /\ prfs[j].lineno \in Nat
         /\ \A j \in DOMAIN cmts : cmts[j] \in Comments /\ cmts[j].lineno \in Nat
<1>1. ASSUME NEW e \in Pairs PROVE e.lineno \in Nat
  BY DEF Pairs
<1>2. ASSUME NEW e \in Comments PROVE e.lineno \in Nat
  BY DEF Comments
<1>3. \A j \in DOMAIN prfs : prfs[j] \in Pairs
  OBVIOUS
<1>4. \A j \in DOMAIN cmts : cmts[j] \in Comments
  OBVIOUS
<1> QED
  BY <1>1, <1>2, <1>3, <1>4

\* prf_read adds a comment only if the table has room for one.
LEMMA CommentSound ==
  ASSUME NEW p, Sound(p), Entries(p) <= MaxLen, NEW text \in Strings
  PROVE  Sound(AddComment(p, text))
<1>1. PICK prfs, cmts, n : prfs = p.prfs /\ cmts = p.cmts /\ n = p.linec
  OBVIOUS
<1>2. /\ prfs \in Seq(Pairs) /\ cmts \in Seq(Comments) /\ n \in Nat
      /\ Len(prfs) \in 1 .. MaxLen /\ Len(prfs) + Len(cmts) <= MaxLen
      /\ \A j \in DOMAIN prfs : prfs[j].lineno < n
      /\ \A j \in DOMAIN cmts : cmts[j].lineno < n
  BY <1>1, SoundFacts DEF Sound
<1>3. \A j \in DOMAIN prfs : prfs[j].lineno \in Nat
  BY <1>2, Numbered
<1>4. \A j \in DOMAIN cmts : cmts[j].lineno \in Nat
  BY <1>2, Numbered
<1>5. PICK e : e = [lineno |-> n, data |-> text]
  OBVIOUS
<1>6. e \in Comments /\ e.lineno = n
  BY <1>2, <1>5 DEF Comments
<1>7. PICK more : more = Append(cmts, e)
  OBVIOUS
<1>8. /\ more \in Seq(Comments) /\ Len(more) = Len(cmts) + 1
      /\ \A j \in DOMAIN more : (j \in DOMAIN cmts /\ more[j] = cmts[j]) \/ more[j] = e
  BY <1>2, <1>6, <1>7, AppendFacts
<1>9. \A j \in DOMAIN more : more[j].lineno < n + 1
  BY <1>2, <1>4, <1>6, <1>8
<1>10. \A j \in DOMAIN prfs : prfs[j].lineno < n + 1
  BY <1>2, <1>3
<1>11. Len(prfs) + Len(more) <= MaxLen + 1 /\ n + 1 \in Nat
  BY <1>2, <1>8, PrfAssumption
<1>12. Sound([prfs |-> prfs, cmts |-> more, linec |-> n + 1])
  BY <1>2, <1>8, <1>9, <1>10, <1>11, TableSound
<1>13. p = [prfs |-> prfs, cmts |-> cmts, linec |-> n]
  BY <1>1, SoundFacts
<1>14. AddComment(p, text) = [prfs |-> prfs, cmts |-> more, linec |-> n + 1]
  <2>1. AddComment(p, text) = [p EXCEPT !.cmts = Append(@, e), !.linec = @ + 1]
    BY <1>1, <1>5 DEF AddComment
  <2> QED
    BY <1>7, <1>13, <2>1
<1> QED
  BY <1>12, <1>14

\* An empty line, or one without a value, is only counted.
LEMMA CountSound ==
  ASSUME NEW p, Sound(p)
  PROVE  Sound([p EXCEPT !.linec = @ + 1])
<1>1. PICK prfs, cmts, n : prfs = p.prfs /\ cmts = p.cmts /\ n = p.linec
  OBVIOUS
<1>2. /\ prfs \in Seq(Pairs) /\ cmts \in Seq(Comments) /\ n \in Nat
      /\ Len(prfs) \in 1 .. MaxLen /\ Len(prfs) + Len(cmts) <= MaxLen + 1
      /\ \A j \in DOMAIN prfs : prfs[j].lineno < n
      /\ \A j \in DOMAIN cmts : cmts[j].lineno < n
  BY <1>1, SoundFacts DEF Sound
<1>3. \A j \in DOMAIN prfs : prfs[j].lineno \in Nat
  BY <1>2, Numbered
<1>4. \A j \in DOMAIN cmts : cmts[j].lineno \in Nat
  BY <1>2, Numbered
<1>5. \A j \in DOMAIN prfs : prfs[j].lineno < n + 1
  BY <1>2, <1>3
<1>6. \A j \in DOMAIN cmts : cmts[j].lineno < n + 1
  BY <1>2, <1>4
<1>7. Sound([prfs |-> prfs, cmts |-> cmts, linec |-> n + 1])
  BY <1>2, <1>5, <1>6, TableSound
<1>8. p = [prfs |-> prfs, cmts |-> cmts, linec |-> n]
  BY <1>1, SoundFacts
<1>9. [p EXCEPT !.linec = @ + 1] = [prfs |-> prfs, cmts |-> cmts, linec |-> n + 1]
  BY <1>8
<1> QED
  BY <1>7, <1>9

\* prf_set replaces a value, or adds a pair if there is room left for a
\* comment besides, or does nothing.
LEMMA SetSound ==
  ASSUME NEW p, Sound(p), NEW k \in Strings, NEW v \in Strings
  PROVE  Sound(Set(p, k, v))
<1>1. PICK prfs, cmts, n : prfs = p.prfs /\ cmts = p.cmts /\ n = p.linec
  OBVIOUS
<1>2. /\ prfs \in Seq(Pairs) /\ cmts \in Seq(Comments) /\ n \in Nat
      /\ Len(prfs) \in 1 .. MaxLen /\ Len(prfs) + Len(cmts) <= MaxLen + 1
      /\ \A j \in DOMAIN prfs : prfs[j].lineno < n
      /\ \A j \in DOMAIN cmts : cmts[j].lineno < n
  BY <1>1, SoundFacts DEF Sound
<1>3. \A j \in DOMAIN prfs : prfs[j] \in Pairs /\ prfs[j].lineno \in Nat
  BY <1>2, Numbered
<1>4. \A j \in DOMAIN cmts : cmts[j].lineno \in Nat
  BY <1>2, Numbered
<1>5. p = [prfs |-> prfs, cmts |-> cmts, linec |-> n]
  BY <1>1, SoundFacts
<1>6. CASE Has(p, k)
  <2>1. PICK other : other = [j \in DOMAIN prfs |->
                       IF prfs[j].key = k THEN [prfs[j] EXCEPT !.val = v] ELSE prfs[j]]
    OBVIOUS
  <2>2. ASSUME NEW j \in DOMAIN prfs
        PROVE  other[j] \in Pairs /\ other[j].lineno = prfs[j].lineno
    <3>1. PICK e : e = prfs[j]
      OBVIOUS
    <3>2. e \in Pairs /\ other[j] = IF e.key = k THEN [e EXCEPT !.val = v] ELSE e
      BY <1>3, <2>1, <3>1
    <3>3. [e EXCEPT !.val = v] \in Pairs /\ [e EXCEPT !.val = v].lineno = e.lineno
      BY <3>2 DEF Pairs
    <3> QED
      BY <3>1, <3>2, <3>3
  <2>3. DOMAIN other = DOMAIN prfs /\ DOMAIN prfs = 1 .. Len(prfs)
    BY <1>2, <2>1
  <2>4. other \in Seq(Pairs) /\ Len(other) = Len(prfs)
    <3>1. other \in [1 .. Len(prfs) -> Pairs]
      BY <2>1, <2>2, <2>3
    <3> QED
      BY <1>2, <3>1
  <2>5. \A j \in DOMAIN other : other[j].lineno < n
    BY <1>2, <2>2, <2>3
  <2>6. Sound([prfs |-> other, cmts |-> cmts, linec |-> n])
    BY <1>2, <2>4, <2>5, TableSound
  <2>7. Set(p, k, v) = [prfs |-> other, cmts |-> cmts, linec |-> n]
    <3>1. Set(p, k, v) = [p EXCEPT !.prfs = other]
      BY <1>1, <1>6, <2>1 DEF Set
    <3> QED
      BY <1>5, <3>1
  <2> QED
    BY <2>6, <2>7
<1>7. CASE ~Has(p, k) /\ Entries(p) + 1 < MaxLen
  <2>1. PICK e : e = [lineno |-> n, key |-> k, val |-> v]
    OBVIOUS
  <2>2. e \in Pairs /\ e.lineno = n
    BY <1>2, <2>1 DEF Pairs
  <2>3. PICK more : more = Append(prfs, e)
    OBVIOUS
  <2>4. /\ more \in Seq(Pairs) /\ Len(more) = Len(prfs) + 1
        /\ \A j \in DOMAIN more : (j \in DOMAIN prfs /\ more[j] = prfs[j]) \/ more[j] = e
    BY <1>2, <2>2, <2>3, AppendFacts
  <2>5. ASSUME NEW j \in DOMAIN more PROVE more[j].lineno < n + 1
    <3>1. CASE more[j] = e
      BY <1>2, <2>2, <3>1
    <3>2. CASE j \in DOMAIN prfs /\ more[j] = prfs[j]
      <4>1. more[j].lineno \in Nat /\ more[j].lineno < n
        BY <1>2, <1>3, <3>2
      <4> QED
        BY <1>2, <4>1
    <3> QED
      BY <2>4, <3>1, <3>2
  <2>6. \A j \in DOMAIN cmts : cmts[j].lineno < n + 1
    BY <1>2, <1>4
  <2>7. Len(prfs) + Len(cmts) + 1 < MaxLen
    BY <1>1, <1>7, SoundFacts
  <2>8. Len(more) \in 1 .. MaxLen /\ Len(more) + Len(cmts) <= MaxLen + 1 /\ n + 1 \in Nat
    BY <1>2, <2>4, <2>7, PrfAssumption
  <2>9. Sound([prfs |-> more, cmts |-> cmts, linec |-> n + 1])
    BY <1>2, <2>4, <2>5, <2>6, <2>8, TableSound
  <2>10. Set(p, k, v) = [prfs |-> more, cmts |-> cmts, linec |-> n + 1]
    <3>1. Set(p, k, v) = [p EXCEPT !.prfs = Append(@, e), !.linec = @ + 1]
      BY <1>1, <1>7, <2>1 DEF Set
    <3> QED
      BY <1>5, <2>3, <3>1
  <2> QED
    BY <2>9, <2>10
<1>8. CASE ~Has(p, k) /\ ~(Entries(p) + 1 < MaxLen)
  BY <1>8 DEF Set
<1> QED
  BY <1>6, <1>7, <1>8

\* The texts that are not the user's are strings.
LEMMA Words ==
  /\ <<>> \in Strings /\ Addr \in Strings /\ Port \in Strings /\ DefaultPort \in Strings
  /\ <<"sp">> \in Strings /\ <<"nl">> \in Strings /\ <<"hash">> \in Strings
<1>1. "1861" \in Chars /\ "sp" \in Chars /\ "nl" \in Chars /\ "hash" \in Chars
  BY PrfAssumption DEF Chars
<1>2. Letters \subseteq Chars
  BY DEF Chars
<1>3. Addr \in Strings /\ Port \in Strings
  BY <1>2, PrfAssumption DEF Strings
<1> QED
  BY <1>1, <1>3 DEF Strings, DefaultPort

\* prf_new's table holds the port and nothing else.
LEMMA NewSound == Sound(New)
<1>1. PICK e : e = [lineno |-> 0, key |-> Port, val |-> DefaultPort]
  OBVIOUS
<1>2. e \in Pairs /\ e.lineno = 0
  BY <1>1, Words DEF Pairs
<1>3. PICK p : p = [prfs |-> <<>>, cmts |-> <<>>, linec |-> 0]
  OBVIOUS
<1>4. p.prfs = <<>> /\ p.cmts = <<>> /\ p.linec = 0
  BY <1>3
<1>5. ~Has(p, Port) /\ Entries(p) + 1 < MaxLen
  BY <1>4, PrfAssumption DEF Has, Entries
<1>6. New = [p EXCEPT !.prfs = Append(@, e), !.linec = @ + 1]
  BY <1>1, <1>3, <1>4, <1>5 DEF New, Set
<1>7. New = [prfs |-> <<e>>, cmts |-> <<>>, linec |-> 1]
  <2>1. Append(<<>>, e) = <<e>>
    OBVIOUS
  <2>2. New = [p EXCEPT !.prfs = <<e>>, !.linec = 1]
    BY <1>4, <1>6, <2>1
  <2> QED
    BY <1>3, <2>2
<1>8. <<e>> \in Seq(Pairs) /\ Len(<<e>>) = 1 /\ \A j \in DOMAIN <<e>> : <<e>>[j].lineno < 1
  BY <1>2
<1>9. <<>> \in Seq(Comments) /\ Len(<<>>) = 0 /\ DOMAIN <<>> = {}
  OBVIOUS
<1>10. 1 \in 1 .. MaxLen /\ 1 + 0 <= MaxLen + 1
  BY PrfAssumption
<1> QED
  BY <1>7, <1>8, <1>9, <1>10, TableSound

(***************************************************************************)
(* prf_read                                                                *)
(***************************************************************************)

\* What is known when the state machine looks at a character.
LEMMA AtFacts ==
  ASSUME IInv, NEW s, NEW chars, At(s, chars)
  PROVE  /\ phase = "read" /\ phase' = "read" /\ state = s /\ body' = body
         /\ i \in 1 .. Len(body) /\ Len(body) \in Nat
         /\ body[i] \in chars /\ body[i] \in Chars
         /\ Entries(prf) <= MaxLen
         /\ Writer'
<1>1. phase = "read" /\ phase' = "read" /\ state = s /\ body' = body /\ body[i] \in chars
      /\ Entries(prf) <= MaxLen /\ i <= Len(body)
  BY DEF At, MoreToRead
<1>2. body \in Seq(Chars) /\ i \in 1 .. Len(body) + 1
  BY DEF IInv, Texts, Strings
<1>3. i \in 1 .. Len(body) /\ Len(body) \in Nat /\ body[i] \in Chars
  BY <1>1, <1>2
<1>4. Writer'
  BY DEF At, writerVars, saveVars, IInv, Writer, Sound, Entries
<1> QED
  BY <1>1, <1>3, <1>4

\* The state machine goes on to the next character.
LEMMA Eats ==
  ASSUME IInv, NEW s, NEW chars, At(s, chars), Eat,
         state' \in States, key' \in Strings, val' \in Strings, cmt' \in Strings, Sound(prf'),
         state' \in {"LINE", "COMMENT"} \/ body[i] # "nl",
         cmtset' \in BOOLEAN,
         ~cmtset' => ~cmtset /\ (body[i] # "hash" \/ s \notin {"LINE", "COMMENT"})
  PROVE  IInv'
<1>1. /\ phase = "read" /\ phase' = "read" /\ state = s /\ body' = body
      /\ i \in 1 .. Len(body) /\ Len(body) \in Nat /\ Writer'
  BY AtFacts
<1>2. i' = i + 1
  BY DEF Eat
<1>3. Texts'
  <2>1. i + 1 \in 1 .. Len(body) + 1
    BY <1>1
  <2> QED
    BY <1>1, <1>2, <2>1 DEF IInv, Texts
<1>4. Unset'
  <2> SUFFICES ASSUME ~cmtset' PROVE NoComment(i)' /\ (state' \notin {"LINE", "COMMENT"} => Midway')
    BY DEF Unset
  <2>1. NoComment(i) /\ (s \notin {"LINE", "COMMENT"} => Midway)
    BY <1>1 DEF IInv, Unset
  <2>2. LineStart(i) => body[i] # "hash"
    BY <1>1, <2>1 DEF LineStart, Midway
  <2>3. \A j \in 1 .. i : LineStart(j) => body[j] # "hash"
    BY <1>1, <2>1, <2>2 DEF NoComment
  <2>4. (i + 1) - 1 = i /\ i + 1 > 1
    BY <1>1
  <2>5. NoComment(i)'
    BY <1>1, <1>2, <2>3, <2>4 DEF NoComment, LineStart
  <2>6. body[i] # "nl" => Midway'
    BY <1>1, <1>2, <2>4 DEF Midway
  <2> QED
    BY <2>5, <2>6
<1>5. Phases'
  BY <1>1 DEF Phases
<1> QED
  BY <1>1, <1>3, <1>4, <1>5 DEF IInv, Sound, Entries

\* The state machine changes its state only.
LEMMA Looks ==
  ASSUME IInv, NEW s, NEW chars, At(s, chars), i' = i,
         state' \in States, key' \in Strings, val' \in Strings, UNCHANGED <<cmt, cmtset, prf>>,
         state' = "COMMENT" \/ body[i] # "hash" \/ s \notin {"LINE", "COMMENT"}
  PROVE  IInv'
<1>1. /\ phase = "read" /\ phase' = "read" /\ state = s /\ body' = body
      /\ i \in 1 .. Len(body) /\ Len(body) \in Nat /\ Writer'
  BY AtFacts
<1>2. Texts'
  BY <1>1 DEF IInv, Texts
<1>3. Unset'
  <2>1. ~cmtset => NoComment(i) /\ (s \notin {"LINE", "COMMENT"} => Midway)
    BY <1>1 DEF IInv, Unset
  <2>2. NoComment(i) => NoComment(i)'
    BY <1>1 DEF NoComment, LineStart
  <2>3. Midway => Midway'
    BY <1>1 DEF Midway
  <2>4. body[i] # "hash" => Midway'
    BY <1>1 DEF Midway
  <2> QED
    BY <2>1, <2>2, <2>3, <2>4 DEF Unset
<1>4. Phases'
  BY <1>1 DEF Phases
<1> QED
  BY <1>1, <1>2, <1>3, <1>4 DEF IInv, Sound, Entries

\* One character of the file.
LEMMA ReadSteps == IInv /\ ReadStep => IInv'
<1> SUFFICES ASSUME IInv, ReadStep PROVE IInv'
  OBVIOUS
<1>1. /\ Sound(prf) /\ key \in Strings /\ val \in Strings /\ cmt \in Strings
      /\ state \in States /\ cmtset \in BOOLEAN
  BY DEF IInv, Texts
<1>2. /\ {"LINE", "SETTING", "COMMENT", "KEY", "VALUE", "IKV", "PV"} \subseteq States
      /\ <<>> \in Strings
  BY Words DEF States
<1>3. "sp" \notin Letters /\ "nl" \notin Letters /\ "hash" \notin Letters
  BY PrfAssumption
<1>4. ASSUME NEW w \in Strings, NEW s, NEW chars, At(s, chars)
      PROVE  Append(w, body[i]) \in Strings
  BY <1>4, AtFacts DEF Strings
<1>5. CountLine => Sound(prf')
  BY <1>1, CountSound DEF CountLine
<1>6. Sound(Set(prf, key, val))
  BY <1>1, SetSound
<1>7. ASSUME NEW s, NEW chars, At(s, chars) PROVE body[i] \in chars
  BY <1>7 DEF At
<1>10. CASE LineHash
  BY <1>10, <1>1, <1>2, <1>7, Eats DEF LineHash, Goto
<1>11. CASE LineEmpty
  <2>1. state' = state /\ state = "LINE" /\ body[i] = "nl"
    BY <1>11, AtFacts DEF LineEmpty
  <2> QED
    BY <1>11, <1>1, <1>5, <2>1, Eats DEF LineEmpty
<1>12. CASE LineSetting
  BY <1>12, <1>1, <1>2, <1>3, <1>7, Looks DEF LineSetting, Goto
<1>13. CASE CommentUnset
  <2>1. /\ phase = "read" /\ state = "COMMENT" /\ ~cmtset
        /\ (cmtset' = TRUE /\ phase' = phase) \/ (phase' = "wild" /\ cmtset' = cmtset)
        /\ UNCHANGED <<body, i, state, key, val, cmt, prf, writerVars, saveVars>>
    BY <1>13 DEF CommentUnset
  <2>2. Texts'
    BY <2>1 DEF IInv, Texts
  <2>3. Writer' /\ Sound(prf)'
    BY <2>1 DEF IInv, Writer, Sound, Entries, writerVars, saveVars
  <2>4. Unset'
    BY <2>1 DEF IInv, Unset, NoComment, LineStart
  <2>5. Phases'
    BY <2>1 DEF Phases
  <2> QED
    BY <2>2, <2>3, <2>4, <2>5 DEF IInv
<1>14. CASE CommentEnd
  <2>1. Entries(prf) <= MaxLen
    BY <1>14, AtFacts DEF CommentEnd
  <2>2. Sound(AddComment(prf, cmt))
    BY <1>1, <2>1, CommentSound
  <2> QED
    BY <1>14, <1>1, <1>2, <2>2, Eats DEF CommentEnd, Goto
<1>15. CASE CommentText
  <2>1. state' = state /\ state = "COMMENT"
    BY <1>15, AtFacts DEF CommentText
  <2> QED
    BY <1>15, <1>1, <1>4, <2>1, Eats DEF CommentText
<1>16. CASE SettingEmpty
  BY <1>16, <1>1, <1>2, <1>5, Eats DEF SettingEmpty, Goto
<1>17. CASE SettingSpace
  BY <1>17, <1>1, <1>7, Eats DEF SettingSpace
<1>18. CASE SettingHash
  BY <1>18, <1>1, <1>2, Eats DEF SettingHash, Goto
<1>19. CASE SettingKey
  BY <1>19, <1>1, <1>2, Looks DEF SettingKey, Goto
<1>20. CASE KeyEnd
  BY <1>20, <1>1, <1>2, <1>7, Eats DEF KeyEnd, Goto
<1>21. CASE KeyAlone
  BY <1>21, <1>1, <1>2, <1>5, Eats DEF KeyAlone, Goto
<1>22. CASE KeyHash
  BY <1>22, <1>1, <1>2, Looks DEF KeyHash, Goto
<1>23. CASE KeyText
  BY <1>23, <1>1, <1>3, <1>4, <1>7, Eats DEF KeyText
<1>24. CASE IkvSpace
  BY <1>24, <1>1, <1>7, Eats DEF IkvSpace
<1>25. CASE IkvAlone
  BY <1>25, <1>1, <1>2, <1>5, Eats DEF IkvAlone, Goto
<1>26. CASE IkvHash
  BY <1>26, <1>1, <1>2, Eats DEF IkvHash, Goto
<1>27. CASE IkvValue
  BY <1>27, <1>1, <1>2, Looks DEF IkvValue, Goto
<1>28. CASE ValueEnd
  BY <1>28, <1>1, <1>2, <1>6, Eats DEF ValueEnd, Goto
<1>29. CASE ValueHash
  BY <1>29, <1>1, <1>2, <1>6, Eats DEF ValueHash, Goto
<1>30. CASE ValueSpace
  BY <1>30, <1>1, <1>2, <1>7, Eats DEF ValueSpace, Goto
<1>31. CASE ValueText
  BY <1>31, <1>1, <1>3, <1>4, <1>7, Eats DEF ValueText
<1>32. CASE PvMeaningless
  BY <1>32, <1>1, <1>2, Looks DEF PvMeaningless, Goto
<1>33. CASE PvMeaningful
  <2>1. Append(val, "sp") \in Strings
    BY <1>1 DEF Strings, Chars
  <2> QED
    BY <1>33, <1>1, <1>2, <1>3, <1>7, <2>1, Eats DEF PvMeaningful, Goto
<1>34. CASE ReadEnd
  <2>1. phase = "read" /\ phase' = "ready" /\ UNCHANGED <<parserVars, prf, writerVars, saveVars>>
    BY <1>34 DEF ReadEnd
  <2>2. Texts' /\ Unset'
    BY <2>1 DEF IInv, Texts, Unset, NoComment, LineStart, Midway, parserVars
  <2>3. Writer' /\ Sound(prf)'
    BY <2>1 DEF IInv, Writer, Sound, Entries, writerVars, saveVars
  <2>4. Phases'
    BY <2>1 DEF Phases
  <2> QED
    BY <2>2, <2>3, <2>4 DEF IInv
<1> QED
  BY <1>10, <1>11, <1>12, <1>13, <1>14, <1>15, <1>16, <1>17, <1>18, <1>19, <1>20, <1>21, <1>22,
     <1>23, <1>24, <1>25, <1>26, <1>27, <1>28, <1>29, <1>30, <1>31, <1>32, <1>33, <1>34
     DEF ReadStep

(***************************************************************************)
(* The preferences window, prf_write and the next start                    *)
(***************************************************************************)

\* Save and Connect leave the table sound, whatever was typed.
LEMMA EntriesSteps ==
  ASSUME IInv, NEW addr \in Typed, NEW port \in Typed, SetEntries(addr, port)
  PROVE  Sound(prf') /\ Texts' /\ Unset'
<1>1. /\ prf' = SetTyped(SetTyped(prf, Addr, addr), Port, port)
      /\ UNCHANGED parserVars
  BY DEF SetEntries
<1>2. Addr \in Strings /\ Port \in Strings /\ addr \in Strings /\ port \in Strings
  BY Words, PrfAssumption DEF Strings
<1>3. ASSUME NEW p, Sound(p), NEW k \in Strings, NEW v \in Strings
      PROVE  Sound(SetTyped(p, k, v))
  BY <1>3, SetSound DEF SetTyped
<1>4. Sound(SetTyped(prf, Addr, addr))
  BY <1>2, <1>3 DEF IInv
<1>5. Sound(prf')
  BY <1>1, <1>2, <1>3, <1>4
<1>6. Texts' /\ Unset'
  BY <1>1 DEF IInv, Texts, Unset, NoComment, LineStart, Midway, parserVars
<1> QED
  BY <1>5, <1>6

\* Save starts prf_write on the table as it is now.
LEMMA SaveSteps ==
  ASSUME IInv, NEW addr \in Typed, NEW port \in Typed, Save(addr, port)
  PROVE  IInv'
<1>1. SetEntries(addr, port)
  BY DEF Save
<1>2. Sound(prf') /\ Texts' /\ Unset'
  BY <1>1, EntriesSteps
<1>3. CASE addr # <<>> /\ port # <<>>
  <2>1. /\ phase' = "write" /\ saved' = prf' /\ prf_i' = 1 /\ cmt_i' = 1 /\ out' = <<>>
    BY <1>3 DEF Save
  <2>2. Sound(saved)'
    BY <1>2, <2>1 DEF Sound, Entries
  <2>3. Len(saved.prfs)' \in Nat /\ Len(saved.cmts)' \in Nat
    BY <1>2, <2>1, SoundFacts
  <2>4. Writer'
    BY <2>1, <2>2, <2>3, Words DEF Writer
  <2> QED
    BY <1>2, <2>1, <2>4 DEF IInv, Phases, Sound, Entries
<1>4. CASE ~(addr # <<>> /\ port # <<>>)
  <2>1. phase' = "edited" /\ UNCHANGED <<saved, writerVars>>
    BY <1>4 DEF Save
  <2>2. Writer'
    BY <2>1 DEF IInv, Writer, Sound, Entries, writerVars
  <2> QED
    BY <1>2, <2>1, <2>2 DEF IInv, Phases, Sound, Entries
<1> QED
  BY <1>3, <1>4

\* Connect writes nothing.
LEMMA ConnectSteps ==
  ASSUME IInv, NEW addr \in Typed, NEW port \in Typed, Connect(addr, port)
  PROVE  IInv'
<1>1. SetEntries(addr, port) /\ phase' = "edited" /\ UNCHANGED <<saved, writerVars>>
  BY DEF Connect
<1>2. Sound(prf') /\ Texts' /\ Unset'
  BY <1>1, EntriesSteps
<1>3. Writer'
  BY <1>1 DEF IInv, Writer, Sound, Entries, writerVars
<1> QED
  BY <1>1, <1>2, <1>3 DEF IInv, Phases, Sound, Entries

\* prf_write takes each entry once, from the table that is being saved.
LEMMA WriteSteps == IInv /\ WriteLine => IInv'
<1> SUFFICES ASSUME IInv, WriteLine PROVE IInv'
  OBVIOUS
<1>1. phase = "write" /\ UNCHANGED <<phase, parserVars, prf, saveVars>> /\ saved = prf
  BY DEF WriteLine, IInv, Phases
<1>2. /\ Sound(prf) /\ out \in Strings
      /\ prf_i \in 1 .. Len(prf.prfs) + 1 /\ cmt_i \in 1 .. Len(prf.cmts) + 1
  BY <1>1 DEF IInv, Writer
<1>3. PICK prfs, cmts : prfs = prf.prfs /\ cmts = prf.cmts
  OBVIOUS
<1>4. prfs \in Seq(Pairs) /\ cmts \in Seq(Comments) /\ Len(prfs) \in Nat /\ Len(cmts) \in Nat
  BY <1>2, <1>3, SoundFacts
<1>5. PICK hasPrf, hasCmt :
        /\ hasPrf = (prf_i <= Len(prfs) /\ prfs[prf_i].lineno = lineno)
        /\ hasCmt = (cmt_i <= Len(cmts) /\ cmts[cmt_i].lineno = lineno)
  OBVIOUS
<1>6. /\ out' = out \o (IF hasPrf THEN prfs[prf_i].key \o <<"sp">> \o prfs[prf_i].val ELSE <<>>)
                    \o (IF hasCmt THEN <<"hash">> \o cmts[cmt_i].data ELSE <<>>)
                    \o <<"nl">>
      /\ prf_i' = IF hasPrf THEN prf_i + 1 ELSE prf_i
      /\ cmt_i' = IF hasCmt THEN cmt_i + 1 ELSE cmt_i
  BY <1>3, <1>5 DEF WriteLine
<1>7. hasPrf => prf_i \in 1 .. Len(prfs)
  <2>1. hasPrf => prf_i <= Len(prfs)
    BY <1>5, Zenon
  <2> QED
    BY <1>2, <1>3, <1>4, <2>1
<1>8. hasCmt => cmt_i \in 1 .. Len(cmts)
  <2>1. hasCmt => cmt_i <= Len(cmts)
    BY <1>5, Zenon
  <2> QED
    BY <1>2, <1>3, <1>4, <2>1
<1>9. prf_i' \in 1 .. Len(prfs) + 1 /\ cmt_i' \in 1 .. Len(cmts) + 1
  <2>1. CASE hasPrf /\ hasCmt
    BY <1>4, <1>6, <1>7, <1>8, <2>1
  <2>2. CASE hasPrf /\ ~hasCmt
    BY <1>2, <1>3, <1>4, <1>6, <1>7, <2>2
  <2>3. CASE ~hasPrf /\ hasCmt
    BY <1>2, <1>3, <1>4, <1>6, <1>8, <2>3
  <2>4. CASE ~hasPrf /\ ~hasCmt
    BY <1>2, <1>3, <1>6, <2>4
  <2> QED
    BY <2>1, <2>2, <2>3, <2>4
<1>10. out' \in Strings
  <2>1. ASSUME NEW u \in Strings, NEW w \in Strings PROVE u \o w \in Strings
    BY DEF Strings
  <2>2. PICK pair : pair = IF hasPrf THEN prfs[prf_i].key \o <<"sp">> \o prfs[prf_i].val ELSE <<>>
    OBVIOUS
  <2>3. pair \in Strings
    <3>1. CASE hasPrf
      <4>1. PICK e : e = prfs[prf_i]
        OBVIOUS
      <4>2. e \in Pairs
        BY <1>4, <1>7, <3>1, <4>1
      <4>3. e.key \in Strings /\ e.val \in Strings
        BY <4>2 DEF Pairs
      <4>4. pair = e.key \o <<"sp">> \o e.val
        BY <2>2, <3>1, <4>1
      <4>5. e.key \o <<"sp">> \in Strings
        BY <2>1, <4>3, Words
      <4> QED
        BY <2>1, <4>3, <4>4, <4>5
    <3>2. CASE ~hasPrf
      BY <2>2, <3>2, Words
    <3> QED
      BY <3>1, <3>2
  <2>4. PICK comment : comment = IF hasCmt THEN <<"hash">> \o cmts[cmt_i].data ELSE <<>>
    OBVIOUS
  <2>5. comment \in Strings
    <3>1. CASE hasCmt
      <4>1. PICK e : e = cmts[cmt_i]
        OBVIOUS
      <4>2. e \in Comments
        BY <1>4, <1>8, <3>1, <4>1
      <4>3. e.data \in Strings
        BY <4>2 DEF Comments
      <4> QED
        BY <2>1, <2>4, <3>1, <4>1, <4>3, Words
    <3>2. CASE ~hasCmt
      BY <2>4, <3>2, Words
    <3> QED
      BY <3>1, <3>2
  <2>6. out' = out \o pair \o comment \o <<"nl">>
    BY <1>6, <2>2, <2>4
  <2>7. out \o pair \in Strings
    BY <1>2, <2>1, <2>3
  <2>8. out \o pair \o comment \in Strings
    BY <2>1, <2>5, <2>7
  <2> QED
    BY <2>1, <2>6, <2>8, Words
<1>11. Sound(prf)' /\ saved' = saved /\ prf' = prf
  BY <1>1, <1>2 DEF saveVars, Sound, Entries
<1>12. Writer'
  BY <1>1, <1>3, <1>9, <1>10, <1>11 DEF Writer, Sound, Entries
<1>13. Texts' /\ Unset'
  BY <1>1 DEF IInv, Texts, Unset, NoComment, LineStart, Midway, parserVars
<1>14. Phases'
  BY <1>1, <1>11 DEF Phases
<1> QED
  BY <1>11, <1>12, <1>13, <1>14 DEF IInv

\* The end of prf_write.
LEMMA WriteEnds == IInv /\ WriteEnd => IInv'
<1> SUFFICES ASSUME IInv, WriteEnd PROVE IInv'
  OBVIOUS
<1>1. phase' = "written" /\ UNCHANGED <<parserVars, prf, writerVars, saveVars>>
  BY DEF WriteEnd
<1>2. Texts' /\ Unset'
  BY <1>1 DEF IInv, Texts, Unset, NoComment, LineStart, Midway, parserVars
<1>3. Writer' /\ Sound(prf)'
  BY <1>1 DEF IInv, Writer, Sound, Entries, writerVars, saveVars
<1>4. Phases'
  BY <1>1 DEF Phases
<1> QED
  BY <1>2, <1>3, <1>4 DEF IInv

\* What prf_write wrote is a file prf_read can start on.
LEMMA Restarts == IInv /\ Restart => IInv'
<1> SUFFICES ASSUME IInv, Restart PROVE IInv'
  OBVIOUS
<1>1. /\ phase' = "read" /\ body' = out /\ i' = 1 /\ state' = "LINE"
      /\ key' = <<>> /\ val' = <<>> /\ cmt' = <<>> /\ cmtset' = FALSE
      /\ prf' = New /\ UNCHANGED <<writerVars, saveVars>>
  BY DEF Restart, StartReading
<1>2. out \in Strings /\ Len(out) \in Nat
  BY DEF IInv, Writer, Strings
<1>3. Texts'
  <2>1. 1 \in 1 .. Len(out) + 1
    BY <1>2
  <2> QED
    BY <1>1, <1>2, <2>1, Words DEF Texts, States
<1>4. Unset'
  BY <1>1 DEF Unset, NoComment
<1>5. Writer'
  BY <1>1 DEF IInv, Writer, Sound, Entries, writerVars, saveVars
<1>6. Sound(prf)'
  BY <1>1, NewSound DEF Sound, Entries
<1>7. Phases'
  BY <1>1 DEF Phases
<1> QED
  BY <1>3, <1>4, <1>5, <1>6, <1>7 DEF IInv

\* It holds when the program starts on whatever file there is.
LEMMA InitKnown == Init => IInv
<1> SUFFICES ASSUME Init PROVE IInv
  OBVIOUS
<1>1. /\ phase = "read" /\ body \in Files /\ i = 1 /\ state = "LINE"
      /\ key = <<>> /\ val = <<>> /\ cmt = <<>> /\ cmtset = FALSE
      /\ prf = New /\ prf_i = 1 /\ cmt_i = 1 /\ out = <<>> /\ saved = New
  BY DEF Init
<1>2. body \in Strings /\ Len(body) \in Nat
  BY <1>1, PrfAssumption DEF Strings
<1>3. Texts
  <2>1. 1 \in 1 .. Len(body) + 1
    BY <1>2
  <2> QED
    BY <1>1, <1>2, <2>1, Words DEF Texts, States
<1>4. Unset
  BY <1>1 DEF Unset, NoComment
<1>5. Sound(prf) /\ Sound(saved)
  BY <1>1, NewSound
<1>6. Len(saved.prfs) \in Nat /\ Len(saved.cmts) \in Nat
  BY <1>5, SoundFacts
<1>7. Writer
  BY <1>1, <1>5, <1>6, Words DEF Writer
<1> QED
  BY <1>1, <1>3, <1>4, <1>5, <1>7 DEF IInv, Phases

\* Reading, editing, saving and reading again: the table stays sound, the
\* state machine and the writer stay where they may be.
THEOREM PreferencesInvariant == Spec => []IInv
<1>1. IInv /\ [Next]_vars => IInv'
  <2> SUFFICES ASSUME IInv, [Next]_vars PROVE IInv'
    OBVIOUS
  <2>1. CASE UNCHANGED vars
    <3>1. UNCHANGED <<phase, parserVars, prf, writerVars, saveVars>>
      BY <2>1 DEF vars
    <3>2. Texts' /\ Unset'
      BY <3>1 DEF IInv, Texts, Unset, NoComment, LineStart, Midway, parserVars
    <3>3. Writer' /\ Sound(prf)'
      BY <3>1 DEF IInv, Writer, Sound, Entries, writerVars, saveVars
    <3>4. Phases'
      BY <3>1 DEF IInv, Phases, parserVars, saveVars
    <3> QED
      BY <3>2, <3>3, <3>4 DEF IInv
  <2> QED
    BY <2>1, ReadSteps, SaveSteps, ConnectSteps, WriteSteps, WriteEnds, Restarts DEF Next
<1> QED
  BY <1>1, InitKnown, PTL DEF Spec

\* No array of prfs_t is written past its end: the comparison before each
\* character and that of prf_set are enough because the port takes a place of
\* its own; and the index of a comment is unset only as long as no comment
\* line was read.
THEOREM ArraysKept == Spec => []InBounds
<1>1. IInv => InBounds
  <2> SUFFICES ASSUME IInv PROVE InBounds
    OBVIOUS
  <2>1. TypeOK
    BY DEF IInv, TypeOK, Texts, Writer, Phases, Sound
  <2>2. Len(prf.prfs) <= MaxLen /\ Len(prf.cmts) <= MaxLen
    <3>1. PICK a, b : a = Len(prf.prfs) /\ b = Len(prf.cmts)
      OBVIOUS
    <3>2. Sound(prf)
      BY DEF IInv
    <3>3. a \in 1 .. MaxLen /\ b \in Nat /\ a + b <= MaxLen + 1
      BY <3>1, <3>2, SoundFacts DEF Sound
    <3>4. a <= MaxLen /\ b <= MaxLen
      BY <3>3, PrfAssumption
    <3> QED
      BY <3>1, <3>4
  <2>3. phase = "wild" => NoComment(i)
    BY DEF IInv, Phases, Unset
  <2> QED
    BY <2>1, <2>2, <2>3 DEF InBounds, NoComment
<1> QED
  BY <1>1, PreferencesInvariant, PTL

(***************************************************************************)
(* What the table says after a change                                      *)
(***************************************************************************)

\* No two pairs have one key.
Distinct(p) == \A m, n \in DOMAIN p.prfs : p.prfs[m].key = p.prfs[n].key => m = n

\* Some pair has this key and this value.
Holds(p, k, v) == \E j \in DOMAIN p.prfs : p.prfs[j].key = k /\ p.prfs[j].val = v

\* The pairs of a table are numbered from 1.
LEMMA PairNumbers ==
  ASSUME NEW p, Sound(p)
  PROVE  Len(p.prfs) \in Nat /\ DOMAIN p.prfs = 1 .. Len(p.prfs) /\ Entries(p) \in Nat
<1>1. PICK q, a, b : q = p.prfs /\ a = Len(p.prfs) /\ b = Len(p.cmts)
  OBVIOUS
<1>2. q \in Seq(Pairs)
  BY <1>1, SoundFacts
<1>3. Len(q) \in Nat /\ DOMAIN q = 1 .. Len(q)
  BY <1>2
<1>4. a \in Nat /\ b \in Nat /\ Entries(p) = a + b
  BY <1>1, SoundFacts
<1>5. a + b \in Nat
  BY <1>4
<1> QED
  BY <1>1, <1>3, <1>4, <1>5

\* prf_get finds the value of a key if there is one pair with it.
LEMMA HeldIsGot ==
  ASSUME NEW p, Sound(p), Distinct(p), NEW k, NEW v, Holds(p, k, v)
  PROVE  v \in Get(p, k)
<1>1. PICK j \in DOMAIN p.prfs : p.prfs[j].key = k /\ p.prfs[j].val = v
  BY DEF Holds
<1>2. DOMAIN p.prfs = 1 .. Len(p.prfs) /\ Len(p.prfs) \in Nat
  BY PairNumbers
<1>3. ASSUME NEW m \in 1 .. j - 1 PROVE p.prfs[m].key # k
  <2>1. m \in DOMAIN p.prfs /\ m # j
    BY <1>1, <1>2
  <2> QED
    BY <1>1, <2>1 DEF Distinct
<1>4. j \in {n \in 1 .. Len(p.prfs) : p.prfs[n].key = k /\ \A m \in 1 .. n - 1 : p.prfs[m].key # k}
  BY <1>1, <1>2, <1>3
<1> QED
  BY <1>1, <1>4 DEF Get

\* prf_set of a known key: the pairs keep their places, lines and keys.
LEMMA SetKnown ==
  ASSUME NEW p, Sound(p), NEW k \in Strings, NEW v \in Strings, Has(p, k)
  PROVE  /\ Set(p, k, v).cmts = p.cmts /\ Set(p, k, v).linec = p.linec
         /\ DOMAIN Set(p, k, v).prfs = DOMAIN p.prfs /\ Len(Set(p, k, v).prfs) = Len(p.prfs)
         /\ \A j \in DOMAIN p.prfs :
              /\ Set(p, k, v).prfs[j].key = p.prfs[j].key
              /\ Set(p, k, v).prfs[j].lineno = p.prfs[j].lineno
              /\ Set(p, k, v).prfs[j].val = IF p.prfs[j].key = k THEN v ELSE p.prfs[j].val
<1>1. PICK prfs, cmts, n : prfs = p.prfs /\ cmts = p.cmts /\ n = p.linec
  OBVIOUS
<1>2. prfs \in Seq(Pairs) /\ DOMAIN prfs = 1 .. Len(prfs) /\ Len(prfs) \in Nat
  BY <1>1, SoundFacts, PairNumbers
<1>3. p = [prfs |-> prfs, cmts |-> cmts, linec |-> n]
  BY <1>1, SoundFacts
<1>4. PICK other : other = [j \in DOMAIN prfs |->
                     IF prfs[j].key = k THEN [prfs[j] EXCEPT !.val = v] ELSE prfs[j]]
  OBVIOUS
<1>5. Set(p, k, v) = [prfs |-> other, cmts |-> cmts, linec |-> n]
  <2>1. Set(p, k, v) = [p EXCEPT !.prfs = other]
    BY <1>1, <1>4 DEF Set
  <2> QED
    BY <1>3, <2>1
<1>6. ASSUME NEW j \in DOMAIN prfs
      PROVE  /\ other[j].key = prfs[j].key /\ other[j].lineno = prfs[j].lineno
             /\ other[j].val = IF prfs[j].key = k THEN v ELSE prfs[j].val
  <2>1. PICK e : e = prfs[j]
    OBVIOUS
  <2>2. e \in Pairs /\ other[j] = IF e.key = k THEN [e EXCEPT !.val = v] ELSE e
    BY <1>2, <1>4, <2>1
  <2>3. /\ [e EXCEPT !.val = v].lineno = e.lineno /\ [e EXCEPT !.val = v].key = e.key
        /\ [e EXCEPT !.val = v].val = v
    BY <2>2 DEF Pairs
  <2> QED
    BY <2>1, <2>2, <2>3
<1>7. DOMAIN other = DOMAIN prfs /\ Len(other) = Len(prfs)
  <2>1. DOMAIN other = 1 .. Len(prfs)
    BY <1>2, <1>4
  <2> QED
    BY <1>2, <2>1
<1>8. PICK q : q = Set(p, k, v)
  OBVIOUS
<1>9. q.prfs = other /\ q.cmts = cmts /\ q.linec = n
  BY <1>5, <1>8
<1> QED
  BY <1>1, <1>6, <1>7, <1>8, <1>9

\* prf_set of a new key: one more pair, on a line of its own.
LEMMA SetNew ==
  ASSUME NEW p, Sound(p), NEW k \in Strings, NEW v \in Strings,
         ~Has(p, k), Entries(p) + 1 < MaxLen
  PROVE  /\ Set(p, k, v).cmts = p.cmts /\ Set(p, k, v).linec = p.linec + 1
         /\ DOMAIN Set(p, k, v).prfs = 1 .. Len(p.prfs) + 1 /\ DOMAIN p.prfs = 1 .. Len(p.prfs)
         /\ Len(Set(p, k, v).prfs) = Len(p.prfs) + 1
         /\ \A j \in DOMAIN p.prfs : Set(p, k, v).prfs[j] = p.prfs[j]
         /\ Set(p, k, v).prfs[Len(p.prfs) + 1].key = k
         /\ Set(p, k, v).prfs[Len(p.prfs) + 1].val = v
         /\ Set(p, k, v).prfs[Len(p.prfs) + 1].lineno = p.linec
<1>1. PICK prfs, cmts, n : prfs = p.prfs /\ cmts = p.cmts /\ n = p.linec
  OBVIOUS
<1>2. prfs \in Seq(Pairs) /\ n \in Nat
  BY <1>1, SoundFacts
<1>3. p = [prfs |-> prfs, cmts |-> cmts, linec |-> n]
  BY <1>1, SoundFacts
<1>4. PICK e : e = [lineno |-> n, key |-> k, val |-> v]
  OBVIOUS
<1>5. e \in Pairs /\ e.lineno = n /\ e.key = k /\ e.val = v
  BY <1>2, <1>4 DEF Pairs
<1>6. PICK more : more = Append(prfs, e)
  OBVIOUS
<1>7. /\ Len(more) = Len(prfs) + 1 /\ DOMAIN more = 1 .. Len(prfs) + 1 /\ DOMAIN prfs = 1 .. Len(prfs)
      /\ \A j \in 1 .. Len(prfs) : more[j] = prfs[j]
      /\ more[Len(prfs) + 1] = e
  BY <1>2, <1>5, <1>6, AppendFacts
<1>8. Set(p, k, v) = [prfs |-> more, cmts |-> cmts, linec |-> n + 1]
  <2>1. Set(p, k, v) = [p EXCEPT !.prfs = Append(@, e), !.linec = @ + 1]
    BY <1>1, <1>4 DEF Set
  <2> QED
    BY <1>3, <1>6, <2>1
<1>9. PICK q : q = Set(p, k, v)
  OBVIOUS
<1>10. q.prfs = more /\ q.cmts = cmts /\ q.linec = n + 1
  BY <1>8, <1>9
<1> QED
  BY <1>1, <1>4, <1>5, <1>6, <1>7, <1>9, <1>10

\* What prf_set does to a table with one pair for each key: it keeps it so,
\* takes no entry away and no other key's value; and unless the table is full
\* the key has the value after it.
LEMMA SetHolds ==
  ASSUME NEW p, Sound(p), Distinct(p), NEW k \in Strings, NEW v \in Strings
  PROVE  /\ Distinct(Set(p, k, v)) /\ Entries(Set(p, k, v)) >= Entries(p)
         /\ Entries(Set(p, k, v)) + 1 < MaxLen => Holds(Set(p, k, v), k, v)
         /\ \A k2, w : k2 # k /\ Holds(p, k2, w) => Holds(Set(p, k, v), k2, w)
<1>1. /\ Len(p.prfs) \in Nat /\ Len(p.cmts) \in Nat /\ DOMAIN p.prfs = 1 .. Len(p.prfs)
      /\ MaxLen \in Nat /\ Entries(p) = Len(p.prfs) + Len(p.cmts)
  BY SoundFacts, PairNumbers, PrfAssumption
<1>2. PICK q : q = Set(p, k, v)
  OBVIOUS
<1>3. CASE Has(p, k)
  <2>1. /\ q.cmts = p.cmts /\ DOMAIN q.prfs = DOMAIN p.prfs /\ Len(q.prfs) = Len(p.prfs)
        /\ \A j \in DOMAIN p.prfs :
             /\ q.prfs[j].key = p.prfs[j].key
             /\ q.prfs[j].val = IF p.prfs[j].key = k THEN v ELSE p.prfs[j].val
    BY <1>2, <1>3, SetKnown
  <2>2. Distinct(q)
    BY <2>1 DEF Distinct
  <2>3. Entries(q) >= Entries(p)
    BY <1>1, <2>1 DEF Entries
  <2>4. Holds(q, k, v)
    <3>1. PICK j \in 1 .. Len(p.prfs) : p.prfs[j].key = k
      BY <1>3 DEF Has
    <3>2. j \in DOMAIN q.prfs /\ q.prfs[j].key = k /\ q.prfs[j].val = v
      BY <1>1, <2>1, <3>1
    <3> QED
      BY <3>2 DEF Holds
  <2>5. ASSUME NEW k2, NEW w, k2 # k, Holds(p, k2, w) PROVE Holds(q, k2, w)
    BY <2>1, <2>5 DEF Holds
  <2> QED
    BY <1>2, <2>2, <2>3, <2>4, <2>5
<1>4. CASE ~Has(p, k) /\ Entries(p) + 1 < MaxLen
  <2>1. /\ q.cmts = p.cmts /\ Len(q.prfs) = Len(p.prfs) + 1
        /\ DOMAIN q.prfs = 1 .. Len(p.prfs) + 1
        /\ \A j \in DOMAIN p.prfs : q.prfs[j] = p.prfs[j]
        /\ q.prfs[Len(p.prfs) + 1].key = k /\ q.prfs[Len(p.prfs) + 1].val = v
    <3>1. ~Has(p, k) /\ Entries(p) + 1 < MaxLen
      BY <1>4
    <3>2. Set(p, k, v).cmts = p.cmts
      BY <3>1, SetNew
    <3>3. Len(Set(p, k, v).prfs) = Len(p.prfs) + 1
      BY <3>1, SetNew
    <3>4. DOMAIN Set(p, k, v).prfs = 1 .. Len(p.prfs) + 1
      BY <3>1, SetNew
    <3>5. \A j \in DOMAIN p.prfs : Set(p, k, v).prfs[j] = p.prfs[j]
      BY <3>1, SetNew
    <3>6. Set(p, k, v).prfs[Len(p.prfs) + 1].key = k
      BY <3>1, SetNew
    <3>7. Set(p, k, v).prfs[Len(p.prfs) + 1].val = v
      BY <3>1, SetNew
    <3> QED
      BY <1>2, <3>2, <3>3, <3>4, <3>5, <3>6, <3>7
  <2>2. \A j \in 1 .. Len(p.prfs) : p.prfs[j].key # k
    BY <1>4 DEF Has
  <2>3. Distinct(q)
    <3> SUFFICES ASSUME NEW m \in DOMAIN q.prfs, NEW n \in DOMAIN q.prfs, q.prfs[m].key = q.prfs[n].key
                 PROVE  m = n
      BY DEF Distinct
    <3>1. m \in 1 .. Len(p.prfs) + 1 /\ n \in 1 .. Len(p.prfs) + 1
      BY <2>1
    <3>2. CASE m \in 1 .. Len(p.prfs) /\ n \in 1 .. Len(p.prfs)
      BY <1>1, <2>1, <3>2 DEF Distinct
    <3>3. CASE m \in 1 .. Len(p.prfs) /\ n = Len(p.prfs) + 1
      BY <1>1, <2>1, <2>2, <3>3
    <3>4. CASE m = Len(p.prfs) + 1 /\ n \in 1 .. Len(p.prfs)
      BY <1>1, <2>1, <2>2, <3>4
    <3> QED
      BY <1>1, <3>1, <3>2, <3>3, <3>4
  <2>4. Entries(q) >= Entries(p)
    BY <1>1, <2>1 DEF Entries
  <2>5. Holds(q, k, v)
    <3>1. Len(p.prfs) + 1 \in DOMAIN q.prfs
      BY <1>1, <2>1
    <3> QED
      BY <2>1, <3>1 DEF Holds
  <2>6. ASSUME NEW k2, NEW w, Holds(p, k2, w) PROVE Holds(q, k2, w)
    <3>1. PICK j \in DOMAIN p.prfs : p.prfs[j].key = k2 /\ p.prfs[j].val = w
      BY <2>6 DEF Holds
    <3>2. j \in DOMAIN q.prfs
      BY <1>1, <2>1, <3>1
    <3> QED
      BY <2>1, <3>1, <3>2 DEF Holds
  <2> QED
    BY <1>2, <2>3, <2>4, <2>5, <2>6
<1>5. CASE ~Has(p, k) /\ ~(Entries(p) + 1 < MaxLen)
  <2>1. q = p
    BY <1>2, <1>5 DEF Set
  <2>2. Entries(p) >= Entries(p)
    BY <1>1
  <2> QED
    BY <1>2, <1>5, <2>1, <2>2
<1> QED
  BY <1>3, <1>4, <1>5

\* A table that has grown: it has no fewer entries and no other values.
Grown(p, q) ==
  /\ Distinct(p) => Distinct(q)
  /\ Entries(q) >= Entries(p)
  /\ \A k, v : Holds(p, k, v) => Holds(q, k, v)

\* A comment and a counted line change no pair.
LEMMA CommentGrows ==
  ASSUME NEW p, Sound(p), NEW text \in Strings
  PROVE  Grown(p, AddComment(p, text))
<1>1. PICK prfs, cmts, n : prfs = p.prfs /\ cmts = p.cmts /\ n = p.linec
  OBVIOUS
<1>2. cmts \in Seq(Comments) /\ n \in Nat /\ Len(prfs) \in Nat /\ Len(cmts) \in Nat
  BY <1>1, SoundFacts
<1>3. PICK e : e = [lineno |-> n, data |-> text]
  OBVIOUS
<1>4. e \in Comments
  BY <1>2, <1>3 DEF Comments
<1>5. PICK q : q = AddComment(p, text)
  OBVIOUS
<1>6. q = [p EXCEPT !.cmts = Append(@, e), !.linec = @ + 1]
  BY <1>1, <1>3, <1>5 DEF AddComment
<1>7. p = [prfs |-> prfs, cmts |-> cmts, linec |-> n]
  BY <1>1, SoundFacts
<1>8. q.prfs = p.prfs /\ q.cmts = Append(cmts, e)
  BY <1>1, <1>6, <1>7
<1>9. Len(q.cmts) = Len(cmts) + 1
  BY <1>2, <1>4, <1>8, AppendFacts
<1>10. Entries(q) >= Entries(p)
  BY <1>1, <1>2, <1>8, <1>9 DEF Entries
<1> QED
  BY <1>5, <1>8, <1>10 DEF Grown, Distinct, Holds

LEMMA CountGrows ==
  ASSUME NEW p, Sound(p)
  PROVE  Grown(p, [p EXCEPT !.linec = @ + 1])
<1>1. p = [prfs |-> p.prfs, cmts |-> p.cmts, linec |-> p.linec] /\ Entries(p) \in Nat
  BY SoundFacts, PairNumbers
<1>2. PICK q : q = [p EXCEPT !.linec = @ + 1]
  OBVIOUS
<1>3. q.prfs = p.prfs /\ q.cmts = p.cmts
  BY <1>1, <1>2
<1>4. Entries(q) = Entries(p)
  BY <1>3 DEF Entries
<1> QED
  BY <1>1, <1>2, <1>3, <1>4 DEF Grown, Distinct, Holds

LEMMA SameGrows ==
  ASSUME NEW p, Sound(p)
  PROVE  Grown(p, p)
<1>1. Entries(p) \in Nat
  BY PairNumbers
<1> QED
  BY <1>1 DEF Grown

(***************************************************************************)
(* A line and the parser's place in it                                     *)
(***************************************************************************)

\* The word w, of letters, stands from a up to b.
Spells(a, b, w) ==
  /\ b = a + Len(w)
  /\ \A n \in 1 .. Len(w) : body[a + n - 1] = w[n]
  /\ \A n \in a .. b - 1 : body[n] \in Letters

\* Spaces from s, the key k from a, spaces from b up to c.
Keyed(s, a, b, c, k) ==
  /\ s <= a /\ a < b /\ b < c
  /\ Blank(s, a) /\ Spells(a, b, k) /\ Blank(b, c)

\* The value v stands from c, only spaces follow up to n; in PV there is one.
OneWord(c, n, q, v) ==
  \E d \in c .. n : Spells(c, d, v) /\ Blank(d, n) /\ (q = "PV" => d < n)

\* Another word follows the one at c before n.
TwoWords(c, n) ==
  \E m \in c .. n - 1 : \E l \in m .. n - 1 : body[m] = "sp" /\ body[l] \in Letters

\* In state q at n, with key k and value v, the parser is on the line that
\* starts at s and has understood it so far.
Here(s, n, q, k, v) ==
  /\ LineStart(s)
  /\ \A m \in s .. n - 1 : body[m] # "nl" /\ (q = "COMMENT" \/ body[m] # "hash")
  /\ q = "LINE" => n = s
  /\ q = "SETTING" => Blank(s, n)
  /\ q = "KEY" => \E a \in s .. n : /\ a <= Len(body) /\ body[a] \in Letters
                                    /\ Blank(s, a) /\ Spells(a, n, k)
  /\ q = "IKV" => v = <<>> /\ \E a, b \in s .. n : Keyed(s, a, b, n, k)
  /\ q = "COMMENT" => \/ \E h \in s .. n - 1 : body[h] = "hash"
                      \/ /\ n <= Len(body) /\ body[n] = "hash"
                         /\ \E a \in s .. n : Blank(s, a) /\ Spells(a, n, k)
  /\ q \in {"VALUE", "PV"} =>
       \E a, b, c \in s .. n : /\ Keyed(s, a, b, c, k) /\ c <= Len(body) /\ body[c] \in Letters
                               /\ OneWord(c, n, q, v) \/ TwoWords(c, n)

\* The line from s to e, where the line or its comment-free part ends, gives k
\* the value v.
Given(s, e, k, v) ==
  /\ s \in 1 .. Len(body) /\ e \in s .. Len(body)
  /\ LineStart(s) /\ body[e] \in {"nl", "hash"}
  /\ \E a, b, c, d \in s .. e : /\ Keyed(s, a, b, c, k) /\ c < d
                                /\ Spells(c, d, v) /\ Blank(d, e)

\* No line that starts after s has the key k.
Final(s, k) == \A r \in s + 1 .. Len(body) : ~Mentions(r, k)

\* Every pair that ended before n and is the last with its key is in the
\* table, unless the table is full.
Kept(p, n) ==
  Entries(p) + 1 < MaxLen =>
    \A s, e \in 1 .. Len(body) : \A k, v \in Strings :
      e < n /\ Given(s, e, k, v) /\ Final(s, k) => Holds(p, k, v)

\* Between the start of such a line and its end there are letters and spaces.
LEMMA Span ==
  ASSUME NEW s, NEW e, NEW k \in Strings, NEW v \in Strings, Len(body) \in Nat, Given(s, e, k, v)
  PROVE  \A n \in s .. e - 1 : body[n] \in Letters \/ body[n] = "sp"
<1>1. PICK a, b, c, d \in s .. e : /\ Keyed(s, a, b, c, k) /\ c < d
                                   /\ Spells(c, d, v) /\ Blank(d, e)
  BY DEF Given
<1>2. s \in Nat /\ e \in Nat
  BY DEF Given
<1> TAKE n \in s .. e - 1
<1>3. CASE n < a
  BY <1>1, <1>2, <1>3 DEF Keyed, Blank
<1>4. CASE a <= n /\ n < b
  BY <1>1, <1>2, <1>4 DEF Keyed, Spells
<1>5. CASE b <= n /\ n < c
  BY <1>1, <1>2, <1>5 DEF Keyed, Blank
<1>6. CASE c <= n /\ n < d
  BY <1>1, <1>2, <1>6 DEF Spells
<1>7. CASE d <= n
  BY <1>1, <1>2, <1>7 DEF Blank
<1> QED
  BY <1>1, <1>2, <1>3, <1>4, <1>5, <1>6, <1>7

\* Two line starts with neither a newline before n between them.
LEMMA OneLine ==
  ASSUME NEW s, NEW e, NEW k \in Strings, NEW v \in Strings, Len(body) \in Nat, Given(s, e, k, v),
         NEW r \in 1 .. e, LineStart(r), \A m \in r .. e - 1 : body[m] # "nl"
  PROVE  s = r
<1>1. s \in 1 .. Len(body) /\ e \in s .. Len(body) /\ LineStart(s)
  BY DEF Given
<1>2. \A n \in s .. e - 1 : body[n] # "nl"
  BY Span, PrfAssumption
<1>3. CASE s < r
  <2>1. r - 1 \in s .. e - 1 /\ r # 1
    BY <1>1, <1>3
  <2> QED
    BY <1>2, <2>1 DEF LineStart
<1>4. CASE r < s
  <2>1. s - 1 \in r .. e - 1 /\ s # 1
    BY <1>1, <1>4
  <2> QED
    BY <1>1, <2>1 DEF LineStart
<1> QED
  BY <1>1, <1>3, <1>4

\* Two descriptions of one word agree.
LEMMA SameWord ==
  ASSUME NEW k \in Strings, NEW w \in Strings, NEW a \in Nat, NEW b \in Nat,
         Spells(a, b, k), Spells(a, b, w)
  PROVE  k = w
<1>1. Len(k) \in Nat /\ Len(w) \in Nat /\ k \in Seq(Chars) /\ w \in Seq(Chars)
  BY DEF Strings
<1>2. Len(k) = Len(w)
  BY <1>1 DEF Spells
<1>3. \A n \in 1 .. Len(k) : k[n] = w[n]
  BY <1>1, <1>2 DEF Spells
<1> QED
  BY <1>1, <1>2, <1>3, SeqEqual

\* Where the parser is not within a value, no pair ends.
LEMMA NoneEnds ==
  ASSUME NEW s, NEW e, NEW k \in Strings, NEW v \in Strings, Len(body) \in Nat, Given(s, e, k, v),
         NEW r \in 1 .. e, NEW q \in States \ {"VALUE", "PV"}, NEW k0 \in Strings, NEW v0,
         Here(r, e, q, k0, v0)
  PROVE  FALSE
<1>1. s = r
  BY OneLine DEF Here
<1>2. PICK a, b, c, d \in s .. e : /\ Keyed(s, a, b, c, k) /\ c < d
                                   /\ Spells(c, d, v) /\ Blank(d, e)
  BY DEF Given
<1>3. /\ s \in Nat /\ e \in Nat /\ s <= a /\ a < b /\ b < c /\ c < d /\ d <= e
      /\ body[a] \in Letters /\ body[b] = "sp" /\ body[c] \in Letters
      /\ body[e] \in {"nl", "hash"}
  BY <1>2 DEF Given, Keyed, Spells, Blank
<1>4. "sp" \notin Letters /\ "nl" \notin Letters /\ "hash" \notin Letters
  BY PrfAssumption
<1>5. CASE q = "LINE"
  BY <1>1, <1>3, <1>5 DEF Here
<1>6. CASE q = "SETTING"
  BY <1>1, <1>3, <1>4, <1>6 DEF Here, Blank
<1>7. ASSUME NEW x \in s .. e, Blank(s, x), Spells(x, e, k0) PROVE FALSE
  <2>1. x <= a
    BY <1>3, <1>4, <1>7 DEF Blank
  <2>2. body[b] \in Letters
    BY <1>3, <1>7, <2>1 DEF Spells
  <2> QED
    BY <1>3, <1>4, <2>2
<1>8. CASE q = "IKV"
  <2>1. PICK x, y \in s .. e : Keyed(s, x, y, e, k0)
    BY <1>1, <1>8 DEF Here
  <2>2. x <= a
    BY <1>3, <1>4, <2>1 DEF Keyed, Blank
  <2>3. c < y
    BY <1>3, <1>4, <2>1 DEF Keyed, Blank
  <2>4. body[b] \in Letters
    BY <1>3, <2>1, <2>2, <2>3 DEF Keyed, Spells
  <2> QED
    BY <1>3, <1>4, <2>4
<1>9. CASE q = "KEY"
  BY <1>1, <1>7, <1>9 DEF Here
<1>10. CASE q = "COMMENT"
  <2>1. \A h \in s .. e - 1 : body[h] # "hash"
    BY <1>4, Span
  <2> QED
    BY <1>1, <1>7, <1>10, <2>1 DEF Here
<1> QED
  BY <1>5, <1>6, <1>8, <1>9, <1>10 DEF States

\* Where a value ends, it is the one the parser has.
LEMMA OneEnds ==
  ASSUME NEW s, NEW e, NEW k \in Strings, NEW v \in Strings, Len(body) \in Nat, Given(s, e, k, v),
         NEW r \in 1 .. e, NEW k0 \in Strings, NEW v0 \in Strings, Here(r, e, "VALUE", k0, v0)
  PROVE  k = k0 /\ v = v0
<1>1. s = r
  BY OneLine DEF Here
<1>2. PICK a, b, c, d \in s .. e : /\ Keyed(s, a, b, c, k) /\ c < d
                                   /\ Spells(c, d, v) /\ Blank(d, e)
  BY DEF Given
<1>3. PICK x, y, z \in s .. e : /\ Keyed(s, x, y, z, k0) /\ body[z] \in Letters
                                /\ OneWord(z, e, "VALUE", v0) \/ TwoWords(z, e)
  BY <1>1 DEF Here
<1>4. /\ s \in Nat /\ e \in Nat /\ s <= a /\ a < b /\ b < c /\ c < d /\ d <= e
      /\ s <= x /\ x < y /\ y < z /\ z <= e
  BY <1>2, <1>3 DEF Given, Keyed
<1>5. "sp" \notin Letters
  BY PrfAssumption
<1>6. a = x
  <2>1. body[a] \in Letters /\ body[x] \in Letters
    BY <1>2, <1>3, <1>4 DEF Keyed, Spells
  <2> QED
    BY <1>2, <1>3, <1>4, <1>5, <2>1 DEF Keyed, Blank
<1>7. /\ \A n \in a .. b - 1 : body[n] \in Letters
      /\ \A n \in x .. y - 1 : body[n] \in Letters
      /\ \A n \in b .. c - 1 : body[n] = "sp"
      /\ \A n \in y .. z - 1 : body[n] = "sp"
      /\ body[c] \in Letters /\ body[z] \in Letters
  BY <1>2, <1>3, <1>4 DEF Keyed, Spells, Blank
<1>8. b = y
  <2>1. CASE b < y
    <3>1. b \in x .. y - 1 /\ b \in b .. c - 1
      BY <1>4, <1>6, <2>1
    <3> QED
      BY <1>5, <1>7, <3>1
  <2>2. CASE y < b
    <3>1. y \in a .. b - 1 /\ y \in y .. z - 1
      BY <1>4, <1>6, <2>2
    <3> QED
      BY <1>5, <1>7, <3>1
  <2> QED
    BY <1>4, <2>1, <2>2
<1>9. c = z
  <2>1. CASE c < z
    <3>1. c \in y .. z - 1
      BY <1>4, <1>8, <2>1
    <3> QED
      BY <1>5, <1>7, <3>1
  <2>2. CASE z < c
    <3>1. z \in b .. c - 1
      BY <1>4, <1>8, <2>2
    <3> QED
      BY <1>5, <1>7, <3>1
  <2> QED
    BY <1>4, <2>1, <2>2
<1>10. k = k0
  <2>1. Spells(a, b, k) /\ Spells(a, b, k0) /\ a \in Nat /\ b \in Nat
    BY <1>2, <1>3, <1>4, <1>6, <1>8 DEF Keyed
  <2> QED
    BY <2>1, SameWord
<1>11. ~TwoWords(c, e)
  <2> SUFFICES ASSUME NEW m \in c .. e - 1, NEW l \in m .. e - 1, body[m] = "sp", body[l] \in Letters
               PROVE  FALSE
    BY DEF TwoWords
  <2>1. d <= m
    BY <1>2, <1>4, <1>5 DEF Spells
  <2> QED
    BY <1>2, <1>4, <1>5, <2>1 DEF Blank
<1>12. PICK w \in z .. e : Spells(z, w, v0) /\ Blank(w, e)
  BY <1>3, <1>9, <1>11 DEF OneWord
<1>13. d = w
  <2>1. CASE d < w
    BY <1>2, <1>4, <1>5, <1>9, <1>12, <2>1 DEF Spells, Blank
  <2>2. CASE w < d
    BY <1>2, <1>4, <1>5, <1>9, <1>12, <2>2 DEF Spells, Blank
  <2> QED
    BY <1>4, <2>1, <2>2
<1>14. v = v0
  <2>1. Spells(c, d, v) /\ Spells(c, d, v0) /\ c \in Nat /\ d \in Nat
    BY <1>2, <1>4, <1>9, <1>12, <1>13
  <2> QED
    BY <2>1, SameWord
<1> QED
  BY <1>10, <1>14

\* A pair that ended before the parser's place, and is the last with its key,
\* has another key than the pair the parser is at.
LEMMA OtherKey ==
  ASSUME NEW s, NEW e, NEW k \in Strings, NEW v \in Strings, Len(body) \in Nat, Given(s, e, k, v),
         NEW n \in 1 .. Len(body), e < n,
         NEW r \in 1 .. n, NEW k0 \in Strings, NEW v0, Here(r, n, "VALUE", k0, v0),
         Final(s, k)
  PROVE  k # k0
<1>1. s \in 1 .. Len(body) /\ e \in s .. Len(body) /\ LineStart(s) /\ body[e] \in {"nl", "hash"}
  BY DEF Given
<1>2. \A m \in r .. n - 1 : body[m] # "nl" /\ body[m] # "hash"
  BY DEF Here
<1>3. e < r
  BY <1>1, <1>2
<1>4. PICK x, y, z \in r .. n : Keyed(r, x, y, z, k0)
  BY DEF Here
<1>5. /\ r <= x /\ x < y /\ y < z /\ z <= n /\ y = x + Len(k0)
      /\ \A m \in 1 .. Len(k0) : body[x + m - 1] = k0[m]
      /\ Blank(r, x) /\ Blank(y, z)
  BY <1>4 DEF Keyed, Spells
<1>6. Len(k0) \in Nat
  BY DEF Strings
<1>7. Mentions(r, k0)
  <2>1. LineStart(r) /\ x \in r .. Len(body)
    BY <1>5 DEF Here
  <2>2. Stands(x, k0)
    BY <1>5, <1>6 DEF Stands
  <2>3. x + Len(k0) <= Len(body) /\ body[x + Len(k0)] = "sp"
    BY <1>5, <1>6 DEF Blank
  <2> QED
    BY <1>5, <2>1, <2>2, <2>3 DEF Mentions
<1>8. r \in s + 1 .. Len(body)
  BY <1>1, <1>3
<1> QED
  BY <1>7, <1>8 DEF Final

\* The parser goes on by one character, or stays, and the table grows or stays.
LEMMA KeptOn ==
  ASSUME NEW p, Sound(p), NEW p2, Sound(p2), Grown(p, p2),
         Len(body) \in Nat, NEW n \in 1 .. Len(body), Kept(p, n),
         NEW n2, n2 = n \/ n2 = n + 1,
         NEW r \in 1 .. n, NEW q \in States, NEW k0 \in Strings, NEW v0, Here(r, n, q, k0, v0),
         n2 = n \/ q \notin {"VALUE", "PV"} \/ body[n] \notin {"nl", "hash"}
  PROVE  Kept(p2, n2)
<1> SUFFICES ASSUME Entries(p2) + 1 < MaxLen,
                    NEW s \in 1 .. Len(body), NEW e \in 1 .. Len(body),
                    NEW k \in Strings, NEW v \in Strings,
                    e < n2, Given(s, e, k, v), Final(s, k)
             PROVE  Holds(p2, k, v)
  BY DEF Kept
<1>1. Entries(p) + 1 < MaxLen
  BY PairNumbers, PrfAssumption DEF Grown
<1>2. body[e] \in {"nl", "hash"}
  BY DEF Given
<1>3. CASE e < n
  BY <1>1, <1>3 DEF Kept, Grown
<1>4. CASE ~(e < n)
  <2>1. e = n /\ n2 = n + 1
    BY <1>4
  <2>2. q \in States \ {"VALUE", "PV"} /\ r \in 1 .. e /\ Here(r, e, q, k0, v0)
    BY <1>2, <2>1
  <2> QED
    BY <2>2, NoneEnds
<1> QED
  BY <1>3, <1>4

\* The parser comes to the end of a value and stores the pair.
LEMMA KeptValue ==
  ASSUME NEW p, Sound(p), Distinct(p), Len(body) \in Nat, NEW n \in 1 .. Len(body), Kept(p, n),
         NEW r \in 1 .. n, NEW k0 \in Strings, NEW v0 \in Strings, Here(r, n, "VALUE", k0, v0)
  PROVE  Kept(Set(p, k0, v0), n + 1)
<1>1. PICK p2 : p2 = Set(p, k0, v0)
  OBVIOUS
<1>2. /\ Sound(p2) /\ Entries(p2) >= Entries(p)
      /\ Entries(p2) + 1 < MaxLen => Holds(p2, k0, v0)
      /\ \A k2, w : k2 # k0 /\ Holds(p, k2, w) => Holds(p2, k2, w)
  BY <1>1, SetSound, SetHolds
<1> SUFFICES ASSUME Entries(p2) + 1 < MaxLen,
                    NEW s \in 1 .. Len(body), NEW e \in 1 .. Len(body),
                    NEW k \in Strings, NEW v \in Strings,
                    e < n + 1, Given(s, e, k, v), Final(s, k)
             PROVE  Holds(p2, k, v)
  BY <1>1 DEF Kept
<1>3. Entries(p) + 1 < MaxLen
  BY <1>2, PairNumbers, PrfAssumption
<1>4. CASE e < n
  BY <1>2, <1>3, <1>4, OtherKey DEF Kept
<1>5. CASE e = n
  BY <1>2, <1>5, OneEnds
<1> QED
  BY <1>4, <1>5

(***************************************************************************)
(* One character further                                                   *)
(***************************************************************************)

\* The character at n is a newline: the next line starts.
LEMMA NextLine ==
  ASSUME NEW n \in 1 .. Len(body), Len(body) \in Nat, body[n] = "nl", NEW k, NEW v
  PROVE  Here(n + 1, n + 1, "LINE", k, v)
<1>1. LineStart(n + 1)
  BY DEF LineStart
<1>2. \A m \in n + 1 .. (n + 1) - 1 : FALSE
  OBVIOUS
<1> QED
  BY <1>1, <1>2 DEF Here

\* The part of the line that is known grows by a character.
LEMMA Within ==
  ASSUME NEW n \in 1 .. Len(body), Len(body) \in Nat, NEW r \in 1 .. n, NEW q, NEW k, NEW v,
         Here(r, n, q, k, v), body[n] # "nl"
  PROVE  /\ LineStart(r) /\ r \in 1 .. n + 1
         /\ \A m \in r .. (n + 1) - 1 : m \in r .. n - 1 \/ m = n
         /\ \A m \in r .. (n + 1) - 1 : body[m] # "nl"
         /\ (q # "COMMENT" /\ body[n] # "hash") => \A m \in r .. (n + 1) - 1 : body[m] # "hash"
<1>1. \A m \in r .. (n + 1) - 1 : m \in r .. n - 1 \/ m = n
  OBVIOUS
<1> QED
  BY <1>1 DEF Here

\* More of a word, or of the spaces behind it.
LEMMA Longer ==
  ASSUME NEW n \in 1 .. Len(body), NEW a \in 1 .. n
  PROVE  /\ Blank(a, n) /\ body[n] = "sp" => Blank(a, n + 1)
         /\ \A w \in Strings : Spells(a, n, w) /\ body[n] \in Letters => Spells(a, n + 1, Append(w, body[n]))
<1>1. \A m \in a .. (n + 1) - 1 : m \in a .. n - 1 \/ m = n
  OBVIOUS
<1>2. Blank(a, n) /\ body[n] = "sp" => Blank(a, n + 1)
  BY <1>1 DEF Blank
<1>3. ASSUME NEW w \in Strings, Spells(a, n, w), body[n] \in Letters
      PROVE  Spells(a, n + 1, Append(w, body[n]))
  <2>1. w \in Seq(Chars) /\ Len(w) \in Nat /\ body[n] \in Chars
    BY <1>3 DEF Strings, Chars
  <2>2. PICK u, x : u = Append(w, body[n]) /\ x = body[n]
    OBVIOUS
  <2>3. Len(u) = Len(w) + 1 /\ u[Len(w) + 1] = x /\ \A m \in 1 .. Len(w) : u[m] = w[m]
    BY <2>1, <2>2, AppendFacts
  <2>4. n = a + Len(w) /\ \A m \in 1 .. Len(w) : body[a + m - 1] = w[m]
    BY <1>3 DEF Spells
  <2>5. ASSUME NEW m \in 1 .. Len(u) PROVE body[a + m - 1] = u[m]
    <3>1. CASE m \in 1 .. Len(w)
      BY <2>3, <2>4, <3>1
    <3>2. CASE m = Len(w) + 1
      <4>1. a + m - 1 = n
        BY <2>1, <2>4, <3>2
      <4> QED
        BY <2>2, <2>3, <3>2, <4>1
    <3> QED
      BY <2>1, <2>3, <3>1, <3>2
  <2>6. n + 1 = a + Len(u)
    BY <2>1, <2>3, <2>4
  <2>7. \A m \in a .. (n + 1) - 1 : body[m] \in Letters
    BY <1>1, <1>3 DEF Spells
  <2> QED
    BY <2>2, <2>5, <2>6, <2>7 DEF Spells
<1> QED
  BY <1>2, <1>3

\* Nothing stands between a position and itself.
LEMMA Nothing ==
  ASSUME NEW n \in Nat
  PROVE  Blank(n, n) /\ Spells(n, n, <<>>)
<1>1. \A m \in n .. n - 1 : FALSE
  OBVIOUS
<1>2. n = n + Len(<<>>) /\ \A m \in 1 .. Len(<<>>) : FALSE
  OBVIOUS
<1> QED
  BY <1>1, <1>2 DEF Blank, Spells

\* A comment begins or goes on.
LEMMA CommentOn ==
  ASSUME NEW n \in 1 .. Len(body), Len(body) \in Nat, NEW r \in 1 .. n, NEW q, NEW k, NEW v,
         Here(r, n, q, k, v), body[n] = "hash" \/ (q = "COMMENT" /\ body[n] # "nl"), NEW k2, NEW v2
  PROVE  Here(r, n + 1, "COMMENT", k2, v2)
<1>1. body[n] # "nl"
  OBVIOUS
<1>2. LineStart(r) /\ \A m \in r .. (n + 1) - 1 : body[m] # "nl"
  BY <1>1, Within
<1>3. \E h \in r .. (n + 1) - 1 : body[h] = "hash"
  <2>1. n \in r .. (n + 1) - 1 /\ \A h \in r .. n - 1 : h \in r .. (n + 1) - 1
    OBVIOUS
  <2> QED
    BY <2>1 DEF Here
<1> QED
  BY <1>2, <1>3 DEF Here

\* The first character of a line that is neither # nor a newline.
LEMMA HereSetting ==
  ASSUME NEW n \in Nat, NEW r, NEW k, NEW v, Here(r, n, "LINE", k, v)
  PROVE  Here(r, n, "SETTING", k, v)
BY Nothing DEF Here

\* Spaces before the key, the first and a further letter of the key, and the
\* space that ends it or the # that follows it.
LEMMA HereKey ==
  ASSUME NEW n \in 1 .. Len(body), Len(body) \in Nat, NEW r \in 1 .. n, NEW q,
         NEW k \in Strings, NEW v, Here(r, n, q, k, v)
  PROVE  /\ q = "SETTING" /\ body[n] = "sp" => Here(r, n + 1, q, k, v)
         /\ q = "SETTING" /\ body[n] \in Letters => Here(r, n, "KEY", <<>>, v)
         /\ q = "KEY" /\ body[n] \in Letters => Here(r, n + 1, q, Append(k, body[n]), v)
         /\ q = "KEY" /\ body[n] = "sp" => Here(r, n + 1, "IKV", k, <<>>)
         /\ q = "KEY" /\ body[n] = "hash" => Here(r, n, "COMMENT", k, v)
<1>1. "sp" \notin Letters /\ "nl" \notin Letters /\ "hash" \notin Letters
  BY PrfAssumption
<1>2. CASE q = "SETTING" /\ body[n] = "sp"
  <2>1. Blank(r, n + 1)
    BY <1>2, Longer DEF Here
  <2>2. LineStart(r) /\ \A m \in r .. (n + 1) - 1 : body[m] # "nl" /\ body[m] # "hash"
    BY <1>2, Within
  <2> QED
    BY <1>1, <1>2, <2>1, <2>2 DEF Here
<1>3. CASE q = "SETTING" /\ body[n] \in Letters
  <2>1. n \in r .. n /\ n <= Len(body) /\ Blank(r, n) /\ Spells(n, n, <<>>)
    BY <1>3, Nothing DEF Here
  <2> QED
    BY <1>1, <1>3, <2>1 DEF Here
<1>4. CASE q = "KEY"
  <2>1. PICK a \in r .. n : a <= Len(body) /\ body[a] \in Letters /\ Blank(r, a) /\ Spells(a, n, k)
    BY <1>4 DEF Here
  <2>2. CASE body[n] \in Letters
    <3>1. LineStart(r) /\ \A m \in r .. (n + 1) - 1 : body[m] # "nl" /\ body[m] # "hash"
      BY <1>1, <1>4, <2>2, Within
    <3>2. a \in r .. n + 1 /\ Spells(a, n + 1, Append(k, body[n]))
      BY <2>2, <2>1, Longer
    <3> QED
      BY <1>1, <1>4, <2>1, <2>2, <3>1, <3>2 DEF Here
  <2>3. CASE body[n] = "sp"
    <3>1. LineStart(r) /\ \A m \in r .. (n + 1) - 1 : body[m] # "nl" /\ body[m] # "hash"
      BY <1>4, <2>3, Within
    <3>2. a # n
      BY <1>1, <2>1, <2>3
    <3>3. a \in r .. n + 1 /\ n \in r .. n + 1 /\ r <= a /\ a < n /\ n < n + 1
      BY <2>1, <3>2
    <3>4. Blank(n, n + 1)
      BY <2>3, Nothing, Longer
    <3>5. Keyed(r, a, n, n + 1, k)
      BY <2>1, <3>3, <3>4 DEF Keyed
    <3>6. \E x, y \in r .. n + 1 : Keyed(r, x, y, n + 1, k)
      BY <3>3, <3>5
    <3>7. Here(r, n + 1, "IKV", k, <<>>)
      BY <3>1, <3>6 DEF Here
    <3> QED
      BY <1>1, <1>4, <2>3, <3>7
  <2>4. CASE body[n] = "hash"
    <3>1. LineStart(r) /\ \A m \in r .. n - 1 : body[m] # "nl"
      BY DEF Here
    <3>2. n <= Len(body) /\ body[n] = "hash" /\ \E x \in r .. n : Blank(r, x) /\ Spells(x, n, k)
      BY <2>1, <2>4
    <3>3. Here(r, n, "COMMENT", k, v)
      BY <3>1, <3>2 DEF Here
    <3> QED
      BY <1>1, <1>4, <2>4, <3>3
  <2> QED
    BY <1>1, <1>4, <2>2, <2>3, <2>4
<1> QED
  BY <1>2, <1>3, <1>4

\* Spaces between key and value, and the first letter of the value.
LEMMA HereBetween ==
  ASSUME NEW n \in 1 .. Len(body), Len(body) \in Nat, NEW r \in 1 .. n,
         NEW k \in Strings, NEW v, Here(r, n, "IKV", k, v)
  PROVE  /\ body[n] = "sp" => Here(r, n + 1, "IKV", k, v)
         /\ body[n] \in Letters => Here(r, n, "VALUE", k, v)
<1>1. "sp" \notin Letters /\ "nl" \notin Letters /\ "hash" \notin Letters
  BY PrfAssumption
<1>2. PICK a, b \in r .. n : Keyed(r, a, b, n, k) /\ v = <<>>
  BY DEF Here
<1>3. CASE body[n] = "sp"
  <2>1. LineStart(r) /\ \A m \in r .. (n + 1) - 1 : body[m] # "nl" /\ body[m] # "hash"
    BY <1>3, Within
  <2>2. b \in 1 .. n /\ Blank(b, n)
    BY <1>2 DEF Keyed
  <2>3. Blank(b, n + 1)
    BY <1>3, <2>2, Longer
  <2>4. a \in r .. n + 1 /\ b \in r .. n + 1 /\ Keyed(r, a, b, n + 1, k)
    BY <1>2, <2>3 DEF Keyed
  <2> QED
    BY <1>1, <1>2, <1>3, <2>1, <2>4 DEF Here
<1>4. CASE body[n] \in Letters
  <2>1. OneWord(n, n, "VALUE", v)
    <3>1. n \in n .. n /\ Spells(n, n, v) /\ Blank(n, n)
      BY <1>2, Nothing
    <3> QED
      BY <3>1 DEF OneWord
  <2>2. LineStart(r) /\ \A m \in r .. n - 1 : body[m] # "nl" /\ body[m] # "hash"
    BY DEF Here
  <2>3. n \in r .. n /\ n <= Len(body)
    OBVIOUS
  <2>4. Here(r, n, "VALUE", k, v)
    BY <1>2, <1>4, <2>1, <2>2, <2>3 DEF Here
  <2> QED
    BY <1>1, <1>4, <2>4
<1> QED
  BY <1>3, <1>4

\* What is known of the place while the value is read: it depends on the value
\* only through the word, or the second word, before n.
LEMMA HereValueParts ==
  ASSUME NEW n \in Nat, NEW r \in 1 .. n, NEW q \in {"VALUE", "PV"}, NEW k, NEW v, Len(body) \in Nat
  PROVE  Here(r, n, q, k, v) <=>
           /\ LineStart(r)
           /\ \A m \in r .. n - 1 : body[m] # "nl" /\ body[m] # "hash"
           /\ \E a, b, c \in r .. n : /\ Keyed(r, a, b, c, k) /\ c <= Len(body) /\ body[c] \in Letters
                                      /\ OneWord(c, n, q, v) \/ TwoWords(c, n)
BY DEF Here

\* A letter of the value, a space behind it, and what follows that space.
LEMMA HereValue ==
  ASSUME NEW n \in 1 .. Len(body), Len(body) \in Nat, NEW r \in 1 .. n, NEW q \in {"VALUE", "PV"},
         NEW k, NEW v \in Strings, Here(r, n, q, k, v), NEW v2
  PROVE  /\ q = "VALUE" /\ body[n] \in Letters => Here(r, n + 1, q, k, Append(v, body[n]))
         /\ q = "VALUE" /\ body[n] = "sp" => Here(r, n + 1, "PV", k, v)
         /\ q = "PV" => Here(r, n, "VALUE", k, v)
         /\ q = "PV" /\ body[n] \in Letters => Here(r, n + 1, "VALUE", k, v2)
<1>1. "sp" \notin Letters /\ "nl" \notin Letters /\ "hash" \notin Letters
  BY PrfAssumption
<1>2. /\ LineStart(r)
      /\ \A m \in r .. n - 1 : body[m] # "nl" /\ body[m] # "hash"
  BY HereValueParts
<1>3. PICK a, b, c \in r .. n : /\ Keyed(r, a, b, c, k) /\ c <= Len(body) /\ body[c] \in Letters
                                /\ OneWord(c, n, q, v) \/ TwoWords(c, n)
  BY HereValueParts
<1>4. ASSUME NEW n2 \in n .. n + 1, NEW q2 \in {"VALUE", "PV"}, NEW w,
             OneWord(c, n2, q2, w) \/ TwoWords(c, n2),
             n2 = n \/ (body[n] # "nl" /\ body[n] # "hash")
      PROVE  Here(r, n2, q2, k, w)
  <2>1. n2 \in Nat /\ r \in 1 .. n2 /\ a \in r .. n2 /\ b \in r .. n2 /\ c \in r .. n2
    OBVIOUS
  <2>2. \A m \in r .. n2 - 1 : body[m] # "nl" /\ body[m] # "hash"
    <3> TAKE m \in r .. n2 - 1
    <3>1. m \in r .. n - 1 \/ (m = n /\ n2 # n)
      OBVIOUS
    <3> QED
      BY <1>2, <1>4, <3>1
  <2> QED
    BY <1>2, <1>3, <1>4, <2>1, <2>2, HereValueParts
<1>5. TwoWords(c, n) => TwoWords(c, n + 1)
  BY DEF TwoWords
<1>6. ASSUME OneWord(c, n, q, v) PROVE \E d \in c .. n : Spells(c, d, v) /\ Blank(d, n) /\ (q = "PV" => d < n)
  BY <1>6 DEF OneWord
<1>7. ASSUME body[n] \in Letters, NEW d \in c .. n, Blank(d, n), d < n PROVE TwoWords(c, n + 1)
  <2>1. d \in c .. (n + 1) - 1 /\ n \in d .. (n + 1) - 1 /\ body[d] = "sp"
    BY <1>7 DEF Blank
  <2> QED
    BY <1>7, <2>1 DEF TwoWords
<1>8. CASE q = "VALUE" /\ body[n] \in Letters
  <2>1. OneWord(c, n + 1, q, Append(v, body[n])) \/ TwoWords(c, n + 1)
    <3>1. CASE OneWord(c, n, q, v)
      <4>1. PICK d \in c .. n : Spells(c, d, v) /\ Blank(d, n)
        BY <1>6, <3>1
      <4>2. CASE d = n
        <5>1. Spells(c, n + 1, Append(v, body[n]))
          BY <1>8, <4>1, <4>2, Longer
        <5>2. n + 1 \in c .. n + 1 /\ Blank(n + 1, n + 1)
          BY Nothing
        <5> QED
          BY <1>8, <5>1, <5>2 DEF OneWord
      <4>3. CASE d < n
        BY <1>7, <1>8, <4>1, <4>3
      <4> QED
        BY <4>2, <4>3
    <3>2. CASE TwoWords(c, n)
      BY <1>5, <3>2
    <3> QED
      BY <1>3, <3>1, <3>2
  <2>2. n + 1 \in n .. n + 1 /\ body[n] # "nl" /\ body[n] # "hash"
    BY <1>1, <1>8
  <2> QED
    BY <1>1, <1>4, <1>8, <2>1, <2>2
<1>9. CASE q = "VALUE" /\ body[n] = "sp"
  <2>1. OneWord(c, n + 1, "PV", v) \/ TwoWords(c, n + 1)
    <3>1. CASE OneWord(c, n, q, v)
      <4>1. PICK d \in c .. n : Spells(c, d, v) /\ Blank(d, n)
        BY <1>6, <3>1
      <4>2. d \in 1 .. n /\ d \in c .. n + 1 /\ d < n + 1
        OBVIOUS
      <4>3. Blank(d, n + 1)
        BY <1>9, <4>1, <4>2, Longer
      <4> QED
        BY <4>1, <4>2, <4>3 DEF OneWord
    <3>2. CASE TwoWords(c, n)
      BY <1>5, <3>2
    <3> QED
      BY <1>3, <3>1, <3>2
  <2>2. n + 1 \in n .. n + 1 /\ body[n] # "nl" /\ body[n] # "hash"
    BY <1>1, <1>9
  <2> QED
    BY <1>1, <1>4, <1>9, <2>1, <2>2
<1>10. CASE q = "PV"
  <2>1. OneWord(c, n, "VALUE", v) \/ TwoWords(c, n)
    BY <1>3 DEF OneWord
  <2>2. Here(r, n, "VALUE", k, v)
    BY <1>4, <2>1
  <2>3. ASSUME body[n] \in Letters PROVE Here(r, n + 1, "VALUE", k, v2)
    <3>1. TwoWords(c, n + 1)
      <4>1. CASE OneWord(c, n, q, v)
        BY <1>6, <1>7, <1>10, <2>3, <4>1
      <4> QED
        BY <1>3, <1>5, <4>1
    <3>2. n + 1 \in n .. n + 1 /\ body[n] # "nl" /\ body[n] # "hash"
      BY <1>1, <2>3
    <3> QED
      BY <1>4, <3>1, <3>2
  <2> QED
    BY <1>10, <2>2, <2>3
<1> QED
  BY <1>8, <1>9, <1>10

(***************************************************************************)
(* What prf_read finds                                                     *)
(***************************************************************************)

\* The parser is somewhere on a line; the table has one pair for each key and,
\* unless it is full, every pair that was the last with its key up to here;
\* the parser stops before the end of the file only if the table is full.
Understood ==
  /\ Distinct(prf)
  /\ phase = "read" => \E s \in 1 .. i : Here(s, i, state, key, val)
  /\ phase \in {"read", "ready"} => Kept(prf, i)
  /\ phase = "ready" /\ Entries(prf) + 1 < MaxLen => i = Len(body) + 1

\* What is understood is a matter of the file and of the parser's variables.
LEMMA SameText ==
  ASSUME body' = body
  PROVE  /\ \A s, n, q, k, v : Here(s, n, q, k, v)' <=> Here(s, n, q, k, v)
         /\ \A p, n : Kept(p, n)' <=> Kept(p, n)
<1>1. body' = body
  OBVIOUS
<1>2. ASSUME NEW a, NEW b PROVE Blank(a, b)' <=> Blank(a, b)
  BY <1>1 DEF Blank
<1>3. ASSUME NEW a, NEW b, NEW w PROVE Spells(a, b, w)' <=> Spells(a, b, w)
  BY <1>1 DEF Spells
<1>4. ASSUME NEW z, NEW a, NEW b, NEW c, NEW w PROVE Keyed(z, a, b, c, w)' <=> Keyed(z, a, b, c, w)
  BY <1>2, <1>3 DEF Keyed
<1>5. ASSUME NEW z PROVE LineStart(z)' <=> LineStart(z)
  BY <1>1 DEF LineStart
<1>6. ASSUME NEW s, NEW n, NEW q, NEW k, NEW v PROVE Here(s, n, q, k, v)' <=> Here(s, n, q, k, v)
  <2>1. ASSUME NEW c, NEW m, NEW p, NEW w PROVE OneWord(c, m, p, w)' <=> OneWord(c, m, p, w)
    BY <1>2, <1>3 DEF OneWord
  <2>2. ASSUME NEW c, NEW m PROVE TwoWords(c, m)' <=> TwoWords(c, m)
    BY <1>1 DEF TwoWords
  <2> QED
    BY <1>1, <1>2, <1>3, <1>4, <1>5, <2>1, <2>2 DEF Here
<1>7. ASSUME NEW p, NEW n PROVE Kept(p, n)' <=> Kept(p, n)
  <2>1. ASSUME NEW z, NEW e, NEW k, NEW v PROVE Given(z, e, k, v)' <=> Given(z, e, k, v)
    BY <1>1, <1>2, <1>3, <1>4, <1>5 DEF Given
  <2>2. ASSUME NEW a, NEW w PROVE Stands(a, w)' <=> Stands(a, w)
    BY <1>1 DEF Stands
  <2>3. ASSUME NEW z, NEW k PROVE Mentions(z, k)' <=> Mentions(z, k)
    BY <1>1, <1>2, <1>5, <2>2 DEF Mentions
  <2>4. ASSUME NEW z, NEW k PROVE Final(z, k)' <=> Final(z, k)
    BY <1>1, <2>3 DEF Final
  <2> QED
    BY <1>1, <2>1, <2>4 DEF Kept
<1> QED
  BY <1>6, <1>7

\* A step that leaves file and parser where they are.
LEMMA UnderstandsSame ==
  ASSUME UNCHANGED <<body, i, state, key, val>>, Distinct(prf'),
         phase' = "read" => \E s \in 1 .. i : Here(s, i, state, key, val),
         phase' \in {"read", "ready"} => Kept(prf', i),
         phase' = "ready" /\ Entries(prf') + 1 < MaxLen => i = Len(body) + 1
  PROVE  Understood'
<1>1. Distinct(prf)' /\ (Entries(prf)' + 1 < MaxLen <=> Entries(prf') + 1 < MaxLen)
  BY DEF Distinct, Entries
<1>2. phase' = "read" => \E s \in 1 .. i' : Here(s, i, state, key, val)'
  <2> SUFFICES ASSUME phase' = "read" PROVE \E s \in 1 .. i' : Here(s, i, state, key, val)'
    OBVIOUS
  <2>1. PICK s \in 1 .. i : Here(s, i, state, key, val)
    OBVIOUS
  <2>2. Here(s, i', state', key', val')
    BY <2>1
  <2>3. Here(s, i, state, key, val)'
    BY <2>2, SameText
  <2> QED
    BY <2>3
<1>3. phase' \in {"read", "ready"} => Kept(prf, i)'
  <2>1. phase' \in {"read", "ready"} => Kept(prf', i')
    OBVIOUS
  <2> QED
    BY <2>1, SameText
<1> QED
  BY <1>1, <1>2, <1>3 DEF Understood

\* One step of the parser, from what it finds to what it leaves.
LEMMA Understands ==
  ASSUME IInv, Understood, NEW s, NEW chars, At(s, chars),
         NEW r \in 1 .. i', Here(r, i', state', key', val'), i' \in 1 .. Len(body) + 1,
         Distinct(prf'), Kept(prf', i')
  PROVE  Understood'
<1>1. body' = body /\ phase' = "read" /\ Len(body) \in Nat
  BY AtFacts
<1>2. Here(r, i, state, key, val)' /\ Kept(prf, i)'
  BY <1>1, SameText
<1>3. Distinct(prf)'
  BY DEF Distinct
<1> QED
  BY <1>1, <1>2, <1>3 DEF Understood

\* As long as no value ends, the table need only grow.
LEMMA UnderstandsMore ==
  ASSUME IInv, Understood, NEW s, NEW chars, At(s, chars), Sound(prf'),
         i' = i \/ i' = i + 1, Grown(prf, prf'),
         i' = i \/ s \notin {"VALUE", "PV"} \/ body[i] \notin {"nl", "hash"},
         NEW r \in 1 .. i', Here(r, i', state', key', val')
  PROVE  Understood'
<1>1. /\ state = s /\ phase = "read" /\ i \in 1 .. Len(body) /\ Len(body) \in Nat
  BY AtFacts
<1>2. Sound(prf) /\ state \in States /\ key \in Strings
  BY DEF IInv, Texts
<1>3. PICK z \in 1 .. i : Here(z, i, state, key, val)
  BY <1>1 DEF Understood
<1>4. Kept(prf, i) /\ Distinct(prf)
  BY <1>1 DEF Understood
<1>5. Kept(prf', i')
  BY <1>1, <1>2, <1>3, <1>4, KeptOn
<1>6. Distinct(prf') /\ i' \in 1 .. Len(body) + 1
  BY <1>1, <1>4 DEF Grown
<1> QED
  BY <1>5, <1>6, Understands

\* Where a value ends, the pair is stored.
LEMMA UnderstandsValue ==
  ASSUME IInv, Understood, NEW chars, At("VALUE", chars),
         i' = i + 1, prf' = Set(prf, key, val),
         NEW r \in 1 .. i', Here(r, i', state', key', val')
  PROVE  Understood'
<1>1. /\ state = "VALUE" /\ phase = "read" /\ i \in 1 .. Len(body) /\ Len(body) \in Nat
  BY AtFacts
<1>2. Sound(prf) /\ key \in Strings /\ val \in Strings
  BY DEF IInv, Texts
<1>3. PICK z \in 1 .. i : Here(z, i, "VALUE", key, val)
  BY <1>1 DEF Understood
<1>4. Kept(prf, i) /\ Distinct(prf)
  BY <1>1 DEF Understood
<1>5. Kept(prf', i')
  BY <1>1, <1>2, <1>3, <1>4, KeptValue
<1>6. Distinct(prf') /\ i' \in 1 .. Len(body) + 1
  BY <1>1, <1>2, <1>4, SetHolds
<1> QED
  BY <1>5, <1>6, Understands

\* One character of the file.
LEMMA UnderstandsSteps == IInv /\ Understood /\ ReadStep => Understood'
<1> SUFFICES ASSUME IInv, Understood, ReadStep PROVE Understood'
  OBVIOUS
<1>1. /\ Sound(prf) /\ key \in Strings /\ val \in Strings /\ cmt \in Strings
      /\ state \in States
  BY DEF IInv, Texts
<1>2. "sp" \notin Letters /\ "nl" \notin Letters /\ "hash" \notin Letters
  BY PrfAssumption
<1>3. ASSUME NEW s, NEW chars, At(s, chars)
      PROVE  /\ i \in 1 .. Len(body) /\ Len(body) \in Nat /\ body[i] \in chars /\ state = s
             /\ i + 1 \in 1 .. i + 1
             /\ \E r \in 1 .. i : r \in 1 .. i + 1 /\ Here(r, i, s, key, val)
  <2>1. /\ i \in 1 .. Len(body) /\ Len(body) \in Nat /\ body[i] \in chars /\ state = s
        /\ phase = "read"
    BY <1>3, AtFacts
  <2>2. PICK r \in 1 .. i : Here(r, i, s, key, val)
    BY <2>1 DEF Understood
  <2>3. r \in 1 .. i + 1 /\ i + 1 \in 1 .. i + 1
    BY <2>1
  <2> QED
    BY <2>1, <2>2, <2>3
<1>4. Grown(prf, prf)
  BY <1>1, SameGrows
<1>5. CountLine => Grown(prf, prf') /\ Sound(prf')
  BY <1>1, CountGrows, CountSound DEF CountLine
<1>6. ASSUME NEW s, NEW chars, At(s, chars), body[i] = "nl", i' = i + 1, state' = "LINE",
             s \notin {"VALUE", "PV"}, Sound(prf'), Grown(prf, prf')
      PROVE  Understood'
  <2>1. i' \in 1 .. i' /\ Here(i', i', state', key', val')
    BY <1>3, <1>6, NextLine
  <2> QED
    BY <1>6, <2>1, UnderstandsMore
<1>7. ASSUME NEW s, NEW chars, At(s, chars), i' = i + 1, state' = "COMMENT",
             body[i] = "hash" \/ (s = "COMMENT" /\ body[i] # "nl"),
             s \notin {"VALUE", "PV"}, prf' = prf
      PROVE  Understood'
  <2>1. PICK r \in 1 .. i : r \in 1 .. i + 1 /\ Here(r, i, s, key, val)
    BY <1>3, <1>7
  <2>2. Here(r, i', state', key', val')
    BY <1>3, <1>7, <2>1, CommentOn
  <2> QED
    BY <1>1, <1>4, <1>7, <2>1, <2>2, UnderstandsMore
<1>8. ASSUME NEW s, NEW chars, At(s, chars), i' = i \/ i' = i + 1, prf' = prf,
             i' = i \/ body[i] \notin {"nl", "hash"},
             NEW r \in 1 .. i, Here(r, i', state', key', val')
      PROVE  Understood'
  <2>1. r \in 1 .. i'
    BY <1>3, <1>8
  <2> QED
    BY <1>1, <1>4, <1>8, <2>1, UnderstandsMore
<1>10. CASE LineHash
  BY <1>10, <1>3, <1>7 DEF LineHash, Eat, Goto
<1>11. CASE LineEmpty
  <2>1. At("LINE", {"nl"}) /\ i' = i + 1 /\ CountLine /\ state' = state
    BY <1>11 DEF LineEmpty, Eat
  <2> QED
    BY <1>3, <1>5, <1>6, <2>1
<1>12. CASE LineSetting
  <2>1. PICK r \in 1 .. i : Here(r, i, "LINE", key, val)
    BY <1>12, <1>3 DEF LineSetting
  <2>2. i \in Nat
    BY <1>12, <1>3 DEF LineSetting
  <2>3. Here(r, i, "SETTING", key, val)
    BY <2>1, <2>2, HereSetting
  <2> QED
    BY <1>12, <1>8, <2>3 DEF LineSetting, Goto
<1>13. CASE CommentUnset
  <2>1. /\ phase = "read" /\ phase' \in {"read", "wild"}
        /\ UNCHANGED <<body, i, state, key, val, prf>>
    BY <1>13 DEF CommentUnset
  <2>2. (\E s \in 1 .. i : Here(s, i, state, key, val)) /\ Kept(prf, i) /\ Distinct(prf)
    BY <2>1 DEF Understood
  <2> QED
    BY <2>1, <2>2, UnderstandsSame
<1>14. CASE CommentEnd
  <2>1. At("COMMENT", {"nl"}) /\ i' = i + 1 /\ state' = "LINE" /\ prf' = AddComment(prf, cmt)
    BY <1>14 DEF CommentEnd, Eat, Goto
  <2>2. Entries(prf) <= MaxLen
    BY <2>1, AtFacts
  <2>3. Sound(prf') /\ Grown(prf, prf')
    BY <1>1, <2>1, <2>2, CommentSound, CommentGrows
  <2> QED
    BY <1>3, <1>6, <2>1, <2>3
<1>15. CASE CommentText
  <2>1. /\ At("COMMENT", Chars \ {"nl"}) /\ i' = i + 1 /\ state' = state /\ prf' = prf
    BY <1>15 DEF CommentText, Eat
  <2> QED
    BY <1>3, <1>7, <2>1
<1>16. CASE SettingEmpty
  BY <1>16, <1>3, <1>5, <1>6 DEF SettingEmpty, Eat, Goto
<1>17. CASE SettingSpace
  <2>1. At("SETTING", {"sp"}) /\ i' = i + 1 /\ UNCHANGED <<state, key, val, prf>>
    BY <1>17 DEF SettingSpace, Eat
  <2>2. PICK r \in 1 .. i : Here(r, i, "SETTING", key, val)
    BY <1>3, <2>1
  <2>3. Here(r, i', state', key', val')
    BY <1>1, <1>3, <2>1, <2>2, HereKey
  <2> QED
    BY <1>3, <1>8, <2>1, <2>3
<1>18. CASE SettingHash
  BY <1>18, <1>3, <1>7 DEF SettingHash, Eat, Goto
<1>19. CASE SettingKey
  <2>1. At("SETTING", Letters) /\ i' = i /\ state' = "KEY" /\ key' = <<>> /\ val' = val /\ prf' = prf
    BY <1>19 DEF SettingKey, Goto
  <2>2. PICK r \in 1 .. i : Here(r, i, "SETTING", key, val)
    BY <1>3, <2>1
  <2>3. Here(r, i', state', key', val')
    BY <1>1, <1>3, <2>1, <2>2, HereKey
  <2> QED
    BY <1>3, <1>8, <2>1, <2>3
<1>20. CASE KeyEnd
  <2>1. At("KEY", {"sp"}) /\ i' = i + 1 /\ state' = "IKV" /\ key' = key /\ val' = <<>> /\ prf' = prf
    BY <1>20 DEF KeyEnd, Eat, Goto
  <2>2. PICK r \in 1 .. i : Here(r, i, "KEY", key, val)
    BY <1>3, <2>1
  <2>3. Here(r, i', state', key', val')
    BY <1>1, <1>3, <2>1, <2>2, HereKey
  <2> QED
    BY <1>3, <1>8, <2>1, <2>3
<1>21. CASE KeyAlone
  BY <1>21, <1>3, <1>5, <1>6 DEF KeyAlone, Eat, Goto
<1>22. CASE KeyHash
  <2>1. At("KEY", {"hash"}) /\ i' = i /\ state' = "COMMENT" /\ key' = key /\ val' = val /\ prf' = prf
    BY <1>22 DEF KeyHash, Goto
  <2>2. PICK r \in 1 .. i : Here(r, i, "KEY", key, val)
    BY <1>3, <2>1
  <2>3. Here(r, i', state', key', val')
    BY <1>1, <1>3, <2>1, <2>2, HereKey
  <2> QED
    BY <1>3, <1>8, <2>1, <2>3
<1>23. CASE KeyText
  <2>1. /\ At("KEY", Letters) /\ i' = i + 1 /\ state' = state /\ key' = Append(key, body[i])
        /\ val' = val /\ prf' = prf
    BY <1>23 DEF KeyText, Eat
  <2>2. PICK r \in 1 .. i : Here(r, i, "KEY", key, val)
    BY <1>3, <2>1
  <2>3. Here(r, i', state', key', val')
    BY <1>1, <1>3, <2>1, <2>2, HereKey
  <2> QED
    BY <1>2, <1>3, <1>8, <2>1, <2>3
<1>24. CASE IkvSpace
  <2>1. At("IKV", {"sp"}) /\ i' = i + 1 /\ UNCHANGED <<state, key, val, prf>>
    BY <1>24 DEF IkvSpace, Eat
  <2>2. PICK r \in 1 .. i : Here(r, i, "IKV", key, val)
    BY <1>3, <2>1
  <2>3. Here(r, i', state', key', val')
    BY <1>1, <1>3, <2>1, <2>2, HereBetween
  <2> QED
    BY <1>3, <1>8, <2>1, <2>3
<1>25. CASE IkvAlone
  BY <1>25, <1>3, <1>5, <1>6 DEF IkvAlone, Eat, Goto
<1>26. CASE IkvHash
  BY <1>26, <1>3, <1>7 DEF IkvHash, Eat, Goto
<1>27. CASE IkvValue
  <2>1. At("IKV", Letters) /\ i' = i /\ state' = "VALUE" /\ key' = key /\ val' = val /\ prf' = prf
    BY <1>27 DEF IkvValue, Goto
  <2>2. PICK r \in 1 .. i : Here(r, i, "IKV", key, val)
    BY <1>3, <2>1
  <2>3. Here(r, i', state', key', val')
    BY <1>1, <1>3, <2>1, <2>2, HereBetween
  <2> QED
    BY <1>3, <1>8, <2>1, <2>3
<1>28. CASE ValueEnd
  <2>1. At("VALUE", {"nl"}) /\ i' = i + 1 /\ state' = "LINE" /\ prf' = Set(prf, key, val)
    BY <1>28 DEF ValueEnd, Eat, Goto
  <2>2. i' \in 1 .. i' /\ Here(i', i', state', key', val')
    BY <1>3, <2>1, NextLine
  <2> QED
    BY <2>1, <2>2, UnderstandsValue
<1>29. CASE ValueHash
  <2>1. At("VALUE", {"hash"}) /\ i' = i + 1 /\ state' = "COMMENT" /\ prf' = Set(prf, key, val)
    BY <1>29 DEF ValueHash, Eat, Goto
  <2>2. PICK r \in 1 .. i : r \in 1 .. i + 1 /\ Here(r, i, "VALUE", key, val)
    BY <1>3, <2>1
  <2>3. Here(r, i', state', key', val')
    BY <1>3, <2>1, <2>2, CommentOn
  <2> QED
    BY <2>1, <2>2, <2>3, UnderstandsValue
<1>30. CASE ValueSpace
  <2>1. At("VALUE", {"sp"}) /\ i' = i + 1 /\ state' = "PV" /\ UNCHANGED <<key, val, prf>>
    BY <1>30 DEF ValueSpace, Eat, Goto
  <2>2. PICK r \in 1 .. i : Here(r, i, "VALUE", key, val)
    BY <1>3, <2>1
  <2>3. Here(r, i', state', key', val')
    BY <1>1, <1>3, <2>1, <2>2, HereValue
  <2> QED
    BY <1>3, <1>8, <2>1, <2>3
<1>31. CASE ValueText
  <2>1. /\ At("VALUE", Letters) /\ i' = i + 1 /\ state' = state /\ key' = key
        /\ val' = Append(val, body[i]) /\ prf' = prf
    BY <1>31 DEF ValueText, Eat
  <2>2. PICK r \in 1 .. i : Here(r, i, "VALUE", key, val)
    BY <1>3, <2>1
  <2>3. Here(r, i', state', key', val')
    BY <1>1, <1>3, <2>1, <2>2, HereValue
  <2> QED
    BY <1>2, <1>3, <1>8, <2>1, <2>3
<1>32. CASE PvMeaningless
  <2>1. At("PV", {"nl", "sp", "hash"}) /\ i' = i /\ state' = "VALUE" /\ UNCHANGED <<key, val, prf>>
    BY <1>32 DEF PvMeaningless, Goto
  <2>2. PICK r \in 1 .. i : Here(r, i, "PV", key, val)
    BY <1>3, <2>1
  <2>3. Here(r, i', state', key', val')
    BY <1>1, <1>3, <2>1, <2>2, HereValue
  <2> QED
    BY <1>3, <1>8, <2>1, <2>3
<1>33. CASE PvMeaningful
  <2>1. /\ At("PV", Letters) /\ i' = i + 1 /\ state' = "VALUE" /\ key' = key /\ prf' = prf
        /\ val' = Append(val, "sp")
    BY <1>33 DEF PvMeaningful, Eat, Goto
  <2>2. PICK r \in 1 .. i : Here(r, i, "PV", key, val)
    BY <1>3, <2>1
  <2>3. Here(r, i', state', key', val')
    BY <1>1, <1>3, <2>1, <2>2, HereValue
  <2> QED
    BY <1>2, <1>3, <1>8, <2>1, <2>3
<1>34. CASE ReadEnd
  <2>1. /\ phase = "read" /\ phase' = "ready" /\ UNCHANGED <<body, i, state, key, val, prf>>
        /\ ~MoreToRead
    BY <1>34 DEF ReadEnd, parserVars
  <2>2. Kept(prf, i) /\ Distinct(prf)
    BY <2>1 DEF Understood
  <2>3. Entries(prf) + 1 < MaxLen => i = Len(body) + 1
    <3>1. i \in 1 .. Len(body) + 1 /\ Len(body) \in Nat
      BY DEF IInv, Texts, Strings
    <3>2. Entries(prf) \in Nat /\ MaxLen \in Nat
      BY <1>1, PairNumbers, PrfAssumption
    <3> QED
      BY <2>1, <3>1, <3>2 DEF MoreToRead
  <2> QED
    BY <2>1, <2>2, <2>3, UnderstandsSame
<1> QED
  BY <1>10, <1>11, <1>12, <1>13, <1>14, <1>15, <1>16, <1>17, <1>18, <1>19, <1>20, <1>21, <1>22,
     <1>23, <1>24, <1>25, <1>26, <1>27, <1>28, <1>29, <1>30, <1>31, <1>32, <1>33, <1>34
     DEF ReadStep

\* prf_new's table has one pair.
LEMMA NewDistinct == Distinct(New)
<1>1. New \in Tables /\ Entries(New) <= MaxLen + 1
  BY NewSound DEF Sound
<1>2. PICK p : p = [prfs |-> <<>>, cmts |-> <<>>, linec |-> 0]
  OBVIOUS
<1>3. p.prfs = <<>> /\ p.cmts = <<>> /\ p.linec = 0
  BY <1>2
<1>4. ~Has(p, Port)
  BY <1>3 DEF Has
<1>5. PICK q, e : q = New /\ e = [lineno |-> 0, key |-> Port, val |-> DefaultPort]
  OBVIOUS
<1>6. Entries(p) + 1 < MaxLen
  BY <1>3, PrfAssumption DEF Entries
<1>7. q = [p EXCEPT !.prfs = Append(@, e), !.linec = @ + 1]
  BY <1>2, <1>3, <1>4, <1>5, <1>6 DEF New, Set
<1>8. q.prfs = <<e>>
  <2>1. Append(<<>>, e) = <<e>>
    OBVIOUS
  <2> QED
    BY <1>2, <1>3, <1>7, <2>1
<1>9. DOMAIN q.prfs = {1}
  BY <1>8
<1>10. Distinct(q)
  BY <1>9 DEF Distinct
<1> QED
  BY <1>5, <1>10

\* A parser that starts has understood nothing yet and lost nothing.
LEMMA StartsEmpty ==
  ASSUME Len(body) \in Nat, NEW p, NEW k, NEW v
  PROVE  Here(1, 1, "LINE", k, v) /\ Kept(p, 1)
<1>1. Here(1, 1, "LINE", k, v)
  <2>1. \A m \in 1 .. 1 - 1 : FALSE
    OBVIOUS
  <2> QED
    BY <2>1 DEF Here, LineStart
<1>2. Kept(p, 1)
  BY DEF Kept
<1> QED
  BY <1>1, <1>2

\* The user's changes leave one pair for each key.
LEMMA EntriesDistinct ==
  ASSUME IInv, Understood, NEW addr \in Typed, NEW port \in Typed, SetEntries(addr, port)
  PROVE  Distinct(prf')
<1>1. prf' = SetTyped(SetTyped(prf, Addr, addr), Port, port)
  BY DEF SetEntries
<1>2. Addr \in Strings /\ Port \in Strings /\ addr \in Strings /\ port \in Strings
  BY Words, PrfAssumption DEF Strings
<1>3. ASSUME NEW p, Sound(p), Distinct(p), NEW k \in Strings, NEW v \in Strings
      PROVE  Sound(SetTyped(p, k, v)) /\ Distinct(SetTyped(p, k, v))
  BY <1>3, SetSound, SetHolds DEF SetTyped
<1>4. Sound(SetTyped(prf, Addr, addr)) /\ Distinct(SetTyped(prf, Addr, addr))
  BY <1>2, <1>3 DEF IInv, Understood
<1> QED
  BY <1>1, <1>2, <1>3, <1>4

\* From any file on, through saves and restarts, the parser understands it.
THEOREM ParserUnderstands == Spec => []Understood
<1>1. Init => Understood
  <2> SUFFICES ASSUME Init PROVE Understood
    OBVIOUS
  <2>1. /\ phase = "read" /\ body \in Files /\ i = 1 /\ state = "LINE" /\ prf = New
    BY DEF Init
  <2>2. Len(body) \in Nat
    BY <2>1, PrfAssumption
  <2>3. 1 \in 1 .. i /\ Here(1, i, state, key, val) /\ Kept(prf, i)
    BY <2>1, <2>2, StartsEmpty
  <2> QED
    BY <2>1, <2>3, NewDistinct DEF Understood
<1>2. IInv /\ Understood /\ [Next]_vars => Understood'
  <2> SUFFICES ASSUME IInv, Understood, [Next]_vars PROVE Understood'
    OBVIOUS
  <2>1. Distinct(prf)
    BY DEF Understood
  <2>2. CASE UNCHANGED vars
    <3>1. UNCHANGED <<phase, body, i, state, key, val, prf>>
      BY <2>2 DEF vars, parserVars
    <3>2. /\ phase' = "read" => \E s \in 1 .. i : Here(s, i, state, key, val)
          /\ phase' \in {"read", "ready"} => Kept(prf', i)
          /\ phase' = "ready" /\ Entries(prf') + 1 < MaxLen => i = Len(body) + 1
      BY <3>1 DEF Understood
    <3> QED
      BY <2>1, <3>1, <3>2, UnderstandsSame
  <2>3. CASE ReadStep
    BY <2>3, UnderstandsSteps
  <2>4. CASE \E addr, port \in Typed : Save(addr, port) \/ Connect(addr, port)
    <3>1. PICK addr \in Typed, port \in Typed : Save(addr, port) \/ Connect(addr, port)
      BY <2>4
    <3>2. SetEntries(addr, port) /\ phase' \in {"write", "edited"}
      BY <3>1 DEF Save, Connect
    <3>3. UNCHANGED <<body, i, state, key, val>>
      BY <3>2 DEF SetEntries, parserVars
    <3>4. Distinct(prf')
      BY <3>2, EntriesDistinct
    <3> QED
      BY <3>2, <3>3, <3>4, UnderstandsSame
  <2>5. CASE WriteLine \/ WriteEnd
    <3>1. UNCHANGED <<body, i, state, key, val, prf>> /\ phase' \in {"write", "written"}
      BY <2>5 DEF WriteLine, WriteEnd, parserVars
    <3> QED
      BY <2>1, <3>1, UnderstandsSame
  <2>6. CASE Restart
    <3>1. /\ phase' = "read" /\ body' = out /\ i' = 1 /\ state' = "LINE" /\ prf' = New
      BY <2>6 DEF Restart, StartReading
    <3>2. (Len(body) \in Nat)'
      BY <3>1 DEF IInv, Writer, Strings
    <3>3. ASSUME NEW p, NEW k, NEW v PROVE Here(1, 1, "LINE", k, v)' /\ Kept(p, 1)'
      <4>1. \A m \in 1 .. 1 - 1 : FALSE
        OBVIOUS
      <4>2. Here(1, 1, "LINE", k, v)'
        BY <4>1 DEF Here, LineStart
      <4>3. Kept(p, 1)'
        BY <3>2 DEF Kept
      <4> QED
        BY <4>2, <4>3
    <3>4. Here(1, i, state, key, val)' /\ Kept(prf, i)'
      BY <3>1, <3>3
    <3>5. Distinct(prf)'
      BY <3>1, NewDistinct DEF Distinct
    <3>6. 1 \in 1 .. i'
      BY <3>1
    <3> QED
      BY <3>1, <3>4, <3>5, <3>6 DEF Understood
  <2> QED
    BY <2>2, <2>3, <2>4, <2>5, <2>6 DEF Next
<1> QED
  BY <1>1, <1>2, PreferencesInvariant, PTL DEF Spec

\* A word of letters that stands at a, as the parser sees it.
LEMMA SpellsLetters ==
  ASSUME NEW a \in Nat, NEW b, NEW w, Len(w) \in Nat, b = a + Len(w),
         \A n \in 1 .. Len(w) : body[a + n - 1] = w[n],
         \A n \in 1 .. Len(w) : w[n] \in Letters
  PROVE  Spells(a, b, w)
<1>1. ASSUME NEW n \in a .. b - 1 PROVE body[n] \in Letters
  <2>1. PICK m : m = n - a + 1
    OBVIOUS
  <2>2. m \in 1 .. Len(w) /\ a + m - 1 = n
    BY <2>1
  <2>3. body[a + m - 1] = w[m] /\ w[m] \in Letters
    BY <2>2
  <2> QED
    BY <2>2, <2>3
<1> QED
  BY <1>1 DEF Spells

\* prf_read finds every pair that stands on a line of its own, with whatever
\* spaces and comment, and keeps the last with its key: by what it has
\* understood when it is through with the file.
THEOREM PairsRead == Spec => []ReadsPairs
<1>1. IInv /\ Understood => ReadsPairs
  <2> SUFFICES ASSUME IInv, Understood, phase = "ready", Entries(prf) + 1 < MaxLen,
                      NEW s \in 1 .. Len(body), NEW k \in WordsRead, NEW v \in WordsRead,
                      Gives(s, k, v), \A r \in s + 1 .. Len(body) : ~Mentions(r, k)
               PROVE  v \in Get(prf, k)
    BY DEF ReadsPairs
  <2>1. body \in Seq(Chars) /\ Len(body) \in Nat /\ Sound(prf) /\ Distinct(prf)
    BY DEF IInv, Texts, Strings, Understood
  <2>2. ASSUME NEW w \in WordsRead
        PROVE  w \in Strings /\ Len(w) \in Nat \ {0} /\ \A n \in 1 .. Len(w) : w[n] \in Letters
    <3>1. PICK a \in 1 .. Len(body), b \in 1 .. Len(body) : w = SubSeq(body, a, b)
      BY <2>2 DEF WordsRead
    <3>2. w # <<>> /\ \A n \in 1 .. Len(w) : w[n] \in Letters
      BY <2>2 DEF WordsRead
    <3>3. w \in Seq(Chars)
      BY <2>1, <3>1
    <3>4. Len(w) # 0
      BY <3>2, <3>3, EmptySeq
    <3> QED
      BY <3>2, <3>3, <3>4 DEF Strings
  <2>3. PICK e \in s .. Len(body) : Given(s, e, k, v)
    <3>1. PICK a \in s .. Len(body) :
            /\ Blank(s, a) /\ Stands(a, k)
            /\ \E c \in a + Len(k) + 1 .. Len(body) :
                 /\ Blank(a + Len(k), c) /\ Stands(c, v)
                 /\ \E e \in c + Len(v) .. Len(body) :
                      Blank(c + Len(v), e) /\ body[e] \in {"nl", "hash"}
      BY DEF Gives
    <3>2. PICK c \in a + Len(k) + 1 .. Len(body) :
            /\ Blank(a + Len(k), c) /\ Stands(c, v)
            /\ \E e \in c + Len(v) .. Len(body) :
                 Blank(c + Len(v), e) /\ body[e] \in {"nl", "hash"}
      BY <3>1
    <3>3. PICK e \in c + Len(v) .. Len(body) :
            Blank(c + Len(v), e) /\ body[e] \in {"nl", "hash"}
      BY <3>2
    <3>4. PICK b, d : b = a + Len(k) /\ d = c + Len(v)
      OBVIOUS
    <3>5. /\ s \in Nat /\ e \in Nat /\ s <= a /\ a < b /\ b < c /\ c < d /\ d <= e /\ e <= Len(body)
          /\ a \in Nat /\ b \in Nat /\ c \in Nat /\ d \in Nat
      BY <2>1, <2>2, <3>4
    <3>6. Spells(a, b, k)
      <4>1. \A n \in 1 .. Len(k) : body[a + n - 1] = k[n]
        BY <3>1 DEF Stands
      <4> QED
        BY <2>2, <3>4, <3>5, <4>1, SpellsLetters
    <3>7. Spells(c, d, v)
      <4>1. \A n \in 1 .. Len(v) : body[c + n - 1] = v[n]
        BY <3>2 DEF Stands
      <4> QED
        BY <2>2, <3>4, <3>5, <4>1, SpellsLetters
    <3>8. Keyed(s, a, b, c, k) /\ Blank(d, e)
      BY <3>1, <3>2, <3>3, <3>4, <3>5, <3>6 DEF Keyed
    <3>9. a \in s .. e /\ b \in s .. e /\ c \in s .. e /\ d \in s .. e /\ e \in s .. Len(body)
      BY <3>5
    <3>10. LineStart(s)
      BY DEF Gives
    <3> QED
      BY <3>3, <3>5, <3>7, <3>8, <3>9, <3>10 DEF Given
  <2>4. i = Len(body) + 1 /\ Kept(prf, i)
    BY DEF Understood
  <2>5. e \in 1 .. Len(body) /\ e < i
    BY <2>1, <2>4
  <2>6. Final(s, k)
    BY DEF Final
  <2>7. Holds(prf, k, v)
    BY <2>2, <2>3, <2>4, <2>5, <2>6 DEF Kept
  <2> QED
    BY <2>1, <2>7, HeldIsGot
<1> QED
  BY <1>1, PreferencesInvariant, ParserUnderstands, PTL

(***************************************************************************)
(* The table as a file                                                     *)
(***************************************************************************)

\* What may be a key, a value and a comment if every entry typed is one line
\* without #.
IsKey(k) == Len(k) > 0 /\ \A n \in 1 .. Len(k) : k[n] \in Letters
IsValue(v) == Len(v) > 0 /\ \A n \in 1 .. Len(v) : v[n] \in Letters \/ v[n] = "sp"
InLine(c) == \A n \in 1 .. Len(c) : c[n] # "nl"

\* The port is on line 0, pairs and comments are in the order of their lines,
\* and no line has two of them.
Ordered(p) ==
  /\ p.prfs[1].key = Port /\ p.prfs[1].lineno = 0
  /\ \A j, l \in DOMAIN p.prfs : j < l => p.prfs[j].lineno < p.prfs[l].lineno
  /\ \A j, l \in DOMAIN p.cmts : j < l => p.cmts[j].lineno < p.cmts[l].lineno
  /\ \A j \in DOMAIN p.prfs, l \in DOMAIN p.cmts : p.prfs[j].lineno # p.cmts[l].lineno

\* When a pair was added there was room for it: so there is again when the
\* lines before it have been read.
Room(p) ==
  \A j \in 2 .. Len(p.prfs) : \A m \in 0 .. Len(p.cmts) :
    m = 0 \/ p.cmts[m].lineno < p.prfs[j].lineno => j + m < MaxLen

Texted(p) ==
  /\ \A j \in DOMAIN p.prfs : IsKey(p.prfs[j].key) /\ IsValue(p.prfs[j].val)
  /\ \A l \in DOMAIN p.cmts : InLine(p.cmts[l].data)

Filed(p) == Ordered(p) /\ Room(p) /\ Texted(p)

\* The comments of a table are numbered from 1.
LEMMA CommentNumbers ==
  ASSUME NEW p, Sound(p)
  PROVE  Len(p.cmts) \in Nat /\ DOMAIN p.cmts = 1 .. Len(p.cmts)
<1>1. PICK q : q = p.cmts
  OBVIOUS
<1>2. q \in Seq(Comments)
  BY <1>1, SoundFacts
<1>3. Len(q) \in Nat /\ DOMAIN q = 1 .. Len(q)
  BY <1>2
<1> QED
  BY <1>1, <1>3

\* The lines of a sound table are numbers below its line count.
LEMMA LinesBelow ==
  ASSUME NEW p, Sound(p)
  PROVE  /\ p.linec \in Nat
         /\ \A j \in DOMAIN p.prfs : p.prfs[j].lineno \in Nat /\ p.prfs[j].lineno < p.linec
         /\ \A l \in DOMAIN p.cmts : p.cmts[l].lineno \in Nat /\ p.cmts[l].lineno < p.linec
         /\ \A j \in DOMAIN p.prfs : p.prfs[j].key \in Strings /\ p.prfs[j].val \in Strings
         /\ \A l \in DOMAIN p.cmts : p.cmts[l].data \in Strings
<1>1. PICK prfs, cmts : prfs = p.prfs /\ cmts = p.cmts
  OBVIOUS
<1>2. prfs \in Seq(Pairs) /\ cmts \in Seq(Comments) /\ p.linec \in Nat
  BY <1>1, SoundFacts
<1>3. ASSUME NEW e \in Pairs PROVE e.key \in Strings /\ e.val \in Strings
  BY DEF Pairs
<1>4. ASSUME NEW e \in Comments PROVE e.data \in Strings
  BY DEF Comments
<1>5. /\ \A j \in DOMAIN prfs : prfs[j] \in Pairs /\ prfs[j].lineno \in Nat
      /\ \A l \in DOMAIN cmts : cmts[l] \in Comments /\ cmts[l].lineno \in Nat
  BY <1>2, Numbered
<1>6. /\ \A j \in DOMAIN p.prfs : p.prfs[j].lineno < p.linec
      /\ \A l \in DOMAIN p.cmts : p.cmts[l].lineno < p.linec
  BY DEF Sound
<1> QED
  BY <1>1, <1>2, <1>3, <1>4, <1>5, <1>6

\* A table with one more comment.
LEMMA CommentFields ==
  ASSUME NEW p, Sound(p), NEW text \in Strings, NEW q, q = AddComment(p, text)
  PROVE  /\ q.prfs = p.prfs /\ q.linec = p.linec + 1
         /\ Len(q.cmts) = Len(p.cmts) + 1 /\ DOMAIN q.cmts = 1 .. Len(p.cmts) + 1
         /\ \A l \in DOMAIN p.cmts : q.cmts[l] = p.cmts[l]
         /\ q.cmts[Len(p.cmts) + 1].lineno = p.linec /\ q.cmts[Len(p.cmts) + 1].data = text
<1>1. PICK prfs, cmts, n : prfs = p.prfs /\ cmts = p.cmts /\ n = p.linec
  OBVIOUS
<1>2. cmts \in Seq(Comments) /\ n \in Nat /\ DOMAIN cmts = 1 .. Len(cmts)
  BY <1>1, SoundFacts, CommentNumbers
<1>3. PICK e : e = [lineno |-> n, data |-> text]
  OBVIOUS
<1>4. e \in Comments /\ e.lineno = n /\ e.data = text
  BY <1>2, <1>3 DEF Comments
<1>5. q = [p EXCEPT !.cmts = Append(@, e), !.linec = @ + 1]
  BY <1>1, <1>3 DEF AddComment
<1>6. p = [prfs |-> prfs, cmts |-> cmts, linec |-> n]
  BY <1>1, SoundFacts
<1>7. q.prfs = prfs /\ q.cmts = Append(cmts, e) /\ q.linec = n + 1
  BY <1>5, <1>6
<1>8. PICK more : more = Append(cmts, e)
  OBVIOUS
<1>9. /\ Len(more) = Len(cmts) + 1 /\ DOMAIN more = 1 .. Len(cmts) + 1
      /\ \A l \in 1 .. Len(cmts) : more[l] = cmts[l]
      /\ more[Len(cmts) + 1] = e
  BY <1>2, <1>4, <1>8, AppendFacts
<1> QED
  BY <1>1, <1>2, <1>4, <1>7, <1>8, <1>9

\* A counted line changes neither pairs nor comments.
LEMMA CountFiled ==
  ASSUME NEW p, Sound(p), Filed(p), NEW q, q = [p EXCEPT !.linec = @ + 1]
  PROVE  Filed(q)
<1>1. p = [prfs |-> p.prfs, cmts |-> p.cmts, linec |-> p.linec]
  BY SoundFacts
<1>2. q.prfs = p.prfs /\ q.cmts = p.cmts
  BY <1>1
<1> QED
  BY <1>2 DEF Filed, Ordered, Room, Texted

\* A comment comes after every line there is.
LEMMA CommentFiled ==
  ASSUME NEW p, Sound(p), Filed(p), NEW text \in Strings, InLine(text),
         NEW q, q = AddComment(p, text)
  PROVE  Filed(q)
<1>1. /\ q.prfs = p.prfs
      /\ Len(q.cmts) = Len(p.cmts) + 1 /\ DOMAIN q.cmts = 1 .. Len(p.cmts) + 1
      /\ \A l \in DOMAIN p.cmts : q.cmts[l] = p.cmts[l]
      /\ q.cmts[Len(p.cmts) + 1].lineno = p.linec /\ q.cmts[Len(p.cmts) + 1].data = text
  BY CommentFields
<1>2. /\ Len(p.cmts) \in Nat /\ DOMAIN p.cmts = 1 .. Len(p.cmts)
      /\ Len(p.prfs) \in Nat /\ DOMAIN p.prfs = 1 .. Len(p.prfs)
  BY CommentNumbers, PairNumbers
<1>3. /\ p.linec \in Nat
      /\ \A j \in DOMAIN p.prfs : p.prfs[j].lineno \in Nat /\ p.prfs[j].lineno < p.linec
      /\ \A l \in DOMAIN p.cmts : p.cmts[l].lineno \in Nat /\ p.cmts[l].lineno < p.linec
  BY LinesBelow
<1>4. \A l \in DOMAIN q.cmts : l \in DOMAIN p.cmts \/ l = Len(p.cmts) + 1
  BY <1>1, <1>2
<1>5. /\ \A j, l \in DOMAIN p.cmts : j < l => p.cmts[j].lineno < p.cmts[l].lineno
      /\ \A j \in DOMAIN p.prfs, l \in DOMAIN p.cmts : p.prfs[j].lineno # p.cmts[l].lineno
  BY DEF Filed, Ordered
<1>6. ASSUME NEW j \in DOMAIN q.cmts, NEW l \in DOMAIN q.cmts, j < l
      PROVE  q.cmts[j].lineno < q.cmts[l].lineno
  <2>1. j \in DOMAIN p.cmts
    BY <1>1, <1>2, <1>6
  <2>2. CASE l \in DOMAIN p.cmts
    BY <1>1, <1>5, <1>6, <2>1, <2>2
  <2>3. CASE l = Len(p.cmts) + 1
    BY <1>1, <1>3, <2>1, <2>3
  <2> QED
    BY <1>4, <2>2, <2>3
<1>7. ASSUME NEW j \in DOMAIN p.prfs, NEW l \in DOMAIN q.cmts PROVE p.prfs[j].lineno # q.cmts[l].lineno
  <2>1. CASE l \in DOMAIN p.cmts
    BY <1>1, <1>5, <2>1
  <2>2. CASE l = Len(p.cmts) + 1
    BY <1>1, <1>3, <2>2
  <2> QED
    BY <1>4, <2>1, <2>2
<1>8. Ordered(q)
  BY <1>1, <1>6, <1>7 DEF Filed, Ordered
<1>9. Room(q)
  <2> SUFFICES ASSUME NEW j \in 2 .. Len(p.prfs), NEW m \in 0 .. Len(q.cmts),
                      m = 0 \/ q.cmts[m].lineno < p.prfs[j].lineno
               PROVE  j + m < MaxLen
    BY <1>1 DEF Room
  <2>1. j \in DOMAIN p.prfs
    BY <1>2
  <2>2. CASE m = 0
    BY <1>2, <2>2 DEF Filed, Room
  <2>3. CASE m \in DOMAIN p.cmts
    <3>1. m \in 0 .. Len(p.cmts) /\ m # 0 /\ p.cmts[m].lineno < p.prfs[j].lineno
      BY <1>1, <1>2, <2>3
    <3> QED
      BY <3>1 DEF Filed, Room
  <2>4. CASE m = Len(p.cmts) + 1
    <3>1. p.linec < p.prfs[j].lineno
      BY <1>1, <1>2, <2>4
    <3> QED
      BY <1>3, <2>1, <3>1
  <2> QED
    BY <1>1, <1>2, <2>2, <2>3, <2>4
<1>10. Texted(q)
  BY <1>1, <1>4 DEF Filed, Texted
<1> QED
  BY <1>8, <1>9, <1>10 DEF Filed

\* A new value changes no line; a new pair comes after every line there is,
\* and only if there is room.
LEMMA SetFiled ==
  ASSUME NEW p, Sound(p), Filed(p), NEW k \in Strings, NEW v \in Strings, IsKey(k), IsValue(v),
         NEW q, q = Set(p, k, v)
  PROVE  Filed(q)
<1>1. /\ Len(p.cmts) \in Nat /\ DOMAIN p.cmts = 1 .. Len(p.cmts)
      /\ Len(p.prfs) \in Nat /\ DOMAIN p.prfs = 1 .. Len(p.prfs)
      /\ Len(p.prfs) \in 1 .. MaxLen
  BY CommentNumbers, PairNumbers DEF Sound
<1>2. /\ p.linec \in Nat
      /\ \A j \in DOMAIN p.prfs : p.prfs[j].lineno \in Nat /\ p.prfs[j].lineno < p.linec
      /\ \A l \in DOMAIN p.cmts : p.cmts[l].lineno \in Nat /\ p.cmts[l].lineno < p.linec
  BY LinesBelow
<1>3. /\ p.prfs[1].key = Port /\ p.prfs[1].lineno = 0
      /\ \A j, l \in DOMAIN p.prfs : j < l => p.prfs[j].lineno < p.prfs[l].lineno
      /\ \A j, l \in DOMAIN p.cmts : j < l => p.cmts[j].lineno < p.cmts[l].lineno
      /\ \A j \in DOMAIN p.prfs, l \in DOMAIN p.cmts : p.prfs[j].lineno # p.cmts[l].lineno
  BY DEF Filed, Ordered
<1>4. /\ \A j \in DOMAIN p.prfs : IsKey(p.prfs[j].key) /\ IsValue(p.prfs[j].val)
      /\ \A l \in DOMAIN p.cmts : InLine(p.cmts[l].data)
  BY DEF Filed, Texted
<1>5. CASE Has(p, k)
  <2>1. /\ q.cmts = p.cmts /\ DOMAIN q.prfs = DOMAIN p.prfs /\ Len(q.prfs) = Len(p.prfs)
        /\ \A j \in DOMAIN p.prfs :
             /\ q.prfs[j].key = p.prfs[j].key /\ q.prfs[j].lineno = p.prfs[j].lineno
             /\ q.prfs[j].val = IF p.prfs[j].key = k THEN v ELSE p.prfs[j].val
    BY <1>5, SetKnown
  <2>2. 1 \in DOMAIN p.prfs
    BY <1>1
  <2>3. Ordered(q)
    BY <1>3, <2>1, <2>2 DEF Ordered
  <2>4. Room(q)
    <3>1. \A j \in 2 .. Len(p.prfs) : j \in DOMAIN p.prfs
      BY <1>1
    <3> QED
      BY <2>1, <3>1 DEF Filed, Room
  <2>5. Texted(q)
    BY <1>4, <2>1 DEF Texted
  <2> QED
    BY <2>3, <2>4, <2>5 DEF Filed
<1>6. CASE ~Has(p, k) /\ Entries(p) + 1 < MaxLen
  <2>1. ~Has(p, k) /\ Entries(p) + 1 < MaxLen
    BY <1>6
  <2>2. /\ q.cmts = p.cmts /\ Len(q.prfs) = Len(p.prfs) + 1
        /\ DOMAIN q.prfs = 1 .. Len(p.prfs) + 1
    BY <2>1, SetNew
  <2>3. \A j \in DOMAIN p.prfs : q.prfs[j] = p.prfs[j]
    BY <2>1, SetNew
  <2>4. q.prfs[Len(p.prfs) + 1].key = k /\ q.prfs[Len(p.prfs) + 1].val = v
    BY <2>1, SetNew
  <2>5. q.prfs[Len(p.prfs) + 1].lineno = p.linec
    BY <2>1, SetNew
  <2>6. \A j \in DOMAIN q.prfs : j \in DOMAIN p.prfs \/ j = Len(p.prfs) + 1
    BY <1>1, <2>2
  <2>7. Ordered(q)
    <3>1. q.prfs[1] = p.prfs[1]
      BY <1>1, <2>3
    <3>2. ASSUME NEW j \in DOMAIN q.prfs, NEW l \in DOMAIN q.prfs, j < l
          PROVE  q.prfs[j].lineno < q.prfs[l].lineno
      <4>1. j \in DOMAIN p.prfs
        BY <1>1, <2>2, <3>2
      <4>2. CASE l \in DOMAIN p.prfs
        BY <1>3, <2>3, <3>2, <4>1, <4>2
      <4>3. CASE l = Len(p.prfs) + 1
        BY <1>2, <2>3, <2>5, <4>1, <4>3
      <4> QED
        BY <2>6, <4>2, <4>3
    <3>3. ASSUME NEW j \in DOMAIN q.prfs, NEW l \in DOMAIN p.cmts
          PROVE  q.prfs[j].lineno # p.cmts[l].lineno
      <4>1. CASE j \in DOMAIN p.prfs
        BY <1>3, <2>3, <4>1
      <4>2. CASE j = Len(p.prfs) + 1
        BY <1>2, <2>5, <4>2
      <4> QED
        BY <2>6, <4>1, <4>2
    <3> QED
      BY <1>3, <2>2, <3>1, <3>2, <3>3 DEF Ordered
  <2>8. Room(q)
    <3> SUFFICES ASSUME NEW j \in 2 .. Len(p.prfs) + 1, NEW m \in 0 .. Len(p.cmts),
                        m = 0 \/ p.cmts[m].lineno < q.prfs[j].lineno
                 PROVE  j + m < MaxLen
      BY <2>2 DEF Room
    <3>1. CASE j = Len(p.prfs) + 1
      <4>1. PICK a, b : a = Len(p.prfs) /\ b = Len(p.cmts)
        OBVIOUS
      <4>2. a + b + 1 < MaxLen /\ MaxLen \in Nat /\ a \in Nat /\ b \in Nat
        BY <1>1, <2>1, <4>1, PrfAssumption DEF Entries
      <4>3. j = a + 1 /\ m \in 0 .. b
        BY <3>1, <4>1
      <4> QED
        BY <4>2, <4>3
    <3>2. CASE j \in 2 .. Len(p.prfs)
      <4>1. q.prfs[j] = p.prfs[j]
        BY <1>1, <2>3, <3>2
      <4> QED
        BY <3>2, <4>1 DEF Filed, Room
    <3> QED
      BY <1>1, <3>1, <3>2
  <2>9. Texted(q)
    BY <1>4, <2>2, <2>3, <2>4, <2>6 DEF Texted
  <2> QED
    BY <2>7, <2>8, <2>9 DEF Filed
<1>7. CASE ~Has(p, k) /\ ~(Entries(p) + 1 < MaxLen)
  BY <1>7 DEF Set
<1> QED
  BY <1>5, <1>6, <1>7

\* prf_set stores the value of a known key always, of a new one if there is
\* room; the port is known.
LEMMA SetStores ==
  ASSUME NEW p, Sound(p), Distinct(p), NEW k \in Strings, NEW v \in Strings,
         Has(p, k) \/ Entries(p) + 1 < MaxLen
  PROVE  /\ Holds(Set(p, k, v), k, v)
         /\ Entries(Set(p, k, v)) = Entries(p) \/ (~Has(p, k) /\ Entries(Set(p, k, v)) = Entries(p) + 1)
<1>1. /\ Len(p.prfs) \in Nat /\ Len(p.cmts) \in Nat /\ DOMAIN p.prfs = 1 .. Len(p.prfs)
      /\ Entries(p) = Len(p.prfs) + Len(p.cmts)
  BY SoundFacts, PairNumbers
<1>2. PICK q : q = Set(p, k, v)
  OBVIOUS
<1>3. CASE Has(p, k)
  <2>1. /\ q.cmts = p.cmts /\ DOMAIN q.prfs = DOMAIN p.prfs /\ Len(q.prfs) = Len(p.prfs)
        /\ \A j \in DOMAIN p.prfs :
             /\ q.prfs[j].key = p.prfs[j].key
             /\ q.prfs[j].val = IF p.prfs[j].key = k THEN v ELSE p.prfs[j].val
    BY <1>2, <1>3, SetKnown
  <2>2. PICK j \in 1 .. Len(p.prfs) : p.prfs[j].key = k
    BY <1>3 DEF Has
  <2>3. j \in DOMAIN q.prfs /\ q.prfs[j].key = k /\ q.prfs[j].val = v
    BY <1>1, <2>1, <2>2
  <2> QED
    BY <1>2, <2>1, <2>3 DEF Holds, Entries
<1>4. CASE ~Has(p, k)
  <2>1. ~Has(p, k) /\ Entries(p) + 1 < MaxLen
    BY <1>4
  <2>2. /\ q.cmts = p.cmts /\ Len(q.prfs) = Len(p.prfs) + 1
        /\ DOMAIN q.prfs = 1 .. Len(p.prfs) + 1
    BY <1>2, <2>1, SetNew
  <2>3. q.prfs[Len(p.prfs) + 1].key = k /\ q.prfs[Len(p.prfs) + 1].val = v
    BY <1>2, <2>1, SetNew
  <2>4. Holds(q, k, v)
    <3>1. Len(p.prfs) + 1 \in DOMAIN q.prfs
      BY <1>1, <2>2
    <3> QED
      BY <2>3, <3>1 DEF Holds
  <2>5. Entries(q) = Entries(p) + 1
    <3>1. PICK a, b : a = Len(p.prfs) /\ b = Len(p.cmts)
      OBVIOUS
    <3>2. a \in Nat /\ b \in Nat /\ Entries(p) = a + b /\ Entries(q) = (a + 1) + b
      BY <1>1, <2>2, <3>1 DEF Entries
    <3> QED
      BY <3>2
  <2> QED
    BY <1>2, <2>1, <2>4, <2>5
<1> QED
  BY <1>3, <1>4

\* The words the program uses are keys and a value.
LEMMA ProgramWords == IsKey(Addr) /\ IsKey(Port) /\ IsValue(DefaultPort)
<1>1. ASSUME NEW w \in Seq(Letters) \ {<<>>} PROVE IsKey(w)
  <2>1. Len(w) \in Nat /\ Len(w) # 0
    BY EmptySeq
  <2>2. \A n \in 1 .. Len(w) : w[n] \in Letters
    OBVIOUS
  <2> QED
    BY <2>1, <2>2 DEF IsKey
<1>2. IsValue(DefaultPort)
  BY PrfAssumption DEF IsValue, DefaultPort
<1> QED
  BY <1>1, <1>2, PrfAssumption

\* prf_new's table is a file of one line.
LEMMA NewFiled == Filed(New) /\ Entries(New) = 1
<1>1. PICK e, p : /\ e = [lineno |-> 0, key |-> Port, val |-> DefaultPort]
                  /\ p = [prfs |-> <<>>, cmts |-> <<>>, linec |-> 0]
  OBVIOUS
<1>2. p.prfs = <<>> /\ p.cmts = <<>> /\ p.linec = 0
  BY <1>1
<1>3. ~Has(p, Port) /\ Entries(p) + 1 < MaxLen
  BY <1>2, PrfAssumption DEF Has, Entries
<1>4. PICK q : q = New
  OBVIOUS
<1>5. q = [p EXCEPT !.prfs = Append(@, e), !.linec = @ + 1]
  BY <1>1, <1>2, <1>3, <1>4 DEF New, Set
<1>6. Append(<<>>, e) = <<e>>
  OBVIOUS
<1>7. q.prfs = <<e>> /\ q.cmts = <<>>
  BY <1>1, <1>2, <1>5, <1>6
<1>8. DOMAIN q.prfs = {1} /\ DOMAIN q.cmts = {} /\ q.prfs[1] = e /\ Len(q.prfs) = 1 /\ Len(q.cmts) = 0
  BY <1>7
<1>9. e.lineno = 0 /\ e.key = Port /\ e.val = DefaultPort
  BY <1>1
<1>10. Ordered(q) /\ Texted(q) /\ Room(q) /\ Entries(q) = 1
  BY <1>8, <1>9, ProgramWords DEF Ordered, Texted, Room, Entries
<1> QED
  BY <1>4, <1>10 DEF Filed

\* The parser's key has letters only, its value letters and spaces, its comment
\* no newline; and a key and a value have a letter when they are complete.
Spelt ==
  /\ \A n \in 1 .. Len(key) : key[n] \in Letters
  /\ \A n \in 1 .. Len(val) : val[n] \in Letters \/ val[n] = "sp"
  /\ InLine(cmt)
  /\ state = "KEY" => Len(key) > 0 \/ (i <= Len(body) /\ body[i] \in Letters)
  /\ state \in {"IKV", "VALUE", "PV"} => Len(key) > 0
  /\ state = "VALUE" => Len(val) > 0 \/ (i <= Len(body) /\ body[i] \in Letters)
  /\ state = "PV" => Len(val) > 0

\* A string with one more character.
LEMMA OneMore ==
  ASSUME NEW w \in Strings, NEW x \in Chars
  PROVE  /\ Len(Append(w, x)) = Len(w) + 1 /\ Len(w) \in Nat
         /\ \A n \in 1 .. Len(Append(w, x)) : n \in 1 .. Len(w) \/ n = Len(w) + 1
         /\ \A n \in 1 .. Len(w) : Append(w, x)[n] = w[n]
         /\ Append(w, x)[Len(w) + 1] = x
<1>1. w \in Seq(Chars)
  BY DEF Strings
<1>2. PICK u : u = Append(w, x)
  OBVIOUS
<1>3. /\ Len(u) = Len(w) + 1 /\ \A n \in 1 .. Len(w) : u[n] = w[n]
      /\ u[Len(w) + 1] = x /\ Len(w) \in Nat
  BY <1>1, <1>2, AppendFacts
<1>4. \A n \in 1 .. Len(u) : n \in 1 .. Len(w) \/ n = Len(w) + 1
  BY <1>3
<1> QED
  BY <1>2, <1>3, <1>4

\* Where a value ends, key and value are words.
LEMMA Complete ==
  ASSUME Spelt, state = "VALUE", body[i] \notin Letters
  PROVE  IsKey(key) /\ IsValue(val)
BY DEF Spelt, IsKey, IsValue

\* One character of the file.
LEMMA SpeltSteps == IInv /\ Spelt /\ ReadStep => Spelt'
<1> SUFFICES ASSUME IInv, Spelt, ReadStep PROVE Spelt'
  OBVIOUS
<1>1. /\ key \in Strings /\ val \in Strings /\ cmt \in Strings
      /\ Len(key) \in Nat /\ Len(val) \in Nat /\ Len(cmt) \in Nat
  BY DEF IInv, Texts, Strings
<1>2. "sp" \notin Letters /\ "nl" \notin Letters /\ "hash" \notin Letters
  BY PrfAssumption
<1>3. ASSUME NEW s, NEW chars, At(s, chars)
      PROVE  /\ i \in 1 .. Len(body) /\ Len(body) \in Nat /\ body[i] \in chars /\ state = s
             /\ body[i] \in Chars /\ body' = body
  BY <1>3, AtFacts
<1>4. Len(<<>>) = 0 /\ \A n \in 1 .. Len(<<>>) : FALSE
  OBVIOUS
<1>5. InLine(<<>>)
  BY <1>4 DEF InLine
<1>6. CASE UNCHANGED <<key, val, cmt>> /\ state' \in {"LINE", "COMMENT", "SETTING"}
  BY <1>6 DEF Spelt, InLine
<1>7. CASE LineHash \/ CommentEnd
  <2>1. UNCHANGED <<key, val>> /\ cmt' = <<>> /\ state' \in {"LINE", "COMMENT"}
    BY <1>7 DEF LineHash, CommentEnd, Goto
  <2> QED
    BY <1>4, <2>1 DEF Spelt, InLine
<1>8. CASE LineEmpty \/ LineSetting \/ SettingEmpty \/ SettingSpace \/ SettingHash
           \/ KeyAlone \/ KeyHash \/ IkvAlone \/ IkvHash \/ ValueEnd \/ ValueHash
  <2>1. UNCHANGED <<key, val, cmt>> /\ state' \in {"LINE", "COMMENT", "SETTING"}
    BY <1>8 DEF At, LineEmpty, LineSetting, SettingEmpty, SettingSpace, SettingHash,
                KeyAlone, KeyHash, IkvAlone, IkvHash, ValueEnd, ValueHash, Goto
  <2> QED
    BY <1>6, <2>1
<1>9. CASE CommentUnset
  BY <1>9, <1>6 DEF CommentUnset
<1>10. CASE CommentText
  <2>1. At("COMMENT", Chars \ {"nl"}) /\ cmt' = Append(cmt, body[i]) /\ UNCHANGED <<state, key, val>>
    BY <1>10 DEF CommentText
  <2>2. PICK x : x = body[i]
    OBVIOUS
  <2>3. x \in Chars /\ x # "nl" /\ state' = "COMMENT"
    BY <1>3, <2>1, <2>2
  <2>4. InLine(Append(cmt, x))
    BY <1>1, <2>3, OneMore DEF InLine, Spelt
  <2> QED
    BY <2>1, <2>2, <2>3, <2>4 DEF Spelt, InLine
<1>11. CASE SettingKey
  <2>1. /\ At("SETTING", Letters) /\ i' = i /\ state' = "KEY" /\ key' = <<>> /\ UNCHANGED <<val, cmt>>
    BY <1>11 DEF SettingKey, Goto
  <2>2. i <= Len(body) /\ body[i] \in Letters /\ body' = body
    BY <1>3, <2>1
  <2> QED
    BY <1>4, <2>1, <2>2 DEF Spelt, InLine
<1>12. CASE KeyEnd
  <2>1. /\ At("KEY", {"sp"}) /\ state' = "IKV" /\ val' = <<>> /\ UNCHANGED <<key, cmt>>
    BY <1>12 DEF KeyEnd, Goto
  <2>2. body[i] = "sp" /\ state = "KEY"
    BY <1>3, <2>1
  <2>3. Len(key) > 0
    BY <1>2, <2>2 DEF Spelt
  <2> QED
    BY <1>4, <2>1, <2>3 DEF Spelt, InLine
<1>13. CASE KeyText
  <2>1. At("KEY", Letters) /\ key' = Append(key, body[i]) /\ UNCHANGED <<state, val, cmt>>
    BY <1>13 DEF KeyText
  <2>2. PICK x : x = body[i]
    OBVIOUS
  <2>3. x \in Chars /\ x \in Letters /\ state' = "KEY"
    BY <1>3, <2>1, <2>2
  <2>4. Len(Append(key, x)) > 0 /\ \A n \in 1 .. Len(Append(key, x)) : Append(key, x)[n] \in Letters
    BY <1>1, <2>3, OneMore DEF Spelt
  <2> QED
    BY <2>1, <2>2, <2>3, <2>4 DEF Spelt, InLine
<1>14. CASE IkvSpace
  <2>1. At("IKV", {"sp"}) /\ UNCHANGED <<state, key, val, cmt>>
    BY <1>14 DEF IkvSpace
  <2>2. state = "IKV"
    BY <1>3, <2>1
  <2> QED
    BY <2>1, <2>2 DEF Spelt, InLine
<1>15. CASE IkvValue
  <2>1. At("IKV", Letters) /\ i' = i /\ state' = "VALUE" /\ UNCHANGED <<key, val, cmt>>
    BY <1>15 DEF IkvValue, Goto
  <2>2. i <= Len(body) /\ body[i] \in Letters /\ body' = body /\ state = "IKV"
    BY <1>3, <2>1
  <2> QED
    BY <2>1, <2>2 DEF Spelt, InLine
<1>16. CASE ValueSpace
  <2>1. At("VALUE", {"sp"}) /\ state' = "PV" /\ UNCHANGED <<key, val, cmt>>
    BY <1>16 DEF ValueSpace, Goto
  <2>2. body[i] = "sp" /\ state = "VALUE"
    BY <1>3, <2>1
  <2> QED
    BY <1>2, <2>1, <2>2 DEF Spelt, InLine
<1>17. CASE ValueText \/ PvMeaningful
  <2>1. PICK x : /\ x \in Letters \/ x = "sp"
                 /\ val' = Append(val, x) /\ state' = "VALUE" /\ UNCHANGED <<key, cmt>>
                 /\ state \in {"VALUE", "PV"}
    <3>1. CASE ValueText
      <4>1. At("VALUE", Letters) /\ val' = Append(val, body[i]) /\ UNCHANGED <<state, key, cmt>>
        BY <3>1 DEF ValueText
      <4> QED
        BY <1>3, <4>1
    <3>2. CASE PvMeaningful
      <4>1. At("PV", Letters) /\ val' = Append(val, "sp") /\ state' = "VALUE" /\ UNCHANGED <<key, cmt>>
        BY <3>2 DEF PvMeaningful, Goto
      <4> QED
        BY <1>3, <4>1
    <3> QED
      BY <1>17, <3>1, <3>2
  <2>2. x \in Chars
    BY <2>1 DEF Chars
  <2>3. /\ Len(Append(val, x)) > 0
        /\ \A n \in 1 .. Len(Append(val, x)) : Append(val, x)[n] \in Letters \/ Append(val, x)[n] = "sp"
    BY <1>1, <2>1, <2>2, OneMore DEF Spelt
  <2> QED
    BY <2>1, <2>3 DEF Spelt, InLine
<1>18. CASE PvMeaningless
  <2>1. At("PV", {"nl", "sp", "hash"}) /\ state' = "VALUE" /\ UNCHANGED <<key, val, cmt>>
    BY <1>18 DEF PvMeaningless, Goto
  <2>2. state = "PV"
    BY <1>3, <2>1
  <2> QED
    BY <2>1, <2>2 DEF Spelt, InLine
<1>19. CASE ReadEnd
  BY <1>19 DEF ReadEnd, parserVars, Spelt, InLine
<1> QED
  BY <1>7, <1>8, <1>9, <1>10, <1>11, <1>12, <1>13, <1>14, <1>15, <1>16, <1>17, <1>18, <1>19
     DEF ReadStep

\* What a step of the parser does to the table.
LEMMA TableSteps ==
  ASSUME IInv, ReadStep
  PROVE  \/ prf' = prf
         \/ CountLine
         \/ CommentEnd /\ state = "COMMENT" /\ prf' = AddComment(prf, cmt) /\ Entries(prf) <= MaxLen
         \/ (ValueEnd \/ ValueHash) /\ state = "VALUE" /\ body[i] \notin Letters
            /\ prf' = Set(prf, key, val)
<1>1. "sp" \notin Letters /\ "nl" \notin Letters /\ "hash" \notin Letters
  BY PrfAssumption
<1>2. CASE CommentEnd
  <2>1. At("COMMENT", {"nl"}) /\ prf' = AddComment(prf, cmt)
    BY <1>2 DEF CommentEnd
  <2> QED
    BY <1>2, <2>1, AtFacts
<1>3. CASE ValueEnd \/ ValueHash
  <2>1. prf' = Set(prf, key, val) /\ \E chars \in {{"nl"}, {"hash"}} : At("VALUE", chars)
    BY <1>3 DEF ValueEnd, ValueHash
  <2>2. state = "VALUE" /\ body[i] \in {"nl", "hash"}
    BY <2>1 DEF At
  <2> QED
    BY <1>1, <1>3, <2>1, <2>2
<1>4. CASE LineEmpty \/ SettingEmpty \/ KeyAlone \/ IkvAlone
  BY <1>4 DEF LineEmpty, SettingEmpty, KeyAlone, IkvAlone
<1>5. CASE LineHash \/ LineSetting \/ CommentUnset \/ CommentText \/ SettingSpace \/ SettingHash
           \/ SettingKey \/ KeyEnd \/ KeyHash \/ KeyText \/ IkvSpace \/ IkvHash \/ IkvValue
           \/ ValueSpace \/ ValueText \/ PvMeaningless \/ PvMeaningful \/ ReadEnd
  BY <1>5 DEF LineHash, LineSetting, CommentUnset, CommentText, SettingSpace, SettingHash,
              SettingKey, KeyEnd, KeyHash, KeyText, IkvSpace, IkvHash, IkvValue,
              ValueSpace, ValueText, PvMeaningless, PvMeaningful, ReadEnd
<1> QED
  BY <1>2, <1>3, <1>4, <1>5 DEF ReadStep

\* Reading leaves a table that can be written.
LEMMA FiledSteps ==
  ASSUME IInv, Spelt, Filed(prf), ReadStep
  PROVE  Filed(prf')
<1>1. Sound(prf) /\ key \in Strings /\ val \in Strings /\ cmt \in Strings
  BY DEF IInv, Texts
<1>2. CASE CountLine
  BY <1>1, <1>2, CountFiled DEF CountLine
<1>3. CASE CommentEnd /\ prf' = AddComment(prf, cmt)
  BY <1>1, <1>3, CommentFiled DEF Spelt
<1>4. CASE state = "VALUE" /\ body[i] \notin Letters /\ prf' = Set(prf, key, val)
  BY <1>1, <1>4, Complete, SetFiled
<1> QED
  BY <1>2, <1>3, <1>4, TableSteps

(***************************************************************************)
(* What prf_write writes                                                   *)
(***************************************************************************)

\* The key k, a space and the value v fill the text from s up to e.
PairAt(t, s, e, k, v) ==
  /\ e = s + Len(k) + 1 + Len(v)
  /\ \A x \in 1 .. Len(k) : t[s + x - 1] = k[x]
  /\ t[s + Len(k)] = "sp"
  /\ \A x \in 1 .. Len(v) : t[s + Len(k) + x] = v[x]

\* From s to its newline at e the text is line l of the table, of which the
\* pairs before a and the comments before c are written.
LineIs(t, s, e, p, a, c, l) ==
  /\ s <= e /\ t[e] = "nl" /\ \A x \in s .. e - 1 : t[x] # "nl"
  /\ \A j \in 1 .. a - 1 : p.prfs[j].lineno = l => PairAt(t, s, e, p.prfs[j].key, p.prfs[j].val)
  /\ \A m \in 1 .. c - 1 : p.cmts[m].lineno = l => s < e /\ t[s] = "hash"
  /\ (\A j \in 1 .. a - 1 : p.prfs[j].lineno # l) /\ (\A m \in 1 .. c - 1 : p.cmts[m].lineno # l) => e = s

\* The text has n lines, and line l starts at st[l].
Layout(st, t, p, n, a, c) ==
  /\ st \in [0 .. n -> 1 .. Len(t) + 1] /\ st[0] = 1 /\ st[n] = Len(t) + 1
  /\ \A l \in 0 .. n - 1 : LineIs(t, st[l], st[l + 1] - 1, p, a, c, l)

\* The pairs before a and the comments before c are those of the lines before
\* line n.
Split(p, n, a, c) ==
  /\ a \in 1 .. Len(p.prfs) + 1 /\ c \in 1 .. Len(p.cmts) + 1
  /\ \A j \in DOMAIN p.prfs : j < a <=> p.prfs[j].lineno < n
  /\ \A m \in DOMAIN p.cmts : m < c <=> p.cmts[m].lineno < n

\* What is written so far is the table so far, and the whole table when
\* prf_write is through.
Written ==
  /\ lineno \in Nat
  /\ Split(saved, lineno, prf_i, cmt_i)
  /\ \E st : Layout(st, out, saved, lineno, prf_i, cmt_i)
  /\ phase # "write" /\ out # <<>> => prf_i = Len(saved.prfs) + 1 /\ cmt_i = Len(saved.cmts) + 1

\* A text, a line and its newline.
LEMMA LineAdded ==
  ASSUME NEW t \in Strings, NEW w \in Strings, NEW t2, t2 = t \o w \o <<"nl">>
  PROVE  /\ t2 \in Strings /\ Len(t) \in Nat /\ Len(w) \in Nat /\ Len(t2) = Len(t) + Len(w) + 1
         /\ \A x \in 1 .. Len(t) : t2[x] = t[x]
         /\ \A x \in 1 .. Len(w) : t2[Len(t) + x] = w[x]
         /\ t2[Len(t) + Len(w) + 1] = "nl"
<1>1. t \in Seq(Chars) /\ w \in Seq(Chars) /\ <<"nl">> \in Seq(Chars)
  BY Words DEF Strings
<1>2. PICK u : u = t \o w
  OBVIOUS
<1>3. /\ u \in Seq(Chars) /\ Len(u) = Len(t) + Len(w)
      /\ \A x \in 1 .. Len(t) : u[x] = t[x]
      /\ \A x \in 1 .. Len(w) : u[Len(t) + x] = w[x]
      /\ Len(t) \in Nat /\ Len(w) \in Nat
  BY <1>1, <1>2
<1>4. /\ t2 \in Seq(Chars) /\ Len(t2) = Len(u) + 1
      /\ \A x \in 1 .. Len(u) : t2[x] = u[x]
      /\ t2[Len(u) + 1] = "nl"
  BY <1>1, <1>2, <1>3
<1>5. /\ \A x \in 1 .. Len(t) : x \in 1 .. Len(u)
      /\ \A x \in 1 .. Len(w) : Len(t) + x \in 1 .. Len(u)
  BY <1>3
<1> QED
  BY <1>3, <1>4, <1>5 DEF Strings

\* The text of a pair.
LEMMA PairText ==
  ASSUME NEW k \in Strings, NEW v \in Strings, NEW w, w = k \o <<"sp">> \o v
  PROVE  /\ w \in Strings /\ Len(k) \in Nat /\ Len(v) \in Nat /\ Len(w) = Len(k) + 1 + Len(v)
         /\ \A x \in 1 .. Len(k) : w[x] = k[x]
         /\ w[Len(k) + 1] = "sp"
         /\ \A x \in 1 .. Len(v) : w[Len(k) + 1 + x] = v[x]
<1>1. k \in Seq(Chars) /\ v \in Seq(Chars) /\ <<"sp">> \in Seq(Chars)
  BY Words DEF Strings
<1>2. PICK u : u = k \o <<"sp">>
  OBVIOUS
<1>3. /\ u \in Seq(Chars) /\ Len(u) = Len(k) + 1
      /\ \A x \in 1 .. Len(k) : u[x] = k[x]
      /\ u[Len(k) + 1] = "sp"
      /\ Len(k) \in Nat /\ Len(v) \in Nat
  BY <1>1, <1>2
<1>4. /\ w \in Seq(Chars) /\ Len(w) = Len(u) + Len(v)
      /\ \A x \in 1 .. Len(u) : w[x] = u[x]
      /\ \A x \in 1 .. Len(v) : w[Len(u) + x] = v[x]
  BY <1>1, <1>2, <1>3
<1> QED
  BY <1>3, <1>4 DEF Strings

\* The text of a comment.
LEMMA CommentText1 ==
  ASSUME NEW c \in Strings, NEW w, w = <<"hash">> \o c
  PROVE  /\ w \in Strings /\ Len(c) \in Nat /\ Len(w) = 1 + Len(c)
         /\ w[1] = "hash"
         /\ \A x \in 1 .. Len(c) : w[1 + x] = c[x]
<1>1. c \in Seq(Chars) /\ <<"hash">> \in Seq(Chars)
  BY Words DEF Strings
<1> QED
  BY <1>1 DEF Strings

\* One more line leaves the others as they are.
LEMMA LayoutGrows ==
  ASSUME NEW t \in Strings, NEW w \in Strings, NEW t2, t2 = t \o w \o <<"nl">>,
         NEW p, Sound(p), NEW n \in Nat, NEW a, NEW c, Split(p, n, a, c),
         NEW st, Layout(st, t, p, n, a, c),
         NEW a2 \in a .. a + 1, NEW c2 \in c .. c + 1, Split(p, n + 1, a2, c2),
         LineIs(t2, Len(t) + 1, Len(t2), p, a2, c2, n)
  PROVE  \E st2 : Layout(st2, t2, p, n + 1, a2, c2)
<1>1. /\ Len(t) \in Nat /\ Len(w) \in Nat /\ Len(t2) = Len(t) + Len(w) + 1
      /\ \A x \in 1 .. Len(t) : t2[x] = t[x]
  BY LineAdded
<1>2. /\ DOMAIN p.prfs = 1 .. Len(p.prfs) /\ Len(p.prfs) \in Nat
      /\ DOMAIN p.cmts = 1 .. Len(p.cmts) /\ Len(p.cmts) \in Nat
      /\ a \in 1 .. Len(p.prfs) + 1 /\ c \in 1 .. Len(p.cmts) + 1
      /\ a2 \in 1 .. Len(p.prfs) + 1 /\ c2 \in 1 .. Len(p.cmts) + 1
  BY PairNumbers, CommentNumbers DEF Split
<1>3. PICK st2 : st2 = [l \in 0 .. n + 1 |-> IF l <= n THEN st[l] ELSE Len(t2) + 1]
  OBVIOUS
<1>4. st2 \in [0 .. n + 1 -> 1 .. Len(t2) + 1] /\ st2[0] = 1 /\ st2[n + 1] = Len(t2) + 1
  BY <1>1, <1>3 DEF Layout
<1>5. \A l \in 0 .. n : st2[l] = st[l]
  BY <1>3
<1>6. ASSUME NEW l \in 0 .. n - 1 PROVE LineIs(t2, st2[l], st2[l + 1] - 1, p, a2, c2, l)
  <2>1. PICK s, e : s = st[l] /\ e = st[l + 1] - 1
    OBVIOUS
  <2>2. s = st2[l] /\ e = st2[l + 1] - 1 /\ s \in 1 .. Len(t) + 1 /\ e \in 0 .. Len(t)
    <3>1. l \in 0 .. n /\ l + 1 \in 0 .. n
      OBVIOUS
    <3>2. st[l] \in 1 .. Len(t) + 1 /\ st[l + 1] \in 1 .. Len(t) + 1
      BY <3>1 DEF Layout
    <3>3. st2[l] = st[l] /\ st2[l + 1] = st[l + 1]
      BY <1>5, <3>1
    <3> QED
      BY <1>1, <2>1, <3>2, <3>3
  <2>3. LineIs(t, s, e, p, a, c, l)
    BY <2>1 DEF Layout
  <2>4. s <= e /\ t2[e] = "nl" /\ \A x \in s .. e - 1 : t2[x] # "nl"
    <3>1. s <= e /\ t[e] = "nl" /\ \A x \in s .. e - 1 : t[x] # "nl"
      BY <2>3 DEF LineIs
    <3>2. e \in 1 .. Len(t) /\ \A x \in s .. e - 1 : x \in 1 .. Len(t)
      <4>1. PICK tl : tl = Len(t)
        OBVIOUS
      <4>2. tl \in Nat /\ s \in 1 .. tl + 1 /\ e \in 0 .. tl /\ s <= e
        BY <1>1, <2>2, <3>1, <4>1
      <4> QED
        BY <4>1, <4>2
    <3> QED
      BY <1>1, <3>1, <3>2
  <2>5. \A j \in 1 .. a2 - 1 : p.prfs[j].lineno = l => j \in 1 .. a - 1
    <3> SUFFICES ASSUME NEW j \in 1 .. a2 - 1, p.prfs[j].lineno = l PROVE j \in 1 .. a - 1
      OBVIOUS
    <3>1. j \in DOMAIN p.prfs
      BY <1>2
    <3>2. l < n
      OBVIOUS
    <3>3. j < a <=> p.prfs[j].lineno < n
      BY <3>1 DEF Split
    <3> QED
      BY <1>2, <3>2, <3>3
  <2>6. \A m \in 1 .. c2 - 1 : p.cmts[m].lineno = l => m \in 1 .. c - 1
    <3> SUFFICES ASSUME NEW m \in 1 .. c2 - 1, p.cmts[m].lineno = l PROVE m \in 1 .. c - 1
      OBVIOUS
    <3>1. m \in DOMAIN p.cmts
      BY <1>2
    <3>2. l < n
      OBVIOUS
    <3>3. m < c <=> p.cmts[m].lineno < n
      BY <3>1 DEF Split
    <3> QED
      BY <1>2, <3>2, <3>3
  <2>7. ASSUME NEW j \in 1 .. a2 - 1, p.prfs[j].lineno = l
        PROVE  PairAt(t2, s, e, p.prfs[j].key, p.prfs[j].val)
    <3>1. PICK k, v : k = p.prfs[j].key /\ v = p.prfs[j].val
      OBVIOUS
    <3>2. PairAt(t, s, e, k, v)
      BY <2>3, <2>5, <2>7, <3>1 DEF LineIs
    <3>3. j \in DOMAIN p.prfs
      BY <1>2
    <3>4. k \in Strings /\ v \in Strings
      BY <3>1, <3>3, LinesBelow
    <3>5. Len(k) \in Nat /\ Len(v) \in Nat
      BY <3>4 DEF Strings
    <3>6. PairAt(t2, s, e, k, v)
      <4>1. /\ e = s + Len(k) + 1 + Len(v)
            /\ \A x \in 1 .. Len(k) : t[s + x - 1] = k[x]
            /\ t[s + Len(k)] = "sp"
            /\ \A x \in 1 .. Len(v) : t[s + Len(k) + x] = v[x]
        BY <3>2 DEF PairAt
      <4>2. PICK kl, vl, tl : kl = Len(k) /\ vl = Len(v) /\ tl = Len(t)
        OBVIOUS
      <4>3. /\ \A x \in 1 .. kl : s + x - 1 \in 1 .. tl
            /\ s + kl \in 1 .. tl
            /\ \A x \in 1 .. vl : s + kl + x \in 1 .. tl
        <5>1. s \in 1 .. tl + 1 /\ e \in 0 .. tl /\ tl \in Nat
          BY <1>1, <2>2, <4>2
        <5>2. kl \in Nat /\ vl \in Nat
          BY <3>5, <4>2
        <5>3. e = s + kl + 1 + vl
          BY <4>1, <4>2
        <5> QED
          BY <5>1, <5>2, <5>3
      <4>4. /\ \A x \in 1 .. Len(k) : t2[s + x - 1] = k[x]
            /\ t2[s + Len(k)] = "sp"
            /\ \A x \in 1 .. Len(v) : t2[s + Len(k) + x] = v[x]
        BY <1>1, <4>1, <4>2, <4>3
      <4> QED
        BY <4>1, <4>4 DEF PairAt
    <3> QED
      BY <3>1, <3>6
  <2>8. ASSUME NEW m \in 1 .. c2 - 1, p.cmts[m].lineno = l PROVE s < e /\ t2[s] = "hash"
    <3>1. s < e /\ t[s] = "hash"
      BY <2>3, <2>6, <2>8 DEF LineIs
    <3>2. s \in 1 .. Len(t)
      BY <1>1, <2>2, <3>1
    <3> QED
      BY <1>1, <3>1, <3>2
  <2>9. (\A j \in 1 .. a2 - 1 : p.prfs[j].lineno # l) /\ (\A m \in 1 .. c2 - 1 : p.cmts[m].lineno # l) => e = s
    <3>1. 1 .. a - 1 \subseteq 1 .. a2 - 1 /\ 1 .. c - 1 \subseteq 1 .. c2 - 1
      BY <1>2
    <3> QED
      BY <2>3, <3>1 DEF LineIs
  <2>10. LineIs(t2, s, e, p, a2, c2, l)
    BY <2>4, <2>7, <2>8, <2>9 DEF LineIs
  <2> QED
    BY <2>2, <2>10
<1>7. LineIs(t2, st2[n], st2[n + 1] - 1, p, a2, c2, n)
  <2>1. st2[n] = Len(t) + 1 /\ st2[n + 1] - 1 = Len(t2)
    BY <1>1, <1>4, <1>5 DEF Layout
  <2> QED
    BY <2>1
<1>8. \A l \in 0 .. (n + 1) - 1 : l \in 0 .. n - 1 \/ l = n
  OBVIOUS
<1>9. Layout(st2, t2, p, n + 1, a2, c2)
  BY <1>4, <1>6, <1>7, <1>8 DEF Layout
<1> QED
  BY <1>9

\* Of increasing numbers, those below n are the first ones; below n + 1 there
\* is one more if the next is n.
LEMMA Further ==
  ASSUME NEW N \in Nat, NEW f, \A j \in 1 .. N : f[j] \in Nat,
         \A j, l \in 1 .. N : j < l => f[j] < f[l],
         NEW n \in Nat, NEW a \in 1 .. N + 1, \A j \in 1 .. N : j < a <=> f[j] < n,
         NEW a2, a2 = IF a <= N /\ f[a] = n THEN a + 1 ELSE a
  PROVE  /\ a2 \in 1 .. N + 1 /\ a2 \in a .. a + 1
         /\ \A j \in 1 .. N : j < a2 <=> f[j] < n + 1
         /\ \A j \in 1 .. N : f[j] = n => j = a /\ a2 = a + 1
<1>1. ASSUME NEW j \in 1 .. N, f[j] = n PROVE j = a /\ a2 = a + 1
  <2>1. ~(j < a)
    BY <1>1
  <2>2. ~(a < j)
    <3>1. a < j => a \in 1 .. N /\ f[a] < f[j] /\ ~(f[a] < n)
      BY <1>1
    <3> QED
      BY <1>1, <3>1
  <2>3. j = a
    BY <2>1, <2>2
  <2> QED
    BY <1>1, <2>3
<1>2. CASE a <= N /\ f[a] = n
  <2>1. a2 = a + 1 /\ a \in 1 .. N
    BY <1>2
  <2>2. ASSUME NEW j \in 1 .. N PROVE j < a2 <=> f[j] < n + 1
    <3>1. f[j] \in Nat /\ (j < a <=> f[j] < n) /\ (f[j] = n <=> j = a)
      BY <1>1, <1>2
    <3> QED
      BY <2>1, <3>1
  <2> QED
    BY <1>1, <2>1, <2>2
<1>3. CASE ~(a <= N /\ f[a] = n)
  <2>1. a2 = a
    BY <1>3
  <2>2. ASSUME NEW j \in 1 .. N PROVE j < a2 <=> f[j] < n + 1
    <3>1. f[j] \in Nat /\ (j < a <=> f[j] < n) /\ f[j] # n
      BY <1>1, <1>3
    <3> QED
      BY <2>1, <3>1
  <2> QED
    BY <1>1, <2>1, <2>2
<1> QED
  BY <1>2, <1>3

\* The entry of line n, if there is one, is the next pair or the next comment.
LEMMA NextSplit ==
  ASSUME NEW p, Sound(p), Ordered(p), NEW n \in Nat, NEW a, NEW c, Split(p, n, a, c),
         NEW a2, a2 = IF a <= Len(p.prfs) /\ p.prfs[a].lineno = n THEN a + 1 ELSE a,
         NEW c2, c2 = IF c <= Len(p.cmts) /\ p.cmts[c].lineno = n THEN c + 1 ELSE c
  PROVE  /\ Split(p, n + 1, a2, c2) /\ a2 \in a .. a + 1 /\ c2 \in c .. c + 1
         /\ \A j \in DOMAIN p.prfs : p.prfs[j].lineno = n => j = a /\ a2 = a + 1
         /\ \A m \in DOMAIN p.cmts : p.cmts[m].lineno = n => m = c /\ c2 = c + 1
         /\ a2 = a \/ c2 = c
<1>1. PICK A, C : A = Len(p.prfs) /\ C = Len(p.cmts)
  OBVIOUS
<1>2. A \in Nat /\ C \in Nat /\ DOMAIN p.prfs = 1 .. A /\ DOMAIN p.cmts = 1 .. C
  BY <1>1, PairNumbers, CommentNumbers
<1>3. PICK f, g : /\ f = [j \in 1 .. A |-> p.prfs[j].lineno]
                  /\ g = [m \in 1 .. C |-> p.cmts[m].lineno]
  OBVIOUS
<1>4. /\ \A j \in 1 .. A : f[j] = p.prfs[j].lineno /\ f[j] \in Nat
      /\ \A m \in 1 .. C : g[m] = p.cmts[m].lineno /\ g[m] \in Nat
  BY <1>2, <1>3, LinesBelow
<1>5. a \in 1 .. A + 1 /\ c \in 1 .. C + 1
  BY <1>1 DEF Split
<1>6. /\ a2 \in 1 .. A + 1 /\ a2 \in a .. a + 1
      /\ \A j \in 1 .. A : j < a2 <=> f[j] < n + 1
      /\ \A j \in 1 .. A : f[j] = n => j = a /\ a2 = a + 1
  <2>1. ASSUME NEW j \in 1 .. A, NEW l \in 1 .. A, j < l PROVE f[j] < f[l]
    <3>1. p.prfs[j].lineno < p.prfs[l].lineno
      BY <1>2, <2>1 DEF Ordered
    <3>2. f[j] = p.prfs[j].lineno /\ f[l] = p.prfs[l].lineno
      BY <1>4
    <3> QED
      BY <3>1, <3>2
  <2>2. \A j \in 1 .. A : j < a <=> f[j] < n
    BY <1>2, <1>4 DEF Split
  <2>3. a <= A /\ p.prfs[a].lineno = n <=> a <= A /\ f[a] = n
    <3>1. a <= A => a \in 1 .. A
      BY <1>2, <1>5
    <3> QED
      BY <1>4, <3>1
  <2>4. a2 = IF a <= A /\ f[a] = n THEN a + 1 ELSE a
    <3>1. CASE a <= A /\ p.prfs[a].lineno = n
      BY <1>1, <2>3, <3>1
    <3>2. CASE ~(a <= A /\ p.prfs[a].lineno = n)
      BY <1>1, <2>3, <3>2
    <3> QED
      BY <3>1, <3>2
  <2> QED
    BY <1>2, <1>4, <1>5, <2>1, <2>2, <2>4, Further
<1>7. /\ c2 \in 1 .. C + 1 /\ c2 \in c .. c + 1
      /\ \A m \in 1 .. C : m < c2 <=> g[m] < n + 1
      /\ \A m \in 1 .. C : g[m] = n => m = c /\ c2 = c + 1
  <2>1. ASSUME NEW j \in 1 .. C, NEW l \in 1 .. C, j < l PROVE g[j] < g[l]
    <3>1. p.cmts[j].lineno < p.cmts[l].lineno
      BY <1>2, <2>1 DEF Ordered
    <3>2. g[j] = p.cmts[j].lineno /\ g[l] = p.cmts[l].lineno
      BY <1>4
    <3> QED
      BY <3>1, <3>2
  <2>2. \A m \in 1 .. C : m < c <=> g[m] < n
    BY <1>2, <1>4 DEF Split
  <2>3. c <= C /\ p.cmts[c].lineno = n <=> c <= C /\ g[c] = n
    <3>1. c <= C => c \in 1 .. C
      BY <1>2, <1>5
    <3> QED
      BY <1>4, <3>1
  <2>4. c2 = IF c <= C /\ g[c] = n THEN c + 1 ELSE c
    <3>1. CASE c <= C /\ p.cmts[c].lineno = n
      BY <1>1, <2>3, <3>1
    <3>2. CASE ~(c <= C /\ p.cmts[c].lineno = n)
      BY <1>1, <2>3, <3>2
    <3> QED
      BY <3>1, <3>2
  <2> QED
    BY <1>2, <1>4, <1>5, <2>1, <2>2, <2>4, Further
<1>8. a2 = a \/ c2 = c
  <2>1. a2 # a => a \in 1 .. A /\ p.prfs[a].lineno = n
    BY <1>1, <1>2, <1>5
  <2>2. c2 # c => c \in 1 .. C /\ p.cmts[c].lineno = n
    BY <1>1, <1>2, <1>5
  <2> QED
    BY <1>2, <2>1, <2>2 DEF Ordered
<1>9. Split(p, n + 1, a2, c2)
  BY <1>1, <1>2, <1>4, <1>6, <1>7 DEF Split
<1> QED
  BY <1>2, <1>4, <1>6, <1>7, <1>8, <1>9

\* A line without a newline in it ends at its newline.
LEMMA LineEnds ==
  ASSUME NEW t \in Strings, NEW w \in Strings, NEW t2, t2 = t \o w \o <<"nl">>,
         InLine(w)
  PROVE  /\ Len(t) + 1 <= Len(t2) /\ t2[Len(t2)] = "nl"
         /\ \A x \in Len(t) + 1 .. Len(t2) - 1 : t2[x] # "nl"
<1>1. /\ Len(t) \in Nat /\ Len(w) \in Nat /\ Len(t2) = Len(t) + Len(w) + 1
      /\ \A x \in 1 .. Len(w) : t2[Len(t) + x] = w[x]
      /\ t2[Len(t) + Len(w) + 1] = "nl"
  BY LineAdded
<1>2. ASSUME NEW x \in Len(t) + 1 .. Len(t2) - 1 PROVE t2[x] # "nl"
  <2>1. PICK y : y = x - Len(t)
    OBVIOUS
  <2>2. y \in 1 .. Len(w) /\ x = Len(t) + y
    BY <1>1, <2>1
  <2> QED
    BY <1>1, <2>2 DEF InLine
<1> QED
  BY <1>1, <1>2

\* The text of a pair has no newline.
LEMMA PairInLine ==
  ASSUME NEW k \in Strings, NEW v \in Strings, IsKey(k), IsValue(v), NEW w, w = k \o <<"sp">> \o v
  PROVE  w \in Strings /\ InLine(w)
<1>1. /\ w \in Strings /\ Len(k) \in Nat /\ Len(v) \in Nat /\ Len(w) = Len(k) + 1 + Len(v)
      /\ \A x \in 1 .. Len(k) : w[x] = k[x]
      /\ w[Len(k) + 1] = "sp"
      /\ \A x \in 1 .. Len(v) : w[Len(k) + 1 + x] = v[x]
  <2>1. w \in Strings
    BY PairText
  <2>2. Len(k) \in Nat /\ Len(v) \in Nat
    BY PairText
  <2>3. Len(w) = Len(k) + 1 + Len(v)
    BY PairText
  <2>4. \A x \in 1 .. Len(k) : w[x] = k[x]
    BY PairText
  <2>5. w[Len(k) + 1] = "sp"
    BY PairText
  <2>6. \A x \in 1 .. Len(v) : w[Len(k) + 1 + x] = v[x]
    BY PairText
  <2> QED
    BY <2>1, <2>2, <2>3, <2>4, <2>5, <2>6
<1>2. ASSUME NEW x \in 1 .. Len(w) PROVE w[x] # "nl"
  <2>1. CASE x \in 1 .. Len(k)
    BY <1>1, <2>1, PrfAssumption DEF IsKey
  <2>2. CASE x = Len(k) + 1
    BY <1>1, <2>2
  <2>3. CASE x > Len(k) + 1
    <3>1. PICK y : y = x - (Len(k) + 1)
      OBVIOUS
    <3>2. y \in 1 .. Len(v) /\ x = Len(k) + 1 + y
      <4>1. x > Len(k) + 1 /\ x <= Len(k) + 1 + Len(v) /\ x \in Nat
        BY <1>1, <2>3
      <4> QED
        BY <1>1, <3>1, <4>1
    <3>3. w[x] = v[y]
      BY <1>1, <3>2
    <3>4. v[y] # "nl"
      BY <3>2, PrfAssumption DEF IsValue
    <3> QED
      BY <3>3, <3>4
  <2> QED
    BY <1>1, <2>1, <2>2, <2>3
<1> QED
  BY <1>1, <1>2 DEF InLine

\* The line of a pair.
LEMMA PairLine ==
  ASSUME NEW t \in Strings, NEW k \in Strings, NEW v \in Strings,
         NEW w, w = k \o <<"sp">> \o v, NEW t2, t2 = t \o w \o <<"nl">>
  PROVE  PairAt(t2, Len(t) + 1, Len(t2), k, v)
<1>1. /\ w \in Strings /\ Len(k) \in Nat /\ Len(v) \in Nat /\ Len(w) = Len(k) + 1 + Len(v)
      /\ \A x \in 1 .. Len(k) : w[x] = k[x]
      /\ w[Len(k) + 1] = "sp"
      /\ \A x \in 1 .. Len(v) : w[Len(k) + 1 + x] = v[x]
  <2>1. w \in Strings
    BY PairText
  <2>2. Len(k) \in Nat /\ Len(v) \in Nat
    BY PairText
  <2>3. Len(w) = Len(k) + 1 + Len(v)
    BY PairText
  <2>4. \A x \in 1 .. Len(k) : w[x] = k[x]
    BY PairText
  <2>5. w[Len(k) + 1] = "sp"
    BY PairText
  <2>6. \A x \in 1 .. Len(v) : w[Len(k) + 1 + x] = v[x]
    BY PairText
  <2> QED
    BY <2>1, <2>2, <2>3, <2>4, <2>5, <2>6
<1>2. /\ Len(t) \in Nat /\ Len(t2) = Len(t) + Len(w) + 1
      /\ \A x \in 1 .. Len(w) : t2[Len(t) + x] = w[x]
  BY <1>1, LineAdded
<1>3. PICK n, kl, vl : n = Len(t) /\ kl = Len(k) /\ vl = Len(v)
  OBVIOUS
<1>4. n \in Nat /\ kl \in Nat /\ vl \in Nat /\ Len(w) = kl + 1 + vl /\ Len(t2) = n + (kl + 1 + vl) + 1
  BY <1>1, <1>2, <1>3
<1>5. ASSUME NEW x \in 1 .. kl PROVE t2[n + 1 + x - 1] = k[x]
  <2>1. x \in 1 .. Len(w) /\ n + 1 + x - 1 = n + x
    BY <1>4
  <2> QED
    BY <1>1, <1>2, <1>3, <2>1
<1>6. t2[n + 1 + kl] = "sp"
  <2>1. kl + 1 \in 1 .. Len(w) /\ n + 1 + kl = n + (kl + 1)
    BY <1>4
  <2> QED
    BY <1>1, <1>2, <1>3, <2>1
<1>7. ASSUME NEW x \in 1 .. vl PROVE t2[n + 1 + kl + x] = v[x]
  <2>1. kl + 1 + x \in 1 .. Len(w) /\ n + 1 + kl + x = n + (kl + 1 + x)
    BY <1>4
  <2> QED
    BY <1>1, <1>2, <1>3, <2>1
<1>8. Len(t2) = n + 1 + kl + 1 + vl
  BY <1>4
<1>9. PairAt(t2, n + 1, Len(t2), k, v)
  BY <1>3, <1>5, <1>6, <1>7, <1>8 DEF PairAt
<1> QED
  BY <1>3, <1>9

\* The text of a comment has no newline.
LEMMA CommentInLine ==
  ASSUME NEW c \in Strings, InLine(c), NEW w, w = <<"hash">> \o c
  PROVE  w \in Strings /\ InLine(w)
<1>1. /\ w \in Strings /\ Len(c) \in Nat /\ Len(w) = 1 + Len(c)
      /\ w[1] = "hash"
      /\ \A x \in 1 .. Len(c) : w[1 + x] = c[x]
  BY CommentText1
<1>2. ASSUME NEW x \in 1 .. Len(w) PROVE w[x] # "nl"
  <2>1. CASE x = 1
    BY <1>1, <2>1
  <2>2. CASE x # 1
    <3>1. PICK y : y = x - 1
      OBVIOUS
    <3>2. y \in 1 .. Len(c) /\ x = 1 + y
      BY <1>1, <2>2, <3>1
    <3> QED
      BY <1>1, <3>2 DEF InLine
  <2> QED
    BY <2>1, <2>2
<1> QED
  BY <1>1, <1>2 DEF InLine

\* The line of a comment.
LEMMA CommentLine ==
  ASSUME NEW t \in Strings, NEW c \in Strings,
         NEW w, w = <<"hash">> \o c, NEW t2, t2 = t \o w \o <<"nl">>
  PROVE  Len(t) + 1 < Len(t2) /\ t2[Len(t) + 1] = "hash"
<1>1. /\ w \in Strings /\ Len(c) \in Nat /\ Len(w) = 1 + Len(c)
      /\ w[1] = "hash"
      /\ \A x \in 1 .. Len(c) : w[1 + x] = c[x]
  BY CommentText1
<1>2. /\ Len(t) \in Nat /\ Len(t2) = Len(t) + Len(w) + 1
      /\ \A x \in 1 .. Len(w) : t2[Len(t) + x] = w[x]
  BY <1>1, LineAdded
<1>3. 1 \in 1 .. Len(w) /\ Len(t) + 1 < Len(t2)
  BY <1>1, <1>2
<1> QED
  BY <1>1, <1>2, <1>3

\* The place of the next pair after line n, the next comment, and what is
\* written of both.
NextPair(p, n, a) == IF a <= Len(p.prfs) /\ p.prfs[a].lineno = n THEN a + 1 ELSE a

NextComment(p, n, c) == IF c <= Len(p.cmts) /\ p.cmts[c].lineno = n THEN c + 1 ELSE c

PairPart(p, n, a) ==
  IF a <= Len(p.prfs) /\ p.prfs[a].lineno = n THEN p.prfs[a].key \o <<"sp">> \o p.prfs[a].val ELSE <<>>

CommentPart(p, n, c) ==
  IF c <= Len(p.cmts) /\ p.cmts[c].lineno = n THEN <<"hash">> \o p.cmts[c].data ELSE <<>>

\* The parts of LineIs: the line's pair stands on it, its comment does; there
\* is one.
ItsPair(t, s, e, p, a, l) ==
  \A j \in 1 .. a - 1 : p.prfs[j].lineno = l => PairAt(t, s, e, p.prfs[j].key, p.prfs[j].val)
ItsComment(t, s, e, p, c, l) == \A m \in 1 .. c - 1 : p.cmts[m].lineno = l => s < e /\ t[s] = "hash"
SomePair(p, a, l) == \E j \in 1 .. a - 1 : p.prfs[j].lineno = l
SomeComment(p, c, l) == \E m \in 1 .. c - 1 : p.cmts[m].lineno = l

\* prf_write writes the line of the next pair, of the next comment, or an empty
\* one.
LEMMA LineWritten ==
  ASSUME NEW p, Sound(p), Filed(p), NEW n \in Nat, NEW a, NEW c, Split(p, n, a, c),
         NEW a2, a2 = NextPair(p, n, a), NEW c2, c2 = NextComment(p, n, c),
         NEW t \in Strings, NEW st, Layout(st, t, p, n, a, c),
         NEW w1, w1 = PairPart(p, n, a), NEW w2, w2 = CommentPart(p, n, c),
         NEW t2, t2 = t \o w1 \o w2 \o <<"nl">>
  PROVE  Split(p, n + 1, a2, c2) /\ \E st2 : Layout(st2, t2, p, n + 1, a2, c2)
<1>1. /\ DOMAIN p.prfs = 1 .. Len(p.prfs) /\ Len(p.prfs) \in Nat
      /\ DOMAIN p.cmts = 1 .. Len(p.cmts) /\ Len(p.cmts) \in Nat
      /\ a \in 1 .. Len(p.prfs) + 1 /\ c \in 1 .. Len(p.cmts) + 1
  BY PairNumbers, CommentNumbers DEF Split
<1>2. /\ Split(p, n + 1, a2, c2) /\ a2 \in a .. a + 1 /\ c2 \in c .. c + 1
      /\ \A j \in DOMAIN p.prfs : p.prfs[j].lineno = n => j = a /\ a2 = a + 1
      /\ \A m \in DOMAIN p.cmts : p.cmts[m].lineno = n => m = c /\ c2 = c + 1
      /\ a2 = a \/ c2 = c
  <2>1. /\ Ordered(p)
        /\ a2 = IF a <= Len(p.prfs) /\ p.prfs[a].lineno = n THEN a + 1 ELSE a
        /\ c2 = IF c <= Len(p.cmts) /\ p.cmts[c].lineno = n THEN c + 1 ELSE c
    BY Zenon DEF Filed, NextPair, NextComment
  <2>2. Split(p, n + 1, a2, c2) /\ a2 \in a .. a + 1 /\ c2 \in c .. c + 1
    BY <2>1, NextSplit
  <2>3. \A j \in DOMAIN p.prfs : p.prfs[j].lineno = n => j = a /\ a2 = a + 1
    BY <2>1, NextSplit
  <2>4. \A m \in DOMAIN p.cmts : p.cmts[m].lineno = n => m = c /\ c2 = c + 1
    BY <2>1, NextSplit
  <2>5. a2 = a \/ c2 = c
    BY <2>1, NextSplit
  <2> QED
    BY <2>2, <2>3, <2>4, <2>5
<1>3. /\ \A j \in 1 .. a2 - 1 : j \in DOMAIN p.prfs
      /\ \A m \in 1 .. c2 - 1 : m \in DOMAIN p.cmts
  <2>1. a2 \in 1 .. Len(p.prfs) + 1 /\ c2 \in 1 .. Len(p.cmts) + 1
    BY <1>2 DEF Split
  <2>2. \A j \in 1 .. a2 - 1 : j \in 1 .. Len(p.prfs)
    BY <1>1, <2>1
  <2>3. \A m \in 1 .. c2 - 1 : m \in 1 .. Len(p.cmts)
    BY <1>1, <2>1
  <2> QED
    BY <1>1, <2>2, <2>3
<1>4. ASSUME NEW w \in Strings, t2 = t \o w \o <<"nl">>, InLine(w),
             ItsPair(t2, Len(t) + 1, Len(t2), p, a2, n), ItsComment(t2, Len(t) + 1, Len(t2), p, c2, n),
             SomePair(p, a2, n) \/ SomeComment(p, c2, n) \/ Len(t2) = Len(t) + 1
      PROVE  \E st2 : Layout(st2, t2, p, n + 1, a2, c2)
  <2>1. /\ Len(t) + 1 <= Len(t2) /\ t2[Len(t2)] = "nl"
        /\ \A x \in Len(t) + 1 .. Len(t2) - 1 : t2[x] # "nl"
    BY <1>4, LineEnds
  <2>2. LineIs(t2, Len(t) + 1, Len(t2), p, a2, c2, n)
    BY <1>4, <2>1 DEF LineIs, ItsPair, ItsComment, SomePair, SomeComment
  <2> QED
    BY <1>2, <1>4, <2>2, LayoutGrows
<1>5. /\ a2 # a => a <= Len(p.prfs) /\ p.prfs[a].lineno = n /\ w1 = p.prfs[a].key \o <<"sp">> \o p.prfs[a].val
      /\ a2 = a => w1 = <<>>
      /\ c2 # c => c <= Len(p.cmts) /\ p.cmts[c].lineno = n /\ w2 = <<"hash">> \o p.cmts[c].data
      /\ c2 = c => w2 = <<>>
  <2>1. a + 1 # a /\ c + 1 # c
    BY <1>1
  <2> QED
    BY <2>1, Zenon DEF NextPair, NextComment, PairPart, CommentPart
<1>6. t \in Seq(Chars) /\ t \o <<>> = t
  BY DEF Strings
<1>7. /\ a2 = a => (\A j \in DOMAIN p.prfs : p.prfs[j].lineno # n)
      /\ c2 = c => (\A m \in DOMAIN p.cmts : p.cmts[m].lineno # n)
  <2>1. a + 1 # a /\ c + 1 # c
    BY <1>1
  <2> QED
    BY <1>2, <2>1
<1>8. CASE a2 # a /\ c2 = c
  <2>1. PICK k, v, w : k = p.prfs[a].key /\ v = p.prfs[a].val /\ w = k \o <<"sp">> \o v
    OBVIOUS
  <2>2. a \in DOMAIN p.prfs /\ p.prfs[a].lineno = n /\ a2 = a + 1 /\ c2 = c
    BY <1>1, <1>2, <1>5, <1>8
  <2>3. k \in Strings /\ v \in Strings /\ IsKey(k) /\ IsValue(v)
    BY <2>1, <2>2, LinesBelow DEF Filed, Texted
  <2>4. t2 = t \o w \o <<"nl">>
    <3>1. t2 = t \o w \o <<>> \o <<"nl">>
      BY <1>5, <1>8, <2>1
    <3>2. w \in Strings
      BY <2>1, <2>3, PairText
    <3>3. t \o w \in Seq(Chars)
      BY <1>6, <3>2 DEF Strings
    <3>4. t \o w \o <<>> = t \o w
      BY <3>3
    <3> QED
      BY <3>1, <3>4
  <2>5. /\ w \in Strings /\ InLine(w)
        /\ PairAt(t2, Len(t) + 1, Len(t2), k, v)
    <3>1. w = k \o <<"sp">> \o v
      BY <2>1
    <3>2. w \in Strings /\ InLine(w)
      BY <2>3, <3>1, PairInLine
    <3>3. PairAt(t2, Len(t) + 1, Len(t2), k, v)
      BY <2>3, <2>4, <3>1, PairLine
    <3> QED
      BY <3>2, <3>3
  <2>6. ItsComment(t2, Len(t) + 1, Len(t2), p, c2, n)
    <3> SUFFICES ASSUME NEW m \in 1 .. c2 - 1, p.cmts[m].lineno = n PROVE FALSE
      BY DEF ItsComment
    <3> QED
      BY <1>3, <1>7, <2>2
  <2>7. ItsPair(t2, Len(t) + 1, Len(t2), p, a2, n)
    <3> SUFFICES ASSUME NEW j \in 1 .. a2 - 1, p.prfs[j].lineno = n
                 PROVE  PairAt(t2, Len(t) + 1, Len(t2), p.prfs[j].key, p.prfs[j].val)
      BY DEF ItsPair
    <3>1. j = a
      BY <1>2, <1>3
    <3> QED
      BY <2>1, <2>5, <3>1
  <2>8. SomePair(p, a2, n)
    <3>1. a \in 1 .. a2 - 1
      BY <1>1, <2>2
    <3> QED
      BY <2>2, <3>1 DEF SomePair
  <2> QED
    BY <1>2, <1>4, <2>4, <2>5, <2>6, <2>7, <2>8
<1>9. CASE a2 = a /\ c2 # c
  <2>1. PICK d, w : d = p.cmts[c].data /\ w = <<"hash">> \o d
    OBVIOUS
  <2>2. c \in DOMAIN p.cmts /\ p.cmts[c].lineno = n /\ c2 = c + 1 /\ a2 = a
    BY <1>1, <1>2, <1>5, <1>9
  <2>3. d \in Strings /\ InLine(d)
    BY <2>1, <2>2, LinesBelow DEF Filed, Texted
  <2>4. t2 = t \o w \o <<"nl">>
    <3>1. t2 = t \o <<>> \o w \o <<"nl">>
      BY <1>5, <1>9, <2>1
    <3> QED
      BY <1>6, <3>1
  <2>5. /\ w \in Strings /\ InLine(w)
        /\ Len(t) + 1 < Len(t2) /\ t2[Len(t) + 1] = "hash"
    <3>1. w = <<"hash">> \o d
      BY <2>1
    <3>2. w \in Strings /\ InLine(w)
      BY <2>3, <3>1, CommentInLine
    <3>3. Len(t) + 1 < Len(t2) /\ t2[Len(t) + 1] = "hash"
      BY <2>3, <2>4, <3>1, CommentLine
    <3> QED
      BY <3>2, <3>3
  <2>6. ItsPair(t2, Len(t) + 1, Len(t2), p, a2, n)
    <3> SUFFICES ASSUME NEW j \in 1 .. a2 - 1, p.prfs[j].lineno = n PROVE FALSE
      BY DEF ItsPair
    <3> QED
      BY <1>3, <1>7, <2>2
  <2>7. ItsComment(t2, Len(t) + 1, Len(t2), p, c2, n)
    BY <2>5 DEF ItsComment
  <2>8. SomeComment(p, c2, n)
    <3>1. c \in 1 .. c2 - 1
      BY <1>1, <2>2
    <3> QED
      BY <2>2, <3>1 DEF SomeComment
  <2> QED
    BY <1>2, <1>4, <2>4, <2>5, <2>6, <2>7, <2>8
<1>10. CASE a2 = a /\ c2 = c
  <2>1. w1 = <<>> /\ w2 = <<>> /\ a2 = a /\ c2 = c
    BY <1>5, <1>10
  <2>2. t2 = t \o <<>> \o <<"nl">>
    <3>1. t2 = t \o <<>> \o <<>> \o <<"nl">>
      BY <2>1
    <3> QED
      BY <1>6, <3>1
  <2>3. <<>> \in Strings /\ Len(<<>>) = 0 /\ InLine(<<>>)
    BY Words DEF InLine
  <2>4. Len(t2) = Len(t) + 1
    <3>1. Len(t2) = Len(t) + Len(<<>>) + 1 /\ Len(t) \in Nat
      BY <2>2, <2>3, LineAdded
    <3> QED
      BY <2>3, <3>1
  <2>5. ItsPair(t2, Len(t) + 1, Len(t2), p, a2, n) /\ ItsComment(t2, Len(t) + 1, Len(t2), p, c2, n)
    <3>1. ASSUME NEW j \in 1 .. a2 - 1, p.prfs[j].lineno = n PROVE FALSE
      BY <1>3, <1>7, <2>1, <3>1
    <3>2. ASSUME NEW m \in 1 .. c2 - 1, p.cmts[m].lineno = n PROVE FALSE
      BY <1>3, <1>7, <2>1, <3>2
    <3> QED
      BY <3>1, <3>2 DEF ItsPair, ItsComment
  <2>6. PICK w : w = <<>>
    OBVIOUS
  <2>7. w \in Strings /\ t2 = t \o w \o <<"nl">> /\ InLine(w)
    BY <2>2, <2>3, <2>6
  <2> QED
    BY <1>2, <1>4, <2>4, <2>5, <2>7
<1> QED
  BY <1>2, <1>8, <1>9, <1>10

\* What is written in the next state is a matter of the writer's variables.
LEMMA WrittenNext ==
  ASSUME lineno' \in Nat, Split(saved', lineno', prf_i', cmt_i'),
         \E st : Layout(st, out', saved', lineno', prf_i', cmt_i'),
         phase' # "write" /\ out' # <<>> =>
           prf_i' = Len(saved'.prfs) + 1 /\ cmt_i' = Len(saved'.cmts) + 1
  PROVE  Written'
<1>1. Split(saved, lineno, prf_i, cmt_i)'
  BY DEF Split
<1>2. (\E st : Layout(st, out, saved, lineno, prf_i, cmt_i))'
  <2>1. PICK st : Layout(st, out', saved', lineno', prf_i', cmt_i')
    OBVIOUS
  <2>2. Layout(st, out, saved, lineno, prf_i, cmt_i)'
    BY <2>1, Zenon DEF Layout, LineIs, PairAt
  <2> QED
    BY <2>2
<1> QED
  BY <1>1, <1>2 DEF Written

\* Nothing is written yet.
LEMMA NothingWritten ==
  ASSUME NEW p, Sound(p)
  PROVE  Split(p, 0, 1, 1) /\ \E st : Layout(st, <<>>, p, 0, 1, 1)
<1>1. Split(p, 0, 1, 1)
  <2>1. /\ Len(p.prfs) \in Nat /\ Len(p.cmts) \in Nat
        /\ DOMAIN p.prfs = 1 .. Len(p.prfs) /\ DOMAIN p.cmts = 1 .. Len(p.cmts)
    BY PairNumbers, CommentNumbers
  <2>2. /\ \A j \in DOMAIN p.prfs : ~(j < 1) /\ ~(p.prfs[j].lineno < 0)
        /\ \A m \in DOMAIN p.cmts : ~(m < 1) /\ ~(p.cmts[m].lineno < 0)
    BY <2>1, LinesBelow
  <2> QED
    BY <2>1, <2>2 DEF Split
<1>2. Layout([l \in 0 .. 0 |-> 1], <<>>, p, 0, 1, 1)
  <2>1. PICK st : st = [l \in 0 .. 0 |-> 1]
    OBVIOUS
  <2>2. st \in [0 .. 0 -> 1 .. 0 + 1] /\ st[0] = 1
    BY <2>1
  <2>3. Len(<<>>) = 0 /\ \A l \in 0 .. 0 - 1 : FALSE
    OBVIOUS
  <2> QED
    BY <2>1, <2>2, <2>3 DEF Layout
<1> QED
  BY <1>1, <1>2

\* prf_write writes one more line of the table that is saved.
LEMMA WrittenSteps ==
  ASSUME IInv, Filed(saved), Written, WriteLine
  PROVE  Written'
<1>1. /\ phase = "write" /\ phase' = "write" /\ saved = prf /\ saved' = saved /\ lineno' = lineno + 1
      /\ Sound(saved) /\ out \in Strings /\ lineno \in Nat
      /\ Split(saved, lineno, prf_i, cmt_i)
  BY DEF WriteLine, IInv, Phases, Writer, Written, saveVars
<1>2. PICK p, n, a, c, t : p = saved /\ n = lineno /\ a = prf_i /\ c = cmt_i /\ t = out
  OBVIOUS
<1>3. PICK hasPrf, hasCmt :
        /\ hasPrf = (a <= Len(p.prfs) /\ p.prfs[a].lineno = n)
        /\ hasCmt = (c <= Len(p.cmts) /\ p.cmts[c].lineno = n)
  OBVIOUS
<1>4. /\ out' = t \o (IF hasPrf THEN p.prfs[a].key \o <<"sp">> \o p.prfs[a].val ELSE <<>>)
                  \o (IF hasCmt THEN <<"hash">> \o p.cmts[c].data ELSE <<>>)
                  \o <<"nl">>
      /\ prf_i' = IF hasPrf THEN a + 1 ELSE a
      /\ cmt_i' = IF hasCmt THEN c + 1 ELSE c
  BY <1>1, <1>2, <1>3, Zenon DEF WriteLine
<1>5. PICK a2, c2, w1, w2 : /\ a2 = NextPair(p, n, a) /\ c2 = NextComment(p, n, c)
                            /\ w1 = PairPart(p, n, a) /\ w2 = CommentPart(p, n, c)
  OBVIOUS
<1>6. prf_i' = a2 /\ cmt_i' = c2 /\ out' = t \o w1 \o w2 \o <<"nl">>
  BY <1>3, <1>4, <1>5, Zenon DEF NextPair, NextComment, PairPart, CommentPart
<1>7. PICK st : Layout(st, t, p, n, a, c)
  BY <1>2 DEF Written
<1>8. /\ Sound(p) /\ Filed(p) /\ Split(p, n, a, c) /\ n \in Nat /\ t \in Strings
  BY <1>1, <1>2
<1>9. PICK t2 : t2 = t \o w1 \o w2 \o <<"nl">>
  OBVIOUS
<1>10. Split(p, n + 1, a2, c2)
  BY <1>5, <1>7, <1>8, <1>9, LineWritten
<1>11. \E st2 : Layout(st2, t2, p, n + 1, a2, c2)
  BY <1>5, <1>7, <1>8, <1>9, LineWritten
<1>12. saved' = p /\ lineno' = n + 1 /\ out' = t2 /\ n + 1 \in Nat
  BY <1>1, <1>2, <1>6, <1>9
<1>13. Split(saved', lineno', prf_i', cmt_i')
  BY <1>6, <1>10, <1>12, Zenon
<1>14. \E st2 : Layout(st2, out', saved', lineno', prf_i', cmt_i')
  BY <1>6, <1>11, <1>12, Zenon
<1> QED
  BY <1>1, <1>12, <1>13, <1>14, WrittenNext

\* Where prf_write ends, every pair and every comment is written.
LEMMA WrittenEnds ==
  ASSUME IInv, Written, WriteEnd
  PROVE  Written'
<1>1. /\ saved' = saved /\ lineno' = lineno /\ out' = out /\ prf_i' = prf_i /\ cmt_i' = cmt_i
      /\ saved = prf /\ ~MoreToWrite /\ Sound(saved)
  BY DEF WriteEnd, IInv, Phases, Writer, writerVars, saveVars
<1>2. prf_i = Len(saved.prfs) + 1 /\ cmt_i = Len(saved.cmts) + 1
  <2>1. /\ Len(saved.prfs) \in Nat /\ Len(saved.cmts) \in Nat
        /\ prf_i \in 1 .. Len(saved.prfs) + 1 /\ cmt_i \in 1 .. Len(saved.cmts) + 1
        /\ ~(prf_i <= Len(saved.prfs)) /\ ~(cmt_i <= Len(saved.cmts))
    BY <1>1, PairNumbers, CommentNumbers DEF Written, Split, MoreToWrite
  <2> QED
    BY <2>1
<1>3. /\ lineno \in Nat /\ Split(saved, lineno, prf_i, cmt_i)
      /\ \E st : Layout(st, out, saved, lineno, prf_i, cmt_i)
  BY DEF Written
<1> QED
  BY <1>1, <1>2, <1>3, WrittenNext

(***************************************************************************)
(* What prf_read finds in what prf_write wrote                             *)
(***************************************************************************)

\* The line of a pair: letters, a space, letters and spaces.
LEMMA PairChars ==
  ASSUME NEW k \in Strings, NEW v \in Strings, IsKey(k), IsValue(v),
         NEW s \in Nat, NEW e \in Nat, PairAt(body, s, e, k, v), NEW b, b = s + Len(k)
  PROVE  /\ b \in Nat /\ s < b /\ b + 1 < e
         /\ Spells(s, b, k) /\ body[b] = "sp"
         /\ \A n \in b + 1 .. e - 1 : n - b \in 1 .. Len(v) /\ body[n] = v[n - b]
         /\ \A n \in s .. e - 1 : body[n] \in Letters \/ body[n] = "sp"
<1>1. Len(k) \in Nat /\ Len(v) \in Nat /\ Len(k) > 0 /\ Len(v) > 0
  BY DEF IsKey, IsValue, Strings
<1>2. /\ e = s + Len(k) + 1 + Len(v)
      /\ \A x \in 1 .. Len(k) : body[s + x - 1] = k[x]
      /\ body[s + Len(k)] = "sp"
      /\ \A x \in 1 .. Len(v) : body[s + Len(k) + x] = v[x]
  BY DEF PairAt
<1>3. PICK kl, vl : kl = Len(k) /\ vl = Len(v)
  OBVIOUS
<1>4. /\ kl \in Nat /\ vl \in Nat /\ kl > 0 /\ vl > 0
      /\ b = s + kl /\ e = s + kl + 1 + vl
  BY <1>1, <1>2, <1>3
<1>5. b \in Nat /\ s < b /\ b + 1 < e /\ e = b + 1 + vl
  BY <1>4
<1>6. ASSUME NEW n \in s .. b - 1 PROVE body[n] \in Letters
  <2>1. PICK x : x = n - s + 1
    OBVIOUS
  <2>2. x \in 1 .. kl /\ n = s + x - 1
    BY <1>4, <2>1
  <2>3. body[n] = k[x]
    BY <1>2, <1>3, <2>2
  <2> QED
    BY <1>3, <2>2, <2>3 DEF IsKey
<1>7. Spells(s, b, k)
  BY <1>2, <1>6 DEF Spells
<1>8. body[b] = "sp"
  BY <1>2
<1>9. ASSUME NEW n \in b + 1 .. e - 1 PROVE n - b \in 1 .. vl /\ body[n] = v[n - b]
  <2>1. PICK x : x = n - b
    OBVIOUS
  <2>2. x \in 1 .. vl /\ n = s + kl + x
    BY <1>4, <1>5, <2>1
  <2>3. body[n] = v[x]
    BY <1>2, <1>3, <2>2
  <2> QED
    BY <2>1, <2>2, <2>3
<1>10. ASSUME NEW n \in s .. e - 1 PROVE body[n] \in Letters \/ body[n] = "sp"
  <2>1. n \in s .. b - 1 \/ n = b \/ n \in b + 1 .. e - 1
    BY <1>5
  <2>2. CASE n \in b + 1 .. e - 1
    BY <1>3, <1>9, <2>2 DEF IsValue
  <2> QED
    BY <1>6, <1>8, <2>1, <2>2
<1> QED
  BY <1>3, <1>5, <1>7, <1>8, <1>9, <1>10

\* A pair whose value is one word stands there as prf_read finds it.
LEMMA PairGiven ==
  ASSUME NEW k \in Strings, NEW v \in Strings, IsKey(k), IsValue(v), Plain(v), Len(body) \in Nat,
         NEW s \in 1 .. Len(body), NEW e \in s .. Len(body), PairAt(body, s, e, k, v),
         LineStart(s), body[e] = "nl"
  PROVE  Given(s, e, k, v)
<1>1. PICK b : b = s + Len(k)
  OBVIOUS
<1>2. s \in Nat /\ e \in Nat
  OBVIOUS
<1>3. b \in Nat /\ s < b /\ b + 1 < e
  BY <1>1, <1>2, PairChars
<1>4. Spells(s, b, k) /\ body[b] = "sp"
  BY <1>1, <1>2, PairChars
<1>5. \A n \in b + 1 .. e - 1 : n - b \in 1 .. Len(v) /\ body[n] = v[n - b]
  BY <1>1, <1>2, PairChars
<1>6. Keyed(s, s, b, b + 1, k)
  <2>1. Blank(s, s) /\ Blank(b, b + 1)
    <3>1. \A n \in b .. (b + 1) - 1 : n = b
      BY <1>3
    <3> QED
      BY <1>2, <1>4, <3>1, Nothing DEF Blank
  <2> QED
    BY <1>2, <1>3, <1>4, <2>1 DEF Keyed
<1>7. Spells(b + 1, e, v)
  <2>1. PICK vl : vl = Len(v)
    OBVIOUS
  <2>2. vl \in Nat
    BY <2>1 DEF Strings
  <2>3. e = b + 1 + vl /\ \A x \in 1 .. vl : body[b + x] = v[x]
    BY <1>1, <2>1 DEF PairAt
  <2>4. ASSUME NEW n \in 1 .. vl PROVE body[b + 1 + n - 1] = v[n]
    <3>1. b + 1 + n - 1 = b + n
      BY <1>3
    <3> QED
      BY <2>3, <3>1
  <2>5. \A n \in b + 1 .. e - 1 : body[n] \in Letters
    BY <1>5 DEF IsValue, Plain
  <2> QED
    BY <2>1, <2>3, <2>4, <2>5 DEF Spells
<1>8. Blank(e, e)
  BY <1>2, Nothing
<1>9. s \in s .. e /\ b \in s .. e /\ b + 1 \in s .. e /\ e \in s .. e
  BY <1>2, <1>3
<1> QED
  BY <1>3, <1>6, <1>7, <1>8, <1>9 DEF Given

\* Where a value ends, the key is that of the pair.
LEMMA PairKey ==
  ASSUME NEW k \in Strings, NEW v \in Strings, IsKey(k), IsValue(v),
         NEW s \in Nat, NEW e \in Nat, PairAt(body, s, e, k, v),
         NEW k0 \in Strings, NEW v0, Here(s, e, "VALUE", k0, v0)
  PROVE  k0 = k
<1>1. PICK b : b = s + Len(k)
  OBVIOUS
<1>2. b \in Nat /\ s < b /\ b + 1 < e
  BY <1>1, PairChars
<1>3. Spells(s, b, k) /\ body[b] = "sp"
  BY <1>1, PairChars
<1>4. PICK x, y, z \in s .. e : Keyed(s, x, y, z, k0)
  BY DEF Here
<1>5. /\ s <= x /\ x < y /\ y < z /\ Blank(s, x) /\ Spells(x, y, k0) /\ Blank(y, z)
  BY <1>4 DEF Keyed
<1>6. "sp" \notin Letters
  BY PrfAssumption
<1>7. x = s
  <2>1. body[s] \in Letters
    BY <1>2, <1>3 DEF Spells
  <2>2. s < x => body[s] = "sp"
    BY <1>5 DEF Blank
  <2> QED
    BY <1>5, <1>6, <2>1, <2>2
<1>8. y = b
  <2>1. body[y] = "sp"
    BY <1>5 DEF Blank
  <2>2. ~(y < b)
    <3>1. y < b => body[y] \in Letters
      BY <1>3, <1>5 DEF Spells
    <3> QED
      BY <1>6, <2>1, <3>1
  <2>3. ~(b < y)
    <3>1. b < y => body[b] \in Letters
      BY <1>2, <1>5, <1>7 DEF Spells
    <3> QED
      BY <1>3, <1>6, <3>1
  <2> QED
    BY <1>2, <2>2, <2>3
<1> QED
  BY <1>2, <1>3, <1>5, <1>7, <1>8, SameWord

\* How many entries a table may have when it has read the pairs before a: the
\* port, which is the first of them, is there from the start.
Counted(a) == IF a = 1 THEN 1 ELSE a - 1

\* The table q has no more entries than the pairs of p before a and its
\* comments before c, it has a port, and all those pairs of one word each.
Found(q, p, a, c) ==
  /\ Entries(q) <= Counted(a) + c - 1
  /\ Has(q, Port)
  /\ \A j \in DOMAIN p.prfs :
       j < a /\ Plain(p.prfs[j].val) => Holds(q, p.prfs[j].key, p.prfs[j].val)

\* One pair more is one entry more at most.
LEMMA CountedMore ==
  ASSUME NEW a \in Nat, a >= 1, NEW a2 \in a .. a + 1
  PROVE  /\ Counted(a) \in Nat /\ Counted(a2) \in Nat /\ Counted(a) <= Counted(a2)
         /\ a > 1 => Counted(a) = a - 1 /\ Counted(a + 1) = Counted(a) + 1
         /\ Counted(1) = 1 /\ Counted(2) = 1
BY DEF Counted

\* A line that is only counted is an empty one, that of a comment, or that of a
\* pair whose value is not one word.
LEMMA FoundCount ==
  ASSUME NEW q, Sound(q), NEW p, Sound(p), NEW a \in Nat, NEW c \in Nat, a >= 1, c >= 1, Found(q, p, a, c),
         NEW a2 \in a .. a + 1, NEW c2 \in c .. c + 1, a2 = a \/ ~Plain(p.prfs[a].val),
         NEW q2, q2 = [q EXCEPT !.linec = @ + 1]
  PROVE  Found(q2, p, a2, c2)
<1>1. q2.prfs = q.prfs /\ q2.cmts = q.cmts
  <2>1. q = [prfs |-> q.prfs, cmts |-> q.cmts, linec |-> q.linec]
    BY SoundFacts
  <2> QED
    BY <2>1
<1>2. Entries(q2) = Entries(q) /\ Entries(q) \in Nat
  BY <1>1, PairNumbers DEF Entries
<1>3. Entries(q2) <= Counted(a2) + c2 - 1
  <2>1. PICK x, y, z : x = Entries(q) /\ y = Counted(a) /\ z = Counted(a2)
    OBVIOUS
  <2>2. x \in Nat /\ y \in Nat /\ z \in Nat /\ y <= z
    BY <1>2, <2>1, CountedMore
  <2>3. x <= y + c - 1
    BY <2>1 DEF Found
  <2>4. x <= z + c2 - 1
    BY <2>2, <2>3
  <2> QED
    BY <1>2, <2>1, <2>4
<1>4. Has(q2, Port)
  BY <1>1 DEF Found, Has
<1>5. ASSUME NEW j \in DOMAIN p.prfs, j < a2, Plain(p.prfs[j].val)
      PROVE  Holds(q2, p.prfs[j].key, p.prfs[j].val)
  <2>1. j < a
    <3>1. DOMAIN p.prfs = 1 .. Len(p.prfs) /\ Len(p.prfs) \in Nat
      BY PairNumbers
    <3>2. j # a \/ a2 = a
      BY <1>5
    <3> QED
      BY <1>5, <3>1, <3>2
  <2> QED
    BY <1>1, <1>5, <2>1 DEF Found, Holds
<1> QED
  BY <1>3, <1>4, <1>5 DEF Found

\* A comment is one entry more.
LEMMA FoundComment ==
  ASSUME NEW q, Sound(q), NEW p, NEW a \in Nat, NEW c \in Nat, a >= 1, c >= 1, Found(q, p, a, c),
         NEW text \in Strings, NEW q2, q2 = AddComment(q, text)
  PROVE  Found(q2, p, a, c + 1)
<1>1. q2.prfs = q.prfs /\ Len(q2.cmts) = Len(q.cmts) + 1
  BY CommentFields
<1>2. Entries(q2) <= Counted(a) + (c + 1) - 1
  <2>1. PICK x, y, z : x = Len(q.prfs) /\ y = Len(q.cmts) /\ z = Counted(a)
    OBVIOUS
  <2>2. x \in Nat /\ y \in Nat /\ Entries(q) = x + y
    BY <2>1, SoundFacts
  <2>3. z \in Nat
    BY <2>1 DEF Counted
  <2>4. x + y <= z + c - 1
    BY <2>1, <2>2 DEF Found
  <2>5. Entries(q2) = x + (y + 1)
    BY <1>1, <2>1 DEF Entries
  <2>6. x + (y + 1) <= z + (c + 1) - 1
    BY <2>2, <2>3, <2>4
  <2> QED
    BY <2>1, <2>5, <2>6
<1> QED
  BY <1>1, <1>2 DEF Found, Has, Holds

\* A pair finds room where it found room before: line l of the table is that of
\* its pair a, and so far no more was read than was written up to there.
LEMMA FoundPair ==
  ASSUME NEW q, Sound(q), Distinct(q), NEW p, Sound(p), Filed(p), Distinct(p),
         NEW l \in Nat, NEW a, NEW c, Split(p, l, a, c), Found(q, p, a, c),
         a \in DOMAIN p.prfs, p.prfs[a].lineno = l,
         NEW v \in Strings, Plain(p.prfs[a].val) => v = p.prfs[a].val,
         NEW q2, q2 = Set(q, p.prfs[a].key, v)
  PROVE  Found(q2, p, a + 1, c)
<1>1. /\ DOMAIN p.prfs = 1 .. Len(p.prfs) /\ Len(p.prfs) \in Nat
      /\ DOMAIN p.cmts = 1 .. Len(p.cmts) /\ Len(p.cmts) \in Nat
      /\ a \in Nat /\ a >= 1 /\ c \in 1 .. Len(p.cmts) + 1
  BY PairNumbers, CommentNumbers DEF Split
<1>2. PICK k : k = p.prfs[a].key
  OBVIOUS
<1>3. k \in Strings /\ q2 = Set(q, k, v)
  BY <1>2, LinesBelow
<1>4. PICK x, y : x = Entries(q) /\ y = Entries(q2)
  OBVIOUS
<1>5. x \in Nat /\ MaxLen \in Nat /\ x <= Counted(a) + c - 1
  BY <1>4, PairNumbers, PrfAssumption DEF Found
<1>6. /\ a = 1 => Has(q, k)
      /\ a > 1 => x + 1 < MaxLen
  <2>1. a = 1 => k = Port
    BY <1>2 DEF Filed, Ordered
  <2>2. a > 1 => a + (c - 1) < MaxLen
    <3>1. c - 1 = 0 \/ p.cmts[c - 1].lineno < p.prfs[a].lineno
      <4>1. c - 1 # 0 => c - 1 \in DOMAIN p.cmts /\ c - 1 < c
        BY <1>1
      <4> QED
        BY <4>1 DEF Split
    <3>2. a > 1 => a \in 2 .. Len(p.prfs)
      BY <1>1
    <3>3. c - 1 \in 0 .. Len(p.cmts)
      BY <1>1
    <3> QED
      BY <3>1, <3>2, <3>3 DEF Filed, Room
  <2>3. a > 1 => Counted(a) = a - 1
    BY <1>1 DEF Counted
  <2>4. a > 1 => x + 1 < MaxLen
    BY <1>1, <1>5, <2>2, <2>3
  <2> QED
    BY <2>1, <2>4 DEF Found
<1>7. Has(q, k) \/ Entries(q) + 1 < MaxLen
  BY <1>1, <1>4, <1>6
<1>8. Holds(q2, k, v) /\ (y = x \/ (~Has(q, k) /\ y = x + 1))
  BY <1>3, <1>4, <1>7, SetStores
<1>9. \A k2, w : k2 # k /\ Holds(q, k2, w) => Holds(q2, k2, w)
  BY <1>3, SetHolds
<1>10. Entries(q2) <= Counted(a + 1) + c - 1
  <2>1. CASE a = 1
    <3>1. y = x /\ Counted(a) = 1 /\ Counted(a + 1) = 1
      BY <1>6, <1>8, <2>1 DEF Counted
    <3> QED
      BY <1>4, <1>5, <3>1
  <2>2. CASE a > 1
    <3>1. PICK z : z = Counted(a)
      OBVIOUS
    <3>2. z \in Nat /\ Counted(a + 1) = z + 1
      BY <1>1, <2>2, <3>1, CountedMore
    <3>3. x <= z + c - 1
      BY <1>5, <3>1
    <3>4. y \in Nat /\ y <= x + 1
      BY <1>5, <1>8
    <3>5. y <= (z + 1) + c - 1
      BY <1>1, <1>5, <3>2, <3>3, <3>4
    <3> QED
      BY <1>4, <3>2, <3>5
  <2> QED
    BY <1>1, <2>1, <2>2
<1>11. Has(q2, Port)
  <2>1. CASE Port = k
    <3>1. DOMAIN q2.prfs = 1 .. Len(q2.prfs)
      BY <1>3, SetSound, PairNumbers
    <3> QED
      BY <1>8, <2>1, <3>1 DEF Holds, Has
  <2>2. CASE Port # k
    <3>1. PICK j \in 1 .. Len(q.prfs) : q.prfs[j].key = Port
      BY DEF Found, Has
    <3>2. DOMAIN q.prfs = 1 .. Len(q.prfs)
      BY PairNumbers
    <3>3. Holds(q, Port, q.prfs[j].val)
      BY <3>1, <3>2 DEF Holds
    <3>4. Holds(q2, Port, q.prfs[j].val)
      BY <1>9, <2>2, <3>3
    <3>5. DOMAIN q2.prfs = 1 .. Len(q2.prfs)
      BY <1>3, SetSound, PairNumbers
    <3> QED
      BY <3>4, <3>5 DEF Holds, Has
  <2> QED
    BY <2>1, <2>2
<1>12. ASSUME NEW j \in DOMAIN p.prfs, j < a + 1, Plain(p.prfs[j].val)
       PROVE  Holds(q2, p.prfs[j].key, p.prfs[j].val)
  <2>1. CASE j = a
    BY <1>2, <1>8, <1>12, <2>1
  <2>2. CASE j # a
    <3>1. j < a
      BY <1>1, <1>12, <2>2
    <3>2. p.prfs[j].key # k
      BY <1>2, <2>2 DEF Distinct
    <3>3. Holds(q, p.prfs[j].key, p.prfs[j].val)
      BY <1>12, <3>1 DEF Found
    <3> QED
      BY <1>9, <3>2, <3>3
  <2> QED
    BY <2>1, <2>2
<1> QED
  BY <1>10, <1>11, <1>12 DEF Found

\* Line n of the table is its next pair, or its next comment, or neither.
Following(p, n, a, c, a2, c2) ==
  /\ a2 \in a .. a + 1 /\ c2 \in c .. c + 1
  /\ Split(p, n + 1, a2, c2)
  /\ a2 # a => a \in DOMAIN p.prfs /\ p.prfs[a].lineno = n /\ a2 = a + 1 /\ c2 = c
  /\ c2 # c => c \in DOMAIN p.cmts /\ p.cmts[c].lineno = n /\ c2 = c + 1 /\ a2 = a
  /\ a2 = a => \A j \in DOMAIN p.prfs : p.prfs[j].lineno # n
  /\ c2 = c => \A m \in DOMAIN p.cmts : p.cmts[m].lineno # n

LEMMA NextEntry ==
  ASSUME NEW p, Sound(p), Ordered(p), NEW n \in Nat, NEW a, NEW c, Split(p, n, a, c)
  PROVE  \E a2, c2 : Following(p, n, a, c, a2, c2)
<1>1. /\ DOMAIN p.prfs = 1 .. Len(p.prfs) /\ Len(p.prfs) \in Nat
      /\ DOMAIN p.cmts = 1 .. Len(p.cmts) /\ Len(p.cmts) \in Nat
      /\ a \in 1 .. Len(p.prfs) + 1 /\ c \in 1 .. Len(p.cmts) + 1
  BY PairNumbers, CommentNumbers DEF Split
<1>2. PICK a2 : a2 = IF a <= Len(p.prfs) /\ p.prfs[a].lineno = n THEN a + 1 ELSE a
  OBVIOUS
<1>3. PICK c2 : c2 = IF c <= Len(p.cmts) /\ p.cmts[c].lineno = n THEN c + 1 ELSE c
  OBVIOUS
<1>4. Split(p, n + 1, a2, c2) /\ a2 \in a .. a + 1 /\ c2 \in c .. c + 1
  BY <1>2, <1>3, NextSplit
<1>5. \A j \in DOMAIN p.prfs : p.prfs[j].lineno = n => j = a /\ a2 = a + 1
  BY <1>2, <1>3, NextSplit
<1>6. \A m \in DOMAIN p.cmts : p.cmts[m].lineno = n => m = c /\ c2 = c + 1
  BY <1>2, <1>3, NextSplit
<1>7. a2 = a \/ c2 = c
  BY <1>2, <1>3, NextSplit
<1>8. a2 # a => a \in DOMAIN p.prfs /\ p.prfs[a].lineno = n
  BY <1>1, <1>2
<1>9. c2 # c => c \in DOMAIN p.cmts /\ p.cmts[c].lineno = n
  BY <1>1, <1>3
<1>10. a2 = a => \A j \in DOMAIN p.prfs : p.prfs[j].lineno # n
  BY <1>1, <1>5
<1>11. c2 = c => \A m \in DOMAIN p.cmts : p.cmts[m].lineno # n
  BY <1>1, <1>6
<1>12. /\ a2 # a => a2 = a + 1 /\ c2 = c
       /\ c2 # c => c2 = c + 1 /\ a2 = a
  BY <1>1, <1>4, <1>7
<1> QED
  BY <1>4, <1>8, <1>9, <1>10, <1>11, <1>12 DEF Following

\* The file is the whole table, line by line.
Whole(st, p, n) == Layout(st, body, p, n, Len(p.prfs) + 1, Len(p.cmts) + 1)

\* No entry has the line number l.
Vacant(p, l) == /\ \A j \in DOMAIN p.prfs : p.prfs[j].lineno # l
                /\ \A m \in DOMAIN p.cmts : p.cmts[m].lineno # l

\* A line of the file.
LEMMA FileLine ==
  ASSUME NEW p, Sound(p), NEW n \in Nat, NEW st, Whole(st, p, n), Len(body) \in Nat,
         NEW l \in 0 .. n - 1, NEW s, s = st[l], NEW e, e = st[l + 1] - 1
  PROVE  /\ s \in 1 .. Len(body) /\ e \in s .. Len(body)
         /\ body[e] = "nl" /\ \A x \in s .. e - 1 : body[x] # "nl"
         /\ \A j \in DOMAIN p.prfs : p.prfs[j].lineno = l => PairAt(body, s, e, p.prfs[j].key, p.prfs[j].val)
         /\ \A m \in DOMAIN p.cmts : p.cmts[m].lineno = l => s < e /\ body[s] = "hash"
         /\ Vacant(p, l) => e = s
<1>1. /\ DOMAIN p.prfs = 1 .. Len(p.prfs) /\ Len(p.prfs) \in Nat
      /\ DOMAIN p.cmts = 1 .. Len(p.cmts) /\ Len(p.cmts) \in Nat
  BY PairNumbers, CommentNumbers
<1>2. 1 .. (Len(p.prfs) + 1) - 1 = DOMAIN p.prfs /\ 1 .. (Len(p.cmts) + 1) - 1 = DOMAIN p.cmts
  BY <1>1
<1>3. LineIs(body, s, e, p, Len(p.prfs) + 1, Len(p.cmts) + 1, l)
  BY DEF Whole, Layout
<1>4. s \in 1 .. Len(body) + 1 /\ e \in 0 .. Len(body)
  <2>1. l \in 0 .. n /\ l + 1 \in 0 .. n
    OBVIOUS
  <2>2. st[l] \in 1 .. Len(body) + 1 /\ st[l + 1] \in 1 .. Len(body) + 1
    BY <2>1 DEF Whole, Layout
  <2> QED
    BY <2>2
<1>5. s <= e /\ body[e] = "nl" /\ \A x \in s .. e - 1 : body[x] # "nl"
  BY <1>3 DEF LineIs
<1>6. s \in 1 .. Len(body) /\ e \in s .. Len(body)
  BY <1>4, <1>5
<1> QED
  BY <1>2, <1>3, <1>5, <1>6 DEF LineIs, Vacant

\* Every line starts behind a newline.
LEMMA FileStart ==
  ASSUME NEW p, Sound(p), NEW n \in Nat, NEW st, Whole(st, p, n), Len(body) \in Nat,
         NEW l \in 0 .. n
  PROVE  st[l] \in 1 .. Len(body) + 1 /\ LineStart(st[l]) /\ (l = n => st[l] = Len(body) + 1)
<1>1. st[l] \in 1 .. Len(body) + 1 /\ st[0] = 1 /\ st[n] = Len(body) + 1
  BY DEF Whole, Layout
<1>2. CASE l = 0
  BY <1>1, <1>2 DEF LineStart
<1>3. CASE l # 0
  <2>1. PICK m : m = l - 1
    OBVIOUS
  <2>2. m \in 0 .. n - 1 /\ m + 1 = l
    BY <1>3, <2>1
  <2>3. body[st[m + 1] - 1] = "nl"
    <3>1. PICK s, e : s = st[m] /\ e = st[m + 1] - 1
      OBVIOUS
    <3>2. body[e] = "nl"
      BY <2>2, <3>1, FileLine
    <3> QED
      BY <3>1, <3>2
  <2> QED
    BY <1>1, <2>2, <2>3 DEF LineStart
<1> QED
  BY <1>1, <1>2, <1>3

\* The parser is on line l.
OnLine(st, l) == st[l] <= i /\ \A x \in st[l] .. i - 1 : body[x] # "nl"

\* So what it has understood is that line.
LEMMA Placed ==
  ASSUME IInv, Understood, phase = "read", lineno \in Nat, NEW st, Whole(st, saved, lineno),
         NEW l \in 0 .. lineno, OnLine(st, l)
  PROVE  Here(st[l], i, state, key, val) /\ st[l] \in 1 .. i
<1>1. Len(body) \in Nat /\ i \in 1 .. Len(body) + 1 /\ Sound(saved)
  BY DEF IInv, Texts, Writer, Strings
<1>2. PICK r \in 1 .. i : Here(r, i, state, key, val)
  BY DEF Understood
<1>3. LineStart(r) /\ \A x \in r .. i - 1 : body[x] # "nl"
  BY <1>2 DEF Here
<1>4. PICK s : s = st[l]
  OBVIOUS
<1>5. s \in 1 .. i /\ LineStart(s) /\ \A x \in s .. i - 1 : body[x] # "nl"
  BY <1>1, <1>4, FileStart DEF OnLine
<1>6. ~(r < s)
  <2>1. r < s => s - 1 \in r .. i - 1 /\ s # 1
    BY <1>1, <1>2, <1>5
  <2> QED
    BY <1>3, <1>5, <2>1 DEF LineStart
<1>7. ~(s < r)
  <2>1. s < r => r - 1 \in s .. i - 1 /\ r # 1
    BY <1>1, <1>2, <1>5
  <2> QED
    BY <1>3, <1>5, <2>1 DEF LineStart
<1>8. r = s
  BY <1>1, <1>2, <1>5, <1>6, <1>7
<1> QED
  BY <1>2, <1>4, <1>5, <1>8

\* As long as the parser looks at a character, it is before the end of the
\* file, and it sees the newline of its line where it is.
LEMMA AtLine ==
  ASSUME Len(body) \in Nat, i \in 1 .. Len(body), NEW p, Sound(p), NEW n \in Nat, NEW st, Whole(st, p, n),
         NEW l \in 0 .. n, OnLine(st, l)
  PROVE  /\ l \in 0 .. n - 1 /\ i \in st[l] .. st[l + 1] - 1
         /\ body[i] = "nl" <=> i = st[l + 1] - 1
<1>1. st[l] \in 1 .. Len(body) + 1 /\ (l = n => st[l] = Len(body) + 1)
  BY FileStart
<1>2. l \in 0 .. n - 1
  BY <1>1 DEF OnLine
<1>3. PICK s, e : s = st[l] /\ e = st[l + 1] - 1
  OBVIOUS
<1>4. /\ s \in 1 .. Len(body) /\ e \in s .. Len(body)
      /\ body[e] = "nl" /\ \A x \in s .. e - 1 : body[x] # "nl"
  <2>1. s \in 1 .. Len(body) /\ e \in s .. Len(body)
    BY <1>2, <1>3, FileLine
  <2>2. body[e] = "nl"
    BY <1>2, <1>3, FileLine
  <2>3. \A x \in s .. e - 1 : body[x] # "nl"
    BY <1>2, <1>3, FileLine
  <2> QED
    BY <2>1, <2>2, <2>3
<1>5. s <= i /\ \A x \in s .. i - 1 : body[x] # "nl"
  BY <1>3 DEF OnLine
<1>6. i <= e
  BY <1>4, <1>5
<1>7. body[i] = "nl" <=> i = e
  BY <1>4, <1>5, <1>6
<1> QED
  BY <1>2, <1>3, <1>4, <1>5, <1>6, <1>7

\* What a newline does to the table.
NewlineTable ==
  \/ state \notin {"VALUE", "PV", "COMMENT"} /\ CountLine
  \/ state = "COMMENT" /\ prf' = AddComment(prf, cmt)
  \/ state = "VALUE" /\ prf' = Set(prf, key, val)

\* At the newline of line l the parser counts the line, or adds its comment, or
\* sets its pair: what it found up to the line before it has found up to here.
LEMMA LineFound ==
  ASSUME IInv, Spelt, Understood, phase = "read", Filed(saved), Distinct(saved), lineno \in Nat,
         NEW st, Whole(st, saved, lineno), NEW l \in 0 .. lineno - 1, OnLine(st, l),
         i = st[l + 1] - 1, body[i] = "nl",
         NEW a, NEW c, Split(saved, l, a, c), Found(prf, saved, a, c),
         NewlineTable
  PROVE  \E a2, c2 : Split(saved, l + 1, a2, c2) /\ Found(prf', saved, a2, c2)
<1>1. /\ Sound(prf) /\ Sound(saved) /\ Len(body) \in Nat /\ Distinct(prf) /\ Ordered(saved)
      /\ key \in Strings /\ val \in Strings /\ cmt \in Strings /\ state \in States
  BY DEF IInv, Texts, Writer, Strings, Understood, Filed
<1>2. a \in Nat /\ a >= 1 /\ c \in Nat /\ c >= 1
  BY <1>1, PairNumbers, CommentNumbers DEF Split
<1>3. PICK s : s = st[l]
  OBVIOUS
<1>4. l \in 0 .. lineno /\ l \in Nat
  OBVIOUS
<1>5. Here(s, i, state, key, val)
  BY <1>3, <1>4, Placed
<1>6. s \in 1 .. Len(body) /\ i \in s .. Len(body) /\ LineStart(s)
  BY <1>1, <1>3, <1>4, FileLine, FileStart
<1>7. ASSUME NEW j \in DOMAIN saved.prfs, saved.prfs[j].lineno = l
      PROVE  PairAt(body, s, i, saved.prfs[j].key, saved.prfs[j].val)
  BY <1>1, <1>3, <1>7, FileLine
<1>8. ASSUME NEW m \in DOMAIN saved.cmts, saved.cmts[m].lineno = l
      PROVE  s < i /\ body[s] = "hash"
  BY <1>1, <1>3, <1>8, FileLine
<1>9. Vacant(saved, l) => i = s
  BY <1>1, <1>3, FileLine
<1>10. PICK a2, c2 : Following(saved, l, a, c, a2, c2)
  BY <1>1, <1>4, NextEntry
<1>11. /\ a2 \in a .. a + 1 /\ c2 \in c .. c + 1
       /\ Split(saved, l + 1, a2, c2)
       /\ a2 # a => a \in DOMAIN saved.prfs /\ saved.prfs[a].lineno = l /\ a2 = a + 1 /\ c2 = c
       /\ c2 # c => c \in DOMAIN saved.cmts /\ saved.cmts[c].lineno = l /\ c2 = c + 1 /\ a2 = a
       /\ a2 = a /\ c2 = c => Vacant(saved, l)
  BY <1>10 DEF Following, Vacant
<1>12. PICK k, v : k = saved.prfs[a].key /\ v = saved.prfs[a].val
  OBVIOUS
<1>13. a2 # a => /\ k \in Strings /\ v \in Strings /\ IsKey(k) /\ IsValue(v)
                 /\ PairAt(body, s, i, k, v)
  BY <1>1, <1>7, <1>11, <1>12, LinesBelow DEF Filed, Texted
<1>14. a2 # a /\ Plain(v) => Given(s, i, k, v)
  <2> SUFFICES ASSUME a2 # a, Plain(v) PROVE Given(s, i, k, v)
    OBVIOUS
  <2>1. k \in Strings /\ v \in Strings /\ IsKey(k) /\ IsValue(v) /\ PairAt(body, s, i, k, v)
    BY <1>13
  <2> QED
    BY <1>6, <2>1, PairGiven
<1>15. CASE state \notin {"VALUE", "PV", "COMMENT"} /\ CountLine
  <2>1. a2 = a \/ ~Plain(v)
    <3> SUFFICES ASSUME a2 # a, Plain(v) PROVE FALSE
      OBVIOUS
    <3>1. Given(s, i, k, v) /\ k \in Strings /\ v \in Strings
      BY <1>13, <1>14
    <3>2. state \in States \ {"VALUE", "PV"} /\ s \in 1 .. i
      BY <1>1, <1>6, <1>15
    <3> QED
      BY <1>1, <1>5, <3>1, <3>2, NoneEnds
  <2>2. prf' = [prf EXCEPT !.linec = @ + 1]
    BY <1>15 DEF CountLine
  <2>3. Found(prf', saved, a2, c2)
    BY <1>1, <1>2, <1>12, <1>11, <2>1, <2>2, FoundCount
  <2> QED
    BY <1>11, <2>3
<1>16. CASE state = "COMMENT" /\ prf' = AddComment(prf, cmt)
  <2>1. /\ \A m \in s .. i - 1 : body[m] # "nl"
        /\ \E h \in s .. i - 1 : body[h] = "hash"
    BY <1>5, <1>16 DEF Here
  <2>2. a2 = a
    <3> SUFFICES ASSUME a2 # a PROVE FALSE
      OBVIOUS
    <3>1. k \in Strings /\ v \in Strings /\ IsKey(k) /\ IsValue(v) /\ PairAt(body, s, i, k, v)
      BY <1>13
    <3>2. PICK b : b = s + Len(k)
      OBVIOUS
    <3>3. s \in Nat /\ i \in Nat
      BY <1>1, <1>6
    <3>4. \A n \in s .. i - 1 : body[n] \in Letters \/ body[n] = "sp"
      BY <3>1, <3>2, <3>3, PairChars
    <3> QED
      BY <2>1, <3>4, PrfAssumption
  <2>3. c2 # c
    BY <1>1, <1>6, <1>9, <1>11, <2>1, <2>2
  <2>4. c2 = c + 1
    BY <1>11, <2>3
  <2>5. Found(prf', saved, a, c + 1)
    BY <1>1, <1>2, <1>16, FoundComment
  <2> QED
    BY <1>11, <2>2, <2>4, <2>5
<1>17. CASE state = "VALUE" /\ prf' = Set(prf, key, val)
  <2>1. /\ \A m \in s .. i - 1 : body[m] # "hash"
        /\ s < i
    <3>1. \A m \in s .. i - 1 : body[m] # "hash"
      BY <1>5, <1>17 DEF Here
    <3>2. PICK x, y, z \in s .. i : Keyed(s, x, y, z, key)
      BY <1>5, <1>17 DEF Here
    <3>3. s < i
      BY <1>6, <3>2 DEF Keyed
    <3> QED
      BY <3>1, <3>3
  <2>2. c2 = c
    <3> SUFFICES ASSUME c2 # c PROVE FALSE
      OBVIOUS
    <3>1. body[s] = "hash"
      BY <1>8, <1>11
    <3>2. s \in s .. i - 1
      BY <1>6, <2>1
    <3> QED
      BY <2>1, <3>1, <3>2
  <2>3. a2 # a
    BY <1>6, <1>9, <1>11, <2>1, <2>2
  <2>4. a2 = a + 1 /\ a \in DOMAIN saved.prfs /\ saved.prfs[a].lineno = l
    BY <1>11, <2>3
  <2>5. Here(s, i, "VALUE", key, val)
    BY <1>5, <1>17
  <2>6. key = k
    <3>1. s \in Nat /\ i \in Nat
      BY <1>1, <1>6
    <3> QED
      BY <1>1, <1>13, <2>3, <2>5, <3>1, PairKey
  <2>7. Plain(v) => val = v
    <3> SUFFICES ASSUME Plain(v) PROVE val = v
      OBVIOUS
    <3>1. Given(s, i, k, v) /\ k \in Strings /\ v \in Strings /\ s \in 1 .. i
      BY <1>6, <1>13, <1>14, <2>3
    <3> QED
      BY <1>1, <2>5, <3>1, OneEnds
  <2>8. prf' = Set(prf, saved.prfs[a].key, val)
    BY <1>12, <1>17, <2>6
  <2>9. Plain(saved.prfs[a].val) => val = saved.prfs[a].val
    BY <1>12, <2>7
  <2>10. Found(prf', saved, a + 1, c)
    BY <1>1, <1>4, <2>4, <2>8, <2>9, FoundPair
  <2> QED
    BY <1>11, <2>2, <2>4, <2>10
<1> QED
  BY <1>15, <1>16, <1>17 DEF NewlineTable

\* No line of the file has a pair and a comment.
LEMMA NoHash ==
  ASSUME IInv, Understood, phase = "read", Filed(saved), lineno \in Nat, i \in 1 .. Len(body),
         NEW st, Whole(st, saved, lineno), NEW l \in 0 .. lineno, OnLine(st, l),
         state = "VALUE"
  PROVE  body[i] # "hash"
<1>1. /\ Sound(saved) /\ Len(body) \in Nat /\ key \in Strings /\ val \in Strings
  BY DEF IInv, Texts, Writer, Strings
<1>2. l \in 0 .. lineno - 1 /\ i \in st[l] .. st[l + 1] - 1 /\ (body[i] = "nl" <=> i = st[l + 1] - 1)
  BY <1>1, AtLine
<1>3. PICK s, e : s = st[l] /\ e = st[l + 1] - 1
  OBVIOUS
<1>4. l \in 0 .. lineno - 1
  BY <1>2
<1>5. s \in 1 .. Len(body) /\ e \in s .. Len(body) /\ body[e] = "nl"
  BY <1>1, <1>4, <1>3, FileLine
<1>6. Here(s, i, "VALUE", key, val)
  BY <1>3, Placed
<1>7. \A m \in s .. i - 1 : body[m] # "hash"
  BY <1>6 DEF Here
<1>8. s < i
  <2>1. PICK x, y, z \in s .. i : Keyed(s, x, y, z, key)
    BY <1>6 DEF Here
  <2> QED
    BY <1>2, <1>3, <1>5, <2>1 DEF Keyed
<1>9. ASSUME NEW j \in DOMAIN saved.prfs, saved.prfs[j].lineno = l
      PROVE  body[i] # "hash"
  <2>1. PICK k, v : k = saved.prfs[j].key /\ v = saved.prfs[j].val
    OBVIOUS
  <2>2. k \in Strings /\ v \in Strings /\ IsKey(k) /\ IsValue(v)
    BY <1>1, <2>1, LinesBelow DEF Filed, Texted
  <2>3. PairAt(body, s, e, k, v)
    BY <1>1, <1>4, <1>3, <1>9, <2>1, FileLine
  <2>4. PICK b : b = s + Len(k)
    OBVIOUS
  <2>5. \A n \in s .. e - 1 : body[n] \in Letters \/ body[n] = "sp"
    <3>1. s \in Nat /\ e \in Nat
      BY <1>1, <1>5
    <3> QED
      BY <2>2, <2>3, <2>4, <3>1, PairChars
  <2>6. i \in s .. e - 1 \/ i = e
    BY <1>2, <1>3
  <2> QED
    BY <1>5, <2>5, <2>6, PrfAssumption
<1>10. ASSUME NEW m \in DOMAIN saved.cmts, saved.cmts[m].lineno = l
      PROVE  FALSE
  <2>1. body[s] = "hash"
    BY <1>1, <1>4, <1>3, <1>10, FileLine
  <2>2. s \in s .. i - 1
    BY <1>2, <1>3, <1>5, <1>8
  <2> QED
    BY <1>7, <2>1, <2>2
<1>11. Vacant(saved, l) => e = s
  BY <1>1, <1>4, <1>3, FileLine
<1>12. e # s
  BY <1>2, <1>3, <1>5, <1>8
<1> QED
  BY <1>9, <1>10, <1>11, <1>12 DEF Vacant

\* Part of the way through the file, the parser has found what stands there.
Reached(st, l, a, c) ==
  /\ Whole(st, saved, lineno)
  /\ OnLine(st, l)
  /\ Split(saved, l, a, c)
  /\ Found(prf, saved, a, c)

\* Every pair of one word that was saved is in the table.
AllFound(q) ==
  \A j \in DOMAIN saved.prfs :
    Plain(saved.prfs[j].val) => Holds(q, saved.prfs[j].key, saved.prfs[j].val)

\* A program that starts on what the last one wrote.
Replay ==
  phase \in {"read", "ready"} /\ out # <<>> =>
    /\ body = out
    /\ phase = "read" => \E st, a, c : \E l \in 0 .. lineno : Reached(st, l, a, c)
    /\ phase = "ready" => AllFound(prf)

\* The same of the next state.
LEMMA ReplayOn ==
  ASSUME phase' = "read", saved' = saved, lineno' = lineno, out' = out, body' = out,
         NEW st, NEW l \in 0 .. lineno, NEW a, NEW c,
         Layout(st, body', saved, lineno, Len(saved.prfs) + 1, Len(saved.cmts) + 1),
         st[l] <= i', \A x \in st[l] .. i' - 1 : body'[x] # "nl",
         Split(saved, l, a, c), Found(prf', saved, a, c)
  PROVE  Replay'
<1>1. Whole(st, saved, lineno)'
  <2>1. Layout(st, body', saved', lineno', Len(saved'.prfs) + 1, Len(saved'.cmts) + 1)
    OBVIOUS
  <2> QED
    BY <2>1, Zenon DEF Whole, Layout, LineIs, PairAt
<1>2. OnLine(st, l)'
  BY DEF OnLine
<1>3. Split(saved, l, a, c)'
  BY DEF Split
<1>4. Found(prf, saved, a, c)'
  BY Zenon DEF Found, Entries, Has, Holds, Counted, Plain
<1>5. Reached(st, l, a, c)'
  BY <1>1, <1>2, <1>3, <1>4 DEF Reached
<1> QED
  BY <1>5 DEF Replay

\* prf_read starts on what prf_write wrote.
LEMMA ReplayStarts ==
  ASSUME IInv, Written, Restart
  PROVE  Replay'
<1>1. /\ phase \in {"edited", "written"} /\ out # <<>> /\ phase' = "read" /\ body' = out /\ i' = 1
      /\ prf' = New /\ saved' = saved /\ lineno' = lineno /\ out' = out
      /\ Sound(saved) /\ lineno \in Nat
  BY DEF Restart, StartReading, writerVars, saveVars, IInv, Writer, Written
<1>2. PICK st : Layout(st, out, saved, lineno, Len(saved.prfs) + 1, Len(saved.cmts) + 1)
  BY <1>1 DEF Written
<1>3. Layout(st, body', saved, lineno, Len(saved.prfs) + 1, Len(saved.cmts) + 1)
  BY <1>1, <1>2
<1>4. Split(saved, 0, 1, 1)
  BY <1>1, NothingWritten
<1>5. Found(prf', saved, 1, 1)
  <2>1. Entries(prf') <= Counted(1) + 1 - 1
    BY <1>1, NewFiled DEF Counted
  <2>2. Has(prf', Port)
    <3>1. prf'.prfs[1].key = Port /\ Sound(prf')
      BY <1>1, NewFiled, NewSound DEF Filed, Ordered
    <3>2. 1 \in 1 .. Len(prf'.prfs)
      BY <3>1 DEF Sound
    <3> QED
      BY <3>1, <3>2 DEF Has
  <2>3. ASSUME NEW j \in DOMAIN saved.prfs PROVE ~(j < 1)
    BY <1>1, PairNumbers
  <2> QED
    BY <2>1, <2>2, <2>3 DEF Found
<1>6. st[0] <= i' /\ \A x \in st[0] .. i' - 1 : FALSE
  <2>1. st[0] = 1
    BY <1>2 DEF Layout
  <2> QED
    BY <1>1, <2>1
<1>7. 0 \in 0 .. lineno
  BY <1>1
<1> QED
  BY <1>1, <1>3, <1>4, <1>5, <1>6, <1>7, ReplayOn

\* What a step of the parser is: a glance, a character of the line, its
\* newline, a comment behind a pair, or the end.
LEMMA ReadMoves ==
  ASSUME IInv, ReadStep
  PROVE  \/ phase' = "wild"
         \/ phase' = "ready" /\ ~MoreToRead /\ prf' = prf
         \/ phase' = "read" /\ i' = i /\ prf' = prf
         \/ phase' = "read" /\ i \in 1 .. Len(body) /\ i' = i + 1 /\ body[i] # "nl" /\ prf' = prf
         \/ phase' = "read" /\ i \in 1 .. Len(body) /\ i' = i + 1 /\ body[i] = "nl" /\ NewlineTable
         \/ i \in 1 .. Len(body) /\ state = "VALUE" /\ body[i] = "hash"
<1>1. "nl" \notin Letters
  BY PrfAssumption
<1>2. ASSUME NEW s, NEW chars, At(s, chars)
      PROVE  i \in 1 .. Len(body) /\ body[i] \in chars /\ state = s /\ phase' = "read"
  BY <1>2, AtFacts
<1>3. CASE LineHash \/ SettingSpace \/ SettingHash \/ KeyEnd \/ KeyText \/ IkvSpace \/ IkvHash
           \/ ValueSpace \/ ValueText \/ PvMeaningful \/ CommentText
  <2>1. PICK s, chars : At(s, chars) /\ "nl" \notin chars /\ i' = i + 1 /\ prf' = prf
    BY <1>1, <1>3 DEF LineHash, SettingSpace, SettingHash, KeyEnd, KeyText, IkvSpace, IkvHash,
                      ValueSpace, ValueText, PvMeaningful, CommentText, Eat
  <2> QED
    BY <1>2, <2>1
<1>4. CASE LineSetting \/ SettingKey \/ KeyHash \/ IkvValue \/ PvMeaningless
  <2>1. i' = i /\ prf' = prf /\ \E s, chars : At(s, chars)
    BY <1>4 DEF LineSetting, SettingKey, KeyHash, IkvValue, PvMeaningless
  <2> QED
    BY <1>2, <2>1
<1>5. CASE CommentUnset
  BY <1>5 DEF CommentUnset
<1>6. CASE LineEmpty \/ SettingEmpty \/ KeyAlone \/ IkvAlone
  <2>1. PICK s \in {"LINE", "SETTING", "KEY", "IKV"} : At(s, {"nl"}) /\ i' = i + 1 /\ CountLine
    BY <1>6 DEF LineEmpty, SettingEmpty, KeyAlone, IkvAlone, Eat
  <2> QED
    BY <1>2, <2>1 DEF NewlineTable
<1>7. CASE CommentEnd
  <2>1. At("COMMENT", {"nl"}) /\ i' = i + 1 /\ prf' = AddComment(prf, cmt)
    BY <1>7 DEF CommentEnd, Eat
  <2> QED
    BY <1>2, <2>1 DEF NewlineTable
<1>8. CASE ValueEnd
  <2>1. At("VALUE", {"nl"}) /\ i' = i + 1 /\ prf' = Set(prf, key, val)
    BY <1>8 DEF ValueEnd, Eat
  <2> QED
    BY <1>2, <2>1 DEF NewlineTable
<1>9. CASE ValueHash
  BY <1>2, <1>9 DEF ValueHash
<1>10. CASE ReadEnd
  BY <1>10 DEF ReadEnd
<1> QED
  BY <1>3, <1>4, <1>5, <1>6, <1>7, <1>8, <1>9, <1>10 DEF ReadStep

\* From the newline on it is the next line that is reached.
LEMMA NextReached ==
  ASSUME IInv, Spelt, Understood, phase = "read", Filed(saved), Distinct(saved), lineno \in Nat,
         NEW st, NEW l \in 0 .. lineno - 1, NEW a, NEW c, Reached(st, l, a, c),
         i = st[l + 1] - 1, body[i] = "nl", NewlineTable
  PROVE  \E a2, c2 : Split(saved, l + 1, a2, c2) /\ Found(prf', saved, a2, c2)
<1>1. Whole(st, saved, lineno) /\ OnLine(st, l) /\ Split(saved, l, a, c) /\ Found(prf, saved, a, c)
  BY DEF Reached
<1> QED
  BY <1>1, LineFound

\* Reading goes on, on the same line or the next, and finds every pair; where
\* it ends, at the end of the file or for lack of room, there is no pair left.
LEMMA ReplaySteps ==
  ASSUME IInv, Spelt, Understood, Filed(saved), Distinct(saved), Written, Replay, ReadStep
  PROVE  Replay'
<1>1. /\ phase = "read" /\ body' = body /\ out' = out /\ saved' = saved /\ lineno' = lineno
  BY DEF ReadStep, At, LineHash, LineEmpty, LineSetting, CommentUnset, CommentEnd, CommentText,
         SettingEmpty, SettingSpace, SettingHash, SettingKey, KeyEnd, KeyAlone, KeyHash, KeyText,
         IkvSpace, IkvAlone, IkvHash, IkvValue, ValueEnd, ValueHash, ValueSpace, ValueText,
         PvMeaningless, PvMeaningful, ReadEnd, parserVars, writerVars, saveVars
<1>2. /\ Sound(saved) /\ Sound(prf) /\ Len(body) \in Nat /\ i \in 1 .. Len(body) + 1 /\ lineno \in Nat
      /\ MaxLen \in Nat
  BY PrfAssumption DEF IInv, Texts, Writer, Strings, Written
<1>3. CASE phase' \notin {"read", "ready"} \/ out = <<>>
  BY <1>1, <1>3 DEF Replay
<1>4. CASE phase' \in {"read", "ready"} /\ out # <<>>
  <2>1. body = out /\ \E st, a, c : \E l \in 0 .. lineno : Reached(st, l, a, c)
    BY <1>1, <1>4 DEF Replay
  <2>2. PICK st, a, c : \E l \in 0 .. lineno : Reached(st, l, a, c)
    BY <2>1
  <2>3. PICK l \in 0 .. lineno : Reached(st, l, a, c)
    BY <2>2
  <2>4. /\ Whole(st, saved, lineno) /\ OnLine(st, l) /\ Split(saved, l, a, c) /\ Found(prf, saved, a, c)
    BY <2>3 DEF Reached
  <2>5. Layout(st, body', saved, lineno, Len(saved.prfs) + 1, Len(saved.cmts) + 1)
    BY <1>1, <2>4 DEF Whole
  <2>6. st[l] \in 1 .. Len(body) + 1 /\ (l = lineno => st[l] = Len(body) + 1) /\ st[l] <= i
        /\ \A x \in st[l] .. i - 1 : body[x] # "nl"
    BY <1>2, <2>4, FileStart DEF OnLine
  <2>7. CASE phase' = "read" /\ i' = i /\ prf' = prf
    <3>1. st[l] <= i' /\ \A x \in st[l] .. i' - 1 : body'[x] # "nl"
      BY <1>1, <2>6, <2>7
    <3>2. Found(prf', saved, a, c)
      BY <2>4, <2>7
    <3> QED
      BY <1>1, <2>1, <2>4, <2>5, <2>7, <3>1, <3>2, ReplayOn
  <2>8. CASE phase' = "read" /\ i \in 1 .. Len(body) /\ i' = i + 1 /\ body[i] # "nl" /\ prf' = prf
    <3>1. st[l] <= i' /\ \A x \in st[l] .. i' - 1 : body'[x] # "nl"
      <4>1. \A x \in st[l] .. (i + 1) - 1 : x \in st[l] .. i - 1 \/ x = i
        BY <1>2, <2>6
      <4>2. st[l] <= i + 1
        BY <1>2, <2>6
      <4> QED
        BY <1>1, <2>6, <2>8, <4>1, <4>2
    <3>2. Found(prf', saved, a, c)
      BY <2>4, <2>8
    <3> QED
      BY <1>1, <2>1, <2>4, <2>5, <2>8, <3>1, <3>2, ReplayOn
  <2>9. CASE phase' = "read" /\ i \in 1 .. Len(body) /\ i' = i + 1 /\ body[i] = "nl" /\ NewlineTable
    <3>1. l \in 0 .. lineno - 1 /\ i = st[l + 1] - 1
      BY <1>2, <2>4, <2>9, AtLine
    <3>2. PICK a2, c2 : Split(saved, l + 1, a2, c2) /\ Found(prf', saved, a2, c2)
      <4>1. body[i] = "nl" /\ NewlineTable
        BY <2>9
      <4>2. Reached(st, l, a, c)
        BY <2>3
      <4>3. phase = "read" /\ lineno \in Nat /\ IInv /\ Spelt /\ Understood
        BY <1>1, <1>2
      <4> QED
        BY <1>2, <3>1, <4>1, <4>2, <4>3, NextReached
    <3>3. l + 1 \in 0 .. lineno
      BY <1>2, <3>1
    <3>4. st[l + 1] \in 1 .. Len(body) + 1
      BY <1>2, <2>4, <3>3, FileStart
    <3>5. st[l + 1] <= i' /\ \A x \in st[l + 1] .. i' - 1 : FALSE
      BY <1>2, <2>9, <3>1, <3>4
    <3> QED
      BY <1>1, <2>1, <2>5, <2>9, <3>2, <3>3, <3>5, ReplayOn
  <2>10. CASE i \in 1 .. Len(body) /\ state = "VALUE" /\ body[i] = "hash"
    BY <1>1, <1>2, <2>4, <2>10, NoHash
  <2>11. CASE phase' = "ready" /\ ~MoreToRead /\ prf' = prf
    <3>1. /\ DOMAIN saved.prfs = 1 .. Len(saved.prfs) /\ Len(saved.prfs) \in Nat
          /\ DOMAIN saved.cmts = 1 .. Len(saved.cmts) /\ Len(saved.cmts) \in Nat
          /\ a \in 1 .. Len(saved.prfs) + 1 /\ c \in 1 .. Len(saved.cmts) + 1
      BY <1>2, <2>4, PairNumbers, CommentNumbers DEF Split
    <3>2. ASSUME NEW j \in DOMAIN saved.prfs PROVE j < a
      <4>1. CASE i > Len(body)
        <5>1. l = lineno
          <6> SUFFICES ASSUME l # lineno PROVE FALSE
            OBVIOUS
          <6>1. l \in 0 .. lineno - 1
            BY <1>2
          <6>2. PICK s, e : s = st[l] /\ e = st[l + 1] - 1
            OBVIOUS
          <6>3. s \in 1 .. Len(body) /\ e \in s .. Len(body)
            BY <1>2, <2>4, <6>1, <6>2, FileLine
          <6>4. body[e] = "nl"
            BY <1>2, <2>4, <6>1, <6>2, FileLine
          <6>5. e \in st[l] .. i - 1
            BY <1>2, <4>1, <6>2, <6>3
          <6> QED
            BY <2>6, <6>4, <6>5
        <5>2. Split(saved, lineno, prf_i, cmt_i) /\ prf_i = Len(saved.prfs) + 1
          BY <1>1, <1>4 DEF Written
        <5>3. saved.prfs[j].lineno < lineno
          BY <3>1, <5>2 DEF Split
        <5> QED
          BY <2>4, <5>1, <5>3 DEF Split
      <4>2. CASE ~(i > Len(body))
        <5>1. ~(Entries(prf) <= MaxLen)
          BY <1>2, <2>11, <4>2 DEF MoreToRead
        <5>2. PICK x, y : x = Entries(prf) /\ y = Counted(a)
          OBVIOUS
        <5>3. x \in Nat /\ x > MaxLen /\ x <= y + c - 1
          BY <1>2, <2>4, <5>1, <5>2, PairNumbers DEF Found
        <5>4. CASE a = 1
          <6>1. c = 1 \/ l > 0
            <7>1. c # 1 => 1 \in DOMAIN saved.cmts /\ 1 < c
              BY <3>1
            <7>2. c # 1 => saved.cmts[1].lineno < l /\ saved.cmts[1].lineno \in Nat
              BY <1>2, <2>4, <7>1, LinesBelow DEF Split
            <7> QED
              BY <7>2
          <6>2. l > 0 => 1 < a
            <7>1. 1 \in DOMAIN saved.prfs /\ saved.prfs[1].lineno = 0
              BY <1>2, <3>1 DEF Sound, Filed, Ordered
            <7> QED
              BY <2>4, <7>1 DEF Split
          <6>3. c = 1 /\ y = 1
            BY <5>2, <5>4, <6>1, <6>2 DEF Counted
          <6> QED
            BY <5>3, <6>3, PrfAssumption
        <5>5. CASE a > 1
          <6> SUFFICES ASSUME ~(j < a) PROVE FALSE
            OBVIOUS
          <6>1. a \in 2 .. Len(saved.prfs) /\ a \in DOMAIN saved.prfs
            BY <3>1, <5>5
          <6>2. c - 1 \in 0 .. Len(saved.cmts)
            BY <3>1
          <6>3. c - 1 = 0 \/ saved.cmts[c - 1].lineno < saved.prfs[a].lineno
            <7>1. c - 1 # 0 => c - 1 \in DOMAIN saved.cmts /\ c - 1 < c
              BY <3>1
            <7>2. c - 1 # 0 => saved.cmts[c - 1].lineno < l /\ saved.cmts[c - 1].lineno \in Nat
              BY <1>2, <2>4, <7>1, LinesBelow DEF Split
            <7>3. ~(saved.prfs[a].lineno < l) /\ saved.prfs[a].lineno \in Nat
              <8>1. ~(a < a)
                BY <3>1
              <8> QED
                BY <1>2, <2>4, <6>1, <8>1, LinesBelow DEF Split
            <7> QED
              BY <7>2, <7>3
          <6>4. a + (c - 1) < MaxLen
            BY <6>1, <6>2, <6>3 DEF Filed, Room
          <6>5. y = a - 1
            BY <5>2, <5>5 DEF Counted
          <6> QED
            BY <1>2, <3>1, <5>3, <6>4, <6>5
        <5> QED
          BY <3>1, <5>4, <5>5
      <4> QED
        BY <4>1, <4>2
    <3>3. AllFound(prf)
      BY <2>4, <3>2 DEF AllFound, Found
    <3>4. AllFound(prf)'
      <4>1. AllFound(prf') /\ saved' = saved
        BY <1>1, <2>11, <3>3
      <4> QED
        BY <4>1, <2>11, <3>3 DEF AllFound, Holds, Plain
    <3> QED
      BY <1>1, <2>1, <2>11, <3>4 DEF Replay
  <2> QED
    BY <1>4, <2>7, <2>8, <2>9, <2>10, <2>11, ReadMoves
<1> QED
  BY <1>3, <1>4

(***************************************************************************)
(* What is saved is read                                                   *)
(***************************************************************************)

\* What prf_write and prf_read hold on to between them: the table and the
\* saved one are such as a file can hold, the lines written are those of the
\* saved one, and a program that reads them finds its pairs.
Carried ==
  /\ Spelt
  /\ Filed(prf) /\ Filed(saved) /\ Distinct(saved)
  /\ Written
  /\ Replay

\* The same of the next state, part by part.
LEMMA CarriedNext ==
  ASSUME Spelt', Filed(prf'), Filed(saved'), Distinct(saved'), Written', Replay'
  PROVE  Carried'
<1>1. Filed(prf)'
  <2>1. Ordered(prf)' /\ Room(prf)'
    BY Zenon DEF Filed, Ordered, Room
  <2>2. Texted(prf)'
    BY Zenon DEF Filed, Texted, IsKey, IsValue, InLine
  <2> QED
    BY <2>1, <2>2 DEF Filed
<1>2. Filed(saved)'
  <2>1. Ordered(saved)' /\ Room(saved)'
    BY Zenon DEF Filed, Ordered, Room
  <2>2. Texted(saved)'
    BY Zenon DEF Filed, Texted, IsKey, IsValue, InLine
  <2> QED
    BY <2>1, <2>2 DEF Filed
<1>3. Distinct(saved)'
  BY Zenon DEF Distinct
<1> QED
  BY <1>1, <1>2, <1>3 DEF Carried

\* The parser's variables do not change while the program runs on.
LEMMA SpeltStays ==
  ASSUME Spelt, UNCHANGED parserVars
  PROVE  Spelt'
<1>1. body' = body /\ i' = i /\ state' = state /\ key' = key /\ val' = val /\ cmt' = cmt
  BY DEF parserVars
<1> QED
  BY <1>1 DEF Spelt, InLine

\* Nor do prf_write's, and what was written stays the saved table's lines.
LEMMA WrittenStays ==
  ASSUME Written, saved' = saved, UNCHANGED writerVars, phase # "write" \/ phase' = phase
  PROVE  Written'
<1>1. lineno' = lineno /\ prf_i' = prf_i /\ cmt_i' = cmt_i /\ out' = out
  BY DEF writerVars
<1>2. /\ lineno \in Nat /\ Split(saved, lineno, prf_i, cmt_i)
      /\ \E st : Layout(st, out, saved, lineno, prf_i, cmt_i)
      /\ phase # "write" /\ out # <<>> => prf_i = Len(saved.prfs) + 1 /\ cmt_i = Len(saved.cmts) + 1
  BY DEF Written
<1>3. lineno' \in Nat /\ Split(saved', lineno', prf_i', cmt_i')
  BY <1>1, <1>2
<1>4. \E st : Layout(st, out', saved', lineno', prf_i', cmt_i')
  BY <1>1, <1>2
<1>5. phase' # "write" /\ out' # <<>> => prf_i' = Len(saved'.prfs) + 1 /\ cmt_i' = Len(saved'.cmts) + 1
  BY <1>1, <1>2
<1> QED
  BY <1>3, <1>4, <1>5, WrittenNext

\* An entry without a # sets a value that a line can hold.
LEMMA TypedFiled ==
  ASSUME Typed \subseteq Seq(Letters \cup {"sp"}), NEW p, Sound(p), Filed(p),
         NEW k \in Strings, IsKey(k), NEW text \in Typed
  PROVE  Sound(SetTyped(p, k, text)) /\ Filed(SetTyped(p, k, text))
<1>1. CASE text = <<>>
  BY <1>1 DEF SetTyped
<1>2. CASE text # <<>>
  <2>1. text \in Seq(Letters \cup {"sp"}) /\ text \in Strings
    BY PrfAssumption DEF Strings
  <2>2. Len(text) \in Nat /\ Len(text) # 0
    BY <1>2, <2>1, EmptySeq
  <2>3. \A n \in 1 .. Len(text) : text[n] \in Letters \/ text[n] = "sp"
    BY <2>1
  <2>4. IsValue(text)
    BY <2>2, <2>3 DEF IsValue
  <2>5. SetTyped(p, k, text) = Set(p, k, text)
    BY <1>2 DEF SetTyped
  <2> QED
    BY <2>1, <2>4, <2>5, SetSound, SetFiled
<1> QED
  BY <1>1, <1>2

\* So both buttons leave a table that a file can hold.
LEMMA EntriesFiled ==
  ASSUME Typed \subseteq Seq(Letters \cup {"sp"}), IInv, Filed(prf),
         NEW addr \in Typed, NEW port \in Typed, SetEntries(addr, port)
  PROVE  Sound(prf') /\ Filed(prf')
<1>1. /\ Addr \in Strings /\ IsKey(Addr)
      /\ Port \in Strings /\ IsKey(Port)
  BY Words, ProgramWords
<1>2. PICK p : p = SetTyped(prf, Addr, addr)
  OBVIOUS
<1>3. Sound(p) /\ Filed(p)
  BY <1>1, <1>2, TypedFiled DEF IInv
<1>4. prf' = SetTyped(p, Port, port)
  BY <1>2 DEF SetEntries
<1> QED
  BY <1>1, <1>3, <1>4, TypedFiled

\* Nothing is lost while nothing happens.
LEMMA ReplayStays ==
  ASSUME Replay, UNCHANGED vars
  PROVE  Replay'
<1>1. /\ phase' = phase /\ body' = body /\ i' = i /\ prf' = prf /\ saved' = saved /\ lineno' = lineno
      /\ out' = out
  BY DEF vars, parserVars, writerVars, saveVars
<1>2. CASE phase \notin {"read", "ready"} \/ out = <<>>
  BY <1>1, <1>2 DEF Replay
<1>3. CASE phase = "ready" /\ out # <<>>
  <2>1. body = out /\ AllFound(prf)
    BY <1>3 DEF Replay
  <2>2. AllFound(prf)'
    BY <1>1, <2>1 DEF AllFound, Holds, Plain
  <2> QED
    BY <1>1, <1>3, <2>1, <2>2 DEF Replay
<1>4. CASE phase = "read" /\ out # <<>>
  <2>1. body = out /\ \E st, a, c : \E l \in 0 .. lineno : Reached(st, l, a, c)
    BY <1>4 DEF Replay
  <2>2. PICK st, a, c : \E l \in 0 .. lineno : Reached(st, l, a, c)
    BY <2>1
  <2>3. PICK l \in 0 .. lineno : Reached(st, l, a, c)
    BY <2>2
  <2>4. /\ Whole(st, saved, lineno) /\ OnLine(st, l) /\ Split(saved, l, a, c) /\ Found(prf, saved, a, c)
    BY <2>3 DEF Reached
  <2>5. Layout(st, body', saved, lineno, Len(saved.prfs) + 1, Len(saved.cmts) + 1)
    BY <1>1, <2>4 DEF Whole
  <2>6. st[l] <= i' /\ \A x \in st[l] .. i' - 1 : body'[x] # "nl"
    BY <1>1, <2>4 DEF OnLine
  <2>7. Found(prf', saved, a, c)
    BY <1>1, <2>4
  <2> QED
    BY <1>1, <1>4, <2>1, <2>4, <2>5, <2>6, <2>7, ReplayOn
<1> QED
  BY <1>2, <1>3, <1>4

\* prf_read, one step.
LEMMA CarriedRead ==
  ASSUME IInv, Understood, Carried, ReadStep
  PROVE  Carried'
<1>1. Spelt /\ Filed(prf) /\ Filed(saved) /\ Distinct(saved) /\ Written /\ Replay
  BY DEF Carried
<1>2. phase = "read" /\ saved' = saved /\ UNCHANGED writerVars
  BY DEF ReadStep, At, LineHash, LineEmpty, LineSetting, CommentUnset, CommentEnd, CommentText,
         SettingEmpty, SettingSpace, SettingHash, SettingKey, KeyEnd, KeyAlone, KeyHash, KeyText,
         IkvSpace, IkvAlone, IkvHash, IkvValue, ValueEnd, ValueHash, ValueSpace, ValueText,
         PvMeaningless, PvMeaningful, ReadEnd, parserVars, writerVars, saveVars
<1>3. Spelt'
  BY <1>1, SpeltSteps
<1>4. Filed(prf')
  BY <1>1, FiledSteps
<1>5. Filed(saved') /\ Distinct(saved')
  BY <1>1, <1>2
<1>6. Written'
  BY <1>1, <1>2, WrittenStays
<1>7. Replay'
  BY <1>1, ReplaySteps
<1> QED
  BY <1>3, <1>4, <1>5, <1>6, <1>7, CarriedNext

\* Save and Connect.
LEMMA CarriedEntries ==
  ASSUME Typed \subseteq Seq(Letters \cup {"sp"}), IInv, Understood, Carried,
         NEW addr \in Typed, NEW port \in Typed, Save(addr, port) \/ Connect(addr, port)
  PROVE  Carried'
<1>1. Spelt /\ Filed(prf) /\ Filed(saved) /\ Distinct(saved) /\ Written /\ Replay
  BY DEF Carried
<1>2. SetEntries(addr, port)
  BY DEF Save, Connect
<1>3. phase \in {"ready", "edited", "written"} /\ UNCHANGED parserVars
  BY <1>2 DEF SetEntries
<1>4. Sound(prf') /\ Filed(prf') /\ Distinct(prf')
  BY <1>1, <1>2, EntriesFiled, EntriesDistinct
<1>5. Spelt'
  BY <1>1, <1>3, SpeltStays
<1>6. phase' \in {"write", "edited"}
  BY DEF Save, Connect
<1>7. Replay'
  BY <1>6 DEF Replay
<1>8. CASE phase' = "edited"
  <2>1. saved' = saved /\ UNCHANGED writerVars
    BY <1>8 DEF Save, Connect
  <2>2. Written'
    BY <1>1, <1>3, <2>1, WrittenStays
  <2>3. Filed(saved') /\ Distinct(saved')
    BY <1>1, <2>1
  <2> QED
    BY <1>4, <1>5, <1>7, <2>2, <2>3, CarriedNext
<1>9. CASE phase' = "write"
  <2>1. saved' = prf' /\ lineno' = 0 /\ prf_i' = 1 /\ cmt_i' = 1 /\ out' = <<>>
    BY <1>9 DEF Save, Connect
  <2>2. Split(prf', 0, 1, 1) /\ \E st : Layout(st, <<>>, prf', 0, 1, 1)
    BY <1>4, NothingWritten
  <2>3. lineno' \in Nat /\ Split(saved', lineno', prf_i', cmt_i')
    BY <2>1, <2>2
  <2>4. \E st : Layout(st, out', saved', lineno', prf_i', cmt_i')
    BY <2>1, <2>2
  <2>5. Written'
    BY <1>9, <2>3, <2>4, WrittenNext
  <2>6. Filed(saved') /\ Distinct(saved')
    BY <1>4, <2>1
  <2> QED
    BY <1>4, <1>5, <1>7, <2>5, <2>6, CarriedNext
<1> QED
  BY <1>6, <1>8, <1>9

\* prf_write, one line or the end.
LEMMA CarriedWrite ==
  ASSUME IInv, Carried, WriteLine \/ WriteEnd
  PROVE  Carried'
<1>1. Spelt /\ Filed(prf) /\ Filed(saved) /\ Distinct(saved) /\ Written /\ Replay
  BY DEF Carried
<1>2. /\ UNCHANGED parserVars /\ prf' = prf /\ saved' = saved /\ phase' \in {"write", "written"}
  BY DEF WriteLine, WriteEnd, saveVars
<1>3. Spelt'
  BY <1>1, <1>2, SpeltStays
<1>4. Filed(prf') /\ Filed(saved') /\ Distinct(saved')
  BY <1>1, <1>2
<1>5. Replay'
  BY <1>2 DEF Replay
<1>6. Written'
  BY <1>1, WrittenSteps, WrittenEnds
<1> QED
  BY <1>3, <1>4, <1>5, <1>6, CarriedNext

\* The next start.
LEMMA CarriedRestart ==
  ASSUME IInv, Carried, Restart
  PROVE  Carried'
<1>1. Spelt /\ Filed(prf) /\ Filed(saved) /\ Distinct(saved) /\ Written /\ Replay
  BY DEF Carried
<1>2. /\ phase \in {"edited", "written"} /\ saved' = saved /\ UNCHANGED writerVars /\ prf' = New
      /\ key' = <<>> /\ val' = <<>> /\ cmt' = <<>> /\ state' = "LINE"
  BY DEF Restart, StartReading, saveVars
<1>3. Spelt'
  BY <1>2 DEF Spelt, InLine
<1>4. Filed(prf') /\ Filed(saved') /\ Distinct(saved')
  BY <1>1, <1>2, NewFiled
<1>5. Written'
  BY <1>1, <1>2, WrittenStays
<1>6. Replay'
  BY <1>1, ReplayStarts
<1> QED
  BY <1>3, <1>4, <1>5, <1>6, CarriedNext

\* At first nothing is saved but prf_new's table, and nothing is written.
LEMMA CarriedInit == Init => Carried
<1> SUFFICES ASSUME Init PROVE Carried
  OBVIOUS
<1>1. /\ prf = New /\ saved = New /\ lineno = 0 /\ prf_i = 1 /\ cmt_i = 1 /\ out = <<>>
      /\ key = <<>> /\ val = <<>> /\ cmt = <<>> /\ state = "LINE"
  BY DEF Init
<1>2. Spelt
  BY <1>1 DEF Spelt, InLine
<1>3. Filed(prf) /\ Filed(saved) /\ Distinct(saved)
  BY <1>1, NewFiled, NewDistinct
<1>4. Split(New, 0, 1, 1) /\ \E st : Layout(st, <<>>, New, 0, 1, 1)
  BY NewSound, NothingWritten
<1>5. Written
  <2>1. lineno \in Nat /\ Split(saved, lineno, prf_i, cmt_i)
    BY <1>1, <1>4
  <2>2. \E st : Layout(st, out, saved, lineno, prf_i, cmt_i)
    BY <1>1, <1>4
  <2> QED
    BY <1>1, <2>1, <2>2 DEF Written
<1>6. Replay
  BY <1>1 DEF Replay
<1> QED
  BY <1>2, <1>3, <1>5, <1>6 DEF Carried

\* What the user saves, values of one word, the next start of the program finds
\* (prf_write's lines, prf_read's state machine, prf_set's room), whatever the
\* first file was, its comments and its superfluous spaces included, provided
\* that no # is typed into an entry: it would start a comment in the file.
THEOREM SavedIsRead ==
  ASSUME Typed \subseteq Seq(Letters \cup {"sp"})
  PROVE  Spec => []ReadBack
<1>1. IInv /\ Understood /\ Carried /\ [Next]_vars => Carried'
  <2> SUFFICES ASSUME IInv, Understood, Carried, [Next]_vars PROVE Carried'
    OBVIOUS
  <2>1. CASE UNCHANGED vars
    <3>1. /\ UNCHANGED parserVars /\ UNCHANGED writerVars /\ prf' = prf /\ saved' = saved /\ phase' = phase
      BY <2>1 DEF vars, saveVars
    <3>2. Spelt /\ Filed(prf) /\ Filed(saved) /\ Distinct(saved) /\ Written /\ Replay
      BY DEF Carried
    <3>3. Spelt'
      BY <3>1, <3>2, SpeltStays
    <3>4. Replay'
      BY <2>1, <3>2, ReplayStays
    <3>5. Written'
      BY <3>1, <3>2, WrittenStays
    <3>6. Filed(prf') /\ Filed(saved') /\ Distinct(saved')
      BY <3>1, <3>2
    <3> QED
      BY <3>3, <3>4, <3>5, <3>6, CarriedNext
  <2>2. CASE ReadStep
    BY <2>2, CarriedRead
  <2>3. CASE \E addr, port \in Typed : Save(addr, port) \/ Connect(addr, port)
    <3>1. PICK addr \in Typed, port \in Typed : Save(addr, port) \/ Connect(addr, port)
      BY <2>3
    <3> QED
      BY <3>1, CarriedEntries
  <2>4. CASE WriteLine \/ WriteEnd
    BY <2>4, CarriedWrite
  <2>5. CASE Restart
    BY <2>5, CarriedRestart
  <2> QED
    BY <2>1, <2>2, <2>3, <2>4, <2>5 DEF Next
<1>2. IInv /\ Understood /\ Carried => ReadBack
  <2> SUFFICES ASSUME IInv, Understood, Carried, phase = "ready", out # <<>>,
                      NEW j \in DOMAIN saved.prfs, Plain(saved.prfs[j].val)
               PROVE  saved.prfs[j].val \in Get(prf, saved.prfs[j].key)
    BY DEF ReadBack
  <2>1. Sound(prf) /\ Distinct(prf)
    BY DEF IInv, Understood
  <2>2. AllFound(prf)
    BY DEF Carried, Replay
  <2>3. Holds(prf, saved.prfs[j].key, saved.prfs[j].val)
    BY <2>2 DEF AllFound
  <2> QED
    BY <2>1, <2>3, HeldIsGot
<1> QED
  BY <1>1, <1>2, CarriedInit, PreferencesInvariant, ParserUnderstands, PTL DEF Spec

================================================================================
