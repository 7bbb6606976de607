---------------------------------- MODULE Prf ----------------------------------
(***************************************************************************)
(* The preferences: prf_new, the character by character state machine of   *)
(* prf_read, prf_set, prf_get, prf_write, and the Save button of the       *)
(* preferences window.  The program starts on some file, the user saves,   *)
(* once or more, the program starts again on the file it wrote.            *)
(*                                                                         *)
(* A string is a sequence of characters; tabs are spaces.  The lengths of  *)
(* the working arrays of prf_read are left out.                            *)
(***************************************************************************)
EXTENDS Naturals, Sequences

CONSTANTS
  Files,      \* the contents ~/.wavejetrc may have at first
  Letters,    \* characters other than space, newline and #
  Addr, Port, \* the two keys the program uses
  Typed,      \* what the user may type into an entry, empty included
  MaxLen,     \* PRF_MAXLEN
  MaxLine,    \* bound: prf_write stops after this many lines
  MaxSaves    \* bound: how often the user presses Save or Connect

Chars == Letters \cup {"sp", "nl", "hash"}

\* The table has room for the port, which prf_new sets first.
ASSUME PrfAssumption ==
  /\ MaxLen \in Nat \ {0, 1}
  /\ Letters \cap {"sp", "nl", "hash"} = {} /\ "1861" \in Letters
  /\ Addr \in Seq(Letters) \ {<<>>} /\ Port \in Seq(Letters) \ {<<>>}
  /\ Files \subseteq Seq(Chars) /\ Typed \subseteq Seq(Chars)

VARIABLES
  phase,      \* "read", "ready", "edited", "write", "written", "wild"
  body, i,    \* prf_read: the file and the position in it
  state,      \* prf_read: state of the state machine
  key, val, cmt,
  cmtset,     \* prf_read: has cmt_i been given a value?
  prf,        \* the prfs_t: settings, comments, line count
  lineno, prf_i, cmt_i, out,   \* prf_write: its variables, the lines written
  saves,      \* how often Save or Connect was pressed
  saved       \* history: the prfs_t at the last save that wrote the file

parserVars == <<body, i, state, key, val, cmt, cmtset>>
writerVars == <<lineno, prf_i, cmt_i, out>>
saveVars == <<saves, saved>>
vars == <<phase, parserVars, prf, writerVars, saveVars>>

(***************************************************************************)
(* prf_set, prf_new, prf_get                                               *)
(***************************************************************************)
Has(p, k) == \E j \in 1 .. Len(p.prfs) : p.prfs[j].key = k

Entries(p) == Len(p.prfs) + Len(p.cmts)

\* Mutation of Set: no search for the key, a pair is always added.
SetAppends(p, k, v) ==
  IF Entries(p) + 1 < MaxLen
    THEN [p EXCEPT !.prfs = Append(@, [lineno |-> p.linec, key |-> k, val |-> v]),
                   !.linec = @ + 1]
    ELSE p

\* Replace the value of a known key, add a new pair if there is room for it.
Set(p, k, v) ==
  IF Has(p, k)
    THEN [p EXCEPT !.prfs = [j \in DOMAIN p.prfs |->
                               IF p.prfs[j].key = k THEN [p.prfs[j] EXCEPT !.val = v] ELSE p.prfs[j]]]
    ELSE IF Entries(p) + 1 < MaxLen
      THEN [p EXCEPT !.prfs = Append(@, [lineno |-> p.linec, key |-> k, val |-> v]),
                     !.linec = @ + 1]
      ELSE p

\* A comment, as prf_read stores it.
AddComment(p, text) ==
  [p EXCEPT !.cmts = Append(@, [lineno |-> p.linec, data |-> text]), !.linec = @ + 1]

DefaultPort == <<"1861">>

New == Set([prfs |-> <<>>, cmts |-> <<>>, linec |-> 0], Port, DefaultPort)

\* The value of a key, that of the first pair with it: a set of none or one.
Get(p, k) ==
  {p.prfs[j].val : j \in {n \in 1 .. Len(p.prfs) :
                            p.prfs[n].key = k /\ \A m \in 1 .. n - 1 : p.prfs[m].key # k}}

(***************************************************************************)
(* prf_read                                                                *)
(***************************************************************************)
StartReading(file) ==
  /\ phase' = "read"
  /\ body' = file /\ i' = 1 /\ state' = "LINE"
  /\ key' = <<>> /\ val' = <<>> /\ cmt' = <<>> /\ cmtset' = FALSE
  /\ prf' = New

Init ==
  /\ phase = "read"
  /\ body \in Files /\ i = 1 /\ state = "LINE"
  /\ key = <<>> /\ val = <<>> /\ cmt = <<>> /\ cmtset = FALSE
  /\ prf = New
  /\ lineno = 0 /\ prf_i = 1 /\ cmt_i = 1 /\ out = <<>>
  /\ saves = 0 /\ saved = New

\* Mutation of MoreToRead: the room for comments is not tested.
MoreInFile == i <= Len(body)

MoreToRead == i <= Len(body) /\ Entries(prf) <= MaxLen

\* The state machine is in a state and looks at one of some characters.
At(s, chars) ==
  /\ phase = "read"
  /\ MoreToRead
  /\ state = s
  /\ body[i] \in chars
  /\ UNCHANGED <<phase, body, writerVars, saveVars>>

Eat == i' = i + 1
Goto(s) == state' = s
CountLine == prf' = [prf EXCEPT !.linec = @ + 1]

LineHash == At("LINE", {"hash"}) /\ Eat /\ Goto("COMMENT")
            /\ cmt' = <<>> /\ cmtset' = TRUE /\ UNCHANGED <<key, val, prf>>
LineEmpty == At("LINE", {"nl"}) /\ Eat /\ CountLine
             /\ UNCHANGED <<state, key, val, cmt, cmtset>>
LineSetting == At("LINE", Letters \cup {"sp"}) /\ Goto("SETTING")
               /\ UNCHANGED <<i, key, val, cmt, cmtset, prf>>

\* Inline comments do not set cmt_i: if no comment line came before, it is
\* whatever the stack held, zero or an index out of the array.
CommentUnset ==
  /\ phase = "read" /\ MoreToRead /\ state = "COMMENT" /\ ~cmtset
  /\ \/ cmtset' = TRUE /\ UNCHANGED phase
     \/ phase' = "wild" /\ UNCHANGED cmtset
  /\ UNCHANGED <<body, i, state, key, val, cmt, prf, writerVars, saveVars>>
CommentEnd == cmtset /\ At("COMMENT", {"nl"}) /\ Eat /\ Goto("LINE")
              /\ cmt' = <<>> /\ prf' = AddComment(prf, cmt) /\ UNCHANGED <<key, val, cmtset>>
CommentText == cmtset /\ At("COMMENT", Chars \ {"nl"}) /\ Eat
               /\ cmt' = Append(cmt, body[i]) /\ UNCHANGED <<state, key, val, cmtset, prf>>

SettingEmpty == At("SETTING", {"nl"}) /\ Eat /\ Goto("LINE") /\ CountLine
                /\ UNCHANGED <<key, val, cmt, cmtset>>
SettingSpace == At("SETTING", {"sp"}) /\ Eat /\ UNCHANGED <<state, key, val, cmt, cmtset, prf>>
SettingHash == At("SETTING", {"hash"}) /\ Eat /\ Goto("COMMENT")
               /\ UNCHANGED <<key, val, cmt, cmtset, prf>>
SettingKey == At("SETTING", Letters) /\ Goto("KEY") /\ key' = <<>>
              /\ UNCHANGED <<i, val, cmt, cmtset, prf>>

KeyEnd == At("KEY", {"sp"}) /\ Eat /\ Goto("IKV") /\ val' = <<>>
          /\ UNCHANGED <<key, cmt, cmtset, prf>>
KeyAlone == At("KEY", {"nl"}) /\ Eat /\ Goto("LINE") /\ CountLine
            /\ UNCHANGED <<key, val, cmt, cmtset>>
KeyHash == At("KEY", {"hash"}) /\ Goto("COMMENT") /\ UNCHANGED <<i, key, val, cmt, cmtset, prf>>
KeyText == At("KEY", Letters) /\ Eat /\ key' = Append(key, body[i])
           /\ UNCHANGED <<state, val, cmt, cmtset, prf>>

IkvSpace == At("IKV", {"sp"}) /\ Eat /\ UNCHANGED <<state, key, val, cmt, cmtset, prf>>
IkvAlone == At("IKV", {"nl"}) /\ Eat /\ Goto("LINE") /\ CountLine
            /\ UNCHANGED <<key, val, cmt, cmtset>>
IkvHash == At("IKV", {"hash"}) /\ Eat /\ Goto("COMMENT")
           /\ UNCHANGED <<key, val, cmt, cmtset, prf>>
IkvValue == At("IKV", Letters) /\ Goto("VALUE") /\ UNCHANGED <<i, key, val, cmt, cmtset, prf>>

\* The line of a pair is counted by prf_set, if the key is new.
ValueEnd == At("VALUE", {"nl"}) /\ Eat /\ Goto("LINE") /\ prf' = Set(prf, key, val)
            /\ UNCHANGED <<key, val, cmt, cmtset>>
ValueHash == At("VALUE", {"hash"}) /\ Eat /\ Goto("COMMENT") /\ prf' = Set(prf, key, val)
             /\ UNCHANGED <<key, val, cmt, cmtset>>
ValueSpace == At("VALUE", {"sp"}) /\ Eat /\ Goto("PV") /\ UNCHANGED <<key, val, cmt, cmtset, prf>>
ValueText == At("VALUE", Letters) /\ Eat /\ val' = Append(val, body[i])
             /\ UNCHANGED <<state, key, cmt, cmtset, prf>>

\* Mutation of PvMeaningless: the space is kept.
PvMeaninglessKept == At("PV", {"nl", "sp", "hash"}) /\ Goto("VALUE") /\ val' = Append(val, "sp")
                     /\ UNCHANGED <<i, key, cmt, cmtset, prf>>

\* Mutation of PvMeaningless: the state machine stays where it is.
PvMeaninglessStays == At("PV", {"nl", "sp", "hash"}) /\ Goto("PV")
                      /\ UNCHANGED <<i, key, val, cmt, cmtset, prf>>

\* A space after the value meant nothing if no other word follows; otherwise
\* it replaces the first character of that word.
PvMeaningless == At("PV", {"nl", "sp", "hash"}) /\ Goto("VALUE")
                 /\ UNCHANGED <<i, key, val, cmt, cmtset, prf>>
PvMeaningful == At("PV", Letters) /\ Eat /\ Goto("VALUE") /\ val' = Append(val, "sp")
                /\ UNCHANGED <<key, cmt, cmtset, prf>>

\* End of the file, or no room: an unfinished line is dropped.
ReadEnd ==
  /\ phase = "read"
  /\ ~MoreToRead
  /\ phase' = "ready"
  /\ UNCHANGED <<parserVars, prf, writerVars, saveVars>>

ReadStep ==
  \/ LineHash \/ LineEmpty \/ LineSetting
  \/ CommentUnset \/ CommentEnd \/ CommentText
  \/ SettingEmpty \/ SettingSpace \/ SettingHash \/ SettingKey
  \/ KeyEnd \/ KeyAlone \/ KeyHash \/ KeyText
  \/ IkvSpace \/ IkvAlone \/ IkvHash \/ IkvValue
  \/ ValueEnd \/ ValueHash \/ ValueSpace \/ ValueText
  \/ PvMeaningless \/ PvMeaningful
  \/ ReadEnd

(***************************************************************************)
(* The preferences window: entries that are not empty are set.  Save       *)
(* (ACCEPT) writes the file if both are not; Connect (OK) writes nothing.  *)
(***************************************************************************)
SetTyped(p, k, text) == IF text = <<>> THEN p ELSE Set(p, k, text)

\* What both buttons do.
SetEntries(addr, port) ==
  /\ phase \in {"ready", "edited", "written"}
  /\ saves < MaxSaves
  /\ saves' = saves + 1
  /\ prf' = SetTyped(SetTyped(prf, Addr, addr), Port, port)
  /\ UNCHANGED parserVars

Save(addr, port) ==
  /\ SetEntries(addr, port)
  /\ IF addr # <<>> /\ port # <<>>
       THEN /\ phase' = "write"
            /\ saved' = prf'
            /\ lineno' = 0 /\ prf_i' = 1 /\ cmt_i' = 1 /\ out' = <<>>
       ELSE phase' = "edited" /\ UNCHANGED <<saved, writerVars>>

\* Then it connects anew, whatever is missing.  The runtime arguments are set
\* the same way.
Connect(addr, port) ==
  /\ SetEntries(addr, port)
  /\ phase' = "edited"
  /\ UNCHANGED <<saved, writerVars>>

(***************************************************************************)
(* prf_write: one line each time round its loop.                           *)
(***************************************************************************)
MoreToWrite == prf_i <= Len(prf.prfs) \/ cmt_i <= Len(prf.cmts)

WriteLine ==
  /\ phase = "write"
  /\ MoreToWrite
  /\ lineno < MaxLine
  /\ LET hasPrf == prf_i <= Len(prf.prfs) /\ prf.prfs[prf_i].lineno = lineno
         hasCmt == cmt_i <= Len(prf.cmts) /\ prf.cmts[cmt_i].lineno = lineno
     IN /\ out' = out
                  \o (IF hasPrf THEN prf.prfs[prf_i].key \o <<"sp">> \o prf.prfs[prf_i].val ELSE <<>>)
                  \o (IF hasCmt THEN <<"hash">> \o prf.cmts[cmt_i].data ELSE <<>>)
                  \o <<"nl">>
        /\ prf_i' = IF hasPrf THEN prf_i + 1 ELSE prf_i
        /\ cmt_i' = IF hasCmt THEN cmt_i + 1 ELSE cmt_i
  /\ lineno' = lineno + 1
  /\ UNCHANGED <<phase, parserVars, prf, saveVars>>

WriteEnd ==
  /\ phase = "write"
  /\ ~MoreToWrite
  /\ phase' = "written"
  /\ UNCHANGED <<parserVars, prf, writerVars, saveVars>>

\* The next start of the program, on the file last written, whatever was
\* edited since.
Restart ==
  /\ phase \in {"edited", "written"} /\ out # <<>>
  /\ StartReading(out)
  /\ UNCHANGED <<writerVars, saveVars>>

Next ==
  \/ ReadStep
  \/ \E addr, port \in Typed : Save(addr, port) \/ Connect(addr, port)
  \/ WriteLine
  \/ WriteEnd
  \/ Restart

Fairness == WF_vars(ReadStep) /\ WF_vars(WriteLine) /\ WF_vars(WriteEnd)

Spec == Init /\ [][Next]_vars /\ Fairness

(***************************************************************************)
(* Properties                                                              *)
(***************************************************************************)

States == {"LINE", "SETTING", "COMMENT", "KEY", "VALUE", "IKV", "PV"}

\* Every variable has a value of its type; prf_write's indices stay within
\* the entries and every entry's line number is below the line count.
TypeOK ==
  /\ phase \in {"read", "ready", "edited", "write", "written", "wild"}
  /\ state \in States
  /\ i \in 1 .. Len(body) + 1
  /\ prf_i \in 1 .. Len(saved.prfs) + 1 /\ cmt_i \in 1 .. Len(saved.cmts) + 1
  /\ \A j \in DOMAIN prf.prfs : prf.prfs[j].lineno < prf.linec
  /\ \A j \in DOMAIN prf.cmts : prf.cmts[j].lineno < prf.linec

LineStart(s) == s = 1 \/ body[s - 1] = "nl"

\* The arrays of prfs_t are not written past their ends: the room for comments
\* is tested with one comparison before a character (prf.c 66), for pairs with
\* another in prf_set; and cmt_i has no value only when no comment line came
\* before, so that "like a Xmas tree" (wavejet.1) needs one of them first.
InBounds ==
  /\ TypeOK
  /\ Len(prf.prfs) <= MaxLen /\ Len(prf.cmts) <= MaxLen
  /\ phase = "wild" => \A j \in 1 .. i - 1 : LineStart(j) => body[j] # "hash"

\* Spaces only, from position a up to b.
Blank(a, b) == \A n \in a .. b - 1 : body[n] = "sp"

\* The word w stands at position a.
Stands(a, w) ==
  /\ a + Len(w) - 1 <= Len(body)
  /\ \A n \in 1 .. Len(w) : body[a + n - 1] = w[n]

\* The line that starts at s gives key k the value v, one word: spaces, k,
\* spaces, v, spaces, and the end of the line or a comment.
Gives(s, k, v) ==
  /\ LineStart(s)
  /\ \E a \in s .. Len(body) :
       /\ Blank(s, a) /\ Stands(a, k)
       /\ \E c \in a + Len(k) + 1 .. Len(body) :
            /\ Blank(a + Len(k), c) /\ Stands(c, v)
            /\ \E e \in c + Len(v) .. Len(body) :
                 Blank(c + Len(v), e) /\ body[e] \in {"nl", "hash"}

\* The line that starts at r has the key k, whatever follows.
Mentions(r, k) ==
  /\ LineStart(r)
  /\ \E a \in r .. Len(body) :
       /\ Blank(r, a) /\ Stands(a, k)
       /\ a + Len(k) <= Len(body) /\ body[a + Len(k)] = "sp"

\* The words of the file.
WordsRead ==
  {w \in {SubSeq(body, a, b) : a, b \in 1 .. Len(body)} :
     w # <<>> /\ \A n \in 1 .. Len(w) : w[n] \in Letters}

\* prf_read finds every key/value pair that stands on a line of its own, maybe
\* followed by a comment, with any spaces before, between and behind; of
\* several pairs with one key it keeps the last.
ReadsPairs ==
  phase = "ready" /\ Entries(prf) + 1 < MaxLen =>
    \A s \in 1 .. Len(body) : \A k, v \in WordsRead :
      Gives(s, k, v) /\ (\A r \in s + 1 .. Len(body) : ~Mentions(r, k)) => v \in Get(prf, k)

Plain(v) == \A j \in 1 .. Len(v) : v[j] # "sp"

\* What the user saves, values of one word at least, is what the program finds
\* when it starts again: no two lines collide in prf_write, no comment hides a
\* pair, and prf_read has room for every pair prf_write wrote.
ReadBack ==
  phase = "ready" /\ out # <<>> =>
    \A j \in DOMAIN saved.prfs :
      Plain(saved.prfs[j].val) => saved.prfs[j].val \in Get(prf, saved.prfs[j].key)

\* Reading a file and writing one come to an end.
Finishes == phase \in {"read", "write"} ~> phase \in {"ready", "written", "wild"}

================================================================================
