----------------------------- MODULE WidgetsProofs -----------------------------
(***************************************************************************)
(* Proofs about Widgets, for any menus, arrows and settings and any number *)
(* of user actions.                                                        *)
(***************************************************************************)
EXTENDS Widgets, SequenceTheorems, TLAPS

(***************************************************************************)
(* The inductive invariant                                                 *)
(***************************************************************************)

IsSet(k, c) == queue[k].op = "set" /\ queue[k].ctl = c

\* Every command that sets a control is followed by the query of it.
Paired ==
  \A k \in DOMAIN queue : queue[k].op = "set" =>
    k < Len(queue) /\ queue[k + 1] = Query(queue[k].ctl)

\* A handler is at work on the query at the head, and what it is about to show
\* is the instrument's setting.
Handler ==
  rdr # "idle" =>
    /\ queue # <<>>
    /\ Head(queue) = Query(Head(queue).ctl)
    /\ LET c == Head(queue).ctl IN
         /\ c \in Menus => scope[c] \in Values[c]
         /\ rdr = "set" => new.val = IF c \in Menus THEN scope[c] ELSE Label(scope[c])

\* The user's last wish is the last command that sets the control, or the
\* instrument has heard it.
Wishes ==
  \A c \in Controls :
    \/ \E k \in DOMAIN queue :
         /\ IsSet(k, c) /\ queue[k].val = wish[c]
         /\ \A j \in k + 1 .. Len(queue) : ~IsSet(j, c)
    \/ /\ \A k \in DOMAIN queue : ~IsSet(k, c)
       /\ c \notin refused => scope[c] = wish[c]

WInv == TypeOK /\ Paired /\ Handler /\ Wishes

\* The head of the queue that is not handled yet.
FirstOpen == IF rdr = "unlock" THEN 2 ELSE 1

\* The control shows what the instrument has, if it can.
Shows(c) ==
  IF c \in Menus THEN scope[c] \in Values[c] => shown[c] = scope[c]
                 ELSE shown[c] = Label(scope[c])

\* An answer is still to come that will show the instrument's setting.
Pending(c) == \E k \in FirstOpen .. Len(queue) : queue[k] = Query(c)
ToAsk(c) == \E k \in asked + 1 .. Len(InitialQueries) : InitialQueries[k] = c

Covered(c) == Pending(c) \/ ToAsk(c) \/ (c = Level /\ dragging) \/ Shows(c)

Shown == \A c \in Controls : Covered(c)

\* The clicks of a user who waits for the labels lead where his last wish does.
Clicks == \A a \in Arrows \ rushed : goal[a] = wish[a]

UInv == WInv /\ Shown /\ Clicks

(***************************************************************************)
(* Lemmas on numbers and on the queue                                      *)
(***************************************************************************)

Command == [op : {"set", "query"}, ctl : Controls, val : Int]

\* The entries of the volts/div menus are positive, so is the scale of the
\* level.
LEMMA ScaleTyped ==
  ASSUME TypeOK
  PROVE  Scale \in Nat \ {0} /\ DragScale \in Nat \ {0}
<1>1. \A s \in DOMAIN VdivOf : VdivOf[s] \in Menus /\ shown[VdivOf[s]] \in Values[VdivOf[s]]
  BY WidgetsAssumption DEF TypeOK
<1>2. \A s \in DOMAIN VdivOf : shown[VdivOf[s]] \in Int
  BY <1>1 DEF TypeOK, Controls
<1>3. \A s \in DOMAIN VdivOf : shown[VdivOf[s]] > 0
  BY <1>1, WidgetsAssumption
<1>4. \A s \in DOMAIN VdivOf : shown[VdivOf[s]] \in Nat \ {0}
  BY <1>2, <1>3
<1> QED
  BY <1>4, WidgetsAssumption DEF Scale, DragScale

\* A label shows a number.
LEMMA LabelTyped == ASSUME NEW v \in Int PROVE Label(v) \in Int
BY WidgetsAssumption, SMTT(40) DEF Label

\* The slider stays between its ends.
LEMMA ClampTyped == ASSUME NEW p \in Int PROVE Clamp(p) \in 0 .. MaxPos
BY WidgetsAssumption DEF Clamp

\* Commands are commands.
LEMMA CommandTyped ==
  ASSUME NEW c \in Controls, NEW v \in Int
  PROVE  /\ Set(c, v) \in Command /\ Query(c) \in Command
         /\ Set(c, v).op = "set" /\ Set(c, v).ctl = c /\ Set(c, v).val = v
         /\ Query(c).op = "query" /\ Query(c).ctl = c
BY DEF Set, Query, Command

\* Request adds two commands at the end of the queue.
LEMMA RequestFacts ==
  ASSUME queue \in Seq(Command), NEW c \in Controls, NEW v \in Int, Request(c, v)
  PROVE  /\ queue' \in Seq(Command) /\ Len(queue') = Len(queue) + 2
         /\ \A k \in 1 .. Len(queue) : queue'[k] = queue[k]
         /\ queue'[Len(queue) + 1] = Set(c, v) /\ queue'[Len(queue) + 2] = Query(c)
<1>1. Set(c, v) \in Command /\ Query(c) \in Command
  BY CommandTyped
<1>2. PICK x, y : x = Set(c, v) /\ y = Query(c)
  OBVIOUS
<1>3. queue' = queue \o <<x, y>> /\ x \in Command /\ y \in Command
  BY <1>1, <1>2 DEF Request
<1>4. <<x, y>> \in Seq(Command) /\ Len(<<x, y>>) = 2 /\ <<x, y>>[1] = x /\ <<x, y>>[2] = y
  BY <1>3
<1>5. /\ queue' \in Seq(Command) /\ Len(queue') = Len(queue) + 2
      /\ \A k \in 1 .. Len(queue) : queue'[k] = queue[k]
      /\ queue'[Len(queue) + 1] = x /\ queue'[Len(queue) + 2] = y
  BY <1>3, <1>4
<1> QED
  BY <1>2, <1>5

\* AskNext adds one.
LEMMA AskFacts ==
  ASSUME queue \in Seq(Command), NEW x \in Command, queue' = Append(queue, x)
  PROVE  /\ queue' \in Seq(Command) /\ Len(queue') = Len(queue) + 1
         /\ \A k \in 1 .. Len(queue) : queue'[k] = queue[k]
         /\ queue'[Len(queue) + 1] = x
OBVIOUS

\* The head goes, the others move up.
LEMMA TailFacts ==
  ASSUME queue \in Seq(Command), queue # <<>>, queue' = Tail(queue)
  PROVE  /\ queue' \in Seq(Command) /\ Len(queue) \in Nat \ {0} /\ Len(queue') = Len(queue) - 1
         /\ \A k \in 1 .. Len(queue) - 1 : queue'[k] = queue[k + 1]
         /\ Head(queue) = queue[1] /\ queue[1] \in Command
<1>1. Len(queue) \in Nat \ {0}
  OBVIOUS
<1>2. queue' \in Seq(Command) /\ Len(queue') = Len(queue) - 1
  BY <1>1
<1>3. \A k \in 1 .. Len(queue) - 1 : queue'[k] = queue[k + 1]
  BY <1>1, <1>2
<1>4. Head(queue) = queue[1] /\ queue[1] \in Command
  BY <1>1
<1> QED
  BY <1>1, <1>2, <1>3, <1>4


(***************************************************************************)
(* Types                                                                   *)
(***************************************************************************)

\* At the start the menus show their first entry and nothing is queued.
LEMMA TypeInit == Init => TypeOK
<1> SUFFICES ASSUME Init PROVE TypeOK
  OBVIOUS
<1>1. scope \in [Controls -> Int] /\ wish \in [Controls -> Int]
  BY WidgetsAssumption DEF Init
<1>2. \A m \in Menus : shown[m] \in Values[m]
  <2>1. TAKE m \in Menus
  <2>2. shown[m] = CHOOSE v \in Values[m] : \A w \in Values[m] : v <= w
    BY <2>1 DEF Init, Controls
  <2>3. \E v \in Values[m] : \A w \in Values[m] : v <= w
    BY <2>1, WidgetsAssumption
  <2> QED
    BY <2>2, <2>3
<1>3. shown \in [Controls -> Int]
  <2>1. \A c \in Controls \ Menus : shown[c] = 0
    BY DEF Init
  <2>2. \A m \in Menus : shown[m] \in Int
    BY <1>2, WidgetsAssumption
  <2>3. \A c \in Controls : shown[c] \in Int
    BY <2>1, <2>2
  <2>4. \E f : shown = [c \in Controls |-> f[c]]
    <3>1. DOMAIN shown = Controls /\ shown = [c \in Controls |-> shown[c]]
      BY DEF Init
    <3> QED
      BY <3>1
  <2> QED
    BY <2>3, <2>4
<1>4. goal \in [Arrows -> Int]
  BY <1>1 DEF Init, Controls
<1>5. queue \in Seq([op : {"set", "query"}, ctl : Controls, val : Int])
  BY DEF Init
<1>6. slider \in 0 .. MaxPos /\ asked \in 0 .. Len(InitialQueries) /\ acts \in 0 .. MaxActs
  BY WidgetsAssumption DEF Init
<1>7. new \in [val : Int, pos : 0 .. MaxPos]
  BY WidgetsAssumption DEF Init
<1>8. dragging \in BOOLEAN /\ locked = (rdr # "idle") /\ rdr \in {"idle", "set", "unlock"}
  BY DEF Init
<1>9. refused \subseteq Controls /\ rushed \subseteq Arrows
  BY DEF Init
<1> QED
  BY <1>1, <1>2, <1>3, <1>4, <1>5, <1>6, <1>7, <1>8, <1>9 DEF TypeOK

\* A label may show any number.
LEMMA LabelSetTypes ==
  ASSUME TypeOK, NEW c \in Controls \ Menus, NEW x \in Int,
         shown' = shown \/ shown' = [shown EXCEPT ![c] = x]
  PROVE  shown' \in [Controls -> Int] /\ \A n \in Menus : shown'[n] \in Values[n]
<1>1. CASE shown' = shown
  BY <1>1 DEF TypeOK
<1>2. CASE shown' = [shown EXCEPT ![c] = x]
  BY <1>2 DEF TypeOK, Controls
<1> QED
  BY <1>1, <1>2

\* A menu the user changes shows the entry he picked.
LEMMA PickTypes ==
  ASSUME TypeOK, NEW m \in Menus, NEW v \in Values[m], PickValue(m, v)
  PROVE  TypeOK'
<1>1. m \in Controls /\ v \in Int
  BY WidgetsAssumption DEF Controls
<1>2. shown' = [shown EXCEPT ![m] = v]
  BY DEF PickValue
<1>3. shown' \in [Controls -> Int] /\ \A n \in Menus : shown'[n] \in Values[n]
  BY <1>1, <1>2 DEF TypeOK, Controls
<1>4. queue' \in Seq(Command) /\ wish' \in [Controls -> Int]
  <2>1. CASE locked
    BY <2>1 DEF PickValue, TypeOK, Command
  <2>2. CASE ~locked
    <3>1. Request(m, v) /\ wish' = [wish EXCEPT ![m] = v]
      BY <2>2 DEF PickValue, UserRequest
    <3>2. queue' \in Seq(Command)
      BY <3>1, <1>1, RequestFacts DEF TypeOK, Command
    <3> QED
      BY <3>1, <3>2, <1>1 DEF TypeOK
  <2> QED
    BY <2>1, <2>2
<1>5. /\ acts < MaxActs /\ acts' = acts + 1 /\ slider' = slider /\ dragging' = dragging
      /\ goal' = goal /\ rushed' = rushed
      /\ UNCHANGED <<scope, asked, handlerVars, refused>>
  BY DEF PickValue, UserActs
<1>6. acts' \in 0 .. MaxActs
  BY <1>5, WidgetsAssumption, SMTT(40) DEF TypeOK
<1> QED
  BY <1>3, <1>4, <1>5, <1>6 DEF TypeOK, Command, handlerVars

\* A click on an arrow changes a label and, unless ignored, sends a number.
\* A click on an arrow changes a label and, unless ignored, sends a number.
LEMMA ClickTypes ==
  ASSUME TypeOK, NEW a \in Arrows, NEW sign \in {1, -1}, ClickArrow(a, sign)
  PROVE  TypeOK'
<1>1. a \in Controls /\ a \notin Menus /\ UnitOf[a] \in Menus /\ UnitOf[a] \in Controls
  BY WidgetsAssumption DEF Controls
<1>2. PICK step : step = sign * shown[UnitOf[a]]
  OBVIOUS
<1>3. shown[UnitOf[a]] \in Int /\ shown[a] \in Int /\ scope[a] \in Int
  BY <1>1 DEF TypeOK
<1>4. step \in Int
  BY <1>2, <1>3
<1>5. PICK v : v = shown[a] + step
  OBVIOUS
<1>6. v \in Int /\ Label(v) \in Int
  BY <1>3, <1>4, <1>5, LabelTyped
<1>7. /\ \/ UNCHANGED <<shown, queue, wish>>
         \/ shown' = [shown EXCEPT ![a] = Label(v)] /\ UserRequest(a, v)
      /\ CountClick(a, step)
  BY <1>2, <1>5 DEF ClickArrow
<1>8. shown' \in [Controls -> Int] /\ \A n \in Menus : shown'[n] \in Values[n]
  BY <1>1, <1>6, <1>7, LabelSetTypes
<1>9. queue' \in Seq(Command) /\ wish' \in [Controls -> Int]
  <2>1. CASE UNCHANGED <<shown, queue, wish>>
    BY <2>1 DEF TypeOK, Command
  <2>2. CASE UserRequest(a, v)
    <3>1. Request(a, v) /\ wish' = [wish EXCEPT ![a] = v]
      BY <2>2 DEF UserRequest
    <3>2. queue' \in Seq(Command)
      BY <3>1, <1>1, <1>6, RequestFacts DEF TypeOK, Command
    <3> QED
      BY <3>1, <3>2, <1>1, <1>6 DEF TypeOK
  <2> QED
    BY <1>7, <2>1, <2>2
<1>10. goal' \in [Arrows -> Int] /\ rushed' \subseteq Arrows
  <2>1. goal[a] \in Int
    BY DEF TypeOK
  <2>2. (IF Settled(a) THEN scope[a] ELSE goal[a]) + step \in Int
    BY <1>3, <1>4, <2>1
  <2>3. goal' = [goal EXCEPT ![a] = (IF Settled(a) THEN scope[a] ELSE goal[a]) + step]
    BY <1>7 DEF CountClick
  <2>4. rushed' = rushed \/ rushed' = rushed \cup {a}
    BY <1>7 DEF CountClick
  <2> QED
    BY <2>2, <2>3, <2>4 DEF TypeOK
<1>11. /\ acts < MaxActs /\ acts' = acts + 1 /\ slider' = slider /\ dragging' = dragging
       /\ UNCHANGED <<scope, asked, handlerVars, refused>>
  BY DEF ClickArrow, UserActs
<1>12. acts' \in 0 .. MaxActs
  BY <1>11, WidgetsAssumption, SMTT(40) DEF TypeOK
<1> QED
  BY <1>8, <1>9, <1>10, <1>11, <1>12 DEF TypeOK, Command, handlerVars

\* The slider stays between its ends; the label shows a number.
\* The slider stays between its ends; the label shows a number.
LEMMA DragTypes ==
  ASSUME TypeOK, NEW p \in 0 .. MaxPos, Drag(p)
  PROVE  TypeOK'
<1>1. Level \in Controls /\ Level \notin Menus
  BY WidgetsAssumption DEF Controls
<1>2. p \in Int /\ DragScale \in Int
  BY WidgetsAssumption, ScaleTyped
<1>3. PICK x : x = p * DragScale
  OBVIOUS
<1>4. Label(x) \in Int
  BY <1>2, <1>3, LabelTyped
<1>5. shown' = shown \/ shown' = [shown EXCEPT ![Level] = Label(x)]
  BY <1>3 DEF Drag
<1>6. shown' \in [Controls -> Int] /\ \A n \in Menus : shown'[n] \in Values[n]
  BY <1>1, <1>4, <1>5, LabelSetTypes
<1>7. /\ acts < MaxActs /\ acts' = acts + 1 /\ slider' = p /\ dragging' = TRUE
      /\ UNCHANGED <<queue, wish, goal, rushed>>
      /\ UNCHANGED <<scope, asked, handlerVars, refused>>
  BY DEF Drag, UserActs
<1>8. acts' \in 0 .. MaxActs
  BY <1>7, WidgetsAssumption, SMTT(40) DEF TypeOK
<1> QED
  BY <1>6, <1>7, <1>8 DEF TypeOK, handlerVars

\* What is sent for the slider is a number.
\* What is sent for the slider is a number.
LEMMA ReleaseTypes == ASSUME TypeOK, Release PROVE TypeOK'
<1>1. Level \in Controls /\ Level \notin Menus
  BY WidgetsAssumption DEF Controls
<1>2. slider \in Int /\ Scale \in Int
  BY WidgetsAssumption, ScaleTyped DEF TypeOK
<1>3. PICK x : x = slider * Scale
  OBVIOUS
<1>4. x \in Int /\ Label(x) \in Int
  BY <1>2, <1>3, LabelTyped
<1>5. \/ UNCHANGED <<shown, queue, wish>>
      \/ shown' = [shown EXCEPT ![Level] = Label(x)] /\ UserRequest(Level, x)
  BY <1>3 DEF Release
<1>6. shown' \in [Controls -> Int] /\ \A n \in Menus : shown'[n] \in Values[n]
  BY <1>1, <1>4, <1>5, LabelSetTypes
<1>7. queue' \in Seq(Command) /\ wish' \in [Controls -> Int]
  <2>1. CASE UNCHANGED <<shown, queue, wish>>
    BY <2>1 DEF TypeOK, Command
  <2>2. CASE UserRequest(Level, x)
    <3>1. Request(Level, x) /\ wish' = [wish EXCEPT ![Level] = x]
      BY <2>2 DEF UserRequest
    <3>2. queue' \in Seq(Command)
      BY <3>1, <1>1, <1>4, RequestFacts DEF TypeOK, Command
    <3> QED
      BY <3>1, <3>2, <1>1, <1>4 DEF TypeOK
  <2> QED
    BY <1>5, <2>1, <2>2
<1>8. dragging' = FALSE /\ UNCHANGED <<slider, scope, asked, acts, goal, rushed, handlerVars, refused>>
  BY DEF Release
<1> QED
  BY <1>6, <1>7, <1>8 DEF TypeOK, Command, handlerVars

\* gui_connect asks for controls there are.
\* gui_connect asks for controls there are.
LEMMA AskTypes == ASSUME TypeOK, AskNext PROVE TypeOK'
<1>1. asked + 1 \in 1 .. Len(InitialQueries)
  <2>1. Len(InitialQueries) \in Nat /\ asked \in 0 .. Len(InitialQueries)
    BY WidgetsAssumption DEF TypeOK
  <2>2. asked < Len(InitialQueries)
    BY DEF AskNext
  <2> QED
    BY <2>1, <2>2
<1>2. InitialQueries[asked + 1] \in Controls
  BY <1>1, WidgetsAssumption
<1>3. PICK x : x = Query(InitialQueries[asked + 1])
  OBVIOUS
<1>4. x \in Command
  BY <1>2, <1>3 DEF Query, Command
<1>5. queue' = Append(queue, x) /\ asked' = asked + 1
  BY <1>3 DEF AskNext
<1>6. queue' \in Seq(Command)
  BY <1>4, <1>5, AskFacts DEF TypeOK, Command
<1>7. asked' \in 0 .. Len(InitialQueries)
  BY <1>1, <1>5, WidgetsAssumption
<1>8. UNCHANGED <<shown, slider, scope, userVars, handlerVars, historyVars>>
  BY DEF AskNext
<1> QED
  BY <1>6, <1>7, <1>8 DEF TypeOK, Command, userVars, handlerVars, historyVars

\* What the instrument takes over is a number.
LEMMA ScopeTypes == ASSUME TypeOK, ScopeSet PROVE TypeOK'
<1>1. queue \in Seq(Command) /\ queue # <<>> /\ queue' = Tail(queue)
  BY DEF ScopeSet, TypeOK, Command
<1>2. queue' \in Seq(Command) /\ Head(queue) \in Command
  BY <1>1, TailFacts
<1>3. PICK c, v : c = Head(queue).ctl /\ v = Head(queue).val
  OBVIOUS
<1>4. c \in Controls /\ v \in Int
  BY <1>2, <1>3 DEF Command
<1>5. \/ scope' = [scope EXCEPT ![c] = v] /\ refused' = refused \ {c}
      \/ refused' = refused \cup {c} /\ UNCHANGED scope
  BY <1>3 DEF ScopeSet
<1>6. scope' \in [Controls -> Int] /\ refused' \subseteq Controls
  BY <1>4, <1>5 DEF TypeOK
<1>7. UNCHANGED <<shown, slider, asked, userVars, handlerVars, wish>>
  BY DEF ScopeSet
<1> QED
  BY <1>2, <1>6, <1>7 DEF TypeOK, Command, userVars, handlerVars

\* A reply that matches nothing only goes.
\* A reply that matches nothing only goes.
LEMMA NoMatchTypes == ASSUME TypeOK, NEW m \in Menus, NoMatch(m) PROVE TypeOK'
<1>1. queue \in Seq(Command) /\ queue # <<>> /\ queue' = Tail(queue)
  BY DEF NoMatch, Asked, TypeOK, Command
<1>2. queue' \in Seq(Command)
  BY <1>1, TailFacts
<1>3. UNCHANGED <<shown, slider, scope, asked, userVars, handlerVars, historyVars>>
  BY DEF NoMatch
<1> QED
  BY <1>2, <1>3 DEF TypeOK, Command, userVars, handlerVars, historyVars

\* What a handler is about to show is a number and a position of the slider.
\* What a handler is about to show is a number and a position of the slider.
LEMMA AnsweredTypes == ASSUME TypeOK, NEW c \in Controls, Answered(c) PROVE TypeOK'
<1>1. PICK x, y : /\ x = IF c \in Menus THEN scope[c] ELSE Label(scope[c])
                  /\ y = IF c = Level THEN Clamp(scope[c] \div Scale) ELSE 0
  OBVIOUS
<1>2. scope[c] \in Int
  BY DEF TypeOK
<1>3. x \in Int
  BY <1>1, <1>2, LabelTyped
<1>4. scope[c] \div Scale \in Int
  BY <1>2, ScaleTyped
<1>5. y \in 0 .. MaxPos
  BY <1>1, <1>4, ClampTyped, WidgetsAssumption
<1>6. new' = [val |-> x, pos |-> y]
  BY <1>1 DEF Answered
<1>7. locked' = TRUE /\ rdr' = "set" /\ UNCHANGED <<shown, slider, scope, queue, asked, userVars, historyVars>>
  BY DEF Answered, Lock
<1>8. new' \in [val : Int, pos : 0 .. MaxPos]
  BY <1>3, <1>5, <1>6
<1>9. locked' = (rdr' # "idle")
  BY <1>7
<1> QED
  BY <1>7, <1>8, <1>9 DEF TypeOK, userVars, historyVars

\* What a menu is set to is one of its entries.
\* What a menu is set to is one of its entries.
LEMMA UpdateTypes == ASSUME TypeOK, Handler, Update PROVE TypeOK'
<1>1. rdr = "set" /\ locked
  BY DEF Update, TypeOK
<1>2. PICK c : c = Head(queue).ctl
  OBVIOUS
<1>3. queue \in Seq(Command) /\ queue # <<>>
  BY <1>1 DEF Handler, TypeOK, Command
<1>4. c \in Controls
  <2>1. Head(queue) \in Command
    BY <1>3
  <2> QED
    BY <1>2, <2>1 DEF Command
<1>5. new.val \in Int /\ new.pos \in 0 .. MaxPos
  BY DEF TypeOK
<1>6. c \in Menus => new.val \in Values[c]
  BY <1>1, <1>2 DEF Handler
<1>7. shown' = [shown EXCEPT ![c] = new.val] /\ slider' = IF c = Level THEN new.pos ELSE slider
  BY <1>2 DEF Update
<1>8. shown' \in [Controls -> Int] /\ \A n \in Menus : shown'[n] \in Values[n]
  BY <1>4, <1>5, <1>6, <1>7 DEF TypeOK, Controls
<1>9. slider' \in 0 .. MaxPos
  BY <1>5, <1>7 DEF TypeOK
<1>10. UNCHANGED <<queue, scope, asked, userVars, locked, new, historyVars>> /\ rdr' = "unlock"
  BY <1>1 DEF Update
<1>11. locked' = (rdr' # "idle")
  BY <1>1, <1>10 DEF TypeOK
<1> QED
  BY <1>8, <1>9, <1>10, <1>11 DEF TypeOK, userVars, historyVars

\* g_locked is cleared as the handler ends.
\* g_locked is cleared as the handler ends.
LEMMA UnlockTypes == ASSUME TypeOK, Handler, Unlock PROVE TypeOK'
<1>1. queue \in Seq(Command) /\ queue # <<>> /\ queue' = Tail(queue)
  BY DEF Unlock, Handler, TypeOK, Command
<1>2. queue' \in Seq(Command)
  BY <1>1, TailFacts
<1>3. locked' = FALSE /\ rdr' = "idle" /\ UNCHANGED <<shown, slider, scope, asked, userVars, new, historyVars>>
  BY DEF Unlock
<1>4. locked' = (rdr' # "idle")
  BY <1>3
<1> QED
  BY <1>2, <1>3, <1>4 DEF TypeOK, Command, userVars, historyVars


(***************************************************************************)
(* Queue, handler and wishes                                               *)
(***************************************************************************)

\* The parts of WInv that speak of the queue.
QueueInv == Paired /\ Handler /\ Wishes

\* They hold of an empty queue.
LEMMA QueueInit == Init => QueueInv
<1> SUFFICES ASSUME Init PROVE QueueInv
  OBVIOUS
<1>1. queue = <<>> /\ rdr = "idle" /\ wish = scope
  BY DEF Init
<1>2. DOMAIN queue = {}
  BY <1>1
<1>3. Paired
  BY <1>2 DEF Paired
<1>4. Handler
  BY <1>1 DEF Handler
<1>5. Wishes
  BY <1>1, <1>2 DEF Wishes
<1> QED
  BY <1>3, <1>4, <1>5 DEF QueueInv

\* A callback that sends nothing leaves them alone.
LEMMA NothingSent ==
  ASSUME QueueInv, UNCHANGED <<queue, wish, scope, refused, rdr, new>>
  PROVE  QueueInv'
<1>1. Paired'
  BY DEF QueueInv, Paired
<1>2. Handler'
  BY DEF QueueInv, Handler
<1>3. Wishes'
  BY DEF QueueInv, Wishes, IsSet
<1> QED
  BY <1>1, <1>2, <1>3 DEF QueueInv

\* A setting and its query, pushed one after the other, are the user's last
\* wish for this control and touch no other.
LEMMA RequestKeeps ==
  ASSUME TypeOK, QueueInv, NEW c \in Controls, NEW v \in Int, UserRequest(c, v),
         UNCHANGED <<scope, refused, rdr, new>>
  PROVE  QueueInv'
<1>1. PICK n : n = Len(queue)
  OBVIOUS
<1>2. Request(c, v) /\ wish' = [wish EXCEPT ![c] = v] /\ queue \in Seq(Command)
  BY DEF UserRequest, TypeOK, Command
<1>3. /\ queue' \in Seq(Command) /\ n \in Nat /\ Len(queue') = n + 2
      /\ \A k \in 1 .. n : queue'[k] = queue[k]
      /\ queue'[n + 1] = Set(c, v) /\ queue'[n + 2] = Query(c)
  BY <1>1, <1>2, RequestFacts
<1>4. DOMAIN queue = 1 .. n /\ DOMAIN queue' = 1 .. n + 2
  BY <1>1, <1>2, <1>3
<1>5. /\ queue'[n + 1].op = "set" /\ queue'[n + 1].ctl = c /\ queue'[n + 1].val = v
      /\ queue'[n + 2].op = "query"
  BY <1>3, CommandTyped
<1>6. Paired'
  <2> SUFFICES ASSUME NEW k \in 1 .. n + 2, queue'[k].op = "set"
               PROVE  k < n + 2 /\ queue'[k + 1] = Query(queue'[k].ctl)
    BY <1>3, <1>4 DEF Paired, Query
  <2>1. CASE k \in 1 .. n
    <3>1. queue'[k] = queue[k]
      BY <2>1, <1>3
    <3>2. k < n /\ queue[k + 1] = Query(queue[k].ctl)
      BY <2>1, <3>1, <1>1, <1>4 DEF QueueInv, Paired
    <3>3. queue'[k + 1] = queue[k + 1]
      BY <2>1, <3>2, <1>3
    <3> QED
      BY <1>3, <3>1, <3>2, <3>3
  <2>2. CASE k = n + 1
    BY <2>2, <1>3, <1>5
  <2>3. CASE k = n + 2
    BY <2>3, <1>5
  <2> QED
    BY <2>1, <2>2, <2>3, <1>3
<1>7. Handler'
  <2> SUFFICES ASSUME rdr # "idle" PROVE Handler'
    BY DEF Handler
  <2>1. queue # <<>> /\ n # 0
    BY <1>1, <1>2 DEF QueueInv, Handler
  <2>2. queue' # <<>> /\ Head(queue') = Head(queue)
    BY <2>1, <1>1, <1>2, <1>3
  <2> QED
    BY <2>2 DEF QueueInv, Handler
<1>8. Wishes'
  <2> SUFFICES ASSUME NEW d \in Controls
               PROVE  \/ \E k \in 1 .. n + 2 :
                           /\ queue'[k].op = "set" /\ queue'[k].ctl = d
                           /\ queue'[k].val = wish'[d]
                           /\ \A j \in k + 1 .. n + 2 : ~(queue'[j].op = "set" /\ queue'[j].ctl = d)
                      \/ /\ \A k \in 1 .. n + 2 : ~(queue'[k].op = "set" /\ queue'[k].ctl = d)
                         /\ d \notin refused => scope[d] = wish'[d]
    BY <1>3, <1>4 DEF Wishes, IsSet
  <2>1. CASE d = c
    <3>1. wish'[d] = v
      BY <2>1, <1>2 DEF TypeOK
    <3>2. \A j \in (n + 1) + 1 .. n + 2 : j = n + 2
      BY <1>3
    <3> QED
      BY <2>1, <3>1, <3>2, <1>3, <1>5
  <2>2. CASE d # c
    <3>1. wish'[d] = wish[d]
      BY <2>2, <1>2 DEF TypeOK
    <3>2. \A j \in 1 .. n + 2 :
            queue'[j].op = "set" /\ queue'[j].ctl = d => j \in 1 .. n /\ IsSet(j, d)
      BY <2>2, <1>3, <1>5 DEF IsSet
    <3>3. CASE \E k \in DOMAIN queue : /\ IsSet(k, d) /\ queue[k].val = wish[d]
                                       /\ \A j \in k + 1 .. Len(queue) : ~IsSet(j, d)
      <4>1. PICK k \in 1 .. n : /\ IsSet(k, d) /\ queue[k].val = wish[d]
                                /\ \A j \in k + 1 .. n : ~IsSet(j, d)
        BY <3>3, <1>1, <1>4
      <4>2. queue'[k].op = "set" /\ queue'[k].ctl = d /\ queue'[k].val = wish'[d]
        BY <4>1, <3>1, <1>3 DEF IsSet
      <4>3. \A j \in k + 1 .. n + 2 : ~(queue'[j].op = "set" /\ queue'[j].ctl = d)
        <5>1. TAKE j \in k + 1 .. n + 2
        <5>2. j \in 1 .. n + 2 /\ (j \in 1 .. n => j \in k + 1 .. n)
          BY <5>1, <4>1, <1>3
        <5> QED
          BY <5>2, <3>2, <4>1
      <4>4. k \in 1 .. n + 2
        BY <4>1, <1>3
      <4> QED
        BY <4>2, <4>3, <4>4
    <3>4. CASE /\ \A k \in DOMAIN queue : ~IsSet(k, d)
               /\ d \notin refused => scope[d] = wish[d]
      BY <3>1, <3>2, <3>4, <1>4
    <3> QED
      BY <3>3, <3>4 DEF QueueInv, Wishes
  <2> QED
    BY <2>1, <2>2
<1> QED
  BY <1>6, <1>7, <1>8 DEF QueueInv

\* gui_connect's queries set nothing.
LEMMA AskKeeps ==
  ASSUME TypeOK, QueueInv, AskNext
  PROVE  QueueInv'
<1>1. PICK n : n = Len(queue)
  OBVIOUS
<1>2. PICK x : x = Query(InitialQueries[asked + 1])
  OBVIOUS
<1>3. /\ queue \in Seq(Command) /\ queue' = Append(queue, x) /\ n \in Nat
      /\ x.op = "query"
      /\ UNCHANGED <<wish, scope, refused, rdr, new>>
  BY <1>1, <1>2 DEF AskNext, TypeOK, Command, Query, handlerVars, historyVars
<1>4. /\ Len(queue') = n + 1 /\ DOMAIN queue' = 1 .. n + 1 /\ DOMAIN queue = 1 .. n
      /\ \A k \in 1 .. n : queue'[k] = queue[k]
      /\ queue'[n + 1] = x
  BY <1>1, <1>3
<1>5. \A j \in 1 .. n + 1 : queue'[j].op = "set" => j \in 1 .. n /\ queue'[j] = queue[j]
  BY <1>3, <1>4
<1>6. Paired'
  <2> SUFFICES ASSUME NEW k \in 1 .. n + 1, queue'[k].op = "set"
               PROVE  k < n + 1 /\ queue'[k + 1] = Query(queue'[k].ctl)
    BY <1>4 DEF Paired, Query
  <2>1. k \in 1 .. n /\ queue'[k] = queue[k]
    BY <1>5
  <2>2. k < n /\ queue[k + 1] = Query(queue[k].ctl)
    BY <2>1, <1>1, <1>4 DEF QueueInv, Paired
  <2>3. queue'[k + 1] = queue[k + 1]
    BY <2>1, <2>2, <1>3, <1>4
  <2> QED
    BY <2>1, <2>2, <2>3, <1>3
<1>7. Handler'
  <2> SUFFICES ASSUME rdr # "idle" PROVE Handler'
    BY <1>3 DEF Handler
  <2>1. queue # <<>> /\ n # 0
    BY <1>1, <1>3 DEF QueueInv, Handler
  <2>2. queue' # <<>> /\ Head(queue') = Head(queue)
    BY <2>1, <1>1, <1>3, <1>4
  <2> QED
    BY <2>2, <1>3 DEF QueueInv, Handler
<1>8. Wishes'
  <2> SUFFICES ASSUME NEW d \in Controls
               PROVE  \/ \E k \in 1 .. n + 1 :
                           /\ queue'[k].op = "set" /\ queue'[k].ctl = d
                           /\ queue'[k].val = wish[d]
                           /\ \A j \in k + 1 .. n + 1 : ~(queue'[j].op = "set" /\ queue'[j].ctl = d)
                      \/ /\ \A k \in 1 .. n + 1 : ~(queue'[k].op = "set" /\ queue'[k].ctl = d)
                         /\ d \notin refused => scope[d] = wish[d]
    BY <1>3, <1>4 DEF Wishes, IsSet
  <2>1. CASE \E k \in DOMAIN queue : /\ IsSet(k, d) /\ queue[k].val = wish[d]
                                     /\ \A j \in k + 1 .. Len(queue) : ~IsSet(j, d)
    <3>1. PICK k \in 1 .. n : /\ IsSet(k, d) /\ queue[k].val = wish[d]
                              /\ \A j \in k + 1 .. n : ~IsSet(j, d)
      BY <2>1, <1>1, <1>4
    <3>2. queue'[k].op = "set" /\ queue'[k].ctl = d /\ queue'[k].val = wish[d]
      BY <3>1, <1>4 DEF IsSet
    <3>3. \A j \in k + 1 .. n + 1 : ~(queue'[j].op = "set" /\ queue'[j].ctl = d)
      <4>1. TAKE j \in k + 1 .. n + 1
      <4>2. j \in 1 .. n + 1 /\ (j \in 1 .. n => j \in k + 1 .. n)
        BY <4>1, <3>1, <1>3
      <4> QED
        BY <4>2, <3>1, <1>5 DEF IsSet
    <3>4. k \in 1 .. n + 1
      BY <3>1, <1>3
    <3> QED
      BY <3>2, <3>3, <3>4
  <2>2. CASE /\ \A k \in DOMAIN queue : ~IsSet(k, d)
             /\ d \notin refused => scope[d] = wish[d]
    BY <2>2, <1>4, <1>5 DEF IsSet
  <2> QED
    BY <2>1, <2>2 DEF QueueInv, Wishes
<1> QED
  BY <1>6, <1>7, <1>8 DEF QueueInv


\* A setting at the head takes its query to the head when it goes.
LEMMA TailPaired ==
  ASSUME TypeOK, Paired, queue # <<>>, queue' = Tail(queue)
  PROVE  Paired'
<1>1. PICK n : n = Len(queue)
  OBVIOUS
<1>2. /\ queue' \in Seq(Command) /\ n \in Nat \ {0} /\ Len(queue') = n - 1
      /\ \A k \in 1 .. n - 1 : queue'[k] = queue[k + 1]
  BY <1>1, TailFacts DEF TypeOK, Command
<1>3. DOMAIN queue = 1 .. n /\ DOMAIN queue' = 1 .. n - 1
  BY <1>1, <1>2 DEF TypeOK
<1> SUFFICES ASSUME NEW k \in 1 .. n - 1, queue'[k].op = "set"
             PROVE  k < n - 1 /\ queue'[k + 1] = Query(queue'[k].ctl)
  BY <1>2, <1>3 DEF Paired, Query
<1>4. queue'[k] = queue[k + 1] /\ k + 1 \in 1 .. n
  BY <1>2
<1>5. k + 1 < n /\ queue[(k + 1) + 1] = Query(queue[k + 1].ctl)
  BY <1>4, <1>1, <1>3 DEF Paired
<1>6. queue'[k + 1] = queue[(k + 1) + 1]
  BY <1>2, <1>5
<1> QED
  BY <1>2, <1>4, <1>5, <1>6

\* A wish whose setting is not at the head stays where it is, one place nearer.
LEMMA TailWish ==
  ASSUME TypeOK, queue # <<>>, queue' = Tail(queue), NEW d \in Controls,
         NEW k \in DOMAIN queue, k # 1, IsSet(k, d), queue[k].val = wish[d],
         \A j \in k + 1 .. Len(queue) : ~IsSet(j, d)
  PROVE  \E i \in DOMAIN queue' :
           /\ IsSet(i, d)' /\ queue'[i].val = wish[d]
           /\ \A j \in i + 1 .. Len(queue') : ~IsSet(j, d)'
<1>1. PICK n : n = Len(queue)
  OBVIOUS
<1>2. /\ queue' \in Seq(Command) /\ n \in Nat \ {0} /\ Len(queue') = n - 1
      /\ \A i \in 1 .. n - 1 : queue'[i] = queue[i + 1]
  BY <1>1, TailFacts DEF TypeOK, Command
<1>3. k \in 2 .. n /\ DOMAIN queue' = 1 .. n - 1
  BY <1>1, <1>2 DEF TypeOK
<1>4. PICK i : i = k - 1
  OBVIOUS
<1>5. i \in 1 .. n - 1 /\ queue'[i] = queue[k]
  BY <1>2, <1>3, <1>4
<1>6. \A j \in i + 1 .. n - 1 : j + 1 \in k + 1 .. n /\ queue'[j] = queue[j + 1]
  BY <1>2, <1>3, <1>4
<1>7. \A j \in i + 1 .. n - 1 : ~(queue'[j].op = "set" /\ queue'[j].ctl = d)
  BY <1>1, <1>6 DEF IsSet
<1> QED
  BY <1>2, <1>3, <1>5, <1>7 DEF IsSet

\* No setting appears when the head goes.
LEMMA TailNoSet ==
  ASSUME TypeOK, queue # <<>>, queue' = Tail(queue), NEW d \in Controls,
         \A k \in 2 .. Len(queue) : ~IsSet(k, d)
  PROVE  \A k \in DOMAIN queue' : ~IsSet(k, d)'
<1>1. PICK n : n = Len(queue)
  OBVIOUS
<1>2. /\ queue' \in Seq(Command) /\ n \in Nat \ {0} /\ Len(queue') = n - 1
      /\ \A i \in 1 .. n - 1 : queue'[i] = queue[i + 1]
  BY <1>1, TailFacts DEF TypeOK, Command
<1>3. \A k \in DOMAIN queue' : k + 1 \in 2 .. n /\ queue'[k] = queue[k + 1]
  BY <1>2
<1> QED
  BY <1>1, <1>3 DEF IsSet

\* A query is done: nothing else changes for the queue.
LEMMA QueryGone ==
  ASSUME TypeOK, QueueInv, queue # <<>>, Head(queue).op = "query", queue' = Tail(queue),
         UNCHANGED <<wish, scope, refused>>, rdr' = "idle"
  PROVE  QueueInv'
<1>1. Paired'
  BY TailPaired DEF QueueInv
<1>2. Handler'
  BY DEF Handler
<1>3. /\ Len(queue) \in Nat \ {0} /\ queue[1] = Head(queue)
      /\ DOMAIN queue = 1 .. Len(queue)
  BY TailFacts DEF TypeOK, Command
<1>4. Wishes'
  <2> SUFFICES ASSUME NEW d \in Controls
               PROVE  \/ \E k \in DOMAIN queue' :
                           /\ IsSet(k, d)' /\ queue'[k].val = wish[d]
                           /\ \A j \in k + 1 .. Len(queue') : ~IsSet(j, d)'
                      \/ /\ \A k \in DOMAIN queue' : ~IsSet(k, d)'
                         /\ d \notin refused => scope[d] = wish[d]
    BY DEF Wishes, IsSet
  <2>1. ~IsSet(1, d)
    BY <1>3 DEF IsSet
  <2>2. CASE \E k \in DOMAIN queue : /\ IsSet(k, d) /\ queue[k].val = wish[d]
                                     /\ \A j \in k + 1 .. Len(queue) : ~IsSet(j, d)
    <3>1. PICK k \in DOMAIN queue : /\ IsSet(k, d) /\ queue[k].val = wish[d]
                                    /\ \A j \in k + 1 .. Len(queue) : ~IsSet(j, d)
      BY <2>2
    <3>2. k # 1
      BY <2>1, <3>1
    <3> QED
      BY <3>1, <3>2, TailWish
  <2>3. CASE /\ \A k \in DOMAIN queue : ~IsSet(k, d)
             /\ d \notin refused => scope[d] = wish[d]
    <3>1. \A k \in 2 .. Len(queue) : ~IsSet(k, d)
      BY <2>3, <1>3
    <3> QED
      BY <2>3, <3>1, TailNoSet
  <2> QED
    BY <2>2, <2>3 DEF QueueInv, Wishes
<1> QED
  BY <1>1, <1>2, <1>4 DEF QueueInv

\* The instrument hears a setting.  If it was the last one for its control,
\* the instrument has the user's last wish or refuses it.
LEMMA ScopeKeeps ==
  ASSUME TypeOK, QueueInv, ScopeSet
  PROVE  QueueInv'
<1>1. PICK c, v : c = Head(queue).ctl /\ v = Head(queue).val
  OBVIOUS
<1>2. /\ queue # <<>> /\ Head(queue).op = "set" /\ queue' = Tail(queue)
      /\ \/ scope' = [scope EXCEPT ![c] = v] /\ refused' = refused \ {c}
         \/ refused' = refused \cup {c} /\ UNCHANGED scope
      /\ UNCHANGED <<wish, rdr>>
  BY <1>1 DEF ScopeSet, handlerVars
<1>3. /\ Len(queue) \in Nat \ {0} /\ queue[1] = Head(queue)
      /\ DOMAIN queue = 1 .. Len(queue) /\ queue[1] \in Command
  BY <1>2, TailFacts DEF TypeOK, Command
<1>4. c \in Controls
  BY <1>1, <1>3 DEF Command
<1>5. Paired'
  BY <1>2, TailPaired DEF QueueInv
<1>6. Handler'
  <2>1. rdr = "idle"
    <3>1. Query(Head(queue).ctl).op = "query"
      BY DEF Query
    <3> QED
      BY <1>2, <3>1 DEF QueueInv, Handler
  <2> QED
    BY <1>2, <2>1 DEF Handler
<1>7. Wishes'
  <2> SUFFICES ASSUME NEW d \in Controls
               PROVE  \/ \E k \in DOMAIN queue' :
                           /\ IsSet(k, d)' /\ queue'[k].val = wish[d]
                           /\ \A j \in k + 1 .. Len(queue') : ~IsSet(j, d)'
                      \/ /\ \A k \in DOMAIN queue' : ~IsSet(k, d)'
                         /\ d \notin refused' => scope'[d] = wish[d]
    BY <1>2 DEF Wishes, IsSet
  <2>1. CASE d # c
    <3>1. ~IsSet(1, d)
      BY <2>1, <1>1, <1>3 DEF IsSet
    <3>2. scope'[d] = scope[d] /\ (d \in refused' <=> d \in refused)
      BY <2>1, <1>2 DEF TypeOK
    <3>3. CASE \E k \in DOMAIN queue : /\ IsSet(k, d) /\ queue[k].val = wish[d]
                                       /\ \A j \in k + 1 .. Len(queue) : ~IsSet(j, d)
      <4>1. PICK k \in DOMAIN queue : /\ IsSet(k, d) /\ queue[k].val = wish[d]
                                      /\ \A j \in k + 1 .. Len(queue) : ~IsSet(j, d)
        BY <3>3
      <4>2. k # 1
        BY <3>1, <4>1
      <4> QED
        BY <1>2, <4>1, <4>2, TailWish
    <3>4. CASE /\ \A k \in DOMAIN queue : ~IsSet(k, d)
               /\ d \notin refused => scope[d] = wish[d]
      <4>1. \A k \in 2 .. Len(queue) : ~IsSet(k, d)
        BY <3>4, <1>3
      <4> QED
        BY <1>2, <3>2, <3>4, <4>1, TailNoSet
    <3> QED
      BY <3>3, <3>4 DEF QueueInv, Wishes
  <2>2. CASE d = c
    <3>1. IsSet(1, d) /\ queue[1].val = v
      BY <2>2, <1>1, <1>2, <1>3 DEF IsSet
    <3>2. ~(\A k \in DOMAIN queue : ~IsSet(k, d))
      BY <3>1, <1>3
    <3>3. PICK k \in DOMAIN queue : /\ IsSet(k, d) /\ queue[k].val = wish[d]
                                    /\ \A j \in k + 1 .. Len(queue) : ~IsSet(j, d)
      BY <3>2 DEF QueueInv, Wishes
    <3>4. CASE k = 1
      <4>1. v = wish[d] /\ \A j \in 2 .. Len(queue) : ~IsSet(j, d)
        BY <3>1, <3>3, <3>4
      <4>2. d \notin refused' => scope'[d] = v
        BY <2>2, <1>2, <1>4 DEF TypeOK
      <4> QED
        BY <1>2, <4>1, <4>2, TailNoSet
    <3>5. CASE k # 1
      BY <1>2, <3>3, <3>5, TailWish
    <3> QED
      BY <3>4, <3>5
  <2> QED
    BY <2>1, <2>2
<1> QED
  BY <1>5, <1>6, <1>7 DEF QueueInv

\* A handler starts on what the instrument has now.
LEMMA AnsweredKeeps ==
  ASSUME QueueInv, NEW c \in Controls, Answered(c)
  PROVE  QueueInv'
<1>1. PICK x : x = IF c \in Menus THEN scope[c] ELSE Label(scope[c])
  OBVIOUS
<1>2. /\ new'.val = x /\ rdr' = "set" /\ UNCHANGED <<queue, scope, wish, refused>>
      /\ queue # <<>> /\ Head(queue) = Query(c)
      /\ c \in Menus => scope[c] \in Values[c]
  BY <1>1 DEF Answered, Asked, historyVars
<1>3. Head(queue').ctl = c /\ Head(queue') = Query(c)
  BY <1>2 DEF Query
<1>4. Handler'
  <2>1. new'.val = IF c \in Menus THEN scope'[c] ELSE Label(scope'[c])
    BY <1>1, <1>2
  <2>2. Label(scope'[c]) = Label(scope[c])
    BY <1>2
  <2> QED
    BY <1>2, <1>3, <2>1 DEF Handler, Query, Label
<1>5. Paired' /\ Wishes'
  BY <1>2 DEF QueueInv, Paired, Wishes, IsSet, Query
<1> QED
  BY <1>4, <1>5 DEF QueueInv

\* Showing a value sends nothing, as g_locked is set.
LEMMA UpdateKeeps ==
  ASSUME TypeOK, QueueInv, Update
  PROVE  QueueInv' /\ queue' = queue
<1>1. rdr = "set" /\ locked
  BY DEF Update, TypeOK
<1>2. rdr' = "unlock" /\ UNCHANGED <<queue, scope, wish, refused>>
  BY <1>1 DEF Update, historyVars
<1>3. Handler'
  BY <1>1, <1>2 DEF QueueInv, Handler, Query
<1>4. Paired' /\ Wishes'
  BY <1>2 DEF QueueInv, Paired, Wishes, IsSet, Query
<1> QED
  BY <1>2, <1>3, <1>4 DEF QueueInv


\* The user's steps keep them, whether the callbacks look at g_locked or not.
LEMMA UserKeeps ==
  ASSUME TypeOK, QueueInv
  PROVE  /\ \A m \in Menus : \A v \in Values[m] : PickValue(m, v) => QueueInv'
         /\ \A a \in Arrows, sign \in {1, -1} : ClickArrow(a, sign) => QueueInv'
         /\ \A p \in 0 .. MaxPos : Drag(p) => QueueInv'
         /\ Release => QueueInv'
<1>1. ASSUME NEW m \in Menus, NEW v \in Values[m], PickValue(m, v) PROVE QueueInv'
  <2>1. m \in Controls /\ v \in Int
    BY WidgetsAssumption DEF Controls
  <2>2. UNCHANGED <<scope, refused, rdr, new>>
    BY <1>1 DEF PickValue, UserActs, handlerVars
  <2>3. UNCHANGED <<queue, wish>> \/ UserRequest(m, v)
    BY <1>1 DEF PickValue
  <2> QED
    BY <2>1, <2>2, <2>3, NothingSent, RequestKeeps
<1>2. ASSUME NEW a \in Arrows, NEW sign \in {1, -1}, ClickArrow(a, sign) PROVE QueueInv'
  <2>1. PICK v : v = shown[a] + sign * shown[UnitOf[a]]
    OBVIOUS
  <2>2. a \in Controls /\ UnitOf[a] \in Controls
    BY WidgetsAssumption DEF Controls
  <2>3. v \in Int
    BY <2>1, <2>2, SMTT(40) DEF TypeOK
  <2>4. UNCHANGED <<scope, refused, rdr, new>>
    BY <1>2 DEF ClickArrow, UserActs, handlerVars
  <2>5. UNCHANGED <<queue, wish>> \/ UserRequest(a, v)
    BY <1>2, <2>1 DEF ClickArrow
  <2> QED
    BY <2>2, <2>3, <2>4, <2>5, NothingSent, RequestKeeps
<1>3. ASSUME NEW p \in 0 .. MaxPos, Drag(p) PROVE QueueInv'
  BY <1>3, NothingSent DEF Drag, UserActs, handlerVars
<1>4. ASSUME Release PROVE QueueInv'
  <2>1. PICK v : v = slider * Scale
    OBVIOUS
  <2>2. Level \in Controls /\ v \in Int
    <3>1. Level \in Controls
      BY DEF Controls
    <3>2. slider \in Int /\ Scale \in Int
      BY WidgetsAssumption, ScaleTyped DEF TypeOK
    <3> QED
      BY <2>1, <3>1, <3>2
  <2>3. UNCHANGED <<scope, refused, rdr, new>>
    BY <1>4 DEF Release, handlerVars
  <2>4. UNCHANGED <<queue, wish>> \/ UserRequest(Level, v)
    BY <1>4, <2>1 DEF Release
  <2> QED
    BY <2>2, <2>3, <2>4, NothingSent, RequestKeeps
<1> QED
  BY <1>1, <1>2, <1>3, <1>4

\* A reply that is done takes its query away.
LEMMA ReplyGone ==
  ASSUME TypeOK, QueueInv
  PROVE  /\ \A m \in Menus : NoMatch(m) => QueueInv'
         /\ Unlock => QueueInv'
<1>1. ASSUME NEW m \in Menus, NoMatch(m) PROVE QueueInv'
  <2>1. queue # <<>> /\ Head(queue).op = "query" /\ queue' = Tail(queue)
    BY <1>1 DEF NoMatch, Asked, Query
  <2>2. UNCHANGED <<wish, scope, refused>> /\ rdr' = "idle"
    BY <1>1 DEF NoMatch, Asked, handlerVars, historyVars
  <2> QED
    BY <2>1, <2>2, QueryGone
<1>2. ASSUME Unlock PROVE QueueInv'
  <2>1. queue # <<>> /\ Head(queue) = Query(Head(queue).ctl) /\ queue' = Tail(queue)
    BY <1>2 DEF Unlock, QueueInv, Handler
  <2>2. Head(queue).op = "query"
    BY <2>1 DEF Query
  <2>3. UNCHANGED <<wish, scope, refused>> /\ rdr' = "idle"
    BY <1>2 DEF Unlock, historyVars
  <2> QED
    BY <2>1, <2>2, <2>3, QueryGone
<1> QED
  BY <1>1, <1>2

\* Every step keeps the invariant, also with a user who acts inside a handler.
LEMMA WStep == WInv /\ [Next]_vars => WInv'
<1> SUFFICES ASSUME TypeOK, QueueInv, [Next]_vars PROVE TypeOK' /\ QueueInv'
  BY DEF WInv, QueueInv
<1>1. ASSUME NEW m \in Menus, NEW v \in Values[m], PickValue(m, v) PROVE TypeOK' /\ QueueInv'
  BY <1>1, PickTypes, UserKeeps
<1>2. ASSUME NEW a \in Arrows, NEW sign \in {1, -1}, ClickArrow(a, sign) PROVE TypeOK' /\ QueueInv'
  BY <1>2, ClickTypes, UserKeeps
<1>3. ASSUME NEW p \in 0 .. MaxPos, Drag(p) PROVE TypeOK' /\ QueueInv'
  BY <1>3, DragTypes, UserKeeps
<1>4. CASE Release
  BY <1>4, ReleaseTypes, UserKeeps
<1>5. CASE AskNext
  BY <1>5, AskTypes, AskKeeps
<1>6. CASE ScopeSet
  BY <1>6, ScopeTypes, ScopeKeeps
<1>7. ASSUME NEW m \in Menus, NoMatch(m) PROVE TypeOK' /\ QueueInv'
  BY <1>7, NoMatchTypes, ReplyGone
<1>8. ASSUME NEW c \in Controls, Answered(c) PROVE TypeOK' /\ QueueInv'
  BY <1>8, AnsweredTypes, AnsweredKeeps
<1>9. CASE Update
  BY <1>9, UpdateTypes, UpdateKeeps DEF QueueInv
<1>10. CASE Unlock
  BY <1>10, UnlockTypes, ReplyGone DEF QueueInv
<1>11. CASE UNCHANGED vars
  <2>1. TypeOK'
    BY <1>11 DEF vars, userVars, handlerVars, historyVars, TypeOK
  <2> QED
    BY <1>11, <2>1, NothingSent DEF vars, handlerVars, historyVars
<1> QED
  BY <1>1, <1>2, <1>3, <1>4, <1>5, <1>6, <1>7, <1>8, <1>9, <1>10, <1>11 DEF Next, HandlerStep

\* g_locked is set exactly while a handler is at work, what a handler is about
\* to show is the instrument's setting, and the user's last wish for a control
\* is under way or with the instrument.
THEOREM ControlsInvariant == Spec => []WInv
<1>1. Init => WInv
  BY TypeInit, QueueInit DEF WInv, QueueInv
<1> QED
  BY <1>1, WStep, PTL DEF Spec

\* No reply, and no callback a reply causes, overrides what the user chose last,
\* whenever he acts.
THEOREM LastWishStands == Spec => []LastWish
<1>1. WInv => LastWish
  <2> SUFFICES ASSUME WInv, Quiet, NEW c \in Controls \ refused PROVE scope[c] = wish[c]
    BY DEF LastWish
  <2>1. DOMAIN queue = {}
    BY DEF Quiet
  <2> QED
    BY <2>1 DEF WInv, Wishes
<1> QED
  BY <1>1, ControlsInvariant, PTL


(***************************************************************************)
(* Controls and settings agree                                             *)
(***************************************************************************)

\* At the start gui_connect has every control to ask for.
LEMMA ShownInit == Init => Shown /\ Clicks
<1> SUFFICES ASSUME Init PROVE Shown /\ Clicks
  OBVIOUS
<1>1. Shown
  <2> SUFFICES ASSUME NEW c \in Controls PROVE ToAsk(c)
    BY DEF Shown, Covered
  <2>1. \E k \in DOMAIN InitialQueries : InitialQueries[k] = c
    BY WidgetsAssumption
  <2>2. DOMAIN InitialQueries = 1 .. Len(InitialQueries) /\ asked + 1 = 1
    BY WidgetsAssumption DEF Init
  <2> QED
    BY <2>1, <2>2 DEF ToAsk
<1>2. Clicks
  BY DEF Init, Clicks, Controls
<1> QED
  BY <1>1, <1>2

\* A query that is pushed behind the one at work will be answered.
LEMMA RequestShown ==
  ASSUME TypeOK, Handler, Shown, NEW c \in Controls, NEW v \in Int, Request(c, v),
         UNCHANGED <<scope, rdr, asked>>, c # Level => UNCHANGED dragging,
         \A d \in Controls : d # c => shown'[d] = shown[d]
  PROVE  Shown'
<1>1. PICK n : n = Len(queue)
  OBVIOUS
<1>2. /\ queue' \in Seq(Command) /\ n \in Nat /\ Len(queue') = n + 2
      /\ \A k \in 1 .. n : queue'[k] = queue[k]
      /\ queue'[n + 2] = Query(c)
  <2>1. queue \in Seq(Command)
    BY DEF TypeOK, Command
  <2> QED
    BY <1>1, <2>1, RequestFacts
<1> SUFFICES ASSUME NEW d \in Controls PROVE Covered(d)'
  BY DEF Shown
<1>3. CASE d = c
  <2>1. FirstOpen' \in {1, 2}
    BY DEF FirstOpen
  <2>2. n + 2 \in FirstOpen' .. n + 2
    BY <1>2, <2>1
  <2> QED
    BY <1>2, <1>3, <2>2 DEF Covered, Pending, Query
<1>4. CASE d # c
  <2>1. CASE Pending(d)
    <3>1. PICK k \in FirstOpen .. n : queue[k] = Query(d)
      BY <1>1, <2>1 DEF Pending
    <3>2. FirstOpen' = FirstOpen /\ FirstOpen \in {1, 2}
      BY DEF FirstOpen
    <3>3. k \in FirstOpen' .. n + 2 /\ k \in 1 .. n
      BY <1>2, <3>1, <3>2
    <3> QED
      BY <1>2, <3>1, <3>3 DEF Covered, Pending, Query
  <2>2. CASE ToAsk(d)
    BY <2>2 DEF Covered, ToAsk
  <2>3. CASE d = Level /\ dragging
    BY <1>4, <2>3 DEF Covered
  <2>4. CASE Shows(d)
    BY <1>4, <2>4 DEF Covered, Shows, Label
  <2> QED
    BY <2>1, <2>2, <2>3, <2>4 DEF Shown, Covered
<1> QED
  BY <1>3, <1>4

\* The user changes what a control shows and asks for it, or holds the slider.
LEMMA UserShown ==
  ASSUME ~Hasty, TypeOK, Handler, Shown
  PROVE  /\ \A m \in Menus : \A v \in Values[m] : PickValue(m, v) => Shown'
         /\ \A a \in Arrows, sign \in {1, -1} : ClickArrow(a, sign) => Shown'
         /\ \A p \in 0 .. MaxPos : Drag(p) => Shown'
         /\ Release => Shown'
<1>1. ASSUME NEW m \in Menus, NEW v \in Values[m], PickValue(m, v) PROVE Shown'
  <2>1. m \in Controls /\ v \in Int
    BY WidgetsAssumption DEF Controls
  <2>2. /\ UNCHANGED <<scope, rdr, asked, dragging>> /\ ~locked
        /\ shown' = [shown EXCEPT ![m] = v]
    BY <1>1 DEF PickValue, UserActs, handlerVars
  <2>3. Request(m, v)
    BY <1>1, <2>2 DEF PickValue, UserRequest
  <2>4. \A d \in Controls : d # m => shown'[d] = shown[d]
    BY <2>2 DEF TypeOK
  <2> QED
    BY <2>1, <2>2, <2>3, <2>4, RequestShown
<1>2. ASSUME NEW a \in Arrows, NEW sign \in {1, -1}, ClickArrow(a, sign) PROVE Shown'
  <2>1. PICK v : v = shown[a] + sign * shown[UnitOf[a]]
    OBVIOUS
  <2>2. a \in Controls /\ UnitOf[a] \in Controls
    BY WidgetsAssumption DEF Controls
  <2>3. v \in Int
    BY <2>1, <2>2 DEF TypeOK
  <2>4. UNCHANGED <<scope, rdr, asked, dragging>> /\ ~(locked /\ a \in Guarded)
    BY <1>2 DEF ClickArrow, UserActs, handlerVars
  <2>5. Request(a, v) /\ shown' = [shown EXCEPT ![a] = Label(v)]
    BY <1>2, <2>1, <2>4 DEF ClickArrow, UserRequest
  <2>6. \A d \in Controls : d # a => shown'[d] = shown[d]
    BY <2>5 DEF TypeOK
  <2> QED
    BY <2>2, <2>3, <2>4, <2>5, <2>6, RequestShown
<1>3. ASSUME NEW p \in 0 .. MaxPos, Drag(p) PROVE Shown'
  <2>1. /\ UNCHANGED <<scope, rdr, asked, queue>> /\ dragging' = TRUE
        /\ \A d \in Controls : d # Level => shown'[d] = shown[d]
    BY <1>3 DEF Drag, UserActs, handlerVars, TypeOK
  <2> SUFFICES ASSUME NEW d \in Controls PROVE Covered(d)'
    BY DEF Shown
  <2>2. CASE d = Level
    BY <2>1, <2>2 DEF Covered
  <2>3. CASE d # Level
    BY <2>1, <2>3 DEF Shown, Covered, Pending, FirstOpen, ToAsk, Shows, Query, Label
  <2> QED
    BY <2>2, <2>3
<1>4. ASSUME Release PROVE Shown'
  <2>1. PICK v : v = slider * Scale
    OBVIOUS
  <2>2. Level \in Controls
    BY DEF Controls
  <2>3. v \in Int
    <3>1. slider \in Int /\ Scale \in Int
      BY WidgetsAssumption, ScaleTyped DEF TypeOK
    <3> QED
      BY <2>1, <3>1
  <2>4. UNCHANGED <<scope, rdr, asked>> /\ ~locked
    BY <1>4 DEF Release, handlerVars
  <2>5. Request(Level, v) /\ shown' = [shown EXCEPT ![Level] = Label(v)]
    BY <1>4, <2>1, <2>4 DEF Release, UserRequest
  <2>6. \A d \in Controls : d # Level => shown'[d] = shown[d]
    BY <2>5 DEF TypeOK
  <2> QED
    BY <2>2, <2>3, <2>4, <2>5, <2>6, RequestShown
<1> QED
  BY <1>1, <1>2, <1>3, <1>4

\* gui_connect's next query is pushed behind the one at work.
LEMMA AskShown ==
  ASSUME TypeOK, Handler, Shown, AskNext
  PROVE  Shown'
<1>1. PICK n : n = Len(queue)
  OBVIOUS
<1>2. PICK x : x = Query(InitialQueries[asked + 1])
  OBVIOUS
<1>3. /\ queue \in Seq(Command) /\ queue' = Append(queue, x) /\ n \in Nat
      /\ asked' = asked + 1
      /\ UNCHANGED <<shown, scope, rdr, dragging>>
  BY <1>1, <1>2 DEF AskNext, TypeOK, Command, userVars, handlerVars
<1>4. /\ Len(queue') = n + 1
      /\ \A k \in 1 .. n : queue'[k] = queue[k]
      /\ queue'[n + 1] = x
  BY <1>1, <1>3
<1>5. FirstOpen' = FirstOpen /\ FirstOpen \in {1, 2} /\ FirstOpen =< n + 1
  <2>1. rdr = "unlock" => n # 0
    BY <1>1, <1>3 DEF Handler
  <2> QED
    BY <1>3, <2>1 DEF FirstOpen
<1>6. asked \in Nat /\ Len(InitialQueries) \in Nat
  BY WidgetsAssumption DEF TypeOK
<1> SUFFICES ASSUME NEW d \in Controls PROVE Covered(d)'
  BY DEF Shown
<1>7. CASE Pending(d)
  <2>1. PICK k \in FirstOpen .. n : queue[k] = Query(d)
    BY <1>1, <1>7 DEF Pending
  <2>2. k \in FirstOpen' .. n + 1 /\ k \in 1 .. n
    BY <1>3, <1>5, <2>1
  <2> QED
    BY <1>4, <2>1, <2>2 DEF Covered, Pending, Query
<1>8. CASE ToAsk(d)
  <2>1. PICK k \in asked + 1 .. Len(InitialQueries) : InitialQueries[k] = d
    BY <1>8 DEF ToAsk
  <2>2. CASE k = asked + 1
    <3>1. x = Query(d) /\ n + 1 \in FirstOpen' .. n + 1
      BY <1>2, <1>3, <1>5, <2>1, <2>2
    <3> QED
      BY <1>4, <3>1 DEF Covered, Pending, Query
  <2>3. CASE k # asked + 1
    <3>1. k \in asked' + 1 .. Len(InitialQueries)
      BY <1>3, <1>6, <2>1, <2>3
    <3> QED
      BY <2>1, <3>1 DEF Covered, ToAsk
  <2> QED
    BY <2>2, <2>3
<1>9. CASE (d = Level /\ dragging) \/ Shows(d)
  BY <1>3, <1>9 DEF Covered, Shows, Label
<1> QED
  BY <1>7, <1>8, <1>9 DEF Shown, Covered

\* Answers to come move up when the head goes, unless the head is one of them
\* and not at work.
LEMMA TailPending ==
  ASSUME TypeOK, queue # <<>>, queue' = Tail(queue), rdr' = "idle", NEW d \in Controls,
         Pending(d), rdr = "unlock" \/ queue[1] # Query(d)
  PROVE  Pending(d)'
<1>1. PICK n : n = Len(queue)
  OBVIOUS
<1>2. /\ n \in Nat \ {0} /\ Len(queue') = n - 1
      /\ \A k \in 1 .. n - 1 : queue'[k] = queue[k + 1]
  BY <1>1, TailFacts DEF TypeOK, Command
<1>3. PICK k \in FirstOpen .. n : queue[k] = Query(d)
  BY <1>1 DEF Pending
<1>4. k \in 2 .. n
  BY <1>2, <1>3 DEF FirstOpen
<1>5. PICK i : i = k - 1
  OBVIOUS
<1>6. i \in 1 .. n - 1 /\ queue'[i] = queue[k]
  BY <1>2, <1>4, <1>5
<1>7. FirstOpen' = 1
  BY DEF FirstOpen
<1> QED
  BY <1>2, <1>3, <1>6, <1>7 DEF Pending, Query

\* The instrument's setting changes with the query of it next in the queue.
LEMMA ScopeShown ==
  ASSUME TypeOK, QueueInv, Shown, ScopeSet
  PROVE  Shown'
<1>1. PICK c : c = Head(queue).ctl
  OBVIOUS
<1>2. /\ queue # <<>> /\ Head(queue).op = "set" /\ queue' = Tail(queue)
      /\ UNCHANGED <<shown, rdr, asked, dragging>>
  BY DEF ScopeSet, handlerVars, userVars
<1>3. /\ Len(queue) \in Nat \ {0} /\ queue[1] = Head(queue) /\ DOMAIN queue = 1 .. Len(queue)
      /\ Len(queue') = Len(queue) - 1
      /\ \A k \in 1 .. Len(queue) - 1 : queue'[k] = queue[k + 1]
      /\ queue[1] \in Command
  BY <1>2, TailFacts DEF TypeOK, Command
<1>4. 1 < Len(queue) /\ queue[1 + 1] = Query(c)
  BY <1>1, <1>2, <1>3 DEF QueueInv, Paired
<1>5. rdr = "idle"
  <2>1. Query(Head(queue).ctl).op = "query"
    BY DEF Query
  <2> QED
    BY <1>2, <2>1 DEF QueueInv, Handler
<1>6. \A d \in Controls : d # c => scope'[d] = scope[d]
  BY <1>1 DEF ScopeSet, TypeOK
<1> SUFFICES ASSUME NEW d \in Controls PROVE Covered(d)'
  BY DEF Shown
<1>7. CASE d = c
  <2>1. queue'[1] = Query(d) /\ 1 \in 1 .. Len(queue')
    BY <1>3, <1>4, <1>7
  <2>2. FirstOpen' = 1
    BY <1>2, <1>5 DEF FirstOpen
  <2> QED
    BY <2>1, <2>2 DEF Covered, Pending, Query
<1>8. CASE d # c
  <2>1. CASE Pending(d)
    <3>1. queue[1] # Query(d)
      BY <1>2, <1>3 DEF Query
    <3> QED
      BY <1>2, <1>5, <2>1, <3>1, TailPending DEF Covered
  <2>2. CASE ToAsk(d)
    BY <1>2, <2>2 DEF Covered, ToAsk
  <2>3. CASE (d = Level /\ dragging) \/ Shows(d)
    BY <1>2, <1>6, <1>8, <2>3 DEF Covered, Shows, Label
  <2> QED
    BY <2>1, <2>2, <2>3 DEF Shown, Covered
<1> QED
  BY <1>7, <1>8


\* A setting that is in no menu cannot be shown.
LEMMA NoMatchShown ==
  ASSUME TypeOK, Shown, NEW m \in Menus, NoMatch(m)
  PROVE  Shown'
<1>1. /\ queue # <<>> /\ Head(queue) = Query(m) /\ queue' = Tail(queue)
      /\ rdr = "idle" /\ rdr' = "idle" /\ scope[m] \notin Values[m]
      /\ UNCHANGED <<shown, scope, asked, dragging>>
  BY DEF NoMatch, Asked, userVars, handlerVars
<1>2. queue[1] = Query(m)
  BY <1>1 DEF TypeOK
<1> SUFFICES ASSUME NEW d \in Controls PROVE Covered(d)'
  BY DEF Shown
<1>3. CASE d = m
  BY <1>1, <1>3 DEF Covered, Shows
<1>4. CASE d # m
  <2>1. CASE Pending(d)
    <3>1. queue[1] # Query(d)
      BY <1>2, <1>4 DEF Query
    <3> QED
      BY <1>1, <2>1, <3>1, TailPending DEF Covered
  <2>2. CASE ToAsk(d)
    BY <1>1, <2>2 DEF Covered, ToAsk
  <2>3. CASE (d = Level /\ dragging) \/ Shows(d)
    BY <1>1, <2>3 DEF Covered, Shows, Label
  <2> QED
    BY <2>1, <2>2, <2>3 DEF Shown, Covered
<1> QED
  BY <1>3, <1>4

\* A handler that has started has shown nothing yet.
LEMMA AnsweredShown ==
  ASSUME Shown, NEW c \in Controls, Answered(c)
  PROVE  Shown'
<1>1. /\ rdr = "idle" /\ rdr' = "set"
      /\ UNCHANGED <<shown, scope, asked, queue, dragging>>
  BY DEF Answered, Asked, userVars
<1> QED
  BY <1>1 DEF Shown, Covered, Pending, FirstOpen, ToAsk, Shows, Query, Label

\* The handler shows the instrument's setting.
LEMMA UpdateShown ==
  ASSUME TypeOK, QueueInv, Shown, Update
  PROVE  Shown'
<1>1. PICK c : c = Head(queue).ctl
  OBVIOUS
<1>2. /\ rdr = "set" /\ rdr' = "unlock" /\ shown' = [shown EXCEPT ![c] = new.val]
      /\ UNCHANGED <<scope, asked, queue, dragging>>
  BY <1>1, UpdateKeeps DEF Update, userVars
<1>3. queue # <<>> /\ Head(queue) = Query(c)
  BY <1>1, <1>2 DEF QueueInv, Handler
<1>4. queue[1] = Query(c) /\ Len(queue) \in Nat
  BY <1>3 DEF TypeOK
<1>5. new.val = IF c \in Menus THEN scope[c] ELSE Label(scope[c])
  BY <1>1, <1>2 DEF QueueInv, Handler
<1> SUFFICES ASSUME NEW d \in Controls PROVE Covered(d)'
  BY DEF Shown
<1>6. CASE d = c
  <2>1. shown'[d] = new.val
    BY <1>2, <1>6 DEF TypeOK
  <2>2. CASE d \in Menus
    BY <1>2, <1>5, <1>6, <2>1, <2>2 DEF Covered, Shows
  <2>3. CASE d \notin Menus
    BY <1>2, <1>5, <1>6, <2>1, <2>3 DEF Covered, Shows, Label
  <2> QED
    BY <2>2, <2>3
<1>7. CASE d # c
  <2>1. shown'[d] = shown[d]
    BY <1>2, <1>7 DEF TypeOK
  <2>2. CASE Pending(d)
    <3>1. PICK k \in 1 .. Len(queue) : queue[k] = Query(d)
      BY <1>2, <2>2 DEF Pending, FirstOpen
    <3>2. k # 1
      BY <1>4, <1>7, <3>1 DEF Query
    <3>3. k \in 2 .. Len(queue)
      BY <1>4, <3>1, <3>2
    <3>4. FirstOpen' = 2
      BY <1>2 DEF FirstOpen
    <3> QED
      BY <1>2, <3>1, <3>3, <3>4 DEF Covered, Pending, Query
  <2>3. CASE ToAsk(d)
    BY <1>2, <2>3 DEF Covered, ToAsk
  <2>4. CASE (d = Level /\ dragging) \/ Shows(d)
    BY <1>2, <2>1, <2>4 DEF Covered, Shows, Label
  <2> QED
    BY <2>2, <2>3, <2>4 DEF Shown, Covered
<1> QED
  BY <1>6, <1>7

\* The reply is done: what is to come moves up.
LEMMA UnlockShown ==
  ASSUME TypeOK, QueueInv, Shown, Unlock
  PROVE  Shown'
<1>1. /\ rdr = "unlock" /\ rdr' = "idle" /\ queue # <<>> /\ queue' = Tail(queue)
      /\ UNCHANGED <<shown, scope, asked, dragging>>
  BY DEF Unlock, QueueInv, Handler, userVars
<1> SUFFICES ASSUME NEW d \in Controls PROVE Covered(d)'
  BY DEF Shown
<1>2. CASE Pending(d)
  BY <1>1, <1>2, TailPending DEF Covered
<1>3. CASE ToAsk(d)
  BY <1>1, <1>3 DEF Covered, ToAsk
<1>4. CASE (d = Level /\ dragging) \/ Shows(d)
  BY <1>1, <1>4 DEF Covered, Shows, Label
<1> QED
  BY <1>2, <1>3, <1>4 DEF Shown, Covered

\* The clicks of a user who waits are his wishes.
LEMMA ClicksStep ==
  ASSUME ~Hasty, TypeOK, Clicks, [Next]_vars
  PROVE  Clicks'
<1>1. ASSUME UNCHANGED <<goal, rushed>>, \A a \in Arrows : wish'[a] = wish[a] PROVE Clicks'
  BY <1>1 DEF Clicks
<1>2. ASSUME NEW m \in Menus, NEW v \in Values[m], PickValue(m, v) PROVE Clicks'
  <2>1. \A a \in Arrows : a # m /\ a \in Controls
    BY WidgetsAssumption DEF Controls
  <2>2. UNCHANGED <<goal, rushed>> /\ (wish' = wish \/ wish' = [wish EXCEPT ![m] = v])
    BY <1>2 DEF PickValue, UserRequest
  <2>3. \A a \in Arrows : wish'[a] = wish[a]
    BY <2>1, <2>2 DEF TypeOK
  <2> QED
    BY <1>1, <2>2, <2>3
<1>3. ASSUME NEW a \in Arrows, NEW sign \in {1, -1}, ClickArrow(a, sign) PROVE Clicks'
  <2>1. PICK step : step = sign * shown[UnitOf[a]]
    OBVIOUS
  <2>2. PICK v : v = shown[a] + step
    OBVIOUS
  <2>3. ~(locked /\ a \in Guarded)
    BY <1>3 DEF ClickArrow, UserActs
  <2>4. wish' = [wish EXCEPT ![a] = v]
    BY <1>3, <2>1, <2>2, <2>3 DEF ClickArrow, UserRequest
  <2>5. /\ goal' = [goal EXCEPT ![a] = (IF Settled(a) THEN scope[a] ELSE goal[a]) + step]
        /\ rushed' = IF Settled(a) THEN rushed ELSE rushed \cup {a}
    BY <1>3, <2>1 DEF ClickArrow, CountClick
  <2>6. a \in Controls
    BY DEF Controls
  <2> SUFFICES ASSUME NEW b \in Arrows \ rushed' PROVE goal'[b] = wish'[b]
    BY DEF Clicks
  <2>7. b \in Controls /\ b \notin rushed
    BY <2>5 DEF Controls
  <2>8. CASE b = a
    <3>1. Settled(a)
      BY <2>5, <2>8
    <3>2. goal'[a] = scope[a] + step
      BY <2>5, <3>1 DEF TypeOK
    <3>3. shown[a] = scope[a]
      BY <3>1 DEF Settled
    <3>4. wish'[a] = v
      BY <2>4, <2>6 DEF TypeOK
    <3> QED
      BY <2>2, <2>8, <3>2, <3>3, <3>4
  <2>9. CASE b # a
    <3>1. goal'[b] = goal[b] /\ wish'[b] = wish[b]
      BY <2>4, <2>5, <2>7, <2>9 DEF TypeOK
    <3> QED
      BY <2>7, <3>1 DEF Clicks
  <2> QED
    BY <2>8, <2>9
<1>4. ASSUME NEW p \in 0 .. MaxPos, Drag(p) PROVE Clicks'
  BY <1>1, <1>4 DEF Drag
<1>5. CASE Release
  <2>1. \A a \in Arrows : a # Level /\ a \in Controls
    BY WidgetsAssumption DEF Controls
  <2>2. PICK v : v = slider * Scale
    OBVIOUS
  <2>3. UNCHANGED <<goal, rushed>> /\ (wish' = wish \/ wish' = [wish EXCEPT ![Level] = v])
    BY <1>5, <2>2 DEF Release, UserRequest
  <2>4. \A a \in Arrows : wish'[a] = wish[a]
    BY <2>1, <2>3 DEF TypeOK
  <2> QED
    BY <1>1, <2>3, <2>4
<1>6. CASE AskNext \/ ScopeSet \/ HandlerStep
  <2>1. UNCHANGED <<goal, rushed, wish>>
    BY <1>6 DEF AskNext, ScopeSet, HandlerStep, NoMatch, Answered, Update, Unlock,
                userVars, historyVars
  <2> QED
    BY <1>1, <2>1
<1>7. CASE UNCHANGED vars
  BY <1>1, <1>7 DEF vars, userVars, historyVars
<1> QED
  BY <1>2, <1>3, <1>4, <1>5, <1>6, <1>7 DEF Next

\* Every step keeps UInv, if the user does not act inside a handler.
LEMMA UStep == ASSUME ~Hasty PROVE UInv /\ [Next]_vars => UInv'
<1> SUFFICES ASSUME WInv, Shown, Clicks, [Next]_vars PROVE UInv'
  BY DEF UInv
<1>1. TypeOK /\ QueueInv /\ Handler
  BY DEF WInv, QueueInv
<1>2. ASSUME NEW m \in Menus, NEW v \in Values[m], PickValue(m, v) PROVE Shown'
  BY <1>1, <1>2, UserShown
<1>3. ASSUME NEW a \in Arrows, NEW sign \in {1, -1}, ClickArrow(a, sign) PROVE Shown'
  BY <1>1, <1>3, UserShown
<1>4. ASSUME NEW p \in 0 .. MaxPos, Drag(p) PROVE Shown'
  BY <1>1, <1>4, UserShown
<1>5. ASSUME Release PROVE Shown'
  BY <1>1, <1>5, UserShown
<1>6. ASSUME AskNext PROVE Shown'
  BY <1>1, <1>6, AskShown
<1>7. ASSUME ScopeSet PROVE Shown'
  BY <1>1, <1>7, ScopeShown
<1>8. ASSUME NEW m \in Menus, NoMatch(m) PROVE Shown'
  BY <1>1, <1>8, NoMatchShown
<1>9. ASSUME NEW c \in Controls, Answered(c) PROVE Shown'
  BY <1>9, AnsweredShown
<1>10. ASSUME Update PROVE Shown'
  BY <1>1, <1>10, UpdateShown
<1>11. ASSUME Unlock PROVE Shown'
  BY <1>1, <1>11, UnlockShown
<1>12. ASSUME UNCHANGED vars PROVE Shown'
  BY <1>12 DEF vars, userVars, handlerVars, Shown, Covered, Pending, FirstOpen, ToAsk,
               Shows, Query, Label
<1>13. Shown'
  BY <1>2, <1>3, <1>4, <1>5, <1>6, <1>7, <1>8, <1>9, <1>10, <1>11, <1>12 DEF Next, HandlerStep
<1> QED
  BY <1>1, <1>13, WStep, ClicksStep DEF UInv

\* Every control shows the instrument's setting, or will be told it.
THEOREM ControlsCovered == ASSUME ~Hasty PROVE Spec => []UInv
<1>1. Init => UInv
  BY TypeInit, QueueInit, ShownInit DEF UInv, WInv, QueueInv
<1> QED
  BY <1>1, UStep, PTL DEF Spec

\* When nothing is under way the main window shows the instrument's settings.
THEOREM ControlsInSync == ASSUME ~Hasty PROVE Spec => []InSync
<1>1. UInv => InSync
  <2> SUFFICES ASSUME UInv PROVE InSync
    OBVIOUS
  <2>1. TypeOK /\ Shown
    BY DEF UInv, WInv
  <2>2. ASSUME Quiet, NEW c \in Controls PROVE Shows(c)
    <3>1. ~Pending(c)
      <4>1. Len(queue) = 0
        BY <2>2 DEF Quiet
      <4> QED
        BY <4>1 DEF Pending, FirstOpen
    <3>2. ~ToAsk(c)
      <4>1. asked = Len(InitialQueries) /\ Len(InitialQueries) \in Nat
        BY <2>2, WidgetsAssumption DEF Quiet
      <4> QED
        BY <4>1 DEF ToAsk
    <3>3. ~dragging
      BY <2>2 DEF Quiet
    <3> QED
      BY <2>1, <3>1, <3>2, <3>3 DEF Shown, Covered
  <2>3. Menus \subseteq Controls
    BY DEF Controls
  <2> QED
    BY <2>1, <2>2, <2>3 DEF InSync, Shows
<1> QED
  BY <1>1, ControlsCovered, PTL

\* Every click of a user who waits for the replies changes the setting by its
\* step, whatever the label rounds it to.
THEOREM PatientClicks == ASSUME ~Hasty PROVE Spec => []ClicksCount
<1>1. UInv /\ LastWish => ClicksCount
  BY DEF UInv, Clicks, LastWish, ClicksCount, Controls
<1> QED
  BY <1>1, ControlsCovered, LastWishStands, PTL

================================================================================
