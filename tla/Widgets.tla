-------------------------------- MODULE Widgets --------------------------------
(***************************************************************************)
(* The controls of the main window and the instrument's settings.  A       *)
(* control the user changes pushes a command that sets the instrument and  *)
(* a query; the reply handler, in the reading thread, makes the control    *)
(* show what the instrument answers.  GTK then calls the control's         *)
(* callback as if the user had changed it; g_locked tells the callback     *)
(* that it was not the user.                                               *)
(*                                                                         *)
(* Three kinds of controls: menus (time/div, volts/div, trigger source and *)
(* coupling, and the channel toggles, menus of two), arrows with a label   *)
(* (offset, trigger delay), and the trigger level with slider and label.   *)
(* Each callback runs with the GDK lock and is one step.  The queue is     *)
(* what CommandService promises: the head goes out, a query stays at the   *)
(* head until its handler is done.                                         *)
(***************************************************************************)
EXTENDS Integers, Sequences

CONSTANTS
  Menus,           \* the option menus and toggles
  Values,          \* per menu: its entries
  Tsrc,            \* the menu of trigger sources
  VdivOf,          \* per trigger source that is a channel: its volts/div menu
  ExtScale,        \* the scale of the level for the other sources
  Arrows, UnitOf,  \* the labels with arrows, the menu each takes its step from
  Guarded,         \* the arrows whose callback looks at g_locked
  Level,           \* the trigger level
  MaxPos,          \* end of the slider
  Exact,           \* numbers this big lose their last digit in a label
  InitialQueries,  \* what gui_connect asks, in this order
  Settings,        \* the instrument's settings to begin with
  MaxActs,         \* bound: what the user does
  Hasty            \* may the user act inside the few statements of a handler
                   \* where g_locked makes callbacks return at once?

Controls == Menus \cup Arrows \cup {Level}

ASSUME WidgetsAssumption ==
  /\ Arrows \cap Menus = {} /\ Level \notin Menus \cup Arrows
  /\ Tsrc \in Menus /\ Values \in [Menus -> SUBSET Int]
  /\ \A m \in Menus : \E v \in Values[m] : \A w \in Values[m] : v <= w
  /\ 1 \in DOMAIN VdivOf /\ VdivOf \in [DOMAIN VdivOf -> Menus]
  /\ \A s \in DOMAIN VdivOf : \A v \in Values[VdivOf[s]] : v > 0
  /\ ExtScale \in Nat \ {0}
  /\ UnitOf \in [Arrows -> Menus] /\ Guarded \subseteq Arrows
  /\ MaxPos \in Nat /\ Exact \in Nat /\ MaxActs \in Nat /\ Hasty \in BOOLEAN
  /\ InitialQueries \in Seq(Controls)
  /\ \A c \in Controls : \E k \in DOMAIN InitialQueries : InitialQueries[k] = c
  /\ Settings \subseteq [Controls -> Int]

VARIABLES
  shown,      \* what each control shows; for Level its label
  slider,     \* position of the slider
  dragging,   \* the user holds the slider
  scope,      \* instrument: its settings
  queue,      \* the commands pushed and not done
  locked,     \* g_locked
  rdr,        \* the reading thread: "idle", or where it is in a handler
  new,        \* handler: what it is about to set, its local variables
  asked,      \* number of queries gui_connect has pushed
  acts,       \* number of user actions
  wish,       \* history: per control what the user sent last
  refused,    \* history: the controls where the instrument would not have it
  goal,       \* history: per arrows where the clicks together lead
  rushed      \* history: the arrows that were clicked while their label did not
              \* show the instrument's setting or a command for them was queued

userVars == <<dragging, acts, goal, rushed>>
handlerVars == <<locked, rdr, new>>
historyVars == <<wish, refused>>
vars == <<shown, slider, scope, queue, asked, userVars, handlerVars, historyVars>>

Init ==
  /\ scope \in Settings
  /\ shown = [c \in Controls |-> IF c \in Menus THEN CHOOSE v \in Values[c] : \A w \in Values[c] : v <= w
                                                ELSE 0]
  /\ slider = 0 /\ dragging = FALSE
  /\ queue = <<>> /\ asked = 0 /\ acts = 0
  /\ locked = FALSE /\ rdr = "idle" /\ new = [val |-> 0, pos |-> 0]
  /\ wish = scope /\ refused = {} /\ goal = [a \in Arrows |-> scope[a]] /\ rushed = {}

(***************************************************************************)
(* Numbers                                                                 *)
(***************************************************************************)

\* nb_eng with its three digits, read again by nb_engtod.
Label(v) ==
  CASE v >= Exact -> ((v + 5) \div 10) * 10
    [] v <= -Exact -> -(((5 - v) \div 10) * 10)
    [] OTHER -> v

\* Level per position, for the trigger source shown: four divisions of its
\* channel, or the range of an external input.
Scale ==
  IF shown[Tsrc] \in DOMAIN VdivOf THEN shown[VdivOf[shown[Tsrc]]] ELSE ExtScale

\* The same as cbk_scl computes it: with the first channel for all four.
DragScale == IF shown[Tsrc] \in DOMAIN VdivOf THEN shown[VdivOf[1]] ELSE ExtScale

\* gtk_range_set_value keeps to the ends of the slider.
Clamp(p) == IF p > MaxPos THEN MaxPos ELSE IF p < 0 THEN 0 ELSE p

(***************************************************************************)
(* The GTK thread                                                          *)
(***************************************************************************)
Set(c, v) == [op |-> "set", ctl |-> c, val |-> v]
Query(c) == [op |-> "query", ctl |-> c, val |-> 0]

\* Mutation of Request: the query is pushed first.
RequestAskedFirst(c, v) == queue' = queue \o <<Query(c), Set(c, v)>>

\* Set the instrument, ask what it made of it.
Request(c, v) == queue' = queue \o <<Set(c, v), Query(c)>>

\* The same at the user's wish.
UserRequest(c, v) == Request(c, v) /\ wish' = [wish EXCEPT ![c] = v]

\* The user does something with a control, whose callback may look at
\* g_locked.  The controls are insensitive until gui_connect has pushed its
\* queries; the replies to them may still be to come.
UserActs(looks) ==
  /\ asked = Len(InitialQueries)
  /\ acts < MaxActs
  /\ looks => Hasty \/ ~locked
  /\ acts' = acts + 1
  /\ UNCHANGED <<scope, asked, handlerVars, refused>>

\* cbk_optacn, cbk_tglacn: the control has changed already.
PickValue(m, v) ==
  /\ UserActs(TRUE)
  /\ shown[m] # v
  /\ shown' = [shown EXCEPT ![m] = v]
  /\ IF locked THEN UNCHANGED <<queue, wish>> ELSE UserRequest(m, v)
  /\ UNCHANGED <<slider, dragging, goal, rushed>>

\* The control shows the instrument's setting and nothing is under way for it.
Settled(c) ==
  /\ shown[c] = scope[c]
  /\ \A k \in DOMAIN queue : queue[k].ctl # c

\* The clicks on an arrow, as the user counts them: from the setting if it has
\* settled, from where the last click led otherwise.
CountClick(a, step) ==
  /\ goal' = [goal EXCEPT ![a] = (IF Settled(a) THEN scope[a] ELSE @) + step]
  /\ rushed' = IF Settled(a) THEN rushed ELSE rushed \cup {a}

\* Mutation of ClickArrow: the number is sent as the label shows it.
ClickArrowRounded(a, sign) ==
  /\ UserActs(a \in Guarded)
  /\ LET step == sign * shown[UnitOf[a]]
         v == Label(shown[a] + step)
     IN /\ IF locked /\ a \in Guarded
             THEN UNCHANGED <<shown, queue, wish>>
             ELSE shown' = [shown EXCEPT ![a] = v] /\ UserRequest(a, v)
        /\ CountClick(a, step)
  /\ UNCHANGED <<slider, dragging>>

\* cbk_btnrlsofst, cbk_usracn: the number in the label, a step up or down.
ClickArrow(a, sign) ==
  /\ UserActs(a \in Guarded)
  /\ LET step == sign * shown[UnitOf[a]]
         v == shown[a] + step
     IN /\ IF locked /\ a \in Guarded
             THEN UNCHANGED <<shown, queue, wish>>
             ELSE shown' = [shown EXCEPT ![a] = Label(v)] /\ UserRequest(a, v)
        /\ CountClick(a, step)
  /\ UNCHANGED <<slider, dragging>>

\* cbk_scl: the slider moves, the label follows, nothing is sent.
Drag(p) ==
  /\ UserActs(TRUE)
  /\ dragging' = TRUE
  /\ slider' = p
  /\ shown' = IF locked \/ p = slider THEN shown
                                      ELSE [shown EXCEPT ![Level] = Label(p * DragScale)]
  /\ UNCHANGED <<queue, wish, goal, rushed>>

\* cbk_usracn for the slider, when the mouse button is released.
Release ==
  /\ dragging
  /\ Hasty \/ ~locked
  /\ dragging' = FALSE
  /\ IF locked
       THEN UNCHANGED <<shown, queue, wish>>
       ELSE /\ shown' = [shown EXCEPT ![Level] = Label(slider * Scale)]
            /\ UserRequest(Level, slider * Scale)
  /\ UNCHANGED <<slider, scope, asked, acts, goal, rushed, handlerVars, refused>>

(***************************************************************************)
(* gui_connect: one query for every control.                               *)
(***************************************************************************)
AskNext ==
  /\ asked < Len(InitialQueries)
  /\ asked' = asked + 1
  /\ queue' = Append(queue, Query(InitialQueries[asked + 1]))
  /\ UNCHANGED <<shown, slider, scope, userVars, handlerVars, historyVars>>

(***************************************************************************)
(* The instrument (external) does what it is told, or keeps its setting.   *)
(***************************************************************************)
ScopeSet ==
  /\ queue # <<>>
  /\ Head(queue).op = "set"
  /\ LET c == Head(queue).ctl IN
       \/ scope' = [scope EXCEPT ![c] = Head(queue).val] /\ refused' = refused \ {c}
       \/ refused' = refused \cup {c} /\ UNCHANGED scope
  /\ queue' = Tail(queue)
  /\ UNCHANGED <<shown, slider, asked, userVars, handlerVars, wish>>

(***************************************************************************)
(* The reply handlers, in the reading thread.                              *)
(***************************************************************************)
Asked(c) == queue # <<>> /\ Head(queue) = Query(c) /\ rdr = "idle"

\* gui_tdiv, gui_vdiv, gui_tsrc, gui_tcpl: nothing in the menu matches.
NoMatch(m) ==
  /\ Asked(m)
  /\ scope[m] \notin Values[m]
  /\ queue' = Tail(queue)
  /\ UNCHANGED <<shown, slider, scope, asked, userVars, handlerVars, historyVars>>

\* Mutation of Lock: the flag is left alone.
NoLock == UNCHANGED locked

Lock == locked' = TRUE

\* Every handler: work out what to show from the reply, and for the level
\* from the controls as they are now, set g_locked, wait for the GDK lock.
Answered(c) ==
  /\ Asked(c)
  /\ c \in Menus => scope[c] \in Values[c]
  /\ new' = [val |-> IF c \in Menus THEN scope[c] ELSE Label(scope[c]),
             pos |-> IF c = Level THEN Clamp(scope[c] \div Scale) ELSE 0]
  /\ Lock
  /\ rdr' = "set"
  /\ UNCHANGED <<shown, slider, scope, queue, asked, userVars, historyVars>>

\* Set the control, under the GDK lock.  A menu or toggle that changes has its
\* callback called; labels have none, and the slider's sends nothing.
Update ==
  /\ rdr = "set"
  /\ LET c == Head(queue).ctl IN
       /\ shown' = [shown EXCEPT ![c] = new.val]
       /\ slider' = IF c = Level THEN new.pos ELSE slider
       /\ IF c \in Menus /\ new.val # shown[c] /\ ~locked
            THEN Request(c, new.val)
            ELSE UNCHANGED queue
  /\ rdr' = "unlock"
  /\ UNCHANGED <<scope, asked, userVars, locked, new, historyVars>>

\* g_locked is cleared, the handler returns, scp_read removes the query.
Unlock ==
  /\ rdr = "unlock"
  /\ locked' = FALSE
  /\ rdr' = "idle"
  /\ queue' = Tail(queue)
  /\ UNCHANGED <<shown, slider, scope, asked, userVars, new, historyVars>>

HandlerStep ==
  \/ \E m \in Menus : NoMatch(m)
  \/ \E c \in Controls : Answered(c)
  \/ Update
  \/ Unlock

Next ==
  \/ \E m \in Menus : \E v \in Values[m] : PickValue(m, v)
  \/ \E a \in Arrows, sign \in {1, -1} : ClickArrow(a, sign)
  \/ \E p \in 0 .. MaxPos : Drag(p)
  \/ Release
  \/ AskNext
  \/ ScopeSet
  \/ HandlerStep

\* The threads run and the instrument obeys; the user does as he likes.
Fairness == WF_vars(AskNext) /\ WF_vars(ScopeSet) /\ WF_vars(HandlerStep)

Spec == Init /\ [][Next]_vars /\ Fairness

(***************************************************************************)
(* Properties                                                              *)
(***************************************************************************)

\* Every variable has a value of its type, and g_locked is set exactly while
\* a handler is at work on a control.
TypeOK ==
  /\ shown \in [Controls -> Int] /\ scope \in [Controls -> Int] /\ wish \in [Controls -> Int]
  /\ \A m \in Menus : shown[m] \in Values[m]
  /\ slider \in 0 .. MaxPos /\ dragging \in BOOLEAN
  /\ queue \in Seq([op : {"set", "query"}, ctl : Controls, val : Int])
  /\ locked = (rdr # "idle") /\ rdr \in {"idle", "set", "unlock"}
  /\ new \in [val : Int, pos : 0 .. MaxPos]
  /\ asked \in 0 .. Len(InitialQueries) /\ acts \in 0 .. MaxActs
  /\ refused \subseteq Controls /\ goal \in [Arrows -> Int] /\ rushed \subseteq Arrows

\* Nothing is under way: every command is done and the slider is let go.
Quiet ==
  queue = <<>> /\ rdr = "idle" /\ ~dragging /\ asked = Len(InitialQueries)

\* When nothing is under way every control shows the instrument's setting,
\* also one the instrument would not change; a setting that is not in the
\* menu cannot be shown.
InSync ==
  /\ TypeOK
  /\ Quiet =>
       /\ \A m \in Menus : scope[m] \in Values[m] => shown[m] = scope[m]
       /\ \A c \in Controls \ Menus : shown[c] = Label(scope[c])

\* When nothing is under way the instrument has, for every control, what the
\* user chose last: no reply to an earlier query, and no callback such a reply
\* caused, has overridden it.
LastWish == Quiet => \A c \in Controls \ refused : scope[c] = wish[c]

\* User and replies do not keep each other busy: all that was pushed gets done.
Settles == (queue # <<>>) ~> (queue = <<>>)

\* "Change value by +/- vdiv/10" (cbk.c 511): every click on an arrow changes
\* the setting by a step and not by what the label rounds it to, if the user
\* waits for the reply to his last click.  Without that a click can be lost:
\* the reply to an earlier one puts an old number back into the label.
ClicksCount ==
  Quiet => \A a \in Arrows \ (refused \cup rushed) : scope[a] = goal[a]

================================================================================
