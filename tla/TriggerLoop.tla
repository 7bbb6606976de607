----------------------------- MODULE TriggerLoop -----------------------------
(***************************************************************************)
(* One connection seen from gui.c and cbk.c: the plotting thread           *)
(* gui_loopplot, the GTK thread with its trigger mode buttons and its      *)
(* Disconnect item, the reading thread while it runs gui_trg or a reply    *)
(* handler, and the instrument's service requests (external).              *)
(*                                                                         *)
(* The threads meet at the GDK lock, at the condition cndloopplot (which   *)
(* has no predicate: a signal nobody waits for is lost), at the flags      *)
(* plotkill, readkill and g_locked, and at the radio buttons.  The command *)
(* queue is reduced to the number of arming commands in it; ScpQueue shows *)
(* that commands reach the instrument in order.                            *)
(***************************************************************************)
EXTENDS Naturals

CONSTANTS
  MaxClicks,   \* bound: clicks on the mode buttons
  MaxReplies,  \* bound: replies under way at a time
  Hasty,       \* may a click or a trigger fall into the few statements between
               \* gui_loopplot's look at the mode and its wait, or a click into
               \* a reply handler?
  Spurious     \* does pthread_cond_wait ever return on its own?

ASSUME LoopAssumption ==
  /\ MaxClicks \in Nat
  /\ MaxReplies \in Nat
  /\ Hasty \in BOOLEAN
  /\ Spurious \in BOOLEAN

VARIABLES
  radio,     \* the active trigger mode button
  gtk,       \* GTK thread: "loop", "join" (gui_loopplot), "destroy", "off"
  plot,      \* gui_loopplot: place in the loop
  trmd,      \* gui_loopplot: the mode it read
  rdr,       \* scp_read: place in the loop and in the handler
  plotkill, readkill,
  locked,    \* g_locked
  arms,      \* "*cls; tese 1; *sre 1; trmd single" commands in the queue
  armed,     \* instrument: will raise a service request when it triggers
  srq,       \* service requests on the wire
  replies,   \* replies to settings on the wire
  clicks     \* clicks on the mode buttons so far

plotVars == <<plot, trmd>>
gtkVars == <<gtk, radio, clicks, plotkill, readkill>>
rdrVars == <<rdr, locked>>
wireVars == <<arms, armed, srq, replies>>
vars == <<plotVars, gtkVars, rdrVars, wireVars>>

Modes == {"AUTO", "NORMAL", "SINGLE", "STOP"}

Init ==
  /\ radio = "NORMAL" /\ trmd = "NORMAL"
  /\ gtk = "loop" /\ plot = "top" /\ rdr = "top"
  /\ plotkill = FALSE /\ readkill = FALSE /\ locked = FALSE
  /\ arms = 0 /\ armed = FALSE /\ srq = 0 /\ replies = 0 /\ clicks = 0

\* Mutation of GdkFree: the lock is held during scp_destroy too.
GdkHeldInDestroy == gtk \notin {"join", "destroy"}

\* The GDK lock.  Only gui_disconnect keeps it across a blocking call: it
\* joins the plotting thread with it, and gives it back for scp_destroy.
\* Every other critical section is one step.
GdkFree == gtk # "join"

\* Mutation of SignalPlot: the signal is forgotten.
SignalNobody == UNCHANGED plot

\* pthread_cond_signal(cndloopplot)
SignalPlot == plot' = IF plot = "waiting" THEN "woken" ELSE plot

(***************************************************************************)
(* gui_loopplot                                                            *)
(***************************************************************************)

\* Mutation of PTop: plotkill is not tested.
PTopForever ==
  /\ plot = "top"
  /\ plot' = "mode"
  /\ UNCHANGED <<trmd, gtkVars, rdrVars, wireVars>>

\* while (!plotkill)
PTop ==
  /\ plot = "top"
  /\ plot' = IF plotkill THEN "done" ELSE "mode"
  /\ UNCHANGED <<trmd, gtkVars, rdrVars, wireVars>>

\* Look at the buttons, under the GDK lock.
PMode ==
  /\ plot = "mode"
  /\ GdkFree
  /\ trmd' = radio
  /\ plot' = "act"
  /\ UNCHANGED <<gtkVars, rdrVars, wireVars>>

\* AUTO: push the commands for a screenshot, sleep GUI_PLTM.
PActAuto ==
  /\ plot = "act"
  /\ trmd = "AUTO"
  /\ plot' = "sleep"
  /\ UNCHANGED <<trmd, gtkVars, rdrVars, wireVars>>

\* NORMAL, SINGLE: push the arming command, then wait.
PActArm ==
  /\ plot = "act"
  /\ trmd \in {"NORMAL", "SINGLE"}
  /\ arms' = arms + 1
  /\ plot' = "towait"
  /\ UNCHANGED <<trmd, gtkVars, rdrVars, armed, srq, replies>>

\* STOP: wait.
PActStop ==
  /\ plot = "act"
  /\ trmd = "STOP"
  /\ plot' = "towait"
  /\ UNCHANGED <<trmd, gtkVars, rdrVars, wireVars>>

\* The end of usleep(GUI_PLTM).
PSlept ==
  /\ plot = "sleep"
  /\ plot' = "top"
  /\ UNCHANGED <<trmd, gtkVars, rdrVars, wireVars>>

\* pthread_cond_wait, entered without testing anything.
PWait ==
  /\ plot = "towait"
  /\ plot' = "waiting"
  /\ UNCHANGED <<trmd, gtkVars, rdrVars, wireVars>>

\* The wait is over; SINGLE goes on to switch the buttons to STOP.
PWoken ==
  /\ plot = "woken"
  /\ plot' = IF trmd = "SINGLE" THEN "setstop" ELSE "top"
  /\ UNCHANGED <<trmd, gtkVars, rdrVars, wireVars>>

\* gtk_toggle_button_set_active(rdostop), under the GDK lock.
PSetStop ==
  /\ plot = "setstop"
  /\ GdkFree
  /\ radio' = "STOP"
  /\ plot' = "top"
  /\ UNCHANGED <<trmd, gtk, clicks, plotkill, readkill, rdrVars, wireVars>>

PlotStep ==
  PTop \/ PMode \/ PActAuto \/ PActArm \/ PActStop \/ PSlept \/ PWait \/ PWoken \/ PSetStop

\* pthread_cond_wait may return on its own; the bound on it is that the arming
\* commands and service requests of the last time are dealt with.
PSpurious ==
  /\ Spurious
  /\ arms = 0 /\ srq = 0
  /\ plot = "waiting"
  /\ plot' = "woken"
  /\ UNCHANGED <<trmd, gtkVars, rdrVars, wireVars>>

(***************************************************************************)
(* The GTK thread                                                          *)
(***************************************************************************)

\* The user finds the program at rest.
AtRest == plot \in {"waiting", "sleep"} /\ ~locked

\* A click on a mode button: GTK makes it active, then cbk_tglacn signals the
\* plotting thread, unless a reply handler has locked the callbacks.
SelectMode(m) ==
  /\ gtk = "loop"
  /\ clicks < MaxClicks
  /\ Hasty \/ AtRest
  /\ clicks' = clicks + 1
  /\ radio' = m
  /\ IF locked THEN UNCHANGED plot ELSE SignalPlot
  /\ UNCHANGED <<trmd, gtk, plotkill, readkill, rdrVars, wireVars>>

\* Any other control pushes a setting and a query whose reply sets the control.
TouchControl ==
  /\ gtk = "loop"
  /\ ~locked
  /\ replies < MaxReplies
  /\ replies' = replies + 1
  /\ UNCHANGED <<plotVars, gtkVars, rdrVars, arms, armed, srq>>

\* gui_disconnect up to the join of the plotting thread: the lock is kept.
Disconnect ==
  /\ gtk = "loop"
  /\ Hasty \/ AtRest
  /\ plotkill' = TRUE
  /\ SignalPlot
  /\ gtk' = "join"
  /\ UNCHANGED <<trmd, radio, clicks, readkill, rdrVars, wireVars>>

\* The join returns; the lock is released and scp_destroy called.
Joined ==
  /\ gtk = "join"
  /\ plot = "done"
  /\ gtk' = "destroy"
  /\ readkill' = TRUE
  /\ UNCHANGED <<plotVars, radio, clicks, plotkill, rdrVars, wireVars>>

\* scp_destroy has joined the reading thread; back under the lock, go offline.
Destroyed ==
  /\ gtk = "destroy"
  /\ rdr = "done"
  /\ gtk' = "off"
  /\ UNCHANGED <<plotVars, radio, clicks, plotkill, readkill, rdrVars, wireVars>>

(***************************************************************************)
(* The reading thread                                                      *)
(***************************************************************************)

RTop ==
  /\ rdr = "top"
  /\ rdr' = IF readkill THEN "done" ELSE "read"
  /\ UNCHANGED <<plotVars, gtkVars, locked, wireVars>>

\* A reply comes in; its handler sets g_locked before it has the GDK lock.
RReply ==
  /\ rdr = "read"
  /\ replies > 0
  /\ replies' = replies - 1
  /\ locked' = TRUE
  /\ rdr' = "reply"
  /\ UNCHANGED <<plotVars, gtkVars, arms, armed, srq>>

\* The control is set, under the GDK lock.
RUpdate ==
  /\ rdr = "reply"
  /\ GdkFree
  /\ rdr' = "unlock"
  /\ UNCHANGED <<plotVars, gtkVars, locked, wireVars>>

RUnlock ==
  /\ rdr = "unlock"
  /\ locked' = FALSE
  /\ rdr' = "top"
  /\ UNCHANGED <<plotVars, gtkVars, wireVars>>

\* A service request comes in: gui_trg.
RTrg ==
  /\ rdr = "read"
  /\ srq > 0
  /\ srq' = srq - 1
  /\ rdr' = "ledon"
  /\ UNCHANGED <<plotVars, gtkVars, locked, arms, armed, replies>>

\* LED on, then the commands for a screenshot and the 100 ms of blinking.
RLedOn ==
  /\ rdr = "ledon"
  /\ GdkFree
  /\ rdr' = "ledoff"
  /\ UNCHANGED <<plotVars, gtkVars, locked, wireVars>>

RLedOff ==
  /\ rdr = "ledoff"
  /\ GdkFree
  /\ Hasty \/ plot # "towait"
  /\ rdr' = "signal"
  /\ UNCHANGED <<plotVars, gtkVars, locked, wireVars>>

\* "Tasty! I'll get another one!"
RSignal ==
  /\ rdr = "signal"
  /\ SignalPlot
  /\ rdr' = "top"
  /\ UNCHANGED <<trmd, gtkVars, locked, wireVars>>

ReaderStep == RTop \/ RReply \/ RUpdate \/ RUnlock \/ RTrg \/ RLedOn \/ RLedOff \/ RSignal

(***************************************************************************)
(* The instrument (external): an arming command clears its event register, *)
(* the next trigger sets it and raises one service request.                *)
(***************************************************************************)
ScopeArm ==
  /\ arms > 0
  /\ arms' = arms - 1
  /\ armed' = TRUE
  /\ UNCHANGED <<plotVars, gtkVars, rdrVars, srq, replies>>

ScopeTrigger ==
  /\ armed
  /\ armed' = FALSE
  /\ srq' = srq + 1
  /\ UNCHANGED <<plotVars, gtkVars, rdrVars, arms, replies>>

Next ==
  \/ PlotStep
  \/ PSpurious
  \/ \E m \in Modes : SelectMode(m)
  \/ TouchControl
  \/ Disconnect
  \/ Joined
  \/ Destroyed
  \/ ReaderStep
  \/ ScopeArm
  \/ ScopeTrigger

\* Threads run, the queue drains; the user and the triggers do as they like.
Fairness ==
  /\ WF_vars(PlotStep)
  /\ WF_vars(ReaderStep)
  /\ WF_vars(Joined)
  /\ WF_vars(Destroyed)
  /\ WF_vars(ScopeArm)

Spec == Init /\ [][Next]_vars /\ Fairness

(***************************************************************************)
(* Properties                                                              *)
(***************************************************************************)

\* Every variable has a value of its type.
TypeOK ==
  /\ radio \in Modes /\ trmd \in Modes
  /\ gtk \in {"loop", "join", "destroy", "off"}
  /\ plot \in {"top", "mode", "act", "sleep", "towait", "waiting", "woken", "setstop", "done"}
  /\ rdr \in {"top", "read", "reply", "unlock", "ledon", "ledoff", "signal", "done"}
  /\ plotkill \in BOOLEAN /\ readkill \in BOOLEAN /\ locked \in BOOLEAN
  /\ armed \in BOOLEAN
  /\ arms \in Nat /\ srq \in Nat /\ replies \in Nat /\ clicks \in Nat

\* In NORMAL mode the plotting thread asks for the next trigger after each one
\* ("Tasty! I'll get another one!").
Rearms ==
  (rdr = "signal" /\ radio = "NORMAL") ~>
    (plot = "towait" \/ radio # "NORMAL" \/ gtk # "loop")

\* In AUTO mode the plotting thread keeps asking for screenshots.
AutoPlots ==
  (radio = "AUTO") ~> (plot = "sleep" \/ radio # "AUTO" \/ gtk # "loop")

\* Disconnecting ends the plotting thread, if it is not in its SINGLE branch.
DisconnectStopsPlot == (gtk = "join" /\ trmd # "SINGLE") ~> (gtk # "join")

\* While scp_destroy waits for the reading thread, the handler that thread is
\* in gets the GDK lock and finishes.
HandlersFinish == (gtk = "destroy" /\ rdr # "read") ~> (gtk = "off")

\* "Quit plotting thread if it was running": the join returns.
PlotQuits == (gtk = "join") ~> (gtk # "join")

=============================================================================
