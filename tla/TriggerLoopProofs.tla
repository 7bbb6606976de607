-------------------------- MODULE TriggerLoopProofs --------------------------
(***************************************************************************)
(* Proofs about TriggerLoop, for any number of clicks and replies, with or *)
(* without spurious wake-ups.                                              *)
(***************************************************************************)
EXTENDS TriggerLoop, TLAPS


(***************************************************************************)
(* Types                                                                   *)
(***************************************************************************)

\* A signal leaves the plotting thread at one of its places.
LEMMA SignalTyped ==
  ASSUME TypeOK, SignalPlot
  PROVE  plot' \in {"top", "mode", "act", "sleep", "towait", "waiting", "woken", "setstop", "done"}
BY DEF TypeOK, SignalPlot

\* The plotting thread's steps keep the types.
LEMMA PlotTyped == TypeOK /\ (PlotStep \/ PSpurious) => TypeOK'
<1> SUFFICES ASSUME TypeOK, PlotStep \/ PSpurious PROVE TypeOK'
  OBVIOUS
<1> USE DEF TypeOK, Modes, gtkVars, rdrVars, wireVars
<1>1. CASE PTop
  BY <1>1 DEF PTop
<1>2. CASE PMode
  BY <1>2 DEF PMode
<1>3. CASE PActAuto \/ PActArm \/ PActStop
  BY <1>3 DEF PActAuto, PActArm, PActStop
<1>4. CASE PSlept \/ PWait \/ PWoken
  BY <1>4 DEF PSlept, PWait, PWoken
<1>5. CASE PSetStop
  BY <1>5 DEF PSetStop
<1>6. CASE PSpurious
  BY <1>6 DEF PSpurious
<1> QED
  BY <1>1, <1>2, <1>3, <1>4, <1>5, <1>6 DEF PlotStep

\* The GTK thread's steps keep the types.
LEMMA GtkTyped ==
  TypeOK /\ ((\E m \in Modes : SelectMode(m)) \/ TouchControl \/ Disconnect \/ Joined \/ Destroyed)
    => TypeOK'
<1> SUFFICES ASSUME TypeOK,
                    (\E m \in Modes : SelectMode(m)) \/ TouchControl \/ Disconnect \/ Joined \/ Destroyed
             PROVE  TypeOK'
  OBVIOUS
<1>1. ASSUME NEW m \in Modes, SelectMode(m) PROVE TypeOK'
  <2>1. plot' \in {"top", "mode", "act", "sleep", "towait", "waiting", "woken", "setstop", "done"}
    BY <1>1, SignalTyped DEF SelectMode, TypeOK
  <2> QED
    BY <1>1, <2>1 DEF SelectMode, TypeOK, rdrVars, wireVars
<1>2. CASE TouchControl
  BY <1>2 DEF TouchControl, TypeOK, plotVars, gtkVars, rdrVars
<1>3. CASE Disconnect
  BY <1>3, SignalTyped DEF Disconnect, TypeOK, rdrVars, wireVars
<1>4. CASE Joined
  BY <1>4 DEF Joined, TypeOK, plotVars, rdrVars, wireVars
<1>5. CASE Destroyed
  BY <1>5 DEF Destroyed, TypeOK, plotVars, rdrVars, wireVars
<1> QED
  BY <1>1, <1>2, <1>3, <1>4, <1>5

\* The reading thread's and the instrument's steps keep the types.
LEMMA ReaderTyped == TypeOK /\ (ReaderStep \/ ScopeArm \/ ScopeTrigger) => TypeOK'
<1> SUFFICES ASSUME TypeOK, ReaderStep \/ ScopeArm \/ ScopeTrigger PROVE TypeOK'
  OBVIOUS
<1> USE DEF TypeOK, plotVars, gtkVars, rdrVars, wireVars
<1>1. CASE RTop \/ RUpdate \/ RUnlock
  BY <1>1 DEF RTop, RUpdate, RUnlock
<1>2. CASE RReply
  <2>1. replies' \in Nat
    BY <1>2 DEF RReply
  <2> QED
    BY <1>2, <2>1 DEF RReply
<1>6. CASE RTrg
  <2>1. srq' \in Nat
    BY <1>6 DEF RTrg
  <2> QED
    BY <1>6, <2>1 DEF RTrg
<1>3. CASE RLedOn \/ RLedOff
  BY <1>3 DEF RLedOn, RLedOff
<1>4. CASE RSignal
  BY <1>4, SignalTyped DEF RSignal
<1>5. CASE ScopeArm
  <2>1. arms' \in Nat
    BY <1>5 DEF ScopeArm
  <2> QED
    BY <1>5, <2>1 DEF ScopeArm
<1>7. CASE ScopeTrigger
  <2>1. srq' \in Nat
    BY <1>7 DEF ScopeTrigger
  <2> QED
    BY <1>7, <2>1 DEF ScopeTrigger
<1> QED
  BY <1>1, <1>2, <1>3, <1>4, <1>5, <1>6, <1>7 DEF ReaderStep

\* The places of the three threads, their flags and the counts are what the
\* code has; no service request or reply is taken that was not sent.
THEOREM TypeCorrect == Spec => []TypeOK
<1>1. Init => TypeOK
  <2>1. 0 \in Nat
    OBVIOUS
  <2> QED
    BY <2>1, Zenon DEF Init, TypeOK, Modes
<1>2. TypeOK /\ [Next]_vars => TypeOK'
  <2>1. ASSUME TypeOK, Next PROVE TypeOK'
    BY <2>1, PlotTyped, GtkTyped, ReaderTyped DEF Next
  <2>2. ASSUME TypeOK, UNCHANGED vars PROVE TypeOK'
    BY <2>2 DEF TypeOK, vars, plotVars, gtkVars, rdrVars, wireVars
  <2> QED
    BY <2>1, <2>2
<1> QED
  BY <1>1, <1>2, PTL DEF Spec

(***************************************************************************)
(* The join with the GDK lock held                                         *)
(***************************************************************************)

\* Outside SINGLE the thread gui_disconnect joins with the GDK lock held never
\* waits for that lock: the safety half of DisconnectStopsPlot.
NobodyWants == gtk = "join" /\ trmd # "SINGLE" => plot \notin {"mode", "setstop"}

\* Inductive: once plotkill is set the plotting thread only has the way to its
\* end before it, and it ends before the join does.
JoinInv ==
  /\ gtk # "loop" => plotkill = TRUE
  /\ gtk = "join" => plot \in {"sleep", "woken", "top", "done", "setstop"}
  /\ plot = "setstop" => trmd = "SINGLE"
  /\ gtk \in {"destroy", "off"} => plot = "done"

\* The plotting thread's steps keep it.
LEMMA PlotJoin == JoinInv /\ (PlotStep \/ PSpurious) => JoinInv'
<1> SUFFICES ASSUME JoinInv, PlotStep \/ PSpurious PROVE JoinInv'
  OBVIOUS
<1> USE DEF JoinInv, gtkVars
<1>1. CASE PTop
  BY <1>1 DEF PTop
<1>2. CASE PMode
  BY <1>2 DEF PMode, GdkFree
<1>3. CASE PActAuto \/ PActArm \/ PActStop
  BY <1>3 DEF PActAuto, PActArm, PActStop
<1>4. CASE PSlept \/ PWait \/ PWoken
  BY <1>4 DEF PSlept, PWait, PWoken
<1>5. CASE PSetStop
  BY <1>5 DEF PSetStop, GdkFree
<1>6. CASE PSpurious
  BY <1>6 DEF PSpurious
<1> QED
  BY <1>1, <1>2, <1>3, <1>4, <1>5, <1>6 DEF PlotStep

\* The GTK thread's steps keep it, if the user finds the program at rest.
LEMMA GtkJoin ==
  ASSUME ~Hasty, JoinInv,
         (\E m \in Modes : SelectMode(m)) \/ TouchControl \/ Disconnect \/ Joined \/ Destroyed
  PROVE  JoinInv'
<1> USE DEF JoinInv
<1>1. ASSUME NEW m \in Modes, SelectMode(m) PROVE JoinInv'
  BY <1>1 DEF SelectMode, SignalPlot
<1>2. CASE TouchControl
  BY <1>2 DEF TouchControl, plotVars, gtkVars
<1>3. CASE Disconnect
  BY <1>3 DEF Disconnect, SignalPlot, AtRest
<1>4. CASE Joined
  BY <1>4 DEF Joined, plotVars
<1>5. CASE Destroyed
  BY <1>5 DEF Destroyed, plotVars
<1> QED
  BY <1>1, <1>2, <1>3, <1>4, <1>5

\* The reading thread's and the instrument's steps keep it.
LEMMA ReaderJoin == JoinInv /\ (ReaderStep \/ ScopeArm \/ ScopeTrigger) => JoinInv'
<1> SUFFICES ASSUME JoinInv, ReaderStep \/ ScopeArm \/ ScopeTrigger PROVE JoinInv'
  OBVIOUS
<1>1. CASE RSignal
  BY <1>1 DEF RSignal, SignalPlot, JoinInv, gtkVars
<1>2. CASE UNCHANGED <<plot, trmd, gtk, plotkill>>
  BY <1>2 DEF JoinInv
<1>3. RSignal \/ UNCHANGED <<plot, trmd, gtk, plotkill>>
  BY DEF ReaderStep, RTop, RReply, RUpdate, RUnlock, RTrg, RLedOn, RLedOff,
         ScopeArm, ScopeTrigger, plotVars, gtkVars
<1> QED
  BY <1>1, <1>2, <1>3

\* "Quit plotting thread if it was running" (gui.c 1568): outside SINGLE the
\* join is never part of a circle of waits over the GDK lock, for any number
\* of clicks, triggers and spurious wake-ups.
THEOREM NoCircle == ASSUME ~Hasty PROVE Spec => []NobodyWants
<1>1. Init => JoinInv
  BY DEF Init, JoinInv
<1>2. JoinInv /\ [Next]_vars => JoinInv'
  <2>1. ASSUME JoinInv, Next PROVE JoinInv'
    BY <2>1, PlotJoin, GtkJoin, ReaderJoin DEF Next
  <2>2. ASSUME JoinInv, UNCHANGED vars PROVE JoinInv'
    BY <2>2 DEF JoinInv, vars, plotVars, gtkVars
  <2> QED
    BY <2>1, <2>2
<1>3. JoinInv => NobodyWants
  BY DEF JoinInv, NobodyWants
<1> QED
  BY <1>1, <1>2, <1>3, PTL DEF Spec

==============================================================================
