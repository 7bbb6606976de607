-------------------------------- MODULE Session --------------------------------
(***************************************************************************)
(* Connections come and go: the thread gui_connect, started by main, by    *)
(* the Connect item and by the preferences window; gui_disconnect in the   *)
(* GTK thread; gui->scp and the pointers of the channels, which the        *)
(* controls, the plotting thread and gui_trg follow; the thread ids that   *)
(* are joined; the sensitivity of menu items and controls.                 *)
(*                                                                         *)
(* A scope is the rank of its scp_new; 0 is NULL.  A place in a program is *)
(* a string.  What plotting and reading threads do for their living is in  *)
(* TriggerLoop and ScpQueue: here they follow gui->scp and end when they   *)
(* are told to.  scp_write, which nobody ends, is in ScpQueue.             *)
(***************************************************************************)
EXTENDS Naturals, FiniteSets

CONSTANTS
  MaxConnects,   \* bound: threads gui_connect started
  Patient,       \* does the user wait until no gui_connect is running?
  FreshIds,      \* are the ids of joined threads never given to new ones?
  EarlyTrigger   \* may a service request come in before gui->scp is set?

ASSUME SessionAssumption ==
  /\ MaxConnects \in Nat \ {0}
  /\ Patient \in BOOLEAN /\ FreshIds \in BOOLEAN /\ EarlyTrigger \in BOOLEAN

VARIABLES
  role,        \* per thread id: "none" (never used), "conn", "plot", "read"
  pc,          \* per thread id: "free", a place, "ended" (and not yet joined)
  own,         \* per thread id: the scope in its local variable
  connects,    \* number of threads gui_connect so far
  scopes,      \* number of scopes made so far
  alive,       \* scopes that are not freed
  readkill,    \* scopes whose readkill is set
  scp,         \* gui->scp and chls[].scp
  plotkill,
  thdloopplot, \* the id in gui->thdloopplot, 0 before there is one
  gtk,         \* GTK thread: "loop" or its place in gui_disconnect
  then,        \* what it does after gui_disconnect: "loop" or "connect"
  hasAddr,     \* is there an address in the preferences?
  itmconnect, itmdisconnect, controls,   \* are they sensitive?
  wild         \* has a NULL pointer or a freed scope been followed?

threadVars == <<role, pc, own, connects>>
scopeVars == <<scopes, alive, readkill>>
plotVars == <<plotkill, thdloopplot>>
gtkVars == <<gtk, then, hasAddr>>
menuVars == <<itmconnect, itmdisconnect, controls>>
vars == <<threadVars, scopeVars, scp, plotVars, gtkVars, menuVars, wild>>

\* Every gui_connect starts at most a plotting and a reading thread.
Ids == 1 .. 3 * MaxConnects

Scopes == 1 .. MaxConnects

Threads(r) == {t \in Ids : role[t] = r /\ pc[t] \notin {"free", "ended"}}

Connecting == Threads("conn") # {}

\* main starts gui_connect before the main loop.
Init ==
  /\ role = [t \in Ids |-> IF t = 1 THEN "conn" ELSE "none"]
  /\ pc = [t \in Ids |-> IF t = 1 THEN "addr" ELSE "free"]
  /\ own = [t \in Ids |-> 0]
  /\ connects = 1
  /\ scopes = 0 /\ alive = {} /\ readkill = {}
  /\ scp = 0
  /\ plotkill = FALSE /\ thdloopplot = 0
  /\ gtk = "loop" /\ then = "loop" /\ hasAddr \in BOOLEAN
  /\ itmconnect = TRUE /\ itmdisconnect = TRUE /\ controls = FALSE
  /\ wild = FALSE

(***************************************************************************)
(* Threads, pointers, the GDK lock                                         *)
(***************************************************************************)

\* Ids pthread_create may give to a new thread.
Available ==
  LET free == {t \in Ids : pc[t] = "free" /\ (FreshIds => role[t] = "none")}
  IN IF FreshIds THEN {t \in free : \A u \in free : t <= u} ELSE free

\* pthread_create of thread t, which begins at place p with scope s.
Create(t, r, p, s) ==
  /\ t \in Available
  /\ role' = [role EXCEPT ![t] = r]
  /\ own' = [own EXCEPT ![t] = s]
  /\ pc' = [pc EXCEPT ![t] = p]

\* The same by thread c, which goes on to place q.
CreateFrom(c, q, t, r, p, s) ==
  /\ t \in Available
  /\ role' = [role EXCEPT ![t] = r]
  /\ own' = [own EXCEPT ![t] = s, ![c] = s]
  /\ pc' = [pc EXCEPT ![t] = p, ![c] = q]

Goto(t, q) == pc' = [pc EXCEPT ![t] = q] /\ UNCHANGED <<role, own, connects>>

\* A thread follows a pointer to a scope.
Follow(s) == wild' = (s \notin alive)

\* gui_disconnect joins the plotting thread with the GDK lock held; every
\* other critical section is one step.
GdkFree == gtk # "joinplot"

(***************************************************************************)
(* gui_connect                                                             *)
(***************************************************************************)

\* Say so; no address, no connection.
CAddr(t) ==
  /\ role[t] = "conn" /\ pc[t] = "addr" /\ GdkFree
  /\ Goto(t, IF hasAddr THEN "new" ELSE "ended")
  /\ UNCHANGED <<scopeVars, scp, plotVars, gtkVars, menuVars, wild>>

\* scp_new succeeds and starts scp_read.
CNew(t) ==
  /\ role[t] = "conn" /\ pc[t] = "new"
  /\ scopes' = scopes + 1
  /\ alive' = alive \cup {scopes'}
  /\ \E r \in Available : CreateFrom(t, "menus", r, "read", "test", scopes')
  /\ UNCHANGED <<connects, readkill, scp, plotVars, gtkVars, menuVars, wild>>

CNewFails(t) ==
  /\ role[t] = "conn" /\ pc[t] = "new"
  /\ Goto(t, "fail")
  /\ UNCHANGED <<scopeVars, scp, plotVars, gtkVars, menuVars, wild>>

\* Mutation of CFail: the thread waits for its dialog.
CFailWaits(t) ==
  /\ role[t] = "conn" /\ pc[t] = "fail" /\ GdkFree
  /\ UNCHANGED vars

\* scp_destroy(NULL) does nothing; a dialog says that it did not work.
CFail(t) ==
  /\ role[t] = "conn" /\ pc[t] = "fail" /\ GdkFree
  /\ Goto(t, "ended")
  /\ UNCHANGED <<scopeVars, scp, plotVars, gtkVars, menuVars, wild>>

\* Mutation of CMenus: the Disconnect item is forgotten.
CMenusHalf(t) ==
  /\ role[t] = "conn" /\ pc[t] = "menus" /\ GdkFree
  /\ itmconnect' = FALSE
  /\ Goto(t, "publish")
  /\ UNCHANGED <<scopeVars, scp, plotVars, gtkVars, itmdisconnect, controls, wild>>

CMenus(t) ==
  /\ role[t] = "conn" /\ pc[t] = "menus" /\ GdkFree
  /\ itmconnect' = FALSE /\ itmdisconnect' = TRUE
  /\ Goto(t, "publish")
  /\ UNCHANGED <<scopeVars, scp, plotVars, gtkVars, controls, wild>>

CPublish(t) ==
  /\ role[t] = "conn" /\ pc[t] = "publish"
  /\ scp' = own[t]
  /\ Goto(t, "plot")
  /\ UNCHANGED <<scopeVars, plotVars, gtkVars, menuVars, wild>>

\* Mutation of CPlot: the plotting thread's id is not kept.
CPlotUnnamed(t) ==
  /\ role[t] = "conn" /\ pc[t] = "plot"
  /\ plotkill' = FALSE
  /\ \E p \in Available : CreateFrom(t, "push", p, "plot", "top", own[t])
  /\ UNCHANGED <<connects, scopeVars, scp, thdloopplot, gtkVars, menuVars, wild>>

CPlot(t) ==
  /\ role[t] = "conn" /\ pc[t] = "plot"
  /\ plotkill' = FALSE
  /\ \E p \in Available :
       CreateFrom(t, "push", p, "plot", "top", own[t]) /\ thdloopplot' = p
  /\ UNCHANGED <<connects, scopeVars, scp, gtkVars, menuVars, wild>>

\* The queries that fill the controls go to the thread's own scope.
CPush(t) ==
  /\ role[t] = "conn" /\ pc[t] = "push"
  /\ Follow(own[t])
  /\ Goto(t, "enable")
  /\ UNCHANGED <<scopeVars, scp, plotVars, gtkVars, menuVars>>

CEnable(t) ==
  /\ role[t] = "conn" /\ pc[t] = "enable" /\ GdkFree
  /\ controls' = TRUE
  /\ Goto(t, "ended")
  /\ UNCHANGED <<scopeVars, scp, plotVars, gtkVars, itmconnect, itmdisconnect, wild>>

ConnectStep(t) ==
  \/ CAddr(t) \/ CNew(t) \/ CNewFails(t) \/ CFail(t) \/ CMenus(t)
  \/ CPublish(t) \/ CPlot(t) \/ CPush(t) \/ CEnable(t)

(***************************************************************************)
(* The threads of a connection                                             *)
(***************************************************************************)

\* gui_loopplot pushes on gui->scp whenever it finds plotkill unset.
PTop(t) ==
  /\ role[t] = "plot" /\ pc[t] = "top"
  /\ Goto(t, IF plotkill THEN "ended" ELSE "push")
  /\ UNCHANGED <<scopeVars, scp, plotVars, gtkVars, menuVars, wild>>

PPush(t) ==
  /\ role[t] = "plot" /\ pc[t] = "push"
  /\ Follow(scp)
  /\ Goto(t, "top")
  /\ UNCHANGED <<scopeVars, scp, plotVars, gtkVars, menuVars>>

PlotStep(t) == PTop(t) \/ PPush(t)

\* scp_read tests readkill between two packets only; blocked in read() it
\* does not notice it.
RTest(t) ==
  /\ role[t] = "read" /\ pc[t] = "test"
  /\ Goto(t, IF own[t] \in readkill THEN "ended" ELSE "read")
  /\ UNCHANGED <<scopeVars, scp, plotVars, gtkVars, menuVars, wild>>

\* A reply comes and is handled.
RPacket(t) ==
  /\ role[t] = "read" /\ pc[t] = "read"
  /\ Goto(t, "test")
  /\ UNCHANGED <<scopeVars, scp, plotVars, gtkVars, menuVars, wild>>

\* A service request comes: gui_trg lights the LED under the GDK lock ...
RTrg(t) ==
  /\ role[t] = "read" /\ pc[t] = "read" /\ GdkFree
  /\ EarlyTrigger \/ scp = own[t]
  /\ Goto(t, "trg")
  /\ UNCHANGED <<scopeVars, scp, plotVars, gtkVars, menuVars, wild>>

\* ... and pushes on gui->scp, which need not be the scope it reads from.
RTrgPush(t) ==
  /\ role[t] = "read" /\ pc[t] = "trg"
  /\ Follow(scp)
  /\ Goto(t, "test")
  /\ UNCHANGED <<scopeVars, scp, plotVars, gtkVars, menuVars>>

ReadStep(t) == RTest(t) \/ RPacket(t) \/ RTrg(t) \/ RTrgPush(t)

(***************************************************************************)
(* The user                                                                *)
(***************************************************************************)
MayChoose == gtk = "loop" /\ (Patient => ~Connecting)

ChooseConnect ==
  /\ MayChoose /\ itmconnect /\ connects < MaxConnects
  /\ \E t \in Available : Create(t, "conn", "addr", 0)
  /\ connects' = connects + 1
  /\ UNCHANGED <<scopeVars, scp, plotVars, gtkVars, menuVars, wild>>

ChooseDisconnect ==
  /\ MayChoose /\ itmdisconnect
  /\ gtk' = "quitplot" /\ then' = "loop"
  /\ UNCHANGED <<threadVars, scopeVars, scp, plotVars, hasAddr, menuVars, wild>>

\* Mutation of PrefsConnect: the window connects without disconnecting.
PrefsConnectAtOnce(typed) ==
  /\ MayChoose /\ connects < MaxConnects
  /\ hasAddr' = (hasAddr \/ typed)
  /\ gtk' = "return" /\ then' = "connect"
  /\ UNCHANGED <<threadVars, scopeVars, scp, plotVars, menuVars, wild>>

\* The Connect button of the preferences window, with an address typed or the
\* entry left empty; it goes on in either case.
PrefsConnect(typed) ==
  /\ MayChoose /\ connects < MaxConnects
  /\ hasAddr' = (hasAddr \/ typed)
  /\ gtk' = "quitplot" /\ then' = "connect"
  /\ UNCHANGED <<threadVars, scopeVars, scp, plotVars, menuVars, wild>>

\* Touch a control: its callback pushes on the scope of its channel.
TouchControl ==
  /\ gtk = "loop" /\ controls
  /\ Follow(scp)
  /\ UNCHANGED <<threadVars, scopeVars, scp, plotVars, gtkVars, menuVars>>

(***************************************************************************)
(* gui_disconnect, with scp_destroy                                        *)
(***************************************************************************)
DQuitPlot ==
  /\ gtk = "quitplot"
  /\ IF scp = 0
       THEN gtk' = "update" /\ UNCHANGED plotkill
       ELSE gtk' = "joinplot" /\ plotkill' = TRUE
  /\ UNCHANGED <<threadVars, scopeVars, scp, thdloopplot, then, hasAddr, menuVars, wild>>

\* pthread_join waits for the thread and gives its id back.
DJoinPlot ==
  /\ gtk = "joinplot" /\ thdloopplot # 0
  /\ pc[thdloopplot] = "ended"
  /\ Goto(thdloopplot, "free")
  /\ gtk' = "quitread"
  /\ UNCHANGED <<scopeVars, scp, plotVars, then, hasAddr, menuVars, wild>>

\* pthread_join fails: "Already joined", nothing else is done.  Between the
\* publication of gui->scp and the start of the thread the id is not set.
DAlreadyJoined ==
  /\ gtk = "joinplot" /\ (thdloopplot # 0 => pc[thdloopplot] = "free")
  /\ wild' = (thdloopplot = 0)
  /\ gtk' = "return"
  /\ UNCHANGED <<threadVars, scopeVars, scp, plotVars, then, hasAddr, menuVars>>

\* Mutation of DQuitRead: only the writer is told to end.
DQuitWrite ==
  /\ gtk = "quitread"
  /\ Follow(scp)
  /\ gtk' = "joinread"
  /\ UNCHANGED <<threadVars, scopeVars, scp, plotVars, then, hasAddr, menuVars>>

\* scp_destroy sets the kill flags of the scope ...
DQuitRead ==
  /\ gtk = "quitread"
  /\ Follow(scp)
  /\ readkill' = readkill \cup {scp}
  /\ gtk' = "joinread"
  /\ UNCHANGED <<threadVars, scopes, alive, scp, plotVars, then, hasAddr, menuVars>>

\* ... joins its reading thread and frees it.  gui->scp keeps its value.
DFree ==
  /\ gtk = "joinread"
  /\ \E t \in Ids : role[t] = "read" /\ own[t] = scp /\ pc[t] = "ended" /\ Goto(t, "free")
  /\ alive' = alive \ {scp}
  /\ gtk' = "update"
  /\ UNCHANGED <<scopes, readkill, scp, plotVars, then, hasAddr, menuVars, wild>>

\* Mutation of DUpdate: the controls stay sensitive.
DUpdateItems ==
  /\ gtk = "update"
  /\ itmconnect' = TRUE /\ itmdisconnect' = FALSE
  /\ gtk' = "return"
  /\ UNCHANGED <<threadVars, scopeVars, scp, plotVars, then, hasAddr, controls, wild>>

DUpdate ==
  /\ gtk = "update"
  /\ controls' = FALSE /\ itmconnect' = TRUE /\ itmdisconnect' = FALSE
  /\ gtk' = "return"
  /\ UNCHANGED <<threadVars, scopeVars, scp, plotVars, then, hasAddr, wild>>

\* Back to the main loop, through pthread_create if it was the preferences.
DReturn ==
  /\ gtk = "return"
  /\ IF then = "connect"
       THEN (\E t \in Available : Create(t, "conn", "addr", 0)) /\ connects' = connects + 1
       ELSE UNCHANGED threadVars
  /\ gtk' = "loop" /\ then' = "loop"
  /\ UNCHANGED <<scopeVars, scp, plotVars, hasAddr, menuVars, wild>>

DisconnectStep ==
  \/ DQuitPlot \/ DJoinPlot \/ DAlreadyJoined
  \/ DQuitRead \/ DFree \/ DUpdate \/ DReturn

ThreadStep(t) == ConnectStep(t) \/ PlotStep(t) \/ ReadStep(t)

Next ==
  /\ ~wild
  /\ \/ \E t \in Ids : ThreadStep(t)
     \/ DisconnectStep
     \/ ChooseConnect \/ ChooseDisconnect \/ TouchControl
     \/ \E typed \in BOOLEAN : PrefsConnect(typed)

\* gui_connect and gui_disconnect go on when they can.  The threads of a
\* connection need not: scp_read waits for the instrument, and gui_loopplot for
\* its condition or, while gui_disconnect joins it, for the GDK lock.
Fairness ==
  /\ \A t \in Ids : WF_vars(~wild /\ ConnectStep(t))
  /\ WF_vars(~wild /\ DisconnectStep)

Spec == Init /\ [][Next]_vars /\ Fairness

(***************************************************************************)
(* Properties                                                              *)
(***************************************************************************)
Places == {"free", "ended", "addr", "new", "fail", "menus", "publish", "plot",
           "push", "enable", "top", "test", "read", "trg"}

TypeOK ==
  /\ role \in [Ids -> {"none", "conn", "plot", "read"}]
  /\ pc \in [Ids -> Places]
  /\ own \in [Ids -> 0 .. MaxConnects]
  /\ connects \in 1 .. MaxConnects
  /\ scopes \in 0 .. MaxConnects
  /\ alive \subseteq Scopes /\ readkill \subseteq Scopes
  /\ scp \in 0 .. MaxConnects
  /\ plotkill \in BOOLEAN
  /\ thdloopplot \in 0 .. 3 * MaxConnects
  /\ gtk \in {"loop", "quitplot", "joinplot", "quitread", "joinread", "update", "return"}
  /\ then \in {"loop", "connect"}
  /\ {hasAddr, itmconnect, itmdisconnect, controls, wild} \subseteq BOOLEAN

\* Nobody follows gui->scp, a channel's scp or gui_connect's own pointer when
\* it is NULL or the scope is freed, although gui->scp is never reset: scp.c
\* 165, scp_destroy is "to be called when you're done with the scope".
NoStaleScope == ~wild

\* gui.c 1444 speaks of "THE connection": there is at most one scope with its
\* threads, only gui_connect holds one that is not gui->scp, and a second
\* plotting thread never runs beside the first.
TheConnection ==
  /\ TypeOK
  /\ Cardinality(alive) <= 1
  /\ \A s \in alive : s = scp \/ \E t \in Threads("conn") : own[t] = s
  /\ Cardinality(Threads("plot")) <= 1

\* What gui_disconnect joins is the plotting thread, and when it is told
\* "Already joined" (gui.c 1578) there is no scope left to destroy.
JoinFits ==
  gtk = "joinplot" /\ ~wild =>
    /\ thdloopplot # 0
    /\ IF pc[thdloopplot] = "free"
         THEN scp \notin alive /\ Threads("plot") = {}
         ELSE role[thdloopplot] = "plot"

\* When nobody is connecting or disconnecting, the sensitive items and
\* controls are those that make sense: off line one can connect and not touch
\* a control, on line one can touch controls and disconnect and not connect.
ItemsAgree ==
  gtk = "loop" /\ ~Connecting =>
    IF alive = {}
      THEN itmconnect /\ ~controls
      ELSE ~itmconnect /\ itmdisconnect /\ controls /\ Threads("plot") # {}

\* gui_disconnect is in pthread_join of a thread of the connection it leaves,
\* which has been told to end and has not noticed yet.  (A join of anything
\* else, or of a thread that was not told, is not excused.)
Waits ==
  \/ gtk = "joinplot" /\ plotkill /\ thdloopplot \in Threads("plot")
  \/ gtk = "joinread" /\ scp \in readkill /\ \E t \in Threads("read") : own[t] = scp

\* The menus, threads and pointers make one connection that is off, tried, on
\* or left.  Trying ends, and so does leaving unless a thread of the connection
\* that was told to end does not come to its test: when both have ended,
\* gui_disconnect goes on.
C == INSTANCE Connection WITH
  state <- IF gtk # "loop" THEN IF Waits THEN "waiting" ELSE "leaving"
           ELSE IF Connecting THEN "trying"
           ELSE IF controls THEN "on" ELSE "off"

ImplementsConnection == C!Spec
================================================================================
