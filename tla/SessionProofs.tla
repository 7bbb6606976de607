----------------------------- MODULE SessionProofs -----------------------------
(***************************************************************************)
(* Proofs about Session, for any number of connections, as long as the     *)
(* user waits for the outcome of each (Patient), thread ids are not reused *)
(* (FreshIds) and no service request comes in before gui->scp is set       *)
(* (~EarlyTrigger).  Each of the three is needed: README, section 3.       *)
(***************************************************************************)
EXTENDS Session, FiniteSetTheorems, TLAPS

(***************************************************************************)
(* The inductive invariant                                                 *)
(***************************************************************************)

ConnPlaces == {"addr", "new", "fail", "menus", "publish", "plot", "push", "enable"}

\* An id that was never used is no thread's; nobody joins gui_connect.
Roles ==
  \A t \in Ids :
    /\ role[t] = "none" => pc[t] = "free"
    /\ role[t] = "conn" => pc[t] \in ConnPlaces \cup {"ended"}

\* There are enough numbers for the connections to come and their scopes.
Counted ==
  /\ scopes <= connects
  /\ \A t \in Threads("conn") : pc[t] \in {"addr", "new"} => scopes < connects
  /\ then = "connect" => connects < MaxConnects
  /\ gtk = "loop" => then = "loop"

\* One gui_connect at a time, and none while gui_disconnect runs.
OneAttempt ==
  /\ \A t, u \in Threads("conn") : t = u
  /\ Connecting => gtk = "loop"

\* Every scope has a reading thread of its own, which does not outlive it and
\* does not handle a trigger of any scope but gui->scp.
Readers ==
  /\ \A t \in Ids : role[t] = "read" =>
       /\ own[t] \in 1 .. scopes
       /\ pc[t] \notin {"free", "ended"} => own[t] \in alive
       /\ pc[t] = "trg" => own[t] = scp
  /\ \A t, u \in Ids : role[t] = "read" /\ role[u] = "read" /\ own[t] = own[u] => t = u

\* The only plotting thread is the one gui_disconnect would join.
Plotter ==
  /\ thdloopplot # 0 => role[thdloopplot] = "plot"
  /\ \A t \in Threads("plot") : t = thdloopplot

\* The plotting thread has been joined if ever there was one.
PlotOver ==
  /\ Threads("plot") = {}
  /\ scp # 0 => thdloopplot # 0 /\ pc[thdloopplot] = "free"

PlotRuns == thdloopplot # 0 /\ pc[thdloopplot] \in {"top", "push"} /\ ~plotkill

Off == alive = {} /\ PlotOver /\ itmconnect /\ ~controls

On == alive = {scp} /\ PlotRuns /\ ~itmconnect /\ itmdisconnect /\ controls

OnItems == ~itmconnect /\ itmdisconnect /\ ~controls

\* What gui_connect has done at each of its places.
Trying(t) ==
  /\ pc[t] \in {"addr", "new", "fail"} => Off
  /\ pc[t] = "menus" => alive = {own[t]} /\ PlotOver /\ ~controls
  /\ pc[t] = "publish" => alive = {own[t]} /\ PlotOver /\ OnItems
  /\ pc[t] = "plot" => alive = {own[t]} /\ scp = own[t] /\ Threads("plot") = {} /\ OnItems
  /\ pc[t] \in {"push", "enable"} => alive = {own[t]} /\ scp = own[t] /\ PlotRuns /\ OnItems

\* gui_disconnect has told the plotting thread to end.
PlotEnds ==
  /\ alive = {scp}
  /\ thdloopplot # 0 /\ pc[thdloopplot] \in {"top", "push", "ended"}

\* What gui_disconnect has done at each of its places.
Leaving ==
  /\ gtk = "quitplot" => Off \/ On
  /\ gtk = "joinplot" => scp # 0 /\ (Off \/ PlotEnds)
  /\ gtk \in {"quitread", "joinread"} => alive = {scp} /\ PlotOver
  /\ gtk = "update" => alive = {} /\ PlotOver
  /\ gtk = "return" => Off

Phases ==
  /\ \A t \in Threads("conn") : Trying(t)
  /\ gtk = "loop" /\ ~Connecting => Off \/ On
  /\ Leaving

SInv ==
  /\ TypeOK
  /\ Roles
  /\ Counted
  /\ OneAttempt
  /\ Readers
  /\ Plotter
  /\ Phases
  /\ ~wild

(***************************************************************************)
(* Threads                                                                 *)
(***************************************************************************)

\* What the invariant says of the variables' types.
LEMMA Typed ==
  ASSUME SInv
  PROVE  /\ role \in [Ids -> {"none", "conn", "plot", "read"}]
         /\ pc \in [Ids -> Places] /\ own \in [Ids -> 0 .. MaxConnects]
         /\ connects \in 1 .. MaxConnects /\ scopes \in 0 .. MaxConnects
         /\ alive \subseteq Scopes /\ readkill \subseteq Scopes
         /\ scp \in 0 .. MaxConnects
         /\ thdloopplot # 0 => thdloopplot \in Ids
         /\ MaxConnects \in Nat \ {0}
BY SessionAssumption DEF SInv, TypeOK, Ids

\* A thread goes on to another place of its program, or ends.
LEMMA GotoThreads ==
  ASSUME SInv, NEW t \in Ids, NEW q \in Places, Goto(t, q)
  PROVE  /\ pc' \in [Ids -> Places] /\ pc'[t] = q
         /\ \A u \in Ids : u # t => pc'[u] = pc[u]
         /\ UNCHANGED <<role, own, connects>>
         /\ \A r : role[t] # r => Threads(r)' = Threads(r)
         /\ \A r : t \in Threads(r) /\ q \notin {"free", "ended"} => Threads(r)' = Threads(r)
         /\ \A r : q \in {"free", "ended"} => Threads(r)' = Threads(r) \ {t}
<1>1. /\ pc' = [pc EXCEPT ![t] = q] /\ UNCHANGED <<role, own, connects>>
      /\ pc \in [Ids -> Places]
  BY Typed DEF Goto
<1>2. /\ pc' \in [Ids -> Places] /\ pc'[t] = q
      /\ \A u \in Ids : u # t => pc'[u] = pc[u]
  BY <1>1
<1>3. \A r : role[t] # r => Threads(r)' = Threads(r)
  BY <1>1, <1>2 DEF Threads
<1>4. \A r : t \in Threads(r) /\ q \notin {"free", "ended"} => Threads(r)' = Threads(r)
  BY <1>1, <1>2 DEF Threads
<1>5. \A r : q \in {"free", "ended"} => Threads(r)' = Threads(r) \ {t}
  BY <1>1, <1>2 DEF Threads
<1> QED
  BY <1>1, <1>2, <1>3, <1>4, <1>5

\* What such a step does and does not do when the thread is gui_connect's.
ConnWent(t, q) ==
  /\ gtk = "loop" /\ Trying(t)
  /\ UNCHANGED <<role, own, connects>>
  /\ pc' \in [Ids -> Places] /\ pc'[t] = q
  /\ \A u \in Ids : u # t => pc'[u] = pc[u]
  /\ thdloopplot # 0 => pc'[thdloopplot] = pc[thdloopplot]
  /\ Threads("plot")' = Threads("plot")
  /\ Threads("conn")' = IF q = "ended" THEN {} ELSE {t}
  /\ Roles' /\ OneAttempt' /\ Plotter' /\ Leaving'
  /\ \A u \in Ids : role[u] = "read" => pc'[u] = pc[u]

\* A step of gui_connect other than the creation of a thread.
LEMMA ConnGoes ==
  ASSUME SInv, NEW t \in Ids, NEW q \in ConnPlaces \cup {"ended"}, role[t] = "conn",
         pc[t] \notin {"free", "ended"}, Goto(t, q),
         UNCHANGED <<gtk, then, thdloopplot>>
  PROVE  ConnWent(t, q)
<1>1. /\ pc' \in [Ids -> Places] /\ pc'[t] = q
      /\ \A u \in Ids : u # t => pc'[u] = pc[u]
      /\ UNCHANGED <<role, own, connects>>
      /\ \A r : role[t] # r => Threads(r)' = Threads(r)
      /\ \A r : t \in Threads(r) /\ q \notin {"free", "ended"} => Threads(r)' = Threads(r)
      /\ \A r : q \in {"free", "ended"} => Threads(r)' = Threads(r) \ {t}
  <2>1. q \in Places
    BY DEF Places, ConnPlaces
  <2> QED
    BY <2>1, GotoThreads
<1>2. t \in Threads("conn")
  BY DEF Threads
<1>3. Threads("conn") = {t} /\ gtk = "loop" /\ Trying(t)
  BY <1>2 DEF SInv, OneAttempt, Connecting, Phases
<1>4. Threads("conn")' = IF q = "ended" THEN {} ELSE {t}
  BY <1>1, <1>2, <1>3 DEF ConnPlaces
<1>5. Threads("plot")' = Threads("plot")
  BY <1>1
<1>6. OneAttempt'
  BY <1>3, <1>4 DEF OneAttempt, Connecting
<1>7. Roles'
  BY <1>1 DEF SInv, Roles, ConnPlaces
<1>8. Plotter'
  BY <1>1, <1>5 DEF SInv, Plotter
<1>9. thdloopplot # 0 => pc'[thdloopplot] = pc[thdloopplot]
  BY <1>1, Typed DEF SInv, Plotter
<1>10. Leaving'
  BY <1>3 DEF Leaving
<1> QED
  BY <1>1, <1>3, <1>4, <1>5, <1>6, <1>7, <1>8, <1>9, <1>10 DEF ConnWent

\* While it is on its way nothing else is.
LEMMA ConnPhases ==
  ASSUME NEW t \in Ids, NEW q, q # "ended", ConnWent(t, q), Trying(t)'
  PROVE  Phases'
<1>1. Threads("conn")' = {t} /\ Leaving'
  BY DEF ConnWent
<1>2. \A u \in Threads("conn")' : u = t
  BY <1>1
<1>3. Connecting'
  BY <1>1 DEF Connecting
<1> QED
  BY <1>1, <1>2, <1>3 DEF Phases

\* What is said of the plotting thread and the items is not touched.
LEMMA PlotKept ==
  ASSUME UNCHANGED <<scp, thdloopplot>>, Threads("plot")' = Threads("plot"),
         thdloopplot # 0 => pc'[thdloopplot] = pc[thdloopplot]
  PROVE  /\ PlotOver' = PlotOver
         /\ UNCHANGED plotkill => PlotRuns' = PlotRuns
         /\ UNCHANGED <<alive, itmconnect, controls>> => Off' = Off
BY DEF PlotOver, PlotRuns, Off

\* The readers' scopes are not touched.
LEMMA ReadersKept ==
  ASSUME SInv, UNCHANGED <<role, own, scopes, alive, scp>>,
         \A u \in Ids : role[u] = "read" => pc'[u] = pc[u]
  PROVE  Readers'
BY DEF SInv, Readers

(***************************************************************************)
(* gui_connect                                                             *)
(***************************************************************************)

\* There is an address or there is not.
LEMMA AddrKeeps == ASSUME NEW t \in Ids PROVE SInv /\ CAddr(t) => SInv'
<1> SUFFICES ASSUME SInv, CAddr(t) PROVE SInv'
  OBVIOUS
<1>q. PICK q \in {"new", "ended"} : q = IF hasAddr THEN "new" ELSE "ended"
  OBVIOUS
<1>1. /\ role[t] = "conn" /\ pc[t] = "addr" /\ Goto(t, q)
      /\ UNCHANGED <<scopes, alive, readkill, scp, plotkill, thdloopplot, gtk, then, hasAddr,
                     itmconnect, itmdisconnect, controls, wild>>
  BY <1>q DEF CAddr, scopeVars, plotVars, gtkVars, menuVars
<1>2. ConnWent(t, q)
  <2>1. q \in ConnPlaces \cup {"ended"}
    BY DEF ConnPlaces
  <2> QED
    BY <1>1, <2>1, ConnGoes
<1>3. Off'
  <2>1. Off
    BY <1>1, <1>2 DEF Trying, ConnWent
  <2> QED
    BY <1>1, <1>2, <2>1, PlotKept DEF ConnWent
<1>4. Phases'
  <2>1. ASSUME NEW u \in Threads("conn")' PROVE Trying(u)'
    BY <1>2, <1>3, <2>1 DEF Trying, ConnWent
  <2> QED
    BY <1>2, <1>3, <2>1 DEF Phases, ConnWent
<1>5. Counted'
  <2>1. scopes < connects
    BY <1>1 DEF SInv, Counted, Threads
  <2> QED
    BY <1>1, <1>2, <2>1 DEF SInv, Counted, ConnWent
<1>6. Readers'
  BY <1>1, <1>2, ReadersKept DEF ConnWent
<1>7. TypeOK' /\ ~wild'
  BY <1>1, <1>2 DEF SInv, TypeOK, ConnWent
<1> QED
  BY <1>2, <1>4, <1>5, <1>6, <1>7 DEF SInv, ConnWent

\* scp_new fails.
LEMMA NewFailsKeeps == ASSUME NEW t \in Ids PROVE SInv /\ CNewFails(t) => SInv'
<1> SUFFICES ASSUME SInv, CNewFails(t) PROVE SInv'
  OBVIOUS
<1>1. /\ role[t] = "conn" /\ pc[t] = "new" /\ Goto(t, "fail")
      /\ UNCHANGED <<scopes, alive, readkill, scp, plotkill, thdloopplot, gtk, then, hasAddr,
                     itmconnect, itmdisconnect, controls, wild>>
  BY DEF CNewFails, scopeVars, plotVars, gtkVars, menuVars
<1>2. ConnWent(t, "fail")
  <2>1. "fail" \in ConnPlaces \cup {"ended"}
    BY DEF ConnPlaces
  <2> QED
    BY <1>1, <2>1, ConnGoes
<1>3. Phases'
  <2>1. Off'
    BY <1>1, <1>2, PlotKept DEF Trying, ConnWent
  <2> QED
    BY <1>2, <2>1 DEF Phases, Trying, ConnWent
<1>4. Counted'
  BY <1>1, <1>2 DEF SInv, Counted, ConnWent
<1>5. Readers'
  <2>1. \A u \in Ids : role[u] = "read" => pc'[u] = pc[u]
    BY <1>2 DEF ConnWent
  <2> QED
    BY <1>1, <1>2, <2>1, ReadersKept DEF ConnWent
<1>6. TypeOK'
  BY <1>1, <1>2 DEF SInv, TypeOK, ConnWent
<1>7. ~wild'
  BY <1>1 DEF SInv
<1> QED
  BY <1>2, <1>3, <1>4, <1>5, <1>6, <1>7 DEF SInv, ConnWent

\* The attempt is over.
LEMMA FailKeeps == ASSUME NEW t \in Ids PROVE SInv /\ CFail(t) => SInv'
<1> SUFFICES ASSUME SInv, CFail(t) PROVE SInv'
  OBVIOUS
<1>1. /\ role[t] = "conn" /\ pc[t] = "fail" /\ Goto(t, "ended")
      /\ UNCHANGED <<scopes, alive, readkill, scp, plotkill, thdloopplot, gtk, then, hasAddr,
                     itmconnect, itmdisconnect, controls, wild>>
  BY DEF CFail, scopeVars, plotVars, gtkVars, menuVars
<1>2. ConnWent(t, "ended")
  <2>1. "ended" \in ConnPlaces \cup {"ended"}
    BY DEF ConnPlaces
  <2> QED
    BY <1>1, <2>1, ConnGoes
<1>3. Phases'
  <2>1. Off'
    BY <1>1, <1>2, PlotKept DEF Trying, ConnWent
  <2> QED
    BY <1>2, <2>1 DEF Phases, Trying, ConnWent
<1>4. Counted'
  BY <1>1, <1>2 DEF SInv, Counted, ConnWent
<1>5. Readers'
  <2>1. \A u \in Ids : role[u] = "read" => pc'[u] = pc[u]
    BY <1>2 DEF ConnWent
  <2> QED
    BY <1>1, <1>2, <2>1, ReadersKept DEF ConnWent
<1>6. TypeOK'
  BY <1>1, <1>2 DEF SInv, TypeOK, ConnWent
<1>7. ~wild'
  BY <1>1 DEF SInv
<1> QED
  BY <1>2, <1>3, <1>4, <1>5, <1>6, <1>7 DEF SInv, ConnWent

\* The menu items are those of a connection.
LEMMA MenusKeeps == ASSUME NEW t \in Ids PROVE SInv /\ CMenus(t) => SInv'
<1> SUFFICES ASSUME SInv, CMenus(t) PROVE SInv'
  OBVIOUS
<1>1. /\ role[t] = "conn" /\ pc[t] = "menus" /\ Goto(t, "publish")
      /\ UNCHANGED <<scopes, alive, readkill, scp, plotkill, thdloopplot, gtk, then, hasAddr,
                     controls, wild>>
      /\ itmconnect' = FALSE /\ itmdisconnect' = TRUE
  BY DEF CMenus, scopeVars, plotVars, gtkVars, menuVars
<1>2. ConnWent(t, "publish")
  <2>1. "publish" \in ConnPlaces \cup {"ended"}
    BY DEF ConnPlaces
  <2> QED
    BY <1>1, <2>1, ConnGoes
<1>3. Phases'
  <2>1. alive = {own[t]} /\ PlotOver /\ ~controls
    BY <1>1, <1>2 DEF Trying, ConnWent
  <2>2. PlotOver' /\ OnItems'
    BY <1>1, <1>2, <2>1, PlotKept DEF ConnWent, OnItems
  <2> QED
    <3>1. Trying(t)'
      BY <1>1, <1>2, <2>1, <2>2 DEF Trying, ConnWent
    <3> QED
      BY <1>2, <3>1, ConnPhases
<1>4. Counted'
  BY <1>1, <1>2 DEF SInv, Counted, ConnWent
<1>5. Readers'
  <2>1. \A u \in Ids : role[u] = "read" => pc'[u] = pc[u]
    BY <1>2 DEF ConnWent
  <2> QED
    BY <1>1, <1>2, <2>1, ReadersKept DEF ConnWent
<1>6. TypeOK'
  BY <1>1, <1>2 DEF SInv, TypeOK, ConnWent
<1>7. ~wild'
  BY <1>1 DEF SInv
<1> QED
  BY <1>2, <1>3, <1>4, <1>5, <1>6, <1>7 DEF SInv, ConnWent

\* gui->scp is the new scope.
LEMMA PublishKeeps == ASSUME NEW t \in Ids PROVE SInv /\ CPublish(t) => SInv'
<1> SUFFICES ASSUME SInv, CPublish(t) PROVE SInv'
  OBVIOUS
<1>1. /\ role[t] = "conn" /\ pc[t] = "publish" /\ Goto(t, "plot")
      /\ UNCHANGED <<scopes, alive, readkill, plotkill, thdloopplot, gtk, then, hasAddr,
                     itmconnect, itmdisconnect, controls, wild>>
      /\ scp' = own[t]
  BY DEF CPublish, scopeVars, plotVars, gtkVars, menuVars
<1>2. ConnWent(t, "plot")
  <2>1. "plot" \in ConnPlaces \cup {"ended"}
    BY DEF ConnPlaces
  <2> QED
    BY <1>1, <2>1, ConnGoes
<1>3. Phases'
  <2>1. alive = {own[t]} /\ Threads("plot") = {} /\ OnItems
    BY <1>1, <1>2 DEF Trying, ConnWent, PlotOver
  <2>2. OnItems'
    BY <1>1, <2>1 DEF OnItems
  <2> QED
    <3>1. Trying(t)'
      BY <1>1, <1>2, <2>1, <2>2 DEF Trying, ConnWent
    <3> QED
      BY <1>2, <3>1, ConnPhases
<1>4. Counted'
  BY <1>1, <1>2 DEF SInv, Counted, ConnWent
<1>5. Readers'
  <2>1. \A u \in Ids : role[u] = "read" => pc'[u] = pc[u]
    BY <1>2 DEF ConnWent
  <2> QED
    BY <1>1, <1>2, <2>1 DEF SInv, Readers, ConnWent, Trying
<1>6. TypeOK'
  BY <1>1, <1>2 DEF SInv, TypeOK, ConnWent
<1>7. ~wild'
  BY <1>1 DEF SInv
<1> QED
  BY <1>2, <1>3, <1>4, <1>5, <1>6, <1>7 DEF SInv, ConnWent

\* The queries go to the thread's own scope, which is alive.
LEMMA PushKeeps == ASSUME NEW t \in Ids PROVE SInv /\ CPush(t) => SInv'
<1> SUFFICES ASSUME SInv, CPush(t) PROVE SInv'
  OBVIOUS
<1>1. /\ role[t] = "conn" /\ pc[t] = "push" /\ Goto(t, "enable")
      /\ UNCHANGED <<scopes, alive, readkill, scp, plotkill, thdloopplot, gtk, then, hasAddr,
                     itmconnect, itmdisconnect, controls>>
      /\ wild' = (own[t] \notin alive)
  BY DEF CPush, Follow, scopeVars, plotVars, gtkVars, menuVars
<1>2. ConnWent(t, "enable")
  <2>1. "enable" \in ConnPlaces \cup {"ended"}
    BY DEF ConnPlaces
  <2> QED
    BY <1>1, <2>1, ConnGoes
<1>3. Phases'
  <2>1. alive = {own[t]} /\ scp = own[t] /\ PlotRuns /\ OnItems
    BY <1>1, <1>2 DEF Trying, ConnWent
  <2>2. PlotRuns' /\ OnItems'
    BY <1>1, <1>2, <2>1, PlotKept DEF ConnWent, OnItems
  <2> QED
    <3>1. Trying(t)'
      BY <1>1, <1>2, <2>1, <2>2 DEF Trying, ConnWent
    <3> QED
      BY <1>2, <3>1, ConnPhases
<1>4. Counted'
  BY <1>1, <1>2 DEF SInv, Counted, ConnWent
<1>5. Readers'
  <2>1. \A u \in Ids : role[u] = "read" => pc'[u] = pc[u]
    BY <1>2 DEF ConnWent
  <2> QED
    BY <1>1, <1>2, <2>1, ReadersKept DEF ConnWent
<1>6. TypeOK'
  BY <1>1, <1>2 DEF SInv, TypeOK, ConnWent
<1>7. ~wild'
  BY <1>1, <1>2 DEF Trying, ConnWent
<1> QED
  BY <1>2, <1>3, <1>4, <1>5, <1>6, <1>7 DEF SInv, ConnWent

\* The controls are sensitive: the connection is on.
LEMMA EnableKeeps == ASSUME NEW t \in Ids PROVE SInv /\ CEnable(t) => SInv'
<1> SUFFICES ASSUME SInv, CEnable(t) PROVE SInv'
  OBVIOUS
<1>1. /\ role[t] = "conn" /\ pc[t] = "enable" /\ Goto(t, "ended")
      /\ UNCHANGED <<scopes, alive, readkill, scp, plotkill, thdloopplot, gtk, then, hasAddr,
                     itmconnect, itmdisconnect, wild>>
      /\ controls' = TRUE
  BY DEF CEnable, scopeVars, plotVars, gtkVars, menuVars
<1>2. ConnWent(t, "ended")
  <2>1. "ended" \in ConnPlaces \cup {"ended"}
    BY DEF ConnPlaces
  <2> QED
    BY <1>1, <2>1, ConnGoes
<1>3. Phases'
  <2>1. alive = {scp} /\ PlotRuns /\ OnItems
    BY <1>1, <1>2 DEF Trying, ConnWent
  <2>2. On'
    BY <1>1, <1>2, <2>1, PlotKept DEF ConnWent, OnItems, On
  <2> QED
    BY <1>1, <1>2, <2>2 DEF Phases, ConnWent
<1>4. Counted'
  BY <1>1, <1>2 DEF SInv, Counted, ConnWent
<1>5. Readers'
  <2>1. \A u \in Ids : role[u] = "read" => pc'[u] = pc[u]
    BY <1>2 DEF ConnWent
  <2> QED
    BY <1>1, <1>2, <2>1, ReadersKept DEF ConnWent
<1>6. TypeOK'
  BY <1>1, <1>2 DEF SInv, TypeOK, ConnWent
<1>7. ~wild'
  BY <1>1 DEF SInv
<1> QED
  BY <1>2, <1>3, <1>4, <1>5, <1>6, <1>7 DEF SInv, ConnWent

\* pthread_create takes an id that was never used.
LEMMA AvailableFacts ==
  ASSUME SInv, FreshIds, NEW t \in Available
  PROVE  t \in Ids /\ role[t] = "none" /\ pc[t] = "free"
BY DEF Available

\* scp_new makes a scope and its reading thread.
LEMMA NewKeeps ==
  ASSUME FreshIds, NEW t \in Ids PROVE SInv /\ CNew(t) => SInv'
<1> SUFFICES ASSUME SInv, CNew(t) PROVE SInv'
  OBVIOUS
<1>1. /\ role[t] = "conn" /\ pc[t] = "new"
      /\ scopes' = scopes + 1 /\ alive' = alive \cup {scopes + 1}
      /\ UNCHANGED <<connects, readkill, scp, plotkill, thdloopplot, gtk, then, hasAddr,
                     itmconnect, itmdisconnect, controls, wild>>
  BY DEF CNew, plotVars, gtkVars, menuVars
<1>r. PICK r \in Available : CreateFrom(t, "menus", r, "read", "test", scopes + 1)
  BY <1>1 DEF CNew
<1>2. r \in Ids /\ role[r] = "none" /\ pc[r] = "free" /\ r # t
  BY <1>1, AvailableFacts
<1>3. t \in Threads("conn") /\ Threads("conn") = {t} /\ gtk = "loop" /\ Trying(t)
  <2>1. t \in Threads("conn")
    BY <1>1 DEF Threads
  <2> QED
    BY <2>1 DEF SInv, OneAttempt, Connecting, Phases
<1>4. Off /\ alive = {} /\ scopes < connects
  <2>1. Off
    BY <1>1, <1>3 DEF Trying
  <2>2. scopes < connects
    BY <1>1, <1>3 DEF SInv, Counted
  <2> QED
    BY <2>1, <2>2 DEF Off
<1>5. /\ scopes \in Nat /\ scopes + 1 \in 1 .. MaxConnects /\ connects \in Nat
      /\ alive' = {scopes + 1}
  BY <1>1, <1>4, Typed
<1>6. /\ role' \in [Ids -> {"none", "conn", "plot", "read"}]
      /\ pc' \in [Ids -> Places] /\ own' \in [Ids -> 0 .. MaxConnects]
      /\ role'[t] = "conn" /\ pc'[t] = "menus" /\ own'[t] = scopes + 1
      /\ role'[r] = "read" /\ pc'[r] = "test" /\ own'[r] = scopes + 1
      /\ \A u \in Ids \ {t, r} : role'[u] = role[u] /\ pc'[u] = pc[u] /\ own'[u] = own[u]
  <2>1. /\ role' = [role EXCEPT ![r] = "read"]
        /\ own' = [own EXCEPT ![r] = scopes + 1, ![t] = scopes + 1]
        /\ pc' = [pc EXCEPT ![r] = "test", ![t] = "menus"]
    BY <1>r DEF CreateFrom
  <2>2. "menus" \in Places /\ "test" \in Places /\ scopes + 1 \in 0 .. MaxConnects
    BY <1>5 DEF Places
  <2>3. /\ role \in [Ids -> {"none", "conn", "plot", "read"}]
        /\ pc \in [Ids -> Places] /\ own \in [Ids -> 0 .. MaxConnects]
    BY Typed
  <2> HIDE DEF Places
  <2> QED
    BY <1>1, <1>2, <2>1, <2>2, <2>3
<1>7. Threads("conn")' = {t} /\ Threads("plot")' = Threads("plot")
  <2>1. Threads("conn")' = Threads("conn")
    BY <1>1, <1>2, <1>6 DEF Threads
  <2>2. Threads("plot")' = Threads("plot")
    BY <1>1, <1>2, <1>6 DEF Threads
  <2> QED
    BY <1>3, <2>1, <2>2
<1>8. thdloopplot # 0 => thdloopplot \in Ids \ {t, r}
  BY <1>1, <1>2, Typed DEF SInv, Plotter
<1>9. OneAttempt'
  BY <1>1, <1>3, <1>7 DEF OneAttempt, Connecting
<1>10. Roles'
  BY <1>6 DEF SInv, Roles, ConnPlaces
<1>11. Plotter'
  BY <1>1, <1>6, <1>7, <1>8 DEF SInv, Plotter
<1>12. Counted'
  BY <1>1, <1>4, <1>5, <1>6, <1>7 DEF SInv, Counted
<1>13. Phases'
  <2>1. PlotOver /\ ~controls
    BY <1>4 DEF Off
  <2>2. PlotOver' /\ ~controls'
    BY <1>1, <1>6, <1>7, <1>8, <2>1 DEF PlotOver
  <2>3. Trying(t)'
    BY <1>5, <1>6, <2>2 DEF Trying
  <2>4. Connecting' /\ Leaving'
    BY <1>1, <1>3, <1>7 DEF Connecting, Leaving
  <2>5. \A u \in Threads("conn")' : u = t
    BY <1>7
  <2> QED
    BY <2>3, <2>4, <2>5 DEF Phases
<1>14. Readers'
  <2>1. ASSUME NEW u \in Ids, role'[u] = "read"
        PROVE  /\ own'[u] \in 1 .. scopes'
               /\ pc'[u] \notin {"free", "ended"} => own'[u] \in alive'
               /\ pc'[u] = "trg" => own'[u] = scp'
               /\ u = r \/ (u # t /\ u # r /\ role[u] = "read" /\ own'[u] = own[u] /\ own[u] \in 1 .. scopes)
    <3>1. CASE u = r
      <4>1. scopes + 1 \in 1 .. scopes'
        BY <1>1, <1>5
      <4> QED
        BY <1>5, <1>6, <3>1, <4>1
    <3>2. CASE u # r
      <4>1. u \in Ids \ {t, r} /\ role[u] = "read" /\ pc'[u] = pc[u] /\ own'[u] = own[u]
        BY <1>6, <2>1, <3>2
      <4>2. /\ own[u] \in 1 .. scopes
            /\ pc[u] \notin {"free", "ended"} => own[u] \in alive
            /\ pc[u] = "trg" => own[u] = scp
        BY <4>1 DEF SInv, Readers
      <4>3. own[u] \in 1 .. scopes'
        BY <1>1, <1>5, <4>2
      <4> QED
        BY <1>1, <4>1, <4>2, <4>3
    <3> QED
      BY <3>1, <3>2
  <2>2. ASSUME NEW u \in Ids, NEW v \in Ids,
               role'[u] = "read", role'[v] = "read", own'[u] = own'[v]
        PROVE  u = v
    <3>1. scopes + 1 \notin 1 .. scopes
      BY <1>5
    <3>2. CASE u = r \/ v = r
      BY <1>6, <2>1, <2>2, <3>1, <3>2
    <3>3. CASE u # r /\ v # r
      BY <2>1, <2>2, <3>3 DEF SInv, Readers
    <3> QED
      BY <3>2, <3>3
  <2> QED
    BY <2>1, <2>2 DEF Readers
<1>15. TypeOK'
  <2>1. scopes' \in 0 .. MaxConnects /\ alive' \subseteq Scopes
    BY <1>1, <1>5 DEF Scopes
  <2> QED
    BY <1>1, <1>6, <2>1 DEF SInv, TypeOK
<1>16. ~wild'
  BY <1>1 DEF SInv
<1> QED
  BY <1>9, <1>10, <1>11, <1>12, <1>13, <1>14, <1>15, <1>16 DEF SInv

\* The plotting thread begins.
LEMMA PlotKeeps ==
  ASSUME FreshIds, NEW t \in Ids PROVE SInv /\ CPlot(t) => SInv'
<1> SUFFICES ASSUME SInv, CPlot(t) PROVE SInv'
  OBVIOUS
<1>1. /\ role[t] = "conn" /\ pc[t] = "plot" /\ plotkill' = FALSE
      /\ UNCHANGED <<connects, scopes, alive, readkill, scp, gtk, then, hasAddr,
                     itmconnect, itmdisconnect, controls, wild>>
  BY DEF CPlot, scopeVars, gtkVars, menuVars
<1>r. PICK r \in Available : CreateFrom(t, "push", r, "plot", "top", own[t]) /\ thdloopplot' = r
  BY DEF CPlot
<1>2. r \in Ids /\ role[r] = "none" /\ pc[r] = "free" /\ r # t /\ r # 0 /\ thdloopplot' = r
  BY <1>1, <1>r, AvailableFacts DEF Ids
<1>3. t \in Threads("conn") /\ Threads("conn") = {t} /\ gtk = "loop" /\ Trying(t)
  <2>1. t \in Threads("conn")
    BY <1>1 DEF Threads
  <2> QED
    BY <2>1 DEF SInv, OneAttempt, Connecting, Phases
<1>4. alive = {own[t]} /\ scp = own[t] /\ Threads("plot") = {} /\ OnItems
  BY <1>1, <1>3 DEF Trying
<1>6. /\ role' \in [Ids -> {"none", "conn", "plot", "read"}]
      /\ pc' \in [Ids -> Places] /\ own' \in [Ids -> 0 .. MaxConnects]
      /\ role'[t] = "conn" /\ pc'[t] = "push" /\ own'[t] = own[t]
      /\ role'[r] = "plot" /\ pc'[r] = "top"
      /\ \A u \in Ids \ {t, r} : role'[u] = role[u] /\ pc'[u] = pc[u] /\ own'[u] = own[u]
  <2>1. /\ role' = [role EXCEPT ![r] = "plot"]
        /\ own' = [own EXCEPT ![r] = own[t], ![t] = own[t]]
        /\ pc' = [pc EXCEPT ![r] = "top", ![t] = "push"]
    BY <1>r DEF CreateFrom
  <2>2. "top" \in Places /\ "push" \in Places
    BY DEF Places
  <2>3. /\ role \in [Ids -> {"none", "conn", "plot", "read"}]
        /\ pc \in [Ids -> Places] /\ own \in [Ids -> 0 .. MaxConnects]
    BY Typed
  <2> QED
    BY <1>1, <1>2, <2>1, <2>2, <2>3
<1>7. Threads("conn")' = {t} /\ Threads("plot")' = {r}
  <2>1. Threads("conn")' = Threads("conn")
    BY <1>1, <1>2, <1>6 DEF Threads
  <2>2. Threads("plot")' = Threads("plot") \cup {r}
    BY <1>1, <1>2, <1>6 DEF Threads
  <2> QED
    BY <1>3, <1>4, <2>1, <2>2
<1>9. OneAttempt'
  BY <1>1, <1>3, <1>7 DEF OneAttempt, Connecting
<1>10. Roles'
  BY <1>6 DEF SInv, Roles, ConnPlaces
<1>11. Plotter'
  BY <1>2, <1>6, <1>7 DEF Plotter
<1>12. Counted'
  BY <1>1, <1>6, <1>7 DEF SInv, Counted
<1>13. Phases'
  <2>2. PlotRuns' /\ OnItems'
    BY <1>1, <1>2, <1>4, <1>6 DEF PlotRuns, OnItems
  <2>3. Trying(t)'
    BY <1>1, <1>4, <1>6, <2>2 DEF Trying
  <2>4. Connecting' /\ Leaving'
    BY <1>1, <1>3, <1>7 DEF Connecting, Leaving
  <2>5. \A u \in Threads("conn")' : u = t
    BY <1>7
  <2> QED
    BY <2>3, <2>4, <2>5 DEF Phases
<1>14. Readers'
  <2>1. \A u \in Ids : role'[u] = "read" =>
          role[u] = "read" /\ pc'[u] = pc[u] /\ own'[u] = own[u]
    BY <1>1, <1>2, <1>6
  <2>2. ASSUME NEW u \in Ids, role'[u] = "read"
        PROVE  /\ own'[u] \in 1 .. scopes'
               /\ pc'[u] \notin {"free", "ended"} => own'[u] \in alive'
               /\ pc'[u] = "trg" => own'[u] = scp'
    BY <1>1, <2>1, <2>2 DEF SInv, Readers
  <2>3. ASSUME NEW u \in Ids, NEW v \in Ids,
               role'[u] = "read", role'[v] = "read", own'[u] = own'[v]
        PROVE  u = v
    BY <2>1, <2>3 DEF SInv, Readers
  <2> QED
    BY <2>2, <2>3 DEF Readers
<1>15. TypeOK'
  <2>1. thdloopplot' \in 0 .. 3 * MaxConnects /\ plotkill' \in BOOLEAN
    <3>1. r \in 0 .. 3 * MaxConnects
      BY <1>2, Typed DEF Ids
    <3> QED
      BY <1>1, <1>2, <3>1
  <2> QED
    BY <1>1, <1>6, <2>1 DEF SInv, TypeOK
<1>16. ~wild'
  BY <1>1 DEF SInv
<1> QED
  BY <1>9, <1>10, <1>11, <1>12, <1>13, <1>14, <1>15, <1>16 DEF SInv

(***************************************************************************)
(* The threads of a connection                                             *)
(***************************************************************************)

\* While the plotting thread runs there is a scope, and it is gui->scp.
LEMMA PlotterFacts ==
  ASSUME SInv, NEW t \in Threads("plot")
  PROVE  /\ t \in Ids /\ t = thdloopplot /\ t # 0 /\ role[t] = "plot"
         /\ Threads("plot") = {t} /\ ~PlotOver /\ ~Off
         /\ alive = {scp}
         /\ plotkill => gtk = "joinplot"
         /\ gtk \in {"loop", "quitplot", "joinplot"}
         /\ \A u \in Threads("conn") : pc[u] \in {"push", "enable"}
<1>1. t \in Ids /\ t = thdloopplot /\ t # 0 /\ role[t] = "plot" /\ Threads("plot") = {t}
  BY DEF Threads, SInv, Plotter, Ids
<1>2. ~PlotOver /\ ~Off
  BY <1>1 DEF PlotOver, Off
<1>3. \A u \in Threads("conn") : pc[u] \in {"push", "enable"}
  <2> SUFFICES ASSUME NEW u \in Threads("conn") PROVE pc[u] \in {"push", "enable"}
    OBVIOUS
  <2>1. Trying(u)
    BY DEF SInv, Phases
  <2>2. pc[u] \in ConnPlaces
    BY DEF SInv, Roles, Threads
  <2> QED
    BY <1>1, <1>2, <2>1, <2>2 DEF Trying, ConnPlaces
<1>4. gtk \in {"loop", "quitplot", "joinplot", "quitread", "joinread", "update", "return"}
  BY DEF SInv, TypeOK
<1>5. CASE gtk = "loop" /\ Connecting
  <2>1. PICK u \in Threads("conn") : TRUE
    BY <1>5 DEF Connecting
  <2>2. Trying(u)
    BY DEF SInv, Phases
  <2> QED
    BY <1>1, <1>2, <1>3, <1>5, <2>2 DEF Trying, PlotRuns
<1>6. CASE gtk = "loop" /\ ~Connecting
  BY <1>1, <1>2, <1>3, <1>6 DEF SInv, Phases, On, PlotRuns
<1>7. CASE gtk # "loop"
  BY <1>1, <1>2, <1>3, <1>4, <1>7 DEF SInv, Phases, Leaving, On, PlotRuns, PlotEnds
<1> QED
  BY <1>5, <1>6, <1>7

\* A step of the plotting thread.
LEMMA PlotGoes ==
  ASSUME SInv, NEW t \in Ids, NEW q \in {"top", "push", "ended"},
         role[t] = "plot", pc[t] \in {"top", "push"}, Goto(t, q), q = "ended" => plotkill,
         UNCHANGED <<scopes, alive, readkill, scp, plotkill, thdloopplot, gtk, then, hasAddr,
                     itmconnect, itmdisconnect, controls>>, wild' = FALSE
  PROVE  SInv'
<1>1. /\ pc' \in [Ids -> Places] /\ pc'[t] = q
      /\ \A u \in Ids : u # t => pc'[u] = pc[u]
      /\ UNCHANGED <<role, own, connects>>
      /\ Threads("conn")' = Threads("conn")
      /\ Threads("plot")' \subseteq {t}
  <2>1. q \in Places
    BY DEF Places
  <2>2. t \in Threads("plot")
    BY DEF Threads
  <2> QED
    BY <2>1, <2>2, GotoThreads, PlotterFacts
<1>2. /\ t = thdloopplot /\ t # 0
      /\ ~PlotOver /\ ~Off
      /\ alive = {scp}
      /\ plotkill => gtk = "joinplot"
      /\ gtk \in {"loop", "quitplot", "joinplot"}
      /\ \A u \in Threads("conn") : pc[u] \in {"push", "enable"}
  <2>1. t \in Threads("plot")
    BY DEF Threads
  <2> QED
    BY <2>1, PlotterFacts
<1>3. Roles'
  BY <1>1 DEF SInv, Roles
<1>4. Counted'
  BY <1>1, <1>2 DEF SInv, Counted, Threads
<1>5. OneAttempt'
  BY <1>1 DEF SInv, OneAttempt, Connecting
<1>6. Readers'
  <2>1. \A u \in Ids : role[u] = "read" => pc'[u] = pc[u]
    BY <1>1
  <2> QED
    BY <1>1, <2>1, ReadersKept
<1>7. Plotter'
  BY <1>1, <1>2 DEF SInv, Plotter
<1>8. Phases'
  <2>1. gtk # "joinplot" => (PlotRuns => PlotRuns')
    BY <1>1, <1>2 DEF PlotRuns
  <2>2. ASSUME NEW u \in Threads("conn") PROVE Trying(u)'
    <3>1. Trying(u) /\ pc'[u] \in {"push", "enable"} /\ u # t /\ gtk = "loop" /\ pc[u] \in {"push", "enable"}
      BY <1>1, <1>2 DEF SInv, Phases, OneAttempt, Connecting, Threads
    <3> QED
      BY <1>1, <2>1, <3>1 DEF Trying, OnItems
  <2>3. ASSUME gtk \in {"loop", "quitplot"}, On PROVE On'
    BY <2>1, <2>3 DEF On
  <2>4. ASSUME gtk = "joinplot", scp # 0, PlotEnds PROVE PlotEnds'
    BY <1>1, <1>2, <2>4 DEF PlotEnds
  <2>5. Leaving'
    BY <1>2, <2>3, <2>4 DEF SInv, Phases, Leaving
  <2>6. gtk = "loop" /\ ~Connecting => On'
    BY <1>2, <2>3 DEF SInv, Phases
  <2> QED
    BY <1>1, <2>2, <2>5, <2>6 DEF Phases, Connecting
<1>9. TypeOK'
  BY <1>1 DEF SInv, TypeOK
<1> QED
  BY <1>3, <1>4, <1>5, <1>6, <1>7, <1>8, <1>9 DEF SInv

\* gui_loopplot ends when it is told to and pushes otherwise.
LEMMA TopKeeps == ASSUME NEW t \in Ids PROVE SInv /\ PTop(t) => SInv'
<1> SUFFICES ASSUME SInv, PTop(t) PROVE SInv'
  OBVIOUS
<1>1. PICK q \in {"top", "push", "ended"} : q = IF plotkill THEN "ended" ELSE "push"
  OBVIOUS
<1>2. /\ role[t] = "plot" /\ pc[t] \in {"top", "push"} /\ Goto(t, q)
      /\ UNCHANGED <<scopes, alive, readkill, scp, plotkill, thdloopplot, gtk, then, hasAddr,
                     itmconnect, itmdisconnect, controls>>
      /\ wild' = wild
  BY <1>1 DEF PTop, scopeVars, plotVars, gtkVars, menuVars
<1>3. q = "ended" => plotkill
  BY <1>1
<1>4. wild' = FALSE
  BY <1>2 DEF SInv, TypeOK
<1> QED
  BY <1>2, <1>3, <1>4, PlotGoes

\* gui_loopplot pushes on a scope that is alive.
LEMMA PlotPushKeeps == ASSUME NEW t \in Ids PROVE SInv /\ PPush(t) => SInv'
<1> SUFFICES ASSUME SInv, PPush(t) PROVE SInv'
  OBVIOUS
<1>1. /\ role[t] = "plot" /\ pc[t] \in {"top", "push"} /\ Goto(t, "top")
      /\ UNCHANGED <<scopes, alive, readkill, scp, plotkill, thdloopplot, gtk, then, hasAddr,
                     itmconnect, itmdisconnect, controls>>
      /\ wild' = (scp \notin alive)
  BY DEF PPush, Follow, scopeVars, plotVars, gtkVars, menuVars
<1>2. t \in Threads("plot")
  BY <1>1 DEF Threads
<1>3. wild' = FALSE
  BY <1>1, <1>2, PlotterFacts
<1> QED
  BY <1>1, <1>3, PlotGoes

\* A step of a reading thread.
LEMMA ReadGoes ==
  ASSUME SInv, NEW t \in Ids, NEW q \in {"test", "read", "trg", "ended"},
         role[t] = "read", pc[t] \in {"test", "read", "trg"}, Goto(t, q), q = "trg" => own[t] = scp,
         UNCHANGED <<scopes, alive, readkill, scp, plotkill, thdloopplot, gtk, then, hasAddr,
                     itmconnect, itmdisconnect, controls>>, wild' = FALSE
  PROVE  SInv'
<1>1. /\ pc' \in [Ids -> Places] /\ pc'[t] = q
      /\ \A u \in Ids : u # t => pc'[u] = pc[u]
      /\ UNCHANGED <<role, own, connects>>
      /\ Threads("conn")' = Threads("conn")
      /\ Threads("plot")' = Threads("plot")
  <2>1. q \in Places
    BY DEF Places
  <2> QED
    BY <2>1, GotoThreads
<1>2. thdloopplot # 0 => pc'[thdloopplot] = pc[thdloopplot]
  BY <1>1, Typed DEF SInv, Plotter
<1>3. Roles'
  BY <1>1 DEF SInv, Roles
<1>4. Counted'
  BY <1>1 DEF SInv, Counted, Threads
<1>5. OneAttempt'
  BY <1>1 DEF SInv, OneAttempt, Connecting
<1>6. Readers'
  <2>1. ASSUME NEW u \in Ids, role'[u] = "read"
        PROVE  /\ own'[u] \in 1 .. scopes'
               /\ pc'[u] \notin {"free", "ended"} => own'[u] \in alive'
               /\ pc'[u] = "trg" => own'[u] = scp'
    BY <1>1, <2>1 DEF SInv, Readers
  <2>2. \A u, v \in Ids : role'[u] = "read" /\ role'[v] = "read" /\ own'[u] = own'[v] => u = v
    BY <1>1 DEF SInv, Readers
  <2> QED
    BY <2>1, <2>2 DEF Readers
<1>7. Plotter'
  BY <1>1 DEF SInv, Plotter
<1>8. Phases'
  <2>1. PlotOver' = PlotOver /\ PlotRuns' = PlotRuns /\ Off' = Off
    BY <1>1, <1>2, PlotKept
  <2>2. ASSUME NEW u \in Threads("conn") PROVE Trying(u)'
    <3>1. Trying(u) /\ pc'[u] = pc[u]
      BY <1>1 DEF SInv, Phases, Threads
    <3> QED
      BY <1>1, <2>1, <3>1 DEF Trying, OnItems
  <2>3. On' = On /\ (PlotEnds => PlotEnds')
    BY <1>2, <2>1 DEF On, PlotEnds
  <2>4. Leaving'
    BY <2>1, <2>3 DEF SInv, Phases, Leaving
  <2> QED
    BY <1>1, <2>1, <2>2, <2>3, <2>4 DEF SInv, Phases, Connecting
<1>9. TypeOK'
  BY <1>1 DEF SInv, TypeOK
<1> QED
  BY <1>3, <1>4, <1>5, <1>6, <1>7, <1>8, <1>9 DEF SInv

\* scp_read ends, waits for a packet, or handles one; a trigger is one of a
\* scope that is alive.
LEMMA ReaderKeeps ==
  ASSUME ~EarlyTrigger, NEW t \in Ids
  PROVE  SInv /\ ReadStep(t) => SInv'
<1> SUFFICES ASSUME SInv, ReadStep(t) PROVE SInv'
  OBVIOUS
<1>1. /\ role[t] = "read" /\ pc[t] \in {"test", "read", "trg"}
      /\ UNCHANGED <<scopes, alive, readkill, scp, plotkill, thdloopplot, gtk, then, hasAddr,
                     itmconnect, itmdisconnect, controls>>
  BY DEF ReadStep, RTest, RPacket, RTrg, RTrgPush, scopeVars, plotVars, gtkVars, menuVars
<1>2. CASE RTest(t)
  <2>1. PICK q \in {"test", "read", "trg", "ended"} :
          q = IF own[t] \in readkill THEN "ended" ELSE "read"
    OBVIOUS
  <2>2. Goto(t, q) /\ wild' = FALSE /\ q # "trg"
    BY <1>2, <2>1 DEF RTest, SInv, TypeOK
  <2> QED
    BY <1>1, <2>2, ReadGoes
<1>3. CASE RPacket(t)
  <2>1. Goto(t, "test") /\ wild' = FALSE
    BY <1>3 DEF RPacket, SInv, TypeOK
  <2> QED
    BY <1>1, <2>1, ReadGoes
<1>4. CASE RTrg(t)
  <2>1. Goto(t, "trg") /\ wild' = FALSE /\ own[t] = scp
    BY <1>4 DEF RTrg, SInv, TypeOK
  <2> QED
    BY <1>1, <2>1, ReadGoes
<1>5. CASE RTrgPush(t)
  <2>1. Goto(t, "test") /\ wild' = (scp \notin alive) /\ pc[t] = "trg"
    BY <1>5 DEF RTrgPush, Follow
  <2>2. scp \in alive
    BY <1>1, <2>1 DEF SInv, Readers
  <2> QED
    BY <1>1, <2>1, <2>2, ReadGoes
<1> QED
  BY <1>2, <1>3, <1>4, <1>5 DEF ReadStep

(***************************************************************************)
(* The user and gui_disconnect                                             *)
(***************************************************************************)

\* A step of the GTK thread that begins, ends or joins no thread.
LEMMA GtkKept ==
  ASSUME SInv, UNCHANGED <<role, pc, own, connects, scopes, scp, thdloopplot, then>>,
         gtk # "loop"
  PROVE  /\ Threads("conn") = {} /\ Threads("conn")' = {}
         /\ Threads("plot")' = Threads("plot")
         /\ PlotOver' = PlotOver
         /\ Roles' /\ Plotter' /\ OneAttempt'
         /\ gtk' # "loop" => Counted'
         /\ UNCHANGED alive => Readers'
         /\ gtk' # "loop" /\ Leaving' => Phases'
<1>1. Threads("conn")' = Threads("conn") /\ Threads("plot")' = Threads("plot")
  BY DEF Threads
<1>2. Threads("conn") = {}
  BY DEF SInv, OneAttempt, Connecting
<1>3. PlotOver' = PlotOver
  BY <1>1 DEF PlotOver
<1>4. Roles' /\ Plotter' /\ OneAttempt'
  BY <1>1, <1>2 DEF SInv, Roles, Plotter, OneAttempt, Connecting
<1>5. gtk' # "loop" => Counted'
  BY <1>1, <1>2 DEF SInv, Counted
<1>6. UNCHANGED alive => Readers'
  BY DEF SInv, Readers
<1>7. gtk' # "loop" /\ Leaving' => Phases'
  BY <1>1, <1>2 DEF Phases
<1> QED
  BY <1>1, <1>2, <1>3, <1>4, <1>5, <1>6, <1>7

\* A new gui_connect while there is no connection and no other attempt.
LEMMA Starts ==
  ASSUME SInv, FreshIds, NEW t \in Available, Create(t, "conn", "addr", 0),
         Off, Threads("conn") = {}, connects < MaxConnects, connects' = connects + 1,
         gtk' = "loop", then' = "loop",
         UNCHANGED <<scopes, alive, readkill, scp, plotkill, thdloopplot, hasAddr,
                     itmconnect, itmdisconnect, controls, wild>>
  PROVE  SInv' /\ Threads("conn")' = {t}
<1>1. t \in Ids /\ role[t] = "none" /\ pc[t] = "free"
  BY AvailableFacts
<1>2. /\ role' \in [Ids -> {"none", "conn", "plot", "read"}]
      /\ pc' \in [Ids -> Places] /\ own' \in [Ids -> 0 .. MaxConnects]
      /\ role'[t] = "conn" /\ pc'[t] = "addr"
      /\ \A u \in Ids \ {t} : role'[u] = role[u] /\ pc'[u] = pc[u] /\ own'[u] = own[u]
  <2>1. /\ role' = [role EXCEPT ![t] = "conn"]
        /\ own' = [own EXCEPT ![t] = 0]
        /\ pc' = [pc EXCEPT ![t] = "addr"]
    BY DEF Create
  <2>2. "addr" \in Places /\ 0 \in 0 .. MaxConnects
    BY Typed DEF Places
  <2>3. /\ role \in [Ids -> {"none", "conn", "plot", "read"}]
        /\ pc \in [Ids -> Places] /\ own \in [Ids -> 0 .. MaxConnects]
    BY Typed
  <2> QED
    BY <1>1, <2>1, <2>2, <2>3
<1>3. Threads("conn")' = {t} /\ Threads("plot")' = Threads("plot")
  <2>1. Threads("conn")' = Threads("conn") \cup {t}
    BY <1>1, <1>2 DEF Threads
  <2>2. Threads("plot")' = Threads("plot")
    BY <1>1, <1>2 DEF Threads
  <2> QED
    BY <2>1, <2>2
<1>4. thdloopplot # 0 => thdloopplot \in Ids \ {t}
  BY <1>1, Typed DEF SInv, Plotter
<1>5. Roles'
  BY <1>1, <1>2 DEF SInv, Roles, ConnPlaces
<1>6. Counted'
  <2>1. scopes \in Nat /\ connects \in Nat /\ scopes <= connects
    BY Typed DEF SInv, Counted
  <2>2. scopes' < connects'
    BY <2>1
  <2> QED
    BY <1>3, <2>1, <2>2 DEF Counted
<1>7. OneAttempt'
  BY <1>3 DEF OneAttempt
<1>8. Readers'
  <2>1. \A u \in Ids : role'[u] = "read" =>
          role[u] = "read" /\ pc'[u] = pc[u] /\ own'[u] = own[u]
    BY <1>2
  <2>2. ASSUME NEW u \in Ids, role'[u] = "read"
        PROVE  /\ own'[u] \in 1 .. scopes'
               /\ pc'[u] \notin {"free", "ended"} => own'[u] \in alive'
               /\ pc'[u] = "trg" => own'[u] = scp'
    BY <2>1, <2>2 DEF SInv, Readers
  <2>3. \A u, v \in Ids : role'[u] = "read" /\ role'[v] = "read" /\ own'[u] = own'[v] => u = v
    BY <2>1 DEF SInv, Readers
  <2> QED
    BY <2>2, <2>3 DEF Readers
<1>9. Plotter'
  BY <1>2, <1>3, <1>4 DEF SInv, Plotter
<1>10. Phases'
  <2>1. Off'
    BY <1>2, <1>3, <1>4 DEF Off, PlotOver
  <2>2. Trying(t)'
    BY <1>2, <2>1 DEF Trying
  <2>3. Connecting' /\ Leaving'
    BY <1>3 DEF Connecting, Leaving
  <2>4. \A u \in Threads("conn")' : u = t
    BY <1>3
  <2> QED
    BY <2>2, <2>3, <2>4 DEF Phases
<1>11. TypeOK'
  <2>1. connects' \in 1 .. MaxConnects
    BY Typed
  <2> QED
    BY <1>2, <2>1 DEF SInv, TypeOK
<1> QED
  BY <1>3, <1>5, <1>6, <1>7, <1>8, <1>9, <1>10, <1>11 DEF SInv

\* A user who waits sees the connection on or off.
LEMMA Chooses ==
  ASSUME SInv, Patient, MayChoose
  PROVE  gtk = "loop" /\ Threads("conn") = {} /\ (Off \/ On)
BY DEF MayChoose, SInv, Phases, Connecting

\* The Connect item: it is not sensitive while there is a connection.
LEMMA ChooseConnectKeeps == ASSUME Patient, FreshIds PROVE SInv /\ ChooseConnect => SInv'
<1> SUFFICES ASSUME SInv, ChooseConnect PROVE SInv'
  OBVIOUS
<1>1. /\ MayChoose /\ itmconnect /\ connects < MaxConnects /\ connects' = connects + 1
      /\ UNCHANGED <<scopes, alive, readkill, scp, plotkill, thdloopplot, gtk, then, hasAddr,
                     itmconnect, itmdisconnect, controls, wild>>
  BY DEF ChooseConnect, scopeVars, plotVars, gtkVars, menuVars
<1>2. gtk = "loop" /\ Threads("conn") = {} /\ Off
  BY <1>1, Chooses DEF On
<1>3. then = "loop"
  BY <1>2 DEF SInv, Counted
<1>4. PICK t \in Available : Create(t, "conn", "addr", 0)
  BY DEF ChooseConnect
<1> QED
  BY <1>1, <1>2, <1>3, <1>4, Starts

\* The Disconnect item and the Connect button of the preferences window.
LEMMA LeaveKeeps ==
  ASSUME Patient, NEW typed \in BOOLEAN
  PROVE  SInv /\ (ChooseDisconnect \/ PrefsConnect(typed)) => SInv'
<1> SUFFICES ASSUME SInv, ChooseDisconnect \/ PrefsConnect(typed) PROVE SInv'
  OBVIOUS
<1>1. /\ MayChoose /\ gtk' = "quitplot"
      /\ UNCHANGED <<role, pc, own, connects, scopes, alive, readkill, scp, plotkill, thdloopplot,
                     itmconnect, itmdisconnect, controls, wild>>
      /\ then' \in {"loop", "connect"} /\ (then' = "connect" => connects < MaxConnects)
      /\ hasAddr' \in BOOLEAN
  <2>1. CASE ChooseDisconnect
    BY <2>1 DEF ChooseDisconnect, threadVars, scopeVars, plotVars, menuVars, SInv, TypeOK
  <2>2. CASE PrefsConnect(typed)
    BY <2>2 DEF PrefsConnect, threadVars, scopeVars, plotVars, menuVars, SInv, TypeOK
  <2> QED
    BY <2>1, <2>2
<1>2. gtk = "loop" /\ Threads("conn") = {} /\ (Off \/ On)
  BY <1>1, Chooses
<1>3. Threads("conn")' = {} /\ Threads("plot")' = Threads("plot")
  BY <1>1, <1>2 DEF Threads
<1>4. Off' = Off /\ On' = On
  BY <1>1, <1>3 DEF Off, On, PlotOver, PlotRuns
<1>5. Roles' /\ Readers' /\ Plotter'
  BY <1>1, <1>3 DEF SInv, Roles, Readers, Plotter
<1>6. Counted' /\ OneAttempt'
  BY <1>1, <1>3 DEF SInv, Counted, OneAttempt, Connecting
<1>7. Phases'
  BY <1>1, <1>2, <1>3, <1>4 DEF Phases, Leaving
<1>8. TypeOK'
  BY <1>1 DEF SInv, TypeOK
<1> QED
  BY <1>1, <1>5, <1>6, <1>7, <1>8 DEF SInv

\* A control is sensitive only while gui->scp is alive.
LEMMA TouchKeeps == SInv /\ TouchControl => SInv'
<1> SUFFICES ASSUME SInv, TouchControl PROVE SInv'
  OBVIOUS
<1>1. /\ gtk = "loop" /\ controls /\ wild' = (scp \notin alive)
      /\ UNCHANGED <<role, pc, own, connects, scopes, alive, readkill, scp, plotkill, thdloopplot,
                     gtk, then, hasAddr, itmconnect, itmdisconnect, controls>>
  BY DEF TouchControl, Follow, threadVars, scopeVars, plotVars, gtkVars, menuVars
<1>2. scp \in alive
  <2>1. CASE Connecting
    <3>1. PICK u \in Threads("conn") : TRUE
      BY <2>1 DEF Connecting
    <3>2. Trying(u) /\ pc[u] \in ConnPlaces
      BY DEF SInv, Phases, Roles, Threads
    <3> QED
      BY <1>1, <3>2 DEF Trying, ConnPlaces, Off, OnItems
  <2>2. CASE ~Connecting
    BY <1>1, <2>2 DEF SInv, Phases, Off, On
  <2> QED
    BY <2>1, <2>2
<1>3. \A r : Threads(r)' = Threads(r)
  BY <1>1 DEF Threads
<1>4. Off' = Off /\ On' = On /\ PlotEnds' = PlotEnds /\ PlotOver' = PlotOver /\ PlotRuns' = PlotRuns
  BY <1>1, <1>3 DEF Off, On, PlotOver, PlotRuns, PlotEnds
<1>5. Roles' /\ Readers' /\ Plotter'
  BY <1>1, <1>3 DEF SInv, Roles, Readers, Plotter
<1>6. Counted' /\ OneAttempt'
  BY <1>1, <1>3 DEF SInv, Counted, OneAttempt, Connecting
<1>7. Phases'
  <2>1. \A u \in Threads("conn") : Trying(u)' = Trying(u)
    BY <1>1, <1>3, <1>4 DEF Trying, OnItems
  <2> QED
    BY <1>1, <1>3, <1>4, <2>1 DEF SInv, Phases, Leaving, Connecting
<1>8. TypeOK' /\ ~wild'
  BY <1>1, <1>2 DEF SInv, TypeOK
<1> QED
  BY <1>5, <1>6, <1>7, <1>8 DEF SInv

\* The plotting thread is told to end if there is or was a scope.
LEMMA QuitPlotKeeps == SInv /\ DQuitPlot => SInv'
<1> SUFFICES ASSUME SInv, DQuitPlot PROVE SInv'
  OBVIOUS
<1>1. /\ gtk = "quitplot" /\ gtk' \in {"update", "joinplot"}
      /\ gtk' = "update" => scp = 0 /\ UNCHANGED plotkill
      /\ gtk' = "joinplot" => scp # 0 /\ plotkill' = TRUE
      /\ UNCHANGED <<role, pc, own, connects, scopes, alive, readkill, scp, thdloopplot,
                     then, hasAddr, itmconnect, itmdisconnect, controls, wild>>
  BY DEF DQuitPlot, threadVars, scopeVars, menuVars
<1>2. /\ Threads("plot")' = Threads("plot") /\ PlotOver' = PlotOver
      /\ Roles' /\ Plotter' /\ OneAttempt' /\ Counted' /\ Readers'
      /\ Leaving' => Phases'
  <2>1. gtk # "loop" /\ gtk' # "loop"
    BY <1>1
  <2> QED
    BY <1>1, <2>1, GtkKept
<1>3. Off \/ On
  BY <1>1 DEF SInv, Phases, Leaving
<1>4. Leaving'
  <2>1. CASE gtk' = "update"
    <3>1. ~On
      BY <1>1, <2>1, Typed DEF On, Scopes
    <3> QED
      BY <1>1, <1>2, <1>3, <2>1, <3>1 DEF Leaving, Off
  <2>2. CASE gtk' = "joinplot"
    <3>1. Off => Off'
      BY <1>1, <1>2 DEF Off
    <3>2. On => PlotEnds'
      BY <1>1 DEF On, PlotRuns, PlotEnds
    <3> QED
      BY <1>1, <1>3, <2>2, <3>1, <3>2 DEF Leaving
  <2> QED
    BY <1>1, <2>1, <2>2
<1>5. TypeOK' /\ ~wild'
  <2>1. plotkill' \in BOOLEAN
    BY <1>1 DEF SInv, TypeOK
  <2> QED
    BY <1>1, <2>1 DEF SInv, TypeOK
<1> QED
  BY <1>2, <1>4, <1>5 DEF SInv

\* The plotting thread has ended and is joined.
LEMMA JoinPlotKeeps == SInv /\ DJoinPlot => SInv'
<1> SUFFICES ASSUME SInv, DJoinPlot PROVE SInv'
  OBVIOUS
<1>1. /\ gtk = "joinplot" /\ gtk' = "quitread" /\ thdloopplot # 0
      /\ pc[thdloopplot] = "ended" /\ Goto(thdloopplot, "free")
      /\ UNCHANGED <<scopes, alive, readkill, scp, plotkill, thdloopplot,
                     then, hasAddr, itmconnect, itmdisconnect, controls, wild>>
  BY DEF DJoinPlot, scopeVars, plotVars, menuVars
<1>t. PICK t \in Ids : t = thdloopplot
  BY <1>1, Typed
<1>2. alive = {scp}
  BY <1>1 DEF SInv, Phases, Leaving, Off, PlotOver, PlotEnds
<1>3. /\ pc' \in [Ids -> Places] /\ pc'[t] = "free"
      /\ \A u \in Ids : u # t => pc'[u] = pc[u]
      /\ UNCHANGED <<role, own, connects>>
      /\ Threads("conn")' = Threads("conn")
      /\ Threads("plot")' = Threads("plot") \ {t}
  <2>1. Goto(t, "free") /\ "free" \in Places
    BY <1>1, <1>t DEF Places
  <2>2. role[t] = "plot"
    BY <1>1, <1>t DEF SInv, Plotter
  <2> QED
    BY <2>1, <2>2, GotoThreads
<1>4. role[t] = "plot" /\ Threads("conn") = {} /\ Threads("plot")' = {}
  BY <1>1, <1>3, <1>t DEF SInv, Plotter, OneAttempt, Connecting
<1>5. Roles' /\ Plotter' /\ OneAttempt'
  BY <1>1, <1>3, <1>4 DEF SInv, Roles, Plotter, OneAttempt, Connecting
<1>6. Counted'
  BY <1>1, <1>3, <1>4 DEF SInv, Counted
<1>7. Readers'
  <2>1. \A u \in Ids : role[u] = "read" => pc'[u] = pc[u]
    BY <1>3, <1>4
  <2> QED
    BY <1>1, <1>3, <2>1, ReadersKept
<1>8. Phases'
  <2>1. PlotOver' /\ alive' = {scp'}
    BY <1>1, <1>2, <1>3, <1>4, <1>t DEF PlotOver
  <2> QED
    BY <1>1, <1>3, <1>4, <2>1 DEF Phases, Leaving
<1>9. TypeOK' /\ ~wild'
  BY <1>1, <1>3 DEF SInv, TypeOK
<1> QED
  BY <1>5, <1>6, <1>7, <1>8, <1>9 DEF SInv

\* There was nothing to leave.
LEMMA AlreadyJoinedKeeps == SInv /\ DAlreadyJoined => SInv'
<1> SUFFICES ASSUME SInv, DAlreadyJoined PROVE SInv'
  OBVIOUS
<1>1. /\ gtk = "joinplot" /\ gtk' = "return" /\ wild' = (thdloopplot = 0)
      /\ (thdloopplot # 0 => pc[thdloopplot] = "free")
      /\ UNCHANGED <<role, pc, own, connects, scopes, alive, readkill, scp, plotkill, thdloopplot,
                     then, hasAddr, itmconnect, itmdisconnect, controls>>
  BY DEF DAlreadyJoined, threadVars, scopeVars, plotVars, menuVars
<1>2. Off /\ thdloopplot # 0
  BY <1>1 DEF SInv, Phases, Leaving, Off, PlotOver, PlotEnds
<1>3. /\ PlotOver' = PlotOver
      /\ Roles' /\ Plotter' /\ OneAttempt' /\ Counted' /\ Readers'
      /\ Leaving' => Phases'
  <2>1. gtk # "loop" /\ gtk' # "loop"
    BY <1>1
  <2> QED
    BY <1>1, <2>1, GtkKept
<1>4. Leaving'
  <2>1. Off'
    BY <1>1, <1>2, <1>3 DEF Off
  <2> QED
    BY <1>1, <2>1 DEF Leaving
<1>5. TypeOK' /\ ~wild'
  <2>1. wild' = FALSE
    BY <1>1, <1>2
  <2> QED
    BY <1>1, <2>1 DEF SInv, TypeOK
<1> QED
  BY <1>3, <1>4, <1>5 DEF SInv

\* scp_destroy is called with a scope that is alive.
LEMMA QuitReadKeeps == SInv /\ DQuitRead => SInv'
<1> SUFFICES ASSUME SInv, DQuitRead PROVE SInv'
  OBVIOUS
<1>1. /\ gtk = "quitread" /\ gtk' = "joinread" /\ wild' = (scp \notin alive)
      /\ readkill' = readkill \cup {scp}
      /\ UNCHANGED <<role, pc, own, connects, scopes, alive, scp, plotkill, thdloopplot,
                     then, hasAddr, itmconnect, itmdisconnect, controls>>
  BY DEF DQuitRead, Follow, threadVars, plotVars, menuVars
<1>2. alive = {scp} /\ PlotOver
  BY <1>1 DEF SInv, Phases, Leaving
<1>3. /\ PlotOver' = PlotOver
      /\ Roles' /\ Plotter' /\ OneAttempt' /\ Counted' /\ Readers'
      /\ Leaving' => Phases'
  <2>1. gtk # "loop" /\ gtk' # "loop"
    BY <1>1
  <2> QED
    BY <1>1, <2>1, GtkKept
<1>4. Leaving'
  BY <1>1, <1>2, <1>3 DEF Leaving
<1>5. TypeOK' /\ ~wild'
  <2>1. wild' = FALSE /\ readkill' \subseteq Scopes
    BY <1>1, <1>2, Typed
  <2> QED
    BY <1>1, <2>1 DEF SInv, TypeOK
<1> QED
  BY <1>3, <1>4, <1>5 DEF SInv

\* The reading thread of the scope is joined: no other thread has it.
LEMMA FreeKeeps == SInv /\ DFree => SInv'
<1> SUFFICES ASSUME SInv, DFree PROVE SInv'
  OBVIOUS
<1>1. /\ gtk = "joinread" /\ gtk' = "update" /\ alive' = alive \ {scp}
      /\ UNCHANGED <<scopes, readkill, scp, plotkill, thdloopplot,
                     then, hasAddr, itmconnect, itmdisconnect, controls, wild>>
  BY DEF DFree, plotVars, menuVars
<1>t. PICK t \in Ids : role[t] = "read" /\ own[t] = scp /\ pc[t] = "ended" /\ Goto(t, "free")
  BY DEF DFree
<1>2. alive = {scp} /\ PlotOver /\ alive' = {}
  BY <1>1 DEF SInv, Phases, Leaving
<1>3. /\ pc' \in [Ids -> Places] /\ pc'[t] = "free"
      /\ \A u \in Ids : u # t => pc'[u] = pc[u]
      /\ UNCHANGED <<role, own, connects>>
      /\ Threads("conn")' = Threads("conn")
      /\ Threads("plot")' = Threads("plot")
  <2>1. "free" \in Places
    BY DEF Places
  <2> QED
    BY <1>t, <2>1, GotoThreads
<1>4. Threads("conn") = {} /\ (thdloopplot # 0 => pc'[thdloopplot] = pc[thdloopplot])
  BY <1>1, <1>3, <1>t, Typed DEF SInv, Plotter, OneAttempt, Connecting
<1>5. Roles' /\ Plotter' /\ OneAttempt'
  BY <1>1, <1>3, <1>4, <1>t DEF SInv, Roles, Plotter, OneAttempt, Connecting
<1>6. Counted'
  BY <1>1, <1>3, <1>4 DEF SInv, Counted
<1>7. Readers'
  <2>1. ASSUME NEW u \in Ids, role[u] = "read", u # t, pc[u] \notin {"free", "ended"}
        PROVE  FALSE
    <3>1. own[u] = scp
      BY <1>2, <2>1 DEF SInv, Readers
    <3> QED
      BY <1>t, <2>1, <3>1 DEF SInv, Readers
  <2>2. ASSUME NEW u \in Ids, role'[u] = "read"
        PROVE  /\ own'[u] \in 1 .. scopes'
               /\ pc'[u] \in {"free", "ended"}
    BY <1>1, <1>3, <2>1, <2>2, <1>t DEF SInv, Readers
  <2>3. \A u, v \in Ids : role'[u] = "read" /\ role'[v] = "read" /\ own'[u] = own'[v] => u = v
    BY <1>3 DEF SInv, Readers
  <2> QED
    BY <2>2, <2>3 DEF Readers
<1>8. Phases'
  <2>1. PlotOver'
    BY <1>1, <1>2, <1>3, <1>4, PlotKept
  <2> QED
    BY <1>1, <1>2, <1>3, <1>4, <2>1 DEF Phases, Leaving
<1>9. TypeOK' /\ ~wild'
  BY <1>1, <1>2, <1>3 DEF SInv, TypeOK
<1> QED
  BY <1>5, <1>6, <1>7, <1>8, <1>9 DEF SInv

\* The items and controls are those of no connection.
LEMMA UpdateKeeps == SInv /\ DUpdate => SInv'
<1> SUFFICES ASSUME SInv, DUpdate PROVE SInv'
  OBVIOUS
<1>1. /\ gtk = "update" /\ gtk' = "return"
      /\ controls' = FALSE /\ itmconnect' = TRUE /\ itmdisconnect' = FALSE
      /\ UNCHANGED <<role, pc, own, connects, scopes, alive, readkill, scp, plotkill, thdloopplot,
                     then, hasAddr, wild>>
  BY DEF DUpdate, threadVars, scopeVars, plotVars
<1>2. alive = {} /\ PlotOver
  BY <1>1 DEF SInv, Phases, Leaving
<1>3. /\ PlotOver' = PlotOver
      /\ Roles' /\ Plotter' /\ OneAttempt' /\ Counted' /\ Readers'
      /\ Leaving' => Phases'
  <2>1. gtk # "loop" /\ gtk' # "loop"
    BY <1>1
  <2> QED
    BY <1>1, <2>1, GtkKept
<1>4. Leaving'
  <2>1. Off'
    BY <1>1, <1>2, <1>3 DEF Off
  <2> QED
    BY <1>1, <2>1 DEF Leaving
<1>5. TypeOK' /\ ~wild'
  BY <1>1 DEF SInv, TypeOK
<1> QED
  BY <1>3, <1>4, <1>5 DEF SInv

\* Back to the main loop, or into the next attempt.
LEMMA ReturnKeeps == ASSUME FreshIds PROVE SInv /\ DReturn => SInv'
<1> SUFFICES ASSUME SInv, DReturn PROVE SInv'
  OBVIOUS
<1>1. /\ gtk = "return" /\ gtk' = "loop" /\ then' = "loop"
      /\ UNCHANGED <<scopes, alive, readkill, scp, plotkill, thdloopplot, hasAddr,
                     itmconnect, itmdisconnect, controls, wild>>
  BY DEF DReturn, scopeVars, plotVars, menuVars
<1>2. Off /\ Threads("conn") = {}
  BY <1>1 DEF SInv, Phases, Leaving, OneAttempt, Connecting
<1>3. CASE then = "connect"
  <2>1. connects' = connects + 1 /\ connects < MaxConnects
    BY <1>3 DEF DReturn, SInv, Counted
  <2>2. PICK t \in Available : Create(t, "conn", "addr", 0)
    BY <1>3 DEF DReturn
  <2> QED
    BY <1>1, <1>2, <2>1, <2>2, Starts
<1>4. CASE then # "connect"
  <2>1. UNCHANGED <<role, pc, own, connects>>
    BY <1>4 DEF DReturn, threadVars
  <2>2. Threads("conn")' = {} /\ Threads("plot")' = Threads("plot")
    BY <1>2, <2>1 DEF Threads
  <2>3. Off'
    BY <1>1, <1>2, <2>1, <2>2 DEF Off, PlotOver
  <2>4. Roles' /\ Readers' /\ Plotter'
    BY <1>1, <2>1, <2>2 DEF SInv, Roles, Readers, Plotter
  <2>5. Counted' /\ OneAttempt'
    BY <1>1, <2>1, <2>2 DEF SInv, Counted, OneAttempt, Connecting
  <2>6. Phases'
    BY <1>1, <2>2, <2>3 DEF Phases, Leaving
  <2>7. TypeOK' /\ ~wild'
    BY <1>1, <2>1 DEF SInv, TypeOK
  <2> QED
    BY <2>4, <2>5, <2>6, <2>7 DEF SInv
<1> QED
  BY <1>3, <1>4

(***************************************************************************)
(* The theorems                                                            *)
(***************************************************************************)

\* main has started the first attempt.
LEMMA SInit == Init => SInv
<1> SUFFICES ASSUME Init PROVE SInv
  OBVIOUS
<1>1. /\ MaxConnects \in Nat \ {0} /\ 1 \in Ids
      /\ \A t \in Ids : t \in Int
  BY SessionAssumption DEF Ids
<1>2. /\ role = [t \in Ids |-> IF t = 1 THEN "conn" ELSE "none"]
      /\ pc = [t \in Ids |-> IF t = 1 THEN "addr" ELSE "free"]
      /\ own = [t \in Ids |-> 0]
      /\ connects = 1 /\ scopes = 0 /\ alive = {} /\ readkill = {} /\ scp = 0
      /\ plotkill = FALSE /\ thdloopplot = 0
      /\ gtk = "loop" /\ then = "loop" /\ hasAddr \in BOOLEAN
      /\ itmconnect = TRUE /\ itmdisconnect = TRUE /\ controls = FALSE /\ wild = FALSE
  BY DEF Init
<1>3. Threads("conn") = {1} /\ Threads("plot") = {}
  <2>1. /\ role[1] = "conn" /\ pc[1] = "addr"
        /\ \A t \in Ids : t # 1 => role[t] = "none" /\ pc[t] = "free"
    BY <1>1, <1>2
  <2> QED
    BY <1>1, <2>1 DEF Threads
<1>4. TypeOK
  <2>1. /\ role \in [Ids -> {"none", "conn", "plot", "read"}]
        /\ pc \in [Ids -> Places] /\ own \in [Ids -> 0 .. MaxConnects]
    BY <1>1, <1>2 DEF Places
  <2>2. /\ connects \in 1 .. MaxConnects /\ scopes \in 0 .. MaxConnects
        /\ scp \in 0 .. MaxConnects /\ thdloopplot \in 0 .. 3 * MaxConnects
    BY <1>1, <1>2
  <2>3. {hasAddr, itmconnect, itmdisconnect, controls, wild} \subseteq BOOLEAN
    BY <1>2
  <2> QED
    BY <1>2, <2>1, <2>2, <2>3 DEF TypeOK
<1>5. Roles /\ Readers
  BY <1>1, <1>2 DEF Roles, Readers, ConnPlaces
<1>6. Counted
  BY <1>2 DEF Counted
<1>7. OneAttempt /\ Plotter
  BY <1>2, <1>3 DEF OneAttempt, Plotter
<1>8. Phases
  <2>1. Off
    BY <1>2, <1>3 DEF Off, PlotOver
  <2>2. \A t \in Threads("conn") : t = 1
    BY <1>3
  <2>3. Trying(1)
    BY <1>1, <1>2, <2>1 DEF Trying
  <2> QED
    BY <1>2, <1>3, <2>2, <2>3 DEF Phases, Leaving, Connecting
<1> QED
  BY <1>2, <1>4, <1>5, <1>6, <1>7, <1>8 DEF SInv

\* Nothing happens.
LEMMA StutterKeeps == SInv /\ UNCHANGED vars => SInv'
<1> SUFFICES ASSUME SInv, UNCHANGED vars PROVE SInv'
  OBVIOUS
<1>1. UNCHANGED <<role, pc, own, connects, scopes, alive, readkill, scp, plotkill, thdloopplot,
                  gtk, then, hasAddr, itmconnect, itmdisconnect, controls, wild>>
  BY DEF vars, threadVars, scopeVars, plotVars, gtkVars, menuVars
<1>3. \A r : Threads(r)' = Threads(r)
  BY <1>1 DEF Threads
<1>4. Off' = Off /\ On' = On /\ PlotEnds' = PlotEnds /\ PlotOver' = PlotOver /\ PlotRuns' = PlotRuns
  BY <1>1, <1>3 DEF Off, On, PlotOver, PlotRuns, PlotEnds
<1>5. Roles' /\ Readers' /\ Plotter'
  BY <1>1, <1>3 DEF SInv, Roles, Readers, Plotter
<1>6. Counted' /\ OneAttempt'
  BY <1>1, <1>3 DEF SInv, Counted, OneAttempt, Connecting
<1>7. Phases'
  <2>1. \A u \in Threads("conn") : Trying(u)' = Trying(u)
    BY <1>1, <1>3, <1>4 DEF Trying, OnItems
  <2> QED
    BY <1>1, <1>3, <1>4, <2>1 DEF SInv, Phases, Leaving, Connecting
<1>8. TypeOK' /\ ~wild'
  BY <1>1 DEF SInv, TypeOK
<1> QED
  BY <1>5, <1>6, <1>7, <1>8 DEF SInv

\* Every step of the user, gui_disconnect or a thread keeps the invariant.
LEMMA SStep ==
  ASSUME Patient, FreshIds, ~EarlyTrigger
  PROVE  SInv /\ [Next]_vars => SInv'
<1> SUFFICES ASSUME SInv, [Next]_vars PROVE SInv'
  OBVIOUS
<1>1. CASE \E t \in Ids : ThreadStep(t)
  <2>1. PICK t \in Ids : ThreadStep(t)
    BY <1>1
  <2>2. CASE ConnectStep(t)
    BY <2>2, AddrKeeps, NewKeeps, NewFailsKeeps, FailKeeps, MenusKeeps, PublishKeeps,
       PlotKeeps, PushKeeps, EnableKeeps DEF ConnectStep
  <2>3. CASE PlotStep(t)
    BY <2>3, TopKeeps, PlotPushKeeps DEF PlotStep
  <2>4. CASE ReadStep(t)
    BY <2>4, ReaderKeeps
  <2> QED
    BY <2>1, <2>2, <2>3, <2>4 DEF ThreadStep
<1>2. CASE DisconnectStep
  BY <1>2, QuitPlotKeeps, JoinPlotKeeps, AlreadyJoinedKeeps, QuitReadKeeps, FreeKeeps,
     UpdateKeeps, ReturnKeeps DEF DisconnectStep
<1>3. CASE ChooseConnect
  BY <1>3, ChooseConnectKeeps
<1>4. CASE ChooseDisconnect \/ \E typed \in BOOLEAN : PrefsConnect(typed)
  BY <1>4, LeaveKeeps
<1>5. CASE TouchControl
  BY <1>5, TouchKeeps
<1>6. CASE UNCHANGED vars
  BY <1>6, StutterKeeps
<1> QED
  BY <1>1, <1>2, <1>3, <1>4, <1>5, <1>6 DEF Next

\* The connection is always where its threads, pointers and items say.
THEOREM ConnectionInvariant ==
  ASSUME Patient, FreshIds, ~EarlyTrigger
  PROVE  Spec => []SInv
BY SInit, SStep, PTL DEF Spec

\* gui->scp, the channels' scp and gui_connect's own pointer are never
\* followed when they are NULL or their scope has been freed.
THEOREM NoStaleScopeFollowed ==
  ASSUME Patient, FreshIds, ~EarlyTrigger
  PROVE  Spec => []NoStaleScope
<1>1. SInv => NoStaleScope
  BY DEF SInv, NoStaleScope
<1> QED
  BY <1>1, ConnectionInvariant, PTL

\* There is no scope, or one; then gui->scp is it, or gui_connect has it.
LEMMA AliveFacts ==
  ASSUME SInv
  PROVE  /\ alive = {} \/ \E s : alive = {s}
         /\ \A s \in alive : s = scp \/ \E t \in Threads("conn") : own[t] = s
<1>1. CASE Connecting
  <2>1. PICK u \in Threads("conn") : TRUE
    BY <1>1 DEF Connecting
  <2>2. Trying(u) /\ pc[u] \in ConnPlaces
    BY DEF SInv, Phases, Roles, Threads
  <2>3. alive = {} \/ alive = {own[u]}
    BY <2>2 DEF Trying, ConnPlaces, Off
  <2> QED
    BY <2>1, <2>3
<1>2. CASE ~Connecting
  <2>1. gtk \in {"loop", "quitplot", "joinplot", "quitread", "joinread", "update", "return"}
    BY DEF SInv, TypeOK
  <2>2. alive = {} \/ alive = {scp}
    BY <1>2, <2>1 DEF SInv, Phases, Leaving, Off, On, PlotEnds
  <2> QED
    BY <2>2
<1> QED
  BY <1>1, <1>2

\* There is at most one scope with its threads, only gui_connect has one that
\* is not gui->scp, and no second plotting thread runs beside the first.
THEOREM OneConnection ==
  ASSUME Patient, FreshIds, ~EarlyTrigger
  PROVE  Spec => []TheConnection
<1>1. SInv => TheConnection
  <2> SUFFICES ASSUME SInv PROVE TheConnection
    OBVIOUS
  <2>1. TypeOK
    BY DEF SInv
  <2>2. \A S : (\A s, t \in S : s = t) => Cardinality(S) <= 1
    <3> SUFFICES ASSUME NEW S, \A s, t \in S : s = t PROVE Cardinality(S) <= 1
      OBVIOUS
    <3>1. CASE S = {}
      <4>1. Cardinality(S) = 0
        BY <3>1, FS_EmptySet
      <4> QED
        BY <4>1
    <3>2. CASE S # {}
      <4>1. PICK s : S = {s}
        BY <3>2
      <4>2. Cardinality({s}) = 1
        BY FS_Singleton
      <4> QED
        BY <4>1, <4>2
    <3> QED
      BY <3>1, <3>2
  <2>3. \A s, t \in alive : s = t
    BY AliveFacts
  <2>4. \A s, t \in Threads("plot") : s = t
    BY DEF SInv, Plotter
  <2>5. \A s \in alive : s = scp \/ \E t \in Threads("conn") : own[t] = s
    BY AliveFacts
  <2> QED
    BY <2>1, <2>2, <2>3, <2>4, <2>5 DEF TheConnection
<1> QED
  BY <1>1, ConnectionInvariant, PTL

\* What gui_disconnect joins is the plotting thread, and "Already joined" is
\* said when there is no scope left to destroy.
THEOREM JoinsFit ==
  ASSUME Patient, FreshIds, ~EarlyTrigger
  PROVE  Spec => []JoinFits
<1>1. SInv => JoinFits
  <2> SUFFICES ASSUME SInv, gtk = "joinplot"
               PROVE  /\ thdloopplot # 0
                      /\ IF pc[thdloopplot] = "free"
                           THEN scp \notin alive /\ Threads("plot") = {}
                           ELSE role[thdloopplot] = "plot"
    BY DEF JoinFits
  <2>1. scp # 0 /\ (Off \/ PlotEnds)
    BY DEF SInv, Phases, Leaving
  <2>2. thdloopplot # 0 /\ role[thdloopplot] = "plot"
    BY <2>1 DEF SInv, Plotter, Off, PlotOver, PlotEnds
  <2>3. ASSUME pc[thdloopplot] = "free" PROVE scp \notin alive /\ Threads("plot") = {}
    BY <2>1, <2>3 DEF Off, PlotOver, PlotEnds
  <2> QED
    BY <2>2, <2>3
<1> QED
  BY <1>1, ConnectionInvariant, PTL

\* When nobody is connecting or disconnecting, the sensitive items and
\* controls are those that make sense.
THEOREM ItemsFit ==
  ASSUME Patient, FreshIds, ~EarlyTrigger
  PROVE  Spec => []ItemsAgree
<1>1. SInv => ItemsAgree
  <2> SUFFICES ASSUME SInv, gtk = "loop", ~Connecting
               PROVE  IF alive = {}
                        THEN itmconnect /\ ~controls
                        ELSE ~itmconnect /\ itmdisconnect /\ controls /\ Threads("plot") # {}
    BY DEF ItemsAgree
  <2>1. Off \/ On
    BY DEF SInv, Phases
  <2>2. CASE Off
    BY <2>2 DEF Off
  <2>3. CASE On
    <3>1. thdloopplot \in Ids /\ role[thdloopplot] = "plot" /\ pc[thdloopplot] \in {"top", "push"}
      BY <2>3, Typed DEF On, PlotRuns, SInv, Plotter
    <3>2. thdloopplot \in Threads("plot")
      BY <3>1 DEF Threads
    <3> QED
      BY <2>3, <3>2 DEF On
  <2> QED
    BY <2>1, <2>2, <2>3
<1> QED
  BY <1>1, ConnectionInvariant, PTL

\* What the user may expect.
State == IF gtk # "loop" THEN IF Waits THEN "waiting" ELSE "leaving"
         ELSE IF Connecting THEN "trying"
         ELSE IF controls THEN "on" ELSE "off"

\* The program begins with an attempt.
LEMMA ConnectionInit == Init => C!Init
<1> SUFFICES ASSUME Init PROVE C!Init
  OBVIOUS
<1>1. 1 \in Ids /\ gtk = "loop" /\ role[1] = "conn" /\ pc[1] = "addr"
  BY SessionAssumption DEF Init, Ids
<1>2. Connecting
  BY <1>1 DEF Connecting, Threads
<1> QED
  BY <1>1, <1>2 DEF C!Init

\* A step of gui_connect is a step of the attempt, its end or nothing.
LEMMA AttemptStep ==
  ASSUME NEW t \in Ids, SInv, SInv', ConnectStep(t)
  PROVE  State = "trying" /\ State' \in {"trying", "off", "on"}
<1>1. /\ role[t] = "conn" /\ pc[t] \notin {"free", "ended"} /\ UNCHANGED gtk
  BY DEF ConnectStep, CAddr, CNew, CNewFails, CFail, CMenus, CPublish, CPlot, CPush, CEnable, gtkVars
<1>2. t \in Threads("conn") /\ Connecting
  BY <1>1 DEF Threads, Connecting
<1>3. gtk = "loop" /\ gtk' = "loop"
  BY <1>1, <1>2 DEF SInv, OneAttempt
<1> QED
  BY <1>2, <1>3 DEF State

\* A thread of a connection does not begin or end one; it may keep the user
\* waiting, and no more when it has ended.
LEMMA ThreadsStep ==
  ASSUME NEW t \in Ids, SInv, PlotStep(t) \/ ReadStep(t)
  PROVE  \/ State' = State
         \/ State \in {"leaving", "waiting"} /\ State' \in {"leaving", "waiting"}
<1>1. /\ role[t] # "conn" /\ UNCHANGED <<gtk, controls>>
      /\ \E q \in Places : Goto(t, q)
  BY DEF PlotStep, ReadStep, PTop, PPush, RTest, RPacket, RTrg, RTrgPush, gtkVars, menuVars, Places
<1>2. Threads("conn")' = Threads("conn")
  BY <1>1, GotoThreads
<1>3. CASE gtk = "loop"
  BY <1>1, <1>2, <1>3 DEF State, Connecting
<1>4. CASE gtk # "loop"
  BY <1>1, <1>4 DEF State
<1> QED
  BY <1>3, <1>4

\* The step of the connection a step of the program is.
LEMMA ConnectionStep ==
  ASSUME Patient, FreshIds, ~EarlyTrigger, SInv, SInv', [Next]_vars
  PROVE  \/ State' = State
         \/ State = "trying" /\ State' \in {"on", "off"}
         \/ State \in {"off", "leaving"} /\ State' = "trying"
         \/ State \in {"on", "off"} /\ State' = "leaving"
         \/ State = "leaving" /\ State' \in {"off", "waiting"}
         \/ State = "waiting" /\ State' = "leaving"
<1>1. CASE \E t \in Ids : ThreadStep(t)
  <2>1. PICK t \in Ids : ThreadStep(t)
    BY <1>1
  <2>2. CASE ConnectStep(t)
    BY <2>2, AttemptStep
  <2>3. CASE PlotStep(t) \/ ReadStep(t)
    BY <2>3, ThreadsStep
  <2> QED
    BY <2>1, <2>2, <2>3 DEF ThreadStep
<1>2. CASE DisconnectStep /\ ~DReturn
  <2>1. gtk # "loop" /\ gtk' # "loop"
    BY <1>2 DEF DisconnectStep, DQuitPlot, DJoinPlot, DAlreadyJoined, DQuitRead, DFree, DUpdate
  <2> QED
    BY <2>1 DEF State
<1>3. CASE DReturn
  <2>1. gtk = "return" /\ gtk' = "loop" /\ UNCHANGED controls
    BY <1>3 DEF DReturn, menuVars
  <2>2. ~controls
    BY <2>1 DEF SInv, Phases, Leaving, Off
  <2>3. ~Waits
    BY <2>1 DEF Waits
  <2> QED
    BY <2>1, <2>2, <2>3 DEF State
<1>4. CASE ChooseConnect
  <2>1. MayChoose /\ itmconnect /\ UNCHANGED <<gtk, controls>>
    BY <1>4 DEF ChooseConnect, gtkVars, menuVars
  <2>2. gtk = "loop" /\ Threads("conn") = {} /\ Off
    BY <2>1, Chooses DEF On
  <2> QED
    BY <2>1, <2>2 DEF State, Connecting, Off
<1>5. CASE ChooseDisconnect \/ \E typed \in BOOLEAN : PrefsConnect(typed)
  <2>1. MayChoose /\ gtk' = "quitplot"
    BY <1>5 DEF ChooseDisconnect, PrefsConnect
  <2>2. gtk = "loop" /\ Threads("conn") = {}
    BY <2>1, Chooses
  <2>3. ~Waits'
    BY <2>1 DEF Waits
  <2> QED
    BY <2>1, <2>2, <2>3 DEF State, Connecting
<1>6. CASE TouchControl \/ UNCHANGED vars
  <2>1. UNCHANGED <<role, pc, own, gtk, controls, scp, readkill, plotkill, thdloopplot>>
    BY <1>6 DEF TouchControl, vars, threadVars, scopeVars, gtkVars, menuVars, plotVars
  <2>2. \A r : Threads(r)' = Threads(r)
    BY <2>1 DEF Threads
  <2> QED
    BY <2>1, <2>2 DEF State, Connecting, Waits
<1> QED
  BY <1>1, <1>2, <1>3, <1>4, <1>5, <1>6 DEF Next

\* The threads, pointers and menu items make one connection that is off,
\* tried, on or left, perhaps waiting for its threads, and nothing else.
THEOREM ConnectionImplemented ==
  ASSUME Patient, FreshIds, ~EarlyTrigger
  PROVE  Spec => C!Init /\ [][C!Next]_State
<1>1. SInv /\ SInv' /\ [Next]_vars => [C!Next]_State
  <2> SUFFICES ASSUME SInv, SInv', [Next]_vars PROVE [C!Next]_State
    OBVIOUS
  <2> QED
    BY ConnectionStep DEF State, C!Next, C!Try, C!Succeed, C!Fail, C!Leave, C!Left, C!Wait,
       C!Resume
<1> QED
  BY <1>1, ConnectionInit, ConnectionInvariant, PTL DEF Spec

================================================================================
