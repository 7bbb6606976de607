------------------------------ MODULE MCFunctions ------------------------------
(***************************************************************************)
(* Trace and Numbers in one run.  They have nothing to do with each other: *)
(* a trace is drawn while the number is the first one, and printed numbers *)
(* change while no trace is drawn.                                         *)
(***************************************************************************)
EXTENDS Trace, Numbers

\* Numbers with four digits of which the last is 0 or makes a tie, and those
\* about to become a power of ten, from 1 ps to 10 kV, and their neighbours.
MCValues ==
  [m : {m \in 1000 .. 9999 : m % 5 = 0 \/ m > 9990}, e : -15 .. 0, hair : {-1, 0, 1}]

First == [m |-> 1000, e |-> -3, hair |-> 0]

Init == Idle /\ NInit

Next ==
  \/ Draw /\ value = First /\ UNCHANGED numVars
  \/ Reprint /\ ~Drawing /\ UNCHANGED traceVars

Spec == Init /\ [][Next]_<<traceVars, numVars>>
================================================================================
