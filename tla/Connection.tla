------------------------------ MODULE Connection ------------------------------
(***************************************************************************)
(* What the user may expect of the File menu and the preferences window:   *)
(* there is one connection, it is off, tried, on or being left.  Trying    *)
(* does not last for ever; leaving may, but only because the connection's  *)
(* own threads do not end.  No threads, no pointers.                       *)
(***************************************************************************)
VARIABLE state   \* "off", "trying", "on", "leaving", "waiting"

Init == state = "trying"   \* the program connects when it starts

Try == state \in {"off", "leaving"} /\ state' = "trying"

Succeed == state = "trying" /\ state' = "on"

Fail == state = "trying" /\ state' = "off"

\* The preferences window leaves a connection also when there is none.
Leave == state \in {"on", "off"} /\ state' = "leaving"

Left == state = "leaving" /\ state' = "off"

\* A thread of the connection has not ended yet.
Wait == state = "leaving" /\ state' = "waiting"

Resume == state = "waiting" /\ state' = "leaving"

Next == Try \/ Succeed \/ Fail \/ Leave \/ Left \/ Wait \/ Resume

\* Leaving ends, possibly in a new attempt.
Gone == Left \/ (state = "leaving" /\ Try)

\* There is not always something more to wait for.
Fairness == WF_state(Succeed \/ Fail) /\ SF_state(Gone)

Spec == Init /\ [][Next]_state /\ Fairness
================================================================================
