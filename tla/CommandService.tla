--------------------------- MODULE CommandService ---------------------------
(***************************************************************************)
(* What scp.c promises to the rest of wavejet: commands handed to          *)
(* scp_cmd_push go to the instrument one at a time and in the order they   *)
(* were pushed; a command with a reply handler keeps the line to itself    *)
(* until the last packet of its answer has been given to that handler;     *)
(* while the service is open every command gets its turn.  No threads, no  *)
(* locks, no socket: ScpQueue is the implementation.                       *)
(***************************************************************************)
EXTENDS Naturals, Sequences

VARIABLES
  submitted,   \* number of commands accepted so far; a command's id is its rank
  waiting,     \* accepted and not yet sent, oldest first
  current,     \* the query being answered, NoCmd when there is none
  delivered,   \* id of the last query whose answer is complete
  open         \* the owner has not asked for the service to stop

svars == <<submitted, waiting, current, delivered, open>>

Nothing == [id |-> 0, hdlr |-> FALSE]

Init ==
  /\ submitted = 0
  /\ waiting = <<>>
  /\ current = Nothing
  /\ delivered = 0
  /\ open = TRUE

\* A client hands over a command; hasHandler tells a query from a setting.
Submit(hasHandler) ==
  /\ submitted' = submitted + 1
  /\ waiting' = Append(waiting, [id |-> submitted + 1, hdlr |-> hasHandler])
  /\ UNCHANGED <<current, delivered, open>>

\* The oldest waiting command goes out, provided no answer is outstanding.
Send ==
  /\ current = Nothing
  /\ waiting # <<>>
  /\ waiting' = Tail(waiting)
  /\ current' = IF Head(waiting).hdlr THEN Head(waiting) ELSE Nothing
  /\ UNCHANGED <<submitted, delivered, open>>

\* The last packet of the answer reaches the handler of the query.
Complete ==
  /\ current # Nothing
  /\ delivered' = current.id
  /\ current' = Nothing
  /\ UNCHANGED <<submitted, waiting, open>>

Close ==
  /\ open
  /\ open' = FALSE
  /\ UNCHANGED <<submitted, waiting, current, delivered>>

Next ==
  \/ \E hasHandler \in BOOLEAN : Submit(hasHandler)
  \/ Send
  \/ Complete
  \/ Close

\* An open service keeps going; a closing one may stop anywhere.
Fairness ==
  /\ WF_svars(open /\ Send)
  /\ WF_svars(open /\ Complete)

Spec == Init /\ [][Next]_svars /\ Fairness
=============================================================================
