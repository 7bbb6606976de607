----------------------------- MODULE PacketChannel -----------------------------
(***************************************************************************)
(* What the reader of the VICP stream promises to the handlers of answers  *)
(* and service requests: they are given the packets the instrument sent,   *)
(* each once, whole and in order, all of them as long as the connection is *)
(* open.  ScpQueue takes packets from such a channel.                      *)
(***************************************************************************)
EXTENDS Naturals, Sequences

CONSTANT Packets

VARIABLES
  sent,    \* the packets sent so far
  given,   \* the packets given to a handler so far
  open     \* does the connection stand, and does the program want packets?

chan == <<sent, given, open>>

Init == sent = <<>> /\ given = <<>> /\ open = TRUE

Send(p) ==
  /\ sent' = Append(sent, p)
  /\ UNCHANGED <<given, open>>

\* Packets that have arrived may still be given out after the channel is closed.
Give ==
  /\ Len(given) < Len(sent)
  /\ given' = Append(given, sent[Len(given) + 1])
  /\ UNCHANGED <<sent, open>>

Close == open /\ open' = FALSE /\ UNCHANGED <<sent, given>>

Next == (\E p \in Packets : Send(p)) \/ Give \/ Close

Spec == Init /\ [][Next]_chan /\ WF_chan(open /\ Give)
================================================================================
