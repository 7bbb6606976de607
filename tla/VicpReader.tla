------------------------------- MODULE VicpReader -------------------------------
(***************************************************************************)
(* scp_read down to its calls of read(): how the thread finds the packets  *)
(* in a stream of bytes that comes in pieces of any size, what it does     *)
(* with a packet longer than its buffer, and what happens to it when the   *)
(* connection is lost.  Which command a packet is given to is in ScpQueue. *)
(*                                                                         *)
(* A byte is the number of its packet and its rank in it, header first.    *)
(* sizeof(header) is taken to be the 8 bytes of a VICP header, which it is *)
(* where size_t has 32 bits.                                               *)
(***************************************************************************)
EXTENDS Integers, Sequences

CONSTANTS
  HeaderLen,    \* sizeof(header)
  Bunch,        \* BUNCHSIZE
  Dust,         \* DUSTHEAP
  Lens,         \* lengths of packets
  Flags,        \* ways to dispatch a packet: "srq", "last", "part"
  MaxPackets    \* bound: packets sent

ASSUME VicpAssumption ==
  /\ HeaderLen \in Nat \ {0} /\ Bunch \in Nat \ {0} /\ Dust \in Nat \ {0}
  /\ Lens \subseteq Nat
  /\ Flags \subseteq {"srq", "last", "part"}
  /\ MaxPackets \in Nat

VARIABLES
  sent,      \* packets the instrument has sent
  wire,      \* bytes that have not been read
  conn,      \* "up", "reset" (the next read() returns -1), "eof" (0)
  place,     \* "top", "header", "data", "dust", "ended"
  rdc,       \* bytes counted by the loop the thread is in
  hbuf,      \* bytes in h
  h,         \* the header as read: [len, flag]
  strdata,   \* bytes of this packet in strdata
  leftover,
  handled,   \* history: what the handlers were given: [len, flag, data]
  readkill

wireVars == <<sent, wire, conn>>
bufVars == <<hbuf, h, strdata, leftover>>
vars == <<wireVars, place, rdc, bufVars, handled, readkill>>

Packets == [len : Lens, flag : Flags]

NoHeader == [len |-> 0, flag |-> "part"]

\* Bytes from .. to of packet n, in the order they are sent.
Bytes(n, from, to) == [i \in 1 .. to - from + 1 |-> <<n, from + i - 1>>]

Smaller(a, b) == IF a < b THEN a ELSE b

Init ==
  /\ sent = <<>> /\ wire = <<>> /\ conn = "up"
  /\ place = "top" /\ rdc = 0
  /\ hbuf = <<>> /\ h = NoHeader /\ strdata = <<>> /\ leftover = 0
  /\ handled = <<>> /\ readkill = FALSE

(***************************************************************************)
(* The instrument, the network, the other threads                          *)
(***************************************************************************)
Send(p) ==
  /\ conn = "up" /\ Len(sent) < MaxPackets
  /\ sent' = Append(sent, p)
  /\ wire' = wire \o Bytes(Len(sent'), 1, HeaderLen + p.len)
  /\ UNCHANGED <<conn, place, rdc, bufVars, handled, readkill>>

\* The connection ends, in the middle of a packet perhaps; a part of what is
\* under way arrives.
Lose ==
  /\ conn = "up"
  /\ conn' \in {"reset", "eof"}
  /\ \E n \in 0 .. Len(wire) : wire' = SubSeq(wire, 1, n)
  /\ UNCHANGED <<sent, place, rdc, bufVars, handled, readkill>>

\* scp_destroy
Kill ==
  /\ ~readkill /\ readkill' = TRUE
  /\ UNCHANGED <<wireVars, place, rdc, bufVars, handled>>

(***************************************************************************)
(* read()                                                                  *)
(***************************************************************************)

\* n bytes are there and wanted.  With none there, read() blocks while the
\* connection stands and returns 0 at its end, which changes nothing: the
\* loop around it turns for ever.
Takes(n, wanted) ==
  /\ n <= wanted /\ n <= Len(wire)
  /\ wire' = SubSeq(wire, n + 1, Len(wire))
  /\ rdc' = rdc + n

Some(n) == SubSeq(wire, 1, n)

\* The condition of the loop the thread is in.  rdc is converted to the
\* unsigned type of h.len in the second, not in the third.
Reading ==
  \/ place = "header" /\ rdc < HeaderLen
  \/ place = "data" /\ 0 <= rdc /\ rdc < h.len /\ rdc < Bunch
  \/ place = "dust" /\ rdc < leftover

\* read() fails once, and the count goes back.
RFails ==
  /\ Reading
  /\ conn = "reset" /\ wire = <<>>
  /\ rdc' = rdc - 1
  /\ conn' = "eof"
  /\ UNCHANGED <<sent, wire, place, bufVars, handled, readkill>>

(***************************************************************************)
(* scp_read                                                                *)
(***************************************************************************)
RTop ==
  /\ place = "top"
  /\ place' = IF readkill THEN "ended" ELSE "header"
  /\ rdc' = 0 /\ hbuf' = <<>>
  /\ UNCHANGED <<wireVars, h, strdata, leftover, handled, readkill>>

RHeader ==
  /\ place = "header" /\ Reading
  /\ \E n \in 1 .. HeaderLen :
       Takes(n, HeaderLen - rdc) /\ hbuf' = hbuf \o Some(n)
  /\ UNCHANGED <<sent, conn, place, h, strdata, leftover, handled, readkill>>

\* The bytes of the header say how long the packet is and what it is for.
RLength ==
  /\ place = "header" /\ ~Reading
  /\ h' = LET n == hbuf[1][1]
          IN IF hbuf = Bytes(n, 1, HeaderLen) THEN sent[n] ELSE NoHeader
  /\ place' = "data" /\ rdc' = 0 /\ strdata' = <<>>
  /\ UNCHANGED <<wireVars, hbuf, leftover, handled, readkill>>

\* Mutation of Wanted: the end of the buffer is forgotten.
WantedAll == h.len - rdc

Wanted == Smaller(h.len - rdc, Bunch - rdc)

RData ==
  /\ place = "data" /\ Reading
  /\ \E n \in 1 .. Len(wire) :
       Takes(n, Wanted) /\ strdata' = strdata \o Some(n)
  /\ UNCHANGED <<sent, conn, place, hbuf, h, leftover, handled, readkill>>

\* Mutation of RDataEnd: what did not fit stays in the socket.
RDataEndNoDust ==
  /\ place = "data" /\ ~Reading
  /\ leftover' = 0
  /\ place' = "dust" /\ rdc' = 0
  /\ UNCHANGED <<wireVars, hbuf, h, strdata, handled, readkill>>

RDataEnd ==
  /\ place = "data" /\ ~Reading
  /\ leftover' = h.len - rdc
  /\ place' = "dust" /\ rdc' = 0
  /\ UNCHANGED <<wireVars, hbuf, h, strdata, handled, readkill>>

\* Ditch what remains.
RDust ==
  /\ place = "dust" /\ Reading
  /\ \E n \in 1 .. Dust : Takes(n, Smaller(leftover - rdc, Dust))
  /\ UNCHANGED <<sent, conn, place, bufVars, handled, readkill>>

\* Mutation of RDispatch: an empty packet has no handler.
RDispatchSome ==
  /\ place = "dust" /\ ~Reading
  /\ handled' = IF h.len = 0 THEN handled
                ELSE Append(handled, [len |-> h.len, flag |-> h.flag, data |-> strdata])
  /\ place' = "top"
  /\ UNCHANGED <<wireVars, rdc, bufVars, readkill>>

\* Service request, end of an answer, or part of one: the handler is told the
\* length in the header.
RDispatch ==
  /\ place = "dust" /\ ~Reading
  /\ handled' = Append(handled, [len |-> h.len, flag |-> h.flag, data |-> strdata])
  /\ place' = "top"
  /\ UNCHANGED <<wireVars, rdc, bufVars, readkill>>

ReaderStep ==
  \/ RTop \/ RHeader \/ RLength \/ RData \/ RDataEnd \/ RDust \/ RDispatch \/ RFails

Next == (\E p \in Packets : Send(p)) \/ Lose \/ Kill \/ ReaderStep

\* The thread runs, and bytes that are sent arrive.
Spec == Init /\ [][Next]_vars /\ WF_vars(ReaderStep)

(***************************************************************************)
(* Properties                                                              *)
(***************************************************************************)
TypeOK ==
  /\ sent \in Seq(Packets)
  /\ wire \in Seq(Nat \X Nat)
  /\ conn \in {"up", "reset", "eof"}
  /\ place \in {"top", "header", "data", "dust", "ended"}
  /\ rdc \in Int /\ leftover \in Int
  /\ hbuf \in Seq(Nat \X Nat) /\ strdata \in Seq(Nat \X Nat)
  /\ h \in Packets \cup {NoHeader}
  /\ readkill \in BOOLEAN

\* read() never writes in front of or behind h and strdata: the count that is
\* its offset goes below zero (scp.c 737 adds -1) only when there is nothing
\* left to write.
InBuffers ==
  /\ TypeOK
  /\ Len(hbuf) <= HeaderLen
  /\ Len(strdata) <= Bunch
  /\ wire # <<>> => rdc >= 0
  /\ conn = "up" => rdc >= 0

\* Every packet is handled with its own length, flag and bytes, those that
\* fit into strdata, whatever came before it and however it was cut; and a
\* packet of which the connection kept something back is not handled, though
\* the loop for the data ends when the count is negative (scp.c 744).
HandledWhole ==
  \A i \in DOMAIN handled :
    /\ i \in DOMAIN sent
    /\ handled[i].len = sent[i].len /\ handled[i].flag = sent[i].flag
    /\ handled[i].data =
         Bytes(i, HeaderLen + 1, HeaderLen + Smaller(sent[i].len, Bunch))

\* The handlers are given the packets that were sent, in order, and all of
\* them as long as the connection stands and nobody destroys the scope.
Channel == INSTANCE PacketChannel WITH
  given <- [i \in DOMAIN handled |-> [len |-> handled[i].len, flag |-> handled[i].flag]],
  open <- conn = "up" /\ ~readkill

ImplementsChannel == Channel!Spec
================================================================================
