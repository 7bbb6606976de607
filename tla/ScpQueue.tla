------------------------------ MODULE ScpQueue ------------------------------
(***************************************************************************)
(* The command queue of scp.c and the threads that work on it:             *)
(*   - the threads that push (the GTK thread, gui_connect, gui_loopplot,   *)
(*     and the reader itself from the trigger handler gui_trg);            *)
(*   - scp_write, which sends the head of the queue to the instrument;     *)
(*   - scp_read, which hands the packets of the answer to the head's       *)
(*     handler and removes the head after the last packet;                 *)
(*   - the instrument at the other end of the socket (external);           *)
(*   - scp_destroy, run by one of the pushing threads.                     *)
(*                                                                         *)
(* A command is its rank in the order of the pushes and whether it has a   *)
(* reply handler.  A scp_cmd pointer is the command it points to; it       *)
(* dangles when that command has left the queue, because scp_cmd_pop frees *)
(* the cell.  scp_cmd_push is two steps, because it makes the new cell     *)
(* reachable before it takes mtxwrite to count it; everything done under   *)
(* one acquisition of a mutex by the other functions is one step.          *)
(***************************************************************************)
EXTENDS Naturals, Sequences

CONSTANTS
  Pushers,      \* the threads that call scp_cmd_push at will
  Destroyer,    \* the pusher that calls scp_destroy (gui_disconnect)
  Reader,       \* the thread running scp_read
  None,         \* nobody holds the mutex
  MaxCmds,      \* bound: a pusher starts no push once this many were made
  MaxParts,     \* bound: packets of an answer before its last one
  MaxTrg,       \* bound: service requests the instrument raises
  TrgBatch,     \* handler flags of the commands gui_trg pushes on a trigger
  PromptScope   \* may an answer end while scp_write is still busy with the query?

ASSUME ThreadsAssumption ==
  /\ Destroyer \in Pushers
  /\ Reader \notin Pushers
  /\ None \notin Pushers \cup {Reader}

ASSUME BoundsAssumption ==
  /\ MaxCmds \in Nat
  /\ MaxParts \in Nat
  /\ MaxTrg \in Nat
  /\ TrgBatch \in Seq(BOOLEAN)
  /\ PromptScope \in BOOLEAN

VARIABLES
  queue,       \* the list cmd_first .. cmd_last
  cmdc,        \* the command count
  mutex,       \* owner of mutex across the two steps of scp_cmd_push
  mtxwrite,    \* is mtxwrite held by scp_write between its test and its wait?
  digested,    \* the flag the writer waits for
  readkill, writekill,
  wpc, wcmd,   \* scp_write: place in the loop, local cmd
  rpc, rcmd,   \* scp_read: place in the loop, local cmd
  pkt,         \* scp_read: the packet in h and strdata
  trgleft,     \* commands gui_trg has still to push
  asked,       \* instrument: ids of the queries not fully answered, oldest first
  outbox,      \* packets on their way to scp_read
  parts,       \* instrument: packets sent of the answer under way
  trgs,        \* service requests raised
  phase,       \* "up", "freed" (scp_destroy is done), "segv"
  pushed,      \* history: number of pushes, the id of the newest command
  lastSent,    \* history: id of the last command written to the socket
  delivered    \* history: id of the last query whose handler saw the last packet

queueVars == <<queue, cmdc, mutex, pushed>>
writerVars == <<wpc, wcmd, lastSent>>
readerVars == <<rpc, rcmd, pkt, trgleft, delivered>>
scopeVars == <<asked, outbox, parts, trgs>>
killVars == <<readkill, writekill, phase>>
vars == <<queueVars, mtxwrite, digested, writerVars, readerVars, scopeVars, killVars>>

Command == [id : Nat \ {0}, hdlr : BOOLEAN]

\* The NULL pointer, in wcmd and rcmd.
NoCmd == [id |-> 0, hdlr |-> FALSE]

Packet == [kind : {"part", "last", "trig"}, id : Nat]

Queued(c) == \E k \in 1 .. Len(queue) : queue[k] = c

First == IF queue = <<>> THEN NoCmd ELSE Head(queue)

Init ==
  /\ queue = <<>> /\ cmdc = 0 /\ mutex = None /\ pushed = 0
  /\ mtxwrite = FALSE
  /\ digested = TRUE
  /\ wpc = "top" /\ wcmd = NoCmd /\ lastSent = 0
  /\ rpc = "top" /\ rcmd = NoCmd /\ trgleft = <<>> /\ delivered = 0
  /\ pkt = [kind |-> "part", id |-> 0]
  /\ asked = <<>> /\ outbox = <<>> /\ parts = 0 /\ trgs = 0
  /\ readkill = FALSE /\ writekill = FALSE /\ phase = "up"

Up == phase = "up"

(***************************************************************************)
(* scp_cmd_push                                                            *)
(***************************************************************************)

\* Mutation of Enqueue: the new cell goes to the front of the list.
EnqueueFirst(t, hasHandler) ==
  /\ mutex = None
  /\ mutex' = t
  /\ pushed' = pushed + 1
  /\ queue' = <<[id |-> pushed + 1, hdlr |-> hasHandler]>> \o queue
  /\ UNCHANGED cmdc

\* Lock mutex, make the cell and link it in as the last one.
Enqueue(t, hasHandler) ==
  /\ mutex = None
  /\ mutex' = t
  /\ pushed' = pushed + 1
  /\ queue' = Append(queue, [id |-> pushed + 1, hdlr |-> hasHandler])
  /\ UNCHANGED cmdc

\* Mutation of SignalWriter: no signal.
NoSignal == UNCHANGED wpc

\* pthread_cond_signal(cndwrite): only scp_write ever waits there.
SignalWriter == wpc' = IF wpc = "wait" THEN "woken" ELSE wpc

PushStart(t, hasHandler) ==
  /\ Up
  /\ pushed < MaxCmds
  /\ t = Destroyer => ~readkill
  /\ Enqueue(t, hasHandler)
  /\ UNCHANGED <<mtxwrite, digested, writerVars, readerVars, scopeVars, killVars>>

\* Count the command under mtxwrite, signal, release both mutexes.
PushFinish(t) ==
  /\ Up
  /\ mutex = t
  /\ ~mtxwrite
  /\ cmdc' = cmdc + 1
  /\ SignalWriter
  /\ mutex' = None
  /\ UNCHANGED <<queue, pushed, mtxwrite, digested, wcmd, lastSent,
                 readerVars, scopeVars, killVars>>

\* Mutations of Pop: the count forgotten, off by one.
PopUncounted ==
  /\ mutex = None
  /\ queue' = IF cmdc > 0 THEN Tail(queue) ELSE <<>>
  /\ UNCHANGED <<cmdc, mutex, pushed>>
PopOffByOne ==
  /\ mutex = None
  /\ cmdc' = cmdc - 1
  /\ queue' = IF cmdc' > 1 THEN Tail(queue) ELSE <<>>
  /\ UNCHANGED <<mutex, pushed>>

(***************************************************************************)
(* scp_cmd_pop.  The branch on the count decides whether the list goes on  *)
(* or is declared empty; with no first cell the function reads through a   *)
(* NULL pointer.                                                           *)
(***************************************************************************)
Pop ==
  /\ mutex = None
  /\ cmdc' = cmdc - 1
  /\ queue' = IF cmdc' > 0 THEN Tail(queue) ELSE <<>>
  /\ UNCHANGED <<mutex, pushed>>

(***************************************************************************)
(* scp_write                                                               *)
(***************************************************************************)

\* while (!writekill)
WTop ==
  /\ Up
  /\ wpc = "top"
  /\ wpc' = IF writekill THEN "done" ELSE "lock"
  /\ UNCHANGED <<queueVars, mtxwrite, digested, wcmd, lastSent, readerVars, scopeVars, killVars>>

\* Take mtxwrite, at first or on the way out of pthread_cond_wait.
WLock ==
  /\ Up
  /\ wpc \in {"lock", "woken"}
  /\ ~mtxwrite
  /\ mtxwrite' = TRUE
  /\ wpc' = "test"
  /\ UNCHANGED <<queueVars, digested, wcmd, lastSent, readerVars, scopeVars, killVars>>

\* Mutation of ReadyToSend: the digested flag is not tested.
ReadyWhenCounted == cmdc >= 1

\* May the writer take the next command?
ReadyToSend == digested /\ cmdc >= 1

\* while (!digested || cmdc < 1) wait; both ways out release mtxwrite.
WTest ==
  /\ Up
  /\ wpc = "test"
  /\ mtxwrite' = FALSE
  /\ wpc' = IF ReadyToSend THEN "get" ELSE "wait"
  /\ UNCHANGED <<queueVars, digested, wcmd, lastSent, readerVars, scopeVars, killVars>>

\* pthread_cond_wait may return on its own.
WSpurious ==
  /\ Up
  /\ wpc = "wait"
  /\ wpc' = "woken"
  /\ UNCHANGED <<queueVars, mtxwrite, digested, wcmd, lastSent, readerVars, scopeVars, killVars>>

\* cmd = scp_cmd_get(): the mutex protects the read of cmd_first only.
WGet ==
  /\ Up
  /\ wpc = "get"
  /\ mutex = None
  /\ wcmd' = First
  /\ wpc' = "send"
  /\ UNCHANGED <<queueVars, mtxwrite, digested, lastSent, readerVars, scopeVars, killVars>>

\* scp_query: header and text go out; the instrument will answer a query.
WSend ==
  /\ Up
  /\ wpc = "send"
  /\ IF wcmd = NoCmd
       THEN /\ phase' = "segv"
            /\ UNCHANGED <<wpc, lastSent, asked>>
       ELSE /\ wpc' = "sent"
            /\ lastSent' = wcmd.id
            /\ asked' = IF wcmd.hdlr THEN Append(asked, wcmd.id) ELSE asked
            /\ UNCHANGED phase
  /\ UNCHANGED <<queueVars, mtxwrite, digested, wcmd, readerVars,
                 outbox, parts, trgs, readkill, writekill>>

\* if (!cmd->hdlr): the cell may be gone by now, and then holds anything.
WBranch ==
  /\ Up
  /\ wpc = "sent"
  /\ \E hasHandler \in BOOLEAN :
       /\ Queued(wcmd) => hasHandler = wcmd.hdlr
       /\ wpc' = IF hasHandler THEN "digest" ELSE "pop"
  /\ UNCHANGED <<queueVars, mtxwrite, digested, wcmd, lastSent, readerVars, scopeVars, killVars>>

WPop ==
  /\ Up
  /\ wpc = "pop"
  /\ IF queue = <<>>
       THEN /\ mutex = None
            /\ phase' = "segv"
            /\ UNCHANGED <<queueVars, wpc>>
       ELSE /\ Pop
            /\ wpc' = "top"
            /\ UNCHANGED phase
  /\ UNCHANGED <<mtxwrite, digested, wcmd, lastSent, readerVars, scopeVars, readkill, writekill>>

\* Mutation of WDigest: the flag is left alone.
WDigestForgotten ==
  /\ Up
  /\ wpc = "digest"
  /\ wpc' = "top"
  /\ UNCHANGED <<queueVars, mtxwrite, digested, wcmd, lastSent, readerVars, scopeVars, killVars>>

\* digested = 0, written without mtxwrite.
WDigest ==
  /\ Up
  /\ wpc = "digest"
  /\ digested' = FALSE
  /\ wpc' = "top"
  /\ UNCHANGED <<queueVars, mtxwrite, wcmd, lastSent, readerVars, scopeVars, killVars>>

WriterStep == WTop \/ WLock \/ WTest \/ WGet \/ WSend \/ WBranch \/ WPop \/ WDigest

(***************************************************************************)
(* scp_read                                                                *)
(***************************************************************************)

\* Mutation of RTop: readkill is not tested.
RTopForever ==
  /\ Up
  /\ rpc = "top"
  /\ rpc' = "read"
  /\ UNCHANGED <<queueVars, mtxwrite, digested, writerVars,
                 rcmd, pkt, trgleft, delivered, scopeVars, killVars>>

\* while (!readkill)
RTop ==
  /\ Up
  /\ rpc = "top"
  /\ rpc' = IF readkill THEN "done" ELSE "read"
  /\ UNCHANGED <<queueVars, mtxwrite, digested, writerVars,
                 rcmd, pkt, trgleft, delivered, scopeVars, killVars>>

\* The header and data reads, and the branch on the service request flag.
\* gui_trg pushes its commands only when the request says that data is ready.
RRead ==
  /\ Up
  /\ rpc = "read"
  /\ outbox # <<>>
  /\ pkt' = Head(outbox)
  /\ outbox' = Tail(outbox)
  /\ IF pkt'.kind = "trig"
       THEN rpc' = "trg" /\ trgleft' \in {TrgBatch, <<>>}
       ELSE rpc' = "get" /\ UNCHANGED trgleft
  /\ UNCHANGED <<queueVars, mtxwrite, digested, writerVars,
                 rcmd, delivered, asked, parts, trgs, killVars>>

\* The trigger handler runs in this thread and pushes like everybody else.
RTrgPush ==
  /\ Up
  /\ rpc = "trg"
  /\ trgleft # <<>>
  /\ Enqueue(Reader, Head(trgleft))
  /\ trgleft' = Tail(trgleft)
  /\ UNCHANGED <<mtxwrite, digested, writerVars, rpc, rcmd, pkt, delivered, scopeVars, killVars>>

RTrgDone ==
  /\ Up
  /\ rpc = "trg"
  /\ trgleft = <<>>
  /\ mutex # Reader
  /\ rpc' = "top"
  /\ UNCHANGED <<queueVars, mtxwrite, digested, writerVars,
                 rcmd, pkt, trgleft, delivered, scopeVars, killVars>>

\* cmd = scp_cmd_get(): the answer belongs to the first command.
RGet ==
  /\ Up
  /\ rpc = "get"
  /\ mutex = None
  /\ rcmd' = First
  /\ rpc' = "hdlr"
  /\ UNCHANGED <<queueVars, mtxwrite, digested, writerVars,
                 pkt, trgleft, delivered, scopeVars, killVars>>

\* Mutation of RHandle: every packet is taken for the last one.
RHandleAsLast ==
  /\ Up
  /\ rpc = "hdlr"
  /\ rpc' = "pop"
  /\ delivered' = rcmd.id
  /\ UNCHANGED <<queueVars, mtxwrite, digested, writerVars,
                 rcmd, pkt, trgleft, scopeVars, killVars>>

\* cmd->hdlr(last, ...): through NULL when there is no command or no handler.
RHandle ==
  /\ Up
  /\ rpc = "hdlr"
  /\ IF ~rcmd.hdlr
       THEN phase' = "segv" /\ UNCHANGED <<rpc, delivered>>
       ELSE /\ UNCHANGED phase
            /\ IF pkt.kind = "last"
                 THEN rpc' = "pop" /\ delivered' = rcmd.id
                 ELSE rpc' = "top" /\ UNCHANGED delivered
  /\ UNCHANGED <<queueVars, mtxwrite, digested, writerVars,
                 rcmd, pkt, trgleft, scopeVars, readkill, writekill>>

RPop ==
  /\ Up
  /\ rpc = "pop"
  /\ IF queue = <<>>
       THEN /\ mutex = None
            /\ phase' = "segv"
            /\ UNCHANGED <<queueVars, rpc>>
       ELSE /\ Pop
            /\ rpc' = "digested"
            /\ UNCHANGED phase
  /\ UNCHANGED <<mtxwrite, digested, writerVars, rcmd, pkt, trgleft, delivered,
                 scopeVars, readkill, writekill>>

\* Mutation of RDigested: the signal is sent, the flag is not set.
RDigestedForgotten ==
  /\ Up
  /\ rpc = "digested"
  /\ ~mtxwrite
  /\ SignalWriter
  /\ rpc' = "top"
  /\ UNCHANGED <<queueVars, mtxwrite, digested, wcmd, lastSent,
                 rcmd, pkt, trgleft, delivered, scopeVars, killVars>>

\* digested = 1 and the signal, under mtxwrite.
RDigested ==
  /\ Up
  /\ rpc = "digested"
  /\ ~mtxwrite
  /\ digested' = TRUE
  /\ SignalWriter
  /\ rpc' = "top"
  /\ UNCHANGED <<queueVars, mtxwrite, wcmd, lastSent,
                 rcmd, pkt, trgleft, delivered, scopeVars, killVars>>

ReaderStep == RTop \/ RRead \/ RTrgPush \/ RTrgDone \/ RGet \/ RHandle \/ RPop \/ RDigested

(***************************************************************************)
(* The instrument (external).  It answers queries in the order it received *)
(* them, each by some packets and a last one that carries the EOI flag,    *)
(* and raises a service request whenever it triggers.  Unless PromptScope, *)
(* the last packet takes longer than the few statements scp_write runs     *)
(* after the write().                                                      *)
(***************************************************************************)
ScopePart ==
  /\ Up
  /\ asked # <<>>
  /\ parts < MaxParts
  /\ parts' = parts + 1
  /\ outbox' = Append(outbox, [kind |-> "part", id |-> Head(asked)])
  /\ UNCHANGED <<queueVars, mtxwrite, digested, writerVars, readerVars, asked, trgs, killVars>>

ScopeLast ==
  /\ Up
  /\ asked # <<>>
  /\ PromptScope \/ wpc \notin {"sent", "digest"}
  /\ parts' = 0
  /\ asked' = Tail(asked)
  /\ outbox' = Append(outbox, [kind |-> "last", id |-> Head(asked)])
  /\ UNCHANGED <<queueVars, mtxwrite, digested, writerVars, readerVars, trgs, killVars>>

ScopeTrig ==
  /\ Up
  /\ trgs < MaxTrg
  /\ trgs' = trgs + 1
  /\ outbox' = Append(outbox, [kind |-> "trig", id |-> 0])
  /\ UNCHANGED <<queueVars, mtxwrite, digested, writerVars, readerVars, asked, parts, killVars>>

(***************************************************************************)
(* scp_destroy: set the flags, join the reader, free.  The writer is       *)
(* neither signalled nor joined, and the signal sent on cndread has no     *)
(* receiver.  The caller is not in the middle of a push.                   *)
(***************************************************************************)
DestroyReadKill ==
  /\ Up
  /\ ~readkill
  /\ mutex # Destroyer
  /\ readkill' = TRUE
  /\ UNCHANGED <<queueVars, mtxwrite, digested, writerVars, readerVars, scopeVars, writekill, phase>>

DestroyWriteKill ==
  /\ Up
  /\ readkill
  /\ ~writekill
  /\ writekill' = TRUE
  /\ UNCHANGED <<queueVars, mtxwrite, digested, writerVars, readerVars, scopeVars, readkill, phase>>

DestroyFree ==
  /\ Up
  /\ writekill
  /\ rpc = "done"
  /\ phase' = "freed"
  /\ UNCHANGED <<queueVars, mtxwrite, digested, writerVars, readerVars, scopeVars,
                 readkill, writekill>>

Next ==
  \/ \E t \in Pushers, hasHandler \in BOOLEAN : PushStart(t, hasHandler)
  \/ \E t \in Pushers \cup {Reader} : PushFinish(t)
  \/ WriterStep
  \/ WSpurious
  \/ ReaderStep
  \/ ScopePart
  \/ ScopeLast
  \/ ScopeTrig
  \/ DestroyReadKill
  \/ DestroyWriteKill
  \/ DestroyFree

(***************************************************************************)
(* The kernel runs every thread that can run, the instrument finishes its  *)
(* answers, and a destroy once begun goes on.  Nobody has to push, nothing *)
(* has to trigger, no one has to disconnect.  Strong fairness where        *)
(* mtxwrite is taken: a writer woken again and again for nothing takes it  *)
(* again and again, and pthread mutexes do not starve a waiter over that.  *)
(***************************************************************************)
Fairness ==
  /\ WF_vars(WriterStep)
  /\ SF_vars(ReaderStep)
  /\ SF_vars(\E t \in Pushers \cup {Reader} : PushFinish(t))
  /\ WF_vars(ScopeLast)
  /\ WF_vars(DestroyWriteKill)
  /\ WF_vars(DestroyFree)

Spec == Init /\ [][Next]_vars /\ Fairness

(***************************************************************************)
(* Properties                                                              *)
(***************************************************************************)

WriterPlaces == {"top", "lock", "test", "wait", "woken", "get", "send", "sent",
                 "digest", "pop", "done"}
ReaderPlaces == {"top", "read", "trg", "get", "hdlr", "pop", "digested", "done"}

\* Every variable of scp_t and of its threads has a value of its type; in
\* particular the count cmdc never becomes negative.
TypeOK ==
  /\ queue \in Seq(Command)
  /\ cmdc \in Nat
  /\ pushed \in Nat
  /\ mutex \in Pushers \cup {Reader, None}
  /\ mtxwrite \in BOOLEAN
  /\ digested \in BOOLEAN
  /\ wpc \in WriterPlaces
  /\ wcmd \in Command \cup {NoCmd}
  /\ lastSent \in Nat
  /\ rpc \in ReaderPlaces
  /\ rcmd \in Command \cup {NoCmd}
  /\ pkt \in Packet
  /\ trgleft \in Seq(BOOLEAN)
  /\ delivered \in Nat
  /\ asked \in Seq(Nat)
  /\ outbox \in Seq(Packet)
  /\ parts \in Nat
  /\ trgs \in Nat
  /\ readkill \in BOOLEAN /\ writekill \in BOOLEAN
  /\ phase \in {"up", "freed", "segv"}

\* cmdc, which decides whether scp_cmd_pop keeps the rest of the list, is the
\* number of cells in it, less the one a push has linked in and not counted.
CountMatches == Len(queue) = IF mutex = None THEN cmdc ELSE cmdc + 1

\* Some query is with the instrument, or a packet of its answer is on the way
\* or in scp_read's hands, or the answered command is not removed yet.
AnswerUnderWay ==
  \/ asked # <<>>
  \/ \E k \in 1 .. Len(outbox) : outbox[k].kind # "trig"
  \/ rpc \in {"get", "hdlr", "pop"}

\* scp_read gives every packet to the handler of the query it answers (it
\* takes the first command of the list for that, without looking at the
\* packet), and never calls through a command that has no handler or is gone.
ReplyMatches ==
  /\ rpc = "hdlr" => rcmd.id = pkt.id /\ rcmd.hdlr
  /\ phase # "segv"

\* "Wait til scope has finished digested before feeding it with another
\* bitball": no command goes out while an answer is under way.
OneOutstanding == wpc = "send" => ~AnswerUnderWay

\* scp_cmd_get returns a pointer that both threads use after unlocking mutex;
\* the cell it points to is still in the list at each of those uses.
NoDanglingUse ==
  /\ wpc \in {"send", "sent"} => Queued(wcmd)
  /\ rpc = "hdlr" => Queued(rcmd)

\* No pop removes a command that scp_write has not sent.
NoLostCommand ==
  \A i \in 1 .. pushed : i <= lastSent \/ \E k \in 1 .. Len(queue) : queue[k].id = i

\* scp_write never sleeps on a counted command unless an answer, whose end
\* will wake it, is still to come or just being booked.
NoStall == wpc = "wait" /\ cmdc >= 1 => AnswerUnderWay \/ rpc = "digested"

\* The instrument receives every command once, in the order of the pushes.
SentInOrder == [][lastSent' = lastSent + 1]_lastSent

\* The commands not yet written to the socket.
Waiting == IF queue # <<>> /\ Head(queue).id <= lastSent THEN Tail(queue) ELSE queue

\* The query written to the socket whose handler has not seen the last packet.
Current ==
  IF queue # <<>> /\ Head(queue).hdlr /\ Head(queue).id = lastSent /\ delivered # lastSent
    THEN Head(queue)
    ELSE NoCmd

Service ==
  INSTANCE CommandService WITH
    submitted <- pushed, waiting <- Waiting, current <- Current,
    delivered <- delivered, open <- ~writekill

\* The queue, its two threads and their locks implement CommandService: a
\* command waits until it is written, a query is current from then until its
\* handler has seen the last packet, and no command waits forever.
ImplementsService == Service!Spec

\* scp_destroy returns if an answer or a service request is under way when
\* the flags are set, so that the blocked read() of scp_read comes back.
DestroyReturns ==
  (writekill /\ (rpc # "read" \/ outbox # <<>> \/ asked # <<>>)) ~> (phase = "freed")

\* Comment of scp_read: after an answer "scope should be done digesting and
\* it's time for another bitball".  Every command is sent in the end, as long
\* as nobody disconnects and no thread crashes.
AnotherBitball ==
  \A i \in 1 .. MaxCmds + MaxTrg * Len(TrgBatch) :
    (pushed >= i) ~> (lastSent >= i \/ readkill \/ phase # "up")

\* Comment of gui_disconnect around scp_destroy: "Quit scope threads".  The
\* memory of the scope is given back only when both threads are done with it.
ThreadsQuit == phase = "freed" => rpc = "done" /\ wpc = "done"

(***************************************************************************)
(* The inductive invariant behind those properties when the instrument is  *)
(* not prompt, in named parts.                                             *)
(***************************************************************************)

\* The list holds the newest commands, consecutive and in order.
Consecutive ==
  /\ Len(queue) <= pushed
  /\ \A k \in 1 .. Len(queue) : queue[k].id = pushed - Len(queue) + k

\* The first command of the list has been written already.
HeadSent == AnswerUnderWay \/ wpc \in {"sent", "digest", "pop"}

\* Exactly the commands before the list, and its head if HeadSent, are sent.
SentPrefix ==
  IF HeadSent
    THEN queue # <<>> /\ lastSent + Len(queue) = pushed + 1
    ELSE lastSent + Len(queue) = pushed

\* Everything between the instrument and the handler concerns the head of the
\* list, and the end of its answer is still to come exactly once.
OneAnswer ==
  /\ AnswerUnderWay => Head(queue).hdlr
  /\ Len(asked) <= 1
  /\ asked # <<>> => asked[1] = lastSent
  /\ \A k \in 1 .. Len(outbox) : outbox[k].kind # "trig" => outbox[k].id = lastSent
  /\ \A k \in 1 .. Len(outbox) : outbox[k].kind = "last" =>
       /\ asked = <<>>
       /\ \A j \in k + 1 .. Len(outbox) : outbox[j].kind = "trig"
  /\ \A k \in 1 .. Len(outbox) : outbox[k].kind = "part" =>
       asked # <<>> \/ \E j \in k + 1 .. Len(outbox) : outbox[j].kind = "last"
  /\ rpc \in {"get", "hdlr"} => pkt.kind # "trig" /\ pkt.id = lastSent
  /\ rpc \in {"get", "hdlr"} /\ pkt.kind = "part" =>
       asked # <<>> \/ \E k \in 1 .. Len(outbox) : outbox[k].kind = "last"
  /\ rpc = "pop" \/ (rpc \in {"get", "hdlr"} /\ pkt.kind = "last") =>
       /\ asked = <<>>
       /\ \A k \in 1 .. Len(outbox) : outbox[k].kind = "trig"

\* What scp_write may rely on at each place of its loop.
WriterKnows ==
  /\ wpc \in {"top", "lock", "test", "wait", "woken", "done"} =>
       digested = (~AnswerUnderWay /\ rpc # "digested")
  /\ wpc \in {"get", "send", "pop"} =>
       queue # <<>> /\ ~AnswerUnderWay
  /\ wpc \in {"get", "send", "sent", "digest", "pop"} =>
       digested /\ rpc # "digested"
  /\ wpc \in {"send", "sent", "digest", "pop"} => wcmd = Head(queue)
  /\ wpc = "sent" => IF wcmd.hdlr THEN asked # <<>> ELSE ~AnswerUnderWay
  /\ wpc = "digest" => wcmd.hdlr /\ asked # <<>>
  /\ wpc = "pop" => ~wcmd.hdlr
  /\ wpc = "wait" => ~ReadyToSend

\* What scp_read may rely on when it calls the handler and when it declares
\* the answer digested.
ReaderKnows ==
  /\ rpc = "hdlr" => rcmd = Head(queue)
  /\ rpc = "digested" => ~AnswerUnderWay
  /\ phase # "segv"

\* Pacing by the digested flag works: the reader always finds the command it
\* has to answer at the head of the list, and the writer knows when it may
\* send the next one.
Pacing == Consecutive /\ SentPrefix /\ OneAnswer /\ WriterKnows /\ ReaderKnows

=============================================================================
