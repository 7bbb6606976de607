--------------------------------- MODULE Plot ---------------------------------
(***************************************************************************)
(* From a screenshot batch to a frame on the screen.  gui_loopplot (AUTO)  *)
(* and gui_trg (a trigger) push the same batch of commands: for every      *)
(* channel select it as wave source, set the number of points, ask for the *)
(* waveform.  The answers reach gui_dtwave packet by packet; it keeps its  *)
(* place in static variables, collects the samples, and draws the trace of *)
(* channel ch when an answer is complete.                                  *)
(*                                                                         *)
(* The queue and its threads are CommandService here, which ScpQueue       *)
(* implements.  A sample is its channel, its batch and its rank.           *)
(***************************************************************************)
EXTENDS Naturals, Sequences

CONSTANTS
  Batchers,       \* the threads that push batches
  Reader,         \* scp_read: one of them if triggers push batches
  Chc,            \* SCP_CHC
  Points,         \* samples of a waveform (SCP_DTPOINTS)
  TextLen,        \* length of the packet that announces them
  PntMax,         \* GUI_PLOT_PNTCMAX
  MaxBatches,     \* bound: batches pushed
  MaxOthers,      \* bound: commands pushed for other purposes
  MaxReconnects,  \* bound: new connections
  Tidy,           \* does every disconnect find no frame half drawn?
  Honest          \* does the instrument announce as many samples as it sends?

ASSUME PlotAssumption ==
  /\ Chc \in Nat \ {0} /\ Points \in Nat \ {0} /\ TextLen \in Nat \ {0}
  /\ PntMax \in Nat /\ PntMax >= Points
  /\ MaxBatches \in Nat /\ MaxOthers \in Nat /\ MaxReconnects \in Nat
  /\ Tidy \in BOOLEAN /\ Honest \in BOOLEAN

VARIABLES
  submitted, waiting, current, delivered, open,   \* CommandService
  content,     \* the command with each id
  pos,         \* per batcher: rank in the batch of its next push
  batch,       \* per batcher: the batch it pushes
  batches, others, reconnects,   \* numbers of batches, ... so far
  wavesrc,     \* instrument: the channel dtwave? sends
  answer,      \* packets of the current answer still to come
  ch, header, len, panic,   \* statics of gui_dtwave
  data,        \* gui->data[0 .. c-1], and beyond if c gets too big
  image,       \* per trace: the samples drawn in gui->imgplot
  frame,       \* the image when it was last put on the screen
  frames       \* number of times it was

service == <<submitted, waiting, current, delivered, open>>
batchVars == <<pos, batch, batches>>
plotVars == <<ch, header, len, panic, data, image, frame, frames>>
vars == <<service, content, batchVars, others, reconnects, wavesrc, answer, plotVars>>

Service == INSTANCE CommandService

Commands == [kind : {"set", "src", "wave", "query"}, ch : Nat, batch : Nat]

Traces == 0 .. Chc - 1

Blank == [k \in Traces |-> <<>>]

Init ==
  /\ Service!Init
  /\ content = <<>>
  /\ pos = [t \in Batchers |-> 1] /\ batch = [t \in Batchers |-> 0] /\ batches = 0
  /\ others = 0 /\ reconnects = 0
  /\ wavesrc = 1
  /\ answer = <<>>
  /\ ch = 0 /\ header = TRUE /\ len = 0 /\ panic = TRUE /\ data = <<>>
  /\ image = Blank /\ frame = Blank /\ frames = 0

(***************************************************************************)
(* Pushing                                                                 *)
(***************************************************************************)

\* "dtform byte", then "wavesrc CHn", "dtpoints", "dtwave?" for every channel.
BatchLen == 1 + 3 * Chc

\* Mutation of BatchCommand: the waveform is asked for before its source is set.
BatchCommandLate(i, b) ==
  [kind |-> IF i = 1 THEN "set" ELSE <<"wave", "set", "src">>[((i - 2) % 3) + 1],
   ch |-> IF i = 1 THEN 0 ELSE (i - 2) \div 3 + 1,
   batch |-> b]

BatchCommand(i, b) ==
  [kind |-> IF i = 1 THEN "set" ELSE <<"src", "set", "wave">>[((i - 2) % 3) + 1],
   ch |-> IF i = 1 THEN 0 ELSE (i - 2) \div 3 + 1,
   batch |-> b]

Push(cmd) ==
  /\ Service!Submit(cmd.kind \in {"wave", "query"})
  /\ content' = Append(content, cmd)

\* The next scp_cmd_push of a batch; other threads push in between.
PushBatch(t) ==
  /\ pos[t] # 1 \/ batches < MaxBatches
  /\ IF pos[t] = 1
       THEN batches' = batches + 1 /\ batch' = [batch EXCEPT ![t] = batches + 1]
       ELSE UNCHANGED <<batches, batch>>
  /\ Push(BatchCommand(pos[t], batch'[t]))
  /\ pos' = [pos EXCEPT ![t] = IF @ = BatchLen THEN 1 ELSE @ + 1]
  /\ UNCHANGED <<others, reconnects, wavesrc, answer, plotVars>>

\* The settings and queries of gui_connect and of the controls.
PushOther(kind) ==
  /\ others < MaxOthers
  /\ others' = others + 1
  /\ Push([kind |-> kind, ch |-> 0, batch |-> 0])
  /\ UNCHANGED <<batchVars, reconnects, wavesrc, answer, plotVars>>

(***************************************************************************)
(* The instrument (external).  A waveform is a packet of text announcing   *)
(* the number of samples (or fewer, unless Honest), the samples in one or  *)
(* two packets, a newline.                                                 *)
(***************************************************************************)
Samples(channel, b) == [i \in 1 .. Points |-> [ch |-> channel, batch |-> b, rank |-> i]]

TextByte == [ch |-> 0, batch |-> 0, rank |-> 0]

\* says: what atoi makes of the packet.
TextPacket(n) == [last |-> FALSE, bytes |-> [i \in 1 .. TextLen |-> TextByte], says |-> n]
DataPacket(samples) == [last |-> FALSE, bytes |-> samples, says |-> 0]
LastPacket == [last |-> TRUE, bytes |-> <<TextByte>>, says |-> 0]

InPackets(w) ==
  {<<DataPacket(w)>>} \cup
  {<<DataPacket(SubSeq(w, 1, k)), DataPacket(SubSeq(w, k + 1, Points))>> : k \in 1 .. Points - 1}

Answers(cmd) ==
  CASE cmd.kind = "wave" ->
         {<<TextPacket(n)>> \o packets \o <<LastPacket>> :
            n \in IF Honest THEN {Points} ELSE 1 .. Points,
            packets \in InPackets(Samples(wavesrc, cmd.batch))}
    [] cmd.kind = "query" -> {<<LastPacket>>}
    [] OTHER -> {<<>>}

\* The oldest command goes to the instrument.
Send ==
  /\ Service!Send
  /\ LET cmd == content[Head(waiting).id] IN
       /\ wavesrc' = IF cmd.kind = "src" THEN cmd.ch ELSE wavesrc
       /\ answer' \in Answers(cmd)
  /\ UNCHANGED <<content, batchVars, others, reconnects, plotVars>>

(***************************************************************************)
(* The handlers, in the reading thread.                                    *)
(***************************************************************************)

\* scp_read calls the handler of the current query with the next packet,
\* unless it is busy pushing a batch itself.
Handle(kind) ==
  /\ Reader \in Batchers => pos[Reader] = 1
  /\ answer # <<>>
  /\ content[current.id].kind = kind
  /\ answer' = Tail(answer)
  /\ IF Head(answer).last THEN Service!Complete ELSE UNCHANGED service
  /\ UNCHANGED <<content, batchVars, others, reconnects, wavesrc>>

HandleOther ==
  /\ Handle("query")
  /\ UNCHANGED plotVars

\* Mutation of DtHeader: the flag is not cleared.
DtHeaderForever ==
  /\ Handle("wave")
  /\ header
  /\ len' = Head(answer).says
  /\ UNCHANGED <<ch, header, panic, data, image, frame, frames>>

\* gui_dtwave, first packet: the announced number of samples.
DtHeader ==
  /\ Handle("wave")
  /\ header
  /\ len' = Head(answer).says
  /\ header' = FALSE
  /\ UNCHANGED <<ch, panic, data, image, frame, frames>>

Clipped(bytes) == IF Len(bytes) < PntMax THEN bytes ELSE SubSeq(bytes, 1, PntMax)

\* Samples, all that were announced or fewer: append them.
DtStore ==
  /\ Handle("wave")
  /\ ~header /\ ~Head(answer).last
  /\ Len(Head(answer).bytes) <= len
  /\ data' = data \o Clipped(Head(answer).bytes)
  /\ UNCHANGED <<ch, header, len, panic, image, frame, frames>>

\* More samples than announced: drop them, complain the first time.
DtPanic ==
  /\ Handle("wave")
  /\ ~header /\ ~Head(answer).last
  /\ Len(Head(answer).bytes) > len
  /\ panic' = FALSE
  /\ UNCHANGED <<ch, header, len, data, image, frame, frames>>

NextTrace == (ch + 1) % Chc

\* Mutation of LastTrace: off by one.
LastTraceEarly == ch = Chc - 2

LastTrace == ch = Chc - 1

\* Mutation of StartOver: c is not reset.
StartOverKeepsData == header' = TRUE /\ UNCHANGED data

StartOver == header' = TRUE /\ data' = <<>>

\* The last packet: clear the image before the first trace, draw a polyline
\* through the samples, and put the image on the screen after the last trace.
DtDraw ==
  /\ Handle("wave")
  /\ ~header /\ Head(answer).last
  /\ LET cleared == IF ch = 0 THEN Blank ELSE image IN
       image' = IF Len(data) > 1 THEN [cleared EXCEPT ![ch] = data] ELSE cleared
  /\ IF LastTrace
       THEN frame' = image' /\ frames' = frames + 1
       ELSE UNCHANGED <<frame, frames>>
  /\ ch' = NextTrace
  /\ StartOver
  /\ UNCHANGED <<len, panic>>

HandlerStep == HandleOther \/ DtHeader \/ DtStore \/ DtPanic \/ DtDraw

(***************************************************************************)
(* Disconnect and connect: the threads have been joined, hence are between *)
(* two batches and two packets; the queue is freed, the socket closed and  *)
(* a new scp_t made.  The statics, the image and the instrument's wave     *)
(* source stay as they are.                                                *)
(***************************************************************************)
Reconnect ==
  /\ reconnects < MaxReconnects
  /\ reconnects' = reconnects + 1
  /\ \A t \in Batchers : pos[t] = 1
  /\ Tidy => ch = 0 /\ header
  /\ submitted' = 0 /\ waiting' = <<>> /\ current' = Service!Nothing /\ delivered' = 0
  /\ content' = <<>> /\ answer' = <<>>
  /\ UNCHANGED <<open, batchVars, others, wavesrc, plotVars>>

Next ==
  \/ \E t \in Batchers : PushBatch(t)
  \/ \E kind \in {"set", "query"} : PushOther(kind)
  \/ Send
  \/ HandlerStep
  \/ Reconnect

\* A batch begun is pushed to its end, and the service keeps its promise.
Fairness ==
  /\ \A t \in Batchers : WF_vars(pos[t] # 1 /\ PushBatch(t))
  /\ WF_vars(Send)
  /\ WF_vars(HandlerStep)

Spec == Init /\ [][Next]_vars /\ Fairness

(***************************************************************************)
(* Properties                                                              *)
(***************************************************************************)

Bytes == [ch : Nat, batch : Nat, rank : Nat]

\* Every variable has a value of its type; in particular ch is a trace.
TypeOK ==
  /\ content \in Seq(Commands) /\ Len(content) = submitted
  /\ pos \in [Batchers -> 1 .. BatchLen] /\ batch \in [Batchers -> Nat]
  /\ batches \in Nat /\ others \in Nat /\ reconnects \in Nat
  /\ wavesrc \in 1 .. Chc
  /\ answer \in Seq([last : BOOLEAN, bytes : Seq(Bytes), says : Nat])
  /\ ch \in Traces /\ header \in BOOLEAN /\ len \in Nat /\ panic \in BOOLEAN
  /\ data \in Seq(Bytes)
  /\ image \in [Traces -> Seq(Bytes)] /\ frame \in [Traces -> Seq(Bytes)]
  /\ frames \in Nat

\* gui_dtwave, "called once for each and every channel", draws as trace k
\* samples of channel k + 1 only; all of them, in order, as long as no wrong
\* announcement made it drop some.
TraceIsChannel ==
  \A k \in Traces :
    /\ \A j \in 1 .. Len(image[k]) : image[k][j].ch = k + 1
    /\ panic /\ image[k] # <<>> => \E b \in 1 .. MaxBatches : image[k] = Samples(k + 1, b)

\* What is put on the screen is one screenshot: all traces, of one batch.
FrameIsOneBatch ==
  frames > 0 /\ panic =>
    \E b \in 1 .. MaxBatches : \A k \in Traces : frame[k] = Samples(k + 1, b)

\* gui_dtwave stays within gui->data (GUI_PLOT_PNTCMAX): c begins at 0 with
\* every waveform, also after one that was dropped or announced wrongly, and
\* ch is always a trace.
InBuffer == TypeOK /\ Len(data) <= PntMax

\* Some packet of a waveform has been handled, some has not.
InWaveform ==
  /\ answer # <<>>
  /\ content[current.id].kind = "wave"
  /\ Head(answer).says = 0

\* "Track first waveform header VICP packet": the flag says whether the next
\* packet of a waveform is the one that announces it.
HeaderTracked == header = ~InWaveform

\* Every screenshot that was asked for is put on the screen.
FramesCome ==
  \A n \in 1 .. MaxBatches : (batches >= n) ~> (frames >= n \/ reconnects > 0)

=============================================================================
