# WaveJet Control in TLA+

WaveJet Control is a GTK+ program that shows the traces of a LeCroy WaveJet
oscilloscope and changes its settings over a TCP connection. It is about 5000
lines of C with six kinds of threads and no tests. This directory holds TLA+
models of its concurrent core and of the state machines around it, TLC
configurations that check them on small instances, and TLAPS proofs.

## 1. The program

### Components, state, operations

| component | source | state | operations |
|---|---|---|---|
| command queue | `scp.c` 66-163 | `cmd_first`, `cmd_last`, `cmdc`, `mutex` | `scp_cmd_push`, `scp_cmd_pop`, `scp_cmd_get` |
| scope threads | `scp.c` 285-317, 685-885 | `digested`, `readkill`, `writekill`, `mtxwrite`, `cndwrite`, locals `cmd`, `h` | `scp_new`, `scp_write`, `scp_query`, `scp_read`, `scp_destroy` |
| trigger loop | `gui.c` 2081-2134, 2290-2370; `cbk.c` 379-458 | `plotkill`, `mtxloopplot`, `cndloopplot`, the mode radio buttons, `g_locked` | `gui_loopplot`, `gui_trg`, `cbk_tglacn`, `gui_disconnect` |
| connection life cycle | `gui.c` 1445-1622; `cbk.c` 679-698, 752-818 | `gui->scp`, `chls[].scp`, thread ids, sensitivity of the menu items | `gui_connect`, `gui_disconnect`, `cbk_connect`, `cbk_disconnect`, `cbk_rspwinprfs` |
| VICP reader | `scp.c` 721-764 | the socket, `h`, `strdata`, the counts | the loops of `read()` in `scp_read` |
| waveform plot | `gui.c` 1739-1911, 1951-2079 | statics `c`, `ch`, `header`, `len`; `gui->data`, `imgplot` | `gui_dtwave`, `gui_drawline`, `gui_drawgrid` |
| controls | `cbk.c` 172-558; `gui.c` 1214-1442, 2232-2286 | option menus, toggles, labels, slider, `g_locked` | callbacks that push a setting and a query; reply handlers that set the widget |
| preferences | `prf.c`; `cbk.c` 752-818 | `prfs_t` | `prf_new`, `prf_read`, `prf_get`, `prf_set`, `prf_write` |
| number conversion | `numbers.c` | none | `nb_eng`, `nb_engtod` |
| widget construction, drawing, start-up | `gui.c` 30-1213, `main.c`, `png.c`, `data.c` | none of interest | |

### How they interact

Everything the program says to the instrument is a `scp_cmd` that some thread
pushes on one queue: the GTK thread (a control was touched), `gui_connect` (17
queries that fill the controls), `gui_loopplot` (arming commands, or in AUTO
mode 13 commands for a screenshot) and the reading thread (the 13 commands,
from `gui_trg`, when a service request comes in). `scp_write` sends the head of
the queue; a command without reply handler is removed at once, a query stays at
the head until `scp_read` has given the last packet of its answer to its handler.
Replies carry no identification, so the head of the queue is the only link
between an answer and its handler. Handlers run in the reading thread and take
the GDK lock to change widgets; `g_locked` keeps the callbacks of those widgets
from talking back to the instrument. The plotting thread waits on `cndloopplot`,
which a trigger, a click on any mode button and a disconnect signal.

### What is hard

 - `digested` is read under `mtxwrite`, set under it, and cleared without it;
 - pointers from `scp_cmd_get` are used after the lock is gone;
 - a push makes the cell reachable before it is counted, and `scp_cmd_pop`
   decides by the count whether there is a rest of the list;
 - the reading thread is also a producer;
 - waits without predicate in `gui_loopplot`;
 - joins with the GDK lock held, or of a thread blocked in `read`;
 - static variables that outlive the connection they describe, and so do
   `gui->scp` and the id in `gui->thdloopplot`;
 - `gui_connect` is a thread that anybody may start beside another;
 - the result of `read()` is added to a count unseen.

### What makes each part correct

 - **Command queue and scope threads.** Commands reach the instrument in the
   order of the pushes, each once; while an answer is under way nothing else is
   sent; every packet goes to the handler of the query it answers; `cmdc` agrees
   with the list it guards; no cell is used after `scp_cmd_pop` freed it; nobody
   sleeps over work to do; destroying the scope comes back.
 - **Trigger loop.** After a trigger in NORMAL the instrument is armed again,
   AUTO keeps plotting, a disconnect ends the threads, a handler that wants the
   GDK lock gets it.
 - **Waveform plot.** What is drawn as trace *k* comes from channel *k*, a
   screen is one screenshot, the samples stay inside `gui->data`, and the
   static `header` says the truth about the next packet.
 - **Controls.** At rest the controls show what the instrument has and the
   instrument has what the user chose last; callbacks caused by the program do
   not talk back.
 - **Preferences.** Pairs are found, what is saved is found again, arrays are
   not overrun, `prf_write` ends.
 - **Connection life cycle.** One connection at a time; nothing follows
   `gui->scp` when it is NULL or freed; a join meets the thread it is meant for;
   menu items and controls agree with the connection; trying ends, and leaving
   ends when the connection's threads do.
 - **VICP reader.** However the bytes come, packets are handled whole, in order,
   and inside the buffers.
 - **Number conversion.** A label shows its number rounded to three digits, the
   value of a menu's entry prints as that entry, reading and printing again is stable.

## 2. The modules

| module | models | extends / instantiates |
|---|---|---|
| `CommandService` | the promise of `scp.c` to the rest: no threads, no locks, no socket | |
| `ScpQueue` | `scp_cmd_push/pop/get`, `scp_write`, `scp_read`, `scp_destroy`, the instrument's end of the socket | `CommandService` with a refinement mapping |
| `ScpQueueProofs` | the theorems about `ScpQueue` | `ScpQueue`, `TLAPS` |
| `MCScpQueue` | batches of commands a trigger pushes, for TLC | `ScpQueue` |
| `VicpReader` | the loops of `read()` in `scp_read`, header, buffer, dustbin, a lost connection | `PacketChannel` with a refinement mapping |
| `VicpReaderProofs` | the theorems about `VicpReader` | `VicpReader`, `SequenceTheorems`, `TLAPS` |
| `PacketChannel` | the promise of that reader: packets whole, once, in order | |
| `Session` | `gui_connect` as a thread, `gui_disconnect`, `scp_new` and `scp_destroy` as seen from outside, menu items, `gui->scp`, thread ids | `Connection` with a refinement mapping |
| `SessionProofs` | the theorems about `Session` | `Session`, `FiniteSetTheorems`, `TLAPS` |
| `Connection` | what the user expects of the menu: off, tried, on, being left, perhaps waiting | |
| `TriggerLoop` | `gui_loopplot`, the mode buttons, `gui_trg`'s signal, reply handlers and the GDK lock, `gui_disconnect` | |
| `TriggerLoopProofs` | the theorems about `TriggerLoop` | `TriggerLoop`, `TLAPS` |
| `Plot` | the batches of 13 commands and `gui_dtwave` with its statics | composes with `CommandService`: every push, send and last packet is a step of the service |
| `PlotProofs` | the theorems about `Plot` | `Plot`, `SequenceTheorems`, `TLAPS` |
| `Widgets` | the callbacks that push, the reply handlers that set, `g_locked` | |
| `WidgetsProofs` | the theorems about `Widgets` | `Widgets`, `SequenceTheorems`, `TLAPS` |
| `MCWidgets` | two channels, one external trigger source, their menus | `Widgets` |
| `Trace` | the loop of `gui_dtwave` over the samples, `gui_drawline`, `gui_drawgrid` | |
| `Numbers` | `nb_eng`, `nb_engtod`, the entries of the menus | |
| `MCFunctions` | `Trace` and `Numbers` in one run | `Trace`, `Numbers` |
| `FunctionProofs` | the theorems about `Trace` and `Numbers` | `MCFunctions`, `TLAPS` |
| `Prf` | `prf_new`, `prf_read`, `prf_get`, `prf_set`, `prf_write`, the preferences window | |
| `PrfProofs` | the theorems about `Prf` | `Prf`, `TLAPS` |
| `MCPrf` | files of up to three lines | `Prf` |

`CommandService` is the seam. `ScpQueue` implements it (model-checked with its
liveness, proved for its steps); `Plot`, which would be out of reach on top of
two threads and three locks, is built on the service and inherits from
`ScpQueue` that the service is what the program has. `Widgets` uses the same
promise in its simplest form, a sequence whose head goes out and stays there
until it is answered. `PacketChannel` is a second seam, below `ScpQueue`: there
a packet is read in one step, which is what `VicpReader` implements.
`Connection` is a third, above everything: the one variable a user sees.

### How state and actions correspond to the code

**`ScpQueue`.** `queue` is the list from `cmd_first` to `cmd_last`, `cmdc` the
count, `mutex` its owner while `scp_cmd_push` is between linking the cell in
(`PushStart` or `RTrgPush`) and counting it (`PushFinish`); `mtxwrite` is held
by `scp_write` between `WLock` and `WTest`. Whatever else is done under one
acquisition of one mutex is one step. `wpc` and `rpc` are the places where the
two threads can be interrupted: `WTop WLock WTest WGet WSend WBranch WPop
WDigest` and `RTop RRead RTrgPush RTrgDone RGet RHandle RPop RDigested`, in the
order of the code. `WSpurious` is the spurious return of `pthread_cond_wait`.
A command is its rank among the pushes and whether it has a handler; a pointer
is the command, and dangles when the command is no longer in the list.
Following a `NULL` ends in `phase = "segv"`. `ScopePart`, `ScopeLast` and
`ScopeTrig` are the instrument (external): answers in the order of the queries,
in one or more packets, and service requests at any time. `Destroy*` are the
steps of `scp_destroy`.

**`TriggerLoop`.** `plot` is the place in `gui_loopplot` (`PTop`, `PMode`,
`PActAuto`, `PActArm`, `PActStop`, `PSlept`, `PWait`, `PWoken`, `PSetStop`),
`rdr` that of the reading thread in a handler (`RReply`, `RUpdate`, `RUnlock`
for a reply; `RTrg`, `RLedOn`, `RLedOff`, `RSignal` for `gui_trg`), `gtk` that
of `gui_disconnect`. `radio` is the active mode button, `locked` is `g_locked`.
The GDK lock is an operator, `GdkFree`: only `gui_disconnect` keeps it across a
call that blocks, all other critical sections are one step. `SignalPlot` is
`pthread_cond_signal(&cndloopplot)`, lost unless the thread waits. Arming
commands are counted, not queued.

**`Session`.** A thread is its id; `role` says what it runs, `pc` where it is.
`CAddr` to `CEnable` are the pieces of `gui_connect` between two places where
it takes the GDK lock or where others may see what it has done; `CNewFails` and
`CFail` are a connection that did not come about. A scope is the rank of its
`scp_new`, so that `Follow(scp)` can tell a pointer that is NULL or freed; it
sets `wild`. `DQuitPlot` to `DReturn` are `gui_disconnect` with `scp_destroy`;
`DAlreadyJoined` is the early return of a join that fails. `PTop` and `PPush`,
`RTest`, `RPacket`, `RTrg` and `RTrgPush` are the two threads of a connection
reduced to the pointers they follow and the flags that end them. At the place
"read" `scp_read` is blocked until a packet comes, whatever `readkill` says; only
`RTest`, between two packets, sees it. `Available` is `pthread_create` choosing an
id. `Waits` is `gui_disconnect` in the join of a thread that was told to end and
has not come to its test: the state "waiting" of `Connection`.

**`VicpReader`.** `place` is the loop `scp_read` is in, `rdc` its count; `Takes`
is a `read()` that gives any number of bytes there are. `RFails` is the one that
gives -1; one that gives 0 changes nothing and is a stutter, hence the loop that
turns for ever at the end of a stream is a stuck `place`. A byte knows its
packet and its rank, so that `HandledWhole` can say whether what a handler got
is the packet the instrument sent.

**`Plot`.** `PushBatch(t)` is one `scp_cmd_push` of the batch that thread `t`
pushes in a loop, `PushOther` all other traffic, `Send` the instrument taking a
command and, for a `dtwave?`, deciding on the packets of the answer. `DtHeader`,
`DtStore`, `DtPanic` and `DtDraw` are the branches of `gui_dtwave`; `ch`,
`header`, `len` and `panic` its statics, `data` the samples in `gui->data`
(its length is the static `c`), `image` the traces in `imgplot`, `frame` the
image when `gtk_widget_queue_draw` was last called. A sample is its channel,
batch and rank, so that a property can say where a pixel came from.
`Reconnect` is a disconnect and a connect, as far as `gui_dtwave` sees it.

**`Widgets`.** `PickValue` is `cbk_optacn` and the channel toggles of
`cbk_tglacn`, `ClickArrow` the arrows (`cbk_btnrlsofst`, `cbk_usracn`), `Drag`
and `Release` the slider (`cbk_scl`, `cbk_usracn`). Each pushes the setting and
then the query (`Request`). `AskNext` is `gui_connect` asking for everything.
A reply handler is `Answered` (evaluate the reply, set `g_locked`), `Update`
(under the GDK lock; a menu that changes has its callback called by GTK) and
`Unlock`; `NoMatch` is a reply that matches no entry. `Label` is what `nb_eng`
and `nb_engtod` leave of a number that goes through a label: it loses the
digits after the third.

For `ClicksCount`, `goal` follows the clicks as a user counts them, and `rushed`
remembers the arrows that were clicked before their label had settled.

**`Trace`.** `Start` and `DrawSegment` are the loop over the samples; a sample is
chosen when the loop comes to it, so that a run of 31 samples needs two of them
in a state. `VerticalBar`, `HorizontalBar` and `Oblique` are the branches of
`gui_drawline` as sets of pixels, `Frame`, `Bars` and `Dashes` those of
`gui_drawgrid`. `float` quotients are rational numbers.

**`Numbers`.** A `double` is the decimal next to it and on which side of it it
lies. `IntLog`, `Expof10`, `Places` and `Decimals` are the lines of `nb_eng`,
with the outcomes they can have when a logarithm, a product or a quotient is
rounded to a double: next to a power of ten the integer part and the comparisons
may go either way, half-way between two labels the digits may (the double just
below 8035 times 0.001 is the one just above 8.035, and prints as "8.04"). What is
taken for granted of the library is that `log10` of a power of ten is whole and
that `pow` gives the double next to the power, as glibc does. `Eng` puts them
together. `Engtod` is `nb_engtod` on what `nb_eng` wrote.

**`Prf`.** One action per transition of the state machine in `prf_read`, named
`<State><What>`; `Eat` is `i++`, and some transitions look at a character
without eating it. `WriteLine` is one turn of `prf_write`'s loop over line
numbers. `Save` and `Connect` are the responses of the preferences window
(`cbk_rspwinprfs`): both set the two pairs, `Save` writes the file. `Restart`
is the next start of the program on the file that was written.

## 3. The runs

| run | instance | shows |
|---|---|---|
| `scp_queue` | two pushers, one of them the destroyer, the reader pushing a setting and a query on a trigger, 3 commands, answers of 1-2 packets, spurious wake-ups, `PromptScope = FALSE` | the queue's invariants, order, the inductive invariant `Pacing`, refinement of `CommandService` with its fairness, `DestroyReturns` |
| `scp_stall` | the same threads, `PromptScope = TRUE` | **violated**: `AnotherBitball` |
| `scp_free` | one pusher that destroys | **violated**: `ThreadsQuit` |
| `trigger_loop` | 3 clicks, 1 reply under way, spurious wake-ups, `Hasty = FALSE` | `Rearms`, `AutoPlots`, `DisconnectStopsPlot`, `HandlersFinish` |
| `trigger_join` | 1 click, no spurious wake-ups | **violated**: `PlotQuits` |
| `plot` | one batching thread, 3 channels of 2 samples in 1-2 packets, right and wrong announcements, 2 batches, 1 other command, 1 reconnect | `TraceIsChannel`, `FrameIsOneBatch`, `InBuffer`, `HeaderTracked`, `FramesCome` |
| `plot_mixed` | two batching threads, 2 channels | **violated**: `TraceIsChannel` |
| `prf` | 12 forms of line, up to three in a file, 2 saves, arrays of 5 | `InBounds`, `ReadsPairs`, `ReadBack`, `Finishes` |
| `widgets` | 3 menus, 2 arrows, the level; 2 user actions; an instrument that may refuse; 2 initial settings, one in no menu | `InSync`, `LastWish`, `ClicksCount`, `Settles` |
| `session` | 4 connections that succeed or fail, by the menu or the preferences window; `Patient`, `FreshIds`, `~EarlyTrigger` | `NoStaleScope`, `TheConnection`, `JoinFits`, `ItemsAgree`, refinement of `Connection` with its fairness |
| `vicp` | 3 packets of 0, 1, 2 or 4 bytes, a header and a buffer of 2, a dustbin of 1; reset or end at any byte | `InBuffers`, `HandledWhole`, refinement of `PacketChannel` with its fairness |
| `functions` | a grid of 2 by 2 divisions of 5 pixels, 8 levels, up to 31 samples; four-digit numbers over 16 powers of ten | `InImage`, `Unbroken`, `OnTheLine`, `LabelRight`, `NoDrift` |

Each module's type invariant is a conjunct of one of its properties (`InBuffer`,
`InBounds`, `InSync`, `TheConnection`, `InBuffers`); those of `ScpQueue` and
`TriggerLoop` are proved instead.

### What the four violations say

 - `scp_stall`: `digested = 0` comes after the query went out and without
   `mtxwrite` (scp.c:714). If the answer has been handled by then, its
   `digested = 1` is overwritten and the queue stands still until the program
   ends. Moving the assignment before `scp_query`, under the mutex, removes it.
 - `scp_free`: `scp_destroy` sets `writekill` and frees the scope, but neither
   wakes nor joins `scp_write`.
 - `trigger_join`: Disconnect in SINGLE mode wakes the plotting thread and joins
   it with the GDK lock that thread needs next, to press STOP.
 - `plot_mixed`: a trigger's batch and an AUTO batch interleave; `gui_dtwave`
   counts its calls to know the channel and draws one channel's samples as
   another's trace.

### What the code does that no run claims

The passing runs state what holds; these are the places where a bit less is
assumed and it does not, found by changing a constant of a run or by stating a
property without its precondition:

 - `Session` with `Patient = FALSE`: two connects, or a disconnect before
   `gui_connect` has finished, leave two scopes alive, or controls on without a
   connection, or push on a freed scope.
 - `Session` with `FreshIds = FALSE`: after Disconnect, `gui->thdloopplot` is the
   id of a joined thread; when the system has given it to a new one, the next
   `gui_disconnect` joins that one instead of being told "Already joined".
 - `Session` with `EarlyTrigger = TRUE`: `scp_new` starts `scp_read` before
   `gui_connect` sets `gui->scp`; a service request in between makes `gui_trg`
   push on NULL.
 - `ScpQueue`: on an idle connection `scp_destroy` joins a reader that is blocked
   in `read()`, as the socket is closed only after the join (`scp.c` 177, 202);
   Disconnect does not return until a packet comes. `DestroyReturns` therefore
   starts from a reader that is not blocked, and in `Session` the connection stays
   "waiting": `ImplementsConnection` does not say that the joins return.
 - `VicpReader`: when the instrument closes the connection the reader stays in
   its loop for ever, and the next Disconnect joins it in vain.
 - `Prf`: an inline comment before any comment line runs on an index without a
   value (`phase = "wild"`); `InBounds` says this is the only way.
 - `Prf`: `prf_write` writes a value as it is. With a text in `Typed` that has a
   `#`, `ReadBack` is violated: the next start takes the rest of the value for a
   comment.
 - `Widgets`: of two clicks on an offset's arrow in a row one can be lost, as the
   answer to the first puts an old number under the second; `ClicksCount` speaks
   of the others.

### Bounds, and why they are enough

Every bound is a CONSTANT named `Max...` and commented as such. `ScpQueue`: three
commands are one under way, one behind it and one being pushed, which is all
`scp_cmd_pop`'s branch on the count can tell apart; with a trigger's batch up to
five. Two packets per answer distinguish "last" from "not last". `TriggerLoop`:
three clicks are one to leave a mode, one to come back and one to race. `Plot`:
three channels have a first, a middle and a last trace (the violation needs two),
two samples may be split or not, two batches may mix. `Widgets`: two actions are
enough for an answer to the first to come before, between and after the two
pushes of the second. `Prf`: three lines let a pair be preceded, followed and
repeated; six comments fill the arrays, whose length is a parameter.
`Session`: four
connections allow one each by start-up, menu and preferences window and one
after a failure, and two ids to be given back. `VicpReader`: the four lengths are
empty, short, full and twice the buffer with two turns of the dustbin; the third
packet shows whether the first two were found. `functions`: ten columns and up to
31 samples have fewer samples than columns, as many, and three in a column;
`TDivs`, `VDivs` and the other numbers of the grid are parameters, the formulas
are the code's. Of the four digits of a number the last decides the rounding: 0,
5 and, below a power of ten, 1 to 9; of each number the double next to it and one
on either side.
`PSpurious` and the spurious wake-up have no counter; the first is held back
until the arming commands of the last turn are dealt with, which bounds `arms`.
Most safety properties do not depend on these bounds at all: see the proofs.

### Assumptions on time

Some guarantees of the program hold only because people and instruments are slow.
They are constants, so that a run can do without them:

 - `PromptScope`: may the last packet of an answer be sent while `scp_write` is
   between the `write()` of the query and `digested = 0`? FALSE in `scp_queue`
   and in the theorems below `PacingCorrect`; TRUE shows the stall.
 - `Hasty`: may a click or a trigger fall into the few statements between
   `gui_loopplot` looking at the mode and waiting, or a click into the statements
   where `g_locked` is set? FALSE in the passing runs of `TriggerLoop` and
   `Widgets`. What is lost otherwise is in the hazards list.
 - `Tidy`: does every disconnect fall between two frames? TRUE in `plot`, as the
   statics of `gui_dtwave` do not survive the contrary.
 - `Patient`: does the user leave the menu alone while a `gui_connect` runs?
   TRUE in `session`. `FreshIds`: are the ids of joined threads never given out
   again? TRUE. `EarlyTrigger`: may a service request come before `gui->scp` is
   set? FALSE. See above for what is lost otherwise.
 - `Honest`: does a waveform announce as many samples as it has? FALSE in `plot`;
   then `panic` is what `TraceIsChannel` and `FrameIsOneBatch` make exceptions for.

### Fairness

Weak fairness for a step of a thread says the kernel runs what can run. In
`ScpQueue` the reader's steps and the last step of a push are strongly fair:
they wait for `mtxwrite`, which the writer, woken again and again for nothing
(`WSpurious`), takes and releases again and again; a mutex that starves a waiter
for ever is not what pthreads builds have. The instrument answers what it was
asked (`ScopeLast`, `ScopeArm`, `Send`, `ScopeSet`), because without that no
property of the program's progress can hold. Nobody has to push, click, trigger,
connect or disconnect, and no packet of an answer but the last has to come. In
`Session` only `gui_connect` and `gui_disconnect` are weakly fair: `scp_read` may
be blocked in `read()` for ever, and `gui_loopplot` in its wait or, joined with the
GDK lock held, in front of that lock (`trigger_join`). `Connection` therefore has a
state "waiting", in which it may stay; its strong fairness says that there is not
always another thread to wait for. `VicpReader` is fair to
the reader alone, and `PacketChannel` promises a packet only while the channel is
open. Bytes that are sent arrive.
`CommandService` promises progress only while it is open.

## 4. The proofs

Eight modules hold theorems. All of them are about every value of the constants,
within the named assumptions of the modules (`...Assumption`, which TLC evaluates
for the instances of the runs) and the hypotheses in the column "needs". An
empty column means none.

| module | theorem | states | needs |
|---|---|---|---|
| `ScpQueueProofs` | `TypeCorrect` | `TypeOK` (`cmdc` is never negative) | |
| | `CountCorrect` | `CountMatches` | |
| | `PacingCorrect` | `Pacing`, the inductive invariant | `~PromptScope` |
| | `RepliesMatch` | `ReplyMatches`, no crash through NULL | `~PromptScope` |
| | `OneAtATime` | `OneOutstanding` | `~PromptScope` |
| | `PointersAlive` | `NoDanglingUse` | `~PromptScope` |
| | `NothingLost` | `NoLostCommand` | `~PromptScope` |
| | `NoLostWakeup` | `NoStall` | `~PromptScope` |
| | `InOrder` | `SentInOrder` | `~PromptScope` |
| | `ServiceImplemented` | initial states and steps of `CommandService` | `~PromptScope` |
| `TriggerLoopProofs` | `TypeCorrect` | `TypeOK` | |
| | `NoCircle` | `NobodyWants`: outside SINGLE the thread joined with the GDK lock held never waits for it | `~Hasty` |
| `VicpReaderProofs` | `ReaderInvariant` | `VInv`, the inductive invariant | |
| | `BuffersKept` | `InBuffers` | |
| | `PacketsWhole` | `HandledWhole` | |
| | `ChannelImplemented` | initial states and steps of `PacketChannel` | |
| `SessionProofs` | `ConnectionInvariant` | `SInv`, the inductive invariant | `Patient`, `FreshIds`, `~EarlyTrigger` |
| | `NoStaleScopeFollowed` | `NoStaleScope` | the same three |
| | `OneConnection` | `TheConnection` | the same three |
| | `JoinsFit` | `JoinFits` | the same three |
| | `ItemsFit` | `ItemsAgree` | the same three |
| | `ConnectionImplemented` | initial states and steps of `Connection` | the same three |
| `PlotProofs` | `HandlingKnown` | `HInv`, the inductive invariant of the handler | `Tidy` |
| | `DataInBuffer` | `InBuffer` | `Tidy` |
| | `HeaderFlag` | `HeaderTracked` | `Tidy` |
| | `WaveformsInOrder` | `PInv`, the inductive invariant of the batches | `Tidy`, one batcher |
| | `ChannelOnItsTrace` | `TraceIsChannel` | `Tidy`, one batcher |
| | `WholeFrames` | `FrameIsOneBatch` | `Tidy`, one batcher, `Points > 1` |
| `WidgetsProofs` | `ControlsInvariant` | `WInv`, the inductive invariant of the queue and the handlers | |
| | `LastWishStands` | `LastWish` | |
| | `ControlsCovered` | `UInv`, with what covers each control | `~Hasty` |
| | `ControlsInSync` | `InSync` | `~Hasty` |
| | `PatientClicks` | `ClicksCount` | `~Hasty` |
| `PrfProofs` | `PreferencesInvariant` | `IInv`, the inductive invariant | |
| | `ArraysKept` | `InBounds` | |
| | `ParserUnderstands` | `Understood`, the invariant of the state machine | |
| | `PairsRead` | `ReadsPairs` | |
| | `SavedIsRead` | `ReadBack` | no `#` in `Typed` (and no newline: an entry has one line) |
| `FunctionProofs` | `LabelsRight` | `LabelRight` | |
| | `NumbersStay` | `NoDrift` | |
| | `PixelsInImage` | `InImage` | |
| | `PixelsOnTheLine` | `OnTheLine` | |
| | `TraceUnbroken` | `Unbroken` | |

The hypotheses are those of the passing runs (section 3, "Assumptions on time",
and for `Prf` the texts of its run), so that a theorem says of every instance
what its run says of one. Every safety property that a passing run checks is
stated by one of these theorems. Two hypotheses come with
a run or an instance that refutes the property without them: `plot_mixed` has two
batchers, `scp_stall` has `PromptScope`. What `Session` loses without its three,
and `Plot` without `Tidy`, is said in section 3. `Points > 1` is the code's: with
a single sample `gui_dtwave` draws nothing, and a frame has no trace to be of a
batch.

Each inductive invariant was checked with TLC on the instance of its module's
run; `Understood` and `Carried` of `Prf` on one with five files, with their
quantifiers over words and over the starts of lines narrowed to those of the
file.

### Why the invariants are what they are

**`ScpQueue`.** `TypeOK` is not inductive alone: that a decrement leaves `cmdc`
a number follows from `CountMatches`, so that `Counted == TypeOK /\ CountMatches`
is proved first, without any assumption on time. None of the other safety
properties is inductive. Why is the head of the list the query a packet answers?
Because only one answer is ever under way; because the writer does not send while
`digested` is false; because `digested` is true, outside the writer's few
statements, exactly if nothing is under way. `Pacing` says so in five parts:
`Consecutive` (the list is the newest commands, in order), `SentPrefix` (what is
sent is what is gone, and the head if it is under way), `OneAnswer` (all that is
on the wire or in the reader's hands concerns the head, and its end is still to
come exactly once), `WriterKnows` and `ReaderKnows` (what each thread may rely on
at each place). `PacingStep` has one lemma per group of actions; the safety
properties follow from `Counted /\ Pacing` by `PacingSafe`. The step that needs
`~PromptScope` is `LastPacing`: an answer that ends early is what breaks
`WriterKnows`. For the refinement one more fact is carried along,
`DeliveryKnown`: `delivered` is behind `lastSent` exactly until the reader pops.

**`TriggerLoop`.** `JoinInv` says that once `plotkill` is set the plotting thread
has only the way to its end before it. It is the safety half of
`DisconnectStopsPlot`; SINGLE is where `trigger_join` finds the circle.

**`VicpReader`.** `HandledWhole` speaks of what was handled; what is being read
decides what will be. `VInv` adds that the wire is a stretch of what was sent
(`Stretch`: from every byte the next ones of its packet follow, and from the last
byte of a packet the first of the next), that it reaches to the end of what was
sent as long as the connection stands (`Complete`), that its first byte is the
one the reader needs next (`ReadUpTo`), and that the counts say how many bytes the
buffers hold, or that `read()` has failed for good (`Placed`). The last case
carries `InBuffers`: a count that the -1 of a failed `read()` has made too small
is never again used to store anything. `Stretch` is worded with distances between
bytes and not with their order alone, so that no induction over the wire is
needed. `ChannelImplemented` is what `ScpQueue` assumes when it reads a packet in
one step; the fairness of `PacketChannel` is model-checked.

**`Session`.** That nobody follows a freed scope is a statement about every
thread at every place. `SInv` says, for each place of `gui_connect` (`Trying`)
and of `gui_disconnect` (`Leaving`), which scope is alive, which plotting thread
runs and what the menu items show, and, when neither is under way, that the
session is `Off` or `On`. Three parts support it: there is one attempt at a time
(`OneAttempt`), every reading thread is the only one of its scope and does not
outlive it (`Readers`), the plotting thread is the one whose id is kept
(`Plotter`). `Patient` is used for `OneAttempt`, `FreshIds` where
`gui_disconnect` joins an id it has joined before, `~EarlyTrigger` where the
reading thread of a new scope gets a service request. `ConnectionImplemented`
then maps every step to one of `Connection` or a stutter; that trying ends, and
leaving unless it waits, is model-checked.

**`Plot`.** The static `header` is right because a waveform is answered by an
announcement, one or two packets of samples and a last one, and because
`gui_dtwave` puts `header` back when it has seen the last. `Handling` is that
sentence, as four places (`Announcing`, `Announced`, `Between`, `Collected`) with
what is left of the answer and what `data` holds at each; `Queue` says which
command the answer belongs to. A wrong announcement makes `gui_dtwave` drop
samples, never keep too many, which is why `InBuffer` needs no honesty.
For what is drawn where, `PInv` adds that the instrument's source is the channel
of every waveform asked for (`Sources`), that the waveforms in the queue are those
of the channels in turn, batch after batch, beginning with channel `ch + 1`
(`Order`), and that the traces drawn since the last frame are of one batch
(`HalfDrawn`). The last two name the first, the last and any two neighbouring
waveforms of the queue instead of counting them, so that pushing and popping
change few of the facts. A second batcher breaks `Order` in its first push.

**`Widgets`.** `InSync` is about rest; what is true before rest is that every
control is *covered*: it shows what the instrument has, or an answer is still to
come that will show it, or `gui_connect` has still to ask, or its slider is held
(`Shown`). A setting is always followed by its query (`Paired`), which keeps a
control covered when the setting goes out. Where a click falls into the
statements with `g_locked` set, the callback pushes nothing and the control shows
what the user clicked, not what the instrument has: hence `~Hasty`. `LastWish`
does without it, as a wish is what was pushed: `Wishes` says that the last
setting in the queue is the last wish, or none is and the instrument has it.

**`Prf`.** The table has `PRF_MAXLEN` places for pairs and as many for comments;
`prf_read` compares the sum of both with `PRF_MAXLEN` and then adds. One too many
is harmless because the port is in the table from the start (`Sound`:
at least one pair, so at most `PRF_MAXLEN` comments). For `cmt_i`, `Unset` says
that as long as it has no value no line that began with `#` was passed, which
needs `Midway`: in all states but two the state machine has a character other
than the end of a line behind it, or one other than `#` before it.

What the state machine makes of a whole file looks like an induction over its
characters, but the steps of `prf_read` are that induction, and an invariant is
enough. `Here` says for each state what the line is like from its start `s` up to
`i`: spaces, the key so far, spaces, the value so far or two words already.
`NoneEnds` and `OneEnds` conclude what the state must be where a pair ends. `Kept`
says that every pair that ended before `i` and is not mentioned again is in the
table. Together with `Distinct` (no two pairs with one key, which makes
`prf_get`'s first pair the only one) that is `Understood`, and `ReadsPairs` is
its instance at the end of the file.

`SavedIsRead` follows one table through the file and back, with the invariant
`Carried`. `Filed` says what a table must be so that a file can hold it: the
numbers of its lines grow and no comment shares one with a pair (`Ordered`;
`prf_write` has one line for each number), its words have no newline, its keys
and values are not empty and have no `#` (`Texted`, from `Spelt` about the words
the parser collects and from what is typed), and no pair was added without room
(`Room`: the *j*-th pair, counted with the comments above it, is below
`PRF_MAXLEN`). `Written` says that the lines written are those of the saved table,
of the pairs before `prf_i` and the comments before `cmt_i`: there is a function
from line numbers to places in the file (`Layout`), which one more line extends.
`Replay` says of the program that reads them that it is on some line `l`, has found
all pairs of the lines above, and that its table has no more entries than the
saved one had up to there (`Found`), so that by `Room` the next pair is added and
`prf_read` does not stop in front of it. That count is the delicate part: the port
is in the new table before any line is read (`Counted`), and the tests for room of
`prf_read` and `prf_set` differ by one. The proof needs keys that are not empty;
the two keys of the program, "addr" and "port", are not, and `PrfAssumption` says
so.

**`Trace` and `Numbers`.** Each follows from facts about its operators, and needs
little that is inductive. `RoundFacts` (a rounded quotient is at most half a unit off),
`RoundBounds` and `RoundMono` carry the pixels; `DrawlineOnLine` says that
`gui_drawline` draws the line it was asked for in all of its five branches, and
`Traced` that the loop never passes the last pair of samples. `OnePiece` says
without recursion that a segment hangs together: from every pixel one comes to a
neighbour that is nearer to a certain pixel, and distances being natural numbers
the way ends there. `TraceUnbroken` needs the invariant `Hangs`: what was drawn
last ends where the next segment begins, or at the pixel beside it where a bar
leaves out its end. `IntLogFacts`,
`ExpFacts`, `RoundedFacts`, `PlacesFacts` and `EngFacts` follow `nb_eng` line by
line, `EngtodFacts` is `nb_engtod`. That the dashes of the axes stay in the grid
needs two divisions each way; the code has ten and eight.

An attempt at `LabelsRight` showed that the model of `nb_eng` was wrong for a
number just below a power of ten that is carried over to the next prefix: it is
printed with four digits, as "10.00". `Printed` says so now, and the run's numbers
have the neighbours below a power of ten in all decades. `LabelRounds` does not
mention `Rounded`: it says how far what the label denotes is from the number, at
most half of the third digit.

### What is only model-checked, and why

 - Liveness: `DestroyReturns`, `Rearms`, `AutoPlots`, `DisconnectStopsPlot`,
   `HandlersFinish`, `FramesCome`, `Finishes`, `Settles`, and the fairness part of
   the three refinements. The prover has no rule for fairness.

The safety properties of the passing runs are all proved, under the hypotheses of
the table. Without these hypotheses (a hasty user, an instrument that is not
prompt, two batchers, a `#` in an entry) they do not hold, or are not claimed:
see the violating runs and the list in section 3.

## 5. What is left out

Abstractions inside the modules:

 - `ScpQueue`: the walk of `scp_cmd_push` over the list for a "trmd?" that is
   already there (`scp.c` 73-84), as nothing pushes that command any more; the
   text of commands and answers; `write()` sends all of a query;
   a packet arrives whole (`VicpReader` implements that); `malloc` succeeds.
 - `TriggerLoop`: the commands in the queue but the arming ones.
 - `Session`: what the threads of a connection do beside following pointers (see
   `TriggerLoop`, `ScpQueue`); `scp_write`, which nobody ends; windows.
 - `VicpReader`: `sizeof(header)` is the 8 bytes the loop waits for, as where
   `size_t` has 32 bits; with 64 it is 16 and the first `read()` takes data for
   header. A write to a broken connection (SIGPIPE).
 - `Trace`: rounding of `float`; colours.
 - `Numbers`: signs; zero, of which `log10` has no value (a level of 0 is shown as
   "0.00e2147483643" by a common build, and `cbk.c` avoids it by a test that
   `gui.c` 1324 has not); numbers beyond the prefixes.
 - `Plot`: the pixels (see `Trace`); what a sample's value does to its place on the screen;
   waveforms come in one or two packets, with as many samples as were announced or
   more, and with no more than `gui->data` holds: the batch asks for 1000
   (`SCP_DTPOINTS`), the array has 2000 (`PntMax >= Points` in the module). Each
   packet is clipped to the whole of the array, so that an instrument that ignores
   the request could overrun it with its second packet.
 - `Widgets`: the instrument's settings are independent of one another and
   change only by commands, not on its front panel; the lower half of the
   slider; wheel and keyboard on the slider (see the hazards).
 - `Prf`: the lengths of the working arrays `key`, `val`, `cmt` (see the
   hazards) and of the file buffer; a file that cannot be opened.

Not modelled: the construction of windows, the icons and screenshots (`gui.c`
30-1213, `png.c`, `data.c`), which are straight lines of library calls; of
start-up, the parsing of arguments and the initialisation of GTK; code under
`#if DEV` or `#if 0`, which is not built.

## 6. The plan

 1. Done: `CommandService`, `ScpQueue`; `TriggerLoop`; `Plot`; `Prf`; `Widgets`;
    `Session` and `Connection`; `VicpReader` and `PacketChannel`; `Trace` and
    `Numbers`; proofs of all their safety properties.
 2. Left to prove: what `TriggerLoop` says about places and flags in SINGLE, as an
    invariant.
 3. The trigger level as a whole: slider, label and setting after a change of the
    trigger source or of its channel's volts/div.
