# A verification of the mmWave driver

The repository is a C driver for the Seeed MR24HPC1 mmWave sensor on an ESP32:
a UART byte stream is parsed into frames, the frames are decoded into reports
and responses, and these are polled by the user or sent to a PC over WiFi and a
WebSocket. The other way the user's inquiries become frames for the sensor.  This directory holds TLA+ modules of the parts of it where order,
failure and sharing matter, the TLC configurations that check them, and proofs
for TLAPS.  Paths below are relative to `src/components/`.

## 1. Inventory

| component | file | state | operations | what makes it correct |
|---|---|---|---|---|
| RX parser | `mmwave/mmwave_core_seeed_studio.c` | building buffer and its size, bytes built, header flags, announced payload length, count of large frames, saving buffer | `mmwave_core_init`, `_stop`, `mmwave_parse_data` | finds the frames of the stream whatever the chunks are, nothing that is not one; writes inside its buffer; returns; gives back its memory |
| TX frame builder | same | none | `mmwave_build_frame` | emits what the parser accepts |
| HAL: memory and frame queue | `my_hal/hal_mmwave_uart.c` | `currently_allocated_mem`, `frame_queue` | `hal_malloc`, `hal_free`, `_saveFrame`, get and release a frame | the counter covers the memory in use; one owner frees each block |
| HAL: lifecycle and tasks | same | `hal_state`, flags and handles of the receiver and the sender, three queues | init, start, stop, deinit, `hal_mmwave_send_frame`, `hal_receive_task`, `hal_send_task` | a stop drains and returns; nobody uses a deleted queue |
| UART platform | `platform/esp32/esp32_uart.c` | driver, `rx_closed`, dispatcher task, event queue | init, deinit, enable, disable, start of the event converter, `dispatcher_function` | events reach the receiver; the dispatcher ends after the line is closed |
| Application manager: lifecycle | `app/mmWave_manager.c` | `current_state`, `end_flag`, `task_ended`, `current_mode` | `app_init_sys` ... `app_deinit_sys`, `app_send_inquiry`, `app_set_mode`, `decoder_task` | its state follows the HAL's; a running system is served |
| Application manager: queues | same | report and response queue, a mutex each | `onReport`, `onResponse`, `app_get_report`, `app_get_response` | drop-oldest queue, every block freed once, nobody locked out |
| Application decoder | `app/app_mmwave_decoder.c`, `app_mmwave_constants.h` | none | dispatch on control word, command word and length | a frame is one event at most, an answer is that of its inquiry |
| Inquiry API | `app/app_mmwave.c` | none of its own (the manager's `current_mode`) | a wrapper of `app_send_inquiry` for each of the 40 inquiries, with tests of mode and argument | an inquiry reaches the sensor in the mode it is for |
| Network application | `app/app_network.c`, `app_network_packet_serializer.c` | task, counters, configuration | init, start, stop, uninit, `network_send_task` | packets in order, stop ends the task |
| HAL network, WiFi, WS | `my_hal/hal_network.c`, `hal_wifi.c`, `hal_ws.c` | a state machine each | init ... deinit, callbacks | the layers agree on the state; teardown possible from every state |
| Platform WiFi, WS | `platform/esp32/esp32_wifi_client.c`, `esp32_websocket.c` | a state machine each, driven by ESP-IDF events | as above | reconnection, no use after uninit |
| WebSocket client library (vendored) | `../managed_components/espressif__esp_websocket_client/` | state, `run`, event bits, lock, ping and pong timers | init, start, send, close, destroy, its task | every call returns; a dead connection is given up, a live one is not; the task's end is noticed |
| System monitor | `my_hal/system_monitor.c` | registry of tasks | register, unregister, snapshot | no torn entry, no stale handle |
| RTOS wrappers | `platform/esp32/esp32_{queue,mutex,task,memory,events,time}.c` | - | one FreeRTOS call each | - |

How they interact.  The driver's interrupt handler posts to `uart_event_queue`;
the dispatcher moves events of interest to the platform's event queue; the
receiver reads the bytes and calls the parser, which allocates through the HAL
and hands each frame to `_saveFrame` for `frame_queue`; the decoder task takes
it, releases its block, decodes and calls `onReport` or `onResponse`, which put
a heap copy into a queue that pollers wait on.  The other way round
`app_send_inquiry` builds a frame, which is charged to the HAL's memory limit, and
queues it for the sender; the sensor's answer comes back with the words of the inquiry,
and that alone says what it is an answer to.  The client's
calls go down the layers application, HAL, platform, and wait by polling flags
the tasks set (`hal_receiver_ended_flag` and its likes, `task_ended`), with no
lock around any of them.

On the network side the client's calls go down too, and events come up in two
other tasks: WiFi events in the default event loop (`wifi_event_handler`, which
reconnects by itself, then `hal_on_wifi_event`, which starts the WebSocket when
there is an address), the WebSocket's in its own (`ws_handler`, then
`hal_on_ws_start_stop`, then `on_nw_event`, which sets `network_ready` for
`network_send_task`).

What is hard: the chunking of the stream and the backward scan after a rejected
candidate; allocation failing between two statements of the parser; ownership of
a block passed from parser to HAL to decoder to poller; four tasks to wind up in
an order in which none waits for what another has deleted; refused and
half-failed calls after which two layers differ; a put of several queue calls
against pollers; on the network side four tasks over five state machines, each of
which refuses calls by its own state, while link, address and connection come and go;
a mode that the application sets before the sensor has heard of it; a library whose
task, closer and sender share a lock for some of their state and none for the rest.
`PROJECT.json` lists these hazards at their lines.

## 2. Modules

| module | models | how it corresponds |
|---|---|---|
| `MmwaveFrame` | frame format, `mmwave_build_frame`, tests of a complete candidate | operators only; `IsFrame` is the definition of a well-formed frame; `Scan` is a reference scan of a whole stream from each of its places, `FramesIn` the one from its beginning |
| `MmwaveCore` | parser, `hal_malloc`, `hal_free`, `_saveFrame`, the decoder's end of the frame queue | variables have the names of the statics (`built` is the first `built_frame_len` bytes of `building_buffer`, `building_buffer` says whether the pointer is not NULL); one action is one iteration of the loop of `process_data` |
| `MC_MmwaveCore` | streams for TLC | its assumption `UndisturbedInstance` says that the instance without failures meets the hypotheses of the theorems about undisturbed parsing |
| `MmwaveLifecycle` | the client's calls through all three layers, the four tasks, the interrupt | `client` is the place inside a call; a task's variable is its place in its loop, and its handle (`rx_task` ...) is separate because it is cleared after the task has reported its end |
| `EventMailbox` | `onReport`, `app_get_report`, deletion in `app_stop_sys` | one action per RTOS or heap call; the numbers stand for report contents |
| `DropOldestQueue` | what the mailbox promises: put, drop and take are atomic | `EventMailbox!Implements` maps the mailbox to it |
| `MC_EventMailbox` | two pollers | |
| `NetworkLifecycle` | `app_network.c`, `hal_network.c`, `hal_wifi.c`, `hal_ws.c`, both platform clients, and under them the driver's link and the task of the WebSocket library | the five `..._state` statics are variables; `client`, `loop` and `notice` are the places of the client in its call, of the event loop in `wifi_event_handler` and of the WebSocket's task in its chain of callbacks |
| `WsClient` | the WebSocket library as `esp32_websocket.c` uses it, over time: its task, one of an earlier start that is still there, caller, sender, server | `state`, `run`, `bits`, `lock` are the fields of the client; `task` is the place of each task in its loop; a tick is the second that one poll of the task waits |
| `MmwaveProtocol` | the words of `app_mmwave_constants.h`, the inquiries of `app_mmwave.c`, `app_mmwave_decoder_process_frame` | operators only; `Decode` is the set of events for which the decoder calls a callback |
| `InquiryExchange` | an inquiry from its wrapper through `hal_mmwave_send_frame`, `tx_queue` and `hal_send_task` to the sensor, and the answer's way to the decoder | `client` is each task's place in its call, `charged` is `currently_allocated_mem` as far as frames to send go |
| `InquiryService` | what an application may expect of its inquiries: answered in order or lost | `InquiryExchange!Implements` maps the exchange to it; `Exchange` is its safety, `Service` adds that everything is answered or lost some time |
| `MC_InquiryExchange` | two tasks, five inquiries, a report that has an inquiry's words | its assumption `StraysAnswerNothing` says of this report what `ExchangeIsService` asks of all |
| `MmwaveFrame_proofs`, `MmwaveCore_proofs`, `MmwaveLifecycle_proofs`, `EventMailbox_proofs`, `InquiryExchange_proofs`, `NetworkLifecycle_proofs`, `WsClient_proofs` | theorems | one module for each of the specifications; `InquiryExchange_proofs` has those about `MmwaveProtocol` too |
| `SequenceInduction` | lemmas | induction over the natural numbers, and what `FlattenSeq` does |

Definitions marked `mutant` are plausible slips in the code; each of them,
put in the place of the definition it follows, makes the property it is paired
with in `PROJECT.json` fail.  No specification uses them.

Choices worth knowing.

- *MmwaveCore.* The history variables `seen` (bytes accepted for parsing) and
  `saved` (frames handed over, with their place in `seen`) exist for the
  properties only. The outcome of `hal_malloc` is a set: it must fail beyond the
  limits, it may fail at all if `AllocMayFail` (no heap, or the mutex missed).
  `hal_free` frees first and then tries the mutex, so with `LockMayTimeout` the
  accounting of a free may be lost. The bytes are the real ones; the checksum is
  computed. After a store through NULL or a double free the parser is `halted`.
  After `mmwave_core_stop` a cycle begins anew only when the frames have been
  released, which is what the two calls in `hal_mmwave_deinit` see to.
- *MmwaveLifecycle.* Frames and events are counted, not carried. A wait with a
  timeout on an empty queue returns at once in the model; its length plays no
  role. A call on a NULL queue or mutex stops the system (the RTOS asserts) and
  is the value of `fault`. `Sensor` is the UART driver's interrupt handler, the
  one external piece.
- *EventMailbox.* The poller tests `current_state` and polls in two steps, as
  `network_send_task` does; a user who follows the documentation does the same.
- *NetworkLifecycle.* `network_init` and `network_uninit` are atomic: before the one
  there is no other task, and the other waits for the event handler. Elsewhere each
  call of the driver or the library is a step, and so is each callback.
  `esp_wifi_disconnect` without a link posts nothing. A library call that fails
  does so without an effect, or after as much of it as the code can have reached.
  IP events other than the two handled would run the callback once more with the
  state as it is, which an unexpected disconnection also does. The WebSocket's task
  is translated from the vendored library (`managed_components/`): its pause of ten
  seconds outlasts the one second that a close waits, a closed connection is not
  opened again (`close_reconnect` is off), and a task on its way out neither
  prevents the start of another nor leaves it alone (`FormerEnds`). Creating the
  task and its first steps are one; of tasks that are on their way out together
  one is kept, and a lost task beside which another is started joins it.
- *MmwaveProtocol.* The control words, command words and payload lengths are the real
  ones. A decoder branch tests a frame with `ctrl`, `cmd` and length; the branches for
  responses all have the same shape, so they are one operator over the table `Words`.
  Report values outside their tables give no report, or the 0 that
  `decoded_report_reset` left in a UOF report.
- *InquiryExchange.* Frames keep a note of the inquiry they carry or answer, which no
  action reads: it is there for the properties. `in_step` remembers whether a switch
  of the mode failed, was lost on the line, was overtaken by a stop, or was made while
  another task was in a call. A call that fails the test of its mode or argument
  changes nothing, so it is no step. A stop goes through the stages of `app_stop_sys`
  with no regard for the clients, as the code does: one may be at any place of its call
  when the sender has ended, the HAL is STOPPED or the manager is. `hal_mmwave_send_frame`
  tests the state once, before it builds the frame, so a frame may be queued behind
  the sender's end; it is lost (`ToSend`), and `hal_mmwave_deinit` gives it back to the
  account. Answers to frames sent while the line is closed are lost. Start-up and
  shut-down of the tasks are in `MmwaveLifecycle`; `StartSys` stands for deinit, init and
  start, with no client inside a call, whose queue would be deleted under it; it keeps what
  the code keeps, the mode and the account. The decoder
  answers to nothing: that the answer is the right one is a property, not a guard.
- *WsClient.* What the library's task does without giving up its lock is one step,
  except for connecting and for writing a ping, which take long. `run`, the event bits
  and, in places, `state` are used without the lock, so every use outside it is a step.
  Time may pass between any two steps (`TimePasses`), in any amount: the task's own
  reads and writes take up to ten seconds each, and other tasks may take the lock
  again and again before it does. Nothing in the code bounds this, so the model does
  not either; the history variable `late` counts what passes otherwise than in the
  task's polls while a pong is awaited, and the properties say what it must come to.
  `esp_websocket_client_start` looks at `state` only, and so does `Start`: it may find
  the task of the last start on its way out, makes a new transport under it, and from then
  on two tasks run on the same client (`overlapped` remembers it until the next start).
  The old one takes the state away from the new one, which then goes round its
  loop (`LostTurn`). What becomes of a failed ping the library does not ask, so a failing
  write of one is nothing but `ConnectionBreaks`. `NetworkLifecycle` sees of all
  this one session at a time.

## 3. Runs

| run | asks | instance |
|---|---|---|
| `core_chunks` | do chunk borders change what is found, is every byte given back, is the NULL buffer never met | three streams of small, exactly fitting, large and nested frames with noise, chunks of 1, 2, 5, 9 and 14 bytes in any order, memory enough |
| `core_failures` | what holds when everything fails: buffer bounds, the built bytes, frames genuine and disjoint, accounting, status, termination | damaged checksum, damaged tail, oversized length, two good frames for a queue of one, three large frames in a row with a small one behind them; chunks of 5 and 20; any allocation or mutex may fail; two init/stop cycles |
| `life_cycle` | do the layers stay together, is a running system served, do calls return | any number of cycles, sensor and sender active, no failures, no restart without deinit |
| `life_failures` | are tasks off the queues before these go, does a stop drain | any creation or UART call fails, restarts allowed |
| `mailbox` | does the mailbox implement the drop-oldest queue, are blocks freed once, does the decoder get its turn | two pollers, queue of two, four reports, a stop at any time |
| `net_session` | does a running network come back, does a stopped one stay away | no failing call, the server closes only in answer, links and addresses lost at any time; two events waiting, one report |
| `net_failures` | with everything failing: do the layers agree on the connection, does the sender end first, does every call return | any call may fail, the server closes at will |
| `inquiry` | is each answer its inquiry's own, does an inquiry find the sensor in its mode, is the whole a service that answers in order or loses | two tasks, both switches and an argument that is refused, an inquiry for each mode, a setting of four bytes; two frames in `tx_queue`, one under way back, a limit of three frames; losses and failures anywhere, stops while tasks are inside a call, starts |
| `ws_client` | can the client be started again, is a connection's end noticed above, are connections given up only when they are dead or their server's time was lost, do calls return | a ping when more than one tick has passed since the last, a pong within three ticks, so that three pings are allowed, an answer within one, one data frame waiting; any connect or write may fail and take any time, the server closes, breaks or falls silent at any time, a start may find a task on its way out |
| `find_double_free`, `find_restart`, `find_budget` | claims of comments and documentation that the code does not meet, see 6 | the smallest instance that shows each; `find_budget` is that of `inquiry` without loss or failure |

Bounds and why they are enough.

- The building buffer starts at 11 bytes instead of 20 and grows by the same
  rule: a payload of one byte is small, two bytes fit exactly (counted as large
  although no extension is needed), three and four need an extension and three
  in a row keep the buffer. That is every case of `CountBigFrames`, `Fits` and
  `KeepBuffer`: the burst in `core_failures` reaches the count of three and keeps the large
  buffer, and the small frame behind it makes the parser give that up. Chunks of 1, 2 and 5
  bytes in `core_chunks` put a border at every byte of a frame.
- `MAX_TOTAL_ALLOC` of 60 in `core_failures` is reached with two frames out.
- `MaxCycles` is 2: the second init meets what the first cycle has left.
- Queues of one or two elements are empty, in between and full within a run;
  `life_*` does not bound the number of cycles. Four reports for a queue of two
  overflow it twice.
- `Reports` and `MaxCycles` bound counters that the code does not have. In the
  network, one report is enough for a stop to find the sender at each of its places;
  an endless supply would keep it from ever testing `end_flag`.
- `MaxEvents` is 2: a disconnection behind another, or behind an address, is what
  confuses `manual_disconnect` if anything does. The client's own two posts ignore
  the bound, which holds back the driver only.
- `Limit` of 33 bytes lets three frames be built, of 10 bytes or of 13: the account
  fills, and with it every later inquiry is refused. Two tasks and two places in
  `tx_queue` are enough for a switch between another task's test of the mode and its
  frame, and for a switch queued behind an inquiry of the old mode.
- The times of `ws_client` keep the proportions of `esp32_websocket.c` (three pings
  before the pong is overdue); the library's ten seconds before it connects again are
  one tick, since no other timer counts while there is no connection. `late` stops one
  above the pong's time, beyond which no property tells values apart. Two tasks are
  enough for a start beside one on its way out; a third would find no room, and waits.

Deadlock is checked in `life_cycle`, `net_session`, `net_failures` and `inquiry`. It is
off where the system may stop: a stream ends (`core_*`), a failed run is halted or can
be wound up no further (`life_failures`), the application is stopped (`mailbox`), and
`esp32_websocket.c` may stay STARTED with a client that does not run, in which it refuses
start and uninit (`ws_client`, see `StaleOnlyAfterTimeout`).

Fairness.  `MmwaveCore` assumes weak fairness of the loop of `process_data` and
of the decoder: both are code of a task that the scheduler resumes. In
`MmwaveLifecycle` each task and the interior of a call are weakly fair, because
every wait in them has a timeout and every loop of higher priority contains a
delay; the client and the sensor are not fair, neither has to do anything. In
`EventMailbox` tasks are weakly fair and the decoder's taking of the mutex
strongly fair. A FreeRTOS mutex wakes the waiter of highest priority; the decoder
runs at priority 6 (`app/mmWave_manager.c:144`), the network task at 6 too, with a
pause of 100 ms whenever it finds the queues empty (`app/app_network.c:114`), and the
tasks of the test programs that poll at the main task's priority below. Without strong
fairness the pollers, who come back at once, could starve the decoder: a user task of
a priority above 6 that polls in a loop is outside the assumption, and so is a poll
without a timeout on a queue that stays empty, which would hold the mutex for ever.
In `NetworkLifecycle` the tasks and the interior of a call are weakly fair, and the
library's task ends, pauses and gives up a close when its timers say so. A server
that can be reached is reached in the end (strong fairness of `WsConnects`), a task on
its way out gets the library's event loop in the end (`FormerEnds`), and an access
point answers each attempt and gives an address to whom it lets in; nothing says that
it lets in, or that a link lasts: this is the premise of `ConnectsAgain`, in which
failed attempts and losses end some time. The client is not fair. In `InquiryExchange`
the interior of a call, the sender and the decoder are weakly fair, for the same reason
as in `MmwaveLifecycle`; nothing makes the sensor talk or a client ask. In `WsClient`
tasks and caller are strongly fair, since what they wait for, the lock, is taken by a
sender again and again but only for a write at a time, and a write ends; the sender is
weakly fair, and a server that answers pings does so (`ServerAnswers`). No tick passes
while an answer is overdue of a server that answers.

`Prompt` is an assumption about the scheduler, and `ws_client` has it TRUE: starting
a task, its beginning and its end take less than a tick; the creator clears the event bits
before the task it created ends; that task has begun before the client's next call;
a client is freed only when no task is left in it, and started only when none is left
but one on its way out. The code does not enforce any of it: the tests it makes are those
of `esp_websocket_client_start` and of `esp32_websocket.c`, which are guards of `Start`
and `Destroy`. With FALSE, `CallsReturn`, `TypeOK` and `GivesUpFairly` fail in the
same instance, while `StartableAgain`, `StaleOnlyAfterTimeout` and `LiveIsKept` are proved
to hold. An example for the first: `esp_websocket_client_start` creates the task before it
clears the bits (`esp_websocket_client.c:1408`), and the task sets `run` itself, so a
destroy at once after a start is undone by the task and waits for ever. A start beside a
task that is still in its loop, which has lost its state, also frees the
transport that this task works on (`esp_websocket_client_create_transport`, :557); what
comes of that is not modelled.

What the passing runs show.  *ScanAgrees*: for undamaged frames among noise,
the parser finds what a scan of the whole stream finds. *BuiltIsWindow*,
*FramesGenuine*, *FramesDisjoint*: with damage, loss of whole chunks and failed
allocations, what is built is always a suffix of the stream before the current
byte, and what is delivered is a frame of it, in order and without overlap.
*WritesInBounds*, *LargeBufferOnlyInBursts*, *AccountCoversUse*, *NoLeak*,
*ParseReturns* say what their comments say. *TasksOwnQueues*,
*StopDrains*, *LayersAgree*, *RunningIsServed*, *NoNullHandle*, *CallsReturn*
are the promises of the lifecycle; the last four are stated for runs without
failing calls, and do not hold with them (a receiver that was not created leaves
`hal_mmwave_stop` waiting for ever; an application that fails to get its queues
leaves the HAL in INIT and itself in UNINIT, out of which no call leads).
*Implements*, *HeapIsReachable*, *NoWildFree*, *DecoderGoesOn* are those of the
mailbox. In the network *LayersAgree* and *SenderGoesFirst* hold whatever fails,
*CallsReturn* too, although client and event loop may wait for the same close;
*ConnectsAgain* is stated for a server that does not close, since a connection
closed by the server is opened again only with the next address, and for calls that
succeed, since a failed `esp_wifi_connect` is not repeated. For the inquiries,
*OwnAnswer* says that words and lengths alone tell answers and reports apart, although
a UOF report may come with any command word; *ArrivesInItsMode* that the test of the
mode in the wrapper still holds when the frame arrives, and says in which cases it does
not (`in_step`); *Implements* that answers come in the order of the inquiries, each once.
For the WebSocket's client, *StartableAgain* says that no order of closer, sender and
tasks leaves a client without a task in a state that refuses a start, and
*StaleOnlyAfterTimeout* that the layers above believe in a connection of which the library
knows nothing only after a close that was not answered in time or after a start beside a
task on its way out. *GivesUpFairly* is the comment at `esp32_websocket.c:100` with the
price of its exceptions: a server that answers is given up, or fewer than three pings
have been sent, only when so much time was lost to reads, writes and waits for the lock.
*DeadIsNoticed* is its other half; it excludes a start beside a leaving task, because
then the old task sets STOPPED in the new session, a close returns at once and leaves
CLOSE_FRAME_SENT behind, no ping is sent any more and a dead connection is kept.
*StatusSound* says what each status of `mmwave_parse_data` means, which is not quite
what its documentation says (6).

## 4. Proofs

`MmwaveFrame_proofs` proves `BuiltFrameIsFrame`: for every payload shorter than
65536 bytes, control word and command word, what `mmwave_build_frame` emits is a
frame by `IsFrame`, with that payload as its data. (At 65536 the announced length
wraps, so the bound is needed.)

`MmwaveCore_proofs` proves for every set of streams and chunk sizes, every buffer
size of at least nine bytes, every memory limit and every combination of failures
(assumption `CoreAssumption` and nothing else) eight properties, first of all

- `TypeCorrect`: `Spec => []TypeOK`;
- `BuildingBufferSafe`: `Spec => []WritesInBounds`;
- `BuiltTracksStream`: `Spec => []BuiltIsWindow`;
- `OnlyGenuineFrames`: `Spec => []FramesGenuine`;
- `FramesNeverOverlap`: `Spec => []FramesDisjoint`.

None of the last four is inductive alone. That the next byte fits
(`WritesInBounds`) rests on `Shape`: how the header flags, the announced length
and the buffer's size go with the number of bytes built (a longer frame passes the
length byte only after the buffer has been extended, and the candidate is
completed exactly at the announced length), and that `i` is negative only when
nothing is built, which is where the loop ends after a rejected candidate began in
an earlier chunk. That frames are genuine needs, beyond `Shape`, that the built
bytes are the window of the stream (`BuiltIsWindow`), so that a candidate that
passes the tests is a subsequence of the stream; that they are disjoint needs
`SavedBehind`: the frames handed over end before the frame under construction.
The invariant behind these is `TypeOK /\ Shape /\ BuiltIsWindow /\ SavedBehind`, with one
lemma per kind of step; moving `i` back by seven after a rejection keeps
`SavedBehind` because a rejected candidate is at least nine bytes long.

The other three have invariants of their own: `StatusIsTrue` (`StatusSound`, an action
property of the step that returns: the status changes with `finished_frames` and with a
header pair begun in this chunk, or is computed again at the end of the loop; a frame that
an earlier chunk began is longer than what has been parsed of this one), `BufferShrinksAgain` (`LargeBufferOnlyInBursts`, from what `restart_parser`
leaves behind in each of its two branches) and `AccountIsSound` (`AccountCoversUse`:
the counter covers the two buffers and the frames out, and stays between that and the
limit, because a missed mutex loses only subtractions; the sum over the queued frames
is the length of their concatenation, `SizeOf`).

Three properties do not hold of every stream and are proved of parsing that nothing
disturbs.  What that means is said by the operators before the properties of
`MmwaveCore`:

- `Ample(size, chunk)`: nothing fails, chunks have at most `chunk` bytes, and the limits
  admit a full queue of frames of `size` bytes with two more under way, and both
  buffers twice. `CodeIsAmple` proves it of the sizes in the code, for frames of up to 704
  bytes in chunks of up to 1024; every frame that the decoder knows is far shorter, and
  `hal_receive_task` reads 512 bytes at a time.
- `ModestStreams(size)`: no header pair, genuine or not, announces more than `size` bytes.
- `UndamagedStreams(size)`: there are frames of at most `size` bytes that do not overlap,
  and no header pair outside them. Between them there may be anything else, lone header
  bytes included, and a payload may contain header pairs.

The streams of `core_chunks` are undamaged for frames of 13 bytes (`UndisturbedInstance`,
which TLC evaluates); the nested one is not modest, so that the two cases differ.

- `EverythingGivenBack` (`NoLeak`) and `BufferIsThere` (`NoNullWrite`): with ample memory
  and modest streams for any number of cycles, or undamaged streams and one cycle.
- `ChunksDoNotMatter` (`ScanAgrees`): with ample memory, undamaged streams and one cycle.
  (A second cycle begins in the middle of the stream and possibly of a frame.)

The first two rest on `Calm`: the counter is exactly what can be reached
(`Reachable`: both buffers and all frames out), the building buffer exists whenever the
parser runs, and buffers and frames have at most the sizes that `Ample` allows for, so
that the next allocation succeeds. For undamaged streams this needs that the parser
begins no candidate inside a frame, hence `FirstCycle`: as long as the first cycle
lasts it is `InStep`, which is to say that `i` is not negative, that `Start`, the
place where the construction began, is in no frame but at its beginning (`Aligned`), and
that whatever more of the stream is looked at, its scan finds what has been handed over and
then what it finds from `Start` (`ScanGoesOn`). Each step of the parser unfolds the
reference scan by the branch it takes: a byte skipped, a lone header byte dropped, a frame
finished; a rejected candidate does not occur. At the end of a chunk what is left from `Start`
is an unfinished frame or nothing, of which the scan makes nothing, and `ScanAgrees`
follows.

`SequenceInduction` has what such arguments need: the library's induction takes an operator
for its predicate, which these provers cannot instantiate, but that every non-empty
set of naturals has a least element (`WFMin`) gives induction for a set. `Scan`
and `FlattenSeq` are recursive functions, whose existence is proved by it.

`EventMailbox_proofs` proves for every set of pollers, every length of the queue of
at least one and every number of reports (assumption `MailboxAssumption`):

- `TypeCorrect`: `Spec => []TypeOK`, the capacity of the queue included;
- `DropFindsItsReport`: `Spec => []NoWildFree`;
- `BlocksHaveOneOwner`: `Spec => []HeapIsReachable`;
- `MailboxImplementsQueue`: `Spec => Implements`, the safety of `DropOldestQueue`.

The invariant behind all four is `TypeOK /\ Excluded /\ RoomMade /\ Numbered`.
`NoWildFree` is not inductive: the decoder frees what it receives from a queue it
found full two calls earlier, and only because the mutex keeps every poller out of
the receive in between (`Excluded`) is the queue still full (`RoomMade`). Each
report is held once because the reports in a hand, in the queue and about to be
put are numbered in decoding order (`Numbered`); without that a free could take
away a block somebody else still points to. The refinement maps the abstract queue
to the report a poller has taken but not yet copied, the one the decoder took out
to make room and has not replaced, and the queue itself (`Store`); putting
happens at the send that succeeds, taking at the copy. Initial states map to
initial states and every step to a step or a stutter (`NextImplements`).

`MmwaveLifecycle_proofs` proves for queues of any length (assumption
`LifecycleAssumption`), with failing calls and with restarts:

- `TypeCorrect`: `Spec => []TypeOK`;
- `QueuesOutliveTasks`: `Spec => []TasksOwnQueues`;
- `NothingIsLeftBehind`: `Spec => StopDrains`;

and for runs in which no call fails and no stopped system is started again
(`MayFail = FALSE`, `Restart = FALSE`):

- `LayersStayTogether`, `RunningSystemIsServed`, `HandlesExist`: `LayersAgree`,
  `RunningIsServed` and `NoNullHandle`.

The first group rests on `Ordered == Places /\ Line /\ Workers /\ DecoderLives /\
Drained`: what state each layer has at each place inside a call, which task exists in
which state, and in which order the tasks report their ends. `StopDrains` needs all
of it: a stop returns when the flags are set, and what makes the queues empty then is
that the dispatcher reports only behind the closed line, the receiver only behind
the dispatcher and the sender only with its own queue empty (`Drained`). The second
group adds `Healthy`, which says of each place what exists there; it fails, as the
properties do, as soon as one creation may fail.

`NetworkLifecycle_proofs` proves for any number of waiting events and of reports
(assumption `NetworkAssumption`), whatever fails:

- `TypeCorrect`: `Spec => []TypeOK`;
- `SenderEndsFirst`: `Spec => []SenderGoesFirst`;
- `LayersStayTogether`: `Spec => []LayersAgree`;
- `StoppedStaysAway`: `Spec => StopForbidsReconnect`.

`SenderInv` ties `task_ended` and `end_flag` to the sender and to the client's place.
The agreement of the layers needs `Begun`: before the driver has reported its start
nothing of the WebSocket exists, and it starts once; and `Notices`: what is on its way
up has been set in the layers below. That a stopped network does not come back rests on
`Asked`: there is at most one disconnection waiting, and after a stop either
`manual_disconnect` still waits for it or there is none to come.

`InquiryExchange_proofs` begins with `WordsDistinct`, `AnswerDecodesToItsType` and
`OneEventAtMost`: of the words in `app_mmwave_constants.h` no two inquiries share a
pair, so a frame with the words and the length of an inquiry is decoded to its response
alone, and any frame to one event or none. The table is finite, the frames are not.
It then proves for any set of clients and inquiries, any queue,
limit and failures (the assumptions `ExchangeAssumption` and `MmwaveProtocol`'s
definitions):

- `TypeCorrect`: `Spec => []TypeOK`;
- `EveryAnswerIsOwn`: `Spec => []OwnAnswer`, from `IInv`: every queued frame is that of
  an inquiry that was made, every answer on the line has the words and the length of
  its inquiry; the rest is `AnswerDecodesToItsType`;
- `InquiriesArriveInTheirMode`: `Spec => []ArrivesInItsMode`, from `ModeInv`: the mode
  of the manager is that of the sensor after all queued switches, ahead of the queue by
  the one switch that a client is making, so that each queued inquiry will find the
  mode it was tested for;
- `ExchangeIsService`: `Spec => Abstract!Exchange`, the safety of `InquiryService`, if no
  frame that the sensor sends unasked is decoded to a response (`Unprompted`). The sensor's
  documented reports are such frames, lemma `ReportIsNoResponse`.

For the last one the inquiries pending are those answered on the line, without the
unasked frames (`Answered`), and behind them those in `tx_queue`. Queueing a frame is
`Ask`, a frame lost on the line is `Lose`, an answer decoded is `Answer`, any other frame
decoded `Announce`, the stop of the HAL `LoseAll`; sending, since it moves an inquiry from the
head of one list to the end of the other, and reporting stutter, and so do the steps of a call
before and after the queue. That the response is the one `Answer` names, value
included, is `IInv` with `AnswerDecodesToItsType`.

`WsClient_proofs` proves for all timers and any number of waiting frames (assumption
`WsAssumption`, which only says that they are numbers), with any scheduling:

- `ClientStartsAgain`: `Spec => []StartableAgain`;
- `TimeoutsAloneLeaveStale`: `Spec => []StaleOnlyAfterTimeout`;
- `LiveConnectionIsKept`: `Spec => []LiveIsKept`, the first half of `GivesUpFairly`;

and under `Prompt = TRUE` (see 3)

- `TypeCorrect`: `Spec => []TypeOK`, who holds the lock included;
- `AllPingsAreSent`: `Spec => []GivesUpFairly`.

The first three rest on `Inv`. `Told` says of a client whose last start found no task
that one which does not run was told not to, and where its task can be: what is left
STARTED without a state was asked to stop. It says nothing of an overlapped start,
after which the state may go at any time; that is the other disjunct of the property.
`LiveIsKept` needs an argument about time, `PongInTime`: while the task waits for a pong
on a connection to a server that answers, its wait is at most `AnswerWithin + late`, and
as long as no pong is in the inbox the server owes one, and has owed it for
longer than the task has waited, less what was lost (`late`). The task
polls in vain only with an empty inbox, so a tick of its own poll adds to both; every other
tick is in `late`. So the pong's timer runs out only when `late` has passed
what the server left of the time, and no proportion of the timers is needed.

The number of pings needs the rest of `PromptInv`: who holds the lock (`LockHeld`),
that of two tasks one is on its way out (`OldLeaves`), that a freed client has none (`Freed`),
what the bits say while a start is under way (`Restarted`), and where a ping is
written (`PingPlace`). `Counted` then says that, unless all pings have been sent,
`pong_age` is at most a `Gap == PingEvery + 1` for each ping but the first, what has
passed since the last one, and `late`. What this leaves of the pong's time is
`Left`, and `PaidFor` that fewer pings have cost more than it. For the timers of
`esp32_websocket.c`, a ping in 10 seconds and a pong in 30, that is ten seconds or more
(`CodeLosesTenSeconds`).

## 5. Model-checked only

- Liveness under fairness, which is beyond the prover: `ParseReturns`, `CallsReturn` (of
  the driver, of the network and of the WebSocket's client), `DecoderGoesOn`,
  `ConnectsAgain`, `DeadIsNoticed`.
- That every inquiry taken is answered or lost some time, the liveness in `Implements` of the
  inquiries. Its safety is proved.

Every invariant and every other action property of a passing run is stated by a theorem. Some
theorems have hypotheses, which section 4 names: a run that meets them is an instance of the
theorem, and outside them the property fails, as section 6 shows for `ScanAgrees` and
`NoNullWrite` and section 3 for the lifecycle and for `Prompt`.

Of the deadlocks that the runs look for no theorem speaks either, since that is `ENABLED`.

## 6. Where the code does not do what is said of it

| run | property | what the run shows |
|---|---|---|
| `find_double_free` | `NoDoubleFree` | a frame that meets a full `frame_queue` is freed by `_saveFrame` and again by the parser |
| `find_restart` | `RunningIsServed` | start after stop, which the documentation allows, runs without parser, decoder and queues |
| `find_budget` | `IdleSystemCanSend` | frames to send are charged to the memory limit (`hal_malloc`) and released past it (`platform_free`, `my_hal/hal_mmwave_uart.c:237`): after enough inquiries, all answered, the idle system refuses the next for ever |

More disagreements show when the instance of a passing run is changed.

- `core_chunks.cfg` with `Streams <- DamagedPayload` violates `ScanAgrees`.
  `seeed_studio.c:281` says that only the first two bytes of a rejected candidate are
  dropped; `restart_parser` (:279) sets `payload_len` to zero before `i -= 9 +
  payload_len - 2` (:282), so the scan resumes too late and the frame behind a
  truncated one is lost. This is why the streams of `core_chunks` are undamaged.
- `core_chunks.cfg` with `Streams <- BurstThenOversized` violates `NoNullWrite`. A length
  that cannot be served leaves the building buffer NULL (:218); after three large frames
  `restart_parser` (:221) keeps what there is, and the next header byte is stored through
  it (:177).
- `net_session.cfg` with `PROPERTY StoppedIsUsable` in the place of its properties is
  violated. `hal_wifi_stop` disconnects only (`hal_wifi.c:90`), although `hal_wifi.h:37`
  says that it stops the driver; `hal_wifi.c` stays RUNNING, and `network_start` and
  `network_uninit`, which `app_network.c` accepts in STOPPED and the test programs call
  there, are refused below.
- `core_failures.cfg` with `INVARIANT StatusAsDocumented` in the place of its properties
  is violated. `mmwave_core_types.h:47` says of NO_FRAMES that all bytes were discarded,
  and :50 of UNFINISHED_FRAME that a frame is under construction; a chunk that
  only goes on with the frame of an earlier one returns NO_FRAMES with that frame under
  construction (`seeed_studio.c:162`, :295), and none of its bytes is discarded.
- `ws_client.cfg` with `Prompt = FALSE` violates `CallsReturn`, `TypeOK` and
  `GivesUpFairly`, see 3.

And one is a matter of time. "We allow three pings before we declare the connection
dead" (`esp32_websocket.c:100`) is not guaranteed: when slow reads, slow writes or other
tasks with the lock in hand cost the library's task ten seconds or more, a
connection may be given up after fewer, and when they cost more than 30 seconds less the
time in which the server answers, one to a live server may be. `GivesUpFairly` says that
it takes as much; TLC finds both when the parts about `late` are dropped.

## 7. Not modelled

- The system monitor: a registry for a log line, on which nothing depends.
- Packets received from the server (`rx_queue`, `network_poll_rx`): the data is handed on
  as it came, to a user of `network_poll_rx`. `app_network.c:200` frees
  `&p.data`, the address of a local variable, for each that is left there; and since
  `ws_handler` does not look at `op_code`, the payloads of control frames arrive as data.
- The statistics counters and the serialisation of packets: formatting.
- Of the WebSocket library: redirects, headers, credentials, partial messages,
  `CONFIG_ESP_WS_CLIENT_SEPARATE_TX_LOCK` and `enable_close_reconnect` (both off), and
  a close whose own write waits for ever (`portMAX_DELAY`) on a connection that neither
  takes bytes nor breaks.
- One account for received and sent frames: the code has one counter,
  `MmwaveCore` and `InquiryExchange` have each their own. A shared limit is reached
  earlier, which each module allows for: in `core_failures` and `inquiry` an allocation
  may fail at any time.
- Board constants, `main` and the test programs: they are the client of the models.
- The system snapshot, `hal_mmwave_flush_frames` (called by a test only),
  `platform_uart_event_converter_stop` (no caller).
- Bytes in the UART driver's buffer against the sizes in its events: the receiver's
  counts stand for them.
- Lengths of timeouts outside `WsClient`, and priorities beyond what fairness says.

Known and without a property:

- a rescan that leaves `i` negative ends the loop and drops the rest of the chunk;
- frames in `frame_queue` at a stop are not decoded, and unread reports in the queues
  deleted by `app_stop_sys` are lost to the heap;
- the dispatcher reads the number of queued events before `rx_closed`
  (`esp32_uart.c:141`), so an event posted and the line closed in between leave an
  event behind, although line 128 says that the queue is empty by then;
- `app_stop_sys` deletes mutexes and queues while its state still reads RUNNING, so
  that a poller may lock a NULL mutex or wait on a deleted queue (`fault` in
  `EventMailbox`), although the documentation allows polling in RUNNING;
- `app_get_report` waits with the mutex that the put needs, so a poll that waits
  cannot see what is decoded meanwhile;
- `network_uninit` directly after `network_init` is refused
  (`esp32_wifi_client.c:189` does not accept CONFIGURED), and a `network_init` that
  fails half-way cannot be undone;
- a close that times out leaves `network_ready` and the states above it as they were,
  and `esp32_websocket.c` refuses start and uninit from there on; so may a start beside
  a task on its way out, whose old task takes the state from the new one
  (`StaleOnlyAfterTimeout` says that nothing else leads there);
- after such a start a dead connection may be kept for ever, see `DeadIsNoticed` in 3.

## 8. Plan

Done: the parser, the driver's lifecycle, the mailbox with its abstract queue, the network's
lifecycle, the inquiries with the protocol's tables and their abstract service, and
the WebSocket library over time; a proof module for each. Left:

1. `UartPipeline`: bytes in the driver's buffer, sizes in events, dropped events,
   overflow events and the 512-byte limit of the receiver, composed with a count of
   bytes handed to the parser. Property: no byte is read twice or out of order; what
   is left behind is bounded.
2. The receiving side of the network: `rx_queue`, its pollers and its end. An abstract
   connection machine that the three layers of `NetworkLifecycle` implement.
3. One account of the HAL's memory under the parser and the inquiries.
4. `SystemMonitor`: the registry of ten tasks, updated without a lock.
