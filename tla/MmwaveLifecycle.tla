--------------------------- MODULE MmwaveLifecycle ---------------------------
(***************************************************************************)
(* Start-up and shut-down of the mmWave driver: the application manager    *)
(* (mmWave_manager.c), the HAL (hal_mmwave_uart.c) and the platform's UART *)
(* layer (esp32_uart.c), with the four tasks they create: dispatcher,      *)
(* receiver, sender and decoder.  One client calls init, start, send, stop *)
(* and deinit; a call that waits or creates tasks is several steps, between*)
(* which the tasks run.  Events, frames and queues are counted: what a     *)
(* frame holds is the business of module MmwaveCore.                       *)
(*                                                                         *)
(* A failed assertion of the RTOS on a NULL queue or mutex stops the whole *)
(* system: it is the value of fault.                                       *)
(***************************************************************************)
EXTENDS Integers

CONSTANTS
  UartEvents,     \* capacity of the driver's event queue
  HalEvents,      \* capacity of the platform's event queue
  MaxFrames,      \* capacity of frame_queue and of tx_queue
  MayFail,        \* creating a queue or a task, or a UART call, may fail
  Restart         \* the client may start a stopped system

ASSUME LifecycleAssumption ==
  /\ UartEvents \in Nat \ {0}
  /\ HalEvents \in Nat \ {0}
  /\ MaxFrames \in Nat \ {0}
  /\ MayFail \in BOOLEAN
  /\ Restart \in BOOLEAN

VARIABLES
  \* the states of the two layers, the client's place in a call, a crash
  app_state, hal_state, client, fault,
  \* the parser is bound to the HAL (hal_functions # NULL)
  core_bound,
  \* the UART: driver installed, receive interrupt enabled, queued events
  driver, intr, uart_events,
  \* the platform: its event queue exists, events in it, the dispatcher
  event_queue, events, rx_closed, dispatcher, dispatcher_task,
  hal_dispatcher_ended_flag,
  \* the HAL: its queues exist, frames in them, the receiver and the sender,
  \* tasks that have reported their end and not yet cleared their handle
  hal_queues, frames, tx_frames,
  rx, rx_task, rx_tails, flag1, tx, tx_task, tx_tails, flag2,
  \* the application: its queues and mutexes exist, the decoder
  app_queues, decoder, end_flag, task_ended

layerVars == <<app_state, hal_state, core_bound>>
uartVars  == <<driver, intr, uart_events>>
dispVars  == <<rx_closed, dispatcher, dispatcher_task, hal_dispatcher_ended_flag>>
evqVars   == <<event_queue, events>>
halqVars  == <<hal_queues, frames, tx_frames>>
rxVars    == <<rx, rx_task, rx_tails, flag1>>
txVars    == <<tx, tx_task, tx_tails, flag2>>
decVars   == <<app_queues, decoder, end_flag, task_ended>>
vars == <<app_state, hal_state, client, fault, core_bound, driver, intr,
          uart_events, event_queue, events, rx_closed, dispatcher,
          dispatcher_task, hal_dispatcher_ended_flag, hal_queues, frames,
          tx_frames, rx, rx_task, rx_tails, flag1, tx, tx_task, tx_tails,
          flag2, app_queues, decoder, end_flag, task_ended>>

States == {"UNINIT", "INIT", "RUNNING", "STOPPED"}

Init ==
  /\ app_state = "UNINIT" /\ hal_state = "UNINIT"
  /\ client = "idle" /\ fault = "none" /\ core_bound = FALSE
  /\ driver = FALSE /\ intr = FALSE /\ uart_events = 0
  /\ event_queue = FALSE /\ events = 0 /\ rx_closed = FALSE
  /\ dispatcher = "none" /\ dispatcher_task = FALSE
  /\ hal_dispatcher_ended_flag = FALSE
  /\ hal_queues = FALSE /\ frames = 0 /\ tx_frames = 0
  /\ rx = "none" /\ rx_task = FALSE /\ rx_tails = 0 /\ flag1 = FALSE
  /\ tx = "none" /\ tx_task = FALSE /\ tx_tails = 0 /\ flag2 = FALSE
  /\ app_queues = FALSE /\ decoder = "none"
  /\ end_flag = FALSE /\ task_ended = FALSE

\* The system has not been stopped by a failed assertion.
Up == fault = "none"

\* What a creation that may fail returns.
Created == IF MayFail THEN BOOLEAN ELSE {TRUE}

\* A queue of n elements after one is posted to it or lost.
PostedAlways(n, capacity) == n + 1          \* mutant: no capacity
Posted(n, capacity) == IF n < capacity THEN n + 1 ELSE n

-----------------------------------------------------------------------------
(* app_init_sys: runs while no task of the driver does.                     *)

NoDriver == driver' = FALSE /\ intr' = FALSE /\ uart_events' = 0

InitCall ==
  /\ Up /\ client = "idle" /\ app_state = "UNINIT" /\ hal_state = "UNINIT"
  /\ core_bound' = TRUE
  /\ UNCHANGED <<client, fault, dispVars, rxVars, txVars>>

\* hal_mmwave_init leaves with an error: no event queue; or the driver cannot
\* be installed (it is still there, or out of memory), and platform_uart_deinit
\* removes all; or the threshold cannot be set, and all stays.
InitHalFails ==
  /\ InitCall
  /\ \/ /\ MayFail
        /\ event_queue' = FALSE /\ events' = 0
        /\ UNCHANGED uartVars
     \/ /\ driver \/ MayFail
        /\ event_queue' = FALSE /\ events' = 0
        /\ NoDriver
     \/ /\ ~driver /\ MayFail
        /\ event_queue' = TRUE /\ events' = 0
        /\ driver' = TRUE /\ intr' = TRUE /\ uart_events' = 0
  /\ UNCHANGED <<app_state, hal_state, halqVars, decVars>>

\* The HAL comes up (its queues are not checked), then the application's queues
\* and mutexes, which are: without them the application stays UNINIT.
InitSys ==
  /\ InitCall
  /\ ~driver
  /\ driver' = TRUE /\ intr' = TRUE /\ uart_events' = 0
  /\ event_queue' = TRUE /\ events' = 0
  /\ hal_queues' \in Created /\ frames' = 0 /\ tx_frames' = 0
  /\ hal_state' = "INIT"
  /\ app_queues' \in Created
  /\ \/ /\ app_queues'
        /\ end_flag' = FALSE /\ task_ended' = FALSE
        /\ app_state' = "INIT"
     \/ /\ ~app_queues'
        /\ UNCHANGED <<end_flag, task_ended, app_state>>
  /\ UNCHANGED decoder

-----------------------------------------------------------------------------
(* app_start_sys and hal_mmwave_start.                                      *)

\* platform_ISR_enable
OpenLineOnly == intr' = TRUE /\ UNCHANGED rx_closed    \* mutant: rx_closed stays
OpenLine     == intr' = TRUE /\ rx_closed' = FALSE

KeepOldFlags == UNCHANGED <<flag1, flag2, hal_dispatcher_ended_flag>>  \* mutant
ResetFlags ==
  flag1' = FALSE /\ flag2' = FALSE /\ hal_dispatcher_ended_flag' = FALSE

StartIsr ==
  /\ Up /\ client = "idle"
  /\ app_state = "INIT" \/ (Restart /\ app_state = "STOPPED")
  /\ hal_state \in {"INIT", "STOPPED"}
  /\ ResetFlags
  /\ \/ OpenLine /\ client' = "start_conv"
     \/ MayFail /\ UNCHANGED <<intr, rx_closed, client>>
  /\ UNCHANGED <<layerVars, fault, driver, uart_events, evqVars, dispatcher,
                 dispatcher_task, halqVars, rx, rx_task, rx_tails, tx, tx_task,
                 tx_tails, decVars>>

\* platform_uart_event_converter_start: refused while a dispatcher exists or a
\* queue is missing; otherwise both queues are emptied and the task created.
StartConv ==
  /\ Up /\ client = "start_conv"
  /\ \/ /\ dispatcher_task \/ ~driver \/ ~event_queue
        /\ client' = "idle"
        /\ UNCHANGED <<uart_events, events, dispatcher, dispatcher_task,
                       hal_dispatcher_ended_flag>>
     \/ /\ ~dispatcher_task /\ driver /\ event_queue
        /\ hal_dispatcher_ended_flag' = FALSE
        /\ uart_events' = 0 /\ events' = 0
        /\ dispatcher_task' \in Created
        /\ dispatcher' = IF dispatcher_task' THEN "top" ELSE "none"
        /\ client' = IF dispatcher_task' THEN "start_tasks" ELSE "idle"
  /\ UNCHANGED <<layerVars, fault, driver, intr, event_queue, rx_closed,
                 halqVars, rxVars, txVars, decVars>>

\* The receiver and the sender are created, unchecked.
StartTasks ==
  /\ Up /\ client = "start_tasks"
  /\ rx_task' \in Created /\ rx' = IF rx_task' THEN "top" ELSE "none"
  /\ tx_task' \in Created /\ tx' = IF tx_task' THEN "top" ELSE "none"
  /\ hal_state' = "RUNNING"
  /\ client' = "start_dec"
  /\ UNCHANGED <<app_state, fault, core_bound, uartVars, evqVars, dispVars,
                 halqVars, rx_tails, flag1, tx_tails, flag2, decVars>>

StartDec ==
  /\ Up /\ client = "start_dec"
  /\ client' = "idle"
  /\ \/ decoder' = "top" /\ app_state' = "RUNNING"
     \/ MayFail /\ UNCHANGED <<decoder, app_state>>
  /\ UNCHANGED <<hal_state, fault, core_bound, uartVars, evqVars, dispVars,
                 halqVars, rxVars, txVars, app_queues, end_flag, task_ended>>

-----------------------------------------------------------------------------
(* app_stop_sys and hal_mmwave_stop.                                        *)

\* platform_ISR_disable.  (If it fails nothing has changed.)
CloseLineOnly == intr' = FALSE /\ UNCHANGED rx_closed  \* mutant: rx_closed stays
CloseLine     == intr' = FALSE /\ rx_closed' = TRUE

StopIsr ==
  /\ Up /\ client = "idle" /\ app_state = "RUNNING" /\ hal_state = "RUNNING"
  /\ CloseLine
  /\ client' = "stop_wait"
  /\ UNCHANGED <<layerVars, fault, driver, uart_events, evqVars, dispatcher,
                 dispatcher_task, hal_dispatcher_ended_flag, halqVars, rxVars,
                 txVars, decVars>>

\* All three tasks have reported their end; the parser is stopped, which
\* unbinds it, and the decoder is told to finish.
TasksReportedButSender == flag1 /\ hal_dispatcher_ended_flag   \* mutant
TasksReported == flag1 /\ flag2 /\ hal_dispatcher_ended_flag
StopWait ==
  /\ Up /\ client = "stop_wait" /\ TasksReported
  /\ core_bound' = FALSE
  /\ hal_state' = "STOPPED"
  /\ end_flag' = TRUE
  /\ client' = "stop_dec"
  /\ UNCHANGED <<app_state, fault, uartVars, evqVars, dispVars, halqVars, rxVars,
                 txVars, app_queues, decoder, task_ended>>

\* The decoder has reported its end; deleting a NULL mutex is fatal.
DecoderTold     == end_flag                 \* mutant: its end is not awaited
DecoderReported == task_ended
StopDec ==
  /\ Up /\ client = "stop_dec" /\ DecoderReported
  /\ \/ /\ app_queues
        /\ app_queues' = FALSE
        /\ app_state' = "STOPPED" /\ client' = "idle"
        /\ UNCHANGED fault
     \/ /\ ~app_queues
        /\ fault' = "null_mutex"
        /\ UNCHANGED <<app_queues, app_state, client>>
  /\ UNCHANGED <<hal_state, core_bound, uartVars, evqVars, dispVars, halqVars,
                 rxVars, txVars, decoder, end_flag, task_ended>>

-----------------------------------------------------------------------------
(* app_deinit_sys and hal_mmwave_deinit.                                    *)

DeinitSys ==
  /\ Up /\ client = "idle"
  /\ app_state \in {"INIT", "STOPPED"} /\ hal_state \in {"INIT", "STOPPED"}
  /\ client' = "deinit_wait"
  /\ UNCHANGED <<layerVars, fault, uartVars, evqVars, dispVars, halqVars, rxVars,
                 txVars, decVars>>

DeinitWaitOver == Up /\ client = "deinit_wait" /\ ~rx_task /\ ~tx_task

\* platform_uart_deinit refuses while there is a dispatcher, or deletes its
\* event queue and cannot delete the driver.
RefusedButUninit == app_state' = "UNINIT"   \* mutant: the HAL's error is ignored
Refused == UNCHANGED app_state
DeinitFails ==
  /\ DeinitWaitOver
  /\ client' = "idle"
  /\ \/ dispatcher_task /\ UNCHANGED evqVars
     \/ ~dispatcher_task /\ MayFail /\ event_queue' = FALSE /\ events' = 0
  /\ Refused
  /\ UNCHANGED <<hal_state, core_bound, fault, uartVars, dispVars, halqVars,
                 rxVars, txVars, decVars>>

\* Everything is deleted, except the application's queues and mutexes when the
\* system has never been started.  Draining a NULL frame queue is fatal.
DeinitDone ==
  /\ DeinitWaitOver /\ ~dispatcher_task
  /\ event_queue' = FALSE /\ events' = 0
  /\ NoDriver
  /\ \/ /\ hal_queues
        /\ hal_queues' = FALSE /\ frames' = 0 /\ tx_frames' = 0
        /\ core_bound' = FALSE
        /\ hal_state' = "UNINIT" /\ app_state' = "UNINIT"
        /\ end_flag' = FALSE /\ task_ended' = FALSE
        /\ client' = "idle"
        /\ UNCHANGED fault
     \/ /\ ~hal_queues
        /\ fault' = "null_queue"
        /\ UNCHANGED <<halqVars, layerVars, end_flag, task_ended, client>>
  /\ UNCHANGED <<dispVars, rxVars, txVars, app_queues, decoder>>

-----------------------------------------------------------------------------
(* The client's other calls, and the sensor.                                *)

\* app_send_inquiry, when a frame can be built and the queue has room.
Send ==
  /\ Up /\ client = "idle" /\ app_state = "RUNNING"
  /\ hal_state \in {"INIT", "RUNNING"} /\ core_bound
  /\ \/ /\ hal_queues /\ tx_frames < MaxFrames
        /\ tx_frames' = tx_frames + 1
        /\ UNCHANGED fault
     \/ /\ ~hal_queues
        /\ fault' = "null_queue"
        /\ UNCHANGED tx_frames
  /\ UNCHANGED <<layerVars, client, uartVars, evqVars, dispVars, hal_queues,
                 frames, rxVars, txVars, decVars>>

\* The driver's interrupt handler posts an event; one it cannot post is lost.
Sensor ==
  /\ Up /\ driver /\ intr /\ uart_events < UartEvents
  /\ uart_events' = uart_events + 1
  /\ UNCHANGED <<layerVars, client, fault, driver, intr, evqVars, dispVars,
                 halqVars, rxVars, txVars, decVars>>

Client ==
  \/ StartIsr \/ StopIsr \/ DeinitSys \/ Send
  \/ InitHalFails \/ InitSys
InCall ==
  \/ StartConv \/ StartTasks \/ StartDec
  \/ StopWait \/ StopDec
  \/ DeinitFails \/ DeinitDone

-----------------------------------------------------------------------------
(* dispatcher_function.  The queue is read before rx_closed is.             *)

DispatcherOnly ==
  UNCHANGED <<layerVars, client, fault, driver, intr, event_queue, rx_closed,
              halqVars, rxVars, txVars, decVars>>

DispCount ==
  /\ Up /\ dispatcher = "top"
  /\ dispatcher' = IF uart_events = 0 THEN "empty" ELSE "recv"
  /\ UNCHANGED <<uart_events, events, dispatcher_task, hal_dispatcher_ended_flag>>
  /\ DispatcherOnly

DispTest ==
  /\ Up /\ dispatcher = "empty"
  /\ dispatcher' = IF rx_closed THEN "exit" ELSE "recv"
  /\ UNCHANGED <<uart_events, events, dispatcher_task, hal_dispatcher_ended_flag>>
  /\ DispatcherOnly

\* An event of no interest is dropped; with no event the wait times out.
DispReceive ==
  /\ Up /\ dispatcher = "recv"
  /\ \/ /\ uart_events > 0
        /\ uart_events' = uart_events - 1
        /\ dispatcher' \in {"send", "top"}
     \/ /\ uart_events = 0
        /\ dispatcher' = "top"
        /\ UNCHANGED uart_events
  /\ UNCHANGED <<events, dispatcher_task, hal_dispatcher_ended_flag>>
  /\ DispatcherOnly

\* An event that finds the queue full for 20 ms is dropped.
DispSend ==
  /\ Up /\ dispatcher = "send"
  /\ dispatcher' = "top"
  /\ events' = Posted(events, HalEvents)
  /\ UNCHANGED <<uart_events, dispatcher_task, hal_dispatcher_ended_flag>>
  /\ DispatcherOnly

DispExit ==
  /\ Up /\ dispatcher = "exit"
  /\ hal_dispatcher_ended_flag' = TRUE
  /\ dispatcher' = "tail"
  /\ UNCHANGED <<uart_events, events, dispatcher_task>>
  /\ DispatcherOnly

DispTail ==
  /\ Up /\ dispatcher = "tail"
  /\ dispatcher' = "none" /\ dispatcher_task' = FALSE
  /\ UNCHANGED <<uart_events, events, hal_dispatcher_ended_flag>>
  /\ DispatcherOnly

Dispatcher ==
  DispCount \/ DispTest \/ DispReceive \/ DispSend \/ DispExit \/ DispTail

-----------------------------------------------------------------------------
(* hal_receive_task                                                         *)

ReceiverOnly ==
  UNCHANGED <<layerVars, client, fault, uartVars, event_queue, dispVars,
              hal_queues, tx_frames, txVars, decVars>>

\* An event to parse, one to skip (which skips the end test too), or none.
RxWait ==
  /\ Up /\ rx = "top" /\ hal_state = "RUNNING"
  /\ \/ /\ event_queue /\ events > 0
        /\ events' = events - 1
        /\ rx' \in {"parse", "top"}
     \/ /\ ~event_queue \/ events = 0
        /\ rx' = "check"
        /\ UNCHANGED events
  /\ UNCHANGED <<rx_task, rx_tails, flag1, frames>>
  /\ ReceiverOnly

\* The bytes complete a frame, or not; a parser that is not bound drops them.
RxParse ==
  /\ Up /\ rx = "parse"
  /\ frames' \in {frames}
       \cup (IF core_bound /\ frames < MaxFrames THEN {frames + 1} ELSE {})
  /\ rx' = "check"
  /\ UNCHANGED <<events, rx_task, rx_tails, flag1>>
  /\ ReceiverOnly

RxDoneAtFlag == hal_dispatcher_ended_flag   \* mutant: queue not looked at
RxDone == hal_dispatcher_ended_flag /\ events = 0
RxCheck ==
  /\ Up /\ rx = "check"
  /\ rx' = IF RxDone THEN "exit" ELSE "top"
  /\ UNCHANGED <<events, rx_task, rx_tails, flag1, frames>>
  /\ ReceiverOnly

RxFlag ==
  /\ Up /\ rx = "exit"
  /\ flag1' = TRUE
  /\ rx' = "none" /\ rx_tails' = rx_tails + 1
  /\ UNCHANGED <<events, rx_task, frames>>
  /\ ReceiverOnly

RxTail ==
  /\ Up /\ rx_tails > 0
  /\ rx_tails' = rx_tails - 1 /\ rx_task' = FALSE
  /\ UNCHANGED <<events, rx, flag1, frames>>
  /\ ReceiverOnly

Receiver == RxWait \/ RxParse \/ RxCheck \/ RxFlag \/ RxTail

-----------------------------------------------------------------------------
(* hal_send_task                                                            *)

SenderOnly ==
  UNCHANGED <<layerVars, client, uartVars, evqVars, dispVars, hal_queues,
              frames, rxVars, decVars>>

TxSend ==
  /\ Up /\ tx = "top" /\ hal_state = "RUNNING"
  /\ \/ /\ hal_queues
        /\ tx_frames' = IF tx_frames > 0 THEN tx_frames - 1 ELSE 0
        /\ tx' = "check"
        /\ UNCHANGED fault
     \/ /\ ~hal_queues
        /\ fault' = "null_queue"
        /\ UNCHANGED <<tx_frames, tx>>
  /\ UNCHANGED <<tx_task, tx_tails, flag2>>
  /\ SenderOnly

TxCheck ==
  /\ Up /\ tx = "check"
  /\ tx' = IF hal_dispatcher_ended_flag /\ tx_frames = 0 THEN "exit" ELSE "top"
  /\ UNCHANGED <<fault, tx_frames, tx_task, tx_tails, flag2>>
  /\ SenderOnly

TxFlag ==
  /\ Up /\ tx = "exit"
  /\ flag2' = TRUE
  /\ tx' = "none" /\ tx_tails' = tx_tails + 1
  /\ UNCHANGED <<fault, tx_frames, tx_task>>
  /\ SenderOnly

TxTail ==
  /\ Up /\ tx_tails > 0
  /\ tx_tails' = tx_tails - 1 /\ tx_task' = FALSE
  /\ UNCHANGED <<fault, tx_frames, tx, flag2>>
  /\ SenderOnly

Sender == TxSend \/ TxCheck \/ TxFlag \/ TxTail

-----------------------------------------------------------------------------
(* decoder_task.  hal_mmwave_get_frame_from_queue tests the HAL's state and *)
(* then waits on the queue.                                                 *)

DecoderOnly ==
  UNCHANGED <<layerVars, client, uartVars, evqVars, dispVars, hal_queues,
              tx_frames, rxVars, txVars, app_queues, end_flag>>

DecCheck ==
  /\ Up /\ decoder = "top"
  /\ decoder' = IF hal_state \in {"INIT", "RUNNING"} THEN "get" ELSE "empty"
  /\ UNCHANGED <<fault, frames, task_ended>>
  /\ DecoderOnly

DecGet ==
  /\ Up /\ decoder = "get"
  /\ \/ /\ hal_queues /\ frames > 0
        /\ frames' = frames - 1
        /\ decoder' = "decode"
        /\ UNCHANGED fault
     \/ /\ hal_queues /\ frames = 0
        /\ decoder' = "empty"
        /\ UNCHANGED <<frames, fault>>
     \/ /\ ~hal_queues
        /\ fault' = "null_queue"
        /\ UNCHANGED <<frames, decoder>>
  /\ UNCHANGED task_ended
  /\ DecoderOnly

\* No memory for the copy, or nothing to report; or a report or a response is
\* put into the application's queue under its mutex.
DecDecode ==
  /\ Up /\ decoder = "decode"
  /\ \/ decoder' = "top" /\ UNCHANGED fault
     \/ ~app_queues /\ fault' = "null_mutex" /\ UNCHANGED decoder
  /\ UNCHANGED <<frames, task_ended>>
  /\ DecoderOnly

DecEmpty ==
  /\ Up /\ decoder = "empty"
  /\ \/ /\ end_flag
        /\ task_ended' = TRUE /\ decoder' = "none"
     \/ /\ ~end_flag
        /\ decoder' = "top" /\ UNCHANGED task_ended
  /\ UNCHANGED <<fault, frames>>
  /\ DecoderOnly

Decoder == DecCheck \/ DecGet \/ DecDecode \/ DecEmpty

-----------------------------------------------------------------------------
Next ==
  Client \/ InCall \/ Sensor \/ Dispatcher \/ Receiver \/ Sender \/ Decoder

Spec == Init /\ [][Next]_vars

\* Every task is scheduled again and again, and a call once entered goes on; the
\* client need not call and the sensor need not send.
FairSpec ==
  /\ Spec
  /\ WF_vars(InCall)
  /\ WF_vars(Dispatcher)
  /\ WF_vars(RxTail)
  /\ WF_vars(RxWait \/ RxParse \/ RxCheck \/ RxFlag)
  /\ WF_vars(TxTail)
  /\ WF_vars(TxSend \/ TxCheck \/ TxFlag)
  /\ WF_vars(Decoder)
-----------------------------------------------------------------------------
(* Properties.                                                              *)

TypeOK ==
  /\ app_state \in States /\ hal_state \in States
  /\ client \in {"idle", "start_conv", "start_tasks", "start_dec", "stop_wait",
                "stop_dec", "deinit_wait"}
  /\ fault \in {"none", "null_mutex", "null_queue"}
  /\ core_bound \in BOOLEAN /\ driver \in BOOLEAN /\ intr \in BOOLEAN
  /\ event_queue \in BOOLEAN /\ rx_closed \in BOOLEAN /\ dispatcher_task \in BOOLEAN
  /\ hal_dispatcher_ended_flag \in BOOLEAN /\ hal_queues \in BOOLEAN
  /\ rx_task \in BOOLEAN /\ flag1 \in BOOLEAN /\ tx_task \in BOOLEAN
  /\ flag2 \in BOOLEAN /\ app_queues \in BOOLEAN /\ end_flag \in BOOLEAN
  /\ task_ended \in BOOLEAN
  /\ uart_events \in 0 .. UartEvents /\ events \in 0 .. HalEvents
  /\ frames \in 0 .. MaxFrames /\ tx_frames \in 0 .. MaxFrames
  /\ dispatcher \in {"none", "top", "empty", "recv", "send", "exit", "tail"}
  /\ rx \in {"none", "top", "parse", "check", "exit"} /\ rx_tails \in Nat
  /\ tx \in {"none", "top", "check", "exit"} /\ tx_tails \in Nat
  /\ decoder \in {"none", "top", "get", "decode", "empty"}

\* No task of the driver is still at work on a queue when it is deleted: the
\* dispatcher on the UART's and the platform's, the receiver, the sender and the
\* decoder on the HAL's (the waiting in hal_mmwave_stop, hal_mmwave_deinit and
\* app_stop_sys, whatever failed before).
TasksOwnQueues ==
  /\ dispatcher \in {"top", "empty", "recv", "send"} => driver /\ event_queue
  /\ rx # "none" => event_queue
  /\ rx # "none" \/ tx # "none" \/ decoder # "none" => hal_state # "UNINIT"

\* hal_mmwave_stop returns only when every event that reached the platform's
\* queue has been parsed and every frame queued for sending has been sent.
StopDrains ==
  [][hal_state = "RUNNING" /\ hal_state' = "STOPPED" =>
       events = 0 /\ tx_frames = 0 /\ rx = "none"]_vars

\* Between the client's calls the HAL is in the state the application is in: no
\* refused or half-finished call leaves them apart.
LayersAgree == client = "idle" => app_state = hal_state

\* A running system is served: its line is open, its parser bound, its four
\* tasks are at work and the decoder's queues exist.
RunningIsServed ==
  client = "idle" /\ app_state = "RUNNING" =>
    /\ intr /\ ~rx_closed /\ core_bound /\ app_queues
    /\ dispatcher # "none" /\ rx # "none" /\ tx # "none" /\ decoder # "none"

\* No task and no call uses a queue or a mutex that does not exist.
NoNullHandle == fault = "none"

\* Every call of the client returns: stop waits for tasks that end, deinit for
\* handles that are cleared.
CallsReturn == client # "idle" ~> client = "idle"
=============================================================================
