------------------------------ MODULE WsClient ------------------------------
(***************************************************************************)
(* The WebSocket client that esp32_websocket.c runs: the library's task,   *)
(* which connects, sends pings, gives a connection up and connects again;  *)
(* the caller of ws_client_init, _start, _stop and _uninit; and the task   *)
(* that sends.  They share the client's lock, and much that no lock        *)
(* protects: the client's state, run, and the bits of its event group.     *)
(* A start looks at the state only, so that the task it creates may meet   *)
(* one that is on its way out; then both run on the same client.           *)
(* NetworkLifecycle sees of all this one session at a time.                *)
(*                                                                         *)
(* External: the transport, and the server at its other end.  Time is      *)
(* counted in ticks, the second that one poll waits; it may pass at any    *)
(* step, as reads, writes and waits for the lock take what they take.      *)
(* What a task does without letting go of the lock is one step, except for *)
(* connecting and for writing a ping.                                      *)
(***************************************************************************)
EXTENDS Integers, Sequences

CONSTANTS
  PingEvery,       \* ping_interval_sec
  PongWithin,      \* pingpong_timeout_sec
  ReconnectAfter,  \* wait_timeout_ms
  AnswerWithin,    \* ticks that a server needs at most to answer a ping
  MaxInbox,        \* data frames that may be waiting to be read
  MayFail,         \* connecting or writing may fail
  Prompt           \* start, and the beginning and the end of a task, take less than a
                   \* tick; start clears the bits before the task that it has created
                   \* ends; this task begins before the caller's next call; and no task
                   \* is left in a client that is freed, and none but one on its way out
                   \* in a client that is started

ASSUME WsAssumption ==
  /\ PingEvery \in Nat \ {0} /\ ReconnectAfter \in Nat /\ AnswerWithin \in Nat
  /\ PongWithin \in Nat /\ MaxInbox \in Nat /\ MayFail \in BOOLEAN
  /\ Prompt \in BOOLEAN

VARIABLES
  \* struct esp_websocket_client: its state, run, the bits of status_bits, who
  \* holds its lock, wait_for_pong_resp, error_handle.error_type
  state, run, bits, lock, wait_for_pong_resp, error_type,
  \* how long ago ping_tick_ms, pingpong_tick_ms and reconnect_tick_ms were set
  ping_age, pong_age, reconnect_age,
  \* the places of the library's tasks, of the caller and of the sender, and whether
  \* the last start found a task of an earlier one
  task, caller, sender, overlapped,
  \* esp32_websocket.c: current_state
  ws,
  \* the connection, the frames that wait to be read, whether the server answers,
  \* how long it has owed a pong, the pings since the last pong that was read, and
  \* how much of the wait for one went by otherwise than in the task's polls
  transport, inbox, server, owed, pings, late

sharedVars == <<run, bits>>
pongVars   == <<wait_for_pong_resp, pong_age, pings, late>>
ageVars    == <<ping_age, pong_age, reconnect_age, owed, late>>
placeVars  == <<caller, sender, overlapped>>
serverVars == <<server, owed>>
vars == <<state, run, bits, lock, wait_for_pong_resp, error_type, ping_age, pong_age,
          reconnect_age, task, caller, sender, overlapped, ws, transport, inbox, server,
          owed, pings, late>>

\* The task of the last start, and one of an earlier start that is still there.
Tasks == {"new", "old"}

\* The pings that a connection is given before it is declared dead.
AllowedPings == PongWithin \div PingEvery

Older(age, bound) == IF age > bound THEN age ELSE age + 1

\* A tick passes, in a poll of the task or elsewhere.  A server that answers is never
\* late.
Tick(polled) ==
  /\ server = "answers" => owed <= AnswerWithin
  /\ Prompt => caller # "starting"
               /\ \A t \in Tasks : task[t] \notin {"begin", "finish", "leaving"}
  /\ ping_age' = Older(ping_age, PingEvery)
  /\ pong_age' = IF wait_for_pong_resp THEN Older(pong_age, PongWithin) ELSE 0
  /\ reconnect_age' = IF state = "WAIT_TIMEOUT"
                        THEN Older(reconnect_age, ReconnectAfter) ELSE 0
  /\ late' = CASE ~wait_for_pong_resp -> 0
               [] wait_for_pong_resp /\ polled -> late
               [] OTHER -> Older(late, PongWithin)
  /\ owed' = IF owed = 0 THEN 0 ELSE owed + 1

Init ==
  /\ state = "UNKNOW" /\ run = FALSE /\ bits = {"STOPPED"} /\ lock = "free"
  /\ wait_for_pong_resp = FALSE /\ error_type = "NONE"
  /\ ping_age = 0 /\ pong_age = 0 /\ reconnect_age = 0
  /\ task = [t \in Tasks |-> "none"] /\ caller = "idle" /\ sender = "idle"
  /\ overlapped = FALSE
  /\ ws = "INIT"
  /\ transport = "closed" /\ inbox = <<>> /\ server = "answers"
  /\ owed = 0 /\ pings = 0 /\ late = 0

\* ws_handler, at the library's events.
OnlyDisconnects(event) ==
  CASE event = "CONNECTED" -> "STARTED"
    [] event = "DISCONNECTED" -> "CLOSED"
    [] OTHER -> ws
ws_handler(event) ==
  CASE event = "CONNECTED" -> "STARTED"
    [] event \in {"DISCONNECTED", "CLOSED"} -> "CLOSED"
    [] OTHER -> ws

\* esp_websocket_client_abort_connection, which does nothing to a connection that is
\* closing or closed.
AbortableUnlessClosed == state \notin {"CLOSING", "WAIT_TIMEOUT"}
Abortable == state \notin {"CLOSING", "UNKNOW", "WAIT_TIMEOUT"}

Abort(why) ==
  IF Abortable
  THEN /\ state' = "WAIT_TIMEOUT" /\ reconnect_age' = 0 /\ error_type' = why
       /\ transport' = "closed" /\ inbox' = <<>> /\ owed' = 0
       /\ ws' = ws_handler("DISCONNECTED")
  ELSE UNCHANGED <<state, reconnect_age, error_type, transport, inbox, owed, ws>>

-----------------------------------------------------------------------------
(* The library's tasks.                                                     *)

Places == {"none", "begin", "top", "connecting", "pinging", "after", "poll", "waiting",
           "closing", "finish", "leaving"}
HoldsLock == {"connecting", "pinging"}
OutsideLoop == {"none", "begin", "finish", "leaving"}

Goes(t, from, to) == task[t] = from /\ task' = [task EXCEPT ![t] = to]
TaskVarsKept == UNCHANGED <<placeVars, server>>

Begin(t) ==
  /\ Goes(t, "begin", "top")
  /\ run' = TRUE /\ state' = "INIT" /\ bits' = bits \ {"STOPPED", "CLOSE_FRAME_SENT"}
  /\ TaskVarsKept
  /\ UNCHANGED <<lock, error_type, ageVars, pongVars, ws, transport, inbox>>

\* A turn of the loop: the lock, and what the state asks for.
TurnUnlocked(t, to) == Goes(t, "top", to) /\ run /\ TaskVarsKept
Turn(t, to) == Goes(t, "top", to) /\ run /\ lock = "free" /\ TaskVarsKept

BeginConnecting(t) ==
  /\ Turn(t, "connecting") /\ state = "INIT" /\ lock' = "task"
  /\ UNCHANGED <<state, sharedVars, error_type, ageVars, pongVars, ws, transport, inbox>>

Connects(t) ==
  /\ Goes(t, "connecting", "after") /\ lock' = "free"
  /\ state' = "CONNECTED" /\ wait_for_pong_resp' = FALSE /\ error_type' = "NONE"
  /\ pong_age' = 0 /\ pings' = 0 /\ late' = 0 /\ ws' = ws_handler("CONNECTED")
  /\ transport' = "open" /\ inbox' = <<>> /\ server' = "answers" /\ owed' = 0
  /\ UNCHANGED <<sharedVars, ping_age, reconnect_age, placeVars>>

ConnectFails(t) ==
  /\ Goes(t, "connecting", "after") /\ MayFail
  /\ lock' = "free" /\ Abort("TCP_TRANSPORT")
  /\ TaskVarsKept
  /\ UNCHANGED <<sharedVars, pongVars, ping_age>>

PingDue == ping_age > PingEvery

\* The pong that the oldest ping asked for is overdue.
PongOverdueAtNextPing == wait_for_pong_resp /\ pong_age > PingEvery
PongOverdue == wait_for_pong_resp /\ pong_age > PongWithin

\* None is sent, and none is overdue, while the client closes.
ConnectedTurn(t) ==
  /\ state = "CONNECTED" /\ UNCHANGED <<sharedVars, pongVars>>
  /\ \/ /\ "CLOSE_FRAME_SENT" \notin bits /\ PingDue
        /\ Turn(t, "pinging") /\ lock' = "task" /\ ping_age' = 0
        /\ UNCHANGED <<state, reconnect_age, error_type, owed, ws, transport, inbox>>
     \/ /\ "CLOSE_FRAME_SENT" \notin bits /\ ~PingDue /\ PongOverdue
        /\ Turn(t, "after") /\ Abort("PONG_TIMEOUT")
        /\ UNCHANGED <<lock, ping_age>>
     \/ /\ "CLOSE_FRAME_SENT" \in bits \/ ~(PingDue \/ PongOverdue)
        /\ Turn(t, "after")
        /\ UNCHANGED <<state, lock, error_type, ageVars, ws, transport, inbox>>

\* The ping is written.  What becomes of it, the task does not ask.
SendPingAndWaitAgain ==
  /\ wait_for_pong_resp' = TRUE /\ pong_age' = 0
  /\ late' = IF wait_for_pong_resp THEN late ELSE 0
  /\ pings' = IF pings < AllowedPings THEN pings + 1 ELSE pings
SendPing ==
  /\ wait_for_pong_resp' = TRUE
  /\ pong_age' = IF wait_for_pong_resp THEN pong_age ELSE 0
  /\ late' = IF wait_for_pong_resp THEN late ELSE 0
  /\ pings' = IF pings < AllowedPings THEN pings + 1 ELSE pings

AsksServer ==
  owed' = IF owed = 0 /\ transport = "open" /\ server = "answers" THEN 1 ELSE owed

PingWritten(t) ==
  /\ Goes(t, "pinging", "after") /\ lock' = "free" /\ SendPing
  /\ \/ PongOverdue /\ Abort("PONG_TIMEOUT")
     \/ /\ ~PongOverdue /\ AsksServer
        /\ UNCHANGED <<state, reconnect_age, error_type, transport, inbox, ws>>
  /\ TaskVarsKept /\ UNCHANGED <<sharedVars, ping_age>>

WaitingTurn(t) ==
  /\ Turn(t, "after") /\ state = "WAIT_TIMEOUT"
  /\ IF reconnect_age > ReconnectAfter
     THEN state' = "INIT" /\ reconnect_age' = 0
     ELSE UNCHANGED <<state, reconnect_age>>
  /\ UNCHANGED <<sharedVars, lock, error_type, ping_age, owed, pongVars, ws, transport,
                 inbox>>

\* A close that the server began is answered; the client's own is not sent again.
ClosingTurn(t) ==
  /\ Turn(t, "after") /\ state = "CLOSING"
  /\ bits' = bits \cup {"CLOSE_FRAME_SENT"}
  /\ UNCHANGED <<state, run, lock, error_type, ageVars, pongVars, ws, transport, inbox>>

\* Another task has taken the state away: there is nothing to do, and nothing to wait for.
LostTurn(t) ==
  /\ Turn(t, "after") /\ state = "UNKNOW"
  /\ UNCHANGED <<state, sharedVars, lock, error_type, ageVars, pongVars, ws, transport,
                 inbox>>

\* The state, read without the lock, says what to wait for.
After(t) ==
  /\ Goes(t, "after", CASE state = "CONNECTED" -> "poll"
                        [] state = "WAIT_TIMEOUT" -> "waiting"
                        [] state = "CLOSING" /\ "CLOSE_FRAME_SENT" \in bits -> "closing"
                        [] OTHER -> "top")
  /\ TaskVarsKept
  /\ UNCHANGED <<state, sharedVars, lock, error_type, ageVars, pongVars, ws, transport,
                 inbox>>

\* The poll that waits for a pong is that of a task which is alone.
PollTimesOut(t) ==
  /\ Goes(t, "poll", "top") /\ transport = "open" /\ inbox = <<>>
  /\ Tick(\A u \in Tasks \ {t} : task[u] \in OutsideLoop)
  /\ TaskVarsKept
  /\ UNCHANGED <<state, sharedVars, lock, wait_for_pong_resp, pings, error_type, ws,
                 transport, inbox>>

\* esp_websocket_client_recv.
PongReceived(frame) ==
  IF frame = "pong"
  THEN wait_for_pong_resp' = FALSE /\ pong_age' = 0 /\ pings' = 0 /\ late' = 0
  ELSE UNCHANGED pongVars

Read(t) ==
  /\ Goes(t, "poll", "top") /\ lock = "free" /\ transport # "closed" /\ inbox # <<>>
  /\ inbox' = Tail(inbox) /\ PongReceived(Head(inbox))
  /\ state' = IF Head(inbox) = "close" THEN "CLOSING" ELSE state
  /\ TaskVarsKept
  /\ UNCHANGED <<sharedVars, lock, error_type, ping_age, reconnect_age, owed, ws,
                 transport>>

ReadFails(t) ==
  /\ Goes(t, "poll", "top") /\ lock = "free"
  /\ transport = "closed" \/ (transport = "broken" /\ inbox = <<>>)
  /\ Abort("TCP_TRANSPORT")
  /\ TaskVarsKept
  /\ UNCHANGED <<sharedVars, lock, pongVars, ping_age>>

WaitToReconnect(t) ==
  /\ Goes(t, "waiting", "top")
  /\ IF "REQUESTED_STOP" \in bits THEN UNCHANGED ageVars ELSE Tick(FALSE)
  /\ TaskVarsKept
  /\ UNCHANGED <<state, sharedVars, lock, wait_for_pong_resp, pings, error_type, ws,
                 transport, inbox>>

\* The server has closed the connection, or has not within a second: the CLOSED event.
Closed(t) ==
  /\ Goes(t, "closing", "finish")
  /\ run' = FALSE /\ state' = "UNKNOW" /\ ws' = ws_handler("CLOSED")
  /\ TaskVarsKept
  /\ UNCHANGED <<bits, lock, error_type, ageVars, pongVars, transport, inbox>>

LeaveLoop(t) ==
  /\ Goes(t, "top", "finish") /\ ~run
  /\ TaskVarsKept
  /\ UNCHANGED <<state, sharedVars, lock, error_type, ageVars, pongVars, ws, transport,
                 inbox>>

\* The FINISH event, and the end.
Finish(t) ==
  /\ Goes(t, "finish", "leaving") /\ (Prompt /\ t = "new" => caller # "starting")
  /\ transport' = "closed" /\ inbox' = <<>> /\ owed' = 0
  /\ bits' = bits \cup {"STOPPED"}
  /\ ws' = ws_handler("FINISH")
  /\ UNCHANGED <<state, run, lock, error_type, ping_age, reconnect_age, pongVars, caller,
                 sender, overlapped, server>>

TaskGone(t) ==
  /\ Goes(t, "leaving", "none") /\ state' = "UNKNOW"
  /\ TaskVarsKept
  /\ UNCHANGED <<sharedVars, lock, error_type, ageVars, pongVars, ws, transport, inbox>>

Task(t) ==
  \/ Begin(t) \/ BeginConnecting(t) \/ Connects(t) \/ ConnectFails(t) \/ ConnectedTurn(t)
  \/ PingWritten(t) \/ WaitingTurn(t) \/ ClosingTurn(t) \/ LostTurn(t) \/ After(t)
  \/ PollTimesOut(t) \/ Read(t) \/ ReadFails(t) \/ WaitToReconnect(t) \/ Closed(t)
  \/ LeaveLoop(t) \/ Finish(t) \/ TaskGone(t)

-----------------------------------------------------------------------------
(* The caller of ws_client_init, _start, _stop and _uninit.  It stops and   *)
(* frees the client only when nobody sends (NetworkLifecycle's              *)
(* SenderGoesFirst).                                                        *)

CallerVarsKept == UNCHANGED <<sender, error_type, pongVars, ping_age, reconnect_age>>
ClientKept     == UNCHANGED <<state, lock, transport, inbox, serverVars>>

\* ws_client_start; esp_websocket_client_start looks at the state only, makes a new
\* transport and creates a task.  There is room for two tasks.
Start ==
  /\ caller = "idle" /\ ws \in {"INIT", "CLOSED"} /\ state = "UNKNOW"
  /\ \E t \in Tasks : task[t] = "none"
  /\ (Prompt => \A t \in Tasks : task[t] \in {"none", "finish", "leaving"})
  /\ caller' = "starting" /\ overlapped' = \E t \in Tasks : task[t] # "none"
  /\ task' = [new |-> "begin",
              old |-> IF task["new"] = "none" THEN task["old"] ELSE task["new"]]
  /\ transport' = "closed" /\ inbox' = <<>> /\ owed' = 0
  /\ CallerVarsKept /\ UNCHANGED <<state, lock, server, sharedVars, ws>>

\* ... and then clears the bits.
Started ==
  /\ caller = "starting" /\ caller' = "idle"
  /\ bits' = {}
  /\ CallerVarsKept /\ ClientKept /\ UNCHANGED <<run, task, overlapped, ws>>

\* ws_client_stop: esp_websocket_client_close, with a second to wait.
Close ==
  /\ caller = "idle" /\ sender = "idle" /\ ws = "STARTED" /\ run
  /\ (Prompt => \A t \in Tasks : task[t] # "begin")
  /\ caller' = IF state = "CONNECTED" THEN "locking" ELSE "close_sent"
  /\ CallerVarsKept /\ ClientKept /\ UNCHANGED <<sharedVars, task, overlapped, ws>>

LockToClose ==
  /\ caller = "locking" /\ lock = "free"
  /\ caller' = "writing" /\ lock' = "caller"
  /\ CallerVarsKept
  /\ UNCHANGED <<state, sharedVars, task, overlapped, ws, transport, inbox, serverVars>>

WriteFails == transport # "open" \/ MayFail

WriteClose ==
  /\ caller = "writing" /\ caller' = "close_sent" /\ lock' = "free"
  /\ \/ /\ transport # "closed"
        /\ UNCHANGED <<state, reconnect_age, error_type, transport, inbox, owed, ws>>
     \/ WriteFails /\ Abort("TCP_TRANSPORT")
  /\ UNCHANGED <<sharedVars, pongVars, ping_age, task, sender, overlapped, server>>

AwaitStopped ==
  /\ caller = "close_sent" /\ caller' = "close_wait"
  /\ bits' = bits \cup {"CLOSE_FRAME_SENT"}
  /\ CallerVarsKept /\ ClientKept /\ UNCHANGED <<run, task, overlapped, ws>>

CloseInTime ==
  /\ caller = "close_wait" /\ "STOPPED" \in bits /\ caller' = "idle"
  /\ CallerVarsKept /\ ClientKept /\ UNCHANGED <<sharedVars, task, overlapped, ws>>

\* stop_wait_task, and the end of a close that was not answered in time.
SignalStop == UNCHANGED run /\ bits' = bits \cup {"REQUESTED_STOP"}
RequestStop == run' = FALSE /\ bits' = bits \cup {"REQUESTED_STOP"}

CloseTimesOut ==
  /\ caller = "close_wait" /\ "STOPPED" \notin bits /\ caller' = "stop_wait"
  /\ RequestStop
  /\ CallerVarsKept /\ ClientKept /\ UNCHANGED <<task, overlapped, ws>>

StopWaited ==
  /\ caller = "stop_wait" /\ "STOPPED" \in bits /\ caller' = "idle"
  /\ state' = "UNKNOW"
  /\ CallerVarsKept
  /\ UNCHANGED <<lock, transport, inbox, serverVars, sharedVars, task, overlapped, ws>>

\* ws_client_uninit: esp_websocket_client_destroy.
Destroy ==
  /\ caller = "idle" /\ sender = "idle" /\ ws \in {"INIT", "CLOSED"}
  /\ (Prompt => \A t \in Tasks :
                  IF "STOPPED" \in bits THEN task[t] = "none" ELSE task[t] # "begin")
  /\ caller' = "free"
  /\ IF "STOPPED" \in bits
     THEN UNCHANGED sharedVars
     ELSE RequestStop
  /\ CallerVarsKept /\ ClientKept /\ UNCHANGED <<task, overlapped, ws>>

Destroyed ==
  /\ caller = "free" /\ "STOPPED" \in bits /\ (Prompt => \A t \in Tasks : task[t] = "none")
  /\ caller' = "idle" /\ ws' = "UNINIT" /\ state' = "UNKNOW"
  /\ CallerVarsKept
  /\ UNCHANGED <<lock, transport, inbox, serverVars, sharedVars, task, overlapped>>

\* ws_client_init: a new client, from esp_websocket_client_init.
InitClient ==
  /\ caller = "idle" /\ ws = "UNINIT" /\ ws' = "INIT"
  /\ state' = "UNKNOW" /\ run' = FALSE /\ bits' = {"STOPPED"} /\ lock' = "free"
  /\ wait_for_pong_resp' = FALSE /\ error_type' = "NONE"
  /\ ping_age' = 0 /\ pong_age' = 0 /\ reconnect_age' = 0 /\ pings' = 0
  /\ transport' = "closed" /\ inbox' = <<>>
  /\ late' = 0
  /\ UNCHANGED <<task, placeVars, serverVars>>

Caller ==
  \/ Started \/ LockToClose \/ WriteClose \/ AwaitStopped \/ CloseInTime \/ CloseTimesOut
  \/ StopWaited \/ Destroyed

-----------------------------------------------------------------------------
(* The sender, in ws_send: esp_websocket_client_send_bin.                   *)

SenderVarsKept == UNCHANGED <<sharedVars, task, caller, overlapped, pongVars>>

\* The state is tested before the lock is asked for.
BeginSend ==
  /\ sender = "idle" /\ caller \in {"idle", "starting"}
  /\ ws = "STARTED" /\ state = "CONNECTED"
  /\ sender' = "locking" /\ SenderVarsKept
  /\ UNCHANGED <<state, lock, error_type, ping_age, reconnect_age, ws, transport, inbox,
                 serverVars>>

LockToSend ==
  /\ sender = "locking"
  /\ \/ lock = "free" /\ lock' = "sender" /\ sender' = "writing"
     \/ lock # "free" /\ sender' = "idle" /\ UNCHANGED lock   \* not within a second
  /\ SenderVarsKept
  /\ UNCHANGED <<state, error_type, ping_age, reconnect_age, ws, transport, inbox,
                 serverVars>>

WriteFrame ==
  /\ sender = "writing" /\ sender' = "idle" /\ lock' = "free"
  /\ \/ /\ transport # "closed"
        /\ UNCHANGED <<state, reconnect_age, error_type, transport, inbox, owed, ws>>
     \/ WriteFails /\ Abort("TCP_TRANSPORT")
  /\ SenderVarsKept
  /\ UNCHANGED <<ping_age, server>>

Sender == LockToSend \/ WriteFrame

\* The task's own reads and writes, and its waits for the lock while others write,
\* take any time.
TimePasses ==
  /\ Tick(FALSE)
  /\ UNCHANGED <<state, sharedVars, lock, wait_for_pong_resp, pings, error_type, task,
                 placeVars, ws, transport, inbox, server>>

-----------------------------------------------------------------------------
(* The server.  After a close frame it sends nothing more.                  *)

ServerVarsKept ==
  UNCHANGED <<state, sharedVars, lock, pongVars, error_type, ping_age, reconnect_age, task,
              placeVars, ws>>

ServerSends ==
  /\ transport = "open" /\ server = "answers" /\ Len(inbox) < MaxInbox
  /\ inbox' = Append(inbox, "data")
  /\ ServerVarsKept /\ UNCHANGED <<transport, serverVars>>

ServerAnswers ==
  /\ transport = "open" /\ server = "answers" /\ owed > 0
  /\ inbox' = Append(inbox, "pong") /\ owed' = 0
  /\ ServerVarsKept /\ UNCHANGED <<transport, server>>

ServerCloses ==
  /\ transport = "open" /\ server = "answers"
  /\ inbox' = Append(inbox, "close") /\ server' = "silent" /\ owed' = 0
  /\ ServerVarsKept /\ UNCHANGED transport

ServerFallsSilent ==
  /\ transport = "open" /\ server = "answers"
  /\ server' = "silent" /\ owed' = 0
  /\ ServerVarsKept /\ UNCHANGED <<transport, inbox>>

ConnectionBreaks ==
  /\ transport = "open" /\ transport' = "broken" /\ server' = "silent" /\ owed' = 0
  /\ ServerVarsKept /\ UNCHANGED inbox

Server ==
  \/ ServerSends \/ ServerAnswers \/ ServerCloses \/ ServerFallsSilent \/ ConnectionBreaks

Next == (\E t \in Tasks : Task(t)) \/ Caller \/ Start \/ Close \/ Destroy \/ InitClient
        \/ BeginSend \/ Sender \/ TimePasses \/ Server

\* The tasks are scheduled, a connection attempt ends, and the lock that a sender
\* takes now and then is sometimes the task's.  The last conjunct lets time pass: a
\* server that answers pings answers them.
Spec == Init /\ [][Next]_vars
FairSpec == Spec /\ (\A t \in Tasks : SF_vars(Task(t))) /\ SF_vars(Caller)
            /\ WF_vars(Sender) /\ WF_vars(ServerAnswers)

-----------------------------------------------------------------------------
(* Properties.                                                              *)

\* The types; and the lock is held by the one whose place says so, and nobody else.
TypeOK ==
  /\ state \in {"UNKNOW", "INIT", "CONNECTED", "WAIT_TIMEOUT", "CLOSING"}
  /\ run \in BOOLEAN
  /\ bits \subseteq {"STOPPED", "CLOSE_FRAME_SENT", "REQUESTED_STOP"}
  /\ lock \in {"free", "task", "sender", "caller"}
  /\ wait_for_pong_resp \in BOOLEAN
  /\ error_type \in {"NONE", "TCP_TRANSPORT", "PONG_TIMEOUT"}
  /\ ping_age \in 0..PingEvery + 1
  /\ pong_age \in 0..PongWithin + 1
  /\ reconnect_age \in 0..ReconnectAfter + 1
  /\ task \in [Tasks -> Places]
  /\ caller \in {"idle", "starting", "locking", "writing", "close_sent", "close_wait",
                 "stop_wait", "free"}
  /\ sender \in {"idle", "locking", "writing"}
  /\ overlapped \in BOOLEAN
  /\ ws \in {"UNINIT", "INIT", "STARTED", "CLOSED"}
  /\ transport \in {"closed", "open", "broken"}
  /\ inbox \in Seq({"data", "pong", "close"})
  /\ server \in {"answers", "silent"}
  /\ owed \in 0..AnswerWithin + 1
  /\ pings \in 0..AllowedPings /\ late \in 0..PongWithin + 1
  /\ lock = "task" <=> \E t \in Tasks : task[t] \in HoldsLock
  /\ task["new"] \in HoldsLock => task["old"] \notin HoldsLock
  /\ lock = "sender" <=> sender = "writing"
  /\ lock = "caller" <=> caller = "writing"

\* A client that no task is left in can be started again: whoever still acts on it, the
\* closer after its wait or a sender whose write fails late, leaves a state that
\* esp_websocket_client_start accepts (esp_websocket_client.c:1390).
StartableAgain == (\A t \in Tasks : task[t] = "none") => state = "UNKNOW"

\* esp32_websocket.c believes in a connection of which the library knows nothing only
\* after a close that the server did not answer in time, or after a start beside a task
\* that was still on its way out: every other end of a connection, an abort, a close by
\* the server or one by the client, reaches ws_handler (lines 46-88).
StaleOnlyAfterTimeout ==
  caller = "idle" /\ ws = "STARTED" /\ state = "UNKNOW"
    => "REQUESTED_STOP" \in bits \/ overlapped

\* A connection to a server that answers is given up for want of a pong only when reads,
\* writes and waits for the lock have cost all the time that the server left.
LiveIsKept ==
  error_type = "PONG_TIMEOUT" /\ server = "answers" => late > PongWithin - AnswerWithin

\* "We allow three pings before we declare the connection dead" (esp32_websocket.c:100):
\* fewer have been sent only when as much time went by that way as the pings leave.
GivesUpFairly ==
  /\ LiveIsKept
  /\ error_type = "PONG_TIMEOUT"
       => \/ pings = AllowedPings
          \/ late > PongWithin - PingEvery - (AllowedPings - 2) * (PingEvery + 1)

\* ws_client_stop, _start and _uninit return: the task always gets to the place where
\* it sets STOPPED, whether the server answers the close, is silent or is gone.
CallsReturn == caller # "idle" ~> caller = "idle"

\* A connection on which the server has fallen silent does not stay up: the ping's
\* timeout, a failing write or a close ends it.
DeadIsNoticed ==
  server = "silent" /\ state = "CONNECTED" /\ ~overlapped ~> state # "CONNECTED"
=============================================================================
