--------------------------- MODULE NetworkLifecycle ---------------------------
(***************************************************************************)
(* The network side: app_network.c over hal_network.c, hal_wifi.c and      *)
(* hal_ws.c over the platform's WiFi and WebSocket clients.  Each layer    *)
(* keeps a state of its own, and four tasks move them: the client that     *)
(* calls init, start, stop and uninit; the task of the default event loop, *)
(* in which WiFi events are handled; the WebSocket client's task, in which *)
(* its events are handled; and network_send_task.                          *)
(*                                                                         *)
(* The WiFi driver is external: its link and the events it posts.  The     *)
(* WebSocket client (managed_components/espressif__esp_websocket_client)   *)
(* is its task's state, run, the flag that keeps it in its loop, and       *)
(* stopped, the bit that esp_websocket_client_close waits for.             *)
(***************************************************************************)
EXTENDS Integers, Sequences

CONSTANTS
  MaxEvents,       \* WiFi events that may be waiting in the event loop
  Reports,         \* reports and responses that the sensor ever has to send
  MayFail,         \* creating a task, or a call of a library, may fail
  ServerMayClose   \* the server may close a connection of its own accord

ASSUME NetworkAssumption ==
  /\ MaxEvents \in Nat \ {0}
  /\ Reports \in Nat
  /\ MayFail \in BOOLEAN
  /\ ServerMayClose \in BOOLEAN

VARIABLES
  \* app_network.c: its state, the client's place in a call, the result of the
  \* last one, the flags, network_send_task and what is left for it to send
  nw_state, client, ret, end_flag, task_ended, network_ready, sender, reports,
  \* hal_wifi.c and esp32_wifi_client.c
  hal_wifi, wifi, manual_disconnect,
  \* the default event loop exists, its task's place in wifi_event_handler, events
  event_loop, loop, loop_events,
  \* the driver's link
  link,
  \* hal_ws.c and esp32_websocket.c, and the place in ws_handler
  hal_ws, ws, notice,
  \* the WebSocket client's task, its flag and bit, and whether an earlier task of
  \* its has left the loop but is still there
  ws_task, run, stopped, leaving

callVars == <<nw_state, client, ret>>
flagVars == <<end_flag, task_ended>>
sendVars == <<sender, reports>>
wifiVars == <<hal_wifi, wifi, manual_disconnect>>
loopVars == <<event_loop, loop, loop_events>>
wsVars   == <<hal_ws, ws, notice, network_ready>>
taskVars == <<ws_task, run, stopped, leaving>>
vars == <<nw_state, client, ret, end_flag, task_ended, network_ready, sender,
          reports, hal_wifi, wifi, manual_disconnect, event_loop, loop,
          loop_events, link, hal_ws, ws, notice, ws_task, run, stopped, leaving>>

Init ==
  /\ nw_state = "UNINIT" /\ client = "idle" /\ ret = "OK"
  /\ end_flag = FALSE /\ task_ended = FALSE /\ network_ready = FALSE
  /\ sender = "none" /\ reports = Reports
  /\ hal_wifi = "UNINIT" /\ wifi = "UNINIT" /\ manual_disconnect = FALSE
  /\ event_loop = FALSE /\ loop = "idle" /\ loop_events = <<>>
  /\ link = "off"
  /\ hal_ws = "UNINIT" /\ ws = "UNINIT" /\ notice = "none"
  /\ ws_task = "none" /\ run = FALSE /\ stopped = TRUE /\ leaving = FALSE

-----------------------------------------------------------------------------
(* network_init and network_uninit run while no other task does.            *)

InitCall ==
  /\ client = "idle" /\ nw_state = "UNINIT"
  /\ UNCHANGED <<client, flagVars, network_ready, sendVars, manual_disconnect, loop,
                 loop_events, link, notice, taskVars>>

\* A layer is left over from before, or the event loop, which cannot be created
\* twice.
InitRefused ==
  /\ InitCall
  /\ hal_wifi # "UNINIT" \/ wifi # "UNINIT" \/ event_loop
  /\ ret' = "ERROR"
  /\ UNCHANGED <<nw_state, hal_wifi, wifi, event_loop, hal_ws, ws>>

\* wifi_client_init fails, before it has created the event loop or after.
InitWifiFails ==
  /\ InitCall
  /\ hal_wifi = "UNINIT" /\ wifi = "UNINIT" /\ ~event_loop /\ MayFail
  /\ event_loop' \in BOOLEAN
  /\ ret' = "ERROR"
  /\ UNCHANGED <<nw_state, hal_wifi, wifi, hal_ws, ws>>

WifiInitialised ==
  /\ hal_wifi = "UNINIT" /\ wifi = "UNINIT" /\ ~event_loop
  /\ event_loop' = TRUE

InitConfigureFails ==
  /\ InitCall
  /\ WifiInitialised /\ MayFail
  /\ wifi' = "INIT"
  /\ ret' = "ERROR"
  /\ UNCHANGED <<nw_state, hal_wifi, hal_ws, ws>>

InitWsFails ==
  /\ InitCall
  /\ WifiInitialised
  /\ hal_ws # "UNINIT" \/ ws # "UNINIT" \/ MayFail
  /\ wifi' = "CONFIGURED" /\ hal_wifi' = "INIT"
  /\ ret' = "ERROR"
  /\ UNCHANGED <<nw_state, hal_ws, ws>>

InitNetwork ==
  /\ InitCall
  /\ WifiInitialised
  /\ hal_ws = "UNINIT" /\ ws = "UNINIT"
  /\ wifi' = "CONFIGURED" /\ hal_wifi' = "INIT"
  /\ ws' = "INIT" /\ hal_ws' = "INIT"
  /\ nw_state' = "INIT"
  /\ ret' = "OK"

UninitCall ==
  /\ client = "idle" /\ nw_state \in {"INIT", "STOPPED"}
  /\ UNCHANGED <<client, sendVars, manual_disconnect, notice>>

WifiCanGo ==
  /\ hal_wifi \in {"INIT", "STOPPED"}
  /\ wifi \in {"INIT", "DISCONNECTED", "ERROR"}

WsCanGo == hal_ws \in {"STOPPED", "INIT"} /\ ws \in {"INIT", "CLOSED"}

UninitRefused ==
  /\ UninitCall
  /\ ~WifiCanGo
  /\ ret' = "ERROR"
  /\ UNCHANGED <<nw_state, flagVars, network_ready, hal_wifi, wifi, loopVars, link,
                 hal_ws, ws, taskVars>>

\* One of the three calls of wifi_client_uninit that can fail does, perhaps after
\* the driver has gone.
UninitWifiFails ==
  /\ UninitCall
  /\ WifiCanGo /\ MayFail
  /\ link' \in {link, "off"}
  /\ ret' = "ERROR"
  /\ UNCHANGED <<nw_state, flagVars, network_ready, hal_wifi, wifi, loopVars, hal_ws,
                 ws, taskVars>>

\* Unregistering wifi_event_handler waits until it is done: the HAL's state that its
\* callback sets is then overwritten.
UninitNetwork ==
  /\ UninitCall
  /\ WifiCanGo
  /\ hal_wifi' = "UNINIT" /\ wifi' = "UNINIT" /\ link' = "off"
  /\ event_loop' = FALSE /\ loop_events' = <<>> /\ loop' = "idle"
  /\ \/ /\ WsCanGo
        /\ hal_ws' = "UNINIT" /\ ws' = "UNINIT"
        /\ ws_task' = "none" /\ run' = FALSE /\ stopped' = TRUE /\ leaving' = FALSE
        /\ end_flag' = FALSE /\ task_ended' = FALSE /\ network_ready' = FALSE
        /\ nw_state' = "UNINIT" /\ ret' = "OK"
     \/ /\ ~WsCanGo \/ MayFail
        /\ ret' = "ERROR"
        /\ UNCHANGED <<nw_state, flagVars, network_ready, hal_ws, ws, taskVars>>

Uninit == UninitRefused \/ UninitWifiFails \/ UninitNetwork

-----------------------------------------------------------------------------
(* network_start.                                                           *)

StartCall ==
  /\ client = "idle" /\ nw_state \in {"INIT", "STOPPED"}
  /\ UNCHANGED <<nw_state, flagVars, sendVars, wifiVars, event_loop, loop, wsVars,
                 taskVars>>

WifiCanStart == hal_wifi \in {"INIT", "STOPPED"} /\ wifi = "CONFIGURED"

StartRefused ==
  /\ StartCall
  /\ ~WifiCanStart \/ MayFail
  /\ ret' = "ERROR"
  /\ UNCHANGED <<client, loop_events, link>>

\* esp_wifi_start; a driver that runs already has nothing to report.
StartWifi ==
  /\ StartCall
  /\ WifiCanStart
  /\ \/ /\ link = "off"
        /\ link' = "idle" /\ loop_events' = Append(loop_events, "START")
     \/ /\ link # "off"
        /\ UNCHANGED <<link, loop_events>>
  /\ client' = "creating"
  /\ UNCHANGED ret

Start == StartRefused \/ StartWifi

CreateSender ==
  /\ client = "creating"
  /\ client' = "idle"
  /\ end_flag' = FALSE /\ task_ended' = FALSE
  /\ \/ sender' = "top" /\ nw_state' = "RUNNING" /\ ret' = "OK"
     \/ MayFail /\ ret' = "ERROR" /\ UNCHANGED <<sender, nw_state>>
  /\ UNCHANGED <<reports, wifiVars, loopVars, link, wsVars, taskVars>>

-----------------------------------------------------------------------------
(* network_stop: the sender, then the WebSocket, then WiFi.                 *)

StopCall ==
  /\ client = "idle" /\ nw_state = "RUNNING"
  /\ end_flag' = TRUE
  /\ client' = "await"
  /\ UNCHANGED <<nw_state, ret, task_ended, sendVars, wifiVars, loopVars, link,
                 wsVars, taskVars>>

SenderTold     == end_flag                     \* mutant: does not wait
SenderReported == task_ended

AwaitSender ==
  /\ client = "await" /\ SenderReported
  /\ client' = "ws_stop"
  /\ UNCHANGED <<nw_state, ret, flagVars, sendVars, wifiVars, loopVars, link, wsVars,
                 taskVars>>

\* hal_ws_stop goes on to close the connection; its refusal is ignored.
WsCanStop == hal_ws = "RUNNING" /\ ws = "STARTED" /\ run

HalWsStop ==
  /\ client = "ws_stop"
  /\ client' = IF WsCanStop /\ ~stopped THEN "ws_closing" ELSE "wifi_stop"
  /\ UNCHANGED <<nw_state, ret, flagVars, sendVars, wifiVars, loopVars, link, wsVars,
                 taskVars>>

\* hal_wifi_stop: a refusal leaves the network RUNNING, without its sender.
WifiStopRefused ==
  /\ client = "wifi_stop" /\ hal_wifi # "RUNNING"
  /\ client' = "idle" /\ ret' = "ERROR"
  /\ UNCHANGED <<nw_state, flagVars, sendVars, wifiVars, loopVars, link, wsVars,
                 taskVars>>

AskSilently == UNCHANGED manual_disconnect     \* mutant: flag not set in time
Ask         == manual_disconnect' = TRUE

WifiStop ==
  /\ client = "wifi_stop" /\ hal_wifi = "RUNNING"
  /\ Ask
  /\ client' = "disconnecting"
  /\ UNCHANGED <<nw_state, ret, flagVars, sendVars, hal_wifi, wifi, loopVars, link,
                 wsVars, taskVars>>

\* esp_wifi_disconnect: a driver that is not connected has nothing to report.
Disconnect ==
  /\ client = "disconnecting"
  /\ \/ /\ link \in {"trying", "assoc", "ip"}
        /\ link' = "idle"
        /\ loop_events' = Append(loop_events, "DISCONNECTED")
     \/ /\ link \notin {"trying", "assoc", "ip"}
        /\ UNCHANGED <<link, loop_events>>
  /\ client' = "idle" /\ nw_state' = "STOPPED" /\ ret' = "OK"
  /\ UNCHANGED <<flagVars, sendVars, wifiVars, event_loop, loop, wsVars, taskVars>>

DisconnectFails ==
  /\ client = "disconnecting" /\ MayFail
  /\ manual_disconnect' = FALSE
  /\ client' = "idle" /\ ret' = "ERROR"
  /\ UNCHANGED <<nw_state, flagVars, sendVars, hal_wifi, wifi, loopVars, link, wsVars,
                 taskVars>>

Client ==
  \/ InitRefused \/ InitWifiFails \/ InitConfigureFails \/ InitWsFails
  \/ InitNetwork
  \/ Uninit \/ Start \/ StopCall

InCall ==
  \/ CreateSender \/ AwaitSender \/ HalWsStop
  \/ WifiStopRefused \/ WifiStop \/ Disconnect \/ DisconnectFails

-----------------------------------------------------------------------------
(* wifi_event_handler and the callback hal_on_wifi_event.  Handling an event*)
(* is several steps: between the test of manual_disconnect and the call of  *)
(* esp_wifi_connect, and before the callback, others may run.               *)

LoopOnly == UNCHANGED <<callVars, flagVars, sendVars, wsVars>>

\* The state an event sets; the driver is never told to stop, so STOP stays away.
StateOf == [START |-> "STARTED", CONNECTED |-> "CONNECTING", STOP |-> "CONFIGURED",
            GOT_IP |-> "CONNECTED", LOST_IP |-> "CONNECTING"]

Events == DOMAIN StateOf \cup {"DISCONNECTED"}

TakeEvent ==
  /\ loop = "idle" /\ loop_events # <<>> /\ Head(loop_events) # "DISCONNECTED"
  /\ loop_events' = Tail(loop_events)
  /\ wifi' = StateOf[Head(loop_events)]
  /\ loop' = IF Head(loop_events) = "START" THEN "connect" ELSE "callback"
  /\ UNCHANGED <<hal_wifi, manual_disconnect, event_loop, link, taskVars>>
  /\ LoopOnly

OnlyReport == loop' = "callback"               \* mutant: no reconnect
Reconnect  == loop' = "connect"

\* A disconnection that was asked for is reported; any other is answered by a new
\* attempt to connect, with the state as it was.
TakeDisconnect ==
  /\ loop = "idle" /\ loop_events # <<>> /\ Head(loop_events) = "DISCONNECTED"
  /\ loop_events' = Tail(loop_events)
  /\ manual_disconnect' = FALSE
  /\ \/ manual_disconnect /\ wifi' = "DISCONNECTED" /\ loop' = "callback"
     \/ ~manual_disconnect /\ Reconnect /\ UNCHANGED wifi
  /\ UNCHANGED <<hal_wifi, event_loop, link, taskVars>>
  /\ LoopOnly

\* esp_wifi_connect
Connect ==
  /\ loop = "connect"
  /\ loop' = "callback"
  /\ \/ link' = (IF link = "idle" THEN "trying" ELSE link) /\ UNCHANGED wifi
     \/ MayFail /\ wifi' = "ERROR" /\ UNCHANGED link
  /\ UNCHANGED <<hal_wifi, manual_disconnect, event_loop, loop_events, taskVars>>
  /\ LoopOnly

\* The state of hal_wifi.c after a callback with the driver's state st.
HalState(st) ==
  CASE st = "STARTED"    -> "RUNNING"
    [] st = "CONFIGURED" -> "STOPPED"
    [] st \in {"CONNECTING", "CONNECTED", "DISCONNECTED"} -> hal_wifi
    [] OTHER -> "ERRORED"

CallbackOnly ==
  /\ hal_wifi' = HalState(wifi)
  /\ UNCHANGED <<wifi, manual_disconnect, event_loop, loop_events, link>>
  /\ LoopOnly

Callback ==
  /\ loop = "callback" /\ wifi \notin {"CONNECTED", "DISCONNECTED"}
  /\ loop' = "idle"
  /\ CallbackOnly
  /\ UNCHANGED taskVars

\* hal_ws_start: the library refuses while its state is that of a started client,
\* which it no longer is once the task has left its loop.
WsCanStart ==
  /\ hal_ws \in {"INIT", "STOPPED"} /\ ws \in {"INIT", "CLOSED"}
  /\ ws_task \in {"none", "ending", "lost"}

\* The new task and its first steps.
StartTask ==
  /\ ws_task' = "connecting" /\ run' = TRUE /\ stopped' = FALSE
  /\ leaving' = (leaving \/ ws_task = "ending")

CallbackConnected ==
  /\ loop = "callback" /\ wifi = "CONNECTED"
  /\ loop' = "idle"
  /\ \/ WsCanStart /\ StartTask
     \/ (~WsCanStart \/ MayFail) /\ UNCHANGED taskVars
  /\ CallbackOnly

\* hal_ws_stop, in which the event loop waits for the WebSocket's task.
CallbackDisconnected ==
  /\ loop = "callback" /\ wifi = "DISCONNECTED"
  /\ loop' = IF WsCanStop /\ ~stopped THEN "ws_closing" ELSE "idle"
  /\ CallbackOnly
  /\ UNCHANGED taskVars

EventLoop ==
  \/ TakeEvent \/ TakeDisconnect \/ Connect
  \/ Callback \/ CallbackConnected \/ CallbackDisconnected

-----------------------------------------------------------------------------
(* The driver's link and what it posts (external).                          *)

LinkOnly == UNCHANGED <<callVars, flagVars, sendVars, wifiVars, event_loop, loop,
                        wsVars, taskVars>>

Post(e) ==
  /\ Len(loop_events) < MaxEvents
  /\ loop_events' = Append(loop_events, e)

Associate == link = "trying" /\ link' = "assoc" /\ Post("CONNECTED") /\ LinkOnly
AttemptFails == link = "trying" /\ link' = "idle" /\ Post("DISCONNECTED") /\ LinkOnly
GetIp == link = "assoc" /\ link' = "ip" /\ Post("GOT_IP") /\ LinkOnly
LoseIp == link = "ip" /\ link' = "assoc" /\ Post("LOST_IP") /\ LinkOnly
LoseLink ==
  /\ link \in {"assoc", "ip"}
  /\ link' = "idle" /\ Post("DISCONNECTED")
  /\ LinkOnly

Driver == Associate \/ AttemptFails \/ GetIp \/ LoseIp \/ LoseLink

-----------------------------------------------------------------------------
(* The WebSocket client's task and, in its context, ws_handler,             *)
(* hal_on_ws_start_stop and on_nw_event.  A broken connection may also be   *)
(* found by a send of another task, which then runs them.                   *)

WsOnly == UNCHANGED <<callVars, flagVars, sendVars, wifiVars, loopVars, link>>

\* Somebody waits in esp_websocket_client_close.
Closing == "ws_closing" \in {client, loop}

\* ws_handler: the event is on its way up.
Opened == ws' = "STARTED" /\ notice' = "hal_up" /\ UNCHANGED <<hal_ws, network_ready>>
ClosedSilently ==                              \* mutant: no callback
  ws' = "CLOSED" /\ UNCHANGED <<notice, hal_ws, network_ready>>
Closed == ws' = "CLOSED" /\ notice' = "hal_down" /\ UNCHANGED <<hal_ws, network_ready>>

WsConnects ==
  /\ ws_task = "connecting" /\ notice = "none" /\ link = "ip"
  /\ ws_task' = "connected"
  /\ Opened
  /\ UNCHANGED <<run, stopped, leaving>>
  /\ WsOnly

\* An attempt fails, or a connection breaks: DISCONNECTED, and a pause.
WsBreaks ==
  /\ ws_task \in {"connecting", "connected"} /\ notice = "none"
  /\ ws_task' = "waiting"
  /\ Closed
  /\ UNCHANGED <<run, stopped, leaving>>
  /\ WsOnly

\* The pause is longer than any wait in esp_websocket_client_close.
WsRetries ==
  /\ ws_task = "waiting" /\ notice = "none" /\ run /\ ~Closing
  /\ ws_task' = "connecting"
  /\ UNCHANGED <<run, stopped, leaving, wsVars>>
  /\ WsOnly

\* The server closes, of its own accord or in answer: CLOSED, and the task ends.
WsCloses ==
  /\ ws_task = "connected" /\ notice = "none"
  /\ Closing \/ ServerMayClose
  /\ ws_task' = "ending" /\ run' = FALSE
  /\ UNCHANGED <<stopped, leaving>>
  /\ Closed
  /\ WsOnly

\* No answer in time: esp_websocket_client_close lets the task run out.
CloseTimesOut ==
  /\ Closing /\ run
  /\ run' = FALSE
  /\ UNCHANGED <<ws_task, stopped, leaving, wsVars>>
  /\ WsOnly

\* STOPPED_BIT lets esp_websocket_client_close return to whoever waits in it.
ReleaseClosers ==
  /\ client' = IF client = "ws_closing" THEN "wifi_stop" ELSE client
  /\ loop' = IF loop = "ws_closing" THEN "idle" ELSE loop
  /\ UNCHANGED <<nw_state, ret, flagVars, sendVars, wifiVars, event_loop, loop_events,
                 link, wsVars>>

\* Out of the loop: FINISH, which ws_handler ignores, STOPPED_BIT, and no state.
WsEnds ==
  /\ ws_task # "none" /\ notice = "none" /\ ~run
  /\ ws_task' = "none" /\ stopped' = TRUE
  /\ UNCHANGED <<run, leaving>>
  /\ ReleaseClosers

\* The same by a task beside which another has been started: it takes the client's
\* state from the other, which is lost unless that was before its first steps.
FormerEnds ==
  /\ leaving /\ notice = "none"
  /\ \/ /\ ws_task \in {"none", "connecting", "ending"}
        /\ UNCHANGED <<ws_task, stopped>>
     \/ /\ ws_task \in {"connecting", "connected", "waiting", "lost"}
        /\ ws_task' = "lost" /\ stopped' \in BOOLEAN
  /\ leaving' \in BOOLEAN
  /\ UNCHANGED run
  /\ ReleaseClosers

HalOnWsStartStop ==
  /\ notice \in {"hal_up", "hal_down"}
  /\ hal_ws' = IF notice = "hal_up" THEN "RUNNING" ELSE "STOPPED"
  /\ notice' = IF notice = "hal_up" THEN "app_up" ELSE "app_down"
  /\ UNCHANGED <<ws, network_ready, taskVars>>
  /\ WsOnly

ReadyAfterAny(n) == TRUE                       \* mutant: never not ready
ReadyAfter(n)    == n = "app_up"

OnNwEvent ==
  /\ notice \in {"app_up", "app_down"}
  /\ network_ready' = ReadyAfter(notice)
  /\ notice' = "none"
  /\ UNCHANGED <<hal_ws, ws, taskVars>>
  /\ WsOnly

WsTask ==
  \/ WsConnects \/ WsBreaks \/ WsRetries \/ WsCloses \/ CloseTimesOut \/ WsEnds
  \/ FormerEnds \/ HalOnWsStartStop \/ OnNwEvent

-----------------------------------------------------------------------------
(* network_send_task.                                                       *)

SenderOnly == UNCHANGED <<callVars, wifiVars, loopVars, link, wsVars, taskVars>>

SenderTop ==
  /\ sender = "top"
  /\ sender' = IF network_ready THEN "drain" ELSE "test"
  /\ UNCHANGED <<flagVars, reports>>
  /\ SenderOnly

HasReportAlways == TRUE                        \* mutant: success on an empty queue
HasReport       == reports > 0

SenderPoll ==
  /\ sender = "drain"
  /\ \/ HasReport /\ reports' = reports - 1 /\ sender' = "send"
     \/ sender' = "test" /\ UNCHANGED reports
  /\ UNCHANGED flagVars
  /\ SenderOnly

\* hal_network_send, which drops the packet when the connection is gone
SenderSend ==
  /\ sender = "send"
  /\ sender' = "drain"
  /\ UNCHANGED <<flagVars, reports>>
  /\ SenderOnly

EndSeenOnline == end_flag /\ network_ready     \* mutant: test in one branch only
EndSeenAlways == TRUE                          \* mutant: no test
EndSeen       == end_flag

SenderTest ==
  /\ sender = "test"
  /\ \/ EndSeen /\ task_ended' = TRUE /\ sender' = "none"
     \/ ~EndSeen /\ sender' = "top" /\ UNCHANGED task_ended
  /\ UNCHANGED <<end_flag, reports>>
  /\ SenderOnly

Sender == SenderTop \/ SenderPoll \/ SenderSend \/ SenderTest

-----------------------------------------------------------------------------
Next == Client \/ InCall \/ EventLoop \/ Driver \/ WsTask \/ Sender

Spec == Init /\ [][Next]_vars

\* Tasks are scheduled again and again, and the library keeps its promises: a task
\* told to stop ends though it has to wait for another's event, a pause ends, and a
\* server that can be reached is reached at some time.  The client need do nothing; an
\* access point answers an attempt, and gives an address to whom it has let in.
FairSpec ==
  /\ Spec
  /\ WF_vars(InCall) /\ WF_vars(EventLoop) /\ WF_vars(Sender)
  /\ WF_vars(HalOnWsStartStop \/ OnNwEvent) /\ WF_vars(WsEnds)
  /\ WF_vars(CloseTimesOut) /\ WF_vars(WsRetries)
  /\ SF_vars(WsConnects) /\ SF_vars(FormerEnds)
  /\ WF_vars(Associate \/ AttemptFails) /\ WF_vars(GetIp)

-----------------------------------------------------------------------------
(* Properties.                                                              *)

TypeOK ==
  /\ nw_state \in {"UNINIT", "INIT", "RUNNING", "STOPPED"}
  /\ client \in {"idle", "creating", "await", "ws_stop", "ws_closing", "wifi_stop",
                 "disconnecting"}
  /\ ret \in {"OK", "ERROR"}
  /\ end_flag \in BOOLEAN /\ task_ended \in BOOLEAN /\ network_ready \in BOOLEAN
  /\ manual_disconnect \in BOOLEAN /\ event_loop \in BOOLEAN
  /\ run \in BOOLEAN /\ stopped \in BOOLEAN /\ leaving \in BOOLEAN
  /\ sender \in {"none", "top", "drain", "send", "test"}
  /\ reports \in 0 .. Reports
  /\ hal_wifi \in {"UNINIT", "INIT", "RUNNING", "STOPPED", "ERRORED"}
  /\ wifi \in {"UNINIT", "INIT", "CONFIGURED", "STARTED", "CONNECTING", "CONNECTED",
               "DISCONNECTED", "ERROR"}
  /\ loop \in {"idle", "connect", "callback", "ws_closing"}
  /\ loop_events \in Seq(Events)
  /\ link \in {"off", "idle", "trying", "assoc", "ip"}
  /\ hal_ws \in {"UNINIT", "INIT", "RUNNING", "STOPPED"}
  /\ ws \in {"UNINIT", "INIT", "STARTED", "CLOSED"}
  /\ notice \in {"none", "hal_up", "hal_down", "app_up", "app_down"}
  /\ ws_task \in {"none", "connecting", "connected", "waiting", "ending", "lost"}

\* Once an event of the WebSocket has been passed up, the platform, the HAL and the
\* application agree on whether there is a connection (ws_handler,
\* hal_on_ws_start_stop, on_nw_event and every refusal between them).
LayersAgree ==
  notice = "none" =>
    /\ ws = "STARTED" <=> hal_ws = "RUNNING"
    /\ hal_ws = "RUNNING" <=> network_ready

\* While network_stop takes the connection down nothing is being sent, and only a
\* stop ever ends the sending task.
SenderGoesFirst ==
  /\ client \in {"ws_stop", "ws_closing", "wifi_stop", "disconnecting"} => sender = "none"
  /\ nw_state = "RUNNING" /\ ~end_flag => sender # "none"

\* A stopped network never decides to connect again: whatever disconnection is
\* handled after network_stop has returned was asked for (manual_disconnect, set
\* before esp_wifi_disconnect and cleared by the first event that finds it set).
StopForbidsReconnect ==
  [][nw_state = "STOPPED" => loop = "connect" \/ loop' # "connect"]_vars

\* Every call of the network API returns, and so does the handling of every WiFi
\* event, though both may wait for the other's WebSocket to close.
CallsReturn ==
  /\ client # "idle" ~> client = "idle"
  /\ loop # "idle" ~> loop = "idle"

\* A running network gets its connection again and again, for the first time and
\* after any number of failed attempts and losses of link, address or connection,
\* once the access point lets it in (wifi_event_handler reconnects, hal_on_wifi_event
\* starts the WebSocket, whose task tries again).
Online == nw_state = "RUNNING" /\ ~end_flag
ConnectsAgain ==
  <>[]Online /\ <>[][~(AttemptFails \/ LoseIp \/ LoseLink)]_vars =>
    []<>(network_ready /\ link = "ip")

\* A stopped network can be started again or deinitialised.
StoppedIsUsable ==
  [][nw_state = "STOPPED" /\ (Start \/ Uninit) => ret' = "OK"]_vars
=============================================================================
