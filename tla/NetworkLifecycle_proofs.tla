----------------------- MODULE NetworkLifecycle_proofs -----------------------
(***************************************************************************)
(* Proofs about the layers of the network, for any number of waiting       *)
(* events and of reports, whatever fails and whatever the server does.     *)
(***************************************************************************)
EXTENDS NetworkLifecycle, SequenceTheorems, TLAPS

\* An event is in a queue, and no more than once.
Has(s, e) == \E i \in DOMAIN s : s[i] = e
Once(s, e) == \A i, j \in DOMAIN s : s[i] = e /\ s[j] = e => i = j

LEMMA HasEmpty == \A e : ~Has(<<>>, e) /\ Once(<<>>, e)
BY DEF Has, Once

LEMMA HasAppend ==
  ASSUME NEW s \in Seq(Events), NEW x \in Events
  PROVE  /\ Append(s, x) \in Seq(Events)
         /\ \A e : Has(Append(s, x), e) <=> Has(s, e) \/ x = e
         /\ \A e : Once(s, e) /\ (x # e \/ ~Has(s, e)) => Once(Append(s, x), e)
<1> DEFINE t == Append(s, x)
<1>1. /\ Len(s) \in Nat /\ DOMAIN s = 1 .. Len(s) /\ DOMAIN t = 1 .. Len(s) + 1
      /\ t[Len(s) + 1] = x /\ \A i \in 1 .. Len(s) : t[i] = s[i]
      /\ t \in Seq(Events)
  OBVIOUS
<1> HIDE DEF t
<1>2. \A i \in DOMAIN t :
        \/ i \in DOMAIN s /\ t[i] = s[i]
        \/ i = Len(s) + 1 /\ t[i] = x
  <2>1. \A i \in 1 .. Len(s) + 1 : i \in 1 .. Len(s) \/ i = Len(s) + 1
    BY <1>1
  <2> QED BY <1>1, <2>1, Zenon
<1>3. \A i \in DOMAIN s : i \in DOMAIN t /\ t[i] = s[i]
  BY <1>1
<1>4. Len(s) + 1 \in DOMAIN t
  BY <1>1
<1>5. \A e : Has(t, e) <=> Has(s, e) \/ x = e
  BY <1>1, <1>2, <1>3, <1>4 DEF Has
<1>6. \A e : Once(s, e) /\ (x # e \/ ~Has(s, e)) => Once(t, e)
  BY <1>2 DEF Has, Once
<1> QED BY <1>1, <1>5, <1>6 DEF t

LEMMA HasTail ==
  ASSUME NEW s \in Seq(Events), s # <<>>
  PROVE  /\ Tail(s) \in Seq(Events) /\ Head(s) \in Events /\ Has(s, Head(s))
         /\ \A e : Has(Tail(s), e) => Has(s, e)
         /\ \A e : Once(s, e) => Once(Tail(s), e)
         /\ \A e : Once(s, e) /\ Head(s) = e => ~Has(Tail(s), e)
<1> DEFINE t == Tail(s)
<1>1. /\ Len(s) \in Nat \ {0} /\ DOMAIN s = 1 .. Len(s) /\ DOMAIN t = 1 .. Len(s) - 1
      /\ Head(s) = s[1] /\ \A i \in 1 .. Len(s) - 1 : t[i] = s[i + 1]
      /\ t \in Seq(Events) /\ Head(s) \in Events
  BY HeadTailProperties, EmptySeq
<1> HIDE DEF t
<1>2. 1 \in DOMAIN s
  BY <1>1
<1>3. \A i \in DOMAIN t : i + 1 \in DOMAIN s /\ t[i] = s[i + 1] /\ i + 1 # 1 /\ i \in Nat
  BY <1>1
<1>4. \A e : Has(t, e) => Has(s, e)
  BY <1>3 DEF Has
<1>5. ASSUME NEW e, Once(s, e), NEW i \in DOMAIN t, NEW j \in DOMAIN t, t[i] = e, t[j] = e
      PROVE  i = j
  <2>1. i + 1 = j + 1
    BY <1>3, <1>5 DEF Once
  <2> QED BY <1>3, <2>1
<1>6. \A e : Once(s, e) => Once(t, e)
  BY <1>5 DEF Once
<1>7. ASSUME NEW e, Once(s, e), Head(s) = e, Has(t, e)  PROVE FALSE
  <2>1. PICK i \in DOMAIN t : t[i] = e
    BY <1>7 DEF Has
  <2>2. i + 1 \in DOMAIN s /\ s[i + 1] = e /\ i + 1 # 1
    BY <1>3, <2>1
  <2>3. s[1] = e
    BY <1>1, <1>7
  <2> QED BY <1>2, <1>7, <2>2, <2>3 DEF Once
<1> QED BY <1>1, <1>2, <1>4, <1>6, <1>7 DEF t, Has

-----------------------------------------------------------------------------
(* The inductive invariant, in parts.                                       *)

\* The sender runs from the start to the end that a stop asks it for.
SenderInv ==
  /\ nw_state # "RUNNING" => sender = "none"
  /\ nw_state = "RUNNING" => /\ sender = "none" <=> task_ended
                             /\ task_ended => end_flag
  /\ client = "creating" => nw_state \in {"INIT", "STOPPED"}
  /\ client = "await" => nw_state = "RUNNING" /\ end_flag
  /\ client \in {"ws_stop", "ws_closing", "wifi_stop", "disconnecting"} =>
       nw_state = "RUNNING" /\ task_ended

\* Before the driver has reported its start nothing of the WebSocket is there.
Unstarted ==
  /\ hal_wifi = "UNINIT" =>
       wifi \in {"UNINIT", "INIT"} /\ link = "off" /\ loop = "idle" /\ loop_events = <<>>
  /\ hal_wifi = "INIT" =>
       \/ /\ wifi = "CONFIGURED" /\ loop = "idle"
          /\ \/ link = "off" /\ loop_events = <<>>
             \/ link = "idle" /\ loop_events = <<"START">>
       \/ wifi = "STARTED" /\ loop = "connect" /\ link = "idle" /\ loop_events = <<>>
       \/ wifi \in {"STARTED", "ERROR"} /\ loop = "callback" /\ ~Has(loop_events, "START")
  /\ hal_wifi \in {"UNINIT", "INIT"} =>
       /\ ws_task = "none" /\ notice = "none" /\ ~leaving /\ ~run /\ ~network_ready
       /\ ws \in {"UNINIT", "INIT"} /\ hal_ws \in {"UNINIT", "INIT"}
       /\ client # "disconnecting" /\ nw_state # "STOPPED"

\* It starts once, and never stops.
Started ==
  /\ hal_wifi # "STOPPED"
  /\ hal_wifi \in {"RUNNING", "ERRORED"} =>
       wifi \notin {"UNINIT", "INIT", "CONFIGURED"} /\ ~Has(loop_events, "START")
  /\ ~Has(loop_events, "STOP")

\* What is on its way up has been set below.
Notices ==
  /\ notice = "hal_up" => ws = "STARTED"
  /\ notice = "hal_down" => ws = "CLOSED"
  /\ notice = "app_up" => ws = "STARTED" /\ hal_ws = "RUNNING"
  /\ notice = "app_down" => ws = "CLOSED" /\ hal_ws = "STOPPED"

\* There is one disconnection at a time, and the link is down until it is answered.
OneDisconnect ==
  /\ Once(loop_events, "DISCONNECTED")
  /\ Has(loop_events, "DISCONNECTED") \/ loop = "connect" => link \in {"off", "idle"}
  /\ loop = "connect" => ~Has(loop_events, "DISCONNECTED")

\* After a stop the one that may still come is known to be asked for.
Quiet ==
  link \in {"off", "idle"} /\ loop # "connect" /\ ~Has(loop_events, "DISCONNECTED")
AskedFor == client = "disconnecting" \/ nw_state = "STOPPED" => manual_disconnect \/ Quiet

-----------------------------------------------------------------------------

LEMMA EventNames ==
  /\ Events = {"START", "CONNECTED", "STOP", "GOT_IP", "LOST_IP", "DISCONNECTED"}
  /\ StateOf["START"] = "STARTED" /\ StateOf["CONNECTED"] = "CONNECTING"
  /\ StateOf["GOT_IP"] = "CONNECTED" /\ StateOf["LOST_IP"] = "CONNECTING"
<1>1. DOMAIN StateOf = {"START", "CONNECTED", "STOP", "GOT_IP", "LOST_IP"}
  BY DEF StateOf
<1> QED BY <1>1 DEF StateOf, Events

LEMMA InitTypeOK == Init => TypeOK
<1> SUFFICES ASSUME Init PROVE TypeOK
  OBVIOUS
<1>1. reports \in 0 .. Reports /\ loop_events \in Seq(Events)
  BY NetworkAssumption DEF Init, NetworkAssumption
<1> QED BY <1>1 DEF Init, TypeOK

LEMMA NextTypeOK == TypeOK /\ [Next]_vars => TypeOK'
<1> SUFFICES ASSUME TypeOK, [Next]_vars PROVE TypeOK'
  OBVIOUS
<1> USE DEF callVars, flagVars, sendVars, wifiVars, loopVars, wsVars, taskVars, TypeOK
<1>1. CASE Client
  <2>1. CASE InitRefused \/ InitWifiFails \/ InitConfigureFails \/ InitWsFails \/ InitNetwork
    BY <2>1, Zenon
       DEF InitRefused, InitWifiFails, InitConfigureFails, InitWsFails, InitNetwork, InitCall,
           WifiInitialised
  <2>2. CASE UninitRefused \/ UninitWifiFails
    BY <2>2, Zenon DEF UninitRefused, UninitWifiFails, UninitCall
  <2>3. CASE UninitNetwork
    <3>1. <<>> \in Seq(Events)
      OBVIOUS
    <3> QED BY <2>3, <3>1, Zenon DEF UninitNetwork, UninitCall
  <2>4. CASE StartRefused
    BY <2>4 DEF StartRefused, StartCall
  <2>5. CASE StartWifi
    <3>1. Append(loop_events, "START") \in Seq(Events)
      BY HasAppend, EventNames
    <3> QED BY <2>5, <3>1 DEF StartWifi, StartCall
  <2>6. CASE StopCall
    BY <2>6 DEF StopCall
  <2> QED BY <1>1, <2>1, <2>2, <2>3, <2>4, <2>5, <2>6 DEF Client, Uninit, Start
<1>2. CASE InCall
  <2>1. CASE CreateSender \/ DisconnectFails
    BY <2>1, Zenon DEF CreateSender, DisconnectFails
  <2>2. CASE AwaitSender \/ HalWsStop \/ WifiStopRefused \/ WifiStop
    BY <2>2, Zenon DEF AwaitSender, HalWsStop, WifiStopRefused, WifiStop, Ask
  <2>3. CASE Disconnect
    <3>1. Append(loop_events, "DISCONNECTED") \in Seq(Events)
      BY HasAppend, EventNames
    <3> QED BY <2>3, <3>1 DEF Disconnect
  <2> QED BY <1>2, <2>1, <2>2, <2>3 DEF InCall
<1>3. CASE EventLoop
  <2>1. CASE TakeEvent
    <3>1. Tail(loop_events) \in Seq(Events)
      BY <2>1, HasTail DEF TakeEvent
    <3>2. wifi' \in {"STARTED", "CONNECTING", "CONFIGURED", "CONNECTED"}
      <4>1. Head(loop_events) \in DOMAIN StateOf
        BY <2>1, HasTail DEF TakeEvent, Events
      <4> QED BY <2>1, <4>1 DEF TakeEvent, StateOf
    <3> QED BY <2>1, <3>1, <3>2 DEF TakeEvent, LoopOnly
  <2>2. CASE TakeDisconnect
    <3>1. Tail(loop_events) \in Seq(Events)
      BY <2>2, HasTail DEF TakeDisconnect
    <3>2. wifi' \in {wifi, "DISCONNECTED"} /\ loop' \in {"callback", "connect"}
      BY <2>2, Zenon DEF TakeDisconnect, Reconnect
    <3>3. manual_disconnect' \in BOOLEAN
      BY <2>2, Zenon DEF TakeDisconnect
    <3>4. UNCHANGED <<hal_wifi, event_loop, link, taskVars, callVars, flagVars, sendVars, wsVars>>
      BY <2>2, Zenon DEF TakeDisconnect, LoopOnly
    <3>5. loop_events' \in Seq(Events)
      BY <2>2, <3>1 DEF TakeDisconnect
    <3> QED BY <3>2, <3>3, <3>4, <3>5
  <2>3. CASE Connect
    BY <2>3 DEF Connect, LoopOnly
  <2>4. CASE Callback \/ CallbackConnected \/ CallbackDisconnected
    <3>1. HalState(wifi) \in {"UNINIT", "INIT", "RUNNING", "STOPPED", "ERRORED"}
      BY DEF HalState
    <3>2. /\ hal_wifi' = HalState(wifi)
          /\ UNCHANGED <<wifi, manual_disconnect, event_loop, loop_events, link>>
          /\ UNCHANGED <<callVars, flagVars, sendVars, wsVars>>
      BY <2>4, Zenon DEF Callback, CallbackConnected, CallbackDisconnected, CallbackOnly, LoopOnly
    <3>3. loop' \in {"idle", "ws_closing"}
      BY <2>4, Zenon DEF Callback, CallbackConnected, CallbackDisconnected
    <3>4. \/ UNCHANGED taskVars
          \/ ws_task' = "connecting" /\ run' = TRUE /\ stopped' = FALSE /\ leaving' \in BOOLEAN
      BY <2>4, Zenon DEF Callback, CallbackConnected, CallbackDisconnected, StartTask
    <3>5. HalState(wifi) \in {"UNINIT", "INIT", "RUNNING", "STOPPED", "ERRORED"} => TypeOK'
      BY <3>2, <3>3, <3>4, Zenon
    <3> QED BY <3>1, <3>5
  <2> QED BY <1>3, <2>1, <2>2, <2>3, <2>4 DEF EventLoop
<1>4. CASE Driver
  <2>1. \A e \in {"CONNECTED", "DISCONNECTED", "GOT_IP", "LOST_IP"} :
          Append(loop_events, e) \in Seq(Events)
    BY HasAppend, EventNames
  <2> QED BY <1>4, <2>1, Zenon
          DEF Driver, Associate, AttemptFails, GetIp, LoseIp, LoseLink, Post, LinkOnly
<1>5. CASE WsTask
  BY <1>5, Zenon
     DEF WsTask, WsConnects, WsBreaks, WsRetries, WsCloses, CloseTimesOut, WsEnds, FormerEnds,
         HalOnWsStartStop, OnNwEvent, Opened, Closed, ReleaseClosers, WsOnly, ReadyAfter
<1>6. CASE Sender
  <2>1. reports > 0 => reports - 1 \in 0 .. Reports
    BY NetworkAssumption DEF NetworkAssumption
  <2> QED BY <1>6, <2>1, Zenon
          DEF Sender, SenderTop, SenderPoll, SenderSend, SenderTest, HasReport, SenderOnly
<1>7. CASE UNCHANGED vars
  BY <1>7 DEF vars
<1> QED BY <1>1, <1>2, <1>3, <1>4, <1>5, <1>6, <1>7 DEF Next

-----------------------------------------------------------------------------
(* The sender.                                                              *)

LEMMA NextSenderInv == TypeOK /\ SenderInv /\ [Next]_vars => SenderInv'
<1> SUFFICES ASSUME TypeOK, SenderInv, [Next]_vars PROVE SenderInv'
  OBVIOUS
<1> USE DEF SenderInv
<1> DEFINE Mine == <<nw_state, client, end_flag, task_ended, sender>>
<1>1. CASE Client
  <2>1. CASE InitRefused \/ InitWifiFails \/ InitConfigureFails \/ InitWsFails \/ InitNetwork
    <3>1. /\ client = "idle" /\ nw_state = "UNINIT" /\ UNCHANGED <<client, flagVars, sendVars>>
          /\ nw_state' \in {"UNINIT", "INIT"}
      BY <2>1
         DEF InitRefused, InitWifiFails, InitConfigureFails, InitWsFails, InitNetwork, InitCall
    <3> QED BY <3>1 DEF flagVars, sendVars
  <2>2. CASE Uninit
    <3>1. /\ client = "idle" /\ nw_state \in {"INIT", "STOPPED"} /\ UNCHANGED <<client, sendVars>>
          /\ nw_state' \in {nw_state, "UNINIT"}
      BY <2>2 DEF Uninit, UninitRefused, UninitWifiFails, UninitNetwork, UninitCall
    <3> QED BY <3>1 DEF sendVars
  <2>3. CASE Start
    <3>1. /\ client = "idle" /\ nw_state \in {"INIT", "STOPPED"}
          /\ UNCHANGED <<nw_state, flagVars, sendVars>> /\ client' \in {"idle", "creating"}
      BY <2>3 DEF Start, StartRefused, StartWifi, StartCall
    <3> QED BY <3>1 DEF flagVars, sendVars
  <2>4. CASE StopCall
    BY <2>4 DEF StopCall, sendVars
  <2> QED BY <1>1, <2>1, <2>2, <2>3, <2>4 DEF Client
<1>2. CASE InCall
  <2>1. CASE CreateSender
    BY <2>1 DEF CreateSender
  <2>2. CASE AwaitSender
    BY <2>2 DEF AwaitSender, SenderReported, flagVars, sendVars
  <2>3. CASE HalWsStop \/ WifiStopRefused \/ WifiStop
    <3>1. /\ client \in {"ws_stop", "wifi_stop"}
          /\ client' \in {"ws_closing", "wifi_stop", "idle", "disconnecting"}
          /\ UNCHANGED <<nw_state, flagVars, sendVars>>
      BY <2>3 DEF HalWsStop, WifiStopRefused, WifiStop
    <3> QED BY <3>1 DEF flagVars, sendVars
  <2>4. CASE Disconnect \/ DisconnectFails
    <3>1. /\ client = "disconnecting" /\ client' = "idle" /\ nw_state' \in {nw_state, "STOPPED"}
          /\ UNCHANGED <<flagVars, sendVars>>
      BY <2>4 DEF Disconnect, DisconnectFails
    <3> QED BY <3>1 DEF flagVars, sendVars
  <2> QED BY <1>2, <2>1, <2>2, <2>3, <2>4 DEF InCall
<1>3. CASE EventLoop
  <2>1. UNCHANGED Mine
    BY <1>3
       DEF EventLoop, TakeEvent, TakeDisconnect, Connect, Callback, CallbackConnected,
           CallbackDisconnected, CallbackOnly, LoopOnly, callVars, flagVars, sendVars
  <2> QED BY <2>1
<1>4. CASE Driver
  <2>1. UNCHANGED Mine
    BY <1>4 DEF Driver, Associate, AttemptFails, GetIp, LoseIp, LoseLink, LinkOnly, callVars,
                flagVars, sendVars
  <2> QED BY <2>1
<1>5. CASE WsTask
  <2>1. \/ UNCHANGED <<callVars, flagVars, sendVars>>
        \/ ReleaseClosers
    BY <1>5, Zenon
       DEF WsTask, WsConnects, WsBreaks, WsRetries, WsCloses, CloseTimesOut, WsEnds, FormerEnds,
           HalOnWsStartStop, OnNwEvent, WsOnly
  <2>2. CASE UNCHANGED <<callVars, flagVars, sendVars>>
    BY <2>2 DEF callVars, flagVars, sendVars
  <2>3. CASE ReleaseClosers
    BY <2>3 DEF ReleaseClosers, flagVars, sendVars
  <2> QED BY <2>1, <2>2, <2>3
<1>6. CASE Sender
  <2>1. UNCHANGED callVars /\ sender # "none" /\ end_flag' = end_flag
    BY <1>6, Zenon DEF Sender, SenderTop, SenderPoll, SenderSend, SenderTest, SenderOnly, flagVars
  <2>2. \/ sender' # "none" /\ task_ended' = task_ended
        \/ sender' = "none" /\ end_flag /\ task_ended' = TRUE
    BY <1>6 DEF Sender, SenderTop, SenderPoll, SenderSend, SenderTest, EndSeen, flagVars
  <2>3. nw_state = "RUNNING"
    BY <2>1
  <2> QED BY <2>1, <2>2, <2>3 DEF callVars
<1>7. CASE UNCHANGED vars
  BY <1>7 DEF vars
<1> QED BY <1>1, <1>2, <1>3, <1>4, <1>5, <1>6, <1>7 DEF Next

\* The whole network keeps its types, whatever the number of waiting events and
\* reports, and whatever fails.
THEOREM TypeCorrect == Spec => []TypeOK
<1>1. Init => TypeOK
  BY InitTypeOK
<1>2. TypeOK /\ [Next]_vars => TypeOK'
  BY NextTypeOK
<1> QED BY <1>1, <1>2, PTL DEF Spec

\* network_stop has waited for the end of network_send_task before it touches the
\* connection, and the task ends for a stop alone (end_flag and task_ended).
THEOREM SenderEndsFirst == Spec => []SenderGoesFirst
<1>1. Init => TypeOK /\ SenderInv
  BY InitTypeOK DEF Init, SenderInv
<1>2. TypeOK /\ SenderInv /\ [Next]_vars => (TypeOK /\ SenderInv)'
  BY NextTypeOK, NextSenderInv
<1>3. TypeOK /\ SenderInv => SenderGoesFirst
  BY DEF TypeOK, SenderInv, SenderGoesFirst
<1> QED BY <1>1, <1>2, <1>3, PTL DEF Spec

-----------------------------------------------------------------------------
(* Before and after the driver's start.                                     *)

Begun == Unstarted /\ Started

LEMMA NextBegun == TypeOK /\ Begun /\ [Next]_vars => Begun'
<1> SUFFICES ASSUME TypeOK, Begun, [Next]_vars PROVE Begun'
  OBVIOUS
<1> DEFINE Lower == <<hal_wifi, wifi, link, loop, loop_events>>
           Upper == <<ws_task, notice, leaving, run, network_ready, ws, hal_ws>>
<1>a. hal_wifi \in {"UNINIT", "INIT", "RUNNING", "ERRORED"}
  BY DEF TypeOK, Begun, Started
<1>s. ASSUME UNCHANGED Lower, UNCHANGED Upper,
             client' # "disconnecting" \/ client = "disconnecting" \/ hal_wifi = "RUNNING",
             nw_state' # "STOPPED" \/ nw_state = "STOPPED" \/ client = "disconnecting"
      PROVE  Begun'
  BY <1>s DEF Begun, Unstarted, Started, Has
<1>1. CASE Client
  <2>1. CASE InitRefused \/ InitWifiFails
    <3>1. UNCHANGED <<Lower, Upper, client, nw_state>>
      BY <2>1 DEF InitRefused, InitWifiFails, InitCall, taskVars
    <3> QED BY <3>1, <1>s
  <2>2. CASE InitConfigureFails
    <3>1. /\ hal_wifi = "UNINIT" /\ hal_wifi' = "UNINIT" /\ wifi' = "INIT"
          /\ UNCHANGED <<link, loop, loop_events, Upper, client, nw_state>>
      BY <2>2 DEF InitConfigureFails, InitCall, WifiInitialised, taskVars
    <3> QED BY <3>1 DEF Begun, Unstarted, Started, Has
  <2>3. CASE InitWsFails \/ InitNetwork
    <3>1. /\ hal_wifi = "UNINIT" /\ hal_wifi' = "INIT" /\ wifi' = "CONFIGURED"
          /\ UNCHANGED <<link, loop, loop_events, client, ws_task, notice, leaving, run, network_ready>>
          /\ ws' \in {ws, "INIT"} /\ hal_ws' \in {hal_ws, "INIT"} /\ nw_state' \in {nw_state, "INIT"}
      BY <2>3 DEF InitWsFails, InitNetwork, InitCall, WifiInitialised, taskVars
    <3> QED BY <3>1 DEF Begun, Unstarted, Started, Has
  <2>4. CASE UninitRefused
    <3>1. UNCHANGED <<Lower, Upper, client, nw_state>>
      BY <2>4 DEF UninitRefused, UninitCall, taskVars, loopVars
    <3> QED BY <3>1, <1>s
  <2>5. CASE UninitWifiFails
    <3>1. /\ hal_wifi = "INIT" /\ wifi \in {"INIT", "DISCONNECTED", "ERROR"}
          /\ UNCHANGED <<hal_wifi, wifi, loop, loop_events, Upper, client, nw_state>>
      BY <2>5, <1>a DEF UninitWifiFails, UninitCall, WifiCanGo, taskVars, loopVars
    <3> QED BY <3>1 DEF Begun, Unstarted, Started, Has
  <2>6. CASE UninitNetwork
    <3>1. /\ hal_wifi = "INIT" /\ hal_wifi' = "UNINIT" /\ wifi' = "UNINIT" /\ link' = "off"
          /\ loop_events' = <<>> /\ loop' = "idle"
          /\ UNCHANGED <<client, notice>> /\ nw_state' \in {nw_state, "UNINIT"}
      BY <2>6, <1>a DEF UninitNetwork, UninitCall, WifiCanGo
    <3>2. \/ UNCHANGED Upper
          \/ /\ ws_task' = "none" /\ ~leaving' /\ ~run' /\ ~network_ready'
             /\ ws' = "UNINIT" /\ hal_ws' = "UNINIT"
      BY <2>6 DEF UninitNetwork, UninitCall, taskVars
    <3> QED BY <3>1, <3>2, HasEmpty DEF Begun, Unstarted, Started
  <2>7. CASE StartRefused
    <3>1. UNCHANGED <<Lower, Upper, client, nw_state>>
      BY <2>7 DEF StartRefused, StartCall, wifiVars, wsVars, taskVars
    <3> QED BY <3>1, <1>s
  <2>8. CASE StartWifi
    <3>1. /\ hal_wifi = "INIT" /\ wifi = "CONFIGURED"
          /\ UNCHANGED <<hal_wifi, wifi, loop, Upper, nw_state>> /\ client' = "creating"
      BY <2>8, <1>a DEF StartWifi, StartCall, WifiCanStart, wifiVars, wsVars, taskVars
    <3>2. link' = "idle" /\ loop_events' = <<"START">> /\ loop = "idle"
      <4>1. Append(<<>>, "START") = <<"START">>
        OBVIOUS
      <4> QED BY <2>8, <3>1, <4>1 DEF StartWifi, Begun, Unstarted
    <3>3. ~Has(loop_events', "STOP")
      BY <3>2 DEF Has
    <3> QED BY <3>1, <3>2, <3>3 DEF Begun, Unstarted, Started
  <2>9. CASE StopCall
    <3>1. UNCHANGED <<Lower, Upper, nw_state>> /\ client' = "await"
      BY <2>9 DEF StopCall, wifiVars, loopVars, wsVars, taskVars
    <3> QED BY <3>1, <1>s
  <2> QED BY <1>1, <2>1, <2>2, <2>3, <2>4, <2>5, <2>6, <2>7, <2>8, <2>9 DEF Client, Uninit, Start
<1>2. CASE InCall
  <2>1. CASE CreateSender \/ AwaitSender \/ HalWsStop \/ WifiStopRefused
    <3>1. UNCHANGED <<Lower, Upper>> /\ client' # "disconnecting" /\ nw_state' \in {nw_state, "RUNNING"}
      BY <2>1
         DEF CreateSender, AwaitSender, HalWsStop, WifiStopRefused, wifiVars, loopVars, wsVars,
             taskVars
    <3> QED BY <3>1, <1>s
  <2>2. CASE WifiStop
    <3>1. UNCHANGED <<Lower, Upper, nw_state>> /\ hal_wifi = "RUNNING"
      BY <2>2 DEF WifiStop, loopVars, wsVars, taskVars
    <3> QED BY <3>1, <1>s
  <2>3. CASE DisconnectFails
    <3>1. UNCHANGED <<Lower, Upper, nw_state>> /\ client' = "idle"
      BY <2>3 DEF DisconnectFails, loopVars, wsVars, taskVars
    <3> QED BY <3>1, <1>s
  <2>4. CASE Disconnect
    <3>1. /\ UNCHANGED <<hal_wifi, wifi>> /\ hal_wifi \in {"RUNNING", "ERRORED"}
      BY <2>4, <1>a DEF Disconnect, wifiVars, Begun, Unstarted
    <3>2. \/ loop_events' = loop_events
          \/ loop_events' = Append(loop_events, "DISCONNECTED")
      BY <2>4 DEF Disconnect
    <3>3. loop_events \in Seq(Events) /\ "DISCONNECTED" \in Events
      BY EventNames DEF TypeOK
    <3>4. \A e \in {"START", "STOP"} : Has(loop_events', e) => Has(loop_events, e)
      BY <3>2, <3>3, HasAppend, ZenonT(40)
    <3> QED BY <3>1, <3>4 DEF Begun, Unstarted, Started
  <2> QED BY <1>2, <2>1, <2>2, <2>3, <2>4 DEF InCall
<1>3. CASE EventLoop
  <2>1. UNCHANGED <<client, nw_state, network_ready, ws, hal_ws, notice>>
    BY <1>3
       DEF EventLoop, TakeEvent, TakeDisconnect, Connect, Callback, CallbackConnected,
           CallbackDisconnected, CallbackOnly, LoopOnly, callVars, wsVars
  <2>2. CASE TakeEvent
    <3>1. /\ UNCHANGED <<hal_wifi, link, ws_task, leaving, run>> /\ loop = "idle"
          /\ loop_events # <<>> /\ loop_events' = Tail(loop_events)
          /\ wifi' = StateOf[Head(loop_events)]
          /\ loop' = IF Head(loop_events) = "START" THEN "connect" ELSE "callback"
          /\ Head(loop_events) # "DISCONNECTED"
      BY <2>2 DEF TakeEvent, taskVars
    <3>2. /\ Head(loop_events) \in Events /\ Has(loop_events, Head(loop_events))
          /\ \A e : Has(Tail(loop_events), e) => Has(loop_events, e)
      BY <3>1, HasTail DEF TypeOK
    <3>3. CASE hal_wifi \in {"UNINIT", "INIT"}
      <4>1. hal_wifi = "INIT" /\ link = "idle" /\ loop_events = <<"START">>
        BY <3>1, <3>3 DEF Begun, Unstarted
      <4>2. Head(<<"START">>) = "START" /\ Tail(<<"START">>) = <<>>
        OBVIOUS
      <4>3. wifi' = "STARTED" /\ loop' = "connect" /\ loop_events' = <<>>
        BY <3>1, <4>1, <4>2, EventNames
      <4> QED BY <2>1, <3>1, <4>1, <4>3, HasEmpty DEF Begun, Unstarted, Started
    <3>4. CASE hal_wifi \in {"RUNNING", "ERRORED"}
      <4>1. Head(loop_events) \in {"CONNECTED", "GOT_IP", "LOST_IP"}
        BY <3>1, <3>2, <3>4, EventNames DEF Begun, Started
      <4>2. wifi' \in {"CONNECTING", "CONNECTED"}
        BY <3>1, <4>1, EventNames
      <4> QED BY <3>1, <3>2, <3>4, <4>2 DEF Begun, Unstarted, Started
    <3> QED BY <3>3, <3>4, <1>a
  <2>3. CASE TakeDisconnect
    <3>1. /\ UNCHANGED hal_wifi /\ loop = "idle" /\ wifi' \in {wifi, "DISCONNECTED"}
          /\ loop_events # <<>> /\ Head(loop_events) = "DISCONNECTED"
          /\ loop_events' = Tail(loop_events)
      BY <2>3 DEF TakeDisconnect
    <3>2. hal_wifi \in {"RUNNING", "ERRORED"}
      <4>1. Head(<<"START">>) = "START"
        OBVIOUS
      <4> QED BY <1>a, <3>1, <4>1 DEF Begun, Unstarted
    <3>3. \A e : Has(loop_events', e) => Has(loop_events, e)
      BY <3>1, HasTail DEF TypeOK
    <3> QED BY <3>1, <3>2, <3>3 DEF Begun, Unstarted, Started
  <2>4. CASE Connect
    <3>1. /\ UNCHANGED <<hal_wifi, loop_events, ws_task, leaving, run>> /\ loop = "connect"
          /\ loop' = "callback" /\ wifi' \in {wifi, "ERROR"}
      BY <2>4 DEF Connect, taskVars
    <3> QED BY <2>1, <3>1, HasEmpty DEF Begun, Unstarted, Started
  <2>5. CASE Callback \/ CallbackConnected \/ CallbackDisconnected
    <3>1. /\ loop = "callback" /\ hal_wifi' = HalState(wifi) /\ UNCHANGED <<wifi, loop_events>>
      BY <2>5 DEF Callback, CallbackConnected, CallbackDisconnected, CallbackOnly
    <3>2. CASE hal_wifi \in {"UNINIT", "INIT"}
      <4>1. hal_wifi = "INIT" /\ wifi \in {"STARTED", "ERROR"} /\ ~Has(loop_events, "START")
        BY <3>1, <3>2 DEF Begun, Unstarted
      <4>2. hal_wifi' \in {"RUNNING", "ERRORED"}
        BY <3>1, <4>1 DEF HalState
      <4> QED BY <3>1, <4>1, <4>2 DEF Begun, Unstarted, Started
    <3>3. CASE hal_wifi \in {"RUNNING", "ERRORED"}
      <4>1. wifi \in {"STARTED", "CONNECTING", "CONNECTED", "DISCONNECTED", "ERROR"}
        BY <3>3 DEF Begun, Started, TypeOK
      <4>2. hal_wifi' \in {"RUNNING", "ERRORED"}
        BY <3>1, <3>3, <4>1 DEF HalState
      <4> QED BY <3>1, <3>3, <4>1, <4>2 DEF Begun, Unstarted, Started
    <3> QED BY <3>2, <3>3, <1>a
  <2> QED BY <1>3, <2>2, <2>3, <2>4, <2>5 DEF EventLoop
<1>4. CASE Driver
  <2>1. /\ UNCHANGED <<hal_wifi, wifi, loop, Upper, client, nw_state>>
        /\ link \in {"trying", "assoc", "ip"}
        /\ \E e \in {"CONNECTED", "DISCONNECTED", "GOT_IP", "LOST_IP"} :
             loop_events' = Append(loop_events, e)
    BY <1>4
       DEF Driver, Associate, AttemptFails, GetIp, LoseIp, LoseLink, Post, LinkOnly, callVars,
           wifiVars, wsVars, taskVars
  <2>2. \A e \in {"START", "STOP"} : Has(loop_events', e) => Has(loop_events, e)
    BY <2>1, HasAppend, EventNames DEF TypeOK
  <2> QED BY <2>1, <2>2, <1>a DEF Begun, Unstarted, Started
<1>5. CASE WsTask
  <2>1. UNCHANGED <<hal_wifi, wifi, loop_events>>
    BY <1>5
       DEF WsTask, WsConnects, WsBreaks, WsRetries, WsCloses, CloseTimesOut, WsEnds, FormerEnds,
           HalOnWsStartStop, OnNwEvent, ReleaseClosers, WsOnly, wifiVars, loopVars
  <2>2. ws_task # "none" \/ run \/ leaving \/ notice # "none"
    BY <1>5
       DEF WsTask, WsConnects, WsBreaks, WsRetries, WsCloses, CloseTimesOut, WsEnds, FormerEnds,
           HalOnWsStartStop, OnNwEvent
  <2>3. hal_wifi \in {"RUNNING", "ERRORED"}
    BY <1>a, <2>2 DEF Begun, Unstarted
  <2> QED BY <2>1, <2>3 DEF Begun, Unstarted, Started
<1>6. CASE Sender
  <2>1. UNCHANGED <<Lower, Upper, client, nw_state>>
    BY <1>6 DEF Sender, SenderTop, SenderPoll, SenderSend, SenderTest, SenderOnly, callVars,
                wifiVars, loopVars, wsVars, taskVars
  <2> QED BY <2>1, <1>s
<1>7. CASE UNCHANGED vars
  BY <1>7, <1>s DEF vars
<1> QED BY <1>1, <1>2, <1>3, <1>4, <1>5, <1>6, <1>7 DEF Next

-----------------------------------------------------------------------------
(* The layers.                                                              *)

LEMMA NextAgreed ==
  TypeOK /\ Begun /\ Notices /\ LayersAgree /\ [Next]_vars => Notices' /\ LayersAgree'
<1> SUFFICES ASSUME TypeOK, Begun, Notices, LayersAgree, [Next]_vars
             PROVE  Notices' /\ LayersAgree'
  OBVIOUS
<1> USE DEF Notices, LayersAgree
<1> DEFINE Upper == <<notice, ws, hal_ws, network_ready>>
<1>1. CASE Client
  <2>1. CASE InitRefused \/ InitWifiFails \/ InitConfigureFails \/ InitWsFails
    <3>1. UNCHANGED Upper
      BY <2>1 DEF InitRefused, InitWifiFails, InitConfigureFails, InitWsFails, InitCall
    <3> QED BY <3>1
  <2>2. CASE InitNetwork
    <3>1. /\ ws = "UNINIT" /\ hal_ws = "UNINIT" /\ ws' = "INIT" /\ hal_ws' = "INIT"
          /\ UNCHANGED <<notice, network_ready>>
      BY <2>2 DEF InitNetwork, InitCall
    <3>2. notice = "none"
      BY <3>1 DEF TypeOK
    <3> QED BY <3>1, <3>2 DEF TypeOK
  <2>3. CASE UninitRefused \/ UninitWifiFails
    <3>1. UNCHANGED Upper
      BY <2>3 DEF UninitRefused, UninitWifiFails, UninitCall
    <3> QED BY <3>1
  <2>4. CASE UninitNetwork
    <3>1. hal_wifi = "INIT" /\ UNCHANGED notice
      BY <2>4 DEF UninitNetwork, UninitCall, WifiCanGo, Begun, Started
    <3>2. notice = "none"
      BY <3>1 DEF Begun, Unstarted
    <3>3. \/ UNCHANGED <<ws, hal_ws, network_ready>>
          \/ ws' = "UNINIT" /\ hal_ws' = "UNINIT" /\ ~network_ready'
      BY <2>4 DEF UninitNetwork
    <3> QED BY <3>1, <3>2, <3>3
  <2>5. CASE Start \/ StopCall
    <3>1. UNCHANGED Upper
      BY <2>5 DEF Start, StartRefused, StartWifi, StartCall, StopCall, wsVars
    <3> QED BY <3>1
  <2> QED BY <1>1, <2>1, <2>2, <2>3, <2>4, <2>5 DEF Client, Uninit
<1>2. CASE InCall
  <2>1. UNCHANGED Upper
    BY <1>2 DEF InCall, CreateSender, AwaitSender, HalWsStop, WifiStopRefused, WifiStop,
                Disconnect, DisconnectFails, wsVars
  <2> QED BY <2>1
<1>3. CASE EventLoop
  <2>1. UNCHANGED Upper
    BY <1>3
       DEF EventLoop, TakeEvent, TakeDisconnect, Connect, Callback, CallbackConnected,
           CallbackDisconnected, CallbackOnly, LoopOnly, wsVars
  <2> QED BY <2>1
<1>4. CASE Driver
  <2>1. UNCHANGED Upper
    BY <1>4 DEF Driver, Associate, AttemptFails, GetIp, LoseIp, LoseLink, LinkOnly, wsVars
  <2> QED BY <2>1
<1>5. CASE WsTask
  <2>1. CASE WsConnects \/ WsBreaks \/ WsCloses
    <3>1. /\ notice = "none" /\ UNCHANGED <<hal_ws, network_ready>>
          /\ \/ ws' = "STARTED" /\ notice' = "hal_up"
             \/ ws' = "CLOSED" /\ notice' = "hal_down"
      BY <2>1 DEF WsConnects, WsBreaks, WsCloses, Opened, Closed
    <3> QED BY <3>1
  <2>2. CASE WsRetries \/ CloseTimesOut \/ WsEnds \/ FormerEnds
    <3>1. UNCHANGED Upper
      BY <2>2 DEF WsRetries, CloseTimesOut, WsEnds, FormerEnds, ReleaseClosers, wsVars
    <3> QED BY <3>1
  <2>3. CASE HalOnWsStartStop
    BY <2>3 DEF HalOnWsStartStop
  <2>4. CASE OnNwEvent
    BY <2>4 DEF OnNwEvent, ReadyAfter
  <2> QED BY <1>5, <2>1, <2>2, <2>3, <2>4 DEF WsTask
<1>6. CASE Sender
  <2>1. UNCHANGED Upper
    BY <1>6 DEF Sender, SenderTop, SenderPoll, SenderSend, SenderTest, SenderOnly, wsVars
  <2> QED BY <2>1
<1>7. CASE UNCHANGED vars
  BY <1>7 DEF vars
<1> QED BY <1>1, <1>2, <1>3, <1>4, <1>5, <1>6, <1>7 DEF Next

LEMMA InitBegun == Init => Begun
BY HasEmpty DEF Init, Begun, Unstarted, Started

\* Once an event of the WebSocket has gone all the way up, the three layers agree on
\* whether there is a connection, in every order of events, calls and failures.
THEOREM LayersStayTogether == Spec => []LayersAgree
<1> DEFINE Inv == TypeOK /\ Begun /\ Notices /\ LayersAgree
<1>1. Init => Inv
  BY InitTypeOK, InitBegun DEF Init, Notices, LayersAgree
<1>2. Inv /\ [Next]_vars => Inv'
  BY NextTypeOK, NextBegun, NextAgreed
<1> QED BY <1>1, <1>2, PTL DEF Spec

-----------------------------------------------------------------------------
(* The disconnection that was asked for.                                    *)

Asked == OneDisconnect /\ AskedFor

LEMMA NextAsked ==
  TypeOK /\ SenderInv /\ Begun /\ Asked /\ [Next]_vars => Asked'
<1> SUFFICES ASSUME TypeOK, SenderInv, Begun, Asked, [Next]_vars PROVE Asked'
  OBVIOUS
<1> USE DEF Asked, OneDisconnect, AskedFor, Quiet
<1> DEFINE D == "DISCONNECTED"
           Lower == <<link, loop, loop_events>>
<1>d. D \in Events /\ loop_events \in Seq(Events)
  BY EventNames DEF TypeOK
<1>n. hal_wifi \in {"UNINIT", "INIT"} => client # "disconnecting" /\ nw_state # "STOPPED"
  BY DEF Begun, Unstarted
<1>s. ASSUME UNCHANGED <<Lower, manual_disconnect>>,
             client' # "disconnecting" \/ client = "disconnecting",
             nw_state' # "STOPPED" \/ nw_state = "STOPPED"
      PROVE  Asked'
  BY <1>s DEF Has, Once
<1>1. CASE Client
  <2>1. CASE InitRefused \/ InitWifiFails \/ InitConfigureFails \/ InitWsFails \/ InitNetwork
    <3>1. UNCHANGED <<Lower, manual_disconnect, client>> /\ nw_state' \in {nw_state, "INIT"}
      BY <2>1
         DEF InitRefused, InitWifiFails, InitConfigureFails, InitWsFails, InitNetwork, InitCall
    <3> QED BY <3>1, <1>s
  <2>2. CASE UninitRefused
    <3>1. UNCHANGED <<Lower, manual_disconnect, client, nw_state>>
      BY <2>2 DEF UninitRefused, UninitCall, loopVars
    <3> QED BY <3>1, <1>s
  <2>3. CASE UninitWifiFails
    <3>1. /\ UNCHANGED <<loop, loop_events, manual_disconnect, client, nw_state>>
          /\ link' \in {link, "off"}
      BY <2>3 DEF UninitWifiFails, UninitCall, loopVars
    <3> QED BY <3>1 DEF Has, Once
  <2>4. CASE UninitNetwork
    <3>1. link' = "off" /\ loop' = "idle" /\ loop_events' = <<>>
      BY <2>4 DEF UninitNetwork
    <3> QED BY <3>1, HasEmpty
  <2>5. CASE StartRefused
    <3>1. UNCHANGED <<Lower, manual_disconnect, client, nw_state>>
      BY <2>5 DEF StartRefused, StartCall, wifiVars
    <3> QED BY <3>1, <1>s
  <2>6. CASE StartWifi
    <3>1. /\ hal_wifi = "INIT" /\ wifi = "CONFIGURED"
          /\ UNCHANGED <<nw_state, loop>> /\ client' = "creating"
      BY <2>6 DEF StartWifi, StartCall, WifiCanStart, Begun, Started
    <3>2. link' = "idle" /\ loop_events' = <<"START">> /\ loop = "idle"
      <4>1. Append(<<>>, "START") = <<"START">>
        OBVIOUS
      <4> QED BY <2>6, <3>1, <4>1 DEF StartWifi, Begun, Unstarted
    <3>3. Once(loop_events', D) /\ ~Has(loop_events', D)
      BY <3>2 DEF Has, Once
    <3> QED BY <3>1, <3>2, <3>3
  <2>7. CASE StopCall
    <3>1. UNCHANGED <<Lower, manual_disconnect, nw_state>> /\ client' = "await"
      BY <2>7 DEF StopCall, wifiVars, loopVars
    <3> QED BY <3>1, <1>s
  <2> QED BY <1>1, <2>1, <2>2, <2>3, <2>4, <2>5, <2>6, <2>7 DEF Client, Uninit, Start
<1>2. CASE InCall
  <2>1. CASE CreateSender \/ AwaitSender \/ HalWsStop \/ WifiStopRefused
    <3>1. /\ UNCHANGED <<Lower, manual_disconnect>> /\ client' # "disconnecting"
          /\ nw_state' \in {nw_state, "RUNNING"}
      BY <2>1 DEF CreateSender, AwaitSender, HalWsStop, WifiStopRefused, wifiVars, loopVars
    <3> QED BY <3>1, <1>s
  <2>2. CASE WifiStop
    <3>1. UNCHANGED Lower /\ manual_disconnect'
      BY <2>2 DEF WifiStop, Ask, loopVars
    <3> QED BY <3>1 DEF Has, Once
  <2>3. CASE DisconnectFails
    <3>1. UNCHANGED <<Lower, nw_state>> /\ client' = "idle" /\ nw_state = "RUNNING"
      BY <2>3 DEF DisconnectFails, loopVars, SenderInv
    <3> QED BY <3>1 DEF Has, Once
  <2>4. CASE Disconnect
    <3>1. client = "disconnecting" /\ UNCHANGED <<manual_disconnect, loop>>
      BY <2>4 DEF Disconnect, wifiVars
    <3>2. CASE link \in {"trying", "assoc", "ip"}
      <4>1. /\ link' = "idle" /\ loop_events' = Append(loop_events, D)
            /\ manual_disconnect /\ loop # "connect" /\ ~Has(loop_events, D)
        BY <2>4, <3>1, <3>2 DEF Disconnect
      <4>2. Once(loop_events', D)
        BY <4>1, <1>d, HasAppend
      <4> QED BY <3>1, <4>1, <4>2
    <3>3. CASE link \notin {"trying", "assoc", "ip"}
      <4>1. UNCHANGED Lower
        BY <2>4, <3>1, <3>3 DEF Disconnect
      <4> QED BY <3>1, <4>1 DEF Has, Once
    <3> QED BY <3>2, <3>3
  <2> QED BY <1>2, <2>1, <2>2, <2>3, <2>4 DEF InCall
<1>3. CASE EventLoop
  <2>1. UNCHANGED <<client, nw_state>>
    BY <1>3
       DEF EventLoop, TakeEvent, TakeDisconnect, Connect, Callback, CallbackConnected,
           CallbackDisconnected, CallbackOnly, LoopOnly, callVars
  <2>2. CASE TakeEvent
    <3>1. /\ UNCHANGED <<link, manual_disconnect>> /\ loop = "idle"
          /\ loop_events # <<>> /\ loop_events' = Tail(loop_events)
          /\ loop' = IF Head(loop_events) = "START" THEN "connect" ELSE "callback"
      BY <2>2 DEF TakeEvent
    <3>2. /\ Has(loop_events, Head(loop_events))
          /\ \A e : Has(loop_events', e) => Has(loop_events, e)
          /\ Once(loop_events', D)
      BY <3>1, <1>d, HasTail
    <3>3. CASE Head(loop_events) = "START"
      <4>1. hal_wifi \in {"UNINIT", "INIT"}
        BY <3>2, <3>3 DEF Begun, Started, TypeOK
      <4>2. link = "idle" /\ loop_events = <<"START">>
        BY <3>1, <4>1 DEF Begun, Unstarted
      <4>3. loop_events' = <<>>
        BY <3>1, <4>2
      <4> QED BY <2>1, <3>1, <4>1, <4>2, <4>3, <1>n, HasEmpty
    <3>4. CASE Head(loop_events) # "START"
      BY <2>1, <3>1, <3>2, <3>4
    <3> QED BY <3>3, <3>4
  <2>3. CASE TakeDisconnect
    <3>1. /\ UNCHANGED link /\ Head(loop_events) = D
          /\ loop_events # <<>> /\ loop_events' = Tail(loop_events)
          /\ (manual_disconnect /\ loop' = "callback") \/ ~manual_disconnect
      BY <2>3 DEF TakeDisconnect
    <3>2. Has(loop_events, D) /\ Once(loop_events', D) /\ ~Has(loop_events', D)
      BY <3>1, <1>d, HasTail
    <3> QED BY <2>1, <3>1, <3>2
  <2>4. CASE Connect
    <3>1. UNCHANGED <<loop_events, manual_disconnect>> /\ loop = "connect" /\ loop' = "callback"
      BY <2>4 DEF Connect
    <3> QED BY <2>1, <3>1 DEF Has, Once
  <2>5. CASE Callback \/ CallbackConnected \/ CallbackDisconnected
    <3>1. /\ UNCHANGED <<loop_events, manual_disconnect, link>>
          /\ loop' # "connect"
      BY <2>5, Zenon DEF Callback, CallbackConnected, CallbackDisconnected, CallbackOnly
    <3> QED BY <2>1, <3>1 DEF Has, Once
  <2> QED BY <1>3, <2>2, <2>3, <2>4, <2>5 DEF EventLoop
<1>4. CASE Driver
  <2>1. /\ UNCHANGED <<loop, manual_disconnect, client, nw_state>>
        /\ link \in {"trying", "assoc", "ip"}
        /\ \E e \in {"CONNECTED", "DISCONNECTED", "GOT_IP", "LOST_IP"} :
             loop_events' = Append(loop_events, e) /\ (e = D => link' = "idle")
    BY <1>4
       DEF Driver, Associate, AttemptFails, GetIp, LoseIp, LoseLink, Post, LinkOnly, callVars,
           wifiVars
  <2>2. ~Has(loop_events, D) /\ loop # "connect"
    BY <2>1
  <2>3. Once(loop_events', D) /\ (Has(loop_events', D) => link' = "idle")
    BY <2>1, <2>2, <1>d, HasAppend, EventNames
  <2> QED BY <2>1, <2>2, <2>3
<1>5. CASE WsTask
  <2>1. /\ UNCHANGED <<link, loop_events, manual_disconnect, nw_state>>
        /\ client' \in {client, "wifi_stop"} /\ loop' \in {loop, "idle"}
    BY <1>5
       DEF WsTask, WsConnects, WsBreaks, WsRetries, WsCloses, CloseTimesOut, WsEnds, FormerEnds,
           HalOnWsStartStop, OnNwEvent, ReleaseClosers, WsOnly, wifiVars, loopVars, callVars
  <2> QED BY <2>1 DEF Has, Once
<1>6. CASE Sender
  <2>1. UNCHANGED <<Lower, manual_disconnect, client, nw_state>>
    BY <1>6 DEF Sender, SenderTop, SenderPoll, SenderSend, SenderTest, SenderOnly, callVars,
                wifiVars, loopVars
  <2> QED BY <2>1, <1>s
<1>7. CASE UNCHANGED vars
  BY <1>7, <1>s DEF vars
<1> QED BY <1>1, <1>2, <1>3, <1>4, <1>5, <1>6, <1>7 DEF Next

\* Only the start of the driver and a disconnection nobody asked for are answered with
\* a connection.
LEMMA ConnectsFrom ==
  ASSUME TypeOK, [Next]_vars, loop # "connect", loop' = "connect"
  PROVE  \/ Has(loop_events, "START")
         \/ Has(loop_events, "DISCONNECTED") /\ ~manual_disconnect
<1>1. CASE Client
  BY <1>1
     DEF Client, InitRefused, InitWifiFails, InitConfigureFails, InitWsFails, InitNetwork,
         InitCall,
         Uninit, UninitRefused, UninitWifiFails, UninitNetwork, UninitCall, Start, StartRefused,
         StartWifi, StartCall, StopCall, loopVars
<1>2. CASE InCall
  BY <1>2 DEF InCall, CreateSender, AwaitSender, HalWsStop, WifiStopRefused, WifiStop, Disconnect,
              DisconnectFails, loopVars
<1>3. CASE EventLoop
  <2>1. CASE TakeEvent
    <3>1. loop_events # <<>> /\ Head(loop_events) = "START"
      BY <2>1 DEF TakeEvent
    <3> QED BY <3>1, HasTail DEF TypeOK
  <2>2. CASE TakeDisconnect
    <3>1. loop_events # <<>> /\ Head(loop_events) = "DISCONNECTED" /\ ~manual_disconnect
      BY <2>2 DEF TakeDisconnect
    <3> QED BY <3>1, HasTail DEF TypeOK
  <2>3. CASE Connect \/ Callback \/ CallbackConnected \/ CallbackDisconnected
    BY <2>3, Zenon DEF Connect, Callback, CallbackConnected, CallbackDisconnected
  <2> QED BY <1>3, <2>1, <2>2, <2>3 DEF EventLoop
<1>4. CASE Driver
  BY <1>4 DEF Driver, Associate, AttemptFails, GetIp, LoseIp, LoseLink, LinkOnly
<1>5. CASE WsTask
  BY <1>5
     DEF WsTask, WsConnects, WsBreaks, WsRetries, WsCloses, CloseTimesOut, WsEnds, FormerEnds,
         HalOnWsStartStop, OnNwEvent, ReleaseClosers, WsOnly, loopVars
<1>6. CASE Sender
  BY <1>6 DEF Sender, SenderTop, SenderPoll, SenderSend, SenderTest, SenderOnly, loopVars
<1>7. CASE UNCHANGED vars
  BY <1>7 DEF vars
<1> QED BY <1>1, <1>2, <1>3, <1>4, <1>5, <1>6, <1>7 DEF Next

\* After network_stop has returned no disconnection is answered with a new attempt to
\* connect, however late its event is handled: manual_disconnect waits for it, or
\* there is none left to come.
THEOREM StoppedStaysAway == Spec => StopForbidsReconnect
<1> DEFINE Inv == TypeOK /\ SenderInv /\ Begun /\ Asked
<1>1. Init => Inv
  BY InitTypeOK, InitBegun, HasEmpty DEF Init, SenderInv, Asked, OneDisconnect, AskedFor
<1>2. Inv /\ [Next]_vars => Inv'
  BY NextTypeOK, NextSenderInv, NextBegun, NextAsked
<1>3. Inv /\ [Next]_vars => (nw_state = "STOPPED" => loop = "connect" \/ loop' # "connect")
  <2> SUFFICES ASSUME Inv, [Next]_vars, nw_state = "STOPPED", loop # "connect", loop' = "connect"
               PROVE  FALSE
    OBVIOUS
  <2>1. hal_wifi \in {"RUNNING", "ERRORED"}
    BY DEF TypeOK, Begun, Unstarted, Started
  <2>2. ~Has(loop_events, "START")
    BY <2>1 DEF Begun, Started
  <2>3. Has(loop_events, "DISCONNECTED") /\ ~manual_disconnect
    BY <2>2, ConnectsFrom
  <2> QED BY <2>3 DEF Asked, AskedFor, Quiet
<1> QED BY <1>1, <1>2, <1>3, PTL DEF Spec, StopForbidsReconnect
=============================================================================
