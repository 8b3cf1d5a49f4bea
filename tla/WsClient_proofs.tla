--------------------------- MODULE WsClient_proofs ---------------------------
(***************************************************************************)
(* The WebSocket client for every setting of its timers: its types, who    *)
(* holds its lock, what is left when its tasks have ended, and for what it *)
(* gives a connection up.                                                  *)
(***************************************************************************)
EXTENDS WsClient, TLAPS

\* A connection is allowed a number of pings.
LEMMA PingsBound == AllowedPings \in Nat
<1>1. PingEvery \in Nat /\ PingEvery > 0 /\ PongWithin \in Nat
  BY WsAssumption
<1> QED BY <1>1 DEF AllowedPings

-----------------------------------------------------------------------------
(* The types, in groups of variables that change together.                  *)

\* The fields of the client.
FieldsTyped ==
  /\ state \in {"UNKNOW", "INIT", "CONNECTED", "WAIT_TIMEOUT", "CLOSING"}
  /\ run \in BOOLEAN
  /\ bits \subseteq {"STOPPED", "CLOSE_FRAME_SENT", "REQUESTED_STOP"}
  /\ error_type \in {"NONE", "TCP_TRANSPORT", "PONG_TIMEOUT"}
  /\ ws \in {"UNINIT", "INIT", "STARTED", "CLOSED"}

\* The places, what is true or false, and the connection.
RestTyped ==
  /\ task \in [Tasks -> Places]
  /\ caller \in {"idle", "starting", "locking", "writing", "close_sent", "close_wait",
                 "stop_wait", "free"}
  /\ sender \in {"idle", "locking", "writing"}
  /\ lock \in {"free", "task", "sender", "caller"}
  /\ overlapped \in BOOLEAN /\ wait_for_pong_resp \in BOOLEAN
  /\ transport \in {"closed", "open", "broken"}
  /\ inbox \in Seq({"data", "pong", "close"})
  /\ server \in {"answers", "silent"}

\* The ages and the count of pings.
TimesTyped ==
  /\ ping_age \in 0..PingEvery + 1
  /\ pong_age \in 0..PongWithin + 1
  /\ reconnect_age \in 0..ReconnectAfter + 1
  /\ owed \in 0..AnswerWithin + 1
  /\ pings \in 0..AllowedPings
  /\ late \in 0..PongWithin + 1

\* The lock, and who holds it.
LockHeld ==
  /\ lock = "task" <=> \E t \in Tasks : task[t] \in HoldsLock
  /\ task["new"] \in HoldsLock => task["old"] \notin HoldsLock
  /\ lock = "sender" <=> sender = "writing"
  /\ lock = "caller" <=> caller = "writing"

\* A server that does not answer owes nothing, so that what is owed never grows beyond
\* its bound.
Owes == server = "silent" => owed = 0

\* The groups together are the type invariant.
LEMMA TypeParts == TypeOK <=> FieldsTyped /\ RestTyped /\ TimesTyped /\ LockHeld
BY Zenon DEF TypeOK, FieldsTyped, RestTyped, TimesTyped, LockHeld

\* What has been read leaves frames behind.
LEMMA InboxSeqs ==
  LET Kind == {"data", "pong", "close"}
  IN  /\ <<>> \in Seq(Kind)
      /\ \A s \in Seq(Kind) : s # <<>> => Tail(s) \in Seq(Kind)
OBVIOUS

\* The constants are numbers.
LEMMA ConstantTypes ==
  /\ PingEvery \in Nat /\ PongWithin \in Nat /\ ReconnectAfter \in Nat
  /\ AnswerWithin \in Nat /\ MaxInbox \in Nat /\ AllowedPings \in Nat
BY WsAssumption, PingsBound

\* An abort keeps the ages within their bounds.
LEMMA AbortTimes ==
  ASSUME TimesTyped, NEW why, Abort(why)
  PROVE  reconnect_age' \in 0..ReconnectAfter + 1 /\ owed' \in 0..AnswerWithin + 1
BY ConstantTypes DEF TimesTyped, Abort

\* It closes the connection, or leaves it.
LEMMA AbortRest ==
  ASSUME RestTyped, NEW why, Abort(why)
  PROVE  /\ transport' \in {"closed", "open", "broken"}
         /\ inbox' \in Seq({"data", "pong", "close"})
BY InboxSeqs DEF RestTyped, Abort

\* What grows older by a tick stays within its bound, and grows by one at most.
LEMMA OlderAge ==
  ASSUME NEW bound \in Nat, NEW age \in 0..bound + 1
  PROVE  /\ Older(age, bound) \in 0..bound + 1
         /\ Older(age, bound) \in {age, age + 1}
         /\ Older(age, bound) = IF age = bound + 1 THEN age ELSE age + 1
BY DEF Older

\* And so do the ages, at a tick.
LEMMA TickTimes ==
  ASSUME TimesTyped, RestTyped, Owes, NEW polled \in BOOLEAN, Tick(polled)
  PROVE  /\ ping_age' \in 0..PingEvery + 1
         /\ pong_age' \in 0..PongWithin + 1
         /\ reconnect_age' \in 0..ReconnectAfter + 1
         /\ owed' \in 0..AnswerWithin + 1
         /\ late' \in 0..PongWithin + 1
<1>1. /\ ping_age' = Older(ping_age, PingEvery)
      /\ pong_age' \in {Older(pong_age, PongWithin), 0}
      /\ reconnect_age' \in {Older(reconnect_age, ReconnectAfter), 0}
      /\ late' \in {Older(late, PongWithin), late, 0}
  BY DEF Tick
<1>2. ping_age' \in 0..PingEvery + 1 /\ reconnect_age' \in 0..ReconnectAfter + 1
  <2>1. Older(ping_age, PingEvery) \in 0..PingEvery + 1
    BY ConstantTypes, OlderAge DEF TimesTyped
  <2>2. Older(reconnect_age, ReconnectAfter) \in 0..ReconnectAfter + 1
    BY ConstantTypes, OlderAge DEF TimesTyped
  <2> QED BY <1>1, <2>1, <2>2, ConstantTypes
<1>3. pong_age' \in 0..PongWithin + 1 /\ late' \in 0..PongWithin + 1
  <2>1. Older(pong_age, PongWithin) \in 0..PongWithin + 1
    BY ConstantTypes, OlderAge DEF TimesTyped
  <2>2. Older(late, PongWithin) \in 0..PongWithin + 1
    BY ConstantTypes, OlderAge DEF TimesTyped
  <2> QED BY <1>1, <2>1, <2>2, ConstantTypes DEF TimesTyped
<1>4. owed' \in 0..AnswerWithin + 1
  <2>1. owed' = (IF owed = 0 THEN 0 ELSE owed + 1) /\ (owed = 0 \/ owed <= AnswerWithin)
    BY DEF RestTyped, Owes, Tick
  <2> QED BY <2>1, ConstantTypes DEF TimesTyped
<1> QED BY <1>2, <1>3, <1>4

LEMMA FieldsNext == FieldsTyped /\ [Next]_vars => FieldsTyped'
<1> SUFFICES ASSUME FieldsTyped, [Next]_vars PROVE FieldsTyped'
  OBVIOUS
<1> USE DEF FieldsTyped
<1>1. ASSUME NEW t \in Tasks, Task(t) PROVE FieldsTyped'
  BY <1>1, ZenonT(60)
     DEF Task, Begin, Goes, TaskVarsKept, placeVars, ageVars, pongVars, BeginConnecting,
         Turn, sharedVars, Connects, ws_handler, ConnectFails, Abort, Abortable,
         ConnectedTurn, PingDue, PongOverdue, PingWritten, SendPing, AsksServer,
         WaitingTurn, ClosingTurn, LostTurn, After, PollTimesOut, Tick, Older, Read,
         PongReceived, ReadFails, WaitToReconnect, Closed, LeaveLoop, Finish, TaskGone
<1>2. CASE Caller
  BY <1>2, ZenonT(60)
     DEF Caller, Started, CallerVarsKept, pongVars, ClientKept, serverVars, LockToClose,
         sharedVars, WriteClose, WriteFails, Abort, Abortable, ws_handler, AwaitStopped,
         CloseInTime, CloseTimesOut, RequestStop, StopWaited, Destroyed
<1>3. CASE Start
  BY <1>3 DEF Start, CallerVarsKept, pongVars, sharedVars
<1>4. CASE Close
  BY <1>4 DEF Close, CallerVarsKept, pongVars, ClientKept, serverVars, sharedVars
<1>5. CASE Destroy
  BY <1>5
     DEF Destroy, RequestStop, CallerVarsKept, pongVars, ClientKept, serverVars,
         sharedVars
<1>6. CASE InitClient
  BY <1>6 DEF InitClient, placeVars, serverVars
<1>7. CASE BeginSend
  BY <1>7 DEF BeginSend, SenderVarsKept, sharedVars, pongVars, serverVars
<1>8. CASE TimePasses
  BY <1>8 DEF TimePasses, Tick, Older, sharedVars, placeVars
<1>9. CASE Sender
  BY <1>9
     DEF Sender, LockToSend, SenderVarsKept, sharedVars, pongVars, serverVars,
         WriteFrame, WriteFails, Abort, Abortable, ws_handler
<1>10. CASE Server
  BY <1>10
     DEF Server, ServerSends, ServerVarsKept, sharedVars, pongVars, placeVars,
         serverVars, ServerAnswers, ServerCloses, ServerFallsSilent, ConnectionBreaks
<1>11. CASE UNCHANGED vars
  BY <1>11 DEF vars
<1> QED BY <1>1, <1>2, <1>3, <1>4, <1>5, <1>6, <1>7, <1>8, <1>9, <1>10, <1>11 DEF Next

LEMMA RestNext == RestTyped /\ [Next]_vars => RestTyped'
<1> SUFFICES ASSUME RestTyped, [Next]_vars PROVE RestTyped'
  OBVIOUS
<1> USE InboxSeqs DEF RestTyped, Tasks, Places
<1>1. ASSUME NEW t \in Tasks, Task(t) PROVE RestTyped'
  <2>1. CASE Begin(t)
    BY <2>1 DEF Begin, Goes, TaskVarsKept, placeVars, ageVars, pongVars
  <2>2. CASE BeginConnecting(t)
    BY <2>2
       DEF BeginConnecting, Turn, Goes, TaskVarsKept, placeVars, sharedVars, ageVars,
           pongVars
  <2>3. CASE Connects(t)
    BY <2>3 DEF Connects, Goes, ws_handler, sharedVars, placeVars
  <2>4. CASE ConnectFails(t)
    BY <2>4, AbortRest
       DEF ConnectFails, Goes, ws_handler, TaskVarsKept, placeVars, sharedVars, pongVars
  <2>5. CASE ConnectedTurn(t)
    BY <2>5, AbortRest
       DEF ConnectedTurn, Turn, Goes, PingDue, PongOverdue, ws_handler, TaskVarsKept,
           placeVars, sharedVars, ageVars, pongVars
  <2>6. CASE PingWritten(t)
    BY <2>6, AbortRest
       DEF PingWritten, Goes, SendPing, PongOverdue, AsksServer, ws_handler,
           TaskVarsKept, placeVars, sharedVars
  <2>7. CASE WaitingTurn(t)
    BY <2>7 DEF WaitingTurn, Turn, Goes, TaskVarsKept, placeVars, sharedVars, pongVars
  <2>8. CASE ClosingTurn(t)
    BY <2>8 DEF ClosingTurn, Turn, Goes, TaskVarsKept, placeVars, ageVars, pongVars
  <2>9. CASE LostTurn(t)
    BY <2>9
       DEF LostTurn, Turn, Goes, TaskVarsKept, placeVars, sharedVars, ageVars, pongVars
  <2>10. CASE After(t)
    BY <2>10 DEF After, Goes, TaskVarsKept, placeVars, sharedVars, ageVars, pongVars
  <2>11. CASE PollTimesOut(t)
    BY <2>11 DEF PollTimesOut, Goes, Tick, Older, TaskVarsKept, placeVars, sharedVars
  <2>12. CASE Read(t)
    BY <2>12 DEF Read, Goes, PongReceived, TaskVarsKept, placeVars, sharedVars, pongVars
  <2>13. CASE ReadFails(t)
    BY <2>13, AbortRest
       DEF ReadFails, Goes, ws_handler, TaskVarsKept, placeVars, sharedVars, pongVars
  <2>14. CASE WaitToReconnect(t)
    BY <2>14
       DEF WaitToReconnect, Goes, Tick, Older, TaskVarsKept, placeVars, sharedVars,
           ageVars
  <2>15. CASE Closed(t)
    BY <2>15 DEF Closed, Goes, ws_handler, TaskVarsKept, placeVars, ageVars, pongVars
  <2>16. CASE LeaveLoop(t)
    BY <2>16 DEF LeaveLoop, Goes, TaskVarsKept, placeVars, sharedVars, ageVars, pongVars
  <2>17. CASE Finish(t)
    BY <2>17 DEF Finish, Goes, ws_handler, pongVars
  <2>18. CASE TaskGone(t)
    BY <2>18 DEF TaskGone, Goes, TaskVarsKept, placeVars, sharedVars, ageVars, pongVars
  <2> QED BY <1>1, <2>1, <2>2, <2>3, <2>4, <2>5, <2>6, <2>7, <2>8, <2>9, <2>10, <2>11,
           <2>12, <2>13, <2>14, <2>15, <2>16, <2>17, <2>18 DEF Task
<1>2. CASE Caller
  <2>1. CASE Started
    BY <2>1 DEF Started, CallerVarsKept, pongVars, ClientKept, serverVars
  <2>2. CASE LockToClose
    BY <2>2 DEF LockToClose, CallerVarsKept, pongVars, sharedVars, serverVars
  <2>3. CASE WriteClose
    BY <2>3, AbortRest DEF WriteClose, WriteFails, ws_handler, sharedVars, pongVars
  <2>4. CASE AwaitStopped
    BY <2>4 DEF AwaitStopped, CallerVarsKept, pongVars, ClientKept, serverVars
  <2>5. CASE CloseInTime
    BY <2>5
       DEF CloseInTime, CallerVarsKept, pongVars, ClientKept, serverVars, sharedVars
  <2>6. CASE CloseTimesOut
    BY <2>6
       DEF CloseTimesOut, RequestStop, CallerVarsKept, pongVars, ClientKept, serverVars
  <2>7. CASE StopWaited
    BY <2>7 DEF StopWaited, CallerVarsKept, pongVars, serverVars, sharedVars
  <2>8. CASE Destroyed
    BY <2>8 DEF Destroyed, CallerVarsKept, pongVars, serverVars, sharedVars
  <2> QED BY <1>2, <2>1, <2>2, <2>3, <2>4, <2>5, <2>6, <2>7, <2>8 DEF Caller
<1>3. CASE Start
  BY <1>3 DEF Start, CallerVarsKept, pongVars, sharedVars
<1>4. CASE Close
  BY <1>4 DEF Close, CallerVarsKept, pongVars, ClientKept, serverVars, sharedVars
<1>5. CASE Destroy
  BY <1>5
     DEF Destroy, RequestStop, CallerVarsKept, pongVars, ClientKept, serverVars,
         sharedVars
<1>6. CASE InitClient
  BY <1>6 DEF InitClient, placeVars, serverVars
<1>7. CASE BeginSend
  BY <1>7 DEF BeginSend, SenderVarsKept, sharedVars, pongVars, serverVars
<1>8. CASE TimePasses
  BY <1>8 DEF TimePasses, Tick, Older, sharedVars, placeVars
<1>9. CASE Sender
  <2>1. CASE LockToSend
    BY <2>1 DEF LockToSend, SenderVarsKept, sharedVars, pongVars, serverVars
  <2>2. CASE WriteFrame
    BY <2>2, AbortRest
       DEF WriteFrame, WriteFails, SenderVarsKept, ws_handler, sharedVars, pongVars
  <2> QED BY <1>9, <2>1, <2>2 DEF Sender
<1>10. CASE Server
  BY <1>10
     DEF Server, ServerSends, ServerVarsKept, sharedVars, pongVars, placeVars,
         serverVars, ServerAnswers, ServerCloses, ServerFallsSilent, ConnectionBreaks
<1>11. CASE UNCHANGED vars
  BY <1>11 DEF vars
<1> QED BY <1>1, <1>2, <1>3, <1>4, <1>5, <1>6, <1>7, <1>8, <1>9, <1>10, <1>11 DEF Next

\* A server that falls silent is forgiven what it owes.
LEMMA OwesNext == RestTyped /\ Owes /\ [Next]_vars => Owes'
<1> SUFFICES ASSUME RestTyped, Owes, [Next]_vars PROVE Owes'
  OBVIOUS
<1> USE DEF RestTyped, Owes
<1>1. ASSUME NEW t \in Tasks, Task(t) PROVE Owes'
  BY <1>1
     DEF Task, Begin, Goes, TaskVarsKept, placeVars, ageVars, pongVars, BeginConnecting,
         Turn, sharedVars, Connects, ws_handler, ConnectFails, Abort, Abortable,
         ConnectedTurn, PingDue, PongOverdue, PingWritten, SendPing, AsksServer,
         WaitingTurn, ClosingTurn, LostTurn, After, PollTimesOut, Tick, Older, Read,
         PongReceived, ReadFails, WaitToReconnect, Closed, LeaveLoop, Finish, TaskGone
<1>2. CASE Caller
  BY <1>2
     DEF Caller, Started, CallerVarsKept, pongVars, ClientKept, serverVars, LockToClose,
         sharedVars, WriteClose, WriteFails, Abort, Abortable, ws_handler, AwaitStopped,
         CloseInTime, CloseTimesOut, RequestStop, StopWaited, Destroyed
<1>3. CASE Start
  BY <1>3 DEF Start, CallerVarsKept, pongVars, sharedVars
<1>4. CASE Close
  BY <1>4 DEF Close, CallerVarsKept, pongVars, ClientKept, serverVars, sharedVars
<1>5. CASE Destroy
  BY <1>5
     DEF Destroy, RequestStop, CallerVarsKept, pongVars, ClientKept, serverVars,
         sharedVars
<1>6. CASE InitClient
  BY <1>6 DEF InitClient, placeVars, serverVars
<1>7. CASE BeginSend
  BY <1>7 DEF BeginSend, SenderVarsKept, sharedVars, pongVars, serverVars
<1>8. CASE TimePasses
  BY <1>8 DEF TimePasses, Tick, Older, sharedVars, placeVars
<1>9. CASE Sender
  BY <1>9
     DEF Sender, LockToSend, SenderVarsKept, sharedVars, pongVars, serverVars,
         WriteFrame, WriteFails, Abort, Abortable, ws_handler
<1>10. CASE Server
  BY <1>10
     DEF Server, ServerSends, ServerVarsKept, sharedVars, pongVars, placeVars,
         serverVars, ServerAnswers, ServerCloses, ServerFallsSilent, ConnectionBreaks
<1>11. CASE UNCHANGED vars
  BY <1>11 DEF vars
<1> QED BY <1>1, <1>2, <1>3, <1>4, <1>5, <1>6, <1>7, <1>8, <1>9, <1>10, <1>11 DEF Next

LEMMA TimesNext == TimesTyped /\ RestTyped /\ Owes /\ [Next]_vars => TimesTyped'
<1> SUFFICES ASSUME TimesTyped, RestTyped, Owes, [Next]_vars PROVE TimesTyped'
  OBVIOUS
<1> USE ConstantTypes DEF TimesTyped, RestTyped, Owes
<1>1. ASSUME NEW t \in Tasks, Task(t) PROVE TimesTyped'
  <2>1. CASE Begin(t)
    BY <2>1 DEF Begin, Goes, TaskVarsKept, placeVars, ageVars, pongVars
  <2>2. CASE BeginConnecting(t)
    BY <2>2
       DEF BeginConnecting, Turn, Goes, TaskVarsKept, placeVars, sharedVars, ageVars,
           pongVars
  <2>3. CASE Connects(t)
    BY <2>3, SMTT(20) DEF Connects, Goes, ws_handler, sharedVars, placeVars
  <2>4. CASE ConnectFails(t)
    BY <2>4, AbortTimes
       DEF ConnectFails, Goes, ws_handler, TaskVarsKept, placeVars, sharedVars, pongVars
  <2>5. CASE ConnectedTurn(t)
    BY <2>5, AbortTimes, SMTT(20)
       DEF ConnectedTurn, Turn, Goes, PingDue, PongOverdue, ws_handler, TaskVarsKept,
           placeVars, sharedVars, ageVars, pongVars
  <2>6. CASE PingWritten(t)
    BY <2>6, AbortTimes, SMTT(20)
       DEF PingWritten, Goes, SendPing, PongOverdue, AsksServer, ws_handler,
           TaskVarsKept, placeVars, sharedVars
  <2>7. CASE WaitingTurn(t)
    BY <2>7 DEF WaitingTurn, Turn, Goes, TaskVarsKept, placeVars, sharedVars, pongVars
  <2>8. CASE ClosingTurn(t)
    BY <2>8 DEF ClosingTurn, Turn, Goes, TaskVarsKept, placeVars, ageVars, pongVars
  <2>9. CASE LostTurn(t)
    BY <2>9
       DEF LostTurn, Turn, Goes, TaskVarsKept, placeVars, sharedVars, ageVars, pongVars
  <2>10. CASE After(t)
    BY <2>10 DEF After, Goes, TaskVarsKept, placeVars, sharedVars, ageVars, pongVars
  <2>11. CASE PollTimesOut(t)
    BY <2>11, TickTimes DEF PollTimesOut, Goes, TaskVarsKept, placeVars, sharedVars
  <2>12. CASE Read(t)
    BY <2>12 DEF Read, Goes, PongReceived, TaskVarsKept, placeVars, sharedVars, pongVars
  <2>13. CASE ReadFails(t)
    BY <2>13, AbortTimes
       DEF ReadFails, Goes, ws_handler, TaskVarsKept, placeVars, sharedVars, pongVars
  <2>14. CASE WaitToReconnect(t)
    BY <2>14, TickTimes
       DEF WaitToReconnect, Goes, TaskVarsKept, placeVars, sharedVars, ageVars
  <2>15. CASE Closed(t)
    BY <2>15 DEF Closed, Goes, ws_handler, TaskVarsKept, placeVars, ageVars, pongVars
  <2>16. CASE LeaveLoop(t)
    BY <2>16 DEF LeaveLoop, Goes, TaskVarsKept, placeVars, sharedVars, ageVars, pongVars
  <2>17. CASE Finish(t)
    BY <2>17 DEF Finish, Goes, ws_handler, pongVars
  <2>18. CASE TaskGone(t)
    BY <2>18 DEF TaskGone, Goes, TaskVarsKept, placeVars, sharedVars, ageVars, pongVars
  <2> QED BY <1>1, <2>1, <2>2, <2>3, <2>4, <2>5, <2>6, <2>7, <2>8, <2>9, <2>10, <2>11,
           <2>12, <2>13, <2>14, <2>15, <2>16, <2>17, <2>18 DEF Task
<1>2. CASE Caller
  <2>1. CASE Started
    BY <2>1 DEF Started, CallerVarsKept, pongVars, ClientKept, serverVars
  <2>2. CASE LockToClose
    BY <2>2 DEF LockToClose, CallerVarsKept, pongVars, sharedVars, serverVars
  <2>3. CASE WriteClose
    BY <2>3, AbortTimes DEF WriteClose, WriteFails, ws_handler, sharedVars, pongVars
  <2>4. CASE AwaitStopped
    BY <2>4 DEF AwaitStopped, CallerVarsKept, pongVars, ClientKept, serverVars
  <2>5. CASE CloseInTime
    BY <2>5
       DEF CloseInTime, CallerVarsKept, pongVars, ClientKept, serverVars, sharedVars
  <2>6. CASE CloseTimesOut
    BY <2>6
       DEF CloseTimesOut, RequestStop, CallerVarsKept, pongVars, ClientKept, serverVars
  <2>7. CASE StopWaited
    BY <2>7 DEF StopWaited, CallerVarsKept, pongVars, serverVars, sharedVars
  <2>8. CASE Destroyed
    BY <2>8 DEF Destroyed, CallerVarsKept, pongVars, serverVars, sharedVars
  <2> QED BY <1>2, <2>1, <2>2, <2>3, <2>4, <2>5, <2>6, <2>7, <2>8 DEF Caller
<1>3. CASE Start
  BY <1>3 DEF Start, CallerVarsKept, pongVars, sharedVars
<1>4. CASE Close
  BY <1>4 DEF Close, CallerVarsKept, pongVars, ClientKept, serverVars, sharedVars
<1>5. CASE Destroy
  BY <1>5
     DEF Destroy, RequestStop, CallerVarsKept, pongVars, ClientKept, serverVars,
         sharedVars
<1>6. CASE InitClient
  BY <1>6 DEF InitClient, placeVars, serverVars
<1>7. CASE BeginSend
  BY <1>7 DEF BeginSend, SenderVarsKept, sharedVars, pongVars, serverVars
<1>8. CASE TimePasses
  BY <1>8, TickTimes DEF TimePasses, sharedVars, placeVars
<1>9. CASE Sender
  <2>1. CASE LockToSend
    BY <2>1 DEF LockToSend, SenderVarsKept, sharedVars, pongVars, serverVars
  <2>2. CASE WriteFrame
    BY <2>2, AbortTimes
       DEF WriteFrame, WriteFails, SenderVarsKept, ws_handler, sharedVars, pongVars
  <2> QED BY <1>9, <2>1, <2>2 DEF Sender
<1>10. CASE Server
  <2>1. CASE ServerSends
    BY <2>1 DEF ServerSends, ServerVarsKept, sharedVars, pongVars, placeVars, serverVars
  <2>2. CASE ServerAnswers
    BY <2>2
       DEF ServerAnswers, ServerVarsKept, sharedVars, pongVars, placeVars, serverVars
  <2>3. CASE ServerCloses
    BY <2>3
       DEF ServerCloses, ServerVarsKept, sharedVars, pongVars, placeVars, serverVars
  <2>4. CASE ServerFallsSilent
    BY <2>4
       DEF ServerFallsSilent, ServerVarsKept, sharedVars, pongVars, placeVars,
           serverVars
  <2>5. CASE ConnectionBreaks
    BY <2>5
       DEF ConnectionBreaks, ServerVarsKept, sharedVars, pongVars, placeVars, serverVars
  <2> QED BY <1>10, <2>1, <2>2, <2>3, <2>4, <2>5 DEF Server
<1>11. CASE UNCHANGED vars
  BY <1>11 DEF vars
<1> QED BY <1>1, <1>2, <1>3, <1>4, <1>5, <1>6, <1>7, <1>8, <1>9, <1>10, <1>11 DEF Next

-----------------------------------------------------------------------------
(* What is left of a client when its tasks have ended.                      *)

\* No step leaves a client without tasks in another state than the one it may be started
\* from.
LEMMA EndedNext == RestTyped /\ StartableAgain /\ [Next]_vars => StartableAgain'
<1> SUFFICES ASSUME RestTyped, StartableAgain, [Next]_vars PROVE StartableAgain'
  OBVIOUS
<1> USE DEF RestTyped, StartableAgain, Tasks
<1>1. ASSUME NEW t \in Tasks, Task(t) PROVE StartableAgain'
  <2>1. CASE Begin(t)
    BY <2>1 DEF Begin, Goes, TaskVarsKept, placeVars, ageVars, pongVars
  <2>2. CASE BeginConnecting(t)
    BY <2>2
       DEF BeginConnecting, Turn, Goes, TaskVarsKept, placeVars, sharedVars, ageVars,
           pongVars
  <2>3. CASE Connects(t)
    BY <2>3 DEF Connects, Goes, ws_handler, sharedVars, placeVars
  <2>4. CASE ConnectFails(t)
    BY <2>4
       DEF ConnectFails, Goes, Abort, Abortable, ws_handler, TaskVarsKept, placeVars,
           sharedVars, pongVars
  <2>5. CASE ConnectedTurn(t)
    BY <2>5
       DEF ConnectedTurn, Turn, Goes, PingDue, PongOverdue, Abort, Abortable,
           ws_handler, TaskVarsKept, placeVars, sharedVars, ageVars, pongVars
  <2>6. CASE PingWritten(t)
    BY <2>6
       DEF PingWritten, Goes, SendPing, PongOverdue, AsksServer, Abort, Abortable,
           ws_handler, TaskVarsKept, placeVars, sharedVars
  <2>7. CASE WaitingTurn(t)
    BY <2>7 DEF WaitingTurn, Turn, Goes, TaskVarsKept, placeVars, sharedVars, pongVars
  <2>8. CASE ClosingTurn(t)
    BY <2>8 DEF ClosingTurn, Turn, Goes, TaskVarsKept, placeVars, ageVars, pongVars
  <2>9. CASE LostTurn(t)
    BY <2>9
       DEF LostTurn, Turn, Goes, TaskVarsKept, placeVars, sharedVars, ageVars, pongVars
  <2>10. CASE After(t)
    BY <2>10 DEF After, Goes, TaskVarsKept, placeVars, sharedVars, ageVars, pongVars
  <2>11. CASE PollTimesOut(t)
    BY <2>11 DEF PollTimesOut, Goes, Tick, Older, TaskVarsKept, placeVars, sharedVars
  <2>12. CASE Read(t)
    BY <2>12 DEF Read, Goes, PongReceived, TaskVarsKept, placeVars, sharedVars, pongVars
  <2>13. CASE ReadFails(t)
    BY <2>13
       DEF ReadFails, Goes, Abort, Abortable, ws_handler, TaskVarsKept, placeVars,
           sharedVars, pongVars
  <2>14. CASE WaitToReconnect(t)
    BY <2>14
       DEF WaitToReconnect, Goes, Tick, Older, TaskVarsKept, placeVars, sharedVars,
           ageVars
  <2>15. CASE Closed(t)
    BY <2>15 DEF Closed, Goes, ws_handler, TaskVarsKept, placeVars, ageVars, pongVars
  <2>16. CASE LeaveLoop(t)
    BY <2>16 DEF LeaveLoop, Goes, TaskVarsKept, placeVars, sharedVars, ageVars, pongVars
  <2>17. CASE Finish(t)
    BY <2>17 DEF Finish, Goes, ws_handler, pongVars
  <2>18. CASE TaskGone(t)
    BY <2>18 DEF TaskGone, Goes, TaskVarsKept, placeVars, sharedVars, ageVars, pongVars
  <2> QED BY <1>1, <2>1, <2>2, <2>3, <2>4, <2>5, <2>6, <2>7, <2>8, <2>9, <2>10, <2>11,
           <2>12, <2>13, <2>14, <2>15, <2>16, <2>17, <2>18 DEF Task
<1>2. CASE Caller
  BY <1>2
     DEF Caller, Started, CallerVarsKept, pongVars, ClientKept, serverVars, LockToClose,
         sharedVars, WriteClose, WriteFails, Abort, Abortable, ws_handler, AwaitStopped,
         CloseInTime, CloseTimesOut, RequestStop, StopWaited, Destroyed
<1>3. CASE Start
  BY <1>3 DEF Start, CallerVarsKept, pongVars, sharedVars
<1>4. CASE Close
  BY <1>4 DEF Close, CallerVarsKept, pongVars, ClientKept, serverVars, sharedVars
<1>5. CASE Destroy
  BY <1>5
     DEF Destroy, RequestStop, CallerVarsKept, pongVars, ClientKept, serverVars,
         sharedVars
<1>6. CASE InitClient
  BY <1>6 DEF InitClient, placeVars, serverVars
<1>7. CASE BeginSend
  BY <1>7 DEF BeginSend, SenderVarsKept, sharedVars, pongVars, serverVars
<1>8. CASE TimePasses
  BY <1>8 DEF TimePasses, Tick, Older, sharedVars, placeVars
<1>9. CASE Sender
  BY <1>9
     DEF Sender, LockToSend, SenderVarsKept, sharedVars, pongVars, serverVars,
         WriteFrame, WriteFails, Abort, Abortable, ws_handler
<1>10. CASE Server
  BY <1>10
     DEF Server, ServerSends, ServerVarsKept, sharedVars, pongVars, placeVars,
         serverVars, ServerAnswers, ServerCloses, ServerFallsSilent, ConnectionBreaks
<1>11. CASE UNCHANGED vars
  BY <1>11 DEF vars
<1> QED BY <1>1, <1>2, <1>3, <1>4, <1>5, <1>6, <1>7, <1>8, <1>9, <1>10, <1>11 DEF Next

\* After a start that found no task, and until the next start: the old task's place is
\* empty; run says whether the task goes on, and only a close that was not answered in
\* time ends it while the layer is STARTED; a stopped task is gone; and the library's
\* state is taken away from a task that has left its loop only.
Told ==
  ~overlapped =>
    LET place == task["new"]
    IN  /\ task["old"] = "none"
        /\ ws = "STARTED" => place # "begin"
        /\ ~run /\ (ws = "STARTED" \/ place \notin OutsideLoop) => "REQUESTED_STOP" \in bits
        /\ ws = "STARTED" /\ place \in {"none", "finish", "leaving"} => ~run
        /\ caller = "starting" /\ (ws = "STARTED" \/ place \notin OutsideLoop) => run
        /\ "STOPPED" \in bits => place \in {"none", "begin", "leaving"}
        /\ "STOPPED" \in bits /\ place = "begin" => caller = "starting"
        /\ ws = "UNINIT" => place \in {"none", "leaving"}
        /\ state = "UNKNOW" => place \in OutsideLoop

LEMMA ToldNext == FieldsTyped /\ RestTyped /\ Told /\ [Next]_vars => Told'
<1> SUFFICES ASSUME FieldsTyped, RestTyped, Told, [Next]_vars PROVE Told'
  OBVIOUS
<1> USE DEF FieldsTyped, RestTyped, Told, Tasks, OutsideLoop
<1>1. ASSUME NEW t \in Tasks, Task(t) PROVE Told'
  <2>1. CASE Begin(t)
    BY <2>1 DEF Begin, Goes, TaskVarsKept, placeVars, ageVars, pongVars
  <2>2. CASE BeginConnecting(t)
    BY <2>2
       DEF BeginConnecting, Turn, Goes, TaskVarsKept, placeVars, sharedVars, ageVars,
           pongVars
  <2>3. CASE Connects(t)
    BY <2>3 DEF Connects, Goes, ws_handler, sharedVars, placeVars
  <2>4. CASE ConnectFails(t)
    BY <2>4
       DEF ConnectFails, Goes, Abort, Abortable, ws_handler, TaskVarsKept, placeVars,
           sharedVars, pongVars
  <2>5. CASE ConnectedTurn(t)
    BY <2>5
       DEF ConnectedTurn, Turn, Goes, PingDue, PongOverdue, Abort, Abortable,
           ws_handler, TaskVarsKept, placeVars, sharedVars, ageVars, pongVars
  <2>6. CASE PingWritten(t)
    BY <2>6
       DEF PingWritten, Goes, SendPing, PongOverdue, AsksServer, Abort, Abortable,
           ws_handler, TaskVarsKept, placeVars, sharedVars
  <2>7. CASE WaitingTurn(t)
    BY <2>7 DEF WaitingTurn, Turn, Goes, TaskVarsKept, placeVars, sharedVars, pongVars
  <2>8. CASE ClosingTurn(t)
    BY <2>8 DEF ClosingTurn, Turn, Goes, TaskVarsKept, placeVars, ageVars, pongVars
  <2>9. CASE LostTurn(t)
    BY <2>9
       DEF LostTurn, Turn, Goes, TaskVarsKept, placeVars, sharedVars, ageVars, pongVars
  <2>10. CASE After(t)
    BY <2>10 DEF After, Goes, TaskVarsKept, placeVars, sharedVars, ageVars, pongVars
  <2>11. CASE PollTimesOut(t)
    BY <2>11 DEF PollTimesOut, Goes, Tick, Older, TaskVarsKept, placeVars, sharedVars
  <2>12. CASE Read(t)
    BY <2>12 DEF Read, Goes, PongReceived, TaskVarsKept, placeVars, sharedVars, pongVars
  <2>13. CASE ReadFails(t)
    BY <2>13
       DEF ReadFails, Goes, Abort, Abortable, ws_handler, TaskVarsKept, placeVars,
           sharedVars, pongVars
  <2>14. CASE WaitToReconnect(t)
    BY <2>14
       DEF WaitToReconnect, Goes, Tick, Older, TaskVarsKept, placeVars, sharedVars,
           ageVars
  <2>15. CASE Closed(t)
    BY <2>15 DEF Closed, Goes, ws_handler, TaskVarsKept, placeVars, ageVars, pongVars
  <2>16. CASE LeaveLoop(t)
    BY <2>16 DEF LeaveLoop, Goes, TaskVarsKept, placeVars, sharedVars, ageVars, pongVars
  <2>17. CASE Finish(t)
    BY <2>17 DEF Finish, Goes, ws_handler, pongVars
  <2>18. CASE TaskGone(t)
    BY <2>18 DEF TaskGone, Goes, TaskVarsKept, placeVars, sharedVars, ageVars, pongVars
  <2> QED BY <1>1, <2>1, <2>2, <2>3, <2>4, <2>5, <2>6, <2>7, <2>8, <2>9, <2>10, <2>11,
           <2>12, <2>13, <2>14, <2>15, <2>16, <2>17, <2>18 DEF Task
<1>2. CASE Caller
  <2>1. CASE Started
    BY <2>1 DEF Started, CallerVarsKept, pongVars, ClientKept, serverVars
  <2>2. CASE LockToClose
    BY <2>2 DEF LockToClose, CallerVarsKept, pongVars, sharedVars, serverVars
  <2>3. CASE WriteClose
    BY <2>3
       DEF WriteClose, WriteFails, Abort, Abortable, ws_handler, sharedVars, pongVars
  <2>4. CASE AwaitStopped
    BY <2>4 DEF AwaitStopped, CallerVarsKept, pongVars, ClientKept, serverVars
  <2>5. CASE CloseInTime
    BY <2>5
       DEF CloseInTime, CallerVarsKept, pongVars, ClientKept, serverVars, sharedVars
  <2>6. CASE CloseTimesOut
    BY <2>6
       DEF CloseTimesOut, RequestStop, CallerVarsKept, pongVars, ClientKept, serverVars
  <2>7. CASE StopWaited
    BY <2>7 DEF StopWaited, CallerVarsKept, pongVars, serverVars, sharedVars
  <2>8. CASE Destroyed
    BY <2>8 DEF Destroyed, CallerVarsKept, pongVars, serverVars, sharedVars
  <2> QED BY <1>2, <2>1, <2>2, <2>3, <2>4, <2>5, <2>6, <2>7, <2>8 DEF Caller
<1>3. CASE Start
  BY <1>3 DEF Start, CallerVarsKept, pongVars, sharedVars
<1>4. CASE Close
  BY <1>4 DEF Close, CallerVarsKept, pongVars, ClientKept, serverVars, sharedVars
<1>5. CASE Destroy
  BY <1>5
     DEF Destroy, RequestStop, CallerVarsKept, pongVars, ClientKept, serverVars,
         sharedVars
<1>6. CASE InitClient
  BY <1>6 DEF InitClient, placeVars, serverVars
<1>7. CASE BeginSend
  BY <1>7 DEF BeginSend, SenderVarsKept, sharedVars, pongVars, serverVars
<1>8. CASE TimePasses
  BY <1>8 DEF TimePasses, Tick, Older, sharedVars, placeVars
<1>9. CASE Sender
  BY <1>9
     DEF Sender, LockToSend, SenderVarsKept, sharedVars, pongVars, serverVars,
         WriteFrame, WriteFails, Abort, Abortable, ws_handler
<1>10. CASE Server
  BY <1>10
     DEF Server, ServerSends, ServerVarsKept, sharedVars, pongVars, placeVars,
         serverVars, ServerAnswers, ServerCloses, ServerFallsSilent, ConnectionBreaks
<1>11. CASE UNCHANGED vars
  BY <1>11 DEF vars
<1> QED BY <1>1, <1>2, <1>3, <1>4, <1>5, <1>6, <1>7, <1>8, <1>9, <1>10, <1>11 DEF Next

-----------------------------------------------------------------------------
(* A connection to a server that answers.                                   *)

\* No pong waits to be read.
NoPong == \A p \in 1 .. Len(inbox) : inbox[p] # "pong"

\* The pong that is waited for is owed since before the ping, but for what was lost, or
\* waits to be read; then it is no older than the server's answer and what was lost.
PongInTime ==
  wait_for_pong_resp /\ server = "answers" =>
    /\ pong_age <= AnswerWithin + late
    /\ transport = "open" /\ NoPong => owed > 0 /\ pong_age + 1 <= owed + late

\* A connection that is given up is closed, and nothing comes from it any more.
GivenUp ==
  error_type = "PONG_TIMEOUT"
    => wait_for_pong_resp /\ transport = "closed" /\ inbox = <<>>

\* What a frame read or received does to the pongs that wait.
LEMMA PongsRead ==
  ASSUME RestTyped, inbox # <<>>, inbox' = Tail(inbox), Head(inbox) # "pong", NoPong'
  PROVE  NoPong
<1>1. /\ Len(inbox) \in Nat /\ Len(inbox') = Len(inbox) - 1
      /\ inbox[1] # "pong"
      /\ \A p \in 1 .. Len(inbox') : inbox'[p] = inbox[p + 1]
  BY DEF RestTyped
<1> SUFFICES ASSUME NEW p \in 1 .. Len(inbox) PROVE inbox[p] # "pong"
  BY DEF NoPong
<1>2. CASE p = 1
  BY <1>1, <1>2
<1>3. CASE p # 1
  <2>1. p - 1 \in 1 .. Len(inbox') /\ (p - 1) + 1 = p
    BY <1>1, <1>3
  <2> QED BY <1>1, <2>1 DEF NoPong
<1> QED BY <1>2, <1>3

LEMMA PongsReceived ==
  ASSUME RestTyped, NEW x, inbox' = Append(inbox, x)
  PROVE  (NoPong' => NoPong) /\ (x = "pong" => ~NoPong')
<1>1. /\ Len(inbox) \in Nat /\ Len(inbox') = Len(inbox) + 1
      /\ inbox'[Len(inbox) + 1] = x
      /\ \A p \in 1 .. Len(inbox) : inbox'[p] = inbox[p]
  BY DEF RestTyped
<1> QED BY <1>1 DEF NoPong

\* A tick in a poll finds the pong owed; any other is lost.
LEMMA PolledTick ==
  ASSUME TimesTyped, RestTyped, PongInTime, Tick(TRUE), transport = "open", inbox = <<>>,
         UNCHANGED <<wait_for_pong_resp, server, transport, inbox>>
  PROVE  PongInTime'
<1> SUFFICES ASSUME wait_for_pong_resp, server = "answers"
             PROVE  /\ pong_age' <= AnswerWithin + late'
                    /\ owed' > 0 /\ pong_age' + 1 <= owed' + late'
  BY DEF PongInTime
<1>1. NoPong /\ owed > 0 /\ pong_age + 1 <= owed + late
  BY DEF PongInTime, NoPong
<1>2. /\ pong_age' = Older(pong_age, PongWithin) /\ late' = late
      /\ owed <= AnswerWithin /\ owed' = owed + 1
  BY <1>1 DEF Tick, TimesTyped
<1>3. pong_age' <= pong_age + 1 /\ pong_age' \in Int
  BY <1>2, ConstantTypes, OlderAge DEF TimesTyped
<1> QED BY <1>1, <1>2, <1>3, ConstantTypes DEF TimesTyped

LEMMA LostTick ==
  ASSUME TimesTyped, RestTyped, PongInTime, Tick(FALSE),
         UNCHANGED <<wait_for_pong_resp, server, transport, inbox>>
  PROVE  PongInTime'
<1> SUFFICES ASSUME wait_for_pong_resp, server = "answers"
             PROVE  /\ pong_age' <= AnswerWithin + late'
                    /\ transport = "open" /\ NoPong
                         => owed' > 0 /\ pong_age' + 1 <= owed' + late'
  BY DEF PongInTime, NoPong
<1>1. /\ pong_age' = Older(pong_age, PongWithin) /\ late' = Older(late, PongWithin)
      /\ owed' = IF owed = 0 THEN 0 ELSE owed + 1
  BY DEF Tick
<1>2. pong_age' <= PongWithin + 1 /\ pong_age' <= pong_age + 1 /\ pong_age' \in Int
  BY <1>1, ConstantTypes, OlderAge DEF TimesTyped
<1>3. late' = PongWithin + 1 \/ late' = late + 1
  BY <1>1, ConstantTypes, OlderAge DEF TimesTyped
<1>4. pong_age' <= AnswerWithin + late'
  BY <1>2, <1>3, ConstantTypes DEF TimesTyped, PongInTime
<1>5. ASSUME transport = "open", NoPong
      PROVE  owed' > 0 /\ pong_age' + 1 <= owed' + late'
  BY <1>1, <1>2, <1>3, <1>5, ConstantTypes DEF TimesTyped, PongInTime
<1> QED BY <1>4, <1>5

LEMMA GivenUpNext == RestTyped /\ GivenUp /\ [Next]_vars => GivenUp'
<1> SUFFICES ASSUME RestTyped, GivenUp, [Next]_vars PROVE GivenUp'
  OBVIOUS
<1> USE DEF RestTyped, GivenUp
<1>1. ASSUME NEW t \in Tasks, Task(t) PROVE GivenUp'
  <2>1. CASE Begin(t)
    BY <2>1 DEF Begin, Goes, TaskVarsKept, placeVars, ageVars, pongVars
  <2>2. CASE BeginConnecting(t)
    BY <2>2
       DEF BeginConnecting, Turn, Goes, TaskVarsKept, placeVars, sharedVars, ageVars,
           pongVars
  <2>3. CASE Connects(t)
    BY <2>3 DEF Connects, Goes, ws_handler, sharedVars, placeVars
  <2>4. CASE ConnectFails(t)
    BY <2>4
       DEF ConnectFails, Goes, Abort, Abortable, ws_handler, TaskVarsKept, placeVars,
           sharedVars, pongVars
  <2>5. CASE ConnectedTurn(t)
    BY <2>5
       DEF ConnectedTurn, Turn, Goes, PingDue, PongOverdue, Abort, Abortable,
           ws_handler, TaskVarsKept, placeVars, sharedVars, ageVars, pongVars
  <2>6. CASE PingWritten(t)
    BY <2>6
       DEF PingWritten, Goes, SendPing, PongOverdue, AsksServer, Abort, Abortable,
           ws_handler, TaskVarsKept, placeVars, sharedVars
  <2>7. CASE WaitingTurn(t)
    BY <2>7 DEF WaitingTurn, Turn, Goes, TaskVarsKept, placeVars, sharedVars, pongVars
  <2>8. CASE ClosingTurn(t)
    BY <2>8 DEF ClosingTurn, Turn, Goes, TaskVarsKept, placeVars, ageVars, pongVars
  <2>9. CASE LostTurn(t)
    BY <2>9
       DEF LostTurn, Turn, Goes, TaskVarsKept, placeVars, sharedVars, ageVars, pongVars
  <2>10. CASE After(t)
    BY <2>10 DEF After, Goes, TaskVarsKept, placeVars, sharedVars, ageVars, pongVars
  <2>11. CASE PollTimesOut(t)
    BY <2>11 DEF PollTimesOut, Goes, Tick, Older, TaskVarsKept, placeVars, sharedVars
  <2>12. CASE Read(t)
    BY <2>12 DEF Read, Goes, PongReceived, TaskVarsKept, placeVars, sharedVars, pongVars
  <2>13. CASE ReadFails(t)
    BY <2>13
       DEF ReadFails, Goes, Abort, Abortable, ws_handler, TaskVarsKept, placeVars,
           sharedVars, pongVars
  <2>14. CASE WaitToReconnect(t)
    BY <2>14
       DEF WaitToReconnect, Goes, Tick, Older, TaskVarsKept, placeVars, sharedVars,
           ageVars
  <2>15. CASE Closed(t)
    BY <2>15 DEF Closed, Goes, ws_handler, TaskVarsKept, placeVars, ageVars, pongVars
  <2>16. CASE LeaveLoop(t)
    BY <2>16 DEF LeaveLoop, Goes, TaskVarsKept, placeVars, sharedVars, ageVars, pongVars
  <2>17. CASE Finish(t)
    BY <2>17 DEF Finish, Goes, ws_handler, pongVars
  <2>18. CASE TaskGone(t)
    BY <2>18 DEF TaskGone, Goes, TaskVarsKept, placeVars, sharedVars, ageVars, pongVars
  <2> QED BY <1>1, <2>1, <2>2, <2>3, <2>4, <2>5, <2>6, <2>7, <2>8, <2>9, <2>10, <2>11,
           <2>12, <2>13, <2>14, <2>15, <2>16, <2>17, <2>18 DEF Task
<1>2. CASE Caller
  BY <1>2
     DEF Caller, Started, CallerVarsKept, pongVars, ClientKept, serverVars, LockToClose,
         sharedVars, WriteClose, WriteFails, Abort, Abortable, ws_handler, AwaitStopped,
         CloseInTime, CloseTimesOut, RequestStop, StopWaited, Destroyed
<1>3. CASE Start
  BY <1>3 DEF Start, CallerVarsKept, pongVars, sharedVars
<1>4. CASE Close
  BY <1>4 DEF Close, CallerVarsKept, pongVars, ClientKept, serverVars, sharedVars
<1>5. CASE Destroy
  BY <1>5
     DEF Destroy, RequestStop, CallerVarsKept, pongVars, ClientKept, serverVars,
         sharedVars
<1>6. CASE InitClient
  BY <1>6 DEF InitClient, placeVars, serverVars
<1>7. CASE BeginSend
  BY <1>7 DEF BeginSend, SenderVarsKept, sharedVars, pongVars, serverVars
<1>8. CASE TimePasses
  BY <1>8 DEF TimePasses, Tick, Older, sharedVars, placeVars
<1>9. CASE Sender
  <2>1. CASE LockToSend
    BY <2>1 DEF LockToSend, SenderVarsKept, sharedVars, pongVars, serverVars
  <2>2. CASE WriteFrame
    BY <2>2
       DEF WriteFrame, WriteFails, SenderVarsKept, Abort, Abortable, ws_handler,
           sharedVars, pongVars
  <2> QED BY <1>9, <2>1, <2>2 DEF Sender
<1>10. CASE Server
  <2>1. CASE ServerSends
    BY <2>1 DEF ServerSends, ServerVarsKept, sharedVars, pongVars, placeVars, serverVars
  <2>2. CASE ServerAnswers
    BY <2>2
       DEF ServerAnswers, ServerVarsKept, sharedVars, pongVars, placeVars, serverVars
  <2>3. CASE ServerCloses
    BY <2>3
       DEF ServerCloses, ServerVarsKept, sharedVars, pongVars, placeVars, serverVars
  <2>4. CASE ServerFallsSilent
    BY <2>4
       DEF ServerFallsSilent, ServerVarsKept, sharedVars, pongVars, placeVars,
           serverVars
  <2>5. CASE ConnectionBreaks
    BY <2>5
       DEF ConnectionBreaks, ServerVarsKept, sharedVars, pongVars, placeVars, serverVars
  <2> QED BY <1>10, <2>1, <2>2, <2>3, <2>4, <2>5 DEF Server
<1>11. CASE UNCHANGED vars
  BY <1>11 DEF vars
<1> QED BY <1>1, <1>2, <1>3, <1>4, <1>5, <1>6, <1>7, <1>8, <1>9, <1>10, <1>11 DEF Next

LEMMA PongNext == RestTyped /\ TimesTyped /\ PongInTime /\ [Next]_vars => PongInTime'
<1> SUFFICES ASSUME RestTyped, TimesTyped, PongInTime, [Next]_vars PROVE PongInTime'
  OBVIOUS
<1> USE ConstantTypes DEF RestTyped, TimesTyped, PongInTime, NoPong
<1>1. ASSUME NEW t \in Tasks, Task(t) PROVE PongInTime'
  <2>1. CASE Begin(t)
    BY <2>1 DEF Begin, Goes, TaskVarsKept, placeVars, ageVars, pongVars
  <2>2. CASE BeginConnecting(t)
    BY <2>2
       DEF BeginConnecting, Turn, Goes, TaskVarsKept, placeVars, sharedVars, ageVars,
           pongVars
  <2>3. CASE Connects(t)
    BY <2>3 DEF Connects, Goes, ws_handler, sharedVars, placeVars
  <2>4. CASE ConnectFails(t)
    BY <2>4
       DEF ConnectFails, Goes, Abort, Abortable, ws_handler, TaskVarsKept, placeVars,
           sharedVars, pongVars
  <2>5. CASE ConnectedTurn(t)
    <3>1. CASE Abort("PONG_TIMEOUT")
      BY <2>5, <3>1
         DEF ConnectedTurn, Turn, TaskVarsKept, Abort, PongInTime, NoPong, pongVars
    <3>2. CASE UNCHANGED <<owed, transport, inbox>>
      BY <2>5, <3>2 DEF ConnectedTurn, Turn, TaskVarsKept, PongInTime, NoPong, pongVars
    <3> QED BY <2>5, <3>1, <3>2 DEF ConnectedTurn, ageVars
  <2>6. CASE PingWritten(t)
    <3>1. CASE Abort("PONG_TIMEOUT") /\ wait_for_pong_resp
      BY <2>6, <3>1 DEF PingWritten, SendPing, Abort, TaskVarsKept, PongInTime, NoPong
    <3>2. CASE AsksServer /\ UNCHANGED <<transport, inbox>>
      BY <2>6, <3>2 DEF PingWritten, SendPing, AsksServer, TaskVarsKept, PongInTime, NoPong
    <3> QED BY <2>6, <3>1, <3>2 DEF PingWritten, PongOverdue
  <2>7. CASE WaitingTurn(t)
    BY <2>7 DEF WaitingTurn, Turn, Goes, TaskVarsKept, placeVars, sharedVars, pongVars
  <2>8. CASE ClosingTurn(t)
    BY <2>8 DEF ClosingTurn, Turn, Goes, TaskVarsKept, placeVars, ageVars, pongVars
  <2>9. CASE LostTurn(t)
    BY <2>9
       DEF LostTurn, Turn, Goes, TaskVarsKept, placeVars, sharedVars, ageVars, pongVars
  <2>10. CASE After(t)
    BY <2>10 DEF After, Goes, TaskVarsKept, placeVars, sharedVars, ageVars, pongVars
  <2>11. CASE PollTimesOut(t)
    <3>1. Tick(TRUE) \/ Tick(FALSE)
      BY <2>11 DEF PollTimesOut
    <3> QED BY <2>11, <3>1, PolledTick, LostTick DEF PollTimesOut, TaskVarsKept
  <2>12. CASE Read(t)
    BY <2>12, PongsRead
       DEF Read, Goes, PongReceived, TaskVarsKept, placeVars, sharedVars, pongVars
  <2>13. CASE ReadFails(t)
    BY <2>13
       DEF ReadFails, Goes, Abort, Abortable, ws_handler, TaskVarsKept, placeVars,
           sharedVars, pongVars
  <2>14. CASE WaitToReconnect(t)
    <3>1. CASE Tick(FALSE)
      BY <2>14, <3>1, LostTick DEF WaitToReconnect, TaskVarsKept
    <3>2. CASE UNCHANGED ageVars
      BY <2>14, <3>2 DEF WaitToReconnect, TaskVarsKept, ageVars, PongInTime, NoPong
    <3> QED BY <2>14, <3>1, <3>2 DEF WaitToReconnect
  <2>15. CASE Closed(t)
    BY <2>15 DEF Closed, Goes, ws_handler, TaskVarsKept, placeVars, ageVars, pongVars
  <2>16. CASE LeaveLoop(t)
    BY <2>16 DEF LeaveLoop, Goes, TaskVarsKept, placeVars, sharedVars, ageVars, pongVars
  <2>17. CASE Finish(t)
    BY <2>17 DEF Finish, Goes, ws_handler, pongVars
  <2>18. CASE TaskGone(t)
    BY <2>18 DEF TaskGone, Goes, TaskVarsKept, placeVars, sharedVars, ageVars, pongVars
  <2> QED BY <1>1, <2>1, <2>2, <2>3, <2>4, <2>5, <2>6, <2>7, <2>8, <2>9, <2>10, <2>11,
           <2>12, <2>13, <2>14, <2>15, <2>16, <2>17, <2>18 DEF Task
<1>2. CASE Caller
  <2>1. CASE Started
    BY <2>1 DEF Started, CallerVarsKept, pongVars, ClientKept, serverVars
  <2>2. CASE LockToClose
    BY <2>2 DEF LockToClose, CallerVarsKept, pongVars, sharedVars, serverVars
  <2>3. CASE WriteClose
    BY <2>3
       DEF WriteClose, WriteFails, Abort, Abortable, ws_handler, sharedVars, pongVars
  <2>4. CASE AwaitStopped
    BY <2>4 DEF AwaitStopped, CallerVarsKept, pongVars, ClientKept, serverVars
  <2>5. CASE CloseInTime
    BY <2>5
       DEF CloseInTime, CallerVarsKept, pongVars, ClientKept, serverVars, sharedVars
  <2>6. CASE CloseTimesOut
    BY <2>6
       DEF CloseTimesOut, RequestStop, CallerVarsKept, pongVars, ClientKept, serverVars
  <2>7. CASE StopWaited
    BY <2>7 DEF StopWaited, CallerVarsKept, pongVars, serverVars, sharedVars
  <2>8. CASE Destroyed
    BY <2>8 DEF Destroyed, CallerVarsKept, pongVars, serverVars, sharedVars
  <2> QED BY <1>2, <2>1, <2>2, <2>3, <2>4, <2>5, <2>6, <2>7, <2>8 DEF Caller
<1>3. CASE Start
  BY <1>3 DEF Start, CallerVarsKept, pongVars, sharedVars
<1>4. CASE Close
  BY <1>4 DEF Close, CallerVarsKept, pongVars, ClientKept, serverVars, sharedVars
<1>5. CASE Destroy
  BY <1>5
     DEF Destroy, RequestStop, CallerVarsKept, pongVars, ClientKept, serverVars,
         sharedVars
<1>6. CASE InitClient
  BY <1>6 DEF InitClient, placeVars, serverVars
<1>7. CASE BeginSend
  BY <1>7 DEF BeginSend, SenderVarsKept, sharedVars, pongVars, serverVars
<1>8. CASE TimePasses
  BY <1>8, LostTick DEF TimePasses
<1>9. CASE Sender
  <2>1. CASE LockToSend
    BY <2>1 DEF LockToSend, SenderVarsKept, sharedVars, pongVars, serverVars
  <2>2. CASE WriteFrame
    BY <2>2
       DEF WriteFrame, WriteFails, SenderVarsKept, Abort, Abortable, ws_handler,
           sharedVars, pongVars
  <2> QED BY <1>9, <2>1, <2>2 DEF Sender
<1>10. CASE Server
  <2>1. CASE ServerSends
    BY <2>1, PongsReceived
       DEF ServerSends, ServerVarsKept, sharedVars, pongVars, placeVars, serverVars
  <2>2. CASE ServerAnswers
    BY <2>2, PongsReceived
       DEF ServerAnswers, ServerVarsKept, sharedVars, pongVars, placeVars, serverVars
  <2>3. CASE ServerCloses
    BY <2>3, PongsReceived
       DEF ServerCloses, ServerVarsKept, sharedVars, pongVars, placeVars, serverVars
  <2>4. CASE ServerFallsSilent
    BY <2>4
       DEF ServerFallsSilent, ServerVarsKept, sharedVars, pongVars, placeVars,
           serverVars
  <2>5. CASE ConnectionBreaks
    BY <2>5
       DEF ConnectionBreaks, ServerVarsKept, sharedVars, pongVars, placeVars, serverVars
  <2> QED BY <1>10, <2>1, <2>2, <2>3, <2>4, <2>5 DEF Server
<1>11. CASE UNCHANGED vars
  BY <1>11 DEF vars
<1> QED BY <1>1, <1>2, <1>3, <1>4, <1>5, <1>6, <1>7, <1>8, <1>9, <1>10, <1>11 DEF Next

\* While a pong is waited for, what was lost only grows.
LEMMA LateGrows ==
  ASSUME TimesTyped, NEW polled \in BOOLEAN, Tick(polled), wait_for_pong_resp
  PROVE  late' \in {late, late + 1}
BY ConstantTypes, OlderAge DEF TimesTyped, Tick

LEMMA KeptNext ==
  RestTyped /\ TimesTyped /\ PongInTime /\ GivenUp /\ LiveIsKept /\ [Next]_vars =>
    LiveIsKept'
<1> SUFFICES ASSUME RestTyped, TimesTyped, PongInTime, GivenUp, LiveIsKept, [Next]_vars
             PROVE  LiveIsKept'
  OBVIOUS
<1> USE ConstantTypes DEF RestTyped, TimesTyped, PongInTime, GivenUp, LiveIsKept
<1>1. ASSUME NEW t \in Tasks, Task(t) PROVE LiveIsKept'
  <2>1. CASE Begin(t)
    BY <2>1 DEF Begin, Goes, TaskVarsKept, placeVars, ageVars, pongVars
  <2>2. CASE BeginConnecting(t)
    BY <2>2
       DEF BeginConnecting, Turn, Goes, TaskVarsKept, placeVars, sharedVars, ageVars,
           pongVars
  <2>3. CASE Connects(t)
    BY <2>3 DEF Connects, Goes, ws_handler, sharedVars, placeVars
  <2>4. CASE ConnectFails(t)
    BY <2>4
       DEF ConnectFails, Goes, Abort, Abortable, ws_handler, TaskVarsKept, placeVars,
           sharedVars, pongVars
  <2>5. CASE ConnectedTurn(t)
    <3>1. CASE error_type' = error_type
      BY <2>5, <3>1 DEF ConnectedTurn, Turn, TaskVarsKept, pongVars
    <3>2. CASE error_type' = "PONG_TIMEOUT" /\ PongOverdue
      BY <2>5, <3>2 DEF ConnectedTurn, Turn, TaskVarsKept, pongVars, PongOverdue
    <3> QED BY <2>5, <3>1, <3>2 DEF ConnectedTurn, Abort
  <2>6. CASE PingWritten(t)
    <3>1. CASE Abort("PONG_TIMEOUT") /\ PongOverdue
      BY <2>6, <3>1 DEF PingWritten, SendPing, Abort, TaskVarsKept, PongOverdue
    <3>2. CASE UNCHANGED <<error_type, server>> /\ (wait_for_pong_resp => late' = late)
      BY <3>2
    <3> QED BY <2>6, <3>1, <3>2 DEF PingWritten, SendPing, AsksServer, Abort, TaskVarsKept
  <2>7. CASE WaitingTurn(t)
    BY <2>7 DEF WaitingTurn, Turn, Goes, TaskVarsKept, placeVars, sharedVars, pongVars
  <2>8. CASE ClosingTurn(t)
    BY <2>8 DEF ClosingTurn, Turn, Goes, TaskVarsKept, placeVars, ageVars, pongVars
  <2>9. CASE LostTurn(t)
    BY <2>9
       DEF LostTurn, Turn, Goes, TaskVarsKept, placeVars, sharedVars, ageVars, pongVars
  <2>10. CASE After(t)
    BY <2>10 DEF After, Goes, TaskVarsKept, placeVars, sharedVars, ageVars, pongVars
  <2>11. CASE PollTimesOut(t)
    BY <2>11, LateGrows DEF PollTimesOut, Goes, TaskVarsKept, placeVars, sharedVars
  <2>12. CASE Read(t)
    BY <2>12 DEF Read, Goes, PongReceived, TaskVarsKept, placeVars, sharedVars, pongVars
  <2>13. CASE ReadFails(t)
    BY <2>13
       DEF ReadFails, Goes, Abort, Abortable, ws_handler, TaskVarsKept, placeVars,
           sharedVars, pongVars
  <2>14. CASE WaitToReconnect(t)
    <3>1. wait_for_pong_resp => late' \in {late, late + 1}
      <4>1. CASE Tick(FALSE)
        BY <4>1, LateGrows
      <4>2. CASE UNCHANGED ageVars
        BY <4>2 DEF ageVars
      <4> QED BY <2>14, <4>1, <4>2 DEF WaitToReconnect
    <3> QED BY <2>14, <3>1 DEF WaitToReconnect, TaskVarsKept
  <2>15. CASE Closed(t)
    BY <2>15 DEF Closed, Goes, ws_handler, TaskVarsKept, placeVars, ageVars, pongVars
  <2>16. CASE LeaveLoop(t)
    BY <2>16 DEF LeaveLoop, Goes, TaskVarsKept, placeVars, sharedVars, ageVars, pongVars
  <2>17. CASE Finish(t)
    BY <2>17 DEF Finish, Goes, ws_handler, pongVars
  <2>18. CASE TaskGone(t)
    BY <2>18 DEF TaskGone, Goes, TaskVarsKept, placeVars, sharedVars, ageVars, pongVars
  <2> QED BY <1>1, <2>1, <2>2, <2>3, <2>4, <2>5, <2>6, <2>7, <2>8, <2>9, <2>10, <2>11,
           <2>12, <2>13, <2>14, <2>15, <2>16, <2>17, <2>18 DEF Task
<1>2. CASE Caller
  <2>1. CASE Started
    BY <2>1 DEF Started, CallerVarsKept, pongVars, ClientKept, serverVars
  <2>2. CASE LockToClose
    BY <2>2 DEF LockToClose, CallerVarsKept, pongVars, sharedVars, serverVars
  <2>3. CASE WriteClose
    BY <2>3
       DEF WriteClose, WriteFails, Abort, Abortable, ws_handler, sharedVars, pongVars
  <2>4. CASE AwaitStopped
    BY <2>4 DEF AwaitStopped, CallerVarsKept, pongVars, ClientKept, serverVars
  <2>5. CASE CloseInTime
    BY <2>5
       DEF CloseInTime, CallerVarsKept, pongVars, ClientKept, serverVars, sharedVars
  <2>6. CASE CloseTimesOut
    BY <2>6
       DEF CloseTimesOut, RequestStop, CallerVarsKept, pongVars, ClientKept, serverVars
  <2>7. CASE StopWaited
    BY <2>7 DEF StopWaited, CallerVarsKept, pongVars, serverVars, sharedVars
  <2>8. CASE Destroyed
    BY <2>8 DEF Destroyed, CallerVarsKept, pongVars, serverVars, sharedVars
  <2> QED BY <1>2, <2>1, <2>2, <2>3, <2>4, <2>5, <2>6, <2>7, <2>8 DEF Caller
<1>3. CASE Start
  BY <1>3 DEF Start, CallerVarsKept, pongVars, sharedVars
<1>4. CASE Close
  BY <1>4 DEF Close, CallerVarsKept, pongVars, ClientKept, serverVars, sharedVars
<1>5. CASE Destroy
  BY <1>5
     DEF Destroy, RequestStop, CallerVarsKept, pongVars, ClientKept, serverVars,
         sharedVars
<1>6. CASE InitClient
  BY <1>6 DEF InitClient, placeVars, serverVars
<1>7. CASE BeginSend
  BY <1>7 DEF BeginSend, SenderVarsKept, sharedVars, pongVars, serverVars
<1>8. CASE TimePasses
  <2>1. wait_for_pong_resp => late' \in {late, late + 1}
    BY <1>8, LateGrows DEF TimePasses
  <2> QED BY <1>8, <2>1 DEF TimePasses
<1>9. CASE Sender
  <2>1. CASE LockToSend
    BY <2>1 DEF LockToSend, SenderVarsKept, sharedVars, pongVars, serverVars
  <2>2. CASE WriteFrame
    BY <2>2
       DEF WriteFrame, WriteFails, SenderVarsKept, Abort, Abortable, ws_handler,
           sharedVars, pongVars
  <2> QED BY <1>9, <2>1, <2>2 DEF Sender
<1>10. CASE Server
  <2>1. CASE ServerSends
    BY <2>1 DEF ServerSends, ServerVarsKept, sharedVars, pongVars, placeVars, serverVars
  <2>2. CASE ServerAnswers
    BY <2>2
       DEF ServerAnswers, ServerVarsKept, sharedVars, pongVars, placeVars, serverVars
  <2>3. CASE ServerCloses
    BY <2>3
       DEF ServerCloses, ServerVarsKept, sharedVars, pongVars, placeVars, serverVars
  <2>4. CASE ServerFallsSilent
    BY <2>4
       DEF ServerFallsSilent, ServerVarsKept, sharedVars, pongVars, placeVars,
           serverVars
  <2>5. CASE ConnectionBreaks
    BY <2>5
       DEF ConnectionBreaks, ServerVarsKept, sharedVars, pongVars, placeVars, serverVars
  <2> QED BY <1>10, <2>1, <2>2, <2>3, <2>4, <2>5 DEF Server
<1>11. CASE UNCHANGED vars
  BY <1>11 DEF vars
<1> QED BY <1>1, <1>2, <1>3, <1>4, <1>5, <1>6, <1>7, <1>8, <1>9, <1>10, <1>11 DEF Next

-----------------------------------------------------------------------------
(* The lock, and the pings, if the scheduler is as prompt as Prompt says.   *)

\* A task that a start finds is on its way out.
OldLeaves == task["old"] \in {"none", "finish", "leaving"}

\* What is freed, nobody uses.
Freed ==
  /\ ws = "UNINIT" => (\A t \in Tasks : task[t] = "none") /\ sender = "idle"
  /\ caller = "free" => sender = "idle"

LEMMA OldNext ==
  ASSUME Prompt = TRUE
  PROVE  RestTyped /\ OldLeaves /\ [Next]_vars => OldLeaves'
<1> SUFFICES ASSUME RestTyped, OldLeaves, [Next]_vars PROVE OldLeaves'
  OBVIOUS
<1> USE DEF RestTyped, OldLeaves, Tasks
<1>1. ASSUME NEW t \in Tasks, Task(t) PROVE OldLeaves'
  <2>1. CASE Begin(t)
    BY <2>1 DEF Begin, Goes, TaskVarsKept, placeVars, ageVars, pongVars
  <2>2. CASE BeginConnecting(t)
    BY <2>2
       DEF BeginConnecting, Turn, Goes, TaskVarsKept, placeVars, sharedVars, ageVars,
           pongVars
  <2>3. CASE Connects(t)
    BY <2>3 DEF Connects, Goes, ws_handler, sharedVars, placeVars
  <2>4. CASE ConnectFails(t)
    BY <2>4
       DEF ConnectFails, Goes, Abort, Abortable, ws_handler, TaskVarsKept, placeVars,
           sharedVars, pongVars
  <2>5. CASE ConnectedTurn(t)
    BY <2>5
       DEF ConnectedTurn, Turn, Goes, PingDue, PongOverdue, Abort, Abortable,
           ws_handler, TaskVarsKept, placeVars, sharedVars, ageVars, pongVars
  <2>6. CASE PingWritten(t)
    BY <2>6
       DEF PingWritten, Goes, SendPing, PongOverdue, AsksServer, Abort, Abortable,
           ws_handler, TaskVarsKept, placeVars, sharedVars
  <2>7. CASE WaitingTurn(t)
    BY <2>7 DEF WaitingTurn, Turn, Goes, TaskVarsKept, placeVars, sharedVars, pongVars
  <2>8. CASE ClosingTurn(t)
    BY <2>8 DEF ClosingTurn, Turn, Goes, TaskVarsKept, placeVars, ageVars, pongVars
  <2>9. CASE LostTurn(t)
    BY <2>9
       DEF LostTurn, Turn, Goes, TaskVarsKept, placeVars, sharedVars, ageVars, pongVars
  <2>10. CASE After(t)
    BY <2>10 DEF After, Goes, TaskVarsKept, placeVars, sharedVars, ageVars, pongVars
  <2>11. CASE PollTimesOut(t)
    BY <2>11 DEF PollTimesOut, Goes, Tick, Older, TaskVarsKept, placeVars, sharedVars
  <2>12. CASE Read(t)
    BY <2>12 DEF Read, Goes, PongReceived, TaskVarsKept, placeVars, sharedVars, pongVars
  <2>13. CASE ReadFails(t)
    BY <2>13
       DEF ReadFails, Goes, Abort, Abortable, ws_handler, TaskVarsKept, placeVars,
           sharedVars, pongVars
  <2>14. CASE WaitToReconnect(t)
    BY <2>14
       DEF WaitToReconnect, Goes, Tick, Older, TaskVarsKept, placeVars, sharedVars,
           ageVars
  <2>15. CASE Closed(t)
    BY <2>15 DEF Closed, Goes, ws_handler, TaskVarsKept, placeVars, ageVars, pongVars
  <2>16. CASE LeaveLoop(t)
    BY <2>16 DEF LeaveLoop, Goes, TaskVarsKept, placeVars, sharedVars, ageVars, pongVars
  <2>17. CASE Finish(t)
    BY <2>17 DEF Finish, Goes, ws_handler, pongVars
  <2>18. CASE TaskGone(t)
    BY <2>18 DEF TaskGone, Goes, TaskVarsKept, placeVars, sharedVars, ageVars, pongVars
  <2> QED BY <1>1, <2>1, <2>2, <2>3, <2>4, <2>5, <2>6, <2>7, <2>8, <2>9, <2>10, <2>11,
           <2>12, <2>13, <2>14, <2>15, <2>16, <2>17, <2>18 DEF Task
<1>2. CASE Caller
  BY <1>2
     DEF Caller, Started, CallerVarsKept, pongVars, ClientKept, serverVars, LockToClose,
         sharedVars, WriteClose, WriteFails, Abort, Abortable, ws_handler, AwaitStopped,
         CloseInTime, CloseTimesOut, RequestStop, StopWaited, Destroyed
<1>3. CASE Start
  BY <1>3 DEF Start, CallerVarsKept, pongVars, sharedVars
<1>4. CASE Close
  BY <1>4 DEF Close, CallerVarsKept, pongVars, ClientKept, serverVars, sharedVars
<1>5. CASE Destroy
  BY <1>5
     DEF Destroy, RequestStop, CallerVarsKept, pongVars, ClientKept, serverVars,
         sharedVars
<1>6. CASE InitClient
  BY <1>6 DEF InitClient, placeVars, serverVars
<1>7. CASE BeginSend
  BY <1>7 DEF BeginSend, SenderVarsKept, sharedVars, pongVars, serverVars
<1>8. CASE TimePasses
  BY <1>8 DEF TimePasses, Tick, Older, sharedVars, placeVars
<1>9. CASE Sender
  BY <1>9
     DEF Sender, LockToSend, SenderVarsKept, sharedVars, pongVars, serverVars,
         WriteFrame, WriteFails, Abort, Abortable, ws_handler
<1>10. CASE Server
  BY <1>10
     DEF Server, ServerSends, ServerVarsKept, sharedVars, pongVars, placeVars,
         serverVars, ServerAnswers, ServerCloses, ServerFallsSilent, ConnectionBreaks
<1>11. CASE UNCHANGED vars
  BY <1>11 DEF vars
<1> QED BY <1>1, <1>2, <1>3, <1>4, <1>5, <1>6, <1>7, <1>8, <1>9, <1>10, <1>11 DEF Next

LEMMA FreedNext ==
  ASSUME Prompt = TRUE
  PROVE  RestTyped /\ OldLeaves /\ Freed /\ [Next]_vars => Freed'
<1> SUFFICES ASSUME RestTyped, OldLeaves, Freed, [Next]_vars PROVE Freed'
  OBVIOUS
<1> USE DEF RestTyped, OldLeaves, Freed, Tasks
<1>1. ASSUME NEW t \in Tasks, Task(t) PROVE Freed'
  <2>1. CASE Begin(t)
    BY <2>1 DEF Begin, Goes, TaskVarsKept, placeVars, ageVars, pongVars
  <2>2. CASE BeginConnecting(t)
    BY <2>2
       DEF BeginConnecting, Turn, Goes, TaskVarsKept, placeVars, sharedVars, ageVars,
           pongVars
  <2>3. CASE Connects(t)
    BY <2>3 DEF Connects, Goes, ws_handler, sharedVars, placeVars
  <2>4. CASE ConnectFails(t)
    BY <2>4
       DEF ConnectFails, Goes, Abort, Abortable, ws_handler, TaskVarsKept, placeVars,
           sharedVars, pongVars
  <2>5. CASE ConnectedTurn(t)
    BY <2>5
       DEF ConnectedTurn, Turn, Goes, PingDue, PongOverdue, Abort, Abortable,
           ws_handler, TaskVarsKept, placeVars, sharedVars, ageVars, pongVars
  <2>6. CASE PingWritten(t)
    BY <2>6
       DEF PingWritten, Goes, SendPing, PongOverdue, AsksServer, Abort, Abortable,
           ws_handler, TaskVarsKept, placeVars, sharedVars
  <2>7. CASE WaitingTurn(t)
    BY <2>7 DEF WaitingTurn, Turn, Goes, TaskVarsKept, placeVars, sharedVars, pongVars
  <2>8. CASE ClosingTurn(t)
    BY <2>8 DEF ClosingTurn, Turn, Goes, TaskVarsKept, placeVars, ageVars, pongVars
  <2>9. CASE LostTurn(t)
    BY <2>9
       DEF LostTurn, Turn, Goes, TaskVarsKept, placeVars, sharedVars, ageVars, pongVars
  <2>10. CASE After(t)
    BY <2>10 DEF After, Goes, TaskVarsKept, placeVars, sharedVars, ageVars, pongVars
  <2>11. CASE PollTimesOut(t)
    BY <2>11 DEF PollTimesOut, Goes, Tick, Older, TaskVarsKept, placeVars, sharedVars
  <2>12. CASE Read(t)
    BY <2>12 DEF Read, Goes, PongReceived, TaskVarsKept, placeVars, sharedVars, pongVars
  <2>13. CASE ReadFails(t)
    BY <2>13
       DEF ReadFails, Goes, Abort, Abortable, ws_handler, TaskVarsKept, placeVars,
           sharedVars, pongVars
  <2>14. CASE WaitToReconnect(t)
    BY <2>14
       DEF WaitToReconnect, Goes, Tick, Older, TaskVarsKept, placeVars, sharedVars,
           ageVars
  <2>15. CASE Closed(t)
    BY <2>15 DEF Closed, Goes, ws_handler, TaskVarsKept, placeVars, ageVars, pongVars
  <2>16. CASE LeaveLoop(t)
    BY <2>16 DEF LeaveLoop, Goes, TaskVarsKept, placeVars, sharedVars, ageVars, pongVars
  <2>17. CASE Finish(t)
    BY <2>17 DEF Finish, Goes, ws_handler, pongVars
  <2>18. CASE TaskGone(t)
    BY <2>18 DEF TaskGone, Goes, TaskVarsKept, placeVars, sharedVars, ageVars, pongVars
  <2> QED BY <1>1, <2>1, <2>2, <2>3, <2>4, <2>5, <2>6, <2>7, <2>8, <2>9, <2>10, <2>11,
           <2>12, <2>13, <2>14, <2>15, <2>16, <2>17, <2>18 DEF Task
<1>2. CASE Caller
  BY <1>2
     DEF Caller, Started, CallerVarsKept, pongVars, ClientKept, serverVars, LockToClose,
         sharedVars, WriteClose, WriteFails, Abort, Abortable, ws_handler, AwaitStopped,
         CloseInTime, CloseTimesOut, RequestStop, StopWaited, Destroyed
<1>3. CASE Start
  BY <1>3 DEF Start, CallerVarsKept, pongVars, sharedVars
<1>4. CASE Close
  BY <1>4 DEF Close, CallerVarsKept, pongVars, ClientKept, serverVars, sharedVars
<1>5. CASE Destroy
  BY <1>5
     DEF Destroy, RequestStop, CallerVarsKept, pongVars, ClientKept, serverVars,
         sharedVars
<1>6. CASE InitClient
  BY <1>6 DEF InitClient, placeVars, serverVars
<1>7. CASE BeginSend
  BY <1>7 DEF BeginSend, SenderVarsKept, sharedVars, pongVars, serverVars
<1>8. CASE TimePasses
  BY <1>8 DEF TimePasses, Tick, Older, sharedVars, placeVars
<1>9. CASE Sender
  BY <1>9
     DEF Sender, LockToSend, SenderVarsKept, sharedVars, pongVars, serverVars,
         WriteFrame, WriteFails, Abort, Abortable, ws_handler
<1>10. CASE Server
  BY <1>10
     DEF Server, ServerSends, ServerVarsKept, sharedVars, pongVars, placeVars,
         serverVars, ServerAnswers, ServerCloses, ServerFallsSilent, ConnectionBreaks
<1>11. CASE UNCHANGED vars
  BY <1>11 DEF vars
<1> QED BY <1>1, <1>2, <1>3, <1>4, <1>5, <1>6, <1>7, <1>8, <1>9, <1>10, <1>11 DEF Next

\* The lock has one holder: a new client, whose lock is free, comes only when no task is
\* left and nobody sends.
LEMMA LockNext ==
  ASSUME Prompt = TRUE
  PROVE  RestTyped /\ OldLeaves /\ Freed /\ LockHeld /\ [Next]_vars => LockHeld'
<1> SUFFICES ASSUME RestTyped, OldLeaves, Freed, LockHeld, [Next]_vars PROVE LockHeld'
  OBVIOUS
<1> USE DEF RestTyped, OldLeaves, Freed, LockHeld, Tasks, HoldsLock
<1>1. ASSUME NEW t \in Tasks, Task(t) PROVE LockHeld'
  <2>1. CASE Begin(t)
    BY <2>1 DEF Begin, Goes, TaskVarsKept, placeVars, ageVars, pongVars
  <2>2. CASE BeginConnecting(t)
    BY <2>2
       DEF BeginConnecting, Turn, Goes, TaskVarsKept, placeVars, sharedVars, ageVars,
           pongVars
  <2>3. CASE Connects(t)
    BY <2>3 DEF Connects, Goes, ws_handler, sharedVars, placeVars
  <2>4. CASE ConnectFails(t)
    BY <2>4
       DEF ConnectFails, Goes, Abort, Abortable, ws_handler, TaskVarsKept, placeVars,
           sharedVars, pongVars
  <2>5. CASE ConnectedTurn(t)
    BY <2>5
       DEF ConnectedTurn, Turn, Goes, PingDue, PongOverdue, Abort, Abortable,
           ws_handler, TaskVarsKept, placeVars, sharedVars, ageVars, pongVars
  <2>6. CASE PingWritten(t)
    BY <2>6
       DEF PingWritten, Goes, SendPing, PongOverdue, AsksServer, Abort, Abortable,
           ws_handler, TaskVarsKept, placeVars, sharedVars
  <2>7. CASE WaitingTurn(t)
    BY <2>7 DEF WaitingTurn, Turn, Goes, TaskVarsKept, placeVars, sharedVars, pongVars
  <2>8. CASE ClosingTurn(t)
    BY <2>8 DEF ClosingTurn, Turn, Goes, TaskVarsKept, placeVars, ageVars, pongVars
  <2>9. CASE LostTurn(t)
    BY <2>9
       DEF LostTurn, Turn, Goes, TaskVarsKept, placeVars, sharedVars, ageVars, pongVars
  <2>10. CASE After(t)
    BY <2>10 DEF After, Goes, TaskVarsKept, placeVars, sharedVars, ageVars, pongVars
  <2>11. CASE PollTimesOut(t)
    BY <2>11 DEF PollTimesOut, Goes, Tick, Older, TaskVarsKept, placeVars, sharedVars
  <2>12. CASE Read(t)
    BY <2>12 DEF Read, Goes, PongReceived, TaskVarsKept, placeVars, sharedVars, pongVars
  <2>13. CASE ReadFails(t)
    BY <2>13
       DEF ReadFails, Goes, Abort, Abortable, ws_handler, TaskVarsKept, placeVars,
           sharedVars, pongVars
  <2>14. CASE WaitToReconnect(t)
    BY <2>14
       DEF WaitToReconnect, Goes, Tick, Older, TaskVarsKept, placeVars, sharedVars,
           ageVars
  <2>15. CASE Closed(t)
    BY <2>15 DEF Closed, Goes, ws_handler, TaskVarsKept, placeVars, ageVars, pongVars
  <2>16. CASE LeaveLoop(t)
    BY <2>16 DEF LeaveLoop, Goes, TaskVarsKept, placeVars, sharedVars, ageVars, pongVars
  <2>17. CASE Finish(t)
    BY <2>17 DEF Finish, Goes, ws_handler, pongVars
  <2>18. CASE TaskGone(t)
    BY <2>18 DEF TaskGone, Goes, TaskVarsKept, placeVars, sharedVars, ageVars, pongVars
  <2> QED BY <1>1, <2>1, <2>2, <2>3, <2>4, <2>5, <2>6, <2>7, <2>8, <2>9, <2>10, <2>11,
           <2>12, <2>13, <2>14, <2>15, <2>16, <2>17, <2>18 DEF Task
<1>2. CASE Caller
  <2>1. CASE Started
    BY <2>1 DEF Started, CallerVarsKept, pongVars, ClientKept, serverVars
  <2>2. CASE LockToClose
    BY <2>2 DEF LockToClose, CallerVarsKept, pongVars, sharedVars, serverVars
  <2>3. CASE WriteClose
    BY <2>3
       DEF WriteClose, WriteFails, Abort, Abortable, ws_handler, sharedVars, pongVars
  <2>4. CASE AwaitStopped
    BY <2>4 DEF AwaitStopped, CallerVarsKept, pongVars, ClientKept, serverVars
  <2>5. CASE CloseInTime
    BY <2>5
       DEF CloseInTime, CallerVarsKept, pongVars, ClientKept, serverVars, sharedVars
  <2>6. CASE CloseTimesOut
    BY <2>6
       DEF CloseTimesOut, RequestStop, CallerVarsKept, pongVars, ClientKept, serverVars
  <2>7. CASE StopWaited
    BY <2>7 DEF StopWaited, CallerVarsKept, pongVars, serverVars, sharedVars
  <2>8. CASE Destroyed
    BY <2>8 DEF Destroyed, CallerVarsKept, pongVars, serverVars, sharedVars
  <2> QED BY <1>2, <2>1, <2>2, <2>3, <2>4, <2>5, <2>6, <2>7, <2>8 DEF Caller
<1>3. CASE Start
  BY <1>3 DEF Start, CallerVarsKept, pongVars, sharedVars
<1>4. CASE Close
  BY <1>4 DEF Close, CallerVarsKept, pongVars, ClientKept, serverVars, sharedVars
<1>5. CASE Destroy
  BY <1>5
     DEF Destroy, RequestStop, CallerVarsKept, pongVars, ClientKept, serverVars,
         sharedVars
<1>6. CASE InitClient
  BY <1>6 DEF InitClient, placeVars, serverVars
<1>7. CASE BeginSend
  BY <1>7 DEF BeginSend, SenderVarsKept, sharedVars, pongVars, serverVars
<1>8. CASE TimePasses
  BY <1>8 DEF TimePasses, Tick, Older, sharedVars, placeVars
<1>9. CASE Sender
  BY <1>9
     DEF Sender, LockToSend, SenderVarsKept, sharedVars, pongVars, serverVars,
         WriteFrame, WriteFails, Abort, Abortable, ws_handler
<1>10. CASE Server
  BY <1>10
     DEF Server, ServerSends, ServerVarsKept, sharedVars, pongVars, placeVars,
         serverVars, ServerAnswers, ServerCloses, ServerFallsSilent, ConnectionBreaks
<1>11. CASE UNCHANGED vars
  BY <1>11 DEF vars
<1> QED BY <1>1, <1>2, <1>3, <1>4, <1>5, <1>6, <1>7, <1>8, <1>9, <1>10, <1>11 DEF Next

\* While a ping is written, nothing is done to the connection.
PingPlace == task["new"] = "pinging" => state \in {"CONNECTED", "UNKNOW"}

\* A start that finds the bit of a close has made no connection yet.
Restarted ==
  caller = "starting" /\ "CLOSE_FRAME_SENT" \in bits
    => task["new"] # "connecting" /\ state \in {"CLOSING", "UNKNOW"}

LEMMA PingPlaceNext ==
  RestTyped /\ OldLeaves /\ LockHeld /\ PingPlace /\ [Next]_vars => PingPlace'
<1> SUFFICES ASSUME RestTyped, OldLeaves, LockHeld, PingPlace, [Next]_vars
             PROVE  PingPlace'
  OBVIOUS
<1> USE DEF RestTyped, OldLeaves, LockHeld, PingPlace, Tasks, HoldsLock
<1>1. ASSUME NEW t \in Tasks, Task(t) PROVE PingPlace'
  <2>1. CASE Begin(t)
    BY <2>1 DEF Begin, Goes, TaskVarsKept, placeVars, ageVars, pongVars
  <2>2. CASE BeginConnecting(t)
    BY <2>2
       DEF BeginConnecting, Turn, Goes, TaskVarsKept, placeVars, sharedVars, ageVars,
           pongVars
  <2>3. CASE Connects(t)
    BY <2>3 DEF Connects, Goes, ws_handler, sharedVars, placeVars
  <2>4. CASE ConnectFails(t)
    BY <2>4
       DEF ConnectFails, Goes, Abort, Abortable, ws_handler, TaskVarsKept, placeVars,
           sharedVars, pongVars
  <2>5. CASE ConnectedTurn(t)
    BY <2>5
       DEF ConnectedTurn, Turn, Goes, PingDue, PongOverdue, Abort, Abortable,
           ws_handler, TaskVarsKept, placeVars, sharedVars, ageVars, pongVars
  <2>6. CASE PingWritten(t)
    BY <2>6
       DEF PingWritten, Goes, SendPing, PongOverdue, AsksServer, Abort, Abortable,
           ws_handler, TaskVarsKept, placeVars, sharedVars
  <2>7. CASE WaitingTurn(t)
    BY <2>7 DEF WaitingTurn, Turn, Goes, TaskVarsKept, placeVars, sharedVars, pongVars
  <2>8. CASE ClosingTurn(t)
    BY <2>8 DEF ClosingTurn, Turn, Goes, TaskVarsKept, placeVars, ageVars, pongVars
  <2>9. CASE LostTurn(t)
    BY <2>9
       DEF LostTurn, Turn, Goes, TaskVarsKept, placeVars, sharedVars, ageVars, pongVars
  <2>10. CASE After(t)
    BY <2>10 DEF After, Goes, TaskVarsKept, placeVars, sharedVars, ageVars, pongVars
  <2>11. CASE PollTimesOut(t)
    BY <2>11 DEF PollTimesOut, Goes, Tick, Older, TaskVarsKept, placeVars, sharedVars
  <2>12. CASE Read(t)
    BY <2>12 DEF Read, Goes, PongReceived, TaskVarsKept, placeVars, sharedVars, pongVars
  <2>13. CASE ReadFails(t)
    BY <2>13
       DEF ReadFails, Goes, Abort, Abortable, ws_handler, TaskVarsKept, placeVars,
           sharedVars, pongVars
  <2>14. CASE WaitToReconnect(t)
    BY <2>14
       DEF WaitToReconnect, Goes, Tick, Older, TaskVarsKept, placeVars, sharedVars,
           ageVars
  <2>15. CASE Closed(t)
    BY <2>15 DEF Closed, Goes, ws_handler, TaskVarsKept, placeVars, ageVars, pongVars
  <2>16. CASE LeaveLoop(t)
    BY <2>16 DEF LeaveLoop, Goes, TaskVarsKept, placeVars, sharedVars, ageVars, pongVars
  <2>17. CASE Finish(t)
    BY <2>17 DEF Finish, Goes, ws_handler, pongVars
  <2>18. CASE TaskGone(t)
    BY <2>18 DEF TaskGone, Goes, TaskVarsKept, placeVars, sharedVars, ageVars, pongVars
  <2> QED BY <1>1, <2>1, <2>2, <2>3, <2>4, <2>5, <2>6, <2>7, <2>8, <2>9, <2>10, <2>11,
           <2>12, <2>13, <2>14, <2>15, <2>16, <2>17, <2>18 DEF Task
<1>2. CASE Caller
  <2>1. CASE Started
    BY <2>1 DEF Started, CallerVarsKept, pongVars, ClientKept, serverVars
  <2>2. CASE LockToClose
    BY <2>2 DEF LockToClose, CallerVarsKept, pongVars, sharedVars, serverVars
  <2>3. CASE WriteClose
    BY <2>3
       DEF WriteClose, WriteFails, Abort, Abortable, ws_handler, sharedVars, pongVars
  <2>4. CASE AwaitStopped
    BY <2>4 DEF AwaitStopped, CallerVarsKept, pongVars, ClientKept, serverVars
  <2>5. CASE CloseInTime
    BY <2>5
       DEF CloseInTime, CallerVarsKept, pongVars, ClientKept, serverVars, sharedVars
  <2>6. CASE CloseTimesOut
    BY <2>6
       DEF CloseTimesOut, RequestStop, CallerVarsKept, pongVars, ClientKept, serverVars
  <2>7. CASE StopWaited
    BY <2>7 DEF StopWaited, CallerVarsKept, pongVars, serverVars, sharedVars
  <2>8. CASE Destroyed
    BY <2>8 DEF Destroyed, CallerVarsKept, pongVars, serverVars, sharedVars
  <2> QED BY <1>2, <2>1, <2>2, <2>3, <2>4, <2>5, <2>6, <2>7, <2>8 DEF Caller
<1>3. CASE Start
  BY <1>3 DEF Start, CallerVarsKept, pongVars, sharedVars
<1>4. CASE Close
  BY <1>4 DEF Close, CallerVarsKept, pongVars, ClientKept, serverVars, sharedVars
<1>5. CASE Destroy
  BY <1>5
     DEF Destroy, RequestStop, CallerVarsKept, pongVars, ClientKept, serverVars,
         sharedVars
<1>6. CASE InitClient
  BY <1>6 DEF InitClient, placeVars, serverVars
<1>7. CASE BeginSend
  BY <1>7 DEF BeginSend, SenderVarsKept, sharedVars, pongVars, serverVars
<1>8. CASE TimePasses
  BY <1>8 DEF TimePasses, Tick, Older, sharedVars, placeVars
<1>9. CASE Sender
  BY <1>9
     DEF Sender, LockToSend, SenderVarsKept, sharedVars, pongVars, serverVars,
         WriteFrame, WriteFails, Abort, Abortable, ws_handler
<1>10. CASE Server
  BY <1>10
     DEF Server, ServerSends, ServerVarsKept, sharedVars, pongVars, placeVars,
         serverVars, ServerAnswers, ServerCloses, ServerFallsSilent, ConnectionBreaks
<1>11. CASE UNCHANGED vars
  BY <1>11 DEF vars
<1> QED BY <1>1, <1>2, <1>3, <1>4, <1>5, <1>6, <1>7, <1>8, <1>9, <1>10, <1>11 DEF Next

LEMMA RestartedNext ==
  ASSUME Prompt = TRUE
  PROVE  FieldsTyped /\ RestTyped /\ OldLeaves /\ Restarted /\ [Next]_vars => Restarted'
<1> SUFFICES ASSUME FieldsTyped, RestTyped, OldLeaves, Restarted, [Next]_vars
             PROVE  Restarted'
  OBVIOUS
<1> USE DEF FieldsTyped, RestTyped, OldLeaves, Restarted, Tasks
<1>1. ASSUME NEW t \in Tasks, Task(t) PROVE Restarted'
  <2>1. CASE Begin(t)
    BY <2>1 DEF Begin, Goes, TaskVarsKept, placeVars, ageVars, pongVars
  <2>2. CASE BeginConnecting(t)
    BY <2>2
       DEF BeginConnecting, Turn, Goes, TaskVarsKept, placeVars, sharedVars, ageVars,
           pongVars
  <2>3. CASE Connects(t)
    BY <2>3 DEF Connects, Goes, ws_handler, sharedVars, placeVars
  <2>4. CASE ConnectFails(t)
    BY <2>4
       DEF ConnectFails, Goes, Abort, Abortable, ws_handler, TaskVarsKept, placeVars,
           sharedVars, pongVars
  <2>5. CASE ConnectedTurn(t)
    BY <2>5
       DEF ConnectedTurn, Turn, Goes, PingDue, PongOverdue, Abort, Abortable,
           ws_handler, TaskVarsKept, placeVars, sharedVars, ageVars, pongVars
  <2>6. CASE PingWritten(t)
    BY <2>6
       DEF PingWritten, Goes, SendPing, PongOverdue, AsksServer, Abort, Abortable,
           ws_handler, TaskVarsKept, placeVars, sharedVars
  <2>7. CASE WaitingTurn(t)
    BY <2>7 DEF WaitingTurn, Turn, Goes, TaskVarsKept, placeVars, sharedVars, pongVars
  <2>8. CASE ClosingTurn(t)
    BY <2>8 DEF ClosingTurn, Turn, Goes, TaskVarsKept, placeVars, ageVars, pongVars
  <2>9. CASE LostTurn(t)
    BY <2>9
       DEF LostTurn, Turn, Goes, TaskVarsKept, placeVars, sharedVars, ageVars, pongVars
  <2>10. CASE After(t)
    BY <2>10 DEF After, Goes, TaskVarsKept, placeVars, sharedVars, ageVars, pongVars
  <2>11. CASE PollTimesOut(t)
    BY <2>11 DEF PollTimesOut, Goes, Tick, Older, TaskVarsKept, placeVars, sharedVars
  <2>12. CASE Read(t)
    BY <2>12 DEF Read, Goes, PongReceived, TaskVarsKept, placeVars, sharedVars, pongVars
  <2>13. CASE ReadFails(t)
    BY <2>13
       DEF ReadFails, Goes, Abort, Abortable, ws_handler, TaskVarsKept, placeVars,
           sharedVars, pongVars
  <2>14. CASE WaitToReconnect(t)
    BY <2>14
       DEF WaitToReconnect, Goes, Tick, Older, TaskVarsKept, placeVars, sharedVars,
           ageVars
  <2>15. CASE Closed(t)
    BY <2>15 DEF Closed, Goes, ws_handler, TaskVarsKept, placeVars, ageVars, pongVars
  <2>16. CASE LeaveLoop(t)
    BY <2>16 DEF LeaveLoop, Goes, TaskVarsKept, placeVars, sharedVars, ageVars, pongVars
  <2>17. CASE Finish(t)
    BY <2>17 DEF Finish, Goes, ws_handler, pongVars
  <2>18. CASE TaskGone(t)
    BY <2>18 DEF TaskGone, Goes, TaskVarsKept, placeVars, sharedVars, ageVars, pongVars
  <2> QED BY <1>1, <2>1, <2>2, <2>3, <2>4, <2>5, <2>6, <2>7, <2>8, <2>9, <2>10, <2>11,
           <2>12, <2>13, <2>14, <2>15, <2>16, <2>17, <2>18 DEF Task
<1>2. CASE Caller
  <2>1. CASE Started
    BY <2>1 DEF Started, CallerVarsKept, pongVars, ClientKept, serverVars
  <2>2. CASE LockToClose
    BY <2>2 DEF LockToClose, CallerVarsKept, pongVars, sharedVars, serverVars
  <2>3. CASE WriteClose
    BY <2>3
       DEF WriteClose, WriteFails, Abort, Abortable, ws_handler, sharedVars, pongVars
  <2>4. CASE AwaitStopped
    BY <2>4 DEF AwaitStopped, CallerVarsKept, pongVars, ClientKept, serverVars
  <2>5. CASE CloseInTime
    BY <2>5
       DEF CloseInTime, CallerVarsKept, pongVars, ClientKept, serverVars, sharedVars
  <2>6. CASE CloseTimesOut
    BY <2>6
       DEF CloseTimesOut, RequestStop, CallerVarsKept, pongVars, ClientKept, serverVars
  <2>7. CASE StopWaited
    BY <2>7 DEF StopWaited, CallerVarsKept, pongVars, serverVars, sharedVars
  <2>8. CASE Destroyed
    BY <2>8 DEF Destroyed, CallerVarsKept, pongVars, serverVars, sharedVars
  <2> QED BY <1>2, <2>1, <2>2, <2>3, <2>4, <2>5, <2>6, <2>7, <2>8 DEF Caller
<1>3. CASE Start
  BY <1>3 DEF Start, CallerVarsKept, pongVars, sharedVars
<1>4. CASE Close
  BY <1>4 DEF Close, CallerVarsKept, pongVars, ClientKept, serverVars, sharedVars
<1>5. CASE Destroy
  BY <1>5
     DEF Destroy, RequestStop, CallerVarsKept, pongVars, ClientKept, serverVars,
         sharedVars
<1>6. CASE InitClient
  BY <1>6 DEF InitClient, placeVars, serverVars
<1>7. CASE BeginSend
  BY <1>7 DEF BeginSend, SenderVarsKept, sharedVars, pongVars, serverVars
<1>8. CASE TimePasses
  BY <1>8 DEF TimePasses, Tick, Older, sharedVars, placeVars
<1>9. CASE Sender
  BY <1>9
     DEF Sender, LockToSend, SenderVarsKept, sharedVars, pongVars, serverVars,
         WriteFrame, WriteFails, Abort, Abortable, ws_handler
<1>10. CASE Server
  BY <1>10
     DEF Server, ServerSends, ServerVarsKept, sharedVars, pongVars, placeVars,
         serverVars, ServerAnswers, ServerCloses, ServerFallsSilent, ConnectionBreaks
<1>11. CASE UNCHANGED vars
  BY <1>11 DEF vars
<1> QED BY <1>1, <1>2, <1>3, <1>4, <1>5, <1>6, <1>7, <1>8, <1>9, <1>10, <1>11 DEF Next

\* A pong is waited for on a connection that is not being closed.
Waits ==
  /\ state = "CONNECTED" /\ wait_for_pong_resp
  /\ "CLOSE_FRAME_SENT" \notin bits \/ task["new"] = "pinging"

\* Pings begin at most Gap ticks apart, but for what is lost ...
Gap == PingEvery + 1

\* ... the one that is being written included ...
Sent == IF task["new"] = "pinging" THEN pings + 1 ELSE pings

\* ... and the last began so long ago.
SinceLast ==
  CASE task["new"] = "pinging" -> 0
    [] task["new"] \in {"after", "poll"} /\ ping_age > PingEvery -> PingEvery
    [] OTHER -> ping_age

\* So many pings have been sent for the time that the pong has been waited for.
Counted ==
  Waits => \/ pings = AllowedPings
           \/ pings >= 1 /\ pong_age <= (Sent - 1) * Gap + SinceLast + late

LEMMA CountTypes ==
  ASSUME TimesTyped
  PROVE  /\ SinceLast \in 0 .. Gap /\ Sent \in Nat /\ Gap \in Nat
         /\ Sent >= 1 => (Sent - 1) * Gap \in Nat
<1>1. SinceLast \in 0 .. Gap
  BY ConstantTypes DEF TimesTyped, SinceLast, Gap
<1>2. Sent \in Nat /\ Gap \in Nat
  BY ConstantTypes DEF TimesTyped, Sent, Gap
<1>3. \A m \in Nat : m * Gap \in Nat
  BY <1>2
<1>4. Sent >= 1 => Sent - 1 \in Nat
  BY <1>2
<1> QED BY <1>1, <1>2, <1>3, <1>4

LEMMA GapsGrow ==
  ASSUME NEW g \in Nat
  PROVE  /\ \A m \in Nat : m * g \in Nat /\ (m + 1) * g = m * g + g
         /\ \A m \in Int : \A n \in Int : m <= n => m * g <= n * g
OBVIOUS

\* A step in which no time passes keeps the count ...
LEMMA CountKept ==
  ASSUME TimesTyped, Counted,
         Waits' => /\ Waits /\ UNCHANGED <<pings, pong_age, ping_age, late>>
                   /\ task'["new"] = "pinging" <=> task["new"] = "pinging"
                   /\ task'["new"] \in {"after", "poll"}
                        => task["new"] \in {"after", "poll"} \/ ping_age <= PingEvery
  PROVE  Counted'
<1> SUFFICES ASSUME Waits', pings' # AllowedPings
             PROVE  pings' >= 1 /\ pong_age' <= (Sent' - 1) * Gap + SinceLast' + late'
  BY DEF Counted
<1>1. /\ pings' = pings /\ pong_age' = pong_age /\ late' = late
      /\ pings >= 1 /\ pong_age <= (Sent - 1) * Gap + SinceLast + late
  BY DEF Counted
<1>2. Sent' = Sent /\ Sent >= 1
  BY <1>1 DEF Sent, TimesTyped
<1>3. SinceLast' >= SinceLast /\ SinceLast' \in Int
  BY ConstantTypes DEF TimesTyped, SinceLast
<1> DEFINE sent == (Sent - 1) * Gap
<1>4. sent \in Int /\ (Sent' - 1) * Gap = sent
  BY <1>2, CountTypes
<1>5. pong_age' <= sent + SinceLast' + late'
  <2> DEFINE since == SinceLast'
  <2>1. /\ pong_age <= sent + SinceLast + late /\ SinceLast <= since
        /\ pong_age \in Int /\ SinceLast \in Int /\ late \in Int
        /\ since \in Int /\ sent \in Int
    BY <1>1, <1>3, <1>4, CountTypes DEF TimesTyped
  <2>2. pong_age <= sent + since + late
    <3> HIDE DEF sent, since
    <3> QED BY <2>1
  <2> QED BY <1>1, <2>2
<1> QED BY <1>1, <1>4, <1>5

\* ... a tick in a poll counts ...
LEMMA CountPolls ==
  ASSUME TimesTyped, Counted, Waits' => Waits, Tick(TRUE), pings' = pings,
         task["new"] = "poll", task'["new"] = "top"
  PROVE  Counted'
<1> SUFFICES ASSUME Waits', pings' # AllowedPings
             PROVE  pings' >= 1 /\ pong_age' <= (Sent' - 1) * Gap + SinceLast' + late'
  BY DEF Counted
<1>1. /\ pings' = pings /\ pong_age' = Older(pong_age, PongWithin) /\ late' = late
      /\ ping_age' = Older(ping_age, PingEvery)
      /\ pings >= 1 /\ pong_age <= (Sent - 1) * Gap + SinceLast + late
  BY DEF Counted, Tick, Waits
<1>2. Sent' = Sent /\ Sent >= 1
  BY <1>1 DEF Sent, TimesTyped
<1>3. SinceLast' >= SinceLast + 1 /\ SinceLast' \in Int
  BY <1>1, ConstantTypes, OlderAge DEF TimesTyped, SinceLast
<1>4. pong_age' <= pong_age + 1 /\ pong_age' \in Int
  BY <1>1, ConstantTypes, OlderAge DEF TimesTyped
<1> DEFINE sent == (Sent - 1) * Gap
<1>5. sent \in Int /\ (Sent' - 1) * Gap = sent
  BY <1>2, CountTypes
<1>6. pong_age' <= sent + SinceLast' + late'
  <2>1. pong_age <= sent + SinceLast + late
    BY <1>1
  <2> HIDE DEF sent
  <2> QED BY <1>1, <1>3, <1>4, <1>5, <2>1, CountTypes DEF TimesTyped
<1> QED BY <1>1, <1>5, <1>6

\* ... and one elsewhere is lost.
LEMMA CountLost ==
  ASSUME TimesTyped, Counted, Waits' => Waits, Tick(FALSE), pings' = pings,
         \/ task'["new"] = task["new"]
         \/ task["new"] \in {"poll", "waiting"} /\ task'["new"] = "top"
  PROVE  Counted'
<1> SUFFICES ASSUME Waits', pings' # AllowedPings
             PROVE  pings' >= 1 /\ pong_age' <= (Sent' - 1) * Gap + SinceLast' + late'
  BY DEF Counted
<1>1. /\ pings' = pings /\ pong_age' = Older(pong_age, PongWithin)
      /\ late' = Older(late, PongWithin) /\ ping_age' = Older(ping_age, PingEvery)
      /\ pings >= 1 /\ pong_age <= (Sent - 1) * Gap + SinceLast + late
  BY DEF Counted, Tick, Waits
<1>2. Sent' = Sent /\ Sent >= 1
  BY <1>1 DEF Sent, TimesTyped
<1>3. ping_age' >= ping_age /\ ping_age' \in 0 .. PingEvery + 1
  BY <1>1, ConstantTypes DEF TimesTyped, Older
<1>4. SinceLast' >= SinceLast /\ SinceLast' \in Nat
  BY <1>3, ConstantTypes DEF TimesTyped, SinceLast
<1>5. pong_age' <= pong_age + 1 /\ pong_age' \in 0 .. PongWithin + 1
  BY <1>1, ConstantTypes, OlderAge DEF TimesTyped
<1>6. late' = PongWithin + 1 \/ late' = late + 1
  BY <1>1, ConstantTypes, OlderAge DEF TimesTyped
<1> DEFINE sent == (Sent - 1) * Gap
<1>7. sent \in Nat /\ (Sent' - 1) * Gap = sent
  BY <1>2, CountTypes
<1>8. pong_age' <= sent + SinceLast' + late'
  <2> DEFINE since == SinceLast'
             age == pong_age'
  <2>1. /\ pong_age <= sent + SinceLast + late /\ SinceLast <= since
        /\ age <= pong_age + 1 /\ age <= PongWithin + 1
        /\ age \in Int /\ pong_age \in Int /\ SinceLast \in Int /\ late \in Int
        /\ since \in Nat /\ sent \in Nat /\ PongWithin \in Nat
    BY <1>1, <1>4, <1>5, <1>7, CountTypes, ConstantTypes DEF TimesTyped
  <2>2. age <= sent + since + (PongWithin + 1) /\ age <= sent + since + (late + 1)
    <3> HIDE DEF sent, since, age
    <3> QED BY <2>1
  <2> QED BY <1>6, <2>2
<1> QED BY <1>1, <1>7, <1>8

\* A ping that begins, or is written.
LEMMA CountBegins ==
  ASSUME TimesTyped, Counted, Waits' => Waits, UNCHANGED <<pings, pong_age, late>>,
         task["new"] = "top", task'["new"] = "pinging"
  PROVE  Counted'
<1> SUFFICES ASSUME Waits', pings' # AllowedPings
             PROVE  pings' >= 1 /\ pong_age' <= (Sent' - 1) * Gap + SinceLast' + late'
  BY DEF Counted
<1>1. pings \in Nat /\ pings >= 1 /\ pong_age <= (pings - 1) * Gap + SinceLast + late
  BY DEF Counted, Sent, TimesTyped
<1>2. Sent' - 1 = pings /\ SinceLast' = 0
  BY <1>1 DEF Sent, SinceLast
<1>3. \A m \in Nat : m * Gap \in Nat /\ (m + 1) * Gap = m * Gap + Gap
  BY CountTypes, GapsGrow
<1> DEFINE before == (pings - 1) * Gap
           now == pings * Gap
<1>4. before \in Nat /\ now \in Nat /\ now = before + Gap
  <2>1. pings - 1 \in Nat /\ (pings - 1) + 1 = pings
    BY <1>1
  <2> QED BY <1>1, <1>3, <2>1
<1>5. pong_age <= now + late
  <2> HIDE DEF before, now
  <2>1. pong_age <= before + SinceLast + late
    BY <1>1 DEF before
  <2> QED BY <1>4, <2>1, CountTypes DEF TimesTyped
<1>6. now + 0 + late = now + late
  BY <1>4 DEF TimesTyped
<1> QED BY <1>1, <1>2, <1>5, <1>6

LEMMA CountWritten ==
  ASSUME TimesTyped, RestTyped, Counted, PingPlace, SendPing,
         task["new"] = "pinging", task'["new"] = "after", ping_age' = ping_age,
         Waits' => state = "CONNECTED"
  PROVE  Counted'
<1> SUFFICES ASSUME Waits', pings' # AllowedPings
             PROVE  pings' >= 1 /\ pong_age' <= (Sent' - 1) * Gap + SinceLast' + late'
  BY DEF Counted
<1>1. pings' = pings + 1 /\ pings # AllowedPings /\ pings \in Nat
  BY ConstantTypes DEF SendPing, TimesTyped
<1>2. Sent' = pings + 1 /\ Sent = pings + 1 /\ SinceLast = 0
  BY <1>1 DEF Sent, SinceLast
<1>3. SinceLast' \in Nat
  BY ConstantTypes DEF SinceLast, TimesTyped
<1>4. (Sent - 1) * Gap \in Nat /\ (Sent' - 1) * Gap = (Sent - 1) * Gap
  BY <1>1, <1>2, CountTypes
<1> DEFINE sent == (Sent - 1) * Gap
<1>5. pong_age' <= sent + SinceLast' + late'
  <2>1. CASE ~wait_for_pong_resp
    BY <2>1, <1>3, <1>4 DEF SendPing
  <2>2. CASE wait_for_pong_resp
    <3>1. pong_age' = pong_age /\ late' = late
      BY <2>2 DEF SendPing
    <3>2. pong_age <= sent + SinceLast + late
      BY <2>2, <1>1 DEF Counted, Waits, PingPlace
    <3> DEFINE since == SinceLast'
    <3>3. /\ pong_age <= sent + 0 + late
          /\ sent \in Nat /\ late \in Nat /\ pong_age \in Nat /\ since \in Nat
      BY <3>2, <1>2, <1>3, <1>4 DEF TimesTyped
    <3>4. pong_age <= sent + since + late
      <4> HIDE DEF sent, since
      <4> QED BY <3>3
    <3> QED BY <3>1, <3>4
  <2> QED BY <2>1, <2>2
<1> QED BY <1>1, <1>4, <1>5

LEMMA CountedNext ==
  RestTyped /\ TimesTyped /\ OldLeaves /\ PingPlace /\ Restarted /\ Counted /\
    [Next]_vars => Counted'
<1> SUFFICES ASSUME RestTyped, TimesTyped, OldLeaves, PingPlace, Restarted, Counted,
                    [Next]_vars
             PROVE  Counted'
  OBVIOUS
<1> USE DEF RestTyped, OldLeaves, Tasks
<1>1. ASSUME NEW t \in Tasks, Task(t) PROVE Counted'
  <2>1. CASE Begin(t)
    BY <2>1 DEF Begin, Counted, Waits
  <2>2. CASE BeginConnecting(t)
    BY <2>2 DEF BeginConnecting, Turn, Counted, Waits
  <2>3. CASE Connects(t)
    BY <2>3 DEF Connects, Counted, Waits
  <2>4. CASE ConnectFails(t)
    BY <2>4, CountKept
       DEF ConnectFails, Goes, Abort, Abortable, ws_handler, TaskVarsKept, placeVars,
           sharedVars, pongVars, Waits
  <2>5. CASE ConnectedTurn(t)
    <3>1. /\ t = "new" /\ task["new"] = "top" /\ state = "CONNECTED"
          /\ UNCHANGED <<bits, pongVars>>
      BY <2>5 DEF ConnectedTurn, Turn, Goes, OldLeaves, Tasks, sharedVars
    <3>2. CASE task'["new"] = "pinging" /\ "CLOSE_FRAME_SENT" \notin bits
      BY <3>1, <3>2, CountBegins DEF Waits, pongVars
    <3>3. CASE state' # "CONNECTED"
      BY <3>3 DEF Counted, Waits
    <3>4. CASE /\ "CLOSE_FRAME_SENT" \in bits \/ ~PingDue
               /\ task'["new"] = "after" /\ UNCHANGED ageVars
      <4>1. ping_age <= PingEvery \/ "CLOSE_FRAME_SENT" \in bits
        BY <3>4, ConstantTypes DEF PingDue, TimesTyped
      <4> QED BY <3>1, <3>4, <4>1, CountKept DEF Waits, pongVars, ageVars
    <3> QED BY <2>5, <3>1, <3>2, <3>3, <3>4
         DEF ConnectedTurn, Turn, Goes, Abort, Abortable
  <2>6. CASE PingWritten(t)
    <3>1. t = "new"
      BY <2>6 DEF PingWritten, Goes, OldLeaves, Tasks
    <3>2. /\ SendPing /\ task["new"] = "pinging" /\ task'["new"] = "after"
          /\ ping_age' = ping_age
      BY <2>6, <3>1 DEF PingWritten, Goes
    <3>3. Waits' => state = "CONNECTED"
      BY <2>6 DEF PingWritten, Waits, Abort, ws_handler
    <3> QED BY <3>2, <3>3, CountWritten
  <2>7. CASE WaitingTurn(t)
    BY <2>7, CountKept
       DEF WaitingTurn, Turn, Goes, TaskVarsKept, placeVars, sharedVars, pongVars, Waits
  <2>8. CASE ClosingTurn(t)
    BY <2>8, CountKept
       DEF ClosingTurn, Turn, Goes, TaskVarsKept, placeVars, ageVars, pongVars, Waits
  <2>9. CASE LostTurn(t)
    BY <2>9, CountKept
       DEF LostTurn, Turn, Goes, TaskVarsKept, placeVars, sharedVars, ageVars, pongVars,
           Waits
  <2>10. CASE After(t)
    BY <2>10, CountKept
       DEF After, Goes, TaskVarsKept, placeVars, sharedVars, ageVars, pongVars, Waits
  <2>11. CASE PollTimesOut(t)
    <3>1. /\ t = "new" /\ task["new"] = "poll" /\ task'["new"] = "top"
          /\ pings' = pings /\ (Waits' => Waits)
      BY <2>11 DEF PollTimesOut, Goes, OldLeaves, Tasks, Waits, sharedVars
    <3>2. Tick(TRUE) \/ Tick(FALSE)
      BY <2>11 DEF PollTimesOut
    <3> QED BY <3>1, <3>2, CountPolls, CountLost
  <2>12. CASE Read(t)
    BY <2>12, CountKept
       DEF Read, Goes, PongReceived, TaskVarsKept, placeVars, sharedVars, pongVars,
           Waits
  <2>13. CASE ReadFails(t)
    BY <2>13, CountKept
       DEF ReadFails, Goes, Abort, Abortable, ws_handler, TaskVarsKept, placeVars,
           sharedVars, pongVars, Waits
  <2>14. CASE WaitToReconnect(t)
    <3>1. /\ t = "new" /\ task["new"] = "waiting" /\ task'["new"] = "top"
          /\ pings' = pings /\ (Waits' => Waits)
      BY <2>14 DEF WaitToReconnect, Goes, OldLeaves, Tasks, Waits, sharedVars
    <3>2. CASE Tick(FALSE)
      BY <3>1, <3>2, CountLost
    <3>3. CASE UNCHANGED ageVars
      BY <2>14, <3>1, <3>3, CountKept DEF WaitToReconnect, ageVars, Waits
    <3> QED BY <2>14, <3>2, <3>3 DEF WaitToReconnect
  <2>15. CASE Closed(t)
    BY <2>15, CountKept
       DEF Closed, Goes, ws_handler, TaskVarsKept, placeVars, ageVars, pongVars, Waits
  <2>16. CASE LeaveLoop(t)
    BY <2>16, CountKept
       DEF LeaveLoop, Goes, TaskVarsKept, placeVars, sharedVars, ageVars, pongVars,
           Waits
  <2>17. CASE Finish(t)
    BY <2>17, CountKept DEF Finish, Goes, ws_handler, pongVars, Waits
  <2>18. CASE TaskGone(t)
    BY <2>18, CountKept
       DEF TaskGone, Goes, TaskVarsKept, placeVars, sharedVars, ageVars, pongVars, Waits
  <2> QED BY <1>1, <2>1, <2>2, <2>3, <2>4, <2>5, <2>6, <2>7, <2>8, <2>9, <2>10, <2>11,
           <2>12, <2>13, <2>14, <2>15, <2>16, <2>17, <2>18 DEF Task
<1>2. CASE Caller
  <2>1. CASE Started
    BY <2>1, CountKept DEF Started, CallerVarsKept, ClientKept, pongVars, Restarted, Waits
  <2>2. CASE LockToClose
    BY <2>2, CountKept
       DEF LockToClose, CallerVarsKept, pongVars, sharedVars, serverVars, Waits
  <2>3. CASE WriteClose
    BY <2>3, CountKept
       DEF WriteClose, WriteFails, Abort, Abortable, ws_handler, sharedVars, pongVars,
           Waits
  <2>4. CASE AwaitStopped
    BY <2>4, CountKept
       DEF AwaitStopped, CallerVarsKept, pongVars, ClientKept, serverVars, Waits
  <2>5. CASE CloseInTime
    BY <2>5, CountKept
       DEF CloseInTime, CallerVarsKept, pongVars, ClientKept, serverVars, sharedVars,
           Waits
  <2>6. CASE CloseTimesOut
    BY <2>6, CountKept
       DEF CloseTimesOut, RequestStop, CallerVarsKept, pongVars, ClientKept, serverVars,
           Waits
  <2>7. CASE StopWaited
    BY <2>7, CountKept
       DEF StopWaited, CallerVarsKept, pongVars, serverVars, sharedVars, Waits
  <2>8. CASE Destroyed
    BY <2>8, CountKept
       DEF Destroyed, CallerVarsKept, pongVars, serverVars, sharedVars, Waits
  <2> QED BY <1>2, <2>1, <2>2, <2>3, <2>4, <2>5, <2>6, <2>7, <2>8 DEF Caller
<1>3. CASE Start
  BY <1>3, CountKept DEF Start, CallerVarsKept, pongVars, sharedVars, Waits
<1>4. CASE Close
  BY <1>4, CountKept
     DEF Close, CallerVarsKept, pongVars, ClientKept, serverVars, sharedVars, Waits
<1>5. CASE Destroy
  BY <1>5, CountKept
     DEF Destroy, RequestStop, CallerVarsKept, pongVars, ClientKept, serverVars,
         sharedVars, Waits
<1>6. CASE InitClient
  BY <1>6, CountKept DEF InitClient, placeVars, serverVars, Waits
<1>7. CASE BeginSend
  BY <1>7, CountKept
     DEF BeginSend, SenderVarsKept, sharedVars, pongVars, serverVars, Waits
<1>8. CASE TimePasses
  BY <1>8, CountLost DEF TimePasses, Waits, sharedVars
<1>9. CASE Sender
  BY <1>9, CountKept
     DEF Sender, LockToSend, SenderVarsKept, sharedVars, pongVars, serverVars, Waits,
         WriteFrame, WriteFails, Abort, Abortable, ws_handler
<1>10. CASE Server
  BY <1>10, CountKept
     DEF Server, ServerSends, ServerVarsKept, sharedVars, pongVars, placeVars,
         serverVars, Waits, ServerAnswers, ServerCloses, ServerFallsSilent,
         ConnectionBreaks
<1>11. CASE UNCHANGED vars
  BY <1>11, CountKept DEF vars, Waits
<1> QED BY <1>1, <1>2, <1>3, <1>4, <1>5, <1>6, <1>7, <1>8, <1>9, <1>10, <1>11 DEF Next

\* The time that the pings leave.
Left == PongWithin - PingEvery - (AllowedPings - 2) * (PingEvery + 1)

\* Too few pings have been sent only when as much was lost.
PaidFor == error_type = "PONG_TIMEOUT" => pings = AllowedPings \/ late > Left

LEMMA LeftBounds ==
  /\ Left \in Int
  /\ \A m \in Int : m <= AllowedPings - 2
       => m * Gap \in Int /\ m * Gap + PingEvery + Left <= PongWithin
<1>1. PingEvery \in Nat /\ PongWithin \in Nat /\ AllowedPings \in Nat /\ Gap = PingEvery + 1
  BY ConstantTypes DEF Gap
<1> DEFINE most == (AllowedPings - 2) * Gap
<1>2. most \in Int /\ Left = PongWithin - PingEvery - most
  BY <1>1 DEF Left
<1>3. ASSUME NEW m \in Int, m <= AllowedPings - 2
      PROVE  m * Gap \in Int /\ m * Gap <= most
  BY <1>1, <1>3, GapsGrow
<1>4. ASSUME NEW m \in Int, m <= AllowedPings - 2
      PROVE  m * Gap \in Int /\ m * Gap + PingEvery + Left <= PongWithin
  <2> DEFINE n == m * Gap
  <2>1. n \in Int /\ n <= most
    BY <1>3, <1>4
  <2> HIDE DEF n, most
  <2>2. n + PingEvery + Left <= PongWithin
    BY <1>1, <1>2, <2>1
  <2> QED BY <2>1, <2>2 DEF n
<1> QED BY <1>1, <1>2, <1>4

\* A pong found overdue after m pings, with PingEvery ticks since the last one began.
LEMMA Overdue ==
  ASSUME TimesTyped, NEW m \in Int, m <= AllowedPings - 2, pong_age > PongWithin,
         NEW since \in Int, since <= PingEvery, pong_age <= m * Gap + since + late
  PROVE  late > Left
<1> DEFINE sent == m * Gap
<1>1. /\ sent \in Int /\ sent + PingEvery + Left <= PongWithin /\ Left \in Int
      /\ pong_age <= sent + since + late /\ pong_age \in Int /\ late \in Int
      /\ PingEvery \in Int /\ PongWithin \in Int
  BY LeftBounds, ConstantTypes DEF TimesTyped
<1> HIDE DEF sent
<1> QED BY <1>1

\* A pong found overdue at a turn without a ping ...
LEMMA OverdueAtTurn ==
  ASSUME TimesTyped, Counted, Waits, task["new"] = "top", ~PingDue, PongOverdue
  PROVE  pings = AllowedPings \/ late > Left
<1> SUFFICES ASSUME pings # AllowedPings PROVE late > Left
  OBVIOUS
<1>1. /\ pings - 1 \in Int /\ pings - 1 <= AllowedPings - 2
      /\ ping_age <= PingEvery /\ ping_age \in Int /\ pong_age > PongWithin
  BY ConstantTypes DEF TimesTyped, PingDue, PongOverdue
<1>2. pong_age <= (pings - 1) * Gap + ping_age + late
  BY DEF Counted, Sent, SinceLast
<1> QED BY <1>1, <1>2, Overdue

\* ... and at one that has written a ping.
LEMMA OverdueWithPing ==
  ASSUME TimesTyped, Counted, Waits, task["new"] = "pinging", SendPing, PongOverdue,
         pings' # AllowedPings
  PROVE  late > Left
<1>1. /\ pings \in Int /\ pings <= AllowedPings - 2 /\ pings # AllowedPings
      /\ pong_age > PongWithin
  BY ConstantTypes DEF TimesTyped, SendPing, PongOverdue
<1>2. pong_age <= pings * Gap + 0 + late
  <2>1. Sent - 1 = pings /\ SinceLast = 0
    BY <1>1 DEF Sent, SinceLast
  <2> QED BY <1>1, <2>1 DEF Counted
<1> QED BY <1>1, <1>2, Overdue, ConstantTypes

LEMMA PaidNext ==
  RestTyped /\ TimesTyped /\ OldLeaves /\ PingPlace /\ GivenUp /\ Counted /\ PaidFor /\
    [Next]_vars => PaidFor'
<1> SUFFICES ASSUME RestTyped, TimesTyped, OldLeaves, PingPlace, GivenUp, Counted,
                    PaidFor, [Next]_vars
             PROVE  PaidFor'
  OBVIOUS
<1> USE DEF RestTyped, TimesTyped, GivenUp, PaidFor
<1>1. ASSUME NEW t \in Tasks, Task(t) PROVE PaidFor'
  <2>1. CASE Begin(t)
    BY <2>1 DEF Begin, Goes, TaskVarsKept, placeVars, ageVars, pongVars
  <2>2. CASE BeginConnecting(t)
    BY <2>2
       DEF BeginConnecting, Turn, Goes, TaskVarsKept, placeVars, sharedVars, ageVars,
           pongVars
  <2>3. CASE Connects(t)
    BY <2>3 DEF Connects, Goes, ws_handler, sharedVars, placeVars
  <2>4. CASE ConnectFails(t)
    BY <2>4
       DEF ConnectFails, Goes, Abort, Abortable, ws_handler, TaskVarsKept, placeVars,
           sharedVars, pongVars
  <2>5. CASE ConnectedTurn(t)
    <3>1. /\ t = "new" /\ task["new"] = "top" /\ state = "CONNECTED"
          /\ UNCHANGED pongVars
      BY <2>5 DEF ConnectedTurn, Turn, Goes, OldLeaves, Tasks
    <3>2. CASE error_type' = error_type
      BY <3>1, <3>2 DEF pongVars
    <3>3. CASE "CLOSE_FRAME_SENT" \notin bits /\ ~PingDue /\ PongOverdue
      <4>1. Waits
        BY <3>1, <3>3 DEF Waits, PongOverdue
      <4> QED BY <3>1, <3>3, <4>1, OverdueAtTurn DEF pongVars
    <3> QED BY <2>5, <3>2, <3>3 DEF ConnectedTurn
  <2>6. CASE PingWritten(t)
    <3>1. t = "new" /\ SendPing
      BY <2>6 DEF PingWritten, Goes, OldLeaves, Tasks
    <3>2. CASE Abort("PONG_TIMEOUT") /\ PongOverdue /\ Abortable
      <4>1. Waits /\ task["new"] = "pinging" /\ late' = late
        BY <2>6, <3>1, <3>2 DEF PingWritten, Goes, PongOverdue, PingPlace, Abortable, Waits,
             SendPing
      <4> QED BY <3>1, <3>2, <4>1, OverdueWithPing
    <3>3. CASE error_type' = error_type
      <4>1. error_type = "PONG_TIMEOUT" => late' = late /\ pings' \in {pings, pings + 1}
                                           /\ (pings = AllowedPings => pings' = pings)
        BY <3>1 DEF SendPing
      <4> QED BY <3>3, <4>1
    <3> QED BY <2>6, <3>2, <3>3 DEF PingWritten, Abort
  <2>7. CASE WaitingTurn(t)
    BY <2>7 DEF WaitingTurn, Turn, Goes, TaskVarsKept, placeVars, sharedVars, pongVars
  <2>8. CASE ClosingTurn(t)
    BY <2>8 DEF ClosingTurn, Turn, Goes, TaskVarsKept, placeVars, ageVars, pongVars
  <2>9. CASE LostTurn(t)
    BY <2>9
       DEF LostTurn, Turn, Goes, TaskVarsKept, placeVars, sharedVars, ageVars, pongVars
  <2>10. CASE After(t)
    BY <2>10 DEF After, Goes, TaskVarsKept, placeVars, sharedVars, ageVars, pongVars
  <2>11. CASE PollTimesOut(t)
    BY <2>11, LateGrows DEF PollTimesOut, Goes, TaskVarsKept, placeVars, sharedVars
  <2>12. CASE Read(t)
    BY <2>12 DEF Read, Goes, PongReceived, TaskVarsKept, placeVars, sharedVars, pongVars
  <2>13. CASE ReadFails(t)
    BY <2>13
       DEF ReadFails, Goes, Abort, Abortable, ws_handler, TaskVarsKept, placeVars,
           sharedVars, pongVars
  <2>14. CASE WaitToReconnect(t)
    <3>1. wait_for_pong_resp => late' \in {late, late + 1}
      <4>1. CASE Tick(FALSE)
        BY <4>1, LateGrows
      <4>2. CASE UNCHANGED ageVars
        BY <4>2 DEF ageVars
      <4> QED BY <2>14, <4>1, <4>2 DEF WaitToReconnect
    <3> QED BY <2>14, <3>1, LeftBounds DEF WaitToReconnect, TaskVarsKept
  <2>15. CASE Closed(t)
    BY <2>15 DEF Closed, Goes, ws_handler, TaskVarsKept, placeVars, ageVars, pongVars
  <2>16. CASE LeaveLoop(t)
    BY <2>16 DEF LeaveLoop, Goes, TaskVarsKept, placeVars, sharedVars, ageVars, pongVars
  <2>17. CASE Finish(t)
    BY <2>17 DEF Finish, Goes, ws_handler, pongVars
  <2>18. CASE TaskGone(t)
    BY <2>18 DEF TaskGone, Goes, TaskVarsKept, placeVars, sharedVars, ageVars, pongVars
  <2> QED BY <1>1, <2>1, <2>2, <2>3, <2>4, <2>5, <2>6, <2>7, <2>8, <2>9, <2>10, <2>11,
           <2>12, <2>13, <2>14, <2>15, <2>16, <2>17, <2>18 DEF Task
<1>2. CASE Caller
  <2>1. CASE Started
    BY <2>1 DEF Started, CallerVarsKept, pongVars, ClientKept, serverVars
  <2>2. CASE LockToClose
    BY <2>2 DEF LockToClose, CallerVarsKept, pongVars, sharedVars, serverVars
  <2>3. CASE WriteClose
    BY <2>3
       DEF WriteClose, WriteFails, Abort, Abortable, ws_handler, sharedVars, pongVars
  <2>4. CASE AwaitStopped
    BY <2>4 DEF AwaitStopped, CallerVarsKept, pongVars, ClientKept, serverVars
  <2>5. CASE CloseInTime
    BY <2>5
       DEF CloseInTime, CallerVarsKept, pongVars, ClientKept, serverVars, sharedVars
  <2>6. CASE CloseTimesOut
    BY <2>6
       DEF CloseTimesOut, RequestStop, CallerVarsKept, pongVars, ClientKept, serverVars
  <2>7. CASE StopWaited
    BY <2>7 DEF StopWaited, CallerVarsKept, pongVars, serverVars, sharedVars
  <2>8. CASE Destroyed
    BY <2>8 DEF Destroyed, CallerVarsKept, pongVars, serverVars, sharedVars
  <2> QED BY <1>2, <2>1, <2>2, <2>3, <2>4, <2>5, <2>6, <2>7, <2>8 DEF Caller
<1>3. CASE Start
  BY <1>3 DEF Start, CallerVarsKept, pongVars, sharedVars
<1>4. CASE Close
  BY <1>4 DEF Close, CallerVarsKept, pongVars, ClientKept, serverVars, sharedVars
<1>5. CASE Destroy
  BY <1>5
     DEF Destroy, RequestStop, CallerVarsKept, pongVars, ClientKept, serverVars,
         sharedVars
<1>6. CASE InitClient
  BY <1>6 DEF InitClient, placeVars, serverVars
<1>7. CASE BeginSend
  BY <1>7 DEF BeginSend, SenderVarsKept, sharedVars, pongVars, serverVars
<1>8. CASE TimePasses
  <2>1. wait_for_pong_resp => late' \in {late, late + 1}
    BY <1>8, LateGrows DEF TimePasses
  <2> QED BY <1>8, <2>1, LeftBounds DEF TimePasses
<1>9. CASE Sender
  <2>1. CASE LockToSend
    BY <2>1 DEF LockToSend, SenderVarsKept, sharedVars, pongVars, serverVars
  <2>2. CASE WriteFrame
    BY <2>2
       DEF WriteFrame, WriteFails, SenderVarsKept, Abort, Abortable, ws_handler,
           sharedVars, pongVars
  <2> QED BY <1>9, <2>1, <2>2 DEF Sender
<1>10. CASE Server
  BY <1>10
     DEF Server, ServerSends, ServerVarsKept, sharedVars, pongVars, placeVars,
         serverVars, ServerAnswers, ServerCloses, ServerFallsSilent, ConnectionBreaks
<1>11. CASE UNCHANGED vars
  BY <1>11 DEF vars
<1> QED BY <1>1, <1>2, <1>3, <1>4, <1>5, <1>6, <1>7, <1>8, <1>9, <1>10, <1>11 DEF Next

-----------------------------------------------------------------------------
(* The theorems.                                                            *)

\* What holds however the tasks are scheduled ...
Inv ==
  /\ FieldsTyped /\ RestTyped /\ TimesTyped /\ Owes
  /\ StartableAgain /\ Told /\ GivenUp /\ PongInTime /\ LiveIsKept

\* ... and if the scheduler is as prompt as Prompt says.
PromptInv == /\ Inv /\ OldLeaves /\ Freed /\ LockHeld
             /\ PingPlace /\ Restarted /\ Counted /\ PaidFor

LEMMA InitInv == Init => PromptInv
<1> SUFFICES ASSUME Init PROVE PromptInv
  OBVIOUS
<1> USE DEF Init
<1>1. FieldsTyped /\ LockHeld /\ Owes
  BY DEF FieldsTyped, LockHeld, Owes, Tasks, HoldsLock
<1>2. RestTyped
  BY InboxSeqs DEF RestTyped, Tasks, Places
<1>3. TimesTyped
  BY ConstantTypes DEF TimesTyped
<1>4. StartableAgain /\ Told
  BY DEF StartableAgain, Told, Tasks, OutsideLoop
<1>5. GivenUp /\ PongInTime /\ LiveIsKept
  BY DEF GivenUp, PongInTime, LiveIsKept
<1>6. OldLeaves /\ Freed /\ PingPlace /\ Restarted
  BY DEF OldLeaves, Freed, PingPlace, Restarted, Tasks
<1>7. Counted /\ PaidFor
  BY DEF Counted, Waits, PaidFor
<1> QED BY <1>1, <1>2, <1>3, <1>4, <1>5, <1>6, <1>7 DEF PromptInv, Inv

LEMMA NextInv == Inv /\ [Next]_vars => Inv'
BY FieldsNext, RestNext, TimesNext, OwesNext, EndedNext, ToldNext, GivenUpNext, PongNext,
   KeptNext, Zenon DEF Inv

LEMMA Holds == Spec => []Inv
<1>1. Init => Inv
  BY InitInv DEF PromptInv
<1> QED BY <1>1, NextInv, PTL DEF Spec

LEMMA PromptHolds ==
  ASSUME Prompt = TRUE
  PROVE  Spec => []PromptInv
<1>1. PromptInv /\ [Next]_vars => PromptInv'
  BY NextInv, OldNext, FreedNext, LockNext, PingPlaceNext, RestartedNext, CountedNext,
     PaidNext, Zenon DEF PromptInv, Inv
<1> QED BY InitInv, <1>1, PTL DEF Spec

\* The type invariant, and with it that the client's lock is held by the one whose place
\* says so and nobody else, over any number of sessions, uninits and new inits
\* (esp_websocket_client.c:683, 1146-1319), with a start that finds a task still on
\* its way out too; the scheduler is prompt.
THEOREM TypeCorrect ==
  ASSUME Prompt = TRUE
  PROVE  Spec => []TypeOK
<1>1. PromptInv => TypeOK
  BY TypeParts DEF PromptInv, Inv
<1> QED BY <1>1, PromptHolds, PTL

\* A client that no task is left in is in the one state that esp_websocket_client_start
\* accepts (esp_websocket_client.c:1390), however its tasks overlapped and were
\* scheduled.  It says nothing of a client that a task is left in, nor of what
\* esp32_websocket.c believes.
THEOREM ClientStartsAgain == Spec => []StartableAgain
<1>1. Inv => StartableAgain
  BY DEF Inv
<1> QED BY <1>1, Holds, PTL

\* The library has no connection, while esp32_websocket.c believes in one, only after a
\* close that the server did not answer in time, or after a start that found a task of an
\* earlier one (esp32_websocket.c:46-88), however the tasks are scheduled.
THEOREM TimeoutsAloneLeaveStale == Spec => []StaleOnlyAfterTimeout
<1>1. Inv => StaleOnlyAfterTimeout
  <2> SUFFICES ASSUME Inv, caller = "idle", ws = "STARTED", state = "UNKNOW", ~overlapped
               PROVE  "REQUESTED_STOP" \in bits
    BY DEF StaleOnlyAfterTimeout
  <2>1. /\ task["new"] \in OutsideLoop /\ task["new"] # "begin"
        /\ task["new"] \in {"none", "finish", "leaving"} => ~run
        /\ ~run => "REQUESTED_STOP" \in bits
    BY DEF Inv, Told
  <2> QED BY <2>1 DEF OutsideLoop
<1> QED BY <1>1, Holds, PTL

\* A connection to a server that answers is given up for want of a pong
\* (esp_websocket_client.c:1266-1272) only when the task's reads and writes, its waits
\* for the lock and the other tasks have cost more than the pong timeout less the
\* server's time to answer, however they are scheduled.
THEOREM LiveConnectionIsKept == Spec => []LiveIsKept
<1>1. Inv => LiveIsKept
  BY DEF Inv
<1> QED BY <1>1, Holds, PTL

\* Fewer pings than the timers allow (esp32_websocket.c:100 says three) have been sent
\* to a connection that is declared dead only when as much time was lost as they leave;
\* the scheduler is prompt.
THEOREM AllPingsAreSent ==
  ASSUME Prompt = TRUE
  PROVE  Spec => []GivesUpFairly
<1>1. PromptInv => GivesUpFairly
  BY DEF PromptInv, Inv, PaidFor, Left, GivesUpFairly
<1> QED BY <1>1, PromptHolds, PTL

\* With the timers of esp32_websocket.c:99-100, a ping in ten seconds and a pong in
\* thirty, the time to be lost is ten seconds or more.
LEMMA CodeLosesTenSeconds ==
  ASSUME PingEvery = 10, PongWithin = 30
  PROVE  AllowedPings = 3 /\ Left = 9
BY DEF AllowedPings, Left

=============================================================================
