------------------------ MODULE MmwaveLifecycle_proofs ------------------------
(***************************************************************************)
(* Proofs about starting and stopping the driver, for queues of any        *)
(* capacity, whatever fails and however often it is started.               *)
(***************************************************************************)
EXTENDS MmwaveLifecycle, TLAPS

LEMMA CreatedBoolean == \A b \in Created : b \in BOOLEAN
BY DEF Created

LEMMA PostedBounds ==
  ASSUME NEW capacity \in Nat \ {0}, NEW n \in 0 .. capacity
  PROVE  Posted(n, capacity) \in 0 .. capacity
BY DEF Posted

\* The types, group by group, as the actions leave them unchanged.
LayersTyped == app_state \in States /\ hal_state \in States /\ core_bound \in BOOLEAN
CallTyped ==
  /\ client \in {"idle", "start_conv", "start_tasks", "start_dec", "stop_wait",
                "stop_dec", "deinit_wait"}
  /\ fault \in {"none", "null_mutex", "null_queue"}
UartTyped == driver \in BOOLEAN /\ intr \in BOOLEAN /\ uart_events \in 0 .. UartEvents
DispTyped ==
  /\ rx_closed \in BOOLEAN /\ dispatcher_task \in BOOLEAN
  /\ hal_dispatcher_ended_flag \in BOOLEAN
  /\ dispatcher \in {"none", "top", "empty", "recv", "send", "exit", "tail"}
EvqTyped == event_queue \in BOOLEAN /\ events \in 0 .. HalEvents
HalqTyped ==
  hal_queues \in BOOLEAN /\ frames \in 0 .. MaxFrames /\ tx_frames \in 0 .. MaxFrames
RxTyped ==
  /\ rx \in {"none", "top", "parse", "check", "exit"} /\ rx_tails \in Nat
  /\ rx_task \in BOOLEAN /\ flag1 \in BOOLEAN
TxTyped ==
  /\ tx \in {"none", "top", "check", "exit"} /\ tx_tails \in Nat
  /\ tx_task \in BOOLEAN /\ flag2 \in BOOLEAN
DecTyped ==
  /\ app_queues \in BOOLEAN /\ end_flag \in BOOLEAN /\ task_ended \in BOOLEAN
  /\ decoder \in {"none", "top", "get", "decode", "empty"}

Typed ==
  /\ LayersTyped /\ CallTyped /\ UartTyped /\ DispTyped /\ EvqTyped
  /\ HalqTyped /\ RxTyped /\ TxTyped /\ DecTyped

LEMMA TypeParts == (TypeOK <=> Typed) /\ (Typed' => TypeOK')
BY Zenon
   DEF Typed, TypeOK, LayersTyped, CallTyped, UartTyped, DispTyped, EvqTyped, HalqTyped,
       RxTyped,
       TxTyped, DecTyped

LEMMA Unchanged ==
  /\ LayersTyped /\ UNCHANGED layerVars => LayersTyped'
  /\ CallTyped /\ UNCHANGED <<client, fault>> => CallTyped'
  /\ UartTyped /\ UNCHANGED uartVars => UartTyped'
  /\ DispTyped /\ UNCHANGED dispVars => DispTyped'
  /\ EvqTyped /\ UNCHANGED evqVars => EvqTyped'
  /\ HalqTyped /\ UNCHANGED halqVars => HalqTyped'
  /\ RxTyped /\ UNCHANGED rxVars => RxTyped'
  /\ TxTyped /\ UNCHANGED txVars => TxTyped'
  /\ DecTyped /\ UNCHANGED decVars => DecTyped'
<1>1. LayersTyped /\ UNCHANGED layerVars => LayersTyped'
  BY DEF LayersTyped, layerVars, States
<1>2. CallTyped /\ UNCHANGED <<client, fault>> => CallTyped'
  BY DEF CallTyped
<1>3. UartTyped /\ UNCHANGED uartVars => UartTyped'
  BY DEF UartTyped, uartVars
<1>4. DispTyped /\ UNCHANGED dispVars => DispTyped'
  BY DEF DispTyped, dispVars
<1>5. EvqTyped /\ UNCHANGED evqVars => EvqTyped'
  BY DEF EvqTyped, evqVars
<1>6. HalqTyped /\ UNCHANGED halqVars => HalqTyped'
  BY DEF HalqTyped, halqVars
<1>7. RxTyped /\ UNCHANGED rxVars => RxTyped'
  BY DEF RxTyped, rxVars
<1>8. TxTyped /\ UNCHANGED txVars => TxTyped'
  BY DEF TxTyped, txVars
<1>9. DecTyped /\ UNCHANGED decVars => DecTyped'
  BY DEF DecTyped, decVars
<1> QED BY <1>1, <1>2, <1>3, <1>4, <1>5, <1>6, <1>7, <1>8, <1>9, Zenon

LEMMA InitTypeOK == Init => TypeOK
<1> SUFFICES ASSUME Init PROVE TypeOK
  OBVIOUS
<1>0. 0 \in 0 .. UartEvents /\ 0 \in 0 .. HalEvents /\ 0 \in 0 .. MaxFrames /\ 0 \in Nat
  BY LifecycleAssumption DEF LifecycleAssumption
<1>1. LayersTyped /\ CallTyped /\ UartTyped
  BY <1>0, Zenon DEF Init, LayersTyped, CallTyped, UartTyped, States
<1>2. DispTyped /\ EvqTyped /\ HalqTyped
  BY <1>0, Zenon DEF Init, DispTyped, EvqTyped, HalqTyped
<1>3. RxTyped /\ TxTyped /\ DecTyped
  BY <1>0, Zenon DEF Init, RxTyped, TxTyped, DecTyped
<1> QED BY <1>1, <1>2, <1>3, TypeParts DEF Typed

LEMMA NextTypeOK == TypeOK /\ [Next]_vars => TypeOK'
<1> SUFFICES ASSUME TypeOK, [Next]_vars PROVE TypeOK'
  OBVIOUS
<1>t. /\ LayersTyped /\ CallTyped /\ UartTyped /\ DispTyped /\ EvqTyped
      /\ HalqTyped /\ RxTyped /\ TxTyped /\ DecTyped
  BY TypeParts DEF Typed
<1>0. 0 \in 0 .. UartEvents /\ 0 \in 0 .. HalEvents /\ 0 \in 0 .. MaxFrames
  BY LifecycleAssumption DEF LifecycleAssumption
<1>b. /\ \A n \in 0 .. MaxFrames : /\ n < MaxFrames => n + 1 \in 0 .. MaxFrames
                                  /\ n > 0 => n - 1 \in 0 .. MaxFrames
      /\ \A n \in 0 .. UartEvents : /\ n < UartEvents => n + 1 \in 0 .. UartEvents
                                   /\ n > 0 => n - 1 \in 0 .. UartEvents
      /\ \A n \in 0 .. HalEvents : n > 0 => n - 1 \in 0 .. HalEvents
      /\ \A n \in Nat : n + 1 \in Nat /\ (n > 0 => n - 1 \in Nat)
  BY LifecycleAssumption DEF LifecycleAssumption
<1>1. CASE Client
  <2>1. CASE StartIsr
    <3>1. UNCHANGED <<layerVars, evqVars, halqVars, decVars>>
      BY <2>1, <1>t, Zenon DEF StartIsr
    <3>2. CallTyped'
      BY <2>1, <1>t, Zenon DEF StartIsr, ResetFlags, OpenLine, CallTyped, States
    <3>3. UartTyped'
      BY <2>1, <1>t, Zenon DEF StartIsr, ResetFlags, OpenLine, UartTyped, uartVars
    <3>4. DispTyped'
      BY <2>1, <1>t, Zenon DEF StartIsr, ResetFlags, OpenLine, DispTyped, dispVars
    <3>5. RxTyped'
      BY <2>1, <1>t, Zenon DEF StartIsr, ResetFlags, OpenLine, RxTyped, rxVars
    <3>6. TxTyped'
      BY <2>1, <1>t, Zenon DEF StartIsr, ResetFlags, OpenLine, TxTyped, txVars
    <3> QED BY <3>1, <3>2, <3>3, <3>4, <3>5, <3>6, <1>t, TypeParts, Unchanged, Zenon DEF Typed
  <2>2. CASE StopIsr
    <3>1. UNCHANGED <<layerVars, evqVars, halqVars, rxVars, txVars, decVars>>
      BY <2>2, <1>t, Zenon DEF StopIsr
    <3>2. CallTyped'
      BY <2>2, <1>t, Zenon DEF StopIsr, CloseLine, CallTyped, States
    <3>3. UartTyped'
      BY <2>2, <1>t, Zenon DEF StopIsr, CloseLine, UartTyped, uartVars
    <3>4. DispTyped'
      BY <2>2, <1>t, Zenon DEF StopIsr, CloseLine, DispTyped, dispVars
    <3> QED BY <3>1, <3>2, <3>3, <3>4, <1>t, TypeParts, Unchanged, Zenon DEF Typed
  <2>3. CASE DeinitSys
    <3>1. UNCHANGED <<layerVars, uartVars, dispVars, evqVars, halqVars, rxVars, txVars, decVars>>
      BY <2>3, <1>t, Zenon DEF DeinitSys
    <3>2. CallTyped'
      BY <2>3, <1>t, Zenon DEF DeinitSys, CallTyped, States
    <3> QED BY <3>1, <3>2, <1>t, TypeParts, Unchanged, Zenon DEF Typed
  <2>4. CASE Send
    <3>1. UNCHANGED <<layerVars, uartVars, dispVars, evqVars, rxVars, txVars, decVars>>
      BY <2>4, <1>t, Zenon DEF Send
    <3>2. CallTyped'
      BY <2>4, <1>b, <1>t, Zenon DEF Send, CallTyped, States
    <3>3. HalqTyped'
      <4>1. UNCHANGED <<hal_queues, frames>>
        BY <2>4, Zenon DEF Send
      <4>2. tx_frames' = tx_frames \/ (tx_frames < MaxFrames /\ tx_frames' = tx_frames + 1)
        BY <2>4 DEF Send
      <4> QED BY <4>1, <4>2, <1>t, LifecycleAssumption DEF HalqTyped, LifecycleAssumption
    <3> QED BY <3>1, <3>2, <3>3, <1>t, TypeParts, Unchanged, Zenon DEF Typed
  <2>5. CASE InitHalFails
    <3>1. UNCHANGED <<client, fault, dispVars, halqVars, rxVars, txVars, decVars>>
      BY <2>5, <1>t, Zenon DEF InitHalFails, InitCall
    <3>2. LayersTyped'
      BY <2>5, <1>0, <1>t, Zenon
         DEF InitHalFails, InitCall, NoDriver, LayersTyped, layerVars, States
    <3>3. UartTyped'
      BY <2>5, <1>0, <1>t, Zenon DEF InitHalFails, InitCall, NoDriver, UartTyped, uartVars
    <3>4. EvqTyped'
      BY <2>5, <1>0, <1>t, Zenon DEF InitHalFails, InitCall, NoDriver, EvqTyped, evqVars
    <3> QED BY <3>1, <3>2, <3>3, <3>4, <1>t, TypeParts, Unchanged, Zenon DEF Typed
  <2>6. CASE InitSys
    <3>1. UNCHANGED <<client, fault, dispVars, rxVars, txVars>>
      BY <2>6, <1>t, Zenon DEF InitSys, InitCall
    <3>2. LayersTyped'
      BY <2>6, <1>0, CreatedBoolean, <1>t, Zenon
         DEF InitSys, InitCall, LayersTyped, layerVars, States
    <3>3. UartTyped'
      BY <2>6, <1>0, CreatedBoolean, <1>t, Zenon DEF InitSys, InitCall, UartTyped, uartVars
    <3>4. EvqTyped'
      BY <2>6, <1>0, CreatedBoolean, <1>t, Zenon DEF InitSys, InitCall, EvqTyped, evqVars
    <3>5. HalqTyped'
      BY <2>6, <1>0, CreatedBoolean, <1>t, Zenon DEF InitSys, InitCall, HalqTyped, halqVars
    <3>6. DecTyped'
      BY <2>6, <1>0, CreatedBoolean, <1>t, Zenon DEF InitSys, InitCall, DecTyped, decVars
    <3> QED BY <3>1, <3>2, <3>3, <3>4, <3>5, <3>6, <1>t, TypeParts, Unchanged, Zenon DEF Typed
  <2> QED BY <1>1, <2>1, <2>2, <2>3, <2>4, <2>5, <2>6 DEF Client
<1>2. CASE InCall
  <2>1. CASE StartConv
    <3>1. UNCHANGED <<layerVars, halqVars, rxVars, txVars, decVars>>
      BY <2>1, <1>t, Zenon DEF StartConv
    <3>2. CallTyped'
      BY <2>1, <1>0, CreatedBoolean, <1>t, Zenon DEF StartConv, CallTyped, States
    <3>3. UartTyped'
      BY <2>1, <1>0, CreatedBoolean, <1>t, Zenon DEF StartConv, UartTyped, uartVars
    <3>4. EvqTyped'
      BY <2>1, <1>0, CreatedBoolean, <1>t, Zenon DEF StartConv, EvqTyped, evqVars
    <3>5. DispTyped'
      BY <2>1, <1>0, CreatedBoolean, <1>t, Zenon DEF StartConv, DispTyped, dispVars
    <3> QED BY <3>1, <3>2, <3>3, <3>4, <3>5, <1>t, TypeParts, Unchanged, Zenon DEF Typed
  <2>2. CASE StartTasks
    <3>1. UNCHANGED <<uartVars, dispVars, evqVars, halqVars, decVars>>
      BY <2>2, <1>t, Zenon DEF StartTasks
    <3>2. LayersTyped'
      BY <2>2, CreatedBoolean, <1>t, Zenon DEF StartTasks, LayersTyped, layerVars, States
    <3>3. CallTyped'
      BY <2>2, CreatedBoolean, <1>t, Zenon DEF StartTasks, CallTyped, States
    <3>4. RxTyped'
      BY <2>2, CreatedBoolean, <1>t, Zenon DEF StartTasks, RxTyped, rxVars
    <3>5. TxTyped'
      BY <2>2, CreatedBoolean, <1>t, Zenon DEF StartTasks, TxTyped, txVars
    <3> QED BY <3>1, <3>2, <3>3, <3>4, <3>5, <1>t, TypeParts, Unchanged, Zenon DEF Typed
  <2>3. CASE StartDec
    <3>1. UNCHANGED <<uartVars, dispVars, evqVars, halqVars, rxVars, txVars>>
      BY <2>3, <1>t, Zenon DEF StartDec
    <3>2. LayersTyped'
      BY <2>3, <1>t, Zenon DEF StartDec, LayersTyped, layerVars, States
    <3>3. CallTyped'
      BY <2>3, <1>t, Zenon DEF StartDec, CallTyped, States
    <3>4. DecTyped'
      BY <2>3, <1>t, Zenon DEF StartDec, DecTyped, decVars
    <3> QED BY <3>1, <3>2, <3>3, <3>4, <1>t, TypeParts, Unchanged, Zenon DEF Typed
  <2>4. CASE StopWait
    <3>1. UNCHANGED <<uartVars, dispVars, evqVars, halqVars, rxVars, txVars>>
      BY <2>4, <1>t, Zenon DEF StopWait
    <3>2. LayersTyped'
      BY <2>4, <1>t, Zenon DEF StopWait, LayersTyped, layerVars, States
    <3>3. CallTyped'
      BY <2>4, <1>t, Zenon DEF StopWait, CallTyped, States
    <3>4. DecTyped'
      BY <2>4, <1>t, Zenon DEF StopWait, DecTyped, decVars
    <3> QED BY <3>1, <3>2, <3>3, <3>4, <1>t, TypeParts, Unchanged, Zenon DEF Typed
  <2>5. CASE StopDec
    <3>1. UNCHANGED <<uartVars, dispVars, evqVars, halqVars, rxVars, txVars>>
      BY <2>5, <1>t, Zenon DEF StopDec
    <3>2. LayersTyped'
      BY <2>5, <1>t, Zenon DEF StopDec, LayersTyped, layerVars, States
    <3>3. CallTyped'
      BY <2>5, <1>t, Zenon DEF StopDec, CallTyped, States
    <3>4. DecTyped'
      BY <2>5, <1>t, Zenon DEF StopDec, DecTyped, decVars
    <3> QED BY <3>1, <3>2, <3>3, <3>4, <1>t, TypeParts, Unchanged, Zenon DEF Typed
  <2>6. CASE DeinitFails
    <3>1. UNCHANGED <<uartVars, dispVars, halqVars, rxVars, txVars, decVars>>
      BY <2>6, <1>t, Zenon DEF DeinitFails
    <3>2. LayersTyped'
      BY <2>6, <1>0, <1>t, Zenon
         DEF DeinitFails, DeinitWaitOver, Refused, LayersTyped, layerVars, States
    <3>3. CallTyped'
      BY <2>6, <1>0, <1>t, Zenon DEF DeinitFails, DeinitWaitOver, Refused, CallTyped, States
    <3>4. EvqTyped'
      BY <2>6, <1>0, <1>t, Zenon DEF DeinitFails, DeinitWaitOver, Refused, EvqTyped, evqVars
    <3> QED BY <3>1, <3>2, <3>3, <3>4, <1>t, TypeParts, Unchanged, Zenon DEF Typed
  <2>7. CASE DeinitDone
    <3>1. UNCHANGED <<dispVars, rxVars, txVars>>
      BY <2>7, <1>t, Zenon DEF DeinitDone
    <3>2. LayersTyped'
      BY <2>7, <1>0, <1>t, Zenon
         DEF DeinitDone, DeinitWaitOver, NoDriver, LayersTyped, layerVars, States
    <3>3. CallTyped'
      BY <2>7, <1>0, <1>t, Zenon DEF DeinitDone, DeinitWaitOver, NoDriver, CallTyped, States
    <3>4. UartTyped'
      BY <2>7, <1>0, <1>t, Zenon DEF DeinitDone, DeinitWaitOver, NoDriver, UartTyped, uartVars
    <3>5. EvqTyped'
      BY <2>7, <1>0, <1>t, Zenon DEF DeinitDone, DeinitWaitOver, NoDriver, EvqTyped, evqVars
    <3>6. HalqTyped'
      BY <2>7, <1>0, <1>t, Zenon DEF DeinitDone, DeinitWaitOver, NoDriver, HalqTyped, halqVars
    <3>7. DecTyped'
      BY <2>7, <1>0, <1>t, Zenon DEF DeinitDone, DeinitWaitOver, NoDriver, DecTyped, decVars
    <3> QED BY <3>1, <3>2, <3>3, <3>4, <3>5, <3>6, <3>7, <1>t, TypeParts, Unchanged, Zenon
       DEF Typed
  <2> QED BY <1>2, <2>1, <2>2, <2>3, <2>4, <2>5, <2>6, <2>7 DEF InCall
<1>3. CASE Sensor
  <2>1. UNCHANGED <<layerVars, client, fault, dispVars, evqVars, halqVars, rxVars, txVars, decVars>>
    BY <1>3, Zenon DEF Sensor
  <2>2. UartTyped'
    <3>1. /\ uart_events < UartEvents /\ uart_events' = uart_events + 1
          /\ UNCHANGED <<driver, intr>>
      BY <1>3, Zenon DEF Sensor
    <3> QED BY <3>1, <1>t, LifecycleAssumption DEF UartTyped, LifecycleAssumption
  <2> QED BY <2>1, <2>2, <1>t, TypeParts, Unchanged, Zenon DEF Typed
<1>4. CASE Dispatcher
  <2>1. UNCHANGED <<layerVars, client, fault, halqVars, rxVars, txVars, decVars>>
    BY <1>4, Zenon
       DEF Dispatcher, DispCount, DispTest, DispReceive, DispSend, DispExit, DispTail,
           DispatcherOnly
  <2>2. UartTyped'
    <3>1. UNCHANGED <<driver, intr>>
      BY <1>4, Zenon
         DEF Dispatcher, DispCount, DispTest, DispReceive, DispSend, DispExit, DispTail,
             DispatcherOnly
    <3>2. uart_events' = uart_events \/ (uart_events > 0 /\ uart_events' = uart_events - 1)
      BY <1>4 DEF Dispatcher, DispCount, DispTest, DispReceive, DispSend, DispExit, DispTail
    <3> QED BY <3>1, <3>2, <1>t, LifecycleAssumption DEF UartTyped, LifecycleAssumption
  <2>3. EvqTyped'
    <3>1. Posted(events, HalEvents) \in 0 .. HalEvents
      BY LifecycleAssumption, PostedBounds, <1>t DEF LifecycleAssumption, EvqTyped
    <3> QED
      BY <1>4, <3>1, <1>t, Zenon
         DEF Dispatcher, DispCount, DispTest, DispReceive, DispSend, DispExit, DispTail,
             DispatcherOnly, EvqTyped
  <2>4. DispTyped'
    BY <1>4, <1>t, Zenon
       DEF Dispatcher, DispCount, DispTest, DispReceive, DispSend, DispExit, DispTail,
           DispatcherOnly, DispTyped
  <2> QED BY <2>1, <2>2, <2>3, <2>4, <1>t, TypeParts, Unchanged, Zenon DEF Typed
<1>5. CASE Receiver
  <2>1. UNCHANGED <<layerVars, client, fault, uartVars, dispVars, txVars, decVars>>
    BY <1>5, Zenon DEF Receiver, RxWait, RxParse, RxCheck, RxFlag, RxTail, ReceiverOnly
  <2>2. EvqTyped'
    BY <1>5, <1>b, <1>t, Zenon
       DEF Receiver, RxWait, RxParse, RxCheck, RxFlag, RxTail, ReceiverOnly, EvqTyped
  <2>3. HalqTyped'
    <3>1. frames' \in {frames, frames + 1} /\ (frames' = frames + 1 /\ frames' # frames => frames < MaxFrames)
      BY <1>5 DEF Receiver, RxWait, RxParse, RxCheck, RxFlag, RxTail
    <3>2. UNCHANGED <<hal_queues, tx_frames>>
      BY <1>5, Zenon DEF Receiver, RxWait, RxParse, RxCheck, RxFlag, RxTail, ReceiverOnly
    <3> QED BY <3>1, <3>2, <1>t, LifecycleAssumption DEF HalqTyped, LifecycleAssumption
  <2>4. RxTyped'
    BY <1>5, <1>b, <1>t, Zenon DEF Receiver, RxWait, RxParse, RxCheck, RxFlag, RxTail, RxTyped
  <2> QED BY <2>1, <2>2, <2>3, <2>4, <1>t, TypeParts, Unchanged, Zenon DEF Typed
<1>6. CASE Sender
  <2>1. UNCHANGED <<layerVars, client, uartVars, dispVars, evqVars, rxVars, decVars>>
    BY <1>6, Zenon DEF Sender, TxSend, TxCheck, TxFlag, TxTail, SenderOnly
  <2>2. CallTyped'
    BY <1>6, <2>1, <1>t, Zenon DEF Sender, TxSend, TxCheck, TxFlag, TxTail, CallTyped
  <2>3. HalqTyped'
    <3>1. UNCHANGED <<hal_queues, frames>>
      BY <1>6, Zenon DEF Sender, TxSend, TxCheck, TxFlag, TxTail, SenderOnly
    <3>2. \/ tx_frames' = tx_frames \/ tx_frames' = 0
          \/ tx_frames > 0 /\ tx_frames' = tx_frames - 1
      BY <1>6, Zenon DEF Sender, TxSend, TxCheck, TxFlag, TxTail
    <3> QED BY <3>1, <3>2, <1>t, LifecycleAssumption DEF HalqTyped, LifecycleAssumption
  <2>4. TxTyped'
    BY <1>6, <1>b, <1>t, Zenon DEF Sender, TxSend, TxCheck, TxFlag, TxTail, TxTyped
  <2> QED BY <2>1, <2>2, <2>3, <2>4, <1>t, TypeParts, Unchanged, Zenon DEF Typed
<1>7. CASE Decoder
  <2>1. UNCHANGED <<layerVars, client, uartVars, dispVars, evqVars, rxVars, txVars, app_queues, end_flag>>
    BY <1>7, Zenon DEF Decoder, DecCheck, DecGet, DecDecode, DecEmpty, DecoderOnly
  <2>2. CallTyped'
    BY <1>7, <2>1, <1>t, Zenon DEF Decoder, DecCheck, DecGet, DecDecode, DecEmpty, CallTyped
  <2>3. HalqTyped'
    <3>1. UNCHANGED <<hal_queues, tx_frames>>
      BY <1>7, Zenon DEF Decoder, DecCheck, DecGet, DecDecode, DecEmpty, DecoderOnly
    <3>2. frames' = frames \/ (frames > 0 /\ frames' = frames - 1)
      BY <1>7 DEF Decoder, DecCheck, DecGet, DecDecode, DecEmpty
    <3> QED BY <3>1, <3>2, <1>t, LifecycleAssumption DEF HalqTyped, LifecycleAssumption
  <2>4. DecTyped'
    BY <1>7, <2>1, <1>t, Zenon DEF Decoder, DecCheck, DecGet, DecDecode, DecEmpty, DecTyped
  <2> QED BY <2>1, <2>2, <2>3, <2>4, <1>t, TypeParts, Unchanged, Zenon DEF Typed
<1>8. CASE UNCHANGED vars
  BY <1>8, <1>t, TypeParts, Unchanged
     DEF Typed, vars, layerVars, uartVars, dispVars, evqVars, halqVars, rxVars, txVars, decVars
<1> QED BY <1>1, <1>2, <1>3, <1>4, <1>5, <1>6, <1>7, <1>8 DEF Next

\* The whole driver keeps its types, whatever the capacities and whatever fails.
THEOREM TypeCorrect == Spec => []TypeOK
<1>1. Init => TypeOK
  BY InitTypeOK
<1>2. TypeOK /\ [Next]_vars => TypeOK'
  BY NextTypeOK
<1> QED BY <1>1, <1>2, PTL DEF Spec

-----------------------------------------------------------------------------
(* The inductive invariant, in parts.                                       *)

\* What the layers are while the client is inside a call.
Places ==
  /\ client \in {"start_conv", "start_tasks", "start_dec", "deinit_wait"} =>
       app_state \in {"INIT", "STOPPED"}
  /\ client \in {"start_conv", "start_tasks", "deinit_wait"} => hal_state \in {"INIT", "STOPPED"}
  /\ client = "start_dec" => hal_state = "RUNNING"
  /\ client = "stop_wait" => app_state = "RUNNING" /\ hal_state = "RUNNING"
  /\ client = "stop_dec" => app_state = "RUNNING" /\ hal_state = "STOPPED"
  /\ app_state = "RUNNING" => \/ hal_state = "RUNNING" /\ client \in {"idle", "stop_wait"}
                              \/ hal_state = "STOPPED" /\ client = "stop_dec"

\* A dispatcher has its handle, its driver and its event queue; so has a running HAL.
Line ==
  /\ dispatcher_task <=> dispatcher # "none"
  /\ dispatcher_task \/ hal_state = "RUNNING" \/ client = "start_tasks" => driver /\ event_queue
  /\ hal_state = "UNINIT" => ~dispatcher_task

\* Receiver and sender live in a running HAL, until they have reported their end.
Workers ==
  /\ rx # "none" => hal_state = "RUNNING" /\ ~flag1
  /\ tx # "none" => hal_state = "RUNNING" /\ ~flag2
  /\ client \in {"start_conv", "start_tasks"} => ~flag1 /\ ~flag2

\* The decoder lives in a running application, until it has reported its end; the
\* report of an earlier one is met only by an application that has lost its queues.
DecoderLives ==
  /\ decoder # "none" => app_state = "RUNNING"
  /\ task_ended /\ app_queues => app_state = "RUNNING" /\ decoder = "none"

\* The dispatcher ends with the line, and the other two after it.
Opening == client \in {"start_tasks", "start_dec"} \/ (client = "idle" /\ app_state = "RUNNING")
Drained ==
  /\ hal_dispatcher_ended_flag => dispatcher \in {"tail", "none"}
  /\ hal_state # "RUNNING" /\ client # "start_tasks" => dispatcher \in {"tail", "none"}
  /\ client = "start_conv" \/ Opening => ~rx_closed /\ ~hal_dispatcher_ended_flag
  /\ Opening => dispatcher \notin {"exit", "tail"}
  /\ rx = "exit" \/ flag1 => hal_dispatcher_ended_flag /\ events = 0
  /\ tx = "exit" \/ flag2 => hal_dispatcher_ended_flag /\ tx_frames = 0

LEMMA NextPlaces == TypeOK /\ Places /\ [Next]_vars => Places'
<1> SUFFICES ASSUME TypeOK, Places, [Next]_vars PROVE Places'
  OBVIOUS
<1> USE DEF Places
<1> DEFINE Mine == <<client, app_state, hal_state>>
<1>1. CASE Client
  <2>1. CASE StartIsr
    BY <2>1 DEF StartIsr, ResetFlags, OpenLine, layerVars
  <2>2. CASE StopIsr
    BY <2>2 DEF StopIsr, CloseLine, layerVars
  <2>3. CASE DeinitSys
    BY <2>3 DEF DeinitSys, layerVars
  <2>4. CASE Send
    BY <2>4 DEF Send, layerVars
  <2>5. CASE InitHalFails
    BY <2>5 DEF InitHalFails, InitCall, NoDriver, layerVars
  <2>6. CASE InitSys
    BY <2>6 DEF InitSys, InitCall, layerVars
  <2> QED BY <1>1, <2>1, <2>2, <2>3, <2>4, <2>5, <2>6 DEF Client
<1>2. CASE InCall
  <2>1. CASE StartConv
    BY <2>1 DEF StartConv, layerVars
  <2>2. CASE StartTasks
    BY <2>2 DEF StartTasks, layerVars
  <2>3. CASE StartDec
    BY <2>3 DEF StartDec, layerVars
  <2>4. CASE StopWait
    BY <2>4 DEF StopWait, TasksReported, layerVars
  <2>5. CASE StopDec
    BY <2>5 DEF StopDec, DecoderReported, layerVars
  <2>6. CASE DeinitFails
    BY <2>6 DEF DeinitFails, DeinitWaitOver, Refused, layerVars
  <2>7. CASE DeinitDone
    BY <2>7 DEF DeinitDone, DeinitWaitOver, NoDriver, layerVars
  <2> QED BY <1>2, <2>1, <2>2, <2>3, <2>4, <2>5, <2>6, <2>7 DEF InCall
<1>3. CASE Sensor
  <2>1. UNCHANGED Mine
    BY <1>3 DEF Sensor, layerVars
  <2> QED BY <2>1
<1>4. CASE Dispatcher
  <2>1. UNCHANGED Mine
    BY <1>4
       DEF Dispatcher, DispCount, DispTest, DispReceive, DispSend, DispExit, DispTail,
           DispatcherOnly, layerVars
  <2> QED BY <2>1
<1>5. CASE Receiver
  <2>1. UNCHANGED Mine
    BY <1>5 DEF Receiver, RxWait, RxParse, RxCheck, RxFlag, RxTail, ReceiverOnly, layerVars
  <2> QED BY <2>1
<1>6. CASE Sender
  <2>1. UNCHANGED Mine
    BY <1>6 DEF Sender, TxSend, TxCheck, TxFlag, TxTail, SenderOnly, layerVars
  <2> QED BY <2>1
<1>7. CASE Decoder
  <2>1. UNCHANGED Mine
    BY <1>7 DEF Decoder, DecCheck, DecGet, DecDecode, DecEmpty, DecoderOnly, layerVars
  <2> QED BY <2>1
<1>8. CASE UNCHANGED vars
  BY <1>8 DEF vars
<1> QED BY <1>1, <1>2, <1>3, <1>4, <1>5, <1>6, <1>7, <1>8 DEF Next

LEMMA NextLine == TypeOK /\ Places /\ Line /\ [Next]_vars => Line'
<1> SUFFICES ASSUME TypeOK, Places, Line, [Next]_vars PROVE Line'
  OBVIOUS
<1> USE DEF Line, Places
<1> DEFINE Mine == <<client, hal_state, dispatcher_task, dispatcher, driver, event_queue>>
<1>1. CASE Client
  <2>1. CASE StartIsr
    BY <2>1 DEF StartIsr, ResetFlags, OpenLine, layerVars, uartVars, dispVars, evqVars
  <2>2. CASE StopIsr
    BY <2>2 DEF StopIsr, CloseLine, layerVars, uartVars, dispVars, evqVars
  <2>3. CASE DeinitSys
    BY <2>3 DEF DeinitSys, layerVars, uartVars, dispVars, evqVars
  <2>4. CASE Send
    BY <2>4 DEF Send, layerVars, uartVars, dispVars, evqVars
  <2>5. CASE InitHalFails
    BY <2>5 DEF InitHalFails, InitCall, NoDriver, layerVars, uartVars, dispVars, evqVars
  <2>6. CASE InitSys
    BY <2>6 DEF InitSys, InitCall, layerVars, uartVars, dispVars, evqVars
  <2> QED BY <1>1, <2>1, <2>2, <2>3, <2>4, <2>5, <2>6 DEF Client
<1>2. CASE InCall
  <2>1. CASE StartConv
    BY <2>1 DEF StartConv, layerVars, uartVars, dispVars, evqVars
  <2>2. CASE StartTasks
    BY <2>2 DEF StartTasks, layerVars, uartVars, dispVars, evqVars
  <2>3. CASE StartDec
    BY <2>3 DEF StartDec, layerVars, uartVars, dispVars, evqVars
  <2>4. CASE StopWait
    BY <2>4 DEF StopWait, TasksReported, layerVars, uartVars, dispVars, evqVars
  <2>5. CASE StopDec
    BY <2>5 DEF StopDec, DecoderReported, layerVars, uartVars, dispVars, evqVars
  <2>6. CASE DeinitFails
    BY <2>6 DEF DeinitFails, DeinitWaitOver, Refused, layerVars, uartVars, dispVars, evqVars
  <2>7. CASE DeinitDone
    BY <2>7 DEF DeinitDone, DeinitWaitOver, NoDriver, layerVars, uartVars, dispVars, evqVars
  <2> QED BY <1>2, <2>1, <2>2, <2>3, <2>4, <2>5, <2>6, <2>7 DEF InCall
<1>3. CASE Sensor
  <2>1. UNCHANGED Mine
    BY <1>3 DEF Sensor, layerVars, uartVars, dispVars, evqVars
  <2> QED BY <2>1
<1>4. CASE Dispatcher
  <2>1. CASE DispCount
    BY <2>1 DEF DispCount, DispatcherOnly, layerVars, uartVars, dispVars, evqVars
  <2>2. CASE DispTest
    BY <2>2 DEF DispTest, DispatcherOnly, layerVars, uartVars, dispVars, evqVars
  <2>3. CASE DispReceive
    BY <2>3 DEF DispReceive, DispatcherOnly, layerVars, uartVars, dispVars, evqVars
  <2>4. CASE DispSend
    BY <2>4 DEF DispSend, DispatcherOnly, layerVars, uartVars, dispVars, evqVars
  <2>5. CASE DispExit
    BY <2>5 DEF DispExit, DispatcherOnly, layerVars, uartVars, dispVars, evqVars
  <2>6. CASE DispTail
    BY <2>6 DEF DispTail, DispatcherOnly, layerVars, uartVars, dispVars, evqVars
  <2> QED BY <1>4, <2>1, <2>2, <2>3, <2>4, <2>5, <2>6 DEF Dispatcher
<1>5. CASE Receiver
  <2>1. UNCHANGED Mine
    BY <1>5
       DEF Receiver, RxWait, RxParse, RxCheck, RxFlag, RxTail, ReceiverOnly, layerVars,
           uartVars, dispVars, evqVars
  <2> QED BY <2>1
<1>6. CASE Sender
  <2>1. UNCHANGED Mine
    BY <1>6
       DEF Sender, TxSend, TxCheck, TxFlag, TxTail, SenderOnly, layerVars, uartVars, dispVars,
           evqVars
  <2> QED BY <2>1
<1>7. CASE Decoder
  <2>1. UNCHANGED Mine
    BY <1>7
       DEF Decoder, DecCheck, DecGet, DecDecode, DecEmpty, DecoderOnly, layerVars, uartVars,
           dispVars, evqVars
  <2> QED BY <2>1
<1>8. CASE UNCHANGED vars
  BY <1>8 DEF vars
<1> QED BY <1>1, <1>2, <1>3, <1>4, <1>5, <1>6, <1>7, <1>8 DEF Next

LEMMA NextWorkers == TypeOK /\ Places /\ Workers /\ [Next]_vars => Workers'
<1> SUFFICES ASSUME TypeOK, Places, Workers, [Next]_vars PROVE Workers'
  OBVIOUS
<1> USE DEF Places, Workers
<1> DEFINE Mine == <<client, hal_state, rx, flag1, tx, flag2>>
<1>1. CASE Client
  <2>1. CASE StartIsr
    BY <2>1 DEF StartIsr, ResetFlags, OpenLine, layerVars, rxVars, txVars
  <2>2. CASE StopIsr
    BY <2>2 DEF StopIsr, CloseLine, layerVars, rxVars, txVars
  <2>3. CASE DeinitSys
    BY <2>3 DEF DeinitSys, layerVars, rxVars, txVars
  <2>4. CASE Send
    BY <2>4 DEF Send, layerVars, rxVars, txVars
  <2>5. CASE InitHalFails
    BY <2>5 DEF InitHalFails, InitCall, NoDriver, layerVars, rxVars, txVars
  <2>6. CASE InitSys
    BY <2>6 DEF InitSys, InitCall, layerVars, rxVars, txVars
  <2> QED BY <1>1, <2>1, <2>2, <2>3, <2>4, <2>5, <2>6 DEF Client
<1>2. CASE InCall
  <2>1. CASE StartConv
    BY <2>1 DEF StartConv, layerVars, rxVars, txVars
  <2>2. CASE StartTasks
    BY <2>2 DEF StartTasks, layerVars, rxVars, txVars
  <2>3. CASE StartDec
    BY <2>3 DEF StartDec, layerVars, rxVars, txVars
  <2>4. CASE StopWait
    BY <2>4 DEF StopWait, TasksReported, layerVars, rxVars, txVars
  <2>5. CASE StopDec
    BY <2>5 DEF StopDec, DecoderReported, layerVars, rxVars, txVars
  <2>6. CASE DeinitFails
    BY <2>6 DEF DeinitFails, DeinitWaitOver, Refused, layerVars, rxVars, txVars
  <2>7. CASE DeinitDone
    BY <2>7 DEF DeinitDone, DeinitWaitOver, NoDriver, layerVars, rxVars, txVars
  <2> QED BY <1>2, <2>1, <2>2, <2>3, <2>4, <2>5, <2>6, <2>7 DEF InCall
<1>3. CASE Sensor
  <2>1. UNCHANGED Mine
    BY <1>3 DEF Sensor, layerVars, rxVars, txVars
  <2> QED BY <2>1
<1>4. CASE Dispatcher
  <2>1. UNCHANGED Mine
    BY <1>4
       DEF Dispatcher, DispCount, DispTest, DispReceive, DispSend, DispExit, DispTail,
           DispatcherOnly, layerVars, rxVars, txVars
  <2> QED BY <2>1
<1>5. CASE Receiver
  <2>1. CASE RxWait
    BY <2>1 DEF RxWait, ReceiverOnly, layerVars, rxVars, txVars
  <2>2. CASE RxParse
    BY <2>2 DEF RxParse, ReceiverOnly, layerVars, rxVars, txVars
  <2>3. CASE RxCheck
    BY <2>3 DEF RxCheck, ReceiverOnly, RxDone, layerVars, rxVars, txVars
  <2>4. CASE RxFlag
    BY <2>4 DEF RxFlag, ReceiverOnly, layerVars, rxVars, txVars
  <2>5. CASE RxTail
    BY <2>5 DEF RxTail, ReceiverOnly, layerVars, rxVars, txVars
  <2> QED BY <1>5, <2>1, <2>2, <2>3, <2>4, <2>5 DEF Receiver
<1>6. CASE Sender
  <2>1. CASE TxSend
    BY <2>1 DEF TxSend, SenderOnly, layerVars, rxVars, txVars
  <2>2. CASE TxCheck
    BY <2>2 DEF TxCheck, SenderOnly, layerVars, rxVars, txVars
  <2>3. CASE TxFlag
    BY <2>3 DEF TxFlag, SenderOnly, layerVars, rxVars, txVars
  <2>4. CASE TxTail
    BY <2>4 DEF TxTail, SenderOnly, layerVars, rxVars, txVars
  <2> QED BY <1>6, <2>1, <2>2, <2>3, <2>4 DEF Sender
<1>7. CASE Decoder
  <2>1. UNCHANGED Mine
    BY <1>7
       DEF Decoder, DecCheck, DecGet, DecDecode, DecEmpty, DecoderOnly, layerVars, rxVars,
           txVars
  <2> QED BY <2>1
<1>8. CASE UNCHANGED vars
  BY <1>8 DEF vars
<1> QED BY <1>1, <1>2, <1>3, <1>4, <1>5, <1>6, <1>7, <1>8 DEF Next

LEMMA NextDecoder == TypeOK /\ Places /\ DecoderLives /\ [Next]_vars => DecoderLives'
<1> SUFFICES ASSUME TypeOK, Places, DecoderLives, [Next]_vars PROVE DecoderLives'
  OBVIOUS
<1> USE DEF DecoderLives, Places
<1> DEFINE Mine == <<app_state, decoder, task_ended, app_queues>>
<1>1. CASE Client
  <2>1. CASE StartIsr
    BY <2>1 DEF StartIsr, ResetFlags, OpenLine, layerVars, decVars
  <2>2. CASE StopIsr
    BY <2>2 DEF StopIsr, CloseLine, layerVars, decVars
  <2>3. CASE DeinitSys
    BY <2>3 DEF DeinitSys, layerVars, decVars
  <2>4. CASE Send
    BY <2>4 DEF Send, layerVars, decVars
  <2>5. CASE InitHalFails
    BY <2>5 DEF InitHalFails, InitCall, NoDriver, layerVars, decVars
  <2>6. CASE InitSys
    BY <2>6 DEF InitSys, InitCall, layerVars, decVars
  <2> QED BY <1>1, <2>1, <2>2, <2>3, <2>4, <2>5, <2>6 DEF Client
<1>2. CASE InCall
  <2>1. CASE StartConv
    BY <2>1 DEF StartConv, layerVars, decVars
  <2>2. CASE StartTasks
    BY <2>2 DEF StartTasks, layerVars, decVars
  <2>3. CASE StartDec
    BY <2>3 DEF StartDec, layerVars, decVars
  <2>4. CASE StopWait
    BY <2>4 DEF StopWait, TasksReported, layerVars, decVars
  <2>5. CASE StopDec
    BY <2>5 DEF StopDec, DecoderReported, layerVars, decVars
  <2>6. CASE DeinitFails
    BY <2>6 DEF DeinitFails, DeinitWaitOver, Refused, layerVars, decVars
  <2>7. CASE DeinitDone
    BY <2>7 DEF DeinitDone, DeinitWaitOver, NoDriver, layerVars, decVars
  <2> QED BY <1>2, <2>1, <2>2, <2>3, <2>4, <2>5, <2>6, <2>7 DEF InCall
<1>3. CASE Sensor
  <2>1. UNCHANGED Mine
    BY <1>3 DEF Sensor, layerVars, decVars
  <2> QED BY <2>1
<1>4. CASE Dispatcher
  <2>1. UNCHANGED Mine
    BY <1>4
       DEF Dispatcher, DispCount, DispTest, DispReceive, DispSend, DispExit, DispTail,
           DispatcherOnly, layerVars, decVars
  <2> QED BY <2>1
<1>5. CASE Receiver
  <2>1. UNCHANGED Mine
    BY <1>5
       DEF Receiver, RxWait, RxParse, RxCheck, RxFlag, RxTail, ReceiverOnly, layerVars, decVars
  <2> QED BY <2>1
<1>6. CASE Sender
  <2>1. UNCHANGED Mine
    BY <1>6 DEF Sender, TxSend, TxCheck, TxFlag, TxTail, SenderOnly, layerVars, decVars
  <2> QED BY <2>1
<1>7. CASE Decoder
  <2>1. CASE DecCheck
    BY <2>1 DEF DecCheck, DecoderOnly, layerVars, decVars
  <2>2. CASE DecGet
    BY <2>2 DEF DecGet, DecoderOnly, layerVars, decVars
  <2>3. CASE DecDecode
    BY <2>3 DEF DecDecode, DecoderOnly, layerVars, decVars
  <2>4. CASE DecEmpty
    BY <2>4 DEF DecEmpty, DecoderOnly, layerVars, decVars
  <2> QED BY <1>7, <2>1, <2>2, <2>3, <2>4 DEF Decoder
<1>8. CASE UNCHANGED vars
  BY <1>8 DEF vars
<1> QED BY <1>1, <1>2, <1>3, <1>4, <1>5, <1>6, <1>7, <1>8 DEF Next

LEMMA NextDrained == TypeOK /\ Places /\ Line /\ Workers /\ Drained /\ [Next]_vars => Drained'
<1> SUFFICES ASSUME TypeOK, Places, Line, Workers, Drained, [Next]_vars PROVE Drained'
  OBVIOUS
<1> USE DEF Drained, Line, Places, Workers, Opening
<1> DEFINE Mine == <<client, app_state, hal_state, rx_closed, dispatcher,
                     hal_dispatcher_ended_flag, rx, flag1, tx, flag2, events, tx_frames>>
<1>1. CASE Client
  <2>1. CASE StartIsr
    BY <2>1
       DEF StartIsr, ResetFlags, OpenLine, layerVars, dispVars, evqVars, halqVars, rxVars,
           txVars
  <2>2. CASE StopIsr
    BY <2>2 DEF StopIsr, CloseLine, layerVars, dispVars, evqVars, halqVars, rxVars, txVars
  <2>3. CASE DeinitSys
    BY <2>3 DEF DeinitSys, layerVars, dispVars, evqVars, halqVars, rxVars, txVars
  <2>4. CASE Send
    BY <2>4 DEF Send, layerVars, dispVars, evqVars, halqVars, rxVars, txVars
  <2>5. CASE InitHalFails
    BY <2>5
       DEF InitHalFails, InitCall, NoDriver, layerVars, dispVars, evqVars, halqVars, rxVars,
           txVars
  <2>6. CASE InitSys
    BY <2>6 DEF InitSys, InitCall, layerVars, dispVars, evqVars, halqVars, rxVars, txVars
  <2> QED BY <1>1, <2>1, <2>2, <2>3, <2>4, <2>5, <2>6 DEF Client
<1>2. CASE InCall
  <2>1. CASE StartConv
    BY <2>1 DEF StartConv, layerVars, dispVars, evqVars, halqVars, rxVars, txVars
  <2>2. CASE StartTasks
    BY <2>2 DEF StartTasks, layerVars, dispVars, evqVars, halqVars, rxVars, txVars
  <2>3. CASE StartDec
    BY <2>3 DEF StartDec, layerVars, dispVars, evqVars, halqVars, rxVars, txVars
  <2>4. CASE StopWait
    BY <2>4 DEF StopWait, TasksReported, layerVars, dispVars, evqVars, halqVars, rxVars, txVars
  <2>5. CASE StopDec
    BY <2>5 DEF StopDec, DecoderReported, layerVars, dispVars, evqVars, halqVars, rxVars, txVars
  <2>6. CASE DeinitFails
    BY <2>6
       DEF DeinitFails, DeinitWaitOver, Refused, layerVars, dispVars, evqVars, halqVars,
           rxVars, txVars
  <2>7. CASE DeinitDone
    BY <2>7
       DEF DeinitDone, DeinitWaitOver, NoDriver, layerVars, dispVars, evqVars, halqVars,
           rxVars, txVars
  <2> QED BY <1>2, <2>1, <2>2, <2>3, <2>4, <2>5, <2>6, <2>7 DEF InCall
<1>3. CASE Sensor
  <2>1. UNCHANGED Mine
    BY <1>3 DEF Sensor, layerVars, dispVars, evqVars, halqVars, rxVars, txVars
  <2> QED BY <2>1
<1>4. CASE Dispatcher
  <2>1. CASE DispCount
    BY <2>1
       DEF DispCount, DispatcherOnly, layerVars, dispVars, evqVars, halqVars, rxVars, txVars
  <2>2. CASE DispTest
    BY <2>2 DEF DispTest, DispatcherOnly, layerVars, dispVars, evqVars, halqVars, rxVars, txVars
  <2>3. CASE DispReceive
    BY <2>3
       DEF DispReceive, DispatcherOnly, layerVars, dispVars, evqVars, halqVars, rxVars, txVars
  <2>4. CASE DispSend
    BY <2>4 DEF DispSend, DispatcherOnly, layerVars, dispVars, evqVars, halqVars, rxVars, txVars
  <2>5. CASE DispExit
    BY <2>5 DEF DispExit, DispatcherOnly, layerVars, dispVars, evqVars, halqVars, rxVars, txVars
  <2>6. CASE DispTail
    BY <2>6 DEF DispTail, DispatcherOnly, layerVars, dispVars, evqVars, halqVars, rxVars, txVars
  <2> QED BY <1>4, <2>1, <2>2, <2>3, <2>4, <2>5, <2>6 DEF Dispatcher
<1>5. CASE Receiver
  <2>1. CASE RxWait
    BY <2>1 DEF RxWait, ReceiverOnly, layerVars, dispVars, evqVars, halqVars, rxVars, txVars
  <2>2. CASE RxParse
    BY <2>2 DEF RxParse, ReceiverOnly, layerVars, dispVars, evqVars, halqVars, rxVars, txVars
  <2>3. CASE RxCheck
    BY <2>3
       DEF RxCheck, ReceiverOnly, RxDone, layerVars, dispVars, evqVars, halqVars, rxVars, txVars
  <2>4. CASE RxFlag
    BY <2>4 DEF RxFlag, ReceiverOnly, layerVars, dispVars, evqVars, halqVars, rxVars, txVars
  <2>5. CASE RxTail
    BY <2>5 DEF RxTail, ReceiverOnly, layerVars, dispVars, evqVars, halqVars, rxVars, txVars
  <2> QED BY <1>5, <2>1, <2>2, <2>3, <2>4, <2>5 DEF Receiver
<1>6. CASE Sender
  <2>1. CASE TxSend
    BY <2>1 DEF TxSend, SenderOnly, layerVars, dispVars, evqVars, halqVars, rxVars, txVars
  <2>2. CASE TxCheck
    BY <2>2 DEF TxCheck, SenderOnly, layerVars, dispVars, evqVars, halqVars, rxVars, txVars
  <2>3. CASE TxFlag
    BY <2>3 DEF TxFlag, SenderOnly, layerVars, dispVars, evqVars, halqVars, rxVars, txVars
  <2>4. CASE TxTail
    BY <2>4 DEF TxTail, SenderOnly, layerVars, dispVars, evqVars, halqVars, rxVars, txVars
  <2> QED BY <1>6, <2>1, <2>2, <2>3, <2>4 DEF Sender
<1>7. CASE Decoder
  <2>1. UNCHANGED Mine
    BY <1>7
       DEF Decoder, DecCheck, DecGet, DecDecode, DecEmpty, DecoderOnly, layerVars, dispVars,
           evqVars, halqVars, rxVars, txVars
  <2> QED BY <2>1
<1>8. CASE UNCHANGED vars
  BY <1>8 DEF vars
<1> QED BY <1>1, <1>2, <1>3, <1>4, <1>5, <1>6, <1>7, <1>8 DEF Next

Ordered == Places /\ Line /\ Workers /\ DecoderLives /\ Drained

LEMMA InitOrdered == Init => Ordered
BY DEF Init, Ordered, Places, Line, Workers, DecoderLives, Drained, Opening

LEMMA NextOrdered == TypeOK /\ Ordered /\ [Next]_vars => Ordered'
BY NextPlaces, NextLine, NextWorkers, NextDecoder, NextDrained DEF Ordered

\* No task of the driver is at work on a queue or in a HAL that is gone, whatever
\* failed before and however often the driver was stopped and started.
THEOREM QueuesOutliveTasks == Spec => []TasksOwnQueues
<1> DEFINE Inv == TypeOK /\ Ordered
<1>1. Init => Inv
  BY InitTypeOK, InitOrdered
<1>2. Inv /\ [Next]_vars => Inv'
  BY NextTypeOK, NextOrdered
<1>3. Inv => TasksOwnQueues
  <2> SUFFICES ASSUME Inv PROVE TasksOwnQueues
    OBVIOUS
  <2>1. dispatcher # "none" => driver /\ event_queue
    BY DEF Ordered, Line
  <2>2. rx # "none" => event_queue /\ hal_state = "RUNNING"
    BY DEF Ordered, Line, Workers
  <2>3. tx # "none" => hal_state = "RUNNING"
    BY DEF Ordered, Workers
  <2>4. decoder # "none" => hal_state # "UNINIT"
    BY DEF Ordered, DecoderLives, Places
  <2> QED BY <2>1, <2>2, <2>3, <2>4 DEF TasksOwnQueues
<1> QED BY <1>1, <1>2, <1>3, PTL DEF Spec

\* Only hal_mmwave_stop, when it has seen all three reports, ends a running HAL.
LEMMA StopsIn ==
  ASSUME TypeOK, Ordered, [Next]_vars, hal_state = "RUNNING", hal_state' = "STOPPED"
  PROVE  StopWait
<1>1. CASE Client
  BY <1>1
     DEF Client, StartIsr, StopIsr, DeinitSys, Send, InitHalFails, InitSys, InitCall, layerVars
<1>2. CASE InCall
  BY <1>2 DEF InCall, StartConv, StartTasks, StartDec, StopDec, DeinitFails, DeinitDone, layerVars
<1>3. CASE Sensor \/ Dispatcher \/ Receiver \/ Sender \/ Decoder
  <2>1. UNCHANGED layerVars
    BY <1>3, Zenon
       DEF Sensor, Dispatcher, DispCount, DispTest, DispReceive, DispSend, DispExit, DispTail,
           DispatcherOnly, Receiver, RxWait, RxParse, RxCheck, RxFlag, RxTail, ReceiverOnly, Sender,
           TxSend, TxCheck, TxFlag, TxTail, SenderOnly, Decoder, DecCheck, DecGet, DecDecode,
           DecEmpty, DecoderOnly
  <2> QED BY <2>1 DEF layerVars
<1>4. CASE UNCHANGED vars
  BY <1>4 DEF vars
<1> QED BY <1>1, <1>2, <1>3, <1>4 DEF Next

\* hal_mmwave_stop returns only when every event in the platform's queue has been
\* parsed and every queued frame has been sent, whatever failed before.
THEOREM NothingIsLeftBehind == Spec => StopDrains
<1> DEFINE Inv == TypeOK /\ Ordered
<1>1. Init => Inv
  BY InitTypeOK, InitOrdered
<1>2. Inv /\ [Next]_vars => Inv'
  BY NextTypeOK, NextOrdered
<1>3. Inv /\ [Next]_vars =>
        (hal_state = "RUNNING" /\ hal_state' = "STOPPED" =>
           events = 0 /\ tx_frames = 0 /\ rx = "none")
  <2> SUFFICES ASSUME Inv, [Next]_vars, hal_state = "RUNNING", hal_state' = "STOPPED"
               PROVE  events = 0 /\ tx_frames = 0 /\ rx = "none"
    OBVIOUS
  <2>1. flag1 /\ flag2
    BY StopsIn DEF StopWait, TasksReported
  <2> QED BY <2>1 DEF Ordered, Workers, Drained
<1> QED BY <1>1, <1>2, <1>3, PTL DEF Spec, StopDrains

-----------------------------------------------------------------------------
(* Without failures and restarts.                                           *)

\* Where nothing fails and nobody restarts a stopped system, every layer has what its
\* state promises.
Healthy ==
  /\ fault = "none"
  /\ client \notin {"start_dec", "stop_dec"} => app_state = hal_state
  /\ client \in {"start_conv", "start_tasks", "start_dec"} => app_state = "INIT" /\ intr
  /\ hal_state = "UNINIT" <=> ~driver
  /\ hal_state # "UNINIT" => hal_queues /\ event_queue
  /\ hal_state \in {"INIT", "RUNNING"} => core_bound /\ ~end_flag /\ ~task_ended
  /\ app_state \in {"INIT", "RUNNING"} => app_queues
  /\ Opening => intr /\ dispatcher # "none"
  /\ Opening /\ client # "start_tasks" => rx # "none" /\ tx # "none"
  /\ Opening /\ client = "idle" => decoder # "none"

LEMMA NextHealthy ==
  ASSUME MayFail = FALSE, Restart = FALSE, TypeOK, Ordered, Healthy, [Next]_vars
  PROVE  Healthy'
<1> USE DEF Ordered, Places, Line, Workers, DecoderLives, Drained, Opening, Healthy
<1> DEFINE Mine == <<client, app_state, hal_state, fault, intr, driver, hal_queues,
                     event_queue, core_bound, end_flag, task_ended, app_queues,
                     dispatcher, rx, tx, decoder>>
<1>1. CASE Client
  <2>1. CASE StartIsr
    BY <2>1
       DEF StartIsr, ResetFlags, OpenLine, layerVars, uartVars, dispVars, evqVars, halqVars,
           rxVars, txVars, decVars
  <2>2. CASE StopIsr
    BY <2>2
       DEF StopIsr, CloseLine, layerVars, uartVars, dispVars, evqVars, halqVars, rxVars,
           txVars, decVars
  <2>3. CASE DeinitSys
    BY <2>3
       DEF DeinitSys, layerVars, uartVars, dispVars, evqVars, halqVars, rxVars, txVars, decVars
  <2>4. CASE Send
    BY <2>4 DEF Send, layerVars, uartVars, dispVars, evqVars, halqVars, rxVars, txVars, decVars
  <2>5. CASE InitHalFails
    BY <2>5
       DEF InitHalFails, InitCall, NoDriver, layerVars, uartVars, dispVars, evqVars, halqVars,
           rxVars, txVars, decVars
  <2>6. CASE InitSys
    BY <2>6
       DEF InitSys, InitCall, Created, layerVars, uartVars, dispVars, evqVars, halqVars,
           rxVars, txVars, decVars
  <2> QED BY <1>1, <2>1, <2>2, <2>3, <2>4, <2>5, <2>6 DEF Client
<1>2. CASE InCall
  <2>1. CASE StartConv
    BY <2>1
       DEF StartConv, Created, layerVars, uartVars, dispVars, evqVars, halqVars, rxVars,
           txVars, decVars
  <2>2. CASE StartTasks
    BY <2>2
       DEF StartTasks, Created, layerVars, uartVars, dispVars, evqVars, halqVars, rxVars,
           txVars, decVars
  <2>3. CASE StartDec
    BY <2>3
       DEF StartDec, layerVars, uartVars, dispVars, evqVars, halqVars, rxVars, txVars, decVars
  <2>4. CASE StopWait
    BY <2>4
       DEF StopWait, TasksReported, layerVars, uartVars, dispVars, evqVars, halqVars, rxVars,
           txVars, decVars
  <2>5. CASE StopDec
    BY <2>5
       DEF StopDec, DecoderReported, layerVars, uartVars, dispVars, evqVars, halqVars, rxVars,
           txVars, decVars
  <2>6. CASE DeinitFails
    BY <2>6
       DEF DeinitFails, DeinitWaitOver, Refused, layerVars, uartVars, dispVars, evqVars,
           halqVars, rxVars, txVars, decVars
  <2>7. CASE DeinitDone
    BY <2>7
       DEF DeinitDone, DeinitWaitOver, NoDriver, layerVars, uartVars, dispVars, evqVars,
           halqVars, rxVars, txVars, decVars
  <2> QED BY <1>2, <2>1, <2>2, <2>3, <2>4, <2>5, <2>6, <2>7 DEF InCall
<1>3. CASE Sensor
  <2>1. UNCHANGED Mine
    BY <1>3
       DEF Sensor, layerVars, uartVars, dispVars, evqVars, halqVars, rxVars, txVars, decVars
  <2> QED BY <2>1
<1>4. CASE Dispatcher
  <2>1. CASE DispCount
    BY <2>1
       DEF DispCount, DispatcherOnly, layerVars, uartVars, dispVars, evqVars, halqVars, rxVars,
           txVars, decVars
  <2>2. CASE DispTest
    BY <2>2
       DEF DispTest, DispatcherOnly, layerVars, uartVars, dispVars, evqVars, halqVars, rxVars,
           txVars, decVars
  <2>3. CASE DispReceive
    BY <2>3
       DEF DispReceive, DispatcherOnly, layerVars, uartVars, dispVars, evqVars, halqVars,
           rxVars, txVars, decVars
  <2>4. CASE DispSend
    BY <2>4
       DEF DispSend, DispatcherOnly, layerVars, uartVars, dispVars, evqVars, halqVars, rxVars,
           txVars, decVars
  <2>5. CASE DispExit
    BY <2>5
       DEF DispExit, DispatcherOnly, layerVars, uartVars, dispVars, evqVars, halqVars, rxVars,
           txVars, decVars
  <2>6. CASE DispTail
    BY <2>6
       DEF DispTail, DispatcherOnly, layerVars, uartVars, dispVars, evqVars, halqVars, rxVars,
           txVars, decVars
  <2> QED BY <1>4, <2>1, <2>2, <2>3, <2>4, <2>5, <2>6 DEF Dispatcher
<1>5. CASE Receiver
  <2>1. CASE RxWait
    BY <2>1
       DEF RxWait, ReceiverOnly, layerVars, uartVars, dispVars, evqVars, halqVars, rxVars,
           txVars, decVars
  <2>2. CASE RxParse
    BY <2>2
       DEF RxParse, ReceiverOnly, layerVars, uartVars, dispVars, evqVars, halqVars, rxVars,
           txVars, decVars
  <2>3. CASE RxCheck
    BY <2>3
       DEF RxCheck, ReceiverOnly, RxDone, layerVars, uartVars, dispVars, evqVars, halqVars,
           rxVars, txVars, decVars
  <2>4. CASE RxFlag
    BY <2>4
       DEF RxFlag, ReceiverOnly, layerVars, uartVars, dispVars, evqVars, halqVars, rxVars,
           txVars, decVars
  <2>5. CASE RxTail
    BY <2>5
       DEF RxTail, ReceiverOnly, layerVars, uartVars, dispVars, evqVars, halqVars, rxVars,
           txVars, decVars
  <2> QED BY <1>5, <2>1, <2>2, <2>3, <2>4, <2>5 DEF Receiver
<1>6. CASE Sender
  <2>1. CASE TxSend
    BY <2>1
       DEF TxSend, SenderOnly, layerVars, uartVars, dispVars, evqVars, halqVars, rxVars,
           txVars, decVars
  <2>2. CASE TxCheck
    BY <2>2
       DEF TxCheck, SenderOnly, layerVars, uartVars, dispVars, evqVars, halqVars, rxVars,
           txVars, decVars
  <2>3. CASE TxFlag
    BY <2>3
       DEF TxFlag, SenderOnly, layerVars, uartVars, dispVars, evqVars, halqVars, rxVars,
           txVars, decVars
  <2>4. CASE TxTail
    BY <2>4
       DEF TxTail, SenderOnly, layerVars, uartVars, dispVars, evqVars, halqVars, rxVars,
           txVars, decVars
  <2> QED BY <1>6, <2>1, <2>2, <2>3, <2>4 DEF Sender
<1>7. CASE Decoder
  <2>1. CASE DecCheck
    BY <2>1
       DEF DecCheck, DecoderOnly, layerVars, uartVars, dispVars, evqVars, halqVars, rxVars,
           txVars, decVars
  <2>2. CASE DecGet
    BY <2>2
       DEF DecGet, DecoderOnly, layerVars, uartVars, dispVars, evqVars, halqVars, rxVars,
           txVars, decVars
  <2>3. CASE DecDecode
    BY <2>3
       DEF DecDecode, DecoderOnly, layerVars, uartVars, dispVars, evqVars, halqVars, rxVars,
           txVars, decVars
  <2>4. CASE DecEmpty
    BY <2>4
       DEF DecEmpty, DecoderOnly, layerVars, uartVars, dispVars, evqVars, halqVars, rxVars,
           txVars, decVars
  <2> QED BY <1>7, <2>1, <2>2, <2>3, <2>4 DEF Decoder
<1>8. CASE UNCHANGED vars
  BY <1>8 DEF vars
<1> QED BY <1>1, <1>2, <1>3, <1>4, <1>5, <1>6, <1>7, <1>8 DEF Next

LEMMA HealthHolds ==
  ASSUME MayFail = FALSE, Restart = FALSE
  PROVE  Spec => [](TypeOK /\ Ordered /\ Healthy)
<1>1. Init => TypeOK /\ Ordered /\ Healthy
  BY InitTypeOK, InitOrdered DEF Init, Healthy, Opening
<1>2. TypeOK /\ Ordered /\ Healthy /\ [Next]_vars => (TypeOK /\ Ordered /\ Healthy)'
  BY NextTypeOK, NextOrdered, NextHealthy
<1> QED BY <1>1, <1>2, PTL DEF Spec

\* Without failing calls HAL and application are in the same state between the
\* client's calls.
THEOREM LayersStayTogether ==
  ASSUME MayFail = FALSE, Restart = FALSE
  PROVE  Spec => []LayersAgree
<1>1. Ordered /\ Healthy => LayersAgree
  BY DEF Healthy, LayersAgree
<1> QED BY HealthHolds, <1>1, PTL

\* Without failing calls a running system has its line, its parser, its queues and all
\* four of its tasks, until it is told to stop.
THEOREM RunningSystemIsServed ==
  ASSUME MayFail = FALSE, Restart = FALSE
  PROVE  Spec => []RunningIsServed
<1>1. Ordered /\ Healthy => RunningIsServed
  BY DEF Ordered, Places, Drained, Opening, Healthy, RunningIsServed
<1> QED BY HealthHolds, <1>1, PTL

\* Without failing calls no task and no call meets a queue or mutex that does not exist.
THEOREM HandlesExist ==
  ASSUME MayFail = FALSE, Restart = FALSE
  PROVE  Spec => []NoNullHandle
<1>1. Healthy => NoNullHandle
  BY DEF Healthy, NoNullHandle
<1> QED BY HealthHolds, <1>1, PTL
=============================================================================
