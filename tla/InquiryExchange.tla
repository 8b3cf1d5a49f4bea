--------------------------- MODULE InquiryExchange ---------------------------
(***************************************************************************)
(* An inquiry's way to the sensor and its answer's way back: the wrappers  *)
(* of app_mmwave.c with their tests of mode and argument, the manager's    *)
(* current_mode, hal_mmwave_send_frame with the HAL's account of memory,   *)
(* tx_queue, hal_send_task, the sensor (external), and the decoder.  The   *)
(* tasks' start-up and shut-down are in MmwaveLifecycle, the parser that   *)
(* takes frames from bytes in MmwaveCore: here a frame arrives or is lost, *)
(* and a stop goes through its stages while clients are inside a call.     *)
(***************************************************************************)
EXTENDS MmwaveProtocol, SequencesExt

CONSTANTS
  Clients,     \* tasks that make inquiries
  Asks,        \* the inquiries they make: records of a type and a value
  Data,        \* bytes that the sensor answers a question with
  Strays,      \* frames that the sensor sends unasked
  TxLength,    \* capacity of tx_queue
  Limit,       \* MAX_TOTAL_ALLOC
  MaxAnswers,  \* frames under way from the sensor; more are lost
  MayLose,     \* a frame may be lost on the line
  MayFail      \* the HAL's mutex may be missed and the heap empty

ASSUME ExchangeAssumption ==
  /\ \A a \in Asks : a.type \in AppInquiryType /\ a.value \in Nat
  /\ Data \subseteq 0 .. 255 /\ Strays \subseteq Frames
  /\ TxLength \in Nat \ {0} /\ Limit \in Nat /\ MaxAnswers \in Nat \ {0}
  /\ MayLose \in BOOLEAN /\ MayFail \in BOOLEAN

VARIABLES
  system,        \* how far app_stop_sys, or the next start, has got
  current_mode,  \* the manager's idea of the sensor's mode
  client,        \* each client's place in a call and what it asks
  charged,       \* currently_allocated_mem, as far as frames for TX go
  tx_queue,      \* frames, each with what was asked
  sensor_mode,   \* what the sensor was last told
  answers,       \* frames from the sensor, each with what it answers
  heard,         \* the events that the last of them was decoded to
  in_step        \* no switch was refused, lost, stopped, or made beside another call

vars == <<system, current_mode, client, charged, tx_queue, sensor_mode, answers,
          heard, in_step>>
lineVars == <<sensor_mode, answers, heard>>

Unasked == [type |-> "NO_TYPE", value |-> 0]
Idle == [at |-> "idle", ask |-> Unasked]

Init ==
  /\ system = "RUNNING" /\ current_mode = "STANDARD"
  /\ client = [c \in Clients |-> Idle]
  /\ charged = 0 /\ tx_queue = <<>>
  /\ sensor_mode = "STANDARD" /\ answers = <<>> /\ heard = {}
  /\ in_step = TRUE

\* STOPPING: the line is closed and the sender sends what is left; SENT: it has ended.
Stages == {"RUNNING", "STOPPING", "SENT", "HAL_STOPPED", "STOPPED"}

Running == system # "STOPPED"                              \* the manager's state
HalRunning == system \in {"RUNNING", "STOPPING", "SENT"}   \* the HAL's
SenderRuns == system \in {"RUNNING", "STOPPING"}

ModeOf(value) == IF value = 0 THEN "STANDARD" ELSE "UNDERLYING_OPEN"

IsSwitch(a) == a.type = "OUTPUT_SWITCH"

Returns(c) == client' = [client EXCEPT ![c] = Idle]

-----------------------------------------------------------------------------
(* A wrapper of app_mmwave.c.  The mode is tested, then the argument; a call *)
(* that fails either test returns and has changed nothing.                  *)

Called(c, a) == client[c].at = "idle" /\ a \in Asks

ModeKept(a) == current_mode                      \* mutant: the switch sets no mode
\* A switch sets the mode, if the manager runs, before anything is sent.
ModeSetBy(a) ==
  IF Running /\ IsSwitch(a) THEN ModeOf(a.value) ELSE current_mode

Alone(c) == \A d \in Clients \ {c} : client[d].at = "idle"

BesideASwitch(c, a) ==
  ~Alone(c) /\ (IsSwitch(a) \/ \E d \in Clients : IsSwitch(client[d].ask))

AskAccepted(c, a) ==
  /\ Called(c, a)
  /\ current_mode \in AllowedIn(a.type) /\ Accepts(a.type, a.value)
  /\ current_mode' = ModeSetBy(a)
  /\ client' = [client EXCEPT ![c] = [at |-> "send", ask |-> a]]
  /\ in_step' = (in_step /\ ~BesideASwitch(c, a))
  /\ UNCHANGED <<system, charged, tx_queue, lineVars>>

\* A switch that is not carried out leaves the mode as if it had been.
StillInStep(a) == in_step /\ ~IsSwitch(a)

\* The HAL is stopped; the manager may not be yet, so that a switch has set the mode.
NotRunning(c) ==
  /\ client[c].at = "send" /\ ~HalRunning
  /\ Returns(c)
  /\ in_step' = IF Running THEN StillInStep(client[c].ask) ELSE in_step
  /\ UNCHANGED <<system, current_mode, charged, tx_queue, lineVars>>

\* The bytes of the frame that mmwave_build_frame allocates.
BlockSize(a) == WordOf(a.type).len + 9

AffordableBefore(a) == charged <= Limit          \* mutant: tested before it is added
Affordable(a) == charged + BlockSize(a) <= Limit

Build(c) ==
  /\ client[c].at = "send" /\ HalRunning
  /\ Affordable(client[c].ask)
  /\ charged' = charged + BlockSize(client[c].ask)
  /\ client' = [client EXCEPT ![c].at = "queue"]
  /\ UNCHANGED <<system, current_mode, tx_queue, lineVars, in_step>>

BuildFails(c) ==
  /\ client[c].at = "send" /\ HalRunning
  /\ MayFail \/ ~Affordable(client[c].ask)
  /\ Returns(c)
  /\ in_step' = StillInStep(client[c].ask)
  /\ UNCHANGED <<system, current_mode, charged, tx_queue, lineVars>>

\* Nothing is tested again: the sender may have ended since.
Queue(c) ==
  LET a == client[c].ask
  IN  /\ client[c].at = "queue" /\ Len(tx_queue) < TxLength
      /\ tx_queue' = Append(tx_queue, [frame |-> InquiryFrame(a.type, a.value), ask |-> a])
      /\ Returns(c)
      /\ UNCHANGED <<system, current_mode, charged, lineVars, in_step>>

\* The block goes back to the heap, and stays charged: platform_free does not
\* know of the account.
QueueFull(c) ==
  /\ client[c].at = "queue" /\ Len(tx_queue) = TxLength
  /\ Returns(c)
  /\ in_step' = StillInStep(client[c].ask)
  /\ UNCHANGED <<system, current_mode, charged, tx_queue, lineVars>>

-----------------------------------------------------------------------------
(* hal_send_task and the sensor.                                            *)

\* What the sensor makes of a frame it gets, as far as the code relies on it:
\* the switch is set, the words come back, a setting's value with them.
Obeyed(f) ==
  IF f.ctrl = 8 /\ f.cmd = 0 THEN ModeOf(f.payload[1]) ELSE sensor_mode

AnswersTo(q) ==
  LET data == IF q.ask.type \in Settings THEN {q.frame.payload} ELSE {<<d>> : d \in Data}
  IN  {[frame |-> [q.frame EXCEPT !.payload = p], ask |-> q.ask] : p \in data}

NewestToSend == tx_queue[Len(tx_queue)]          \* mutant: last in, first out
NextToSend == Head(tx_queue)

\* The frame is written and its block given to the heap, the account untouched.
SendFrame ==
  /\ system = "RUNNING" /\ tx_queue # <<>> /\ Len(answers) < MaxAnswers
  /\ sensor_mode' = Obeyed(NextToSend.frame)
  /\ \E r \in AnswersTo(NextToSend) : answers' = Append(answers, r)
  /\ tx_queue' = Tail(tx_queue)
  /\ UNCHANGED <<system, current_mode, client, charged, heard, in_step>>

\* The frame is lost, or the answer to it: always, once the line is closed.
SendLost ==
  /\ SenderRuns /\ tx_queue # <<>>
  /\ \/ /\ MayLose \/ Len(answers) = MaxAnswers \/ system = "STOPPING"
        /\ sensor_mode' = Obeyed(Head(tx_queue).frame) /\ in_step' = in_step
     \/ /\ MayLose /\ sensor_mode' = sensor_mode
        /\ in_step' = StillInStep(Head(tx_queue).ask)
  /\ tx_queue' = Tail(tx_queue)
  /\ UNCHANGED <<system, current_mode, client, charged, answers, heard>>

SensorReports ==
  /\ system = "RUNNING" /\ Len(answers) < MaxAnswers
  /\ \E f \in Strays : answers' = Append(answers, [frame |-> f, ask |-> Unasked])
  /\ UNCHANGED <<system, current_mode, client, charged, tx_queue, sensor_mode,
                 heard, in_step>>

-----------------------------------------------------------------------------
(* decoder_task, and the manager's start and stop.                          *)

DecodeFrame ==
  /\ answers # <<>>
  /\ heard' = Decode(Head(answers).frame)
  /\ answers' = Tail(answers)
  /\ UNCHANGED <<system, current_mode, client, charged, tx_queue, sensor_mode,
                 in_step>>

\* app_stop_sys closes the line, waits in hal_mmwave_stop for the sender, stops the HAL
\* and then the manager, with no lock against clients that are inside a call.
StopSys ==
  /\ system = "RUNNING" /\ system' = "STOPPING"
  /\ UNCHANGED <<current_mode, client, charged, tx_queue, lineVars, in_step>>

SenderEnds ==
  /\ system = "STOPPING" /\ tx_queue = <<>> /\ system' = "SENT"
  /\ UNCHANGED <<current_mode, client, charged, tx_queue, lineVars, in_step>>

\* The decoder gets no frame any more: what is not decoded then is dropped.
HalStops ==
  /\ system = "SENT" /\ system' = "HAL_STOPPED"
  /\ answers' = <<>>
  /\ UNCHANGED <<current_mode, client, charged, tx_queue, sensor_mode, heard, in_step>>

\* A switch that has set the mode and is not queued will be refused.
StopReturns ==
  /\ system = "HAL_STOPPED" /\ system' = "STOPPED"
  /\ in_step' = (in_step /\ \A c \in Clients :
                              client[c].at = "send" => ~IsSwitch(client[c].ask))
  /\ UNCHANGED <<current_mode, client, charged, tx_queue, lineVars>>

\* hal_free of frames that no sender took, any of which may miss the mutex; all of them
\* were charged when they were built.
GivenBack(bytes) ==
  \E freed \in SUBSET DOMAIN tx_queue :
    /\ MayFail \/ freed = DOMAIN tx_queue
    /\ bytes = MapThenSumSet(LAMBDA i : BlockSize(tx_queue[i].ask), freed)

\* deinit, init and start, with no client inside a call (its queue is deleted): neither
\* the mode nor the account begins anew.
StartSys ==
  /\ system = "STOPPED" /\ \A c \in Clients : client[c].at = "idle"
  /\ system' = "RUNNING" /\ tx_queue' = <<>>
  /\ \E bytes \in 0 .. charged : GivenBack(bytes) /\ charged' = charged - bytes
  /\ in_step' = (in_step /\ \A i \in DOMAIN tx_queue : ~IsSwitch(tx_queue[i].ask))
  /\ UNCHANGED <<current_mode, client, lineVars>>

System == StopSys \/ SenderEnds \/ HalStops \/ StopReturns \/ StartSys

ClientStep(c) ==
  \/ NotRunning(c) \/ Build(c) \/ BuildFails(c) \/ Queue(c) \/ QueueFull(c)

Next ==
  \/ \E c \in Clients : \/ \E a \in Asks : AskAccepted(c, a)
                        \/ ClientStep(c)
  \/ SendFrame \/ SendLost \/ SensorReports \/ DecodeFrame \/ System

\* The sender and the decoder are tasks of their own, and no call waits for ever.
Spec ==
  /\ Init /\ [][Next]_vars
  /\ \A c \in Clients : WF_vars(ClientStep(c))
  /\ WF_vars(SendFrame \/ SendLost) /\ WF_vars(DecodeFrame)

-----------------------------------------------------------------------------
(* Every variable holds a value of its type.                                *)

Carried == [frame : Frames, ask : Asks \cup {Unasked}]

TypeOK ==
  /\ system \in Stages /\ in_step \in BOOLEAN
  /\ current_mode \in Modes /\ sensor_mode \in Modes
  /\ client \in [Clients -> [at : {"idle", "send", "queue"}, ask : Asks \cup {Unasked}]]
  /\ charged \in 0 .. Limit
  /\ tx_queue \in Seq(Carried) /\ Len(tx_queue) <= TxLength
  /\ answers \in Seq(Carried) /\ Len(answers) <= MaxAnswers

(* A frame is at most one event, and the answer to an inquiry is exactly the *)
(* response of the inquiry's own type with the answer's bytes: no report is  *)
(* taken for an answer, no answer for a report or for the answer to another  *)
(* inquiry (the tests of app_mmwave_decoder.c on words and lengths).         *)
OwnAnswer ==
  \A i \in DOMAIN answers :
    LET events == Decode(answers[i].frame)
    IN  IF answers[i].ask = Unasked THEN Cardinality(events) <= 1
        ELSE events = {Response(answers[i].ask.type, answers[i].frame.payload)}

(* An inquiry that one mode only allows finds the sensor in that mode when   *)
(* it arrives, with all the switches queued before it carried out, however   *)
(* long it was queued: unless a switch failed, was lost, was overtaken by a  *)
(* stop, or was made by one client while another was in a call.              *)
ModeAt(i) ==
  LET switches == {j \in 1 .. i - 1 : IsSwitch(tx_queue[j].ask)}
  IN  IF switches = {} THEN sensor_mode
      ELSE ModeOf(tx_queue[CHOOSE j \in switches : \A k \in switches : k <= j].ask.value)

ArrivesInItsMode ==
  in_step => /\ \A i \in DOMAIN tx_queue : ModeAt(i) \in AllowedIn(tx_queue[i].ask.type)
             /\ (\A c \in Clients : client[c].at = "idle") =>
                  current_mode = ModeAt(Len(tx_queue) + 1)

(* A running system that holds no frame for TX has the memory to build one:  *)
(* what was sent or given up does not count against the HAL's limit.         *)
IdleSystemCanSend ==
  system = "RUNNING" /\ tx_queue = <<>> /\ (\A c \in Clients : client[c].at # "queue")
    => \A a \in Asks : Affordable(a)

(* Queues, line and decoder together are the inquiry service; what is queued *)
(* behind the sender's end is lost at once.                                  *)
Asked(s) == [i \in DOMAIN s |-> s[i].ask]
AskIn(r) == IF r.ask = Unasked THEN <<>> ELSE <<r.ask>>
Answered(s) == FlattenSeq([i \in DOMAIN s |-> AskIn(s[i])])

ToSend == IF SenderRuns THEN Asked(tx_queue) ELSE <<>>

Abstract == INSTANCE InquiryService WITH pending <- Answered(answers) \o ToSend

Implements == Abstract!Service
=============================================================================
