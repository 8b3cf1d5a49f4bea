------------------------ MODULE InquiryExchange_proofs ------------------------
(***************************************************************************)
(* Proofs about inquiries and their answers, for any number of clients and *)
(* any inquiries, queues of any length and any frames from the sensor.     *)
(***************************************************************************)
EXTENDS InquiryExchange, FiniteSetTheorems, SequenceInduction

-----------------------------------------------------------------------------
(* The words of the sensor tell every event from every other.               *)

\* The words are bytes, payloads have one byte or four, and no word is that of a
\* report of fixed words.
LEMMA WordBounds ==
  ASSUME NEW w \in Words
  PROVE  /\ w.ctrl \in 0 .. 255 /\ w.cmd \in 0 .. 255 /\ w.len \in {1, 4}
         /\ ~(w.ctrl = 5 /\ w.cmd = 1)
         /\ ~(w.ctrl = 128 /\ w.cmd \in ReportWords)
<1>1. CASE w \in ModuleWords
  BY <1>1 DEF ModuleWords, Word, ReportWords
<1>2. CASE w \in WorkWords
  BY <1>2 DEF WorkWords, Word, ReportWords
<1>3. CASE w \in HumanWords
  BY <1>3 DEF HumanWords, Word, ReportWords
<1>4. CASE w \in UofWords
  BY <1>4 DEF UofWords, Word, ReportWords
<1>5. CASE w \in CustomModeWords
  BY <1>5 DEF CustomModeWords, Word, ReportWords
<1>6. CASE w \in CustomSetWords
  BY <1>6 DEF CustomSetWords, Word, ReportWords
<1>7. CASE w \in CustomGetWords
  BY <1>7 DEF CustomGetWords, Word, ReportWords
<1> QED BY <1>1, <1>2, <1>3, <1>4, <1>5, <1>6, <1>7 DEF Words

\* Two inquiries differ in their type, and in their control or command word.
THEOREM WordsDistinct ==
  ASSUME NEW v \in Words, NEW w \in Words,
         v.type = w.type \/ (v.ctrl = w.ctrl /\ v.cmd = w.cmd)
  PROVE  v = w
BY SMT DEF Words, ModuleWords, WorkWords, HumanWords, UofWords, CustomModeWords,
           CustomSetWords, CustomGetWords, Word

\* The words with four bytes are settings.
LEMMA FourByteSettings ==
  {"MOTION_TRIGGER_TIME", "MOTION_TO_STILL_TIME", "CM_TIME_FOR_NO_PERSON"} \subseteq Settings
<1>1. "MOTION_TRIGGER_TIME" \in DOMAIN SettingValues
  BY DEF SettingValues
<1>2. "MOTION_TO_STILL_TIME" \in DOMAIN SettingValues
  BY DEF SettingValues
<1>3. "CM_TIME_FOR_NO_PERSON" \in DOMAIN SettingValues
  BY DEF SettingValues
<1> QED BY <1>1, <1>2, <1>3, Zenon DEF Settings

\* An inquiry that sets nothing sends one byte.
LEMMA QuestionsHaveOneByte ==
  ASSUME NEW w \in Words, w.type \notin Settings
  PROVE  w.len = 1
<1>1. /\ "MOTION_TRIGGER_TIME" \in Settings /\ "MOTION_TO_STILL_TIME" \in Settings
      /\ "CM_TIME_FOR_NO_PERSON" \in Settings
  BY FourByteSettings
<1>2. w \notin CustomSetWords \/ w.len = 1
  BY <1>1 DEF CustomSetWords, Word
<1> QED BY <1>2 DEF Words, ModuleWords, WorkWords, HumanWords, UofWords, CustomModeWords,
                    CustomGetWords, Word

\* The types of the inquiries stand for the words.
LEMMA WordOfType ==
  ASSUME NEW type \in AppInquiryType
  PROVE  WordOf(type) \in Words /\ WordOf(type).type = type
<1>1. \E w \in Words : w.type = type
  BY DEF AppInquiryType
<1> QED BY <1>1 DEF WordOf

\* A word is that of its type.
LEMMA WordOfWord ==
  ASSUME NEW w \in Words
  PROVE  w.type \in AppInquiryType /\ WordOf(w.type) = w
<1>1. w.type \in AppInquiryType
  BY DEF AppInquiryType
<1>2. WordOf(w.type) \in Words /\ WordOf(w.type).type = w.type
  BY <1>1, WordOfType
<1> QED BY <1>1, <1>2, WordsDistinct

\* A value's bytes are as many as the word says.
LEMMA BytesType ==
  ASSUME NEW value \in Nat, NEW len \in {1, 4}
  PROVE  Bytes(value, len) \in Seq(0 .. 255) /\ Len(Bytes(value, len)) = len
<1> DEFINE all == << LastByte(value), LastByte(value \div 256), LastByte(value \div 65536),
                     LastByte(value \div 16777216) >>
<1>1. \A n \in Nat : LastByte(n) \in 0 .. 255
  BY DEF LastByte
<1>2. /\ value \div 256 \in Nat /\ value \div 65536 \in Nat /\ value \div 16777216 \in Nat
  OBVIOUS
<1>3. all \in Seq(0 .. 255) /\ Len(all) = 4
  <2>1. /\ LastByte(value) \in 0 .. 255 /\ LastByte(value \div 256) \in 0 .. 255
        /\ LastByte(value \div 65536) \in 0 .. 255
        /\ LastByte(value \div 16777216) \in 0 .. 255
    BY <1>1, <1>2
  <2> QED BY <2>1
<1> HIDE DEF all
<1>4. SubSeq(all, 1, len) \in Seq(0 .. 255) /\ Len(SubSeq(all, 1, len)) = len
  <2>1. \A i \in 1 .. len : all[i] \in 0 .. 255
    <3>1. \A i \in 1 .. 4 : all[i] \in 0 .. 255
      BY <1>3, ElementOfSeq
    <3>2. 1 .. len \subseteq 1 .. 4
      OBVIOUS
    <3> QED BY <3>1, <3>2
  <2>2. 1 \in Int /\ len \in Int /\ 1 <= len /\ len - 1 + 1 = len
    OBVIOUS
  <2> QED BY ONLY <2>1, <2>2, SubSeqProperties
<1> QED BY <1>4 DEF Bytes, all

\* An inquiry goes out with the words of its type and as many bytes as they have.
LEMMA InquiryFrameType ==
  ASSUME NEW type \in AppInquiryType, NEW value \in Nat
  PROVE  /\ InquiryFrame(type, value) \in Frames
         /\ InquiryFrame(type, value).ctrl = WordOf(type).ctrl
         /\ InquiryFrame(type, value).cmd = WordOf(type).cmd
         /\ InquiryFrame(type, value).payload \in Seq(0 .. 255)
         /\ Len(InquiryFrame(type, value).payload) = WordOf(type).len
         /\ InquiryFrame(type, value).payload = Bytes(value, WordOf(type).len)
<1>1. WordOf(type) \in Words
  BY WordOfType
<1>2. WordOf(type).ctrl \in 0 .. 255 /\ WordOf(type).cmd \in 0 .. 255
        /\ WordOf(type).len \in {1, 4}
  BY <1>1, WordBounds
<1>3. Bytes(value, WordOf(type).len) \in Seq(0 .. 255)
        /\ Len(Bytes(value, WordOf(type).len)) = WordOf(type).len
  BY <1>2, BytesType, ZenonT(40)
<1> QED BY <1>2, <1>3 DEF InquiryFrame, Frames

\* The responses that a frame is decoded to have the word of the frame and its length.
LEMMA ResponseWord ==
  ASSUME NEW f \in Frames, NEW r \in Responses(f)
  PROVE  \E w \in Words : /\ w.ctrl = f.ctrl /\ w.cmd = f.cmd /\ w.len = Len(f.payload)
                          /\ r = Response(w.type, f.payload)
BY DEF Responses

\* app_mmwave_decoder takes an answer for the answer it is: a frame with the words of an
\* inquiry and a payload of the inquiry's length is decoded to one response, of the
\* inquiry's own type, and to no report.
THEOREM AnswerDecodesToItsType ==
  ASSUME NEW w \in Words, NEW f \in Frames,
         f.ctrl = w.ctrl, f.cmd = w.cmd, Len(f.payload) = w.len
  PROVE  Decode(f) = {Response(w.type, f.payload)}
<1>1. /\ w.len \in {1, 4} /\ ~(w.ctrl = 5 /\ w.cmd = 1)
      /\ ~(w.ctrl = 128 /\ w.cmd \in ReportWords)
  BY WordBounds
<1>2. Reports(f) = {}
  BY <1>1 DEF Reports, InitReports, HumanReports, UofReports
<1>3. ~(Len(f.payload) > MAX_RESPONSE_DATA_LEN)
  BY <1>1 DEF MAX_RESPONSE_DATA_LEN
<1>4. Response(w.type, f.payload) \in Responses(f)
  BY <1>3 DEF Responses
<1>5. \A r \in Responses(f) : r = Response(w.type, f.payload)
  BY ResponseWord, WordsDistinct
<1> QED BY <1>2, <1>4, <1>5 DEF Decode

\* A report is no response.
LEMMA ReportIsNoResponse ==
  ASSUME NEW f \in Frames, NEW d \in Reports(f), NEW e \in Responses(f)
  PROVE  FALSE
<1>1. PICK w \in Words : /\ w.ctrl = f.ctrl /\ w.cmd = f.cmd /\ w.len = Len(f.payload)
  BY ResponseWord
<1>2. w.len \in {1, 4} /\ ~(w.ctrl = 5 /\ w.cmd = 1)
        /\ ~(w.ctrl = 128 /\ w.cmd \in ReportWords)
  BY WordBounds
<1>3. CASE d \in InitReports(f)
  BY <1>1, <1>2, <1>3 DEF InitReports
<1>4. CASE d \in HumanReports(f)
  BY <1>1, <1>2, <1>4 DEF HumanReports
<1>5. CASE d \in UofReports(f)
  <2>1. w.len = 5
    BY <1>1, <1>5 DEF UofReports
  <2> QED BY <1>2, <2>1
<1> QED BY <1>3, <1>4, <1>5 DEF Reports

\* Two events of a frame are the same.
LEMMA EventsAgree ==
  ASSUME NEW f \in Frames
  PROVE  \A d, e \in Decode(f) : d = e
<1>1. ASSUME NEW d \in Responses(f), NEW e \in Responses(f)  PROVE d = e
  <2>1. PICK v \in Words : /\ v.ctrl = f.ctrl /\ v.cmd = f.cmd
                           /\ d = Response(v.type, f.payload)
    BY <1>1, ResponseWord
  <2>2. PICK w \in Words : /\ w.ctrl = f.ctrl /\ w.cmd = f.cmd
                           /\ e = Response(w.type, f.payload)
    BY <1>1, ResponseWord
  <2> QED BY <2>1, <2>2, WordsDistinct
<1>2. ASSUME NEW d \in Reports(f), NEW e \in Responses(f)  PROVE FALSE
  BY <1>2, ReportIsNoResponse
<1>3. ASSUME NEW d \in Reports(f), NEW e \in Reports(f)  PROVE d = e
  <2>1. ASSUME NEW r \in Reports(f)
        PROVE  \/ f.ctrl = 5 /\ r = Report("init_completed", <<1>>)
               \/ f.ctrl = 128 /\ r = Report(ReportAbout[f.cmd], f.payload)
               \/ f.ctrl = 8 /\ r = Report("uof", UofReport(f.payload))
    BY <2>1 DEF Reports, InitReports, HumanReports, UofReports
  <2> QED BY <1>3, <2>1
<1> QED BY <1>1, <1>2, <1>3 DEF Decode

\* Whatever the sensor sends is one event or none.
THEOREM OneEventAtMost ==
  ASSUME NEW f \in Frames
  PROVE  Cardinality(Decode(f)) <= 1
<1>1. \A d, e \in Decode(f) : d = e
  BY EventsAgree
<1>2. CASE Decode(f) = {}
  BY <1>2, FS_EmptySet
<1>3. CASE Decode(f) # {}
  <2>1. PICK d : Decode(f) = {d}
    BY <1>1, <1>3
  <2> QED BY <2>1, FS_Singleton
<1> QED BY <1>2, <1>3

-----------------------------------------------------------------------------
(* Types, and what is queued and answered.                                  *)

\* What stands in tx_queue: an inquiry that was made, as its frame.
Queueable ==
  {q \in [frame : Frames, ask : Asks] : q.frame = InquiryFrame(q.ask.type, q.ask.value)}

\* What an inquiry is answered with: a setting's own value, or a byte of data.
PayloadsFor(a) ==
  IF a.type \in Settings THEN {Bytes(a.value, WordOf(a.type).len)} ELSE {<<d>> : d \in Data}

\* What comes from the sensor: a frame of its own, or one with the words and the
\* length of an inquiry that was made.
IsAnswerTo(f, a) ==
  LET w == WordOf(a.type)
  IN  f.ctrl = w.ctrl /\ f.cmd = w.cmd /\ Len(f.payload) = w.len
Answerable ==
  {r \in Carried :
     IF r.ask = Unasked THEN r.frame \in Strays
     ELSE /\ r.ask \in Asks /\ IsAnswerTo(r.frame, r.ask)
          /\ r.frame.payload \in PayloadsFor(r.ask)}

\* The inductive invariant: the types, with what they leave open about a call that is
\* under way, a queued inquiry and an answer.
IInv ==
  /\ TypeOK
  /\ \A c \in Clients : client[c].at # "idle" => client[c].ask \in Asks
  /\ tx_queue \in Seq(Queueable)
  /\ answers \in Seq(Answerable)

-----------------------------------------------------------------------------

LEMMA AskWord ==
  ASSUME NEW a \in Asks
  PROVE  /\ a.type \in AppInquiryType /\ a.value \in Nat
         /\ WordOf(a.type) \in Words /\ WordOf(a.type).type = a.type
         /\ WordOf(a.type).len \in {1, 4} /\ BlockSize(a) \in Nat
<1>1. a.type \in AppInquiryType /\ a.value \in Nat
  BY ExchangeAssumption DEF ExchangeAssumption
<1>2. WordOf(a.type) \in Words /\ WordOf(a.type).type = a.type
  BY <1>1, WordOfType
<1>3. WordOf(a.type).len \in {1, 4}
  BY <1>2, WordBounds
<1>4. BlockSize(a) \in Nat
  BY <1>3 DEF BlockSize
<1> QED BY <1>1, <1>2, <1>3, <1>4

\* No inquiry has the type of none.
LEMMA AskIsAsked ==
  ASSUME NEW a \in Asks
  PROVE  a # Unasked
<1>1. \A w \in Words : w.type # "NO_TYPE"
  BY SMT DEF Words, ModuleWords, WorkWords, HumanWords, UofWords, CustomModeWords,
             CustomSetWords, CustomGetWords, Word
<1>2. a.type # "NO_TYPE"
  BY <1>1, AskWord
<1> QED BY <1>2 DEF Unasked

LEMMA QueueableCarried == Queueable \subseteq Carried
BY DEF Queueable, Carried

\* A queued inquiry is a frame with the words and the length of its type.
LEMMA QueueableFrame ==
  ASSUME NEW q \in Queueable
  PROVE  /\ q \in Carried /\ q.ask \in Asks
         /\ q.frame \in Frames /\ IsAnswerTo(q.frame, q.ask)
         /\ q.frame.payload \in Seq(0 .. 255)
         /\ q.frame.payload = Bytes(q.ask.value, WordOf(q.ask.type).len)
<1>1. q \in Carried /\ q.ask \in Asks /\ q.frame = InquiryFrame(q.ask.type, q.ask.value)
  BY QueueableCarried DEF Queueable
<1>2. q.ask.type \in AppInquiryType /\ q.ask.value \in Nat
  BY <1>1, AskWord
<1> QED BY <1>1, <1>2, InquiryFrameType DEF IsAnswerTo

\* What the sensor answers to it is an answer.
LEMMA AnswersAreAnswerable ==
  ASSUME NEW q \in Queueable, NEW r \in AnswersTo(q)
  PROVE  r \in Answerable
<1>1. /\ q \in Carried /\ q.ask \in Asks /\ IsAnswerTo(q.frame, q.ask)
      /\ q.frame \in Frames /\ q.frame.payload \in Seq(0 .. 255)
      /\ q.frame.payload = Bytes(q.ask.value, WordOf(q.ask.type).len)
  BY QueueableFrame
<1>2. PICK p : /\ r = [frame |-> [q.frame EXCEPT !.payload = p], ask |-> q.ask]
               /\ \/ q.ask.type \in Settings /\ p = q.frame.payload
                  \/ q.ask.type \notin Settings /\ \E d \in Data : p = <<d>>
  BY DEF AnswersTo
<1>3. p \in Seq(0 .. 255) /\ Len(p) = WordOf(q.ask.type).len
  <2>1. CASE p = q.frame.payload
    BY <1>1, <2>1 DEF IsAnswerTo
  <2>2. CASE q.ask.type \notin Settings /\ \E d \in Data : p = <<d>>
    <3>1. PICK d \in 0 .. 255 : p = <<d>>
      BY <2>2, ExchangeAssumption DEF ExchangeAssumption
    <3>2. WordOf(q.ask.type).len = 1
      BY <1>1, <2>2, AskWord, QuestionsHaveOneByte
    <3> QED BY <3>1, <3>2
  <2> QED BY <1>2, <2>1, <2>2
<1> DEFINE f == [q.frame EXCEPT !.payload = p]
<1>4. f \in Frames /\ f.ctrl = q.frame.ctrl /\ f.cmd = q.frame.cmd /\ f.payload = p
  BY <1>1, <1>3 DEF Frames
<1> HIDE DEF f
<1>5. r = [frame |-> f, ask |-> q.ask]
  BY <1>2 DEF f
<1>6. r \in Carried /\ r.frame = f /\ r.ask = q.ask
  BY <1>1, <1>4, <1>5 DEF Carried
<1>7. IsAnswerTo(f, q.ask)
  BY <1>1, <1>3, <1>4 DEF IsAnswerTo
<1>8. f.payload \in PayloadsFor(q.ask)
  BY <1>1, <1>2, <1>4 DEF PayloadsFor
<1>9. r.ask # Unasked
  BY <1>1, <1>6, AskIsAsked
<1> QED BY <1>1, <1>6, <1>7, <1>8, <1>9 DEF Answerable

LEMMA StrayIsAnswerable ==
  ASSUME NEW f \in Strays
  PROVE  [frame |-> f, ask |-> Unasked] \in Answerable
BY ExchangeAssumption DEF ExchangeAssumption, Answerable, Carried

-----------------------------------------------------------------------------

LEMMA InitIInv == Init => IInv
<1> SUFFICES ASSUME Init PROVE IInv
  OBVIOUS
<1> USE DEF Init
<1>1. Idle.at = "idle" /\ Idle \in [at : {"idle", "send", "queue"}, ask : Asks \cup {Unasked}]
  BY DEF Idle
<1>2. TypeOK
  <2>1. charged \in 0 .. Limit /\ Len(tx_queue) <= TxLength /\ Len(answers) <= MaxAnswers
    BY ExchangeAssumption DEF ExchangeAssumption
  <2>2. client \in [Clients -> [at : {"idle", "send", "queue"}, ask : Asks \cup {Unasked}]]
    BY <1>1
  <2> QED BY <2>1, <2>2 DEF TypeOK, Modes, Stages
<1>3. tx_queue \in Seq(Queueable) /\ answers \in Seq(Answerable)
  OBVIOUS
<1> QED BY <1>1, <1>2, <1>3 DEF IInv

\* What a client step keeps of a call, and what it may set.
LEMMA ClientKept ==
  ASSUME IInv, NEW c \in Clients, NEW to \in [at : {"idle", "send", "queue"}, ask : Asks \cup {Unasked}],
         to.at # "idle" => to.ask \in Asks,
         client' = [client EXCEPT ![c] = to]
  PROVE  /\ client' \in [Clients -> [at : {"idle", "send", "queue"}, ask : Asks \cup {Unasked}]]
         /\ \A d \in Clients : client'[d].at # "idle" => client'[d].ask \in Asks
BY DEF IInv, TypeOK

LEMMA ReturnKeeps ==
  ASSUME IInv, NEW c \in Clients, Returns(c)
  PROVE  /\ client' \in [Clients -> [at : {"idle", "send", "queue"}, ask : Asks \cup {Unasked}]]
         /\ \A d \in Clients : client'[d].at # "idle" => client'[d].ask \in Asks
<1>1. Idle.at = "idle" /\ Idle \in [at : {"idle", "send", "queue"}, ask : Asks \cup {Unasked}]
  BY DEF Idle
<1> QED BY <1>1, ClientKept DEF Returns

\* The variables of the invariant that a step leaves alone.
LEMMA UntouchedQueues ==
  ASSUME IInv, UNCHANGED <<tx_queue, answers>>
  PROVE  /\ tx_queue' \in Seq(Queueable) /\ answers' \in Seq(Answerable)
         /\ tx_queue' \in Seq(Carried) /\ Len(tx_queue') <= TxLength
         /\ answers' \in Seq(Carried) /\ Len(answers') <= MaxAnswers
BY DEF IInv, TypeOK

\* The steps of a client.
LEMMA ClientIInv ==
  ASSUME IInv, NEW c \in Clients,
         (\E a \in Asks : AskAccepted(c, a)) \/ ClientStep(c)
  PROVE  IInv'
<1> USE DEF IInv, TypeOK
<1>2. ASSUME NEW a \in Asks, AskAccepted(c, a)
      PROVE  IInv'
  <2>1. client' = [client EXCEPT ![c] = [at |-> "send", ask |-> a]]
    BY <1>2 DEF AskAccepted
  <2>2. /\ client' \in [Clients -> [at : {"idle", "send", "queue"}, ask : Asks \cup {Unasked}]]
        /\ \A d \in Clients : client'[d].at # "idle" => client'[d].ask \in Asks
    <3>1. [at |-> "send", ask |-> a] \in [at : {"idle", "send", "queue"}, ask : Asks \cup {Unasked}]
      OBVIOUS
    <3> QED BY <2>1, <3>1, ClientKept
  <2>3. current_mode' \in Modes /\ in_step' \in BOOLEAN
    BY <1>2 DEF AskAccepted, ModeSetBy, ModeOf, Modes
  <2>4. UNCHANGED <<system, charged, tx_queue, sensor_mode, answers>>
    BY <1>2 DEF AskAccepted, lineVars
  <2> QED BY <2>2, <2>3, <2>4, UntouchedQueues
<1>3. ASSUME NotRunning(c)
      PROVE  IInv'
  <2>1. /\ Returns(c) /\ in_step' \in BOOLEAN
        /\ UNCHANGED <<system, current_mode, charged, tx_queue, sensor_mode, answers>>
    BY <1>3 DEF NotRunning, StillInStep, lineVars
  <2> QED BY <2>1, ReturnKeeps, UntouchedQueues
<1>4. ASSUME Build(c)
      PROVE  IInv'
  <2>1. client[c].ask \in Asks
    BY <1>4 DEF Build
  <2>2. charged' \in 0 .. Limit
    <3>1. BlockSize(client[c].ask) \in Nat /\ Limit \in Nat
      BY <2>1, AskWord, ExchangeAssumption DEF ExchangeAssumption
    <3>2. /\ charged + BlockSize(client[c].ask) <= Limit
          /\ charged' = charged + BlockSize(client[c].ask)
      BY <1>4 DEF Build, Affordable
    <3> QED BY <3>1, <3>2
  <2>3. /\ client' \in [Clients -> [at : {"idle", "send", "queue"}, ask : Asks \cup {Unasked}]]
        /\ \A d \in Clients : client'[d].at # "idle" => client'[d].ask \in Asks
    BY <1>4, <2>1 DEF Build
  <2>4. UNCHANGED <<system, current_mode, tx_queue, sensor_mode, answers, in_step>>
    BY <1>4 DEF Build, lineVars
  <2> QED BY <2>2, <2>3, <2>4, UntouchedQueues
<1>5. ASSUME BuildFails(c) \/ QueueFull(c)
      PROVE  IInv'
  <2>1. /\ Returns(c)
        /\ UNCHANGED <<system, current_mode, charged, tx_queue, sensor_mode, answers>>
    BY <1>5 DEF BuildFails, QueueFull, lineVars
  <2>2. in_step' \in BOOLEAN
    BY <1>5 DEF BuildFails, QueueFull, StillInStep
  <2> QED BY <2>1, <2>2, ReturnKeeps, UntouchedQueues
<1>6. ASSUME Queue(c)
      PROVE  IInv'
  <2> DEFINE a == client[c].ask
             q == [frame |-> InquiryFrame(a.type, a.value), ask |-> a]
  <2>1. /\ a \in Asks /\ Len(tx_queue) < TxLength
        /\ tx_queue' = Append(tx_queue, q) /\ Returns(c)
        /\ UNCHANGED <<system, current_mode, charged, sensor_mode, answers, in_step>>
    BY <1>6 DEF Queue, lineVars
  <2>2. q \in Queueable /\ q \in Carried
    <3>1. InquiryFrame(a.type, a.value) \in Frames
      BY <2>1, AskWord, InquiryFrameType
    <3>2. q \in Queueable
      BY <2>1, <3>1 DEF Queueable
    <3> QED BY <3>2, QueueableCarried
  <2> HIDE DEF q, a
  <2>3. /\ tx_queue' \in Seq(Queueable) /\ tx_queue' \in Seq(Carried)
        /\ Len(tx_queue') <= TxLength
    BY <2>1, <2>2, ExchangeAssumption DEF ExchangeAssumption
  <2> QED BY <2>1, <2>3, ReturnKeeps
<1> QED BY <1>2, <1>3, <1>4, <1>5, <1>6 DEF ClientStep

\* The steps of the sender, the sensor, the decoder and the manager.
LEMMA SystemIInv ==
  ASSUME IInv,
         SendFrame \/ SendLost \/ SensorReports \/ DecodeFrame \/ System
  PROVE  IInv'
<1> USE DEF IInv, TypeOK
<1>1. ASSUME tx_queue # <<>>
      PROVE  /\ Head(tx_queue) \in Queueable
             /\ Tail(tx_queue) \in Seq(Queueable) /\ Tail(tx_queue) \in Seq(Carried)
             /\ Len(Tail(tx_queue)) <= TxLength
  BY <1>1, HeadTailProperties, ExchangeAssumption DEF ExchangeAssumption
<1>2. ASSUME answers # <<>>
      PROVE  /\ Tail(answers) \in Seq(Answerable) /\ Tail(answers) \in Seq(Carried)
             /\ Len(Tail(answers)) <= MaxAnswers
  BY <1>2, HeadTailProperties, ExchangeAssumption DEF ExchangeAssumption
<1>3. ASSUME NEW f  PROVE Obeyed(f) \in Modes
  BY DEF Obeyed, ModeOf, Modes
<1>4. ASSUME NEW r \in Answerable, Len(answers) < MaxAnswers
      PROVE  /\ Append(answers, r) \in Seq(Answerable) /\ Append(answers, r) \in Seq(Carried)
             /\ Len(Append(answers, r)) <= MaxAnswers
  <2>1. r \in Carried
    BY DEF Answerable
  <2> QED BY <1>4, <2>1, ExchangeAssumption DEF ExchangeAssumption
<1>5. CASE SendFrame
  <2>1. PICK r \in AnswersTo(Head(tx_queue)) : answers' = Append(answers, r)
    BY <1>5 DEF SendFrame, NextToSend
  <2>2. /\ tx_queue # <<>> /\ Len(answers) < MaxAnswers
        /\ sensor_mode' = Obeyed(Head(tx_queue).frame) /\ tx_queue' = Tail(tx_queue)
        /\ UNCHANGED <<system, current_mode, client, charged, in_step>>
    BY <1>5 DEF SendFrame, NextToSend
  <2>3. r \in Answerable
    BY <1>1, <2>1, <2>2, AnswersAreAnswerable
  <2>4. answers' \in Seq(Answerable) /\ answers' \in Seq(Carried) /\ Len(answers') <= MaxAnswers
    BY <1>4, <2>1, <2>2, <2>3
  <2> QED BY <1>1, <1>3, <2>2, <2>4
<1>6. CASE SendLost
  <2>1. /\ tx_queue # <<>> /\ tx_queue' = Tail(tx_queue)
        /\ UNCHANGED <<system, current_mode, client, charged, answers>>
    BY <1>6 DEF SendLost
  <2>2. sensor_mode' \in Modes
    BY <1>3, <1>6 DEF SendLost
  <2>3. in_step' \in BOOLEAN
    BY <1>6 DEF SendLost, StillInStep
  <2> QED BY <1>1, <2>1, <2>2, <2>3
<1>7. CASE SensorReports
  <2>1. PICK f \in Strays : answers' = Append(answers, [frame |-> f, ask |-> Unasked])
    BY <1>7 DEF SensorReports
  <2>2. /\ Len(answers) < MaxAnswers
        /\ UNCHANGED <<system, current_mode, client, charged, tx_queue, sensor_mode, in_step>>
    BY <1>7 DEF SensorReports
  <2>3. answers' \in Seq(Answerable) /\ answers' \in Seq(Carried) /\ Len(answers') <= MaxAnswers
    BY <1>4, <2>1, <2>2, StrayIsAnswerable
  <2> QED BY <2>2, <2>3
<1>8. CASE DecodeFrame
  <2>1. /\ answers # <<>> /\ answers' = Tail(answers)
        /\ UNCHANGED <<system, current_mode, client, charged, tx_queue, sensor_mode, in_step>>
    BY <1>8 DEF DecodeFrame
  <2> QED BY <1>2, <2>1
<1>9. CASE StopSys \/ SenderEnds
  <2>1. /\ system' \in Stages
        /\ UNCHANGED <<current_mode, client, charged, tx_queue, sensor_mode, answers, in_step>>
    BY <1>9 DEF StopSys, SenderEnds, lineVars, Stages
  <2> QED BY <2>1, UntouchedQueues
<1>10. CASE HalStops
  <2>1. /\ system' \in Stages /\ answers' = <<>>
        /\ UNCHANGED <<current_mode, client, charged, tx_queue, sensor_mode, in_step>>
    BY <1>10 DEF HalStops, Stages
  <2>2. answers' \in Seq(Answerable) /\ answers' \in Seq(Carried) /\ Len(answers') <= MaxAnswers
    BY <2>1, ExchangeAssumption DEF ExchangeAssumption
  <2> QED BY <2>1, <2>2
<1>11. CASE StopReturns
  <2>1. /\ system' \in Stages /\ in_step' \in BOOLEAN
        /\ UNCHANGED <<current_mode, client, charged, tx_queue, sensor_mode, answers>>
    BY <1>11 DEF StopReturns, lineVars, Stages
  <2> QED BY <2>1, UntouchedQueues
<1>12. CASE StartSys
  <2>1. /\ system' \in Stages /\ in_step' \in BOOLEAN /\ tx_queue' = <<>>
        /\ UNCHANGED <<current_mode, client, sensor_mode, answers>>
    BY <1>12 DEF StartSys, lineVars, Stages
  <2>2. charged' \in 0 .. Limit
    <3>1. PICK bytes \in 0 .. charged : charged' = charged - bytes
      BY <1>12 DEF StartSys
    <3> QED BY <3>1, ExchangeAssumption DEF ExchangeAssumption
  <2>3. tx_queue' \in Seq(Queueable) /\ tx_queue' \in Seq(Carried) /\ Len(tx_queue') <= TxLength
    BY <2>1, ExchangeAssumption DEF ExchangeAssumption
  <2> QED BY <2>1, <2>2, <2>3
<1> QED BY <1>5, <1>6, <1>7, <1>8, <1>9, <1>10, <1>11, <1>12 DEF System

LEMMA NextIInv == IInv /\ [Next]_vars => IInv'
<1> SUFFICES ASSUME IInv, [Next]_vars PROVE IInv'
  OBVIOUS
<1>1. CASE Next
  BY <1>1, ClientIInv, SystemIInv DEF Next
<1>2. CASE UNCHANGED vars
  BY <1>2 DEF vars, IInv, TypeOK
<1> QED BY <1>1, <1>2

LEMMA SpecIInv == Spec => []IInv
<1> QED BY InitIInv, NextIInv, PTL DEF Spec

\* The queues stay within their lengths, the HAL's account within its limit, and every
\* variable within its type, whatever clients ask and whatever the line does.
THEOREM TypeCorrect == Spec => []TypeOK
<1>1. IInv => TypeOK
  BY DEF IInv
<1> QED BY <1>1, SpecIInv, PTL

\* Every answer is decoded to the response of its own inquiry and everything else to one
\* event at most, for all inquiries of app_mmwave.c and all frames a sensor can send.
THEOREM EveryAnswerIsOwn == Spec => []OwnAnswer
<1>1. ASSUME IInv, NEW i \in DOMAIN answers
      PROVE  IF answers[i].ask = Unasked THEN Cardinality(Decode(answers[i].frame)) <= 1
             ELSE Decode(answers[i].frame)
                    = {Response(answers[i].ask.type, answers[i].frame.payload)}
  <2>1. answers[i] \in Answerable
    BY <1>1, ElementOfSeq DEF IInv
  <2>2. answers[i].frame \in Frames
    BY <2>1 DEF Answerable, Carried
  <2>3. CASE answers[i].ask = Unasked
    BY <2>2, <2>3, OneEventAtMost
  <2>4. CASE answers[i].ask # Unasked
    <3>1. answers[i].ask \in Asks /\ IsAnswerTo(answers[i].frame, answers[i].ask)
      BY <2>1, <2>4 DEF Answerable
    <3>2. /\ WordOf(answers[i].ask.type) \in Words
          /\ WordOf(answers[i].ask.type).type = answers[i].ask.type
      BY <3>1, AskWord
    <3> QED BY <2>2, <2>4, <3>1, <3>2, AnswerDecodesToItsType DEF IsAnswerTo
  <2> QED BY <2>3, <2>4
<1>2. IInv => OwnAnswer
  BY <1>1 DEF OwnAnswer
<1> QED BY <1>2, SpecIInv, PTL

-----------------------------------------------------------------------------
(* The mode in which a queued inquiry arrives.                              *)

\* A set of numbers has a least one ...
LEMMA LeastOf ==
  ASSUME NEW T \in SUBSET Nat, T # {}
  PROVE  \E x \in T : \A y \in T : x <= y
<1> DEFINE R == OpToRel(<, Nat)
<1>1. PICK x \in T : \A y \in T : ~(<<y, x>> \in R)
  BY NatLessThanWellFounded, WFMin
<1>2. \A y \in T : <<y, x>> \in R <=> y < x
  BY DEF OpToRel
<1> HIDE DEF R
<1>3. \A y \in T : x <= y
  <2>1. SUFFICES ASSUME NEW y \in T PROVE x <= y
    OBVIOUS
  <2>2. ~(y < x)
    BY <1>1, <1>2
  <2>3. x \in Nat /\ y \in Nat
    OBVIOUS
  <2> QED BY <2>2, <2>3
<1> QED BY <1>3
\* ... and some numbers up to n a greatest one.
LEMMA LastOf ==
  ASSUME NEW n \in Nat, NEW T \in SUBSET (1 .. n), T # {}
  PROVE  \E j \in T : \A k \in T : k <= j
<1>1. \A j \in T : j \in 1 .. n
  OBVIOUS
<1> DEFINE D == {n - j : j \in T}
<1>2. D # {}
  OBVIOUS
<1>3. \A d \in D : d \in Nat
  BY <1>1
<1>4. \A j \in T : n - j \in D
  OBVIOUS
<1>5. \A d \in D : \E j \in T : d = n - j
  OBVIOUS
<1> HIDE DEF D
<1>6. PICK d \in D : \A e \in D : d <= e
  BY <1>2, <1>3, LeastOf
<1>7. PICK j \in T : d = n - j
  BY <1>5
<1>8. \A k \in T : k <= j
  <2>1. SUFFICES ASSUME NEW k \in T PROVE k <= j
    OBVIOUS
  <2>2. n - j <= n - k
    BY <1>4, <1>6, <1>7
  <2> QED BY <1>1, <2>2
<1> QED BY <1>8

\* The mode that the first i - 1 inquiries of q leave a sensor in that was in mode m.
ModeBefore(m, q, i) ==
  LET switches == {j \in 1 .. i - 1 : IsSwitch(q[j].ask)}
  IN  IF switches = {} THEN m
      ELSE ModeOf(q[CHOOSE j \in switches : \A k \in switches : k <= j].ask.value)

\* The same, said by the last switch among them.
Leaves(m, q, i, v) ==
  \/ v = m /\ \A j \in 1 .. i - 1 : ~IsSwitch(q[j].ask)
  \/ \E j \in 1 .. i - 1 :
       /\ IsSwitch(q[j].ask) /\ v = ModeOf(q[j].ask.value)
       /\ \A k \in 1 .. i - 1 : IsSwitch(q[k].ask) => k <= j

LEMMA ModeBeforeLeaves ==
  ASSUME NEW m, NEW q, NEW i \in Nat \ {0}
  PROVE  Leaves(m, q, i, ModeBefore(m, q, i))
<1> DEFINE switches == {j \in 1 .. i - 1 : IsSwitch(q[j].ask)}
<1>1. CASE switches = {}
  BY <1>1 DEF ModeBefore, Leaves
<1>2. CASE switches # {}
  <2> DEFINE last == CHOOSE j \in switches : \A k \in switches : k <= j
  <2>1. \E j \in switches : \A k \in switches : k <= j
    <3>1. switches \in SUBSET (1 .. i - 1) /\ i - 1 \in Nat
      OBVIOUS
    <3> HIDE DEF switches
    <3> QED BY <1>2, <3>1, LastOf
  <2>2. last \in switches /\ \A k \in switches : k <= last
    <3> HIDE DEF switches
    <3> QED BY <2>1
  <2>3. ModeBefore(m, q, i) = ModeOf(q[last].ask.value)
    BY <1>2 DEF ModeBefore
  <2> HIDE DEF last
  <2> QED BY <2>2, <2>3 DEF Leaves
<1> QED BY <1>1, <1>2

LEMMA LeavesOne ==
  ASSUME NEW m, NEW q, NEW i \in Nat \ {0}, NEW v, Leaves(m, q, i, v)
  PROVE  ModeBefore(m, q, i) = v
<1> DEFINE w == ModeBefore(m, q, i)
<1>1. Leaves(m, q, i, w)
  BY ModeBeforeLeaves
<1> HIDE DEF w
<1>2. w = v
  <2>1. CASE \A j \in 1 .. i - 1 : ~IsSwitch(q[j].ask)
    BY <1>1, <2>1 DEF Leaves
  <2>2. CASE \E j \in 1 .. i - 1 : IsSwitch(q[j].ask)
    <3>1. PICK j \in 1 .. i - 1 :
            /\ IsSwitch(q[j].ask) /\ v = ModeOf(q[j].ask.value)
            /\ \A k \in 1 .. i - 1 : IsSwitch(q[k].ask) => k <= j
      BY <2>2 DEF Leaves
    <3>2. PICK h \in 1 .. i - 1 :
            /\ IsSwitch(q[h].ask) /\ w = ModeOf(q[h].ask.value)
            /\ \A k \in 1 .. i - 1 : IsSwitch(q[k].ask) => k <= h
      BY <1>1, <2>2 DEF Leaves
    <3>3. j = h
      BY <3>1, <3>2
    <3> QED BY <3>1, <3>2, <3>3
  <2> QED BY <2>1, <2>2
<1> QED BY <1>2 DEF w

\* An inquiry behind others changes nothing for them.
LEMMA ModeAfterAppend ==
  ASSUME NEW m, NEW S, NEW q \in Seq(S), NEW x \in S
  PROVE  /\ \A i \in 1 .. Len(q) + 1 : ModeBefore(m, Append(q, x), i) = ModeBefore(m, q, i)
         /\ ModeBefore(m, Append(q, x), Len(q) + 2)
              = IF IsSwitch(x.ask) THEN ModeOf(x.ask.value) ELSE ModeBefore(m, q, Len(q) + 1)
<1> DEFINE r == Append(q, x)
<1>1. /\ Len(q) \in Nat /\ r[Len(q) + 1] = x
      /\ \A j \in 1 .. Len(q) : r[j] = q[j]
  OBVIOUS
<1> HIDE DEF r
<1>2. ASSUME NEW i \in 1 .. Len(q) + 1
      PROVE  ModeBefore(m, r, i) = ModeBefore(m, q, i)
  <2>1. i \in Nat \ {0} /\ \A j \in 1 .. i - 1 : r[j] = q[j]
    BY <1>1
  <2>2. Leaves(m, q, i, ModeBefore(m, q, i))
    BY <2>1, ModeBeforeLeaves
  <2>3. Leaves(m, r, i, ModeBefore(m, q, i))
    <3> DEFINE v == ModeBefore(m, q, i)
    <3> HIDE DEF v
    <3>1. Leaves(m, q, i, v) => Leaves(m, r, i, v)
      BY <2>1 DEF Leaves
    <3> QED BY <2>2, <3>1 DEF v
  <2> QED BY <2>1, <2>3, LeavesOne
<1>3. CASE IsSwitch(x.ask)
  <2>1. Leaves(m, r, Len(q) + 2, ModeOf(x.ask.value))
    <3>1. Len(q) + 1 \in 1 .. Len(q) + 2 - 1
      BY <1>1
    <3>2. \A k \in 1 .. Len(q) + 2 - 1 : k <= Len(q) + 1
      BY <1>1
    <3> QED BY <1>1, <1>3, <3>1, <3>2 DEF Leaves
  <2> QED BY <1>1, <1>2, <1>3, <2>1, LeavesOne DEF r
<1>4. CASE ~IsSwitch(x.ask)
  <2> DEFINE v == ModeBefore(m, q, Len(q) + 1)
  <2>1. Leaves(m, q, Len(q) + 1, v)
    BY <1>1, ModeBeforeLeaves
  <2> HIDE DEF v
  <2>2. \A j \in 1 .. Len(q) + 2 - 1 : j \in 1 .. Len(q) + 1 - 1 \/ j = Len(q) + 1
    BY <1>1
  <2>3. \A j \in 1 .. Len(q) + 1 - 1 : r[j] = q[j] /\ j \in 1 .. Len(q) + 2 - 1
    BY <1>1
  <2>4. Leaves(m, r, Len(q) + 2, v)
    BY <1>1, <1>4, <2>1, <2>2, <2>3 DEF Leaves
  <2> QED BY <1>1, <1>2, <1>4, <2>4, LeavesOne DEF r, v
<1> QED BY <1>2, <1>3, <1>4 DEF r

\* When the first inquiry has arrived, the others follow it in the mode it left.
LEMMA ModeAfterTail ==
  ASSUME NEW m, NEW S, NEW q \in Seq(S), q # <<>>, NEW n,
         n = IF IsSwitch(Head(q).ask) THEN ModeOf(Head(q).ask.value) ELSE m
  PROVE  \A i \in 1 .. Len(q) : ModeBefore(n, Tail(q), i) = ModeBefore(m, q, i + 1)
<1> DEFINE t == Tail(q)
<1>1. /\ Len(q) \in Nat \ {0} /\ Head(q) = q[1]
      /\ \A j \in 1 .. Len(q) - 1 : t[j] = q[j + 1]
  OBVIOUS
<1> HIDE DEF t
<1> SUFFICES ASSUME NEW i \in 1 .. Len(q)
             PROVE  ModeBefore(m, q, i + 1) = ModeBefore(n, t, i)
  BY DEF t
<1> DEFINE v == ModeBefore(n, t, i)
<1>2. Leaves(n, t, i, v)
  BY <1>1, ModeBeforeLeaves
<1> HIDE DEF v
<1>3. \A j \in 1 .. i - 1 : t[j] = q[j + 1] /\ j + 1 \in 1 .. i + 1 - 1
  BY <1>1
<1>4. \A j \in 1 .. i + 1 - 1 : j = 1 \/ (j - 1 \in 1 .. i - 1 /\ q[j] = t[j - 1])
  BY <1>1
<1>5. 1 \in 1 .. i + 1 - 1
  BY <1>1
<1>6. Leaves(m, q, i + 1, v)
  <2>1. CASE \A j \in 1 .. i - 1 : ~IsSwitch(t[j].ask)
    <3>1. v = n
      BY <1>2, <2>1 DEF Leaves
    <3>2. \A j \in 1 .. i + 1 - 1 : IsSwitch(q[j].ask) => j = 1
      BY <1>4, <2>1
    <3>3. CASE IsSwitch(q[1].ask)
      BY <1>1, <1>5, <3>1, <3>2, <3>3 DEF Leaves
    <3>4. CASE ~IsSwitch(q[1].ask)
      BY <1>1, <3>1, <3>2, <3>4 DEF Leaves
    <3> QED BY <3>3, <3>4
  <2>2. CASE \E j \in 1 .. i - 1 : IsSwitch(t[j].ask)
    <3>1. PICK j \in 1 .. i - 1 :
            /\ IsSwitch(t[j].ask) /\ v = ModeOf(t[j].ask.value)
            /\ \A k \in 1 .. i - 1 : IsSwitch(t[k].ask) => k <= j
      BY <1>2, <2>2 DEF Leaves
    <3>2. j + 1 \in 1 .. i + 1 - 1 /\ q[j + 1] = t[j]
      BY <1>3
    <3>3. ASSUME NEW k \in 1 .. i + 1 - 1, IsSwitch(q[k].ask)  PROVE k <= j + 1
      <4>1. CASE k = 1
        BY <4>1
      <4>2. CASE k - 1 \in 1 .. i - 1 /\ q[k] = t[k - 1]
        <5>1. k - 1 <= j
          BY <3>1, <3>3, <4>2
        <5> QED BY <5>1
      <4> QED BY <1>4, <4>1, <4>2
    <3> QED BY <3>1, <3>2, <3>3 DEF Leaves
  <2> QED BY <2>1, <2>2
<1> QED BY <1>1, <1>6, LeavesOne DEF v

-----------------------------------------------------------------------------
(* The mode in which an inquiry arrives is one that allows it.              *)

\* What a client's place in a call says about the call.
Calls ==
  \A c \in Clients :
    /\ client[c].at = "idle" => client[c] = Idle
    /\ client[c].at # "idle" => Accepts(client[c].ask.type, client[c].ask.value)

\* A queued inquiry was accepted, and so is a switch to 0 or 1.
Accepted == {q \in Queueable : Accepts(q.ask.type, q.ask.value)}
QueuedAccepted == tx_queue \in Seq(Accepted)

\* A switch that has set the manager's mode and is not in the queue yet.
Ahead(c) == IsSwitch(client[c].ask) /\ (Running \/ client[c].at = "queue")

\* The mode of the manager is ahead of the queue by the one switch that is being made, and
\* allows whatever is being asked.
ModesAgree ==
  in_step =>
    /\ \A i \in DOMAIN tx_queue : ModeAt(i) \in AllowedIn(tx_queue[i].ask.type)
    /\ (\A c \in Clients : ~Ahead(c)) => current_mode = ModeAt(Len(tx_queue) + 1)
    /\ \A c \in Clients :
         /\ client[c].at # "idle" => current_mode \in AllowedIn(client[c].ask.type)
         /\ IsSwitch(client[c].ask) => \A d \in Clients \ {c} : client[d].at = "idle"
         /\ Ahead(c) => current_mode = ModeOf(client[c].ask.value)

ModeInv == IInv /\ Calls /\ QueuedAccepted /\ ModesAgree

\* ModeAt in the terms of the lemmas above.
LEMMA ModeAtIs ==
  /\ \A i : ModeAt(i) = ModeBefore(sensor_mode, tx_queue, i)
  /\ (\A i : ModeAt(i) = ModeBefore(sensor_mode, tx_queue, i))'
BY DEF ModeAt, ModeBefore

\* An idle client makes no switch, and a switch is allowed in every mode.
LEMMA IdleIsNoSwitch == Idle.at = "idle" /\ ~IsSwitch(Idle.ask)
BY DEF Idle, Unasked, IsSwitch

LEMMA SwitchAllowed ==
  ASSUME NEW a, IsSwitch(a)
  PROVE  AllowedIn(a.type) = Modes
<1>1. a.type = "OUTPUT_SWITCH"
  BY DEF IsSwitch
<1>2. a.type \notin StandardOnly
  BY <1>1 DEF StandardOnly
<1>3. a.type \notin UofOnly
  BY <1>1 DEF UofOnly, CustomModeWords, CustomSetWords, CustomGetWords, Word
<1> QED BY <1>2, <1>3 DEF AllowedIn

\* The sensor is switched by the switches that are asked for and by nothing else.
LEMMA ObeyedIsModeOf ==
  ASSUME NEW q \in Queueable, Accepts(q.ask.type, q.ask.value)
  PROVE  Obeyed(q.frame)
           = IF IsSwitch(q.ask) THEN ModeOf(q.ask.value) ELSE sensor_mode
<1> DEFINE w == Word("OUTPUT_SWITCH", 8, 0, 1)
<1>1. w \in Words
  BY DEF Words, UofWords
<1>2. w.type = "OUTPUT_SWITCH" /\ w.ctrl = 8 /\ w.cmd = 0 /\ w.len = 1
  BY DEF Word
<1> HIDE DEF w
<1>3. /\ q.ask \in Asks /\ q.frame = InquiryFrame(q.ask.type, q.ask.value)
      /\ IsAnswerTo(q.frame, q.ask)
  BY QueueableFrame DEF Queueable
<1>4. /\ WordOf(q.ask.type) \in Words /\ WordOf(q.ask.type).type = q.ask.type
      /\ q.ask.value \in Nat
  BY <1>3, AskWord
<1>5. CASE IsSwitch(q.ask)
  <2>1. q.ask.type = "OUTPUT_SWITCH"
    BY <1>5 DEF IsSwitch
  <2>2. WordOf(q.ask.type) = w
    BY <1>1, <1>2, <1>4, <2>1, WordsDistinct
  <2>3. q.frame.ctrl = 8 /\ q.frame.cmd = 0
    BY <1>2, <1>3, <2>2 DEF IsAnswerTo
  <2>4. q.ask.value \in 0 .. 1
    <3>1. "OUTPUT_SWITCH" \in DOMAIN SettingValues /\ SettingValues["OUTPUT_SWITCH"] = 0 .. 1
      BY DEF SettingValues
    <3> QED BY <2>1, <3>1 DEF Accepts, Settings
  <2>5. q.frame.payload[1] = q.ask.value
    <3>1. q.frame.payload = Bytes(q.ask.value, 1)
      BY <1>2, <1>3, <2>2 DEF InquiryFrame
    <3>2. Bytes(q.ask.value, 1)[1] = LastByte(q.ask.value)
      BY DEF Bytes
    <3>3. LastByte(q.ask.value) = q.ask.value
      BY <2>4 DEF LastByte
    <3> QED BY <3>1, <3>2, <3>3
  <2> QED BY <1>5, <2>3, <2>5 DEF Obeyed
<1>6. CASE ~IsSwitch(q.ask)
  <2>1. WordOf(q.ask.type) # w
    BY <1>2, <1>4, <1>6 DEF IsSwitch
  <2>2. ~(WordOf(q.ask.type).ctrl = 8 /\ WordOf(q.ask.type).cmd = 0)
    BY <1>1, <1>2, <1>4, <2>1, WordsDistinct
  <2>3. ~(q.frame.ctrl = 8 /\ q.frame.cmd = 0)
    BY <1>3, <2>2 DEF IsAnswerTo
  <2> QED BY <1>6, <2>3 DEF Obeyed
<1> QED BY <1>5, <1>6

LEMMA ModeBeforeType ==
  ASSUME NEW m \in Modes, NEW q, NEW i \in Nat \ {0}
  PROVE  ModeBefore(m, q, i) \in Modes
BY ModeBeforeLeaves DEF Leaves, ModeOf, Modes

\* A step that leaves the queue and the sensor alone leaves the modes of arrival alone.
LEMMA ModeAtKept ==
  ASSUME UNCHANGED <<tx_queue, sensor_mode>>
  PROVE  \A i : ModeAt(i)' = ModeAt(i)
BY ModeAtIs

\* A client that returns without having queued anything.
LEMMA ReturnAgrees ==
  ASSUME ModeInv, NEW c \in Clients, client' = [client EXCEPT ![c] = Idle],
         UNCHANGED <<system, current_mode, tx_queue, sensor_mode>>,
         in_step' => in_step /\ ~Ahead(c)
  PROVE  Calls' /\ QueuedAccepted' /\ ModesAgree'
<1> USE DEF ModeInv
<1>1. \A d \in Clients : client'[d] = IF d = c THEN Idle ELSE client[d]
  BY DEF IInv, TypeOK
<1>2. Calls' /\ QueuedAccepted'
  BY <1>1, IdleIsNoSwitch DEF Calls, QueuedAccepted
<1>a. \A d \in Clients : Ahead(d)' <=> d # c /\ Ahead(d)
  BY <1>1, IdleIsNoSwitch DEF Ahead, Running
<1>3. ASSUME in_step'
      PROVE  /\ \A i \in DOMAIN tx_queue' : ModeAt(i)' \in AllowedIn(tx_queue'[i].ask.type)
             /\ (\A d \in Clients : ~Ahead(d)') => current_mode' = ModeAt(Len(tx_queue) + 1)'
  <2>1. \A i \in DOMAIN tx_queue' : ModeAt(i)' \in AllowedIn(tx_queue'[i].ask.type)
    BY <1>3, ModeAtKept DEF ModesAgree
  <2>2. ASSUME \A d \in Clients : ~Ahead(d)'
        PROVE  current_mode' = ModeAt(Len(tx_queue) + 1)'
    <3>1. \A d \in Clients : ~Ahead(d)
      BY <1>a, <1>3, <2>2
    <3>2. current_mode = ModeAt(Len(tx_queue) + 1)
      BY <1>3, <3>1 DEF ModesAgree
    <3>3. ModeAt(Len(tx_queue) + 1)' = ModeAt(Len(tx_queue') + 1)
      BY ModeAtIs
    <3> QED BY <3>2, <3>3
  <2> QED BY <2>1, <2>2
<1>4. ASSUME in_step', NEW d \in Clients
      PROVE  /\ client'[d].at # "idle" => current_mode' \in AllowedIn(client'[d].ask.type)
             /\ IsSwitch(client'[d].ask) => \A e \in Clients \ {d} : client'[e].at = "idle"
             /\ Ahead(d)' => current_mode' = ModeOf(client'[d].ask.value)
  BY <1>1, <1>a, <1>4, IdleIsNoSwitch DEF ModesAgree
<1>5. ModesAgree'
  BY <1>3, <1>4 DEF ModesAgree
<1> QED BY <1>2, <1>5

\* A step that leaves queue, sensor, mode and clients alone; a stop may set a switch aside.
LEMMA RestAgrees ==
  ASSUME ModeInv, UNCHANGED <<current_mode, client, tx_queue, sensor_mode>>,
         in_step' => in_step /\ \A c \in Clients : Ahead(c)' <=> Ahead(c)
  PROVE  Calls' /\ QueuedAccepted' /\ ModesAgree'
<1> USE DEF ModeInv
<1>1. Calls' /\ QueuedAccepted'
  BY DEF Calls, QueuedAccepted
<1>2. ASSUME in_step'
      PROVE  /\ \A i \in DOMAIN tx_queue' : ModeAt(i)' \in AllowedIn(tx_queue'[i].ask.type)
             /\ (\A c \in Clients : ~Ahead(c)') => current_mode' = ModeAt(Len(tx_queue) + 1)'
  <2>1. /\ \A i \in DOMAIN tx_queue : ModeAt(i) \in AllowedIn(tx_queue[i].ask.type)
        /\ (\A c \in Clients : ~Ahead(c)) => current_mode = ModeAt(Len(tx_queue) + 1)
    BY <1>2 DEF ModesAgree
  <2> QED BY <1>2, <2>1, ModeAtKept, ModeAtIs
<1>3. ASSUME in_step', NEW c \in Clients
      PROVE  /\ client'[c].at # "idle" => current_mode' \in AllowedIn(client'[c].ask.type)
             /\ IsSwitch(client'[c].ask) => \A d \in Clients \ {c} : client'[d].at = "idle"
             /\ Ahead(c)' => current_mode' = ModeOf(client'[c].ask.value)
  BY <1>3 DEF ModesAgree
<1> QED BY <1>1, <1>2, <1>3 DEF ModesAgree

\* Deinit empties the queue: no switch was in it, so the mode was the sensor's.
LEMMA StartAgrees ==
  ASSUME ModeInv, StartSys
  PROVE  Calls' /\ QueuedAccepted' /\ ModesAgree'
<1> USE DEF ModeInv
<1>1. /\ \A c \in Clients : client[c].at = "idle"
      /\ tx_queue' = <<>> /\ UNCHANGED <<current_mode, client, sensor_mode>>
      /\ in_step' => in_step /\ \A i \in DOMAIN tx_queue : ~IsSwitch(tx_queue[i].ask)
  BY DEF StartSys, lineVars
<1>2. Calls'
  BY <1>1 DEF Calls
<1>3. QueuedAccepted' /\ Len(tx_queue') = 0 /\ DOMAIN tx_queue' = {}
  BY <1>1 DEF QueuedAccepted
<1>4. \A c \in Clients : ~IsSwitch(client[c].ask)
  BY <1>1, IdleIsNoSwitch DEF Calls
<1>5. ASSUME in_step' PROVE current_mode' = ModeAt(Len(tx_queue) + 1)'
  <2>1. current_mode = ModeAt(Len(tx_queue) + 1)
    BY <1>1, <1>4, <1>5 DEF ModesAgree, Ahead
  <2>2. {j \in 1 .. Len(tx_queue) + 1 - 1 : IsSwitch(tx_queue[j].ask)} = {}
    <3>1. Len(tx_queue) \in Nat /\ DOMAIN tx_queue = 1 .. Len(tx_queue)
      BY DEF QueuedAccepted
    <3> QED BY <1>1, <1>5, <3>1
  <2>3. ModeAt(Len(tx_queue) + 1) = sensor_mode
    BY <2>2 DEF ModeAt
  <2>4. ModeAt(Len(tx_queue) + 1)' = ModeBefore(sensor_mode', tx_queue', Len(tx_queue') + 1)
    BY ModeAtIs
  <2>5. ModeBefore(sensor_mode', tx_queue', 1) = sensor_mode'
    BY DEF ModeBefore
  <2> QED BY <1>1, <1>3, <2>1, <2>3, <2>4, <2>5
<1>6. \A c \in Clients : client'[c].at = "idle" /\ ~IsSwitch(client'[c].ask) /\ ~Ahead(c)'
  BY <1>1, <1>4 DEF Ahead
<1>7. ModesAgree'
  BY <1>3, <1>5, <1>6 DEF ModesAgree
<1> QED BY <1>2, <1>3, <1>7

\* The first inquiry of the queue arrives, or is lost.
LEMMA TailAgrees ==
  ASSUME ModeInv, tx_queue # <<>>, tx_queue' = Tail(tx_queue),
         UNCHANGED <<system, current_mode, client>>,
         in_step' => /\ in_step
                     /\ sensor_mode' = IF IsSwitch(Head(tx_queue).ask)
                                       THEN ModeOf(Head(tx_queue).ask.value) ELSE sensor_mode
  PROVE  Calls' /\ QueuedAccepted' /\ ModesAgree'
<1> USE DEF ModeInv
<1>1. Calls'
  BY DEF Calls
<1>a. \A d \in Clients : Ahead(d)' <=> Ahead(d)
  BY DEF Ahead, Running
<1>2. QueuedAccepted'
  BY HeadTailProperties DEF QueuedAccepted
<1>3. /\ tx_queue \in Seq(Accepted) /\ Len(tx_queue) \in Nat \ {0}
      /\ Len(tx_queue') = Len(tx_queue) - 1 /\ DOMAIN tx_queue' = 1 .. Len(tx_queue) - 1
      /\ \A i \in 1 .. Len(tx_queue) - 1 : tx_queue'[i] = tx_queue[i + 1]
  BY HeadTailProperties, EmptySeq DEF QueuedAccepted
<1>4. ASSUME in_step', NEW i \in 1 .. Len(tx_queue)
      PROVE  ModeAt(i)' = ModeAt(i + 1)
  <2>1. ModeBefore(sensor_mode', Tail(tx_queue), i) = ModeBefore(sensor_mode, tx_queue, i + 1)
    BY <1>3, <1>4, ModeAfterTail
  <2>2. ModeAt(i)' = ModeBefore(sensor_mode', tx_queue', i)
    BY ModeAtIs
  <2> QED BY <2>1, <2>2, ModeAtIs
<1>5. ASSUME in_step'
      PROVE  /\ \A i \in DOMAIN tx_queue' : ModeAt(i)' \in AllowedIn(tx_queue'[i].ask.type)
             /\ (\A d \in Clients : ~Ahead(d)') => current_mode' = ModeAt(Len(tx_queue) + 1)'
  <2>1. ASSUME NEW i \in DOMAIN tx_queue'
        PROVE  ModeAt(i)' \in AllowedIn(tx_queue'[i].ask.type)
    <3>1. i \in 1 .. Len(tx_queue) - 1 /\ i \in 1 .. Len(tx_queue) /\ i + 1 \in DOMAIN tx_queue
      BY <1>3
    <3>2. ModeAt(i + 1) \in AllowedIn(tx_queue[i + 1].ask.type)
      BY <1>5, <3>1 DEF ModesAgree
    <3> QED BY <1>3, <1>4, <1>5, <3>1, <3>2
  <2>2. ASSUME \A d \in Clients : ~Ahead(d)'
        PROVE  current_mode' = ModeAt(Len(tx_queue) + 1)'
    <3>1. current_mode = ModeAt(Len(tx_queue) + 1)
      BY <1>5, <1>a, <2>2 DEF ModesAgree
    <3>2. ModeAt(Len(tx_queue) + 1)' = ModeBefore(sensor_mode', tx_queue', Len(tx_queue') + 1)
      BY ModeAtIs
    <3>3. Len(tx_queue') + 1 = Len(tx_queue) /\ Len(tx_queue) \in 1 .. Len(tx_queue)
      BY <1>3
    <3>4. ModeBefore(sensor_mode', Tail(tx_queue), Len(tx_queue))
            = ModeBefore(sensor_mode, tx_queue, Len(tx_queue) + 1)
      BY <1>3, <1>5, <3>3, ModeAfterTail
    <3> QED BY <3>1, <3>2, <3>3, <3>4, ModeAtIs
  <2> QED BY <2>1, <2>2
<1>6. ModesAgree'
  BY <1>5, <1>a DEF ModesAgree
<1> QED BY <1>1, <1>2, <1>6

\* An inquiry is accepted.
LEMMA AcceptAgrees ==
  ASSUME ModeInv, NEW c \in Clients, NEW a \in Asks, AskAccepted(c, a)
  PROVE  Calls' /\ QueuedAccepted' /\ ModesAgree'
<1> USE DEF ModeInv
<1>1. /\ client[c].at = "idle" /\ current_mode \in AllowedIn(a.type) /\ Accepts(a.type, a.value)
      /\ current_mode' = ModeSetBy(a)
      /\ client' = [client EXCEPT ![c] = [at |-> "send", ask |-> a]]
      /\ in_step' => in_step /\ ~BesideASwitch(c, a)
      /\ UNCHANGED <<system, tx_queue, sensor_mode>>
  BY DEF AskAccepted, Called, lineVars
<1>2. \A d \in Clients :
        client'[d] = IF d = c THEN [at |-> "send", ask |-> a] ELSE client[d]
  BY <1>1 DEF IInv, TypeOK
<1>3. Calls' /\ QueuedAccepted'
  BY <1>1, <1>2 DEF Calls, QueuedAccepted
<1>4. ~IsSwitch(client[c].ask)
  BY <1>1, IdleIsNoSwitch DEF Calls
<1>5. ASSUME in_step'
      PROVE  \/ \A d \in Clients \ {c} : client[d].at = "idle" /\ ~IsSwitch(client[d].ask)
             \/ ~IsSwitch(a) /\ \A d \in Clients : ~IsSwitch(client[d].ask)
  BY <1>1, <1>5, IdleIsNoSwitch DEF BesideASwitch, Alone, Calls
<1>6. ~IsSwitch(a) => current_mode' = current_mode
  BY <1>1 DEF ModeSetBy
<1>7. IsSwitch(a) /\ Running => current_mode' = ModeOf(a.value)
  BY <1>1 DEF ModeSetBy
<1>8. ~Running => current_mode' = current_mode
  BY <1>1 DEF ModeSetBy
<1>a. /\ Ahead(c)' <=> IsSwitch(a) /\ Running
      /\ ~Ahead(c)
      /\ \A d \in Clients \ {c} : Ahead(d)' <=> Ahead(d)
  BY <1>1, <1>2, <1>4 DEF Ahead, Running
<1>9. ASSUME in_step'
      PROVE  /\ \A i \in DOMAIN tx_queue' : ModeAt(i)' \in AllowedIn(tx_queue'[i].ask.type)
             /\ (\A d \in Clients : ~Ahead(d)') => current_mode' = ModeAt(Len(tx_queue) + 1)'
  <2>1. \A i \in DOMAIN tx_queue' : ModeAt(i)' \in AllowedIn(tx_queue'[i].ask.type)
    BY <1>1, <1>9, ModeAtKept DEF ModesAgree
  <2>2. ASSUME \A d \in Clients : ~Ahead(d)'
        PROVE  current_mode' = ModeAt(Len(tx_queue) + 1)'
    <3>1. current_mode' = current_mode
      BY <1>a, <1>6, <1>8, <2>2
    <3>2. \A d \in Clients : ~Ahead(d)
      BY <1>a, <2>2
    <3>3. current_mode = ModeAt(Len(tx_queue) + 1)
      BY <1>1, <1>9, <3>2 DEF ModesAgree
    <3> QED BY <1>1, <3>1, <3>3, ModeAtIs
  <2> QED BY <2>1, <2>2
<1>10. ASSUME in_step', NEW d \in Clients
       PROVE  client'[d].at # "idle" => current_mode' \in AllowedIn(client'[d].ask.type)
  <2>1. CASE d = c
    <3>1. current_mode' \in AllowedIn(a.type)
      <4>1. CASE IsSwitch(a) /\ Running
        BY <1>7, <4>1, SwitchAllowed DEF ModeOf, Modes
      <4>2. CASE ~(IsSwitch(a) /\ Running)
        BY <1>1, <1>6, <1>8, <4>2
      <4> QED BY <4>1, <4>2
    <3> QED BY <1>2, <2>1, <3>1
  <2>2. CASE d # c
    <3>1. client[d].at # "idle" => ~IsSwitch(a)
      BY <1>5, <1>10, <2>2
    <3> QED BY <1>1, <1>2, <1>6, <1>10, <2>2, <3>1 DEF ModesAgree
  <2> QED BY <2>1, <2>2
<1>11. ASSUME in_step', NEW d \in Clients, IsSwitch(client'[d].ask)
       PROVE  /\ \A e \in Clients \ {d} : client'[e].at = "idle"
              /\ Ahead(d)' => current_mode' = ModeOf(client'[d].ask.value)
  <2>1. CASE d = c
    <3>1. IsSwitch(a)
      BY <1>2, <1>11, <2>1
    <3> QED BY <1>1, <1>2, <1>5, <1>7, <1>a, <1>11, <2>1, <3>1
  <2>2. CASE d # c
    <3>1. IsSwitch(client[d].ask)
      BY <1>2, <1>11, <2>2
    <3> QED BY <1>5, <1>11, <2>2, <3>1
  <2> QED BY <2>1, <2>2
<1>12. ModesAgree'
  BY <1>9, <1>10, <1>11 DEF ModesAgree, Ahead
<1> QED BY <1>3, <1>12

\* The block of the frame is there.
LEMMA BuildAgrees ==
  ASSUME ModeInv, NEW c \in Clients, Build(c)
  PROVE  Calls' /\ QueuedAccepted' /\ ModesAgree'
<1> USE DEF ModeInv
<1>1. /\ client[c].at = "send" /\ Running
      /\ client' = [client EXCEPT ![c].at = "queue"]
      /\ UNCHANGED <<system, current_mode, tx_queue, sensor_mode, in_step>>
  BY DEF Build, lineVars, HalRunning, Running
<1>2. \A d \in Clients : /\ client'[d].ask = client[d].ask
                         /\ client'[d].at = IF d = c THEN "queue" ELSE client[d].at
                         /\ d # c => client'[d] = client[d]
  BY <1>1 DEF IInv, TypeOK
<1>3. Calls' /\ QueuedAccepted'
  BY <1>1, <1>2 DEF Calls, QueuedAccepted
<1>a. \A d \in Clients : Ahead(d)' <=> Ahead(d)
  BY <1>1, <1>2 DEF Ahead, Running
<1>4. ASSUME in_step'
      PROVE  /\ \A i \in DOMAIN tx_queue' : ModeAt(i)' \in AllowedIn(tx_queue'[i].ask.type)
             /\ (\A d \in Clients : ~Ahead(d)') => current_mode' = ModeAt(Len(tx_queue) + 1)'
  <2>1. /\ \A i \in DOMAIN tx_queue : ModeAt(i) \in AllowedIn(tx_queue[i].ask.type)
        /\ (\A d \in Clients : ~Ahead(d)) => current_mode = ModeAt(Len(tx_queue) + 1)
    BY <1>1, <1>4 DEF ModesAgree
  <2> QED BY <1>1, <1>a, <2>1, ModeAtKept, ModeAtIs
<1>5. ASSUME in_step', NEW d \in Clients
      PROVE  /\ client'[d].at # "idle" => current_mode' \in AllowedIn(client'[d].ask.type)
             /\ IsSwitch(client'[d].ask) => \A e \in Clients \ {d} : client'[e].at = "idle"
             /\ Ahead(d)' => current_mode' = ModeOf(client'[d].ask.value)
  <2>1. /\ client[d].at # "idle" => current_mode \in AllowedIn(client[d].ask.type)
        /\ IsSwitch(client[d].ask) => \A e \in Clients \ {d} : client[e].at = "idle"
        /\ Ahead(d) => current_mode = ModeOf(client[d].ask.value)
    BY <1>1, <1>5 DEF ModesAgree
  <2> QED BY <1>1, <1>2, <1>a, <2>1
<1>6. ModesAgree'
  BY <1>4, <1>5 DEF ModesAgree
<1> QED BY <1>3, <1>6

\* The frame is queued: the mode it will arrive in is the manager's, or its own.
LEMMA QueueAgrees ==
  ASSUME ModeInv, NEW c \in Clients, Queue(c)
  PROVE  Calls' /\ QueuedAccepted' /\ ModesAgree'
<1> USE DEF ModeInv
<1> DEFINE a == client[c].ask
           x == [frame |-> InquiryFrame(a.type, a.value), ask |-> a]
           n == Len(tx_queue)
<1>1. /\ client[c].at = "queue"
      /\ tx_queue' = Append(tx_queue, x)
      /\ client' = [client EXCEPT ![c] = Idle]
      /\ UNCHANGED <<system, current_mode, sensor_mode, in_step>>
  BY DEF Queue, Returns, lineVars
<1>2. \A d \in Clients : client'[d] = IF d = c THEN Idle ELSE client[d]
  BY <1>1 DEF IInv, TypeOK
<1>a. /\ Ahead(c) <=> IsSwitch(a)
      /\ \A d \in Clients : Ahead(d)' <=> d # c /\ Ahead(d)
  BY <1>1, <1>2, IdleIsNoSwitch DEF Ahead, Running
<1>3. x \in Accepted /\ x.ask = a
  <2>1. a \in Asks /\ Accepts(a.type, a.value)
    BY <1>1 DEF IInv, Calls
  <2>2. InquiryFrame(a.type, a.value) \in Frames
    BY <2>1, AskWord, InquiryFrameType
  <2> QED BY <2>1, <2>2 DEF Accepted, Queueable
<1> HIDE DEF x
<1>4. /\ n \in Nat /\ tx_queue' \in Seq(Accepted) /\ Len(tx_queue') = n + 1
      /\ DOMAIN tx_queue' = 1 .. n + 1 /\ tx_queue'[n + 1] = x
      /\ \A i \in 1 .. n : tx_queue'[i] = tx_queue[i] /\ i \in DOMAIN tx_queue
  BY <1>1, <1>3 DEF QueuedAccepted
<1>5. Calls' /\ QueuedAccepted'
  BY <1>1, <1>2, <1>4, IdleIsNoSwitch DEF Calls, QueuedAccepted
<1>6. ASSUME NEW i \in 1 .. n + 1
      PROVE  ModeAt(i)' = ModeAt(i)
  <2>1. ModeBefore(sensor_mode, Append(tx_queue, x), i) = ModeBefore(sensor_mode, tx_queue, i)
    BY <1>3, ModeAfterAppend DEF QueuedAccepted
  <2>2. ModeAt(i)' = ModeBefore(sensor_mode', tx_queue', i)
    BY ModeAtIs
  <2> QED BY <1>1, <2>1, <2>2, ModeAtIs
<1>7. ModeAt(Len(tx_queue) + 1)' = IF IsSwitch(a) THEN ModeOf(a.value) ELSE ModeAt(n + 1)
  <2>1. ModeBefore(sensor_mode, Append(tx_queue, x), n + 2)
          = IF IsSwitch(a) THEN ModeOf(a.value) ELSE ModeBefore(sensor_mode, tx_queue, n + 1)
    <3> HIDE DEF a
    <3>1. tx_queue \in Seq(Accepted) /\ x \in Accepted
      BY <1>3 DEF QueuedAccepted
    <3>2. ModeBefore(sensor_mode, Append(tx_queue, x), Len(tx_queue) + 2)
            = IF IsSwitch(x.ask) THEN ModeOf(x.ask.value)
              ELSE ModeBefore(sensor_mode, tx_queue, Len(tx_queue) + 1)
      BY <3>1, ModeAfterAppend
    <3> QED BY <1>3, <3>2
  <2>2. ModeAt(Len(tx_queue) + 1)' = ModeBefore(sensor_mode', tx_queue', Len(tx_queue') + 1)
    BY ModeAtIs
  <2>3. Len(tx_queue') + 1 = n + 2
    BY <1>4
  <2> QED BY <1>1, <2>1, <2>2, <2>3, ModeAtIs
<1>8. ASSUME in_step', ~IsSwitch(a)
      PROVE  current_mode = ModeAt(n + 1)
  <2>1. ASSUME NEW d \in Clients, IsSwitch(client[d].ask)  PROVE FALSE
    <3>1. d # c
      BY <1>8, <2>1
    <3> QED BY <1>1, <1>8, <2>1, <3>1 DEF ModesAgree
  <2> QED BY <1>1, <1>8, <2>1 DEF ModesAgree, Ahead
<1>9. ASSUME in_step', IsSwitch(a)
      PROVE  current_mode = ModeOf(a.value)
  BY <1>1, <1>a, <1>9 DEF ModesAgree
<1>10. ASSUME in_step', NEW i \in DOMAIN tx_queue'
       PROVE  ModeAt(i)' \in AllowedIn(tx_queue'[i].ask.type)
  <2>1. CASE i \in 1 .. n
    <3>1. ModeAt(i) \in AllowedIn(tx_queue[i].ask.type)
      BY <1>1, <1>4, <1>10, <2>1 DEF ModesAgree
    <3> QED BY <1>4, <1>6, <2>1, <3>1
  <2>2. CASE i = n + 1
    <3>1. ModeAt(i)' = ModeAt(n + 1) /\ tx_queue'[i].ask = a
      BY <1>3, <1>4, <1>6, <2>2
    <3>2. ModeAt(n + 1) \in AllowedIn(a.type)
      <4>1. CASE IsSwitch(a)
        <5>1. ModeAt(n + 1) \in Modes
          BY <1>4, ModeAtIs, ModeBeforeType DEF IInv, TypeOK
        <5> QED BY <4>1, <5>1, SwitchAllowed
      <4>2. CASE ~IsSwitch(a)
        BY <1>1, <1>8, <1>10, <4>2 DEF ModesAgree
      <4> QED BY <4>1, <4>2
    <3> QED BY <3>1, <3>2
  <2> QED BY <1>4, <1>10, <2>1, <2>2
<1>11. ASSUME in_step'
       PROVE  current_mode' = ModeAt(Len(tx_queue) + 1)'
  BY <1>1, <1>7, <1>8, <1>9, <1>11
<1>12. ASSUME in_step', NEW d \in Clients
       PROVE  /\ client'[d].at # "idle" => current_mode' \in AllowedIn(client'[d].ask.type)
              /\ IsSwitch(client'[d].ask) => \A e \in Clients \ {d} : client'[e].at = "idle"
              /\ Ahead(d)' => current_mode' = ModeOf(client'[d].ask.value)
  <2>1. CASE d = c
    BY <1>2, <1>a, <2>1, IdleIsNoSwitch
  <2>2. CASE d # c
    <3>1. /\ client[d].at # "idle" => current_mode \in AllowedIn(client[d].ask.type)
          /\ IsSwitch(client[d].ask) => \A e \in Clients \ {d} : client[e].at = "idle"
          /\ Ahead(d) => current_mode = ModeOf(client[d].ask.value)
      BY <1>1, <1>12 DEF ModesAgree
    <3> QED BY <1>1, <1>2, <1>a, <2>2, <3>1, IdleIsNoSwitch
  <2> QED BY <2>1, <2>2
<1>13. ModesAgree'
  BY <1>10, <1>11, <1>12 DEF ModesAgree
<1> QED BY <1>5, <1>13

LEMMA InitModeInv == Init => ModeInv
<1> SUFFICES ASSUME Init PROVE ModeInv
  OBVIOUS
<1>1. IInv
  BY InitIInv
<1>2. \A c \in Clients : client[c] = Idle
  BY DEF Init
<1>3. Calls /\ QueuedAccepted
  BY <1>2, IdleIsNoSwitch DEF Init, Calls, QueuedAccepted
<1>4. tx_queue = <<>> /\ Len(tx_queue) + 1 = 1 /\ DOMAIN tx_queue = {}
  BY DEF Init
<1>5. current_mode = ModeAt(Len(tx_queue) + 1)
  <2>1. ModeBefore(sensor_mode, tx_queue, 1) = sensor_mode
    BY DEF ModeBefore
  <2> QED BY <1>4, <2>1, ModeAtIs DEF Init
<1>6. ModesAgree
  BY <1>2, <1>4, <1>5, IdleIsNoSwitch DEF ModesAgree, Ahead
<1> QED BY <1>1, <1>3, <1>6 DEF ModeInv

LEMMA NextModeInv == ModeInv /\ [Next]_vars => ModeInv'
<1> SUFFICES ASSUME ModeInv, [Next]_vars PROVE Calls' /\ QueuedAccepted' /\ ModesAgree'
  BY NextIInv DEF ModeInv
<1>2. ASSUME NEW c \in Clients, ClientStep(c)
      PROVE  Calls' /\ QueuedAccepted' /\ ModesAgree'
  <2>1. CASE NotRunning(c)
    <3>1. /\ client' = [client EXCEPT ![c] = Idle]
          /\ UNCHANGED <<system, current_mode, tx_queue, sensor_mode>>
          /\ in_step' => in_step /\ ~Ahead(c)
      BY <2>1 DEF NotRunning, StillInStep, Returns, Ahead, lineVars
    <3> QED BY <3>1, ReturnAgrees
  <2>2. CASE BuildFails(c) \/ QueueFull(c)
    <3>1. /\ client' = [client EXCEPT ![c] = Idle]
          /\ UNCHANGED <<system, current_mode, tx_queue, sensor_mode>>
          /\ in_step' => in_step /\ ~Ahead(c)
      BY <2>2 DEF BuildFails, QueueFull, StillInStep, Returns, Ahead, lineVars
    <3> QED BY <3>1, ReturnAgrees
  <2> QED BY <1>2, <2>1, <2>2, BuildAgrees, QueueAgrees DEF ClientStep
<1>3. CASE SendFrame \/ SendLost
  <2>1. /\ tx_queue # <<>> /\ tx_queue' = Tail(tx_queue)
        /\ UNCHANGED <<system, current_mode, client>>
    BY <1>3 DEF SendFrame, SendLost
  <2>2. Head(tx_queue) \in Accepted
    BY <2>1, HeadTailProperties DEF ModeInv, QueuedAccepted
  <2>3. Obeyed(Head(tx_queue).frame)
          = IF IsSwitch(Head(tx_queue).ask) THEN ModeOf(Head(tx_queue).ask.value)
            ELSE sensor_mode
    BY <2>2, ObeyedIsModeOf DEF Accepted
  <2>4. \/ sensor_mode' = Obeyed(Head(tx_queue).frame) /\ in_step' = in_step
        \/ sensor_mode' = sensor_mode /\ in_step' = (in_step /\ ~IsSwitch(Head(tx_queue).ask))
    BY <1>3 DEF SendFrame, SendLost, StillInStep, NextToSend
  <2>5. in_step' => /\ in_step
                    /\ sensor_mode' = IF IsSwitch(Head(tx_queue).ask)
                                      THEN ModeOf(Head(tx_queue).ask.value) ELSE sensor_mode
    BY <2>3, <2>4
  <2> QED BY <2>1, <2>5, TailAgrees
<1>4. CASE SensorReports \/ DecodeFrame \/ UNCHANGED vars
  <2>1. UNCHANGED <<system, current_mode, client, tx_queue, sensor_mode, in_step>>
    BY <1>4 DEF SensorReports, DecodeFrame, vars
  <2> QED BY <2>1, RestAgrees DEF Ahead, Running
<1>5. CASE StopSys \/ SenderEnds \/ HalStops
  <2>1. /\ Running /\ Running'
        /\ UNCHANGED <<current_mode, client, tx_queue, sensor_mode, in_step>>
    BY <1>5 DEF StopSys, SenderEnds, HalStops, lineVars, Running
  <2> QED BY <2>1, RestAgrees DEF Ahead
<1>6. CASE StopReturns
  <2>1. /\ in_step' => /\ in_step
                       /\ \A c \in Clients : client[c].at = "send" => ~IsSwitch(client[c].ask)
        /\ UNCHANGED <<current_mode, client, tx_queue, sensor_mode>>
    BY <1>6 DEF StopReturns, lineVars
  <2>2. ASSUME in_step', NEW c \in Clients, IsSwitch(client[c].ask)
        PROVE  client[c].at = "queue"
    <3>1. client[c].at \in {"idle", "send", "queue"}
      BY DEF ModeInv, IInv, TypeOK
    <3> QED BY <2>1, <2>2, <3>1, IdleIsNoSwitch DEF ModeInv, Calls
  <2> QED BY <2>1, <2>2, RestAgrees DEF Ahead
<1> QED BY <1>2, <1>3, <1>4, <1>5, <1>6, AcceptAgrees, StartAgrees DEF Next, System

\* An inquiry that one mode only allows finds the sensor in that mode, however many tasks
\* ask and however long it was queued, over stops and starts, as long as every switch was
\* carried out, none was overtaken by a stop and none was made beside another call.
THEOREM InquiriesArriveInTheirMode == Spec => []ArrivesInItsMode
<1>1. ModeInv => ArrivesInItsMode
  <2>1. ASSUME ModeInv, \A c \in Clients : client[c].at = "idle"
        PROVE  \A c \in Clients : ~IsSwitch(client[c].ask)
    BY <2>1, IdleIsNoSwitch DEF ModeInv, Calls
  <2> QED BY <2>1 DEF ModeInv, ModesAgree, Ahead, ArrivesInItsMode
<1> QED BY <1>1, InitModeInv, NextModeInv, PTL DEF Spec

-----------------------------------------------------------------------------
(* The exchange is the service that InquiryService promises.                *)

LEMMA AppendBehind ==
  ASSUME NEW S, NEW s \in Seq(S), NEW t \in Seq(S), NEW x \in S
  PROVE  s \o Append(t, x) = Append(s \o t, x)
OBVIOUS

LEMMA HeadAcross ==
  ASSUME NEW S, NEW s \in Seq(S), NEW t \in Seq(S), t # <<>>
  PROVE  (s \o <<Head(t)>>) \o Tail(t) = s \o t
<1>1. Head(t) \in S /\ Tail(t) \in Seq(S) /\ t = <<Head(t)>> \o Tail(t)
  OBVIOUS
<1>2. <<Head(t)>> \in Seq(S)
  BY <1>1
<1> QED BY ONLY <1>1, <1>2, s \in Seq(S), ConcatAssociative

LEMMA FirstOfConcat ==
  ASSUME NEW S, NEW x \in S, NEW s \in Seq(S)
  PROVE  /\ <<x>> \o s \in Seq(S) /\ <<x>> \o s # <<>>
         /\ Head(<<x>> \o s) = x /\ Tail(<<x>> \o s) = s
OBVIOUS

LEMMA RemoveBehind ==
  ASSUME NEW S, NEW s \in Seq(S), NEW t \in Seq(S), t # <<>>
  PROVE  /\ Len(s) + 1 \in DOMAIN (s \o t)
         /\ RemoveAt(s \o t, Len(s) + 1) = s \o Tail(t)
<1> DEFINE st == s \o t
<1>1. /\ Len(s) \in Nat /\ Len(t) \in Nat \ {0} /\ st \in Seq(S)
      /\ Len(st) = Len(s) + Len(t)
      /\ \A i \in 1 .. Len(s) : st[i] = s[i]
      /\ \A i \in 1 .. Len(t) : st[Len(s) + i] = t[i]
  OBVIOUS
<1>2. /\ Tail(t) \in Seq(S) /\ Len(Tail(t)) = Len(t) - 1
      /\ \A i \in 1 .. Len(t) - 1 : Tail(t)[i] = t[i + 1]
  OBVIOUS
<1>d. DOMAIN st = 1 .. Len(st)
  BY <1>1
<1> HIDE DEF st
<1>3. SubSeq(st, 1, Len(s)) = s
  BY <1>1
<1>4. SubSeq(st, Len(s) + 2, Len(st)) = Tail(t)
  BY <1>1, <1>2
<1>5. (Len(s) + 1) - 1 = Len(s) /\ (Len(s) + 1) + 1 = Len(s) + 2
  BY <1>1
<1>6. RemoveAt(st, Len(s) + 1) = s \o Tail(t)
  BY <1>3, <1>4, <1>5, Zenon DEF RemoveAt
<1>7. Len(s) + 1 \in DOMAIN st
  BY <1>1, <1>d
<1> QED BY <1>6, <1>7 DEF st

\* The inquiries in tx_queue.
LEMMA AskedType ==
  ASSUME NEW s \in Seq(Queueable)
  PROVE  Asked(s) \in Seq(Asks) /\ Len(Asked(s)) = Len(s)
<1>1. \A i \in 1 .. Len(s) : s[i] \in Queueable
  BY ElementOfSeq
<1>2. \A q \in Queueable : q.ask \in Asks
  BY DEF Queueable
<1>3. DOMAIN s = 1 .. Len(s) /\ Len(s) \in Nat
  OBVIOUS
<1> QED BY <1>1, <1>2, <1>3 DEF Asked

LEMMA AskedEmpty == Asked(<<>>) = <<>>
BY DEF Asked

LEMMA AskedAppend ==
  ASSUME NEW s \in Seq(Queueable), NEW q \in Queueable
  PROVE  Asked(Append(s, q)) = Append(Asked(s), q.ask)
<1>1. Asked(s) \in Seq(Asks) /\ Len(Asked(s)) = Len(s) /\ q.ask \in Asks
  BY AskedType DEF Queueable
<1>2. \A i \in 1 .. Len(s) : Asked(s)[i] = s[i].ask
  BY DEF Asked
<1> DEFINE r == Append(s, q)
<1>3. /\ r \in Seq(Queueable) /\ Len(r) = Len(s) + 1 /\ r[Len(s) + 1] = q
      /\ Len(s) \in Nat /\ \A i \in 1 .. Len(s) : r[i] = s[i]
  OBVIOUS
<1> HIDE DEF r
<1>4. Asked(r) \in Seq(Asks) /\ Len(Asked(r)) = Len(r)
  BY <1>3, AskedType
<1>5. \A i \in 1 .. Len(r) : Asked(r)[i] = r[i].ask
  BY <1>3 DEF Asked
<1> DEFINE a == Asked(s)
           b == Asked(r)
<1>6. b \in Seq(Asks) /\ Len(b) = Len(a) + 1 /\ b[Len(a) + 1] = q.ask
      /\ \A i \in 1 .. Len(a) : b[i] = a[i]
  BY <1>1, <1>2, <1>3, <1>4, <1>5
<1>7. a \in Seq(Asks) /\ q.ask \in Asks
  BY <1>1
<1> HIDE DEF a, b
<1>8. b = Append(a, q.ask)
  BY <1>6, <1>7
<1> QED BY <1>8 DEF a, b, r

LEMMA AskedTail ==
  ASSUME NEW s \in Seq(Queueable), s # <<>>
  PROVE  /\ Asked(s) # <<>> /\ Head(Asked(s)) = Head(s).ask
         /\ Asked(Tail(s)) = Tail(Asked(s))
<1>1. Asked(s) \in Seq(Asks) /\ Len(Asked(s)) = Len(s) /\ Len(s) \in Nat \ {0}
  BY AskedType
<1>2. \A i \in 1 .. Len(s) : Asked(s)[i] = s[i].ask
  BY DEF Asked
<1> DEFINE t == Tail(s)
<1>3. /\ t \in Seq(Queueable) /\ Len(t) = Len(s) - 1
      /\ \A i \in 1 .. Len(t) : t[i] = s[i + 1]
  OBVIOUS
<1>h. Head(s) = s[1]
  OBVIOUS
<1> HIDE DEF t
<1>4. Asked(t) \in Seq(Asks) /\ Len(Asked(t)) = Len(t)
  BY <1>3, AskedType
<1>5. \A i \in 1 .. Len(t) : Asked(t)[i] = t[i].ask
  BY <1>3 DEF Asked
<1> DEFINE a == Asked(s)
           b == Asked(t)
<1>6. /\ a \in Seq(Asks) /\ Len(a) \in Nat \ {0} /\ a[1] = Head(s).ask
      /\ b \in Seq(Asks) /\ Len(b) = Len(a) - 1
      /\ \A i \in 1 .. Len(b) : b[i] = a[i + 1]
  BY <1>1, <1>2, <1>3, <1>h, <1>4, <1>5, SMTT(20)
<1> HIDE DEF a, b
<1>7. a # <<>> /\ Head(a) = Head(s).ask
  BY <1>6
<1>8. b = Tail(a)
  BY <1>6
<1> QED BY <1>7, <1>8 DEF a, b, t

\* The inquiries whose answers are under way.
AsksIn(s) == [i \in DOMAIN s |-> AskIn(s[i])]

LEMMA AsksInType ==
  ASSUME NEW s \in Seq(Answerable)
  PROVE  AsksIn(s) \in Seq(Seq(Asks)) /\ Len(AsksIn(s)) = Len(s)
<1>1. \A r \in Answerable : AskIn(r) \in Seq(Asks)
  BY DEF Answerable, AskIn
<1>2. \A i \in 1 .. Len(s) : s[i] \in Answerable
  BY ElementOfSeq
<1>3. DOMAIN s = 1 .. Len(s) /\ Len(s) \in Nat
  OBVIOUS
<1>4. \A i \in 1 .. Len(s) : AskIn(s[i]) \in Seq(Asks)
  BY <1>1, <1>2
<1> DEFINE T == Seq(Asks)
<1> HIDE DEF T
<1>5. AsksIn(s) \in Seq(T) /\ Len(AsksIn(s)) = Len(s)
  <2>1. \A i \in 1 .. Len(s) : AskIn(s[i]) \in T
    BY <1>4 DEF T
  <2> QED BY <1>3, <2>1 DEF AsksIn
<1> QED BY <1>5 DEF T

LEMMA AnsweredType ==
  ASSUME NEW s \in Seq(Answerable)
  PROVE  Answered(s) = FlattenSeq(AsksIn(s)) /\ Answered(s) \in Seq(Asks)
<1>1. Answered(s) = FlattenSeq(AsksIn(s))
  BY Zenon DEF Answered, AsksIn
<1> QED BY <1>1, AsksInType, FlattenType

LEMMA AnsweredEmpty == Answered(<<>>) = <<>>
<1>1. [i \in DOMAIN <<>> |-> AskIn(<<>>[i])] = <<>>
  OBVIOUS
<1> QED BY <1>1, FlattenEmpty, Zenon DEF Answered

LEMMA AnsweredAppend ==
  ASSUME NEW s \in Seq(Answerable), NEW r \in Answerable
  PROVE  Answered(Append(s, r)) = Answered(s) \o AskIn(r)
<1> DEFINE u == Append(s, r)
<1>1. /\ u \in Seq(Answerable) /\ Len(u) = Len(s) + 1 /\ u[Len(s) + 1] = r
      /\ Len(s) \in Nat /\ \A i \in 1 .. Len(s) : u[i] = s[i]
  OBVIOUS
<1> HIDE DEF u
<1>2. AsksIn(s) \in Seq(Seq(Asks)) /\ Len(AsksIn(s)) = Len(s)
  BY AsksInType
<1>3. AsksIn(u) \in Seq(Seq(Asks)) /\ Len(AsksIn(u)) = Len(s) + 1
  BY <1>1, AsksInType
<1>4. AskIn(r) \in Seq(Asks)
  BY DEF Answerable, AskIn
<1>5. /\ \A i \in 1 .. Len(s) : AsksIn(s)[i] = AskIn(s[i])
      /\ \A i \in 1 .. Len(u) : AsksIn(u)[i] = AskIn(u[i])
  BY <1>1 DEF AsksIn
<1> DEFINE a == AsksIn(s)
           b == AsksIn(u)
           x == AskIn(r)
           T == Seq(Asks)
<1>6. /\ b[Len(a) + 1] = x /\ \A i \in 1 .. Len(a) : b[i] = a[i]
      /\ Len(b) = Len(a) + 1 /\ Len(a) \in Nat
  BY <1>1, <1>2, <1>3, <1>5
<1>7. a \in Seq(T) /\ b \in Seq(T) /\ x \in T
  BY <1>2, <1>3, <1>4
<1> HIDE DEF a, b, x, T
<1>8. b = Append(a, x)
  BY <1>6, <1>7
<1>9. FlattenSeq(b) = FlattenSeq(a) \o x
  BY <1>7, <1>8, FlattenAppend DEF T
<1> QED BY <1>1, <1>9, AnsweredType, Zenon DEF a, b, x, u

LEMMA AnsweredTail ==
  ASSUME NEW s \in Seq(Answerable), s # <<>>
  PROVE  Answered(s) = AskIn(Head(s)) \o Answered(Tail(s))
<1> DEFINE t == Tail(s)
<1>1. /\ t \in Seq(Answerable) /\ Len(t) = Len(s) - 1
      /\ \A i \in 1 .. Len(t) : t[i] = s[i + 1]
      /\ Len(s) \in Nat \ {0} /\ Head(s) = s[1]
  OBVIOUS
<1> HIDE DEF t
<1>2. AsksIn(s) \in Seq(Seq(Asks)) /\ Len(AsksIn(s)) = Len(s)
  BY AsksInType
<1>3. AsksIn(t) \in Seq(Seq(Asks)) /\ Len(AsksIn(t)) = Len(t)
  BY <1>1, AsksInType
<1>4. /\ \A i \in 1 .. Len(s) : AsksIn(s)[i] = AskIn(s[i])
      /\ \A i \in 1 .. Len(t) : AsksIn(t)[i] = AskIn(t[i])
  BY <1>1 DEF AsksIn
<1> DEFINE a == AsksIn(s)
           b == AsksIn(t)
           T == Seq(Asks)
<1>o. 1 \in 1 .. Len(s) /\ \A i \in 1 .. Len(t) : i + 1 \in 1 .. Len(s)
  BY <1>1
<1>l. Len(b) = Len(a) - 1 /\ Len(a) \in Nat \ {0} /\ 1 .. Len(b) = 1 .. Len(t)
  BY <1>1, <1>2, <1>3
<1>a. a[1] = AskIn(Head(s))
  BY <1>1, <1>4, <1>o, Zenon
<1>b. \A i \in 1 .. Len(t) : b[i] = a[i + 1]
  BY <1>1, <1>4, <1>o, Zenon
<1>5. /\ a[1] = AskIn(Head(s)) /\ \A i \in 1 .. Len(b) : b[i] = a[i + 1]
      /\ Len(b) = Len(a) - 1 /\ Len(a) \in Nat \ {0}
  BY <1>l, <1>a, <1>b, Zenon
<1>6. a \in Seq(T) /\ b \in Seq(T)
  BY <1>2, <1>3
<1> HIDE DEF a, b, T
<1>7. b = Tail(a) /\ a # <<>> /\ Head(a) = a[1]
  BY <1>5, <1>6
<1>8. FlattenSeq(a) = a[1] \o FlattenSeq(b)
  BY <1>6, <1>7, FlattenTail DEF T
<1> QED BY <1>1, <1>5, <1>8, AnsweredType, Zenon DEF a, b, t

\* The service speaks of the same words.
LEMMA SameWords ==
  /\ Abstract!Settings = Settings
  /\ \A type : Abstract!WordOf(type) = WordOf(type)
  /\ \A value, len : Abstract!Bytes(value, len) = Bytes(value, len)
  /\ \A type, data : Abstract!Response(type, data) = Response(type, data)
<1>1. Abstract!Settings = Settings
  <2>1. Abstract!Second = Second /\ Abstract!Minute = Minute /\ Abstract!Hour = Hour
    BY DEF Abstract!Second, Abstract!Minute, Abstract!Hour, Second, Minute, Hour
  <2>2. Abstract!Settings = DOMAIN SettingValues
    BY <2>1 DEF Abstract!Settings, Abstract!SettingValues, SettingValues
  <2> QED BY <2>2 DEF Settings
<1>2. Abstract!Words = Words
  BY Zenon DEF Abstract!Words, Abstract!ModuleWords, Abstract!WorkWords, Abstract!HumanWords,
         Abstract!UofWords, Abstract!CustomModeWords, Abstract!CustomSetWords,
         Abstract!CustomGetWords, Abstract!Word,
         Words, ModuleWords, WorkWords, HumanWords, UofWords, CustomModeWords,
         CustomSetWords, CustomGetWords, Word
<1>3. \A type : Abstract!WordOf(type) = WordOf(type)
  BY <1>2, Zenon DEF Abstract!WordOf, WordOf
<1>4. \A value, len : Abstract!Bytes(value, len) = Bytes(value, len)
  <2>1. \A v : Abstract!LastByte(v) = LastByte(v)
    BY DEF Abstract!LastByte, LastByte
  <2> SUFFICES ASSUME NEW value, NEW len
               PROVE  Abstract!Bytes(value, len) = Bytes(value, len)
    OBVIOUS
  <2> DEFINE a == value \div 256
             b == value \div 65536
             c == value \div 16777216
  <2>2. Bytes(value, len)
          = SubSeq(<<LastByte(value), LastByte(a), LastByte(b), LastByte(c)>>, 1, len)
    BY DEF Bytes
  <2>3. Abstract!Bytes(value, len)
          = SubSeq(<<Abstract!LastByte(value), Abstract!LastByte(a), Abstract!LastByte(b),
                     Abstract!LastByte(c)>>, 1, len)
    BY DEF Abstract!Bytes
  <2> HIDE DEF a, b, c
  <2> QED BY <2>1, <2>2, <2>3, Zenon
<1>5. \A type, data : Abstract!Response(type, data) = Response(type, data)
  BY Zenon DEF Abstract!Response, Response
<1> QED BY <1>1, <1>3, <1>4, <1>5

\* What an application may still wait for.
Underway == Answered(answers) \o ToSend

LEMMA UnderwayType ==
  ASSUME IInv
  PROVE  /\ Answered(answers) \in Seq(Asks) /\ Asked(tx_queue) \in Seq(Asks)
         /\ ToSend \in Seq(Asks)
BY AnsweredType, AskedType DEF IInv, ToSend

LEMMA QueueAsks ==
  ASSUME IInv, NEW c \in Clients, Queue(c)
  PROVE  Abstract!Ask \/ (Underway' = Underway /\ heard' = heard)
<1> DEFINE a == client[c].ask
           q == [frame |-> InquiryFrame(a.type, a.value), ask |-> a]
<1>1. /\ a \in Asks /\ tx_queue' = Append(tx_queue, q)
      /\ answers' = answers /\ heard' = heard /\ system' = system
  BY DEF Queue, lineVars, IInv
<1>2. q \in Queueable /\ q.ask = a
  <2>1. InquiryFrame(a.type, a.value) \in Frames
    BY <1>1, AskWord, InquiryFrameType
  <2> QED BY <1>1, <2>1 DEF Queueable
<1> HIDE DEF q, a
<1>3. Asked(tx_queue') = Append(Asked(tx_queue), a)
  BY <1>1, <1>2, AskedAppend DEF IInv
<1>4. CASE SenderRuns
  <2>1. ToSend = Asked(tx_queue) /\ ToSend' = Asked(tx_queue')
    BY <1>1, <1>4 DEF ToSend, SenderRuns
  <2>2. Answered(answers') \o ToSend' = Append(Answered(answers) \o ToSend, a)
    BY <1>1, <1>3, <2>1, UnderwayType, AppendBehind
  <2> QED BY <1>1, <2>2 DEF Abstract!Ask
<1>5. CASE ~SenderRuns
  <2>1. ToSend = <<>> /\ ToSend' = <<>>
    BY <1>1, <1>5 DEF ToSend, SenderRuns
  <2> QED BY <1>1, <2>1, Zenon DEF Underway
<1> QED BY <1>4, <1>5

LEMMA SendKeepsAll ==
  ASSUME IInv, SendFrame
  PROVE  Underway' = Underway /\ heard' = heard
<1>1. PICK r \in AnswersTo(Head(tx_queue)) : answers' = Append(answers, r)
  BY DEF SendFrame, NextToSend
<1>2. /\ tx_queue # <<>> /\ tx_queue' = Tail(tx_queue) /\ heard' = heard
      /\ SenderRuns /\ SenderRuns'
  BY DEF SendFrame, SenderRuns
<1>3. Head(tx_queue) \in Queueable
  BY <1>2 DEF IInv
<1>4. r \in Answerable
  BY <1>1, <1>3, AnswersAreAnswerable
<1>5. r.ask = Head(tx_queue).ask /\ r.ask # Unasked
  <2>1. r.ask = Head(tx_queue).ask
    BY <1>1 DEF AnswersTo
  <2> QED BY <1>3, <2>1, AskIsAsked DEF Queueable
<1> DEFINE s == Answered(answers)
           t == Asked(tx_queue)
<1>6. s \in Seq(Asks) /\ t \in Seq(Asks)
  BY UnderwayType
<1>7. t # <<>> /\ Head(t) = r.ask /\ Asked(tx_queue') = Tail(t)
  BY <1>2, <1>5, AskedTail DEF IInv
<1>8. Answered(answers') = s \o <<r.ask>>
  BY <1>1, <1>4, <1>5, AnsweredAppend, Zenon DEF IInv, AskIn
<1>9. Underway = s \o t /\ Underway' = Answered(answers') \o Asked(tx_queue')
  BY <1>2, Zenon DEF Underway, ToSend
<1> HIDE DEF s, t
<1>10. (s \o <<r.ask>>) \o Tail(t) = s \o t
  BY <1>6, <1>7, HeadAcross
<1> QED BY <1>2, <1>7, <1>8, <1>9, <1>10, Zenon

LEMMA LostIsLost ==
  ASSUME IInv, SendLost
  PROVE  Abstract!Lose
<1>1. tx_queue # <<>> /\ tx_queue' = Tail(tx_queue) /\ answers' = answers /\ heard' = heard
  BY DEF SendLost
<1>r. ToSend = Asked(tx_queue) /\ ToSend' = Asked(tx_queue')
  BY DEF SendLost, ToSend, SenderRuns
<1> DEFINE s == Answered(answers)
           t == Asked(tx_queue)
<1>2. s \in Seq(Asks) /\ t \in Seq(Asks)
  BY UnderwayType
<1>3. t # <<>> /\ Asked(tx_queue') = Tail(t) /\ Answered(answers') = s
  BY <1>1, AskedTail DEF IInv
<1>e. Answered(answers') \o Asked(tx_queue') = s \o Tail(t)
  BY <1>3, Zenon
<1> HIDE DEF s, t
<1>4. Len(s) + 1 \in DOMAIN (s \o t) /\ RemoveAt(s \o t, Len(s) + 1) = s \o Tail(t)
  BY <1>2, <1>3, RemoveBehind
<1>5. \E i \in DOMAIN (s \o t) : s \o Tail(t) = RemoveAt(s \o t, i)
  BY <1>4, Zenon
<1>7. \A u, i : Abstract!RemoveAt(u, i) = RemoveAt(u, i)
  BY Zenon DEF Abstract!RemoveAt, RemoveAt
<1> QED BY <1>1, <1>r, <1>e, <1>5, <1>7, Zenon DEF Abstract!Lose, s, t

LEMMA ReportAddsNone ==
  ASSUME IInv, SensorReports
  PROVE  Underway' = Underway /\ heard' = heard
<1>1. PICK f \in Strays : answers' = Append(answers, [frame |-> f, ask |-> Unasked])
  BY DEF SensorReports
<1>2. ToSend' = ToSend /\ heard' = heard
  BY DEF SensorReports, ToSend, SenderRuns
<1> DEFINE r == [frame |-> f, ask |-> Unasked]
           s == Answered(answers)
<1>3. r \in Answerable /\ AskIn(r) = <<>>
  BY StrayIsAnswerable DEF AskIn
<1>4. s \in Seq(Asks)
  BY UnderwayType
<1> HIDE DEF r
<1>5. Answered(answers') = s \o <<>>
  BY <1>1, <1>3, AnsweredAppend, Zenon DEF IInv, r
<1>6. s \o <<>> = s
  <2> HIDE DEF s
  <2> QED BY <1>4
<1> QED BY <1>2, <1>5, <1>6, Zenon DEF Underway

\* No frame that the sensor sends unasked has the words and the length of an inquiry.
\* Every report that the decoder knows is such a frame (ReportIsNoResponse).
Unprompted == \A f \in Strays : Responses(f) = {}

LEMMA DecodeIsAnswer ==
  ASSUME IInv, DecodeFrame, Head(answers).ask # Unasked
  PROVE  Abstract!Answer
<1> DEFINE r == Head(answers)
           a == r.ask
           w == WordOf(a.type)
<1>1. /\ answers # <<>> /\ answers' = Tail(answers) /\ ToSend' = ToSend
      /\ heard' = Decode(r.frame)
  BY DEF DecodeFrame, ToSend, SenderRuns
<1>2. r \in Answerable
  BY <1>1 DEF IInv
<1>3. /\ a \in Asks /\ r.frame \in Frames /\ IsAnswerTo(r.frame, a)
      /\ r.frame.payload \in PayloadsFor(a)
  BY <1>2 DEF Answerable, Carried
<1>4. w \in Words /\ w.type = a.type
  BY <1>3, AskWord
<1>5. heard' = {Response(a.type, r.frame.payload)}
  BY <1>1, <1>3, <1>4, AnswerDecodesToItsType DEF IsAnswerTo
<1>6. Response(a.type, r.frame.payload) \in Abstract!AnswerTo(a)
  BY <1>3, SameWords DEF Abstract!AnswerTo, PayloadsFor
<1> DEFINE s == Answered(Tail(answers))
           t == ToSend
<1>7. /\ Answered(answers) = <<a>> \o s /\ Answered(answers') = s
      /\ ToSend' = t
  BY <1>1, AnsweredTail, Zenon DEF IInv, AskIn
<1>8. s \in Seq(Asks) /\ t \in Seq(Asks)
  <2>1. Tail(answers) \in Seq(Answerable)
    BY <1>1 DEF IInv
  <2> QED BY <2>1, AnsweredType, UnderwayType
<1> HIDE DEF s, t, a, r
<1>9. s \o t \in Seq(Asks) /\ <<a>> \in Seq(Asks)
  BY <1>3, <1>8
<1>10. (<<a>> \o s) \o t = <<a>> \o (s \o t)
  BY ONLY <1>8, <1>9, ConcatAssociative
<1> DEFINE old == Answered(answers) \o ToSend
           new == Answered(answers') \o ToSend'
<1>11. old = <<a>> \o (s \o t) /\ new = s \o t
  BY <1>7, <1>10, Zenon DEF t
<1> HIDE DEF old, new
<1>12. old # <<>> /\ Head(old) = a /\ new = Tail(old)
  BY <1>3, <1>9, <1>11, FirstOfConcat
<1>13. \E e \in Abstract!AnswerTo(Head(old)) : heard' = {e}
  BY <1>5, <1>6, <1>12, Zenon DEF a
<1> QED BY <1>12, <1>13, Zenon DEF Abstract!Answer, old, new

LEMMA DecodeIsReport ==
  ASSUME Unprompted, IInv, DecodeFrame, Head(answers).ask = Unasked
  PROVE  Abstract!Announce
<1> DEFINE r == Head(answers)
<1>1. /\ answers # <<>> /\ answers' = Tail(answers) /\ ToSend' = ToSend
      /\ heard' = Decode(r.frame)
  BY DEF DecodeFrame, ToSend, SenderRuns
<1>2. r \in Answerable
  BY <1>1 DEF IInv
<1>3. r.frame \in Frames /\ r.frame \in Strays
  BY <1>2 DEF Answerable, Carried
<1>4. heard' = Reports(r.frame)
  BY <1>1, <1>3 DEF Unprompted, Decode
<1>5. \A d, e \in heard' : d = e
  BY <1>1, <1>3, EventsAgree
<1>6. \A e \in heard' : e.kind = "report"
  BY <1>4 DEF Reports, InitReports, HumanReports, UofReports, Report
<1>7. heard' = {} \/ \E e \in heard' : heard' = {e} /\ e.kind = "report"
  BY <1>5, <1>6
<1>8. Underway' = Underway
  <2>1. Answered(answers) = <<>> \o Answered(answers') /\ ToSend' = ToSend
    BY <1>1, AnsweredTail, Zenon DEF IInv, AskIn
  <2>2. Answered(answers') \in Seq(Asks)
    <3>1. answers' \in Seq(Answerable)
      BY <1>1 DEF IInv
    <3> QED BY <3>1, AnsweredType
  <2> DEFINE s == Answered(answers')
  <2>3. <<>> \o s = s
    <3> HIDE DEF s
    <3> QED BY <2>2
  <2> QED BY <2>1, <2>3, Zenon DEF Underway
<1> QED BY <1>7, <1>8, Zenon DEF Abstract!Announce, Underway

LEMMA StopLosesAll ==
  ASSUME HalStops
  PROVE  Abstract!LoseAll
<1>1. answers' = <<>> /\ heard' = heard /\ ToSend' = <<>>
  BY DEF HalStops, ToSend, SenderRuns
<1>2. Answered(<<>>) = <<>> /\ <<>> \o <<>> = <<>>
  BY AnsweredEmpty
<1> QED BY <1>1, <1>2, Zenon DEF Abstract!LoseAll

\* The sender's end leaves nothing to send, and a start finds nothing under way.
LEMMA NothingUnderway ==
  ASSUME IInv, SenderEnds \/ StopReturns \/ StartSys \/ StopSys
  PROVE  Underway' = Underway /\ heard' = heard
<1>1. answers' = answers /\ heard' = heard
  BY DEF SenderEnds, StopReturns, StartSys, StopSys, lineVars
<1>2. Asked(<<>>) = <<>>
  BY AskedEmpty
<1>3. ToSend' = ToSend
  <2>1. CASE SenderEnds
    BY <1>2, <2>1 DEF SenderEnds, ToSend, SenderRuns
  <2>2. CASE StopReturns
    BY <2>2 DEF StopReturns, ToSend, SenderRuns
  <2>3. CASE StartSys
    BY <1>2, <2>3 DEF StartSys, ToSend, SenderRuns
  <2>4. CASE StopSys
    BY <2>4 DEF StopSys, ToSend, SenderRuns
  <2> QED BY <2>1, <2>2, <2>3, <2>4
<1> QED BY <1>1, <1>3, Zenon DEF Underway

LEMMA StartsAsService == Init => Abstract!Init
<1>1. Answered(<<>>) = <<>> /\ Asked(<<>>) = <<>> /\ <<>> \o <<>> = <<>>
  BY AnsweredEmpty, AskedEmpty
<1>2. Init => answers = <<>> /\ ToSend = <<>> /\ heard = {}
  BY <1>1 DEF Init, ToSend
<1> QED BY <1>1, <1>2, Zenon DEF Abstract!Init

LEMMA StepsAsService ==
  ASSUME Unprompted, IInv, [Next]_vars
  PROVE  \/ Abstract!Next
         \/ Underway' = Underway /\ heard' = heard
<1>1. CASE UNCHANGED <<system, tx_queue, answers, heard>>
  BY <1>1, Zenon DEF Underway, ToSend, SenderRuns
<1>2. ASSUME NEW c \in Clients,
             (\E a \in Asks : AskAccepted(c, a)) \/ ClientStep(c)
      PROVE  Queue(c) \/ UNCHANGED <<system, tx_queue, answers, heard>>
  BY <1>2, Zenon DEF AskAccepted, ClientStep, NotRunning, Build, BuildFails, QueueFull,
                      lineVars
<1>3. ASSUME NEW c \in Clients, Queue(c)
      PROVE  Abstract!Next \/ (Underway' = Underway /\ heard' = heard)
  BY <1>3, QueueAsks, Zenon DEF Abstract!Next
<1>4. CASE DecodeFrame
  BY <1>4, DecodeIsAnswer, DecodeIsReport, Zenon DEF Abstract!Next
<1>5. CASE SendFrame \/ SensorReports
  BY <1>5, SendKeepsAll, ReportAddsNone, Zenon
<1>6. CASE SendLost \/ HalStops
  BY <1>6, LostIsLost, StopLosesAll, Zenon DEF Abstract!Next
<1>7. CASE StopSys \/ SenderEnds \/ StopReturns \/ StartSys
  BY <1>7, NothingUnderway, Zenon
<1>8. UNCHANGED vars => UNCHANGED <<system, tx_queue, answers, heard>>
  BY Zenon DEF vars
<1> QED BY <1>1, <1>2, <1>3, <1>4, <1>5, <1>6, <1>7, <1>8, Zenon DEF Next, System

\* The exchange keeps the promise of InquiryService: inquiries that were taken are
\* answered in their order, each once and by the response of its own type that carries
\* its own value or data of the sensor, or are lost; reports come in between.  This is
\* for a sensor that sends no frame of an inquiry's words and length unasked.  That
\* nothing waits for ever is left to the run.
THEOREM ExchangeIsService ==
  ASSUME Unprompted
  PROVE  Spec => Abstract!Exchange
<1>1. IInv /\ [Next]_vars
        => [Abstract!Next]_<<Answered(answers) \o ToSend, heard>>
  BY StepsAsService, Zenon DEF Underway
<1> QED BY <1>1, StartsAsService, SpecIInv, PTL DEF Spec, Abstract!Exchange
=============================================================================
