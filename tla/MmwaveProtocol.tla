---------------------------- MODULE MmwaveProtocol ----------------------------
(***************************************************************************)
(* What the application layer and the sensor say to each other: the words  *)
(* of app_mmwave_constants.h, the inquiries that app_mmwave.c makes of     *)
(* them, and what app_mmwave_decoder.c makes of a frame.  A frame is its   *)
(* control word, its command word and its payload; how it is wrapped is    *)
(* the business of MmwaveFrame.                                            *)
(***************************************************************************)
EXTENDS Integers, Sequences, FiniteSets

\* What is sent to ask for `type', and what comes back: the payload is len bytes.
Word(type, ctrl, cmd, len) ==
  [type |-> type, ctrl |-> ctrl, cmd |-> cmd, len |-> len]

ModuleWords ==
  { Word("HEARTBEAT", 1, 1, 1), Word("MODULE_RESET", 1, 2, 1),
    Word("PRODUCT_MODEL", 2, 161, 1), Word("PRODUCT_ID", 2, 162, 1),
    Word("HARDWARE_MODEL", 2, 163, 1), Word("FIRMWARE_VERSION", 2, 164, 1) }

WorkWords ==
  { Word("SCENE_SETTINGS", 5, 7, 1), Word("SENSITIVITY", 5, 8, 1),
    Word("SCENE_SETTINGS_I", 5, 135, 1), Word("SENSITIVITY_I", 5, 136, 1) }

HumanWords ==
  { Word("TIME_FOR_NO_PERSON", 128, 10, 1), Word("PRESENCE", 128, 129, 1),
    Word("MOTION", 128, 130, 1), Word("BMP", 128, 131, 1),
    Word("TIME_FOR_NO_PERSON_I", 128, 138, 1), Word("PROXIMITY", 128, 139, 1) }

\* The motion speed alone is asked for with control word 5.
UofWords ==
  { Word("OUTPUT_SWITCH", 8, 0, 1), Word("OUTPUT_SWITCH_I", 8, 128, 1),
    Word("EXISTENCE_ENERGY", 8, 129, 1), Word("MOTION_ENERGY", 8, 130, 1),
    Word("STATIC_DISTANCE", 8, 131, 1), Word("MOTION_DISTANCE", 8, 132, 1),
    Word("MOTION_SPEED", 5, 133, 1) }

CustomModeWords ==
  { Word("CUSTOM_MODE", 5, 9, 1), Word("CUSTOM_MODE_END", 5, 10, 1),
    Word("CUSTOM_MODE_I", 5, 137, 1) }

CustomSetWords ==
  { Word("EXISTENCE_JUDGMENT_THRESH", 8, 8, 1), Word("MOTION_TRIGGER_THRESH", 8, 9, 1),
    Word("EXISTENCE_PERCEPTION_BOUND", 8, 10, 1), Word("MOTION_TRIGGER_BOUND", 8, 11, 1),
    Word("MOTION_TRIGGER_TIME", 8, 12, 4), Word("MOTION_TO_STILL_TIME", 8, 13, 4),
    Word("CM_TIME_FOR_NO_PERSON", 8, 14, 4) }

CustomGetWords ==
  { Word("EXISTENCE_JUDGMENT_THRESH_I", 8, 136, 1), Word("MOTION_TRIGGER_THRESH_I", 8, 137, 1),
    Word("EXISTENCE_PERCEPTION_BOUND_I", 8, 138, 1), Word("MOTION_TRIGGER_BOUND_I", 8, 139, 1),
    Word("MOTION_TRIGGER_TIME_I", 8, 140, 1), Word("MOTION_TO_STILL_TIME_I", 8, 141, 1),
    Word("CM_TIME_FOR_NO_PERSON_I", 8, 142, 1) }

Words == ModuleWords \cup WorkWords \cup HumanWords \cup UofWords
           \cup CustomModeWords \cup CustomSetWords \cup CustomGetWords

AppInquiryType == {w.type : w \in Words}

-----------------------------------------------------------------------------
(* The inquiries.                                                           *)

Modes == {"STANDARD", "UNDERLYING_OPEN"}

\* The inquiries that app_mmwave.c refuses in the other mode.
StandardOnly ==
  {"PRESENCE", "MOTION", "BMP", "TIME_FOR_NO_PERSON", "TIME_FOR_NO_PERSON_I", "PROXIMITY"}
UofOnly ==
  {"EXISTENCE_ENERGY", "MOTION_ENERGY", "STATIC_DISTANCE", "MOTION_DISTANCE", "MOTION_SPEED"}
    \cup {w.type : w \in CustomModeWords \cup CustomSetWords \cup CustomGetWords}

\* The modes in which an inquiry of this type is sent.
AllowedIn(type) ==
  Modes \ ((IF type \in StandardOnly THEN {"UNDERLYING_OPEN"} ELSE {})
             \cup (IF type \in UofOnly THEN {"STANDARD"} ELSE {}))

\* The settings, and the values each takes.  An inquiry that sets nothing carries
\* QueryData.
QueryData == 15

\* In milliseconds.
Second == 1000
Minute == 60000
Hour == 3600000

SettingValues ==
  [SCENE_SETTINGS             |-> 0 .. 4,
   SENSITIVITY                |-> 1 .. 3,
   TIME_FOR_NO_PERSON         |-> 0 .. 8,
   OUTPUT_SWITCH              |-> 0 .. 1,
   CUSTOM_MODE                |-> 1 .. 4,
   EXISTENCE_JUDGMENT_THRESH  |-> 0 .. 250,
   MOTION_TRIGGER_THRESH      |-> 0 .. 250,
   EXISTENCE_PERCEPTION_BOUND |-> 1 .. 10,
   MOTION_TRIGGER_BOUND       |-> 1 .. 10,
   MOTION_TRIGGER_TIME        |-> 0 .. Second,
   MOTION_TO_STILL_TIME       |-> Second .. Minute,
   CM_TIME_FOR_NO_PERSON      |-> 0 .. Hour]

Settings == DOMAIN SettingValues

Accepts(type, value) ==
  IF type \in Settings THEN value \in SettingValues[type] ELSE value = QueryData

\* The first len bytes of a value as the microcontroller stores it, the lowest first.
LastByte(value) == value % 256
Bytes(value, len) ==
  SubSeq(<< LastByte(value), LastByte(value \div 256), LastByte(value \div 65536),
            LastByte(value \div 16777216) >>, 1, len)

WordOf(type) == CHOOSE w \in Words : w.type = type

\* The frame that an inquiry is sent as.
InquiryFrame(type, value) ==
  LET w == WordOf(type)
  IN  [ctrl |-> w.ctrl, cmd |-> w.cmd, payload |-> Bytes(value, w.len)]

\* Whatever may come from the sensor.
Frames == [ctrl : 0 .. 255, cmd : 0 .. 255, payload : Seq(0 .. 255)]

-----------------------------------------------------------------------------
(* app_mmwave_decoder_process_frame.  An event says what it is about and    *)
(* carries values; distances are in half metres, speeds in half metres per  *)
(* second.                                                                  *)

Report(about, values) == [kind |-> "report", about |-> about, values |-> values]
Response(type, data) == [kind |-> "response", about |-> type, values |-> data]

\* Existence energy, static distance, motion energy, motion distance, motion speed:
\* a byte outside its table leaves the 0 of decoded_report_reset.
UofReport(p) ==
  << p[1], IF p[2] \in 1 .. 6 THEN p[2] ELSE 0,
     p[3], IF p[4] \in 1 .. 8 THEN p[4] ELSE 0,
     IF p[5] \in 1 .. 20 THEN p[5] - 10 ELSE 0 >>

\* The values of the reports with control word 0x80; a BMP report may hold any.
ReportWords == {1, 2, 3, 11}
ReportAbout == [c \in ReportWords |->
  CASE c = 1 -> "presence" [] c = 2 -> "motion" [] c = 3 -> "bmp" [] c = 11 -> "proximity"]
ReportValues == [c \in ReportWords |->
  CASE c = 1 -> 0 .. 1 [] c = 3 -> 0 .. 255 [] OTHER -> 0 .. 2]

InitReports(f) ==
  IF f.ctrl = 5 /\ f.cmd = 1 THEN {Report("init_completed", <<1>>)} ELSE {}

HumanReports(f) ==
  IF /\ f.ctrl = 128 /\ f.cmd \in ReportWords
     /\ Len(f.payload) = 1 /\ f.payload[1] \in ReportValues[f.cmd]
  THEN {Report(ReportAbout[f.cmd], f.payload)}
  ELSE {}

\* Any command word will do for a UOF report: its length alone tells it.
UofReports(f) ==
  IF f.ctrl = 8 /\ Len(f.payload) = 5 THEN {Report("uof", UofReport(f.payload))} ELSE {}

Reports(f) == InitReports(f) \cup HumanReports(f) \cup UofReports(f)

\* send_response_safe hands over a payload of at most MAX_RESPONSE_DATA_LEN bytes.
MAX_RESPONSE_DATA_LEN == 64

ResponsesOfAnyCommand(f) ==                      \* mutant: any command word
  {Response(w.type, f.payload) : w \in {x \in Words : x.ctrl = f.ctrl /\ x.len = Len(f.payload)}}
Responses(f) ==
  IF Len(f.payload) > MAX_RESPONSE_DATA_LEN THEN {}
  ELSE {Response(w.type, f.payload) :
          w \in {x \in Words : x.ctrl = f.ctrl /\ x.cmd = f.cmd /\ x.len = Len(f.payload)}}

\* The events that the two callbacks are called with.
Decode(f) == Reports(f) \cup Responses(f)
=============================================================================
