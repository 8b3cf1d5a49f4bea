-------------------------- MODULE MmwaveCore_proofs --------------------------
(***************************************************************************)
(* Proofs about the receive parser, for every stream, every chunking,      *)
(* every buffer size and every outcome of the HAL callbacks.  Three of the *)
(* theorems are about parsing that nothing disturbs, and say what that is. *)
(***************************************************************************)
EXTENDS MmwaveCore, MmwaveFrame_proofs

-----------------------------------------------------------------------------
(* The callbacks and restart_parser.                                        *)

\* The empty sequences of the state.
LEMMA EmptySeqs ==
  <<>> \in Seq(Byte) /\ <<>> \in Frames /\ <<>> \in Seq(SavedFrame)
BY DEF Frames

\* A counter stays an integer through hal_free.
LEMMA HalFreeType ==
  ASSUME NEW m \in Int, NEW a \in BOOLEAN, NEW n \in Int, NEW r \in HalFree(m, a, n)
  PROVE  r \in Int
<1>1. r = m \/ r = m - n
  BY DEF HalFree
<1> QED BY <1>1

\* What restart_parser leaves, with whatever buffer, count and counter it is
\* entered: nothing built, and a buffer of the starting size, none, or the old.
RestartDone ==
  /\ head1' = FALSE /\ head2' = FALSE /\ built' = <<>> /\ payload_len' = 0
  /\ building_buffer' \in BOOLEAN /\ parsing_buff_current_size' \in Nat
  /\ currently_allocated_mem' \in Int
  /\ building_buffer' =>
       \/ parsing_buff_current_size' = STARTING_PARSER_BUFFER_SIZE
       \/ /\ building_buffer
          /\ parsing_buff_current_size' = parsing_buff_current_size

LEMMA RestartEffect ==
  ASSUME parsing_buff_current_size \in Nat, building_buffer \in BOOLEAN,
         \E b \in {building_buffer, FALSE}, big \in Int, m \in Int :
            RestartParser(b, big, m)
  PROVE  RestartDone
<1>1. PICK b \in {building_buffer, FALSE}, big \in Int, m \in Int :
         RestartParser(b, big, m)
  OBVIOUS
<1>a. b \in BOOLEAN
  OBVIOUS
<1>b. b => building_buffer
  <2>1. CASE b = building_buffer
    BY <2>1, Zenon
  <2>2. CASE b = FALSE
    BY <2>2, Zenon
  <2> QED BY <2>1, <2>2, Zenon
<1> DEFINE Allocated(m1, ok) ==
      /\ building_buffer' = ok
      /\ parsing_buff_current_size' = IF ok THEN STARTING_PARSER_BUFFER_SIZE ELSE 0
      /\ currently_allocated_mem' =
           IF ok THEN Charged(m1, STARTING_PARSER_BUFFER_SIZE) ELSE m1
<1>2. CASE FreshBuffer(b, m)
  <2>1. PICK m1 \in HalFree(m, b, parsing_buff_current_size) :
          \E ok \in HalMalloc(m1, STARTING_PARSER_BUFFER_SIZE) : Allocated(m1, ok)
    BY <1>2 DEF FreshBuffer
  <2>2. PICK ok \in BOOLEAN : Allocated(m1, ok)
    BY <2>1 DEF HalMalloc
  <2>3. m1 \in Int
    BY <1>a, HalFreeType
  <2> QED BY <1>1, <2>2, <2>3, CoreAssumption
          DEF RestartParser, ForgetFrame, RestartDone, CoreAssumption, Charged
<1>3. CASE /\ building_buffer' = b
           /\ UNCHANGED parsing_buff_current_size
           /\ currently_allocated_mem' = m
  <2>1. building_buffer' \in BOOLEAN /\ (building_buffer' => building_buffer)
    BY <1>3, <1>a, <1>b, Zenon
  <2> QED BY <1>1, <1>3, <2>1 DEF RestartParser, ForgetFrame, RestartDone
<1> QED BY <1>1, <1>2, <1>3 DEF RestartParser

-----------------------------------------------------------------------------
(* The byte under examination and the candidate frame.                      *)

LEMMA CandidateType ==
  ASSUME TypeOK, InLoop
  PROVE  /\ CurrentByte \in Byte
         /\ Candidate \in Seq(Byte)
         /\ Len(Candidate) = Len(built) + 1
         /\ Candidate[Len(Candidate)] = CurrentByte
         /\ \A j \in 1 .. Len(built) : Candidate[j] = built[j]
<1>1. Pos + 1 \in 1 .. Len(seen)
  BY DEF TypeOK, LineTypeOK, InLoop, Pos
<1>2. CurrentByte \in Byte
  BY <1>1 DEF TypeOK, LineTypeOK, CurrentByte
<1> QED BY <1>2 DEF TypeOK, ParserTypeOK, Candidate

\* The length announced by six bytes is a number.
LEMMA PayloadLenType ==
  ASSUME NEW f \in Seq(Byte), Len(f) >= PrefixLen
  PROVE  PayloadLen(f) \in Nat
<1>1. f[5] \in Byte /\ f[6] \in Byte
  BY DEF PrefixLen
<1>2. \A b \in Byte : b \in Nat
  BY DEF Byte
<1>3. f[5] \in Nat /\ f[6] \in Nat
  BY <1>1, <1>2
<1> QED BY <1>3 DEF PayloadLen

\* restart_parser as the actions below call it.
LEMMA RestartInStep ==
  ASSUME TypeOK,
         \/ RestartParser(building_buffer, big_frames_count, currently_allocated_mem)
         \/ RestartParser(building_buffer, big_frames_count,
                          Charged(currently_allocated_mem, 2 + payload_len))
  PROVE  RestartDone
<1>1. /\ building_buffer \in BOOLEAN /\ parsing_buff_current_size \in Nat
      /\ big_frames_count \in Int /\ currently_allocated_mem \in Int
      /\ Charged(currently_allocated_mem, 2 + payload_len) \in Int
  BY DEF TypeOK, ParserTypeOK, HalTypeOK, Charged
<1>2. \E b \in {building_buffer, FALSE}, big \in Int, m \in Int :
         RestartParser(b, big, m)
  <2>1. CASE RestartParser(building_buffer, big_frames_count, currently_allocated_mem)
    BY <1>1, <2>1, Zenon
  <2>2. CASE RestartParser(building_buffer, big_frames_count,
                           Charged(currently_allocated_mem, 2 + payload_len))
    BY <1>1, <2>2, Zenon
  <2> QED BY <2>1, <2>2
<1> QED BY <1>1, <1>2, RestartEffect

LEMMA RestartInExtend ==
  ASSUME TypeOK, ExtendFails
  PROVE  RestartDone /\ big_frames_count' \in Nat
<1>1. PayloadLen(Candidate) \in Nat
  <2>1. InLoop /\ Len(Candidate) >= PrefixLen
    BY DEF ExtendFails, AtLengthByte, PrefixLen
  <2>2. Candidate \in Seq(Byte)
    BY <2>1, CandidateType
  <2> QED BY <2>1, <2>2, PayloadLenType
<1>2. big_frames_count' \in Nat
  BY <1>1 DEF TypeOK, ParserTypeOK, ExtendFails, CountBigFrames
<1>3. /\ building_buffer \in BOOLEAN /\ parsing_buff_current_size \in Nat
      /\ big_frames_count' \in Int /\ currently_allocated_mem \in Int
  BY <1>2 DEF TypeOK, ParserTypeOK, HalTypeOK
<1>4. RestartParser(FALSE, big_frames_count', currently_allocated_mem)
  BY DEF ExtendFails
<1>5. \E b \in {building_buffer, FALSE}, big \in Int, m \in Int :
         RestartParser(b, big, m)
  BY <1>3, <1>4, Zenon
<1> QED BY <1>2, <1>3, <1>5, RestartEffect

-----------------------------------------------------------------------------
(* Type correctness.                                                        *)

LEMMA InitType == Init => TypeOK
<1> SUFFICES ASSUME Init PROVE TypeOK
  OBVIOUS
<1>1. LineTypeOK
  <2>1. wire \in Seq(Byte)
    BY CoreAssumption DEF Init, CoreAssumption
  <2> QED BY <2>1, EmptySeqs DEF Init, LineTypeOK
<1>2. CallTypeOK
  BY DEF Init, CallTypeOK, Statuses
<1>3. ParserTypeOK
  BY EmptySeqs DEF Init, ParserTypeOK
<1>4. HalTypeOK
  BY EmptySeqs DEF Init, HalTypeOK
<1> QED BY <1>1, <1>2, <1>3, <1>4 DEF TypeOK

\* The line, the chunk, and what both parse actions do with them.
LEMMA StartParsingType ==
  ASSUME TypeOK, pc = "idle", NEW n \in ChunkSizes, next + n <= Len(wire),
         StartParsing(n)
  PROVE  /\ wire' \in Seq(Byte) /\ seen' \in Seq(Byte)
         /\ next' \in 0 .. Len(wire') /\ chunk_len' \in 0 .. Len(seen')
         /\ i' \in Int /\ i' <= chunk_len'
         /\ Len(seen') = Len(seen) + n
         /\ \A j \in 1 .. Len(seen) : seen'[j] = seen[j]
<1>1. n \in Nat \ {0}
  BY CoreAssumption DEF CoreAssumption
<1>2. /\ SubSeq(wire, next + 1, next + n) \in Seq(Byte)
      /\ Len(SubSeq(wire, next + 1, next + n)) = n
  BY <1>1 DEF TypeOK, LineTypeOK
<1>3. /\ wire \in Seq(Byte) /\ seen \in Seq(Byte)
      /\ Len(wire) \in Nat /\ Len(seen) \in Nat /\ next \in Nat
  BY DEF TypeOK, LineTypeOK
<1>4. /\ wire' = wire /\ next' = next + n /\ chunk_len' = n /\ i' = 0
      /\ seen' = seen \o SubSeq(wire, next + 1, next + n)
  BY DEF StartParsing
<1>5. /\ seen' \in Seq(Byte)
      /\ Len(seen') = Len(seen) + n
      /\ \A j \in 1 .. Len(seen) : seen'[j] = seen[j]
  <2> DEFINE part == SubSeq(wire, next + 1, next + n)
  <2>1. part \in Seq(Byte) /\ Len(part) = n
    BY <1>2
  <2> HIDE DEF part
  <2>2. seen' = seen \o part
    BY <1>4 DEF part
  <2>3. /\ seen \o part \in Seq(Byte)
        /\ Len(seen \o part) = Len(seen) + Len(part)
        /\ \A j \in 1 .. Len(seen) + Len(part) :
             (seen \o part)[j] = IF j <= Len(seen) THEN seen[j]
                                 ELSE part[j - Len(seen)]
    BY <2>1, <1>3, ConcatProperties
  <2> DEFINE whole == seen \o part
  <2>4. /\ whole \in Seq(Byte)
        /\ Len(whole) = Len(seen) + n
        /\ \A j \in 1 .. Len(seen) : whole[j] = seen[j]
    BY <2>1, <2>3, <1>1, <1>3
  <2> QED BY <2>2, <2>4
<1> QED BY <1>1, <1>3, <1>4, <1>5

LEMMA NextType == TypeOK /\ [Next]_vars => TypeOK'
<1> SUFFICES ASSUME TypeOK, [Next]_vars PROVE TypeOK'
  OBVIOUS
<1>1. CASE CoreInit
  <2>1. RestartDone
    BY <1>1, RestartInStep DEF CoreInit
  <2>2. LineTypeOK'
    BY <1>1 DEF TypeOK, LineTypeOK, CoreInit, lineVars
  <2>3. CallTypeOK'
    BY <1>1 DEF TypeOK, CallTypeOK, CoreInit
  <2>4. ParserTypeOK'
    BY <1>1, <2>1, EmptySeqs DEF TypeOK, ParserTypeOK, CoreInit, RestartDone
  <2>5. HalTypeOK'
    BY <1>1, <2>1 DEF TypeOK, HalTypeOK, CoreInit, RestartDone, queueVars
  <2> QED BY <2>2, <2>3, <2>4, <2>5 DEF TypeOK
<1>2. CASE CoreStop
  <2>1. currently_allocated_mem' \in Int
    <3>1. PICK m \in HalFree(currently_allocated_mem, building_buffer,
                             parsing_buff_current_size) :
            \E m1 \in HalFree(m, data_saving_buff_size > 0, data_saving_buff_size) :
              currently_allocated_mem' = m1
      BY <1>2 DEF CoreStop
    <3>2. m \in Int
      BY HalFreeType DEF TypeOK, ParserTypeOK, HalTypeOK
    <3>3. data_saving_buff_size \in Int /\ (data_saving_buff_size > 0) \in BOOLEAN
      BY DEF TypeOK, ParserTypeOK
    <3> QED BY <3>1, <3>2, <3>3, HalFreeType
  <2>2. LineTypeOK'
    BY <1>2 DEF TypeOK, LineTypeOK, CoreStop, lineVars
  <2>3. CallTypeOK'
    BY <1>2 DEF TypeOK, CallTypeOK, CoreStop, Statuses
  <2>4. ParserTypeOK'
    BY <1>2, EmptySeqs DEF TypeOK, ParserTypeOK, CoreStop
  <2>5. HalTypeOK'
    BY <1>2, <2>1 DEF TypeOK, HalTypeOK, CoreStop, queueVars
  <2> QED BY <2>2, <2>3, <2>4, <2>5 DEF TypeOK
<1>3. ASSUME NEW n \in ChunkSizes, ParseData(n) PROVE TypeOK'
  <2>1. n \in Nat
    BY CoreAssumption DEF CoreAssumption
  <2>2. pc = "idle" /\ next + n <= Len(wire) /\ StartParsing(n)
    BY <1>3 DEF ParseData
  <2>3. currently_allocated_mem' \in Int /\ data_saving_buff_size' \in Nat
    <3>1. Charged(currently_allocated_mem, n) \in Int
      BY <2>1 DEF TypeOK, HalTypeOK, Charged
    <3>2. CASE /\ currently_allocated_mem' \in
                     HalFree(Charged(currently_allocated_mem, n),
                             data_saving_buff_size > 0, data_saving_buff_size)
               /\ data_saving_buff_size' = n
      <4>1. data_saving_buff_size \in Int /\ (data_saving_buff_size > 0) \in BOOLEAN
        BY DEF TypeOK, ParserTypeOK
      <4>2. currently_allocated_mem' \in Int
        BY <3>1, <3>2, <4>1, HalFreeType
      <4> QED BY <2>1, <3>2, <4>2
    <3>3. CASE UNCHANGED <<data_saving_buff_size, currently_allocated_mem>>
      BY <3>3 DEF TypeOK, ParserTypeOK, HalTypeOK
    <3> QED BY <1>3, <3>2, <3>3 DEF ParseData, Replaced
  <2>4. LineTypeOK'
    BY <2>2, StartParsingType DEF LineTypeOK
  <2>5. CallTypeOK'
    BY <1>3, <2>2 DEF TypeOK, CallTypeOK, ParseData, StartParsing, Statuses
  <2>6. ParserTypeOK'
    BY <1>3, <2>3 DEF TypeOK, ParserTypeOK, ParseData, buildVars
  <2>7. HalTypeOK'
    BY <1>3, <2>3 DEF TypeOK, HalTypeOK, ParseData, queueVars
  <2> QED BY <2>4, <2>5, <2>6, <2>7 DEF TypeOK
<1>4. ASSUME NEW n \in ChunkSizes, ParseDataRefused(n) PROVE TypeOK'
  <2>1. n \in Nat
    BY CoreAssumption DEF CoreAssumption
  <2>2. LineTypeOK'
    BY <1>4, <2>1 DEF TypeOK, LineTypeOK, ParseDataRefused
  <2>3. CallTypeOK'
    BY <1>4 DEF TypeOK, CallTypeOK, ParseDataRefused, Statuses
  <2>4. ParserTypeOK'
    BY <1>4 DEF TypeOK, ParserTypeOK, ParseDataRefused, buildVars
  <2>5. HalTypeOK'
    BY <1>4 DEF TypeOK, HalTypeOK, ParseDataRefused, queueVars
  <2> QED BY <2>2, <2>3, <2>4, <2>5 DEF TypeOK
<1>5. CASE SkipByte
  <2>1. LineTypeOK'
    BY <1>5 DEF TypeOK, LineTypeOK, SkipByte, InLoop, SameOutside, lineVars
  <2>2. CallTypeOK'
    BY <1>5 DEF TypeOK, CallTypeOK, SkipByte, SameOutside
  <2>3. ParserTypeOK'
    BY <1>5 DEF TypeOK, ParserTypeOK, SkipByte, SameOutside, buildVars
  <2>4. HalTypeOK'
    BY <1>5 DEF TypeOK, HalTypeOK, SkipByte, SameOutside
  <2> QED BY <2>1, <2>2, <2>3, <2>4 DEF TypeOK
<1>6. CASE FindHeader1
  <2>1. HEADER1 \in Byte
    BY DEF HEADER1, Byte
  <2>2. <<HEADER1>> \in Seq(Byte)
    BY <2>1
  <2>3. LineTypeOK'
    BY <1>6 DEF TypeOK, LineTypeOK, FindHeader1, InLoop, SameOutside, lineVars
  <2>4. CallTypeOK'
    BY <1>6 DEF TypeOK, CallTypeOK, FindHeader1, SameOutside, Statuses
  <2>5. ParserTypeOK'
    BY <1>6, <2>2 DEF TypeOK, ParserTypeOK, FindHeader1, SameOutside, NoMemoryChange
  <2>6. HalTypeOK'
    BY <1>6 DEF TypeOK, HalTypeOK, FindHeader1, SameOutside, NoMemoryChange
  <2> QED BY <2>3, <2>4, <2>5, <2>6 DEF TypeOK
<1>7. CASE WriteThroughNull
  <2>1. LineTypeOK'
    BY <1>7 DEF TypeOK, LineTypeOK, WriteThroughNull, InLoop, SameOutside, lineVars
  <2>2. CallTypeOK'
    BY <1>7 DEF TypeOK, CallTypeOK, WriteThroughNull, SameOutside
  <2>3. ParserTypeOK'
    BY <1>7 DEF TypeOK, ParserTypeOK, WriteThroughNull, SameOutside, buildVars
  <2>4. HalTypeOK'
    BY <1>7 DEF TypeOK, HalTypeOK, WriteThroughNull, SameOutside
  <2> QED BY <2>1, <2>2, <2>3, <2>4 DEF TypeOK
<1>8. CASE FindHeader2
  <2>1. Candidate \in Seq(Byte)
    BY <1>8, CandidateType DEF FindHeader2
  <2>2. LineTypeOK'
    BY <1>8 DEF TypeOK, LineTypeOK, FindHeader2, InLoop, SameOutside, lineVars
  <2>3. CallTypeOK'
    BY <1>8 DEF TypeOK, CallTypeOK, FindHeader2, SameOutside
  <2>4. ParserTypeOK'
    BY <1>8, <2>1
       DEF TypeOK, ParserTypeOK, FindHeader2, SameOutside, Candidate, NoMemoryChange
  <2>5. HalTypeOK'
    BY <1>8 DEF TypeOK, HalTypeOK, FindHeader2, SameOutside, NoMemoryChange
  <2> QED BY <2>2, <2>3, <2>4, <2>5 DEF TypeOK
<1>9. CASE DropHeader1
  <2>1. RestartDone
    BY <1>9, RestartInStep DEF DropHeader1
  <2>2. LineTypeOK'
    BY <1>9 DEF TypeOK, LineTypeOK, DropHeader1, InLoop, SameOutside, lineVars
  <2>3. CallTypeOK'
    BY <1>9 DEF TypeOK, CallTypeOK, DropHeader1, SameOutside
  <2>4. ParserTypeOK'
    BY <1>9, <2>1, EmptySeqs
       DEF TypeOK, ParserTypeOK, DropHeader1, SameOutside, RestartDone
  <2>5. HalTypeOK'
    BY <1>9, <2>1 DEF TypeOK, HalTypeOK, DropHeader1, SameOutside, RestartDone
  <2> QED BY <2>2, <2>3, <2>4, <2>5 DEF TypeOK
<1>10. CASE StoreByte
  <2>1. Candidate \in Seq(Byte)
    BY <1>10, CandidateType DEF StoreByte
  <2>2. LineTypeOK'
    BY <1>10 DEF TypeOK, LineTypeOK, StoreByte, InLoop, SameOutside, lineVars
  <2>3. CallTypeOK'
    BY <1>10 DEF TypeOK, CallTypeOK, StoreByte, SameOutside
  <2>4. ParserTypeOK'
    BY <1>10, <2>1 DEF TypeOK, ParserTypeOK, StoreByte, SameOutside, NoMemoryChange
  <2>5. HalTypeOK'
    BY <1>10 DEF TypeOK, HalTypeOK, StoreByte, SameOutside, NoMemoryChange
  <2> QED BY <2>2, <2>3, <2>4, <2>5 DEF TypeOK
<1>11. CASE StoreLength
  <2>1. InLoop /\ Len(Candidate) >= PrefixLen
    BY <1>11 DEF StoreLength, AtLengthByte, PrefixLen
  <2>2. Candidate \in Seq(Byte)
    BY <2>1, CandidateType
  <2>3. PayloadLen(Candidate) \in Nat
    BY <2>1, <2>2, PayloadLenType
  <2> DEFINE size == Overhead + PayloadLen(Candidate)
  <2>4. size \in Nat
    BY <2>3 DEF Overhead
  <2>5. parsing_buff_current_size' \in Nat /\ currently_allocated_mem' \in Int
    <3>1. CASE UNCHANGED <<parsing_buff_current_size, currently_allocated_mem>>
      BY <3>1 DEF TypeOK, ParserTypeOK, HalTypeOK
    <3>2. CASE /\ currently_allocated_mem' \in
                     HalFree(Charged(currently_allocated_mem, size),
                             building_buffer, parsing_buff_current_size)
               /\ parsing_buff_current_size' = size
      <4>1. Charged(currently_allocated_mem, size) \in Int
        BY <2>4 DEF TypeOK, HalTypeOK, Charged
      <4>2. currently_allocated_mem' \in Int
        BY <3>2, <4>1, HalFreeType DEF TypeOK, ParserTypeOK
      <4> QED BY <2>4, <3>2, <4>2
    <3> QED BY <1>11, <3>1, <3>2 DEF StoreLength, Replaced
  <2>6. big_frames_count' \in Nat
    BY <1>11 DEF TypeOK, ParserTypeOK, StoreLength, CountBigFrames
  <2>8. LineTypeOK'
    BY <1>11
       DEF TypeOK, LineTypeOK, StoreLength, InLoop, SameOutside, lineVars, AtLengthByte
  <2>9. CallTypeOK'
    BY <1>11 DEF TypeOK, CallTypeOK, StoreLength, SameOutside
  <2>10. ParserTypeOK'
    BY <1>11, <2>2, <2>3, <2>5, <2>6
       DEF TypeOK, ParserTypeOK, StoreLength, SameOutside
  <2>11. HalTypeOK'
    BY <1>11, <2>5 DEF TypeOK, HalTypeOK, StoreLength, SameOutside
  <2> QED BY <2>8, <2>9, <2>10, <2>11 DEF TypeOK
<1>12. CASE ExtendFails
  <2>1. RestartDone /\ big_frames_count' \in Nat
    BY <1>12, RestartInExtend
  <2>2. LineTypeOK'
    BY <1>12
       DEF TypeOK, LineTypeOK, ExtendFails, InLoop, SameOutside, lineVars, AtLengthByte
  <2>3. CallTypeOK'
    BY <1>12 DEF TypeOK, CallTypeOK, ExtendFails, SameOutside, Statuses
  <2>4. ParserTypeOK'
    BY <1>12, <2>1, EmptySeqs
       DEF TypeOK, ParserTypeOK, ExtendFails, SameOutside, RestartDone
  <2>5. HalTypeOK'
    BY <1>12, <2>1 DEF TypeOK, HalTypeOK, ExtendFails, SameOutside, RestartDone
  <2> QED BY <2>2, <2>3, <2>4, <2>5 DEF TypeOK
<1>13. CASE RejectFrame
  <2>1. RestartDone
    BY <1>13, RestartInStep DEF RejectFrame
  <2>2. payload_len' = 0 /\ i' = i - 6
    BY <1>13, <2>1 DEF TypeOK, LineTypeOK, RejectFrame, Resume, RestartDone, Overhead
  <2>3. LineTypeOK'
    BY <1>13, <2>2
       DEF TypeOK, LineTypeOK, RejectFrame, SameOutside, lineVars
  <2>4. CallTypeOK'
    BY <1>13 DEF TypeOK, CallTypeOK, RejectFrame, SameOutside
  <2>5. ParserTypeOK'
    BY <1>13, <2>1, EmptySeqs
       DEF TypeOK, ParserTypeOK, RejectFrame, SameOutside, RestartDone
  <2>6. HalTypeOK'
    BY <1>13, <2>1 DEF TypeOK, HalTypeOK, RejectFrame, SameOutside, RestartDone
  <2> QED BY <2>3, <2>4, <2>5, <2>6 DEF TypeOK
<1>14. CASE FrameAllocFails
  <2>1. RestartDone
    BY <1>14, RestartInStep DEF FrameAllocFails
  <2>2. LineTypeOK'
    BY <1>14
       DEF TypeOK, LineTypeOK, FrameAllocFails, InLoop, SameOutside, lineVars, AtGoodFrame, AtLastByte
  <2>3. CallTypeOK'
    BY <1>14 DEF TypeOK, CallTypeOK, FrameAllocFails, SameOutside, Statuses
  <2>4. ParserTypeOK'
    BY <1>14, <2>1, EmptySeqs
       DEF TypeOK, ParserTypeOK, FrameAllocFails, SameOutside, RestartDone
  <2>5. HalTypeOK'
    BY <1>14, <2>1 DEF TypeOK, HalTypeOK, FrameAllocFails, SameOutside, RestartDone
  <2> QED BY <2>2, <2>3, <2>4, <2>5 DEF TypeOK
<1>15. CASE SaveFrame
  <2>1. RestartDone
    BY <1>15, RestartInStep DEF SaveFrame
  <2>2. InLoop /\ Len(Candidate) = FrameSize
    BY <1>15 DEF SaveFrame, AtGoodFrame, AtLastByte
  <2>3. Candidate \in Seq(Byte)
    BY <2>2, CandidateType
  <2>4. SemanticData(Candidate) \in Seq(Byte)
    <3>1. Len(Candidate) >= Overhead
      BY <2>2 DEF TypeOK, ParserTypeOK, FrameSize, Overhead
    <3> QED BY <2>3, <3>1, SemanticDataType
  <2>5. [first |-> Pos + 2 - FrameSize, last |-> Pos + 1,
         data |-> SemanticData(Candidate)] \in SavedFrame
    <3>1. Pos + 2 - FrameSize \in Int /\ Pos + 1 \in Nat
      BY <2>2 DEF TypeOK, LineTypeOK, ParserTypeOK, InLoop, Pos, FrameSize, Overhead
    <3> QED BY <2>4, <3>1 DEF SavedFrame
  <2>6. saved' \in Seq(SavedFrame) /\ frame_queue' \in Frames
    BY <1>15, <2>4, <2>5 DEF TypeOK, HalTypeOK, SaveFrame, Frames
  <2>7. LineTypeOK'
    BY <1>15
       DEF TypeOK, LineTypeOK, SaveFrame, InLoop, SameOutside, lineVars, AtGoodFrame, AtLastByte
  <2>8. CallTypeOK'
    BY <1>15 DEF TypeOK, CallTypeOK, SaveFrame, SameOutside, Statuses
  <2>9. ParserTypeOK'
    BY <1>15, <2>1, EmptySeqs
       DEF TypeOK, ParserTypeOK, SaveFrame, SameOutside, RestartDone
  <2>10. HalTypeOK'
    BY <1>15, <2>1, <2>6 DEF TypeOK, HalTypeOK, SaveFrame, SameOutside, RestartDone
  <2> QED BY <2>7, <2>8, <2>9, <2>10 DEF TypeOK
<1>16. CASE SaveFails
  <2>1. LineTypeOK'
    BY <1>16 DEF TypeOK, LineTypeOK, SaveFails, InLoop, SameOutside, lineVars
  <2>2. CallTypeOK'
    BY <1>16 DEF TypeOK, CallTypeOK, SaveFails, SameOutside
  <2>3. ParserTypeOK'
    BY <1>16 DEF TypeOK, ParserTypeOK, SaveFails, SameOutside, buildVars
  <2>4. HalTypeOK'
    BY <1>16 DEF TypeOK, HalTypeOK, SaveFails, SameOutside
  <2> QED BY <2>1, <2>2, <2>3, <2>4 DEF TypeOK
<1>17. CASE EndOfChunk
  <2>1. LineTypeOK'
    BY <1>17 DEF TypeOK, LineTypeOK, EndOfChunk, lineVars
  <2>2. CallTypeOK'
    BY <1>17 DEF TypeOK, CallTypeOK, EndOfChunk, FinalStatus, Statuses
  <2>3. ParserTypeOK'
    BY <1>17 DEF TypeOK, ParserTypeOK, EndOfChunk, buildVars
  <2>4. HalTypeOK'
    BY <1>17 DEF TypeOK, HalTypeOK, EndOfChunk, queueVars
  <2> QED BY <2>1, <2>2, <2>3, <2>4 DEF TypeOK
<1>18. CASE GetFrame
  <2>1. held' \in Frames /\ frame_queue' \in Frames
    BY <1>18 DEF TypeOK, HalTypeOK, GetFrame, Frames
  <2>2. LineTypeOK'
    BY <1>18 DEF TypeOK, LineTypeOK, GetFrame, lineVars
  <2>3. CallTypeOK'
    BY <1>18 DEF TypeOK, CallTypeOK, GetFrame
  <2>4. ParserTypeOK'
    BY <1>18 DEF TypeOK, ParserTypeOK, GetFrame, buildVars
  <2>5. HalTypeOK'
    BY <1>18, <2>1 DEF TypeOK, HalTypeOK, GetFrame
  <2> QED BY <2>2, <2>3, <2>4, <2>5 DEF TypeOK
<1>19. CASE ReleaseFrame
  <2>1. Len(Head(held)) \in Int
    BY <1>19 DEF TypeOK, HalTypeOK, ReleaseFrame, Frames
  <2>2. currently_allocated_mem' \in Int
    BY <1>19, <2>1, HalFreeType DEF TypeOK, HalTypeOK, ReleaseFrame
  <2>3. LineTypeOK'
    BY <1>19 DEF TypeOK, LineTypeOK, ReleaseFrame, lineVars
  <2>4. CallTypeOK'
    BY <1>19 DEF TypeOK, CallTypeOK, ReleaseFrame
  <2>5. ParserTypeOK'
    BY <1>19 DEF TypeOK, ParserTypeOK, ReleaseFrame, buildVars
  <2>6. HalTypeOK'
    BY <1>19, <2>2, EmptySeqs DEF TypeOK, HalTypeOK, ReleaseFrame
  <2> QED BY <2>3, <2>4, <2>5, <2>6 DEF TypeOK
<1>20. CASE UNCHANGED vars
  BY <1>20 DEF TypeOK, LineTypeOK, CallTypeOK, ParserTypeOK, HalTypeOK, vars
<1> QED BY <1>1, <1>2, <1>3, <1>4, <1>5, <1>6, <1>7, <1>8, <1>9, <1>10, <1>11, <1>12,
           <1>13, <1>14, <1>15, <1>16, <1>17, <1>18, <1>19, <1>20
        DEF Next, ProcessData, Decoder

\* The state of the parser, of the running call and of the HAL keeps its shape,
\* for every stream, chunking and allocation outcome.
THEOREM TypeCorrect == Spec => []TypeOK
<1>1. Init => TypeOK
  BY InitType
<1>2. TypeOK /\ [Next]_vars => TypeOK'
  BY NextType
<1> QED BY <1>1, <1>2, PTL DEF Spec

-----------------------------------------------------------------------------
(* The building buffer.                                                     *)

\* A length below a number of at least 6 and the state of the flags: what the
\* loop invariant says of an empty construction.
LEMMA ShapeEmpty ==
  ASSUME TypeOK, RestartDone, BufferShape, AtRest'
  PROVE  Shape'
<1>1. /\ building_buffer \in BOOLEAN /\ parsing_buff_current_size \in Nat
      /\ STARTING_PARSER_BUFFER_SIZE \in Nat
  BY CoreAssumption DEF TypeOK, ParserTypeOK, CoreAssumption
<1>2. Len(built') = 0
  BY DEF RestartDone
<1>3. HeadShape'
  BY <1>2 DEF RestartDone, HeadShape, PrefixLen
<1>4. BufferShape'
  BY <1>1, <1>2 DEF RestartDone, BufferShape, PrefixLen
<1>5. LeftChunk'
  BY DEF RestartDone, LeftChunk
<1> QED BY <1>3, <1>4, <1>5 DEF Shape

\* The frame under construction and its buffer are untouched.
LEMMA ShapeSame ==
  ASSUME TypeOK, Shape, UNCHANGED buildVars, AtRest', i' \in Nat \/ i' = i
  PROVE  Shape'
<1>1. HeadShape'
  BY DEF Shape, HeadShape, buildVars, FrameSize, PayloadLen
<1>2. BufferShape'
  BY DEF Shape, BufferShape, buildVars, FrameSize
<1>3. LeftChunk'
  <2>1. i \in Int /\ LeftChunk
    BY DEF TypeOK, LineTypeOK, Shape
  <2>2. CASE i' \in Nat
    BY <2>2 DEF LeftChunk
  <2>3. CASE i' = i
    BY <2>1, <2>3 DEF LeftChunk, buildVars
  <2> QED BY <2>2, <2>3
<1> QED BY <1>1, <1>2, <1>3 DEF Shape

\* The length fields of a candidate are those of what it extends.
LEMMA CandidateLength ==
  ASSUME TypeOK, InLoop, Len(built) >= PrefixLen
  PROVE  PayloadLen(Candidate) = PayloadLen(built)
<1>1. \A j \in 1 .. Len(built) : Candidate[j] = built[j]
  BY CandidateType
<1>2. 5 \in 1 .. Len(built) /\ 6 \in 1 .. Len(built)
  BY DEF TypeOK, ParserTypeOK, PrefixLen
<1>3. Candidate[5] = built[5] /\ Candidate[6] = built[6]
  BY <1>1, <1>2
<1> QED BY <1>3 DEF PayloadLen

\* One more byte of a frame whose header has been found.
LEMMA ShapeAppend ==
  ASSUME TypeOK, Shape, InLoop, head1, built' = Candidate, i' = i + 1,
         UNCHANGED <<pc, head1, building_buffer>>
  PROVE  /\ AtRest' /\ LeftChunk'
         /\ head1' => building_buffer'
         /\ Len(built') = Len(built) + 1 /\ Len(built) \in Nat
         /\ Len(built) >= 1 => built'[1] = built[1]
         /\ Len(built) >= 2 => built'[2] = built[2]
<1>1. /\ built' \in Seq(Byte) /\ Len(built') = Len(built) + 1
      /\ \A j \in 1 .. Len(built) : built'[j] = built[j]
  BY CandidateType
<1>2. AtRest' /\ LeftChunk'
  BY DEF TypeOK, LineTypeOK, AtRest, LeftChunk, InLoop
<1>3. head1' => building_buffer'
  BY DEF Shape, BufferShape
<1>4. Len(built) \in Nat
  BY DEF TypeOK, ParserTypeOK
<1> QED BY <1>1, <1>2, <1>3, <1>4

LEMMA InitShape == Init => Shape
BY DEF Init, Shape, HeadShape, BufferShape, AtRest, LeftChunk, PrefixLen

LEMMA NextShape == TypeOK /\ Shape /\ [Next]_vars => Shape'
<1> SUFFICES ASSUME TypeOK, Shape, [Next]_vars PROVE Shape'
  OBVIOUS
<1>s. HeadShape /\ BufferShape /\ AtRest /\ LeftChunk
  BY DEF Shape
<1>h. /\ Len(built) \in Nat
      /\ head1 <=> Len(built) >= 1
      /\ head2 <=> Len(built) >= 2
  BY <1>s DEF HeadShape, TypeOK, ParserTypeOK
<1>1. CASE CoreInit
  <2>1. RestartDone
    BY <1>1, RestartInStep DEF CoreInit
  <2>2. AtRest'
    BY <1>s, <1>1 DEF CoreInit, AtRest
  <2> QED BY <1>s, <2>1, <2>2, ShapeEmpty
<1>2. CASE CoreStop
  <2>1. Len(built') = 0
    BY <1>2 DEF CoreStop
  <2>2. HeadShape'
    BY <1>s, <1>2, <2>1 DEF CoreStop, HeadShape, PrefixLen
  <2>3. BufferShape'
    BY <1>s, <1>2, <2>1 DEF CoreStop, BufferShape, PrefixLen
  <2>4. AtRest' /\ LeftChunk'
    BY <1>s, <1>2 DEF CoreStop, AtRest, LeftChunk
  <2> QED BY <2>2, <2>3, <2>4 DEF Shape
<1>3. ASSUME NEW n \in ChunkSizes, ParseData(n) PROVE Shape'
  <2>1. StartParsing(n) /\ UNCHANGED buildVars
    BY <1>3 DEF ParseData
  <2>2. AtRest' /\ i' \in Nat
    BY <2>1 DEF AtRest, StartParsing
  <2> QED BY <2>1, <2>2, ShapeSame
<1>4. ASSUME NEW n \in ChunkSizes, ParseDataRefused(n) PROVE Shape'
  <2>1. UNCHANGED buildVars /\ AtRest' /\ i' = i
    BY <1>s, <1>4 DEF ParseDataRefused, AtRest
  <2> QED BY <2>1, ShapeSame
<1>5. CASE SkipByte
  <2>1. UNCHANGED buildVars /\ AtRest' /\ i' \in Nat
    BY <1>5 DEF AtRest, TypeOK, LineTypeOK, SkipByte, InLoop
  <2> QED BY <2>1, ShapeSame
<1>6. CASE FindHeader1
  <2>1. built' = <<HEADER1>> /\ Len(built') = 1 /\ built'[1] = HEADER1
    BY <1>6 DEF FindHeader1
  <2>2. ~head2 /\ head2' = head2
    BY <1>s, <1>6 DEF FindHeader1, HeadShape, TypeOK, ParserTypeOK
  <2>3. HeadShape'
    BY <1>s, <1>6, <2>1, <2>2 DEF FindHeader1, HeadShape, PrefixLen
  <2>4. BufferShape'
    BY <1>s, <1>6, <2>1 DEF FindHeader1, BufferShape, NoMemoryChange, PrefixLen
  <2>5. AtRest' /\ LeftChunk'
    BY <1>s, <1>6 DEF TypeOK, LineTypeOK, FindHeader1, AtRest, LeftChunk, InLoop
  <2> QED BY <2>3, <2>4, <2>5 DEF Shape
<1>7. CASE WriteThroughNull
  <2>1. UNCHANGED buildVars /\ AtRest' /\ i' \in Nat
    BY <1>7 DEF AtRest, TypeOK, LineTypeOK, WriteThroughNull, InLoop
  <2> QED BY <2>1, ShapeSame
<1>8. CASE FindHeader2
  <2>1. InLoop /\ built' = Candidate /\ CurrentByte = HEADER2
    BY <1>8 DEF FindHeader2, Candidate
  <2>2. /\ AtRest' /\ LeftChunk' /\ (head1' => building_buffer')
        /\ Len(built') = Len(built) + 1 /\ Len(built) \in Nat
        /\ Len(built) >= 1 => built'[1] = built[1]
    BY <1>8, <2>1, ShapeAppend DEF FindHeader2, NoMemoryChange
  <2>3. Len(built) = 1
    <3>1. Len(built) >= 1 /\ ~(Len(built) >= 2)
      BY <1>h, <1>8, Zenon DEF FindHeader2
    <3>2. \A l \in Nat : l >= 1 /\ ~(l >= 2) => l = 1
      OBVIOUS
    <3> QED BY <1>h, <3>1, <3>2, Zenon
  <2>4. built'[2] = HEADER2
    BY <2>1, <2>2, <2>3, CandidateType
  <2>5. HeadShape'
    BY <1>s, <1>8, <2>2, <2>3, <2>4 DEF FindHeader2, HeadShape, PrefixLen
  <2>6. BufferShape'
    BY <1>s, <1>8, <2>2, <2>3 DEF FindHeader2, BufferShape, NoMemoryChange, PrefixLen
  <2> QED BY <2>2, <2>5, <2>6 DEF Shape
<1>9. CASE DropHeader1
  <2>1. RestartDone
    BY <1>9, RestartInStep DEF DropHeader1
  <2>2. AtRest'
    BY <1>9 DEF AtRest, DropHeader1, InLoop
  <2> QED BY <1>s, <2>1, <2>2, ShapeEmpty
<1>10. CASE StoreByte
  <2>1. /\ AtRest' /\ LeftChunk' /\ (head1' => building_buffer')
        /\ Len(built') = Len(built) + 1 /\ Len(built) \in Nat
        /\ Len(built) >= 1 => built'[1] = built[1]
        /\ Len(built) >= 2 => built'[2] = built[2]
    BY <1>10, ShapeAppend DEF StoreByte, NoMemoryChange
  <2>2. /\ Len(built) >= 2 /\ Len(built) + 1 # PrefixLen
        /\ Len(built) + 1 > PrefixLen => Len(built) + 1 # FrameSize
    BY <1>s, <1>10, CandidateType DEF StoreByte, HeadShape
  <2>3. Len(built') >= PrefixLen => Len(built) >= PrefixLen
    BY <2>1, <2>2 DEF PrefixLen
  <2>4. FrameSize' = FrameSize /\ payload_len' = payload_len /\ FrameSize \in Nat
    BY <1>10 DEF TypeOK, ParserTypeOK, StoreByte, FrameSize, Overhead
  <2>5. ASSUME Len(built') >= PrefixLen
        PROVE  payload_len' = PayloadLen(built') /\ Len(built') < FrameSize'
    <3>1. PayloadLen(built') = PayloadLen(built)
      BY <1>10, <2>3, <2>5, CandidateLength DEF StoreByte
    <3>2. payload_len = PayloadLen(built) /\ Len(built) < FrameSize
      BY <1>s, <2>3, <2>5 DEF HeadShape
    <3>3. Len(built) + 1 > PrefixLen
      BY <2>1, <2>3, <2>5 DEF PrefixLen
    <3> QED BY <2>1, <2>2, <2>4, <3>1, <3>2, <3>3
  <2>6. HeadShape'
    BY <1>s, <1>10, <2>1, <2>2, <2>5 DEF StoreByte, HeadShape
  <2>7. BufferShape'
    BY <1>s, <1>10, <2>1, <2>3, <2>4 DEF StoreByte, BufferShape, NoMemoryChange
  <2> QED BY <2>1, <2>6, <2>7 DEF Shape
<1>11. CASE StoreLength
  <2>1. InLoop /\ Len(Candidate) = PrefixLen /\ built' = Candidate
    BY <1>11 DEF StoreLength, AtLengthByte
  <2>2. /\ AtRest' /\ LeftChunk' /\ (head1' => building_buffer')
        /\ Len(built') = Len(built) + 1 /\ Len(built) \in Nat
        /\ Len(built) >= 1 => built'[1] = built[1]
        /\ Len(built) >= 2 => built'[2] = built[2]
    BY <1>11, <2>1, ShapeAppend DEF StoreLength, AtLengthByte
  <2>3. Len(built') = 6 /\ Len(built) = 5
    <3>1. Len(built') = PrefixLen
      BY <2>1
    <3>2. Len(built') = Len(built) + 1 /\ Len(built) \in Nat
      BY <2>2
    <3>3. Len(built') = 6
      BY <3>1 DEF PrefixLen
    <3>4. \A l \in Nat : l + 1 = 6 => l = 5
      OBVIOUS
    <3> QED BY <3>2, <3>3, <3>4
  <2>4. PayloadLen(Candidate) \in Nat /\ payload_len' = PayloadLen(built')
    <3>1. Candidate \in Seq(Byte) /\ Len(Candidate) >= PrefixLen
      BY <2>1, CandidateType DEF PrefixLen
    <3> QED BY <1>11, <2>1, <3>1, PayloadLenType DEF StoreLength
  <2>5. FrameSize' = Overhead + PayloadLen(Candidate)
    BY <2>1, <2>4 DEF FrameSize
  <2>6. HeadShape'
    <3>1. head1' /\ head2' /\ built'[1] = HEADER1 /\ built'[2] = HEADER2
      BY <1>s, <1>11, <2>2, <2>3 DEF StoreLength, AtLengthByte, HeadShape
    <3>2. Len(built') < FrameSize'
      BY <2>3, <2>4, <2>5 DEF Overhead
    <3> QED BY <2>3, <2>4, <3>1, <3>2 DEF HeadShape
  <2> DEFINE size == Overhead + PayloadLen(Candidate)
  <2>7. size \in Nat /\ parsing_buff_current_size \in Nat
    BY <2>4 DEF TypeOK, ParserTypeOK, Overhead
  <2>8. \/ size <= parsing_buff_current_size
             /\ UNCHANGED parsing_buff_current_size
        \/ size > parsing_buff_current_size /\ parsing_buff_current_size' = size
    <3>1. \/ Fits(size) /\ UNCHANGED parsing_buff_current_size
          \/ ~Fits(size) /\ parsing_buff_current_size' = size
      BY <1>11 DEF StoreLength
    <3> QED BY <2>7, <3>1 DEF Fits
  <2>9. BufferShape'
    <3>1. /\ size <= parsing_buff_current_size'
          /\ parsing_buff_current_size' >= parsing_buff_current_size
          /\ parsing_buff_current_size' \in Nat
      BY <2>7, <2>8
    <3>2. building_buffer' => building_buffer
      BY <1>11 DEF StoreLength
    <3>3. STARTING_PARSER_BUFFER_SIZE \in Nat
      BY CoreAssumption DEF CoreAssumption
    <3> QED BY <1>s, <2>2, <2>5, <2>7, <3>1, <3>2, <3>3 DEF BufferShape
  <2> QED BY <2>2, <2>6, <2>9 DEF Shape
<1>12. CASE ExtendFails
  <2>1. RestartDone
    BY <1>12, RestartInExtend
  <2>2. AtRest'
    BY <1>12 DEF AtRest, ExtendFails, AtLengthByte, InLoop
  <2> QED BY <1>s, <2>1, <2>2, ShapeEmpty
<1>13. CASE RejectFrame
  <2>1. RestartDone
    BY <1>13, RestartInStep DEF RejectFrame
  <2>2. AtRest'
    BY <1>13 DEF AtRest, RejectFrame, AtLastByte, InLoop
  <2> QED BY <1>s, <2>1, <2>2, ShapeEmpty
<1>14. CASE FrameAllocFails
  <2>1. RestartDone
    BY <1>14, RestartInStep DEF FrameAllocFails
  <2>2. AtRest'
    BY <1>14 DEF AtRest, FrameAllocFails, AtGoodFrame, AtLastByte, InLoop
  <2> QED BY <1>s, <2>1, <2>2, ShapeEmpty
<1>15. CASE SaveFrame
  <2>1. RestartDone
    BY <1>15, RestartInStep DEF SaveFrame
  <2>2. AtRest'
    BY <1>15 DEF AtRest, SaveFrame, AtGoodFrame, AtLastByte, InLoop
  <2> QED BY <1>s, <2>1, <2>2, ShapeEmpty
<1>16. CASE SaveFails
  <2>1. UNCHANGED buildVars /\ AtRest' /\ i' \in Nat
    BY <1>16 DEF AtRest, TypeOK, LineTypeOK, SaveFails, InLoop, AtGoodFrame, AtLastByte
  <2> QED BY <2>1, ShapeSame
<1>17. CASE EndOfChunk
  <2>1. UNCHANGED buildVars /\ AtRest' /\ i' \in Nat
    BY <1>17 DEF EndOfChunk, AtRest
  <2> QED BY <2>1, ShapeSame
<1>18. CASE GetFrame
  <2>1. UNCHANGED <<buildVars, pc, chunk_len, i>>
    BY <1>18 DEF GetFrame
  <2>2. AtRest'
    BY <1>s, <2>1 DEF AtRest
  <2> QED BY <1>s, <2>1, <2>2, ShapeSame
<1>19. CASE ReleaseFrame
  <2>1. UNCHANGED <<buildVars, pc, chunk_len, i>>
    BY <1>19 DEF ReleaseFrame
  <2>2. AtRest'
    BY <1>s, <2>1 DEF AtRest
  <2> QED BY <1>s, <2>1, <2>2, ShapeSame
<1>20. CASE UNCHANGED vars
  <2>1. UNCHANGED <<buildVars, pc, chunk_len, i>>
    BY <1>20 DEF vars, buildVars
  <2>2. AtRest'
    BY <1>s, <2>1 DEF AtRest
  <2> QED BY <1>s, <2>1, <2>2, ShapeSame
<1> QED BY <1>1, <1>2, <1>3, <1>4, <1>5, <1>6, <1>7, <1>8, <1>9, <1>10, <1>11, <1>12,
           <1>13, <1>14, <1>15, <1>16, <1>17, <1>18, <1>19, <1>20
        DEF Next, ProcessData, Decoder

LEMMA ShapeInBounds == TypeOK /\ Shape => WritesInBounds
<1> SUFFICES ASSUME TypeOK, Shape PROVE WritesInBounds
  OBVIOUS
<1>1. /\ Len(built) \in Nat /\ parsing_buff_current_size \in Nat
      /\ STARTING_PARSER_BUFFER_SIZE >= 9 /\ STARTING_PARSER_BUFFER_SIZE \in Nat
      /\ FrameSize \in Nat
  BY CoreAssumption DEF TypeOK, ParserTypeOK, CoreAssumption, Overhead, FrameSize
<1> QED BY <1>1 DEF Shape, HeadShape, BufferShape, WritesInBounds, PrefixLen

\* No byte is ever stored outside the building buffer, whatever arrives in
\* whatever chunks and whichever allocations fail: the 16-bit length field of a
\* frame, genuine or accidental, cannot take the parser past its buffer.
THEOREM BuildingBufferSafe == Spec => []WritesInBounds
<1>1. Init => TypeOK /\ Shape
  BY InitType, InitShape
<1>2. TypeOK /\ Shape /\ [Next]_vars => (TypeOK /\ Shape)'
  BY NextType, NextShape
<1>3. TypeOK /\ Shape => WritesInBounds
  BY ShapeInBounds
<1> QED BY <1>1, <1>2, <1>3, PTL DEF Spec

-----------------------------------------------------------------------------
(* What has been built is a window of the stream.                           *)

Tracking == BuiltIsWindow /\ SavedBehind

\* Nothing is under construction after the step, and the parser has not gone
\* back behind the first byte it was building from.
LEMMA TrackingEmpty ==
  ASSUME TypeOK, TypeOK', Tracking, UNCHANGED <<seen, saved>>, built' = <<>>,
         Pos' >= Pos - Len(built)
  PROVE  Tracking'
<1>a. /\ Len(seen) \in Nat /\ chunk_len \in Int /\ i \in Int
      /\ Len(seen') \in Nat /\ chunk_len' \in Int /\ i' \in Int
  BY DEF TypeOK, LineTypeOK
<1>1. Pos \in Int /\ Pos' \in Int /\ Len(built) \in Nat /\ Len(built') = 0
  BY <1>a, SMTT(20) DEF TypeOK, ParserTypeOK, Pos
<1>2. Len(built) <= Pos
  BY DEF Tracking, BuiltIsWindow
<1>3. BuiltIsWindow'
  BY <1>1, <1>2 DEF BuiltIsWindow
<1>4. SavedBehind'
  <2> SUFFICES ASSUME NEW k \in 1 .. Len(saved)
               PROVE  1 <= saved[k].first /\ saved[k].last <= Pos' - 0
    BY <1>1 DEF SavedBehind
  <2>1. saved[k].last \in Int
    <3>1. saved[k] \in SavedFrame
      BY DEF TypeOK, HalTypeOK
    <3> QED BY <3>1 DEF SavedFrame
  <2>2. 1 <= saved[k].first /\ saved[k].last <= Pos - Len(built)
    BY DEF Tracking, SavedBehind
  <2> QED BY <1>1, <2>1, <2>2
<1> QED BY <1>3, <1>4 DEF Tracking

\* Same construction, same place, the stream the same or longer.
LEMMA TrackingSame ==
  ASSUME TypeOK, Tracking, UNCHANGED <<saved, built>>, Pos' = Pos,
         Pos <= Len(seen), \A j \in 1 .. Len(seen) : seen'[j] = seen[j]
  PROVE  Tracking'
<1>1. Pos \in Int /\ Len(built) \in Nat /\ Len(seen) \in Nat
  BY DEF TypeOK, LineTypeOK, ParserTypeOK, Pos
<1>2. Len(built) <= Pos
  BY DEF Tracking, BuiltIsWindow
<1>3. ASSUME NEW j \in 1 .. Len(built)
      PROVE  built[j] = seen'[Pos - Len(built) + j]
  <2>1. Pos - Len(built) + j \in 1 .. Len(seen)
    BY <1>1, <1>2
  <2>2. built[j] = seen[Pos - Len(built) + j]
    BY DEF Tracking, BuiltIsWindow
  <2> QED BY <2>1, <2>2
<1>4. BuiltIsWindow'
  BY <1>2, <1>3 DEF BuiltIsWindow
<1>5. SavedBehind'
  BY DEF Tracking, SavedBehind
<1> QED BY <1>4, <1>5 DEF Tracking

\* The byte under examination is appended to the construction.
LEMMA TrackingAppend ==
  ASSUME TypeOK, Tracking, InLoop, UNCHANGED <<seen, saved, chunk_len>>,
         built' = Candidate, i' = i + 1
  PROVE  Tracking'
<1>1. Pos \in Int /\ Len(built) \in Nat /\ Len(seen) \in Nat
  BY DEF TypeOK, LineTypeOK, ParserTypeOK, Pos
<1>2. Pos' = Pos + 1
  BY DEF TypeOK, LineTypeOK, Pos
<1>3. /\ Len(built') = Len(built) + 1
      /\ built'[Len(built) + 1] = CurrentByte
      /\ \A j \in 1 .. Len(built) : built'[j] = built[j]
  BY CandidateType DEF TypeOK, ParserTypeOK
<1>4. Pos' - Len(built') = Pos - Len(built)
  BY <1>1, <1>2, <1>3
<1>5. ASSUME NEW j \in 1 .. Len(built) + 1
      PROVE  built'[j] = seen[Pos - Len(built) + j]
  <2>1. CASE j = Len(built) + 1
    <3>1. Pos - Len(built) + j = Pos + 1
      BY <1>1, <2>1
    <3> QED BY <1>3, <2>1, <3>1 DEF CurrentByte
  <2>2. CASE j \in 1 .. Len(built)
    BY <1>3, <2>2 DEF Tracking, BuiltIsWindow
  <2> QED BY <1>1, <2>1, <2>2
<1>6. Len(built) <= Pos
  BY DEF Tracking, BuiltIsWindow
<1>7. Len(built') <= Pos'
  BY <1>1, <1>2, <1>3, <1>6
<1>8. BuiltIsWindow'
  BY <1>3, <1>4, <1>5, <1>7 DEF BuiltIsWindow
<1>9. SavedBehind'
  BY <1>4 DEF Tracking, SavedBehind
<1> QED BY <1>8, <1>9 DEF Tracking

\* A stretch of a sequence, element by element.
LEMMA Stretch ==
  ASSUME NEW s \in Seq(Byte), NEW a \in Nat, NEW b \in Nat,
         1 <= a, a <= b, b <= Len(s)
  PROVE  /\ SubSeq(s, a, b) \in Seq(Byte)
         /\ Len(SubSeq(s, a, b)) = b - a + 1
         /\ \A j \in 1 .. b - a + 1 : SubSeq(s, a, b)[j] = s[a + j - 1]
OBVIOUS

\* The candidate at hand is the stretch of the stream that ends at the byte under
\* examination.
LEMMA CandidateIsWindow ==
  ASSUME TypeOK, BuiltIsWindow, InLoop
  PROVE  /\ Candidate = SubSeq(seen, Pos - Len(built) + 1, Pos + 1)
         /\ 1 <= Pos - Len(built) + 1 /\ Pos + 1 <= Len(seen)
<1>1. /\ Pos \in Int /\ Len(built) \in Nat /\ Len(seen) \in Nat
      /\ seen \in Seq(Byte) /\ Pos + 1 <= Len(seen)
  BY DEF TypeOK, LineTypeOK, ParserTypeOK, Pos, InLoop
<1>2. Len(built) <= Pos
  BY DEF BuiltIsWindow
<1> DEFINE a == Pos - Len(built) + 1
           w == SubSeq(seen, a, Pos + 1)
<1>3. /\ a \in Nat /\ Pos + 1 \in Nat /\ 1 <= a /\ a <= Pos + 1
      /\ Pos + 1 - a + 1 = Len(built) + 1
  BY <1>1, <1>2
<1>5. /\ w \in Seq(Byte) /\ Len(w) = Len(built) + 1
      /\ \A j \in 1 .. Len(built) + 1 : w[j] = seen[a + j - 1]
  <2>1. /\ w \in Seq(Byte) /\ Len(w) = Pos + 1 - a + 1
        /\ \A j \in 1 .. Pos + 1 - a + 1 : w[j] = seen[a + j - 1]
    <3> HIDE DEF a
    <3> QED BY <1>1, <1>3, Stretch
  <2> HIDE DEF a, w
  <2> QED BY <1>3, <2>1
<1>6. Candidate \in Seq(Byte) /\ Len(Candidate) = Len(built) + 1
  BY CandidateType
<1>7. ASSUME NEW j \in 1 .. Len(built) + 1 PROVE Candidate[j] = w[j]
  <2>1. CASE j = Len(built) + 1
    <3>1. a + j - 1 = Pos + 1
      BY <1>1, <2>1
    <3>2. Candidate[j] = CurrentByte
      BY <2>1, CandidateType
    <3> QED BY <1>5, <3>1, <3>2 DEF CurrentByte
  <2>2. CASE j \in 1 .. Len(built)
    <3>1. Candidate[j] = built[j]
      BY <2>2, CandidateType
    <3>2. built[j] = seen[Pos - Len(built) + j]
      BY <2>2 DEF BuiltIsWindow
    <3>3. a + j - 1 = Pos - Len(built) + j
      BY <1>1, <2>2
    <3> QED BY <1>5, <3>1, <3>2, <3>3
  <2> QED BY <1>1, <2>1, <2>2
<1>8. Candidate = w
  <2> HIDE DEF w
  <2> QED BY <1>5, <1>6, <1>7, SeqEqual
<1> QED BY <1>1, <1>3, <1>8

\* Neither stream, place nor construction changes.
LEMMA TrackingStill ==
  ASSUME TypeOK, Tracking, UNCHANGED <<seen, saved, built, chunk_len, i>>
  PROVE  Tracking'
<1>1. Pos <= Len(seen)
  BY DEF TypeOK, LineTypeOK, Pos
<1>2. Pos' = Pos
  BY DEF Pos
<1> QED BY <1>1, <1>2, TrackingSame

\* A candidate is complete: it ends at the byte under examination and starts
\* behind everything handed over so far.
LEMMA CandidateComplete ==
  ASSUME TypeOK, AtLastByte
  PROVE  /\ InLoop
         /\ Pos \in Int /\ Len(built) \in Nat /\ FrameSize \in Nat
         /\ FrameSize = Len(built) + 1 /\ Len(Candidate) = FrameSize
<1>1. InLoop /\ Len(Candidate) = FrameSize
  BY DEF AtLastByte
<1>2. Len(Candidate) = Len(built) + 1
  BY <1>1, CandidateType
<1>3. Pos \in Int /\ Len(built) \in Nat /\ payload_len \in Nat
  BY DEF TypeOK, LineTypeOK, ParserTypeOK, Pos
<1>4. FrameSize \in Nat
  BY <1>3 DEF FrameSize, Overhead
<1> QED BY <1>1, <1>2, <1>3, <1>4

LEMMA InitTracking == Init => Tracking
<1> SUFFICES ASSUME Init PROVE Tracking
  OBVIOUS
<1>1. Len(built) = 0 /\ Len(saved) = 0 /\ Pos = 0
  BY DEF Init, Pos
<1> QED BY <1>1 DEF Tracking, BuiltIsWindow, SavedBehind

LEMMA NextTracking ==
  TypeOK /\ TypeOK' /\ Shape /\ Tracking /\ [Next]_vars => Tracking'
<1> SUFFICES ASSUME TypeOK, TypeOK', Shape, Tracking, [Next]_vars PROVE Tracking'
  OBVIOUS
<1>a. /\ Len(seen) \in Nat /\ chunk_len \in Nat /\ i \in Int
      /\ chunk_len <= Len(seen) /\ i <= chunk_len
      /\ Pos \in Int /\ Len(built) \in Nat
  <2>1. Len(seen) \in Nat /\ Len(built) \in Nat
    <3>1. seen \in Seq(Byte) /\ built \in Seq(Byte)
      BY DEF TypeOK, LineTypeOK, ParserTypeOK
    <3> QED BY <3>1
  <2>2. chunk_len \in 0 .. Len(seen) /\ i \in Int /\ i <= chunk_len
    BY DEF TypeOK, LineTypeOK
  <2> QED BY <2>1, <2>2 DEF Pos
<1>h. /\ head1 <=> Len(built) >= 1
      /\ head2 <=> Len(built) >= 2
      /\ LeftChunk /\ AtRest
  BY DEF Shape, HeadShape
<1>1. CASE CoreInit
  <2>1. RestartDone /\ UNCHANGED <<seen, saved, chunk_len, i>>
    BY <1>1, RestartInStep DEF CoreInit, lineVars
  <2>2. Pos' = Pos /\ built' = <<>>
    BY <2>1 DEF Pos, RestartDone
  <2> QED BY <1>a, <2>1, <2>2, TrackingEmpty
<1>2. CASE CoreStop
  <2>1. UNCHANGED <<seen, saved, chunk_len, i>> /\ built' = <<>>
    BY <1>2 DEF CoreStop, lineVars
  <2>2. Pos' = Pos
    BY <2>1 DEF Pos
  <2> QED BY <1>a, <2>1, <2>2, TrackingEmpty
<1>3. ASSUME NEW n \in ChunkSizes, ParseData(n) PROVE Tracking'
  <2>1. /\ pc = "idle" /\ next + n <= Len(wire) /\ StartParsing(n)
        /\ UNCHANGED <<saved, built>>
    BY <1>3 DEF ParseData, buildVars
  <2>2. chunk_len = 0 /\ i = 0 /\ n \in Nat /\ chunk_len' = n /\ i' = 0
    BY <1>h, <2>1, CoreAssumption DEF AtRest, StartParsing, CoreAssumption
  <2>3. Len(seen') = Len(seen) + n /\ \A j \in 1 .. Len(seen) : seen'[j] = seen[j]
    BY <2>1, StartParsingType
  <2>4. Pos' = Pos /\ Pos <= Len(seen)
    BY <1>a, <2>2, <2>3 DEF Pos
  <2> QED BY <2>1, <2>3, <2>4, TrackingSame
<1>4. ASSUME NEW n \in ChunkSizes, ParseDataRefused(n) PROVE Tracking'
  BY <1>4, TrackingStill DEF ParseDataRefused, buildVars
<1>5. CASE SkipByte
  <2>1. /\ ~head1 /\ i' = i + 1 /\ UNCHANGED <<seen, saved, chunk_len, built>>
    BY <1>5 DEF SkipByte, SameOutside, lineVars, buildVars
  <2>2. built = <<>>
    BY <1>a, <1>h, <2>1 DEF TypeOK, ParserTypeOK
  <2>3. Pos' = Pos + 1
    BY <1>a, <2>1 DEF Pos
  <2> QED BY <1>a, <2>1, <2>2, <2>3, TrackingEmpty
<1>6. CASE FindHeader1
  <2>1. /\ InLoop /\ ~head1 /\ CurrentByte = HEADER1 /\ i' = i + 1
        /\ built' = <<HEADER1>> /\ UNCHANGED <<seen, saved, chunk_len>>
    BY <1>6 DEF FindHeader1, SameOutside, lineVars
  <2>2. built = <<>>
    BY <1>a, <1>h, <2>1 DEF TypeOK, ParserTypeOK
  <2>3. built' = Candidate
    BY <2>1, <2>2 DEF Candidate
  <2> QED BY <2>1, <2>3, TrackingAppend
<1>7. CASE WriteThroughNull
  BY <1>7, TrackingStill DEF WriteThroughNull, SameOutside, lineVars, buildVars
<1>8. CASE FindHeader2
  <2>1. /\ InLoop /\ i' = i + 1 /\ built' = Candidate
        /\ UNCHANGED <<seen, saved, chunk_len>>
    BY <1>8 DEF FindHeader2, Candidate, SameOutside, lineVars
  <2> QED BY <2>1, TrackingAppend
<1>9. CASE DropHeader1
  <2>1. RestartDone /\ UNCHANGED <<seen, saved, chunk_len, i>>
    BY <1>9, RestartInStep DEF DropHeader1, SameOutside, lineVars
  <2>2. Pos' = Pos /\ built' = <<>>
    BY <2>1 DEF Pos, RestartDone
  <2> QED BY <1>a, <2>1, <2>2, TrackingEmpty
<1>10. CASE StoreByte
  BY <1>10, TrackingAppend DEF StoreByte, SameOutside, lineVars
<1>11. CASE StoreLength
  BY <1>11, TrackingAppend DEF StoreLength, AtLengthByte, SameOutside, lineVars
<1>12. CASE ExtendFails
  <2>1. RestartDone /\ i' = i + 1 /\ UNCHANGED <<seen, saved, chunk_len>>
    BY <1>12, RestartInExtend DEF ExtendFails, SameOutside, lineVars
  <2>2. Pos' = Pos + 1 /\ built' = <<>>
    BY <1>a, <2>1 DEF Pos, RestartDone
  <2> QED BY <1>a, <2>1, <2>2, TrackingEmpty
<1>13. CASE RejectFrame
  <2>1. /\ RestartDone /\ AtLastByte /\ i' = Resume(payload_len')
        /\ UNCHANGED <<seen, saved, chunk_len>>
    BY <1>13, RestartInStep DEF RejectFrame, SameOutside, lineVars
  <2>2. Len(built) >= 6
    <3>1. Len(Candidate) > 6
      BY <2>1 DEF AtLastByte, PrefixLen
    <3> QED BY <1>a, <2>1, <3>1, CandidateComplete
  <2>3. Pos' = Pos - 6 /\ built' = <<>>
    BY <1>a, <2>1 DEF Pos, Resume, RestartDone, Overhead
  <2> QED BY <1>a, <2>1, <2>2, <2>3, TrackingEmpty
<1>14. CASE FrameAllocFails
  <2>1. RestartDone /\ i' = i + 1 /\ UNCHANGED <<seen, saved, chunk_len>>
    BY <1>14, RestartInStep DEF FrameAllocFails, SameOutside, lineVars
  <2>2. Pos' = Pos + 1 /\ built' = <<>>
    BY <1>a, <2>1 DEF Pos, RestartDone
  <2> QED BY <1>a, <2>1, <2>2, TrackingEmpty
<1>15. CASE SaveFrame
  <2>1. /\ RestartDone /\ AtLastByte /\ i' = i + 1 /\ UNCHANGED <<seen, chunk_len>>
        /\ saved' = Append(saved, [first |-> Pos + 2 - FrameSize, last |-> Pos + 1,
                                   data |-> SemanticData(Candidate)])
    BY <1>15, RestartInStep DEF SaveFrame, AtGoodFrame, SameOutside, lineVars
  <2>2. FrameSize = Len(built) + 1
    BY <2>1, CandidateComplete
  <2>3. Pos' = Pos + 1 /\ built' = <<>> /\ Len(built') = 0
    BY <1>a, <2>1 DEF Pos, RestartDone
  <2>4. Len(built) <= Pos
    BY DEF Tracking, BuiltIsWindow
  <2>5. BuiltIsWindow'
    BY <1>a, <2>3, <2>4 DEF BuiltIsWindow
  <2>6. SavedBehind'
    <3> SUFFICES ASSUME NEW k \in 1 .. Len(saved')
                 PROVE  1 <= saved'[k].first /\ saved'[k].last <= Pos + 1
      BY <1>a, <2>3 DEF SavedBehind
    <3>1. saved \in Seq(SavedFrame) /\ Len(saved) \in Nat /\ Len(saved') = Len(saved) + 1
      BY <2>1 DEF TypeOK, HalTypeOK
    <3>2. CASE k = Len(saved) + 1
      <4>1. saved'[k].first = Pos + 2 - FrameSize /\ saved'[k].last = Pos + 1
        BY <2>1, <3>1, <3>2
      <4> QED BY <1>a, <2>2, <2>4, <4>1
    <3>3. CASE k \in 1 .. Len(saved)
      <4>1. saved'[k] = saved[k]
        BY <2>1, <3>1, <3>3
      <4>2. saved[k].last \in Int
        <5>1. saved[k] \in SavedFrame
          BY <3>1, <3>3
        <5> QED BY <5>1 DEF SavedFrame
      <4>3. 1 <= saved[k].first /\ saved[k].last <= Pos - Len(built)
        BY <3>3 DEF Tracking, SavedBehind
      <4> QED BY <1>a, <4>1, <4>2, <4>3
    <3> QED BY <3>1, <3>2, <3>3
  <2> QED BY <2>5, <2>6 DEF Tracking
<1>16. CASE SaveFails
  BY <1>16, TrackingStill DEF SaveFails, SameOutside, lineVars, buildVars
<1>17. CASE EndOfChunk
  <2>1. /\ pc = "parse" /\ ~InLoop /\ chunk_len' = 0 /\ i' = 0
        /\ UNCHANGED <<seen, saved, built>>
    BY <1>17 DEF EndOfChunk, lineVars, buildVars
  <2>2. Pos' = Len(seen) /\ Pos <= Len(seen)
    BY <1>a, <2>1 DEF Pos
  <2>3. CASE i < 0
    <3>1. built' = <<>> /\ Len(built) = 0
      BY <1>h, <2>1, <2>3 DEF LeftChunk
    <3> QED BY <1>a, <2>1, <2>2, <3>1, TrackingEmpty
  <2>4. CASE ~(i < 0)
    <3>1. i = chunk_len
      BY <1>a, <2>1, <2>4 DEF InLoop
    <3>2. Pos' = Pos
      BY <1>a, <2>2, <3>1 DEF Pos
    <3> QED BY <2>1, <2>2, <3>2, TrackingSame
  <2> QED BY <2>3, <2>4
<1>18. CASE GetFrame
  BY <1>18, TrackingStill DEF GetFrame, lineVars, buildVars
<1>19. CASE ReleaseFrame
  BY <1>19, TrackingStill DEF ReleaseFrame, lineVars, buildVars
<1>20. CASE UNCHANGED vars
  BY <1>20, TrackingStill DEF vars
<1> QED BY <1>1, <1>2, <1>3, <1>4, <1>5, <1>6, <1>7, <1>8, <1>9, <1>10, <1>11, <1>12,
           <1>13, <1>14, <1>15, <1>16, <1>17, <1>18, <1>19, <1>20
        DEF Next, ProcessData, Decoder

\* The inductive invariant of the parser: types, shape and tracking.
LEMMA ParserInvariant == Spec => [](TypeOK /\ Shape /\ Tracking)
<1>1. Init => TypeOK /\ Shape /\ Tracking
  BY InitType, InitShape, InitTracking
<1>2. TypeOK /\ Shape /\ Tracking /\ [Next]_vars => (TypeOK /\ Shape /\ Tracking)'
  BY NextType, NextShape, NextTracking
<1> QED BY <1>1, <1>2, PTL DEF Spec

\* The bytes of the frame under construction are always the latest bytes of the
\* stream, however the parser has moved back and wherever the chunks ended.
THEOREM BuiltTracksStream == Spec => []BuiltIsWindow
<1>1. TypeOK /\ Shape /\ Tracking => BuiltIsWindow
  BY DEF Tracking
<1> QED BY <1>1, ParserInvariant, PTL

-----------------------------------------------------------------------------
(* What is handed over are frames of the stream, in order, without overlap. *)

\* A stretch of the stream stays what it is when the stream grows.
LEMMA StretchStays ==
  ASSUME NEW s \in Seq(Byte), NEW t \in Seq(Byte), Len(t) >= Len(s),
         \A j \in 1 .. Len(s) : t[j] = s[j],
         NEW a \in Int, NEW b \in Int, 1 <= a, b <= Len(s)
  PROVE  SubSeq(t, a, b) = SubSeq(s, a, b)
<1>1. CASE a <= b
  <2>1. a \in Nat /\ b \in Nat /\ b <= Len(t) /\ Len(s) \in Nat /\ Len(t) \in Nat
    BY <1>1
  <2>2. /\ SubSeq(s, a, b) \in Seq(Byte) /\ Len(SubSeq(s, a, b)) = b - a + 1
        /\ \A j \in 1 .. b - a + 1 : SubSeq(s, a, b)[j] = s[a + j - 1]
    BY <1>1, <2>1, Stretch
  <2>3. /\ SubSeq(t, a, b) \in Seq(Byte) /\ Len(SubSeq(t, a, b)) = b - a + 1
        /\ \A j \in 1 .. b - a + 1 : SubSeq(t, a, b)[j] = t[a + j - 1]
    BY <1>1, <2>1, Stretch
  <2>4. \A j \in 1 .. b - a + 1 : SubSeq(t, a, b)[j] = SubSeq(s, a, b)[j]
    <3> SUFFICES ASSUME NEW j \in 1 .. b - a + 1
                 PROVE  SubSeq(t, a, b)[j] = SubSeq(s, a, b)[j]
      OBVIOUS
    <3>1. a + j - 1 \in 1 .. Len(s)
      BY <2>1
    <3> QED BY <2>2, <2>3, <3>1
  <2> QED BY <2>2, <2>3, <2>4, SeqEqual
<1>2. CASE a > b
  BY <1>2
<1> QED BY <1>1, <1>2

\* The frames handed over before the step stay genuine.
LEMMA GenuineStays ==
  ASSUME TypeOK, TypeOK', Len(seen') >= Len(seen),
         \A j \in 1 .. Len(seen) : seen'[j] = seen[j],
         NEW s \in SavedFrame, GenuineIn(seen, s)
  PROVE  GenuineIn(seen', s)
<1>1. s.first \in Int /\ s.last \in Int
  BY DEF SavedFrame
<1>2. seen \in Seq(Byte) /\ seen' \in Seq(Byte) /\ Len(seen) \in Nat /\ Len(seen') \in Nat
  BY DEF TypeOK, LineTypeOK
<1>3. 1 <= s.first /\ s.last <= Len(seen)
  BY DEF GenuineIn
<1>4. SubSeq(seen', s.first, s.last) = SubSeq(seen, s.first, s.last)
  BY <1>1, <1>2, <1>3, StretchStays
<1> QED BY <1>1, <1>2, <1>3, <1>4 DEF GenuineIn

\* The candidate that SaveFrame hands over is a frame of the stream.
LEMMA GoodFrameIsGenuine ==
  ASSUME TypeOK, Shape, BuiltIsWindow, AtGoodFrame
  PROVE  GenuineIn(seen, [first |-> Pos + 2 - FrameSize, last |-> Pos + 1,
                          data |-> SemanticData(Candidate)])
<1>1. /\ InLoop /\ AtLastByte /\ head1 /\ head2 /\ Len(Candidate) > PrefixLen
      /\ TailOK(Candidate) /\ ChecksumOK(Candidate)
  BY DEF AtGoodFrame, AtLastByte
<1>2. /\ Pos \in Int /\ Len(built) \in Nat /\ FrameSize \in Nat
      /\ FrameSize = Len(built) + 1 /\ Len(Candidate) = FrameSize
  BY <1>1, CandidateComplete
<1>3. /\ Candidate = SubSeq(seen, Pos - Len(built) + 1, Pos + 1)
      /\ 1 <= Pos - Len(built) + 1 /\ Pos + 1 <= Len(seen)
  BY <1>1, CandidateIsWindow
<1>4. Pos + 2 - FrameSize = Pos - Len(built) + 1
  BY <1>2
<1>5. Len(built) >= PrefixLen
  BY <1>1, <1>2 DEF PrefixLen
<1>6. PayloadLen(Candidate) = payload_len
  BY <1>1, <1>5, CandidateLength DEF Shape, HeadShape
<1>7. payload_len \in Nat
  BY DEF TypeOK, ParserTypeOK
<1>8. Candidate[1] = HEADER1 /\ Candidate[2] = HEADER2
  <2>1. built[1] = HEADER1 /\ built[2] = HEADER2
    BY <1>1 DEF Shape, HeadShape
  <2>2. 1 \in 1 .. Len(built) /\ 2 \in 1 .. Len(built)
    BY <1>2, <1>5 DEF PrefixLen
  <2> QED BY <1>1, <2>1, <2>2, CandidateType
<1>9. IsFrame(Candidate)
  <2>1. Len(Candidate) = Overhead + PayloadLen(Candidate)
    BY <1>2, <1>6 DEF FrameSize
  <2>2. Len(Candidate) >= Overhead
    BY <1>6, <1>7, <2>1 DEF Overhead
  <2> QED BY <1>1, <1>8, <2>1, <2>2 DEF IsFrame
<1> DEFINE new == [first |-> Pos + 2 - FrameSize, last |-> Pos + 1,
                   data |-> SemanticData(Candidate)]
<1>10. /\ new.first = Pos - Len(built) + 1 /\ new.last = Pos + 1
       /\ new.data = SemanticData(Candidate)
  BY <1>4
<1>11. SubSeq(seen, new.first, new.last) = Candidate
  BY <1>3, <1>10
<1> HIDE DEF new
<1>12. GenuineIn(seen, new)
  BY <1>3, <1>9, <1>10, <1>11 DEF GenuineIn
<1> QED BY <1>12 DEF new

\* Every step but SaveFrame leaves the frames handed over alone; the stream only
\* grows.
LEMMA SavedOnlyBySaveFrame ==
  ASSUME TypeOK, [Next]_vars
  PROVE  /\ UNCHANGED saved \/ SaveFrame
         /\ Len(seen') >= Len(seen)
         /\ \A j \in 1 .. Len(seen) : seen'[j] = seen[j]
<1>1. ASSUME NEW n \in ChunkSizes, ParseData(n)
      PROVE  /\ UNCHANGED saved /\ Len(seen') >= Len(seen)
             /\ \A j \in 1 .. Len(seen) : seen'[j] = seen[j]
  <2>1. pc = "idle" /\ next + n <= Len(wire) /\ StartParsing(n) /\ UNCHANGED saved
    BY <1>1 DEF ParseData
  <2>2. Len(seen') = Len(seen) + n /\ \A j \in 1 .. Len(seen) : seen'[j] = seen[j]
    BY <2>1, StartParsingType
  <2>3. n \in Nat /\ Len(seen) \in Nat
    BY CoreAssumption DEF CoreAssumption, TypeOK, LineTypeOK
  <2> QED BY <2>1, <2>2, <2>3
<1>2. Len(seen) \in Nat
  BY DEF TypeOK, LineTypeOK
<1>3. ASSUME UNCHANGED seen
      PROVE  Len(seen') >= Len(seen) /\ \A j \in 1 .. Len(seen) : seen'[j] = seen[j]
  BY <1>2, <1>3
<1>4. ASSUME NEW n \in ChunkSizes, ParseDataRefused(n) PROVE UNCHANGED <<seen, saved>>
  BY <1>4 DEF ParseDataRefused
<1>5. CoreInit \/ CoreStop \/ Decoder \/ UNCHANGED vars => UNCHANGED <<seen, saved>>
  BY DEF CoreInit, CoreStop, Decoder, GetFrame, ReleaseFrame, lineVars, vars
<1>6. SkipByte \/ FindHeader1 \/ WriteThroughNull \/ FindHeader2 \/ DropHeader1
         \/ StoreByte \/ StoreLength => UNCHANGED <<seen, saved>>
  BY DEF SkipByte, FindHeader1, WriteThroughNull, FindHeader2, DropHeader1, StoreByte,
         StoreLength, SameOutside, lineVars
<1>7. ExtendFails \/ RejectFrame \/ FrameAllocFails \/ SaveFails \/ EndOfChunk
        => UNCHANGED <<seen, saved>>
  BY DEF ExtendFails, RejectFrame, FrameAllocFails, SaveFails, EndOfChunk, SameOutside,
         lineVars
<1>8. SaveFrame => UNCHANGED seen
  BY DEF SaveFrame, SameOutside, lineVars
<1> QED BY <1>1, <1>3, <1>4, <1>5, <1>6, <1>7, <1>8 DEF Next, ProcessData

LEMMA NextGenuine ==
  TypeOK /\ TypeOK' /\ Shape /\ Tracking /\ FramesGenuine /\ [Next]_vars
    => FramesGenuine'
<1> SUFFICES ASSUME TypeOK, TypeOK', Shape, Tracking, FramesGenuine, [Next]_vars
             PROVE  FramesGenuine'
  OBVIOUS
<1>1. /\ UNCHANGED saved \/ SaveFrame
      /\ Len(seen') >= Len(seen) /\ \A j \in 1 .. Len(seen) : seen'[j] = seen[j]
  BY SavedOnlyBySaveFrame
<1>2. saved \in Seq(SavedFrame) /\ Len(saved) \in Nat
  BY DEF TypeOK, HalTypeOK
<1>3. ASSUME NEW k \in 1 .. Len(saved) PROVE GenuineIn(seen', saved[k])
  <2>1. saved[k] \in SavedFrame
    BY <1>2
  <2>2. GenuineIn(seen, saved[k])
    BY DEF FramesGenuine
  <2> QED BY <1>1, <2>1, <2>2, GenuineStays
<1>4. CASE UNCHANGED saved
  BY <1>3, <1>4 DEF FramesGenuine
<1>5. CASE SaveFrame
  <2> DEFINE new == [first |-> Pos + 2 - FrameSize, last |-> Pos + 1,
                     data |-> SemanticData(Candidate)]
  <2>1. GenuineIn(seen, new)
    <3>1. AtGoodFrame /\ BuiltIsWindow
      BY <1>5 DEF SaveFrame, Tracking
    <3> QED BY <3>1, GoodFrameIsGenuine
  <2>2. saved' = Append(saved, new) /\ seen' = seen
    BY <1>5 DEF SaveFrame, SameOutside, lineVars
  <2> HIDE DEF new
  <2>3. ASSUME NEW k \in 1 .. Len(saved') PROVE GenuineIn(seen', saved'[k])
    <3>1. Len(saved') = Len(saved) + 1
      BY <1>2, <2>2
    <3>2. CASE k = Len(saved) + 1
      <4>1. saved'[k] = new
        BY <1>2, <2>2, <3>2
      <4> QED BY <2>1, <2>2, <4>1
    <3>3. CASE k \in 1 .. Len(saved)
      <4>1. saved'[k] = saved[k]
        BY <1>2, <2>2, <3>3
      <4> QED BY <1>3, <3>3, <4>1
    <3> QED BY <1>2, <3>1, <3>2, <3>3
  <2> QED BY <2>3 DEF FramesGenuine
<1> QED BY <1>1, <1>4, <1>5

LEMMA NextDisjoint ==
  TypeOK /\ Shape /\ Tracking /\ FramesDisjoint /\ [Next]_vars => FramesDisjoint'
<1> SUFFICES ASSUME TypeOK, Shape, Tracking, FramesDisjoint, [Next]_vars
             PROVE  FramesDisjoint'
  OBVIOUS
<1>1. UNCHANGED saved \/ SaveFrame
  BY SavedOnlyBySaveFrame
<1>2. saved \in Seq(SavedFrame) /\ Len(saved) \in Nat
  BY DEF TypeOK, HalTypeOK
<1>3. CASE UNCHANGED saved
  BY <1>3 DEF FramesDisjoint
<1>4. CASE SaveFrame
  <2> DEFINE new == [first |-> Pos + 2 - FrameSize, last |-> Pos + 1,
                     data |-> SemanticData(Candidate)]
  <2>1. saved' = Append(saved, new) /\ new.first = Pos + 2 - FrameSize
    BY <1>4 DEF SaveFrame
  <2> HIDE DEF new
  <2>2. Pos \in Int /\ Len(built) \in Nat /\ FrameSize = Len(built) + 1
    BY <1>4, CandidateComplete DEF SaveFrame, AtGoodFrame
  <2>3. Len(saved') = Len(saved) + 1 /\ saved'[Len(saved) + 1] = new
        /\ \A k \in 1 .. Len(saved) : saved'[k] = saved[k]
    BY <1>2, <2>1
  <2>4. ASSUME NEW k \in 1 .. Len(saved) PROVE saved[k].last < new.first
    <3>1. saved[k].last <= Pos - Len(built)
      BY DEF Tracking, SavedBehind
    <3>2. saved[k].last \in Int
      <4>1. saved[k] \in SavedFrame
        BY <1>2
      <4> QED BY <4>1 DEF SavedFrame
    <3> QED BY <2>1, <2>2, <3>1, <3>2
  <2>5. ASSUME NEW k \in 1 .. Len(saved'), NEW l \in 1 .. Len(saved'), k < l
        PROVE  saved'[k].last < saved'[l].first
    <3>1. k \in 1 .. Len(saved)
      BY <1>2, <2>3, <2>5
    <3>2. CASE l = Len(saved) + 1
      BY <2>3, <2>4, <3>1, <3>2
    <3>3. CASE l \in 1 .. Len(saved)
      <4>1. saved[k].last < saved[l].first
        BY <2>5, <3>1, <3>3 DEF FramesDisjoint
      <4> QED BY <2>3, <3>1, <3>3, <4>1
    <3> QED BY <1>2, <2>3, <3>2, <3>3
  <2> QED BY <2>5 DEF FramesDisjoint
<1> QED BY <1>1, <1>3, <1>4

\* Whatever bytes arrive, cut into whatever chunks, only well-formed frames of the
\* byte stream are handed to the HAL, each with its own control word, command
\* word and payload.
THEOREM OnlyGenuineFrames == Spec => []FramesGenuine
<1>1. Init => FramesGenuine
  BY DEF Init, FramesGenuine
<1>2. TypeOK /\ TypeOK' /\ Shape /\ Tracking /\ FramesGenuine /\ [Next]_vars
        => FramesGenuine'
  BY NextGenuine
<1> QED BY <1>1, <1>2, ParserInvariant, PTL DEF Spec

\* No byte of the stream is used in two frames, and the frames keep the order of
\* the stream.
THEOREM FramesNeverOverlap == Spec => []FramesDisjoint
<1>1. Init => FramesDisjoint
  BY DEF Init, FramesDisjoint
<1>2. TypeOK /\ Shape /\ Tracking /\ FramesDisjoint /\ [Next]_vars => FramesDisjoint'
  BY NextDisjoint
<1> QED BY <1>1, <1>2, ParserInvariant, PTL DEF Spec

-----------------------------------------------------------------------------
(* The size of the building buffer between frames.                          *)

\* restart_parser gives back a buffer of the starting size, or none, unless the count
\* of large frames has reached three.
LEMMA RestartSize ==
  ASSUME NEW b \in BOOLEAN, NEW big \in Nat, NEW m, RestartParser(b, big, m)
  PROVE  building_buffer' /\ big < 3
           => parsing_buff_current_size' = STARTING_PARSER_BUFFER_SIZE
<1> DEFINE Allocated(m1, ok) ==
      /\ building_buffer' = ok
      /\ parsing_buff_current_size' = IF ok THEN STARTING_PARSER_BUFFER_SIZE ELSE 0
      /\ currently_allocated_mem' =
           IF ok THEN Charged(m1, STARTING_PARSER_BUFFER_SIZE) ELSE m1
<1>1. CASE FreshBuffer(b, m)
  <2>1. PICK m1 \in HalFree(m, b, parsing_buff_current_size) :
          \E ok \in HalMalloc(m1, STARTING_PARSER_BUFFER_SIZE) : Allocated(m1, ok)
    BY <1>1 DEF FreshBuffer
  <2>2. PICK ok \in BOOLEAN : Allocated(m1, ok)
    BY <2>1 DEF HalMalloc
  <2> QED BY <2>2
<1>2. CASE KeepBuffer(big)
  BY <1>2 DEF KeepBuffer
<1> QED BY <1>1, <1>2 DEF RestartParser

LEMMA NextSize ==
  TypeOK /\ LargeBufferOnlyInBursts /\ [Next]_vars => LargeBufferOnlyInBursts'
<1> SUFFICES ASSUME TypeOK, LargeBufferOnlyInBursts, [Next]_vars
             PROVE  LargeBufferOnlyInBursts'
  OBVIOUS
<1> USE DEF LargeBufferOnlyInBursts
<1>t. building_buffer \in BOOLEAN /\ big_frames_count \in Nat
  BY DEF TypeOK, ParserTypeOK
<1>1. ASSUME NEW m, RestartParser(building_buffer, big_frames_count, m),
             big_frames_count' = big_frames_count
      PROVE  LargeBufferOnlyInBursts'
  BY <1>1, <1>t, RestartSize
<1>2. CASE CoreInit \/ DropHeader1 \/ RejectFrame \/ FrameAllocFails \/ SaveFrame
  <2>1. big_frames_count' = big_frames_count
    BY <1>2 DEF CoreInit, DropHeader1, RejectFrame, FrameAllocFails, SaveFrame
  <2>2. \/ RestartParser(building_buffer, big_frames_count, currently_allocated_mem)
        \/ RestartParser(building_buffer, big_frames_count,
                         Charged(currently_allocated_mem, 2 + payload_len))
    BY <1>2, Zenon DEF CoreInit, DropHeader1, RejectFrame, FrameAllocFails, SaveFrame
  <2> QED BY <1>1, <2>1, <2>2, Zenon
<1>3. CASE ExtendFails
  <2>1. RestartParser(FALSE, big_frames_count', currently_allocated_mem)
    BY <1>3 DEF ExtendFails
  <2>2. big_frames_count' \in Nat
    BY <1>3, RestartInExtend
  <2> QED BY <2>1, <2>2, RestartSize
<1>4. CASE CoreStop
  BY <1>4 DEF CoreStop
<1>5. CASE FindHeader1 \/ FindHeader2 \/ StoreByte \/ StoreLength
  <2>1. CASE FindHeader1
    BY <2>1 DEF FindHeader1
  <2>2. CASE FindHeader2
    BY <2>2 DEF FindHeader2
  <2>3. CASE StoreByte
    BY <2>3 DEF StoreByte
  <2>4. CASE StoreLength
    BY <2>4 DEF StoreLength, AtLengthByte
  <2> QED BY <1>5, <2>1, <2>2, <2>3, <2>4
<1>6. CASE UNCHANGED <<buildVars, big_frames_count>>
  BY <1>6 DEF buildVars
<1>7. CASE SkipByte \/ WriteThroughNull \/ SaveFails \/ EndOfChunk \/ Decoder
  BY <1>6, <1>7 DEF SkipByte, WriteThroughNull, SaveFails, EndOfChunk, Decoder, GetFrame,
                    ReleaseFrame
<1>8. ASSUME NEW n \in ChunkSizes, ParseData(n) \/ ParseDataRefused(n)
      PROVE  LargeBufferOnlyInBursts'
  BY <1>6, <1>8 DEF ParseData, ParseDataRefused
<1>9. CASE UNCHANGED vars
  BY <1>6, <1>9 DEF vars, buildVars
<1> QED BY <1>2, <1>3, <1>4, <1>5, <1>7, <1>8, <1>9 DEF Next, ProcessData

\* Between frames the building buffer has its starting size unless at least three large
\* frames have come in a row, whatever arrives and whatever fails.
THEOREM BufferShrinksAgain == Spec => []LargeBufferOnlyInBursts
<1>1. Init => LargeBufferOnlyInBursts
  BY DEF Init, LargeBufferOnlyInBursts
<1> QED BY <1>1, NextSize, TypeCorrect, PTL DEF Spec

-----------------------------------------------------------------------------
(* The status of a call.                                                    *)

\* While a chunk is parsed: when no frame has been handed over, the status tells a frame
\* under construction that began in the chunk from one that began before it; once one has
\* been handed over it is FRAME_OK or MEMORY_PROBLEM.
StatusSoFar ==
  pc = "parse" =>
    /\ finished_frames = 0 /\ head1 =>
         status = IF Len(built) <= i THEN "UNFINISHED_FRAME" ELSE "NO_FRAMES"
    /\ finished_frames > 0 => status \in {"FRAME_OK", "MEMORY_PROBLEM"}

LEMMA NextStatus == TypeOK /\ Shape /\ StatusSoFar /\ [Next]_vars => StatusSoFar'
<1> SUFFICES ASSUME TypeOK, Shape, StatusSoFar, [Next]_vars PROVE StatusSoFar'
  OBVIOUS
<1> USE DEF StatusSoFar
<1>t. /\ finished_frames \in Nat /\ head1 \in BOOLEAN /\ i \in Int
      /\ built \in Seq(Byte) /\ Len(built) \in Nat
      /\ head1 => Len(built) >= 1
  BY DEF TypeOK, CallTypeOK, ParserTypeOK, LineTypeOK, Shape, HeadShape
<1>0. ASSUME NEW b \in Byte, built' = Append(built, b)
      PROVE  Len(built') = Len(built) + 1
  BY <1>0, <1>t
<1>c. CurrentByte \in Byte \/ ~InLoop
  BY CandidateType
<1>r. ASSUME NEW buffer, NEW big, NEW m, RestartParser(buffer, big, m) PROVE ~head1'
  BY <1>r DEF RestartParser, ForgetFrame
<1>1. CASE CoreInit \/ CoreStop \/ EndOfChunk \/ WriteThroughNull \/ SaveFails
  <2>1. pc' # "parse"
    BY <1>1 DEF CoreInit, CoreStop, EndOfChunk, WriteThroughNull, SaveFails
  <2> QED BY <2>1
<1>2. ASSUME NEW n \in ChunkSizes, ParseData(n) PROVE StatusSoFar'
  <2>1. /\ i' = 0 /\ status' = "NO_FRAMES" /\ finished_frames' = 0
        /\ UNCHANGED <<head1, built>>
    BY <1>2 DEF ParseData, StartParsing, buildVars
  <2> QED BY <2>1, <1>t
<1>3. ASSUME NEW n \in ChunkSizes, ParseDataRefused(n) PROVE StatusSoFar'
  BY <1>3 DEF ParseDataRefused
<1>4. CASE SkipByte
  <2>1. UNCHANGED <<status, finished_frames, head1>> /\ ~head1 /\ pc = "parse"
    BY <1>4 DEF SkipByte, buildVars, InLoop
  <2> QED BY <2>1
<1>5. CASE FindHeader1
  <2>1. /\ Len(built') = 1 /\ i' = i + 1 /\ i >= 0
        /\ UNCHANGED finished_frames /\ pc = "parse"
        /\ status' = IF finished_frames = 0 THEN "UNFINISHED_FRAME" ELSE status
    BY <1>5 DEF FindHeader1, InLoop
  <2> QED BY <2>1, <1>t
<1>6. CASE FindHeader2 \/ StoreByte \/ StoreLength
  <2>1. built' = Append(built, CurrentByte) /\ InLoop
    BY <1>6 DEF FindHeader2, StoreByte, StoreLength, AtLengthByte, Candidate
  <2>2. Len(built') = Len(built) + 1
    BY <2>1, <1>0, <1>c
  <2>3. i' = i + 1 /\ UNCHANGED <<status, finished_frames, head1>> /\ pc = "parse"
    BY <1>6 DEF FindHeader2, StoreByte, StoreLength, AtLengthByte, InLoop
  <2> QED BY <2>2, <2>3, <1>t
<1>7. CASE DropHeader1 \/ RejectFrame
  <2>1. ~head1'
    BY <1>7, <1>r DEF DropHeader1, RejectFrame
  <2>2. UNCHANGED <<status, finished_frames>> /\ pc = "parse"
    BY <1>7 DEF DropHeader1, RejectFrame, AtLastByte, InLoop
  <2> QED BY <2>1, <2>2
<1>8. CASE ExtendFails \/ FrameAllocFails
  <2>1. ~head1'
    BY <1>8, <1>r DEF ExtendFails, FrameAllocFails
  <2>2. status' = "MEMORY_PROBLEM"
    BY <1>8 DEF ExtendFails, FrameAllocFails
  <2> QED BY <2>1, <2>2
<1>9. CASE SaveFrame
  <2>1. finished_frames' > 0 /\ status' = "FRAME_OK"
    BY <1>9, <1>t DEF SaveFrame
  <2> QED BY <2>1
<1>10. CASE Decoder
  BY <1>10 DEF Decoder, GetFrame, ReleaseFrame, buildVars
<1>11. CASE UNCHANGED vars
  BY <1>11 DEF vars
<1> QED BY <1>1, <1>2, <1>3, <1>4, <1>5, <1>6, <1>7, <1>8, <1>9, <1>10, <1>11
        DEF Next, ProcessData

LEMMA StatusReturned ==
  TypeOK /\ Shape /\ StatusSoFar /\ pc = "parse" /\ pc' = "idle" /\ [Next]_vars =>
    /\ status' = "UNFINISHED_FRAME" <=> finished_frames' = 0 /\ BegunHere
    /\ status' = "NO_FRAMES" <=> finished_frames' = 0 /\ ~BegunHere
<1> SUFFICES ASSUME TypeOK, Shape, StatusSoFar, pc = "parse", pc' = "idle", [Next]_vars
             PROVE  /\ status' = "UNFINISHED_FRAME" <=> finished_frames' = 0 /\ BegunHere
                    /\ status' = "NO_FRAMES" <=> finished_frames' = 0 /\ ~BegunHere
  OBVIOUS
<1>t. /\ finished_frames \in Nat /\ i \in Int /\ i <= chunk_len /\ chunk_len \in Nat
      /\ Len(built) \in Nat /\ head1 \in BOOLEAN
  BY DEF TypeOK, CallTypeOK, ParserTypeOK, LineTypeOK
<1>1. EndOfChunk
  <2>1. ASSUME UNCHANGED pc PROVE FALSE
    BY <2>1
  <2>2. ~(CoreInit \/ CoreStop)
    BY DEF CoreInit, CoreStop
  <2>3. ASSUME NEW n \in ChunkSizes PROVE ~(ParseData(n) \/ ParseDataRefused(n))
    BY DEF ParseData, ParseDataRefused
  <2>4. ~(SkipByte \/ FindHeader1 \/ FindHeader2 \/ DropHeader1 \/ StoreByte \/ StoreLength)
    BY <2>1 DEF SkipByte, FindHeader1, FindHeader2, DropHeader1, StoreByte, StoreLength
  <2>5. ~(ExtendFails \/ RejectFrame \/ FrameAllocFails \/ SaveFrame)
    BY <2>1 DEF ExtendFails, RejectFrame, FrameAllocFails, SaveFrame
  <2>6. ~(WriteThroughNull \/ SaveFails)
    BY DEF WriteThroughNull, SaveFails
  <2>7. ~Decoder /\ ~UNCHANGED vars
    BY <2>1 DEF Decoder, GetFrame, ReleaseFrame, vars
  <2> QED BY <2>2, <2>3, <2>4, <2>5, <2>6, <2>7 DEF Next, ProcessData
<1>2. UNCHANGED finished_frames /\ status' = FinalStatus /\ (i < 0 \/ i = chunk_len)
  BY <1>1, <1>t DEF EndOfChunk, InLoop
<1>3. i < 0 => ~head1
  BY <1>t DEF Shape, LeftChunk, HeadShape
<1>4. finished_frames = 0 /\ head1 =>
        status = IF Len(built) <= chunk_len THEN "UNFINISHED_FRAME" ELSE "NO_FRAMES"
  BY <1>2, <1>3, <1>t DEF StatusSoFar
<1>5. finished_frames > 0 => status \in {"FRAME_OK", "MEMORY_PROBLEM"}
  BY DEF StatusSoFar
<1> QED BY <1>2, <1>4, <1>5, <1>t DEF FinalStatus, BegunHere

\* mmwave_parse_data returns UNFINISHED_FRAME exactly when it has handed over no frame
\* and leaves one it began itself, and NO_FRAMES exactly when it has handed over none and
\* leaves at most one that an earlier chunk began; so FRAME_OK and MEMORY_PROBLEM tell of
\* at least one frame handed over.
THEOREM StatusIsTrue == Spec => StatusSound
<1>1. Init => StatusSoFar
  BY DEF Init, StatusSoFar
<1>2. TypeOK /\ Shape /\ StatusSoFar /\ [Next]_vars =>
        [pc = "parse" /\ pc' = "idle" =>
           /\ status' = "UNFINISHED_FRAME" <=> finished_frames' = 0 /\ BegunHere
           /\ status' = "NO_FRAMES" <=> finished_frames' = 0 /\ ~BegunHere]_vars
  BY StatusReturned
<1> QED BY <1>1, <1>2, NextStatus, ParserInvariant, PTL DEF Spec, StatusSound

-----------------------------------------------------------------------------
(* The HAL's account of memory.                                             *)

\* What a queue of frames weighs, and how that changes at its ends.
LEMMA SizeEmpty == SizeOf(<<>>) = 0
BY FlattenEmpty DEF SizeOf

LEMMA SizeType ==
  ASSUME NEW q \in Frames
  PROVE  SizeOf(q) \in Nat
<1>1. FlattenSeq(q) \in Seq(Byte)
  BY FlattenType DEF Frames
<1> QED BY <1>1 DEF SizeOf

LEMMA SizeAppend ==
  ASSUME NEW q \in Frames, NEW f \in Seq(Byte)
  PROVE  SizeOf(Append(q, f)) = SizeOf(q) + Len(f)
<1>1. FlattenSeq(Append(q, f)) = FlattenSeq(q) \o f
  BY FlattenAppend DEF Frames
<1>2. FlattenSeq(q) \in Seq(Byte)
  BY FlattenType DEF Frames
<1> QED BY <1>1, <1>2, ConcatProperties DEF SizeOf

LEMMA SizeTail ==
  ASSUME NEW q \in Frames, q # <<>>
  PROVE  SizeOf(q) = Len(Head(q)) + SizeOf(Tail(q))
<1>1. FlattenSeq(q) = Head(q) \o FlattenSeq(Tail(q))
  BY FlattenTail DEF Frames
<1>2. Head(q) \in Seq(Byte) /\ Tail(q) \in Seq(Seq(Byte))
  BY HeadTailProperties DEF Frames
<1>3. FlattenSeq(Tail(q)) \in Seq(Byte)
  BY <1>2, FlattenType
<1> QED BY <1>1, <1>2, <1>3, ConcatProperties DEF SizeOf

LEMMA SizeOne ==
  ASSUME NEW f \in Seq(Byte)
  PROVE  SizeOf(<<f>>) = Len(f)
<1>1. <<>> \in Frames /\ <<f>> = Append(<<>>, f)
  BY DEF Frames
<1>2. SizeOf(Append(<<>>, f)) = SizeOf(<<>>) + Len(f)
  BY <1>1, SizeAppend
<1> QED BY <1>1, <1>2, SizeEmpty

\* The part of the account that restart_parser does not touch.
Elsewhere == data_saving_buff_size + SizeOf(frame_queue) + SizeOf(held)

BufferBytes(b, size) == IF b THEN size ELSE 0

LEMMA ReachableParts ==
  ASSUME TypeOK
  PROVE  /\ data_saving_buff_size \in Nat /\ SizeOf(frame_queue) \in Nat
         /\ SizeOf(held) \in Nat /\ Elsewhere \in Nat
         /\ BufferBytes(building_buffer, parsing_buff_current_size) \in Nat
         /\ currently_allocated_mem \in Int
         /\ Reachable = BufferBytes(building_buffer, parsing_buff_current_size) + Elsewhere
<1>1. /\ data_saving_buff_size \in Nat /\ parsing_buff_current_size \in Nat
      /\ frame_queue \in Frames /\ held \in Frames /\ currently_allocated_mem \in Int
  BY DEF TypeOK, ParserTypeOK, HalTypeOK
<1>2. SizeOf(frame_queue) \in Nat /\ SizeOf(held) \in Nat
  BY <1>1, SizeType
<1>3. BufferBytes(building_buffer, parsing_buff_current_size) \in Nat
  BY <1>1 DEF BufferBytes
<1> QED BY <1>1, <1>2, <1>3 DEF Reachable, Elsewhere, BufferBytes

LEMMA ReachableNext ==
  ASSUME TypeOK'
  PROVE  Reachable' = BufferBytes(building_buffer', parsing_buff_current_size') + Elsewhere'
<1>1. /\ data_saving_buff_size' \in Nat /\ parsing_buff_current_size' \in Nat
      /\ frame_queue' \in Frames /\ held' \in Frames
  BY DEF TypeOK, ParserTypeOK, HalTypeOK
<1>2. SizeOf(frame_queue') \in Nat /\ SizeOf(held') \in Nat
  BY <1>1, SizeType
<1>3. /\ Elsewhere' = data_saving_buff_size' + SizeOf(frame_queue') + SizeOf(held')
      /\ Reachable' = (IF building_buffer' THEN parsing_buff_current_size' ELSE 0)
                         + data_saving_buff_size' + SizeOf(frame_queue') + SizeOf(held')
  BY DEF Reachable, Elsewhere, SizeOf
<1> QED BY <1>1, <1>2, <1>3 DEF BufferBytes

\* An account of m covers a use of u bytes and stays within the budget.
Covers(m, u) == u <= m /\ m <= MAX_TOTAL_ALLOC

\* A free takes away no more than was given back.
LEMMA FreeCovers ==
  ASSUME NEW m \in Int, NEW a \in BOOLEAN, NEW n \in Nat, NEW rest \in Int,
         NEW r \in HalFree(m, a, n),
         Covers(m, (IF a THEN n ELSE 0) + rest)
  PROVE  r \in Int /\ Covers(r, rest)
<1>1. MAX_TOTAL_ALLOC \in Int
  BY CoreAssumption DEF CoreAssumption
<1>2. \/ ~a /\ r = m
      \/ a /\ (r = m \/ r = m - n)
  BY DEF HalFree
<1> QED BY <1>1, <1>2 DEF Covers

\* restart_parser with rest bytes in use outside the building buffer.
LEMMA RestartCovers ==
  ASSUME TypeOK, NEW b \in {building_buffer, FALSE}, NEW big \in Int, NEW m \in Int,
         NEW rest \in Nat, RestartParser(b, big, m),
         Covers(m, BufferBytes(b, parsing_buff_current_size) + rest)
  PROVE  Covers(currently_allocated_mem',
                BufferBytes(building_buffer', parsing_buff_current_size') + rest)
<1>1. /\ building_buffer \in BOOLEAN /\ parsing_buff_current_size \in Nat
      /\ STARTING_PARSER_BUFFER_SIZE \in Nat /\ MAX_TOTAL_ALLOC \in Nat
  BY CoreAssumption DEF TypeOK, ParserTypeOK, CoreAssumption
<1>a. b \in BOOLEAN
  BY <1>1, Zenon
<1>2. CASE FreshBuffer(b, m)
  <2> DEFINE Allocated(m1, ok) ==
        /\ building_buffer' = ok
        /\ parsing_buff_current_size' = IF ok THEN STARTING_PARSER_BUFFER_SIZE ELSE 0
        /\ currently_allocated_mem' =
             IF ok THEN Charged(m1, STARTING_PARSER_BUFFER_SIZE) ELSE m1
  <2>1. PICK m1 \in HalFree(m, b, parsing_buff_current_size) :
          \E ok \in HalMalloc(m1, STARTING_PARSER_BUFFER_SIZE) : Allocated(m1, ok)
    BY <1>2 DEF FreshBuffer
  <2>2. PICK ok \in HalMalloc(m1, STARTING_PARSER_BUFFER_SIZE) : Allocated(m1, ok)
    BY <2>1
  <2>3. ok \in BOOLEAN /\ (ok => m1 + STARTING_PARSER_BUFFER_SIZE <= MAX_TOTAL_ALLOC)
    BY <2>2 DEF HalMalloc
  <2>4. Covers(m, (IF b THEN parsing_buff_current_size ELSE 0) + rest)
    BY DEF BufferBytes
  <2>5. m1 \in Int /\ Covers(m1, rest)
    BY <1>1, <1>a, <2>1, <2>4, FreeCovers
  <2>6. CASE ok
    BY <1>1, <2>2, <2>3, <2>5, <2>6 DEF Covers, BufferBytes, Charged
  <2>7. CASE ~ok
    BY <1>1, <2>2, <2>3, <2>5, <2>7 DEF Covers, BufferBytes
  <2> QED BY <2>3, <2>6, <2>7
<1>3. CASE /\ building_buffer' = b
           /\ UNCHANGED parsing_buff_current_size
           /\ currently_allocated_mem' = m
  BY <1>3
<1> QED BY <1>2, <1>3 DEF RestartParser

\* restart_parser as the loop calls it when nothing else moves memory.
LEMMA PlainRestartCovers ==
  ASSUME TypeOK, TypeOK', AccountCoversUse,
         RestartParser(building_buffer, big_frames_count, currently_allocated_mem),
         UNCHANGED <<data_saving_buff_size, frame_queue, held>>
  PROVE  AccountCoversUse'
<1>1. /\ Elsewhere \in Nat /\ Elsewhere' = Elsewhere /\ currently_allocated_mem \in Int
      /\ big_frames_count \in Int /\ building_buffer \in {building_buffer, FALSE}
  BY ReachableParts DEF Elsewhere, TypeOK, ParserTypeOK
<1>2. Covers(currently_allocated_mem,
             BufferBytes(building_buffer, parsing_buff_current_size) + Elsewhere)
  BY ReachableParts DEF AccountCoversUse, Covers
<1>3. Covers(currently_allocated_mem',
             BufferBytes(building_buffer', parsing_buff_current_size') + Elsewhere)
  BY <1>1, <1>2, RestartCovers
<1> QED BY <1>1, <1>3, ReachableNext DEF AccountCoversUse, Covers

LEMMA AccountSame ==
  ASSUME TypeOK', AccountCoversUse,
         UNCHANGED <<building_buffer, parsing_buff_current_size, data_saving_buff_size,
                     currently_allocated_mem, frame_queue, held>>
  PROVE  AccountCoversUse'
<1>1. Reachable' = Reachable
  BY DEF Reachable, SizeOf
<1> QED BY <1>1 DEF AccountCoversUse

\* The data of a complete frame has the size that was allocated for it.
LEMMA SavedSize ==
  ASSUME TypeOK, AtLastByte
  PROVE  /\ SemanticData(Candidate) \in Seq(Byte)
         /\ Len(SemanticData(Candidate)) = 2 + payload_len
         /\ payload_len \in Nat
<1>1. /\ Candidate \in Seq(Byte) /\ Len(Candidate) = FrameSize /\ FrameSize \in Nat
  BY CandidateComplete, CandidateType
<1>2. payload_len \in Nat /\ FrameSize = 9 + payload_len
  BY DEF TypeOK, ParserTypeOK, FrameSize, Overhead
<1>3. Candidate[3] \in Byte /\ Candidate[4] \in Byte
  BY <1>1, <1>2
<1>4. SubSeq(Candidate, 7, 6 + payload_len) \in Seq(Byte)
        /\ Len(SubSeq(Candidate, 7, 6 + payload_len)) = payload_len
  BY <1>1, <1>2
<1>5. PrefixLen + 1 = 7 /\ Len(Candidate) - 3 = 6 + payload_len
  BY <1>1, <1>2 DEF PrefixLen
<1> DEFINE words == <<Candidate[3], Candidate[4]>>
           body  == SubSeq(Candidate, 7, 6 + payload_len)
<1>6. words \in Seq(Byte) /\ Len(words) = 2
  BY <1>3
<1>7. SemanticData(Candidate) = words \o body
  BY <1>5 DEF SemanticData
<1> HIDE DEF words, body
<1>8. body \in Seq(Byte) /\ Len(body) = payload_len
  BY <1>4 DEF body
<1>9. words \o body \in Seq(Byte) /\ Len(words \o body) = Len(words) + Len(body)
  BY ONLY <1>6, <1>8, ConcatProperties
<1> QED BY <1>2, <1>6, <1>7, <1>8, <1>9

LEMMA InitAccount == Init => AccountCoversUse
<1> SUFFICES ASSUME Init PROVE AccountCoversUse
  OBVIOUS
<1>1. SizeOf(frame_queue) = 0 /\ SizeOf(held) = 0
  BY SizeEmpty DEF Init
<1> QED BY <1>1, CoreAssumption DEF Init, CoreAssumption, AccountCoversUse, Reachable

LEMMA NextAccount ==
  TypeOK /\ TypeOK' /\ AccountCoversUse /\ [Next]_vars => AccountCoversUse'
<1> SUFFICES ASSUME TypeOK, TypeOK', AccountCoversUse, [Next]_vars
             PROVE  AccountCoversUse'
  OBVIOUS
<1> DEFINE m   == currently_allocated_mem
           buf == BufferBytes(building_buffer, parsing_buff_current_size)
           buf2 == BufferBytes(building_buffer', parsing_buff_current_size')
<1>a. /\ data_saving_buff_size \in Nat /\ SizeOf(frame_queue) \in Nat
      /\ SizeOf(held) \in Nat /\ Elsewhere \in Nat /\ buf \in Nat /\ m \in Int
      /\ MAX_TOTAL_ALLOC \in Int
  BY ReachableParts, CoreAssumption DEF CoreAssumption
<1>b. Covers(m, buf + Elsewhere)
  BY ReachableParts DEF AccountCoversUse, Covers
<1>c. Elsewhere = data_saving_buff_size + SizeOf(frame_queue) + SizeOf(held)
  BY DEF Elsewhere
<1>d. Elsewhere' = data_saving_buff_size' + SizeOf(frame_queue') + SizeOf(held')
  BY DEF Elsewhere, SizeOf
<1>e. Covers(m', buf2 + Elsewhere') => AccountCoversUse'
  BY ReachableNext DEF AccountCoversUse, Covers
<1>f. /\ building_buffer \in BOOLEAN /\ parsing_buff_current_size \in Nat
      /\ frame_queue \in Frames /\ held \in Frames /\ big_frames_count \in Int
  BY DEF TypeOK, ParserTypeOK, HalTypeOK
<1> HIDE DEF m, buf, buf2
<1>1. CASE CoreInit
  BY <1>1, PlainRestartCovers DEF CoreInit, queueVars
<1>2. CASE CoreStop
  <2>1. PICK r \in HalFree(m, building_buffer, parsing_buff_current_size) :
          m' \in HalFree(r, data_saving_buff_size > 0, data_saving_buff_size)
    BY <1>2 DEF CoreStop, m
  <2>2. Covers(m, (IF building_buffer THEN parsing_buff_current_size ELSE 0) + Elsewhere)
    BY <1>b DEF buf, BufferBytes
  <2>3. r \in Int /\ Covers(r, Elsewhere)
    BY <1>a, <1>f, <2>1, <2>2, FreeCovers
  <2> DEFINE rest == SizeOf(frame_queue) + SizeOf(held)
  <2>4. rest \in Int /\ (data_saving_buff_size > 0) \in BOOLEAN
        /\ Elsewhere
            = (IF data_saving_buff_size > 0 THEN data_saving_buff_size ELSE 0) + rest
    BY <1>a, <1>c
  <2>5. Covers(m', rest)
    <3> HIDE DEF rest
    <3> QED BY <1>a, <2>1, <2>3, <2>4, FreeCovers
  <2>6. /\ building_buffer' = FALSE /\ data_saving_buff_size' = 0
        /\ frame_queue' = frame_queue /\ held' = held
    BY <1>2 DEF CoreStop, queueVars
  <2>7. buf2 = 0 /\ Elsewhere' = rest
    BY <1>a, <1>d, <2>6 DEF buf2, BufferBytes
  <2> QED BY <1>e, <2>4, <2>5, <2>7
<1>3. ASSUME NEW n \in ChunkSizes, ParseData(n) PROVE AccountCoversUse'
  <2>1. n \in Nat
    BY CoreAssumption DEF CoreAssumption
  <2>2. CASE UNCHANGED <<data_saving_buff_size, currently_allocated_mem>>
    BY <1>3, <2>2, AccountSame DEF ParseData, buildVars, queueVars
  <2>3. CASE /\ TRUE \in HalMalloc(m, n)
             /\ m' \in Replaced(m, data_saving_buff_size > 0, data_saving_buff_size, n)
             /\ data_saving_buff_size' = n
    <3> DEFINE rest == buf + SizeOf(frame_queue) + SizeOf(held) + n
    <3>1. m + n <= MAX_TOTAL_ALLOC
      BY <2>3 DEF HalMalloc
    <3>2. m' \in HalFree(m + n, data_saving_buff_size > 0, data_saving_buff_size)
      BY <2>3 DEF Replaced, Charged
    <3>3. Covers(m + n, (IF data_saving_buff_size > 0 THEN data_saving_buff_size ELSE 0)
                          + rest)
      BY <1>a, <1>b, <1>c, <2>1, <3>1 DEF Covers
    <3>4. rest \in Int /\ m + n \in Int /\ (data_saving_buff_size > 0) \in BOOLEAN
      BY <1>a, <2>1
    <3>5. Covers(m', rest)
      <4> HIDE DEF rest
      <4> QED BY <1>a, <3>2, <3>3, <3>4, FreeCovers
    <3>6. UNCHANGED <<building_buffer, parsing_buff_current_size, frame_queue, held>>
      BY <1>3 DEF ParseData, buildVars, queueVars
    <3>7. buf2 = buf /\ buf2 + Elsewhere' = rest
      BY <1>a, <1>d, <2>1, <2>3, <3>6 DEF buf, buf2
    <3> QED BY <1>e, <3>5, <3>7
  <2> QED BY <1>3, <2>2, <2>3 DEF ParseData, m
<1>4. ASSUME NEW n \in ChunkSizes, ParseDataRefused(n) PROVE AccountCoversUse'
  BY <1>4, AccountSame DEF ParseDataRefused, buildVars, queueVars
<1>5. CASE SkipByte
  BY <1>5, AccountSame DEF SkipByte, SameOutside, buildVars
<1>6. CASE FindHeader1
  BY <1>6, AccountSame DEF FindHeader1, SameOutside, NoMemoryChange
<1>7. CASE WriteThroughNull
  BY <1>7, AccountSame DEF WriteThroughNull, SameOutside, buildVars
<1>8. CASE FindHeader2
  BY <1>8, AccountSame DEF FindHeader2, SameOutside, NoMemoryChange
<1>9. CASE DropHeader1
  BY <1>9, PlainRestartCovers DEF DropHeader1, SameOutside
<1>10. CASE StoreByte
  BY <1>10, AccountSame DEF StoreByte, SameOutside, NoMemoryChange
<1>11. CASE StoreLength
  <2> DEFINE size == Overhead + PayloadLen(Candidate)
  <2>1. size \in Nat
    <3>1. InLoop /\ Len(Candidate) >= PrefixLen
      BY <1>11 DEF StoreLength, AtLengthByte, PrefixLen
    <3>2. Candidate \in Seq(Byte)
      BY <3>1, CandidateType
    <3>3. PayloadLen(Candidate) \in Nat
      BY <3>1, <3>2, PayloadLenType
    <3> QED BY <3>3 DEF Overhead
  <2>2. UNCHANGED <<building_buffer, data_saving_buff_size, frame_queue, held>>
    BY <1>11 DEF StoreLength, SameOutside
  <2>3. \/ UNCHANGED <<parsing_buff_current_size, currently_allocated_mem>>
        \/ /\ TRUE \in HalMalloc(m, size)
           /\ m' \in Replaced(m, building_buffer, parsing_buff_current_size, size)
           /\ parsing_buff_current_size' = size
    BY <1>11 DEF StoreLength, m
  <2> HIDE DEF size
  <2>4. CASE UNCHANGED <<parsing_buff_current_size, currently_allocated_mem>>
    BY <2>2, <2>4, AccountSame
  <2>5. CASE /\ TRUE \in HalMalloc(m, size)
             /\ m' \in Replaced(m, building_buffer, parsing_buff_current_size, size)
             /\ parsing_buff_current_size' = size
    <3> DEFINE rest == Elsewhere + size
    <3>1. m + size <= MAX_TOTAL_ALLOC
      BY <2>5 DEF HalMalloc
    <3>2. m' \in HalFree(m + size, building_buffer, parsing_buff_current_size)
      BY <2>5 DEF Replaced, Charged
    <3>3. buf = IF building_buffer THEN parsing_buff_current_size ELSE 0
      BY DEF buf, BufferBytes
    <3>4. Covers(m + size, (IF building_buffer THEN parsing_buff_current_size ELSE 0) + rest)
      <4>1. Covers(m + size, buf + rest)
        BY <1>a, <1>b, <2>1, <3>1 DEF Covers
      <4> QED BY <3>3, <4>1
    <3>5. rest \in Int /\ m + size \in Int
      BY <1>a, <2>1
    <3>6. Covers(m', rest)
      <4> HIDE DEF rest
      <4> QED BY <1>f, <3>2, <3>4, <3>5, FreeCovers
    <3>7. Elsewhere' = Elsewhere
      BY <1>c, <1>d, <2>2
    <3>8. buf2 \in Nat /\ buf2 <= size
      BY <2>1, <2>5 DEF buf2, BufferBytes
    <3>9. m' \in Int
      BY DEF m, TypeOK, HalTypeOK
    <3>10. Covers(m', buf2 + Elsewhere')
      BY <1>a, <2>1, <3>6, <3>7, <3>8, <3>9 DEF Covers
    <3> QED BY <1>e, <3>10
  <2> QED BY <2>3, <2>4, <2>5
<1>12. CASE ExtendFails
  <2>1. /\ RestartParser(FALSE, big_frames_count', m)
        /\ UNCHANGED <<data_saving_buff_size, frame_queue, held>>
    BY <1>12 DEF ExtendFails, SameOutside, m
  <2>2. FALSE \in {building_buffer, FALSE} /\ big_frames_count' \in Int
    BY DEF TypeOK, ParserTypeOK
  <2>3. Covers(m, BufferBytes(FALSE, parsing_buff_current_size) + Elsewhere)
    BY <1>a, <1>b DEF BufferBytes, Covers
  <2>4. Covers(m', buf2 + Elsewhere)
    BY <1>a, <2>1, <2>2, <2>3, RestartCovers DEF buf2, m
  <2> QED BY <1>c, <1>d, <1>e, <2>1, <2>4
<1>13. CASE RejectFrame
  BY <1>13, PlainRestartCovers DEF RejectFrame, SameOutside
<1>14. CASE FrameAllocFails
  BY <1>14, PlainRestartCovers DEF FrameAllocFails, SameOutside
<1>15. CASE SaveFrame
  <2> DEFINE n == 2 + payload_len
             data == SemanticData(Candidate)
  <2>1. /\ TRUE \in HalMalloc(m, n) /\ RestartParser(building_buffer, big_frames_count, m + n)
        /\ frame_queue' = Append(frame_queue, data)
        /\ UNCHANGED <<data_saving_buff_size, held>>
    BY <1>15 DEF SaveFrame, SameOutside, Charged, m
  <2>2. data \in Seq(Byte) /\ Len(data) = n /\ n \in Nat
    BY <1>15, SavedSize DEF SaveFrame, AtGoodFrame
  <2>3. m + n <= MAX_TOTAL_ALLOC
    BY <2>1 DEF HalMalloc
  <2> HIDE DEF n, data
  <2>4. SizeOf(frame_queue') = SizeOf(frame_queue) + n
    BY <1>f, <2>1, <2>2, SizeAppend
  <2>5. Covers(m + n, buf + (Elsewhere + n))
    BY <1>a, <1>b, <2>2, <2>3 DEF Covers
  <2>6. m + n \in Int /\ Elsewhere + n \in Nat /\ building_buffer \in {building_buffer, FALSE}
    BY <1>a, <2>2
  <2>7. Covers(m', buf2 + (Elsewhere + n))
    BY <1>f, <2>1, <2>5, <2>6, RestartCovers DEF buf, buf2, m
  <2>8. Elsewhere' = Elsewhere + n
    BY <1>a, <1>c, <1>d, <2>1, <2>2, <2>4
  <2> QED BY <1>e, <2>7, <2>8
<1>16. CASE SaveFails
  BY <1>16, AccountSame DEF SaveFails, SameOutside, buildVars
<1>17. CASE EndOfChunk
  BY <1>17, AccountSame DEF EndOfChunk, buildVars, queueVars
<1>18. CASE GetFrame
  <2>1. /\ frame_queue # <<>> /\ held = <<>> /\ held' = <<Head(frame_queue)>>
        /\ frame_queue' = Tail(frame_queue)
        /\ UNCHANGED <<building_buffer, parsing_buff_current_size, data_saving_buff_size,
                       currently_allocated_mem>>
    BY <1>18 DEF GetFrame, buildVars
  <2>2. Head(frame_queue) \in Seq(Byte)
    BY <1>f, <2>1 DEF Frames
  <2>3. SizeOf(frame_queue) = Len(Head(frame_queue)) + SizeOf(frame_queue')
    BY <1>f, <2>1, SizeTail
  <2>4. SizeOf(held) = 0 /\ SizeOf(held') = Len(Head(frame_queue))
    BY <2>1, <2>2, SizeEmpty, SizeOne
  <2>5. SizeOf(frame_queue') \in Nat
    BY SizeType DEF TypeOK, HalTypeOK
  <2>6. Elsewhere' = Elsewhere
    BY <1>a, <1>c, <1>d, <2>1, <2>3, <2>4, <2>5
  <2>7. buf2 = buf /\ m' = m
    BY <2>1 DEF buf, buf2, m
  <2> QED BY <1>b, <1>e, <2>6, <2>7
<1>19. CASE ReleaseFrame
  <2> DEFINE n == Len(Head(held))
             rest == buf + data_saving_buff_size + SizeOf(frame_queue)
  <2>1. /\ held # <<>> /\ held' = <<>> /\ m' \in HalFree(m, TRUE, n)
        /\ UNCHANGED <<building_buffer, parsing_buff_current_size, data_saving_buff_size,
                       frame_queue>>
    BY <1>19 DEF ReleaseFrame, buildVars, m
  <2>2. n \in Nat /\ SizeOf(Tail(held)) \in Nat /\ SizeOf(held) = n + SizeOf(Tail(held))
    <3>1. Head(held) \in Seq(Byte) /\ Tail(held) \in Frames
      BY <1>f, <2>1 DEF Frames
    <3> QED BY <1>f, <2>1, <3>1, SizeTail, SizeType
  <2> HIDE DEF n
  <2>3. SizeOf(held') = 0
    BY <2>1, SizeEmpty
  <2>4. Covers(m, (IF TRUE THEN n ELSE 0) + rest)
    BY <1>a, <1>b, <1>c, <2>2 DEF Covers
  <2>5. rest \in Int
    BY <1>a
  <2>6. Covers(m', rest)
    <3> HIDE DEF rest
    <3> QED BY <1>a, <2>1, <2>2, <2>4, <2>5, FreeCovers
  <2>7. buf2 = buf
    BY <2>1 DEF buf, buf2
  <2>8. buf2 + Elsewhere' = rest
    BY <1>a, <1>d, <2>1, <2>3, <2>7
  <2> QED BY <1>e, <2>6, <2>8
<1>20. CASE UNCHANGED vars
  BY <1>20, AccountSame DEF vars
<1> QED BY <1>1, <1>2, <1>3, <1>4, <1>5, <1>6, <1>7, <1>8, <1>9, <1>10, <1>11, <1>12,
           <1>13, <1>14, <1>15, <1>16, <1>17, <1>18, <1>19, <1>20
        DEF Next, ProcessData, Decoder

\* Whatever fails and however often the mutex is missed, the HAL's counter is at least
\* what is in use and at most the budget: hal_free's unsigned subtraction never wraps.
THEOREM AccountIsSound == Spec => []AccountCoversUse
<1>1. Init => TypeOK /\ AccountCoversUse
  BY InitType, InitAccount
<1>2. TypeOK /\ AccountCoversUse /\ [Next]_vars => (TypeOK /\ AccountCoversUse)'
  BY NextType, NextAccount
<1> QED BY <1>1, <1>2, PTL DEF Spec

-----------------------------------------------------------------------------
(* Memory when nothing fails and it is enough.                              *)

\* A queue of frames of at most n bytes weighs at most n for each.
LEMMA SizeBound ==
  ASSUME NEW q \in Frames, NEW n \in Nat, \A k \in 1 .. Len(q) : Len(q[k]) <= n
  PROVE  SizeOf(q) <= Len(q) * n
<1> DEFINE Light(r) == \A k \in 1 .. Len(r) : Len(r[k]) <= n
           Bounded == {l \in Nat : \A r \in Frames :
                         Len(r) = l /\ Light(r) => SizeOf(r) <= l * n}
<1>1. 0 \in Bounded
  <2> SUFFICES ASSUME NEW r \in Frames, Len(r) = 0 PROVE SizeOf(r) <= 0 * n
    OBVIOUS
  <2>1. r = <<>>
    BY DEF Frames
  <2>2. SizeOf(r) = 0
    BY <2>1, SizeEmpty
  <2> QED BY <2>2
<1>2. ASSUME NEW l \in Nat, l \in Bounded  PROVE l + 1 \in Bounded
  <2> SUFFICES ASSUME NEW r \in Frames, Len(r) = l + 1, Light(r)
               PROVE  SizeOf(r) <= (l + 1) * n
    OBVIOUS
  <2>1. r \in Seq(Seq(Byte)) /\ r # <<>>
    BY DEF Frames
  <2>2. /\ Head(r) \in Seq(Byte) /\ Tail(r) \in Seq(Seq(Byte)) /\ Len(Tail(r)) = l
        /\ Head(r) = r[1] /\ \A k \in 1 .. l : Tail(r)[k] = r[k + 1]
    BY <2>1, HeadTailProperties
  <2>3. Len(Head(r)) <= n /\ Light(Tail(r))
    BY <2>2
  <2>4. Tail(r) \in Frames
    BY <2>2 DEF Frames
  <2> HIDE DEF Light
  <2>5. SizeOf(Tail(r)) <= l * n
    BY <1>2, <2>2, <2>3, <2>4
  <2>6. SizeOf(r) = Len(Head(r)) + SizeOf(Tail(r))
    BY <2>1, SizeTail
  <2>7. Len(Head(r)) \in Nat /\ SizeOf(Tail(r)) \in Nat /\ l * n \in Nat
    BY <2>2, <2>4, SizeType
  <2>8. (l + 1) * n = l * n + n
    OBVIOUS
  <2> DEFINE p == l * n
  <2>9. SizeOf(r) <= p + n
    <3>1. p \in Nat /\ SizeOf(Tail(r)) <= p
      BY <2>5, <2>7
    <3> HIDE DEF p
    <3> QED BY <2>3, <2>6, <2>7, <3>1
  <2> QED BY <2>8, <2>9
<1> HIDE DEF Bounded
<1>3. \A l \in Nat : l \in Bounded
  BY <1>1, <1>2, Induction
<1>4. Len(q) \in Bounded
  BY <1>3 DEF Frames
<1> QED BY <1>4 DEF Bounded

\* The strengthening: the account is exact, the building buffer exists from init to
\* stop, and all blocks are of the sizes the budget was made for.
Calm(size, chunk) ==
  /\ currently_allocated_mem = Reachable
  /\ building_buffer <=> pc # "off"
  /\ building_buffer => parsing_buff_current_size <= size
  /\ data_saving_buff_size <= chunk
  /\ pc = "off" => data_saving_buff_size = 0 /\ big_frames_count = 0
  /\ Len(frame_queue) <= FrameQueueLen /\ Len(held) <= 1
  /\ \A k \in 1 .. Len(frame_queue) : Len(frame_queue[k]) <= size - 7
  /\ \A k \in 1 .. Len(held) : Len(held[k]) <= size - 7
  /\ fault # "null_write"

\* The candidate at the second length byte is not beyond size.
SizeExpected(size) == AtLengthByte => Overhead + PayloadLen(Candidate) <= size

\* An allocation that fits succeeds, and a free is accounted for.
LEMMA CalmCalls ==
  ASSUME NEW size, NEW chunk, Ample(size, chunk), NEW m, NEW n, NEW a
  PROVE  /\ n <= MAX_SINGLE_ALLOC /\ m + n <= MAX_TOTAL_ALLOC => HalMalloc(m, n) = {TRUE}
         /\ a => HalFree(m, a, n) = {m - n}
BY DEF Ample, HalMalloc, HalFree

\* What there is to a budget that is ample.
LEMMA AmpleBudget ==
  ASSUME NEW size \in Nat, NEW chunk \in Nat, Ample(size, chunk), TypeOK, Calm(size, chunk)
  PROVE  /\ MAX_TOTAL_ALLOC \in Nat /\ MAX_SINGLE_ALLOC \in Nat /\ MAX_PARSER_BUFFER_SIZE \in Nat
         /\ STARTING_PARSER_BUFFER_SIZE \in Nat /\ STARTING_PARSER_BUFFER_SIZE <= size
         /\ size <= MAX_SINGLE_ALLOC /\ size <= MAX_PARSER_BUFFER_SIZE
         /\ chunk <= MAX_SINGLE_ALLOC /\ size >= 9
         /\ SizeOf(held) <= size - 7
         /\ Elsewhere + 2 * size + chunk + (size - 7) <= MAX_TOTAL_ALLOC
<1>1. /\ MAX_TOTAL_ALLOC \in Nat /\ MAX_SINGLE_ALLOC \in Nat /\ MAX_PARSER_BUFFER_SIZE \in Nat
      /\ STARTING_PARSER_BUFFER_SIZE \in Nat /\ STARTING_PARSER_BUFFER_SIZE >= 9
      /\ FrameQueueLen \in Nat
  BY CoreAssumption DEF CoreAssumption, Overhead
<1>2. /\ STARTING_PARSER_BUFFER_SIZE <= size /\ size <= MAX_SINGLE_ALLOC
      /\ size <= MAX_PARSER_BUFFER_SIZE /\ chunk <= MAX_SINGLE_ALLOC
      /\ 2 * size + 2 * chunk + (FrameQueueLen + 2) * (size - 7) <= MAX_TOTAL_ALLOC
  BY DEF Ample
<1> DEFINE n == size - 7
           l == Len(frame_queue)
<1>3. /\ n \in Nat /\ frame_queue \in Frames /\ held \in Frames /\ l \in Nat /\ l <= FrameQueueLen
      /\ Len(held) \in Nat /\ Len(held) <= 1
      /\ \A k \in 1 .. Len(frame_queue) : Len(frame_queue[k]) <= n
      /\ \A k \in 1 .. Len(held) : Len(held[k]) <= n
  BY <1>1, <1>2 DEF TypeOK, HalTypeOK, Frames, Calm
<1> HIDE DEF n, l
<1>4. SizeOf(frame_queue) <= l * n
  BY <1>3, SizeBound DEF l
<1>5. SizeOf(held) <= n
  <2>1. SizeOf(held) <= Len(held) * n
    BY <1>3, SizeBound
  <2>2. CASE Len(held) = 0
    <3>1. SizeOf(held) <= 0 * n /\ 0 * n = 0
      BY <1>3, <2>1, <2>2
    <3>2. SizeOf(held) \in Nat
      BY <1>3, SizeType
    <3> QED BY <1>3, <3>1, <3>2
  <2>3. CASE Len(held) = 1
    <3>1. SizeOf(held) <= 1 * n /\ 1 * n = n
      BY <1>3, <2>1, <2>3
    <3> QED BY <3>1
  <2>4. Len(held) = 0 \/ Len(held) = 1
    <3>1. \A k \in Nat : k <= 1 => k = 0 \/ k = 1
      OBVIOUS
    <3> QED BY <1>3, <3>1, Zenon
  <2> QED BY <2>2, <2>3, <2>4
<1>6. l * n <= FrameQueueLen * n
  BY <1>1, <1>3
<1>7. (FrameQueueLen + 2) * n = FrameQueueLen * n + 2 * n /\ FrameQueueLen * n \in Nat /\ l * n \in Nat
  BY <1>1, <1>3
<1>8. Elsewhere = data_saving_buff_size + SizeOf(frame_queue) + SizeOf(held)
      /\ data_saving_buff_size \in Nat /\ SizeOf(frame_queue) \in Nat /\ SizeOf(held) \in Nat
      /\ data_saving_buff_size <= chunk
  BY ReachableParts DEF Elsewhere, Calm
<1>9. 2 * size + 2 * chunk + (FrameQueueLen + 2) * n <= MAX_TOTAL_ALLOC
  BY <1>2 DEF n
<1>10. Elsewhere + 2 * size + chunk + n <= MAX_TOTAL_ALLOC
  <2> DEFINE a == FrameQueueLen * n
             b == l * n
  <2>1. /\ a \in Nat /\ b \in Nat /\ b <= a /\ SizeOf(frame_queue) <= b
        /\ 2 * size + 2 * chunk + (a + 2 * n) <= MAX_TOTAL_ALLOC
    BY <1>4, <1>6, <1>7, <1>9
  <2> HIDE DEF a, b
  <2>2. size \in Nat /\ chunk \in Nat /\ MAX_TOTAL_ALLOC \in Nat /\ n \in Nat
    BY <1>1, <1>3
  <2>3. a + 2 * n >= SizeOf(frame_queue) + SizeOf(held) + n
    BY ONLY <1>5, <1>8, <2>1, <2>2
  <2> QED BY ONLY <1>8, <2>1, <2>2, <2>3
<1> QED BY <1>1, <1>2, <1>5, <1>10 DEF n

\* restart_parser leaves a buffer of at most size bytes, and an exact account.
LEMMA RestartCalm ==
  ASSUME NEW size \in Nat, NEW chunk \in Nat, Ample(size, chunk), TypeOK, Calm(size, chunk),
         NEW m \in Int, NEW rest \in Nat, rest + size <= MAX_TOTAL_ALLOC,
         m = BufferBytes(building_buffer, parsing_buff_current_size) + rest,
         RestartParser(building_buffer, big_frames_count, m)
  PROVE  /\ building_buffer' = TRUE /\ parsing_buff_current_size' \in Nat
         /\ parsing_buff_current_size' <= size
         /\ currently_allocated_mem' = parsing_buff_current_size' + rest
<1>1. /\ MAX_TOTAL_ALLOC \in Nat /\ MAX_SINGLE_ALLOC \in Nat
      /\ STARTING_PARSER_BUFFER_SIZE \in Nat /\ STARTING_PARSER_BUFFER_SIZE <= size
      /\ size <= MAX_SINGLE_ALLOC
  BY AmpleBudget
<1>2. /\ building_buffer \in BOOLEAN /\ parsing_buff_current_size \in Nat
      /\ big_frames_count \in Nat
  BY DEF TypeOK, ParserTypeOK
<1>3. CASE FreshBuffer(building_buffer, m)
  <2>1. PICK m1 \in HalFree(m, building_buffer, parsing_buff_current_size) :
          \E ok \in HalMalloc(m1, STARTING_PARSER_BUFFER_SIZE) :
            /\ building_buffer' = ok
            /\ parsing_buff_current_size' = IF ok THEN STARTING_PARSER_BUFFER_SIZE ELSE 0
            /\ currently_allocated_mem' =
                 IF ok THEN Charged(m1, STARTING_PARSER_BUFFER_SIZE) ELSE m1
    BY <1>3 DEF FreshBuffer
  <2>2. m1 = rest
    <3>1. CASE building_buffer
      <4>1. HalFree(m, building_buffer, parsing_buff_current_size)
              = {m - parsing_buff_current_size}
        BY <3>1, CalmCalls
      <4>2. m = parsing_buff_current_size + rest
        BY <3>1 DEF BufferBytes
      <4>3. m - parsing_buff_current_size = rest
        BY <1>2, <4>2
      <4> QED BY <2>1, <4>1, <4>3
    <3>2. CASE ~building_buffer
      <4>1. HalFree(m, building_buffer, parsing_buff_current_size) = {m}
        BY <3>2 DEF HalFree
      <4> QED BY <1>2, <2>1, <3>2, <4>1 DEF BufferBytes
    <3> QED BY <3>1, <3>2
  <2>3. HalMalloc(rest, STARTING_PARSER_BUFFER_SIZE) = {TRUE}
    <3>1. /\ STARTING_PARSER_BUFFER_SIZE <= MAX_SINGLE_ALLOC
          /\ rest + STARTING_PARSER_BUFFER_SIZE <= MAX_TOTAL_ALLOC
      BY <1>1
    <3> QED BY <3>1, CalmCalls
  <2>4. /\ building_buffer' = TRUE
        /\ parsing_buff_current_size' = STARTING_PARSER_BUFFER_SIZE
        /\ currently_allocated_mem' = rest + STARTING_PARSER_BUFFER_SIZE
    BY <2>1, <2>2, <2>3 DEF Charged
  <2> QED BY <1>1, <2>4
<1>4. CASE /\ KeepBuffer(big_frames_count)
           /\ building_buffer' = building_buffer
           /\ UNCHANGED parsing_buff_current_size
           /\ currently_allocated_mem' = m
  <2>1. pc # "off"
    BY <1>4, <1>2 DEF Calm, KeepBuffer
  <2>2. building_buffer /\ parsing_buff_current_size <= size
    BY <2>1 DEF Calm
  <2> QED BY <1>2, <1>4, <2>2 DEF BufferBytes
<1> QED BY <1>3, <1>4 DEF RestartParser

\* Steps that touch no memory,
LEMMA CalmSame ==
  ASSUME NEW size, NEW chunk, Calm(size, chunk),
         UNCHANGED <<building_buffer, parsing_buff_current_size, data_saving_buff_size,
                     currently_allocated_mem, frame_queue, held>>,
         pc # "off", pc' # "off", fault' # "null_write"
  PROVE  Calm(size, chunk)'
<1>1. Reachable' = Reachable
  BY DEF Reachable, SizeOf
<1> QED BY <1>1 DEF Calm

\* and steps that only restart the parser.
LEMMA CalmRestart ==
  ASSUME NEW size \in Nat, NEW chunk \in Nat, Ample(size, chunk), TypeOK, TypeOK',
         Calm(size, chunk),
         RestartParser(building_buffer, big_frames_count, currently_allocated_mem),
         UNCHANGED <<data_saving_buff_size, frame_queue, held, fault>>, pc' # "off"
  PROVE  Calm(size, chunk)'
<1>1. /\ Elsewhere \in Nat /\ Elsewhere + size <= MAX_TOTAL_ALLOC
      /\ currently_allocated_mem \in Int
      /\ currently_allocated_mem
           = BufferBytes(building_buffer, parsing_buff_current_size) + Elsewhere
  <2>1. /\ Elsewhere \in Nat /\ currently_allocated_mem \in Int
        /\ currently_allocated_mem
             = BufferBytes(building_buffer, parsing_buff_current_size) + Elsewhere
    BY ReachableParts DEF Calm
  <2>2. /\ MAX_TOTAL_ALLOC \in Nat /\ size >= 9
        /\ Elsewhere + 2 * size + chunk + (size - 7) <= MAX_TOTAL_ALLOC
    BY AmpleBudget
  <2> QED BY <2>1, <2>2
<1>2. /\ building_buffer' = TRUE /\ parsing_buff_current_size' \in Nat
      /\ parsing_buff_current_size' <= size
      /\ currently_allocated_mem' = parsing_buff_current_size' + Elsewhere
  BY <1>1, RestartCalm
<1>3. Reachable' = parsing_buff_current_size' + Elsewhere'
  BY <1>2, ReachableNext DEF BufferBytes
<1>4. Elsewhere' = Elsewhere
  BY DEF Elsewhere, SizeOf
<1> QED BY <1>2, <1>3, <1>4 DEF Calm

\* A frame that is complete is no larger than the building buffer.
LEMMA CompleteFits ==
  ASSUME NEW size \in Nat, NEW chunk \in Nat, Ample(size, chunk), TypeOK, Shape,
         Calm(size, chunk), AtLastByte
  PROVE  payload_len \in Nat /\ 9 + payload_len <= size /\ building_buffer
<1>1. /\ InLoop /\ FrameSize = Len(built) + 1 /\ Len(Candidate) = FrameSize
      /\ Len(built) \in Nat
  BY CandidateComplete
<1>2. Len(Candidate) > 6
  BY DEF AtLastByte, PrefixLen
<1>3. FrameSize <= parsing_buff_current_size /\ building_buffer
  BY <1>1, <1>2 DEF Shape, BufferShape, PrefixLen, AtLastByte
<1>4. /\ payload_len \in Nat /\ parsing_buff_current_size \in Nat
      /\ FrameSize = 9 + payload_len /\ parsing_buff_current_size <= size
  BY <1>3 DEF TypeOK, ParserTypeOK, FrameSize, Overhead, Calm
<1> QED BY <1>3, <1>4

LEMMA InitCalm ==
  ASSUME NEW size \in Nat, NEW chunk \in Nat, Init
  PROVE  Calm(size, chunk)
<1>1. SizeOf(frame_queue) = 0 /\ SizeOf(held) = 0 /\ Len(frame_queue) = 0 /\ Len(held) = 0
  BY SizeEmpty DEF Init
<1>2. FrameQueueLen \in Nat
  BY CoreAssumption DEF CoreAssumption
<1> QED BY <1>1, <1>2 DEF Init, Calm, Reachable

\* So nothing the HAL may refuse is refused.
LEMMA CalmOutcomes ==
  ASSUME NEW size \in Nat, NEW chunk \in Nat, Ample(size, chunk), TypeOK, Shape,
         Calm(size, chunk), SizeExpected(size)
  PROVE  /\ \A n \in ChunkSizes : ~ParseDataRefused(n)
         /\ ~WriteThroughNull /\ ~ExtendFails /\ ~FrameAllocFails
         /\ AtLengthByte => Overhead + PayloadLen(Candidate) \in Nat
                              /\ Overhead + PayloadLen(Candidate) <= size
<1> DEFINE m   == currently_allocated_mem
           buf == BufferBytes(building_buffer, parsing_buff_current_size)
<1>a. /\ data_saving_buff_size \in Nat /\ SizeOf(frame_queue) \in Nat
      /\ SizeOf(held) \in Nat /\ Elsewhere \in Nat /\ buf \in Nat /\ m \in Int
      /\ m = buf + Elsewhere
  BY ReachableParts DEF Calm
<1>b. /\ MAX_TOTAL_ALLOC \in Nat /\ MAX_SINGLE_ALLOC \in Nat /\ MAX_PARSER_BUFFER_SIZE \in Nat
      /\ size <= MAX_SINGLE_ALLOC /\ size <= MAX_PARSER_BUFFER_SIZE
      /\ chunk <= MAX_SINGLE_ALLOC /\ size >= 9
      /\ Elsewhere + 2 * size + chunk + (size - 7) <= MAX_TOTAL_ALLOC
  BY AmpleBudget
<1>g. buf <= size
  BY <1>b DEF buf, BufferBytes, Calm
<1>h. fault # "null_write" /\ (building_buffer <=> pc # "off")
  BY DEF Calm
<1> HIDE DEF m, buf
<1>4. ASSUME NEW n \in ChunkSizes PROVE ~ParseDataRefused(n)
  <2>1. n \in Nat /\ n <= chunk
    BY CoreAssumption DEF CoreAssumption, Ample
  <2>2. n <= MAX_SINGLE_ALLOC /\ m + n <= MAX_TOTAL_ALLOC
    BY <1>a, <1>b, <1>g, <2>1
  <2>3. HalMalloc(m, n) = {TRUE}
    BY <2>2, CalmCalls
  <2> QED BY <2>3 DEF ParseDataRefused, m
<1>7. ~WriteThroughNull
  BY <1>h DEF WriteThroughNull, InLoop
<1>s. AtLengthByte => Overhead + PayloadLen(Candidate) \in Nat
                        /\ Overhead + PayloadLen(Candidate) <= size
  <2> SUFFICES ASSUME AtLengthByte
               PROVE  Overhead + PayloadLen(Candidate) \in Nat
                        /\ Overhead + PayloadLen(Candidate) <= size
    OBVIOUS
  <2>1. InLoop /\ Len(Candidate) >= PrefixLen
    BY DEF AtLengthByte, PrefixLen
  <2>2. Candidate \in Seq(Byte)
    BY <2>1, CandidateType
  <2>3. PayloadLen(Candidate) \in Nat
    BY <2>1, <2>2, PayloadLenType
  <2> QED BY <2>3 DEF Overhead, SizeExpected
<1>12. ~ExtendFails
  <2> SUFFICES ASSUME ExtendFails PROVE FALSE
    OBVIOUS
  <2> DEFINE n == Overhead + PayloadLen(Candidate)
  <2>1. n \in Nat /\ n <= size
    BY <1>s DEF ExtendFails
  <2>2. n > MAX_PARSER_BUFFER_SIZE \/ FALSE \in HalMalloc(m, n)
    BY DEF ExtendFails, m
  <2> HIDE DEF n
  <2>3. n <= MAX_SINGLE_ALLOC /\ m + n <= MAX_TOTAL_ALLOC
    BY <1>a, <1>b, <1>g, <2>1
  <2>4. HalMalloc(m, n) = {TRUE}
    BY <2>3, CalmCalls
  <2> QED BY <1>b, <2>1, <2>2, <2>4
<1>14. ~FrameAllocFails
  <2> SUFFICES ASSUME FrameAllocFails PROVE FALSE
    OBVIOUS
  <2>1. AtLastByte /\ FALSE \in HalMalloc(m, 2 + payload_len)
    BY DEF FrameAllocFails, AtGoodFrame, m
  <2>2. payload_len \in Nat /\ 9 + payload_len <= size
    BY <2>1, CompleteFits
  <2> DEFINE n == 2 + payload_len
  <2>3. n <= MAX_SINGLE_ALLOC /\ m + n <= MAX_TOTAL_ALLOC
    BY <1>a, <1>b, <1>g, <2>2
  <2> HIDE DEF n
  <2>4. HalMalloc(m, n) = {TRUE}
    BY <2>3, CalmCalls
  <2> QED BY <2>1, <2>4 DEF n
<1> QED BY <1>4, <1>7, <1>s, <1>12, <1>14

LEMMA NextCalm ==
  ASSUME NEW size \in Nat, NEW chunk \in Nat, Ample(size, chunk), TypeOK, TypeOK', Shape,
         Calm(size, chunk), SizeExpected(size), [Next]_vars
  PROVE  Calm(size, chunk)'
<1> DEFINE m   == currently_allocated_mem
           buf == BufferBytes(building_buffer, parsing_buff_current_size)
           buf2 == BufferBytes(building_buffer', parsing_buff_current_size')
<1>a. /\ data_saving_buff_size \in Nat /\ SizeOf(frame_queue) \in Nat
      /\ SizeOf(held) \in Nat /\ Elsewhere \in Nat /\ buf \in Nat /\ m \in Int
      /\ m = buf + Elsewhere
  BY ReachableParts DEF Calm
<1>b. /\ MAX_TOTAL_ALLOC \in Nat /\ MAX_SINGLE_ALLOC \in Nat /\ MAX_PARSER_BUFFER_SIZE \in Nat
      /\ size <= MAX_SINGLE_ALLOC /\ size <= MAX_PARSER_BUFFER_SIZE
      /\ chunk <= MAX_SINGLE_ALLOC /\ size >= 9
      /\ Elsewhere + 2 * size + chunk + (size - 7) <= MAX_TOTAL_ALLOC
  BY AmpleBudget
<1>c. Elsewhere = data_saving_buff_size + SizeOf(frame_queue) + SizeOf(held)
  BY DEF Elsewhere
<1>d. Elsewhere' = data_saving_buff_size' + SizeOf(frame_queue') + SizeOf(held')
  BY DEF Elsewhere, SizeOf
<1>e. Reachable' = buf2 + Elsewhere'
  BY ReachableNext
<1>f. /\ building_buffer \in BOOLEAN /\ parsing_buff_current_size \in Nat
      /\ frame_queue \in Frames /\ held \in Frames /\ big_frames_count \in Nat
  BY DEF TypeOK, ParserTypeOK, HalTypeOK
<1>g. buf <= size
  BY <1>b DEF buf, BufferBytes, Calm
<1>h. fault # "null_write" /\ (building_buffer <=> pc # "off")
  BY DEF Calm
<1> HIDE DEF m, buf, buf2
<1>1. CASE CoreInit
  BY <1>1, CalmRestart DEF CoreInit, queueVars
<1>2. CASE CoreStop
  <2>1. PICK r \in HalFree(m, building_buffer, parsing_buff_current_size) :
          m' \in HalFree(r, data_saving_buff_size > 0, data_saving_buff_size)
    BY <1>2 DEF CoreStop, m
  <2>2. building_buffer /\ buf = parsing_buff_current_size
    BY <1>2, <1>h DEF CoreStop, buf, BufferBytes
  <2>3. r = Elsewhere
    <3>1. HalFree(m, building_buffer, parsing_buff_current_size)
            = {m - parsing_buff_current_size}
      BY <2>2, CalmCalls, Zenon
    <3>2. r = m - parsing_buff_current_size
      BY <2>1, <3>1
    <3> QED BY <1>a, <2>2, <3>2
  <2>4. m' = Elsewhere - data_saving_buff_size
    <3>1. CASE data_saving_buff_size > 0
      <4>1. HalFree(r, data_saving_buff_size > 0, data_saving_buff_size)
              = {r - data_saving_buff_size}
        BY <3>1, CalmCalls, Zenon
      <4> QED BY <2>1, <2>3, <4>1
    <3>2. CASE ~(data_saving_buff_size > 0)
      <4>1. m' = r
        BY <2>1, <3>2 DEF HalFree
      <4> QED BY <1>a, <2>3, <3>2, <4>1
    <3> QED BY <3>1, <3>2
  <2>5. /\ building_buffer' = FALSE /\ data_saving_buff_size' = 0 /\ pc' = "off"
        /\ UNCHANGED <<frame_queue, held, fault>> /\ big_frames_count' = 0
    BY <1>2 DEF CoreStop, queueVars
  <2>6. buf2 = 0 /\ m' = Reachable'
    BY <1>a, <1>c, <1>d, <1>e, <2>4, <2>5 DEF buf2, BufferBytes
  <2> QED BY <1>h, <2>5, <2>6 DEF Calm, m
<1>3. ASSUME NEW n \in ChunkSizes, ParseData(n) PROVE Calm(size, chunk)'
  <2>1. n \in Nat /\ n <= chunk
    BY CoreAssumption DEF CoreAssumption, Ample
  <2>2. /\ UNCHANGED <<building_buffer, parsing_buff_current_size, frame_queue, held, fault>>
        /\ pc = "idle" /\ pc' = "parse"
    BY <1>3 DEF ParseData, StartParsing, buildVars, queueVars
  <2>3. CASE UNCHANGED <<data_saving_buff_size, currently_allocated_mem>>
    BY <1>h, <2>2, <2>3, CalmSame
  <2>4. CASE /\ m' \in Replaced(m, data_saving_buff_size > 0, data_saving_buff_size, n)
             /\ data_saving_buff_size' = n
    <3>1. m' = m + n - data_saving_buff_size
      <4>1. m' \in HalFree(m + n, data_saving_buff_size > 0, data_saving_buff_size)
        BY <2>4 DEF Replaced, Charged
      <4>2. CASE data_saving_buff_size > 0
        <5> DEFINE both == m + n
        <5> HIDE DEF both
        <5>1. HalFree(both, data_saving_buff_size > 0, data_saving_buff_size)
                = {both - data_saving_buff_size}
          BY <4>2, CalmCalls, Zenon
        <5> QED BY <1>a, <2>1, <4>1, <5>1 DEF both
      <4>3. CASE ~(data_saving_buff_size > 0)
        <5>1. m' = m + n
          BY <4>1, <4>3 DEF HalFree
        <5> QED BY <1>a, <2>1, <4>3, <5>1
      <4> QED BY <4>2, <4>3
    <3>2. buf2 = buf
      BY <2>2 DEF buf, buf2
    <3>3. m' = Reachable'
      BY <1>a, <1>c, <1>d, <1>e, <2>1, <2>2, <2>4, <3>1, <3>2
    <3> QED BY <1>h, <2>1, <2>2, <2>4, <3>3 DEF Calm, m
  <2> QED BY <1>3, <2>3, <2>4 DEF ParseData, m
<1>4. /\ \A n \in ChunkSizes : ~ParseDataRefused(n)
      /\ ~WriteThroughNull /\ ~ExtendFails /\ ~FrameAllocFails
  BY CalmOutcomes
<1>5. CASE SkipByte
  BY <1>5, <1>h, CalmSame DEF SkipByte, SameOutside, buildVars, InLoop
<1>6. CASE FindHeader1
  BY <1>6, <1>h, CalmSame DEF FindHeader1, SameOutside, NoMemoryChange, InLoop
<1>8. CASE FindHeader2
  BY <1>8, <1>h, CalmSame DEF FindHeader2, SameOutside, NoMemoryChange, InLoop
<1>9. CASE DropHeader1
  BY <1>9, CalmRestart DEF DropHeader1, SameOutside, InLoop
<1>10. CASE StoreByte
  BY <1>10, <1>h, CalmSame DEF StoreByte, SameOutside, NoMemoryChange, InLoop
<1>s. AtLengthByte => Overhead + PayloadLen(Candidate) \in Nat
                        /\ Overhead + PayloadLen(Candidate) <= size
  BY CalmOutcomes
<1>11. CASE StoreLength
  <2> DEFINE n == Overhead + PayloadLen(Candidate)
  <2>1. n \in Nat /\ n <= size /\ pc # "off" /\ pc' = pc
    BY <1>s, <1>11 DEF StoreLength, AtLengthByte, InLoop
  <2>2. UNCHANGED <<building_buffer, data_saving_buff_size, frame_queue, held, fault>>
    BY <1>11 DEF StoreLength, SameOutside
  <2>3. \/ UNCHANGED <<parsing_buff_current_size, currently_allocated_mem>>
        \/ /\ m' \in Replaced(m, building_buffer, parsing_buff_current_size, n)
           /\ parsing_buff_current_size' = n
    BY <1>11 DEF StoreLength, m
  <2> HIDE DEF n
  <2>4. CASE UNCHANGED <<parsing_buff_current_size, currently_allocated_mem>>
    BY <1>h, <2>1, <2>2, <2>4, CalmSame
  <2>5. CASE /\ m' \in Replaced(m, building_buffer, parsing_buff_current_size, n)
             /\ parsing_buff_current_size' = n
    <3>1. building_buffer /\ building_buffer'
      BY <1>h, <2>1, <2>2
    <3>2. m' = m + n - parsing_buff_current_size
      <4> DEFINE both == m + n
      <4>1. m' \in HalFree(both, building_buffer, parsing_buff_current_size)
        BY <2>5 DEF Replaced, Charged
      <4> HIDE DEF both
      <4>2. HalFree(both, building_buffer, parsing_buff_current_size)
              = {both - parsing_buff_current_size}
        BY <3>1, CalmCalls, Zenon
      <4> QED BY <1>a, <1>f, <2>1, <4>1, <4>2 DEF both
    <3>3. buf = parsing_buff_current_size /\ buf2 = n
      BY <2>5, <3>1 DEF buf, buf2, BufferBytes
    <3>4. Elsewhere' = Elsewhere
      BY <1>c, <1>d, <2>2
    <3>5. m' = Reachable'
      BY <1>a, <1>e, <1>f, <2>1, <3>2, <3>3, <3>4
    <3> QED BY <1>h, <2>1, <2>2, <2>5, <3>1, <3>5 DEF Calm, m
  <2> QED BY <2>3, <2>4, <2>5
<1>13. CASE RejectFrame
  BY <1>13, CalmRestart DEF RejectFrame, SameOutside, AtLastByte, InLoop
<1>15. CASE SaveFrame
  <2> DEFINE n == 2 + payload_len
             data == SemanticData(Candidate)
  <2>1. /\ RestartParser(building_buffer, big_frames_count, m + n)
        /\ frame_queue' = Append(frame_queue, data) /\ Len(frame_queue) < FrameQueueLen
        /\ UNCHANGED <<data_saving_buff_size, held, fault>> /\ pc' # "off"
    BY <1>15 DEF SaveFrame, SameOutside, Charged, m, AtGoodFrame, AtLastByte, InLoop
  <2>2. data \in Seq(Byte) /\ Len(data) = n /\ n \in Nat /\ n <= size - 7
    BY <1>15, SavedSize, CompleteFits DEF SaveFrame, AtGoodFrame
  <2> HIDE DEF n, data
  <2>4. SizeOf(frame_queue') = SizeOf(frame_queue) + n
    BY <1>f, <2>1, <2>2, SizeAppend
  <2>5. /\ m + n \in Int /\ Elsewhere + n \in Nat
        /\ Elsewhere + n + size <= MAX_TOTAL_ALLOC
        /\ m + n = buf + (Elsewhere + n)
    BY <1>a, <1>b, <2>2
  <2>6. /\ building_buffer' = TRUE /\ parsing_buff_current_size' \in Nat
        /\ parsing_buff_current_size' <= size
        /\ m' = parsing_buff_current_size' + (Elsewhere + n)
    BY <2>1, <2>5, RestartCalm DEF buf, m
  <2>3. data_saving_buff_size' = data_saving_buff_size /\ SizeOf(held') = SizeOf(held)
    BY <2>1
  <2>7. Elsewhere' = Elsewhere + n
    BY ONLY <1>a, <1>c, <1>d, <2>2, <2>3, <2>4, SMTT(20)
  <2>8. m' = Reachable'
    BY <1>e, <2>6, <2>7 DEF buf2, BufferBytes
  <2>9. /\ Len(frame_queue') <= FrameQueueLen
        /\ \A k \in 1 .. Len(frame_queue') : Len(frame_queue'[k]) <= size - 7
    <3>1. frame_queue \in Seq(Seq(Byte)) /\ FrameQueueLen \in Nat
      BY <1>f, CoreAssumption DEF Frames, CoreAssumption
    <3>2. /\ Len(frame_queue') = Len(frame_queue) + 1
          /\ frame_queue'[Len(frame_queue) + 1] = data
          /\ \A k \in 1 .. Len(frame_queue) : frame_queue'[k] = frame_queue[k]
      BY <2>1, <2>2, <3>1, AppendProperties
    <3>3. ASSUME NEW k \in 1 .. Len(frame_queue') PROVE Len(frame_queue'[k]) <= size - 7
      <4>1. CASE k = Len(frame_queue) + 1
        BY <2>2, <3>2, <4>1
      <4>2. CASE k \in 1 .. Len(frame_queue)
        BY <3>2, <4>2 DEF Calm
      <4> QED BY <3>1, <3>2, <4>1, <4>2
    <3> QED BY <2>1, <3>1, <3>2, <3>3
  <2> QED BY <1>h, <2>1, <2>6, <2>8, <2>9 DEF Calm, m
<1>16. CASE SaveFails
  BY <1>16, <1>h, CalmSame
     DEF SaveFails, SameOutside, buildVars, AtGoodFrame, AtLastByte, InLoop
<1>17. CASE EndOfChunk
  BY <1>17, <1>h, CalmSame DEF EndOfChunk, buildVars, queueVars
<1>18. CASE GetFrame
  <2>1. /\ frame_queue # <<>> /\ held = <<>> /\ held' = <<Head(frame_queue)>>
        /\ frame_queue' = Tail(frame_queue)
        /\ UNCHANGED <<building_buffer, parsing_buff_current_size, data_saving_buff_size,
                       currently_allocated_mem, fault, pc, big_frames_count>>
    BY <1>18 DEF GetFrame, buildVars
  <2>a. frame_queue \in Seq(Seq(Byte)) /\ FrameQueueLen \in Nat
    BY <1>f, CoreAssumption DEF Frames, CoreAssumption
  <2>b. /\ Head(frame_queue) \in Seq(Byte) /\ Head(frame_queue) = frame_queue[1]
        /\ Len(frame_queue') = Len(frame_queue) - 1 /\ Len(frame_queue) \in Nat
        /\ Len(frame_queue) >= 1
        /\ \A k \in 1 .. Len(frame_queue') : frame_queue'[k] = frame_queue[k + 1]
    BY <2>1, <2>a, HeadTailProperties
  <2>3. SizeOf(frame_queue) = Len(Head(frame_queue)) + SizeOf(frame_queue')
    BY <1>f, <2>1, SizeTail
  <2>4. SizeOf(held) = 0 /\ SizeOf(held') = Len(Head(frame_queue))
    BY <2>1, <2>b, SizeEmpty, SizeOne
  <2>5. /\ SizeOf(frame_queue') \in Nat /\ Len(Head(frame_queue)) \in Nat
        /\ data_saving_buff_size' = data_saving_buff_size
    BY <2>1, <2>b, SizeType DEF TypeOK, HalTypeOK
  <2>6. Elsewhere' = Elsewhere
    BY ONLY <1>a, <1>c, <1>d, <2>3, <2>4, <2>5, SMTT(20)
  <2>7. buf2 = buf /\ m' = m
    BY <2>1 DEF buf, buf2, m
  <2>8. /\ Len(frame_queue') <= FrameQueueLen
        /\ \A k \in 1 .. Len(frame_queue') : Len(frame_queue'[k]) <= size - 7
    <3>1. ASSUME NEW k \in 1 .. Len(frame_queue') PROVE Len(frame_queue'[k]) <= size - 7
      <4>1. k + 1 \in 1 .. Len(frame_queue)
        BY <2>b
      <4> QED BY <2>b, <4>1 DEF Calm
    <3> QED BY <2>a, <2>b, <3>1 DEF Calm
  <2>9. /\ Len(held') <= 1
        /\ \A k \in 1 .. Len(held') : Len(held'[k]) <= size - 7
    <3>1. Len(held') = 1 /\ held'[1] = frame_queue[1] /\ 1 \in 1 .. Len(frame_queue)
      BY <2>1, <2>b
    <3>2. Len(frame_queue[1]) <= size - 7
      BY <3>1 DEF Calm
    <3> QED BY <3>1, <3>2
  <2>10. m' = Reachable'
    BY <1>a, <1>e, <2>6, <2>7
  <2> QED BY <1>h, <2>1, <2>8, <2>9, <2>10 DEF Calm, m
<1>19. CASE ReleaseFrame
  <2> DEFINE n == Len(Head(held))
  <2>1. /\ held # <<>> /\ held' = <<>> /\ m' \in HalFree(m, TRUE, n)
        /\ UNCHANGED <<building_buffer, parsing_buff_current_size, data_saving_buff_size,
                       frame_queue, fault, pc, big_frames_count>>
    BY <1>19 DEF ReleaseFrame, buildVars, m
  <2>2. n \in Nat /\ SizeOf(held) = n
    <3>1. held \in Seq(Seq(Byte)) /\ Len(held) \in Nat /\ Len(held) <= 1
      BY <1>f DEF Frames, Calm
    <3>2. Len(held) = 1
      <4>1. Len(held) # 0
        BY ONLY <2>1, <3>1, EmptySeq
      <4>2. \A l \in Nat : l <= 1 /\ l # 0 => l = 1
        OBVIOUS
      <4> QED BY <3>1, <4>1, <4>2, Zenon
    <3>3. Head(held) \in Seq(Byte) /\ Tail(held) = <<>>
      BY <3>1, <3>2, Singleton
    <3>4. SizeOf(held) = n + SizeOf(<<>>)
      BY <1>f, <2>1, <3>3, SizeTail
    <3> QED BY <3>3, <3>4, SizeEmpty
  <2> HIDE DEF n
  <2>3. SizeOf(held') = 0 /\ Len(held') = 0
    BY <2>1, SizeEmpty
  <2>4. m' = m - n
    BY <2>1, CalmCalls
  <2>5. /\ buf2 = buf /\ data_saving_buff_size' = data_saving_buff_size
        /\ SizeOf(frame_queue') = SizeOf(frame_queue)
    BY <2>1 DEF buf, buf2
  <2>6. m' = Reachable'
    <3>1. Elsewhere' = Elsewhere - n
      BY <1>a, <1>c, <1>d, <2>2, <2>3, <2>5, SMTT(20)
    <3> QED BY <1>a, <1>e, <2>2, <2>4, <2>5, <3>1
  <2> QED BY <1>h, <2>1, <2>3, <2>6 DEF Calm, m
<1>20. CASE UNCHANGED vars
  <2>1. Reachable' = Reachable
    BY <1>20 DEF vars, Reachable, SizeOf
  <2> QED BY <1>20, <2>1 DEF vars, Calm
<1> QED BY <1>1, <1>2, <1>3, <1>4, <1>5, <1>6, <1>8, <1>9, <1>10, <1>11,
           <1>13, <1>15, <1>16, <1>17, <1>18, <1>19, <1>20
        DEF Next, ProcessData, Decoder

-----------------------------------------------------------------------------
(* The frame under construction on the wire.                                *)

\* Nothing of the stream has been lost.
LineKept == wire \in Streams /\ seen = SubSeq(wire, 1, next)

\* The place of the first byte of the construction, or of the next one to come.
Start == Pos - Len(built) + 1

\* A prefix of a stream.
LEMMA PrefixOf ==
  ASSUME NEW w \in Seq(Byte), NEW k \in 0 .. Len(w)
  PROVE  /\ SubSeq(w, 1, k) \in Seq(Byte) /\ Len(SubSeq(w, 1, k)) = k
         /\ \A j \in 1 .. k : SubSeq(w, 1, k)[j] = w[j]
OBVIOUS

LEMMA NextLine ==
  ASSUME TypeOK, LineKept, [Next]_vars, \A n \in ChunkSizes : ~ParseDataRefused(n)
  PROVE  LineKept' /\ wire' = wire /\ next' >= next
<1>1. wire \in Seq(Byte) /\ next \in 0 .. Len(wire) /\ next \in Int /\ Len(wire) \in Nat
  BY DEF TypeOK, LineTypeOK
<1>2. ASSUME NEW n \in ChunkSizes, ParseData(n)
      PROVE  LineKept' /\ wire' = wire /\ next' >= next
  <2>1. n \in Nat
    BY CoreAssumption DEF CoreAssumption
  <2>2. /\ next + n <= Len(wire) /\ wire' = wire /\ next' = next + n
        /\ seen' = SubSeq(wire, 1, next) \o SubSeq(wire, next + 1, next + n)
    BY <1>2 DEF ParseData, StartParsing, LineKept
  <2>3. SubSeq(wire, 1, next) \o SubSeq(wire, next + 1, next + n) = SubSeq(wire, 1, next + n)
    <3>1. 1 \in 1 .. Len(wire) + 1 /\ next \in 1 - 1 .. Len(wire) /\ next + n \in next .. Len(wire)
      BY <1>1, <2>1, <2>2
    <3> QED BY <1>1, <3>1, ConcatAdjacentSubSeq
  <2>4. next' >= next
    BY <1>1, <2>1, <2>2
  <2> QED BY <2>2, <2>3, <2>4, Zenon DEF LineKept
<1>3. ASSUME UNCHANGED lineVars PROVE LineKept' /\ wire' = wire /\ next' >= next
  BY <1>1, <1>3 DEF lineVars, LineKept
<1>4. CoreInit \/ CoreStop \/ Decoder \/ UNCHANGED vars => UNCHANGED lineVars
  BY DEF CoreInit, CoreStop, Decoder, GetFrame, ReleaseFrame, lineVars, vars
<1>5. ProcessData => UNCHANGED lineVars
  BY DEF ProcessData, SkipByte, FindHeader1, WriteThroughNull, FindHeader2, DropHeader1,
         StoreByte, StoreLength, ExtendFails, RejectFrame, FrameAllocFails, SaveFrame,
         SaveFails, EndOfChunk, SameOutside
<1> QED BY <1>2, <1>3, <1>4, <1>5 DEF Next

\* What has been built stands on the wire at Start.
LEMMA BuiltOnWire ==
  ASSUME TypeOK, BuiltIsWindow, LineKept
  PROVE  /\ Pos \in Nat /\ Len(built) \in Nat /\ Start \in Nat /\ Start >= 1
         /\ Start + Len(built) = Pos + 1 /\ Pos <= next
         /\ next \in Nat /\ Len(wire) \in Nat /\ next <= Len(wire) /\ Len(seen) = next
         /\ \A j \in 1 .. Len(built) : built[j] = wire[Start + j - 1]
<1>1. /\ wire \in Seq(Byte) /\ next \in 0 .. Len(wire) /\ next \in Nat /\ Len(wire) \in Nat
      /\ Len(built) \in Nat /\ chunk_len \in Nat /\ i \in Int /\ i <= chunk_len
  BY DEF TypeOK, LineTypeOK, ParserTypeOK
<1>2. Len(seen) = next /\ \A j \in 1 .. next : seen[j] = wire[j]
  BY <1>1, PrefixOf DEF LineKept
<1>3. Len(built) <= Pos
  BY DEF BuiltIsWindow
<1>4. Pos = next - chunk_len + i
  BY <1>2 DEF Pos
<1>5. Pos \in Nat /\ Pos <= next
  BY <1>1, <1>3, <1>4
<1>6. Start = Pos - Len(built) + 1
  BY DEF Start
<1>7. ASSUME NEW j \in 1 .. Len(built) PROVE built[j] = wire[Start + j - 1]
  <2>1. Start + j - 1 = Pos - Len(built) + j /\ Start + j - 1 \in 1 .. next
    BY <1>1, <1>3, <1>5, <1>6
  <2>2. built[j] = seen[Pos - Len(built) + j]
    BY DEF BuiltIsWindow
  <2> QED BY <1>2, <2>1, <2>2
<1> QED BY <1>1, <1>2, <1>3, <1>5, <1>6, <1>7

\* And so does the candidate.
LEMMA CandidateOnWire ==
  ASSUME TypeOK, BuiltIsWindow, LineKept, InLoop
  PROVE  /\ Pos + 1 <= next /\ CurrentByte = wire[Pos + 1]
         /\ \A j \in 1 .. Len(built) + 1 : Candidate[j] = wire[Start + j - 1]
         /\ Candidate = SubSeq(wire, Start, Pos + 1)
<1>1. /\ Pos \in Nat /\ Len(built) \in Nat /\ Start \in Nat /\ Start >= 1
      /\ Start + Len(built) = Pos + 1 /\ Pos <= next
      /\ next \in Nat /\ Len(wire) \in Nat /\ next <= Len(wire) /\ Len(seen) = next
      /\ \A j \in 1 .. Len(built) : built[j] = wire[Start + j - 1]
  BY BuiltOnWire
<1>2. wire \in Seq(Byte) /\ seen \in Seq(Byte)
  BY DEF TypeOK, LineTypeOK
<1>3. \A j \in 1 .. next : seen[j] = wire[j]
  BY <1>1, <1>2, PrefixOf DEF LineKept
<1>4. Pos + 1 <= next
  BY <1>1, CandidateIsWindow
<1>5. CurrentByte = wire[Pos + 1]
  BY <1>1, <1>3, <1>4 DEF CurrentByte
<1>6. ASSUME NEW j \in 1 .. Len(built) + 1 PROVE Candidate[j] = wire[Start + j - 1]
  <2>1. CASE j = Len(built) + 1
    <3>1. Start + j - 1 = Pos + 1
      BY <1>1, <2>1
    <3>2. Candidate[j] = CurrentByte
      BY <2>1, CandidateType
    <3> QED BY <1>5, <3>1, <3>2
  <2>2. CASE j \in 1 .. Len(built)
    BY <1>1, <2>2, CandidateType
  <2> QED BY <1>1, <2>1, <2>2
<1>7. Candidate = SubSeq(wire, Start, Pos + 1)
  <2>1. Candidate = SubSeq(seen, Start, Pos + 1)
    BY CandidateIsWindow DEF Start
  <2>2. SubSeq(wire, Start, Pos + 1) = SubSeq(seen, Start, Pos + 1)
    <3>1. Start \in Int /\ Pos + 1 \in Int /\ 1 <= Start /\ Pos + 1 <= Len(seen)
          /\ Len(wire) >= Len(seen)
      BY <1>1, <1>4
    <3> QED BY <1>1, <1>2, <1>3, <3>1, StretchStays
  <2> QED BY <2>1, <2>2
<1> QED BY <1>4, <1>5, <1>6, <1>7

\* A header that has been found stands on the wire.
LEMMA HeaderOnWire ==
  ASSUME TypeOK, Shape, BuiltIsWindow, LineKept, head2
  PROVE  /\ HeaderAt(wire, Start) /\ Start \in 1 .. Len(wire) - 1
         /\ Len(built) >= PrefixLen =>
              FrameSize = AnnouncedSize(wire, Start) /\ AnnouncedSize(wire, Start) \in Nat
<1>1. /\ Pos \in Nat /\ Len(built) \in Nat /\ Start \in Nat /\ Start >= 1
      /\ Start + Len(built) = Pos + 1 /\ Pos <= next
      /\ next \in Nat /\ Len(wire) \in Nat /\ next <= Len(wire)
      /\ \A j \in 1 .. Len(built) : built[j] = wire[Start + j - 1]
  BY BuiltOnWire
<1>2. Len(built) >= 2
  BY DEF Shape, HeadShape
<1>3. built[1] = HEADER1 /\ built[2] = HEADER2
  BY <1>1, <1>2 DEF Shape, HeadShape
<1>4. HeaderAt(wire, Start)
  <2>1. 1 \in 1 .. Len(built) /\ 2 \in 1 .. Len(built) /\ Start + 1 - 1 = Start /\ Start + 2 - 1 = Start + 1
    BY <1>1, <1>2
  <2> QED BY <1>1, <1>3, <2>1 DEF HeaderAt
<1>5. Start \in 1 .. Len(wire) - 1
  BY <1>1, <1>2
<1>6. ASSUME Len(built) >= PrefixLen
      PROVE  FrameSize = AnnouncedSize(wire, Start) /\ AnnouncedSize(wire, Start) \in Nat
  <2>1. payload_len = PayloadLen(built) /\ payload_len \in Nat
    BY <1>6 DEF Shape, HeadShape, TypeOK, ParserTypeOK
  <2>2. 5 \in 1 .. Len(built) /\ 6 \in 1 .. Len(built) /\ Start + 5 - 1 = Start + 4
        /\ Start + 6 - 1 = Start + 5
    BY <1>1, <1>6 DEF PrefixLen
  <2>3. built[5] = wire[Start + 4] /\ built[6] = wire[Start + 5]
    BY <1>1, <2>2
  <2>4. AnnouncedSize(wire, Start) \in Nat
    <3>1. wire \in Seq(Byte) /\ Start + PrefixLen - 1 <= Len(wire)
      BY <1>1, <1>6 DEF TypeOK, LineTypeOK, PrefixLen
    <3> QED BY <1>1, <3>1, AnnouncedType
  <2>5. Overhead + payload_len = AnnouncedSize(wire, Start)
    <3>1. built[5] \in Byte /\ built[6] \in Byte
      BY <2>2 DEF TypeOK, ParserTypeOK
    <3>2. \A b \in Byte : b \in Nat
      BY DEF Byte
    <3> QED BY <2>1, <2>3, <3>1, <3>2 DEF AnnouncedSize, PayloadLen, Overhead
  <2> QED BY <2>4, <2>5 DEF FrameSize
<1> QED BY <1>4, <1>5, <1>6

\* At the second length byte the announced size can be read off the wire.
LEMMA LengthOnWire ==
  ASSUME TypeOK, Shape, BuiltIsWindow, LineKept, AtLengthByte
  PROVE  /\ head2 /\ HeaderAt(wire, Start) /\ Start \in 1 .. Len(wire) - (PrefixLen - 1)
         /\ Overhead + PayloadLen(Candidate) = AnnouncedSize(wire, Start)
<1>1. /\ Pos \in Nat /\ Len(built) \in Nat /\ Start \in Nat /\ Start >= 1
      /\ Start + Len(built) = Pos + 1 /\ next \in Nat /\ Len(wire) \in Nat /\ next <= Len(wire)
  BY BuiltOnWire
<1>2. InLoop /\ head2 /\ Len(Candidate) = 6
  BY DEF AtLengthByte, PrefixLen
<1>3. Len(built) = 5 /\ Candidate \in Seq(Byte)
  <2>1. Len(Candidate) = Len(built) + 1 /\ Candidate \in Seq(Byte)
    BY <1>2, CandidateType, Zenon
  <2>2. \A l \in Nat : l + 1 = 6 => l = 5
    OBVIOUS
  <2>3. Len(built) + 1 = 6
    BY <1>2, <2>1, Zenon
  <2> QED BY <1>1, <2>1, <2>2, <2>3, Zenon
<1>4. Pos + 1 <= next /\ \A j \in 1 .. Len(built) + 1 : Candidate[j] = wire[Start + j - 1]
  BY <1>2, CandidateOnWire
<1>5. Start \in 1 .. Len(wire) - (PrefixLen - 1)
  BY <1>1, <1>3, <1>4 DEF PrefixLen
<1>6. Candidate[5] = wire[Start + 4] /\ Candidate[6] = wire[Start + 5]
  <2>1. 5 \in 1 .. Len(built) + 1 /\ 6 \in 1 .. Len(built) + 1
        /\ Start + 5 - 1 = Start + 4 /\ Start + 6 - 1 = Start + 5
    BY <1>1, <1>3
  <2> QED BY <1>4, <2>1
<1>7. Overhead + PayloadLen(Candidate) = AnnouncedSize(wire, Start)
  <2>1. Candidate[5] \in Byte /\ Candidate[6] \in Byte
    <3>1. ASSUME NEW c \in Seq(Byte), Len(c) = 6 PROVE c[5] \in Byte /\ c[6] \in Byte
      <4>1. 5 \in 1 .. Len(c) /\ 6 \in 1 .. Len(c)
        BY <3>1
      <4> QED BY <4>1
    <3> QED BY <1>2, <1>3, <3>1, Zenon
  <2>2. \A b \in Byte : b \in Nat
    BY DEF Byte
  <2> QED BY <1>6, <2>1, <2>2 DEF AnnouncedSize, PayloadLen, Overhead
<1> QED BY <1>2, <1>5, <1>7, HeaderOnWire

\* In a modest stream no candidate announces more than size bytes.
LEMMA ModestSize ==
  ASSUME NEW size, TypeOK, Shape, BuiltIsWindow, LineKept, Modest(wire, size)
  PROVE  SizeExpected(size)
BY LengthOnWire DEF SizeExpected, Modest

-----------------------------------------------------------------------------
(* The parser in step with the scan.                                        *)

\* The largest candidate the parser takes.
ScanLimit == IF MAX_SINGLE_ALLOC < MAX_PARSER_BUFFER_SIZE
             THEN MAX_SINGLE_ALLOC ELSE MAX_PARSER_BUFFER_SIZE

\* Between two frames, or at the start of one.
Outside(starts, p) == \A q \in starts : ~(q < p /\ p < q + AnnouncedSize(wire, q))
Aligned(size) ==
  \E starts \in SUBSET (1 .. Len(wire)) :
    Undamaged(wire, starts, size) /\ Outside(starts, Start)

\* However much of the stream is looked at, its scan finds what has been handed over
\* and then what it finds from Start on.
ScanGoesOn ==
  \A k \in next .. Len(wire) :
    Scan(SubSeq(wire, 1, k), ScanLimit)[1] = saved \o Scan(SubSeq(wire, 1, k), ScanLimit)[Start]

\* The parser does not move back.
InStep(size) == i >= 0 /\ Aligned(size) /\ ScanGoesOn

\* So it is in the first cycle, until the parser is stopped.
FirstCycle(size) ==
  /\ cycles = 0 => pc = "off"
  /\ pc \in {"idle", "parse"} \/ cycles = 0 => InStep(size)

\* The frames of an undamaged stream.
LEMMA UndamagedFrame ==
  ASSUME NEW s \in Seq(Byte), NEW starts \in SUBSET (1 .. Len(s)), NEW size \in Nat,
         Undamaged(s, starts, size), NEW p \in starts
  PROVE  /\ p \in Nat /\ 1 <= p /\ p + 8 <= Len(s)
         /\ AnnouncedSize(s, p) \in Nat /\ AnnouncedSize(s, p) >= 9
         /\ AnnouncedSize(s, p) <= size /\ p + AnnouncedSize(s, p) - 1 <= Len(s)
         /\ IsFrame(SubSeq(s, p, p + AnnouncedSize(s, p) - 1))
         /\ HeaderAt(s, p)
<1>1. p \in Nat /\ 1 <= p /\ p + 8 <= Len(s)
  BY DEF Undamaged, Overhead
<1>2. AnnouncedSize(s, p) \in Nat /\ AnnouncedSize(s, p) >= 9
  <2>1. p + PrefixLen - 1 <= Len(s)
    BY <1>1 DEF PrefixLen
  <2> QED BY <1>1, <2>1, AnnouncedType DEF Overhead
<1>3. /\ AnnouncedSize(s, p) <= size /\ p + AnnouncedSize(s, p) - 1 <= Len(s)
      /\ IsFrame(SubSeq(s, p, p + AnnouncedSize(s, p) - 1))
  BY DEF Undamaged
<1> DEFINE e == p + AnnouncedSize(s, p) - 1
           f == SubSeq(s, p, e)
<1>4. f[1] = s[p] /\ f[2] = s[p + 1]
  <2>1. e \in Nat /\ p <= e /\ e <= Len(s) /\ 1 \in 1 .. e - p + 1 /\ 2 \in 1 .. e - p + 1
        /\ p + 1 - 1 = p /\ p + 2 - 1 = p + 1
    BY <1>1, <1>2, <1>3
  <2> HIDE DEF e
  <2>2. \A j \in 1 .. e - p + 1 : f[j] = s[p + j - 1]
    BY <1>1, <2>1, Stretch
  <2> HIDE DEF f
  <2> QED BY <2>1, <2>2
<1>5. f[1] = HEADER1 /\ f[2] = HEADER2
  BY <1>3 DEF IsFrame
<1> QED BY <1>1, <1>2, <1>3, <1>4, <1>5 DEF HeaderAt

\* A header that has been found is the header of a frame.
LEMMA HeadIsStart ==
  ASSUME NEW size \in Nat, TypeOK, Shape, BuiltIsWindow, LineKept, head2,
         NEW starts \in SUBSET (1 .. Len(wire)), Undamaged(wire, starts, size),
         Outside(starts, Start)
  PROVE  Start \in starts
<1>1. HeaderAt(wire, Start) /\ Start \in 1 .. Len(wire) - 1
  BY HeaderOnWire
<1>2. PICK p \in starts : p <= Start /\ Start < p + AnnouncedSize(wire, p)
  BY <1>1 DEF Undamaged
<1>3. ~(p < Start)
  BY <1>2 DEF Outside
<1>4. p = Start
  BY <1>1, <1>2, <1>3
<1> QED BY <1>4

LEMMA AlignedSize ==
  ASSUME NEW size \in Nat, TypeOK, Shape, BuiltIsWindow, LineKept, Aligned(size)
  PROVE  SizeExpected(size)
<1> SUFFICES ASSUME AtLengthByte PROVE Overhead + PayloadLen(Candidate) <= size
  BY DEF SizeExpected
<1>1. head2 /\ Overhead + PayloadLen(Candidate) = AnnouncedSize(wire, Start)
  BY LengthOnWire
<1>2. PICK starts \in SUBSET (1 .. Len(wire)) :
        Undamaged(wire, starts, size) /\ Outside(starts, Start)
  BY DEF Aligned
<1>3. Start \in starts
  BY <1>1, <1>2, HeadIsStart
<1> QED BY <1>1, <1>2, <1>3 DEF Undamaged

\* A complete candidate is a frame.
LEMMA AlignedFrame ==
  ASSUME NEW size \in Nat, TypeOK, Shape, BuiltIsWindow, LineKept, Aligned(size), AtLastByte
  PROVE  /\ FrameSize = AnnouncedSize(wire, Start) /\ FrameSize \in Nat
         /\ Start + FrameSize = Pos + 2
         /\ Candidate = SubSeq(wire, Start, Start + FrameSize - 1)
         /\ IsFrame(Candidate) /\ HeaderAt(wire, Start)
<1>1. PICK starts \in SUBSET (1 .. Len(wire)) :
        Undamaged(wire, starts, size) /\ Outside(starts, Start)
  BY DEF Aligned
<1>2. InLoop /\ head2 /\ Len(Candidate) > 6
  BY DEF AtLastByte, PrefixLen
<1>3. Pos \in Int /\ Len(built) \in Nat /\ FrameSize \in Nat /\ FrameSize = Len(built) + 1
      /\ Len(Candidate) = FrameSize
  BY CandidateComplete
<1>4. Len(built) >= PrefixLen
  BY <1>2, <1>3 DEF PrefixLen
<1>5. FrameSize = AnnouncedSize(wire, Start) /\ HeaderAt(wire, Start)
  BY <1>2, <1>4, HeaderOnWire
<1>6. Start \in starts
  BY <1>1, <1>2, HeadIsStart
<1>7. Start + FrameSize = Pos + 2 /\ Start + FrameSize - 1 = Pos + 1
  BY <1>3 DEF Start
<1>8. Candidate = SubSeq(wire, Start, Pos + 1)
  BY <1>2, CandidateOnWire
<1>9. IsFrame(SubSeq(wire, Start, Start + AnnouncedSize(wire, Start) - 1))
  BY <1>1, <1>6 DEF Undamaged
<1> QED BY <1>3, <1>5, <1>7, <1>8, <1>9

\* The parser stays in step while it neither moves on nor hands over a frame,
LEMMA StayInStep ==
  ASSUME NEW size \in Nat, InStep(size), TypeOK, LineKept, next' >= next, next' \in Int,
         UNCHANGED <<wire, saved>>, Start' = Start, i' >= 0
  PROVE  InStep(size)'
<1>1. Aligned(size)'
  BY DEF InStep, Aligned, Outside
<1>2. next' .. Len(wire) \subseteq next .. Len(wire)
  BY DEF TypeOK, LineTypeOK
<1>3. ScanGoesOn'
  BY <1>2 DEF InStep, ScanGoesOn, ScanLimit
<1> QED BY <1>1, <1>3 DEF InStep

\* while it drops a byte at which no frame starts,
LEMMA SkipInStep ==
  ASSUME NEW size \in Nat, InStep(size), TypeOK, BuiltIsWindow, LineKept,
         UNCHANGED <<wire, next, saved>>, Start' = Start + 1, i' >= 0, Start <= next,
         wire[Start] # HEADER1 \/ (Start + 1 <= next /\ wire[Start + 1] # HEADER2)
  PROVE  InStep(size)'
<1>1. /\ Start \in Nat /\ Start >= 1 /\ next \in Nat /\ Len(wire) \in Nat /\ next <= Len(wire)
      /\ wire \in Seq(Byte)
  BY BuiltOnWire DEF TypeOK, LineTypeOK
<1>2. Aligned(size)'
  <2>1. PICK starts \in SUBSET (1 .. Len(wire)) :
          Undamaged(wire, starts, size) /\ Outside(starts, Start)
    BY DEF InStep, Aligned
  <2>2. ASSUME NEW q \in starts, q < Start + 1, Start + 1 < q + AnnouncedSize(wire, q)
        PROVE  FALSE
    <3>1. q \in Nat /\ AnnouncedSize(wire, q) \in Nat /\ HeaderAt(wire, q)
      BY <1>1, <2>1, UndamagedFrame
    <3>2. ~(q < Start /\ Start < q + AnnouncedSize(wire, q))
      BY <2>1 DEF Outside
    <3>3. q = Start
      BY <1>1, <2>2, <3>1, <3>2
    <3> QED BY <3>1, <3>3 DEF HeaderAt
  <2>3. Outside(starts, Start + 1)
    BY <2>2 DEF Outside
  <2>4. Undamaged(wire', starts, size) /\ Outside(starts, Start)'
    BY <2>1, <2>3 DEF Outside
  <2> QED BY <2>1, <2>4 DEF Aligned
<1>3. ASSUME NEW k \in next .. Len(wire)
      PROVE  Scan(SubSeq(wire, 1, k), ScanLimit)[1]
               = saved \o Scan(SubSeq(wire, 1, k), ScanLimit)[Start + 1]
  <2> DEFINE s == SubSeq(wire, 1, k)
  <2>1. k \in Nat /\ k \in 0 .. Len(wire) /\ next <= k
    BY <1>1
  <2>2. s \in Seq(Byte) /\ Len(s) = k /\ \A j \in 1 .. k : s[j] = wire[j]
    BY <1>1, <2>1, PrefixOf
  <2>3. Scan(s, ScanLimit)[1] = saved \o Scan(s, ScanLimit)[Start]
    BY DEF InStep, ScanGoesOn
  <2> HIDE DEF s
  <2>4. Start \in 1 .. Len(s)
    BY <1>1, <2>1, <2>2
  <2>5. s[Start] # HEADER1 \/ (Start + 1 <= Len(s) /\ s[Start + 1] # HEADER2)
    BY <1>1, <2>1, <2>2
  <2>6. ScanLimit \in Nat
    BY CoreAssumption DEF CoreAssumption, ScanLimit
  <2>7. Scan(s, ScanLimit)[Start] = Scan(s, ScanLimit)[Start + 1]
    BY <2>2, <2>4, <2>5, <2>6, ScanSkip
  <2> QED BY <2>3, <2>7 DEF s
<1>4. ScanGoesOn'
  BY <1>3 DEF ScanGoesOn, ScanLimit
<1> QED BY <1>2, <1>4 DEF InStep

\* and when it hands over a frame and goes on behind it.
LEMMA SaveInStep ==
  ASSUME NEW size \in Nat, size <= ScanLimit, InStep(size), TypeOK, Shape, BuiltIsWindow,
         LineKept, AtGoodFrame, FrameSize <= size,
         UNCHANGED <<wire, next>>, Start' = Pos + 2, i' >= 0,
         saved' = Append(saved, [first |-> Pos + 2 - FrameSize, last |-> Pos + 1,
                                 data |-> SemanticData(Candidate)])
  PROVE  InStep(size)'
<1>1. /\ Start \in Nat /\ Start >= 1 /\ next \in Nat /\ Len(wire) \in Nat /\ next <= Len(wire)
      /\ wire \in Seq(Byte) /\ Pos \in Nat
  BY BuiltOnWire DEF TypeOK, LineTypeOK
<1>2. AtLastByte /\ InLoop /\ Aligned(size)
  BY DEF AtGoodFrame, AtLastByte, InStep
<1>3. /\ FrameSize = AnnouncedSize(wire, Start) /\ FrameSize \in Nat
      /\ Start + FrameSize = Pos + 2
      /\ Candidate = SubSeq(wire, Start, Start + FrameSize - 1)
      /\ IsFrame(Candidate) /\ HeaderAt(wire, Start)
  BY <1>2, AlignedFrame
<1>4. Pos + 1 <= next
  BY <1>2, CandidateOnWire
<1>5. FrameSize >= 9
  <2>1. Len(Candidate) = FrameSize /\ Len(Candidate) >= Overhead
    BY <1>2, <1>3, CandidateComplete DEF IsFrame
  <2> QED BY <2>1 DEF Overhead
<1>n. /\ Start \in Nat /\ FrameSize \in Nat /\ Pos \in Nat /\ Start + FrameSize = Pos + 2
      /\ Start + FrameSize - 1 = Pos + 1 /\ Pos + 2 - FrameSize = Start
      /\ Start >= 1 /\ Start + FrameSize - 1 \in Nat
  <2>1. \A a \in Nat, b \in Nat, c \in Nat : a + b = c + 2 /\ a >= 1 =>
          a + b - 1 = c + 1 /\ c + 2 - b = a /\ a + b - 1 \in Nat
    OBVIOUS
  <2>2. Start \in Nat /\ FrameSize \in Nat /\ Pos \in Nat /\ Start + FrameSize = Pos + 2
    BY <1>1, <1>3, Zenon
  <2>3. Start >= 1
    BY <1>1, Zenon
  <2> QED BY ONLY <2>1, <2>2, <2>3
<1>6. Aligned(size)'
  <2>1. PICK starts \in SUBSET (1 .. Len(wire)) :
          Undamaged(wire, starts, size) /\ Outside(starts, Start)
    BY DEF InStep, Aligned
  <2>2. Start \in starts
    <3>1. head2
      BY <1>2 DEF AtLastByte
    <3> QED BY <2>1, <3>1, HeadIsStart
  <2>3. ASSUME NEW q \in starts, q < Pos + 2, Pos + 2 < q + AnnouncedSize(wire, q)
        PROVE  FALSE
    <3>1. q \in Nat /\ AnnouncedSize(wire, q) \in Nat
      BY <1>1, <2>1, UndamagedFrame
    <3>2. q < Start => q + AnnouncedSize(wire, q) <= Start
      BY <2>1, <2>2 DEF Undamaged
    <3>3. Start < q => Start + AnnouncedSize(wire, Start) <= q
      BY <2>1, <2>2 DEF Undamaged
    <3>4. q < Start \/ q = Start \/ Start < q
      BY <1>1, <3>1
    <3>5. q = Start => q + AnnouncedSize(wire, q) = Pos + 2
      BY <1>3
    <3>6. AnnouncedSize(wire, Start) = FrameSize
      BY <1>3
    <3>7. q < Start => FALSE
      BY <1>n, <1>5, <2>3, <3>1, <3>2
    <3>8. Start < q => FALSE
      BY <1>n, <1>5, <2>3, <3>1, <3>3, <3>6
    <3>9. Pos + 2 < Pos + 2 => FALSE
      BY <1>n
    <3> QED BY <2>3, <3>4, <3>5, <3>7, <3>8, <3>9
  <2>4. Outside(starts, Pos + 2)
    BY <2>3 DEF Outside
  <2>5. Undamaged(wire', starts, size) /\ Outside(starts, Start)'
    BY <2>1, <2>4 DEF Outside
  <2> QED BY <2>1, <2>5 DEF Aligned
<1> DEFINE new == [first |-> Start, last |-> Start + FrameSize - 1,
                   data |-> SemanticData(Candidate)]
<1>7. saved' = Append(saved, new)
  BY <1>n
<1>8. new \in SavedFrame
  <2>1. Candidate \in Seq(Byte) /\ Len(Candidate) >= Overhead
    BY <1>2, <1>3, CandidateType DEF IsFrame
  <2>2. SemanticData(Candidate) \in Seq(Byte)
    BY <2>1, SemanticDataType
  <2> QED BY <1>n, <2>2 DEF SavedFrame
<1>9. ASSUME NEW k \in next .. Len(wire)
      PROVE  Scan(SubSeq(wire, 1, k), ScanLimit)[1]
               = saved' \o Scan(SubSeq(wire, 1, k), ScanLimit)[Pos + 2]
  <2> DEFINE s == SubSeq(wire, 1, k)
             rest == Scan(s, ScanLimit)[Pos + 2]
  <2>1. k \in Nat /\ k \in 0 .. Len(wire) /\ next <= k
    BY <1>1
  <2>2. s \in Seq(Byte) /\ Len(s) = k /\ \A j \in 1 .. k : s[j] = wire[j]
    BY <1>1, <2>1, PrefixOf
  <2>3. Scan(s, ScanLimit)[1] = saved \o Scan(s, ScanLimit)[Start]
    BY DEF InStep, ScanGoesOn
  <2> HIDE DEF s
  <2>4. Start \in 1 .. Len(s) /\ Start + 8 <= k /\ Pos + 2 \in 1 .. Len(s) + 1
    <3>1. Len(s) = k /\ k \in Nat
      BY <2>1, <2>2
    <3> QED BY ONLY <1>1, <1>4, <1>5, <1>n, <2>1, <3>1
  <2>5. ScanLimit \in Nat
    BY CoreAssumption DEF CoreAssumption, ScanLimit
  <2>6. AnnouncedSize(s, Start) = FrameSize /\ HeaderAt(s, Start)
    <3>1. Start + 4 \in 1 .. k /\ Start + 5 \in 1 .. k /\ Start \in 1 .. k /\ Start + 1 \in 1 .. k
      BY <1>1, <2>1, <2>4
    <3>2. /\ s[Start] = wire[Start] /\ s[Start + 1] = wire[Start + 1]
          /\ s[Start + 4] = wire[Start + 4] /\ s[Start + 5] = wire[Start + 5]
      BY <2>2, <3>1, Zenon
    <3> QED BY <1>3, <3>2, Zenon DEF AnnouncedSize, HeaderAt
  <2>7. SubSeq(s, Start, Start + FrameSize - 1) = Candidate
    <3>1. Start + FrameSize - 1 \in Int /\ Start \in Int /\ Start + FrameSize - 1 <= Len(s)
          /\ Len(wire) >= Len(s) /\ \A j \in 1 .. Len(s) : wire[j] = s[j]
      BY <1>1, <1>n, <1>4, <2>1, <2>2
    <3>2. SubSeq(wire, Start, Start + FrameSize - 1) = SubSeq(s, Start, Start + FrameSize - 1)
      BY <1>1, <2>2, <3>1, StretchStays
    <3> QED BY <1>3, <3>2
  <2>8. /\ Start + PrefixLen - 1 <= Len(s) /\ AnnouncedSize(s, Start) <= ScanLimit
        /\ Start + AnnouncedSize(s, Start) - 1 <= Len(s)
    BY <1>1, <1>n, <1>4, <2>1, <2>2, <2>4, <2>5, <2>6 DEF PrefixLen
  <2>9. Scan(s, ScanLimit)[Start] = <<new>> \o rest
    <3>1. IsFrame(SubSeq(s, Start, Start + AnnouncedSize(s, Start) - 1))
      BY <1>3, <2>6, <2>7
    <3>2. Scan(s, ScanLimit)[Start] =
            <<[first |-> Start, last |-> Start + AnnouncedSize(s, Start) - 1,
               data |-> SemanticData(SubSeq(s, Start, Start + AnnouncedSize(s, Start) - 1))]>>
            \o Scan(s, ScanLimit)[Start + AnnouncedSize(s, Start)]
      BY <2>2, <2>4, <2>5, <2>6, <2>8, <3>1, ScanFrame
    <3> QED BY <1>3, <2>6, <2>7, <3>2
  <2>10. rest \in Seq(SavedFrame) /\ saved \in Seq(SavedFrame)
    BY <2>2, <2>4, <2>5, ScanType DEF TypeOK, HalTypeOK
  <2> HIDE DEF rest
  <2> HIDE DEF new
  <2>11. <<new>> \in Seq(SavedFrame) /\ saved' = saved \o <<new>>
    BY <1>7, <1>8, <2>10
  <2>12. saved \o (<<new>> \o rest) = (saved \o <<new>>) \o rest
    BY ONLY <2>10, <2>11, ConcatAssociative
  <2> QED BY <2>3, <2>9, <2>11, <2>12 DEF s, rest
<1>10. ScanGoesOn'
  BY <1>9 DEF ScanGoesOn, ScanLimit
<1> QED BY <1>6, <1>10 DEF InStep

\* No step takes the parser out of step with the scan.
LEMMA NextFirst ==
  ASSUME NEW size \in Nat, NEW chunk \in Nat, Ample(size, chunk), MaxCycles <= 1,
         TypeOK, TypeOK', Shape, BuiltIsWindow, Calm(size, chunk), LineKept,
         SizeExpected(size), FirstCycle(size), [Next]_vars
  PROVE  FirstCycle(size)'
<1>a. /\ Pos \in Nat /\ Len(built) \in Nat /\ Start \in Nat /\ Start >= 1
      /\ Start + Len(built) = Pos + 1 /\ Pos <= next
      /\ next \in Nat /\ Len(wire) \in Nat /\ next <= Len(wire) /\ Len(seen) = next
  BY BuiltOnWire
<1>b. /\ chunk_len \in Nat /\ i \in Int /\ i <= chunk_len /\ cycles \in Nat
      /\ next' \in Int /\ i' \in Int /\ MaxCycles \in Nat
      /\ Pos = next - chunk_len + i /\ Start = Pos - Len(built) + 1
  BY <1>a, CoreAssumption DEF TypeOK, LineTypeOK, CallTypeOK, CoreAssumption, Pos, Start
<1>c. /\ \A n \in ChunkSizes : ~ParseDataRefused(n)
      /\ ~WriteThroughNull /\ ~ExtendFails /\ ~FrameAllocFails
  BY CalmOutcomes
<1>d. LineKept' /\ wire' = wire /\ next' >= next
  BY <1>c, NextLine
<1>e. pc \in {"idle", "parse"} => InStep(size) /\ i >= 0 /\ cycles # 0
  BY DEF FirstCycle, InStep
<1>1. CASE CoreInit
  <2>1. cycles = 0 /\ cycles' = 1 /\ pc = "off"
    BY <1>1, <1>b DEF CoreInit
  <2>2. InStep(size) /\ i >= 0
    BY <2>1 DEF FirstCycle, InStep
  <2>3. built = <<>>
    BY <2>1 DEF Calm, Shape, HeadShape, BufferShape, TypeOK, ParserTypeOK
  <2>4. built' = <<>> /\ UNCHANGED <<wire, next, seen, saved, i, chunk_len>>
    BY <1>1 DEF CoreInit, RestartParser, ForgetFrame, lineVars
  <2>5. Start' = Start
    BY <2>3, <2>4 DEF Start, Pos
  <2>6. InStep(size)'
    BY <1>b, <1>d, <2>2, <2>4, <2>5, StayInStep
  <2> QED BY <2>1, <2>6 DEF FirstCycle
<1>2. CASE CoreStop
  <2>1. pc = "idle" /\ pc' = "off" /\ cycles' = cycles
    BY <1>2 DEF CoreStop
  <2> QED BY <1>e, <2>1 DEF FirstCycle
<1>3. ASSUME NEW n \in ChunkSizes, ParseData(n) PROVE FirstCycle(size)'
  <2>1. /\ pc = "idle" /\ pc' = "parse" /\ n \in Nat /\ i' = 0 /\ chunk_len' = n
        /\ UNCHANGED <<built, saved, cycles>>
        /\ next' = next + n /\ seen' = seen \o SubSeq(wire, next + 1, next + n)
        /\ next + n <= Len(wire)
    BY <1>3, CoreAssumption DEF ParseData, StartParsing, buildVars, CoreAssumption
  <2>2. chunk_len = 0 /\ i = 0
    BY <2>1 DEF Shape, AtRest
  <2>3. Len(seen') = next + n
    <3>1. seen' = SubSeq(wire, 1, next + n)
      BY <1>d, <2>1 DEF LineKept
    <3>2. next + n \in 0 .. Len(wire) /\ wire \in Seq(Byte)
      BY <1>a, <2>1 DEF TypeOK, LineTypeOK
    <3> QED BY <3>1, <3>2, PrefixOf
  <2>4. Pos' = Pos
    <3>1. Pos' = (next + n) - n + 0
      <4>1. Pos' = Len(seen') - chunk_len' + i'
        BY DEF Pos
      <4>2. chunk_len' = n /\ i' = 0
        BY <2>1
      <4> QED BY ONLY <2>3, <4>1, <4>2
    <3> QED BY <1>a, <1>b, <2>1, <2>2, <3>1
  <2>5. Start' = Start
    BY <2>1, <2>4 DEF Start
  <2>6. InStep(size) /\ i' >= 0
    BY <1>e, <2>1
  <2>7. InStep(size)'
    BY <1>b, <1>d, <2>1, <2>5, <2>6, StayInStep
  <2> QED BY <1>e, <2>1, <2>7 DEF FirstCycle
<1>4. ASSUME InLoop, SameOutside PROVE /\ InStep(size) /\ i >= 0 /\ pc = "parse" /\ cycles' = cycles
                                        /\ cycles # 0 /\ i < chunk_len
                                        /\ Pos + 1 <= next /\ CurrentByte = wire[Pos + 1]
                                        /\ UNCHANGED <<wire, next, seen, chunk_len>>
                                        /\ Pos' = next - chunk_len + i'
  <2>1. Pos' = next - chunk_len + i' /\ UNCHANGED <<wire, next, seen, chunk_len>>
    BY <1>4, <1>a DEF SameOutside, lineVars, Pos
  <2> QED BY <1>4, <1>e, <2>1, CandidateOnWire DEF InLoop, SameOutside
\* The place moves with the loop's counter.
<1>m. ASSUME InLoop, SameOutside
      PROVE  (i' = i + 1 => Pos' = Pos + 1 /\ i' >= 0) /\ (i' = i => Pos' = Pos /\ i' >= 0)
  <2>1. Pos' = next - chunk_len + i' /\ i >= 0
    BY <1>4, <1>m
  <2>2. next \in Int /\ chunk_len \in Int /\ i \in Int /\ i' \in Int
        /\ Pos = next - chunk_len + i
    BY <1>a, <1>b
  <2>3. next - chunk_len + (i + 1) = next - chunk_len + i + 1 /\ i + 1 >= 0
    BY ONLY <2>1, <2>2
  <2> QED BY <2>1, <2>2, <2>3, Zenon
\* The byte under examination becomes the last of the construction.
<1>5. ASSUME InLoop, SameOutside, i' = i + 1, UNCHANGED saved, Len(built') = Len(built) + 1
      PROVE  FirstCycle(size)'
  <2>1. Pos' = Pos + 1
    BY <1>5, <1>m, Zenon
  <2>2. Start' = Start
    <3>1. Start' = (Pos + 1) - (Len(built) + 1) + 1
      <4>1. Start' = Pos' - Len(built') + 1
        BY DEF Start
      <4>2. Len(built') = Len(built) + 1
        BY <1>5
      <4> QED BY ONLY <2>1, <4>1, <4>2
    <3> QED BY <1>a, <1>b, <3>1
  <2>3. i' >= 0
    BY <1>4, <1>5, <1>b
  <2>4. InStep(size)'
    BY <1>4, <1>5, <1>b, <1>d, <2>2, <2>3, StayInStep
  <2> QED BY <1>4, <1>5, <2>4 DEF FirstCycle
\* The byte at Start is no header.
<1>6. CASE SkipByte
  <2>1. InLoop /\ SameOutside /\ i' = i + 1 /\ UNCHANGED <<saved, built>> /\ CurrentByte # HEADER1
        /\ ~head1
    BY <1>6 DEF SkipByte, buildVars
  <2>2. Len(built) = 0
    BY <1>a, <2>1 DEF Shape, HeadShape
  <2>3. Start = Pos + 1 /\ Start' = Start + 1 /\ i' >= 0
    <3>1. Pos' = Pos + 1 /\ i' >= 0
      BY <1>m, <2>1, Zenon
    <3>2. Start' = Pos + 1 - 0 + 1 /\ Start = Pos - 0 + 1
      BY <2>1, <2>2, <3>1 DEF Start
    <3> QED BY ONLY <1>a, <3>1, <3>2
  <2>4. InStep(size)'
    BY <1>4, <2>1, <2>3, SkipInStep
  <2> QED BY <1>4, <2>1, <2>4 DEF FirstCycle
<1>7. CASE FindHeader1
  <2>1. InLoop /\ SameOutside /\ i' = i + 1 /\ UNCHANGED saved /\ ~head1 /\ built' = <<HEADER1>>
    BY <1>7 DEF FindHeader1
  <2>2. Len(built) = 0 /\ Len(built') = 1
    BY <1>a, <2>1 DEF Shape, HeadShape
  <2> QED BY <1>5, <2>1, <2>2
<1>8. CASE FindHeader2
  <2>1. InLoop /\ SameOutside /\ i' = i + 1 /\ UNCHANGED saved /\ built' = Candidate
    BY <1>8 DEF FindHeader2, Candidate
  <2> QED BY <1>5, <2>1, CandidateType
<1>9. CASE DropHeader1
  <2>1. InLoop /\ SameOutside /\ i' = i /\ UNCHANGED saved /\ head1 /\ ~head2 /\ built' = <<>>
        /\ CurrentByte # HEADER2
    BY <1>9 DEF DropHeader1, RestartParser, ForgetFrame
  <2>2. Len(built) = 1
    <3>1. Len(built) >= 1 /\ ~(Len(built) >= 2)
      BY <2>1, Zenon DEF Shape, HeadShape
    <3>2. \A l \in Nat : l >= 1 /\ ~(l >= 2) => l = 1
      OBVIOUS
    <3> QED BY <1>a, <3>1, <3>2, Zenon
  <2>3. Start = Pos /\ Start' = Start + 1 /\ i' >= 0
    <3>1. Pos' = Pos /\ i' >= 0
      BY <1>m, <2>1, Zenon
    <3>2. Start' = Pos - 0 + 1 /\ Start = Pos - 1 + 1
      BY <2>1, <2>2, <3>1 DEF Start
    <3> QED BY ONLY <1>a, <3>1, <3>2
  <2>4. Start + 1 <= next /\ wire[Start + 1] # HEADER2 /\ Start <= next
    BY <1>4, <1>a, <2>1, <2>3
  <2>5. InStep(size)'
    BY <1>4, <2>1, <2>3, <2>4, SkipInStep
  <2> QED BY <1>4, <2>1, <2>5 DEF FirstCycle
<1>10. CASE StoreByte
  <2>1. InLoop /\ SameOutside /\ i' = i + 1 /\ UNCHANGED saved /\ built' = Candidate
    BY <1>10 DEF StoreByte
  <2> QED BY <1>5, <2>1, CandidateType
<1>11. CASE StoreLength
  <2>1. InLoop /\ SameOutside /\ i' = i + 1 /\ UNCHANGED saved /\ built' = Candidate
    BY <1>11 DEF StoreLength, AtLengthByte
  <2> QED BY <1>5, <2>1, CandidateType
<1>12. ~RejectFrame
  <2> SUFFICES ASSUME RejectFrame PROVE FALSE
    OBVIOUS
  <2>1. AtLastByte /\ InLoop /\ SameOutside /\ ~(TailOK(Candidate) /\ ChecksumOK(Candidate))
    BY DEF RejectFrame, AtLastByte
  <2>2. Aligned(size)
    BY <1>4, <2>1 DEF InStep
  <2>3. IsFrame(Candidate)
    BY <2>1, <2>2, AlignedFrame
  <2> QED BY <2>1, <2>3 DEF IsFrame
<1>13. CASE SaveFrame
  <2>1. /\ AtGoodFrame /\ AtLastByte /\ InLoop /\ SameOutside /\ i' = i + 1 /\ built' = <<>>
        /\ saved' = Append(saved, [first |-> Pos + 2 - FrameSize, last |-> Pos + 1,
                                   data |-> SemanticData(Candidate)])
        /\ UNCHANGED pc
    BY <1>13 DEF SaveFrame, AtGoodFrame, AtLastByte, RestartParser, ForgetFrame
  <2>2. Start' = Pos + 2 /\ i' >= 0
    <3>1. Pos' = Pos + 1 /\ i' >= 0
      BY <1>m, <2>1, Zenon
    <3>2. Start' = Pos + 1 - 0 + 1
      BY <2>1, <3>1 DEF Start
    <3> QED BY ONLY <1>a, <3>1, <3>2
  <2>3. FrameSize <= size
    <3>1. payload_len \in Nat /\ 9 + payload_len <= size
      BY <2>1, CompleteFits
    <3> QED BY <3>1 DEF FrameSize, Overhead
  <2>4. size <= ScanLimit
    BY CoreAssumption DEF Ample, ScanLimit
  <2>5. InStep(size)'
    BY <1>4, <2>1, <2>2, <2>3, <2>4, SaveInStep
  <2> QED BY <1>4, <2>1, <2>5 DEF FirstCycle
<1>14. CASE SaveFails
  <2>1. InLoop /\ SameOutside /\ pc' = "halted"
    BY <1>14 DEF SaveFails, AtGoodFrame, AtLastByte
  <2> QED BY <1>4, <2>1 DEF FirstCycle
<1>15. CASE EndOfChunk
  <2>1. /\ pc = "parse" /\ ~InLoop /\ pc' = "idle" /\ chunk_len' = 0 /\ i' = 0
        /\ UNCHANGED <<wire, next, seen, built, saved, cycles>>
    BY <1>15 DEF EndOfChunk, lineVars, buildVars
  <2>2. i = chunk_len
    BY <1>b, <1>e, <2>1 DEF InLoop
  <2>3. Pos' = Pos
    <3>1. Pos' = next - 0 + 0
      BY <1>a, <2>1 DEF Pos
    <3> QED BY <1>a, <1>b, <2>2, <3>1
  <2>4. Start' = Start
    BY <2>1, <2>3 DEF Start
  <2>5. InStep(size) /\ i' >= 0
    BY <1>e, <2>1
  <2>6. InStep(size)'
    BY <1>b, <1>d, <2>1, <2>4, <2>5, StayInStep
  <2> QED BY <1>e, <2>1, <2>6 DEF FirstCycle
<1>16. CASE Decoder \/ UNCHANGED vars
  <2>1. UNCHANGED <<wire, next, seen, built, saved, cycles, pc, i, chunk_len>>
    BY <1>16 DEF Decoder, GetFrame, ReleaseFrame, vars, lineVars, buildVars
  <2>2. Start' = Start
    BY <2>1 DEF Start, Pos
  <2>3. ASSUME InStep(size) PROVE InStep(size)'
    <3>1. i' >= 0
      BY <2>1, <2>3 DEF InStep
    <3> QED BY <1>b, <1>d, <2>1, <2>2, <2>3, <3>1, StayInStep
  <2> QED BY <2>1, <2>3 DEF FirstCycle
<1> QED BY <1>1, <1>2, <1>3, <1>6, <1>7, <1>8, <1>9, <1>10, <1>11, <1>12, <1>13, <1>14,
           <1>15, <1>16, <1>c
        DEF Next, ProcessData

\* The inductive invariant of a parser that nothing disturbs.
Undisturbed(size, chunk) ==
  /\ Calm(size, chunk) /\ LineKept
  /\ MaxCycles <= 1 /\ UndamagedStreams(size) => FirstCycle(size)

LEMMA InitLine == Init => LineKept
<1> SUFFICES ASSUME Init PROVE LineKept
  OBVIOUS
<1>1. SubSeq(wire, 1, 0) = <<>>
  BY SubSeqEmpty
<1> QED BY <1>1 DEF Init, LineKept

LEMMA InitFirst ==
  ASSUME NEW size \in Nat, UndamagedStreams(size), Init, TypeOK
  PROVE  FirstCycle(size)
<1>1. /\ wire \in Streams /\ i = 0 /\ pc = "off" /\ cycles = 0 /\ saved = <<>> /\ next = 0
      /\ Len(seen) = 0 /\ chunk_len = 0 /\ Len(built) = 0 /\ wire \in Seq(Byte)
  BY DEF Init, TypeOK, LineTypeOK
<1>2. Start = 1
  BY <1>1 DEF Start, Pos
<1>3. Aligned(size)
  <2>1. PICK starts \in SUBSET (1 .. Len(wire)) : Undamaged(wire, starts, size)
    BY <1>1 DEF UndamagedStreams
  <2>2. Outside(starts, 1)
    BY <1>1 DEF Outside
  <2> QED BY <1>2, <2>1, <2>2 DEF Aligned
<1>4. ScanGoesOn
  <2> SUFFICES ASSUME NEW k \in 0 .. Len(wire)
               PROVE  Scan(SubSeq(wire, 1, k), ScanLimit)[1]
                        = <<>> \o Scan(SubSeq(wire, 1, k), ScanLimit)[1]
    BY <1>1, <1>2 DEF ScanGoesOn
  <2> DEFINE s == SubSeq(wire, 1, k)
  <2>1. s \in Seq(Byte) /\ 1 \in 1 .. Len(s) + 1
    BY <1>1, PrefixOf
  <2>2. ScanLimit \in Nat
    BY CoreAssumption DEF CoreAssumption, ScanLimit
  <2> HIDE DEF s
  <2>3. Scan(s, ScanLimit)[1] \in Seq(SavedFrame)
    BY <2>1, <2>2, ScanType
  <2>4. \A t \in Seq(SavedFrame) : t = <<>> \o t
    OBVIOUS
  <2>5. Scan(s, ScanLimit)[1] = <<>> \o Scan(s, ScanLimit)[1]
    BY <2>3, <2>4
  <2> QED BY <2>5 DEF s
<1> QED BY <1>1, <1>3, <1>4 DEF FirstCycle, InStep

LEMMA NextUndisturbed ==
  ASSUME NEW size \in Nat, NEW chunk \in Nat, Ample(size, chunk),
         ModestStreams(size) \/ (MaxCycles <= 1 /\ UndamagedStreams(size)),
         TypeOK, TypeOK', Shape, Tracking, Undisturbed(size, chunk), [Next]_vars
  PROVE  Undisturbed(size, chunk)'
<1>1. Calm(size, chunk) /\ LineKept /\ BuiltIsWindow
  BY DEF Undisturbed, Tracking
<1>2. SizeExpected(size)
  <2>1. CASE ModestStreams(size)
    <3>1. Modest(wire, size)
      BY <1>1, <2>1 DEF ModestStreams, LineKept
    <3> QED BY <1>1, <3>1, ModestSize
  <2>2. CASE MaxCycles <= 1 /\ UndamagedStreams(size)
    <3> SUFFICES ASSUME AtLengthByte PROVE SizeExpected(size)
      BY DEF SizeExpected
    <3>1. Aligned(size)
      BY <2>2 DEF Undisturbed, FirstCycle, InStep, AtLengthByte, InLoop
    <3> QED BY <1>1, <3>1, AlignedSize
  <2> QED BY <2>1, <2>2
<1>3. Calm(size, chunk)'
  BY <1>1, <1>2, NextCalm
<1>4. LineKept'
  BY <1>1, <1>2, CalmOutcomes, NextLine
<1>5. ASSUME MaxCycles <= 1, UndamagedStreams(size) PROVE FirstCycle(size)'
  BY <1>1, <1>2, <1>5, NextFirst DEF Undisturbed
<1> QED BY <1>3, <1>4, <1>5 DEF Undisturbed

LEMMA StaysUndisturbed ==
  ASSUME NEW size \in Nat, NEW chunk \in Nat, Ample(size, chunk),
         ModestStreams(size) \/ (MaxCycles <= 1 /\ UndamagedStreams(size))
  PROVE  Spec => [](TypeOK /\ Shape /\ Tracking /\ Undisturbed(size, chunk))
<1>1. Init => Undisturbed(size, chunk)
  <2> SUFFICES ASSUME Init PROVE Undisturbed(size, chunk)
    OBVIOUS
  <2>1. TypeOK
    BY InitType
  <2>2. UndamagedStreams(size) => FirstCycle(size)
    BY <2>1, InitFirst
  <2> QED BY <2>2, InitCalm, InitLine DEF Undisturbed
<1>2. /\ TypeOK /\ Shape /\ Tracking /\ TypeOK' /\ Undisturbed(size, chunk) /\ [Next]_vars
      => Undisturbed(size, chunk)'
  BY NextUndisturbed
<1>3. Spec => [](TypeOK /\ Shape /\ Tracking)
  BY ParserInvariant
<1> QED BY <1>1, <1>2, <1>3, PTL DEF Spec

\* When the budget is ample and the sensor announces no frame beyond what it was made
\* for, everything the parser allocated has been given back once it has been stopped
\* and its frames have been released: no path through restart_parser,
\* extend_building_space, mmwave_parse_data and _saveFrame forgets a block.
THEOREM EverythingGivenBack ==
  ASSUME NEW size \in Nat, NEW chunk \in Nat, Ample(size, chunk),
         ModestStreams(size) \/ (MaxCycles <= 1 /\ UndamagedStreams(size))
  PROVE  Spec => []NoLeak
<1>1. TypeOK /\ Calm(size, chunk) => NoLeak
  <2> SUFFICES ASSUME TypeOK, Calm(size, chunk), pc = "off", frame_queue = <<>>, held = <<>>
               PROVE  currently_allocated_mem = 0
    BY DEF NoLeak
  <2>1. SizeOf(frame_queue) = 0 /\ SizeOf(held) = 0
    BY SizeEmpty
  <2>2. ~building_buffer /\ data_saving_buff_size = 0
    BY DEF Calm
  <2> QED BY <2>1, <2>2 DEF Calm, Reachable
<1>2. Spec => [](TypeOK /\ Shape /\ Tracking /\ Undisturbed(size, chunk))
  BY StaysUndisturbed
<1> QED BY <1>1, <1>2, PTL DEF Undisturbed

\* Under the same conditions restart_parser always finds memory for the building
\* buffer, so that process_data never stores through a NULL pointer.
THEOREM BufferIsThere ==
  ASSUME NEW size \in Nat, NEW chunk \in Nat, Ample(size, chunk),
         ModestStreams(size) \/ (MaxCycles <= 1 /\ UndamagedStreams(size))
  PROVE  Spec => []NoNullWrite
<1>1. Undisturbed(size, chunk) => NoNullWrite
  BY DEF Undisturbed, Calm, NoNullWrite
<1>2. Spec => [](TypeOK /\ Shape /\ Tracking /\ Undisturbed(size, chunk))
  BY StaysUndisturbed
<1> QED BY <1>1, <1>2, PTL

\* At rest the scan of all bytes received finds nothing from Start on.
LEMMA NothingBehind ==
  ASSUME NEW size \in Nat, NEW chunk \in Nat, Ample(size, chunk), TypeOK, Shape,
         BuiltIsWindow, Calm(size, chunk), LineKept, pc = "idle"
  PROVE  Scan(seen, ScanLimit)[Start] = <<>>
<1>1. /\ Pos \in Nat /\ Len(built) \in Nat /\ Start \in Nat /\ Start >= 1
      /\ Start + Len(built) = Pos + 1 /\ next \in Nat /\ Len(seen) = next
      /\ Len(wire) \in Nat /\ next <= Len(wire) /\ next \in 0 .. Len(wire)
      /\ wire \in Seq(Byte) /\ seen \in Seq(Byte)
  BY BuiltOnWire DEF TypeOK, LineTypeOK
<1>2. Pos = Len(seen)
  BY <1>1 DEF Shape, AtRest, Pos
<1>3. ScanLimit \in Nat /\ size <= ScanLimit
  BY CoreAssumption DEF CoreAssumption, ScanLimit, Ample
<1>4. Start \in 1 .. Len(seen) + 1
  BY <1>1, <1>2
<1>5. CASE Len(built) < PrefixLen
  <2>1. Start + PrefixLen - 1 > Len(seen)
    BY <1>1, <1>2, <1>5 DEF PrefixLen
  <2> QED BY <1>1, <1>3, <1>4, <2>1, ScanEnd
<1>6. CASE Len(built) >= PrefixLen
  <2>1. head2 /\ building_buffer
    BY <1>1, <1>6 DEF Shape, HeadShape, BufferShape, PrefixLen
  <2>2. /\ HeaderAt(wire, Start) /\ FrameSize = AnnouncedSize(wire, Start)
        /\ AnnouncedSize(wire, Start) \in Nat
    BY <1>6, <2>1, HeaderOnWire
  <2>3. Start + PrefixLen - 1 <= Len(seen)
    BY <1>1, <1>2, <1>6 DEF PrefixLen
  <2>4. HeaderAt(seen, Start) /\ AnnouncedSize(seen, Start) = AnnouncedSize(wire, Start)
    <3>1. \A j \in 1 .. next : seen[j] = wire[j]
      BY <1>1, PrefixOf DEF LineKept
    <3>2. /\ Start \in 1 .. next /\ Start + 1 \in 1 .. next
          /\ Start + 4 \in 1 .. next /\ Start + 5 \in 1 .. next
      BY <1>1, <2>3 DEF PrefixLen
    <3> QED BY <2>2, <3>1, <3>2 DEF HeaderAt, AnnouncedSize
  <2>5. FrameSize <= parsing_buff_current_size /\ Len(built) < FrameSize
    BY <1>6 DEF Shape, HeadShape, BufferShape
  <2>6. parsing_buff_current_size <= size /\ parsing_buff_current_size \in Nat
    BY <2>1 DEF Calm, TypeOK, ParserTypeOK
  <2>7. AnnouncedSize(seen, Start) <= ScanLimit
    BY <1>3, <2>2, <2>4, <2>5, <2>6
  <2>8. Start + AnnouncedSize(seen, Start) - 1 > Len(seen)
    BY <1>1, <1>2, <2>2, <2>4, <2>5
  <2> QED BY <1>1, <1>3, <1>4, <2>3, <2>4, <2>7, <2>8, ScanEnd
<1>7. PrefixLen \in Nat
  BY DEF PrefixLen
<1> QED BY <1>1, <1>5, <1>6, <1>7

\* When the budget is ample and the sensor's frames are undamaged, mmwave_parse_data
\* hands over exactly the frames that a scan of the whole stream finds, in the same
\* order and from the same places, whatever the chunk borders and whatever lies
\* between the frames.
THEOREM ChunksDoNotMatter ==
  ASSUME NEW size \in Nat, NEW chunk \in Nat, Ample(size, chunk),
         MaxCycles <= 1, UndamagedStreams(size)
  PROVE  Spec => []ScanAgrees
<1>1. TypeOK /\ Shape /\ Tracking /\ Undisturbed(size, chunk) => ScanAgrees
  <2> SUFFICES ASSUME TypeOK, Shape, Tracking, Undisturbed(size, chunk), pc = "idle"
               PROVE  saved = FramesIn(seen, ScanLimit)
    BY DEF ScanAgrees, ScanLimit
  <2>1. Calm(size, chunk) /\ LineKept /\ BuiltIsWindow /\ ScanGoesOn
    BY DEF Undisturbed, Tracking, FirstCycle, InStep
  <2>2. next \in next .. Len(wire)
    BY DEF TypeOK, LineTypeOK
  <2>3. Scan(seen, ScanLimit)[1] = saved \o Scan(seen, ScanLimit)[Start]
    BY <2>1, <2>2 DEF ScanGoesOn, LineKept
  <2>4. Scan(seen, ScanLimit)[Start] = <<>>
    BY <2>1, NothingBehind
  <2>5. saved \o <<>> = saved
    BY DEF TypeOK, HalTypeOK
  <2> QED BY <2>3, <2>4, <2>5 DEF FramesIn
<1>2. Spec => [](TypeOK /\ Shape /\ Tracking /\ Undisturbed(size, chunk))
  BY StaysUndisturbed
<1> QED BY <1>1, <1>2, PTL

\* The sizes of the code (mmwave_core_types.h, hal_mmwave_uart.c, hal_mmwave_types.h and
\* board_mmwave_uart_config.h) are ample for frames of up to 704 bytes.
THEOREM CodeIsAmple ==
  ASSUME ~AllocMayFail, ~LockMayTimeout, \A n \in ChunkSizes : n <= 1024,
         STARTING_PARSER_BUFFER_SIZE = 20, MAX_PARSER_BUFFER_SIZE = 65544,
         MAX_SINGLE_ALLOC = 2048, MAX_TOTAL_ALLOC = 32768, FrameQueueLen = 40
  PROVE  Ample(704, 1024)
BY DEF Ample
=============================================================================
