------------------------------ MODULE MmwaveCore ------------------------------
(***************************************************************************)
(* The receive parser of mmwave_core_seeed_studio.c with the three HAL     *)
(* callbacks it runs on (hal_malloc, hal_free, _saveFrame) and the decoder *)
(* side of the frame queue.  The RX task feeds it the byte stream in       *)
(* chunks of any size; one action is one iteration of the loop of          *)
(* process_data, so that every byte, every re-scan and every allocation    *)
(* outcome is a step.                                                      *)
(*                                                                         *)
(* seen and saved are history variables: the bytes accepted for parsing,   *)
(* and the frames handed to the HAL with the place they were read from.    *)
(***************************************************************************)
EXTENDS MmwaveFrame, SequencesExt

CONSTANTS
  Streams,                      \* the byte streams the sensor may send
  ChunkSizes,                   \* bytes one RX event may hand to the parser
  STARTING_PARSER_BUFFER_SIZE,
  MAX_PARSER_BUFFER_SIZE,
  MAX_SINGLE_ALLOC,
  MAX_TOTAL_ALLOC,
  FrameQueueLen,                \* capacity of frame_queue
  AllocMayFail,                 \* hal_malloc may fail for want of heap or lock
  LockMayTimeout,               \* hal_free may miss the accounting mutex
  MaxCycles                     \* bound: bind/init .. stop cycles explored

ASSUME CoreAssumption ==
  /\ Streams \subseteq Seq(Byte)
  /\ ChunkSizes \subseteq Nat \ {0}
  /\ STARTING_PARSER_BUFFER_SIZE \in Nat
  /\ STARTING_PARSER_BUFFER_SIZE >= Overhead
  /\ MAX_PARSER_BUFFER_SIZE \in Nat
  /\ MAX_SINGLE_ALLOC \in Nat
  /\ MAX_TOTAL_ALLOC \in Nat
  /\ FrameQueueLen \in Nat \ {0}
  /\ AllocMayFail \in BOOLEAN
  /\ LockMayTimeout \in BOOLEAN
  /\ MaxCycles \in Nat

VARIABLES
  \* the line
  wire, next, seen,
  \* locals of the running process_data call
  pc, chunk_len, i, status, finished_frames,
  \* statics of the parser
  building_buffer, parsing_buff_current_size, built, head1, head2, payload_len,
  big_frames_count, data_saving_buff_size,
  \* the HAL side
  currently_allocated_mem, frame_queue, held,
  \* history and bounds
  saved, fault, cycles

lineVars   == <<wire, next, seen>>
buildVars  == <<building_buffer, parsing_buff_current_size, built, head1, head2,
                payload_len>>
queueVars  == <<frame_queue, held>>
vars == <<wire, next, seen, pc, chunk_len, i, status, finished_frames,
          building_buffer, parsing_buff_current_size, built, head1, head2,
          payload_len, big_frames_count, data_saving_buff_size,
          currently_allocated_mem, frame_queue, held, saved, fault, cycles>>

Statuses == {"FRAME_OK", "NO_FRAMES", "QUEUE_FULL", "MEMORY_PROBLEM",
             "UNFINISHED_FRAME"}

-----------------------------------------------------------------------------
(* The HAL callbacks, as the set of their outcomes.                         *)

\* hal_malloc(n) entered with the counter at m: whether it may succeed (TRUE)
\* and may fail (FALSE), and where the counter stands when it succeeded.
HalMalloc(m, n) ==
  LET fits == n <= MAX_SINGLE_ALLOC /\ m + n <= MAX_TOTAL_ALLOC
  IN  {ok \in BOOLEAN : IF ok THEN fits ELSE ~fits \/ AllocMayFail}
Charged(m, n) == m + n

\* hal_free of a block of n bytes (allocated: the pointer is not NULL) entered
\* with the counter at m.  The block is freed before the mutex is tried, so a
\* timeout only loses the accounting.
HalFreeUncounted(m, allocated, n) == {m}    \* mutant: the counter is forgotten
HalFree(m, allocated, n) ==
  IF ~allocated THEN {m}
  ELSE {m - n} \cup (IF LockMayTimeout THEN {m} ELSE {})

\* A block of old bytes makes way for one of new bytes that has been allocated.
ReplacedNewSize(m, allocated, old, new) ==  \* mutant: frees the new size
  HalFree(Charged(m, new), allocated, new)
Replaced(m, allocated, old, new) == HalFree(Charged(m, new), allocated, old)

\* restart_parser: the frame under construction is forgotten.
ForgetFrameNotLength ==                     \* mutant: built_frame_len kept
  /\ head1' = FALSE
  /\ head2' = FALSE
  /\ payload_len' = 0
  /\ UNCHANGED built
ForgetFrame ==
  /\ head1' = FALSE
  /\ head2' = FALSE
  /\ built' = <<>>
  /\ payload_len' = 0

\* The buffer is kept while large frames keep coming.
KeepBufferGrown(big) ==                     \* mutant: still kept when the burst is over
  big >= 3 \/ (big = 0 /\ parsing_buff_current_size > STARTING_PARSER_BUFFER_SIZE)
KeepBuffer(big) == big >= 3

\* Otherwise it is freed and one of the starting size allocated.
FreshBufferOnce(buffer, m) ==               \* mutant: freed, none allocated
  /\ building_buffer' = ~buffer
  /\ parsing_buff_current_size' = IF buffer THEN 0 ELSE STARTING_PARSER_BUFFER_SIZE
  /\ currently_allocated_mem' =
       IF buffer THEN m - parsing_buff_current_size
       ELSE Charged(m, STARTING_PARSER_BUFFER_SIZE)
FreshBuffer(buffer, m) ==
  \E m1 \in HalFree(m, buffer, parsing_buff_current_size) :
    \E ok \in HalMalloc(m1, STARTING_PARSER_BUFFER_SIZE) :
      /\ building_buffer' = ok
      /\ parsing_buff_current_size' = IF ok THEN STARTING_PARSER_BUFFER_SIZE ELSE 0
      /\ currently_allocated_mem' =
           IF ok THEN Charged(m1, STARTING_PARSER_BUFFER_SIZE) ELSE m1

\* restart_parser entered with buffer (non-NULL or not), big frame count big and
\* counter m.
RestartParser(buffer, big, m) ==
  /\ ForgetFrame
  /\ \/ /\ ~KeepBuffer(big)
        /\ FreshBuffer(buffer, m)
     \/ /\ KeepBuffer(big)
        /\ building_buffer' = buffer
        /\ UNCHANGED parsing_buff_current_size
        /\ currently_allocated_mem' = m

-----------------------------------------------------------------------------
Init ==
  /\ wire \in Streams /\ next = 0 /\ seen = <<>>
  /\ pc = "off" /\ chunk_len = 0 /\ i = 0
  /\ status = "NO_FRAMES" /\ finished_frames = 0
  /\ building_buffer = FALSE /\ parsing_buff_current_size = 0
  /\ built = <<>> /\ head1 = FALSE /\ head2 = FALSE /\ payload_len = 0
  /\ big_frames_count = 0 /\ data_saving_buff_size = 0
  /\ currently_allocated_mem = 0 /\ frame_queue = <<>> /\ held = <<>>
  /\ saved = <<>> /\ fault = "none" /\ cycles = 0

\* Bind the callbacks and mmwave_core_init, as hal_mmwave_init calls them when
\* the previous instance has been torn down.  hal_mmwave_init does not look at
\* the result: after a failed allocation the parser runs without a buffer.
CoreInit ==
  /\ pc = "off" /\ cycles < MaxCycles
  /\ frame_queue = <<>> /\ held = <<>>
  /\ RestartParser(building_buffer, big_frames_count, currently_allocated_mem)
  /\ pc' = "idle"
  /\ cycles' = cycles + 1
  /\ UNCHANGED <<lineVars, chunk_len, i, status, finished_frames,
                 big_frames_count, data_saving_buff_size, queueVars, saved, fault>>

\* mmwave_core_stop: both buffers are freed (a free of NULL does nothing) and
\* every static returns to its initial value.
CoreStop ==
  /\ pc = "idle"
  /\ \E m \in HalFree(currently_allocated_mem, building_buffer,
                      parsing_buff_current_size) :
       \E m1 \in HalFree(m, data_saving_buff_size > 0, data_saving_buff_size) :
         currently_allocated_mem' = m1
  /\ building_buffer' = FALSE /\ parsing_buff_current_size' = 0
  /\ built' = <<>> /\ head1' = FALSE /\ head2' = FALSE /\ payload_len' = 0
  /\ big_frames_count' = 0 /\ data_saving_buff_size' = 0
  /\ pc' = "off" /\ status' = "NO_FRAMES" /\ finished_frames' = 0
  /\ UNCHANGED <<lineVars, chunk_len, i, queueVars, saved, fault, cycles>>

-----------------------------------------------------------------------------
(* mmwave_parse_data: the next n bytes arrive and are copied to the saving  *)
(* buffer, which grows first when it is too small.                          *)

StartParsing(n) ==
  /\ next' = next + n
  /\ seen' = seen \o SubSeq(wire, next + 1, next + n)
  /\ pc' = "parse" /\ chunk_len' = n /\ i' = 0
  /\ status' = "NO_FRAMES" /\ finished_frames' = 0
  /\ UNCHANGED wire

ParseData(n) ==
  /\ pc = "idle" /\ next + n <= Len(wire)
  /\ \/ /\ n <= data_saving_buff_size
        /\ StartParsing(n)
        /\ UNCHANGED <<data_saving_buff_size, currently_allocated_mem>>
     \/ /\ n > data_saving_buff_size
        /\ TRUE \in HalMalloc(currently_allocated_mem, n)
        /\ currently_allocated_mem' \in
             Replaced(currently_allocated_mem, data_saving_buff_size > 0,
                      data_saving_buff_size, n)
        /\ data_saving_buff_size' = n
        /\ StartParsing(n)
  /\ UNCHANGED <<buildVars, big_frames_count, queueVars, saved, fault, cycles>>

\* The saving buffer cannot grow: the chunk is lost, whatever the parser had
\* built of an unfinished frame stays.
ParseDataRefused(n) ==
  /\ pc = "idle" /\ next + n <= Len(wire)
  /\ n > data_saving_buff_size
  /\ FALSE \in HalMalloc(currently_allocated_mem, n)
  /\ next' = next + n
  /\ status' = "MEMORY_PROBLEM"
  /\ UNCHANGED <<wire, seen, pc, chunk_len, i, finished_frames, buildVars,
                 big_frames_count, data_saving_buff_size,
                 currently_allocated_mem, queueVars, saved, fault, cycles>>

-----------------------------------------------------------------------------
(* One iteration of the loop of process_data.                               *)

\* Bytes of seen before the one under examination.
Pos == Len(seen) - chunk_len + i
CurrentByte == seen[Pos + 1]

\* i is an int compared with a size_t: a negative i ends the loop.
InLoop == pc = "parse" /\ i >= 0 /\ i < chunk_len

\* What the iterations that only store or skip a byte leave alone.
NoMemoryChange ==
  UNCHANGED <<building_buffer, parsing_buff_current_size, currently_allocated_mem>>
SameOutside ==
  UNCHANGED <<lineVars, chunk_len, data_saving_buff_size, held, cycles>>

SkipByte ==
  /\ InLoop /\ ~head1 /\ CurrentByte # HEADER1
  /\ i' = i + 1
  /\ UNCHANGED <<pc, status, finished_frames, buildVars, big_frames_count,
                 currently_allocated_mem, frame_queue, saved, fault>>
  /\ SameOutside

FindHeader1 ==
  /\ InLoop /\ ~head1 /\ CurrentByte = HEADER1
  /\ building_buffer
  /\ status' = IF finished_frames = 0 THEN "UNFINISHED_FRAME" ELSE status
  /\ built' = <<HEADER1>>
  /\ head1' = TRUE
  /\ i' = i + 1
  /\ UNCHANGED <<pc, finished_frames, head2, payload_len, big_frames_count,
                 frame_queue, saved, fault>>
  /\ NoMemoryChange /\ SameOutside

\* The store of the header byte through a NULL building_buffer.
WriteThroughNull ==
  /\ InLoop /\ ~head1 /\ CurrentByte = HEADER1
  /\ ~building_buffer
  /\ fault' = "null_write" /\ pc' = "halted"
  /\ UNCHANGED <<i, status, finished_frames, buildVars, big_frames_count,
                 currently_allocated_mem, frame_queue, saved>>
  /\ SameOutside

FindHeader2 ==
  /\ InLoop /\ head1 /\ ~head2 /\ CurrentByte = HEADER2
  /\ built' = Append(built, CurrentByte)
  /\ head2' = TRUE
  /\ i' = i + 1
  /\ UNCHANGED <<pc, status, finished_frames, head1, payload_len,
                 big_frames_count, frame_queue, saved, fault>>
  /\ NoMemoryChange /\ SameOutside

\* Not a header pair: drop the HEADER1 and look at the same byte again.
DropHeader1AndByte ==                       \* mutant: without i -= 1
  /\ InLoop /\ head1 /\ ~head2 /\ CurrentByte # HEADER2
  /\ RestartParser(building_buffer, big_frames_count, currently_allocated_mem)
  /\ i' = i + 1
  /\ UNCHANGED <<pc, status, finished_frames, big_frames_count, frame_queue,
                 saved, fault>>
  /\ SameOutside
DropHeader1 ==
  /\ InLoop /\ head1 /\ ~head2 /\ CurrentByte # HEADER2
  /\ RestartParser(building_buffer, big_frames_count, currently_allocated_mem)
  /\ UNCHANGED <<pc, i, status, finished_frames, big_frames_count, frame_queue,
                 saved, fault>>
  /\ SameOutside

\* The candidate frame with the current byte appended to it.
Candidate == Append(built, CurrentByte)
FrameSize == Overhead + payload_len

\* Control word, command word and first length byte; then payload, checksum
\* and tail up to the last byte of the frame.
StoreByte ==
  /\ InLoop /\ head1 /\ head2
  /\ Len(Candidate) # PrefixLen
  /\ Len(Candidate) > PrefixLen => Len(Candidate) # FrameSize
  /\ built' = Candidate
  /\ i' = i + 1
  /\ UNCHANGED <<pc, status, finished_frames, head1, head2, payload_len,
                 big_frames_count, frame_queue, saved, fault>>
  /\ NoMemoryChange /\ SameOutside

AtLengthByte == InLoop /\ head1 /\ head2 /\ Len(Candidate) = PrefixLen

\* Does a frame of that size fit the building buffer?
FitsOrOneOver(size) == size <= parsing_buff_current_size + 1   \* mutant: off by one
Fits(size) == size <= parsing_buff_current_size
CountBigFrames(size) ==
  IF size >= parsing_buff_current_size THEN big_frames_count + 1 ELSE 0

\* The second length byte: the frame fits the building buffer, or the buffer is
\* replaced by one of exactly the frame's size.
StoreLength ==
  /\ AtLengthByte
  /\ LET size == Overhead + PayloadLen(Candidate) IN
       /\ big_frames_count' = CountBigFrames(size)
       /\ \/ /\ Fits(size)
             /\ UNCHANGED <<parsing_buff_current_size, currently_allocated_mem>>
          \/ /\ ~Fits(size)
             /\ size <= MAX_PARSER_BUFFER_SIZE
             /\ TRUE \in HalMalloc(currently_allocated_mem, size)
             /\ currently_allocated_mem' \in
                  Replaced(currently_allocated_mem, building_buffer,
                           parsing_buff_current_size, size)
             /\ parsing_buff_current_size' = size
  /\ built' = Candidate
  /\ payload_len' = PayloadLen(Candidate)
  /\ i' = i + 1
  /\ UNCHANGED <<pc, status, finished_frames, building_buffer, head1, head2,
                 frame_queue, saved, fault>>
  /\ SameOutside

\* extend_building_space returns NULL: the pointer to the old buffer is
\* overwritten with it before restart_parser runs.
ExtendFails ==
  /\ AtLengthByte
  /\ LET size == Overhead + PayloadLen(Candidate) IN
       /\ ~Fits(size)
       /\ \/ size > MAX_PARSER_BUFFER_SIZE
          \/ FALSE \in HalMalloc(currently_allocated_mem, size)
       /\ big_frames_count' = CountBigFrames(size)
  /\ RestartParser(FALSE, big_frames_count', currently_allocated_mem)
  /\ status' = "MEMORY_PROBLEM"
  /\ i' = i + 1
  /\ UNCHANGED <<pc, finished_frames, frame_queue, saved, fault>>
  /\ SameOutside

AtLastByte ==
  /\ InLoop /\ head1 /\ head2
  /\ Len(Candidate) > PrefixLen /\ Len(Candidate) = FrameSize

\* Where the loop goes on after a malformed candidate with payload length p.
ResumeAtHead(p)  == i - (Overhead + p) + 1    \* mutant: at its first byte
ResumeForward(p) == i + (Overhead + p - 2)    \* mutant: wrong sign
ResumeChunk(p)   == 0                         \* mutant: at the chunk's first byte
Resume(p) == i - (Overhead + p - 2) + 1

\* Tail or checksum wrong: i moves back by what restart_parser has left of
\* payload_len, and so by 7 whatever the length of the candidate.
RejectFrame ==
  /\ AtLastByte
  /\ ~(TailOK(Candidate) /\ ChecksumOK(Candidate))
  /\ RestartParser(building_buffer, big_frames_count, currently_allocated_mem)
  /\ i' = Resume(payload_len')
  /\ UNCHANGED <<pc, status, finished_frames, big_frames_count, frame_queue,
                 saved, fault>>
  /\ SameOutside

AtTailedFrame == AtLastByte /\ TailOK(Candidate)   \* mutant: no checksum test
AtGoodFrame == AtLastByte /\ TailOK(Candidate) /\ ChecksumOK(Candidate)

\* No memory for the frame's data: the frame is skipped.
FrameAllocFails ==
  /\ AtGoodFrame
  /\ FALSE \in HalMalloc(currently_allocated_mem, 2 + payload_len)
  /\ RestartParser(building_buffer, big_frames_count, currently_allocated_mem)
  /\ status' = "MEMORY_PROBLEM"
  /\ i' = i + 1
  /\ UNCHANGED <<pc, finished_frames, big_frames_count, frame_queue, saved, fault>>
  /\ SameOutside

\* The data is copied to a block of its own and _saveFrame queues it.
SaveFrame ==
  /\ AtGoodFrame
  /\ Len(frame_queue) < FrameQueueLen
  /\ TRUE \in HalMalloc(currently_allocated_mem, 2 + payload_len)
  /\ RestartParser(building_buffer, big_frames_count,
                   Charged(currently_allocated_mem, 2 + payload_len))
  /\ frame_queue' = Append(frame_queue, SemanticData(Candidate))
  /\ saved' = Append(saved, [first |-> Pos + 2 - FrameSize, last |-> Pos + 1,
                             data |-> SemanticData(Candidate)])
  /\ status' = "FRAME_OK"
  /\ finished_frames' = finished_frames + 1
  /\ i' = i + 1
  /\ UNCHANGED <<pc, big_frames_count, fault>>
  /\ SameOutside

\* frame_queue stays full for the 10 ms of the send: _saveFrame frees the block
\* and the parser, told that saving failed, frees it again.
SaveFails ==
  /\ AtGoodFrame
  /\ Len(frame_queue) = FrameQueueLen
  /\ TRUE \in HalMalloc(currently_allocated_mem, 2 + payload_len)
  /\ fault' = "double_free" /\ pc' = "halted"
  /\ UNCHANGED <<i, status, finished_frames, buildVars, big_frames_count,
                 currently_allocated_mem, frame_queue, saved>>
  /\ SameOutside

\* The loop is left and the status computed.
FinalStatusAsIs == status                   \* mutant: without the last test
FinalStatus == IF finished_frames = 0 /\ ~head1 THEN "NO_FRAMES" ELSE status
EndOfChunk ==
  /\ pc = "parse" /\ ~InLoop
  /\ status' = FinalStatus
  /\ pc' = "idle" /\ chunk_len' = 0 /\ i' = 0
  /\ UNCHANGED <<lineVars, finished_frames, buildVars, big_frames_count,
                 data_saving_buff_size, currently_allocated_mem, queueVars,
                 saved, fault, cycles>>

ProcessData ==
  \/ SkipByte \/ FindHeader1 \/ WriteThroughNull \/ FindHeader2 \/ DropHeader1
  \/ StoreByte \/ StoreLength \/ ExtendFails
  \/ RejectFrame \/ FrameAllocFails \/ SaveFrame \/ SaveFails
  \/ EndOfChunk

-----------------------------------------------------------------------------
(* The other end of frame_queue.                                            *)

\* The decoder takes a frame (hal_mmwave_get_frame_from_queue).
GetFrame ==
  /\ pc # "halted" /\ held = <<>> /\ frame_queue # <<>>
  /\ held' = <<Head(frame_queue)>>
  /\ frame_queue' = Tail(frame_queue)
  /\ UNCHANGED <<lineVars, pc, chunk_len, i, status, finished_frames, buildVars,
                 big_frames_count, data_saving_buff_size,
                 currently_allocated_mem, saved, fault, cycles>>

\* It has copied it and returns the block (hal_mmwave_release_frame_memory).
ReleaseFrame ==
  /\ pc # "halted" /\ held # <<>>
  /\ currently_allocated_mem' \in
       HalFree(currently_allocated_mem, TRUE, Len(Head(held)))
  /\ held' = <<>>
  /\ UNCHANGED <<lineVars, pc, chunk_len, i, status, finished_frames, buildVars,
                 big_frames_count, data_saving_buff_size, frame_queue, saved,
                 fault, cycles>>

Decoder == GetFrame \/ ReleaseFrame

Next ==
  \/ CoreInit \/ CoreStop
  \/ \E n \in ChunkSizes : ParseData(n) \/ ParseDataRefused(n)
  \/ ProcessData
  \/ Decoder

Spec == Init /\ [][Next]_vars

\* The RX task is not preempted for ever, nor is the decoder.
FairSpec == Spec /\ WF_vars(ProcessData) /\ WF_vars(Decoder)
-----------------------------------------------------------------------------
(* Streams and sizes under which nothing disturbs the parser.               *)

\* No header pair, genuine or accidental, announces more than limit bytes.
Modest(s, limit) ==
  \A p \in 1 .. Len(s) - (PrefixLen - 1) : HeaderAt(s, p) => AnnouncedSize(s, p) <= limit

\* At starts there are frames of at most limit bytes that do not overlap, and there
\* is no header pair outside them; what lies between them may be anything else.
Undamaged(s, starts, limit) ==
  /\ \A p \in starts :
       /\ p + Overhead - 1 <= Len(s)
       /\ AnnouncedSize(s, p) <= limit /\ p + AnnouncedSize(s, p) - 1 <= Len(s)
       /\ IsFrame(SubSeq(s, p, p + AnnouncedSize(s, p) - 1))
  /\ \A p \in starts : \A q \in starts : p < q => p + AnnouncedSize(s, p) <= q
  /\ \A q \in 1 .. Len(s) - 1 :
       HeaderAt(s, q) => \E p \in starts : p <= q /\ q < p + AnnouncedSize(s, p)

ModestStreams(limit) == \A s \in Streams : Modest(s, limit)
UndamagedStreams(limit) ==
  \A s \in Streams : \E starts \in SUBSET (1 .. Len(s)) : Undamaged(s, starts, limit)

\* Nothing fails, and the budget is enough for a full queue of frames of at most size
\* bytes, one with the decoder, one being queued, and each of the parser's two buffers
\* twice while it is replaced.
Ample(size, chunk) ==
  /\ ~AllocMayFail /\ ~LockMayTimeout
  /\ \A n \in ChunkSizes : n <= chunk
  /\ STARTING_PARSER_BUFFER_SIZE <= size /\ size <= MAX_PARSER_BUFFER_SIZE
  /\ size <= MAX_SINGLE_ALLOC /\ chunk <= MAX_SINGLE_ALLOC
  /\ 2 * size + 2 * chunk + (FrameQueueLen + 2) * (size - 7) <= MAX_TOTAL_ALLOC
-----------------------------------------------------------------------------
(* Properties.                                                              *)

Frames == Seq(Seq(Byte))

LineTypeOK ==
  /\ wire \in Seq(Byte) /\ seen \in Seq(Byte) /\ next \in 0 .. Len(wire)
  /\ chunk_len \in 0 .. Len(seen) /\ i \in Int /\ i <= chunk_len
CallTypeOK ==
  /\ pc \in {"off", "idle", "parse", "halted"}
  /\ status \in Statuses /\ finished_frames \in Nat
  /\ fault \in {"none", "null_write", "double_free"} /\ cycles \in Nat
ParserTypeOK ==
  /\ building_buffer \in BOOLEAN /\ parsing_buff_current_size \in Nat
  /\ built \in Seq(Byte) /\ head1 \in BOOLEAN /\ head2 \in BOOLEAN
  /\ payload_len \in Nat /\ big_frames_count \in Nat
  /\ data_saving_buff_size \in Nat
HalTypeOK ==
  /\ currently_allocated_mem \in Int
  /\ frame_queue \in Frames /\ held \in Frames
  /\ saved \in Seq(SavedFrame)

\* The state has its shape (the statics of the parser, the locals of a running
\* process_data, the HAL counter and queue).
TypeOK == LineTypeOK /\ CallTypeOK /\ ParserTypeOK /\ HalTypeOK

\* No store leaves the building buffer: whatever frame is under construction,
\* after extensions, kept large buffers and restarts, its next byte has room;
\* and only the store of a HEADER1 can meet a NULL buffer, never a later one.
WritesInBounds ==
  /\ head1 => building_buffer
  /\ building_buffer => Len(built) < parsing_buff_current_size

\* What has been built is exactly the last bytes of the stream before the one
\* under examination: re-scanning (i -= ...), chunk borders and restarts never
\* leave a stale, missing or repeated byte in the frame under construction.
BuiltIsWindow ==
  /\ Len(built) <= Pos
  /\ \A j \in 1 .. Len(built) : built[j] = seen[Pos - Len(built) + j]

\* Every frame handed to the HAL is a well-formed frame of the byte stream, and
\* its data is the control word, command word and payload of that frame.
GenuineIn(stream, s) ==
  LET f == SubSeq(stream, s.first, s.last) IN
    /\ 1 <= s.first /\ s.last <= Len(stream)
    /\ IsFrame(f)
    /\ s.data = SemanticData(f)
FramesGenuine == \A k \in 1 .. Len(saved) : GenuineIn(seen, saved[k])

\* Frames are handed over in stream order and never overlap: no byte is used in
\* two frames although the parser moves backwards over rejected candidates.
FramesDisjoint ==
  \A k \in 1 .. Len(saved) : \A l \in 1 .. Len(saved) :
    k < l => saved[k].last < saved[l].first

\* Between frames the building buffer has its starting size, except while a run
\* of at least three large frames is in progress (restart_parser's threshold).
LargeBufferOnlyInBursts ==
  building_buffer /\ ~head1 /\ big_frames_count < 3
    => parsing_buff_current_size = STARTING_PARSER_BUFFER_SIZE

\* Between calls the frames handed over are those an uninterrupted scan of the
\* whole stream finds, whatever the chunk borders were.
ScanAgrees ==
  pc = "idle" =>
    saved = FramesIn(seen, IF MAX_SINGLE_ALLOC < MAX_PARSER_BUFFER_SIZE
                           THEN MAX_SINGLE_ALLOC ELSE MAX_PARSER_BUFFER_SIZE)

\* How the flags, the length and the buffer size go with what has been built;
\* the strengthening of WritesInBounds that is inductive.
HeadShape ==
  /\ head1 <=> Len(built) >= 1
  /\ head2 <=> Len(built) >= 2
  /\ head1 => built[1] = HEADER1
  /\ head2 => built[2] = HEADER2
  /\ Len(built) >= PrefixLen =>
       payload_len = PayloadLen(built) /\ Len(built) < FrameSize
BufferShape ==
  /\ head1 => building_buffer
  /\ building_buffer => parsing_buff_current_size >= STARTING_PARSER_BUFFER_SIZE
  /\ Len(built) >= PrefixLen => FrameSize <= parsing_buff_current_size
AtRest == pc \in {"off", "idle"} => chunk_len = 0 /\ i = 0
LeftChunk == i < 0 => built = <<>>
Shape == HeadShape /\ BufferShape /\ AtRest /\ LeftChunk

\* Frames already handed over end before the frame under construction.
SavedBehind ==
  \A k \in 1 .. Len(saved) :
    1 <= saved[k].first /\ saved[k].last <= Pos - Len(built)

\* Bytes in blocks somebody still points to.
SizeOf(frames) == Len(FlattenSeq(frames))
Reachable ==
  (IF building_buffer THEN parsing_buff_current_size ELSE 0)
  + data_saving_buff_size + SizeOf(frame_queue) + SizeOf(held)

\* The HAL counter never falls below the memory in use (so the unsigned
\* subtraction of hal_free cannot wrap) nor exceeds the budget, although the
\* accounting of a free may be lost.
AccountCoversUse ==
  Reachable <= currently_allocated_mem /\ currently_allocated_mem <= MAX_TOTAL_ALLOC

\* When the parser has been stopped and all its frames have been released, the
\* HAL counter is back at zero: every byte allocated was given back.
NoLeak ==
  pc = "off" /\ frame_queue = <<>> /\ held = <<>> => currently_allocated_mem = 0

\* The frame under construction has begun in the chunk being parsed.
BegunHere == head1 /\ Len(built) <= chunk_len

\* What a call returns: UNFINISHED_FRAME exactly when it handed over no frame and
\* leaves one it has itself begun under construction, NO_FRAMES exactly when it
\* handed over none and leaves none of its own; so FRAME_OK and MEMORY_PROBLEM, which
\* are assigned as the chunk is parsed and may be overwritten, mean that frames were
\* handed over, however often the parser went back and whatever failed.
StatusSound ==
  [][pc = "parse" /\ pc' = "idle" =>
       /\ status' = "UNFINISHED_FRAME" <=> finished_frames' = 0 /\ BegunHere
       /\ status' = "NO_FRAMES" <=> finished_frames' = 0 /\ ~BegunHere]_vars

\* What mmwave_core_types.h says of NO_FRAMES: all bytes received were discarded, so
\* none is kept as part of a frame.  No run checks it: the code returns NO_FRAMES for
\* a chunk that only goes on with the frame an earlier one began.
StatusAsDocumented == pc = "idle" /\ status = "NO_FRAMES" => ~head1

\* The parser never stores through its NULL building buffer.
NoNullWrite == fault # "null_write"

\* No block is freed twice on the way of a frame to the queue.
NoDoubleFree == fault # "double_free"

\* Every call of mmwave_parse_data returns: moving i back over a rejected
\* candidate cannot go on for ever.
ParseReturns == pc = "parse" ~> pc # "parse"
=============================================================================
