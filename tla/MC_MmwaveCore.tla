---------------------------- MODULE MC_MmwaveCore ----------------------------
(***************************************************************************)
(* Instances of MmwaveCore for TLC: the sensor sends one of a few streams  *)
(* put together from frames, damaged frames and noise.  The building       *)
(* buffer starts at 11 bytes instead of 20, so that a payload of two bytes *)
(* is large and one of three bytes needs an extension.                     *)
(***************************************************************************)
EXTENDS MmwaveCore

F(payload)   == BuildFrame(payload, 1, 2)
Small        == F(<<7>>)
Exact        == F(<<7, 7>>)
Large        == F(<<1, 2, 3>>)
Larger       == F(<<1, 2, 3, 4>>)

\* Noise: a lone header byte, a header byte before a true header, other bytes.
Noise        == <<0, HEADER1, 0, HEADER1>>

\* A frame whose payload looks like the start of another frame.
Nested       == F(<<HEADER1, HEADER2, 9>>)

\* Damage: a wrong checksum byte, a wrong tail; a frame that lost what followed
\* its first n bytes; a length beyond MAX_SINGLE_ALLOC.
BadSum(f)    == [f EXCEPT ![Len(f) - 2] = (@ + 1) % 256]
BadTail(f)   == [f EXCEPT ![Len(f)] = 0]
Truncated(f, n) == SubSeq(f, 1, n)
Oversized    == [F(<<>>) EXCEPT ![5] = 1]

CleanStreams ==
  {Small \o Noise \o Large \o Small,
   Large \o Larger \o Large \o Larger \o Small,
   Exact \o Exact \o Exact \o Nested \o Exact \o Small}

\* A frame with a payload lost its last bytes; another follows at once.
DamagedPayload == {Truncated(F(<<1, 2, 3, 4, 5>>), 6) \o Small \o Small}

\* A burst of large frames, during which the buffer is kept, and the small frame that
\* ends it; a burst, then a length that cannot be served.
Burst == Large \o Large \o Large \o F(<<>>)
BurstThenOversized == {Large \o Large \o Large \o Oversized \o Small}

\* All of them are multiples of five bytes, the smaller of the two chunks.
DamagedStreams ==
  {BadSum(Small) \o Small, Small \o BadSum(Small), BadTail(Large) \o Larger,
   BadTail(F(<<>>)) \o Exact, Oversized \o Exact, Small \o Small, Burst}

\* The streams of the instance in which nothing fails meet the hypotheses of the
\* theorems about undisturbed parsing.
Starts(w) == LET found == FramesIn(w, 13) IN {found[k].first : k \in DOMAIN found}

ASSUME UndisturbedInstance ==
  ~AllocMayFail => /\ Ample(13, 14) /\ MaxCycles <= 1
                   /\ \A w \in Streams : Undamaged(w, Starts(w), 13)
=============================================================================
