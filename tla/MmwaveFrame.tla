----------------------------- MODULE MmwaveFrame -----------------------------
(***************************************************************************)
(* The frame format of the mmWave sensor: what mmwave_build_frame emits    *)
(* for the TX direction, and the definition of a well-formed frame against *)
(* which the receive parser of module MmwaveCore is judged.                *)
(*                                                                         *)
(*   HEADER1 HEADER2 ctrl cmd lenHi lenLo payload* checksum FOOTER1 FOOTER2*)
(***************************************************************************)
EXTENDS Integers, Sequences

Byte == 0 .. 255

HEADER1 == 83    \* 0x53
HEADER2 == 89    \* 0x59
FOOTER1 == 84    \* 0x54
FOOTER2 == 67    \* 0x43

\* Bytes of a frame around its payload, and before the payload.
Overhead == 9
PrefixLen == 6

\* The low byte of the sum of the bytes of s (a uint16_t sum wraps at a
\* multiple of 256, so its width does not show).
Checksum(s) ==
  LET sum[n \in 0 .. Len(s)] == IF n = 0 THEN 0 ELSE (sum[n - 1] + s[n]) % 256
  IN  sum[Len(s)]

\* payload_len as the two length bytes of the prefix f announce it.
PayloadLen(f) == f[5] * 256 + f[6]

\* mmwave_build_frame: the length is cut to 16 bits, the payload is not.
BuildFrame(payload, ctrl_w, cmd_w) ==
  LET n      == Len(payload)
      prefix == <<HEADER1, HEADER2, ctrl_w, cmd_w, (n \div 256) % 256, n % 256>>
      body   == prefix \o payload
  IN  body \o <<Checksum(body), FOOTER1, FOOTER2>>

\* The tail and checksum tests of process_data on a complete candidate f.
TailOK(f) == f[Len(f) - 1] = FOOTER1 /\ f[Len(f)] = FOOTER2
ChecksumOK(f) == f[Len(f) - 2] = Checksum(SubSeq(f, 1, Len(f) - 3))

\* The part of a frame the upper layers use: control word, command word, payload.
SemanticData(f) == <<f[3], f[4]>> \o SubSeq(f, PrefixLen + 1, Len(f) - 3)

\* A well-formed frame.
IsFrame(f) ==
  /\ Len(f) >= Overhead
  /\ f[1] = HEADER1 /\ f[2] = HEADER2
  /\ Len(f) = Overhead + PayloadLen(f)
  /\ TailOK(f) /\ ChecksumOK(f)

\* A header pair stands at p of s, and the size of the frame it announces.
HeaderAt(s, p) == s[p] = HEADER1 /\ s[p + 1] = HEADER2
AnnouncedSize(s, p) == Overhead + s[p + 4] * 256 + s[p + 5]

\* A frame with the places of its first and its last byte in the stream.
SavedFrame == [first : Int, last : Nat, data : Seq(Byte)]

\* What an uninterrupted scan of s finds from each place on: a candidate starts at a
\* header pair; one longer than limit is given up after its prefix, a malformed one is
\* scanned again behind its header pair, and an incomplete one ends the scan.
Scan(s, limit) ==
  LET n == Len(s)
      from[p \in 1 .. n + 1] ==
        LET size == AnnouncedSize(s, p)
            cand == SubSeq(s, p, p + size - 1)
        IN  IF p + PrefixLen - 1 > n THEN <<>>
            ELSE IF ~HeaderAt(s, p) THEN from[p + 1]
            ELSE IF size > limit THEN from[p + PrefixLen]
            ELSE IF p + size - 1 > n THEN <<>>
            ELSE IF ~IsFrame(cand) THEN from[p + 2]
            ELSE <<[first |-> p, last |-> p + size - 1,
                    data |-> SemanticData(cand)]>> \o from[p + size]
  IN  from

\* The frames of s.
FramesIn(s, limit) == Scan(s, limit)[1]
=============================================================================
