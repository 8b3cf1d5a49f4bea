-------------------------- MODULE MmwaveFrame_proofs --------------------------
(***************************************************************************)
(* The TX and the RX direction agree on the frame format, and what a scan  *)
(* of a stream finds from one place on.                                    *)
(***************************************************************************)
EXTENDS MmwaveFrame, SequenceInduction

\* The two length bytes of a length that fits them give it back.
LEMMA LengthBytes ==
  ASSUME NEW n \in Nat, n \div 256 < 256
  PROVE  /\ (n \div 256) % 256 \in Nat /\ n % 256 \in Nat
         /\ ((n \div 256) % 256) * 256 + (n % 256) = n
<1> DEFINE q == n \div 256
<1>1. q \in Nat /\ n % 256 \in Nat /\ q < 256
  OBVIOUS
<1>2. n % 256 = n - 256 * q
  OBVIOUS
<1>3. q % 256 = q
  <2> HIDE DEF q
  <2> QED BY <1>1
<1>4. q * 256 + (n % 256) = n
  BY <1>1, <1>2
<1> QED BY <1>1, <1>3, <1>4

\* What mmwave_build_frame builds from a payload whose length fits 16 bits is a
\* well-formed frame in the eyes of the parser, and the parser reads from it the
\* control word, the command word and the payload that went in.
THEOREM BuiltFrameIsFrame ==
  ASSUME NEW payload \in Seq(Byte), NEW ctrl_w \in Byte, NEW cmd_w \in Byte,
         Len(payload) \div 256 < 256
  PROVE  /\ IsFrame(BuildFrame(payload, ctrl_w, cmd_w))
         /\ SemanticData(BuildFrame(payload, ctrl_w, cmd_w))
              = <<ctrl_w, cmd_w>> \o payload
<1> DEFINE n      == Len(payload)
           hi     == (n \div 256) % 256
           lo     == n % 256
           prefix == <<HEADER1, HEADER2, ctrl_w, cmd_w, hi, lo>>
           body   == prefix \o payload
           sum    == Checksum(body)
           f      == body \o <<sum, FOOTER1, FOOTER2>>
<1>1. BuildFrame(payload, ctrl_w, cmd_w) = f
  BY DEF BuildFrame
<1>2. n \in Nat /\ hi \in Nat /\ lo \in Nat /\ hi * 256 + lo = n
  BY LengthBytes
<1> HIDE DEF hi, lo
<1>3. /\ prefix \in Seq(Int) /\ Len(prefix) = 6 /\ payload \in Seq(Int)
      /\ prefix[1] = HEADER1 /\ prefix[2] = HEADER2 /\ prefix[3] = ctrl_w
      /\ prefix[4] = cmd_w /\ prefix[5] = hi /\ prefix[6] = lo
  <2>1. \A b \in Byte : b \in Int
    BY DEF Byte
  <2>2. ctrl_w \in Int /\ cmd_w \in Int /\ hi \in Int /\ lo \in Int
    BY <1>2, <2>1
  <2>3. HEADER1 \in Int /\ HEADER2 \in Int
    BY DEF HEADER1, HEADER2
  <2>4. payload \in Seq(Int)
    BY <2>1, SeqMonotonic
  <2> QED BY <2>2, <2>3, <2>4
<1> HIDE DEF prefix, n
<1>4. /\ body \in Seq(Int) /\ Len(body) = 6 + n
      /\ \A j \in 1 .. 6 + n : body[j] = IF j <= 6 THEN prefix[j] ELSE payload[j - 6]
  <2>1. /\ prefix \o payload \in Seq(Int)
        /\ Len(prefix \o payload) = Len(prefix) + Len(payload)
        /\ \A j \in 1 .. Len(prefix) + Len(payload) : (prefix \o payload)[j] =
              IF j <= Len(prefix) THEN prefix[j] ELSE payload[j - Len(prefix)]
    BY <1>3, ConcatProperties
  <2> QED BY <1>3, <2>1 DEF body, n
<1> HIDE DEF body
<1> DEFINE S == Int \cup {sum}
           tail == <<sum, FOOTER1, FOOTER2>>
<1>5. /\ tail \in Seq(S) /\ body \in Seq(S) /\ Len(tail) = 3
      /\ tail[1] = sum /\ tail[2] = FOOTER1 /\ tail[3] = FOOTER2
  <2>1. body \in Seq(S)
    BY <1>4, SeqMonotonic
  <2> HIDE DEF sum
  <2>2. FOOTER1 \in S /\ FOOTER2 \in S /\ sum \in S
    BY DEF FOOTER1, FOOTER2
  <2> HIDE DEF S
  <2> QED BY <2>1, <2>2
<1> HIDE DEF sum, S, tail
<1>f. f = body \o tail
  BY DEF tail
<1> HIDE DEF f
<1>6. /\ f \in Seq(S) /\ Len(f) = 9 + n
      /\ \A j \in 1 .. 6 + n : f[j] = body[j]
      /\ f[7 + n] = sum /\ f[8 + n] = FOOTER1 /\ f[9 + n] = FOOTER2
  <2>1. /\ f \in Seq(S) /\ Len(f) = 6 + n + 3
        /\ \A j \in 1 .. 6 + n + 3 :
             f[j] = IF j <= 6 + n THEN body[j] ELSE tail[j - (6 + n)]
    <3>1. /\ body \o tail \in Seq(S)
          /\ Len(body \o tail) = Len(body) + Len(tail)
          /\ \A j \in 1 .. Len(body) + Len(tail) : (body \o tail)[j] =
                IF j <= Len(body) THEN body[j] ELSE tail[j - Len(body)]
      BY <1>5, ConcatProperties
    <3> QED BY <1>4, <1>5, <1>f, <3>1
  <2>2. /\ \A j \in 1 .. 6 + n : f[j] = body[j]
        /\ f[7 + n] = tail[1] /\ f[8 + n] = tail[2] /\ f[9 + n] = tail[3]
    BY <1>2, <2>1
  <2> QED BY <1>2, <1>5, <2>1, <2>2
<1>7. /\ f[1] = HEADER1 /\ f[2] = HEADER2 /\ f[3] = ctrl_w /\ f[4] = cmd_w
      /\ f[5] = hi /\ f[6] = lo
  <2>1. \A j \in 1 .. 6 : f[j] = prefix[j]
    BY <1>2, <1>4, <1>6
  <2> QED BY <1>3, <2>1
<1>8. Len(f) = Overhead + PayloadLen(f)
  BY <1>2, <1>6, <1>7 DEF Overhead, PayloadLen
<1>9. TailOK(f)
  BY <1>2, <1>6 DEF TailOK
<1>10. SubSeq(f, 1, Len(f) - 3) = body
  <2>1. Len(f) - 3 = 6 + n
    BY <1>2, <1>6
  <2>2. /\ SubSeq(f, 1, 6 + n) \in Seq(S) /\ Len(SubSeq(f, 1, 6 + n)) = 6 + n
        /\ \A j \in 1 .. 6 + n : SubSeq(f, 1, 6 + n)[j] = f[j]
    <3>1. \A j \in 1 .. 6 + n : f[j] \in S
      BY <1>2, <1>6
    <3> QED BY <1>2, <3>1, SubSeqProperties
  <2> DEFINE cut == SubSeq(f, 1, 6 + n)
  <2>3. Len(cut) = Len(body) /\ body \in Seq(S) /\ cut \in Seq(S)
    BY <1>4, <1>5, <2>2
  <2>4. \A j \in 1 .. Len(cut) : cut[j] = body[j]
    BY <1>6, <2>2, Zenon
  <2>5. cut = body
    <3> HIDE DEF cut
    <3> QED BY <2>3, <2>4, SeqEqual
  <2> QED BY <2>1, <2>5, Zenon
<1>11. ChecksumOK(f)
  <2>1. Len(f) - 2 = 7 + n
    BY <1>2, <1>6
  <2> QED BY <1>6, <1>10, <2>1 DEF ChecksumOK, sum
<1>12. IsFrame(f)
  <2>1. Len(f) >= Overhead
    BY <1>2, <1>6 DEF Overhead
  <2> QED BY <1>7, <1>8, <1>9, <1>11, <2>1, Zenon DEF IsFrame
<1>13. SubSeq(f, PrefixLen + 1, Len(f) - 3) = payload
  <2>1. Len(f) - 3 = 6 + n /\ PrefixLen + 1 = 7
    BY <1>2, <1>6 DEF PrefixLen
  <2>2. /\ SubSeq(f, 7, 6 + n) \in Seq(S) /\ Len(SubSeq(f, 7, 6 + n)) = n
        /\ \A j \in 1 .. n : SubSeq(f, 7, 6 + n)[j] = f[6 + j]
    <3>1. \A j \in 7 .. 6 + n : f[j] \in S
      BY <1>2, <1>6
    <3> QED BY <1>2, <3>1, SubSeqProperties
  <2>3. ASSUME NEW j \in 1 .. n PROVE f[6 + j] = payload[j]
    <3>1. 6 + j \in 1 .. 6 + n /\ ~(6 + j <= 6) /\ 6 + j - 6 = j
      BY <1>2
    <3>2. f[6 + j] = body[6 + j]
      BY <1>6, <3>1
    <3>3. body[6 + j] = payload[6 + j - 6]
      BY <1>4, <3>1
    <3> QED BY <3>1, <3>2, <3>3, Zenon
  <2>4. payload \in Seq(S)
    BY <1>3, SeqMonotonic DEF S
  <2>5. Len(payload) = n
    BY DEF n
  <2>6. SubSeq(f, 7, 6 + n) = payload
    BY <2>2, <2>3, <2>4, <2>5, SeqEqual
  <2> QED BY <2>1, <2>6
<1>14. SemanticData(f) = <<ctrl_w, cmd_w>> \o payload
  BY <1>7, <1>13 DEF SemanticData
<1> QED BY <1>1, <1>12, <1>14
-----------------------------------------------------------------------------
(* The scan of a stream.                                                    *)

LEMMA SemanticDataType ==
  ASSUME NEW f \in Seq(Byte), Len(f) >= Overhead
  PROVE  SemanticData(f) \in Seq(Byte)
<1>1. f[3] \in Byte /\ f[4] \in Byte
  BY DEF Overhead
<1>2. SubSeq(f, PrefixLen + 1, Len(f) - 3) \in Seq(Byte)
  BY DEF Overhead, PrefixLen
<1> QED BY <1>1, <1>2 DEF SemanticData

\* One step of the scan, with what it finds further on in rest.
ScanAt(rest, s, limit, p) ==
  LET n    == Len(s)
      size == AnnouncedSize(s, p)
      cand == SubSeq(s, p, p + size - 1)
  IN  IF p + PrefixLen - 1 > n THEN <<>>
      ELSE IF ~HeaderAt(s, p) THEN rest[p + 1]
      ELSE IF size > limit THEN rest[p + PrefixLen]
      ELSE IF p + size - 1 > n THEN <<>>
      ELSE IF ~IsFrame(cand) THEN rest[p + 2]
      ELSE <<[first |-> p, last |-> p + size - 1,
              data |-> SemanticData(cand)]>> \o rest[p + size]

\* A prefix announces a frame of at least the bytes around the payload.
LEMMA AnnouncedType ==
  ASSUME NEW s \in Seq(Byte), NEW p \in Nat, 1 <= p, p + PrefixLen - 1 <= Len(s)
  PROVE  AnnouncedSize(s, p) \in Nat /\ AnnouncedSize(s, p) >= Overhead
<1> DEFINE hi == s[p + 4]
           lo == s[p + 5]
<1>b. hi \in Byte /\ lo \in Byte
  BY DEF PrefixLen
<1>1. hi \in Nat /\ lo \in Nat
  <2> HIDE DEF hi, lo
  <2> QED BY <1>b DEF Byte
<1>2. AnnouncedSize(s, p) = 9 + hi * 256 + lo
  BY Zenon DEF AnnouncedSize, Overhead
<1> HIDE DEF hi, lo
<1>3. 9 + hi * 256 + lo \in Nat /\ 9 + hi * 256 + lo >= 9
  BY ONLY <1>1
<1> QED BY <1>2, <1>3, Zenon DEF Overhead

LEMMA ScanAtLater ==
  ASSUME NEW s \in Seq(Byte), NEW limit \in Nat, NEW p \in 1 .. Len(s) + 1, NEW g, NEW h,
         \A q \in p + 1 .. Len(s) + 1 : g[q] = h[q]
  PROVE  ScanAt(g, s, limit, p) = ScanAt(h, s, limit, p)
<1> DEFINE n == Len(s)
           size == AnnouncedSize(s, p)
<1>1. n \in Nat
  OBVIOUS
<1>2. CASE p + PrefixLen - 1 > n
  BY <1>2 DEF ScanAt
<1>3. CASE p + PrefixLen - 1 <= n
  <2>1. size \in Nat /\ size >= 9
    BY <1>3, AnnouncedType DEF Overhead
  <2> HIDE DEF size
  <2>2. g[p + 1] = h[p + 1] /\ g[p + 2] = h[p + 2] /\ g[p + PrefixLen] = h[p + PrefixLen]
    <3>1. p + 1 \in p + 1 .. n + 1 /\ p + 2 \in p + 1 .. n + 1 /\ p + 6 \in p + 1 .. n + 1
      BY <1>1, <1>3 DEF PrefixLen
    <3> QED BY <3>1 DEF PrefixLen
  <2>3. ~(p + size - 1 > n) => g[p + size] = h[p + size]
    <3> SUFFICES ASSUME ~(p + size - 1 > n) PROVE g[p + size] = h[p + size]
      OBVIOUS
    <3>1. p + size \in p + 1 .. n + 1
      BY <1>1, <2>1
    <3> QED BY <3>1
  <2> QED BY <2>2, <2>3 DEF ScanAt, size
<1>4. PrefixLen \in Nat
  BY DEF PrefixLen
<1> QED BY <1>1, <1>2, <1>3, <1>4

\* There is a function that makes these steps, so Scan makes them.
LEMMA ScanExists ==
  ASSUME NEW s \in Seq(Byte), NEW limit \in Nat
  PROVE  \E g : g = [p \in 1 .. Len(s) + 1 |-> ScanAt(g, s, limit, p)]
<1> DEFINE n == Len(s)
           From(k) == n + 1 - k .. n + 1
           Done == {k \in Nat : k <= n =>
                      \E g : g = [p \in From(k) |-> ScanAt(g, s, limit, p)]}
<1>1. n \in Nat
  OBVIOUS
<1>2. 0 \in Done
  <2> DEFINE g == [p \in From(0) |-> <<>>]
  <2>1. ASSUME NEW p \in From(0)  PROVE ScanAt(g, s, limit, p) = <<>>
    <3>1. p + PrefixLen - 1 > n
      BY <1>1 DEF PrefixLen
    <3> QED BY <3>1 DEF ScanAt
  <2>2. g = [p \in From(0) |-> ScanAt(g, s, limit, p)]
    BY <2>1
  <2> HIDE DEF g, From
  <2> QED BY <2>2
<1>3. ASSUME NEW k \in Nat, k \in Done  PROVE k + 1 \in Done
  <2> SUFFICES ASSUME k + 1 <= n
               PROVE  \E g : g = [p \in From(k + 1) |-> ScanAt(g, s, limit, p)]
    OBVIOUS
  <2>1. PICK h : h = [p \in From(k) |-> ScanAt(h, s, limit, p)]
    BY <1>1, <1>3
  <2> DEFINE here == n - k
             g == [p \in From(k + 1) |->
                     IF p = here THEN ScanAt(h, s, limit, p) ELSE h[p]]
  <2>2. /\ From(k + 1) = {here} \cup From(k) /\ here \notin From(k)
        /\ From(k) \subseteq 1 .. n + 1 /\ here \in 1 .. n + 1
    BY <1>1
  <2>3. \A p \in From(k) : g[p] = h[p]
    BY <2>2
  <2>4. ASSUME NEW p \in From(k + 1)
        PROVE  g[p] = ScanAt(g, s, limit, p)
    <3>1. \A q \in p + 1 .. n + 1 : h[q] = g[q]
      <4>1. ASSUME NEW q \in p + 1 .. n + 1 PROVE q \in From(k)
        BY <1>1
      <4> QED BY <2>3, <4>1
    <3>2. p \in 1 .. n + 1
      BY <2>2
    <3> HIDE DEF From
    <3>3. ScanAt(h, s, limit, p) = ScanAt(g, s, limit, p)
      <4> HIDE DEF g
      <4> QED BY <3>1, <3>2, ScanAtLater
    <3>4. g[p] = ScanAt(h, s, limit, p)
      <4>1. CASE p = here
        BY <4>1
      <4>2. CASE p # here
        <5>1. p \in From(k)
          BY <2>2, <4>2
        <5> QED BY <2>1, <2>3, <5>1
      <4> QED BY <4>1, <4>2
    <3> QED BY <3>3, <3>4
  <2>5. g = [p \in From(k + 1) |-> g[p]]
    OBVIOUS
  <2> HIDE DEF g, From
  <2>6. g = [p \in From(k + 1) |-> ScanAt(g, s, limit, p)]
    BY <2>4, <2>5
  <2> QED BY <2>6
<1> HIDE DEF Done
<1>4. \A k \in Nat : k \in Done
  BY <1>2, <1>3, Induction
<1>5. PICK g : g = [p \in From(n) |-> ScanAt(g, s, limit, p)]
  BY <1>1, <1>4 DEF Done
<1>6. From(n) = 1 .. n + 1
  BY <1>1
<1> QED BY <1>5, <1>6

LEMMA ScanDef ==
  ASSUME NEW s \in Seq(Byte), NEW limit \in Nat, NEW p \in 1 .. Len(s) + 1
  PROVE  Scan(s, limit)[p] = ScanAt(Scan(s, limit), s, limit, p)
<1> DEFINE Rec(g) == g = [q \in 1 .. Len(s) + 1 |-> ScanAt(g, s, limit, q)]
<1>1. Scan(s, limit) = CHOOSE g : Rec(g)
  BY Zenon DEF Scan, ScanAt
<1>2. \E g : Rec(g)
  BY ScanExists
<1>3. Rec(Scan(s, limit))
  <2> HIDE DEF Rec
  <2> QED BY <1>1, <1>2
<1> HIDE DEF Rec
<1> DEFINE c == Scan(s, limit)
<1>4. c = [q \in 1 .. Len(s) + 1 |-> ScanAt(c, s, limit, q)]
  BY <1>3 DEF Rec
<1> HIDE DEF c
<1>5. c[p] = ScanAt(c, s, limit, p)
  BY <1>4
<1> QED BY <1>5 DEF c

\* Where no header pair stands, or none can be seen yet, the scan goes on by one.
LEMMA ScanSkip ==
  ASSUME NEW s \in Seq(Byte), NEW limit \in Nat, NEW p \in 1 .. Len(s),
         s[p] # HEADER1 \/ (p + 1 <= Len(s) /\ s[p + 1] # HEADER2)
  PROVE  Scan(s, limit)[p] = Scan(s, limit)[p + 1]
<1> DEFINE n == Len(s)
           c == Scan(s, limit)
<1>1. n \in Nat /\ p \in 1 .. n + 1 /\ p + 1 \in 1 .. n + 1
  OBVIOUS
<1>2. c[p] = ScanAt(c, s, limit, p) /\ c[p + 1] = ScanAt(c, s, limit, p + 1)
  BY <1>1, ScanDef
<1> HIDE DEF c
<1>3. CASE p + PrefixLen - 1 > n
  <2>1. p + 1 + PrefixLen - 1 > n
    BY <1>1, <1>3 DEF PrefixLen
  <2> QED BY <1>2, <1>3, <2>1 DEF ScanAt, c
<1>4. CASE ~(p + PrefixLen - 1 > n)
  <2>1. ~HeaderAt(s, p)
    BY DEF HeaderAt
  <2> QED BY <1>2, <1>4, <2>1 DEF ScanAt, c
<1> QED BY <1>3, <1>4

\* A well-formed frame is found and the scan goes on behind it.
LEMMA ScanFrame ==
  ASSUME NEW s \in Seq(Byte), NEW limit \in Nat, NEW p \in 1 .. Len(s),
         p + PrefixLen - 1 <= Len(s), HeaderAt(s, p),
         AnnouncedSize(s, p) <= limit, p + AnnouncedSize(s, p) - 1 <= Len(s),
         IsFrame(SubSeq(s, p, p + AnnouncedSize(s, p) - 1))
  PROVE  Scan(s, limit)[p] =
           <<[first |-> p, last |-> p + AnnouncedSize(s, p) - 1,
              data |-> SemanticData(SubSeq(s, p, p + AnnouncedSize(s, p) - 1))]>>
           \o Scan(s, limit)[p + AnnouncedSize(s, p)]
<1> DEFINE c == Scan(s, limit)
           size == AnnouncedSize(s, p)
<1>1. c[p] = ScanAt(c, s, limit, p)
  BY ScanDef
<1>2. size \in Nat
  BY AnnouncedType
<1>3. ~(p + PrefixLen - 1 > Len(s)) /\ ~(size > limit) /\ ~(p + size - 1 > Len(s))
  BY <1>2 DEF PrefixLen
<1> HIDE DEF c
<1> QED BY <1>1, <1>3 DEF ScanAt, c

\* A prefix or a frame that the stream has not completed ends the scan.
LEMMA ScanEnd ==
  ASSUME NEW s \in Seq(Byte), NEW limit \in Nat, NEW p \in 1 .. Len(s) + 1,
         \/ p + PrefixLen - 1 > Len(s)
         \/ /\ p + PrefixLen - 1 <= Len(s) /\ HeaderAt(s, p)
            /\ AnnouncedSize(s, p) <= limit /\ p + AnnouncedSize(s, p) - 1 > Len(s)
  PROVE  Scan(s, limit)[p] = <<>>
<1> DEFINE c == Scan(s, limit)
<1>1. c[p] = ScanAt(c, s, limit, p)
  BY ScanDef
<1> HIDE DEF c
<1>2. CASE p + PrefixLen - 1 > Len(s)
  BY <1>1, <1>2 DEF ScanAt, c
<1>3. CASE /\ p + PrefixLen - 1 <= Len(s) /\ HeaderAt(s, p)
           /\ AnnouncedSize(s, p) <= limit /\ p + AnnouncedSize(s, p) - 1 > Len(s)
  <2>1. AnnouncedSize(s, p) \in Nat
    BY <1>3, AnnouncedType
  <2>2. ~(p + PrefixLen - 1 > Len(s)) /\ ~(AnnouncedSize(s, p) > limit)
    BY <1>3, <2>1 DEF PrefixLen
  <2> QED BY <1>1, <1>3, <2>2 DEF ScanAt, c
<1> QED BY <1>2, <1>3

\* The scan finds frames with their places.
LEMMA ScanType ==
  ASSUME NEW s \in Seq(Byte), NEW limit \in Nat, NEW p \in 1 .. Len(s) + 1
  PROVE  Scan(s, limit)[p] \in Seq(SavedFrame)
<1> DEFINE n == Len(s)
           c == Scan(s, limit)
           Typed == {k \in Nat : \A q \in 1 .. n + 1 : n + 1 - k <= q => c[q] \in Seq(SavedFrame)}
<1>1. n \in Nat
  OBVIOUS
<1> HIDE DEF c
<1>2. ASSUME NEW q \in 1 .. n + 1,
             \A r \in 1 .. n + 1 : q < r => c[r] \in Seq(SavedFrame)
      PROVE  c[q] \in Seq(SavedFrame)
  <2> DEFINE size == AnnouncedSize(s, q)
             cand == SubSeq(s, q, q + size - 1)
             found == [first |-> q, last |-> q + size - 1, data |-> SemanticData(cand)]
  <2>1. c[q] = ScanAt(c, s, limit, q)
    BY ScanDef DEF c
  <2>2. <<>> \in Seq(SavedFrame)
    OBVIOUS
  <2>3. CASE q + PrefixLen - 1 > n
    BY <2>1, <2>2, <2>3 DEF ScanAt
  <2>4. CASE q + PrefixLen - 1 <= n
    <3>1. size \in Nat /\ size >= 9
      BY <2>4, AnnouncedType DEF Overhead
    <3> HIDE DEF size
    <3>2. c[q + 1] \in Seq(SavedFrame) /\ c[q + 2] \in Seq(SavedFrame)
          /\ c[q + PrefixLen] \in Seq(SavedFrame)
      <4>1. q + 1 \in 1 .. n + 1 /\ q + 2 \in 1 .. n + 1 /\ q + PrefixLen \in 1 .. n + 1
            /\ q < q + 1 /\ q < q + 2 /\ q < q + PrefixLen
        BY <1>1, <2>4 DEF PrefixLen
      <4> QED BY <1>2, <4>1
    <3>3. ASSUME q + size - 1 <= n  PROVE <<found>> \o c[q + size] \in Seq(SavedFrame)
      <4>1. q + size \in 1 .. n + 1 /\ q < q + size
        BY <1>1, <3>1, <3>3
      <4>2. c[q + size] \in Seq(SavedFrame)
        BY <1>2, <4>1
      <4>3. cand \in Seq(Byte) /\ Len(cand) >= Overhead
        <5> DEFINE e == q + size - 1
        <5>1. e \in Int /\ q \in Nat /\ q >= 1 /\ q <= e /\ e <= n /\ e - q + 1 = size
          BY <1>1, <3>1, <3>3
        <5> HIDE DEF e
        <5>2. \A j \in q .. e : s[j] \in Byte
          BY <1>1, <5>1
        <5>3. SubSeq(s, q, e) \in Seq(Byte) /\ Len(SubSeq(s, q, e)) = e - q + 1
          BY <5>1, <5>2, SubSeqProperties
        <5> QED BY <3>1, <5>1, <5>3 DEF Overhead, e
      <4>4. SemanticData(cand) \in Seq(Byte)
        BY <4>3, SemanticDataType
      <4> HIDE DEF cand
      <4>5. found \in SavedFrame
        BY <3>1, <4>4 DEF SavedFrame
      <4> HIDE DEF found
      <4>6. <<found>> \in Seq(SavedFrame)
        BY <4>5
      <4> QED BY <4>2, <4>6
    <3>4. \/ c[q] \in {<<>>, c[q + 1], c[q + 2], c[q + PrefixLen]}
          \/ q + size - 1 <= n /\ c[q] = <<found>> \o c[q + size]
      <4>1. ~(q + size - 1 > n) => q + size - 1 <= n
        BY <1>1, <3>1
      <4> QED BY <2>1, <4>1 DEF ScanAt, size
    <3> HIDE DEF found
    <3> QED BY <2>2, <3>2, <3>3, <3>4
  <2>5. PrefixLen \in Nat
    BY DEF PrefixLen
  <2> QED BY <1>1, <2>3, <2>4, <2>5
<1>3. 0 \in Typed
  <2> SUFFICES ASSUME NEW q \in 1 .. n + 1, n + 1 - 0 <= q PROVE c[q] \in Seq(SavedFrame)
    OBVIOUS
  <2>1. \A r \in 1 .. n + 1 : q < r => c[r] \in Seq(SavedFrame)
    BY <1>1
  <2> QED BY <1>2, <2>1
<1>4. ASSUME NEW k \in Nat, k \in Typed PROVE k + 1 \in Typed
  <2> SUFFICES ASSUME NEW q \in 1 .. n + 1, n + 1 - (k + 1) <= q
               PROVE  c[q] \in Seq(SavedFrame)
    OBVIOUS
  <2>1. ASSUME NEW r \in 1 .. n + 1, q < r PROVE c[r] \in Seq(SavedFrame)
    <3>1. n + 1 - k <= r
      BY <1>1, <2>1
    <3> QED BY <1>4, <3>1
  <2> QED BY <1>2, <2>1
<1> HIDE DEF Typed
<1>5. \A k \in Nat : k \in Typed
  BY <1>3, <1>4, Induction
<1>6. n \in Typed
  BY <1>1, <1>5
<1>7. n + 1 - n <= p
  BY <1>1
<1> QED BY <1>6, <1>7 DEF Typed, c
=============================================================================
