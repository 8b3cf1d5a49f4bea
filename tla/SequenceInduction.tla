-------------------------- MODULE SequenceInduction --------------------------
(***************************************************************************)
(* What the other proof modules need to know of sequences of sequences.    *)
(***************************************************************************)
EXTENDS SequencesExt, Integers, SequenceTheorems, WellFoundedInduction, TLAPS

\* Induction over the natural numbers, for a set of numbers.
LEMMA Induction ==
  ASSUME NEW S, 0 \in S, \A n \in Nat : n \in S => n + 1 \in S
  PROVE  \A n \in Nat : n \in S
<1> SUFFICES ASSUME Nat \ S # {} PROVE FALSE
  OBVIOUS
<1> DEFINE R == OpToRel(<, Nat)
           Rest == Nat \ S
<1>1. IsWellFoundedOn(R, Nat)
  BY NatLessThanWellFounded
<1>2. PICK x \in Rest : \A y \in Rest : ~(<<y, x>> \in R)
  <2> HIDE DEF R
  <2> QED BY <1>1, WFMin
<1>3. x # 0 /\ x \in Nat
  OBVIOUS
<1>4. x - 1 \in Nat /\ x - 1 \in Rest
  BY <1>3
<1>5. <<x - 1, x>> \in R
  BY <1>3, <1>4 DEF OpToRel
<1> QED BY <1>2, <1>4, <1>5

-----------------------------------------------------------------------------
(* FlattenSeq of the community modules.                                     *)

\* f holds the concatenations of the first 1, 2, .. k of ss.
Flattens(f, ss, k) ==
  \A j \in 1 .. k : f[j] = IF j = 1 THEN ss[j] ELSE f[j - 1] \o ss[j]

\* There is such a function.
LEMMA FlatteningExists ==
  ASSUME NEW S, NEW ss \in Seq(Seq(S)), Len(ss) # 0
  PROVE  \E f \in [1 .. Len(ss) -> Seq(S)] : Flattens(f, ss, Len(ss))
<1> DEFINE n == Len(ss)
           Done == {k \in Nat : k <= n => \E f \in [1 .. k -> Seq(S)] : Flattens(f, ss, k)}
<1>1. n \in Nat /\ \A j \in 1 .. n : ss[j] \in Seq(S)
  OBVIOUS
<1> HIDE DEF n
<1>2. 0 \in Done
  <2> DEFINE none == [j \in 1 .. 0 |-> <<>>]
  <2>1. none \in [1 .. 0 -> Seq(S)] /\ Flattens(none, ss, 0)
    BY DEF Flattens
  <2> HIDE DEF none
  <2> QED BY <2>1
<1>3. ASSUME NEW k \in Nat, k \in Done  PROVE k + 1 \in Done
  <2> SUFFICES ASSUME k + 1 <= n
               PROVE  \E f \in [1 .. k + 1 -> Seq(S)] : Flattens(f, ss, k + 1)
    BY DEF Done
  <2>1. PICK f \in [1 .. k -> Seq(S)] : Flattens(f, ss, k)
    BY <1>1, <1>3 DEF Done
  <2> DEFINE next == IF k = 0 THEN ss[1] ELSE f[k] \o ss[k + 1]
             g == [j \in 1 .. k + 1 |-> IF j = k + 1 THEN next ELSE f[j]]
  <2>2. next \in Seq(S)
    <3>1. CASE k = 0
      BY <1>1, <3>1
    <3>2. CASE k # 0
      <4>1. f[k] \in Seq(S) /\ ss[k + 1] \in Seq(S)
        BY <1>1, <3>2
      <4> QED BY <3>2, <4>1, ConcatProperties
    <3> QED BY <3>1, <3>2
  <2>3. g \in [1 .. k + 1 -> Seq(S)]
    <3> HIDE DEF next
    <3> QED BY <2>2
  <2>4. ASSUME NEW j \in 1 .. k + 1
        PROVE  g[j] = IF j = 1 THEN ss[j] ELSE g[j - 1] \o ss[j]
    <3>1. CASE j = k + 1
      <4>1. j # 1 => j - 1 \in 1 .. k + 1 /\ j - 1 # k + 1 /\ j - 1 = k
        BY <3>1
      <4> QED BY <3>1, <4>1
    <3>2. CASE j # k + 1
      <4>1. j \in 1 .. k
        BY <3>2
      <4>2. f[j] = IF j = 1 THEN ss[j] ELSE f[j - 1] \o ss[j]
        BY <2>1, <4>1 DEF Flattens
      <4>3. j # 1 => j - 1 \in 1 .. k + 1 /\ j - 1 # k + 1
        BY <4>1
      <4>4. g[j] = f[j] /\ (j # 1 => g[j - 1] = f[j - 1])
        BY <3>2, <4>3
      <4> QED BY <4>2, <4>4
    <3> QED BY <3>1, <3>2
  <2> HIDE DEF g
  <2> QED BY <2>3, <2>4 DEF Flattens
<1> HIDE DEF Done
<1>4. \A k \in Nat : k \in Done
  BY <1>2, <1>3, Induction
<1>5. n \in Done
  BY <1>1, <1>4
<1>6. n <= n
  BY <1>1
<1> QED BY <1>5, <1>6 DEF Done, n

\* FlattenSeq ends where such a function ends.
LEMMA FlattenIsLast ==
  ASSUME NEW S, NEW ss \in Seq(Seq(S)), Len(ss) # 0
  PROVE  \E f \in [1 .. Len(ss) -> Seq(S)] :
           Flattens(f, ss, Len(ss)) /\ FlattenSeq(ss) = f[Len(ss)]
<1> DEFINE n == Len(ss)
           Rec(f) == f = [j \in 1 .. n |-> IF j = 1 THEN ss[j] ELSE f[j - 1] \o ss[j]]
           c == CHOOSE f : Rec(f)
<1>1. n \in Nat
  OBVIOUS
<1>2. FlattenSeq(ss) = c[n]
  BY Zenon DEF FlattenSeq
<1>3. PICK f \in [1 .. n -> Seq(S)] : Flattens(f, ss, n)
  BY FlatteningExists
<1>4. Rec(f)
  BY <1>3 DEF Flattens
<1>5. Rec(c)
  <2> HIDE DEF Rec
  <2> QED BY <1>4, ZenonT(60)
<1> HIDE DEF c
<1>6. c = [j \in 1 .. n |-> c[j]]
  BY <1>5
<1>7. Flattens(c, ss, n)
  BY <1>5 DEF Flattens
<1>8. \A k \in Nat : 1 <= k /\ k <= n => c[k] \in Seq(S)
  <2> DEFINE Fine == {k \in Nat : 1 <= k /\ k <= n => c[k] \in Seq(S)}
  <2>1. 0 \in Fine
    OBVIOUS
  <2>2. ASSUME NEW k \in Nat, k \in Fine  PROVE k + 1 \in Fine
    <3> SUFFICES ASSUME k + 1 <= n PROVE c[k + 1] \in Seq(S)
      OBVIOUS
    <3> HIDE DEF c
    <3>1. c[k + 1] = IF k + 1 = 1 THEN ss[k + 1] ELSE c[k + 1 - 1] \o ss[k + 1]
      BY <1>1, <1>7 DEF Flattens
    <3>2. ss[k + 1] \in Seq(S)
      BY <1>1
    <3>3. CASE k = 0
      BY <3>1, <3>2, <3>3
    <3>4. CASE k # 0
      <4>1. c[k] \in Seq(S) /\ k + 1 # 1 /\ k + 1 - 1 = k
        BY <2>2, <3>4, <1>1
      <4> QED BY <3>1, <3>2, <4>1, ConcatProperties
    <3> QED BY <3>3, <3>4
  <2> HIDE DEF Fine
  <2>3. \A k \in Nat : k \in Fine
    BY <2>1, <2>2, Induction
  <2> QED BY <2>3 DEF Fine
<1> HIDE DEF c
<1>9. c \in [1 .. n -> Seq(S)]
  BY <1>6, <1>8
<1> QED BY <1>2, <1>7, <1>9

\* Two functions that flatten sequences with a common beginning agree on it.
LEMMA FlatteningsAgree ==
  ASSUME NEW n \in Nat, NEW f, NEW g, NEW ss, NEW tt,
         Flattens(f, ss, n), Flattens(g, tt, n), \A j \in 1 .. n : ss[j] = tt[j]
  PROVE  \A j \in 1 .. n : f[j] = g[j]
<1> DEFINE Same == {k \in Nat : 1 <= k /\ k <= n => f[k] = g[k]}
<1>1. 0 \in Same
  OBVIOUS
<1>2. ASSUME NEW k \in Nat, k \in Same  PROVE k + 1 \in Same
  <2> SUFFICES ASSUME k + 1 <= n PROVE f[k + 1] = g[k + 1]
    OBVIOUS
  <2>1. /\ f[k + 1] = IF k + 1 = 1 THEN ss[k + 1] ELSE f[k + 1 - 1] \o ss[k + 1]
        /\ g[k + 1] = IF k + 1 = 1 THEN tt[k + 1] ELSE g[k + 1 - 1] \o tt[k + 1]
    BY DEF Flattens
  <2>2. ss[k + 1] = tt[k + 1]
    OBVIOUS
  <2>3. k # 0 => f[k] = g[k]
    BY <1>2
  <2> QED BY <2>1, <2>2, <2>3
<1> HIDE DEF Same
<1>3. \A k \in Nat : k \in Same
  BY <1>1, <1>2, Induction
<1> QED BY <1>3 DEF Same

\* Nothing is flattened to nothing, and a sequence of sequences to a sequence.
LEMMA FlattenEmpty == FlattenSeq(<<>>) = <<>>
BY DEF FlattenSeq

LEMMA FlattenType ==
  ASSUME NEW S, NEW ss \in Seq(Seq(S))
  PROVE  FlattenSeq(ss) \in Seq(S)
<1>1. CASE Len(ss) = 0
  <2>1. ss = <<>> /\ <<>> \in Seq(S)
    BY <1>1
  <2>2. FlattenSeq(ss) = <<>>
    BY <2>1, FlattenEmpty
  <2> QED BY <2>1, <2>2
<1>2. CASE Len(ss) # 0
  <2>1. Len(ss) \in 1 .. Len(ss)
    BY <1>2
  <2>2. PICK f \in [1 .. Len(ss) -> Seq(S)] : FlattenSeq(ss) = f[Len(ss)]
    BY <1>2, FlattenIsLast
  <2> QED BY <2>1, <2>2
<1> QED BY <1>1, <1>2

\* What is appended to the sequence of sequences comes at the end.
LEMMA FlattenAppend ==
  ASSUME NEW S, NEW ss \in Seq(Seq(S)), NEW s \in Seq(S)
  PROVE  FlattenSeq(Append(ss, s)) = FlattenSeq(ss) \o s
<1> DEFINE n  == Len(ss)
           tt == Append(ss, s)
<1>1. /\ n \in Nat /\ tt \in Seq(Seq(S)) /\ Len(tt) = n + 1 /\ Len(tt) # 0
      /\ tt[n + 1] = s /\ \A j \in 1 .. n : tt[j] = ss[j]
  OBVIOUS
<1> HIDE DEF tt
<1>2. PICK g : Flattens(g, tt, n + 1) /\ FlattenSeq(tt) = g[n + 1]
  BY <1>1, FlattenIsLast
<1>3. g[n + 1] = IF n + 1 = 1 THEN s ELSE g[n + 1 - 1] \o s
  BY <1>1, <1>2 DEF Flattens
<1>4. CASE n = 0
  <2>1. FlattenSeq(ss) = <<>> /\ <<>> \o s = s
    BY <1>4, FlattenEmpty
  <2>2. g[n + 1] = s
    BY <1>3, <1>4
  <2> QED BY <1>2, <2>1, <2>2, Zenon DEF tt
<1>5. CASE n # 0
  <2>1. PICK f : Flattens(f, ss, n) /\ FlattenSeq(ss) = f[n]
    BY <1>5, FlattenIsLast
  <2>2. Flattens(g, tt, n)
    BY <1>1, <1>2 DEF Flattens
  <2>3. \A j \in 1 .. n : g[j] = f[j]
    <3>1. n \in Nat /\ \A j \in 1 .. n : tt[j] = ss[j]
      BY <1>1
    <3> HIDE DEF n
    <3> QED BY <2>1, <2>2, <3>1, FlatteningsAgree, SMTT(20)
  <2>4. f[n] = g[n] /\ n + 1 # 1 /\ n + 1 - 1 = n
    <3>1. n \in 1 .. n /\ n + 1 # 1 /\ n + 1 - 1 = n
      BY <1>1, <1>5
    <3> QED BY <2>3, <3>1, Zenon
  <2> QED BY <1>2, <1>3, <2>1, <2>4 DEF tt
<1> QED BY <1>4, <1>5

LEMMA Singleton ==
  ASSUME NEW S, NEW s \in Seq(S), Len(s) = 1
  PROVE  Head(s) \in S /\ s = Append(<<>>, Head(s)) /\ Tail(s) = <<>>
<1>1. s[1] \in S /\ Head(s) = s[1]
  BY ElementOfSeq
<1>2. /\ Append(<<>>, s[1]) \in Seq(S) /\ Len(Append(<<>>, s[1])) = 1
      /\ Append(<<>>, s[1])[1] = s[1]
  BY <1>1
<1>3. s = Append(<<>>, s[1])
  BY <1>2, SeqEqual
<1>4. Tail(s) \in Seq(S) /\ Len(Tail(s)) = 0
  OBVIOUS
<1> QED BY <1>1, <1>3, <1>4, EmptySeq

\* The first sequence comes first.
LEMMA FlattenTail ==
  ASSUME NEW S, NEW ss \in Seq(Seq(S)), ss # <<>>
  PROVE  FlattenSeq(ss) = Head(ss) \o FlattenSeq(Tail(ss))
<1> DEFINE Split ==
      {k \in Nat : \A tt \in Seq(Seq(S)) :
         Len(tt) = k + 1 => FlattenSeq(tt) = Head(tt) \o FlattenSeq(Tail(tt))}
<1>1. 0 \in Split
  <2> SUFFICES ASSUME NEW tt \in Seq(Seq(S)), Len(tt) = 1
               PROVE  FlattenSeq(tt) = Head(tt) \o FlattenSeq(Tail(tt))
    OBVIOUS
  <2>1. Head(tt) \in Seq(S) /\ tt = Append(<<>>, Head(tt)) /\ Tail(tt) = <<>>
    BY Singleton
  <2>2. <<>> \in Seq(Seq(S))
    OBVIOUS
  <2>3. FlattenSeq(tt) = <<>> \o Head(tt)
    BY <2>1, <2>2, FlattenAppend, FlattenEmpty
  <2>4. FlattenSeq(Tail(tt)) = <<>>
    BY <2>1, FlattenEmpty
  <2> QED BY <2>1, <2>3, <2>4, ConcatEmptySeq
<1>2. ASSUME NEW k \in Nat, k \in Split  PROVE k + 1 \in Split
  <2> SUFFICES ASSUME NEW tt \in Seq(Seq(S)), Len(tt) = k + 2
               PROVE  FlattenSeq(tt) = Head(tt) \o FlattenSeq(Tail(tt))
    OBVIOUS
  <2>1. tt # <<>>
    OBVIOUS
  <2>2. PICK front \in Seq(Seq(S)), s \in Seq(S) : tt = Append(front, s)
    BY <2>1, SequenceEmptyOrAppend
  <2>3. Len(front) = k + 1 /\ front # <<>>
    BY <2>2
  <2>4. FlattenSeq(front) = Head(front) \o FlattenSeq(Tail(front))
    BY <1>2, <2>3
  <2>5. Head(tt) = Head(front) /\ Tail(tt) = Append(Tail(front), s)
    BY <2>2, <2>3, HeadTailAppend
  <2>6. Head(front) \in Seq(S) /\ Tail(front) \in Seq(Seq(S))
    BY <2>3
  <2>7. FlattenSeq(Tail(front)) \in Seq(S)
    BY <2>6, FlattenType
  <2>8. FlattenSeq(tt) = (Head(front) \o FlattenSeq(Tail(front))) \o s
    BY <2>2, <2>4, FlattenAppend
  <2>9. FlattenSeq(Tail(tt)) = FlattenSeq(Tail(front)) \o s
    BY <2>5, <2>6, FlattenAppend
  <2>10. (Head(front) \o FlattenSeq(Tail(front))) \o s
            = Head(front) \o (FlattenSeq(Tail(front)) \o s)
    <3> DEFINE h == Head(front)
               t == FlattenSeq(Tail(front))
    <3>1. h \in Seq(S) /\ t \in Seq(S) /\ s \in Seq(S)
      BY <2>6, <2>7
    <3> HIDE DEF h, t
    <3>2. (h \o t) \o s = h \o (t \o s)
      BY ONLY <3>1, ConcatAssociative, SMTT(20)
    <3> QED BY <3>2 DEF h, t
  <2> QED BY <2>5, <2>8, <2>9, <2>10
<1> HIDE DEF Split
<1>3. \A k \in Nat : k \in Split
  BY <1>1, <1>2, Induction
<1>4. Len(ss) \in Nat /\ Len(ss) # 0
  OBVIOUS
<1>5. Len(ss) - 1 \in Split /\ Len(ss) = Len(ss) - 1 + 1
  BY <1>3, <1>4
<1> QED BY <1>5 DEF Split
=============================================================================
