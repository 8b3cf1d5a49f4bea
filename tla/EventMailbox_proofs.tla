-------------------------- MODULE EventMailbox_proofs --------------------------
(***************************************************************************)
(* Proofs about the report queue, for any set of pollers, any length of    *)
(* the queue and any number of reports.                                    *)
(***************************************************************************)
EXTENDS EventMailbox, SequenceTheorems, TLAPS

\* A step of the specification by its action.
Step ==
  \/ Malloc \/ PutLock \/ PutSend \/ PutDrop \/ PutResend \/ PutUnlock
  \/ \E p \in Pollers :
       \/ PollCall(p) \/ PollLock(p) \/ PollTake(p) \/ PollTimeout(p)
       \/ PollDeleted(p) \/ PollCopy(p) \/ PollUnlock(p)
  \/ DecoderEnds \/ DeleteMutex \/ DeleteQueue \/ Stopped

LEMMA NextIsStep == Next => Step
BY DEF Next, Step, OnReport, Poll, Stop

\* The mutex has at most one owner.
LEMMA OneOwner ==
  ASSUME Excluded, NEW p \in Pollers, poll[p] \in {"wait", "copy", "unlock"}
  PROVE  /\ mutex = p
         /\ put \notin {"send", "drop", "resend", "unlock"}
         /\ \A q \in Pollers \ {p} : poll[q] \notin {"wait", "copy", "unlock"}
BY MailboxAssumption DEF Excluded, MailboxAssumption

\* What Append and Tail do to the queue.
LEMMA QueueGrows ==
  ASSUME NEW q \in Seq(1 .. Reports), NEW r \in 1 .. Reports
  PROVE  /\ Append(q, r) \in Seq(1 .. Reports)
         /\ Len(q) \in Nat /\ Len(Append(q, r)) = Len(q) + 1
         /\ \A k \in 1 .. Len(q) : Append(q, r)[k] = q[k]
         /\ Append(q, r)[Len(q) + 1] = r
         /\ Range(Append(q, r)) = Range(q) \cup {r}
<1>1. /\ Append(q, r) \in Seq(1 .. Reports)
      /\ Len(q) \in Nat /\ Len(Append(q, r)) = Len(q) + 1
      /\ \A k \in 1 .. Len(q) : Append(q, r)[k] = q[k]
      /\ Append(q, r)[Len(q) + 1] = r
  OBVIOUS
<1>2. Range(Append(q, r)) = Range(q) \cup {r}
  <2>1. DOMAIN q = 1 .. Len(q) /\ DOMAIN Append(q, r) = 1 .. Len(q) + 1
    BY <1>1, LenProperties
  <2>2. 1 .. Len(q) + 1 = (1 .. Len(q)) \cup {Len(q) + 1}
    BY <1>1
  <2>3. ASSUME NEW k \in 1 .. Len(q) + 1 PROVE Append(q, r)[k] \in Range(q) \cup {r}
    <3>1. CASE k \in 1 .. Len(q)
      BY <1>1, <2>1, <3>1, Zenon DEF Range
    <3>2. CASE k = Len(q) + 1
      BY <1>1, <3>2, Zenon
    <3> QED BY <2>2, <3>1, <3>2, Zenon
  <2>4. ASSUME NEW k \in 1 .. Len(q) PROVE q[k] \in Range(Append(q, r))
    <3>1. k \in 1 .. Len(q) + 1 /\ q[k] = Append(q, r)[k]
      BY <1>1, <2>2, Zenon
    <3> QED BY <2>1, <3>1, Zenon DEF Range
  <2>5. r \in Range(Append(q, r))
    <3>1. Len(q) + 1 \in 1 .. Len(q) + 1
      BY <2>2, Zenon
    <3> QED BY <1>1, <2>1, <3>1, Zenon DEF Range
  <2> QED BY <2>1, <2>3, <2>4, <2>5, Zenon DEF Range
<1> QED BY <1>1, <1>2

LEMMA QueueShrinks ==
  ASSUME NEW q \in Seq(1 .. Reports), q # <<>>
  PROVE  /\ Head(q) \in 1 .. Reports /\ Tail(q) \in Seq(1 .. Reports)
         /\ Len(q) \in Nat \ {0} /\ Len(Tail(q)) = Len(q) - 1 /\ q[1] = Head(q)
         /\ \A k \in 1 .. Len(Tail(q)) : Tail(q)[k] = q[k + 1]
         /\ Range(q) = Range(Tail(q)) \cup {Head(q)}
<1>1. /\ Head(q) \in 1 .. Reports /\ Tail(q) \in Seq(1 .. Reports)
      /\ Len(q) \in Nat \ {0} /\ Len(Tail(q)) = Len(q) - 1
      /\ \A k \in 1 .. Len(Tail(q)) : Tail(q)[k] = q[k + 1]
  BY HeadTailProperties, EmptySeq
<1>2. q[1] = Head(q)
  OBVIOUS
<1>3. Range(q) = Range(Tail(q)) \cup {Head(q)}
  <2>1. DOMAIN q = 1 .. Len(q) /\ DOMAIN Tail(q) = 1 .. Len(q) - 1
    BY <1>1, LenProperties
  <2>2. ASSUME NEW k \in 1 .. Len(q) PROVE q[k] \in Range(Tail(q)) \cup {Head(q)}
    <3>1. CASE k = 1
      BY <1>2, <3>1
    <3>2. CASE k # 1
      <4>1. k - 1 \in 1 .. Len(q) - 1 /\ (k - 1) + 1 = k
        BY <1>1, <2>2, <3>2
      <4>2. Tail(q)[k - 1] = q[k]
        BY <1>1, <4>1
      <4> QED BY <2>1, <4>1, <4>2 DEF Range
    <3> QED BY <3>1, <3>2
  <2>3. ASSUME NEW k \in 1 .. Len(q) - 1 PROVE Tail(q)[k] \in Range(q)
    <3>1. k + 1 \in 1 .. Len(q) /\ Tail(q)[k] = q[k + 1]
      BY <1>1, <2>3
    <3> QED BY <2>1, <3>1 DEF Range
  <2>4. Head(q) \in Range(q)
    BY <1>1, <1>2, <2>1 DEF Range
  <2> QED BY <2>1, <2>2, <2>3, <2>4 DEF Range
<1> QED BY <1>1, <1>2, <1>3

-----------------------------------------------------------------------------
(* The mutex.                                                               *)

LEMMA NextExcluded == TypeOK /\ Excluded /\ [Next]_vars => Excluded'
<1> SUFFICES ASSUME TypeOK, Excluded, [Next]_vars PROVE Excluded'
  OBVIOUS
<1>1. CASE Malloc
  BY <1>1 DEF TypeOK, Excluded, Malloc, pollerVars
<1>2. CASE PutLock
  BY <1>2, MailboxAssumption
     DEF TypeOK, Excluded, MailboxAssumption, PutLock, pollerVars
<1>3. CASE PutSend
  BY <1>3 DEF TypeOK, Excluded, PutSend, Full, pollerVars
<1>4. CASE PutDrop
  BY <1>4 DEF TypeOK, Excluded, PutDrop, pollerVars
<1>5. CASE PutResend
  BY <1>5 DEF TypeOK, Excluded, PutResend, Full, pollerVars
<1>6. CASE PutUnlock
  BY <1>6, MailboxAssumption
     DEF TypeOK, Excluded, MailboxAssumption, PutUnlock, pollerVars
<1>7. ASSUME NEW p \in Pollers,
            PollCall(p) \/ PollLock(p) \/ PollTake(p) \/ PollTimeout(p)
              \/ PollDeleted(p) \/ PollCopy(p) \/ PollUnlock(p)
      PROVE  Excluded'
  <2>1. CASE PollCall(p)
    BY <2>1 DEF TypeOK, Excluded, PollCall, producerVars
  <2>2. CASE PollLock(p)
    <3> DEFINE in == {"wait", "copy", "unlock"}
    <3>1. /\ Up /\ poll[p] = "lock" /\ put' = put /\ stage' = stage
      BY <2>2 DEF PollLock, producerVars
    <3>2. CASE MayEnter /\ mutex' = p /\ poll' = [poll EXCEPT ![p] = "wait"]
      <4>1. mutex = None /\ put \notin {"send", "drop", "resend", "unlock"}
        BY <3>2, MailboxAssumption DEF Excluded, MayEnter, MailboxAssumption
      <4>2. \A q \in Pollers : poll[q] \notin in
        BY <4>1, MailboxAssumption DEF Excluded, MailboxAssumption
      <4>3. poll'[p] \in in /\ \A q \in Pollers \ {p} : poll'[q] = poll[q]
        BY <3>2 DEF TypeOK
      <4> QED BY <3>1, <3>2, <4>1, <4>2, <4>3, MailboxAssumption
              DEF Excluded, MailboxAssumption
    <3>3. CASE UNCHANGED <<mutex, poll>>
      BY <3>1, <3>3 DEF Excluded
    <3> QED BY <2>2, <3>2, <3>3 DEF PollLock
  <2>3. CASE PollTake(p)
    BY <2>3 DEF TypeOK, Excluded, PollTake, producerVars
  <2>4. CASE PollTimeout(p)
    <3>1. /\ poll[p] = "wait" /\ poll' = [poll EXCEPT ![p] = "unlock"]
          /\ put' = put /\ stage' = stage /\ mutex' = mutex
      BY <2>4 DEF PollTimeout, producerVars
    <3>2. poll'[p] = "unlock" /\ \A q \in Pollers \ {p} : poll'[q] = poll[q]
      BY <3>1 DEF TypeOK
    <3> QED BY <3>1, <3>2 DEF Excluded
  <2>5. CASE PollDeleted(p)
    BY <2>5 DEF TypeOK, Excluded, PollDeleted, pollerVars, producerVars
  <2>6. CASE PollCopy(p)
    BY <2>6 DEF TypeOK, Excluded, PollCopy, producerVars
  <2>7. CASE PollUnlock(p)
    BY <2>7, MailboxAssumption
       DEF TypeOK, Excluded, MailboxAssumption, PollUnlock, Leave, producerVars
  <2> QED BY <1>7, <2>1, <2>2, <2>3, <2>4, <2>5, <2>6, <2>7
<1>8. CASE DecoderEnds
  BY <1>8 DEF TypeOK, Excluded, DecoderEnds, StopStep, pollerVars, producerVars
<1>9. CASE DeleteMutex
  BY <1>9 DEF TypeOK, Excluded, DeleteMutex, StopStep, pollerVars, producerVars
<1>10. CASE DeleteQueue
  BY <1>10 DEF TypeOK, Excluded, DeleteQueue, StopStep, pollerVars, producerVars
<1>11. CASE Stopped
  BY <1>11 DEF TypeOK, Excluded, Stopped, StopStep, pollerVars, producerVars
<1>12. CASE UNCHANGED vars
  BY <1>12 DEF TypeOK, Excluded, vars
<1> QED BY <1>1, <1>2, <1>3, <1>4, <1>5, <1>6, <1>7, <1>8, <1>9, <1>10, <1>11, <1>12,
           NextIsStep DEF Step

LEMMA NextRoomMade == TypeOK /\ Excluded /\ RoomMade /\ [Next]_vars => RoomMade'
<1> SUFFICES ASSUME TypeOK, Excluded, RoomMade, [Next]_vars PROVE RoomMade'
  OBVIOUS
<1>1. CASE Malloc
  BY <1>1 DEF TypeOK, Excluded, RoomMade, Malloc, pollerVars
<1>2. CASE PutLock
  BY <1>2 DEF TypeOK, Excluded, RoomMade, PutLock, pollerVars
<1>3. CASE PutSend
  BY <1>3, MailboxAssumption
     DEF TypeOK, Excluded, RoomMade, MailboxAssumption, PutSend, Full, pollerVars
<1>4. CASE PutDrop
  <2>1. Len(queue) = APP_EVENT_QUEUE_LEN /\ queue \in Seq(1 .. Reports) /\ queue # <<>>
    BY <1>4, MailboxAssumption DEF PutDrop, RoomMade, TypeOK, MailboxAssumption
  <2>2. Len(queue') = Len(queue) - 1 /\ put' = "resend"
    BY <1>4, <2>1, QueueShrinks DEF PutDrop
  <2> QED BY <2>1, <2>2 DEF RoomMade
<1>5. CASE PutResend
  BY <1>5 DEF TypeOK, Excluded, RoomMade, PutResend, Full, pollerVars
<1>6. CASE PutUnlock
  BY <1>6 DEF TypeOK, Excluded, RoomMade, PutUnlock, pollerVars
<1>7. ASSUME NEW p \in Pollers,
            PollCall(p) \/ PollLock(p) \/ PollTake(p) \/ PollTimeout(p)
              \/ PollDeleted(p) \/ PollCopy(p) \/ PollUnlock(p)
      PROVE  RoomMade'
  <2>1. CASE PollCall(p)
    BY <2>1 DEF TypeOK, Excluded, RoomMade, PollCall, producerVars
  <2>2. CASE PollLock(p)
    BY <2>2 DEF TypeOK, Excluded, RoomMade, PollLock, MayEnter, producerVars
  <2>3. CASE PollTake(p)
    BY <2>3, OneOwner DEF TypeOK, Excluded, RoomMade, PollTake, producerVars
  <2>4. CASE PollTimeout(p)
    BY <2>4, OneOwner DEF TypeOK, Excluded, RoomMade, PollTimeout, producerVars
  <2>5. CASE PollDeleted(p)
    BY <2>5 DEF TypeOK, Excluded, RoomMade, PollDeleted, pollerVars, producerVars
  <2>6. CASE PollCopy(p)
    BY <2>6, OneOwner DEF TypeOK, Excluded, RoomMade, PollCopy, producerVars
  <2>7. CASE PollUnlock(p)
    BY <2>7, OneOwner
       DEF TypeOK, Excluded, RoomMade, PollUnlock, Leave, producerVars
  <2> QED BY <1>7, <2>1, <2>2, <2>3, <2>4, <2>5, <2>6, <2>7
<1>8. CASE DecoderEnds
  BY <1>8
     DEF TypeOK, Excluded, RoomMade, DecoderEnds, StopStep, pollerVars, producerVars
<1>9. CASE DeleteMutex
  BY <1>9
     DEF TypeOK, Excluded, RoomMade, DeleteMutex, StopStep, pollerVars, producerVars
<1>10. CASE DeleteQueue
  BY <1>10
     DEF TypeOK, Excluded, RoomMade, DeleteQueue, StopStep, pollerVars, producerVars
<1>11. CASE Stopped
  BY <1>11
     DEF TypeOK, Excluded, RoomMade, Stopped, StopStep, pollerVars, producerVars
<1>12. CASE UNCHANGED vars
  BY <1>12 DEF TypeOK, Excluded, RoomMade, vars
<1> QED BY <1>1, <1>2, <1>3, <1>4, <1>5, <1>6, <1>7, <1>8, <1>9, <1>10, <1>11, <1>12,
           NextIsStep DEF Step

-----------------------------------------------------------------------------
(* Types.                                                                   *)

LEMMA NextType == TypeOK /\ Numbered /\ [Next]_vars => TypeOK'
<1> SUFFICES ASSUME TypeOK, Numbered, [Next]_vars PROVE TypeOK'
  OBVIOUS
<1>1. CASE Malloc
  <2>1. /\ decoded' = decoded + 1 /\ decoded + 1 \in 1 .. Reports
        /\ \/ put' = "lock" /\ heap' = heap \cup {decoded'}
           \/ UNCHANGED <<put, heap>>
    BY <1>1, MailboxAssumption DEF Malloc, TypeOK, MailboxAssumption
  <2>2. heap' \subseteq 1 .. Reports
    BY <2>1 DEF TypeOK
  <2>3. put' \in {"idle", "lock", "send", "drop", "resend", "unlock"}
    BY <2>1 DEF TypeOK
  <2>4. decoded' \in 0 .. Reports
    BY <2>1, MailboxAssumption DEF MailboxAssumption
  <2> QED BY <1>1, <2>2, <2>3, <2>4 DEF TypeOK, Malloc, pollerVars
<1>2. CASE PutLock
  BY <1>2, MailboxAssumption DEF TypeOK, MailboxAssumption, PutLock, pollerVars
<1>3. CASE PutSend
  <2>1. CASE ~Full /\ queue' = Append(queue, decoded) /\ put' = "unlock"
    <3>1. decoded \in 1 .. Reports /\ Len(queue) < APP_EVENT_QUEUE_LEN
      BY <1>3, <2>1, MailboxAssumption
         DEF PutSend, Numbered, Pending, TypeOK, Full, MailboxAssumption
    <3>2. queue' \in Seq(1 .. Reports) /\ Len(queue') <= APP_EVENT_QUEUE_LEN
      BY <2>1, <3>1, QueueGrows, MailboxAssumption DEF TypeOK, MailboxAssumption
    <3> QED BY <1>3, <2>1, <3>2 DEF TypeOK, PutSend, pollerVars
  <2>2. CASE put' = "drop" /\ UNCHANGED queue
    BY <1>3, <2>2 DEF TypeOK, PutSend, pollerVars
  <2> QED BY <1>3, <2>1, <2>2 DEF PutSend
<1>4. CASE PutDrop
  <2>1. CASE queue = <<>>
    <3>1. /\ garbage' = 0 /\ queue' = queue /\ heap' \subseteq heap
          /\ fault' = "wild_free" /\ put' = "resend"
          /\ UNCHANGED <<decoded, mutex, poll, taken, out, stage>>
      BY <1>4, <2>1 DEF PutDrop, pollerVars
    <3>2. 0 \in 0 .. Reports
      BY MailboxAssumption DEF MailboxAssumption
    <3> QED BY <3>1, <3>2 DEF TypeOK
  <2>2. CASE queue # <<>>
    <3>1. /\ garbage' = Head(queue) /\ queue' = Tail(queue)
          /\ heap' \subseteq heap /\ fault' = fault
      BY <1>4, <2>2 DEF PutDrop
    <3>2. /\ garbage' \in 0 .. Reports /\ queue' \in Seq(1 .. Reports)
          /\ Len(queue') <= APP_EVENT_QUEUE_LEN
      BY <2>2, <3>1, QueueShrinks, MailboxAssumption DEF TypeOK, MailboxAssumption
    <3> QED BY <1>4, <3>1, <3>2 DEF TypeOK, PutDrop, pollerVars
  <2> QED BY <2>1, <2>2
<1>5. CASE PutResend
  <2>1. decoded \in 1 .. Reports
    BY <1>5 DEF PutResend, Numbered, Pending, TypeOK
  <2>2. queue' \in Seq(1 .. Reports) /\ Len(queue') <= APP_EVENT_QUEUE_LEN
    <3>1. CASE Full
      BY <1>5, <3>1 DEF TypeOK, PutResend
    <3>2. CASE ~Full
      BY <1>5, <2>1, <3>2, QueueGrows, MailboxAssumption
         DEF TypeOK, PutResend, Full, MailboxAssumption
    <3> QED BY <3>1, <3>2
  <2>3. heap' \subseteq 1 .. Reports /\ 0 \in 0 .. Reports
    BY <1>5, MailboxAssumption DEF TypeOK, PutResend, MailboxAssumption
  <2> QED BY <1>5, <2>2, <2>3 DEF TypeOK, PutResend, pollerVars
<1>6. CASE PutUnlock
  BY <1>6 DEF TypeOK, PutUnlock, pollerVars
<1>7. ASSUME NEW p \in Pollers,
            PollCall(p) \/ PollLock(p) \/ PollTake(p) \/ PollTimeout(p)
              \/ PollDeleted(p) \/ PollCopy(p) \/ PollUnlock(p)
      PROVE  TypeOK'
  <2>1. CASE PollCall(p)
    BY <2>1 DEF TypeOK, PollCall, producerVars
  <2>2. CASE PollLock(p)
    BY <2>2 DEF TypeOK, PollLock, MayEnter, producerVars
  <2>3. CASE PollTake(p)
    <3>1. /\ Head(queue) \in 0 .. Reports /\ Tail(queue) \in Seq(1 .. Reports)
          /\ Len(Tail(queue)) <= APP_EVENT_QUEUE_LEN
      BY <2>3, QueueShrinks, MailboxAssumption DEF PollTake, TypeOK, MailboxAssumption
    <3>2. /\ taken' = [taken EXCEPT ![p] = Head(queue)] /\ queue' = Tail(queue)
          /\ poll' = [poll EXCEPT ![p] = "copy"]
      BY <2>3 DEF PollTake
    <3>3. taken' \in [Pollers -> 0 .. Reports]
      BY <3>1, <3>2 DEF TypeOK
    <3>4. poll' \in [Pollers -> {"idle", "lock", "wait", "copy", "unlock"}]
      BY <3>2 DEF TypeOK
    <3> QED BY <2>3, <3>1, <3>2, <3>3, <3>4 DEF TypeOK, PollTake, producerVars
  <2>4. CASE PollTimeout(p)
    BY <2>4 DEF TypeOK, PollTimeout, producerVars
  <2>5. CASE PollDeleted(p)
    BY <2>5 DEF TypeOK, PollDeleted, pollerVars, producerVars
  <2>6. CASE PollCopy(p)
    <3>1. taken[p] \in 1 .. Reports
      BY <2>6 DEF PollCopy, Numbered, TypeOK
    <3>2. out' = Append(out, taken[p]) /\ heap' \subseteq heap
          /\ taken' = [taken EXCEPT ![p] = 0] /\ poll' = [poll EXCEPT ![p] = "unlock"]
      BY <2>6 DEF PollCopy
    <3>3. out' \in Seq(1 .. Reports)
      BY <3>1, <3>2, QueueGrows DEF TypeOK
    <3>4. taken' \in [Pollers -> 0 .. Reports]
          /\ poll' \in [Pollers -> {"idle", "lock", "wait", "copy", "unlock"}]
      BY <3>2, MailboxAssumption DEF TypeOK, MailboxAssumption
    <3> QED BY <2>6, <3>2, <3>3, <3>4 DEF TypeOK, PollCopy, producerVars
  <2>7. CASE PollUnlock(p)
    BY <2>7 DEF TypeOK, PollUnlock, Leave, producerVars
  <2> QED BY <1>7, <2>1, <2>2, <2>3, <2>4, <2>5, <2>6, <2>7
<1>8. CASE DecoderEnds
  BY <1>8 DEF TypeOK, DecoderEnds, StopStep, pollerVars, producerVars
<1>9. CASE DeleteMutex
  BY <1>9 DEF TypeOK, DeleteMutex, StopStep, pollerVars, producerVars
<1>10. CASE DeleteQueue
  <2>1. <<>> \in Seq(1 .. Reports) /\ Len(<<>>) = 0
    BY EmptySeq
  <2> QED BY <1>10, <2>1, MailboxAssumption
          DEF TypeOK, DeleteQueue, StopStep, pollerVars, producerVars, MailboxAssumption
<1>11. CASE Stopped
  BY <1>11 DEF TypeOK, Stopped, StopStep, pollerVars, producerVars
<1>12. CASE UNCHANGED vars
  BY <1>12 DEF TypeOK, vars
<1> QED BY <1>1, <1>2, <1>3, <1>4, <1>5, <1>6, <1>7, <1>8, <1>9, <1>10, <1>11, <1>12,
           NextIsStep DEF Step

-----------------------------------------------------------------------------
(* The order of the reports.                                                *)

LEMMA SettledType ==
  ASSUME TypeOK
  PROVE  decoded \in Int /\ Settled \in Int /\ Len(queue) \in Nat
         /\ \A k \in 1 .. Len(queue) : queue[k] \in Int
BY MailboxAssumption, ElementOfSeq DEF TypeOK, Settled, MailboxAssumption

\* Steps that leave the queue alone and put nothing new into a poller's hand.
LEMMA OrderKept ==
  ASSUME TypeOK, TypeOK', Numbered, queue' = queue,
         Settled <= Settled', Pending' => decoded' >= 1,
         \A p \in Pollers :
           poll'[p] = "copy" => poll[p] = "copy" /\ taken'[p] = taken[p]
  PROVE  Numbered'
<1>1. Settled \in Int /\ Settled' \in Int
  BY SettledType DEF TypeOK, Settled, MailboxAssumption
<1>2. \A k \in 1 .. Len(queue) : queue[k] \in Int
  BY SettledType
<1>3. \A p \in Pollers : taken[p] \in Int
  BY MailboxAssumption DEF TypeOK, MailboxAssumption
<1>4. \A k \in 1 .. Len(queue) : queue[k] <= Settled'
  BY <1>1, <1>2 DEF Numbered
<1>5. \A p \in Pollers : poll'[p] = "copy" =>
         /\ 1 <= taken'[p] /\ taken'[p] <= Settled'
         /\ \A k \in 1 .. Len(queue) : taken'[p] < queue[k]
  BY <1>1, <1>3 DEF Numbered
<1> QED BY <1>4, <1>5 DEF Numbered

\* The report that is put is younger than all others.
LEMMA OrderGrows ==
  ASSUME TypeOK, TypeOK', Numbered, Pending, ~Pending', decoded' = decoded,
         queue' = Append(queue, decoded), poll' = poll, taken' = taken
  PROVE  Numbered'
<1>1. /\ decoded \in 1 .. Reports /\ Settled = decoded - 1 /\ Settled' = decoded
      /\ queue \in Seq(1 .. Reports) /\ Len(queue) \in Nat
  BY MailboxAssumption DEF Numbered, TypeOK, Settled, MailboxAssumption
<1>2. /\ Len(queue') = Len(queue) + 1 /\ queue'[Len(queue) + 1] = decoded
      /\ \A k \in 1 .. Len(queue) : queue'[k] = queue[k] /\ queue[k] \in Int
  <2>1. /\ Len(queue') = Len(queue) + 1 /\ queue'[Len(queue) + 1] = decoded
        /\ \A k \in 1 .. Len(queue) : queue'[k] = queue[k]
    BY <1>1, QueueGrows
  <2> QED BY <2>1, SettledType
<1>3. \A k \in 1 .. Len(queue) : queue[k] < decoded
  BY <1>1, <1>2 DEF Numbered
<1>4. ASSUME NEW j \in 1 .. Len(queue'), NEW k \in 1 .. Len(queue'), j < k
      PROVE  queue'[j] < queue'[k]
  <2>1. j \in 1 .. Len(queue)
    BY <1>1, <1>2, <1>4
  <2>2. CASE k = Len(queue) + 1
    BY <1>2, <1>3, <2>1, <2>2
  <2>3. CASE k \in 1 .. Len(queue)
    <3>1. queue[j] < queue[k]
      BY <1>4, <2>1, <2>3 DEF Numbered
    <3> QED BY <1>2, <2>1, <2>3, <3>1
  <2> QED BY <1>1, <1>2, <2>2, <2>3
<1>5. ASSUME NEW k \in 1 .. Len(queue') PROVE queue'[k] <= Settled'
  <2>1. k \in 1 .. Len(queue) \/ k = Len(queue) + 1
    BY <1>1, <1>2
  <2> QED BY <1>1, <1>2, <1>3, <2>1
<1>6. ASSUME NEW p \in Pollers, poll[p] = "copy"
      PROVE  /\ 1 <= taken[p] /\ taken[p] <= Settled'
             /\ \A k \in 1 .. Len(queue') : taken[p] < queue'[k]
  <2>1. /\ taken[p] \in Int /\ 1 <= taken[p] /\ taken[p] <= decoded - 1
        /\ \A k \in 1 .. Len(queue) : taken[p] < queue[k]
    BY <1>1, <1>6, MailboxAssumption DEF Numbered, TypeOK, MailboxAssumption
  <2>2. ASSUME NEW k \in 1 .. Len(queue') PROVE taken[p] < queue'[k]
    <3>1. k \in 1 .. Len(queue) \/ k = Len(queue) + 1
      BY <1>1, <1>2
    <3> QED BY <1>1, <1>2, <2>1, <3>1
  <2> QED BY <1>1, <2>1, <2>2
<1> QED BY <1>4, <1>5, <1>6 DEF Numbered

\* Without its head the queue is as ordered as before.
LEMMA OrderOfTail ==
  ASSUME TypeOK, Numbered, queue # <<>>, NEW rest, rest = Tail(queue)
  PROVE  /\ Len(rest) \in Nat
         /\ \A j \in 1 .. Len(rest) : \A k \in 1 .. Len(rest) :
              j < k => rest[j] < rest[k]
         /\ \A k \in 1 .. Len(rest) : rest[k] <= Settled /\ Head(queue) < rest[k]
         /\ \A p \in Pollers : poll[p] = "copy" =>
              \A k \in 1 .. Len(rest) : taken[p] < rest[k]
         /\ 1 <= Head(queue) /\ Head(queue) <= Settled
<1>1. /\ Len(queue) \in Nat \ {0} /\ Len(rest) = Len(queue) - 1
      /\ queue[1] = Head(queue) /\ Head(queue) \in 1 .. Reports
      /\ \A k \in 1 .. Len(rest) : rest[k] = queue[k + 1]
  BY QueueShrinks DEF TypeOK
<1>2. \A k \in 1 .. Len(rest) : k \in Nat /\ k + 1 \in 1 .. Len(queue)
  BY <1>1
<1>3. 1 \in 1 .. Len(queue)
  BY <1>1
<1>4. ASSUME NEW j \in 1 .. Len(rest), NEW k \in 1 .. Len(rest), j < k
      PROVE  rest[j] < rest[k]
  <2>1. j + 1 < k + 1
    BY <1>4
  <2> QED BY <1>1, <1>2, <2>1 DEF Numbered
<1>5. ASSUME NEW k \in 1 .. Len(rest)
      PROVE  rest[k] <= Settled /\ Head(queue) < rest[k]
  <2>1. 1 < k + 1
    BY <1>2
  <2> QED BY <1>1, <1>2, <1>3, <2>1 DEF Numbered
<1>6. ASSUME NEW p \in Pollers, poll[p] = "copy", NEW k \in 1 .. Len(rest)
      PROVE  taken[p] < rest[k]
  BY <1>1, <1>2, <1>6 DEF Numbered
<1>7. 1 <= Head(queue) /\ Head(queue) <= Settled
  BY <1>1, <1>3, MailboxAssumption DEF Numbered, MailboxAssumption
<1> QED BY <1>1, <1>4, <1>5, <1>6, <1>7

LEMMA NextNumbered == TypeOK /\ TypeOK' /\ Numbered /\ [Next]_vars => Numbered'
<1> SUFFICES ASSUME TypeOK, TypeOK', Numbered, [Next]_vars PROVE Numbered'
  OBVIOUS
<1>1. CASE Malloc
  <2>1. /\ queue' = queue /\ poll' = poll /\ taken' = taken
        /\ put = "idle" /\ put' \in {"idle", "lock"} /\ decoded' = decoded + 1
    BY <1>1 DEF Malloc, pollerVars
  <2>2. decoded \in Nat
    BY MailboxAssumption DEF TypeOK, MailboxAssumption
  <2>3. Settled = decoded /\ Settled' \in {decoded, decoded + 1} /\ decoded' >= 1
    BY <2>1, <2>2 DEF Settled, Pending
  <2> QED BY <2>1, <2>2, <2>3, OrderKept
<1>2. CASE PutLock
  <2>1. queue' = queue /\ Settled <= Settled' /\ (Pending' => decoded' >= 1)
    BY <1>2, SettledType DEF PutLock, Pending, Settled, Numbered, pollerVars, producerVars
  <2>2. \A q \in Pollers : poll'[q] = "copy" => poll[q] = "copy" /\ taken'[q] = taken[q]
    BY <1>2 DEF PutLock, TypeOK, pollerVars, producerVars
  <2> QED BY <2>1, <2>2, OrderKept
<1>3. CASE PutSend
  <2>1. CASE ~Full /\ queue' = Append(queue, decoded) /\ put' = "unlock"
    <3>1. Pending /\ ~Pending' /\ decoded' = decoded /\ poll' = poll /\ taken' = taken
      BY <1>3, <2>1 DEF PutSend, Pending, pollerVars
    <3> QED BY <2>1, <3>1, OrderGrows
  <2>2. CASE put' = "drop" /\ UNCHANGED queue
    <3>1. queue' = queue /\ Settled <= Settled' /\ (Pending' => decoded' >= 1)
      BY <1>3, <2>2, SettledType DEF PutSend, Pending, Settled, Numbered
    <3>2. poll' = poll /\ taken' = taken
      BY <1>3 DEF PutSend, pollerVars
    <3> QED BY <3>1, <3>2, OrderKept
  <2> QED BY <1>3, <2>1, <2>2 DEF PutSend
<1>4. CASE PutDrop
  <2>1. /\ Pending /\ Pending' /\ Settled' = Settled /\ decoded' = decoded
        /\ poll' = poll /\ taken' = taken /\ decoded >= 1
    BY <1>4 DEF PutDrop, Pending, Settled, pollerVars, Numbered
  <2>2. CASE queue = <<>>
    <3>1. queue' = queue
      BY <1>4, <2>2 DEF PutDrop
    <3> QED BY <2>1, <3>1, SettledType, OrderKept
  <2>3. CASE queue # <<>>
    <3>1. queue' = Tail(queue)
      BY <1>4, <2>3 DEF PutDrop
    <3>2. /\ \A j \in 1 .. Len(queue') : \A k \in 1 .. Len(queue') :
               j < k => queue'[j] < queue'[k]
          /\ \A k \in 1 .. Len(queue') : queue'[k] <= Settled
          /\ \A p \in Pollers : poll[p] = "copy" =>
               \A k \in 1 .. Len(queue') : taken[p] < queue'[k]
      BY <2>3, <3>1, OrderOfTail
    <3> QED BY <2>1, <3>2 DEF Numbered
  <2> QED BY <2>2, <2>3
<1>5. CASE PutResend
  <2>1. CASE queue' = Append(queue, decoded)
    <3>1. Pending /\ ~Pending' /\ decoded' = decoded /\ poll' = poll /\ taken' = taken
      BY <1>5, <2>1 DEF PutResend, Pending, pollerVars
    <3> QED BY <2>1, <3>1, OrderGrows
  <2>2. CASE queue' = queue
    <3>1. queue' = queue /\ Settled <= Settled' /\ (Pending' => decoded' >= 1)
      BY <1>5, <2>2, SettledType DEF PutResend, Pending, Settled, Numbered
    <3>2. poll' = poll /\ taken' = taken
      BY <1>5 DEF PutResend, pollerVars
    <3> QED BY <3>1, <3>2, OrderKept
  <2> QED BY <1>5, <2>1, <2>2 DEF PutResend
<1>6. CASE PutUnlock
  <2>1. queue' = queue /\ Settled <= Settled' /\ (Pending' => decoded' >= 1)
    BY <1>6, SettledType DEF PutUnlock, Pending, Settled, Numbered, pollerVars, producerVars
  <2>2. \A q \in Pollers : poll'[q] = "copy" => poll[q] = "copy" /\ taken'[q] = taken[q]
    BY <1>6 DEF PutUnlock, TypeOK, pollerVars, producerVars
  <2> QED BY <2>1, <2>2, OrderKept
<1>7. ASSUME NEW p \in Pollers,
            PollCall(p) \/ PollLock(p) \/ PollTake(p) \/ PollTimeout(p)
              \/ PollDeleted(p) \/ PollCopy(p) \/ PollUnlock(p)
      PROVE  Numbered'
  <2>1. CASE PollCall(p)
    <3>1. queue' = queue /\ Settled <= Settled' /\ (Pending' => decoded' >= 1)
      BY <2>1, SettledType DEF PollCall, Pending, Settled, Numbered, pollerVars, producerVars
    <3>2. \A q \in Pollers : poll'[q] = "copy" => poll[q] = "copy" /\ taken'[q] = taken[q]
      BY <2>1 DEF PollCall, TypeOK, pollerVars, producerVars
    <3> QED BY <3>1, <3>2, OrderKept
  <2>2. CASE PollLock(p)
    <3>1. queue' = queue /\ Settled <= Settled' /\ (Pending' => decoded' >= 1)
      BY <2>2, SettledType DEF PollLock, Pending, Settled, Numbered, pollerVars, producerVars
    <3>2. \A q \in Pollers : poll'[q] = "copy" => poll[q] = "copy" /\ taken'[q] = taken[q]
      BY <2>2 DEF PollLock, TypeOK, pollerVars, producerVars
    <3> QED BY <3>1, <3>2, OrderKept
  <2>3. CASE PollTake(p)
    <3>1. /\ queue # <<>> /\ queue' = Tail(queue)
          /\ taken' = [taken EXCEPT ![p] = Head(queue)]
          /\ poll' = [poll EXCEPT ![p] = "copy"]
          /\ Pending' = Pending /\ Settled' = Settled /\ decoded' = decoded
      BY <2>3 DEF PollTake, producerVars, Pending, Settled
    <3>2. /\ taken'[p] = Head(queue)
          /\ \A q \in Pollers \ {p} : taken'[q] = taken[q] /\ poll'[q] = poll[q]
      BY <3>1 DEF TypeOK
    <3>3. /\ \A j \in 1 .. Len(queue') : \A k \in 1 .. Len(queue') :
               j < k => queue'[j] < queue'[k]
          /\ \A k \in 1 .. Len(queue') : queue'[k] <= Settled /\ Head(queue) < queue'[k]
          /\ \A q \in Pollers : poll[q] = "copy" =>
               \A k \in 1 .. Len(queue') : taken[q] < queue'[k]
          /\ 1 <= Head(queue) /\ Head(queue) <= Settled
      BY <3>1, OrderOfTail
    <3>4. ASSUME NEW q \in Pollers, poll'[q] = "copy"
          PROVE  /\ 1 <= taken'[q] /\ taken'[q] <= Settled'
                 /\ \A k \in 1 .. Len(queue') : taken'[q] < queue'[k]
      <4>1. CASE q = p
        BY <3>1, <3>2, <3>3, <4>1
      <4>2. CASE q # p
        <5>1. poll[q] = "copy" /\ taken'[q] = taken[q]
          BY <3>2, <3>4, <4>2
        <5> QED BY <3>1, <3>3, <5>1 DEF Numbered
      <4> QED BY <4>1, <4>2
    <3> QED BY <3>1, <3>3, <3>4 DEF Numbered
  <2>4. CASE PollTimeout(p)
    <3>1. queue' = queue /\ Settled <= Settled' /\ (Pending' => decoded' >= 1)
      BY <2>4, SettledType DEF PollTimeout, Pending, Settled, Numbered, pollerVars, producerVars
    <3>2. \A q \in Pollers : poll'[q] = "copy" => poll[q] = "copy" /\ taken'[q] = taken[q]
      BY <2>4 DEF PollTimeout, TypeOK, pollerVars, producerVars
    <3> QED BY <3>1, <3>2, OrderKept
  <2>5. CASE PollDeleted(p)
    <3>1. queue' = queue /\ Settled <= Settled' /\ (Pending' => decoded' >= 1)
      BY <2>5, SettledType DEF PollDeleted, Pending, Settled, Numbered, pollerVars, producerVars
    <3>2. \A q \in Pollers : poll'[q] = "copy" => poll[q] = "copy" /\ taken'[q] = taken[q]
      BY <2>5 DEF PollDeleted, TypeOK, pollerVars, producerVars
    <3> QED BY <3>1, <3>2, OrderKept
  <2>6. CASE PollCopy(p)
    <3>1. queue' = queue /\ Settled <= Settled' /\ (Pending' => decoded' >= 1)
      BY <2>6, SettledType DEF PollCopy, Pending, Settled, Numbered, pollerVars, producerVars
    <3>2. \A q \in Pollers : poll'[q] = "copy" => poll[q] = "copy" /\ taken'[q] = taken[q]
      BY <2>6 DEF PollCopy, TypeOK, pollerVars, producerVars
    <3> QED BY <3>1, <3>2, OrderKept
  <2>7. CASE PollUnlock(p)
    <3>1. queue' = queue /\ Settled <= Settled' /\ (Pending' => decoded' >= 1)
      BY <2>7, SettledType DEF PollUnlock, Pending, Settled, Numbered, pollerVars, producerVars
    <3>2. \A q \in Pollers : poll'[q] = "copy" => poll[q] = "copy" /\ taken'[q] = taken[q]
      BY <2>7 DEF PollUnlock, TypeOK, pollerVars, producerVars
    <3> QED BY <3>1, <3>2, OrderKept
  <2> QED BY <1>7, <2>1, <2>2, <2>3, <2>4, <2>5, <2>6, <2>7
<1>8. CASE DecoderEnds
  <2>1. queue' = queue /\ Settled <= Settled' /\ (Pending' => decoded' >= 1)
    BY <1>8, SettledType DEF DecoderEnds, Pending, Settled, Numbered, pollerVars, producerVars, StopStep
  <2>2. \A q \in Pollers : poll'[q] = "copy" => poll[q] = "copy" /\ taken'[q] = taken[q]
    BY <1>8 DEF DecoderEnds, TypeOK, pollerVars, producerVars, StopStep
  <2> QED BY <2>1, <2>2, OrderKept
<1>9. CASE DeleteMutex
  <2>1. queue' = queue /\ Settled <= Settled' /\ (Pending' => decoded' >= 1)
    BY <1>9, SettledType DEF DeleteMutex, Pending, Settled, Numbered, pollerVars, producerVars, StopStep
  <2>2. \A q \in Pollers : poll'[q] = "copy" => poll[q] = "copy" /\ taken'[q] = taken[q]
    BY <1>9 DEF DeleteMutex, TypeOK, pollerVars, producerVars, StopStep
  <2> QED BY <2>1, <2>2, OrderKept
<1>10. CASE DeleteQueue
  <2>1. /\ queue' = <<>> /\ Len(queue') = 0 /\ Pending' = Pending /\ Settled' = Settled
        /\ decoded' = decoded /\ poll' = poll /\ taken' = taken
    BY <1>10, EmptySeq DEF DeleteQueue, StopStep, pollerVars, producerVars, Pending, Settled
  <2>2. 1 .. Len(queue') = {}
    BY <2>1
  <2> QED BY <2>1, <2>2 DEF Numbered
<1>11. CASE Stopped
  <2>1. queue' = queue /\ Settled <= Settled' /\ (Pending' => decoded' >= 1)
    BY <1>11, SettledType DEF Stopped, Pending, Settled, Numbered, pollerVars, producerVars, StopStep
  <2>2. \A q \in Pollers : poll'[q] = "copy" => poll[q] = "copy" /\ taken'[q] = taken[q]
    BY <1>11 DEF Stopped, TypeOK, pollerVars, producerVars, StopStep
  <2> QED BY <2>1, <2>2, OrderKept
<1>12. CASE UNCHANGED vars
  BY <1>12 DEF Numbered, Pending, Settled, vars
<1> QED BY <1>1, <1>2, <1>3, <1>4, <1>5, <1>6, <1>7, <1>8, <1>9, <1>10, <1>11, <1>12,
           NextIsStep DEF Step

-----------------------------------------------------------------------------
(* The blocks of the reports.                                               *)

\* What is in the pollers' hands when none has taken or let go of a report.
LEMMA TakenKept ==
  ASSUME \A q \in Pollers :
           /\ poll'[q] = "copy" <=> poll[q] = "copy"
           /\ poll[q] = "copy" => taken'[q] = taken[q]
  PROVE  Taken' = Taken
BY DEF Taken

\* Steps that change neither what is allocated nor who holds it.
LEMMA HeapKept ==
  ASSUME HeapIsReachable, QueueExists' => QueueExists, heap' = heap, queue' = queue,
         Taken' = Taken, Putting' = Putting
  PROVE  HeapIsReachable'
BY DEF HeapIsReachable, Held

\* The report that is put becomes one of the queue.
LEMMA HeapOfPut ==
  ASSUME TypeOK, Numbered, HeapIsReachable, Pending, ~Pending', stage' = stage,
         heap' = heap, queue' = Append(queue, decoded), poll' = poll, taken' = taken
  PROVE  HeapIsReachable'
<1>1. queue \in Seq(1 .. Reports) /\ decoded \in 1 .. Reports
  BY MailboxAssumption DEF TypeOK, Numbered, MailboxAssumption
<1>2. Range(queue') = Range(queue) \cup {decoded}
  BY <1>1, QueueGrows
<1>3. Taken' = Taken
  BY TakenKept
<1>4. Putting = {decoded} /\ Putting' = {}
  BY DEF Putting
<1>5. QueueExists' <=> QueueExists
  BY DEF QueueExists
<1> QED BY <1>2, <1>3, <1>4, <1>5, Zenon DEF HeapIsReachable, Held

\* The oldest report is nowhere else, and neither is the one a poller has taken.
LEMMA HeadNotInTail ==
  ASSUME TypeOK, Numbered, queue # <<>>
  PROVE  Head(queue) \notin Range(Tail(queue))
<1>1. /\ Head(queue) \in Int /\ Tail(queue) \in Seq(1 .. Reports)
      /\ \A k \in 1 .. Len(Tail(queue)) : Head(queue) < Tail(queue)[k]
  <2>1. queue \in Seq(1 .. Reports)
    BY DEF TypeOK
  <2>2. \A k \in 1 .. Len(Tail(queue)) : Head(queue) < Tail(queue)[k]
    BY OrderOfTail
  <2> QED BY <2>1, <2>2, QueueShrinks
<1>2. DOMAIN Tail(queue) = 1 .. Len(Tail(queue))
  BY <1>1, LenProperties
<1> QED BY <1>1, <1>2 DEF Range

LEMMA HeadNotTaken ==
  ASSUME TypeOK, Numbered, queue # <<>>
  PROVE  Head(queue) \notin Taken
<1>1. 1 \in 1 .. Len(queue) /\ queue[1] = Head(queue) /\ Head(queue) \in Int
  BY QueueShrinks DEF TypeOK
<1>2. \A q \in Pollers : poll[q] = "copy" => taken[q] < Head(queue)
  BY <1>1 DEF Numbered
<1> QED BY <1>1, <1>2 DEF Taken

LEMMA TakenNotHeldElsewhere ==
  ASSUME TypeOK, Numbered, NEW p \in Pollers, poll[p] = "copy"
  PROVE  taken[p] \notin Range(queue) /\ taken[p] \notin Putting
<1>1. /\ taken[p] \in Int /\ decoded \in Int /\ taken[p] <= Settled
      /\ \A k \in 1 .. Len(queue) : taken[p] < queue[k]
  BY MailboxAssumption DEF TypeOK, Numbered, MailboxAssumption
<1>2. DOMAIN queue = 1 .. Len(queue)
  BY LenProperties DEF TypeOK
<1>3. taken[p] \notin Range(queue)
  BY <1>1, <1>2 DEF Range
<1>4. taken[p] \notin Putting
  BY <1>1 DEF Putting, Settled
<1> QED BY <1>3, <1>4

LEMMA NextHeap == TypeOK /\ Excluded /\ RoomMade /\ Numbered /\ HeapIsReachable /\ [Next]_vars => HeapIsReachable'
<1> SUFFICES ASSUME TypeOK, Excluded, RoomMade, Numbered, HeapIsReachable, [Next]_vars PROVE HeapIsReachable'
  OBVIOUS
<1>1. CASE Malloc
  <2>1. /\ queue' = queue /\ (QueueExists' <=> QueueExists)
        /\ put = "idle" /\ poll' = poll /\ taken' = taken
    BY <1>1 DEF Malloc, pollerVars, QueueExists
  <2>2. Taken' = Taken
    BY <2>1, TakenKept
  <2>3. CASE put' = "lock" /\ heap' = heap \cup {decoded'}
    <3>1. Putting = {} /\ Putting' = {decoded'}
      BY <2>1, <2>3 DEF Putting, Pending
    <3> QED BY <2>1, <2>2, <2>3, <3>1, Zenon DEF HeapIsReachable, Held
  <2>4. CASE UNCHANGED <<put, heap>>
    <3>1. Putting = {} /\ Putting' = {}
      BY <2>1, <2>4 DEF Putting, Pending
    <3> QED BY <2>1, <2>2, <2>4, <3>1, HeapKept
  <2> QED BY <1>1, <2>3, <2>4 DEF Malloc
<1>2. CASE PutLock
  <2>1. heap' = heap /\ queue' = queue /\ (QueueExists' => QueueExists)
    BY <1>2 DEF PutLock, QueueExists, pollerVars, producerVars
  <2>2. Taken' = Taken
    BY <1>2, TakenKept DEF PutLock, TypeOK, pollerVars, producerVars
  <2>3. Putting' = Putting
    BY <1>2 DEF PutLock, Putting, Pending, pollerVars, producerVars
  <2> QED BY <2>1, <2>2, <2>3, HeapKept
<1>3. CASE PutSend
  <2>1. CASE ~Full /\ queue' = Append(queue, decoded) /\ put' = "unlock"
    <3>1. /\ Pending /\ ~Pending' /\ stage' = stage /\ heap' = heap
          /\ poll' = poll /\ taken' = taken
      BY <1>3, <2>1 DEF PutSend, Pending, pollerVars
    <3> QED BY <2>1, <3>1, HeapOfPut
  <2>2. CASE put' = "drop" /\ UNCHANGED queue
    <3>1. /\ heap' = heap /\ (QueueExists' => QueueExists)
          /\ poll' = poll /\ taken' = taken
      BY <1>3 DEF PutSend, pollerVars, QueueExists
    <3>2. Putting' = Putting
      BY <1>3, <2>2 DEF PutSend, Putting, Pending
    <3> QED BY <2>2, <3>1, <3>2, TakenKept, HeapKept
  <2> QED BY <1>3, <2>1, <2>2 DEF PutSend
<1>4. CASE PutDrop
  <2>1. queue \in Seq(1 .. Reports) /\ queue # <<>>
    BY <1>4, MailboxAssumption DEF PutDrop, RoomMade, TypeOK, MailboxAssumption
  <2>2. /\ queue' = Tail(queue) /\ heap' = heap \ {Head(queue)}
        /\ poll' = poll /\ taken' = taken /\ (QueueExists' <=> QueueExists)
    BY <1>4, <2>1 DEF PutDrop, pollerVars, QueueExists
  <2>3. Taken' = Taken
    BY <2>2, TakenKept
  <2>4. Putting = {decoded} /\ Putting' = {decoded} /\ Settled = decoded - 1
    BY <1>4 DEF PutDrop, Putting, Pending, Settled
  <2>5. Range(queue) = Range(queue') \cup {Head(queue)}
    BY <2>1, <2>2, QueueShrinks
  <2>6. Head(queue) # decoded
    <3>1. Head(queue) <= decoded - 1
      BY <2>1, <2>4, OrderOfTail
    <3> QED BY <2>1, <3>1, SettledType, QueueShrinks
  <2>7. Head(queue) \notin Range(queue')
    BY <2>1, <2>2, HeadNotInTail
  <2>8. Head(queue) \notin Taken
    BY <2>1, HeadNotTaken
  <2> QED BY <2>2, <2>3, <2>4, <2>5, <2>6, <2>7, <2>8, Zenon DEF HeapIsReachable, Held
<1>5. CASE PutResend
  <2>1. ~Full
    BY <1>5, MailboxAssumption DEF PutResend, RoomMade, Full, MailboxAssumption
  <2>2. /\ Pending /\ ~Pending' /\ stage' = stage /\ heap' = heap
        /\ queue' = Append(queue, decoded) /\ poll' = poll /\ taken' = taken
    BY <1>5, <2>1 DEF PutResend, Pending, pollerVars
  <2> QED BY <2>2, HeapOfPut
<1>6. CASE PutUnlock
  <2>1. heap' = heap /\ queue' = queue /\ (QueueExists' => QueueExists)
    BY <1>6 DEF PutUnlock, QueueExists, pollerVars, producerVars
  <2>2. Taken' = Taken
    BY <1>6, TakenKept DEF PutUnlock, TypeOK, pollerVars, producerVars
  <2>3. Putting' = Putting
    BY <1>6 DEF PutUnlock, Putting, Pending, pollerVars, producerVars
  <2> QED BY <2>1, <2>2, <2>3, HeapKept
<1>7. ASSUME NEW p \in Pollers,
            PollCall(p) \/ PollLock(p) \/ PollTake(p) \/ PollTimeout(p)
              \/ PollDeleted(p) \/ PollCopy(p) \/ PollUnlock(p)
      PROVE  HeapIsReachable'
  <2>1. CASE PollCall(p)
    <3>1. heap' = heap /\ queue' = queue /\ (QueueExists' => QueueExists)
      BY <2>1 DEF PollCall, QueueExists, pollerVars, producerVars
    <3>2. Taken' = Taken
      BY <2>1, TakenKept DEF PollCall, TypeOK, pollerVars, producerVars
    <3>3. Putting' = Putting
      BY <2>1 DEF PollCall, Putting, Pending, pollerVars, producerVars
    <3> QED BY <3>1, <3>2, <3>3, HeapKept
  <2>2. CASE PollLock(p)
    <3>1. heap' = heap /\ queue' = queue /\ (QueueExists' => QueueExists)
      BY <2>2 DEF PollLock, QueueExists, pollerVars, producerVars
    <3>2. Taken' = Taken
      BY <2>2, TakenKept DEF PollLock, TypeOK, pollerVars, producerVars
    <3>3. Putting' = Putting
      BY <2>2 DEF PollLock, Putting, Pending, pollerVars, producerVars
    <3> QED BY <3>1, <3>2, <3>3, HeapKept
  <2>3. CASE PollTake(p)
    <3>1. /\ queue \in Seq(1 .. Reports) /\ queue # <<>>
          /\ queue' = Tail(queue) /\ heap' = heap /\ (QueueExists' <=> QueueExists)
          /\ taken' = [taken EXCEPT ![p] = Head(queue)]
          /\ poll' = [poll EXCEPT ![p] = "copy"] /\ poll[p] = "wait"
      BY <2>3 DEF PollTake, TypeOK, QueueExists
    <3>2. Putting' = Putting
      BY <2>3 DEF PollTake, producerVars, Putting, Pending
    <3>3. Range(queue) = Range(queue') \cup {Head(queue)}
      BY <3>1, QueueShrinks
    <3>4. /\ taken'[p] = Head(queue) /\ poll'[p] = "copy"
          /\ \A q \in Pollers \ {p} : taken'[q] = taken[q] /\ poll'[q] = poll[q]
      BY <3>1 DEF TypeOK
    <3>5. Taken' = Taken \cup {Head(queue)}
      BY <3>1, <3>4 DEF Taken
    <3> QED BY <3>1, <3>2, <3>3, <3>5, Zenon DEF HeapIsReachable, Held
  <2>4. CASE PollTimeout(p)
    <3>1. heap' = heap /\ queue' = queue /\ (QueueExists' => QueueExists)
      BY <2>4 DEF PollTimeout, QueueExists, pollerVars, producerVars
    <3>2. Taken' = Taken
      BY <2>4, TakenKept DEF PollTimeout, TypeOK, pollerVars, producerVars
    <3>3. Putting' = Putting
      BY <2>4 DEF PollTimeout, Putting, Pending, pollerVars, producerVars
    <3> QED BY <3>1, <3>2, <3>3, HeapKept
  <2>5. CASE PollDeleted(p)
    <3>1. heap' = heap /\ queue' = queue /\ (QueueExists' => QueueExists)
      BY <2>5 DEF PollDeleted, QueueExists, pollerVars, producerVars
    <3>2. Taken' = Taken
      BY <2>5, TakenKept DEF PollDeleted, TypeOK, pollerVars, producerVars
    <3>3. Putting' = Putting
      BY <2>5 DEF PollDeleted, Putting, Pending, pollerVars, producerVars
    <3> QED BY <3>1, <3>2, <3>3, HeapKept
  <2>6. CASE PollCopy(p)
    <3>1. /\ poll[p] = "copy" /\ queue' = queue /\ heap' = heap \ {taken[p]}
          /\ (QueueExists' <=> QueueExists) /\ poll' = [poll EXCEPT ![p] = "unlock"]
      BY <2>6 DEF PollCopy, QueueExists
    <3>2. Putting' = Putting
      BY <2>6 DEF PollCopy, producerVars, Putting, Pending
    <3>3. /\ \A q \in Pollers \ {p} : poll[q] # "copy" /\ poll'[q] = poll[q]
          /\ poll'[p] = "unlock"
      BY <3>1, OneOwner DEF TypeOK
    <3>4. Taken = {taken[p]} /\ Taken' = {}
      BY <3>1, <3>3 DEF Taken
    <3>5. taken[p] \notin Range(queue) /\ taken[p] \notin Putting
      BY <3>1, TakenNotHeldElsewhere
    <3> QED BY <3>1, <3>2, <3>4, <3>5, Zenon DEF HeapIsReachable, Held
  <2>7. CASE PollUnlock(p)
    <3>1. heap' = heap /\ queue' = queue /\ (QueueExists' => QueueExists)
      BY <2>7 DEF PollUnlock, QueueExists, pollerVars, producerVars
    <3>2. Taken' = Taken
      BY <2>7, TakenKept DEF PollUnlock, TypeOK, pollerVars, producerVars
    <3>3. Putting' = Putting
      BY <2>7 DEF PollUnlock, Putting, Pending, pollerVars, producerVars
    <3> QED BY <3>1, <3>2, <3>3, HeapKept
  <2> QED BY <1>7, <2>1, <2>2, <2>3, <2>4, <2>5, <2>6, <2>7
<1>8. CASE DecoderEnds
  <2>1. heap' = heap /\ queue' = queue /\ (QueueExists' => QueueExists)
    BY <1>8 DEF DecoderEnds, QueueExists, pollerVars, producerVars, StopStep
  <2>2. Taken' = Taken
    BY <1>8, TakenKept DEF DecoderEnds, TypeOK, pollerVars, producerVars, StopStep
  <2>3. Putting' = Putting
    BY <1>8 DEF DecoderEnds, Putting, Pending, pollerVars, producerVars, StopStep
  <2> QED BY <2>1, <2>2, <2>3, HeapKept
<1>9. CASE DeleteMutex
  <2>1. heap' = heap /\ queue' = queue /\ (QueueExists' => QueueExists)
    BY <1>9 DEF DeleteMutex, QueueExists, pollerVars, producerVars, StopStep
  <2>2. Taken' = Taken
    BY <1>9, TakenKept DEF DeleteMutex, TypeOK, pollerVars, producerVars, StopStep
  <2>3. Putting' = Putting
    BY <1>9 DEF DeleteMutex, Putting, Pending, pollerVars, producerVars, StopStep
  <2> QED BY <2>1, <2>2, <2>3, HeapKept
<1>10. CASE DeleteQueue
  <2>1. ~QueueExists'
    BY <1>10 DEF DeleteQueue, StopStep, QueueExists
  <2> QED BY <2>1 DEF HeapIsReachable
<1>11. CASE Stopped
  <2>1. heap' = heap /\ queue' = queue /\ (QueueExists' => QueueExists)
    BY <1>11 DEF Stopped, QueueExists, pollerVars, producerVars, StopStep
  <2>2. Taken' = Taken
    BY <1>11, TakenKept DEF Stopped, TypeOK, pollerVars, producerVars, StopStep
  <2>3. Putting' = Putting
    BY <1>11 DEF Stopped, Putting, Pending, pollerVars, producerVars, StopStep
  <2> QED BY <2>1, <2>2, <2>3, HeapKept
<1>12. CASE UNCHANGED vars
  BY <1>12 DEF HeapIsReachable, QueueExists, Held, Taken, Putting, Pending, vars
<1> QED BY <1>1, <1>2, <1>3, <1>4, <1>5, <1>6, <1>7, <1>8, <1>9, <1>10, <1>11, <1>12,
           NextIsStep DEF Step

-----------------------------------------------------------------------------
(* The theorems.                                                            *)

\* The inductive invariant: an exclusion that makes a put of several calls one, the
\* room made by dropping, and the order of the reports.
IInv == TypeOK /\ Excluded /\ RoomMade /\ Numbered

LEMMA InitIInv == Init => IInv
<1> SUFFICES ASSUME Init PROVE IInv
  OBVIOUS
<1>1. <<>> \in Seq(1 .. Reports) /\ Len(<<>>) = 0 /\ 1 .. 0 = {}
  BY EmptySeq
<1>2. TypeOK
  BY <1>1, MailboxAssumption DEF Init, TypeOK, MailboxAssumption
<1>3. Excluded
  BY MailboxAssumption DEF Init, Excluded, MailboxAssumption
<1>4. RoomMade
  BY DEF Init, RoomMade
<1>5. Numbered
  BY <1>1 DEF Init, Numbered, Pending
<1> QED BY <1>2, <1>3, <1>4, <1>5 DEF IInv

LEMMA NextIInv == IInv /\ [Next]_vars => IInv'
BY NextType, NextExcluded, NextRoomMade, NextNumbered DEF IInv

\* The inductive invariant: types, the mutex held by the task inside it, a full
\* queue only while the decoder makes room, and reports in decoding order.
THEOREM MailboxInvariant == Spec => []IInv
BY InitIInv, NextIInv, PTL DEF Spec

\* The variables of the queue, its mutex and its users keep their types; with the
\* length of the queue among them, no put ever exceeds its capacity.
THEOREM TypeCorrect == Spec => []TypeOK
<1>1. IInv => TypeOK
  BY DEF IInv
<1> QED BY <1>1, MailboxInvariant, PTL

\* Making room in a full queue always finds the report to free, however many tasks
\* poll and whenever the system is stopped.
THEOREM DropFindsItsReport == Spec => []NoWildFree
<1>1. Init => NoWildFree
  BY DEF Init, NoWildFree
<1>2. IInv /\ NoWildFree /\ [Next]_vars => NoWildFree'
  <2> SUFFICES ASSUME IInv, NoWildFree, [Next]_vars PROVE NoWildFree'
    OBVIOUS
  <2>1. CASE PutDrop
    <3>1. queue # <<>>
      BY <2>1, MailboxAssumption DEF IInv, PutDrop, RoomMade, TypeOK, MailboxAssumption
    <3> QED BY <2>1, <3>1 DEF PutDrop, NoWildFree
  <2>2. CASE \E p \in Pollers : PollLock(p) \/ PollDeleted(p) \/ PollUnlock(p)
    BY <2>2 DEF PollLock, PollDeleted, PollUnlock, NoWildFree
  <2>3. CASE UNCHANGED fault
    BY <2>3 DEF NoWildFree
  <2>4. PutDrop \/ (\E p \in Pollers : PollLock(p) \/ PollDeleted(p) \/ PollUnlock(p))
          \/ UNCHANGED fault
    <3>1. CASE Malloc \/ PutLock \/ PutSend \/ PutResend \/ PutUnlock
      BY <3>1 DEF Malloc, PutLock, PutSend, PutResend, PutUnlock
    <3>2. CASE \E p \in Pollers : PollCall(p) \/ PollTake(p) \/ PollTimeout(p) \/ PollCopy(p)
      BY <3>2 DEF PollCall, PollTake, PollTimeout, PollCopy
    <3>3. CASE DecoderEnds \/ DeleteMutex \/ DeleteQueue \/ Stopped
      BY <3>3 DEF DecoderEnds, DeleteMutex, DeleteQueue, Stopped, StopStep
    <3>4. CASE UNCHANGED vars
      BY <3>4 DEF vars
    <3> QED BY <3>1, <3>2, <3>3, <3>4, NextIsStep, Zenon DEF Step
  <2> QED BY <2>1, <2>2, <2>3, <2>4
<1> QED BY <1>1, <1>2, MailboxInvariant, PTL DEF Spec

\* As long as the queue exists the reports allocated are exactly those in the queue,
\* in a poller's hand or about to be put: none is lost, freed twice or used after
\* its free.
THEOREM BlocksHaveOneOwner == Spec => []HeapIsReachable
<1>1. Init => HeapIsReachable
  <2> SUFFICES ASSUME Init PROVE HeapIsReachable
    OBVIOUS
  <2>1. queue = <<>> /\ heap = {} /\ Taken = {} /\ Putting = {}
    BY DEF Init, Taken, Putting, Pending
  <2>2. Range(<<>>) = {}
    BY DEF Range
  <2> QED BY <2>1, <2>2 DEF HeapIsReachable, Held
<1>2. IInv /\ HeapIsReachable /\ [Next]_vars => HeapIsReachable'
  BY NextHeap DEF IInv
<1> QED BY <1>1, <1>2, MailboxInvariant, PTL DEF Spec

-----------------------------------------------------------------------------
(* The queue and its users implement DropOldestQueue.                       *)

\* Sequences put together from at most one element and a queue.
LEMMA OneBefore ==
  ASSUME NEW e \in Int, NEW q \in Seq(Int)
  PROVE  /\ <<e>> \o q \in Seq(Int)
         /\ Len(<<e>> \o q) = Len(q) + 1 /\ Len(q) \in Nat
         /\ (<<e>> \o q)[1] = e
         /\ \A k \in 1 .. Len(q) : (<<e>> \o q)[k + 1] = q[k]
         /\ Head(<<e>> \o q) = e /\ Tail(<<e>> \o q) = q
<1>1. <<e>> \in Seq(Int) /\ Len(<<e>>) = 1 /\ <<e>>[1] = e /\ Len(q) \in Nat
  OBVIOUS
<1>2. /\ <<e>> \o q \in Seq(Int)
      /\ Len(<<e>> \o q) = 1 + Len(q)
      /\ \A k \in 1 .. 1 + Len(q) :
           (<<e>> \o q)[k] = IF k <= 1 THEN <<e>>[k] ELSE q[k - 1]
  BY <1>1, ConcatProperties
<1>3. (<<e>> \o q)[1] = e
  BY <1>1, <1>2
<1>4. ASSUME NEW k \in 1 .. Len(q) PROVE (<<e>> \o q)[k + 1] = q[k]
  <2>1. k + 1 \in 1 .. 1 + Len(q) /\ ~(k + 1 <= 1) /\ (k + 1) - 1 = k
    BY <1>1
  <2> QED BY <1>2, <2>1
<1> DEFINE s == <<e>> \o q
<1>5. /\ s \in Seq(Int) /\ Len(s) = Len(q) + 1 /\ s[1] = e
      /\ \A k \in 1 .. Len(q) : s[k + 1] = q[k]
  BY <1>1, <1>2, <1>3, <1>4
<1> HIDE DEF s
<1>6. Head(s) = e /\ Tail(s) = q
  <2>1. s # <<>>
    BY <1>1, <1>5
  <2>2. /\ Head(s) = s[1] /\ Tail(s) \in Seq(Int) /\ Len(Tail(s)) = Len(q)
        /\ \A k \in 1 .. Len(Tail(s)) : Tail(s)[k] = s[k + 1]
    BY <1>1, <1>5, <2>1, HeadTailProperties
  <2>3. \A k \in 1 .. Len(Tail(s)) : Tail(s)[k] = q[k]
    BY <1>5, <2>2
  <2>4. Tail(s) = q
    BY <2>2, <2>3, SeqEqual
  <2> QED BY <1>5, <2>2, <2>4
<1> QED BY <1>1, <1>5, <1>6 DEF s

LEMMA HeadThenTail ==
  ASSUME NEW q \in Seq(Int), q # <<>>
  PROVE  Head(q) \in Int /\ Tail(q) \in Seq(Int) /\ <<Head(q)>> \o Tail(q) = q
<1>1. /\ Head(q) \in Int /\ Head(q) = q[1] /\ Tail(q) \in Seq(Int)
      /\ Len(q) \in Nat \ {0} /\ Len(Tail(q)) = Len(q) - 1
      /\ \A k \in 1 .. Len(Tail(q)) : Tail(q)[k] = q[k + 1]
  BY HeadTailProperties, EmptySeq
<1> DEFINE s == <<Head(q)>> \o Tail(q)
<1>2. /\ s \in Seq(Int) /\ Len(s) = Len(q) /\ s[1] = q[1]
      /\ \A k \in 1 .. Len(Tail(q)) : s[k + 1] = Tail(q)[k]
  BY <1>1, OneBefore
<1> HIDE DEF s
<1>3. ASSUME NEW k \in 1 .. Len(s) PROVE s[k] = q[k]
  <2>1. CASE k = 1
    BY <1>2, <2>1
  <2>2. CASE k # 1
    <3>1. k - 1 \in 1 .. Len(Tail(q)) /\ (k - 1) + 1 = k
      BY <1>1, <1>2, <2>2
    <3> QED BY <1>1, <1>2, <3>1
  <2> QED BY <2>1, <2>2
<1>4. s = q
  BY <1>2, <1>3, SeqEqual
<1> QED BY <1>1, <1>4 DEF s

\* Dropping the oldest of n elements after adding one.
LEMMA NewestOfFull ==
  ASSUME NEW e \in Int, NEW d \in Int, NEW q \in Seq(Int)
  PROVE  Promised!Newest(Append(<<e>> \o q, d), Len(q) + 1) = Append(q, d)
<1> DEFINE s == <<e>> \o q
           t == Append(s, d)
           u == Append(q, d)
<1>1. /\ s \in Seq(Int) /\ Len(s) = Len(q) + 1 /\ Len(q) \in Nat
      /\ \A k \in 1 .. Len(q) : s[k + 1] = q[k]
  BY OneBefore
<1> HIDE DEF s
<1>2. /\ t \in Seq(Int) /\ Len(t) = Len(q) + 2 /\ t[Len(q) + 2] = d
      /\ \A k \in 1 .. Len(s) : t[k] = s[k]
  BY <1>1
<1>3. /\ u \in Seq(Int) /\ Len(u) = Len(q) + 1 /\ u[Len(q) + 1] = d
      /\ \A k \in 1 .. Len(q) : u[k] = q[k]
  BY <1>1
<1> HIDE DEF t, u
<1>4. Promised!Newest(t, Len(q) + 1) = SubSeq(t, 2, Len(q) + 2)
  <2>1. ~(Len(t) <= Len(q) + 1) /\ Len(t) - (Len(q) + 1) + 1 = 2
    BY <1>1, <1>2
  <2> QED BY <1>2, <2>1 DEF Promised!Newest
<1>5. /\ SubSeq(t, 2, Len(q) + 2) \in Seq(Int)
      /\ Len(SubSeq(t, 2, Len(q) + 2)) = Len(q) + 1
      /\ \A k \in 1 .. Len(q) + 1 : SubSeq(t, 2, Len(q) + 2)[k] = t[k + 1]
  <2>1. \A k \in 2 .. Len(q) + 2 : t[k] \in Int
    <3>1. 2 .. Len(q) + 2 \subseteq 1 .. Len(t)
      BY <1>1, <1>2
    <3> QED BY <1>2, <3>1, ElementOfSeq
  <2> QED BY <1>1, <2>1, SubSeqProperties
<1>6. ASSUME NEW k \in 1 .. Len(q) + 1 PROVE t[k + 1] = u[k]
  <2>1. CASE k = Len(q) + 1
    BY <1>1, <1>2, <1>3, <2>1
  <2>2. CASE k \in 1 .. Len(q)
    <3>1. k + 1 \in 1 .. Len(s)
      BY <1>1, <2>2
    <3> QED BY <1>1, <1>2, <1>3, <2>2, <3>1
  <2> QED BY <1>1, <2>1, <2>2
<1>7. SubSeq(t, 2, Len(q) + 2) = u
  BY <1>3, <1>5, <1>6, SeqEqual
<1> QED BY <1>4, <1>7 DEF s, t, u

\* What the one poller that may be copying has in hand.
LEMMA HandIs ==
  ASSUME Excluded, NEW p \in Pollers, poll[p] = "copy"
  PROVE  InHand("copy") = <<taken[p]>>
BY OneOwner DEF InHand

LEMMA HandIsEmpty ==
  ASSUME \A q \in Pollers : poll[q] # "copy"
  PROVE  InHand("copy") = <<>>
BY DEF InHand

LEMMA NextHandIs ==
  ASSUME NEW p \in Pollers, poll'[p] = "copy",
         \A q \in Pollers \ {p} : poll'[q] # "copy"
  PROVE  InHand("copy")' = <<taken'[p]>>
BY DEF InHand

LEMMA NextHandIsEmpty ==
  ASSUME \A q \in Pollers : poll'[q] # "copy"
  PROVE  InHand("copy")' = <<>>
BY DEF InHand

LEMMA HandKept ==
  ASSUME Excluded,
         \A q \in Pollers :
           /\ poll'[q] = "copy" <=> poll[q] = "copy"
           /\ poll[q] = "copy" => taken'[q] = taken[q]
  PROVE  InHand("copy")' = InHand("copy")
<1>1. CASE \A q \in Pollers : poll[q] # "copy"
  BY <1>1, HandIsEmpty, NextHandIsEmpty
<1>2. CASE \E q \in Pollers : poll[q] = "copy"
  <2>1. PICK p \in Pollers : poll[p] = "copy"
    BY <1>2
  <2>2. \A q \in Pollers \ {p} : poll'[q] # "copy"
    BY <2>1, OneOwner
  <2>3. InHand("copy")' = <<taken'[p]>>
    BY <2>1, <2>2, NextHandIs
  <2> QED BY <2>1, <2>3, HandIs
<1> QED BY <1>1, <1>2

\* The decoder at work on the queue means that no poller has anything in hand.
LEMMA HandsOff ==
  ASSUME Excluded, put \in {"send", "drop", "resend", "unlock"}
  PROVE  \A q \in Pollers : poll[q] # "copy"
BY MailboxAssumption DEF Excluded, MailboxAssumption

\* The store by who has what in hand.
LEMMA StoreIsQueue ==
  ASSUME queue \in Seq(Int), put # "resend", \A q \in Pollers : poll[q] # "copy"
  PROVE  Store = queue
<1>1. InHand("copy") = <<>> /\ ToDrop = <<>>
  BY HandIsEmpty DEF ToDrop
<1>2. <<>> \o queue = queue /\ <<>> \o <<>> = <<>>
  BY ConcatEmptySeq, EmptySeq
<1> QED BY <1>1, <1>2 DEF Store

LEMMA NextStoreIsQueue ==
  ASSUME queue' \in Seq(Int), put' # "resend", \A q \in Pollers : poll'[q] # "copy"
  PROVE  Store' = queue'
<1>1. InHand("copy")' = <<>> /\ ToDrop' = <<>>
  BY NextHandIsEmpty DEF ToDrop
<1>2. <<>> \o queue' = queue' /\ <<>> \o <<>> = <<>>
  BY ConcatEmptySeq, EmptySeq
<1> QED BY <1>1, <1>2 DEF Store

LEMMA StoreOfHand ==
  ASSUME Excluded, put # "resend", NEW p \in Pollers, poll[p] = "copy",
         taken[p] \in Int, queue \in Seq(Int)
  PROVE  Store = <<taken[p]>> \o queue
<1>1. InHand("copy") = <<taken[p]>> /\ ToDrop = <<>>
  BY HandIs DEF ToDrop
<1>2. <<taken[p]>> \o <<>> = <<taken[p]>>
  BY ConcatEmptySeq
<1> QED BY <1>1, <1>2 DEF Store

\* Nothing the abstract queue sees has changed.
Unseen == UNCHANGED <<Settled, Store, out>>

LEMMA UnseenIsStutter == Unseen => UNCHANGED Promised!vars
BY DEF Unseen, Promised!vars

\* Steps that move nothing between decoder, queue and pollers.
LEMMA UnseenStep ==
  ASSUME Excluded, queue' = queue, decoded' = decoded, out' = out,
         Pending' <=> Pending, put' = "resend" <=> put = "resend",
         garbage' = garbage,
         \A q \in Pollers :
           /\ poll'[q] = "copy" <=> poll[q] = "copy"
           /\ poll[q] = "copy" => taken'[q] = taken[q]
  PROVE  Unseen
<1>1. InHand("copy")' = InHand("copy")
  BY HandKept
<1>2. ToDrop' = ToDrop
  BY DEF ToDrop
<1>3. Settled' = Settled
  BY DEF Settled
<1> QED BY <1>1, <1>2, <1>3 DEF Unseen, Store

\* Cutting a queue after its first report leaves that report.
LEMMA FirstAlone ==
  ASSUME NEW e \in Int, NEW q \in Seq(Int)
  PROVE  1 <= Len(<<e>> \o q) /\ SubSeq(<<e>> \o q, 1, 1) = <<e>>
<1> DEFINE t == <<e>> \o q
           u == SubSeq(t, 1, 1)
<1>1. Len(t) = Len(q) + 1 /\ Len(q) \in Nat /\ t[1] = e
  BY OneBefore
<1> HIDE DEF t
<1>2. \A i \in 1 .. 1 : t[i] \in Int
  BY <1>1
<1>3. u \in Seq(Int) /\ Len(u) = 1 /\ u[1] = t[1]
  <2>1. /\ u \in Seq(Int) /\ Len(u) = IF 1 <= 1 THEN 1 - 1 + 1 ELSE 0
        /\ \A i \in 1 .. 1 - 1 + 1 : u[i] = t[1 + i - 1]
    BY <1>2, SubSeqProperties
  <2> HIDE DEF u
  <2> QED BY <2>1
<1> HIDE DEF u
<1>4. <<e>> \in Seq(Int) /\ Len(<<e>>) = 1 /\ <<e>>[1] = e
  OBVIOUS
<1>5. u = <<e>>
  BY <1>1, <1>3, <1>4, SeqEqual
<1>6. 1 <= Len(t)
  BY <1>1
<1> QED BY <1>5, <1>6 DEF t, u
\* Every step is one of DropOldestQueue or changes nothing it speaks of.
LEMMA NextImplements == IInv /\ IInv' /\ [Next]_vars => [Promised!Next]_(Promised!vars)
<1> SUFFICES ASSUME IInv, IInv', [Next]_vars PROVE [Promised!Next]_(Promised!vars)
  OBVIOUS
<1> USE DEF IInv
<1>q. queue \in Seq(Int) /\ queue' \in Seq(Int)
  <2>1. 1 .. Reports \subseteq Int
    BY MailboxAssumption DEF MailboxAssumption
  <2> QED BY <2>1, SeqMonotonic DEF TypeOK
<1>1. CASE Malloc
  <2>1. /\ put = "idle" /\ queue' = queue /\ poll' = poll /\ taken' = taken
        /\ out' = out /\ garbage' = garbage /\ decoded' = decoded + 1
        /\ decoded < Reports /\ put' \in {"idle", "lock"}
    BY <1>1 DEF Malloc, pollerVars
  <2>2. InHand("copy")' = InHand("copy") /\ ToDrop' = ToDrop
    BY <2>1, HandKept DEF ToDrop
  <2>3. Store' = Store
    BY <2>1, <2>2 DEF Store
  <2>4. CASE put' = "lock"
    <3>1. Settled' = Settled
      BY <2>1, <2>4, SettledType DEF Settled, Pending
    <3> QED BY <2>1, <2>3, <3>1, UnseenIsStutter DEF Unseen
  <2>5. CASE put' = "idle"
    <3>1. Settled = decoded /\ Settled' = decoded + 1
      BY <2>1, <2>5 DEF Settled, Pending
    <3>2. Promised!Lose
      BY <2>1, <2>3, <3>1 DEF Promised!Lose
    <3> QED BY <3>2 DEF Promised!Next
  <2> QED BY <2>1, <2>4, <2>5
<1>2. CASE PutLock
  <2>1. /\ queue' = queue /\ decoded' = decoded /\ out' = out /\ garbage' = garbage
        /\ (Pending' <=> Pending) /\ (put' = "resend" <=> put = "resend")
    BY <1>2 DEF PutLock, Pending, pollerVars
  <2>2. \A q \in Pollers : /\ poll'[q] = "copy" <=> poll[q] = "copy"
                           /\ poll[q] = "copy" => taken'[q] = taken[q]
    BY <1>2 DEF PutLock, TypeOK, pollerVars
  <2> QED BY <2>1, <2>2, UnseenStep, UnseenIsStutter
<1>3. CASE PutSend
  <2>1. CASE ~Full /\ queue' = Append(queue, decoded) /\ put' = "unlock"
    <3>1. /\ put = "send" /\ poll' = poll /\ out' = out /\ decoded' = decoded
          /\ \A q \in Pollers : poll[q] # "copy"
      BY <1>3, HandsOff DEF PutSend, pollerVars
    <3>2. Store = queue /\ Store' = Append(queue, decoded)
      BY <2>1, <3>1, <1>q, StoreIsQueue, NextStoreIsQueue
    <3>3. Settled = decoded - 1 /\ Settled' = decoded
      BY <2>1, <3>1 DEF Settled, Pending
    <3>4. Len(Append(queue, decoded)) <= APP_EVENT_QUEUE_LEN
      BY <2>1, MailboxAssumption DEF Full, TypeOK, MailboxAssumption
    <3>5. Promised!Newest(Append(queue, decoded), APP_EVENT_QUEUE_LEN)
            = Append(queue, decoded)
      BY <3>4 DEF Promised!Newest
    <3>6. decoded - 1 < Reports /\ (decoded - 1) + 1 = decoded
      BY MailboxAssumption DEF TypeOK, MailboxAssumption
    <3>7. Promised!Put
      BY <3>1, <3>2, <3>3, <3>5, <3>6 DEF Promised!Put
    <3> QED BY <3>7 DEF Promised!Next
  <2>2. CASE put' = "drop" /\ UNCHANGED queue
    <3>1. /\ put = "send" /\ poll' = poll /\ taken' = taken /\ out' = out
          /\ decoded' = decoded /\ garbage' = garbage
      BY <1>3 DEF PutSend, pollerVars
    <3>2. Unseen
      BY <2>2, <3>1, UnseenStep DEF Pending
    <3> QED BY <3>2, UnseenIsStutter
  <2> QED BY <1>3, <2>1, <2>2 DEF PutSend
<1>4. CASE PutDrop
  <2>1. /\ put = "drop" /\ queue # <<>>
    BY <1>4, MailboxAssumption DEF PutDrop, RoomMade, MailboxAssumption
  <2>2. /\ queue' = Tail(queue) /\ garbage' = Head(queue) /\ put' = "resend"
        /\ poll' = poll /\ out' = out /\ decoded' = decoded
        /\ \A q \in Pollers : poll[q] # "copy"
    BY <1>4, <2>1, HandsOff DEF PutDrop, pollerVars
  <2>3. Store = queue
    BY <1>q, <2>1, <2>2, StoreIsQueue
  <2>4. InHand("copy")' = <<>> /\ ToDrop' = <<Head(queue)>>
    BY <2>2, NextHandIsEmpty DEF ToDrop
  <2>5. /\ <<Head(queue)>> \o Tail(queue) = queue
        /\ <<>> \o <<Head(queue)>> = <<Head(queue)>>
    BY <1>q, <2>1, HeadThenTail, ConcatEmptySeq
  <2>6. Store' = queue
    BY <2>2, <2>4, <2>5 DEF Store
  <2>7. Settled' = Settled
    BY <2>1, <2>2 DEF Settled, Pending
  <2> QED BY <2>2, <2>3, <2>6, <2>7, UnseenIsStutter DEF Unseen
<1>5. CASE PutResend
  <2>1. /\ put = "resend" /\ Len(queue) = APP_EVENT_QUEUE_LEN - 1
        /\ \A q \in Pollers : poll[q] # "copy"
    BY <1>5, HandsOff DEF PutResend, RoomMade
  <2>2. ~Full
    BY <2>1, MailboxAssumption DEF Full, MailboxAssumption
  <2>3. /\ queue' = Append(queue, decoded) /\ put' = "unlock"
        /\ poll' = poll /\ out' = out /\ decoded' = decoded
    BY <1>5, <2>2 DEF PutResend, pollerVars
  <2>4. garbage \in Int /\ decoded \in Int /\ decoded - 1 < Reports
        /\ (decoded - 1) + 1 = decoded /\ Len(queue) + 1 = APP_EVENT_QUEUE_LEN
    BY <2>1, MailboxAssumption DEF TypeOK, MailboxAssumption
  <2>5. InHand("copy") = <<>> /\ ToDrop = <<garbage>> /\ <<>> \o <<garbage>> = <<garbage>>
    BY <2>1, <2>4, HandIsEmpty, ConcatEmptySeq DEF ToDrop
  <2>6. Store = <<garbage>> \o queue
    BY <2>5 DEF Store
  <2>7. Store' = Append(queue, decoded)
    BY <1>q, <2>1, <2>3, NextStoreIsQueue
  <2>8. Settled = decoded - 1 /\ Settled' = decoded
    BY <2>1, <2>3 DEF Settled, Pending
  <2>9. Promised!Newest(Append(<<garbage>> \o queue, decoded), APP_EVENT_QUEUE_LEN)
          = Append(queue, decoded)
    BY <1>q, <2>4, NewestOfFull
  <2>10. Promised!Put
    BY <2>3, <2>4, <2>6, <2>7, <2>8, <2>9 DEF Promised!Put
  <2> QED BY <2>10 DEF Promised!Next
<1>6. CASE PutUnlock
  <2>1. /\ queue' = queue /\ decoded' = decoded /\ out' = out /\ garbage' = garbage
        /\ (Pending' <=> Pending) /\ (put' = "resend" <=> put = "resend")
    BY <1>6 DEF PutUnlock, Pending, pollerVars
  <2>2. \A q \in Pollers : /\ poll'[q] = "copy" <=> poll[q] = "copy"
                           /\ poll[q] = "copy" => taken'[q] = taken[q]
    BY <1>6 DEF PutUnlock, TypeOK, pollerVars
  <2> QED BY <2>1, <2>2, UnseenStep, UnseenIsStutter
<1>7. ASSUME NEW p \in Pollers,
            PollCall(p) \/ PollLock(p) \/ PollTake(p) \/ PollTimeout(p)
              \/ PollDeleted(p) \/ PollCopy(p) \/ PollUnlock(p)
      PROVE  [Promised!Next]_(Promised!vars)
  <2>1. CASE PollCall(p)
    <3>1. /\ queue' = queue /\ decoded' = decoded /\ out' = out /\ garbage' = garbage
          /\ (Pending' <=> Pending) /\ (put' = "resend" <=> put = "resend")
      BY <2>1 DEF PollCall, Pending, producerVars
    <3>2. \A q \in Pollers : /\ poll'[q] = "copy" <=> poll[q] = "copy"
                             /\ poll[q] = "copy" => taken'[q] = taken[q]
      BY <2>1 DEF PollCall, TypeOK, producerVars
    <3> QED BY <3>1, <3>2, UnseenStep, UnseenIsStutter
  <2>2. CASE PollLock(p)
    <3>1. /\ queue' = queue /\ decoded' = decoded /\ out' = out /\ garbage' = garbage
          /\ (Pending' <=> Pending) /\ (put' = "resend" <=> put = "resend")
      BY <2>2 DEF PollLock, Pending, producerVars
    <3>2. \A q \in Pollers : /\ poll'[q] = "copy" <=> poll[q] = "copy"
                             /\ poll[q] = "copy" => taken'[q] = taken[q]
      BY <2>2 DEF PollLock, TypeOK, producerVars
    <3> QED BY <3>1, <3>2, UnseenStep, UnseenIsStutter
  <2>3. CASE PollTake(p)
    <3>1. /\ poll[p] = "wait" /\ queue # <<>> /\ queue' = Tail(queue)
          /\ taken' = [taken EXCEPT ![p] = Head(queue)]
          /\ poll' = [poll EXCEPT ![p] = "copy"]
          /\ put' = put /\ decoded' = decoded /\ garbage' = garbage /\ out' = out
      BY <2>3 DEF PollTake, producerVars
    <3>2. /\ put # "resend" /\ \A q \in Pollers : poll[q] # "copy"
          /\ \A q \in Pollers \ {p} : poll'[q] # "copy"
          /\ poll'[p] = "copy" /\ taken'[p] = Head(queue)
      BY <3>1, OneOwner DEF TypeOK
    <3>3. Store = queue
      BY <1>q, <3>2, StoreIsQueue
    <3>4. InHand("copy")' = <<Head(queue)>> /\ ToDrop' = <<>>
      BY <3>1, <3>2, NextHandIs DEF ToDrop
    <3>5. /\ <<Head(queue)>> \o Tail(queue) = queue
          /\ <<Head(queue)>> \o <<>> = <<Head(queue)>>
      BY <1>q, <3>1, HeadThenTail, ConcatEmptySeq
    <3>6. Store' = queue
      BY <3>1, <3>4, <3>5 DEF Store
    <3>7. Settled' = Settled
      BY <3>1 DEF Settled, Pending
    <3> QED BY <3>1, <3>3, <3>6, <3>7, UnseenIsStutter DEF Unseen
  <2>4. CASE PollTimeout(p)
    <3>1. /\ queue' = queue /\ decoded' = decoded /\ out' = out /\ garbage' = garbage
          /\ (Pending' <=> Pending) /\ (put' = "resend" <=> put = "resend")
      BY <2>4 DEF PollTimeout, Pending, producerVars
    <3>2. \A q \in Pollers : /\ poll'[q] = "copy" <=> poll[q] = "copy"
                             /\ poll[q] = "copy" => taken'[q] = taken[q]
      BY <2>4 DEF PollTimeout, TypeOK, producerVars
    <3> QED BY <3>1, <3>2, UnseenStep, UnseenIsStutter
  <2>5. CASE PollDeleted(p)
    <3>1. /\ queue' = queue /\ decoded' = decoded /\ out' = out /\ garbage' = garbage
          /\ (Pending' <=> Pending) /\ (put' = "resend" <=> put = "resend")
      BY <2>5 DEF PollDeleted, Pending, pollerVars, producerVars
    <3>2. \A q \in Pollers : /\ poll'[q] = "copy" <=> poll[q] = "copy"
                             /\ poll[q] = "copy" => taken'[q] = taken[q]
      BY <2>5 DEF PollDeleted, TypeOK, pollerVars, producerVars
    <3> QED BY <3>1, <3>2, UnseenStep, UnseenIsStutter
  <2>6. CASE PollCopy(p)
    <3>1. /\ poll[p] = "copy" /\ out' = Append(out, taken[p]) /\ queue' = queue
          /\ poll' = [poll EXCEPT ![p] = "unlock"]
          /\ put' = put /\ decoded' = decoded /\ taken[p] \in Int
      BY <2>6, MailboxAssumption DEF PollCopy, producerVars, TypeOK, MailboxAssumption
    <3>2. /\ put # "resend" /\ \A q \in Pollers : poll'[q] # "copy"
      BY <3>1, OneOwner DEF TypeOK
    <3>3. Store = <<taken[p]>> \o queue
      BY <1>q, <3>1, <3>2, StoreOfHand
    <3>4. Store' = queue
      BY <1>q, <3>1, <3>2, NextStoreIsQueue
    <3>5. Store # <<>> /\ Head(Store) = taken[p] /\ Tail(Store) = queue
      <4>1. /\ Len(<<taken[p]>> \o queue) = Len(queue) + 1 /\ Len(queue) \in Nat
            /\ Head(<<taken[p]>> \o queue) = taken[p]
            /\ Tail(<<taken[p]>> \o queue) = queue
        BY <1>q, <3>1, OneBefore
      <4>2. <<taken[p]>> \o queue # <<>>
        BY <4>1, EmptySeq
      <4> QED BY <3>3, <4>1, <4>2
    <3>6. Settled' = Settled
      BY <3>1 DEF Settled, Pending
    <3>7. Promised!Take
      BY <3>1, <3>4, <3>5, <3>6 DEF Promised!Take
    <3> QED BY <3>7 DEF Promised!Next
  <2>7. CASE PollUnlock(p)
    <3>1. /\ queue' = queue /\ decoded' = decoded /\ out' = out /\ garbage' = garbage
          /\ (Pending' <=> Pending) /\ (put' = "resend" <=> put = "resend")
      BY <2>7 DEF PollUnlock, Pending, producerVars
    <3>2. \A q \in Pollers : /\ poll'[q] = "copy" <=> poll[q] = "copy"
                             /\ poll[q] = "copy" => taken'[q] = taken[q]
      BY <2>7 DEF PollUnlock, TypeOK, producerVars
    <3> QED BY <3>1, <3>2, UnseenStep, UnseenIsStutter
  <2> QED BY <1>7, <2>1, <2>2, <2>3, <2>4, <2>5, <2>6, <2>7
<1>8. CASE DecoderEnds
  <2>1. /\ queue' = queue /\ decoded' = decoded /\ out' = out /\ garbage' = garbage
        /\ (Pending' <=> Pending) /\ (put' = "resend" <=> put = "resend")
    BY <1>8 DEF DecoderEnds, Pending, pollerVars, producerVars, StopStep
  <2>2. \A q \in Pollers : /\ poll'[q] = "copy" <=> poll[q] = "copy"
                           /\ poll[q] = "copy" => taken'[q] = taken[q]
    BY <1>8 DEF DecoderEnds, TypeOK, pollerVars, producerVars, StopStep
  <2> QED BY <2>1, <2>2, UnseenStep, UnseenIsStutter
<1>9. CASE DeleteMutex
  <2>1. /\ queue' = queue /\ decoded' = decoded /\ out' = out /\ garbage' = garbage
        /\ (Pending' <=> Pending) /\ (put' = "resend" <=> put = "resend")
    BY <1>9 DEF DeleteMutex, Pending, pollerVars, producerVars, StopStep
  <2>2. \A q \in Pollers : /\ poll'[q] = "copy" <=> poll[q] = "copy"
                           /\ poll[q] = "copy" => taken'[q] = taken[q]
    BY <1>9 DEF DeleteMutex, TypeOK, pollerVars, producerVars, StopStep
  <2> QED BY <2>1, <2>2, UnseenStep, UnseenIsStutter
<1>10. CASE DeleteQueue
  <2>1. /\ queue' = <<>> /\ put' = put /\ decoded' = decoded /\ garbage' = garbage
        /\ poll' = poll /\ taken' = taken /\ out' = out /\ put # "resend"
    BY <1>10 DEF DeleteQueue, StopStep, producerVars, pollerVars, Excluded
  <2>2. InHand("copy")' = InHand("copy") /\ ToDrop' = <<>> /\ ToDrop = <<>>
    BY <2>1, HandKept DEF ToDrop
  <2>3. Settled' = Settled
    BY <2>1 DEF Settled, Pending
  <2>4. CASE \A q \in Pollers : poll[q] # "copy"
    <3>1. Store = queue /\ Store' = <<>>
      BY <1>q, <2>1, <2>4, StoreIsQueue, NextStoreIsQueue
    <3>2. 0 \in 0 .. 1 /\ 0 <= Len(Store) /\ Store' = SubSeq(Store, 1, 0)
      BY <1>q, <3>1, SubSeqEmpty
    <3>3. Promised!Close
      BY <2>1, <2>3, <3>2 DEF Promised!Close
    <3> QED BY <3>3 DEF Promised!Next
  <2>5. CASE \E q \in Pollers : poll[q] = "copy"
    <3>1. PICK r \in Pollers : poll[r] = "copy"
      BY <2>5
    <3>2. taken[r] \in Int
      BY <3>1, MailboxAssumption DEF TypeOK, MailboxAssumption
    <3>3. Store = <<taken[r]>> \o queue
      BY <1>q, <2>1, <3>1, <3>2, StoreOfHand
    <3>4. Store' = <<taken[r]>>
      <4>1. InHand("copy")' = <<taken[r]>>
        BY <2>2, <3>1, HandIs
      <4>2. <<taken[r]>> \o <<>> = <<taken[r]>>
        BY <3>2, ConcatEmptySeq
      <4>3. Store' = InHand("copy")' \o ToDrop' \o queue'
        BY DEF Store
      <4>4. Store' = <<taken[r]>> \o <<>> \o <<>>
        BY <2>1, <2>2, <4>1, <4>3
      <4> QED BY <4>2, <4>4
    <3>5. 1 <= Len(Store) /\ SubSeq(Store, 1, 1) = <<taken[r]>>
      <4>1. /\ 1 <= Len(<<taken[r]>> \o queue)
            /\ SubSeq(<<taken[r]>> \o queue, 1, 1) = <<taken[r]>>
        BY <1>q, <3>2, FirstAlone
      <4> QED BY <3>3, <4>1
    <3>6. 1 \in 0 .. 1 /\ 1 <= Len(Store) /\ Store' = SubSeq(Store, 1, 1)
      <4>1. Store' = SubSeq(Store, 1, 1)
        BY <3>4, <3>5, Zenon
      <4>2. 1 \in 0 .. 1
        OBVIOUS
      <4>3. 1 <= Len(Store)
        BY <3>5, Zenon
      <4> QED BY <4>1, <4>2, <4>3, Zenon
    <3>7. Promised!Close
      BY <2>1, <2>3, <3>6 DEF Promised!Close
    <3> QED BY <3>7 DEF Promised!Next
  <2> QED BY <2>4, <2>5
<1>11. CASE Stopped
  <2>1. /\ queue' = queue /\ decoded' = decoded /\ out' = out /\ garbage' = garbage
        /\ (Pending' <=> Pending) /\ (put' = "resend" <=> put = "resend")
    BY <1>11 DEF Stopped, Pending, pollerVars, producerVars, StopStep
  <2>2. \A q \in Pollers : /\ poll'[q] = "copy" <=> poll[q] = "copy"
                           /\ poll[q] = "copy" => taken'[q] = taken[q]
    BY <1>11 DEF Stopped, TypeOK, pollerVars, producerVars, StopStep
  <2> QED BY <2>1, <2>2, UnseenStep, UnseenIsStutter
<1>12. CASE UNCHANGED vars
  <2>1. Unseen
    BY <1>12, UnseenStep DEF vars, Pending
  <2> QED BY <2>1, UnseenIsStutter
<1> QED BY <1>1, <1>2, <1>3, <1>4, <1>5, <1>6, <1>7, <1>8, <1>9, <1>10, <1>11, <1>12,
           NextIsStep DEF Step

\* The queue with its mutex, its heap blocks and its pollers does what
\* DropOldestQueue promises, and when it is stopped keeps nothing but what a poller
\* has already got hold of.
THEOREM MailboxImplementsQueue == Spec => Implements
<1>1. Init => Promised!Init
  <2> SUFFICES ASSUME Init PROVE Promised!Init
    OBVIOUS
  <2>1. queue = <<>> /\ put = "idle" /\ decoded = 0 /\ out = <<>>
        /\ \A q \in Pollers : poll[q] # "copy"
    BY DEF Init
  <2>2. Store = <<>>
    BY <2>1, StoreIsQueue, EmptySeq
  <2>3. Settled = 0
    BY <2>1 DEF Settled, Pending
  <2> QED BY <2>1, <2>2, <2>3 DEF Promised!Init
<1>2. IInv /\ IInv' /\ [Next]_vars => [Promised!Next]_(Promised!vars)
  BY NextImplements
<1> QED BY <1>1, <1>2, MailboxInvariant, PTL DEF Spec, Implements, Promised!Spec
=============================================================================
