----------------------------- MODULE EventMailbox -----------------------------
(***************************************************************************)
(* The queue through which the decoder's reports reach the tasks that poll *)
(* for them: onReport, app_get_report and the end of app_stop_sys in       *)
(* mmWave_manager.c (responses go the same way through onResponse and      *)
(* app_get_response).  The queue holds pointers to heap blocks, a mutex    *)
(* makes a put of several calls one, and the pollers are tasks of their    *)
(* own, among them the network's sending task, which looks at the state of *)
(* the application before it polls.  A report is known by its number.      *)
(***************************************************************************)
EXTENDS Integers, Sequences, FiniteSets, SequencesExt

CONSTANTS
  Pollers,          \* tasks that poll
  Decoder,          \* the task that puts
  Reports,          \* bound: reports decoded
  APP_EVENT_QUEUE_LEN,
  None              \* nobody owns the mutex

ASSUME MailboxAssumption ==
  /\ Decoder \notin Pollers /\ None \notin Pollers \cup {Decoder}
  /\ Reports \in Nat
  /\ APP_EVENT_QUEUE_LEN \in Nat \ {0}

VARIABLES
  decoded,        \* reports decoded so far
  put,            \* where onReport is
  garbage,        \* its local: the report taken out of a full queue
  queue,          \* app_report_queue
  mutex,          \* owner of report_queue_mutex
  heap,           \* reports whose block is allocated
  poll, taken,    \* where each poller is, the report it has in hand
  out,            \* reports handed to the pollers, in this order
  stage,          \* how far app_stop_sys is
  fault           \* use of a deleted mutex or queue, free of a wild pointer

producerVars == <<decoded, put, garbage>>
pollerVars   == <<poll, taken, out>>
vars == <<decoded, put, garbage, queue, mutex, heap, poll, taken, out, stage,
          fault>>

Init ==
  /\ decoded = 0 /\ put = "idle" /\ garbage = 0
  /\ queue = <<>> /\ mutex = None /\ heap = {}
  /\ poll = [p \in Pollers |-> "idle"] /\ taken = [p \in Pollers |-> 0]
  /\ out = <<>>
  /\ stage = "running" /\ fault = "none"

\* No assertion has failed and no wild pointer been freed.
Up == fault = "none"

MutexExists == stage \in {"running", "decoder_ended"}
QueueExists == stage \in {"running", "decoder_ended", "mutex_deleted"}

FullOneLate == Len(queue) > APP_EVENT_QUEUE_LEN        \* mutant: off by one
Full == Len(queue) = APP_EVENT_QUEUE_LEN

-----------------------------------------------------------------------------
(* onReport, called by the decoder.                                         *)

\* A block is allocated for the report and its content copied; without one the
\* report is lost and nobody is told.
Malloc ==
  /\ Up /\ put = "idle" /\ stage = "running" /\ decoded < Reports
  /\ decoded' = decoded + 1
  /\ \/ put' = "lock" /\ heap' = heap \cup {decoded'}
     \/ UNCHANGED <<put, heap>>
  /\ UNCHANGED <<garbage, queue, mutex, pollerVars, stage, fault>>

PutLock ==
  /\ Up /\ put = "lock" /\ mutex = None
  /\ mutex' = Decoder /\ put' = "send"
  /\ UNCHANGED <<decoded, garbage, queue, heap, pollerVars, stage, fault>>

PutSend ==
  /\ Up /\ put = "send"
  /\ \/ ~Full /\ queue' = Append(queue, decoded) /\ put' = "unlock"
     \/ Full /\ put' = "drop" /\ UNCHANGED queue
  /\ UNCHANGED <<decoded, garbage, mutex, heap, pollerVars, stage, fault>>

\* The oldest report goes; had the queue become empty, garbage would be wild.
DropKeepsBlock ==                           \* mutant: the block is not freed
  /\ Up /\ put = "drop"
  /\ fault' = IF queue = <<>> THEN "wild_free" ELSE fault
  /\ garbage' = IF queue = <<>> THEN 0 ELSE Head(queue)
  /\ queue' = IF queue = <<>> THEN queue ELSE Tail(queue)
  /\ put' = "resend"
  /\ UNCHANGED <<decoded, mutex, heap, pollerVars, stage>>
DropNewest ==                               \* mutant: the wrong end
  /\ Up /\ put = "drop"
  /\ fault' = IF queue = <<>> THEN "wild_free" ELSE fault
  /\ garbage' = IF queue = <<>> THEN 0 ELSE Last(queue)
  /\ queue' = IF queue = <<>> THEN queue ELSE Front(queue)
  /\ heap' = heap \ {garbage'}
  /\ put' = "resend"
  /\ UNCHANGED <<decoded, mutex, pollerVars, stage>>
PutDrop ==
  /\ Up /\ put = "drop"
  /\ fault' = IF queue = <<>> THEN "wild_free" ELSE fault
  /\ garbage' = IF queue = <<>> THEN 0 ELSE Head(queue)
  /\ queue' = IF queue = <<>> THEN queue ELSE Tail(queue)
  /\ heap' = heap \ {garbage'}
  /\ put' = "resend"
  /\ UNCHANGED <<decoded, mutex, pollerVars, stage>>

\* Were the queue full again, the new report would be freed.
PutResend ==
  /\ Up /\ put = "resend"
  /\ queue' = IF Full THEN queue ELSE Append(queue, decoded)
  /\ heap' = IF Full THEN heap \ {decoded} ELSE heap
  /\ put' = "unlock" /\ garbage' = 0
  /\ UNCHANGED <<decoded, mutex, pollerVars, stage, fault>>

\* The mutex is given back and the callback, if any, is called.
PutUnlock ==
  /\ Up /\ put = "unlock"
  /\ mutex' = None /\ put' = "idle"
  /\ UNCHANGED <<decoded, garbage, queue, heap, pollerVars, stage, fault>>

OnReport == Malloc \/ PutSend \/ PutDrop \/ PutResend \/ PutUnlock

-----------------------------------------------------------------------------
(* app_get_report, called by poller p.                                      *)

\* The poller has seen the application RUNNING, which it is until the last step
\* of app_stop_sys.
PollCall(p) ==
  /\ Up /\ poll[p] = "idle" /\ stage # "stopped"
  /\ poll' = [poll EXCEPT ![p] = "lock"]
  /\ UNCHANGED <<producerVars, queue, mutex, heap, taken, out, stage, fault>>

MayEnterAlways == TRUE                      \* mutant: the mutex is not taken
MayEnter == mutex = None
PollLock(p) ==
  /\ Up /\ poll[p] = "lock"
  /\ \/ /\ MutexExists /\ MayEnter
        /\ mutex' = p /\ poll' = [poll EXCEPT ![p] = "wait"]
        /\ UNCHANGED fault
     \/ /\ ~MutexExists
        /\ fault' = "null_mutex"
        /\ UNCHANGED <<mutex, poll>>
  /\ UNCHANGED <<producerVars, queue, heap, taken, out, stage>>

\* The wait on the queue, with the mutex held: a report, a timeout, or the queue
\* is no more.
PollTake(p) ==
  /\ Up /\ poll[p] = "wait" /\ QueueExists /\ queue # <<>>
  /\ taken' = [taken EXCEPT ![p] = Head(queue)]
  /\ queue' = Tail(queue)
  /\ poll' = [poll EXCEPT ![p] = "copy"]
  /\ UNCHANGED <<producerVars, mutex, heap, out, stage, fault>>

PollTimeout(p) ==
  /\ Up /\ poll[p] = "wait" /\ QueueExists /\ queue = <<>>
  /\ poll' = [poll EXCEPT ![p] = "unlock"]
  /\ UNCHANGED <<producerVars, queue, mutex, heap, taken, out, stage, fault>>

PollDeleted(p) ==
  /\ Up /\ poll[p] = "wait" /\ ~QueueExists
  /\ fault' = "deleted_queue"
  /\ UNCHANGED <<producerVars, queue, mutex, heap, pollerVars, stage>>

\* The report is copied out and its block freed.
PollCopy(p) ==
  /\ Up /\ poll[p] = "copy"
  /\ out' = Append(out, taken[p])
  /\ heap' = heap \ {taken[p]}
  /\ taken' = [taken EXCEPT ![p] = 0]
  /\ poll' = [poll EXCEPT ![p] = "unlock"]
  /\ UNCHANGED <<producerVars, queue, mutex, stage, fault>>

\* Giving the mutex back by its handle, which app_stop_sys sets to NULL.
LeaveLocked == UNCHANGED mutex              \* mutant: returns with the mutex held
Leave == mutex' = None
PollUnlock(p) ==
  /\ Up /\ poll[p] = "unlock"
  /\ \/ /\ MutexExists
        /\ Leave /\ poll' = [poll EXCEPT ![p] = "idle"]
        /\ UNCHANGED fault
     \/ /\ ~MutexExists
        /\ fault' = "null_mutex"
        /\ UNCHANGED <<mutex, poll>>
  /\ UNCHANGED <<producerVars, queue, heap, taken, out, stage>>

Poll(p) ==
  \/ PollLock(p) \/ PollTake(p) \/ PollTimeout(p) \/ PollDeleted(p)
  \/ PollCopy(p) \/ PollUnlock(p)

-----------------------------------------------------------------------------
(* The end of app_stop_sys: the decoder ends between two reports; then the  *)
(* mutex and the queue are deleted, and the state changes last.             *)

StopStep(from, to) ==
  /\ Up /\ stage = from /\ stage' = to
  /\ UNCHANGED <<producerVars, mutex, heap, pollerVars, fault>>
DecoderEnds == put = "idle" /\ StopStep("running", "decoder_ended") /\ UNCHANGED queue
DeleteMutex == StopStep("decoder_ended", "mutex_deleted") /\ UNCHANGED queue
DeleteQueue == StopStep("mutex_deleted", "queue_deleted") /\ queue' = <<>>
Stopped     == StopStep("queue_deleted", "stopped") /\ UNCHANGED queue

Stop == DecoderEnds \/ DeleteMutex \/ DeleteQueue \/ Stopped

-----------------------------------------------------------------------------
Next ==
  \/ OnReport \/ PutLock
  \/ \E p \in Pollers : PollCall(p) \/ Poll(p)
  \/ Stop

Spec == Init /\ [][Next]_vars

\* A task that can go on does so: a wait on the queue has a timeout, one on the
\* mutex ends when it is given back.  No poller has a priority above the decoder's,
\* and the network task of the same priority pauses when it finds the queue empty:
\* the decoder is not passed over for the mutex again and again.
FairSpec ==
  /\ Spec
  /\ WF_vars(OnReport)
  /\ SF_vars(PutLock)
  /\ \A p \in Pollers : WF_vars(Poll(p))

-----------------------------------------------------------------------------
(* Properties.                                                              *)

TypeOK ==
  /\ decoded \in 0 .. Reports
  /\ put \in {"idle", "lock", "send", "drop", "resend", "unlock"}
  /\ garbage \in 0 .. Reports
  /\ queue \in Seq(1 .. Reports) /\ Len(queue) <= APP_EVENT_QUEUE_LEN
  /\ mutex \in Pollers \cup {Decoder, None}
  /\ heap \subseteq 1 .. Reports
  /\ poll \in [Pollers -> {"idle", "lock", "wait", "copy", "unlock"}]
  /\ taken \in [Pollers -> 0 .. Reports]
  /\ out \in Seq(1 .. Reports)
  /\ stage \in {"running", "decoder_ended", "mutex_deleted", "queue_deleted",
                "stopped"}
  /\ fault \in {"none", "null_mutex", "deleted_queue", "wild_free"}

\* The steps of a put and of a poll that hold the mutex, and the decoder's end
\* between two puts: what keeps them out of each other's way.
Excluded ==
  /\ mutex = Decoder <=> put \in {"send", "drop", "resend", "unlock"}
  /\ \A p \in Pollers : mutex = p <=> poll[p] \in {"wait", "copy", "unlock"}
  /\ stage # "running" => put = "idle"

\* The queue is full until the oldest report goes and has room afterwards.
RoomMade ==
  /\ put = "drop" => Len(queue) = APP_EVENT_QUEUE_LEN
  /\ put = "resend" => Len(queue) = APP_EVENT_QUEUE_LEN - 1

\* Reports are in hand and in the queue in the order they were decoded, older than
\* the one that is being put.
Pending == put \in {"lock", "send", "drop", "resend"}
Settled == IF Pending THEN decoded - 1 ELSE decoded
Numbered ==
  /\ Pending => decoded >= 1
  /\ \A j \in 1 .. Len(queue) : \A k \in 1 .. Len(queue) : j < k => queue[j] < queue[k]
  /\ \A k \in 1 .. Len(queue) : queue[k] <= Settled
  /\ \A p \in Pollers : poll[p] = "copy" =>
       /\ 1 <= taken[p] /\ taken[p] <= Settled
       /\ \A k \in 1 .. Len(queue) : taken[p] < queue[k]

\* Reports somebody still has a pointer to.
Taken   == {taken[p] : p \in {q \in Pollers : poll[q] = "copy"}}
Putting == IF Pending THEN {decoded} ELSE {}
Held    == Range(queue) \cup Taken \cup Putting

\* While the queue exists every allocated report can still be reached and every
\* reachable one is allocated: none leaks, is freed twice or read after its free.
HeapIsReachable == QueueExists => heap = Held

\* Making room in a full queue always finds an element to free: nobody empties
\* the queue between the failed send and the removal of the oldest.
NoWildFree == fault # "wild_free"

\* The decoder is never shut out of the queue for good: pollers that wait with
\* the mutex in hand give it up again, and it goes on with the next report.
DecoderGoesOn == put # "idle" ~> put = "idle"

\* The several calls of a put and of a poll, interleaved as they may be, amount
\* to the atomic steps of DropOldestQueue: the report dropped to make room is
\* still there until the new one has been sent, the one a poller has taken until
\* it has been copied.
InHand(s) == IF \E p \in Pollers : poll[p] = s
             THEN <<taken[CHOOSE p \in Pollers : poll[p] = s]>> ELSE <<>>
ToDrop == IF put = "resend" THEN <<garbage>> ELSE <<>>
Store  == InHand("copy") \o ToDrop \o queue
Promised == INSTANCE DropOldestQueue WITH
  Capacity <- APP_EVENT_QUEUE_LEN,
  made  <- Settled,
  store <- Store,
  out   <- out
Implements == Promised!Spec
=============================================================================
