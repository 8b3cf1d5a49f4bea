---------------------------- MODULE InquiryService ----------------------------
(***************************************************************************)
(* What an application may expect of its inquiries, with the queues, the   *)
(* line and the words left out: inquiries that were taken are answered one *)
(* at a time and in their order, each by a response of its own type; any   *)
(* of them may be lost on the way.  Reports come in between.               *)
(***************************************************************************)
EXTENDS MmwaveProtocol, SequencesExt

CONSTANTS
  Asks,     \* inquiries an application makes: records of a type and a value
  Data      \* bytes that the sensor answers a question with

VARIABLES
  pending,  \* inquiries that were taken and are neither answered nor lost
  heard     \* the events that the last frame from the sensor was decoded to

Init == pending = <<>> /\ heard = {}

Ask ==
  /\ \E a \in Asks : pending' = Append(pending, a)
  /\ UNCHANGED heard

\* A setting is confirmed with its own value, a question is answered with data.
AnswerTo(a) ==
  IF a.type \in Settings THEN {Response(a.type, Bytes(a.value, WordOf(a.type).len))}
  ELSE {Response(a.type, <<d>>) : d \in Data}

Answer ==
  /\ pending # <<>>
  /\ \E r \in AnswerTo(Head(pending)) : heard' = {r}
  /\ pending' = Tail(pending)

Lose ==
  /\ \E i \in DOMAIN pending : pending' = RemoveAt(pending, i)
  /\ UNCHANGED heard

\* All that was under way is lost when the system is stopped.
LoseAll == pending' = <<>> /\ UNCHANGED heard

\* A report, or a frame that means nothing.
Announce ==
  /\ heard' = {} \/ \E e \in heard' : heard' = {e} /\ e.kind = "report"
  /\ UNCHANGED pending

Next == Ask \/ Answer \/ Lose \/ LoseAll \/ Announce

Exchange == Init /\ [][Next]_<<pending, heard>>

\* Whatever was taken is answered or lost some time.
Service == Exchange /\ WF_<<pending, heard>>(Answer \/ Lose \/ LoseAll)
=============================================================================
