--------------------------- MODULE DropOldestQueue ---------------------------
(***************************************************************************)
(* What the application promises of its report queue (and of its response  *)
(* queue): the decoder numbers what it has decoded, a put into a full      *)
(* queue pushes out the oldest element in the same step, and every element *)
(* is taken at most once, in the order of the puts.                        *)
(***************************************************************************)
EXTENDS Integers, Sequences

CONSTANTS Reports, Capacity

VARIABLES
  made,    \* how many have been decoded and put, or lost for want of memory
  store,   \* the queue
  out      \* what has been taken so far

vars == <<made, store, out>>

\* The newest n elements of s.
Newest(s, n) == IF Len(s) <= n THEN s ELSE SubSeq(s, Len(s) - n + 1, Len(s))

Init == made = 0 /\ store = <<>> /\ out = <<>>

Put ==
  /\ made < Reports
  /\ made' = made + 1
  /\ store' = Newest(Append(store, made'), Capacity)
  /\ UNCHANGED out

Lose ==
  /\ made < Reports
  /\ made' = made + 1
  /\ UNCHANGED <<store, out>>

Take ==
  /\ store # <<>>
  /\ out' = Append(out, Head(store))
  /\ store' = Tail(store)
  /\ UNCHANGED made

\* The system stops: all goes but the element a reader has already got hold of.
Close ==
  /\ \E n \in 0 .. 1 : n <= Len(store) /\ store' = SubSeq(store, 1, n)
  /\ UNCHANGED <<made, out>>

Next == Put \/ Lose \/ Take \/ Close

Spec == Init /\ [][Next]_vars
=============================================================================
