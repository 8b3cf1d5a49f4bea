--------------------------- MODULE MC_EventMailbox ---------------------------
(***************************************************************************)
(* Two pollers, the network's sending task and the user, and a queue of    *)
(* two instead of 200, small enough to overflow.                           *)
(***************************************************************************)
EXTENDS EventMailbox
CONSTANTS network, user
MC_Pollers == {network, user}
=============================================================================
