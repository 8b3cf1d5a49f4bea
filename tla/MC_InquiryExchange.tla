-------------------------- MODULE MC_InquiryExchange --------------------------
(* Small instances of InquiryExchange for the model checker.                *)
EXTENDS InquiryExchange

CONSTANTS task_a, task_b

MCClients == {task_a, task_b}

\* Both switches and a third that is none, an inquiry for each mode, the one for
\* the UOF mode a setting of four bytes.
Set(type, value) == [type |-> type, value |-> value]
MCAsks ==
  { Set("OUTPUT_SWITCH", 0), Set("OUTPUT_SWITCH", 1), Set("OUTPUT_SWITCH", 2),
    Set("PRESENCE", QueryData), Set("MOTION_TRIGGER_TIME", 1000) }

MCData == {1}

\* A UOF report that comes with the words of an inquiry.
MCStrays == { [ctrl |-> 8, cmd |-> 12, payload |-> <<9, 7, 3, 8, 20>>] }

\* Like every report it answers no inquiry.
ASSUME StraysAnswerNothing == \A f \in Strays : Responses(f) = {}
=============================================================================
