-------------------------- MODULE MCValidatorRanges --------------------------
(***************************************************************************)
(* The instance of ValidatorRanges for TLC.  With one permit for two       *)
(* networks the launch loop has to wait; a network with an additional      *)
(* source next to one without tells the two levels of aggregation apart.   *)
(* The record kept of a node depends on no other node, so one is enough.   *)
(***************************************************************************)
EXTENDS ValidatorRanges, TLC

CONSTANTS a, b      \* networks

AdditionalSources == (a :> 1) @@ (b :> 0)
=============================================================================
