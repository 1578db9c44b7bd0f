------------------------------ MODULE MCJoiner ------------------------------
(***************************************************************************)
(* Small instances of the joiner for TLC.  Messages a1, a2 come on topic   *)
(* hello; b1, b2 on topic goodbye.                                         *)
(***************************************************************************)
EXTENDS JoinerRefinement

CONSTANTS hello, goodbye, a1, a2, b1, b2

MCTopicOf == [e \in Events |-> IF e \in {a1, a2} THEN hello ELSE goodbye]

\* A pair the filter refuses and a pair on which evaluating it fails.
MCFilter ==
    [p \in Events \X Events |-> CASE p = <<a1, b2>> -> "false"
                                 [] p = <<a2, b1>> -> "error"
                                 [] OTHER          -> "true"]

\* A pair that passes the filter and cannot be projected.
MCSelect ==
    [p \in Events \X Events |-> IF p = <<a2, b2>> THEN "error" ELSE "ok"]
=============================================================================
