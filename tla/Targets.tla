------------------------------ MODULE Targets ------------------------------
(***************************************************************************)
(* How the operator and the components pass a target around.  A target is  *)
(* written component[/route] or pubsub[/topic]; here it is the sequence of *)
(* its parts between slashes, empty if the string is.                      *)
(***************************************************************************)
EXTENDS Naturals, Sequences

\* The operator's: a missing route is the component's own name.
validateTarget(target) ==
    IF Len(target) = 1 THEN <<target[1], target[1]>> ELSE target

\* The component's: the parts, of which the first two are used.
GetTargetParts(target) ==
    IF Len(target) = 1 THEN Append(target, target[1]) ELSE target
=============================================================================
