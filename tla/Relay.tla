------------------------------- MODULE Relay -------------------------------
(***************************************************************************)
(* What a relay promises, whatever its buffers and loops do: messages are  *)
(* taken into a log; each target is offered those that pass, in the order  *)
(* of the log and each once, and accepts or refuses each as it comes.  A   *)
(* restart may put some behind a target that was never offered them.       *)
(***************************************************************************)
EXTENDS Naturals, Sequences

CONSTANTS
    Messages,  \* whatever can be taken
    Targets,   \* the receivers
    Passes(_)  \* is a message for the targets?

VARIABLES
    log,       \* messages taken, in order
    behind,    \* for each target, the positions in log it will not be offered any more
    delivered  \* for each target, the positions it has accepted, in order

vars == <<log, behind, delivered>>

Init ==
    /\ log = <<>>
    /\ behind = [t \in Targets |-> {}]
    /\ delivered = [t \in Targets |-> <<>>]

Take(m) ==
    /\ log' = Append(log, m)
    /\ UNCHANGED <<behind, delivered>>

\* k is the first position that passes and is not behind t.
Due(t, k) ==
    /\ Passes(log[k]) /\ k \notin behind[t]
    /\ \A i \in DOMAIN log : i < k /\ Passes(log[i]) => i \in behind[t]

Offer(t, k) ==
    /\ Due(t, k)
    /\ behind' = [behind EXCEPT ![t] = @ \cup {k}]
    /\ \/ delivered' = [delivered EXCEPT ![t] = Append(@, k)]
       \/ UNCHANGED delivered
    /\ UNCHANGED log

Forget ==
    /\ \A t \in Targets : behind[t] \subseteq behind'[t] /\ behind'[t] \subseteq DOMAIN log
    /\ DOMAIN behind' = Targets
    /\ UNCHANGED <<log, delivered>>

Next ==
    \/ \E m \in Messages : Take(m)
    \/ \E t \in Targets : \E k \in DOMAIN log : Offer(t, k)
    \/ Forget

Spec == Init /\ [][Next]_vars
=============================================================================
