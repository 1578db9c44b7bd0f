----------------------------- MODULE WindowJoin -----------------------------
(***************************************************************************)
(* What a windowed join promises, whatever its threads and queues do:      *)
(* arrivals collect in a pool; closing a window logs, in one step, a batch *)
(* made of the whole pool and empties it; each target gets batches of the  *)
(* log in order, each at most once, and may miss some.  A restart forgets  *)
(* the pool.                                                               *)
(***************************************************************************)
EXTENDS Naturals, Sequences

CONSTANTS
    Arrivals,  \* whatever can be accepted
    Targets,   \* the receivers of batches
    Rows(_)    \* the join of a pool

VARIABLES
    pool,      \* accepted arrivals no batch has been made of
    log,       \* the batches made so far
    delivered  \* for each target, the positions in log of what it got

vars == <<pool, log, delivered>>

Init ==
    /\ pool = {}
    /\ log = <<>>
    /\ delivered = [t \in Targets |-> <<>>]

\* An arrival is accepted once: it is not pooled and in no batch's window.
Accept(a) ==
    /\ a \notin pool
    /\ \A k \in DOMAIN log : a \notin log[k].window
    /\ pool' = pool \cup {a}
    /\ UNCHANGED <<log, delivered>>

Close ==
    /\ Rows(pool) # {}
    /\ log' = Append(log, [window |-> pool, rows |-> Rows(pool)])
    /\ pool' = {}
    /\ UNCHANGED delivered

Deliver(t) ==
    /\ \E k \in DOMAIN log :
        /\ \A i \in DOMAIN delivered[t] : delivered[t][i] < k
        /\ delivered' = [delivered EXCEPT ![t] = Append(@, k)]
    /\ UNCHANGED <<pool, log>>

Forget ==
    /\ pool' = {}
    /\ UNCHANGED <<log, delivered>>

Next ==
    \/ \E a \in Arrivals : Accept(a)
    \/ Close
    \/ \E t \in Targets : Deliver(t)
    \/ Forget

Spec == Init /\ [][Next]_vars
=============================================================================
