------------------------- MODULE ChannelRefinement -------------------------
(***************************************************************************)
(* The channel implements Relay.  A position is behind a target when its   *)
(* call has returned, with success or not, or when a crash wiped it.       *)
(***************************************************************************)
EXTENDS Channel

PastFor(t) == {k \in DOMAIN received : Offered(t, k) \/ k \in lost}

Delivered == [t \in Targets |-> IF t = "stream" THEN published ELSE invoked]

R == INSTANCE Relay WITH
        Messages  <- Invocations,
        Passes    <- shouldCollect,
        log       <- received,
        behind    <- [t \in Targets |-> PastFor(t)],
        delivered <- Delivered

(* Every step of the channel is a step of the abstract relay or changes    *)
(* nothing it sees: what passes the filter is offered to every target in   *)
(* order, once, and only a crash makes a target miss one.                  *)
ImplementsRelay == R!Spec
=============================================================================
