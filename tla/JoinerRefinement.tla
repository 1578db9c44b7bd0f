-------------------------- MODULE JoinerRefinement --------------------------
(***************************************************************************)
(* The joiner implements WindowJoin.  From the moment aggregateEvents      *)
(* succeeds until reset has run, what is in the store already belongs to a *)
(* batch: the abstract pool is empty.                                      *)
(***************************************************************************)
EXTENDS Joiner

RowsOf(pool) ==
    {pair \in pool \X pool : /\ TopicOf[pair[1][1]] = TopicA
                             /\ TopicOf[pair[2][1]] = TopicB
                             /\ shouldCollect(pair)}

Pool == IF inPc = "select" THEN Stored ELSE {}

Delivered ==
    [t \in {"stream", "component"} |->
        IF t = "stream" THEN published ELSE invoked]

WJ == INSTANCE WindowJoin WITH
        Targets   <- {"stream", "component"},
        Rows      <- RowsOf,
        pool      <- Pool,
        log       <- batches,
        delivered <- Delivered

(* Every step of the joiner is a step of the abstract windowed join or     *)
(* changes nothing it sees.                                                *)
ImplementsWindowJoin == WJ!Spec
=============================================================================
