--------------------------- MODULE MCJoinerSetup ---------------------------
(***************************************************************************)
(* Joiners for TLC: one like that of examples/stream-join, one that sends  *)
(* to a stream and a component, one that sends to a stream only and so     *)
(* cannot start, one whose window does not parse, one with a single source *)
(* and one with an empty list of targets.                                  *)
(***************************************************************************)
EXTENDS JoinerSetup, Functions

CONSTANTS example, both, streamOnly, bad, oneSource, noTargets

Target(stream, component) == <<[stream |-> stream, component |-> component]>>

Joiner(from, to, where, window) ==
    [from |-> from, to |-> to, where |-> where, select |-> <<"select">>,
     window |-> window]

MCBad == {<<"bad">>}

Both == <<"hello", "goodbye">>

MCSpecOf ==
    [j \in {example, both, streamOnly, bad, oneSource, noTargets} |->
        CASE j = example    -> Joiner(Both, Target(<<>>, <<"proc">>), <<"where">>, <<"14s">>)
          [] j = both       -> Joiner(<<"goodbye", "hello">>,
                                      Target(<<"redis">>, <<"proc", "messages">>),
                                      <<>>, <<>>)
          [] j = streamOnly -> Joiner(Both, Target(<<"redis", "out">>, <<>>), <<>>, <<"14s">>)
          [] j = bad        -> Joiner(Both, Target(<<>>, <<"proc">>), <<>>, <<"bad">>)
          [] j = oneSource  -> Joiner(<<"hello">>, Target(<<>>, <<"proc">>), <<>>, <<"14s">>)
          [] j = noTargets  -> Joiner(Both, <<>>, <<>>, <<"14s">>)]

MCStreams == {"hello", "goodbye"}

\* Each Stream's specs; goodbye has a route of its own, later a new topic.
MCStreamSpecs ==
    [n \in MCStreams |->
        IF n = "hello"
        THEN {[clusterStream |-> "redis", topic |-> "t1", route |-> ""]}
        ELSE {[clusterStream |-> "redis", topic |-> "t2", route |-> "r"],
              [clusterStream |-> "redis", topic |-> "t3", route |-> ""]}]

Only(joiners) == [j \in joiners |-> MCSpecOf[j]]

ListedAs(order) ==
    [there \in SUBSET Range(order) |-> SelectSeq(order, LAMBDA j : j \in there)]

WithFilter   == <<bad, example>>
SeveralKinds == <<both, noTargets, streamOnly, oneSource>>

WithFilterSpecs     == Only(Range(WithFilter))
WithFilterListing   == ListedAs(WithFilter)
SeveralKindsSpecs   == Only(Range(SeveralKinds))
SeveralKindsListing == ListedAs(SeveralKinds)
=============================================================================
