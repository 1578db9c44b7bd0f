------------------------------ MODULE MCWiring ------------------------------
(***************************************************************************)
(* Resources like those of examples/channel for TLC: a Stream with and     *)
(* without a route, a channel to a processor with and without one, and a   *)
(* second channel without a source.  The processor's user sets a variable  *)
(* of his own and one of the runtime's.                                    *)
(***************************************************************************)
EXTENDS Wiring

Stream(topic, route, recipients) ==
    [clusterStream |-> "redis", topic |-> topic, route |-> route,
     recipients |-> recipients]

Channel(mode, trigger, from, component, where, select) ==
    [mode |-> mode, trigger |-> trigger, from |-> from,
     to |-> <<[stream |-> <<>>, component |-> component]>>,
     where |-> where, select |-> select]

Processor(route, env) ==
    [serviceRoute |-> route, target |-> <<"chan">>, env |-> env]

MCClusterStreams == {"redis"}

MCStreams    == {"greetings"}
MCChannels   == {"chan", "empty"}
MCProcessors == {"proc"}

MCSpecsOf ==
    [r \in {"redis", "greetings", "chan", "empty", "proc"} |->
        CASE r = "redis" -> {[protocol |-> "redis", properties |-> [redisHost |-> "redis:6379"]]}
          [] r = "greetings" -> {Stream("greetings", "", {"chan"}),
                                 Stream("greetings", "sink", {})}
          [] r = "chan"  -> {Channel("", "", <<"greetings">>, <<"proc">>, "where", "select"),
                             Channel("aggregate", "count", <<"sink">>, <<"proc", "in">>, "", ""),
                             Channel("aggregate", "", <<"sink">>, <<"proc">>, "", "")}
          [] r = "empty" -> {Channel("", "", <<>>, <<"proc">>, "bad", ""),
                             Channel("", "", <<"sink">>, <<"proc">>, "bad", "")}
          [] r = "proc"  -> {Processor("", [PROC_SERVICE_ROUTE |-> "mine", LOG |-> "all"]),
                             Processor("in", [LOG |-> "none"])}]

MCBad == {"bad"}
=============================================================================
