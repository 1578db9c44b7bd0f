---------------------------- MODULE JoinerSetup ----------------------------
(***************************************************************************)
(* From a Joiner resource to a running joiner: the Joiner controller       *)
(* (controllers/joiner_controller.go) turns the resource and the Streams   *)
(* it names into the environment of a Deployment, and the component's main *)
(* (components/joiner/main.go) reads that environment when its pod starts. *)
(*                                                                         *)
(* The controller's reads are served by a cache; this module lets it see   *)
(* the cluster as it is, all of a Reconcile at once.  Users create, change *)
(* and delete Streams, and delete Joiners.  Strings are sequences of their *)
(* parts, <<>> when empty: a target is <<"proc", "route">>, an expression  *)
(* <<"expr">>.                                                             *)
(***************************************************************************)
EXTENDS Targets

CONSTANTS
    SpecOf,       \* the Joiner resources and the spec of each
    Listing,      \* the order in which the informer lists those there are
    Streams,      \* the names of Stream resources
    StreamSpecs,  \* the specs each Stream can have
    Bad,          \* values that do not parse: windows and expressions
    MaxChanges,   \* bound: changes of Stream resources
    None

StreamSpec == [clusterStream : STRING, topic : STRING, route : STRING]

JoinerSpec ==
    [from : Seq(Streams),
     to : Seq([stream : Seq(STRING), component : Seq(STRING)]),
     where : Seq(STRING), select : Seq(STRING), window : Seq(STRING)]

\* What a Deployment's container and a running component are given.
Environment ==
    [JOINER_STREAM_FROM_0       : [1..3 -> STRING],
     JOINER_STREAM_FROM_1       : [1..3 -> STRING],
     JOINER_STREAM_TO_STREAM    : Seq(STRING),
     JOINER_STREAM_TO_COMPONENT : Seq(STRING),
     JOINER_STREAM_WHERE        : Seq(STRING),
     JOINER_STREAM_SELECT       : Seq(STRING),
     JOINER_WINDOW_SIZE         : Seq(STRING)]

Configuration ==
    [subscriptions : [1..2 -> [pubsub : STRING, topic : STRING, route : STRING]],
     filter : Seq(STRING), component : Seq(STRING), stream : Seq(STRING)]

JoinerSet == DOMAIN SpecOf

ASSUME JoinersAssumption ==
    /\ \A j \in JoinerSet : SpecOf[j] \in JoinerSpec
    /\ MaxChanges \in Nat

ASSUME ListingAssumption ==
    /\ DOMAIN Listing = SUBSET JoinerSet
    /\ \A there \in SUBSET JoinerSet :
        /\ Listing[there] \in Seq(there)
        /\ \A j \in there : \E i \in DOMAIN Listing[there] : Listing[there][i] = j
        /\ \A i, k \in DOMAIN Listing[there] :
            i # k => Listing[there][i] # Listing[there][k]

ASSUME StreamsAssumption ==
    \A n \in Streams : StreamSpecs[n] \subseteq StreamSpec

ASSUME NoneAssumption == None \notin StreamSpec \cup Environment \cup Configuration

VARIABLES
    present,     \* the Joiners no user has deleted
    streams,     \* the Stream resources of the cluster
    changes,     \* changes of Streams so far
    manager,     \* "up" or "down"
    queue,       \* the controller's work queue
    backoff,     \* Joiners to be queued again
    deployment,  \* the environment of each Joiner's Deployment, or None
    pod,         \* "none", "running" or "failed"
    process,     \* the configuration of the running component, or None
    seen         \* history: every spec a Stream has had

clusterVars == <<present, streams, changes, seen>>
managerVars == <<manager, queue, backoff>>
podVars     == <<pod, process>>
vars == <<clusterVars, managerVars, deployment, podVars>>

-----------------------------------------------------------------------------
(***************************************************************************)
(* The controller: createJoinerDeployment and collateStreamInfo.           *)
(***************************************************************************)
From(j) == SpecOf[j].from
To(j)   == SpecOf[j].to

\* Topic, route (the topic if that is empty) and pubsub.  The code joins them
\* with '|' and getSubscription splits them again: here they stay a triple,
\* which is the same as long as none of them contains a '|'.
StreamInfo(s) ==
    <<s.clusterStream, s.topic, IF s.route = "" THEN s.topic ELSE s.route>>

\* len(From) != 2 is an error.
BadFrom(j) == Len(From(j)) # 2

\* To[0] of an empty list is a run-time panic.
Panics(j) == ~ BadFrom(j) /\ To(j) = <<>>

NoTarget(j) == To(j)[1].stream = <<>> /\ To(j)[1].component = <<>>

StreamMissing(j) == \E i \in DOMAIN From(j) : streams[From(j)[i]] = None

Rejects(j) ==
    \/ BadFrom(j)
    \/ ~ Panics(j) /\ (NoTarget(j) \/ StreamMissing(j))

\* Mutant: the two targets take each other's variable.
EnvSwapped(j) ==
    [JOINER_STREAM_FROM_0       |-> StreamInfo(streams[From(j)[1]]),
     JOINER_STREAM_FROM_1       |-> StreamInfo(streams[From(j)[2]]),
     JOINER_STREAM_TO_STREAM    |-> validateTarget(To(j)[1].component),
     JOINER_STREAM_TO_COMPONENT |-> validateTarget(To(j)[1].stream),
     JOINER_STREAM_WHERE        |-> SpecOf[j].where,
     JOINER_STREAM_SELECT       |-> SpecOf[j].select,
     JOINER_WINDOW_SIZE         |-> SpecOf[j].window]

\* Mutant: both subscriptions are made from the last stream read.
EnvOfLastStream(j) ==
    [JOINER_STREAM_FROM_0       |-> StreamInfo(streams[From(j)[2]]),
     JOINER_STREAM_FROM_1       |-> StreamInfo(streams[From(j)[2]]),
     JOINER_STREAM_TO_STREAM    |-> validateTarget(To(j)[1].stream),
     JOINER_STREAM_TO_COMPONENT |-> validateTarget(To(j)[1].component),
     JOINER_STREAM_WHERE        |-> SpecOf[j].where,
     JOINER_STREAM_SELECT       |-> SpecOf[j].select,
     JOINER_WINDOW_SIZE         |-> SpecOf[j].window]

Env(j) ==
    [JOINER_STREAM_FROM_0       |-> StreamInfo(streams[From(j)[1]]),
     JOINER_STREAM_FROM_1       |-> StreamInfo(streams[From(j)[2]]),
     JOINER_STREAM_TO_STREAM    |-> validateTarget(To(j)[1].stream),
     JOINER_STREAM_TO_COMPONENT |-> validateTarget(To(j)[1].component),
     JOINER_STREAM_WHERE        |-> SpecOf[j].where,
     JOINER_STREAM_SELECT       |-> SpecOf[j].select,
     JOINER_WINDOW_SIZE         |-> SpecOf[j].window]

(***************************************************************************)
(* The component: main and getSubscription.                                *)
(***************************************************************************)
Getenv(env, name) == IF name \in DOMAIN env THEN env[name] ELSE <<>>

Filter(env) == Getenv(env, "JOINER_STREAM_FILTER")

getSubscription(info) ==
    [pubsub |-> info[1], topic |-> info[2], route |-> info[3]]

\* An empty window is 10ms and an empty expression is not compiled.
Fatal(env) ==
    \/ Getenv(env, "JOINER_STREAM_TO_COMPONENT") = <<>>
    \/ \E v \in {Getenv(env, "JOINER_WINDOW_SIZE"), Filter(env),
                 Getenv(env, "JOINER_STREAM_SELECT")} : v \in Bad

Config(env) ==
    [subscriptions |-> <<getSubscription(Getenv(env, "JOINER_STREAM_FROM_0")),
                         getSubscription(Getenv(env, "JOINER_STREAM_FROM_1"))>>,
     filter    |-> Filter(env),
     component |-> GetTargetParts(Getenv(env, "JOINER_STREAM_TO_COMPONENT")),
     stream    |-> GetTargetParts(Getenv(env, "JOINER_STREAM_TO_STREAM"))]

-----------------------------------------------------------------------------
Init ==
    /\ present = JoinerSet
    /\ streams = [n \in Streams |-> None]
    /\ changes = 0
    /\ manager = "up" /\ queue = Listing[JoinerSet] /\ backoff = {}
    /\ deployment = [j \in JoinerSet |-> None]
    /\ pod = [j \in JoinerSet |-> "none"]
    /\ process = [j \in JoinerSet |-> None]
    /\ seen = [n \in Streams |-> {}]

\* A user creates, changes or deletes a Stream; no Joiner is queued for it.
ChangeStream(n) ==
    /\ changes < MaxChanges
    /\ changes' = changes + 1
    /\ \E s \in StreamSpecs[n] \cup {None} :
        /\ s # streams[n]
        /\ streams' = [streams EXCEPT ![n] = s]
        /\ seen' = [seen EXCEPT ![n] = @ \cup ({s} \ {None})]
    /\ UNCHANGED <<present, managerVars, deployment, podVars>>

\* The work queue holds a name once; a Joiner in backoff may be in it as well.
Enqueue(j) == IF \E i \in DOMAIN queue : queue[i] = j THEN queue ELSE Append(queue, j)

\* An event of a Joiner or of its Deployment reaches a manager that runs.
Event(j) == queue' = IF manager = "up" THEN Enqueue(j) ELSE queue

\* A user deletes a Joiner.
Withdraw(j) ==
    /\ j \in present
    /\ present' = present \ {j}
    /\ Event(j)
    /\ UNCHANGED <<streams, changes, seen, manager, backoff, deployment, podVars>>

\* Then the cluster deletes the Deployment the Joiner owned, and its pod.
Collect(j) ==
    /\ j \notin present
    /\ deployment[j] # None
    /\ deployment' = [deployment EXCEPT ![j] = None]
    /\ pod' = [pod EXCEPT ![j] = "none"]
    /\ process' = [process EXCEPT ![j] = None]
    /\ Event(j)
    /\ UNCHANGED <<clusterVars, manager, backoff>>

\* What the worker does with the Joiner at the head of the queue.
Worker(j) == manager = "up" /\ queue # <<>> /\ j = Head(queue)

\* Reconcile: the Joiner is gone or being deleted.
Absent(j) ==
    /\ Worker(j)
    /\ j \notin present
    /\ queue' = Tail(queue)
    /\ UNCHANGED <<clusterVars, manager, backoff, deployment, podVars>>

\* Reconcile: the Deployment is there.
Settled(j) ==
    /\ Worker(j) /\ j \in present
    /\ deployment[j] # None
    /\ queue' = Tail(queue)
    /\ UNCHANGED <<clusterVars, manager, backoff, deployment, podVars>>

\* Reconcile: the Deployment is created, and the result asks for a requeue.
Deploy(j) ==
    /\ Worker(j) /\ j \in present
    /\ deployment[j] = None
    /\ ~ Panics(j) /\ ~ Rejects(j)
    /\ deployment' = [deployment EXCEPT ![j] = Env(j)]
    /\ queue' = Tail(queue)
    /\ backoff' = backoff \cup {j}
    /\ UNCHANGED <<clusterVars, manager, podVars>>

\* Mutant: the error is logged and not returned.
RejectForGood(j) ==
    /\ Worker(j) /\ j \in present
    /\ deployment[j] = None
    /\ Rejects(j)
    /\ queue' = Tail(queue)
    /\ UNCHANGED <<clusterVars, manager, backoff, deployment, podVars>>

\* Reconcile returns an error: the work queue retries after a while.
Reject(j) ==
    /\ Worker(j) /\ j \in present
    /\ deployment[j] = None
    /\ Rejects(j)
    /\ queue' = Tail(queue)
    /\ backoff' = backoff \cup {j}
    /\ UNCHANGED <<clusterVars, manager, deployment, podVars>>

\* Reconcile panics, which ends the manager with all its controllers.
Panic(j) ==
    /\ Worker(j) /\ j \in present
    /\ deployment[j] = None
    /\ Panics(j)
    /\ manager' = "down"
    /\ queue' = <<>>
    /\ backoff' = {}
    /\ UNCHANGED <<clusterVars, deployment, podVars>>

Requeue(j) ==
    /\ j \in backoff
    /\ backoff' = backoff \ {j}
    /\ queue' = Enqueue(j)
    /\ UNCHANGED <<clusterVars, manager, deployment, podVars>>

\* Owns: an event of the Deployment queues its Joiner.
DeploymentEvent(j) ==
    /\ manager = "up"
    /\ deployment[j] # None
    /\ queue' = Enqueue(j)
    /\ UNCHANGED <<clusterVars, manager, backoff, deployment, podVars>>

\* The manager is started again and lists the Joiners there are.
RestartManager ==
    /\ manager = "down"
    /\ manager' = "up"
    /\ queue' = Listing[present]
    /\ UNCHANGED <<clusterVars, backoff, deployment, podVars>>

\* Mutant: a failure to start is logged and the process goes on.
StartAnyway(j) ==
    /\ deployment[j] # None
    /\ pod[j] # "running"
    /\ pod' = [pod EXCEPT ![j] = "running"]
    /\ process' = IF Fatal(deployment[j]) THEN process
                  ELSE [process EXCEPT ![j] = Config(deployment[j])]
    /\ UNCHANGED <<clusterVars, managerVars, deployment>>

\* The pod starts, or starts again: main runs up to svc.Start or log.Fatalf.
Start(j) ==
    /\ deployment[j] # None
    /\ pod[j] # "running"
    /\ IF Fatal(deployment[j])
       THEN /\ pod' = [pod EXCEPT ![j] = "failed"]
            /\ UNCHANGED process
       ELSE /\ pod' = [pod EXCEPT ![j] = "running"]
            /\ process' = [process EXCEPT ![j] = Config(deployment[j])]
    /\ UNCHANGED <<clusterVars, managerVars, deployment>>

Kill(j) ==
    /\ pod[j] = "running"
    /\ pod' = [pod EXCEPT ![j] = "none"]
    /\ process' = [process EXCEPT ![j] = None]
    /\ UNCHANGED <<clusterVars, managerVars, deployment>>

-----------------------------------------------------------------------------
Next ==
    \/ \E n \in Streams : ChangeStream(n)
    \/ \E j \in JoinerSet :
        \/ Withdraw(j) \/ Collect(j)
        \/ Absent(j) \/ Settled(j) \/ Deploy(j) \/ Reject(j) \/ Panic(j)
        \/ Requeue(j)
        \/ DeploymentEvent(j) \/ Start(j) \/ Kill(j)
    \/ RestartManager

Spec == Init /\ [][Next]_vars

\* The worker runs while the queue is not empty, retries come, and the
\* cluster restarts what died.
Fairness ==
    /\ \A j \in JoinerSet :
        /\ WF_vars(Absent(j) \/ Settled(j) \/ Deploy(j) \/ Reject(j) \/ Panic(j))
        /\ WF_vars(Requeue(j))
    /\ WF_vars(RestartManager)

FairSpec == Spec /\ Fairness

-----------------------------------------------------------------------------
(* The queue holds a Joiner once; only deployed Joiners have pods, and a   *)
(* running pod has read its environment (main).                            *)
TypeOK ==
    /\ present \subseteq JoinerSet
    /\ streams \in [Streams -> StreamSpec \cup {None}]
    /\ changes \in 0..MaxChanges
    /\ manager \in {"up", "down"}
    /\ deployment \in [JoinerSet -> Environment \cup {None}]
    /\ pod \in [JoinerSet -> {"none", "running", "failed"}]
    /\ process \in [JoinerSet -> Configuration \cup {None}]
    /\ seen \in [Streams -> SUBSET StreamSpec]
    /\ queue \in Seq(JoinerSet) /\ backoff \subseteq JoinerSet
    /\ \A i, k \in DOMAIN queue : i # k => queue[i] # queue[k]
    /\ \A j \in JoinerSet :
        /\ pod[j] = "running" <=> process[j] # None
        /\ pod[j] # "none" => deployment[j] # None

(* A running joiner sends to the targets its resource names: a target      *)
(* without a route goes to component/component, and both loops' [0] and    *)
(* [1] exist (validateTarget, GetTargetParts, startOutputLoop).  A Joiner  *)
(* is not edited in place here: Reconcile leaves the Deployment it finds   *)
(* as it is (joiner_controller.go:75-112), so its pod would keep the old   *)
(* targets.                                                                *)
Routed(target, parts) ==
    parts = IF Len(target) = 1 THEN <<target[1], target[1]>> ELSE target

RoutesAsSpecified ==
    \A j \in JoinerSet : pod[j] = "running" =>
        /\ Routed(To(j)[1].component, process[j].component)
        /\ Routed(To(j)[1].stream, process[j].stream)

(* Its i-th subscription is for the topic of the i-th Stream it names, as  *)
(* some version of that Stream had it (collateStreamInfo, getSubscription).*)
SubscribesToNamed ==
    \A j \in JoinerSet : pod[j] = "running" =>
        \A i \in 1..2 : \E s \in seen[From(j)[i]] :
            /\ process[j].subscriptions[i].pubsub = s.clusterStream
            /\ process[j].subscriptions[i].topic = s.topic

(* A Joiner with two streams and a target gets its Deployment once its     *)
(* Streams exist, although nothing tells the controller when they do, and  *)
(* once no Joiner that makes the manager panic is listed ahead of it: of   *)
(* what other users' Joiners do to the manager, only this lasts, and only  *)
(* until they are deleted.                                                 *)
Valid(j) == Len(From(j)) = 2 /\ To(j) # <<>> /\ ~ NoTarget(j)

PanicAhead(j) ==
    LET listed == Listing[present]
    IN  \E i, k \in DOMAIN listed :
            i < k /\ Panics(listed[i]) /\ listed[k] = j

ValidAreDeployed ==
    \A j \in JoinerSet : Valid(j) =>
        (<>[](j \in present /\ ~ StreamMissing(j) /\ ~ PanicAhead(j)) =>
            <>(deployment[j] # None))

(* The filter of the resource is the filter of the running joiner, as      *)
(* docs/joiner-component.md:52-53 says of where.                           *)
FilterIsApplied ==
    \A j \in JoinerSet :
        pod[j] = "running" => process[j].filter = SpecOf[j].where
=============================================================================
