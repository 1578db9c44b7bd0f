------------------------------- MODULE Wiring -------------------------------
(***************************************************************************)
(* From ClusterStream, Stream, Channel and Processor resources to programs *)
(* that reach each other.  The ClusterStream controller writes a Component *)
(* for a broker, the Stream controller a Subscription by which the broker  *)
(* posts messages to a route of an application; the Channel and Processor  *)
(* controllers write the environment of a Deployment, which the program in *)
(* its pod reads when it starts (components/channel, and for a processor   *)
(* examples/message-proc).  Who gets messages is decided by whether names  *)
(* and routes that different controllers write, with defaults of their     *)
(* own, are the same.                                                      *)
(*                                                                         *)
(* The controllers see the cluster as it is and run in any order; work     *)
(* queues are in JoinerSetup, stale caches and the garbage collector in    *)
(* Reconciler.  A route is written without its leading slash, which the    *)
(* SDK and the sidecar add where it is missing.                            *)
(***************************************************************************)
EXTENDS Targets

CONSTANTS
    ClusterStreams, Streams, Channels, Processors,  \* names of resources
    SpecsOf,      \* SpecsOf[r]: the specs users give r
    Bad,          \* expressions that do not compile
    MaxChanges,   \* bound: what users do to resources
    MaxDeaths,    \* bound: pods that die
    None

Names == ClusterStreams \cup Streams \cup Channels \cup Processors
Apps  == Channels \cup Processors

IsClusterStreamSpec(s) ==
    /\ DOMAIN s = {"protocol", "properties"} /\ s.protocol \in STRING
    /\ s.properties \in [DOMAIN s.properties -> STRING]

StreamSpec ==
    [clusterStream : STRING, topic : STRING, route : STRING,
     recipients : SUBSET Apps]

ChannelSpec ==
    [mode : STRING, trigger : STRING, from : Seq(STRING),
     to : Seq([stream : Seq(STRING), component : Seq(STRING)]),
     where : STRING, select : STRING]

\* What a processor's container is given by its user is in env; ports, and the
\* variable that carries one, are left out.
IsProcessorSpec(s) ==
    /\ DOMAIN s = {"serviceRoute", "target", "env"}
    /\ s.serviceRoute \in STRING /\ s.target \in Seq(STRING)
    /\ s.env \in [DOMAIN s.env -> STRING] /\ "PROC_SERVICE_PORT" \notin DOMAIN s.env

\* Kinds that share a name, and so a child, are in Reconciler.
ASSUME KindsAssumption ==
    /\ (ClusterStreams \cup Streams) \cap Apps = {}
    /\ ClusterStreams \cap Streams = {} /\ Channels \cap Processors = {}

ASSUME SpecsAssumption ==
    /\ \A b \in ClusterStreams : \A s \in SpecsOf[b] : IsClusterStreamSpec(s)
    /\ \A n \in Streams : SpecsOf[n] \subseteq StreamSpec
    /\ \A c \in Channels : SpecsOf[c] \subseteq ChannelSpec
    /\ \A p \in Processors : \A s \in SpecsOf[p] : IsProcessorSpec(s)
    /\ MaxChanges \in Nat /\ MaxDeaths \in Nat

ASSUME NoneAssumption == \A r \in Names : None \notin SpecsOf[r]

VARIABLES
    resource,  \* the spec of each resource there is, or None
    changes,   \* what users have done so far
    manager,   \* "up" or "down"
    child,     \* the Component, Subscription or environment of the Deployment
    process,   \* what the program of an application has read, or None
    deaths,    \* pods that have died so far
    seen,      \* history: every spec a resource has had
    edited     \* history: resources changed in place since their creation

userVars == <<resource, changes, seen, edited>>
podVars == <<process, deaths>>
vars == <<userVars, manager, child, podVars>>

-----------------------------------------------------------------------------
(***************************************************************************)
(* What the controllers write.                                             *)
(***************************************************************************)

createClusterStream(s) ==
    [type |-> <<"pubsub", s.protocol>>, metadata |-> s.properties]

\* Mutant: the default is forgotten, as in updateDaprSubscription.
SubscriptionAsGiven(s) ==
    [pubsub |-> s.clusterStream, topic |-> s.topic, route |-> s.route,
     scopes |-> s.recipients]

createDaprSubscription(s) ==
    [pubsub |-> s.clusterStream,
     topic  |-> s.topic,
     route  |-> IF s.route = "" THEN s.topic ELSE s.route,
     scopes |-> s.recipients]

\* Anything that is not a mode is "stream".
Mode(s) == IF s.mode = "aggregate" THEN "aggregate" ELSE "stream"

Rejects(s) ==
    /\ s.to # <<>>
    /\ \/ s.to[1].stream = <<>> /\ s.to[1].component = <<>>
       \/ Mode(s) = "aggregate" /\ s.trigger = ""

\* To[0] or From[0] of an empty list; To is looked at first.
Panics(s) == s.to = <<>> \/ (s.from = <<>> /\ ~ Rejects(s))

\* Mutant: the expressions take each other's variable.
ChanDeploymentSwapped(s) ==
    [CHANNEL_MODE                |-> Mode(s),
     CHANNEL_AGGREGATE_TRIGGER   |-> s.trigger,
     CHANNEL_STREAM_FROM         |-> s.from[1],
     CHANNEL_STREAM_TO_STREAM    |-> s.to[1].stream,
     CHANNEL_STREAM_TO_COMPONENT |-> s.to[1].component,
     CHANNEL_STREAM_WHERE        |-> s.select,
     CHANNEL_STREAM_SELECT       |-> s.where]

\* container.Env is assigned: what the user's container had in it is lost.
createChanDeployment(s) ==
    [CHANNEL_MODE                |-> Mode(s),
     CHANNEL_AGGREGATE_TRIGGER   |-> s.trigger,
     CHANNEL_STREAM_FROM         |-> s.from[1],
     CHANNEL_STREAM_TO_STREAM    |-> s.to[1].stream,
     CHANNEL_STREAM_TO_COMPONENT |-> s.to[1].component,
     CHANNEL_STREAM_WHERE        |-> s.where,
     CHANNEL_STREAM_SELECT       |-> s.select]

\* An environment with more variables appended: of two with one name the last
\* counts.
Appended(env, more) ==
    [v \in DOMAIN env \cup DOMAIN more |->
        IF v \in DOMAIN more THEN more[v] ELSE env[v]]

ProcVariables(p, s) ==
    [PROC_SERVICE_ROUTE |-> IF s.serviceRoute = "" THEN p ELSE s.serviceRoute,
     PROC_TARGET        |-> validateTarget(s.target)]

\* Mutant: the user's variables come last.
ProcessorDeploymentUserLast(p, s) == Appended(ProcVariables(p, s), s.env)

createProcessorDeployment(p, s) == Appended(s.env, ProcVariables(p, s))

(***************************************************************************)
(* What the programs make of it.                                           *)
(***************************************************************************)

\* The channel's main reads what it must not be without, and compiles the
\* expressions.  Without a source it would use APP_ID, which nobody sets.
Fatal(env) ==
    \/ env.CHANNEL_STREAM_FROM = ""
    \/ env.CHANNEL_STREAM_TO_STREAM = <<>> /\ env.CHANNEL_STREAM_TO_COMPONENT = <<>>
    \/ {env.CHANNEL_STREAM_WHERE, env.CHANNEL_STREAM_SELECT,
        env.CHANNEL_AGGREGATE_TRIGGER} \cap Bad # {}

\* A trigger takes the place of the projection, whatever the mode.
ChannelConfig(env) ==
    [route      |-> env.CHANNEL_STREAM_FROM,
     stream     |-> GetTargetParts(env.CHANNEL_STREAM_TO_STREAM),
     component  |-> GetTargetParts(env.CHANNEL_STREAM_TO_COMPONENT),
     filterProg |-> env.CHANNEL_STREAM_WHERE,
     dataProg   |-> IF env.CHANNEL_AGGREGATE_TRIGGER = ""
                    THEN env.CHANNEL_STREAM_SELECT
                    ELSE env.CHANNEL_AGGREGATE_TRIGGER]

\* The route at which a running application can be invoked.
RouteOf(a) == IF a \in Channels THEN process[a].route
                                ELSE process[a].PROC_SERVICE_ROUTE

-----------------------------------------------------------------------------
Init ==
    /\ resource = [r \in Names |-> None]
    /\ changes = 0
    /\ manager = "up"
    /\ child = [r \in Names |-> None]
    /\ process = [a \in Apps |-> None] /\ deaths = 0
    /\ seen = [r \in Names |-> {}]
    /\ edited = {}

\* A user creates a resource, or changes it in place.
Apply(r) ==
    /\ changes < MaxChanges
    /\ changes' = changes + 1
    /\ \E s \in SpecsOf[r] \ {resource[r]} :
        /\ resource' = [resource EXCEPT ![r] = s]
        /\ seen' = [seen EXCEPT ![r] = @ \cup {s}]
    /\ edited' = IF resource[r] = None THEN edited ELSE edited \cup {r}
    /\ UNCHANGED <<manager, child, podVars>>

\* Mutant: the pods of a deleted resource are left running.
DeleteButPods(r) ==
    /\ changes < MaxChanges
    /\ changes' = changes + 1
    /\ resource[r] # None
    /\ resource' = [resource EXCEPT ![r] = None]
    /\ edited' = edited \ {r}
    /\ child' = [child EXCEPT ![r] = None]
    /\ UNCHANGED <<manager, podVars, seen>>

\* A user deletes a resource and, in the foreground, what it owns.
Delete(r) ==
    /\ changes < MaxChanges
    /\ changes' = changes + 1
    /\ resource[r] # None
    /\ resource' = [resource EXCEPT ![r] = None]
    /\ edited' = edited \ {r}
    /\ child' = [child EXCEPT ![r] = None]
    /\ process' = [a \in Apps |-> IF a = r THEN None ELSE process[a]]
    /\ UNCHANGED <<manager, deaths, seen>>

\* Reconcile finds the resource without its child.
Missing(r) == manager = "up" /\ resource[r] # None /\ child[r] = None

Create(r, made) ==
    /\ child' = [child EXCEPT ![r] = made]
    /\ UNCHANGED <<userVars, manager, podVars>>

ReconcileClusterStream(b) ==
    Missing(b) /\ Create(b, createClusterStream(resource[b]))

ReconcileStream(n) ==
    Missing(n) /\ Create(n, createDaprSubscription(resource[n]))

\* An error changes nothing: the Channel is tried again.
ReconcileChannel(c) ==
    /\ Missing(c)
    /\ ~ Panics(resource[c]) /\ ~ Rejects(resource[c])
    /\ Create(c, createChanDeployment(resource[c]))

ReconcileProcessor(p) ==
    Missing(p) /\ Create(p, createProcessorDeployment(p, resource[p]))

\* The panic ends the manager, with the other controllers in it.
PanicOver(c) ==
    /\ Missing(c)
    /\ Panics(resource[c])
    /\ manager' = "down"
    /\ UNCHANGED <<userVars, child, podVars>>

RestartManager ==
    /\ manager = "down"
    /\ manager' = "up"
    /\ UNCHANGED <<userVars, child, podVars>>

\* A pod starts; one whose main ends in log.Fatalf starts over.
StartChannel(c) ==
    /\ child[c] # None /\ process[c] = None
    /\ ~ Fatal(child[c])
    /\ process' = [process EXCEPT ![c] = ChannelConfig(child[c])]
    /\ UNCHANGED <<userVars, manager, child, deaths>>

StartProcessor(p) ==
    /\ child[p] # None /\ process[p] = None
    /\ process' = [process EXCEPT ![p] = child[p]]
    /\ UNCHANGED <<userVars, manager, child, deaths>>

Kill(a) ==
    /\ deaths < MaxDeaths
    /\ deaths' = deaths + 1
    /\ process[a] # None
    /\ process' = [process EXCEPT ![a] = None]
    /\ UNCHANGED <<userVars, manager, child>>

-----------------------------------------------------------------------------
Next ==
    \/ \E r \in Names : Apply(r) \/ Delete(r)
    \/ \E b \in ClusterStreams : ReconcileClusterStream(b)
    \/ \E n \in Streams : ReconcileStream(n)
    \/ \E c \in Channels : ReconcileChannel(c) \/ PanicOver(c) \/ StartChannel(c)
    \/ \E p \in Processors : ReconcileProcessor(p) \/ StartProcessor(p)
    \/ \E a \in Apps : Kill(a)
    \/ RestartManager

Spec == Init /\ [][Next]_vars

\* Controllers retry, and the cluster starts what is not running.
Fairness ==
    /\ \A b \in ClusterStreams : WF_vars(ReconcileClusterStream(b))
    /\ \A n \in Streams : WF_vars(ReconcileStream(n))
    /\ \A c \in Channels : WF_vars(ReconcileChannel(c)) /\ WF_vars(StartChannel(c))
    /\ \A p \in Processors : WF_vars(ReconcileProcessor(p)) /\ WF_vars(StartProcessor(p))
    /\ WF_vars(RestartManager)

FairSpec == Spec /\ Fairness

-----------------------------------------------------------------------------
(* What is there was asked for: children only of resources, programs only  *)
(* of Deployments.                                                         *)
TypeOK ==
    /\ \A r \in Names : resource[r] # None => resource[r] \in seen[r]
    /\ \A r \in Names : seen[r] \subseteq SpecsOf[r]
    /\ changes \in 0..MaxChanges /\ deaths \in 0..MaxDeaths
    /\ manager \in {"up", "down"}
    /\ edited \subseteq {r \in Names : resource[r] # None}
    /\ \A r \in Names : child[r] # None => resource[r] # None
    /\ \A a \in Apps : process[a] # None => child[a] # None

(* A running channel does what a version of its resource asks: it serves   *)
(* the source, where filters, and a target without a route goes to         *)
(* component/component.  select projects if there is no trigger: one that  *)
(* is set is put in its place (components/channel/main.go:110), and what   *)
(* becomes of such a channel's events is CollectedIsSent in Channel.       *)
ChannelIsAsAsked ==
    \A c \in Channels : process[c] # None =>
        \E s \in seen[c] :
            /\ process[c].route = s.from[1]
            /\ process[c].filterProg = s.where
            /\ s.trigger = "" => process[c].dataProg = s.select
            /\ \A t \in {"stream", "component"} :
                process[c][t] = validateTarget(s.to[1][t])

(* A running processor has the variables of its user, and no variable of   *)
(* its user moves it from the route its resource gives it.                 *)
ProcessorIsAsAsked ==
    \A p \in Processors : process[p] # None =>
        \E s \in seen[p] :
            /\ RouteOf(p) = (IF s.serviceRoute = "" THEN p ELSE s.serviceRoute)
            /\ \A v \in DOMAIN s.env \ {"PROC_SERVICE_ROUTE", "PROC_TARGET"} :
                v \in DOMAIN process[p] /\ process[p][v] = s.env[v]

(* A Stream feeds an application; a channel feeds a processor.             *)
Feeds(n, a) ==
    /\ child[n] # None /\ process[a] # None
    /\ child[n].pubsub \in ClusterStreams /\ child[child[n].pubsub] # None
    /\ child[n].scopes = {} \/ a \in child[n].scopes
    /\ child[n].route = RouteOf(a)

Invokes(c, p) ==
    /\ process[c] # None /\ process[p] # None
    /\ process[c].component # <<>>
    /\ process[c].component[1] = p /\ process[c].component[2] = RouteOf(p)

\* What users applied makes a path from a topic to a processor.
Meant(n, c, p) ==
    LET s == resource[n]  d == resource[c]  q == resource[p]
    IN  /\ s # None /\ d # None /\ q # None
        /\ s.clusterStream \in ClusterStreams /\ resource[s.clusterStream] # None
        /\ edited \cap {n, c, p} = {}
        /\ s.recipients = {} \/ c \in s.recipients
        /\ d.from # <<>> /\ d.to # <<>>
        /\ d.from[1] # "" /\ d.from[1] = (IF s.route = "" THEN s.topic ELSE s.route)
        /\ d.to[1].component \in
              IF q.serviceRoute = "" THEN {<<p>>, <<p, p>>} ELSE {<<p, q.serviceRoute>>}
        /\ d.mode = "aggregate" => d.trigger # ""
        /\ {d.where, d.select, d.trigger} \cap Bad = {}

(* Resources that belong together, whatever order the operator creates     *)
(* their children in, end up with names and routes that meet, and do again *)
(* after a pod has died.  Channels that bring the manager down prevent it  *)
(* only until they are deleted.  When a sidecar reads its Subscriptions is *)
(* not modelled.                                                           *)
PathOpens ==
    \A n \in Streams, c \in Channels, p \in Processors :
        <>[](/\ Meant(n, c, p)
             /\ \A k \in Channels : resource[k] # None => ~ Panics(resource[k]))
            => <>[](Feeds(n, c) /\ Invokes(c, p))
=============================================================================
