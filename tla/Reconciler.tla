----------------------------- MODULE Reconciler -----------------------------
(***************************************************************************)
(* The operator's reconcilers (controllers/*_controller.go): each resource *)
(* of a kind owns one child object of the same name, a Deployment, a Dapr  *)
(* Subscription or a Dapr Component.  The five Reconcile functions are one *)
(* procedure but for two things ClusterStream's does, it does not look at  *)
(* the deletion timestamp and it writes a status, and for one that two     *)
(* others can do: making the child of a Joiner or a Channel fails, or      *)
(* panics, on specs that are wrong.  The specs here are right; wrong ones  *)
(* are in JoinerSetup and Wiring.                                          *)
(*                                                                         *)
(* Modelled around them, from how they use it: the API server with         *)
(* resource versions and deletion, the garbage collector, the informers'   *)
(* caches, which lag, and the work queues of controller-runtime.           *)
(***************************************************************************)
EXTENDS Naturals, Sequences

CONSTANTS
    Owners,      \* the resources a user may have: records of kind and name
    ChildType,   \* the type of the object each kind owns
    Brokers,     \* the versions of a ClusterStream that name brokers
    MaxOps,      \* bound: operations of users
    MaxCrashes,  \* bound: crashes of the manager
    MaxLag,      \* bound: events of an object the informer has not seen
    None

ASSUME BoundsAssumption ==
    MaxOps \in Nat /\ MaxCrashes \in Nat /\ MaxLag \in Nat \ {0}

\* Two kinds can own objects of one type, and so of one name.
ChildOf(o) == [type |-> ChildType[o.kind], name |-> o.name]

Kinds    == {o.kind : o \in Owners}
Children == {ChildOf(o) : o \in Owners}
Objects  == Owners \cup Children

\* No kind owns objects of a kind of resource.
ASSUME OwnersAssumption == Owners \cap Children = {}

\* ClusterStream's Reconcile has no check of the deletion timestamp, and it
\* alone updates a status.
ChecksDeletion(o) == o.kind # "clusterstream"
HasStatus(o)      == o.kind = "clusterstream"

VARIABLES
    store,    \* the API server's objects, or None
    cache,    \* the informers' view of them
    watch,    \* events of each object not yet in the cache
    manager,  \* "up" or "down"
    queue,    \* resources in the work queues
    backoff,  \* resources to be queued again after a while
    work,     \* what the worker of each kind is doing, or None
    ops,      \* operations of users so far
    crashes   \* crashes of the manager so far

managerVars == <<manager, queue, backoff, work>>
vars == <<store, cache, watch, managerVars, ops, crashes>>

\* The status of a resource that nobody has written one for.
NoStatus == [status |-> "", servers |-> 0]

Live(o) == store[o] # None /\ ~ store[o].deleting

\* c belongs to the resource o that is in the store now.
BelongsTo(c, o) ==
    /\ store[c] # None /\ store[o] # None
    /\ store[c].owner = o /\ store[c].uid = store[o].uid

-----------------------------------------------------------------------------
Init ==
    /\ store = [x \in Objects |-> None]
    /\ cache = store
    /\ watch = [x \in Objects |-> <<>>]
    /\ manager = "up" /\ queue = {} /\ backoff = {}
    /\ work = [k \in Kinds |-> None]
    /\ ops = 0 /\ crashes = 0

\* The API server stores v as object x and tells the informer.
Write(x, v) ==
    /\ Len(watch[x]) < MaxLag
    /\ store' = [store EXCEPT ![x] = v]
    /\ watch' = IF manager = "up"
                THEN [watch EXCEPT ![x] = Append(@, v)]
                ELSE watch

(***************************************************************************)
(* Users.                                                                  *)
(***************************************************************************)
Operate == ops < MaxOps /\ ops' = ops + 1 /\ UNCHANGED <<cache, managerVars, crashes>>

\* The resource is created, or its spec changed.
Apply(o) ==
    /\ Operate
    /\ store[o] = None \/ Live(o)
    /\ Write(o, IF store[o] = None
                THEN [uid |-> ops', spec |-> ops', status |-> NoStatus, deleting |-> FALSE]
                ELSE [store[o] EXCEPT !.spec = ops'])

Delete(o) == Operate /\ store[o] # None /\ Write(o, None)

\* With propagation in the foreground the children go first.
DeleteForeground(o) ==
    Operate /\ Live(o) /\ Write(o, [store[o] EXCEPT !.deleting = TRUE])

DeleteChild(c) == Operate /\ store[c] # None /\ Write(c, None)

(***************************************************************************)
(* The garbage collector.                                                  *)
(***************************************************************************)
Collect(c) ==
    /\ store[c] # None
    /\ store[c].owner # None
    /\ LET o == store[c].owner IN ~ (BelongsTo(c, o) /\ Live(o))
    /\ Write(c, None)
    /\ UNCHANGED <<cache, managerVars, ops, crashes>>

Finish(o) ==
    /\ store[o] # None /\ ~ Live(o)
    /\ ~ BelongsTo(ChildOf(o), o)
    /\ Write(o, None)
    /\ UNCHANGED <<cache, managerVars, ops, crashes>>

(***************************************************************************)
(* Informers and work queues: For and Owns of SetupWithManager.            *)
(***************************************************************************)

\* Mutant: the controller does not watch what it owns.
NotifiedFor(x, old, v) == {x} \cap Owners

\* Mutant: an event is looked at for what is there after it.
NotifiedOfNew(x, old, v) ==
    IF x \in Owners THEN {x} ELSE {w.owner : w \in {v} \ {None}} \cap Owners

\* Whom an event queues that makes v of old: the resource itself, or the
\* owners of the child.
Notified(x, old, v) ==
    IF x \in Owners THEN {x} ELSE {w.owner : w \in {old, v} \ {None}} \cap Owners

Observe(x) ==
    /\ watch[x] # <<>>
    /\ watch' = [watch EXCEPT ![x] = Tail(@)]
    /\ cache' = [cache EXCEPT ![x] = Head(watch[x])]
    /\ queue' = queue \cup Notified(x, cache[x], Head(watch[x]))
    /\ UNCHANGED <<store, manager, backoff, work, ops, crashes>>

Retry(o) ==
    /\ o \in backoff
    /\ backoff' = backoff \ {o}
    /\ queue' = queue \cup {o}
    /\ UNCHANGED <<store, cache, watch, manager, work, ops, crashes>>

(***************************************************************************)
(* Reconcile.                                                              *)
(***************************************************************************)
Idle(o) == manager = "up" /\ work[o.kind] = None /\ o \in queue

Working(o, step) ==
    work[o.kind] # None /\ work[o.kind].owner = o /\ work[o.kind].step = step

\* Mutant: nobody looks at the deletion timestamp.
IgnoredIfAbsent(o) == cache[o] = None

\* Mutant: a resource that is not found is reconciled.
IgnoredIfDeleted(o) == cache[o] # None /\ ChecksDeletion(o) /\ cache[o].deleting

Ignored(o) ==
    \/ cache[o] = None
    \/ cache[o] # None /\ ChecksDeletion(o) /\ cache[o].deleting

\* The resource is gone or going.
Ignore(o) ==
    /\ Idle(o) /\ Ignored(o)
    /\ queue' = queue \ {o}
    /\ UNCHANGED <<store, cache, watch, manager, backoff, work, ops, crashes>>

\* The worker takes the resource as the cache has it.
Fetch(o) ==
    /\ Idle(o) /\ ~ Ignored(o)
    /\ queue' = queue \ {o}
    /\ work' = [work EXCEPT ![o.kind] =
                   [owner |-> o, object |-> cache[o], step |-> "find"]]
    /\ UNCHANGED <<store, cache, watch, manager, backoff, ops, crashes>>

\* It looks for an object of that name, whosoever owns it.  What is to be created
\* is made of the spec on the way.
Find(o) ==
    /\ Working(o, "find")
    /\ work' = [work EXCEPT ![o.kind] =
                   CASE cache[ChildOf(o)] = None -> [@ EXCEPT !.step = "create"]
                     [] cache[ChildOf(o)] # None /\ HasStatus(o) ->
                          [@ EXCEPT !.step = "status"]
                     [] OTHER -> None]
    /\ UNCHANGED <<store, cache, watch, manager, queue, backoff, ops, crashes>>

Done(o) ==
    /\ work' = [work EXCEPT ![o.kind] = None]
    /\ UNCHANGED <<cache, manager, queue, ops, crashes>>

\* The child made of a resource as it was read.
ChildFor(o) ==
    [owner |-> o, uid |-> work[o.kind].object.uid, spec |-> work[o.kind].object.spec]

\* Mutant: the child refers to the resource as it is read a second time.
CreateOfSecondRead(o) ==
    /\ Working(o, "create")
    /\ store[ChildOf(o)] = None
    /\ cache[o] # None
    /\ Write(ChildOf(o), [ChildFor(o) EXCEPT !.uid = cache[o].uid])
    /\ backoff' = backoff \cup {o}
    /\ Done(o)

\* Mutant: no owner reference is set.
CreateUnowned(o) ==
    /\ Working(o, "create")
    /\ store[ChildOf(o)] = None
    /\ Write(ChildOf(o), [ChildFor(o) EXCEPT !.owner = None])
    /\ backoff' = backoff \cup {o}
    /\ Done(o)

\* The child is created and owned; the result asks for a requeue.
Create(o) ==
    /\ Working(o, "create")
    /\ store[ChildOf(o)] = None
    /\ Write(ChildOf(o), ChildFor(o))
    /\ backoff' = backoff \cup {o}
    /\ Done(o)

\* The cache was late: the object exists, and the error is retried.
CreateFails(o) ==
    /\ Working(o, "create")
    /\ store[ChildOf(o)] # None
    /\ backoff' = backoff \cup {o}
    /\ Done(o)
    /\ UNCHANGED <<store, watch>>

\* Mutant: missing brokers are an error, returned before it is written.
StatusUnlessError(o) ==
    IF o.spec \in Brokers THEN [status |-> "Ready", servers |-> o.spec] ELSE o.status

\* Without brokers Servers is left as it was.
StatusOf(o) ==
    IF o.spec \in Brokers THEN [status |-> "Ready", servers |-> o.spec]
                          ELSE [o.status EXCEPT !.status = "Error"]

\* The status says what the spec as read says; writing it again is no event.
UpdateStatus(o) ==
    /\ Working(o, "status")
    /\ store[o] = work[o.kind].object
    /\ IF store[o].status = StatusOf(store[o])
       THEN UNCHANGED <<store, watch>>
       ELSE Write(o, [store[o] EXCEPT !.status = StatusOf(store[o])])
    /\ Done(o)
    /\ UNCHANGED backoff

\* The resource has changed since it was read, or is gone.
StatusConflict(o) ==
    /\ Working(o, "status")
    /\ store[o] # work[o.kind].object
    /\ backoff' = backoff \cup {o}
    /\ Done(o)
    /\ UNCHANGED <<store, watch>>

(***************************************************************************)
(* The manager.                                                            *)
(***************************************************************************)
Crash ==
    /\ manager = "up" /\ crashes < MaxCrashes
    /\ manager' = "down" /\ crashes' = crashes + 1
    /\ queue' = {} /\ backoff' = {}
    /\ work' = [k \in Kinds |-> None]
    /\ watch' = [x \in Objects |-> <<>>]
    /\ UNCHANGED <<store, cache, ops>>

\* Caches are filled, and every object queues its own, before workers start.
Restart ==
    /\ manager = "down"
    /\ manager' = "up"
    /\ cache' = store
    /\ queue' = UNION {Notified(x, None, store[x]) : x \in {x \in Objects : store[x] # None}}
    /\ UNCHANGED <<store, watch, backoff, work, ops, crashes>>

-----------------------------------------------------------------------------
Next ==
    \/ \E o \in Owners :
        \/ Apply(o) \/ Delete(o) \/ DeleteForeground(o) \/ Finish(o)
        \/ Retry(o) \/ Ignore(o) \/ Fetch(o) \/ Find(o)
        \/ Create(o) \/ CreateFails(o) \/ UpdateStatus(o) \/ StatusConflict(o)
    \/ \E c \in Children : DeleteChild(c) \/ Collect(c)
    \/ \E x \in Objects : Observe(x)
    \/ Crash \/ Restart

Spec == Init /\ [][Next]_vars

\* Workers take what is in their queue first come, first served; everything
\* else that is not a user's or a crash goes on.
Fairness ==
    /\ \A o \in Owners :
        /\ SF_vars(Ignore(o)) /\ SF_vars(Fetch(o)) /\ WF_vars(Find(o))
        /\ WF_vars(Create(o) \/ CreateFails(o))
        /\ WF_vars(UpdateStatus(o) \/ StatusConflict(o))
        /\ WF_vars(Retry(o)) /\ WF_vars(Finish(o))
    /\ \A c \in Children : WF_vars(Collect(c))
    /\ \A x \in Objects : WF_vars(Observe(x))
    /\ WF_vars(Restart)

FairSpec == Spec /\ Fairness

-----------------------------------------------------------------------------
Status   == [status : {"", "Ready", "Error"}, servers : 0..MaxOps]
Resource == [uid : 1..MaxOps, spec : 1..MaxOps, status : Status, deleting : BOOLEAN]
Child    == [owner : Owners, uid : 1..MaxOps, spec : 1..MaxOps]

ASSUME NoneAssumption == None \notin Resource

ObjectsOf(x) == IF x \in Owners THEN Resource ELSE Child

(* Every object and every event is one of its type; workers, queues and    *)
(* informers have nothing in hand while the manager is down.               *)
TypeOK ==
    /\ DOMAIN store = Objects /\ DOMAIN cache = Objects /\ DOMAIN watch = Objects
    /\ \A x \in Objects :
        /\ store[x] \in ObjectsOf(x) \cup {None}
        /\ cache[x] \in ObjectsOf(x) \cup {None}
        /\ watch[x] \in Seq(ObjectsOf(x) \cup {None})
        /\ Len(watch[x]) <= MaxLag
        /\ manager = "down" => watch[x] = <<>>
    /\ manager \in {"up", "down"}
    /\ queue \subseteq Owners /\ backoff \subseteq Owners
    /\ work \in [Kinds -> [owner : Owners, object : Resource,
                           step : {"find", "create", "status"}] \cup {None}]
    /\ \A k \in Kinds : work[k] # None => manager = "up" /\ work[k].owner.kind = k
    /\ manager = "down" => queue \cup backoff = {}
    /\ ops \in 0..MaxOps /\ crashes \in 0..MaxCrashes

(* A child is made of one version of one resource: its spec is one that    *)
(* the resource it refers to has had, in that life and not in another, and *)
(* is never ahead of it (createJoinerDeployment and its likes).            *)
ChildIsOfOneVersion ==
    \A c \in Children : store[c] # None =>
        LET o == store[c].owner IN
        /\ store[c].uid <= store[c].spec
        /\ BelongsTo(c, o) => store[c].spec <= store[o].spec
        /\ store[o] # None /\ ~ BelongsTo(c, o) => store[c].spec < store[o].uid

(* Of resources of several kinds that claim one child and all stay, one    *)
(* gets it and has it for good: late caches, a child deleted under it and  *)
(* a crash do not leave them with none or make them take turns.  The       *)
(* others take that child for theirs and have none (Reconcile compares     *)
(* names only).                                                            *)
OneOfNameIsServed ==
    \A c \in Children :
        <>[](\A o \in Owners : ChildOf(o) = c => Live(o))
            => \E o \in Owners : <>[]BelongsTo(c, o)

(* A resource that stays ends up with a child of its own, through late     *)
(* caches, children deleted under it, deletions and new creations of the   *)
(* resource, and crashes of the manager; docs/processor-component.md:4-5   *)
(* says that deploying a processor deploys what it needs.                  *)
OwnersAreServed ==
    \A o \in Owners : <>[]Live(o) => <>[]BelongsTo(ChildOf(o), o)

(* Resources that go leave no child behind (SetControllerReference).       *)
NoOrphans ==
    \A c \in Children :
        <>[](\A o \in Owners : ChildOf(o) = c => store[o] = None)
            => <>[](store[c] = None)

(* A deletion in the foreground comes to its end: the controller does not  *)
(* create the child anew each time it is collected.                        *)
DeletionEnds ==
    \A o \in Owners : ChecksDeletion(o) =>
        (store[o] # None /\ ~ Live(o)) ~> (store[o] = None)

(* The status catches up with the spec, through conflicting writes: Error  *)
(* while brokers are missing, though Reconcile drops that error and does   *)
(* not retry, and once they are there Ready, with the servers of the last  *)
(* version and of no earlier one.                                          *)
StatusFollows ==
    \A o \in Owners : HasStatus(o) =>
        (<>[]Live(o) =>
            <>[](/\ store[o] # None
                 /\ IF store[o].spec \in Brokers
                    THEN store[o].status = [status |-> "Ready", servers |-> store[o].spec]
                    ELSE store[o].status.status = "Error"))

(* The state of the cluster moves closer to the desired state, says the    *)
(* comment of Reconcile (clusterstream_controller.go:49-50), and the log   *)
(* of a Reconcile that finds the child says that it is updated.            *)
ChildrenFollow ==
    \A o \in Owners :
        <>[]Live(o)
            => <>[](BelongsTo(ChildOf(o), o) /\ store[ChildOf(o)].spec = store[o].spec)
=============================================================================
