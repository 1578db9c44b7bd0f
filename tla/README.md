# Verification of the streaming runtime

TLA+ models of this repository, model-checked with TLC on small instances and
proved with TLAPS for all values of their constants. Paths below are relative to
the repository's root.

## The system

The streaming runtime is a Kubernetes operator and two components it deploys.
Users apply resources; the operator's controllers turn each into a Dapr object or
a Deployment; the components run in pods beside a Dapr sidecar that carries
messages between them and a broker.

| Part | State | Operations | Talks to |
|---|---|---|---|
| Joiner component, `components/joiner/main.go` | `inputChan` (unbuffered), `store`, the window ticker, `outputChan` (1024) | topic handlers, input loop (receive, close window, reset), output loop (publish, invoke) | the broker through its sidecar; a target stream and a target component |
| Channel component, `components/channel/main.go` | `inputChan` and `outputChan` (1024 each), `counter` | invocation handlers, processing loop, output loop | components that invoke it; its targets |
| Support, `components/support/support.go` | none | targets, JSON, CEL programs | used by both components |
| Joiner, Channel, Processor, Stream, ClusterStream controllers, `controllers/*.go` | work queue, a worker, the informers' cache; in the cluster the child each resource owns | `Reconcile`, the `create...` functions, `Status().Update` | the API server |
| Table controller | none | `Reconcile` does nothing | |
| Manager, `main.go` | the process all controllers run in | start, crash | |
| API types | none | declarations | |
| Example processor, `examples/message-proc/main.go` | none | a handler at the route its environment names | invoked by channels and joiners |
| CRDs, manifests, `components/k8s`, example generator | none | declarations, or unused | |

The joiner's handlers and its input loop meet at a channel without a buffer, and
the input loop waits for the output loop when `outputChan` is full: a slow target
stops the join, and the join stops the broker's deliveries. The channel is the
same line with two buffers and no store. Controller and component meet in the
environment of a Deployment, which is written once; controllers meet each other in
the names of the objects they own.

What is hard, and what makes each part correct:

* **Joiner.** Handlers, ticker and two loops interleave. A message is
  acknowledged while it is only in memory. A window closes in three steps
  (aggregate, send, reset), of which the second can block. Nothing may be dropped
  that was not joined, nothing joined twice, batches may not be reordered, and no
  handler may wait for ever. Failing evaluations and refusing targets are logged
  and not retried.
* **Channel.** Every event the filter accepts is offered to every target, once and
  in order, whatever buffers are full and whichever target fails; an answer means
  the event is in. Of two channels in a row the first waits, through two sidecars,
  for room in the second, and cannot tell a call that failed from one whose answer
  was lost.
* **Joiner's set-up.** Two programs agree on names and formats of variables no
  compiler checks; Streams may come after the Joiner that names them; a bad
  resource must not harm others.
* **Wiring.** A message reaches a program when a Stream, a broker's Component, a
  channel and a processor have been given the same names and routes, by four
  controllers and two programs that each have defaults of their own.
* **Reconcilers.** Caches lag, resources die and come back between a read and a
  write, deletions race with creations, the manager restarts, and kinds share
  names. Every resource that stays ends with its own child, and one that goes
  leaves none.

The full list of hazards, at their lines and with the properties that cover them,
is in `PROJECT.json`.

## The modules

| Module | What it is |
|---|---|
| `Lines` | order of what travels through a queue: increasing sequences, what is behind a position |
| `Joiner` | the joiner component |
| `WindowJoin` | what a windowed join promises, with one step per window |
| `JoinerRefinement` | the mapping under which `Joiner` implements `WindowJoin` |
| `Channel` | the channel component |
| `Relay` | what a relay promises: each target is offered what passes, once and in order |
| `ChannelRefinement` | the mapping under which `Channel` implements `Relay` |
| `Pipeline` | two channels, the first invoking the second: two instances of `Channel` composed |
| `Targets` | `validateTarget` and `GetTargetParts` |
| `JoinerSetup` | from a Joiner resource through its Deployment to a configured process; the controller and the component's `main` composed |
| `Wiring` | from ClusterStream, Stream, Channel and Processor resources to connected programs: what four controllers write and what the programs make of it |
| `Reconciler` | the five controllers' `Reconcile` against API server, garbage collector, caches and work queues |
| `MC...` | constants for TLC |
| `...Proofs` | theorems and proofs |

**Joiner.** One action per step of a goroutine that others can see. `Deliver` and
`Answer` are the sidecar's call and its return; between them the handler is in
`sending`, blocked in `inputChan <- e`, then in `returning`. `Receive` is the
rendezvous and `store.Lock`/append in one, as the input loop does them in one arm
of its select. `CloseWindow` and `SkipWindow` are the ticker's arm with
`aggregateEvents` succeeding or not; `SendOutput` and `Reset` are the two
statements after it. `TakeOutput`, `Publish` and `Invoke` are the output loop. A
call of a target succeeds or fails. What CEL says of a pair of messages
is the constants `Filter` and `Select`. A message delivered twice is two arrivals.
Histories: `batches` and `lost` (what a crash wiped).

**WindowJoin** has a pool, a log of batches and what each target got. Closing a
window is one step. `JoinerRefinement` maps the pool to the store while the input
loop is at its select, and to nothing from `aggregateEvents` to `reset`.

**Channel.** The same style. Positions in `received` travel through the buffers.
`dataProg` and `shouldTrigger` are what the code makes of a trigger: the program
is compiled into the wrong variable, and nothing is ever held back.

**Relay** is a log and, for each target, what is behind it and what it accepted.
`ChannelRefinement` puts a position behind a target when its call has returned or a
crash wiped it; both buffers and both loops disappear. A crash is `Forget`, the only
step that may put a position behind a target that was never offered it.

**Pipeline** instantiates `Channel` twice, with `Down`'s invocations being what
`Up` sends. `Ask`, `Return` and `Fail` refine `Up`'s `Invoke`: the call starts a
handler in `Down`, and returns when that handler has answered, when `Down` has
died over it, or when the network fails, in which case the handler may be alive.
`UpstreamIsChannel` is the refinement: what `Channel` assumes of its target, that
calls return, is here shown from `Down`'s own loops.

**JoinerSetup.** `Env` is what `createJoinerDeployment` writes, `Rejects` and
`Panics` its errors, `Config` and `Fatal` what the component's `main` makes of
`os.Getenv`. A string is the sequence of its parts, so a target without a route
has length one. `Deploy`, `Reject`, `Panic` and `Settled` are the outcomes of a
`Reconcile`, `Requeue` the rate-limited retry, `DeploymentEvent` the watch of
owned Deployments. Users delete Joiners too (`Withdraw`, then `Collect` of what the
Joiner owned); a name that comes out of the queue for one that is gone is `Absent`.
`Listing` is the order in which an informer lists the Joiners a restarted manager
finds. Nothing queues a Joiner when a Stream changes, as in the code.
Reads are of the cluster as it is: `Reconciler` is about late ones.

**Wiring.** `createClusterStream`, `createDaprSubscription`, `createChanDeployment`
and `createProcessorDeployment` have the names of the functions they model;
`ChannelConfig` and `Fatal` are the channel's `main`, `RouteOf` where a program can
be reached. Resources are created, changed in place and deleted in any order;
children are made once, as in the code. Each Reconcile is one step here.

**Reconciler.** `store` is the API server, `cache` and `watch` an informer per
object that sees every event in order and late. The worker of a kind goes through
`Fetch` (the resource), `Find` (the child) and `Create` or `UpdateStatus`, and
anything can happen between them. Uids and versions of specs are the number of the
user's operation that made them. `StatusOf` is ClusterStream's status: a version
in `Brokers` names its brokers, any other has the status Error. `Collect` and
`Finish` are the garbage collector; users create, change, delete in the background
or the foreground, and delete children.

Definitions named as mutants in a module are never part of its specification: they
are variations, each a plausible slip in the code, that a property is shown to
catch when they replace the definition after them.

## The runs

| Run | Instance | Shows |
|---|---|---|
| `joiner_safety` | three messages, two of one topic; two pairs, one of which fails to evaluate; two deliveries each, one restart, a target stream, buffer of 1 | `AckedIsAccountedFor`, `NoArrivalJoinedTwice`, `DeliveredInOrder`, `NothingDroppedUnjoined`, `ImplementsWindowJoin` |
| `joiner_liveness` | a message of one topic, two of the other; five deliveries, at most two of each; a buffer of 1, no restart | `HandlersReturn`, `MatchesAreJoined` |
| `joiner_poison` | the three messages, delivered once | violation of `MatchesAreJoined` |
| `channel_relay` | an event that passes the filter and fails in the projection, one the filter refuses; two calls with each, one restart, both targets, buffers of 1 | `NothingSkipped`, `AnsweredIsReceived`, `RelayedInOrder`, `CallsReturn`, `EventuallyOffered`, `ImplementsRelay` |
| `channel_empty` | an event whose projection succeeds, and a trigger `count >= 2` | violation of `CollectedIsSent` |
| `pipeline` | two channels, two events that pass both, buffers of 1, a restart of either, a call the network fails | `NothingLostBetween`, `AtMostOnce`, `SucceededInOrder`, `UpstreamIsChannel`, `EndToEnd` |
| `setup_deploy` | four Joiners (in this order: both targets, no targets, a stream as its only target, one source) that may be deleted, and two Streams that come, change and go | `RoutesAsSpecified`, `SubscribesToNamed`, `ValidAreDeployed` |
| `setup_filter` | a Joiner whose window does not parse; one with a filter | violation of `FilterIsApplied` |
| `wiring` | a broker, a Stream with and without a route, a channel, a processor, and a channel without a source; six changes of users, one pod that dies | `ChannelIsAsAsked`, `ProcessorIsAsAsked`, `PathOpens` |
| `reconciler_safety` | a Processor and a Joiner of one name, three operations of users, a crash, unseen events | `ChildIsOfOneVersion`, `OneOfNameIsServed`, `DeletionEnds` |
| `reconciler_liveness` | a ClusterStream, four operations, a crash, two unseen events per object | `OwnersAreServed`, `NoOrphans`, `StatusFollows` |
| `reconciler_drift` | a changed spec | violation of `ChildrenFollow` |

Each passing run but the two of liveness alone checks its module's type invariant
too.

**Bounds.** Buffers of one fill with two batches or events, and full is the case
that matters; the proofs are for any capacity. A handler that waits behind a full
`outputChan` needs more than that: in the joiner two batches, one in the buffer
and one in the input loop's hand, which take four deliveries, so `joiner_liveness`
has five; in the channel one event each in `outputChan`, in the processing loop's
hand and in `inputChan`, so `channel_relay` has four calls. An output loop that
never runs violates `HandlersReturn` and `CallsReturn`: those are their mutants.
Two deliveries of a message give the redelivery that overtakes its
acknowledgement. One restart gives a process that begins with targets that have
seen batches; the joiner's is in `joiner_safety`. Of the Joiners, the one that
panics has one listed before it, which must be deployed between two restarts of
the manager, and others after it. Two Streams with their changes give a Stream
that is late, one that changes and one that goes. In `pipeline` two events fill
`Down`'s input buffer, or overtake each other after the one call the network
fails. In `wiring` the path takes four resources; six changes build it beside the
channel that panics and remove that channel, or change, delete and create again a
part of it. Four operations of users give a resource created, deleted, created
again and its child deleted; two unseen events are a creation and a deletion the
cache has not heard of. A write to an object with `MaxLag` unseen events waits for
the informer, which loses only longer lags. Liveness of a Reconcile is checked on
the ClusterStream, which goes through every step of the others and writes a status
besides; that the others, unlike it, ignore what is being deleted is in
`reconciler_safety`.

**Deadlock.** Channel, Pipeline, JoinerSetup, Wiring and Reconciler come to rest
when callers or users do, so their configurations do not check for deadlock; that
they do not rest too early is what their liveness properties say. The joiner's
ticker never rests.

## Fairness

* Goroutines run: each loop's steps are weakly fair. A Go channel serves blocked
  senders first come, first served, and select picks among ready cases at random,
  so a handler ready again and again gets through: strong fairness of `Receive`
  and `Enqueue`.
* Calls of targets return, with success or an error. The code sets no deadline;
  without this assumption a silent target stops the whole line, by design of it.
  `Pipeline` does not assume it of calls between channels: there a call returns
  because the other channel goes on, or because its death is noticed.
* The ticker keeps firing. The broker owes nothing: `Deliver` and `Call` are not
  fair, nor are crashes, nor anything users do.
* Reconcilers: a work queue is first in, first out, so what is queued is taken
  (strong fairness of `Fetch` and `Ignore`, whose worker is busy in between);
  informers, the garbage collector, the retry of errors and the restart of the
  manager go on. The periodic resync of informers, every ten hours by default, is
  left out: no property relies on it, and it does not repair what the violations
  show, since it only adds runs of `Reconcile`.

## What is proved

| Module | Theorems |
|---|---|
| `LinesProofs` | lemmas: appending to and taking from a list or an ordered queue |
| `JoinerProofs` | `TypeCorrect`, `InductiveInvariant`, `AckedSafe`, `JoinedOnce`, `InOrder`, `DroppedOnlyIfJoined`, `Refinement`, `NoStandstill` |
| `ChannelProofs` | `TypeCorrect`, `InductiveInvariant`, `NoneSkipped`, `AnswerAfterReceipt`, `InOrder` |
| `ChannelRelayProofs` | `RelayInvariant`, `Refinement` |
| `PipelineProofs` | `UpImplements`, `DownImplements`, `InductiveInvariant`, `TypeCorrect`, `NoneLostBetween`, `NoneTwice`, `AcknowledgedInOrder`, `NoStandstill` |
| `JoinerSetupProofs` | `TypeCorrect`, `InductiveInvariant`, `Routes`, `Subscribes` |
| `ReconcilerProofs` | `TypeCorrect`, `InductiveInvariant`, `OneVersion` |
| `WiringProofs` | `TypeCorrect`, `InductiveInvariant`, `ChannelsAsAsked`, `ProcessorsAsAsked` |

They assume of the constants what the modules' named ASSUMEs say (types, capacities
of at least one, a target, listings without repetition, kinds of resources that are
not kinds of children), which TLC evaluates in every run. `Wiring` assumes besides
that no two of its resources share a name; those that do are in `Reconciler`.

*Joiner.* None of the properties is inductive. `IInv` says where an arrival can
be: stored under its topic; numbered by a delivery made, so that a new delivery is
new; not stored while its handler waits; apart from all batches while the loop is
at its select, inside them from aggregate to reset (`StoreInv`, the heart of it);
accounted for once its handler is past the channel. `OrderInv` is the other half:
at each point from `jsonData` over `outputChan` and `data` to the targets a batch
is ahead of what has passed. The refinement follows from the same invariant.
`NoStandstill` says that the goroutines never all wait for each other.

*Channel.* `LineInv` says that positions in `inputChan` are the newest, in order,
and that each later point of the line has seen only earlier ones. With it and with
`HandedOver` (what is answered was received) the properties become inductive.
`Fresh` adds that each handler puts its event in once; lemmas `LeftStays` and
`WaitsForTarget` say that the line only moves on and that its goroutines wait for
each other only while the output loop waits for a target.

The refinement needs more, which no property of a single state does: a position
that was refused, or lost in a crash, stays behind everything still in the line
(`ShutInv`), so what the line hands a target is the first that `Relay` owes it.

*Pipeline.* The proof is by composition. Each step of the two is a step of either
channel or leaves it alone (`UpSteps`, `DownSteps`), so that the theorems of
`ChannelProofs`, instantiated for both, hold of both; the constants they assume are
those that `Pipeline` assumes, and lemmas `UpConstants` and `DownConstants` check
them. `UpImplements` is the safety half of `UpstreamIsChannel`. For `Down` the
invariant of `Up` is needed first: what it is asked to take is an invocation.
`Link` is what neither channel knows alone. `Down` is asked for a message at most
once, and only when it is in `Up`'s hand or behind its line: with histories that hold
nothing twice, one message is one arrival (`OneInvocation`), which gives
`AtMostOnce`. What is still in `Up`'s line has not been sent and so has not arrived
(`InLineNotSent`, `NotSentNotArrived`): when a call returns, what it was for has
arrived and nothing after it has, which is `SucceededInOrder`. `Link` also shows that
the bound of two calls per message keeps no call away. `NoStandstill` is the safety
half of what liveness there is: its guards are those of the steps the two take by
themselves. That their fairness then leads anywhere is TLC's part.

*Reconciler.* `Versions` says of every place where a version of a resource can be,
from the API server over events on their way and the cache to a worker's hands and
a child, that it is one of the present life and not ahead of the resource, or
ended before this life began. With that, `Create` may come as late as it likes.

*Wiring.* `Written` and `Read` justify each Deployment and each program by a version
in the history of its resource, which only grows; from there the properties are
about the functions that write and read environments, and lemma `TargetsAgree`.

*JoinerSetup.* `Derived`: each Deployment was written from its Joiner and from
versions the named Streams have had, each running process has the configuration
its Deployment gives. Lemma `Routing` shows that the controller's and the
component's idea of a default route agree for every target, and that the output
loop's `[0]` and `[1]` exist or the target is skipped.

**Only model-checked:** liveness and everything under fairness, which this prover
does not do (`PathOpens`, `OneOfNameIsServed`, `DeletionEnds`, `EndToEnd`, the
fairness in `UpstreamIsChannel` and the other properties of that kind among them);
the violations. Every invariant that a passing run checks is the statement of a
theorem.

## Findings

`PROJECT.json` quotes the lines. In short: one pair that cannot be evaluated stops
a joiner for good (`joiner_poison`); a failed projection is sent as an empty
payload, and with a trigger every projection fails, since the trigger is compiled
over it and evaluates a `count` nobody defines (`channel_empty`; `ChannelIsAsAsked`
speaks of the projection of channels without a trigger); filters of
deployed joiners are lost (`setup_filter`); changed specs are never applied
(`reconciler_drift`).

More that the models show, without a run of their own:

* The trigger of a channel holds nothing back: `shouldTrigger`'s body is commented
  out (channel `main.go:236-243`), although its comment says that it evaluates the
  expression.
* A list of targets or sources that is empty, which the CRDs admit, is indexed
  (`joiner_controller.go:151`, `channel_controller.go:145` and `:161`): the panic
  ends the manager with all its controllers, and again after every restart, until
  the resource is deleted. `ValidAreDeployed` and `PathOpens` hold only without
  such a resource ahead or present, and that condition is needed.
* A window whose aggregation fails, and an empty topic or an empty result is such a
  failure, is not reset (joiner `main.go:192`), so its messages are joined with
  those of later windows, although `docs/joiner-component.md:3-5` speaks of tumbling
  windows: this is `SkipWindow`.
* A Joiner whose only target is a stream is accepted and its component never starts,
  since `main` requires `JOINER_STREAM_TO_COMPONENT` (`main.go:70`): this is
  `streamOnly` in `setup_deploy`.
* Of two resources of different kinds and one name, the later one takes the other's
  Deployment for its own and is not deployed (`processor_controller.go:71`):
  `OwnersAreServed` does not hold of `SameName`, and `OneOfNameIsServed` is what is
  left of it. It stays undeployed when the other is deleted with its Deployment:
  that event queues the owner of the Deployment, not the one that wanted its name,
  which has to be changed or to wait for the manager to restart.
  No document says what becomes of such a pair.
* The variables of a user's container are lost for channels and joiners
  (`channel_controller.go:157`) and kept for processors (`processor_controller.go:131`).
* A ClusterStream whose brokers are taken away keeps its old Servers beside the
  status Error (`clusterstream_controller.go:103-108`).

## Not modelled

Contents of messages, JSON and CEL (their outcomes are constants); ports, images,
replicas, labels, logging; flags, probes and leader election of the manager; the
Table controller and the unused Kubernetes client, which do nothing; the example
generator, which runs on its own; manifests and generated code.

Cycles of channels. Their output loops wait for each other's handlers as in
`Pipeline`, and once all the buffers of a cycle are full none can go on: that is
plain from `Pipeline`'s guards, nothing documents a cycle, and the buffers of 1024
make it a matter of load.

Retries by the sidecars. The components call a target once; a resiliency policy
by which Dapr repeats an invocation on its own would break `AtMostOnce`, and
`Pipeline` assumes there is none.

Joiners edited in place. `SpecOf` gives each Joiner one spec for good, and one that
is deleted does not return in `JoinerSetup`. The code finds the Deployment there and
leaves it (`joiner_controller.go:75-112`), so the pod of an edited Joiner keeps its
old targets and `RoutesAsSpecified` holds of Joiners that are not edited; that no
changed spec reaches a child is `reconciler_drift`.

When sidecars load Subscriptions. `PathOpens` is about what the operator and the
programs make of the names, in whatever order children are created; that the
Subscription is there when the pod's sidecar starts is not part of it.

Names, topics and routes with a `|`. `collateStreamInfo` joins a Stream's topic,
route and pubsub with it and `getSubscription` splits at it; `JoinerSetup` keeps
them a triple, so that `SubscribesToNamed` is about strings without one.

Equal topics of a joiner's two Streams are left out: `Joiner` and `JoinerSetup` are
given distinct ones.

## Plan

Done, in this order: `Joiner` with `WindowJoin`, `Channel`, `JoinerSetup`,
`Reconciler`, and the proofs about the first three; then `Relay`, `Pipeline`,
`Wiring`, deletions in `JoinerSetup` and ClusterStream's status in `Reconciler`;
then the proofs of `Relay`'s refinement and about `Reconciler`, `Wiring` and
`Pipeline`.

To come: `JoinerSetup` on top of late caches, if the composition stays small enough.
