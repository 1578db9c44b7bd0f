---------------------------- MODULE WiringProofs ----------------------------
(***************************************************************************)
(* Proofs about Wiring, for all resources, specs and numbers of changes:   *)
(* what runs was made from a version of its resource that its controller   *)
(* accepted, and does what that version asks.                              *)
(***************************************************************************)
EXTENDS Wiring, LinesProofs

\* Every variable that is a function has its domain.
Shapes ==
    /\ resource = [r \in Names |-> resource[r]]
    /\ child = [r \in Names |-> child[r]]
    /\ seen = [r \in Names |-> seen[r]]
    /\ process = [a \in Apps |-> process[a]]

\* A channel's controller goes on with s.
Accepts(s) == ~ Panics(s) /\ ~ Rejects(s)

\* A Deployment was written from a version of its resource.
Written ==
    /\ \A c \in Channels : child[c] # None =>
          \E s \in seen[c] : Accepts(s) /\ child[c] = createChanDeployment(s)
    /\ \A p \in Processors : child[p] # None =>
          \E s \in seen[p] : child[p] = createProcessorDeployment(p, s)

\* A process has read a Deployment that was.
Read ==
    /\ \A c \in Channels : process[c] # None =>
          \E s \in seen[c] :
              Accepts(s) /\ process[c] = ChannelConfig(createChanDeployment(s))
    /\ \A p \in Processors : process[p] # None =>
          \E s \in seen[p] : process[p] = createProcessorDeployment(p, s)

IInv == TypeOK /\ Shapes /\ Written /\ Read

-----------------------------------------------------------------------------
(* The initial state satisfies the invariant.                              *)
LEMMA InitInv == Init => IInv
  <1> SUFFICES ASSUME Init PROVE IInv
    OBVIOUS
  <1>1. Shapes
    BY DEF Init, Shapes
  <1>2. /\ \A r \in Names : resource[r] = None /\ child[r] = None /\ seen[r] = {}
        /\ \A a \in Apps : process[a] = None
    BY DEF Init
  <1>3. TypeOK
    BY <1>2, SpecsAssumption DEF Init, TypeOK, Apps, Names
  <1>4. Written /\ Read
    BY <1>2 DEF Written, Read, Apps, Names
  <1>5. QED
    BY <1>1, <1>3, <1>4 DEF IInv

(* Histories only grow, so what a version justified it goes on justifying. *)
LEMMA SeenGrows ==
    ASSUME Written, Read, \A r \in Names : seen[r] \subseteq seen'[r],
           \A a \in Apps : child'[a] \in {child[a], None} /\ process'[a] \in {process[a], None}
    PROVE  Written' /\ Read'
  <1>1. Channels \subseteq Apps /\ Processors \subseteq Apps /\ Apps \subseteq Names
    BY DEF Apps, Names
  <1>2. ASSUME NEW c \in Channels, child'[c] # None
        PROVE  \E s \in seen'[c] : Accepts(s) /\ child'[c] = createChanDeployment(s)
    <2>1. child'[c] = child[c] /\ seen[c] \subseteq seen'[c]
      BY <1>1, <1>2
    <2>2. QED
      BY <1>2, <2>1 DEF Written
  <1>3. ASSUME NEW p \in Processors, child'[p] # None
        PROVE  \E s \in seen'[p] : child'[p] = createProcessorDeployment(p, s)
    <2>1. child'[p] = child[p] /\ seen[p] \subseteq seen'[p]
      BY <1>1, <1>3
    <2>2. QED
      BY <1>3, <2>1 DEF Written
  <1>4. ASSUME NEW c \in Channels, process'[c] # None
        PROVE  \E s \in seen'[c] :
                   Accepts(s) /\ process'[c] = ChannelConfig(createChanDeployment(s))
    <2>1. process'[c] = process[c] /\ seen[c] \subseteq seen'[c]
      BY <1>1, <1>4
    <2>2. QED
      BY <1>4, <2>1 DEF Read
  <1>5. ASSUME NEW p \in Processors, process'[p] # None
        PROVE  \E s \in seen'[p] : process'[p] = createProcessorDeployment(p, s)
    <2>1. process'[p] = process[p] /\ seen[p] \subseteq seen'[p]
      BY <1>1, <1>5
    <2>2. QED
      BY <1>5, <2>1 DEF Read
  <1>6. QED
    BY <1>2, <1>3, <1>4, <1>5 DEF Written, Read

(* A user's change of a resource keeps the invariant.                      *)
LEMMA ApplyKeeps ==
    ASSUME IInv, NEW r \in Names, Apply(r)
    PROVE  IInv'
  <1>1. PICK s \in SpecsOf[r] :
            /\ resource' = [resource EXCEPT ![r] = s]
            /\ seen' = [seen EXCEPT ![r] = @ \cup {s}]
    BY DEF Apply
  <1>2. /\ UNCHANGED <<manager, child, process, deaths>> /\ changes' = changes + 1
        /\ changes < MaxChanges /\ edited' \in {edited, edited \cup {r}}
        /\ resource[r] = None => edited' = edited
    BY DEF Apply, podVars
  <1>3. /\ DOMAIN resource = Names /\ DOMAIN seen = Names
        /\ resource'[r] = s /\ seen'[r] = seen[r] \cup {s}
        /\ \A q \in Names \ {r} : resource'[q] = resource[q] /\ seen'[q] = seen[q]
    BY <1>1 DEF IInv, Shapes
  <1>4. Shapes'
    BY <1>1, <1>2 DEF IInv, Shapes
  <1>5. Written' /\ Read'
    BY <1>2, <1>3, SeenGrows DEF IInv
  <1>6. TypeOK'
    <2>1. \A q \in Names : resource'[q] # None => resource'[q] \in seen'[q]
      BY <1>3 DEF IInv, TypeOK
    <2>2. \A q \in Names : seen'[q] \subseteq SpecsOf[q]
      BY <1>3 DEF IInv, TypeOK
    <2>3. changes' \in 0..MaxChanges
      BY <1>2, SpecsAssumption DEF IInv, TypeOK
    <2>4. resource'[r] # None
      BY <1>3, NoneAssumption
    <2>5. edited' \subseteq {q \in Names : resource'[q] # None}
      BY <1>2, <1>3, <2>4 DEF IInv, TypeOK
    <2>6. \A q \in Names : child'[q] # None => resource'[q] # None
      BY <1>2, <1>3, <2>4 DEF IInv, TypeOK
    <2>7. QED
      BY <1>2, <2>1, <2>2, <2>3, <2>5, <2>6 DEF IInv, TypeOK
  <1>7. QED
    BY <1>4, <1>5, <1>6 DEF IInv

(* So does the deletion of a resource with what it owns.                   *)
LEMMA DeleteKeeps ==
    ASSUME IInv, NEW r \in Names, Delete(r)
    PROVE  IInv'
  <1>1. /\ resource' = [resource EXCEPT ![r] = None]
        /\ child' = [child EXCEPT ![r] = None]
        /\ process' = [a \in Apps |-> IF a = r THEN None ELSE process[a]]
        /\ edited' = edited \ {r} /\ changes' = changes + 1 /\ changes < MaxChanges
        /\ UNCHANGED <<manager, deaths, seen>>
    BY DEF Delete
  <1>2. /\ resource'[r] = None /\ child'[r] = None
        /\ \A q \in Names \ {r} : resource'[q] = resource[q] /\ child'[q] = child[q]
        /\ \A a \in Apps : process'[a] = IF a = r THEN None ELSE process[a]
    BY <1>1 DEF IInv, Shapes
  <1>3. Shapes'
    BY <1>1 DEF IInv, Shapes
  <1>4. Written' /\ Read'
    <2>1. \A a \in Apps : child'[a] \in {child[a], None} /\ process'[a] \in {process[a], None}
      BY <1>2 DEF Apps, Names
    <2>2. QED
      BY <1>1, <2>1, SeenGrows DEF IInv
  <1>5. TypeOK'
    <2>1. \A q \in Names : resource'[q] # None => resource'[q] \in seen'[q]
      BY <1>1, <1>2 DEF IInv, TypeOK
    <2>2. \A q \in Names : child'[q] # None => resource'[q] # None
      BY <1>2 DEF IInv, TypeOK
    <2>3. \A a \in Apps : process'[a] # None => child'[a] # None
      BY <1>2 DEF IInv, TypeOK, Apps, Names
    <2>4. edited' \subseteq {q \in Names : resource'[q] # None}
      BY <1>1, <1>2 DEF IInv, TypeOK
    <2>5. changes' \in 0..MaxChanges
      BY <1>1, SpecsAssumption DEF IInv, TypeOK
    <2>6. QED
      BY <1>1, <2>1, <2>2, <2>3, <2>4, <2>5 DEF IInv, TypeOK
  <1>6. QED
    BY <1>3, <1>4, <1>5 DEF IInv

(* A controller writes what its resource, as it is, asks for.              *)
LEMMA CreateKeeps ==
    ASSUME IInv, NEW r \in Names, NEW made, Missing(r), Create(r, made),
           r \in Channels => Accepts(resource[r]) /\ made = createChanDeployment(resource[r]),
           r \in Processors => made = createProcessorDeployment(r, resource[r])
    PROVE  IInv'
  <1>1. /\ child' = [child EXCEPT ![r] = made]
        /\ UNCHANGED <<resource, changes, seen, edited, manager, process, deaths>>
    BY DEF Create, userVars, podVars
  <1>2. child'[r] = made /\ \A q \in Names \ {r} : child'[q] = child[q]
    BY <1>1 DEF IInv, Shapes
  <1>3. Shapes'
    BY <1>1 DEF IInv, Shapes
  <1>4. child[r] = None /\ resource[r] # None /\ resource[r] \in seen[r]
    BY DEF Missing, IInv, TypeOK
  <1>5. Written'
    BY <1>1, <1>2, <1>4 DEF IInv, Written, Apps, Names
  <1>6. Read'
    BY <1>1 DEF IInv, Read
  <1>7. TypeOK'
    <2>1. \A a \in Apps : process'[a] # None => child'[a] # None
      BY <1>1, <1>2, <1>4 DEF IInv, TypeOK, Apps, Names
    <2>2. \A q \in Names : child'[q] # None => resource'[q] # None
      BY <1>1, <1>2, <1>4 DEF IInv, TypeOK
    <2>3. QED
      BY <1>1, <2>1, <2>2 DEF IInv, TypeOK
  <1>8. QED
    BY <1>3, <1>5, <1>6, <1>7 DEF IInv

(* A program that starts has read its Deployment.                          *)
LEMMA StartKeeps ==
    ASSUME IInv, NEW a \in Apps, NEW made, child[a] # None,
           process' = [process EXCEPT ![a] = made],
           UNCHANGED <<userVars, manager, child, deaths>>,
           a \in Channels => made = ChannelConfig(child[a]),
           a \in Processors => made = child[a]
    PROVE  IInv'
  <1>1. UNCHANGED <<resource, changes, seen, edited, manager, child, deaths>>
    BY DEF userVars
  <1>2. process'[a] = made /\ \A b \in Apps \ {a} : process'[b] = process[b]
    BY DEF IInv, Shapes
  <1>3. Shapes'
    BY <1>1 DEF IInv, Shapes
  <1>4. Written'
    BY <1>1 DEF IInv, Written
  <1>5. /\ \A c \in Channels : process'[c] # None =>
              \E s \in seen'[c] :
                  Accepts(s) /\ process'[c] = ChannelConfig(createChanDeployment(s))
        /\ \A p \in Processors : process'[p] # None =>
              \E s \in seen'[p] : process'[p] = createProcessorDeployment(p, s)
    <2>1. ASSUME NEW c \in Channels, process'[c] # None
          PROVE  \E s \in seen'[c] :
                     Accepts(s) /\ process'[c] = ChannelConfig(createChanDeployment(s))
      <3>1. CASE c = a
        <4>1. PICK s \in seen[c] : Accepts(s) /\ child[c] = createChanDeployment(s)
          BY <2>1, <3>1 DEF IInv, Written
        <4>2. QED
          BY <1>1, <1>2, <2>1, <3>1, <4>1
      <3>2. CASE c # a
        BY <1>1, <1>2, <2>1, <3>2 DEF IInv, Read, Apps
      <3>3. QED
        BY <3>1, <3>2
    <2>2. ASSUME NEW p \in Processors, process'[p] # None
          PROVE  \E s \in seen'[p] : process'[p] = createProcessorDeployment(p, s)
      <3>1. CASE p = a
        BY <1>1, <1>2, <2>2, <3>1 DEF IInv, Written
      <3>2. CASE p # a
        BY <1>1, <1>2, <2>2, <3>2 DEF IInv, Read, Apps
      <3>3. QED
        BY <3>1, <3>2
    <2>3. QED
      BY <2>1, <2>2
  <1>6. Read'
    BY <1>5 DEF Read
  <1>7. TypeOK'
    BY <1>1, <1>2 DEF IInv, TypeOK
  <1>8. QED
    BY <1>3, <1>4, <1>6, <1>7 DEF IInv

(* A pod that dies leaves its Deployment.                                  *)
LEMMA KillKeeps ==
    ASSUME IInv, NEW a \in Apps, Kill(a)
    PROVE  IInv'
  <1>1. /\ UNCHANGED <<resource, changes, seen, edited, manager, child>>
        /\ process' = [process EXCEPT ![a] = None]
        /\ deaths' = deaths + 1 /\ deaths < MaxDeaths
    BY DEF Kill, userVars
  <1>2. process'[a] = None /\ \A b \in Apps \ {a} : process'[b] = process[b]
    BY <1>1 DEF IInv, Shapes
  <1>3. Shapes'
    BY <1>1 DEF IInv, Shapes
  <1>4. Written' /\ Read'
    <2>1. \A b \in Apps : child'[b] \in {child[b], None} /\ process'[b] \in {process[b], None}
      BY <1>1, <1>2
    <2>2. QED
      BY <1>1, <2>1, SeenGrows DEF IInv
  <1>5. TypeOK'
    <2>1. deaths' \in 0..MaxDeaths
      BY <1>1, SpecsAssumption DEF IInv, TypeOK
    <2>2. QED
      BY <1>1, <1>2, <2>1 DEF IInv, TypeOK
  <1>6. QED
    BY <1>3, <1>4, <1>5 DEF IInv

(* The manager's end and its restart concern no resource.                  *)
LEMMA ManagerKeeps ==
    ASSUME IInv, manager' \in {"up", "down"}, UNCHANGED <<userVars, child, podVars>>
    PROVE  IInv'
  <1>1. TypeOK'
    BY DEF IInv, TypeOK, userVars, podVars
  <1>2. Shapes'
    BY DEF IInv, Shapes, userVars, podVars
  <1>3. Written' /\ Read'
    BY DEF IInv, Written, Read, userVars, podVars
  <1>4. QED
    BY <1>1, <1>2, <1>3 DEF IInv

(* Every step keeps the invariant.                                         *)
LEMMA StepInv == IInv /\ [Next]_vars => IInv'
  <1> SUFFICES ASSUME IInv, [Next]_vars
               PROVE  IInv'
    OBVIOUS
  <1>a. /\ ClusterStreams \cap Apps = {} /\ Streams \cap Apps = {}
        /\ Channels \cap Processors = {}
        /\ Channels \subseteq Apps /\ Processors \subseteq Apps
        /\ ClusterStreams \subseteq Names /\ Streams \subseteq Names /\ Apps \subseteq Names
    BY KindsAssumption DEF Apps, Names
  <1>1. ASSUME NEW r \in Names, Apply(r) PROVE IInv'
    BY <1>1, ApplyKeeps
  <1>2. ASSUME NEW r \in Names, Delete(r) PROVE IInv'
    BY <1>2, DeleteKeeps
  <1>3. ASSUME NEW b \in ClusterStreams, ReconcileClusterStream(b) PROVE IInv'
    <2>1. b \in Names /\ b \notin Channels /\ b \notin Processors
      BY <1>a
    <2>2. QED
      BY <1>3, <2>1, CreateKeeps DEF ReconcileClusterStream
  <1>4. ASSUME NEW n \in Streams, ReconcileStream(n) PROVE IInv'
    <2>1. n \in Names /\ n \notin Channels /\ n \notin Processors
      BY <1>a
    <2>2. QED
      BY <1>4, <2>1, CreateKeeps DEF ReconcileStream
  <1>5. ASSUME NEW c \in Channels, ReconcileChannel(c) PROVE IInv'
    <2>1. c \in Names /\ c \notin Processors
      BY <1>a
    <2>2. Accepts(resource[c]) /\ Missing(c) /\ Create(c, createChanDeployment(resource[c]))
      BY <1>5 DEF ReconcileChannel, Accepts
    <2>3. QED
      BY <2>1, <2>2, CreateKeeps
  <1>6. ASSUME NEW p \in Processors, ReconcileProcessor(p) PROVE IInv'
    <2>1. p \in Names /\ p \notin Channels
      BY <1>a
    <2>2. QED
      BY <1>6, <2>1, CreateKeeps DEF ReconcileProcessor
  <1>7. ASSUME NEW c \in Channels, StartChannel(c) PROVE IInv'
    <2>1. c \in Apps /\ c \notin Processors
      BY <1>a
    <2>2. QED
      BY <1>7, <2>1, StartKeeps DEF StartChannel
  <1>8. ASSUME NEW p \in Processors, StartProcessor(p) PROVE IInv'
    <2>1. p \in Apps /\ p \notin Channels
      BY <1>a
    <2>2. QED
      BY <1>8, <2>1, StartKeeps DEF StartProcessor
  <1>9. ASSUME NEW a \in Apps, Kill(a) PROVE IInv'
    BY <1>9, KillKeeps
  <1>10. ASSUME NEW c \in Channels, PanicOver(c) PROVE IInv'
    BY <1>10, ManagerKeeps DEF PanicOver
  <1>11. CASE RestartManager
    BY <1>11, ManagerKeeps DEF RestartManager
  <1>12. CASE UNCHANGED vars
    <2>1. manager' \in {"up", "down"}
      BY <1>12 DEF vars, IInv, TypeOK
    <2>2. QED
      BY <1>12, <2>1, ManagerKeeps DEF vars
  <1>13. QED
    BY <1>1, <1>2, <1>3, <1>4, <1>5, <1>6, <1>7, <1>8, <1>9, <1>10, <1>11, <1>12
    DEF Next

-----------------------------------------------------------------------------
(* Every Deployment was written from a version of its resource that its    *)
(* controller accepts, and every program has read such a Deployment.       *)
THEOREM InductiveInvariant == Spec => []IInv
  <1>1. QED
    BY InitInv, StepInv, PTL DEF Spec

(* Children exist only of resources and programs only of Deployments,      *)
(* whatever users delete (SetControllerReference).                         *)
THEOREM TypeCorrect == Spec => []TypeOK
  <1>1. IInv => TypeOK
    BY DEF IInv
  <1>2. QED
    BY <1>1, InductiveInvariant, PTL

(* The controller's default for a target and the component's are the same. *)
LEMMA TargetsAgree ==
    ASSUME NEW target \in Seq(STRING)
    PROVE  GetTargetParts(target) = validateTarget(target)
  <1>1. CASE Len(target) = 1
    <2>1. target[1] \in STRING
      BY <1>1
    <2>2. Append(target, target[1]) = <<target[1], target[1]>>
      BY <1>1, <2>1, AppendToOne
    <2>3. QED
      BY <1>1, <2>2 DEF GetTargetParts, validateTarget
  <1>2. CASE Len(target) # 1
    BY <1>2 DEF GetTargetParts, validateTarget
  <1>3. QED
    BY <1>1, <1>2

(* A list that is not empty has a first member.                            *)
LEMMA FirstMember ==
    ASSUME NEW S, NEW s \in Seq(S), s # <<>>
    PROVE  s[1] \in S
  <1>1. Len(s) # 0 /\ Len(s) \in Nat
    OBVIOUS
  <1>2. QED
    BY <1>1

(* A running channel has the source, the filter and the targets that a     *)
(* version of its resource asks for and, without a trigger, its projection *)
(* (createChanDeployment, and main of the channel component).              *)
THEOREM ChannelsAsAsked == Spec => []ChannelIsAsAsked
  <1>1. ASSUME IInv PROVE ChannelIsAsAsked
    <2>1. SUFFICES ASSUME NEW c \in Channels, process[c] # None
                   PROVE  \E s \in seen[c] :
                            /\ process[c].route = s.from[1]
                            /\ process[c].filterProg = s.where
                            /\ s.trigger = "" => process[c].dataProg = s.select
                            /\ \A t \in {"stream", "component"} :
                                process[c][t] = validateTarget(s.to[1][t])
      BY DEF ChannelIsAsAsked
    <2>2. PICK s \in seen[c] :
              Accepts(s) /\ process[c] = ChannelConfig(createChanDeployment(s))
      BY <1>1, <2>1 DEF IInv, Read
    <2>3. s \in ChannelSpec
      BY <1>1, SpecsAssumption DEF IInv, TypeOK, Names
    <2>4. /\ s.to # <<>> /\ s.to \in Seq([stream : Seq(STRING), component : Seq(STRING)])
      BY <2>2, <2>3 DEF Accepts, Panics, ChannelSpec
    <2>5. s.to[1] \in [stream : Seq(STRING), component : Seq(STRING)]
      BY <2>4, FirstMember
    <2> DEFINE env == createChanDeployment(s)
    <2>a. /\ env.CHANNEL_STREAM_FROM = s.from[1]
          /\ env.CHANNEL_STREAM_WHERE = s.where
          /\ env.CHANNEL_STREAM_SELECT = s.select
          /\ env.CHANNEL_AGGREGATE_TRIGGER = s.trigger
          /\ env.CHANNEL_STREAM_TO_STREAM = s.to[1].stream
          /\ env.CHANNEL_STREAM_TO_COMPONENT = s.to[1].component
      BY DEF createChanDeployment
    <2> HIDE DEF env
    <2>b. process[c] = ChannelConfig(env)
      BY <2>2 DEF env
    <2>6. /\ process[c].route = s.from[1]
          /\ process[c].filterProg = s.where
          /\ process[c].dataProg = IF s.trigger = "" THEN s.select ELSE s.trigger
          /\ process[c].stream = GetTargetParts(s.to[1].stream)
          /\ process[c].component = GetTargetParts(s.to[1].component)
      <3>1. ChannelConfig(env).route = s.from[1] /\ ChannelConfig(env).filterProg = s.where
        BY <2>a DEF ChannelConfig
      <3>2. ChannelConfig(env).dataProg = IF s.trigger = "" THEN s.select ELSE s.trigger
        BY <2>a DEF ChannelConfig
      <3>3. /\ ChannelConfig(env).stream = GetTargetParts(s.to[1].stream)
            /\ ChannelConfig(env).component = GetTargetParts(s.to[1].component)
        BY <2>a DEF ChannelConfig
      <3>4. QED
        BY <2>b, <3>1, <3>2, <3>3
    <2>7. /\ process[c].stream = validateTarget(s.to[1].stream)
          /\ process[c].component = validateTarget(s.to[1].component)
      BY <2>5, <2>6, TargetsAgree
    <2>8. QED
      BY <2>6, <2>7
  <1>2. QED
    BY <1>1, InductiveInvariant, PTL

(* A running processor serves the route its resource gives it and has its  *)
(* user's other variables (createProcessorDeployment).                     *)
THEOREM ProcessorsAsAsked == Spec => []ProcessorIsAsAsked
  <1>1. ASSUME IInv PROVE ProcessorIsAsAsked
    <2>1. SUFFICES ASSUME NEW p \in Processors, process[p] # None
                   PROVE  \E s \in seen[p] :
                            /\ RouteOf(p) = (IF s.serviceRoute = "" THEN p ELSE s.serviceRoute)
                            /\ \A v \in DOMAIN s.env \ {"PROC_SERVICE_ROUTE", "PROC_TARGET"} :
                                v \in DOMAIN process[p] /\ process[p][v] = s.env[v]
      BY DEF ProcessorIsAsAsked
    <2>2. PICK s \in seen[p] : process[p] = createProcessorDeployment(p, s)
      BY <1>1, <2>1 DEF IInv, Read
    <2>3. p \notin Channels
      BY KindsAssumption
    <2>4. process[p].PROC_SERVICE_ROUTE = IF s.serviceRoute = "" THEN p ELSE s.serviceRoute
      BY <2>2 DEF createProcessorDeployment, Appended, ProcVariables
    <2>5. \A v \in DOMAIN s.env \ {"PROC_SERVICE_ROUTE", "PROC_TARGET"} :
              v \in DOMAIN process[p] /\ process[p][v] = s.env[v]
      BY <2>2 DEF createProcessorDeployment, Appended, ProcVariables
    <2>6. QED
      BY <2>3, <2>4, <2>5 DEF RouteOf
  <1>2. QED
    BY <1>1, InductiveInvariant, PTL
=============================================================================
