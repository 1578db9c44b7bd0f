------------------------- MODULE JoinerSetupProofs -------------------------
(***************************************************************************)
(* For all Joiners, Streams and specs: the configuration a joiner runs     *)
(* with is the one its resource asks for.                                  *)
(***************************************************************************)
EXTENDS JoinerSetup, TLAPS

(***************************************************************************)
(* Targets.                                                                *)
(***************************************************************************)

\* One part, no part, or several.
LEMMA Singleton ==
    ASSUME NEW t \in Seq(STRING), Len(t) = 1
    PROVE  /\ t[1] \in STRING
           /\ <<t[1], t[1]>> \in Seq(STRING)
           /\ Len(<<t[1], t[1]>>) = 2
  <1>1. t[1] \in STRING
    OBVIOUS
  <1> QED
    BY <1>1

(* The operator's default route and the component's agree, so that a       *)
(* target has no parts or at least two, as startOutputLoop needs           *)
(* (helper.go:17-26, support.go:13-27).                                    *)
LEMMA Routing ==
    ASSUME NEW t \in Seq(STRING)
    PROVE  /\ validateTarget(t) \in Seq(STRING)
           /\ GetTargetParts(validateTarget(t)) \in Seq(STRING)
           /\ Routed(t, GetTargetParts(validateTarget(t)))
           /\ Len(GetTargetParts(validateTarget(t))) # 1
  <1>1. CASE Len(t) = 1
    <2>1. validateTarget(t) = <<t[1], t[1]>>
      BY <1>1 DEF validateTarget
    <2>2. GetTargetParts(<<t[1], t[1]>>) = <<t[1], t[1]>>
      BY <1>1, Singleton DEF GetTargetParts
    <2> QED
      BY <1>1, <2>1, <2>2, Singleton DEF Routed
  <1>2. CASE Len(t) # 1
    BY <1>2 DEF Routed, GetTargetParts, validateTarget
  <1> QED
    BY <1>1, <1>2

(* What the component makes of any target is a list of strings.            *)
LEMMA PartsType ==
    ASSUME NEW t \in Seq(STRING)
    PROVE  GetTargetParts(t) \in Seq(STRING)
  <1>1. CASE Len(t) = 1
    <2>1. Append(t, t[1]) \in Seq(STRING)
      BY <1>1, Singleton
    <2> QED
      BY <1>1, <2>1 DEF GetTargetParts
  <1>2. CASE Len(t) # 1
    BY <1>2 DEF GetTargetParts
  <1> QED
    BY <1>1, <1>2

-----------------------------------------------------------------------------
(***************************************************************************)
(* The work queue.                                                         *)
(***************************************************************************)

OnceEach(q) == \A i, k \in DOMAIN q : i # k => q[i] # q[k]

(* Adding a name keeps the names different (client-go's Add).              *)
LEMMA EnqueueOnce ==
    ASSUME NEW j \in JoinerSet, queue \in Seq(JoinerSet), OnceEach(queue)
    PROVE  Enqueue(j) \in Seq(JoinerSet) /\ OnceEach(Enqueue(j))
  BY DEF Enqueue, OnceEach

(* And so does taking the first.                                           *)
LEMMA TailOnce ==
    ASSUME NEW q \in Seq(JoinerSet), OnceEach(q), q # <<>>
    PROVE  /\ Tail(q) \in Seq(JoinerSet)
           /\ OnceEach(Tail(q))
           /\ Head(q) \in JoinerSet
  BY DEF OnceEach

-----------------------------------------------------------------------------
(***************************************************************************)
(* The environment the controller writes and the component reads.          *)
(***************************************************************************)

(* A spec that is not rejected has what Env takes from it.                 *)
LEMMA Acceptable ==
    ASSUME TypeOK, NEW j \in JoinerSet, ~ Panics(j), ~ Rejects(j)
    PROVE  /\ SpecOf[j] \in JoinerSpec
           /\ To(j)[1] \in [stream : Seq(STRING), component : Seq(STRING)]
           /\ \A i \in 1..2 : /\ From(j)[i] \in Streams
                              /\ streams[From(j)[i]] \in StreamSpec
                              /\ streams[From(j)[i]] # None
  <1>1. j \in DOMAIN SpecOf /\ SpecOf[j] \in JoinerSpec
    BY JoinersAssumption DEF JoinerSet
  <1>2. To(j) \in Seq([stream : Seq(STRING), component : Seq(STRING)])
    BY <1>1 DEF JoinerSpec, To
  <1>3. From(j) \in Seq(Streams) /\ Len(From(j)) = 2
    BY <1>1 DEF JoinerSpec, From, Rejects, BadFrom
  <1>4. Len(To(j)) # 0
    BY <1>2, <1>3 DEF Panics, BadFrom
  <1>5. To(j)[1] \in [stream : Seq(STRING), component : Seq(STRING)]
    <2>1. \A T : To(j) \in Seq(T) => To(j)[1] \in T
      BY <1>4
    <2> QED
      BY <1>2, <2>1
  <1>6. ASSUME NEW i \in 1..2
        PROVE  From(j)[i] \in Streams /\ streams[From(j)[i]] # None
    BY <1>3 DEF Rejects, StreamMissing
  <1>7. ASSUME NEW i \in 1..2
        PROVE  streams[From(j)[i]] \in StreamSpec
    BY <1>6 DEF TypeOK
  <1> QED
    BY <1>1, <1>5, <1>6, <1>7

(* Stream information is a triple of strings (collateStreamInfo).          *)
LEMMA InfoType ==
    ASSUME NEW s \in StreamSpec
    PROVE  /\ StreamInfo(s) \in [1..3 -> STRING]
           /\ StreamInfo(s)[1] = s.clusterStream
           /\ StreamInfo(s)[2] = s.topic
  <1>1. /\ s.clusterStream \in STRING /\ s.topic \in STRING /\ s.route \in STRING
    BY DEF StreamSpec
  <1> DEFINE route == IF s.route = "" THEN s.topic ELSE s.route
  <1>2. route \in STRING
    BY <1>1
  <1>3. StreamInfo(s) = <<s.clusterStream, s.topic, route>>
    BY DEF StreamInfo
  <1> HIDE DEF route
  <1> QED
    BY <1>1, <1>2, <1>3

(* The controller's environment is well typed.                             *)
LEMMA EnvType ==
    ASSUME TypeOK, NEW j \in JoinerSet, ~ Panics(j), ~ Rejects(j)
    PROVE  Env(j) \in Environment
  <1>1. /\ SpecOf[j].where \in Seq(STRING) /\ SpecOf[j].select \in Seq(STRING)
        /\ SpecOf[j].window \in Seq(STRING)
    BY Acceptable DEF JoinerSpec
  <1>2. /\ validateTarget(To(j)[1].stream) \in Seq(STRING)
        /\ validateTarget(To(j)[1].component) \in Seq(STRING)
    BY Acceptable, Routing
  <1>3. \A i \in 1..2 : StreamInfo(streams[From(j)[i]]) \in [1..3 -> STRING]
    BY InfoType, Acceptable
  <1> QED
    BY <1>1, <1>2, <1>3 DEF Env, Environment

(* So is the configuration the component makes of it (main).               *)
LEMMA ConfigType ==
    ASSUME NEW env \in Environment
    PROVE  Config(env) \in Configuration
  <1>1. Filter(env) \in Seq(STRING)
    BY DEF Filter, Getenv, Environment
  <1>2. /\ Getenv(env, "JOINER_STREAM_TO_COMPONENT") \in Seq(STRING)
        /\ Getenv(env, "JOINER_STREAM_TO_STREAM") \in Seq(STRING)
    BY DEF Getenv, Environment
  <1>3. /\ Getenv(env, "JOINER_STREAM_FROM_0") \in [1..3 -> STRING]
        /\ Getenv(env, "JOINER_STREAM_FROM_1") \in [1..3 -> STRING]
    BY DEF Getenv, Environment
  <1>4. \A info \in [1..3 -> STRING] :
          getSubscription(info) \in [pubsub : STRING, topic : STRING, route : STRING]
    BY DEF getSubscription
  <1> QED
    BY <1>1, <1>2, <1>3, <1>4, PartsType DEF Config, Configuration

-----------------------------------------------------------------------------
(***************************************************************************)
(* Types.                                                                  *)
(***************************************************************************)

(* A manager that starts queues each Joiner there is once.                 *)
LEMMA ListedOnce ==
    ASSUME NEW there \in SUBSET JoinerSet
    PROVE  Listing[there] \in Seq(JoinerSet) /\ OnceEach(Listing[there])
  <1>1. Listing[there] \in Seq(there)
    BY ListingAssumption
  <1>2. \A q \in Seq(there) : q \in Seq(JoinerSet)
    OBVIOUS
  <1> QED
    BY <1>1, <1>2, ListingAssumption DEF OnceEach

(* The initial state is well typed.                                        *)
LEMMA InitType == Init => TypeOK
  <1> SUFFICES ASSUME Init PROVE TypeOK
    OBVIOUS
  <1>1. changes \in 0..MaxChanges
    BY JoinersAssumption DEF Init
  <1>2. queue \in Seq(JoinerSet) /\ OnceEach(queue)
    BY ListedOnce DEF Init
  <1>3. \A j \in JoinerSet : pod[j] = "none" /\ process[j] = None
    BY DEF Init
  <1> QED
    BY <1>1, <1>2, <1>3 DEF Init, TypeOK, OnceEach

(* And every step keeps it so.                                             *)
LEMMA NextType == TypeOK /\ [Next]_vars => TypeOK'
  <1> SUFFICES ASSUME TypeOK, [Next]_vars PROVE TypeOK'
    OBVIOUS
  <1> USE DEF clusterVars, managerVars, podVars
  <1>0. queue \in Seq(JoinerSet) /\ OnceEach(queue)
    BY DEF TypeOK, OnceEach
  <1>1. ASSUME NEW n \in Streams, ChangeStream(n) PROVE TypeOK'
    <2>1. changes' \in 0..MaxChanges
      BY <1>1, JoinersAssumption DEF ChangeStream, TypeOK
    <2>2. PICK s \in StreamSpecs[n] \cup {None} :
            /\ streams' = [streams EXCEPT ![n] = s]
            /\ seen' = [seen EXCEPT ![n] = @ \cup ({s} \ {None})]
      BY <1>1 DEF ChangeStream
    <2>3. s \in StreamSpec \cup {None}
      BY <2>2, StreamsAssumption
    <2>4. /\ streams' \in [Streams -> StreamSpec \cup {None}]
          /\ seen' \in [Streams -> SUBSET StreamSpec]
      BY <2>2, <2>3 DEF TypeOK
    <2> QED
      BY <1>1, <2>1, <2>4 DEF ChangeStream, TypeOK
  <1>2. ASSUME NEW j \in JoinerSet, Worker(j)
        PROVE  Tail(queue) \in Seq(JoinerSet) /\ OnceEach(Tail(queue))
    BY <1>0, <1>2, TailOnce DEF Worker
  <1>3. ASSUME NEW j \in JoinerSet, Settled(j) PROVE TypeOK'
    BY <1>2, <1>3 DEF Settled, TypeOK, OnceEach
  <1>4. ASSUME NEW j \in JoinerSet, Deploy(j) PROVE TypeOK'
    <2>1. Env(j) \in Environment /\ Env(j) # None
      BY <1>4, EnvType, NoneAssumption DEF Deploy
    <2>2. deployment' \in [JoinerSet -> Environment \cup {None}]
      BY <1>4, <2>1 DEF Deploy, TypeOK
    <2>3. \A k \in JoinerSet : pod[k] # "none" => deployment'[k] # None
      BY <1>4, <2>1 DEF Deploy, TypeOK
    <2> QED
      BY <1>2, <1>4, <2>2, <2>3 DEF Deploy, TypeOK, OnceEach
  <1>5. ASSUME NEW j \in JoinerSet, Reject(j) PROVE TypeOK'
    BY <1>2, <1>5 DEF Reject, TypeOK, OnceEach
  <1>6. ASSUME NEW j \in JoinerSet, Panic(j) PROVE TypeOK'
    BY <1>6 DEF Panic, TypeOK
  <1>7. ASSUME NEW j \in JoinerSet, Requeue(j) PROVE TypeOK'
    <2>1. queue' \in Seq(JoinerSet) /\ OnceEach(queue')
      BY <1>0, <1>7, EnqueueOnce DEF Requeue
    <2> QED
      BY <1>7, <2>1 DEF Requeue, TypeOK, OnceEach
  <1>8. ASSUME NEW j \in JoinerSet, DeploymentEvent(j) PROVE TypeOK'
    <2>1. queue' \in Seq(JoinerSet) /\ OnceEach(queue')
      BY <1>0, <1>8, EnqueueOnce DEF DeploymentEvent
    <2> QED
      BY <1>8, <2>1 DEF DeploymentEvent, TypeOK, OnceEach
  <1>9. CASE RestartManager
    <2>1. Listing[present] \in Seq(JoinerSet) /\ OnceEach(Listing[present])
      BY ListedOnce DEF TypeOK
    <2> QED
      BY <1>9, <2>1 DEF RestartManager, TypeOK, OnceEach
  <1>10. ASSUME NEW j \in JoinerSet, Start(j) PROVE TypeOK'
    <2>1. deployment[j] \in Environment
      BY <1>10 DEF Start, TypeOK
    <2>2. CASE Fatal(deployment[j])
      BY <1>10, <2>2 DEF Start, TypeOK
    <2>3. CASE ~ Fatal(deployment[j])
      <3>1. Config(deployment[j]) \in Configuration /\ Config(deployment[j]) # None
        BY <2>1, ConfigType, NoneAssumption
      <3> DEFINE c == Config(deployment[j])
      <3> HIDE DEF c
      <3>2. /\ process' = [process EXCEPT ![j] = c] /\ c \in Configuration /\ c # None
            /\ pod' = [pod EXCEPT ![j] = "running"]
            /\ UNCHANGED <<clusterVars, managerVars, deployment>>
        BY <1>10, <2>3, <3>1 DEF Start, c
      <3> QED
        BY <2>1, <3>2, NoneAssumption DEF TypeOK
    <2> QED
      BY <2>2, <2>3
  <1>11. ASSUME NEW j \in JoinerSet, Kill(j) PROVE TypeOK'
    BY <1>11 DEF Kill, TypeOK
  <1>12. ASSUME NEW j \in JoinerSet, Event(j)
         PROVE  queue' \in Seq(JoinerSet) /\ OnceEach(queue')
    BY <1>0, <1>12, EnqueueOnce DEF Event
  <1>13. ASSUME NEW j \in JoinerSet, Withdraw(j) PROVE TypeOK'
    BY <1>12, <1>13 DEF Withdraw, TypeOK, OnceEach
  <1>14. ASSUME NEW j \in JoinerSet, Collect(j) PROVE TypeOK'
    BY <1>12, <1>14 DEF Collect, TypeOK, OnceEach
  <1>15. ASSUME NEW j \in JoinerSet, Absent(j) PROVE TypeOK'
    BY <1>2, <1>15 DEF Absent, TypeOK, OnceEach
  <1>16. CASE UNCHANGED vars
    BY <1>16 DEF vars, TypeOK
  <1> QED
    BY <1>1, <1>3, <1>4, <1>5, <1>6, <1>7, <1>8, <1>9, <1>10, <1>11, <1>13,
       <1>14, <1>15, <1>16 DEF Next

(* Every reachable state is well typed: the work queue holds a Joiner once *)
(* and a running joiner has a configuration.                               *)
THEOREM TypeCorrect == Spec => []TypeOK
  BY InitType, NextType, PTL DEF Spec

-----------------------------------------------------------------------------
(***************************************************************************)
(* Configurations are derived from resources.                              *)
(***************************************************************************)

\* A Deployment has the Joiner's targets and versions of its Streams.
Written(j, env) ==
    /\ env.JOINER_STREAM_TO_COMPONENT = validateTarget(To(j)[1].component)
    /\ env.JOINER_STREAM_TO_STREAM = validateTarget(To(j)[1].stream)
    /\ To(j)[1] \in [stream : Seq(STRING), component : Seq(STRING)]
    /\ \E s \in seen[From(j)[1]] : env.JOINER_STREAM_FROM_0 = StreamInfo(s)
    /\ \E s \in seen[From(j)[2]] : env.JOINER_STREAM_FROM_1 = StreamInfo(s)
    /\ \A i \in 1..2 : From(j)[i] \in Streams

\* A running joiner has what its Deployment says.
Derived ==
    /\ \A n \in Streams : streams[n] # None => streams[n] \in seen[n]
    /\ \A j \in JoinerSet :
        /\ deployment[j] # None => Written(j, deployment[j])
        /\ pod[j] = "running" => process[j] = Config(deployment[j])

IInv == TypeOK /\ Derived

(* What Deploy writes is Written.                                          *)
LEMMA EnvWritten ==
    ASSUME IInv, NEW j \in JoinerSet, ~ Panics(j), ~ Rejects(j)
    PROVE  Written(j, Env(j))
  <1>1. TypeOK /\ Derived
    BY DEF IInv
  <1>2. \A i \in 1..2 : /\ From(j)[i] \in Streams
                        /\ streams[From(j)[i]] \in seen[From(j)[i]]
    BY <1>1, Acceptable DEF Derived
  <1>3. To(j)[1] \in [stream : Seq(STRING), component : Seq(STRING)]
    BY <1>1, Acceptable
  <1> QED
    BY <1>2, <1>3 DEF Env, Written

(* Nothing is deployed at first.                                           *)
LEMMA InitDerived == Init => Derived
  BY DEF Init, Derived

(* A step that writes a Deployment writes it from its Joiner; the versions *)
(* a Stream has had are never forgotten.                                   *)
LEMMA NextDerived == IInv /\ [Next]_vars => Derived'
  <1> SUFFICES ASSUME IInv, [Next]_vars PROVE Derived'
    OBVIOUS
  <1> USE DEF clusterVars, managerVars, podVars
  <1>0. TypeOK /\ Derived
    BY DEF IInv
  <1>1. ASSUME NEW n \in Streams, ChangeStream(n) PROVE Derived'
    <2>1. PICK s \in StreamSpecs[n] \cup {None} :
            /\ streams' = [streams EXCEPT ![n] = s]
            /\ seen' = [seen EXCEPT ![n] = @ \cup ({s} \ {None})]
      BY <1>1 DEF ChangeStream
    <2>2. \A m \in Streams : seen[m] \subseteq seen'[m]
      BY <1>0, <2>1 DEF TypeOK
    <2>3. \A m \in Streams : streams'[m] # None => streams'[m] \in seen'[m]
      BY <1>0, <2>1 DEF TypeOK, Derived
    <2>4. UNCHANGED <<deployment, pod, process>>
      BY <1>1 DEF ChangeStream
    <2>5. ASSUME NEW j \in JoinerSet, deployment'[j] # None
          PROVE  Written(j, deployment[j])'
      <3>1. Written(j, deployment[j])
        BY <1>0, <2>4, <2>5 DEF Derived
      <3> QED
        BY <2>2, <2>4, <3>1 DEF Written, To, From
    <2> QED
      BY <1>0, <2>3, <2>4, <2>5 DEF Derived, Config, Getenv, Filter
  <1>2. ASSUME NEW j \in JoinerSet, Deploy(j) PROVE Derived'
    <2>1. Written(j, Env(j))
      BY <1>2, EnvWritten DEF Deploy
    <2>2. /\ deployment[j] = None
          /\ deployment' = [deployment EXCEPT ![j] = Env(j)]
          /\ UNCHANGED <<clusterVars, podVars>>
      BY <1>2 DEF Deploy
    <2>3. pod[j] = "none"
      BY <1>0, <2>2 DEF TypeOK
    <2> DEFINE env == Env(j)
    <2> HIDE DEF env
    <2>4. ASSUME NEW k \in JoinerSet, deployment'[k] # None
          PROVE  Written(k, deployment[k])'
      <3>1. CASE k = j
        <4>1. deployment'[k] = Env(j)
          BY <1>0, <2>2, <3>1 DEF TypeOK
        <4>2. Written(k, deployment'[k])
          BY <2>1, <3>1, <4>1
        <4> QED
          BY <2>2, <4>2 DEF Written, To, From
      <3>2. CASE k # j
        <4>1. deployment'[k] = deployment[k]
          BY <1>0, <2>2, <3>2 DEF TypeOK
        <4>2. Written(k, deployment[k])
          BY <1>0, <2>4, <4>1 DEF Derived
        <4> QED
          BY <2>2, <4>1, <4>2 DEF Written, To, From
      <3> QED
        BY <3>1, <3>2
    <2>5. ASSUME NEW k \in JoinerSet, pod'[k] = "running"
          PROVE  process'[k] = Config(deployment'[k])
      <3>1. k # j /\ pod[k] = "running" /\ process'[k] = process[k]
        BY <2>2, <2>3, <2>5
      <3>2. deployment'[k] = deployment[k]
        BY <1>0, <2>2, <3>1 DEF TypeOK
      <3> QED
        BY <1>0, <3>1, <3>2 DEF Derived
    <2> QED
      BY <1>0, <2>2, <2>4, <2>5 DEF Derived
  <1>3. ASSUME NEW j \in JoinerSet, Start(j) PROVE Derived'
    <2>1. /\ deployment[j] # None /\ UNCHANGED <<streams, seen, deployment>>
          /\ \/ pod' = [pod EXCEPT ![j] = "failed"] /\ UNCHANGED process
             \/ /\ pod' = [pod EXCEPT ![j] = "running"]
                /\ process' = [process EXCEPT ![j] = Config(deployment[j])]
      BY <1>3 DEF Start
    <2>2. ASSUME NEW k \in JoinerSet, pod'[k] = "running"
          PROVE  process'[k] = Config(deployment'[k])
      BY <1>0, <2>1, <2>2 DEF Derived, TypeOK
    <2> QED
      BY <1>0, <2>1, <2>2 DEF Derived, Written
  <1>4. ASSUME NEW j \in JoinerSet, Kill(j) PROVE Derived'
    BY <1>0, <1>4 DEF Kill, Derived, TypeOK, Written
  <1>5. ASSUME NEW j \in JoinerSet, Collect(j) PROVE Derived'
    <2>1. /\ UNCHANGED <<streams, seen>>
          /\ \A k \in JoinerSet : deployment'[k] # None =>
                /\ deployment'[k] = deployment[k]
                /\ pod'[k] = pod[k] /\ process'[k] = process[k]
          /\ \A k \in JoinerSet : pod'[k] = "running" => deployment'[k] # None
      BY <1>0, <1>5 DEF Collect, TypeOK
    <2> QED
      BY <1>0, <2>1 DEF Derived, Written, To, From
  <1>6. CASE UNCHANGED <<streams, seen, deployment, podVars>>
    BY <1>0, <1>6 DEF Derived, Written
  <1> QED
    BY <1>1, <1>2, <1>3, <1>4, <1>5, <1>6
       DEF Next, vars, Withdraw, Absent, Settled, Reject, Panic, Requeue,
           DeploymentEvent, RestartManager

(* The invariant: every Deployment was written from its Joiner and from    *)
(* versions of the Streams it names, every process from its Deployment.    *)
THEOREM InductiveInvariant == Spec => []IInv
  <1>1. Init => IInv
    BY InitType, InitDerived DEF IInv
  <1>2. IInv /\ [Next]_vars => IInv'
    BY NextType, NextDerived DEF IInv
  <1> QED
    BY <1>1, <1>2, PTL DEF Spec

(* A running joiner sends to the targets its resource names.               *)
THEOREM Routes == Spec => []RoutesAsSpecified
  <1>1. ASSUME IInv, NEW j \in JoinerSet, pod[j] = "running"
        PROVE  /\ Routed(To(j)[1].component, process[j].component)
               /\ Routed(To(j)[1].stream, process[j].stream)
    <2> DEFINE env == deployment[j]
    <2>1. env \in Environment /\ process[j] = Config(env) /\ Written(j, env)
      BY <1>1 DEF IInv, TypeOK, Derived
    <2>2. /\ process[j].component = GetTargetParts(env.JOINER_STREAM_TO_COMPONENT)
          /\ process[j].stream = GetTargetParts(env.JOINER_STREAM_TO_STREAM)
      BY <2>1 DEF Config, Getenv, Environment
    <2>3. To(j)[1].component \in Seq(STRING) /\ To(j)[1].stream \in Seq(STRING)
      BY <2>1 DEF Written
    <2> QED
      BY <2>1, <2>2, <2>3, Routing DEF Written
  <1>2. IInv => RoutesAsSpecified
    BY <1>1 DEF RoutesAsSpecified
  <1> QED
    BY <1>2, InductiveInvariant, PTL

(* It subscribes to topics the Streams it names have had, in that order.   *)
THEOREM Subscribes == Spec => []SubscribesToNamed
  <1>1. ASSUME IInv, NEW j \in JoinerSet, pod[j] = "running", NEW i \in 1..2
        PROVE  \E s \in seen[From(j)[i]] :
                 /\ process[j].subscriptions[i].pubsub = s.clusterStream
                 /\ process[j].subscriptions[i].topic = s.topic
    <2> DEFINE env  == deployment[j]
               info == IF i = 1 THEN env.JOINER_STREAM_FROM_0
                                ELSE env.JOINER_STREAM_FROM_1
    <2>1. env \in Environment /\ process[j] = Config(env) /\ Written(j, env)
      BY <1>1 DEF IInv, TypeOK, Derived
    <2>2. process[j].subscriptions[i] = getSubscription(info)
      BY <2>1 DEF Config, Getenv, Environment
    <2>3. PICK s \in seen[From(j)[i]] : info = StreamInfo(s)
      BY <2>1 DEF Written
    <2>4. From(j)[i] \in Streams
      BY <2>1 DEF Written
    <2>5. s \in StreamSpec
      BY <1>1, <2>3, <2>4 DEF IInv, TypeOK
    <2> QED
      BY <2>2, <2>3, <2>5, InfoType DEF getSubscription
  <1>2. IInv => SubscribesToNamed
    BY <1>1 DEF SubscribesToNamed
  <1> QED
    BY <1>2, InductiveInvariant, PTL
=============================================================================
