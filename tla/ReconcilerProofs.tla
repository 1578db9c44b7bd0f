-------------------------- MODULE ReconcilerProofs --------------------------
(***************************************************************************)
(* Proofs about Reconciler, for all resources, operations of users, lags   *)
(* of the caches and crashes of the manager: a child is made of one        *)
(* version of its owner and is never overwritten.                          *)
(***************************************************************************)
EXTENDS Reconciler, LinesProofs

\* v, a copy of the resource o or a child made of it, is of a version that o
\* has had: in its present life and not ahead of it, or in an earlier one.
Past(o, v) ==
    /\ v.uid <= v.spec /\ v.spec <= ops
    /\ store[o] # None =>
          IF v.uid = store[o].uid THEN v.spec <= store[o].spec
                                  ELSE v.spec < store[o].uid

\* Wherever a version of a resource can be: in the API server, on its way to
\* the cache, in it, in a worker's hands, and in a child.
Versions ==
    /\ \A o \in Owners : store[o] # None => Past(o, store[o])
    /\ \A o \in Owners : cache[o] # None => Past(o, cache[o])
    /\ \A o \in Owners : \A i \in DOMAIN watch[o] :
          watch[o][i] # None => Past(o, watch[o][i])
    /\ \A k \in Kinds : work[k] # None => Past(work[k].owner, work[k].object)
    /\ \A c \in Children : store[c] # None => Past(store[c].owner, store[c])

IInv == TypeOK /\ Versions

\* The part of TypeOK that a write can disturb.
StoreTypes ==
    /\ DOMAIN store = Objects /\ DOMAIN watch = Objects
    /\ \A x \in Objects :
        /\ store[x] \in ObjectsOf(x) \cup {None}
        /\ watch[x] \in Seq(ObjectsOf(x) \cup {None})
        /\ Len(watch[x]) <= MaxLag
        /\ manager = "down" => watch[x] = <<>>

\* The rest of it.
CacheTypes ==
    /\ DOMAIN cache = Objects
    /\ \A x \in Objects : cache[x] \in ObjectsOf(x) \cup {None}

WorkTypes ==
    /\ manager \in {"up", "down"}
    /\ queue \subseteq Owners /\ backoff \subseteq Owners
    /\ work \in [Kinds -> [owner : Owners, object : Resource,
                           step : {"find", "create", "status"}] \cup {None}]
    /\ \A k \in Kinds : work[k] # None => manager = "up" /\ work[k].owner.kind = k
    /\ manager = "down" => queue \cup backoff = {}

Counts == ops \in 0..MaxOps /\ crashes \in 0..MaxCrashes

-----------------------------------------------------------------------------
(***************************************************************************)
(* Types.                                                                  *)
(***************************************************************************)

(* TypeOK in parts.                                                        *)
LEMMA TypeParts ==
    /\ TypeOK <=> StoreTypes /\ CacheTypes /\ WorkTypes /\ Counts
    /\ TypeOK' <=> StoreTypes' /\ CacheTypes' /\ WorkTypes' /\ Counts'
  BY DEF TypeOK, StoreTypes, CacheTypes, WorkTypes, Counts

(* The objects: resources and children.                                    *)
LEMMA ObjectTypes ==
    /\ Owners \subseteq Objects /\ Children \subseteq Objects
    /\ \A o \in Owners : ObjectsOf(o) = Resource /\ o.kind \in Kinds /\ ChildOf(o) \in Children
    /\ \A c \in Children : ObjectsOf(c) = Child /\ c \notin Owners
  BY OwnersAssumption DEF Objects, ObjectsOf, Kinds, Children

(* Writing an object of the right type.                                    *)
LEMMA WriteType ==
    ASSUME StoreTypes, NEW x \in Objects, NEW v \in ObjectsOf(x) \cup {None}, Write(x, v),
           manager' = manager
    PROVE  StoreTypes'
  <1>1. Append(watch[x], v) \in Seq(ObjectsOf(x) \cup {None})
        /\ Len(Append(watch[x], v)) = Len(watch[x]) + 1
    BY AppendList DEF StoreTypes
  <1>2. Len(watch[x]) \in Nat /\ Len(watch[x]) + 1 <= MaxLag
    BY BoundsAssumption DEF StoreTypes, Write
  <1>3. DOMAIN store' = Objects /\ DOMAIN watch' = Objects
    BY DEF StoreTypes, Write
  <1>4. \A y \in Objects : store'[y] \in ObjectsOf(y) \cup {None}
    BY DEF StoreTypes, Write
  <1>5. \A y \in Objects : /\ watch'[y] \in Seq(ObjectsOf(y) \cup {None})
                           /\ Len(watch'[y]) <= MaxLag
                           /\ manager' = "down" => watch'[y] = <<>>
    BY <1>1, <1>2 DEF StoreTypes, Write
  <1>6. QED
    BY <1>3, <1>4, <1>5 DEF StoreTypes, ObjectsOf, Resource, Child, Status

(* The initial state is well typed.                                        *)
LEMMA InitType == Init => TypeOK
  BY BoundsAssumption DEF Init, TypeOK

(* A user's operation is one more.                                         *)
LEMMA OperateType ==
    ASSUME CacheTypes, WorkTypes, Counts, Operate
    PROVE  CacheTypes' /\ WorkTypes' /\ Counts' /\ ops' \in 1..MaxOps /\ manager' = manager
  BY BoundsAssumption DEF CacheTypes, WorkTypes, Counts, Operate, managerVars

(* A worker is done with a resource.                                       *)
LEMMA DoneType ==
    ASSUME CacheTypes, WorkTypes, Counts, NEW o \in Owners, Done(o),
           work[o.kind] # None, backoff' \in {backoff, backoff \cup {o}}
    PROVE  CacheTypes' /\ WorkTypes' /\ Counts' /\ manager' = manager
  <1>1. o.kind \in Kinds /\ manager = "up"
    BY ObjectTypes DEF WorkTypes
  <1>2. WorkTypes'
    BY <1>1 DEF WorkTypes, Done
  <1>3. CacheTypes' /\ Counts' /\ manager' = manager
    BY DEF CacheTypes, Counts, Done
  <1>4. QED
    BY <1>2, <1>3

(* What a worker holds.                                                    *)
LEMMA WorkingType ==
    ASSUME WorkTypes, NEW o \in Owners, NEW step, Working(o, step)
    PROVE  /\ o.kind \in Kinds /\ manager = "up"
           /\ work[o.kind] \in [owner : Owners, object : Resource,
                                step : {"find", "create", "status"}]
           /\ work[o.kind].owner = o /\ work[o.kind].object \in Resource
  BY ObjectTypes DEF WorkTypes, Working

(* A step that leaves the API server and the events alone.                 *)
LEMMA StoreFrame == StoreTypes /\ UNCHANGED <<store, watch, manager>> => StoreTypes'
  BY DEF StoreTypes

(* A step that leaves the manager and the counts alone.                    *)
LEMMA WorkFrame ==
    WorkTypes /\ Counts /\ CacheTypes /\ UNCHANGED <<cache, managerVars, ops, crashes>>
        => WorkTypes' /\ Counts' /\ CacheTypes' /\ manager' = manager
  BY DEF WorkTypes, Counts, CacheTypes, managerVars

(* Every step keeps the types.                                             *)
LEMMA StepType == TypeOK /\ [Next]_vars => TypeOK'
  <1> SUFFICES ASSUME StoreTypes, CacheTypes, WorkTypes, Counts, [Next]_vars
               PROVE  StoreTypes' /\ CacheTypes' /\ WorkTypes' /\ Counts'
    BY TypeParts
  <1>1. ASSUME NEW o \in Owners, Apply(o)
        PROVE  StoreTypes' /\ CacheTypes' /\ WorkTypes' /\ Counts'
    <2>1. /\ CacheTypes' /\ WorkTypes' /\ Counts'
          /\ ops' \in 1..MaxOps /\ manager' = manager
      BY <1>1, OperateType DEF Apply
    <2>2. o \in Objects /\ store[o] \in Resource \cup {None} /\ ObjectsOf(o) = Resource
      BY ObjectTypes DEF StoreTypes
    <2>3. CASE store[o] = None
      <3>1. [uid |-> ops', spec |-> ops', status |-> NoStatus, deleting |-> FALSE] \in Resource
        BY <2>1, BoundsAssumption DEF Resource, NoStatus, Status
      <3>2. QED
        BY <1>1, <2>1, <2>2, <2>3, <3>1, WriteType DEF Apply
    <2>4. CASE store[o] # None
      <3>1. [store[o] EXCEPT !.spec = ops'] \in Resource
        BY <2>1, <2>2, <2>4 DEF Resource
      <3>2. QED
        BY <1>1, <2>1, <2>2, <2>4, <3>1, WriteType DEF Apply
    <2>5. QED
      BY <2>3, <2>4
  <1>2. ASSUME NEW o \in Owners, Delete(o)
        PROVE  StoreTypes' /\ CacheTypes' /\ WorkTypes' /\ Counts'
    BY <1>2, OperateType, WriteType, ObjectTypes DEF Delete
  <1>3. ASSUME NEW o \in Owners, DeleteForeground(o)
        PROVE  StoreTypes' /\ CacheTypes' /\ WorkTypes' /\ Counts'
    <2>1. o \in Objects /\ ObjectsOf(o) = Resource /\ store[o] \in Resource
      BY <1>3, ObjectTypes DEF StoreTypes, DeleteForeground, Live
    <2>2. [store[o] EXCEPT !.deleting = TRUE] \in Resource
      BY <2>1 DEF Resource
    <2>3. QED
      BY <1>3, <2>1, <2>2, OperateType, WriteType DEF DeleteForeground
  <1>4. ASSUME NEW o \in Owners, Finish(o)
        PROVE  StoreTypes' /\ CacheTypes' /\ WorkTypes' /\ Counts'
    BY <1>4, WorkFrame, WriteType, ObjectTypes DEF Finish
  <1>5. ASSUME NEW o \in Owners, Retry(o)
        PROVE  StoreTypes' /\ CacheTypes' /\ WorkTypes' /\ Counts'
    BY <1>5, StoreFrame DEF Retry, CacheTypes, WorkTypes, Counts
  <1>6. ASSUME NEW o \in Owners, Ignore(o)
        PROVE  StoreTypes' /\ CacheTypes' /\ WorkTypes' /\ Counts'
    BY <1>6, StoreFrame DEF Ignore, Idle, CacheTypes, WorkTypes, Counts
  <1>7. ASSUME NEW o \in Owners, Fetch(o)
        PROVE  StoreTypes' /\ CacheTypes' /\ WorkTypes' /\ Counts'
    <2>1. o.kind \in Kinds /\ manager = "up" /\ cache[o] \in Resource
      BY <1>7, ObjectTypes DEF Fetch, Idle, Ignored, CacheTypes
    <2>2. [owner |-> o, object |-> cache[o], step |-> "find"]
              \in [owner : Owners, object : Resource, step : {"find", "create", "status"}]
      BY <2>1
    <2>3. WorkTypes'
      BY <1>7, <2>1, <2>2 DEF Fetch, WorkTypes
    <2>4. QED
      BY <1>7, <2>3, StoreFrame DEF Fetch, CacheTypes, Counts
  <1>8. ASSUME NEW o \in Owners, Find(o)
        PROVE  StoreTypes' /\ CacheTypes' /\ WorkTypes' /\ Counts'
    <2> DEFINE w == work[o.kind]
    <2>1. /\ o.kind \in Kinds /\ manager = "up" /\ w.owner.kind = o.kind
          /\ w \in [owner : Owners, object : Resource, step : {"find", "create", "status"}]
      BY <1>8, WorkingType DEF Find
    <2>2. work'[o.kind] \in {[w EXCEPT !.step = "create"], [w EXCEPT !.step = "status"], None}
      BY <1>8, <2>1 DEF Find, WorkTypes
    <2>3. \A k \in Kinds \ {o.kind} : work'[k] = work[k]
      BY <1>8 DEF Find, WorkTypes
    <2>4. WorkTypes'
      <3>1. work' = [work EXCEPT ![o.kind] = work'[o.kind]]
        BY <1>8, <2>1 DEF Find, WorkTypes
      <3>2. /\ work'[o.kind] \in [owner : Owners, object : Resource,
                                  step : {"find", "create", "status"}] \cup {None}
            /\ work'[o.kind] # None => work'[o.kind].owner.kind = o.kind
        BY <2>1, <2>2
      <3>3. QED
        BY <1>8, <2>1, <2>3, <3>1, <3>2 DEF Find, WorkTypes
    <2>5. QED
      BY <1>8, <2>4, StoreFrame DEF Find, CacheTypes, Counts
  <1>9. ASSUME NEW o \in Owners, Create(o)
        PROVE  StoreTypes' /\ CacheTypes' /\ WorkTypes' /\ Counts'
    <2>1. ChildFor(o) \in Child /\ ChildOf(o) \in Children
      BY <1>9, WorkingType, ObjectTypes DEF Create, ChildFor, Child, Resource
    <2>2. StoreTypes'
      BY <1>9, <2>1, WriteType, ObjectTypes DEF Create, Done
    <2>3. QED
      BY <1>9, <2>2, DoneType DEF Create, Working
  <1>10. ASSUME NEW o \in Owners, CreateFails(o)
        PROVE  StoreTypes' /\ CacheTypes' /\ WorkTypes' /\ Counts'
    BY <1>10, DoneType, StoreFrame DEF CreateFails, Working
  <1>11. ASSUME NEW o \in Owners, UpdateStatus(o)
        PROVE  StoreTypes' /\ CacheTypes' /\ WorkTypes' /\ Counts'
    <2>1. store[o] \in Resource /\ o \in Objects /\ ObjectsOf(o) = Resource
      BY <1>11, WorkingType, ObjectTypes DEF UpdateStatus
    <2>2. StatusOf(store[o]) \in Status
      <3>1. store[o].status \in Status /\ store[o].spec \in 0..MaxOps
        BY <2>1, BoundsAssumption DEF Resource
      <3>2. CASE store[o].spec \in Brokers
        BY <3>1, <3>2 DEF StatusOf, Status
      <3>3. CASE store[o].spec \notin Brokers
        <4>1. [store[o].status EXCEPT !.status = "Error"] \in Status
          BY <3>1 DEF Status
        <4>2. QED
          BY <3>3, <4>1 DEF StatusOf
      <3>4. QED
        BY <3>2, <3>3
    <2>3. [store[o] EXCEPT !.status = StatusOf(store[o])] \in Resource
      BY <2>1, <2>2 DEF Resource
    <2>4. StoreTypes'
      BY <1>11, <2>1, <2>3, WriteType, StoreFrame DEF UpdateStatus, Done
    <2>5. QED
      BY <1>11, <2>4, DoneType DEF UpdateStatus, Working
  <1>12. ASSUME NEW o \in Owners, StatusConflict(o)
        PROVE  StoreTypes' /\ CacheTypes' /\ WorkTypes' /\ Counts'
    BY <1>12, DoneType, StoreFrame DEF StatusConflict, Working
  <1>13. ASSUME NEW c \in Children, DeleteChild(c)
        PROVE  StoreTypes' /\ CacheTypes' /\ WorkTypes' /\ Counts'
    BY <1>13, OperateType, WriteType, ObjectTypes DEF DeleteChild
  <1>14. ASSUME NEW c \in Children, Collect(c)
        PROVE  StoreTypes' /\ CacheTypes' /\ WorkTypes' /\ Counts'
    BY <1>14, WorkFrame, WriteType, ObjectTypes DEF Collect
  <1>15. ASSUME NEW x \in Objects, Observe(x)
        PROVE  StoreTypes' /\ CacheTypes' /\ WorkTypes' /\ Counts'
    <2>1. /\ Head(watch[x]) \in ObjectsOf(x) \cup {None}
          /\ Tail(watch[x]) \in Seq(ObjectsOf(x) \cup {None})
          /\ Len(Tail(watch[x])) <= MaxLag
      <3>1. watch[x] \in Seq(ObjectsOf(x) \cup {None}) /\ watch[x] # <<>>
        BY <1>15 DEF Observe, StoreTypes
      <3>2. Len(watch[x]) \in Nat /\ Len(watch[x]) <= MaxLag
        BY <3>1 DEF StoreTypes
      <3>3. QED
        BY <3>1, <3>2, TailList, BoundsAssumption
    <2>2. StoreTypes'
      BY <1>15, <2>1 DEF Observe, StoreTypes, ObjectsOf, Resource, Child, Status
    <2>3. CacheTypes'
      BY <1>15, <2>1 DEF Observe, CacheTypes, ObjectsOf, Resource, Child, Status
    <2>4. queue' \subseteq Owners
      BY <1>15 DEF Observe, Notified, WorkTypes
    <2>5. WorkTypes'
      <3>1. manager = "down" => queue' = {}
        BY <1>15 DEF Observe, StoreTypes, WorkTypes
      <3>2. QED
        BY <1>15, <2>4, <3>1 DEF Observe, WorkTypes
    <2>6. QED
      BY <1>15, <2>2, <2>3, <2>5 DEF Observe, Counts
  <1>16. CASE Crash
    <2>1. StoreTypes'
      <3>1. \A x \in Objects : <<>> \in Seq(ObjectsOf(x) \cup {None}) /\ Len(<<>>) <= MaxLag
        BY BoundsAssumption
      <3>2. \A x \in Objects : watch'[x] = <<>>
        BY <1>16 DEF Crash
      <3>3. QED
        <4>1. \A x \in Objects : ObjectsOf(x)' = ObjectsOf(x)
          BY DEF ObjectsOf, Resource, Child, Status
        <4>2. store' = store /\ DOMAIN watch' = Objects
          BY <1>16 DEF Crash
        <4>3. QED
          BY <3>1, <3>2, <4>1, <4>2 DEF StoreTypes
    <2>2. WorkTypes'
      BY <1>16 DEF Crash, WorkTypes
    <2>3. QED
      BY <1>16, <2>1, <2>2, BoundsAssumption DEF Crash, CacheTypes, Counts
  <1>17. CASE Restart
    <2>1. queue' \subseteq Owners
      BY <1>17 DEF Restart, Notified
    <2>2. StoreTypes' /\ WorkTypes'
      BY <1>17, <2>1 DEF Restart, WorkTypes, StoreTypes
    <2>3. CacheTypes'
      BY <1>17 DEF Restart, CacheTypes, StoreTypes
    <2>4. QED
      BY <1>17, <2>2, <2>3 DEF Restart, Counts
  <1>18. CASE UNCHANGED vars
    BY <1>18, StoreFrame, WorkFrame DEF vars
  <1>19. QED
    BY <1>1, <1>2, <1>3, <1>4, <1>5, <1>6, <1>7, <1>8, <1>9, <1>10, <1>11, <1>12,
       <1>13, <1>14, <1>15, <1>16, <1>17, <1>18 DEF Next

(* Objects, events and workers are well typed, and no cache is further     *)
(* behind than MaxLag events.                                              *)
THEOREM TypeCorrect == Spec => []TypeOK
  BY InitType, StepType, PTL DEF Spec

-----------------------------------------------------------------------------
(***************************************************************************)
(* Versions.                                                               *)
(***************************************************************************)

\* What Past speaks of.
Dated(v) == v.uid \in Nat /\ v.spec \in Nat

\* A resource goes, or gets a later version in this life, or a new life after
\* all operations so far.
Forward(o) ==
    \/ store'[o] = None
    \/ /\ store[o] # None /\ store'[o].uid = store[o].uid
       /\ store[o].spec <= store'[o].spec
    \/ store'[o].uid > ops

(* All that holds versions holds numbers.                                  *)
LEMMA AllDated ==
    ASSUME TypeOK
    PROVE  /\ \A o \in Owners : store[o] # None => Dated(store[o])
           /\ \A o \in Owners : cache[o] # None => Dated(cache[o])
           /\ \A o \in Owners : \A i \in DOMAIN watch[o] :
                 watch[o][i] # None => Dated(watch[o][i])
           /\ \A k \in Kinds : work[k] # None =>
                 Dated(work[k].object) /\ work[k].owner \in Owners
           /\ \A c \in Children : store[c] # None =>
                 Dated(store[c]) /\ store[c].owner \in Owners
           /\ ops \in Nat
  <1>1. \A v \in Resource \cup Child : Dated(v)
    BY BoundsAssumption DEF Resource, Child, Dated
  <1>2. \A x \in Objects : /\ store[x] \in ObjectsOf(x) \cup {None}
                           /\ cache[x] \in ObjectsOf(x) \cup {None}
                           /\ watch[x] \in Seq(ObjectsOf(x) \cup {None})
    BY DEF TypeOK
  <1>3. \A o \in Owners : \A i \in DOMAIN watch[o] : watch[o][i] \in Resource \cup {None}
    <2>1. \A o \in Owners : watch[o] \in Seq(Resource \cup {None})
      BY <1>2, ObjectTypes
    <2>2. ASSUME NEW o \in Owners, NEW i \in DOMAIN watch[o]
          PROVE  watch[o][i] \in Resource \cup {None}
      BY <2>1
    <2>3. QED
      BY <2>2
  <1>4. \A k \in Kinds : work[k] # None => work[k].object \in Resource /\ work[k].owner \in Owners
    BY DEF TypeOK
  <1>5. \A c \in Children : store[c] # None => store[c] \in Child /\ store[c].owner \in Owners
    <2>1. \A c \in Children : store[c] \in Child \cup {None}
      BY <1>2, ObjectTypes
    <2>2. QED
      BY <2>1 DEF Child
  <1>6. ops \in Nat
    BY BoundsAssumption DEF TypeOK
  <1>7. QED
    BY <1>1, <1>2, <1>3, <1>4, <1>5, <1>6, ObjectTypes

(* As resources go forward, what is past remains past.                     *)
LEMMA PastStays ==
    ASSUME TypeOK, ops' \in Nat, ops <= ops', NEW o \in Owners, Forward(o),
           store'[o] # None => Dated(store'[o]),
           NEW v, Dated(v), Past(o, v)
    PROVE  Past(o, v)'
  <1>1. v.uid <= v.spec /\ v.spec <= ops'
    BY AllDated DEF Past, Dated
  <1>2. CASE store'[o] = None
    BY <1>1, <1>2 DEF Past
  <1>3. CASE /\ store'[o] # None /\ store[o] # None /\ store'[o].uid = store[o].uid
             /\ store[o].spec <= store'[o].spec
    BY <1>1, <1>3, AllDated DEF Past, Dated
  <1>4. CASE store'[o] # None /\ store'[o].uid > ops
    BY <1>1, <1>4, AllDated DEF Past, Dated
  <1>5. QED
    BY <1>2, <1>3, <1>4 DEF Forward

(* A step that writes v as the object x.                                   *)
LEMMA WriteVersions ==
    ASSUME TypeOK, Versions, TypeOK', ops <= ops',
           NEW x \in Objects, NEW v, Write(x, v), UNCHANGED cache,
           \A k \in Kinds : work'[k] \in {work[k], None},
           x \in Owners => Forward(x) /\ (v # None => Past(x, v)'),
           x \in Children /\ v # None => Past(v.owner, v)'
    PROVE  Versions'
  <1>1. /\ \A y \in Objects : store'[y] = IF y = x THEN v ELSE store[y]
        /\ \A y \in Objects : watch'[y] \in {watch[y], IF y = x THEN Append(watch[y], v) ELSE watch[y]}
    BY DEF Write, TypeOK
  <1>2. ops' \in Nat
    BY BoundsAssumption DEF TypeOK
  <1>3. \A o \in Owners : store'[o] # None => Dated(store'[o])
    <2>1. \A o \in Owners : store'[o] # None => store'[o] \in Resource
      BY ObjectTypes DEF TypeOK, ObjectsOf, Resource, Status, Child
    <2>2. QED
      BY <2>1, BoundsAssumption DEF Resource, Dated
  <1>4. \A o \in Owners : Forward(o)
    <2>1. \A o \in Owners \ {x} : store'[o] = store[o]
      BY <1>1, ObjectTypes
    <2>2. \A o \in Owners : store[o] # None => store[o].spec <= store[o].spec
      BY AllDated DEF Dated
    <2>3. QED
      BY <2>1, <2>2 DEF Forward
  <1>5. \A o \in Owners : \A w : Dated(w) /\ Past(o, w) => Past(o, w)'
    BY <1>2, <1>3, <1>4, PastStays
  <1>6. ASSUME NEW o \in Owners, store'[o] # None PROVE Past(o, store[o])'
    <2>1. CASE o = x
      <3>1. store'[o] = v /\ Past(o, v)'
        BY <1>1, <1>6, <2>1
      <3>2. QED
        BY <3>1 DEF Past
    <2>2. CASE o # x
      <3>1. store'[o] = store[o] /\ Past(o, store[o]) /\ Dated(store[o])
        BY <1>1, <1>6, <2>2, AllDated, ObjectTypes DEF Versions
      <3>2. PICK w : w = store[o]
        OBVIOUS
      <3>3. Past(o, w)'
        BY <1>5, <3>1, <3>2
      <3>4. QED
        BY <3>1, <3>2, <3>3 DEF Past
    <2>3. QED
      BY <2>1, <2>2
  <1>7. ASSUME NEW c \in Children, store'[c] # None PROVE Past(store[c].owner, store[c])'
    <2>1. CASE c = x
      <3>1. store'[c] = v /\ Past(v.owner, v)'
        BY <1>1, <1>7, <2>1
      <3>2. QED
        BY <3>1 DEF Past
    <2>2. CASE c # x
      <3>1. /\ store'[c] = store[c] /\ Past(store[c].owner, store[c])
            /\ Dated(store[c]) /\ store[c].owner \in Owners
        BY <1>1, <1>7, <2>2, AllDated, ObjectTypes DEF Versions
      <3>2. PICK w : w = store[c]
        OBVIOUS
      <3>3. Past(w.owner, w)'
        BY <1>5, <3>1, <3>2
      <3>4. QED
        BY <3>1, <3>2, <3>3 DEF Past
    <2>3. QED
      BY <2>1, <2>2
  <1>8. ASSUME NEW o \in Owners, cache'[o] # None PROVE Past(o, cache[o])'
    <2>1. cache'[o] = cache[o] /\ Past(o, cache[o]) /\ Dated(cache[o])
      BY <1>8, AllDated DEF Versions
    <2>2. PICK w : w = cache[o]
      OBVIOUS
    <2>3. Past(o, w)'
      BY <1>5, <2>1, <2>2
    <2>4. QED
      BY <2>1, <2>2, <2>3 DEF Past
  <1>9. ASSUME NEW k \in Kinds, work'[k] # None PROVE Past(work[k].owner, work[k].object)'
    <2>1. /\ work'[k] = work[k] /\ Past(work[k].owner, work[k].object)
          /\ Dated(work[k].object) /\ work[k].owner \in Owners
      BY <1>9, AllDated DEF Versions
    <2>2. PICK w : w = work[k]
      OBVIOUS
    <2>3. Past(w.owner, w.object)'
      BY <1>5, <2>1, <2>2
    <2>4. QED
      BY <2>1, <2>2, <2>3 DEF Past
  <1>10. ASSUME NEW o \in Owners, NEW i \in DOMAIN watch'[o], watch'[o][i] # None
         PROVE  Past(o, watch[o][i])'
    <2>1. \/ i \in DOMAIN watch[o] /\ watch'[o][i] = watch[o][i]
          \/ o = x /\ watch'[o][i] = v
      <3>1. watch[o] \in Seq(ObjectsOf(o) \cup {None})
        BY ObjectTypes DEF TypeOK
      <3>2. CASE watch'[o] = watch[o]
        BY <1>10, <3>2
      <3>3. CASE o = x /\ watch'[o] = Append(watch[o], v)
        <4>1. v \in ObjectsOf(o) \cup {None}
          <5>1. store'[o] = v
            BY <1>1, <3>3
          <5>2. QED
            BY <5>1, ObjectTypes DEF TypeOK, ObjectsOf, Resource, Child, Status
        <4>2. QED
          BY <1>10, <3>1, <3>3, <4>1, AppendMembers
      <3>4. QED
        BY <1>1, <3>2, <3>3, ObjectTypes
    <2>2. PICK w : w = watch'[o][i]
      OBVIOUS
    <2>3. Past(o, w)'
      <3>1. CASE o = x /\ w = v
        BY <1>10, <2>2, <3>1
      <3>2. CASE i \in DOMAIN watch[o] /\ w = watch[o][i]
        <4>1. Dated(w) /\ Past(o, w)
          BY <1>10, <2>2, <3>2, AllDated DEF Versions
        <4>2. QED
          BY <1>5, <4>1
      <3>3. QED
        BY <2>1, <2>2, <3>1, <3>2
    <2>4. QED
      BY <2>2, <2>3 DEF Past
  <1>11. QED
    BY <1>6, <1>7, <1>8, <1>9, <1>10 DEF Versions

(* A step that writes nothing: what it puts somewhere was somewhere.       *)
LEMMA CopyVersions ==
    ASSUME TypeOK, Versions, UNCHANGED <<store, ops>>,
           \A o \in Owners : cache'[o] # None =>
               \/ cache'[o] \in {cache[o], store[o]}
               \/ \E i \in DOMAIN watch[o] : cache'[o] = watch[o][i],
           \A o \in Owners : \A i \in DOMAIN watch'[o] :
               \E j \in DOMAIN watch[o] : watch'[o][i] = watch[o][j],
           \A k \in Kinds : work'[k] # None =>
               \/ /\ work[k] # None
                  /\ work'[k].owner = work[k].owner /\ work'[k].object = work[k].object
               \/ /\ work'[k].owner \in Owners
                  /\ work'[k].object = cache[work'[k].owner] /\ work'[k].object # None
    PROVE  Versions'
  <1>1. \A o, v : Past(o, v) => Past(o, v)'
    BY DEF Past
  <1>2. ASSUME NEW o \in Owners, store'[o] # None PROVE Past(o, store[o])'
    BY <1>2 DEF Versions, Past
  <1>3. ASSUME NEW c \in Children, store'[c] # None PROVE Past(store[c].owner, store[c])'
    BY <1>3 DEF Versions, Past
  <1>4. ASSUME NEW o \in Owners, cache'[o] # None PROVE Past(o, cache[o])'
    <2>1. PICK w : w = cache'[o]
      OBVIOUS
    <2>2. Past(o, w)
      BY <1>4, <2>1 DEF Versions
    <2>3. QED
      BY <1>1, <2>1, <2>2 DEF Past
  <1>5. ASSUME NEW o \in Owners, NEW i \in DOMAIN watch'[o], watch'[o][i] # None
        PROVE  Past(o, watch[o][i])'
    <2>1. PICK w : w = watch'[o][i]
      OBVIOUS
    <2>2. Past(o, w)
      BY <1>5, <2>1 DEF Versions
    <2>3. QED
      BY <1>1, <2>1, <2>2 DEF Past
  <1>6. ASSUME NEW k \in Kinds, work'[k] # None PROVE Past(work[k].owner, work[k].object)'
    <2>1. PICK w : w = work'[k]
      OBVIOUS
    <2>2. Past(w.owner, w.object)
      BY <1>6, <2>1 DEF Versions
    <2>3. QED
      BY <1>1, <2>1, <2>2 DEF Past
  <1>7. QED
    BY <1>2, <1>3, <1>4, <1>5, <1>6 DEF Versions

(* Nothing has a version at first.                                         *)
LEMMA InitVersions == Init => Versions
  <1> SUFFICES ASSUME Init PROVE Versions
    OBVIOUS
  <1>1. /\ \A x \in Objects : store[x] = None /\ cache[x] = None /\ DOMAIN watch[x] = {}
        /\ \A k \in Kinds : work[k] = None
    BY DEF Init
  <1>2. QED
    BY <1>1, ObjectTypes DEF Versions

(* A child is written of a version that a worker holds.                    *)
LEMMA CreateVersions ==
    ASSUME TypeOK, Versions, TypeOK', NEW o \in Owners, Create(o)
    PROVE  Versions'
  <1>1. /\ o.kind \in Kinds /\ ChildOf(o) \in Objects /\ ChildOf(o) \notin Owners
        /\ work[o.kind] # None /\ work[o.kind].owner = o
    BY ObjectTypes DEF Create, Working
  <1>2. \A k \in Kinds : work'[k] \in {work[k], None}
    BY DEF Create, Done, TypeOK
  <1>3. PICK v : v = ChildFor(o)
    OBVIOUS
  <1>4. v.owner = o /\ Past(o, v)
    BY <1>1, <1>3 DEF ChildFor, Versions, Past
  <1>5. store'[o] = store[o] /\ UNCHANGED <<ops, cache>> /\ Write(ChildOf(o), v)
    BY <1>1, <1>3, ObjectTypes DEF Create, Done, Write, TypeOK
  <1>6. Past(v.owner, v)'
    BY <1>4, <1>5 DEF Past
  <1>7. ops <= ops'
    BY <1>5, AllDated
  <1>8. QED
    BY <1>1, <1>2, <1>5, <1>6, <1>7, WriteVersions

(* What is removed leaves no version behind.                               *)
LEMMA RemoveVersions ==
    ASSUME TypeOK, Versions, TypeOK', ops' \in {ops, ops + 1}, UNCHANGED <<cache, work>>,
           NEW x \in Objects, Write(x, None)
    PROVE  Versions'
  <1>1. ops <= ops'
    BY AllDated
  <1>2. x \in Owners => Forward(x)
    BY DEF Write, Forward, TypeOK
  <1>3. QED
    BY <1>1, <1>2, WriteVersions

(* A resource is written in a later version.                               *)
LEMMA ChangeVersions ==
    ASSUME TypeOK, Versions, TypeOK', UNCHANGED cache, ops <= ops',
           \A k \in Kinds : work'[k] \in {work[k], None},
           NEW o \in Owners, NEW v, Write(o, v), Dated(v), v.uid <= v.spec, v.spec <= ops',
           \/ store[o] # None /\ v.uid = store[o].uid /\ store[o].spec <= v.spec
           \/ v.uid > ops
    PROVE  Versions'
  <1>1. store'[o] = v /\ o \in Objects /\ o \notin Children
    BY ObjectTypes DEF Write, TypeOK
  <1>2. Forward(o)
    BY <1>1 DEF Forward
  <1>3. Past(o, v)'
    BY <1>1 DEF Past, Dated
  <1>4. QED
    BY <1>1, <1>2, <1>3, WriteVersions

(* Every step keeps the versions.                                          *)
LEMMA StepVersions == TypeOK /\ Versions /\ TypeOK' /\ [Next]_vars => Versions'
  <1> SUFFICES ASSUME TypeOK, Versions, TypeOK', [Next]_vars PROVE Versions'
    OBVIOUS
  <1> USE DEF managerVars
  <1>1. ASSUME NEW o \in Owners, Apply(o) PROVE Versions'
    <2>1. ops' = ops + 1 /\ UNCHANGED <<cache, work>>
      BY <1>1 DEF Apply, Operate
    <2>2. CASE store[o] = None
      <3>1. PICK v : v = [uid |-> ops', spec |-> ops', status |-> NoStatus, deleting |-> FALSE]
        OBVIOUS
      <3>2. /\ Write(o, v) /\ Dated(v) /\ v.uid <= v.spec /\ v.spec <= ops' /\ v.uid > ops
            /\ ops <= ops'
        BY <1>1, <2>1, <2>2, <3>1, AllDated DEF Apply, Dated
      <3>3. QED
        BY <2>1, <3>2, ChangeVersions
    <2>3. CASE store[o] # None
      <3>1. PICK v : v = [store[o] EXCEPT !.spec = ops']
        OBVIOUS
      <3>2. Dated(store[o]) /\ Past(o, store[o]) /\ store[o] \in Resource
        BY <2>3, AllDated, ObjectTypes DEF Versions, TypeOK
      <3>3. v.uid = store[o].uid /\ v.spec = ops'
        BY <3>1, <3>2 DEF Resource
      <3>4. /\ Write(o, v) /\ Dated(v) /\ v.uid <= v.spec /\ v.spec <= ops'
            /\ store[o].spec <= v.spec /\ ops <= ops'
        <4>1. Write(o, v)
          BY <1>1, <2>3, <3>1 DEF Apply
        <4>2. QED
          BY <2>1, <3>2, <3>3, <4>1, AllDated DEF Dated, Past
      <3>5. QED
        BY <2>1, <2>3, <3>3, <3>4, ChangeVersions
    <2>4. QED
      BY <2>2, <2>3
  <1>2. ASSUME NEW o \in Owners, Delete(o) PROVE Versions'
    BY <1>2, RemoveVersions, ObjectTypes DEF Delete, Operate
  <1>3. ASSUME NEW o \in Owners, DeleteForeground(o) PROVE Versions'
    <2>1. ops' = ops + 1 /\ UNCHANGED <<cache, work>> /\ store[o] # None
      BY <1>3 DEF DeleteForeground, Operate, Live
    <2>2. PICK v : v = [store[o] EXCEPT !.deleting = TRUE]
      OBVIOUS
    <2>3. Dated(store[o]) /\ Past(o, store[o]) /\ store[o] \in Resource
      BY <2>1, AllDated, ObjectTypes DEF Versions, TypeOK
    <2>4. v.uid = store[o].uid /\ v.spec = store[o].spec
      BY <2>2, <2>3 DEF Resource
    <2>5. Write(o, v)
      BY <1>3, <2>2 DEF DeleteForeground
    <2>6. Dated(v) /\ v.uid <= v.spec /\ v.spec <= ops' /\ store[o].spec <= v.spec /\ ops <= ops'
      BY <2>1, <2>3, <2>4, AllDated DEF Dated, Past
    <2>7. QED
      BY <2>1, <2>4, <2>5, <2>6, ChangeVersions
  <1>4. ASSUME NEW o \in Owners, Finish(o) PROVE Versions'
    BY <1>4, RemoveVersions, ObjectTypes DEF Finish
  <1>5. ASSUME NEW o \in Owners, Retry(o) PROVE Versions'
    BY <1>5, CopyVersions DEF Retry
  <1>6. ASSUME NEW o \in Owners, Ignore(o) PROVE Versions'
    BY <1>6, CopyVersions DEF Ignore
  <1>7. ASSUME NEW o \in Owners, Fetch(o) PROVE Versions'
    <2>1. UNCHANGED <<store, cache, watch, ops>> /\ cache[o] # None
      BY <1>7 DEF Fetch, Ignored
    <2>2. \A k \in Kinds :
              \/ work'[k] = work[k]
              \/ work'[k].owner = o /\ work'[k].object = cache[o]
      BY <1>7 DEF Fetch, TypeOK
    <2>3. QED
      BY <2>1, <2>2, CopyVersions
  <1>8. ASSUME NEW o \in Owners, Find(o) PROVE Versions'
    <2>1. UNCHANGED <<store, cache, watch, ops>>
      BY <1>8 DEF Find
    <2>2. /\ o.kind \in Kinds /\ work[o.kind] # None
          /\ work[o.kind] \in [owner : Owners, object : Resource,
                               step : {"find", "create", "status"}]
      BY <1>8, ObjectTypes DEF Find, Working, TypeOK
    <2>3. work'[o.kind] \in {[work[o.kind] EXCEPT !.step = "create"],
                             [work[o.kind] EXCEPT !.step = "status"], None}
      BY <1>8, <2>2 DEF Find, TypeOK
    <2>4. \A k \in Kinds \ {o.kind} : work'[k] = work[k]
      BY <1>8 DEF Find, TypeOK
    <2>5. work'[o.kind] # None => /\ work'[o.kind].owner = work[o.kind].owner
                                  /\ work'[o.kind].object = work[o.kind].object
      BY <2>2, <2>3
    <2>6. QED
      BY <2>1, <2>2, <2>4, <2>5, CopyVersions
  <1>9. ASSUME NEW o \in Owners, Create(o) PROVE Versions'
    BY <1>9, CreateVersions
  <1>10. ASSUME NEW o \in Owners, Done(o), UNCHANGED <<store, watch>> PROVE Versions'
    <2>1. \A k \in Kinds : work'[k] \in {work[k], None}
      BY <1>10 DEF Done, TypeOK
    <2>2. QED
      BY <1>10, <2>1, CopyVersions DEF Done
  <1>11. ASSUME NEW o \in Owners, UpdateStatus(o) PROVE Versions'
    <2>1. CASE UNCHANGED <<store, watch>>
      BY <1>10, <1>11, <2>1 DEF UpdateStatus
    <2>2. CASE Write(o, [store[o] EXCEPT !.status = StatusOf(store[o])])
      <3>1. PICK v : v = [store[o] EXCEPT !.status = StatusOf(store[o])]
        OBVIOUS
      <3>2. store[o] \in Resource /\ store[o] # None
        BY <1>11, WorkingType, TypeParts, NoneAssumption DEF UpdateStatus
      <3>3. Dated(store[o]) /\ Past(o, store[o])
        BY <3>2, AllDated DEF Versions
      <3>4. v.uid = store[o].uid /\ v.spec = store[o].spec /\ Write(o, v)
        BY <2>2, <3>1, <3>2 DEF Resource
      <3>5. /\ UNCHANGED <<ops, cache>>
            /\ \A k \in Kinds : work'[k] \in {work[k], None}
        BY <1>11 DEF UpdateStatus, Done, TypeOK
      <3>6. Dated(v) /\ v.uid <= v.spec /\ v.spec <= ops' /\ store[o].spec <= v.spec /\ ops <= ops'
        BY <3>3, <3>4, <3>5, AllDated DEF Dated, Past
      <3>7. QED
        BY <3>2, <3>4, <3>5, <3>6, ChangeVersions
    <2>3. QED
      BY <1>11, <2>1, <2>2 DEF UpdateStatus
  <1>12. ASSUME NEW c \in Children, DeleteChild(c) PROVE Versions'
    BY <1>12, RemoveVersions, ObjectTypes DEF DeleteChild, Operate
  <1>13. ASSUME NEW c \in Children, Collect(c) PROVE Versions'
    BY <1>13, RemoveVersions, ObjectTypes DEF Collect
  <1>14. ASSUME NEW x \in Objects, Observe(x) PROVE Versions'
    <2>1. watch[x] \in Seq(ObjectsOf(x) \cup {None}) /\ watch[x] # <<>>
      BY <1>14 DEF Observe, TypeOK
    <2>2. /\ Head(watch[x]) = watch[x][1] /\ 1 \in DOMAIN watch[x]
          /\ \A i \in DOMAIN Tail(watch[x]) :
                i + 1 \in DOMAIN watch[x] /\ Tail(watch[x])[i] = watch[x][i + 1]
      BY <2>1, TailList
    <2>3. \A o \in Owners : cache'[o] = IF o = x THEN watch[x][1] ELSE cache[o]
      BY <1>14, <2>2, ObjectTypes DEF Observe, TypeOK
    <2>4. \A o \in Owners : watch'[o] = IF o = x THEN Tail(watch[x]) ELSE watch[o]
      BY <1>14, ObjectTypes DEF Observe, TypeOK
    <2>5. \A o \in Owners : \A i \in DOMAIN watch'[o] :
              \E j \in DOMAIN watch[o] : watch'[o][i] = watch[o][j]
      BY <2>2, <2>4
    <2>6. UNCHANGED <<store, work, ops>>
      BY <1>14 DEF Observe
    <2>7. QED
      BY <2>2, <2>3, <2>5, <2>6, CopyVersions
  <1>15. CASE Crash
    <2>1. \A o \in Owners : DOMAIN watch'[o] = {}
      BY <1>15, ObjectTypes DEF Crash
    <2>2. \A k \in Kinds : work'[k] = None
      BY <1>15 DEF Crash
    <2>3. UNCHANGED <<store, cache, ops>>
      BY <1>15 DEF Crash
    <2>4. QED
      BY <2>1, <2>2, <2>3, CopyVersions
  <1>16. CASE Restart
    BY <1>16, CopyVersions DEF Restart
  <1>17. CASE UNCHANGED vars
    BY <1>17, CopyVersions DEF vars
  <1>18. QED
    BY <1>1, <1>2, <1>3, <1>4, <1>5, <1>6, <1>7, <1>8, <1>9, <1>10, <1>11, <1>12,
       <1>13, <1>14, <1>15, <1>16, <1>17 DEF Next, CreateFails, StatusConflict

-----------------------------------------------------------------------------
(***************************************************************************)
(* What follows.                                                           *)
(***************************************************************************)

(* Whatever the caches, the workers and the children hold of a resource is *)
(* a version of its present life, not ahead of it, or of an earlier life.  *)
THEOREM InductiveInvariant == Spec => []IInv
  <1>1. Init => IInv
    BY InitType, InitVersions DEF IInv
  <1>2. IInv /\ [Next]_vars => IInv'
    BY StepType, StepVersions DEF IInv
  <1>3. QED
    BY <1>1, <1>2, PTL DEF Spec

(* A child is made of one version of one life of the resource it refers to *)
(* (createJoinerDeployment and its likes, SetControllerReference).         *)
THEOREM OneVersion == Spec => []ChildIsOfOneVersion
  <1>1. IInv => ChildIsOfOneVersion
    <2> SUFFICES ASSUME IInv, NEW c \in Children, store[c] # None,
                        NEW o \in Owners, o = store[c].owner
                 PROVE  /\ store[c].uid <= store[c].spec
                        /\ BelongsTo(c, o) => store[c].spec <= store[o].spec
                        /\ store[o] # None /\ ~ BelongsTo(c, o) => store[c].spec < store[o].uid
      BY AllDated DEF IInv, ChildIsOfOneVersion
    <2>1. Past(o, store[c])
      BY DEF IInv, Versions
    <2>2. QED
      BY <2>1 DEF Past, BelongsTo
  <1>2. QED
    BY <1>1, InductiveInvariant, PTL
=============================================================================
