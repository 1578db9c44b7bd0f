---------------------------- MODULE JoinerProofs ----------------------------
(***************************************************************************)
(* Proofs about the joiner for every set of messages, every outcome of the *)
(* filter and the projection, every capacity and every number of           *)
(* deliveries and restarts.                                                *)
(***************************************************************************)
EXTENDS JoinerRefinement, LinesProofs

(***************************************************************************)
(* The inductive invariant.                                                *)
(***************************************************************************)

\* An arrival is stored under its topic.
Homed == \A t \in Topics : \A a \in streams[t] : TopicOf[a[1]] = t

\* An arrival's number is that of a delivery the broker has made.
Numbered ==
    \A a \in sending \cup Stored \cup Taken : a[2] <= attempts[a[1]]

\* What a handler still holds is neither stored nor in a batch.
Unsent == \A a \in sending : a \notin Stored /\ a \notin Taken

\* From aggregateEvents to reset the store is exactly inside the batches;
\* otherwise it is apart from them.
StoreInv ==
    /\ inPc = "select" => Stored \cap Taken = {}
    /\ inPc # "select" => Stored \subseteq Taken

AnsweredInv ==
    /\ \A a \in returning : a \in Stored \cup Taken \cup lost
    /\ AckedIsAccountedFor

\* Batches travel in order from jsonData over outputChan and data to the
\* targets.
OrderInv ==
    /\ inPc = "send" => /\ jsonData = Len(batches)
                        /\ jsonData # 0
                        /\ data < jsonData
                        /\ Behind(outputChan, jsonData)
                        /\ Behind(published, jsonData)
                        /\ Behind(invoked, jsonData)
    /\ Increasing(outputChan)
    /\ \A i \in DOMAIN outputChan : /\ outputChan[i] \in DOMAIN batches
                                    /\ data < outputChan[i]
                                    /\ Behind(published, outputChan[i])
                                    /\ Behind(invoked, outputChan[i])
    /\ outPc = "publish" => Behind(published, data)
    /\ outPc # "select" => data \in DOMAIN batches /\ Behind(invoked, data)
    /\ outPc = "select" => data = 0

IInv ==
    /\ TypeOK
    /\ Homed /\ Numbered /\ Unsent /\ StoreInv /\ AnsweredInv
    /\ NoArrivalJoinedTwice
    /\ OrderInv /\ DeliveredInOrder

-----------------------------------------------------------------------------
(***************************************************************************)
(* Lemmas about the store and the history of batches.                      *)
(***************************************************************************)

(* What Stored contains, element by element (store.streams of main.go:27). *)
LEMMA StoredElement ==
    \A a : a \in Stored <=> \E t \in Topics : a \in streams[t]
  BY DEF Stored

(* What Taken contains, element by element: the arrivals of some batch     *)
(* that aggregateEvents has produced.                                      *)
LEMMA TakenElement ==
    \A a : a \in Taken <=> \E k \in DOMAIN batches : a \in batches[k].window
  BY DEF Taken

(* A stored arrival is an arrival, and so are those of a batch.            *)
LEMMA StoredTakenType ==
    ASSUME TypeOK
    PROVE  Stored \subseteq Arrivals /\ Taken \subseteq Arrivals
  <1>1. Stored \subseteq Arrivals
    BY StoredElement DEF TypeOK
  <1>2. ASSUME NEW k \in DOMAIN batches
        PROVE  batches[k].window \subseteq Arrivals
    <2>1. batches[k] \in Batch
      BY DEF TypeOK
    <2>2. QED
      BY <2>1 DEF Batch
  <1>3. QED
    BY <1>1, <1>2, TakenElement

(* The rows of a join pair stored arrivals (aggregateEvents, 277-292).     *)
LEMMA JoinRowsType ==
    ASSUME TypeOK
    PROVE  JoinRows(streams) \subseteq Arrivals \X Arrivals
  BY DEF TypeOK, JoinRows, Pairs, Topics

(* The initial state is well typed.                                        *)
LEMMA InitType == Init => TypeOK
  <1> SUFFICES ASSUME Init PROVE TypeOK
    OBVIOUS
  <1> USE BoundAssumption
  <1>1. attempts \in [Events -> 0..MaxDeliveries] /\ crashes \in 0..MaxCrashes
    BY DEF Init
  <1>2. streams \in [Topics -> SUBSET Arrivals]
    BY DEF Init, NoStream
  <1>3. /\ outputChan \in Seq(Nat) /\ published \in Seq(Nat)
        /\ invoked \in Seq(Nat) /\ batches \in Seq(Batch)
    BY DEF Init
  <1>4. Len(outputChan) <= OutputCapacity
    BY DEF Init
  <1>5. QED
    BY <1>1, <1>2, <1>3, <1>4 DEF Init, TypeOK

(* Every step keeps the types and the capacity of outputChan.              *)
LEMMA StepType == TypeOK /\ [Next]_vars => TypeOK'
  <1> SUFFICES ASSUME TypeOK, [Next]_vars
               PROVE  TypeOK'
    OBVIOUS
  <1> USE BoundAssumption
  <1>1. ASSUME NEW e \in Events, Deliver(e) PROVE TypeOK'
    <2>1. attempts[e] + 1 \in 1..MaxDeliveries
      BY <1>1 DEF Deliver, TypeOK
    <2>2. <<e, attempts[e] + 1>> \in Arrivals
      BY <2>1 DEF Arrivals
    <2>3. attempts' \in [Events -> 0..MaxDeliveries]
      BY <1>1, <2>1 DEF Deliver, TypeOK
    <2>4. QED
      BY <1>1, <2>2, <2>3 DEF Deliver, TypeOK, Topics, inputVars, outputVars,
                              historyVars
  <1>2. ASSUME NEW a \in Arrivals, Receive(a) PROVE TypeOK'
    <2>1. streams' \in [Topics -> SUBSET Arrivals]
      BY <1>2 DEF Receive, TypeOK
    <2>2. QED
      BY <1>2, <2>1 DEF Receive, TypeOK, brokerVars, outputVars, historyVars
  <1>3. ASSUME NEW a \in Arrivals, Answer(a) PROVE TypeOK'
    <2>1. a[1] \in Events
      BY DEF Arrivals
    <2>2. QED
      BY <1>3, <2>1 DEF Answer, TypeOK, inputVars, outputVars, historyVars
  <1>4. CASE Tick
    BY <1>4 DEF Tick, TypeOK, brokerVars, handlerVars, outputVars, historyVars
  <1>5. CASE CloseWindow
    <2>1. [window |-> Stored, rows |-> JoinRows(streams)] \in Batch
      BY StoredTakenType, JoinRowsType DEF Batch
    <2>2. batches' \in Seq(Batch) /\ jsonData' \in Nat
      BY <1>5, <2>1 DEF CloseWindow, TypeOK
    <2>3. QED
      BY <1>5, <2>2 DEF CloseWindow, TypeOK, brokerVars, handlerVars, outputVars
  <1>6. CASE SkipWindow
    BY <1>6, StoredTakenType
    DEF SkipWindow, TypeOK, brokerVars, handlerVars, outputVars
  <1>7. CASE SendOutput
    <2>1. outputChan' \in Seq(Nat) /\ Len(outputChan') <= OutputCapacity
      BY <1>7 DEF SendOutput, TypeOK
    <2>2. QED
      BY <1>7, <2>1
      DEF SendOutput, TypeOK, brokerVars, handlerVars, outputVars, historyVars
  <1>8. CASE Reset
    BY <1>8 DEF Reset, TypeOK, NoStream, brokerVars, handlerVars, outputVars
  <1>9. CASE TakeOutput
    <2>1. /\ outputChan' \in Seq(Nat) /\ Len(outputChan') <= OutputCapacity
          /\ data' \in Nat
      BY <1>9 DEF TakeOutput, TypeOK
    <2>2. QED
      BY <1>9, <2>1
      DEF TakeOutput, TypeOK, brokerVars, handlerVars, inputVars, historyVars
  <1>10. CASE Publish
    <2>1. data \in Nat /\ published \in Seq(Nat)
      BY DEF TypeOK
    <2>2. Append(published, data) \in Seq(Nat)
      BY <2>1
    <2>3. published' \in {published, Append(published, data)}
      BY <1>10 DEF Publish
    <2>4. published' \in Seq(Nat)
      BY <2>1, <2>2, <2>3
    <2>5. QED
      BY <1>10, <2>4
      DEF Publish, TypeOK, brokerVars, handlerVars, inputVars, historyVars
  <1>11. CASE Invoke
    <2>1. data \in Nat /\ invoked \in Seq(Nat)
      BY DEF TypeOK
    <2>2. Append(invoked, data) \in Seq(Nat)
      BY <2>1
    <2>3. invoked' \in {invoked, Append(invoked, data)}
      BY <1>11 DEF Invoke
    <2>4. invoked' \in Seq(Nat)
      BY <2>1, <2>2, <2>3
    <2>5. QED
      BY <1>11, <2>4
      DEF Invoke, TypeOK, brokerVars, handlerVars, inputVars, historyVars
  <1>12. CASE Crash
    <2>1. crashes' \in 0..MaxCrashes
      BY <1>12 DEF Crash, TypeOK
    <2>2. outputChan' \in Seq(Nat) /\ Len(outputChan') <= OutputCapacity
      BY <1>12 DEF Crash
    <2>3. streams' \in [Topics -> SUBSET Arrivals]
      BY <1>12 DEF Crash, NoStream
    <2>4. QED
      BY <1>12, <2>1, <2>2, <2>3, StoredTakenType DEF Crash, TypeOK, brokerVars
  <1>13. CASE UNCHANGED vars
    BY <1>13 DEF TypeOK, vars, brokerVars, handlerVars, inputVars, outputVars,
                 historyVars
  <1>14. QED
    BY <1>1, <1>2, <1>3, <1>4, <1>5, <1>6, <1>7, <1>8, <1>9, <1>10, <1>11,
       <1>12, <1>13 DEF Next

-----------------------------------------------------------------------------
(***************************************************************************)
(* The store side of the invariant: arrivals move from a handler into the  *)
(* store and from there into one batch.                                    *)
(***************************************************************************)
StoreSide ==
    /\ Homed /\ Numbered /\ Unsent /\ StoreInv /\ AnsweredInv
    /\ NoArrivalJoinedTwice

(* What a received message adds to the store (main.go:180-182).            *)
LEMMA ReceiveStores ==
    ASSUME TypeOK, NEW a \in Arrivals, Receive(a)
    PROVE  Stored' = Stored \cup {a}
  <1>1. TopicOf[a[1]] \in Topics
    BY TopicAssumption DEF Arrivals, Topics
  <1>2. \A t \in Topics :
            streams'[t] = IF t = TopicOf[a[1]] THEN streams[t] \cup {a}
                                               ELSE streams[t]
    BY DEF Receive, TypeOK
  <1>3. \A b : b \in Stored' <=> \E t \in Topics : b \in streams'[t]
    BY DEF Stored
  <1>4. \A b : b \in Stored' <=> b \in Stored \/ b = a
    BY <1>1, <1>2, <1>3, StoredElement
  <1>5. QED
    BY <1>4

(* What a successful aggregation adds to the batches (main.go:188-199).    *)
LEMMA CloseTakes ==
    ASSUME TypeOK, CloseWindow
    PROVE  /\ Taken' = Taken \cup Stored
           /\ DOMAIN batches' = 1..(Len(batches) + 1)
           /\ DOMAIN batches = 1..Len(batches) /\ Len(batches) \in Nat
           /\ batches'[Len(batches) + 1].window = Stored
           /\ \A k \in DOMAIN batches : batches'[k] = batches[k]
  <1>1. batches \in Seq(Batch)
    BY DEF TypeOK
  <1>2. /\ DOMAIN batches' = 1..(Len(batches) + 1)
        /\ DOMAIN batches = 1..Len(batches) /\ Len(batches) \in Nat
        /\ batches'[Len(batches) + 1] =
               [window |-> Stored, rows |-> JoinRows(streams)]
        /\ \A k \in DOMAIN batches : batches'[k] = batches[k]
    BY <1>1 DEF CloseWindow
  <1>3. batches'[Len(batches) + 1].window = Stored
    BY <1>2
  <1>4. \A a : a \in Taken' <=> \E k \in DOMAIN batches' : a \in batches'[k].window
    BY DEF Taken
  <1>5. \A k : k \in DOMAIN batches' <=> k \in DOMAIN batches \/ k = Len(batches) + 1
    BY <1>2
  <1>6. \A a : a \in Taken' <=> a \in Taken \/ a \in Stored
    BY <1>2, <1>3, <1>4, <1>5, TakenElement
  <1>7. QED
    BY <1>2, <1>3, <1>6

(* reset leaves no arrival behind (main.go:55-60).                         *)
LEMMA ResetEmpties ==
    ASSUME streams' = NoStream
    PROVE  Stored' = {}
  BY DEF Stored, NoStream

(* A step that leaves the store, the batches, the handlers' side and the   *)
(* branch of the input loop alone keeps the store side.                    *)
LEMMA StoreFrame ==
    ASSUME StoreSide, UNCHANGED <<brokerVars, handlerVars, streams, inPc,
                                  batches, lost>>
    PROVE  StoreSide'
  <1>1. Stored' = Stored /\ Taken' = Taken
    BY DEF Stored, Taken
  <1>2. QED
    BY <1>1 DEF StoreSide, Homed, Numbered, Unsent, StoreInv, AnsweredInv,
                AckedIsAccountedFor, NoArrivalJoinedTwice, brokerVars,
                handlerVars

(* The initial state has the store side: nothing is stored, batched, held. *)
LEMMA InitStore == Init => StoreSide
  <1> SUFFICES ASSUME Init PROVE StoreSide
    OBVIOUS
  <1>1. Stored = {} /\ Taken = {}
    BY DEF Init, Stored, Taken, NoStream
  <1>2. Homed
    BY DEF Init, Homed, NoStream
  <1>3. NoArrivalJoinedTwice
    BY DEF Init, NoArrivalJoinedTwice
  <1>4. QED
    BY <1>1, <1>2, <1>3 DEF Init, StoreSide, Numbered, Unsent, StoreInv,
                            AnsweredInv, AckedIsAccountedFor

(* Every step keeps the store side.                                        *)
LEMMA StepStore == TypeOK /\ StoreSide /\ [Next]_vars => StoreSide'
  <1> SUFFICES ASSUME TypeOK, StoreSide, [Next]_vars
               PROVE  StoreSide'
    OBVIOUS
  <1> USE DEF brokerVars, handlerVars, inputVars, outputVars, historyVars
  <1>0. Stored \subseteq Arrivals /\ Taken \subseteq Arrivals
    BY StoredTakenType
  <1>1. ASSUME NEW e \in Events, Deliver(e) PROVE StoreSide'
    <2>1. Stored' = Stored /\ Taken' = Taken
      BY <1>1 DEF Deliver, Stored, Taken
    <2>2. attempts[e] \in Nat
      BY BoundAssumption DEF TypeOK
    <2>3. \A x \in Events : attempts[x] \in Nat /\ attempts'[x] \in Nat
                            /\ attempts[x] <= attempts'[x]
      BY <1>1, BoundAssumption DEF Deliver, TypeOK
    <2>4. \A a \in Arrivals : a[1] \in Events /\ a[2] \in Nat
      BY BoundAssumption DEF Arrivals
    <2>5. attempts'[e] = attempts[e] + 1
      BY <1>1 DEF Deliver, TypeOK
    <2>6. sending \subseteq Arrivals
      BY DEF TypeOK
    <2>7. Numbered'
      <3> SUFFICES ASSUME NEW a \in sending' \cup Stored' \cup Taken'
                   PROVE  a[2] <= attempts'[a[1]]
        BY DEF Numbered
      <3>1. CASE a = <<e, attempts[e] + 1>>
        BY <3>1, <2>2, <2>5
      <3>2. CASE a # <<e, attempts[e] + 1>>
        <4>1. a \in sending \cup Stored \cup Taken
          BY <1>1, <2>1, <3>2 DEF Deliver
        <4>2. a \in Arrivals /\ a[2] <= attempts[a[1]]
          BY <4>1, <2>6, <1>0 DEF StoreSide, Numbered
        <4>3. QED
          BY <4>2, <2>3, <2>4
      <3>3. QED
        BY <3>1, <3>2
    <2>8. Unsent'
      <3>1. <<e, attempts[e] + 1>> \notin Stored \cup Taken
        BY <2>2 DEF StoreSide, Numbered
      <3>2. QED
        BY <3>1, <1>1, <2>1 DEF Deliver, StoreSide, Unsent
    <2>9. QED
      BY <1>1, <2>1, <2>7, <2>8
      DEF Deliver, StoreSide, Homed, StoreInv, AnsweredInv,
          AckedIsAccountedFor, NoArrivalJoinedTwice
  <1>2. ASSUME NEW a \in Arrivals, Receive(a) PROVE StoreSide'
    <2>1. Stored' = Stored \cup {a}
      BY <1>2, ReceiveStores
    <2>2. Taken' = Taken
      BY <1>2 DEF Receive, Taken
    <2>3. a \in sending /\ a \notin Stored /\ a \notin Taken
      BY <1>2 DEF Receive, StoreSide, Unsent
    <2>4. Homed'
      BY <1>2 DEF Receive, TypeOK, StoreSide, Homed
    <2>5. Numbered' /\ Unsent'
      BY <1>2, <2>1, <2>2, <2>3 DEF Receive, StoreSide, Numbered, Unsent
    <2>6. StoreInv'
      BY <1>2, <2>1, <2>2, <2>3 DEF Receive, StoreSide, StoreInv
    <2>7. AnsweredInv'
      BY <1>2, <2>1, <2>2
      DEF Receive, StoreSide, AnsweredInv, AckedIsAccountedFor
    <2>8. NoArrivalJoinedTwice'
      BY <1>2 DEF Receive, StoreSide, NoArrivalJoinedTwice
    <2>9. QED
      BY <2>4, <2>5, <2>6, <2>7, <2>8 DEF StoreSide
  <1>3. ASSUME NEW a \in Arrivals, Answer(a) PROVE StoreSide'
    <2>1. Stored' = Stored /\ Taken' = Taken
      BY <1>3 DEF Answer, Stored, Taken
    <2>2. a = <<a[1], a[2]>> /\ a[2] \in 1..MaxDeliveries
      BY DEF Arrivals
    <2>3. a \in Stored \cup Taken \cup lost
      BY <1>3 DEF Answer, StoreSide, AnsweredInv
    <2>4. AckedIsAccountedFor'
      BY <1>3, <2>1, <2>2, <2>3
      DEF Answer, StoreSide, AnsweredInv, AckedIsAccountedFor
    <2>5. QED
      BY <1>3, <2>1, <2>4
      DEF Answer, StoreSide, Homed, Numbered, Unsent, StoreInv, AnsweredInv,
          NoArrivalJoinedTwice
  <1>4. CASE Tick
    BY <1>4, StoreFrame DEF Tick
  <1>5. CASE CloseWindow
    <2>1. /\ Taken' = Taken \cup Stored
          /\ DOMAIN batches' = 1..(Len(batches) + 1)
          /\ DOMAIN batches = 1..Len(batches) /\ Len(batches) \in Nat
          /\ batches'[Len(batches) + 1].window = Stored
          /\ \A k \in DOMAIN batches : batches'[k] = batches[k]
      BY <1>5, CloseTakes
    <2>2. Stored' = Stored
      BY <1>5 DEF CloseWindow, Stored
    <2>3. Stored \cap Taken = {}
      BY <1>5 DEF CloseWindow, StoreSide, StoreInv
    <2>4. \A k \in DOMAIN batches : batches[k].window \cap Stored = {}
      BY <2>3, TakenElement
    <2>5. \A k \in DOMAIN batches' : k \in DOMAIN batches \/ k = Len(batches) + 1
      BY <2>1
    <2>6. NoArrivalJoinedTwice'
      BY <2>1, <2>4, <2>5 DEF StoreSide, NoArrivalJoinedTwice
    <2>7. QED
      BY <1>5, <2>1, <2>2, <2>6
      DEF CloseWindow, StoreSide, Homed, Numbered, Unsent, StoreInv,
          AnsweredInv, AckedIsAccountedFor
  <1>6. CASE SkipWindow
    BY <1>6, StoreFrame DEF SkipWindow
  <1>7. CASE SendOutput
    <2>1. Stored' = Stored /\ Taken' = Taken
      BY <1>7 DEF SendOutput, Stored, Taken
    <2>2. QED
      BY <1>7, <2>1
      DEF SendOutput, StoreSide, Homed, Numbered, Unsent, StoreInv,
          AnsweredInv, AckedIsAccountedFor, NoArrivalJoinedTwice
  <1>8. CASE Reset
    <2>1. Stored' = {} /\ Taken' = Taken
      BY <1>8, ResetEmpties DEF Reset, Taken
    <2>2. Homed'
      BY <1>8 DEF Reset, Homed, NoStream
    <2>3. Stored \subseteq Taken
      BY <1>8 DEF Reset, StoreSide, StoreInv
    <2>4. QED
      BY <1>8, <2>1, <2>2, <2>3
      DEF Reset, StoreSide, Numbered, Unsent, StoreInv, AnsweredInv,
          AckedIsAccountedFor, NoArrivalJoinedTwice
  <1>9. CASE TakeOutput
    BY <1>9, StoreFrame DEF TakeOutput
  <1>10. CASE Publish
    BY <1>10, StoreFrame DEF Publish
  <1>11. CASE Invoke
    BY <1>11, StoreFrame DEF Invoke
  <1>12. CASE Crash
    <2>1. Stored' = {} /\ Taken' = Taken /\ lost' = lost \cup Stored
      BY <1>12, ResetEmpties DEF Crash, Taken
    <2>2. Homed'
      BY <1>12 DEF Crash, Homed, NoStream
    <2>3. QED
      BY <1>12, <2>1, <2>2
      DEF Crash, StoreSide, Numbered, Unsent, StoreInv, AnsweredInv,
          AckedIsAccountedFor, NoArrivalJoinedTwice
  <1>13. CASE UNCHANGED vars
    BY <1>13, StoreFrame DEF vars
  <1>14. QED
    BY <1>1, <1>2, <1>3, <1>4, <1>5, <1>6, <1>7, <1>8, <1>9, <1>10, <1>11,
       <1>12, <1>13 DEF Next

-----------------------------------------------------------------------------
(***************************************************************************)
(* The order side of the invariant: a batch travels from the input loop    *)
(* through outputChan and the output loop to the targets, and every batch  *)
(* behind it in the line is a later one.                                   *)
(***************************************************************************)
OrderSide == OrderInv /\ DeliveredInOrder

(* What a step that touches nothing in the line keeps.                     *)
LEMMA OrderFrame ==
    ASSUME OrderSide, UNCHANGED <<jsonData, outputChan, outputVars, batches>>,
           inPc' = "send" => inPc = "send"
    PROVE  OrderSide'
  BY DEF OrderSide, OrderInv, DeliveredInOrder, Behind, Increasing, outputVars

(* Nothing has entered the line in the initial state.                      *)
LEMMA InitOrder == Init => OrderSide
  BY DEF Init, OrderSide, OrderInv, DeliveredInOrder, Behind, Increasing

(* Every step keeps the order side.                                        *)
LEMMA StepOrder == TypeOK /\ OrderSide /\ [Next]_vars => OrderSide'
  <1> SUFFICES ASSUME TypeOK, OrderSide, [Next]_vars
               PROVE  OrderSide'
    OBVIOUS
  <1> USE DEF brokerVars, handlerVars, inputVars, historyVars
  <1>0. /\ outputChan \in Seq(Nat) /\ data \in Nat /\ jsonData \in Nat
        /\ published \in Seq(Nat) /\ invoked \in Seq(Nat)
        /\ batches \in Seq(Batch)
        /\ DOMAIN batches = 1..Len(batches) /\ Len(batches) \in Nat
    BY DEF TypeOK
  <1>1. ASSUME NEW e \in Events, Deliver(e) PROVE OrderSide'
    BY <1>1, OrderFrame DEF Deliver
  <1>2. ASSUME NEW a \in Arrivals, Receive(a) PROVE OrderSide'
    BY <1>2, OrderFrame DEF Receive
  <1>3. ASSUME NEW a \in Arrivals, Answer(a) PROVE OrderSide'
    BY <1>3, OrderFrame DEF Answer
  <1>4. CASE Tick
    BY <1>4, OrderFrame DEF Tick
  <1>5. CASE CloseWindow
    <2>1. /\ DOMAIN batches' = 1..(Len(batches) + 1)
          /\ DOMAIN batches \subseteq DOMAIN batches'
          /\ Len(batches') = Len(batches) + 1
      BY <1>0, <1>5, CloseTakes DEF CloseWindow
    <2>2. ASSUME NEW s \in Seq(Nat), \A i \in DOMAIN s : s[i] \in DOMAIN batches
          PROVE  Behind(s, Len(batches) + 1)
      BY <1>0, <2>2 DEF Behind
    <2>3. data < Len(batches) + 1
      <3>1. data = 0 \/ data \in 1..Len(batches)
        BY <1>0 DEF OrderSide, OrderInv
      <3>2. QED
        BY <1>0, <3>1
    <2>4. /\ Behind(outputChan, Len(batches) + 1)
          /\ Behind(published, Len(batches) + 1)
          /\ Behind(invoked, Len(batches) + 1)
      BY <1>0, <2>2 DEF OrderSide, OrderInv, DeliveredInOrder
    <2>5. DeliveredInOrder'
      BY <1>5, <2>1 DEF CloseWindow, OrderSide, DeliveredInOrder, Increasing,
                        outputVars
    <2>6. OrderInv'
      BY <1>0, <1>5, <2>1, <2>3, <2>4
      DEF CloseWindow, OrderSide, OrderInv, Behind, Increasing, outputVars
    <2>7. QED
      BY <2>5, <2>6 DEF OrderSide
  <1>6. CASE SkipWindow
    BY <1>6, OrderFrame DEF SkipWindow
  <1>7. CASE SendOutput
    <2>1. /\ jsonData = Len(batches) /\ jsonData # 0 /\ data < jsonData
          /\ Behind(outputChan, jsonData) /\ Behind(published, jsonData)
          /\ Behind(invoked, jsonData) /\ Increasing(outputChan)
      BY <1>7 DEF SendOutput, OrderSide, OrderInv
    <2>2. /\ DOMAIN outputChan' = 1..(Len(outputChan) + 1)
          /\ DOMAIN outputChan = 1..Len(outputChan) /\ Len(outputChan) \in Nat
          /\ outputChan'[Len(outputChan) + 1] = jsonData
          /\ \A i \in DOMAIN outputChan : outputChan'[i] = outputChan[i]
          /\ Increasing(outputChan')
      BY <1>0, <1>7, <2>1, AppendIncreasing DEF SendOutput
    <2>3. jsonData \in DOMAIN batches
      BY <1>0, <2>1
    <2>4. \A i \in DOMAIN outputChan' : /\ outputChan'[i] \in DOMAIN batches
                                        /\ data < outputChan'[i]
                                        /\ Behind(published, outputChan'[i])
                                        /\ Behind(invoked, outputChan'[i])
      <3>1. \A i \in DOMAIN outputChan : /\ outputChan[i] \in DOMAIN batches
                                         /\ data < outputChan[i]
                                         /\ Behind(published, outputChan[i])
                                         /\ Behind(invoked, outputChan[i])
        BY DEF OrderSide, OrderInv
      <3>2. \A i \in DOMAIN outputChan' :
                \/ outputChan'[i] = jsonData
                \/ \E j \in DOMAIN outputChan : outputChan'[i] = outputChan[j]
        BY <2>2
      <3>3. QED
        BY <2>1, <2>3, <3>1, <3>2
    <2>5. OrderInv'
      BY <1>7, <2>2, <2>4
      DEF SendOutput, OrderSide, OrderInv, Behind, outputVars
    <2>6. DeliveredInOrder'
      BY <1>7 DEF SendOutput, OrderSide, DeliveredInOrder, Increasing,
                  outputVars
    <2>7. QED
      BY <2>5, <2>6 DEF OrderSide
  <1>8. CASE Reset
    BY <1>8, OrderFrame DEF Reset
  <1>9. CASE TakeOutput
    <2>1. /\ data' = outputChan[1] /\ 1 \in DOMAIN outputChan
          /\ DOMAIN outputChan' = 1..(Len(outputChan) - 1)
          /\ DOMAIN outputChan = 1..Len(outputChan) /\ Len(outputChan) \in Nat
          /\ \A i \in DOMAIN outputChan' :
                 outputChan'[i] = outputChan[i + 1] /\ i + 1 \in DOMAIN outputChan
      BY <1>0, <1>9 DEF TakeOutput
    <2>2. data' \in DOMAIN batches /\ Behind(published, data') /\ Behind(invoked, data')
      BY <2>1 DEF OrderSide, OrderInv
    <2>3. Increasing(outputChan')
      BY <2>1 DEF OrderSide, OrderInv, Increasing
    <2>4. \A i \in DOMAIN outputChan' : data' < outputChan'[i]
      BY <2>1 DEF OrderSide, OrderInv, Increasing
    <2>5. \A i \in DOMAIN outputChan' : /\ outputChan'[i] \in DOMAIN batches
                                        /\ Behind(published, outputChan'[i])
                                        /\ Behind(invoked, outputChan'[i])
      BY <2>1 DEF OrderSide, OrderInv
    <2>6. inPc = "send" => data' < jsonData /\ Behind(outputChan', jsonData)
      BY <2>1 DEF OrderSide, OrderInv, Behind
    <2>7. outPc' # "select"
      BY <1>9 DEF TakeOutput
    <2>8. OrderInv'
      BY <1>9, <2>2, <2>3, <2>4, <2>5, <2>6, <2>7
      DEF TakeOutput, OrderSide, OrderInv, Behind
    <2>9. DeliveredInOrder'
      BY <1>9 DEF TakeOutput, OrderSide, DeliveredInOrder, Increasing
    <2>10. QED
      BY <2>8, <2>9 DEF OrderSide
  <1>10. CASE Publish
    <2>1. CASE published' = published
      <3>1. OrderInv'
        BY <1>10, <2>1 DEF Publish, OrderSide, OrderInv, Behind, Increasing
      <3>2. DeliveredInOrder'
        BY <1>10, <2>1 DEF Publish, OrderSide, DeliveredInOrder, Increasing
      <3>3. QED
        BY <3>1, <3>2 DEF OrderSide
    <2>2. CASE published' = Append(published, data)
      <3>1. Behind(published, data) /\ data \in DOMAIN batches /\ Behind(invoked, data)
        BY <1>10 DEF Publish, OrderSide, OrderInv
      <3>2. /\ DOMAIN published' = 1..(Len(published) + 1)
            /\ DOMAIN published = 1..Len(published) /\ Len(published) \in Nat
            /\ published'[Len(published) + 1] = data
            /\ \A i \in DOMAIN published : published'[i] = published[i]
            /\ Increasing(published')
        BY <1>0, <2>2, <3>1, AppendIncreasing DEF OrderSide, DeliveredInOrder
      <3>3. \A i \in DOMAIN published' : published'[i] \in DOMAIN batches
        BY <3>1, <3>2 DEF OrderSide, DeliveredInOrder
      <3>4. DeliveredInOrder'
        BY <1>10, <3>2, <3>3
        DEF Publish, OrderSide, DeliveredInOrder, Increasing
      <3>5. inPc = "send" => Behind(published', jsonData)
        BY <1>0, <2>2, AppendBehind DEF OrderSide, OrderInv
      <3>6. \A i \in DOMAIN outputChan : Behind(published', outputChan[i])
        <4>1. \A i \in DOMAIN outputChan : outputChan[i] \in Nat
          BY <1>0
        <4>2. QED
          BY <1>0, <2>2, <4>1, AppendBehind DEF OrderSide, OrderInv
      <3>7. OrderInv'
        BY <1>10, <3>1, <3>5, <3>6
        DEF Publish, OrderSide, OrderInv, Behind, Increasing
      <3>8. QED
        BY <3>4, <3>7 DEF OrderSide
    <2>3. QED
      BY <1>10, <2>1, <2>2 DEF Publish
  <1>11. CASE Invoke
    <2>0. /\ inPc = "send" => 0 < jsonData
          /\ \A i \in DOMAIN outputChan : 0 < outputChan[i]
      <3>1. /\ inPc = "send" => data < jsonData
            /\ \A i \in DOMAIN outputChan : data < outputChan[i]
        BY DEF OrderSide, OrderInv
      <3>2. \A i \in DOMAIN outputChan : outputChan[i] \in Nat
        BY <1>0
      <3>3. QED
        BY <1>0, <3>1, <3>2
    <2>1. CASE invoked' = invoked
      <3>1. OrderInv'
        BY <1>11, <2>0, <2>1 DEF Invoke, OrderSide, OrderInv, Behind, Increasing
      <3>2. DeliveredInOrder'
        BY <1>11, <2>1 DEF Invoke, OrderSide, DeliveredInOrder, Increasing
      <3>3. QED
        BY <3>1, <3>2 DEF OrderSide
    <2>2. CASE invoked' = Append(invoked, data)
      <3>1. data \in DOMAIN batches /\ Behind(invoked, data)
        BY <1>11 DEF Invoke, OrderSide, OrderInv
      <3>2. /\ DOMAIN invoked' = 1..(Len(invoked) + 1)
            /\ DOMAIN invoked = 1..Len(invoked) /\ Len(invoked) \in Nat
            /\ invoked'[Len(invoked) + 1] = data
            /\ \A i \in DOMAIN invoked : invoked'[i] = invoked[i]
            /\ Increasing(invoked')
        BY <1>0, <2>2, <3>1, AppendIncreasing DEF OrderSide, DeliveredInOrder
      <3>3. \A i \in DOMAIN invoked' : invoked'[i] \in DOMAIN batches
        BY <3>1, <3>2 DEF OrderSide, DeliveredInOrder
      <3>4. DeliveredInOrder'
        BY <1>11, <3>2, <3>3
        DEF Invoke, OrderSide, DeliveredInOrder, Increasing
      <3>5. inPc = "send" => Behind(invoked', jsonData)
        BY <1>0, <2>2, AppendBehind DEF OrderSide, OrderInv
      <3>6. \A i \in DOMAIN outputChan : Behind(invoked', outputChan[i])
        <4>1. \A i \in DOMAIN outputChan : outputChan[i] \in Nat
          BY <1>0
        <4>2. QED
          BY <1>0, <2>2, <4>1, AppendBehind DEF OrderSide, OrderInv
      <3>7. OrderInv'
        BY <1>11, <2>0, <3>5, <3>6
        DEF Invoke, OrderSide, OrderInv, Behind, Increasing
      <3>8. QED
        BY <3>4, <3>7 DEF OrderSide
    <2>3. QED
      BY <1>11, <2>1, <2>2 DEF Invoke
  <1>12. CASE Crash
    <2>1. OrderInv'
      BY <1>12 DEF Crash, OrderInv, Increasing
    <2>2. DeliveredInOrder'
      BY <1>12 DEF Crash, OrderSide, DeliveredInOrder, Increasing
    <2>3. QED
      BY <2>1, <2>2 DEF OrderSide
  <1>13. CASE UNCHANGED vars
    BY <1>13, OrderFrame DEF vars
  <1>14. QED
    BY <1>1, <1>2, <1>3, <1>4, <1>5, <1>6, <1>7, <1>8, <1>9, <1>10, <1>11,
       <1>12, <1>13 DEF Next

-----------------------------------------------------------------------------
(***************************************************************************)
(* The theorems.                                                           *)
(***************************************************************************)

(* The inductive invariant holds in every reachable state.                 *)
THEOREM InductiveInvariant == Spec => []IInv
  <1>1. Init => IInv
    BY InitType, InitStore, InitOrder DEF IInv, StoreSide, OrderSide
  <1>2. IInv /\ [Next]_vars => IInv'
    BY StepType, StepStore, StepOrder DEF IInv, StoreSide, OrderSide
  <1>3. QED
    BY <1>1, <1>2, PTL DEF Spec

(* TypeOK holds in every reachable state: in particular outputChan never   *)
(* holds more than its buffer (main.go:80).                                *)
THEOREM TypeCorrect == Spec => []TypeOK
  <1>1. QED
    BY InitType, StepType, PTL DEF Spec

(* No acknowledged message is forgotten other than by a crash: it is       *)
(* stored, or in a batch (makeEventHandler and startInputLoop).            *)
THEOREM AckedSafe == Spec => []AckedIsAccountedFor
  <1>1. IInv => AckedIsAccountedFor
    BY DEF IInv, AnsweredInv
  <1>2. QED
    BY <1>1, InductiveInvariant, PTL

(* No arrival is in the windows of two batches, however the handlers and   *)
(* the input loop interleave (startInputLoop).                             *)
THEOREM JoinedOnce == Spec => []NoArrivalJoinedTwice
  <1>1. IInv => NoArrivalJoinedTwice
    BY DEF IInv
  <1>2. QED
    BY <1>1, InductiveInvariant, PTL

(* Each target gets batches in the order they were computed and none       *)
(* twice, for every capacity of outputChan (startOutputLoop).              *)
THEOREM InOrder == Spec => []DeliveredInOrder
  <1>1. IInv => DeliveredInOrder
    BY DEF IInv
  <1>2. QED
    BY <1>1, InductiveInvariant, PTL

(* No step makes an arrival disappear that no batch was made of, but for a *)
(* crash: reset drops exactly what the last batch took (main.go:195-201).  *)
THEOREM DroppedOnlyIfJoined == Spec => NothingDroppedUnjoined
  <1>1. ASSUME IInv, [Next]_vars
        PROVE  Stored \subseteq Stored' \cup Taken' \cup lost'
    <2>1. ASSUME UNCHANGED streams PROVE Stored' = Stored
      BY <2>1 DEF Stored
    <2>2. ASSUME NEW a \in Arrivals, Receive(a) PROVE Stored \subseteq Stored'
      <3>1. TypeOK
        BY <1>1 DEF IInv
      <3>2. Stored' = Stored \cup {a}
        BY <2>2, <3>1, ReceiveStores
      <3>3. QED
        BY <3>2
    <2>3. ASSUME Reset PROVE Stored \subseteq Taken'
      <3>1. Taken' = Taken
        BY <2>3 DEF Reset, Taken
      <3>2. StoreInv /\ inPc = "reset"
        BY <1>1, <2>3 DEF Reset, IInv
      <3>3. QED
        BY <3>1, <3>2 DEF StoreInv
    <2>4. ASSUME Crash PROVE Stored \subseteq lost'
      BY <2>4 DEF Crash
    <2>5. UNCHANGED streams \/ (\E a \in Arrivals : Receive(a)) \/ Reset \/ Crash
      BY <1>1
      DEF Next, vars, inputVars, Deliver, Answer, Tick, CloseWindow,
          SkipWindow, SendOutput, TakeOutput, Publish, Invoke
    <2>6. QED
      BY <2>1, <2>2, <2>3, <2>4, <2>5
  <1>2. IInv /\ [Next]_vars => [Stored \subseteq Stored' \cup Taken' \cup lost']_vars
    BY <1>1
  <1>3. QED
    BY <1>2, InductiveInvariant, PTL DEF Spec, NothingDroppedUnjoined

-----------------------------------------------------------------------------
(***************************************************************************)
(* The joiner implements WindowJoin.                                       *)
(***************************************************************************)

(* Joining the two topics' streams is joining the pool by topic: an        *)
(* arrival is stored under its own topic (main.go:182, 268-276).           *)
LEMMA RowsOfStore ==
    ASSUME TypeOK, Homed
    PROVE  RowsOf(Stored) = JoinRows(streams)
  <1>1. \A t \in Topics : streams[t] \subseteq Stored
    BY StoredElement
  <1>2. \A a \in Stored : a \in streams[TopicOf[a[1]]]
    BY StoredElement DEF Homed
  <1>3. TopicA \in Topics /\ TopicB \in Topics
    BY DEF Topics
  <1>4. \A a \in streams[TopicA] : TopicOf[a[1]] = TopicA
    BY <1>3 DEF Homed
  <1>5. \A b \in streams[TopicB] : TopicOf[b[1]] = TopicB
    BY <1>3 DEF Homed
  <1>6. ASSUME NEW a, NEW b
        PROVE  <<a, b>> \in RowsOf(Stored) <=> <<a, b>> \in JoinRows(streams)
    <2>1. <<a, b>> \in RowsOf(Stored) <=>
              /\ a \in Stored /\ b \in Stored
              /\ TopicOf[a[1]] = TopicA /\ TopicOf[b[1]] = TopicB
              /\ shouldCollect(<<a, b>>)
      BY DEF RowsOf
    <2>2. <<a, b>> \in JoinRows(streams) <=>
              /\ a \in streams[TopicA] /\ b \in streams[TopicB]
              /\ shouldCollect(<<a, b>>)
      BY DEF JoinRows, Pairs
    <2>3. QED
      BY <2>1, <2>2, <1>1, <1>2, <1>3, <1>4, <1>5
  <1>7. RowsOf(Stored) \subseteq Stored \X Stored
    BY DEF RowsOf
  <1>8. JoinRows(streams) \subseteq streams[TopicA] \X streams[TopicB]
    BY DEF JoinRows, Pairs
  <1>9. QED
    BY <1>6, <1>7, <1>8

(* The joiner starts with an empty pool, an empty log and nothing sent.    *)
LEMMA InitRefines == Init => WJ!Init
  <1> SUFFICES ASSUME Init PROVE WJ!Init
    OBVIOUS
  <1>1. Pool = {}
    BY DEF Init, Pool, Stored, NoStream
  <1>2. Delivered = [t \in {"stream", "component"} |-> <<>>]
    BY DEF Init, Delivered
  <1>3. QED
    BY <1>1, <1>2 DEF Init, WJ!Init

(* A step that changes neither pool, log nor what targets got stutters.    *)
LEMMA StutterRefines ==
    ASSUME UNCHANGED <<Pool, batches, published, invoked>>
    PROVE  UNCHANGED WJ!vars
  BY DEF WJ!vars, Delivered

(* Every step of the joiner is a step of WindowJoin or stutters.           *)
LEMMA StepRefines == IInv /\ [Next]_vars => [WJ!Next]_(WJ!vars)
  <1> SUFFICES ASSUME IInv, [Next]_vars
               PROVE  WJ!Next \/ UNCHANGED WJ!vars
    OBVIOUS
  <1> USE DEF brokerVars, handlerVars, inputVars, outputVars, historyVars
  <1>0. TypeOK /\ Homed /\ Unsent /\ StoreInv /\ OrderInv
    BY DEF IInv
  <1>a. ASSUME UNCHANGED streams PROVE Stored' = Stored
    BY <1>a DEF Stored
  <1>1. ASSUME NEW e \in Events, Deliver(e) PROVE UNCHANGED WJ!vars
    BY <1>1, <1>a, StutterRefines DEF Deliver, Pool
  <1>2. ASSUME NEW a \in Arrivals, Receive(a) PROVE WJ!Accept(a)
    <2>1. a \notin Stored /\ a \notin Taken
      BY <1>0, <1>2 DEF Receive, Unsent
    <2>2. Stored' = Stored \cup {a}
      BY <1>0, <1>2, ReceiveStores
    <2>3. Pool = Stored /\ Pool' = Stored'
      BY <1>2 DEF Receive, Pool
    <2>4. \A k \in DOMAIN batches : a \notin batches[k].window
      BY <2>1, TakenElement
    <2>5. batches' = batches /\ Delivered' = Delivered
      BY <1>2 DEF Receive, Delivered
    <2>6. QED
      BY <2>1, <2>2, <2>3, <2>4, <2>5 DEF WJ!Accept
  <1>3. ASSUME NEW a \in Arrivals, Answer(a) PROVE UNCHANGED WJ!vars
    BY <1>3, <1>a, StutterRefines DEF Answer, Pool
  <1>4. CASE Tick
    BY <1>4, <1>a, StutterRefines DEF Tick, Pool
  <1>5. ASSUME CloseWindow PROVE WJ!Close
    <2>1. RowsOf(Stored) = JoinRows(streams)
      BY <1>0, RowsOfStore
    <2>2. Pool = Stored /\ Pool' = {}
      BY <1>5 DEF CloseWindow, Pool
    <2>3. batches' = Append(batches, [window |-> Stored,
                                      rows   |-> JoinRows(streams)])
          /\ JoinRows(streams) # {}
      BY <1>5 DEF CloseWindow, Aggregates
    <2>4. Delivered' = Delivered
      BY <1>5 DEF CloseWindow, Delivered
    <2>5. QED
      BY <2>1, <2>2, <2>3, <2>4 DEF WJ!Close
  <1>6. CASE SkipWindow
    BY <1>6, <1>a, StutterRefines DEF SkipWindow, Pool
  <1>7. CASE SendOutput
    BY <1>7, StutterRefines DEF SendOutput, Pool
  <1>8. CASE Reset
    <2>1. Stored' = {}
      BY <1>8, ResetEmpties DEF Reset
    <2>2. QED
      BY <1>8, <2>1, StutterRefines DEF Reset, Pool
  <1>9. CASE TakeOutput
    BY <1>9, <1>a, StutterRefines DEF TakeOutput, Pool
  <1>10. CASE Publish
    <2>1. Pool' = Pool /\ batches' = batches /\ invoked' = invoked
      BY <1>10, <1>a DEF Publish, Pool
    <2>2. CASE published' = published
      BY <2>1, <2>2, StutterRefines
    <2>3. ASSUME published' = Append(published, data) PROVE WJ!Deliver("stream")
      <3>1. data \in DOMAIN batches /\ Behind(published, data)
        BY <1>0, <1>10 DEF Publish, OrderInv
      <3>2. Delivered["stream"] = published
        BY DEF Delivered
      <3>3. Delivered' = [Delivered EXCEPT !["stream"] = Append(@, data)]
        BY <2>1, <2>3 DEF Delivered
      <3>4. QED
        BY <2>1, <3>1, <3>2, <3>3 DEF WJ!Deliver, Behind
    <2>4. QED
      BY <1>10, <2>2, <2>3 DEF Publish, WJ!Next
  <1>11. CASE Invoke
    <2>1. Pool' = Pool /\ batches' = batches /\ published' = published
      BY <1>11, <1>a DEF Invoke, Pool
    <2>2. CASE invoked' = invoked
      BY <2>1, <2>2, StutterRefines
    <2>3. ASSUME invoked' = Append(invoked, data) PROVE WJ!Deliver("component")
      <3>1. data \in DOMAIN batches /\ Behind(invoked, data)
        BY <1>0, <1>11 DEF Invoke, OrderInv
      <3>2. Delivered["component"] = invoked
        BY DEF Delivered
      <3>3. Delivered' = [Delivered EXCEPT !["component"] = Append(@, data)]
        BY <2>1, <2>3 DEF Delivered
      <3>4. QED
        BY <2>1, <3>1, <3>2, <3>3 DEF WJ!Deliver, Behind
    <2>4. QED
      BY <1>11, <2>2, <2>3 DEF Invoke, WJ!Next
  <1>12. ASSUME Crash PROVE WJ!Forget
    <2>1. Stored' = {}
      BY <1>12, ResetEmpties DEF Crash
    <2>2. Pool' = {} /\ batches' = batches /\ Delivered' = Delivered
      BY <1>12, <2>1 DEF Crash, Pool, Delivered
    <2>3. QED
      BY <2>2 DEF WJ!Forget
  <1>13. CASE UNCHANGED vars
    BY <1>13, <1>a, StutterRefines DEF vars, Pool
  <1>14. QED
    BY <1>1, <1>2, <1>3, <1>4, <1>5, <1>6, <1>7, <1>8, <1>9, <1>10, <1>11,
       <1>12, <1>13 DEF Next, WJ!Next

(* The joiner, handlers, loops, queue and restarts included, is a windowed *)
(* join: one that closes a window in a single step.                        *)
THEOREM Refinement == Spec => ImplementsWindowJoin
  <1>1. QED
    BY InitRefines, StepRefines, InductiveInvariant, PTL
    DEF Spec, ImplementsWindowJoin, WJ!Spec

-----------------------------------------------------------------------------
(***************************************************************************)
(* Everyone waiting on everyone.                                           *)
(***************************************************************************)

\* A handler has not answered, or a loop is not waiting for input.
Busy ==
    \/ sending # {} \/ returning # {} \/ inPc # "select"
    \/ outputChan # <<>> \/ outPc # "select"

\* The guards of Receive, Answer, SendOutput, Reset, TakeOutput and of the
\* calls of the targets: no tick, no delivery and no crash is needed.
CanMove ==
    \/ inPc = "select" /\ sending # {}
    \/ returning # {}
    \/ inPc = "send" /\ Len(outputChan) < OutputCapacity
    \/ inPc = "reset"
    \/ outPc = "select" /\ outputChan # <<>>
    \/ outPc \in {"publish", "invoke"}

(* Handlers wait for the input loop, and that for room in outputChan, only *)
(* while the output loop is at work: whatever the capacity, something can  *)
(* go on without another tick or delivery (main.go:169, 199, 220).          *)
THEOREM NoStandstill == Spec => [](Busy => CanMove)
  <1>1. ASSUME TypeOK, Busy PROVE CanMove
    <2>1. /\ outputChan \in Seq(Nat) /\ 0 < OutputCapacity
          /\ inPc \in {"select", "send", "reset"}
          /\ outPc \in {"select", "publish", "invoke"}
      BY <1>1, BoundAssumption DEF TypeOK
    <2>2. outputChan = <<>> => Len(outputChan) < OutputCapacity
      BY <2>1
    <2>3. QED
      BY <1>1, <2>1, <2>2 DEF Busy, CanMove
  <1>2. QED
    BY <1>1, TypeCorrect, PTL
=============================================================================
