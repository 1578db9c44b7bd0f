--------------------------- MODULE ChannelProofs ---------------------------
(***************************************************************************)
(* Proofs about the channel for every set of events, every outcome of the  *)
(* filter and the projection, all capacities and every number of calls and *)
(* restarts.                                                               *)
(***************************************************************************)
EXTENDS Channel, LinesProofs

(***************************************************************************)
(* The inductive invariant.                                                *)
(***************************************************************************)

\* Positions up to Done have been taken from inputChan; the rest is in it.
Done == Len(received) - Len(inputChan)

\* A position behind inputChan whose event the filter accepts.
Accepted(k) == k \in 1..Done /\ shouldCollect(received[k])

\* The later steps of the line have not seen k or anything after it.
Ahead(k) == data < k /\ Behind(published, k) /\ Behind(invoked, k)

InputInv ==
    /\ Len(inputChan) <= Len(received)
    /\ \A i \in DOMAIN inputChan : inputChan[i] = Done + i
    /\ inPc = "send" =>
           Accepted(event) /\ Ahead(event) /\ Behind(outputChan, event)

OutputInv ==
    /\ Increasing(outputChan)
    /\ \A i \in DOMAIN outputChan :
           Accepted(outputChan[i]) /\ Ahead(outputChan[i])
    /\ outPc = "select" => data = 0
    /\ outPc # "select" => Accepted(data) /\ Behind(invoked, data)
    /\ outPc = "publish" => Behind(published, data)

TargetInv ==
    \A s \in {published, invoked} :
        Increasing(s) /\ \A i \in DOMAIN s : Accepted(s[i])

LineInv == InputInv /\ OutputInv /\ TargetInv

HandedOver ==
    \A a \in returning \cup answered : \E k \in DOMAIN received : received[k] = a

\* A handler puts its event on inputChan once, and only if it was called.
Fresh ==
    /\ \A a \in sending : /\ a[2] <= attempts[a[1]]
                          /\ \A k \in DOMAIN received : received[k] # a
    /\ \A k \in DOMAIN received : received[k][2] <= attempts[received[k][1]]
    /\ \A j, k \in DOMAIN received : received[j] = received[k] => j = k

\* The output loop only calls targets that are set.
CallsTargets ==
    /\ outPc = "publish" => StreamTarget
    /\ outPc = "invoke" => ComponentTarget

IInv ==
    /\ TypeOK /\ LineInv /\ NothingSkipped /\ HandedOver
    /\ Fresh /\ CallsTargets

-----------------------------------------------------------------------------
(***************************************************************************)
(* Types.                                                                  *)
(***************************************************************************)

(* The initial state is well typed.                                        *)
LEMMA InitType == Init => TypeOK
  <1> SUFFICES ASSUME Init PROVE TypeOK
    OBVIOUS
  <1> USE BoundAssumption
  <1>1. attempts \in [Events -> 0..MaxCalls] /\ crashes \in 0..MaxCrashes
    BY DEF Init
  <1>2. /\ inputChan \in Seq(Nat) /\ outputChan \in Seq(Nat)
        /\ published \in Seq(Nat) /\ invoked \in Seq(Nat)
        /\ received \in Seq(Invocations)
    BY DEF Init
  <1>3. Len(inputChan) <= InputCapacity /\ Len(outputChan) <= OutputCapacity
    BY DEF Init
  <1>4. QED
    BY <1>1, <1>2, <1>3 DEF Init, TypeOK

(* The positions a crash wipes are numbers.                                *)
LEMMA LostType ==
    ASSUME TypeOK
    PROVE  {k \in DOMAIN received : \E t \in Targets : Pending(t, k)} \subseteq Nat
  <1>1. DOMAIN received \subseteq Nat
    BY DEF TypeOK
  <1>2. QED
    BY <1>1

(* Every step keeps the types and the capacities of both buffers.          *)
LEMMA StepType == TypeOK /\ [Next]_vars => TypeOK'
  <1> SUFFICES ASSUME TypeOK, [Next]_vars
               PROVE  TypeOK'
    OBVIOUS
  <1> USE BoundAssumption DEF callerVars, handlerVars, inputVars, outputVars
  <1>1. ASSUME NEW e \in Events, Call(e) PROVE TypeOK'
    <2>1. attempts[e] + 1 \in 1..MaxCalls
      BY <1>1 DEF Call, TypeOK
    <2>2. <<e, attempts[e] + 1>> \in Invocations
      BY <2>1 DEF Invocations
    <2>3. attempts' \in [Events -> 0..MaxCalls]
      BY <1>1, <2>1 DEF Call, TypeOK
    <2>4. QED
      BY <1>1, <2>2, <2>3 DEF Call, TypeOK
  <1>2. ASSUME NEW a \in Invocations, Enqueue(a) PROVE TypeOK'
    <2>1. /\ received \in Seq(Invocations) /\ Len(received) + 1 \in Nat
          /\ inputChan \in Seq(Nat)
      BY DEF TypeOK
    <2>2. inputChan' \in Seq(Nat) /\ Len(inputChan') <= InputCapacity
      BY <1>2, <2>1 DEF Enqueue
    <2>3. received' \in Seq(Invocations)
      BY <1>2, <2>1 DEF Enqueue
    <2>4. QED
      BY <1>2, <2>2, <2>3 DEF Enqueue, TypeOK
  <1>3. ASSUME NEW a \in Invocations, Answer(a) PROVE TypeOK'
    BY <1>3 DEF Answer, TypeOK
  <1>4. CASE Drop
    <2>1. inputChan' \in Seq(Nat) /\ Len(inputChan') <= InputCapacity
      BY <1>4 DEF Drop, TypeOK
    <2>2. QED
      BY <1>4, <2>1 DEF Drop, TypeOK
  <1>5. CASE Process
    <2>1. inputChan \in Seq(Nat) /\ inputChan # <<>> /\ Len(inputChan) <= InputCapacity
      BY <1>5 DEF Process, TypeOK
    <2>2. inputChan' \in Seq(Nat) /\ Len(inputChan') <= InputCapacity
      BY <1>5, <2>1 DEF Process
    <2>3. Head(inputChan) \in Nat
      BY <2>1
    <2>4. event' \in Nat /\ inPc' = "send"
      BY <1>5, <2>3 DEF Process
    <2>5. counter' \in Nat
      BY <1>5 DEF Process, TypeOK
    <2>6. UNCHANGED <<callerVars, handlerVars, outputChan, outputVars, crashes,
                      received, lost>>
      BY <1>5 DEF Process
    <2>7. QED
      BY <2>2, <2>4, <2>5, <2>6 DEF TypeOK
  <1>6. CASE Send
    <2>1. outputChan' \in Seq(Nat) /\ Len(outputChan') <= OutputCapacity
      BY <1>6 DEF Send, TypeOK
    <2>2. QED
      BY <1>6, <2>1 DEF Send, TypeOK
  <1>7. CASE TakeOutput
    <2>1. /\ outputChan' \in Seq(Nat) /\ Len(outputChan') <= OutputCapacity
          /\ data' \in Nat
      BY <1>7 DEF TakeOutput, TypeOK
    <2>2. QED
      BY <1>7, <2>1 DEF TakeOutput, TypeOK
  <1>8. CASE Publish
    <2>1. data \in Nat /\ published \in Seq(Nat)
      BY DEF TypeOK
    <2>2. Append(published, data) \in Seq(Nat)
      BY <2>1
    <2>3. published' \in {published, Append(published, data)}
      BY <1>8 DEF Publish
    <2>4. published' \in Seq(Nat)
      BY <2>1, <2>2, <2>3
    <2>5. refused' \subseteq {"stream", "component"} \X Nat
      BY <1>8, <2>1 DEF Publish, TypeOK
    <2>6. data' \in Nat /\ outPc' \in {"invoke", "select"}
      BY <1>8, <2>1 DEF Publish
    <2>7. QED
      BY <1>8, <2>4, <2>5, <2>6 DEF Publish, TypeOK
  <1>9. CASE Invoke
    <2>1. data \in Nat /\ invoked \in Seq(Nat)
      BY DEF TypeOK
    <2>2. Append(invoked, data) \in Seq(Nat)
      BY <2>1
    <2>3. invoked' \in {invoked, Append(invoked, data)}
      BY <1>9 DEF Invoke
    <2>4. invoked' \in Seq(Nat)
      BY <2>1, <2>2, <2>3
    <2>5. refused' \subseteq {"stream", "component"} \X Nat
      BY <1>9, <2>1 DEF Invoke, TypeOK
    <2>6. QED
      BY <1>9, <2>4, <2>5 DEF Invoke, TypeOK
  <1>10. CASE Crash
    <2>1. crashes' \in 0..MaxCrashes
      BY <1>10 DEF Crash, TypeOK
    <2>2. /\ inputChan' \in Seq(Nat) /\ Len(inputChan') <= InputCapacity
          /\ outputChan' \in Seq(Nat) /\ Len(outputChan') <= OutputCapacity
      BY <1>10 DEF Crash
    <2>3. lost' \subseteq Nat
      BY <1>10, LostType DEF Crash, TypeOK
    <2>4. QED
      BY <1>10, <2>1, <2>2, <2>3 DEF Crash, TypeOK
  <1>11. CASE UNCHANGED vars
    BY <1>11 DEF vars, TypeOK
  <1>12. QED
    BY <1>1, <1>2, <1>3, <1>4, <1>5, <1>6, <1>7, <1>8, <1>9, <1>10, <1>11
    DEF Next

-----------------------------------------------------------------------------
(***************************************************************************)
(* The line of positions.                                                  *)
(***************************************************************************)

(* The numbers behind the invariant, from the types.                       *)
LEMMA LineTypes ==
    ASSUME TypeOK, InputInv
    PROVE  /\ inputChan \in Seq(Nat) /\ outputChan \in Seq(Nat)
           /\ published \in Seq(Nat) /\ invoked \in Seq(Nat)
           /\ event \in Nat /\ data \in Nat
           /\ received \in Seq(Invocations)
           /\ DOMAIN received = 1..Len(received) /\ Len(received) \in Nat
           /\ DOMAIN inputChan = 1..Len(inputChan) /\ Len(inputChan) \in Nat
           /\ Done \in Nat /\ Done <= Len(received)
  <1>1. /\ inputChan \in Seq(Nat) /\ outputChan \in Seq(Nat)
        /\ published \in Seq(Nat) /\ invoked \in Seq(Nat)
        /\ event \in Nat /\ data \in Nat
        /\ received \in Seq(Invocations)
    BY DEF TypeOK
  <1>2. /\ DOMAIN received = 1..Len(received) /\ Len(received) \in Nat
        /\ DOMAIN inputChan = 1..Len(inputChan) /\ Len(inputChan) \in Nat
    BY <1>1
  <1>3. QED
    BY <1>1, <1>2 DEF InputInv, Done

(* What a handler's send does to the history (main.go:130).                *)
LEMMA EnqueueAdds ==
    ASSUME TypeOK, InputInv, NEW a \in Invocations, Enqueue(a)
    PROVE  /\ Len(received') = Len(received) + 1
           /\ DOMAIN received' = 1..(Len(received) + 1)
           /\ received'[Len(received) + 1] = a
           /\ \A k \in DOMAIN received : received'[k] = received[k]
           /\ Len(inputChan') = Len(inputChan) + 1
           /\ DOMAIN inputChan' = 1..(Len(inputChan) + 1)
           /\ inputChan'[Len(inputChan) + 1] = Len(received) + 1
           /\ \A j \in DOMAIN inputChan : inputChan'[j] = inputChan[j]
           /\ Done' = Done
  <1>1. /\ received \in Seq(Invocations) /\ inputChan \in Seq(Nat)
        /\ Len(received) + 1 \in Nat
        /\ Len(received) \in Nat /\ Len(inputChan) \in Nat
    BY LineTypes
  <1>2. /\ received' = Append(received, a)
        /\ inputChan' = Append(inputChan, Len(received) + 1)
    BY DEF Enqueue
  <1>3. /\ Len(received') = Len(received) + 1
        /\ DOMAIN received' = 1..(Len(received) + 1)
        /\ received'[Len(received) + 1] = a
        /\ \A k \in DOMAIN received : received'[k] = received[k]
    BY <1>1, <1>2
  <1>4. /\ Len(inputChan') = Len(inputChan) + 1
        /\ DOMAIN inputChan' = 1..(Len(inputChan) + 1)
        /\ inputChan'[Len(inputChan) + 1] = Len(received) + 1
        /\ \A j \in DOMAIN inputChan : inputChan'[j] = inputChan[j]
    BY <1>1, <1>2
  <1>5. QED
    BY <1>1, <1>3, <1>4 DEF Done

(* What the processing loop takes from inputChan is the next position.     *)
LEMMA InputHead ==
    ASSUME TypeOK, InputInv, inputChan # <<>>, inputChan' = Tail(inputChan),
           received' = received
    PROVE  /\ Head(inputChan) = Done + 1 /\ Done + 1 \in DOMAIN received
           /\ Done' = Done + 1 /\ Done \in Nat
           /\ Len(inputChan') <= Len(received)
           /\ \A i \in DOMAIN inputChan' : inputChan'[i] = Done' + i
  <1>1. /\ inputChan \in Seq(Nat) /\ received \in Seq(Invocations)
        /\ DOMAIN received = 1..Len(received) /\ Len(received) \in Nat
        /\ DOMAIN inputChan = 1..Len(inputChan) /\ Len(inputChan) \in Nat
        /\ Done \in Nat /\ Len(inputChan) <= Len(received)
    BY LineTypes DEF InputInv
  <1>2. /\ Head(inputChan) = inputChan[1] /\ 1 \in DOMAIN inputChan
        /\ Len(inputChan') = Len(inputChan) - 1
        /\ DOMAIN inputChan' = 1..(Len(inputChan) - 1)
        /\ \A i \in DOMAIN inputChan' : /\ inputChan'[i] = inputChan[i + 1]
                                        /\ i + 1 \in DOMAIN inputChan
    BY <1>1
  <1>3. Head(inputChan) = Done + 1
    BY <1>2 DEF InputInv
  <1>4. Done' = Done + 1 /\ Done + 1 \in DOMAIN received
    BY <1>1, <1>2 DEF Done
  <1>5. \A i \in DOMAIN inputChan' : inputChan'[i] = Done' + i
    BY <1>1, <1>2, <1>4 DEF InputInv
  <1>6. QED
    BY <1>1, <1>2, <1>3, <1>4, <1>5

(* A position once accepted stays so.                                      *)
LEMMA AcceptedStays ==
    ASSUME TypeOK, InputInv, Done' \in Nat, Done <= Done',
           \A k \in DOMAIN received : received'[k] = received[k]
    PROVE  \A k : Accepted(k) => Accepted(k)'
  <1>1. Done \in Nat /\ Done <= Len(received) /\ DOMAIN received = 1..Len(received)
        /\ Len(received) \in Nat
    BY LineTypes
  <1>2. ASSUME NEW k, Accepted(k) PROVE Accepted(k)'
    <2>1. k \in 1..Done' /\ k \in DOMAIN received
      BY <1>1, <1>2 DEF Accepted
    <2>2. QED
      BY <1>2, <2>1 DEF Accepted, shouldCollect
  <1>3. QED
    BY <1>2

(* A step that leaves the line alone.                                      *)
LEMMA LineFrame ==
    ASSUME LineInv,
           UNCHANGED <<inputChan, inputVars, outputChan, outputVars, received>>
    PROVE  LineInv'
  BY DEF LineInv, InputInv, OutputInv, TargetInv, Accepted, Ahead, Done,
         Behind, Increasing, shouldCollect, inputVars, outputVars

(* The line is empty in the initial state.                                 *)
LEMMA InitLine == Init => LineInv
  BY DEF Init, LineInv, InputInv, OutputInv, TargetInv, Done, Increasing

(* Every step keeps the line in order.                                     *)
LEMMA StepLine == TypeOK /\ LineInv /\ [Next]_vars => LineInv'
  <1> SUFFICES ASSUME TypeOK, LineInv, [Next]_vars
               PROVE  LineInv'
    OBVIOUS
  <1> USE DEF callerVars, handlerVars
  <1>0. /\ InputInv /\ OutputInv /\ TargetInv
        /\ inputChan \in Seq(Nat) /\ outputChan \in Seq(Nat)
        /\ published \in Seq(Nat) /\ invoked \in Seq(Nat)
        /\ event \in Nat /\ data \in Nat
        /\ DOMAIN received = 1..Len(received) /\ Len(received) \in Nat
        /\ DOMAIN inputChan = 1..Len(inputChan) /\ Len(inputChan) \in Nat
        /\ Done \in Nat /\ Done <= Len(received)
    BY LineTypes DEF LineInv
  <1>1. ASSUME NEW e \in Events, Call(e) PROVE LineInv'
    BY <1>1, LineFrame DEF Call
  <1>2. ASSUME NEW a \in Invocations, Enqueue(a) PROVE LineInv'
    <2>1. /\ Len(received') = Len(received) + 1
          /\ \A k \in DOMAIN received : received'[k] = received[k]
          /\ Len(inputChan') = Len(inputChan) + 1
          /\ DOMAIN inputChan' = 1..(Len(inputChan) + 1)
          /\ inputChan'[Len(inputChan) + 1] = Len(received) + 1
          /\ \A j \in DOMAIN inputChan : inputChan'[j] = inputChan[j]
          /\ Done' = Done
      BY <1>0, <1>2, EnqueueAdds
    <2>2. \A k : Accepted(k) => Accepted(k)'
      BY <1>0, <2>1, AcceptedStays
    <2>3. Len(received) + 1 = Done + (Len(inputChan) + 1)
      BY <1>0 DEF Done
    <2>4. \A i \in DOMAIN inputChan' : inputChan'[i] = Done' + i
      <3>1. \A i \in DOMAIN inputChan : inputChan'[i] = Done' + i
        BY <1>0, <2>1 DEF InputInv
      <3>2. \A i \in DOMAIN inputChan' :
                i \in DOMAIN inputChan \/ i = Len(inputChan) + 1
        BY <1>0, <2>1
      <3>3. inputChan'[Len(inputChan) + 1] = Done' + (Len(inputChan) + 1)
        BY <2>1, <2>3
      <3>4. QED
        BY <3>1, <3>2, <3>3
    <2>5. InputInv'
      BY <1>0, <1>2, <2>1, <2>2, <2>4
      DEF Enqueue, InputInv, Ahead, Behind, inputVars, outputVars
    <2>6. OutputInv' /\ TargetInv'
      BY <1>0, <1>2, <2>2
      DEF Enqueue, OutputInv, TargetInv, Ahead, Behind, Increasing, outputVars
    <2>7. QED
      BY <2>5, <2>6 DEF LineInv
  <1>3. ASSUME NEW a \in Invocations, Answer(a) PROVE LineInv'
    BY <1>3, LineFrame DEF Answer
  <1>4. CASE Drop
    <2>1. /\ Done' = Done + 1 /\ Len(inputChan') <= Len(received)
          /\ \A i \in DOMAIN inputChan' : inputChan'[i] = Done' + i
      BY <1>0, <1>4, InputHead DEF Drop
    <2>2. \A k : Accepted(k) => Accepted(k)'
      BY <1>0, <1>4, <2>1, AcceptedStays DEF Drop
    <2>3. InputInv'
      BY <1>4, <2>1 DEF Drop, InputInv, inputVars
    <2>4. OutputInv' /\ TargetInv'
      BY <1>0, <1>4, <2>2
      DEF Drop, OutputInv, TargetInv, Ahead, Behind, Increasing, outputVars
    <2>5. QED
      BY <2>3, <2>4 DEF LineInv
  <1>5. CASE Process
    <2>1. /\ Done' = Done + 1 /\ Len(inputChan') <= Len(received)
          /\ \A i \in DOMAIN inputChan' : inputChan'[i] = Done' + i
          /\ Head(inputChan) = Done + 1
      BY <1>0, <1>5, InputHead DEF Process
    <2>2. \A k : Accepted(k) => Accepted(k)'
      BY <1>0, <1>5, <2>1, AcceptedStays DEF Process
    <2>3. ASSUME NEW r \in Seq(Nat), \A i \in DOMAIN r : Accepted(r[i])
          PROVE  Behind(r, Done + 1)
      BY <1>0, <2>3 DEF Accepted, Behind
    <2>4. /\ Behind(outputChan, Done + 1)
          /\ Behind(published, Done + 1)
          /\ Behind(invoked, Done + 1)
      BY <1>0, <2>3 DEF OutputInv, TargetInv
    <2>5. data < Done + 1
      <3>1. data = 0 \/ data \in 1..Done
        BY <1>0 DEF OutputInv, Accepted
      <3>2. QED
        BY <1>0, <3>1
    <2>6. Accepted(event)'
      BY <1>0, <1>5, <2>1 DEF Process, Accepted, shouldCollect
    <2>7. Ahead(event)' /\ Behind(outputChan, event)'
      BY <1>5, <2>1, <2>4, <2>5 DEF Process, Ahead, Behind, outputVars
    <2>8. InputInv'
      BY <1>5, <2>1, <2>6, <2>7 DEF Process, InputInv
    <2>9. OutputInv' /\ TargetInv'
      BY <1>0, <1>5, <2>2
      DEF Process, OutputInv, TargetInv, Ahead, Behind, Increasing, outputVars
    <2>10. QED
      BY <2>8, <2>9 DEF LineInv
  <1>6. CASE Send
    <2>1. Accepted(event) /\ Ahead(event) /\ Behind(outputChan, event)
      BY <1>0, <1>6 DEF Send, InputInv
    <2>2. /\ DOMAIN outputChan' = 1..(Len(outputChan) + 1)
          /\ DOMAIN outputChan = 1..Len(outputChan) /\ Len(outputChan) \in Nat
          /\ outputChan'[Len(outputChan) + 1] = event
          /\ \A i \in DOMAIN outputChan : outputChan'[i] = outputChan[i]
          /\ Increasing(outputChan')
      BY <1>0, <1>6, <2>1, AppendIncreasing DEF Send, OutputInv
    <2>3. \A k : /\ Accepted(k)' <=> Accepted(k)
                 /\ Ahead(k)' <=> Ahead(k)
      BY <1>6 DEF Send, Accepted, Done, shouldCollect, Ahead, Behind, outputVars
    <2>4. \A i \in DOMAIN outputChan' :
              Accepted(outputChan'[i]) /\ Ahead(outputChan'[i])
      BY <1>0, <2>1, <2>2 DEF OutputInv
    <2>5. OutputInv'
      BY <1>0, <1>6, <2>2, <2>3, <2>4 DEF Send, OutputInv, Behind, outputVars
    <2>6. InputInv' /\ TargetInv'
      BY <1>0, <1>6, <2>3
      DEF Send, InputInv, TargetInv, Done, Increasing, outputVars
    <2>7. QED
      BY <2>5, <2>6 DEF LineInv
  <1>7. CASE TakeOutput
    <2>1. outputChan # <<>> /\ Increasing(outputChan)
      BY <1>0, <1>7 DEF TakeOutput, OutputInv
    <2>2. /\ Head(outputChan) = outputChan[1] /\ 1 \in DOMAIN outputChan
          /\ \A i \in DOMAIN Tail(outputChan) :
                 /\ Tail(outputChan)[i] = outputChan[i + 1]
                 /\ i + 1 \in DOMAIN outputChan
          /\ \A i \in DOMAIN Tail(outputChan) :
                 Head(outputChan) < Tail(outputChan)[i]
          /\ Increasing(Tail(outputChan))
      BY <1>0, <2>1, TailIncreasing
    <2>3. data' = outputChan[1] /\ outputChan' = Tail(outputChan)
      BY <1>7, <2>2 DEF TakeOutput
    <2>4. \A k : Accepted(k)' <=> Accepted(k)
      BY <1>7 DEF TakeOutput, Accepted, Done, shouldCollect
    <2>5. Accepted(data') /\ Behind(published, data') /\ Behind(invoked, data')
      BY <1>0, <2>2, <2>3 DEF OutputInv, Ahead
    <2>6. \A i \in DOMAIN outputChan' : /\ Accepted(outputChan'[i])
                                        /\ data' < outputChan'[i]
                                        /\ Behind(published, outputChan'[i])
                                        /\ Behind(invoked, outputChan'[i])
      BY <1>0, <2>2, <2>3 DEF OutputInv, Ahead
    <2>7. OutputInv'
      BY <1>7, <2>2, <2>3, <2>4, <2>5, <2>6
      DEF TakeOutput, OutputInv, Ahead, Behind
    <2>8. inPc = "send" => /\ data' < event /\ Behind(outputChan', event)
                           /\ Behind(published, event) /\ Behind(invoked, event)
      BY <1>0, <2>2, <2>3 DEF InputInv, Ahead, Behind
    <2>9. InputInv' /\ TargetInv'
      BY <1>0, <1>7, <2>4, <2>8
      DEF TakeOutput, InputInv, TargetInv, Done, Ahead, Behind, Increasing,
          inputVars
    <2>10. QED
      BY <2>7, <2>9 DEF LineInv
  <1>8. CASE Publish
    <2>1. Accepted(data) /\ Behind(published, data) /\ Behind(invoked, data)
      BY <1>0, <1>8 DEF Publish, OutputInv
    <2>2. \A k : Accepted(k)' <=> Accepted(k)
      BY <1>8 DEF Publish, Accepted, Done, shouldCollect
    <2>3. /\ published' \in {published, Append(published, data)}
          /\ invoked' = invoked /\ data' \in {0, data}
          /\ outPc' \in {"invoke", "select"} /\ outPc' = "select" => data' = 0
          /\ outPc' = "invoke" => data' = data
      BY <1>8 DEF Publish
    <2>4. Increasing(published) /\ \A i \in DOMAIN published : Accepted(published[i])
      BY <1>0 DEF TargetInv
    <2>5. /\ Increasing(published')
          /\ \A i \in DOMAIN published' : Accepted(published'[i])
      <3>1. CASE published' = published
        BY <2>4, <3>1
      <3>2. CASE published' = Append(published, data)
        BY <1>0, <2>1, <2>4, <3>2, AppendIncreasing
      <3>3. QED
        BY <2>3, <3>1, <3>2
    <2>6. ASSUME NEW k \in Nat, Ahead(k) PROVE Ahead(k)'
      <3>1. Behind(published', k)
        BY <1>0, <2>3, <2>6, AppendBehind DEF Ahead
      <3>2. data' < k
        BY <1>0, <2>3, <2>6 DEF Ahead
      <3>3. QED
        BY <2>3, <2>6, <3>1, <3>2 DEF Ahead, Behind
    <2>7. \A i \in DOMAIN outputChan : outputChan[i] \in Nat
      BY <1>0
    <2>8. OutputInv'
      BY <1>0, <1>8, <2>1, <2>2, <2>3, <2>6, <2>7
      DEF Publish, OutputInv, Behind, Increasing
    <2>9. TargetInv'
      BY <1>0, <2>2, <2>3, <2>5 DEF TargetInv, Increasing
    <2>10. InputInv'
      BY <1>0, <1>8, <2>2, <2>6
      DEF Publish, InputInv, Done, Behind, inputVars
    <2>11. QED
      BY <2>8, <2>9, <2>10 DEF LineInv
  <1>9. CASE Invoke
    <2>1. Accepted(data) /\ Behind(invoked, data)
      BY <1>0, <1>9 DEF Invoke, OutputInv
    <2>2. \A k : Accepted(k)' <=> Accepted(k)
      BY <1>9 DEF Invoke, Accepted, Done, shouldCollect
    <2>3. /\ invoked' \in {invoked, Append(invoked, data)}
          /\ published' = published /\ data' = 0 /\ outPc' = "select"
      BY <1>9 DEF Invoke
    <2>4. Increasing(invoked) /\ \A i \in DOMAIN invoked : Accepted(invoked[i])
      BY <1>0 DEF TargetInv
    <2>5. /\ Increasing(invoked')
          /\ \A i \in DOMAIN invoked' : Accepted(invoked'[i])
      <3>1. CASE invoked' = invoked
        BY <2>4, <3>1
      <3>2. CASE invoked' = Append(invoked, data)
        BY <1>0, <2>1, <2>4, <3>2, AppendIncreasing
      <3>3. QED
        BY <2>3, <3>1, <3>2
    <2>6. ASSUME NEW k \in Nat, Ahead(k) PROVE Ahead(k)'
      <3>1. Behind(invoked', k)
        BY <1>0, <2>3, <2>6, AppendBehind DEF Ahead
      <3>2. 0 < k
        BY <1>0, <2>6 DEF Ahead
      <3>3. QED
        BY <2>3, <2>6, <3>1, <3>2 DEF Ahead, Behind
    <2>7. \A i \in DOMAIN outputChan : outputChan[i] \in Nat
      BY <1>0
    <2>8. OutputInv'
      BY <1>0, <1>9, <2>2, <2>3, <2>6, <2>7
      DEF Invoke, OutputInv, Behind, Increasing
    <2>9. TargetInv'
      BY <1>0, <2>2, <2>3, <2>5 DEF TargetInv, Increasing
    <2>10. InputInv'
      BY <1>0, <1>9, <2>2, <2>6
      DEF Invoke, InputInv, Done, Behind, inputVars
    <2>11. QED
      BY <2>8, <2>9, <2>10 DEF LineInv
  <1>10. CASE Crash
    <2>1. /\ inputChan' = <<>> /\ received' = received /\ inPc' = "select"
          /\ outputChan' = <<>> /\ outPc' = "select" /\ data' = 0
          /\ published' = published /\ invoked' = invoked
      BY <1>10 DEF Crash
    <2>2. Done' = Len(received)
      BY <1>0, <2>1 DEF Done
    <2>3. \A k : Accepted(k) => Accepted(k)'
      BY <1>0, <2>1, <2>2, AcceptedStays
    <2>4. InputInv'
      BY <1>0, <2>1 DEF InputInv
    <2>5. OutputInv'
      BY <2>1 DEF OutputInv, Increasing
    <2>6. TargetInv'
      BY <1>0, <2>1, <2>3 DEF TargetInv, Increasing
    <2>7. QED
      BY <2>4, <2>5, <2>6 DEF LineInv
  <1>11. CASE UNCHANGED vars
    BY <1>11, LineFrame DEF vars
  <1>12. QED
    BY <1>1, <1>2, <1>3, <1>4, <1>5, <1>6, <1>7, <1>8, <1>9, <1>10, <1>11
    DEF Next

-----------------------------------------------------------------------------
(***************************************************************************)
(* Nothing is skipped.                                                     *)
(***************************************************************************)

\* Where position k is for target t.
Tracked(t, k) == Pending(t, k) \/ Offered(t, k) \/ k \in lost

(* A step that keeps the line and its history keeps track of a position.   *)
LEMMA TrackFrame ==
    ASSUME NEW t, NEW k,
           UNCHANGED <<inputChan, inPc, event, outputChan, outPc, data,
                       published, invoked, refused, lost>>
    PROVE  Tracked(t, k) => Tracked(t, k)'
  BY DEF Tracked, Pending, Offered, Holds

(* Every step keeps NothingSkipped.                                        *)
LEMMA StepSkip == TypeOK /\ LineInv /\ NothingSkipped /\ [Next]_vars => NothingSkipped'
  <1> SUFFICES ASSUME TypeOK, LineInv, NothingSkipped, [Next]_vars
               PROVE  NothingSkipped'
    OBVIOUS
  <1> USE DEF callerVars, handlerVars, inputVars, outputVars
  <1>0. /\ InputInv /\ OutputInv
        /\ inputChan \in Seq(Nat) /\ outputChan \in Seq(Nat)
        /\ published \in Seq(Nat) /\ invoked \in Seq(Nat)
        /\ event \in Nat /\ data \in Nat /\ Len(received) + 1 \in Nat
        /\ DOMAIN received = 1..Len(received) /\ Len(received) \in Nat
    BY LineTypes DEF LineInv
  <1>a. /\ \A t \in Targets : t \in {"stream", "component"}
        /\ "stream" \in Targets <=> StreamTarget
        /\ "component" \in Targets <=> ComponentTarget
    BY DEF Targets
  <1>b. \A k \in DOMAIN received : shouldCollect(received[k]) =>
            \A t \in Targets : Tracked(t, k)
    BY DEF NothingSkipped, Tracked
  <1>c. SUFFICES ASSUME NEW k \in DOMAIN received', shouldCollect(received'[k]),
                        NEW t \in Targets
                 PROVE  Tracked(t, k)'
    BY DEF NothingSkipped, Tracked, shouldCollect, Targets
  <1>d. received' = received => Tracked(t, k)
    BY <1>b, <1>c DEF shouldCollect
  <1>1. ASSUME NEW e \in Events, Call(e) PROVE Tracked(t, k)'
    BY <1>1, <1>d, TrackFrame DEF Call
  <1>2. ASSUME NEW a \in Invocations, Enqueue(a) PROVE Tracked(t, k)'
    <2>1. /\ DOMAIN received' = 1..(Len(received) + 1)
          /\ \A j \in DOMAIN received : received'[j] = received[j]
      BY <1>0, <1>2, EnqueueAdds
    <2>2. \A j : Holds(inputChan', j) <=> Holds(inputChan, j) \/ j = Len(received) + 1
      BY <1>0, <1>2, HoldsAppend DEF Enqueue
    <2>3. CASE k = Len(received) + 1
      BY <2>2, <2>3 DEF Tracked, Pending
    <2>4. CASE k # Len(received) + 1
      <3>1. k \in DOMAIN received
        BY <1>0, <2>1, <2>4
      <3>2. Tracked(t, k)
        BY <1>b, <1>c, <2>1, <3>1 DEF shouldCollect
      <3>3. QED
        BY <1>2, <2>2, <3>2 DEF Enqueue, Tracked, Pending, Offered, Holds
    <2>5. QED
      BY <2>3, <2>4
  <1>3. ASSUME NEW a \in Invocations, Answer(a) PROVE Tracked(t, k)'
    BY <1>3, <1>d, TrackFrame DEF Answer
  <1>4. CASE Drop
    <2>1. \A j : Holds(inputChan, j) <=> Holds(inputChan', j) \/ j = Head(inputChan)
      BY <1>0, <1>4, HoldsTail DEF Drop
    <2>2. k # Head(inputChan)
      BY <1>4, <1>c DEF Drop, shouldCollect
    <2>3. QED
      BY <1>4, <1>d, <2>1, <2>2 DEF Drop, Tracked, Pending, Offered, Holds
  <1>5. CASE Process
    <2>1. \A j : Holds(inputChan, j) <=> Holds(inputChan', j) \/ j = Head(inputChan)
      BY <1>0, <1>5, HoldsTail DEF Process
    <2>2. QED
      BY <1>5, <1>d, <2>1 DEF Process, Tracked, Pending, Offered, Holds
  <1>6. CASE Send
    <2>1. \A j : Holds(outputChan', j) <=> Holds(outputChan, j) \/ j = event
      BY <1>0, <1>6, HoldsAppend DEF Send
    <2>2. QED
      BY <1>6, <1>d, <2>1 DEF Send, Tracked, Pending, Offered, Holds
  <1>7. CASE TakeOutput
    <2>1. \A j : Holds(outputChan, j) <=> Holds(outputChan', j) \/ j = Head(outputChan)
      BY <1>0, <1>7, HoldsTail DEF TakeOutput
    <2>2. k # 0
      BY <1>0, <1>7, <1>c DEF TakeOutput
    <2>3. data = 0
      BY <1>0, <1>7 DEF TakeOutput, OutputInv
    <2>4. outPc' = "publish" \/ (outPc' = "invoke" /\ t = "component")
      BY <1>7, <1>a DEF TakeOutput
    <2>5. QED
      BY <1>7, <1>d, <2>1, <2>2, <2>3, <2>4
      DEF TakeOutput, Tracked, Pending, Offered, Holds
  <1>8. CASE Publish
    <2>1. \A j : Holds(Append(published, data), j) <=> Holds(published, j) \/ j = data
      BY <1>0, HoldsAppend
    <2>2. \A j : Holds(published, j) => Holds(published', j)
      BY <1>8, <2>1 DEF Publish
    <2>3. refused \subseteq refused' /\ lost' = lost /\ invoked' = invoked
      BY <1>8 DEF Publish
    <2>4. \A j : Offered(t, j) => Offered(t, j)'
      BY <2>2, <2>3 DEF Offered, Holds
    <2>5. CASE data = k /\ t = "stream"
      <3>1. Holds(published', k) \/ <<t, k>> \in refused'
        BY <1>8, <2>1, <2>5 DEF Publish
      <3>2. QED
        BY <2>5, <3>1 DEF Tracked, Offered, Holds
    <2>6. CASE data = k /\ t = "component"
      BY <1>8, <1>a, <2>6 DEF Publish, Tracked, Pending
    <2>7. CASE data # k
      BY <1>8, <1>d, <2>3, <2>4, <2>7 DEF Publish, Tracked, Pending, Holds
    <2>8. QED
      BY <1>a, <2>5, <2>6, <2>7
  <1>9. CASE Invoke
    <2>1. \A j : Holds(Append(invoked, data), j) <=> Holds(invoked, j) \/ j = data
      BY <1>0, HoldsAppend
    <2>2. \A j : Holds(invoked, j) => Holds(invoked', j)
      BY <1>9, <2>1 DEF Invoke
    <2>3. refused \subseteq refused' /\ lost' = lost /\ published' = published
      BY <1>9 DEF Invoke
    <2>4. \A j : Offered(t, j) => Offered(t, j)'
      BY <2>2, <2>3 DEF Offered, Holds
    <2>5. CASE data = k /\ t = "component"
      <3>1. Holds(invoked', k) \/ <<t, k>> \in refused'
        BY <1>9, <2>1, <2>5 DEF Invoke
      <3>2. QED
        BY <2>5, <3>1 DEF Tracked, Offered, Holds
    <2>6. CASE ~ (data = k /\ t = "component")
      BY <1>9, <1>d, <2>3, <2>4, <2>6 DEF Invoke, Tracked, Pending, Holds
    <2>7. QED
      BY <2>5, <2>6
  <1>10. CASE Crash
    <2>1. received' = received /\ lost \subseteq lost'
      BY <1>10 DEF Crash
    <2>2. Pending(t, k) => k \in lost'
      BY <1>10, <1>c, <2>1 DEF Crash
    <2>3. Offered(t, k) => Offered(t, k)'
      BY <1>10 DEF Crash, Offered, Holds
    <2>4. QED
      BY <1>d, <2>1, <2>2, <2>3 DEF Tracked
  <1>11. CASE UNCHANGED vars
    BY <1>11, <1>d, TrackFrame DEF vars
  <1>12. QED
    BY <1>1, <1>2, <1>3, <1>4, <1>5, <1>6, <1>7, <1>8, <1>9, <1>10, <1>11
    DEF Next

(* Every step keeps HandedOver: a handler answers after its send.          *)
LEMMA StepHandedOver == TypeOK /\ LineInv /\ HandedOver /\ [Next]_vars => HandedOver'
  <1> SUFFICES ASSUME TypeOK, LineInv, HandedOver, [Next]_vars
               PROVE  HandedOver'
    OBVIOUS
  <1> USE DEF callerVars, handlerVars
  <1>1. ASSUME NEW a \in Invocations, Enqueue(a) PROVE HandedOver'
    <2>1. /\ DOMAIN received' = 1..(Len(received) + 1)
          /\ DOMAIN received = 1..Len(received) /\ Len(received) \in Nat
          /\ received'[Len(received) + 1] = a
          /\ \A k \in DOMAIN received : received'[k] = received[k]
      BY <1>1, EnqueueAdds, LineTypes DEF LineInv
    <2>2. \A k \in DOMAIN received : k \in DOMAIN received'
      BY <2>1
    <2>3. Len(received) + 1 \in DOMAIN received'
      BY <2>1
    <2>4. QED
      BY <1>1, <2>1, <2>2, <2>3 DEF Enqueue, HandedOver
  <1>2. ASSUME NEW a \in Invocations, Answer(a) PROVE HandedOver'
    BY <1>2 DEF Answer, HandedOver
  <1>3. ASSUME UNCHANGED <<received, answered>>, returning' \subseteq returning
        PROVE  HandedOver'
    BY <1>3 DEF HandedOver
  <1>4. QED
    BY <1>1, <1>2, <1>3
    DEF Next, vars, Call, Drop, Process, Send, TakeOutput, Publish, Invoke, Crash

(* Every step keeps Fresh: an invocation has a number of its own, and its  *)
(* handler is done with its send when it has sent.                         *)
LEMMA StepFresh == TypeOK /\ LineInv /\ Fresh /\ [Next]_vars => Fresh'
  <1> SUFFICES ASSUME TypeOK, LineInv, Fresh, [Next]_vars
               PROVE  Fresh'
    OBVIOUS
  <1> USE DEF callerVars, handlerVars
  <1>a. \A a \in Invocations : a[1] \in Events /\ a[2] \in Nat
    BY DEF Invocations
  <1>b. received \in Seq(Invocations) /\ sending \subseteq Invocations
    BY DEF TypeOK
  <1>c. DOMAIN received = 1..Len(received) /\ Len(received) \in Nat
    BY <1>b
  <1>d. \A k \in DOMAIN received : received[k] \in Invocations
    BY <1>b
  <1>e. \A d \in Events : attempts[d] \in Nat
    BY BoundAssumption DEF TypeOK
  <1>1. ASSUME NEW e \in Events, Call(e) PROVE Fresh'
    <2>a. attempts' = [attempts EXCEPT ![e] = @ + 1] /\ DOMAIN attempts = Events
      BY <1>1 DEF Call, TypeOK
    <2>b. attempts'[e] = attempts[e] + 1
      BY <2>a
    <2>c. \A d \in Events : d # e => attempts'[d] = attempts[d]
      BY <2>a
    <2>1. /\ \A d \in Events : attempts'[d] \in Nat /\ attempts[d] <= attempts'[d]
          /\ received' = received
          /\ sending' = sending \cup {<<e, attempts[e] + 1>>}
      BY <1>e, <1>1, <2>b, <2>c DEF Call
    <2>2. ASSUME NEW k \in DOMAIN received
          PROVE  /\ received[k] # <<e, attempts[e] + 1>>
                 /\ received[k][2] <= attempts'[received[k][1]]
      <3>1. /\ received[k][1] \in Events /\ received[k][2] \in Nat
            /\ received[k][2] <= attempts[received[k][1]]
        BY <1>a, <1>d DEF Fresh
      <3>2. received[k] # <<e, attempts[e] + 1>>
        BY <1>e, <3>1
      <3>3. QED
        BY <1>e, <2>1, <3>1, <3>2
    <2>3. ASSUME NEW a \in sending PROVE a[2] <= attempts'[a[1]]
      <3>1. a[1] \in Events /\ a[2] \in Nat /\ a[2] <= attempts[a[1]]
        BY <1>a, <1>b DEF Fresh
      <3>2. QED
        BY <1>e, <2>1, <3>1
    <2>4. \A a \in sending' : /\ a[2] <= attempts'[a[1]]
                              /\ \A k \in DOMAIN received : received[k] # a
      BY <1>e, <2>b, <2>1, <2>2, <2>3 DEF Fresh
    <2>5. QED
      BY <2>1, <2>2, <2>4 DEF Fresh
  <1>2. ASSUME NEW a \in Invocations, Enqueue(a) PROVE Fresh'
    <2>1. /\ DOMAIN received' = 1..(Len(received) + 1)
          /\ received'[Len(received) + 1] = a
          /\ \A k \in DOMAIN received : received'[k] = received[k]
      BY <1>2, EnqueueAdds DEF LineInv
    <2>2. a \in sending /\ sending' = sending \ {a} /\ attempts' = attempts
      BY <1>2 DEF Enqueue
    <2>3. \A k \in DOMAIN received' : k \in DOMAIN received \/ k = Len(received) + 1
      BY <1>c, <2>1
    <2>4. QED
      BY <2>1, <2>2, <2>3 DEF Fresh
  <1>3. ASSUME UNCHANGED <<attempts, received>>, sending' \subseteq sending
        PROVE  Fresh'
    BY <1>3 DEF Fresh
  <1>4. QED
    BY <1>1, <1>2, <1>3
    DEF Next, vars, Answer, Drop, Process, Send, TakeOutput, Publish, Invoke, Crash

(* The output loop takes up calls of targets that are set only.            *)
LEMMA StepCalls == TypeOK /\ CallsTargets /\ [Next]_vars => CallsTargets'
  BY TargetAssumption
  DEF CallsTargets, Next, vars, callerVars, handlerVars, inputVars, outputVars,
      Call, Enqueue, Answer, Drop, Process, Send, TakeOutput, Publish, Invoke,
      Crash

-----------------------------------------------------------------------------
(***************************************************************************)
(* Nothing comes back: the line moves on only.                             *)
(***************************************************************************)

\* The line has left k behind, as far as t is concerned.
Left(t, k) ==
    /\ k \in 1..Done
    /\ inPc = "send" => k < event
    /\ \A i \in DOMAIN outputChan : k < outputChan[i]
    /\ outPc = "publish" => k < data
    /\ outPc = "invoke" /\ t = "component" => k < data

(* A step that leaves the line alone.                                      *)
LEMMA LeftFrame ==
    ASSUME NEW t, NEW k, Left(t, k),
           UNCHANGED <<inPc, event, outputChan, outPc, data>>, Done' = Done
    PROVE  Left(t, k)'
  BY DEF Left

(* A crash leaves behind whatever was received.                            *)
LEMMA CrashLeaves ==
    ASSUME TypeOK, LineInv, Crash, NEW t, NEW k \in DOMAIN received
    PROVE  Left(t, k)'
  <1>1. /\ inPc' = "select" /\ outPc' = "select" /\ outputChan' = <<>>
        /\ received' = received /\ inputChan' = <<>>
    BY DEF Crash
  <1>2. DOMAIN received = 1..Len(received) /\ Len(received) \in Nat
    BY LineTypes DEF LineInv
  <1>3. QED
    BY <1>1, <1>2 DEF Left, Done

(* What the line has left behind stays behind.                             *)
LEMMA LeftStays ==
    ASSUME NEW t, NEW k, TypeOK, LineInv, [Next]_vars, Left(t, k)
    PROVE  Left(t, k)'
  <1> USE DEF callerVars, handlerVars, inputVars, outputVars
  <1>0. /\ InputInv /\ OutputInv
        /\ inputChan \in Seq(Nat) /\ outputChan \in Seq(Nat)
        /\ event \in Nat /\ data \in Nat
        /\ DOMAIN received = 1..Len(received) /\ Len(received) \in Nat
        /\ Done \in Nat /\ Done <= Len(received)
    BY LineTypes DEF LineInv
  <1>1. ASSUME NEW e \in Events, Call(e) PROVE Left(t, k)'
    BY <1>1, LeftFrame DEF Call, Done
  <1>2. ASSUME NEW a \in Invocations, Enqueue(a) PROVE Left(t, k)'
    <2>1. Done' = Done
      BY <1>0, <1>2, EnqueueAdds
    <2>2. QED
      BY <1>2, <2>1, LeftFrame DEF Enqueue
  <1>3. ASSUME NEW a \in Invocations, Answer(a) PROVE Left(t, k)'
    BY <1>3, LeftFrame DEF Answer, Done
  <1>4. CASE Drop
    <2>1. Done' = Done + 1
      BY <1>0, <1>4, InputHead DEF Drop
    <2>2. QED
      BY <1>0, <1>4, <2>1 DEF Drop, Left
  <1>5. CASE Process
    <2>1. Done' = Done + 1 /\ event' = Done + 1
      BY <1>0, <1>5, InputHead DEF Process
    <2>2. QED
      BY <1>0, <1>5, <2>1 DEF Process, Left
  <1>6. CASE Send
    <2>1. /\ Done' = Done /\ outputChan' = Append(outputChan, event)
          /\ inPc = "send" /\ inPc' = "select" /\ UNCHANGED <<outPc, data>>
      BY <1>6 DEF Send, Done
    <2>2. \A i \in DOMAIN outputChan' :
              \/ outputChan'[i] = event
              \/ \E j \in DOMAIN outputChan : outputChan'[i] = outputChan[j]
      BY <1>0, <2>1
    <2>3. QED
      BY <2>1, <2>2 DEF Left
  <1>7. CASE TakeOutput
    <2>1. /\ outputChan # <<>> /\ data' = Head(outputChan)
          /\ outputChan' = Tail(outputChan) /\ Done' = Done
          /\ UNCHANGED <<inPc, event>>
      BY <1>7 DEF TakeOutput, Done
    <2>2. /\ Head(outputChan) = outputChan[1] /\ 1 \in DOMAIN outputChan
          /\ \A i \in DOMAIN outputChan' :
                outputChan'[i] = outputChan[i + 1] /\ i + 1 \in DOMAIN outputChan
      BY <1>0, <2>1, TailIncreasing DEF OutputInv
    <2>3. QED
      BY <2>1, <2>2 DEF Left
  <1>8. CASE Publish
    BY <1>8 DEF Publish, Left, Done
  <1>9. CASE Invoke
    BY <1>9 DEF Invoke, Left, Done
  <1>10. CASE Crash
    <2>1. k \in DOMAIN received
      BY <1>0 DEF Left
    <2>2. QED
      BY <1>10, <2>1, CrashLeaves
  <1>11. CASE UNCHANGED vars
    BY <1>11, LeftFrame DEF vars, Done
  <1>12. QED
    BY <1>1, <1>2, <1>3, <1>4, <1>5, <1>6, <1>7, <1>8, <1>9, <1>10, <1>11
    DEF Next

(* A position whose call returns, either way, is behind (main.go:187-199). *)
LEMMA InvokeLeaves ==
    ASSUME TypeOK, LineInv, Invoke, NEW k, k = data
    PROVE  Left("component", k)'
  <1>1. /\ Accepted(data) /\ event \in Nat /\ data \in Nat
        /\ inPc = "send" => data < event
        /\ \A i \in DOMAIN outputChan : data < outputChan[i]
    BY LineTypes DEF LineInv, InputInv, OutputInv, Ahead, Invoke
  <1>2. /\ UNCHANGED <<inPc, event, outputChan, inputChan, received>>
        /\ outPc' = "select"
    BY DEF Invoke, inputVars
  <1>3. QED
    BY <1>1, <1>2 DEF Left, Accepted, Done

-----------------------------------------------------------------------------
(***************************************************************************)
(* Everyone waiting on everyone.                                           *)
(***************************************************************************)

\* There is something to be done for the handlers or in the line.
Busy ==
    \/ sending # {} \/ returning # {}
    \/ inputChan # <<>> \/ inPc = "send" \/ outputChan # <<>>

\* The guards of Enqueue, Answer, Drop or Process, Send and TakeOutput.
CanMove ==
    \/ sending # {} /\ Len(inputChan) < InputCapacity
    \/ returning # {}
    \/ inPc = "select" /\ inputChan # <<>>
    \/ inPc = "send" /\ Len(outputChan) < OutputCapacity
    \/ outPc = "select" /\ outputChan # <<>>

(* Handlers, processing loop and output loop wait for each other only as   *)
(* long as the output loop waits for a target (main.go:130, 155, 171).     *)
LEMMA WaitsForTarget ==
    ASSUME TypeOK, Busy, outPc = "select"
    PROVE  CanMove
  <1>1. /\ inputChan \in Seq(Nat) /\ outputChan \in Seq(Nat)
        /\ inPc \in {"select", "send"}
        /\ 0 < InputCapacity /\ 0 < OutputCapacity
    BY BoundAssumption DEF TypeOK
  <1>2. inputChan = <<>> => Len(inputChan) = 0
    OBVIOUS
  <1>3. outputChan = <<>> => Len(outputChan) = 0
    OBVIOUS
  <1>4. QED
    BY <1>1, <1>2, <1>3 DEF Busy, CanMove

-----------------------------------------------------------------------------
(***************************************************************************)
(* The theorems.                                                           *)
(***************************************************************************)

(* The inductive invariant holds in every reachable state.                 *)
THEOREM InductiveInvariant == Spec => []IInv
  <1>1. Init => NothingSkipped /\ HandedOver /\ Fresh /\ CallsTargets
    BY DEF Init, NothingSkipped, HandedOver, Fresh, CallsTargets
  <1>2. Init => IInv
    BY <1>1, InitType, InitLine DEF IInv
  <1>3. IInv /\ [Next]_vars => IInv'
    BY StepType, StepLine, StepSkip, StepHandedOver, StepFresh, StepCalls DEF IInv
  <1>4. QED
    BY <1>2, <1>3, PTL DEF Spec

(* TypeOK holds in every reachable state: in particular neither buffer     *)
(* holds more than its capacity (main.go:58-59).                           *)
THEOREM TypeCorrect == Spec => []TypeOK
  <1>1. QED
    BY InitType, StepType, PTL DEF Spec

(* No accepted event is skipped for any target: it is in the line, was     *)
(* offered, or a crash wiped it (startProcessingLoop, startOutputLoop).    *)
THEOREM NoneSkipped == Spec => []NothingSkipped
  <1>1. IInv => NothingSkipped
    BY DEF IInv
  <1>2. QED
    BY <1>1, InductiveInvariant, PTL

(* A caller that got an answer has its event in the channel's line         *)
(* (invocationHandler).                                                    *)
THEOREM AnswerAfterReceipt == Spec => []AnsweredIsReceived
  <1>1. IInv => AnsweredIsReceived
    BY DEF IInv, HandedOver, AnsweredIsReceived
  <1>2. QED
    BY <1>1, InductiveInvariant, PTL

(* Each target gets accepted events only, in the order they were received, *)
(* none twice (startOutputLoop).                                           *)
THEOREM InOrder == Spec => []RelayedInOrder
  <1>1. ASSUME IInv PROVE RelayedInOrder
    <2>1. TypeOK /\ InputInv /\ TargetInv
      BY <1>1 DEF IInv, LineInv
    <2>2. Done \in Nat /\ Done <= Len(received) /\ DOMAIN received = 1..Len(received)
          /\ Len(received) \in Nat
      BY <2>1, LineTypes
    <2>3. \A k : Accepted(k) => k \in DOMAIN received /\ shouldCollect(received[k])
      BY <2>2 DEF Accepted
    <2>4. QED
      BY <2>1, <2>3 DEF TargetInv, RelayedInOrder
  <1>2. QED
    BY <1>1, InductiveInvariant, PTL
=============================================================================
