------------------------- MODULE ChannelRelayProofs -------------------------
(***************************************************************************)
(* The channel implements Relay, for every set of events, all capacities   *)
(* and every number of calls and restarts.                                 *)
(*                                                                         *)
(* IInv of ChannelProofs says that the line is in order.  What it does not *)
(* say, because no property of a single state needs it, is that a position *)
(* that was refused or lost is behind the line: nothing comes back.        *)
(***************************************************************************)
EXTENDS ChannelRefinement, ChannelProofs

\* k will not be offered to t, although t has not accepted it.
Shut(t, k) == <<t, k>> \in refused \/ k \in lost

ShutInv == \A t \in {"stream", "component"} : \A k \in Nat : Shut(t, k) => Left(t, k)

RInv == IInv /\ ShutInv

-----------------------------------------------------------------------------
(***************************************************************************)
(* The invariant.                                                          *)
(***************************************************************************)

(* What the invariant of ChannelProofs says about types.                   *)
LEMMA Facts ==
    ASSUME IInv
    PROVE  /\ TypeOK /\ InputInv /\ OutputInv /\ TargetInv
           /\ inputChan \in Seq(Nat) /\ outputChan \in Seq(Nat)
           /\ published \in Seq(Nat) /\ invoked \in Seq(Nat)
           /\ event \in Nat /\ data \in Nat
           /\ received \in Seq(Invocations)
           /\ DOMAIN received = 1..Len(received) /\ Len(received) \in Nat
           /\ Done \in Nat /\ Done <= Len(received)
           /\ lost \subseteq Nat
  BY LineTypes DEF IInv, LineInv, TypeOK

(* What was refused or lost stays behind the line.                         *)
LEMMA StepShut == IInv /\ ShutInv /\ [Next]_vars => ShutInv'
  <1> SUFFICES ASSUME IInv, ShutInv, [Next]_vars,
                      NEW t \in {"stream", "component"}, NEW k \in Nat, Shut(t, k)'
               PROVE  Left(t, k)'
    BY DEF ShutInv
  <1> USE DEF callerVars, handlerVars, inputVars, outputVars
  <1>0. /\ TypeOK /\ LineInv /\ InputInv /\ OutputInv /\ data \in Nat
        /\ DOMAIN received = 1..Len(received) /\ Len(received) \in Nat
    BY Facts DEF IInv
  <1>1. ASSUME Shut(t, k) PROVE Left(t, k)'
    BY <1>0, <1>1, LeftStays DEF ShutInv
  <1>2. CASE Publish
    <2>1. /\ Accepted(data) /\ outPc = "publish" /\ outPc' \in {"invoke", "select"}
          /\ UNCHANGED <<inPc, event, outputChan, lost>> /\ Done' = Done
          /\ refused' \in {refused, refused \cup {<<"stream", data>>}}
      BY <1>0, <1>2 DEF Publish, OutputInv, Done
    <2>2. /\ inPc = "send" => data < event
          /\ \A i \in DOMAIN outputChan : data < outputChan[i]
      BY <1>0 DEF InputInv, OutputInv, Ahead
    <2>3. CASE t = "stream" /\ k = data
      BY <2>1, <2>2, <2>3 DEF Left, Accepted
    <2>4. QED
      BY <1>1, <2>1, <2>3 DEF Shut
  <1>3. CASE Invoke
    <2>1. /\ lost' = lost
          /\ refused' \in {refused, refused \cup {<<"component", data>>}}
      BY <1>3 DEF Invoke
    <2>2. t = "component" /\ k = data => Left(t, k)'
      BY <1>0, <1>3, InvokeLeaves
    <2>3. QED
      BY <1>1, <2>1, <2>2 DEF Shut
  <1>4. CASE Crash
    <2>1. refused' = refused /\ lost' \subseteq lost \cup DOMAIN received
      BY <1>4 DEF Crash
    <2>2. k \in DOMAIN received => Left(t, k)'
      BY <1>0, <1>4, CrashLeaves
    <2>3. QED
      BY <1>1, <2>1, <2>2 DEF Shut
  <1>5. CASE UNCHANGED <<refused, lost>>
    BY <1>1, <1>5 DEF Shut
  <1>6. QED
    BY <1>2, <1>3, <1>4, <1>5
    DEF Next, vars, Call, Enqueue, Answer, Drop, Process, Send, TakeOutput

(* The strengthened invariant holds in every reachable state.              *)
THEOREM RelayInvariant == Spec => []RInv
  <1>1. Init => ShutInv
    BY DEF Init, ShutInv, Shut
  <1>2. IInv /\ ShutInv /\ [Next]_vars => ShutInv'
    BY StepShut
  <1>3. QED
    BY <1>1, <1>2, InductiveInvariant, PTL DEF Spec, RInv

-----------------------------------------------------------------------------
(***************************************************************************)
(* The refinement.                                                         *)
(***************************************************************************)

(* The targets, and what is behind each of them.                           *)
LEMMA TargetsAre ==
    /\ Targets \subseteq {"stream", "component"}
    /\ "stream" \in Targets <=> StreamTarget
    /\ "component" \in Targets <=> ComponentTarget
  BY DEF Targets

(* The channel starts as a relay does.                                     *)
LEMMA InitRefines == Init => R!Init
  <1> SUFFICES ASSUME Init PROVE R!Init
    OBVIOUS
  <1>1. received = <<>> /\ \A t : PastFor(t) = {}
    BY DEF Init, PastFor
  <1>2. Delivered = [t \in Targets |-> <<>>]
    BY DEF Init, Delivered
  <1>3. QED
    BY <1>1, <1>2 DEF R!Init

(* What the output loop has in hand is the first position that passes and  *)
(* is not behind the target it calls next (startOutputLoop).               *)
LEMMA InHandIsDue ==
    ASSUME RInv, NEW t \in Targets,
           (outPc = "publish" /\ t = "stream") \/ (outPc = "invoke" /\ t = "component")
    PROVE  /\ data \in DOMAIN received /\ shouldCollect(received[data])
           /\ data \notin PastFor(t)
           /\ \A i \in DOMAIN received :
                  i < data /\ shouldCollect(received[i]) => i \in PastFor(t)
  <1>0. /\ IInv /\ InputInv /\ OutputInv /\ event \in Nat /\ data \in Nat
        /\ DOMAIN received = 1..Len(received) /\ Len(received) \in Nat
        /\ Done \in Nat /\ Done <= Len(received)
        /\ published \in Seq(Nat) /\ invoked \in Seq(Nat)
        /\ outputChan \in Seq(Nat) /\ NothingSkipped
    BY Facts DEF RInv, IInv
  <1>1. Accepted(data) /\ data \in 1..Done
    BY <1>0 DEF OutputInv, Accepted
  <1>2. data \in DOMAIN received /\ shouldCollect(received[data])
    BY <1>0, <1>1 DEF Accepted
  <1>3. ~ Shut(t, data)
    <2>1. ~ Left(t, data)
      BY <1>0 DEF Left
    <2>2. QED
      BY <1>0, <2>1, TargetsAre DEF RInv, ShutInv
  <1>4. t = "stream" => ~ Holds(published, data)
    BY <1>0 DEF OutputInv, Behind, Holds
  <1>5. t = "component" => ~ Holds(invoked, data)
    BY <1>0 DEF OutputInv, Behind, Holds
  <1>6. data \notin PastFor(t)
    BY <1>3, <1>4, <1>5, TargetsAre DEF PastFor, Offered, Shut
  <1>7. ASSUME NEW i \in DOMAIN received, i < data, shouldCollect(received[i])
        PROVE  i \in PastFor(t)
    <2>1. Pending(t, i) \/ Offered(t, i) \/ i \in lost
      BY <1>0, <1>7 DEF NothingSkipped
    <2>2. ~ Holds(inputChan, i)
      BY <1>0, <1>1, <1>7 DEF Holds, InputInv
    <2>3. ~ Holds(outputChan, i)
      BY <1>0, <1>7 DEF Holds, OutputInv, Ahead
    <2>4. ~ (inPc = "send" /\ event = i)
      BY <1>0, <1>7 DEF InputInv, Ahead
    <2>5. ~ Pending(t, i)
      BY <1>0, <1>7, <2>2, <2>3, <2>4 DEF Pending
    <2>6. QED
      BY <2>1, <2>5 DEF PastFor
  <1>8. QED
    BY <1>2, <1>6, <1>7

(* A step that the relay does not see.                                     *)
LEMMA Unseen ==
    ASSUME UNCHANGED <<received, published, invoked, refused, lost>>
    PROVE  UNCHANGED R!vars
  BY DEF R!vars, PastFor, Offered, Holds, Delivered, Targets

(* Receiving an event is taking it into the log: its position is new       *)
(* (invocationHandler).                                                    *)
LEMMA EnqueueRefines ==
    ASSUME RInv, NEW a \in Invocations, Enqueue(a)
    PROVE  R!Take(a)
  <1> DEFINE n == Len(received) + 1
  <1>0. /\ IInv /\ TypeOK /\ InputInv /\ TargetInv
        /\ DOMAIN received = 1..Len(received) /\ Len(received) \in Nat
        /\ Done \in Nat /\ Done <= Len(received) /\ lost \subseteq Nat
    BY Facts DEF RInv
  <1>1. DOMAIN received' = DOMAIN received \cup {n} /\ n \notin 1..Done
    <2>1. DOMAIN received' = 1..(Len(received) + 1)
      BY <1>0, EnqueueAdds
    <2>2. QED
      BY <1>0, <2>1
  <1>2. UNCHANGED <<published, invoked, refused, lost>> /\ received' = Append(received, a)
    BY DEF Enqueue, outputVars
  <1>3. ASSUME NEW t \in Targets PROVE PastFor(t)' = PastFor(t)
    <2>1. ~ Shut(t, n)
      BY <1>0, <1>1, TargetsAre DEF RInv, ShutInv, Left
    <2>2. ~ Holds(published, n) /\ ~ Holds(invoked, n)
      BY <1>0, <1>1 DEF TargetInv, Accepted, Holds
    <2>3. ~ Offered(t, n) /\ n \notin lost
      BY <2>1, <2>2 DEF Offered, Shut
    <2>4. \A k : Offered(t, k)' <=> Offered(t, k)
      BY <1>2 DEF Offered, Holds
    <2>5. QED
      BY <1>1, <1>2, <2>3, <2>4 DEF PastFor
  <1>4. UNCHANGED Delivered
    BY <1>2 DEF Delivered, Targets
  <1>5. [t \in Targets |-> PastFor(t)]' = [t \in Targets |-> PastFor(t)]
    BY <1>3 DEF Targets
  <1>6. QED
    BY <1>2, <1>4, <1>5 DEF R!Take

(* A call of the target stream offers it the position in hand, and nothing *)
(* to the other target (startOutputLoop).                                  *)
LEMMA PublishRefines ==
    ASSUME RInv, Publish
    PROVE  "stream" \in Targets /\ data \in DOMAIN received /\ R!Offer("stream", data)
  <1>0. /\ published \in Seq(Nat) /\ data \in Nat /\ outPc = "publish"
        /\ "stream" \in Targets /\ UNCHANGED <<received, invoked, lost>>
    BY Facts, TargetsAre DEF RInv, IInv, CallsTargets, Publish
  <1>1. R!Due("stream", data) /\ data \in DOMAIN received
    <2>1. /\ data \in DOMAIN received /\ shouldCollect(received[data])
          /\ data \notin PastFor("stream")
          /\ \A i \in DOMAIN received :
                 i < data /\ shouldCollect(received[i]) => i \in PastFor("stream")
      BY <1>0, InHandIsDue
    <2>2. QED
      BY <1>0, <2>1 DEF R!Due
  <1>2. \/ published' = Append(published, data) /\ refused' = refused
        \/ published' = published /\ refused' = refused \cup {<<"stream", data>>}
    BY DEF Publish
  <1>3. \A k : Offered("stream", k)' <=> Offered("stream", k) \/ k = data
    <2>1. CASE published' = Append(published, data) /\ refused' = refused
      <3>1. \A k : Holds(published', k) <=> Holds(published, k) \/ k = data
        BY <1>0, <2>1, HoldsAppend
      <3>2. QED
        BY <2>1, <3>1 DEF Offered
    <2>2. CASE published' = published /\ refused' = refused \cup {<<"stream", data>>}
      <3>1. \A k : Holds(published', k) <=> Holds(published, k)
        BY <2>2 DEF Holds
      <3>2. QED
        BY <2>2, <3>1 DEF Offered
    <2>3. QED
      BY <1>2, <2>1, <2>2
  <1>4. \A k : Offered("component", k)' <=> Offered("component", k)
    BY <1>0, <1>2 DEF Offered, Holds
  <1>5. PastFor("stream")' = PastFor("stream") \cup {data}
    BY <1>0, <1>1, <1>3 DEF PastFor
  <1>6. PastFor("component")' = PastFor("component")
    BY <1>0, <1>4 DEF PastFor
  <1>7. [t \in Targets |-> PastFor(t)]' =
            [[t \in Targets |-> PastFor(t)] EXCEPT !["stream"] = @ \cup {data}]
    BY <1>0, <1>5, <1>6, TargetsAre DEF Targets
  <1>8. \/ Delivered' = [Delivered EXCEPT !["stream"] = Append(@, data)]
        \/ Delivered' = Delivered
    BY <1>0, <1>2, TargetsAre DEF Delivered, Targets
  <1>9. QED
    BY <1>0, <1>1, <1>7, <1>8 DEF R!Offer

(* The same for a call of the target component.                            *)
LEMMA InvokeRefines ==
    ASSUME RInv, Invoke
    PROVE  "component" \in Targets /\ data \in DOMAIN received /\ R!Offer("component", data)
  <1>0. /\ invoked \in Seq(Nat) /\ data \in Nat /\ outPc = "invoke"
        /\ "component" \in Targets /\ UNCHANGED <<received, published, lost>>
    BY Facts, TargetsAre DEF RInv, IInv, CallsTargets, Invoke
  <1>1. R!Due("component", data) /\ data \in DOMAIN received
    <2>1. /\ data \in DOMAIN received /\ shouldCollect(received[data])
          /\ data \notin PastFor("component")
          /\ \A i \in DOMAIN received :
                 i < data /\ shouldCollect(received[i]) => i \in PastFor("component")
      BY <1>0, InHandIsDue
    <2>2. QED
      BY <1>0, <2>1 DEF R!Due
  <1>2. \/ invoked' = Append(invoked, data) /\ refused' = refused
        \/ invoked' = invoked /\ refused' = refused \cup {<<"component", data>>}
    BY DEF Invoke
  <1>3. \A k : Offered("component", k)' <=> Offered("component", k) \/ k = data
    <2>1. CASE invoked' = Append(invoked, data) /\ refused' = refused
      <3>1. \A k : Holds(invoked', k) <=> Holds(invoked, k) \/ k = data
        BY <1>0, <2>1, HoldsAppend
      <3>2. QED
        BY <2>1, <3>1 DEF Offered
    <2>2. CASE invoked' = invoked /\ refused' = refused \cup {<<"component", data>>}
      <3>1. \A k : Holds(invoked', k) <=> Holds(invoked, k)
        BY <2>2 DEF Holds
      <3>2. QED
        BY <2>2, <3>1 DEF Offered
    <2>3. QED
      BY <1>2, <2>1, <2>2
  <1>4. \A k : Offered("stream", k)' <=> Offered("stream", k)
    BY <1>0, <1>2 DEF Offered, Holds
  <1>5. PastFor("component")' = PastFor("component") \cup {data}
    BY <1>0, <1>1, <1>3 DEF PastFor
  <1>6. PastFor("stream")' = PastFor("stream")
    BY <1>0, <1>4 DEF PastFor
  <1>7. [t \in Targets |-> PastFor(t)]' =
            [[t \in Targets |-> PastFor(t)] EXCEPT !["component"] = @ \cup {data}]
    BY <1>0, <1>5, <1>6, TargetsAre DEF Targets
  <1>8. \/ Delivered' = [Delivered EXCEPT !["component"] = Append(@, data)]
        \/ Delivered' = Delivered
    BY <1>0, <1>2, TargetsAre DEF Delivered, Targets
  <1>9. QED
    BY <1>0, <1>1, <1>7, <1>8 DEF R!Offer

(* A crash puts what it wiped behind the targets, and takes nothing back.  *)
LEMMA CrashRefines ==
    ASSUME Crash
    PROVE  R!Forget
  <1>1. UNCHANGED <<received, published, invoked, refused>> /\ lost \subseteq lost'
    BY DEF Crash
  <1>2. \A t : PastFor(t) \subseteq PastFor(t)' /\ PastFor(t)' \subseteq DOMAIN received
    BY <1>1 DEF PastFor, Offered, Holds
  <1>3. UNCHANGED Delivered
    BY <1>1 DEF Delivered, Targets
  <1>4. DOMAIN [t \in Targets |-> PastFor(t)]' = Targets
    BY DEF Targets
  <1>5. QED
    BY <1>1, <1>2, <1>3, <1>4 DEF R!Forget, Targets

(* Every step of the channel is one of the relay or is not seen by it.     *)
LEMMA StepRefines == RInv /\ [Next]_vars => [R!Next]_(R!vars)
  <1> SUFFICES ASSUME RInv, [Next]_vars
               PROVE  R!Next \/ UNCHANGED R!vars
    OBVIOUS
  <1>1. ASSUME NEW a \in Invocations, Enqueue(a) PROVE R!Next
    BY <1>1, EnqueueRefines DEF R!Next
  <1>2. CASE Publish
    BY <1>2, PublishRefines DEF R!Next
  <1>3. CASE Invoke
    BY <1>3, InvokeRefines DEF R!Next
  <1>4. CASE Crash
    BY <1>4, CrashRefines DEF R!Next
  <1>5. ASSUME UNCHANGED <<received, published, invoked, refused, lost>>
        PROVE  UNCHANGED R!vars
    BY <1>5, Unseen
  <1>6. QED
    BY <1>1, <1>2, <1>3, <1>4, <1>5
    DEF Next, vars, outputVars, Call, Answer, Drop, Process, Send, TakeOutput

(* The channel implements the abstract relay: events that pass the filter  *)
(* are offered to each target in order and once, and only a crash makes a  *)
(* target miss one (startProcessingLoop, startOutputLoop).                 *)
THEOREM Refinement == Spec => ImplementsRelay
  <1>1. QED
    BY InitRefines, StepRefines, RelayInvariant, PTL
    DEF Spec, ImplementsRelay, R!Spec
=============================================================================
