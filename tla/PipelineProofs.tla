--------------------------- MODULE PipelineProofs ---------------------------
(***************************************************************************)
(* Proofs about two channels in a row, for every set of events, all        *)
(* filters and capacities and every number of calls, restarts and faults.  *)
(*                                                                         *)
(* Each of the two implements Channel, so that what ChannelProofs shows of *)
(* one channel holds of both; Link is what holds between the two.          *)
(***************************************************************************)
EXTENDS Pipeline, LinesProofs

\* The proofs about a single channel, for the first and for the second.
UpP == INSTANCE ChannelProofs WITH
    Filter <- UpFilter, Trigger <- 0,
    StreamTarget <- FALSE, ComponentTarget <- TRUE, published <- <<>>,
    attempts <- upAttempts, answered <- upAnswered, sending <- upSending,
    returning <- upReturning, inputChan <- upInput, inPc <- upInPc,
    event <- upEvent, counter <- upCounter, outputChan <- upOutput,
    outPc <- upOutPc, data <- upData, invoked <- upInvoked,
    crashes <- upCrashes, received <- upReceived, refused <- upRefused,
    lost <- upLost

DownP == INSTANCE ChannelProofs WITH
    Events <- Messages, MaxCalls <- 2,
    Filter <- [m \in Messages |-> DownFilter[m[1]]],
    Select <- [m \in Messages |-> Select[m[1]]], Trigger <- 0,
    StreamTarget <- TRUE, ComponentTarget <- FALSE, invoked <- <<>>,
    attempts <- downAttempts, answered <- downAnswered,
    sending <- downSending, returning <- downReturning,
    inputChan <- downInput, inPc <- downInPc, event <- downEvent,
    counter <- downCounter, outputChan <- downOutput, outPc <- downOutPc,
    data <- downData, published <- downPublished, crashes <- downCrashes,
    received <- downReceived, refused <- downRefused, lost <- downLost

-----------------------------------------------------------------------------
(***************************************************************************)
(* The proofs of ChannelProofs apply.                                      *)
(***************************************************************************)

(* The constants of the first channel are as Channel assumes.              *)
LEMMA UpConstants ==
    /\ UpFilter \in [Events -> {"true", "false", "error"}]
    /\ Select \in [Events -> {"ok", "error"}]
    /\ InputCapacity \in Nat \ {0} /\ OutputCapacity \in Nat \ {0}
    /\ MaxCalls \in Nat /\ MaxCrashes \in Nat
  BY ProgAssumption, BoundAssumption

(* So are those of the second.                                             *)
LEMMA DownConstants ==
    /\ [m \in Messages |-> DownFilter[m[1]]] \in
           [Messages -> {"true", "false", "error"}]
    /\ [m \in Messages |-> Select[m[1]]] \in [Messages -> {"ok", "error"}]
    /\ InputCapacity \in Nat \ {0} /\ OutputCapacity \in Nat \ {0}
    /\ MaxCrashes \in Nat
  BY ProgAssumption, BoundAssumption DEF Messages

(* Both instances speak of the same channel.                               *)
LEMMA UpSame ==
    /\ Up!Init <=> UpP!Init
    /\ [Up!Next]_(Up!vars) <=> [UpP!Next]_(UpP!vars)
    /\ Up!Invoke <=> UpP!Invoke
    /\ Up!Crash <=> UpP!Crash
  <1> USE DEF Up!callerVars, UpP!callerVars, Up!handlerVars, UpP!handlerVars,
          Up!inputVars, UpP!inputVars, Up!outputVars, UpP!outputVars,
          Up!shouldCollect, UpP!shouldCollect, Up!shouldTrigger,
          UpP!shouldTrigger
  <1>1. Up!Init <=> UpP!Init
    BY DEF Up!Init, UpP!Init
  <1>2. UNCHANGED Up!vars <=> UNCHANGED UpP!vars
    BY DEF Up!vars, UpP!vars
  <1>3. ASSUME NEW a PROVE Up!Call(a) <=> UpP!Call(a)
    BY DEF Up!Call, UpP!Call
  <1>4. ASSUME NEW a PROVE Up!Enqueue(a) <=> UpP!Enqueue(a)
    BY DEF Up!Enqueue, UpP!Enqueue
  <1>5. ASSUME NEW a PROVE Up!Answer(a) <=> UpP!Answer(a)
    BY DEF Up!Answer, UpP!Answer
  <1>6. Up!Drop <=> UpP!Drop
    BY DEF Up!Drop, UpP!Drop
  <1>7. Up!Process <=> UpP!Process
    BY DEF Up!Process, UpP!Process
  <1>8. Up!Send <=> UpP!Send
    BY DEF Up!Send, UpP!Send
  <1>9. Up!TakeOutput <=> UpP!TakeOutput
    BY DEF Up!TakeOutput, UpP!TakeOutput
  <1>10. Up!Publish <=> UpP!Publish
    BY DEF Up!Publish, UpP!Publish
  <1>11. Up!Invoke <=> UpP!Invoke
    BY DEF Up!Invoke, UpP!Invoke
  <1>12. Up!Crash <=> UpP!Crash
    <2>1. Up!Targets = UpP!Targets
      BY DEF Up!Targets, UpP!Targets
    <2>2. \A g, k : Up!Pending(g, k) <=> UpP!Pending(g, k)
      BY DEF Up!Pending, UpP!Pending, Up!Holds, UpP!Holds
    <2>3. QED
      BY <2>1, <2>2 DEF Up!Crash, UpP!Crash
  <1>13. QED
    BY <1>1, <1>2, <1>3, <1>4, <1>5, <1>6, <1>7, <1>8, <1>9, <1>10, <1>11,
       <1>12
    DEF Up!Next, UpP!Next, Up!Invocations, UpP!Invocations

(* The same for the second channel.                                        *)
LEMMA DownSame ==
    /\ Down!Init <=> DownP!Init
    /\ [Down!Next]_(Down!vars) <=> [DownP!Next]_(DownP!vars)
    /\ Down!Invoke <=> DownP!Invoke
    /\ Down!Crash <=> DownP!Crash
  <1> USE DEF Down!callerVars, DownP!callerVars, Down!handlerVars,
          DownP!handlerVars, Down!inputVars, DownP!inputVars, Down!outputVars,
          DownP!outputVars, Down!shouldCollect, DownP!shouldCollect,
          Down!shouldTrigger, DownP!shouldTrigger
  <1>1. Down!Init <=> DownP!Init
    BY DEF Down!Init, DownP!Init
  <1>2. UNCHANGED Down!vars <=> UNCHANGED DownP!vars
    BY DEF Down!vars, DownP!vars
  <1>3. ASSUME NEW a PROVE Down!Call(a) <=> DownP!Call(a)
    BY DEF Down!Call, DownP!Call
  <1>4. ASSUME NEW a PROVE Down!Enqueue(a) <=> DownP!Enqueue(a)
    BY DEF Down!Enqueue, DownP!Enqueue
  <1>5. ASSUME NEW a PROVE Down!Answer(a) <=> DownP!Answer(a)
    BY DEF Down!Answer, DownP!Answer
  <1>6. Down!Drop <=> DownP!Drop
    BY DEF Down!Drop, DownP!Drop
  <1>7. Down!Process <=> DownP!Process
    BY DEF Down!Process, DownP!Process
  <1>8. Down!Send <=> DownP!Send
    BY DEF Down!Send, DownP!Send
  <1>9. Down!TakeOutput <=> DownP!TakeOutput
    BY DEF Down!TakeOutput, DownP!TakeOutput
  <1>10. Down!Publish <=> DownP!Publish
    BY DEF Down!Publish, DownP!Publish
  <1>11. Down!Invoke <=> DownP!Invoke
    BY DEF Down!Invoke, DownP!Invoke
  <1>12. Down!Crash <=> DownP!Crash
    <2>1. Down!Targets = DownP!Targets
      BY DEF Down!Targets, DownP!Targets
    <2>2. \A g, k : Down!Pending(g, k) <=> DownP!Pending(g, k)
      BY DEF Down!Pending, DownP!Pending, Down!Holds, DownP!Holds
    <2>3. QED
      BY <2>1, <2>2 DEF Down!Crash, DownP!Crash
  <1>13. QED
    BY <1>1, <1>2, <1>3, <1>4, <1>5, <1>6, <1>7, <1>8, <1>9, <1>10, <1>11,
       <1>12
    DEF Down!Next, DownP!Next, Down!Invocations, DownP!Invocations

(* What a step of the two is for the first channel.                        *)
LEMMA UpSteps == [Next]_vars => [Up!Next]_(Up!vars)
  BY DEF Next, UpStep, DownStep, DownAlone, Ask, Return, Fail, CrashUp,
         CrashDown, vars, upVars, Up!Next, Up!vars, Up!callerVars,
         Up!handlerVars, Up!inputVars, Up!outputVars, Up!Invocations, Messages

(* What the invariant of the first channel says of what it has in hand.    *)
LEMMA InHand ==
    ASSUME UpP!IInv, upOutPc = "invoke"
    PROVE  upData \in DOMAIN upReceived /\ Message \in Messages
  <1>1. UpP!Accepted(upData) /\ UpP!TypeOK /\ UpP!InputInv
    BY DEF UpP!IInv, UpP!LineInv, UpP!OutputInv
  <1>2. /\ UpP!Done \in Nat /\ UpP!Done <= Len(upReceived)
        /\ DOMAIN upReceived = 1..Len(upReceived) /\ Len(upReceived) \in Nat
        /\ upReceived \in Seq(Messages)
    BY <1>1, UpP!LineTypes, UpConstants DEF UpP!Invocations, Messages
  <1>3. upData \in DOMAIN upReceived
    BY <1>1, <1>2 DEF UpP!Accepted
  <1>4. QED
    BY <1>2, <1>3 DEF Message

(* What a step of the two is for the second channel: what it is asked to   *)
(* take is a call it may get (main.go:192).                                *)
LEMMA DownSteps == UpP!IInv /\ [Next]_vars => [Down!Next]_(Down!vars)
  <1> SUFFICES ASSUME UpP!IInv, [Next]_vars
               PROVE  Down!Next \/ UNCHANGED Down!vars
    OBVIOUS
  <1>1. CASE Ask
    BY <1>1, InHand DEF Ask, Down!Next
  <1>2. CASE DownStep
    BY <1>2 DEF DownStep, Down!Next
  <1>3. CASE CrashDown
    BY <1>3 DEF CrashDown, Down!Next
  <1>4. CASE UNCHANGED downVars
    BY <1>4 DEF downVars, Down!vars, Down!callerVars, Down!handlerVars,
                Down!inputVars, Down!outputVars
  <1>5. QED
    BY <1>1, <1>2, <1>3, <1>4
    DEF Next, UpStep, UpAlone, Return, Fail, CrashUp, vars

(* The first channel, whose calls are made, answered or fail, does what a  *)
(* channel may do whose calls succeed and fail at will.                    *)
THEOREM UpImplements == Spec => Up!Spec
  <1>1. Init => Up!Init
    BY DEF Init
  <1>2. QED
    BY <1>1, UpSteps, PTL DEF Spec, Up!Spec

(* What ChannelProofs shows of one channel holds of the first.             *)
LEMMA UpInvariant == Spec => []UpP!IInv
  <1>1. Init => UpP!Init
    BY UpSame DEF Init
  <1>2. [Next]_vars => [UpP!Next]_(UpP!vars)
    BY UpSame, UpSteps
  <1>3. UpP!Spec => []UpP!IInv
    BY UpP!InductiveInvariant, UpConstants
  <1>4. QED
    BY <1>1, <1>2, <1>3, PTL DEF Spec, UpP!Spec

(* The second channel, whose only caller is the first, does what a channel *)
(* may do that anybody calls.                                              *)
THEOREM DownImplements == Spec => Down!Spec
  <1>1. Init => Down!Init
    BY DEF Init
  <1>2. QED
    BY <1>1, UpInvariant, DownSteps, PTL DEF Spec, Down!Spec

(* What ChannelProofs shows of one channel holds of the second.            *)
LEMMA DownInvariant == Spec => []DownP!IInv
  <1>1. Init => DownP!Init
    BY DownSame DEF Init
  <1>2. UpP!IInv /\ [Next]_vars => [DownP!Next]_(DownP!vars)
    BY DownSame, DownSteps
  <1>3. DownP!Spec => []DownP!IInv
    BY DownP!InductiveInvariant, DownConstants
  <1>4. QED
    BY <1>1, <1>2, <1>3, UpInvariant, PTL DEF Spec, DownP!Spec

-----------------------------------------------------------------------------
(***************************************************************************)
(* What holds between the two channels.                                    *)
(***************************************************************************)

\* Up has had m in hand: it is behind in Up's line, or Down is being asked.
Sent(m) ==
    \E p \in DOMAIN upReceived :
        upReceived[p] = m /\ (UpP!Left("component", p) \/ asked = p)

\* The call in flight is for what the output loop has in hand.
AskedInv ==
    /\ asked # 0 => upOutPc = "invoke" /\ asked = upData
    /\ faults \in 0..MaxFaults

\* Down is asked at most once to take a message, and only when Up sends it.
AttemptsInv ==
    \A m \in Messages : downAttempts[m] # 0 => downAttempts[m] = 1 /\ Sent(m)

\* What Up saw succeed has arrived, before whatever comes after it in Up.
ArrivedInv ==
    \A p \in DOMAIN upReceived : Holds(upInvoked, p) =>
        /\ ArrivalsOf(p) # {}
        /\ \A q \in DOMAIN upReceived : p < q =>
               \A k \in ArrivalsOf(p), l \in ArrivalsOf(q) : k < l

Link == AskedInv /\ AttemptsInv /\ ArrivedInv

IInv == UpP!IInv /\ DownP!IInv /\ Link

(* What the invariant says of the first channel alone.                     *)
LEMMA UpFacts ==
    ASSUME UpP!IInv
    PROVE  /\ upReceived \in Seq(Messages)
           /\ DOMAIN upReceived = 1..Len(upReceived) /\ Len(upReceived) \in Nat
           /\ \A j, k \in DOMAIN upReceived : upReceived[j] = upReceived[k] => j = k
           /\ upOutPc \in {"select", "invoke"} /\ upData \in Nat
           /\ upOutPc = "invoke" => upData \in DOMAIN upReceived
           /\ upInvoked \in Seq(Nat)
           /\ \A p : Holds(upInvoked, p) => p \in DOMAIN upReceived
  <1>1. UpP!TypeOK /\ UpP!InputInv /\ UpP!TargetInv /\ UpP!Fresh /\ UpP!CallsTargets
    BY DEF UpP!IInv, UpP!LineInv
  <1>2. /\ UpP!Done \in Nat /\ UpP!Done <= Len(upReceived)
        /\ DOMAIN upReceived = 1..Len(upReceived) /\ Len(upReceived) \in Nat
        /\ upReceived \in Seq(Messages)
    BY <1>1, UpP!LineTypes, UpConstants DEF UpP!Invocations, Messages
  <1>3. upOutPc \in {"select", "invoke"}
    BY <1>1 DEF UpP!TypeOK, UpP!CallsTargets
  <1>4. \A p : Holds(upInvoked, p) => p \in DOMAIN upReceived
    BY <1>1, <1>2 DEF UpP!TargetInv, UpP!Accepted, Holds
  <1>5. \A j, k \in DOMAIN upReceived : upReceived[j] = upReceived[k] => j = k
    BY <1>1 DEF UpP!Fresh
  <1>6. QED
    BY <1>1, <1>2, <1>3, <1>4, <1>5, InHand DEF UpP!TypeOK

(* What it says of the second alone.                                       *)
LEMMA DownFacts ==
    ASSUME DownP!IInv
    PROVE  /\ downReceived \in Seq(Messages \X (1..2))
           /\ DOMAIN downReceived = 1..Len(downReceived) /\ Len(downReceived) \in Nat
           /\ downAttempts \in [Messages -> 0..2]
           /\ downSending \subseteq Messages \X (1..2)
           /\ \A j, k \in DOMAIN downReceived :
                  downReceived[j] = downReceived[k] => j = k
           /\ \A k \in DOMAIN downReceived :
                  /\ downReceived[k] \in Messages \X (1..2)
                  /\ downReceived[k][2] <= downAttempts[downReceived[k][1]]
           /\ \A a \in downSending :
                  /\ a[2] <= downAttempts[a[1]]
                  /\ \A k \in DOMAIN downReceived : downReceived[k] # a
           /\ \A a \in downAnswered : \E k \in DOMAIN downReceived : downReceived[k] = a
  <1>1. DownP!TypeOK /\ DownP!Fresh /\ DownP!HandedOver
    BY DEF DownP!IInv
  <1>2. /\ downReceived \in Seq(Messages \X (1..2))
        /\ downAttempts \in [Messages -> 0..2]
        /\ downSending \subseteq Messages \X (1..2)
    BY <1>1 DEF DownP!TypeOK, DownP!Invocations
  <1>3. /\ DOMAIN downReceived = 1..Len(downReceived) /\ Len(downReceived) \in Nat
        /\ \A k \in DOMAIN downReceived : downReceived[k] \in Messages \X (1..2)
    BY <1>2
  <1>4. QED
    BY <1>1, <1>2, <1>3 DEF DownP!Fresh, DownP!HandedOver

(* There is one invocation of Down for a message, and so one arrival.      *)
LEMMA OneInvocation ==
    ASSUME DownP!IInv, AttemptsInv
    PROVE  /\ \A k \in DOMAIN downReceived : downReceived[k] = <<downReceived[k][1], 1>>
           /\ \A a \in downSending : a = <<a[1], 1>>
           /\ \A j, k \in DOMAIN downReceived :
                  downReceived[j][1] = downReceived[k][1] => j = k
  <1>1. ASSUME NEW a \in Messages \X (1..2), a[2] <= downAttempts[a[1]]
        PROVE  a = <<a[1], 1>>
    <2>1. a[1] \in Messages /\ a[2] \in 1..2 /\ a = <<a[1], a[2]>>
      OBVIOUS
    <2>2. downAttempts[a[1]] \in 0..1
      BY <2>1, DownFacts DEF AttemptsInv
    <2>3. a[2] = 1
      BY <1>1, <2>1, <2>2
    <2>4. QED
      BY <2>1, <2>3
  <1>2. \A k \in DOMAIN downReceived : downReceived[k] = <<downReceived[k][1], 1>>
    BY <1>1, DownFacts
  <1>3. \A a \in downSending : a = <<a[1], 1>>
    BY <1>1, DownFacts
  <1>4. ASSUME NEW j \in DOMAIN downReceived, NEW k \in DOMAIN downReceived,
               downReceived[j][1] = downReceived[k][1]
        PROVE  j = k
    <2>1. downReceived[j] = downReceived[k]
      BY <1>2, <1>4
    <2>2. QED
      BY <2>1, DownFacts
  <1>5. QED
    BY <1>2, <1>3, <1>4

(* What Up has not sent Down was not asked to take, and has not got.       *)
LEMMA NotSentNotArrived ==
    ASSUME DownP!IInv, AttemptsInv, NEW m, ~ Sent(m)
    PROVE  /\ m \in Messages => downAttempts[m] = 0
           /\ \A k \in DOMAIN downReceived : downReceived[k][1] # m
  <1>1. m \in Messages => downAttempts[m] = 0
    BY DEF AttemptsInv
  <1>2. ASSUME NEW k \in DOMAIN downReceived, downReceived[k][1] = m
        PROVE  FALSE
    <2>1. /\ downReceived[k] = <<m, 1>> /\ downReceived[k] \in Messages \X (1..2)
          /\ downReceived[k][2] <= downAttempts[m]
      BY <1>2, DownFacts, OneInvocation
    <2>2. m \in Messages /\ downReceived[k][2] = 1
      BY <2>1
    <2>3. QED
      BY <1>1, <2>1, <2>2
  <1>3. QED
    BY <1>1, <1>2

(* What is still in Up's line has not been sent.                           *)
LEMMA InLineNotSent ==
    ASSUME UpP!IInv, NEW p \in DOMAIN upReceived,
           ~ UpP!Left("component", p), asked # p
    PROVE  ~ Sent(upReceived[p])
  BY UpFacts DEF Sent

-----------------------------------------------------------------------------
(***************************************************************************)
(* Every step keeps Link.                                                  *)
(***************************************************************************)

\* The history of Up grows at its end only.
Extends ==
    \A p \in DOMAIN upReceived :
        p \in DOMAIN upReceived' /\ upReceived'[p] = upReceived[p]

(* What Up has sent stays sent, while the call in flight is left alone or  *)
(* has returned (main.go:187-199).                                         *)
LEMMA SentStays ==
    ASSUME IInv, [Up!Next]_(Up!vars), Extends,
           \A p \in DOMAIN upReceived :
               asked = p => asked' = p \/ UpP!Left("component", p)'
    PROVE  \A m : Sent(m) => Sent(m)'
  <1>1. ASSUME NEW p, UpP!Left("component", p) PROVE UpP!Left("component", p)'
    BY <1>1, UpSame, UpP!LeftStays, UpConstants DEF IInv, UpP!IInv
  <1>2. QED
    BY <1>1 DEF Sent, Extends

(* The first channel at work: what it receives is new to the second.       *)
LEMMA UpStepLink == IInv /\ UpP!IInv' /\ UpStep => Link'
  <1> SUFFICES ASSUME IInv, UpP!IInv', UpStep
               PROVE  Link'
    OBVIOUS
  <1>1. /\ UNCHANGED <<downVars, asked, faults>> /\ UNCHANGED upInvoked
        /\ asked # 0 => upOutPc = "invoke" /\ UNCHANGED <<upOutPc, upData>>
    <2>1. asked # 0 => upOutPc = "invoke"
      BY DEF IInv, Link, AskedInv
    <2>2. UNCHANGED <<downVars, asked, faults>>
      BY DEF UpStep, UpAlone
    <2>3. QED
      BY <2>1, <2>2
      DEF UpStep, Up!Call, Up!Enqueue, Up!Answer, Up!Drop, Up!Process, Up!Send,
          Up!TakeOutput, Up!outputVars
  <1>2. Extends
    <2>1. ASSUME NEW a \in Messages, Up!Enqueue(a) PROVE Extends
      <3>1. upReceived' = Append(upReceived, a)
        BY <2>1 DEF Up!Enqueue
      <3>2. QED
        BY <3>1, UpFacts, AppendList DEF IInv, Extends
    <2>2. CASE UNCHANGED upReceived
      BY <2>2 DEF Extends
    <2>3. QED
      BY <2>1, <2>2
      DEF UpStep, Up!Call, Up!Answer, Up!Drop, Up!Process, Up!Send, Up!TakeOutput
  <1>3. AskedInv'
    BY <1>1 DEF IInv, Link, AskedInv
  <1>4. AttemptsInv'
    <2>1. [Up!Next]_(Up!vars)
      BY UpSteps DEF Next
    <2>2. \A m : Sent(m) => Sent(m)'
      BY <1>1, <1>2, <2>1, SentStays
    <2>3. QED
      BY <1>1, <2>2 DEF IInv, Link, AttemptsInv, downVars
  <1>5. ArrivedInv'
    <2>1. ASSUME NEW p \in DOMAIN upReceived PROVE ArrivalsOf(p)' = ArrivalsOf(p)
      BY <1>1, <1>2 DEF ArrivalsOf, Extends, downVars
    <2>2. ASSUME NEW q \in DOMAIN upReceived', q \notin DOMAIN upReceived
          PROVE  ArrivalsOf(q)' = {}
      <3>1. \A p \in DOMAIN upReceived : upReceived[p] # upReceived'[q]
        BY <1>2, <2>2 DEF Extends, UpP!IInv, UpP!Fresh
      <3>2. ~ Sent(upReceived'[q])
        BY <3>1 DEF Sent
      <3>3. QED
        BY <1>1, <3>2, NotSentNotArrived DEF ArrivalsOf, downVars, IInv, Link
    <2>3. \A p : Holds(upInvoked', p) => Holds(upInvoked, p) /\ p \in DOMAIN upReceived
      BY <1>1, UpFacts DEF Holds, IInv
    <2>4. QED
      BY <2>1, <2>2, <2>3 DEF ArrivedInv, IInv, Link
  <1>6. QED
    BY <1>3, <1>4, <1>5 DEF Link

(* The second channel at work: what it receives is the last to arrive.     *)
LEMMA DownStepLink == IInv /\ DownStep => Link'
  <1> SUFFICES ASSUME IInv, DownStep
               PROVE  Link'
    OBVIOUS
  <1>1. UNCHANGED <<upVars, asked, faults>> /\ UNCHANGED downAttempts
    BY DEF DownStep, DownAlone, Down!Enqueue, Down!Answer, Down!Drop,
           Down!Process, Down!Send, Down!TakeOutput, Down!Publish,
           Down!callerVars
  <1>2. AskedInv'
    BY <1>1 DEF IInv, Link, AskedInv, upVars
  <1>3. AttemptsInv'
    <2>1. [Up!Next]_(Up!vars) /\ Extends
      BY <1>1, UpSteps DEF Next, Extends, upVars
    <2>2. \A m : Sent(m) => Sent(m)'
      BY <1>1, <2>1, SentStays
    <2>3. QED
      BY <1>1, <2>2 DEF IInv, Link, AttemptsInv
  <1>4. CASE UNCHANGED downReceived
    BY <1>1, <1>2, <1>3, <1>4
    DEF IInv, Link, ArrivedInv, ArrivalsOf, Holds, upVars
  <1>5. ASSUME NEW a \in Down!Invocations, Down!Enqueue(a) PROVE Link'
    <2>1. /\ a \in downSending /\ a \in Messages \X (1..2)
          /\ downReceived' = Append(downReceived, a)
      BY <1>5, DownFacts DEF Down!Enqueue, IInv
    <2>2. /\ DOMAIN downReceived' = 1..(Len(downReceived) + 1)
          /\ DOMAIN downReceived = 1..Len(downReceived)
          /\ Len(downReceived) \in Nat
          /\ downReceived'[Len(downReceived) + 1] = a
          /\ \A k \in DOMAIN downReceived : downReceived'[k] = downReceived[k]
      BY <2>1, DownFacts, AppendList DEF IInv
    <2>3. ASSUME NEW p
          PROVE  ArrivalsOf(p)' =
                     ArrivalsOf(p) \cup (IF a[1] = upReceived[p]
                                        THEN {Len(downReceived) + 1} ELSE {})
      <3>1. upReceived' = upReceived
        BY <1>1 DEF upVars
      <3>2. QED
        BY <2>2, <3>1 DEF ArrivalsOf
    <2>4. ASSUME NEW p \in DOMAIN upReceived, ArrivalsOf(p) # {}
          PROVE  ArrivalsOf(p)' = ArrivalsOf(p)
      <3>1. PICK k \in DOMAIN downReceived : downReceived[k][1] = upReceived[p]
        BY <2>4 DEF ArrivalsOf
      <3>2. downReceived[k] = <<upReceived[p], 1>> /\ a = <<a[1], 1>>
        BY <2>1, <3>1, OneInvocation DEF IInv, Link
      <3>3. a # downReceived[k]
        BY <2>1, DownFacts DEF IInv
      <3>4. a[1] # upReceived[p]
        BY <3>2, <3>3
      <3>5. QED
        BY <2>3, <3>4
    <2>5. ASSUME NEW p \in DOMAIN upReceived', Holds(upInvoked', p),
                 NEW q \in DOMAIN upReceived', p < q,
                 NEW k \in ArrivalsOf(p)', NEW l \in ArrivalsOf(q)'
          PROVE  k < l
      <3>1. /\ p \in DOMAIN upReceived /\ q \in DOMAIN upReceived
            /\ Holds(upInvoked, p)
        BY <1>1, <2>5 DEF upVars, Holds
      <3>2. /\ ArrivalsOf(p) # {}
            /\ \A i \in ArrivalsOf(p), j \in ArrivalsOf(q) : i < j
        BY <2>5, <3>1 DEF IInv, Link, ArrivedInv
      <3>3. k \in ArrivalsOf(p) /\ k \in DOMAIN downReceived
        BY <2>4, <3>1, <3>2 DEF ArrivalsOf
      <3>4. CASE l \in ArrivalsOf(q)
        BY <3>2, <3>3, <3>4
      <3>5. CASE l = Len(downReceived) + 1
        BY <2>2, <3>3, <3>5
      <3>6. QED
        BY <2>3, <3>4, <3>5
    <2>6. ASSUME NEW p \in DOMAIN upReceived', Holds(upInvoked', p)
          PROVE  ArrivalsOf(p)' # {}
      BY <1>1, <2>3, <2>6 DEF IInv, Link, ArrivedInv, upVars, Holds
    <2>7. QED
      BY <1>2, <1>3, <2>5, <2>6 DEF Link, ArrivedInv
  <1>6. QED
    BY <1>4, <1>5
    DEF DownStep, Down!Answer, Down!Drop, Down!Process, Down!Send,
        Down!TakeOutput, Down!Publish

(* Down is asked for what Up has in hand, which it was not asked before    *)
(* (main.go:192).                                                          *)
LEMMA AskLink == IInv /\ Ask => Link'
  <1> SUFFICES ASSUME IInv, Ask
               PROVE  Link'
    OBVIOUS
  <1>1. /\ upOutPc = "invoke" /\ asked = 0 /\ asked' = upData
        /\ UNCHANGED <<upVars, faults>> /\ UNCHANGED downReceived
        /\ downAttempts' = [downAttempts EXCEPT ![Message] = @ + 1]
    BY DEF Ask, Down!Call
  <1>2. /\ upData \in DOMAIN upReceived /\ Message \in Messages /\ upData # 0
        /\ downAttempts \in [Messages -> 0..2]
    BY <1>1, InHand, UpFacts, DownFacts DEF IInv
  <1>3. downAttempts[Message] = 0
    <2>1. ~ UpP!Left("component", upData)
      BY <1>1, UpFacts DEF IInv, UpP!Left
    <2>2. ~ Sent(Message)
      BY <1>1, <1>2, <2>1, InLineNotSent DEF Message, IInv
    <2>3. QED
      BY <1>2, <2>2, NotSentNotArrived DEF IInv, Link
  <1>4. AskedInv'
    BY <1>1 DEF IInv, Link, AskedInv, upVars
  <1>5. AttemptsInv'
    <2>1. [Up!Next]_(Up!vars) /\ Extends
      BY <1>1, UpSteps DEF Next, Extends, upVars
    <2>2. \A m : Sent(m) => Sent(m)'
      BY <1>1, <1>2, <2>1, UpFacts, SentStays DEF IInv
    <2>3. Sent(Message)'
      BY <1>1, <1>2 DEF Sent, Message, upVars
    <2>4. \A m \in Messages :
              downAttempts'[m] = IF m = Message THEN 1 ELSE downAttempts[m]
      BY <1>1, <1>2, <1>3
    <2>5. ASSUME NEW m \in Messages, downAttempts'[m] # 0
          PROVE  downAttempts'[m] = 1 /\ Sent(m)'
      <3>1. CASE m = Message
        BY <1>1, <2>3, <2>4, <3>1 DEF Sent, Message, upVars
      <3>2. CASE m # Message
        BY <2>2, <2>4, <2>5, <3>2 DEF IInv, Link, AttemptsInv
      <3>3. QED
        BY <3>1, <3>2
    <2>6. QED
      BY <2>5 DEF AttemptsInv
  <1>6. ArrivedInv'
    BY <1>1 DEF IInv, Link, ArrivedInv, ArrivalsOf, Holds, upVars
  <1>7. QED
    BY <1>4, <1>5, <1>6 DEF Link

(* The call in flight ends: what it was for is behind in Up's line.        *)
LEMMA CallEnds ==
    ASSUME IInv, Up!Invoke, asked' = 0, UNCHANGED <<downVars>>,
           faults' \in 0..MaxFaults
    PROVE  AskedInv' /\ AttemptsInv'
  <1>1. [Up!Next]_(Up!vars) /\ Extends
    BY DEF Up!Next, Up!Invoke, Extends
  <1>2. \A p \in DOMAIN upReceived : asked = p => UpP!Left("component", p)'
    <2>1. ASSUME NEW p \in DOMAIN upReceived, asked = p
          PROVE  UpP!Left("component", p)'
      <3>1. p = upData
        BY <2>1, UpFacts DEF IInv, Link, AskedInv
      <3>2. QED
        BY <3>1, UpSame, UpP!InvokeLeaves, UpConstants DEF IInv, UpP!IInv
    <2>2. QED
      BY <2>1
  <1>3. \A m : Sent(m) => Sent(m)'
    BY <1>1, <1>2, SentStays
  <1>4. QED
    BY <1>3 DEF IInv, Link, AskedInv, AttemptsInv, downVars

(* The call returns with Down's answer, which comes after the hand-over;   *)
(* what is still in Up's line has not arrived (main.go:193-197).           *)
LEMMA ReturnLink == IInv /\ Return => Link'
  <1> SUFFICES ASSUME IInv, Return
               PROVE  Link'
    OBVIOUS
  <1>1. /\ Up!Invoke /\ asked # 0 /\ asked' = 0 /\ UNCHANGED <<downVars, faults>>
        /\ Request \in downAnswered
        /\ upInvoked' \in {upInvoked, Append(upInvoked, upData)}
        /\ UNCHANGED upReceived /\ UNCHANGED downReceived
    BY DEF Return, Up!Invoke, downVars
  <1>2. asked = upData /\ upOutPc = "invoke" /\ upData \in DOMAIN upReceived
    BY <1>1, UpFacts DEF IInv, Link, AskedInv
  <1>3. AskedInv' /\ AttemptsInv'
    BY <1>1, CallEnds DEF IInv, Link, AskedInv
  <1>4. ArrivalsOf(upData) # {}
    <2>1. PICK k \in DOMAIN downReceived : downReceived[k] = Request
      BY <1>1, DownFacts DEF IInv
    <2>2. downReceived[k][1] = upReceived[upData]
      BY <2>1 DEF Request, Message
    <2>3. QED
      BY <2>2 DEF ArrivalsOf
  <1>5. ASSUME NEW q \in DOMAIN upReceived, upData < q
        PROVE  ArrivalsOf(q) = {}
    <2>1. ~ UpP!Left("component", q) /\ asked # q
      BY <1>2, <1>5, UpFacts DEF UpP!Left, IInv
    <2>2. ~ Sent(upReceived[q])
      BY <2>1, InLineNotSent DEF IInv
    <2>3. QED
      BY <2>2, NotSentNotArrived DEF ArrivalsOf, IInv, Link
  <1>6. \A p : Holds(upInvoked', p) => Holds(upInvoked, p) \/ p = upData
    BY <1>1, HoldsAppend, UpFacts DEF IInv
  <1>7. \A p : ArrivalsOf(p)' = ArrivalsOf(p)
    BY <1>1 DEF ArrivalsOf
  <1>8. ArrivedInv'
    BY <1>1, <1>4, <1>5, <1>6, <1>7 DEF IInv, Link, ArrivedInv
  <1>9. QED
    BY <1>3, <1>8 DEF Link

(* A call that fails leaves what arrived as it is (main.go:193-194).       *)
LEMMA FailLink == IInv /\ Fail => Link'
  <1> SUFFICES ASSUME IInv, Fail
               PROVE  Link'
    OBVIOUS
  <1>1. /\ Up!Invoke /\ asked' = 0 /\ UNCHANGED <<downVars, upInvoked>>
        /\ UNCHANGED upReceived
        /\ faults' = faults \/ (faults < MaxFaults /\ faults' = faults + 1)
    BY DEF Fail, Died, Fault, Up!Invoke
  <1>2. faults' \in 0..MaxFaults
    BY <1>1, BoundAssumption DEF IInv, Link, AskedInv
  <1>3. AskedInv' /\ AttemptsInv'
    BY <1>1, <1>2, CallEnds
  <1>4. ArrivedInv'
    BY <1>1 DEF IInv, Link, ArrivedInv, ArrivalsOf, Holds, downVars
  <1>5. QED
    BY <1>3, <1>4 DEF Link

(* A crash of Up ends its call and leaves all it had received behind.      *)
LEMMA CrashUpLink == IInv /\ CrashUp => Link'
  <1> SUFFICES ASSUME IInv, CrashUp
               PROVE  Link'
    OBVIOUS
  <1>1. /\ Up!Crash /\ asked' = 0 /\ UNCHANGED <<downVars, faults>>
        /\ UNCHANGED <<upInvoked, upReceived>>
    BY DEF CrashUp, Up!Crash
  <1>2. [Up!Next]_(Up!vars) /\ Extends
    BY <1>1 DEF Up!Next, Extends
  <1>3. \A p \in DOMAIN upReceived : UpP!Left("component", p)'
    BY <1>1, UpSame, UpP!CrashLeaves, UpConstants DEF IInv, UpP!IInv
  <1>4. \A m : Sent(m) => Sent(m)'
    BY <1>2, <1>3, SentStays
  <1>5. QED
    BY <1>1, <1>4
    DEF IInv, Link, AskedInv, AttemptsInv, ArrivedInv, ArrivalsOf, Holds, downVars

(* A crash of Down, or a step outside both, leaves all that Link speaks of *)
(* as it is.                                                               *)
LEMMA FrameLink ==
    ASSUME IInv, UNCHANGED <<upVars, downAttempts, downReceived, asked, faults>>
    PROVE  Link'
  <1>1. \A m : Sent(m) => Sent(m)'
    BY DEF Sent, UpP!Left, UpP!Done, upVars
  <1>2. QED
    BY <1>1
    DEF IInv, Link, AskedInv, AttemptsInv, ArrivedInv, ArrivalsOf, Holds, upVars

(* Every step keeps Link.                                                  *)
LEMMA StepLink == IInv /\ UpP!IInv' /\ [Next]_vars => Link'
  <1> SUFFICES ASSUME IInv, UpP!IInv', [Next]_vars
               PROVE  Link'
    OBVIOUS
  <1>1. CASE UpStep
    BY <1>1, UpStepLink
  <1>2. CASE DownStep
    BY <1>2, DownStepLink
  <1>3. CASE Ask
    BY <1>3, AskLink
  <1>4. CASE Return
    BY <1>4, ReturnLink
  <1>5. CASE Fail
    BY <1>5, FailLink
  <1>6. CASE CrashUp
    BY <1>6, CrashUpLink
  <1>7. CASE CrashDown
    BY <1>7, FrameLink DEF CrashDown, Down!Crash, Down!callerVars
  <1>8. CASE UNCHANGED vars
    BY <1>8, FrameLink DEF vars, downVars
  <1>9. QED
    BY <1>1, <1>2, <1>3, <1>4, <1>5, <1>6, <1>7, <1>8 DEF Next

-----------------------------------------------------------------------------
(***************************************************************************)
(* The theorems.                                                           *)
(***************************************************************************)

(* What the properties of Pipeline say of a channel, in the terms of       *)
(* ChannelProofs.                                                          *)
LEMMA UpSpeaks ==
    /\ Up!TypeOK <=> UpP!TypeOK
    /\ \A t, k : Up!Pending(t, k) <=> UpP!Pending(t, k)
    /\ \A t, k : Up!Offered(t, k) <=> UpP!Offered(t, k)
    /\ \A a : Up!shouldCollect(a) <=> UpP!shouldCollect(a)
  <1>1. Up!TypeOK <=> UpP!TypeOK
    BY DEF Up!TypeOK, UpP!TypeOK, Up!Invocations, UpP!Invocations
  <1>2. \A t, k : Up!Pending(t, k) <=> UpP!Pending(t, k)
    BY DEF Up!Pending, UpP!Pending, Up!Holds, UpP!Holds
  <1>3. \A t, k : Up!Offered(t, k) <=> UpP!Offered(t, k)
    BY DEF Up!Offered, UpP!Offered, Up!Holds, UpP!Holds
  <1>4. \A a : Up!shouldCollect(a) <=> UpP!shouldCollect(a)
    BY DEF Up!shouldCollect, UpP!shouldCollect
  <1>5. QED
    BY <1>1, <1>2, <1>3, <1>4

(* The same for the second channel.                                        *)
LEMMA DownSpeaks ==
    /\ Down!TypeOK <=> DownP!TypeOK
    /\ \A t, k : Down!Pending(t, k) <=> DownP!Pending(t, k)
    /\ \A t, k : Down!Offered(t, k) <=> DownP!Offered(t, k)
    /\ \A a : Down!shouldCollect(a) <=> DownP!shouldCollect(a)
  <1>1. Down!TypeOK <=> DownP!TypeOK
    BY DEF Down!TypeOK, DownP!TypeOK, Down!Invocations, DownP!Invocations
  <1>2. \A t, k : Down!Pending(t, k) <=> DownP!Pending(t, k)
    BY DEF Down!Pending, DownP!Pending, Down!Holds, DownP!Holds
  <1>3. \A t, k : Down!Offered(t, k) <=> DownP!Offered(t, k)
    BY DEF Down!Offered, DownP!Offered, Down!Holds, DownP!Holds
  <1>4. \A a : Down!shouldCollect(a) <=> DownP!shouldCollect(a)
    BY DEF Down!shouldCollect, DownP!shouldCollect
  <1>5. QED
    BY <1>1, <1>2, <1>3, <1>4

(* Both channels keep their invariants, and Link holds between them, in    *)
(* every reachable state.                                                  *)
THEOREM InductiveInvariant == Spec => []IInv
  <1>1. Init => Link
    <2>1. Init => /\ asked = 0 /\ faults = 0 /\ upReceived = <<>>
                  /\ \A m \in Messages : downAttempts[m] = 0
      BY DEF Init, Up!Init, Down!Init
    <2>2. QED
      BY <2>1, BoundAssumption DEF Link, AskedInv, AttemptsInv, ArrivedInv
  <1>2. IInv /\ UpP!IInv' /\ [Next]_vars => Link'
    BY StepLink
  <1>3. QED
    BY <1>1, <1>2, UpInvariant, DownInvariant, PTL DEF Spec, IInv

(* Both channels are well typed, no buffer of either exceeds its capacity, *)
(* and a call in flight is for what the first has in hand (main.go:192).   *)
THEOREM TypeCorrect == Spec => []TypeOK
  <1>1. IInv => TypeOK
    BY UpSpeaks, DownSpeaks
    DEF IInv, UpP!IInv, DownP!IInv, Link, AskedInv, TypeOK
  <1>2. QED
    BY <1>1, InductiveInvariant, PTL

(* An accepted event is in either channel, was offered to the target       *)
(* stream, was stopped by a filter, or its loss shows (main.go:130-136,    *)
(* 187-199).                                                               *)
THEOREM NoneLostBetween == Spec => []NothingLostBetween
  <1>1. ASSUME IInv PROVE NothingLostBetween
    <2>1. SUFFICES ASSUME NEW p \in DOMAIN upReceived,
                          Up!shouldCollect(upReceived[p]),
                          ~ Up!Pending("component", p), p \notin upLost,
                          <<"component", p>> \notin upRefused
                   PROVE  \E k \in ArrivalsOf(p) :
                              Down!shouldCollect(downReceived[k]) =>
                                  \/ Down!Pending("stream", k)
                                  \/ Down!Offered("stream", k)
                                  \/ k \in downLost
      BY DEF NothingLostBetween
    <2>2. Holds(upInvoked, p)
      <3>1. UpP!Offered("component", p)
        BY <1>1, <2>1, UpSpeaks
        DEF IInv, UpP!IInv, UpP!NothingSkipped, UpP!Targets
      <3>2. QED
        BY <2>1, <3>1 DEF UpP!Offered, UpP!Holds, Holds
    <2>3. PICK k \in ArrivalsOf(p) : TRUE
      BY <1>1, <2>2 DEF IInv, Link, ArrivedInv
    <2>4. /\ k \in DOMAIN downReceived
          /\ Down!shouldCollect(downReceived[k]) =>
                 \/ Down!Pending("stream", k) \/ Down!Offered("stream", k)
                 \/ k \in downLost
      BY <1>1, <2>3, DownSpeaks
      DEF IInv, DownP!IInv, DownP!NothingSkipped, DownP!Targets, ArrivalsOf
    <2>5. QED
      BY <2>3, <2>4
  <1>2. QED
    BY <1>1, InductiveInvariant, PTL

(* The target stream gets no event twice: a failed call is not repeated,   *)
(* and nothing repeats what the second channel got (main.go:178-199).      *)
THEOREM NoneTwice == Spec => []AtMostOnce
  <1>1. ASSUME IInv PROVE AtMostOnce
    <2>1. /\ \A i, j \in DOMAIN downPublished :
                 i < j => downPublished[i] < downPublished[j]
          /\ \A i \in DOMAIN downPublished : downPublished[i] \in DOMAIN downReceived
          /\ \A i \in DOMAIN downPublished : i \in Nat /\ downPublished[i] \in Nat
      <3>1. DownP!TypeOK /\ DownP!InputInv /\ DownP!TargetInv
        BY <1>1 DEF IInv, DownP!IInv, DownP!LineInv
      <3>2. /\ DownP!Done \in Nat /\ DownP!Done <= Len(downReceived)
            /\ DOMAIN downReceived = 1..Len(downReceived) /\ Len(downReceived) \in Nat
            /\ downPublished \in Seq(Nat)
        BY <3>1, DownP!LineTypes, DownConstants
      <3>3. QED
        BY <3>1, <3>2 DEF DownP!TargetInv, DownP!Increasing, DownP!Accepted
    <2>2. \A i, j \in DOMAIN downPublished :
              i # j => downPublished[i] # downPublished[j]
      BY <2>1
    <2>3. QED
      BY <1>1, <2>1, <2>2, OneInvocation DEF IInv, Link, AtMostOnce
  <1>2. QED
    BY <1>1, InductiveInvariant, PTL

(* Events whose calls the first channel saw succeed reach the second in    *)
(* the order the first had them (main.go:169-199).                         *)
THEOREM AcknowledgedInOrder == Spec => []SucceededInOrder
  <1>1. IInv => SucceededInOrder
    BY DEF IInv, Link, ArrivedInv, SucceededInOrder
  <1>2. QED
    BY <1>1, InductiveInvariant, PTL

-----------------------------------------------------------------------------
(***************************************************************************)
(* Two channels do not wait for each other for ever.                       *)
(***************************************************************************)

\* There is something to be done in one of the two.
Busy == UpP!Busy \/ DownP!Busy \/ upOutPc = "invoke" \/ downOutPc = "publish"

\* The guards of what the two do by themselves: no new call from outside, no
\* crash and no fault of the network is needed.
CanMove ==
    \/ UpP!CanMove
    \/ DownP!CanMove \/ downOutPc = "publish"
    \/ upOutPc = "invoke" /\ asked = 0 /\ downAttempts[Message] < 2
    \/ asked # 0 /\ Request \in downAnswered
    \/ Died

(* While there is something to be done in either channel, one of the two   *)
(* can go on: back pressure stops the first only as long as the second is  *)
(* at work, and the bound of two calls for a message keeps no call away    *)
(* (main.go:130, 155, 171, 187-193).                                       *)
THEOREM NoStandstill == Spec => [](Busy => CanMove)
  <1>1. ASSUME IInv, Busy PROVE CanMove
    <2>1. DownP!TypeOK /\ downOutPc \in {"select", "publish"}
      BY <1>1 DEF IInv, DownP!IInv, DownP!TypeOK, DownP!CallsTargets
    <2>2. CASE DownP!Busy
      BY <2>1, <2>2, DownP!WaitsForTarget, DownConstants DEF CanMove
    <2>3. CASE upOutPc = "invoke"
      <3>1. CASE asked = 0
        <4>1. ~ UpP!Left("component", upData) /\ upData # asked
          BY <1>1, <2>3, <3>1, UpFacts DEF IInv, UpP!Left
        <4>2. ~ Sent(Message)
          BY <1>1, <2>3, <4>1, InHand, InLineNotSent DEF Message, IInv
        <4>3. downAttempts[Message] = 0
          BY <1>1, <2>3, <4>2, InHand, NotSentNotArrived DEF IInv, Link
        <4>4. QED
          BY <2>3, <3>1, <4>3 DEF CanMove
      <3>2. CASE asked # 0 /\ Request \in downSending \cup downReturning
        BY <2>2, <3>2 DEF DownP!Busy
      <3>3. CASE asked # 0 /\ Request \notin downSending \cup downReturning
        BY <3>3 DEF CanMove, Died
      <3>4. QED
        BY <3>1, <3>2, <3>3
    <2>4. CASE UpP!Busy /\ upOutPc = "select"
      BY <1>1, <2>4, UpP!WaitsForTarget, UpConstants DEF CanMove, IInv, UpP!IInv
    <2>5. QED
      BY <1>1, <2>2, <2>3, <2>4, UpFacts DEF Busy, CanMove, IInv
  <1>2. QED
    BY <1>1, InductiveInvariant, PTL
=============================================================================
