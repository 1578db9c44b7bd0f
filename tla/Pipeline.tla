------------------------------ MODULE Pipeline ------------------------------
(***************************************************************************)
(* Two Channel components in a row (components/channel/main.go): the       *)
(* target component of the first, Up, is the second, Down, whose target is *)
(* a stream.  Up's output loop invokes Down through the sidecars and waits *)
(* until Down's handler answers, and that handler waits for room in Down's *)
(* inputChan: a full Down stops Up, and a full Up its callers.             *)
(*                                                                         *)
(* Each is an instance of Channel with variables of its own.  Where        *)
(* Channel lets Invoke succeed or fail at will, here it succeeds when Down *)
(* has answered; it fails when Down has died over it or when the network   *)
(* fails, in which case Down's handler knows nothing of it and goes on.    *)
(***************************************************************************)
EXTENDS Lines

CONSTANTS
    Events,          \* the events callers send to Up
    UpFilter,        \* what Up's filter says of an event
    DownFilter,      \* what Down's filter says of what Up makes of it
    Select,          \* what becomes of projecting an event, in either channel
    InputCapacity, OutputCapacity,
    MaxCalls,        \* bound: how often callers send one event
    MaxCrashes,      \* bound: restarts of the two together
    MaxFaults,       \* bound: calls of Up the network fails
    NoData

ASSUME ProgAssumption ==
    /\ UpFilter \in [Events -> {"true", "false", "error"}]
    /\ DownFilter \in [Events -> {"true", "false", "error"}]
    /\ Select \in [Events -> {"ok", "error"}]

ASSUME BoundAssumption ==
    /\ InputCapacity \in Nat \ {0} /\ OutputCapacity \in Nat \ {0}
    /\ MaxCalls \in Nat /\ MaxCrashes \in Nat /\ MaxFaults \in Nat

VARIABLES
    upAttempts, upAnswered, upSending, upReturning, upInput, upInPc, upEvent,
    upCounter, upOutput, upOutPc, upData, upInvoked, upCrashes, upReceived,
    upRefused, upLost

VARIABLES
    downAttempts, downAnswered, downSending, downReturning, downInput,
    downInPc, downEvent, downCounter, downOutput, downOutPc, downData,
    downPublished, downCrashes, downReceived, downRefused, downLost

VARIABLES
    asked,   \* Up's position that Down is being asked to take, 0 if none
    faults   \* calls the network has failed so far

upVars ==
    <<upAttempts, upAnswered, upSending, upReturning, upInput, upInPc, upEvent,
      upCounter, upOutput, upOutPc, upData, upInvoked, upCrashes, upReceived,
      upRefused, upLost>>
downVars ==
    <<downAttempts, downAnswered, downSending, downReturning, downInput,
      downInPc, downEvent, downCounter, downOutput, downOutPc, downData,
      downPublished, downCrashes, downReceived, downRefused, downLost>>
vars == <<upVars, downVars, asked, faults>>

\* What Up was called with identifies what it sends on.
Messages == Events \X (1..MaxCalls)

Up == INSTANCE Channel WITH
    Filter <- UpFilter, Trigger <- 0,
    StreamTarget <- FALSE, ComponentTarget <- TRUE, published <- <<>>,
    attempts <- upAttempts, answered <- upAnswered, sending <- upSending,
    returning <- upReturning, inputChan <- upInput, inPc <- upInPc,
    event <- upEvent, counter <- upCounter, outputChan <- upOutput,
    outPc <- upOutPc, data <- upData, invoked <- upInvoked,
    crashes <- upCrashes, received <- upReceived, refused <- upRefused,
    lost <- upLost

\* Nothing keeps a channel from being asked twice to take one message.
Down == INSTANCE Channel WITH
    Events <- Messages, MaxCalls <- 2,
    Filter <- [m \in Messages |-> DownFilter[m[1]]],
    Select <- [m \in Messages |-> Select[m[1]]], Trigger <- 0,
    StreamTarget <- TRUE, ComponentTarget <- FALSE, invoked <- <<>>,
    attempts <- downAttempts, answered <- downAnswered,
    sending <- downSending, returning <- downReturning,
    inputChan <- downInput, inPc <- downInPc, event <- downEvent,
    counter <- downCounter, outputChan <- downOutput, outPc <- downOutPc,
    data <- downData, published <- downPublished, crashes <- downCrashes,
    received <- downReceived, refused <- downRefused, lost <- downLost

-----------------------------------------------------------------------------
Init == Up!Init /\ Down!Init /\ asked = 0 /\ faults = 0

\* A step of one of the channels that leaves the other and the call alone.
UpAlone == UNCHANGED <<downVars, asked, faults>>
DownAlone == UNCHANGED <<upVars, asked, faults>>

UpStep ==
    /\ \/ \E e \in Events : Up!Call(e)
       \/ \E a \in Messages : Up!Enqueue(a) \/ Up!Answer(a)
       \/ Up!Drop \/ Up!Process \/ Up!Send \/ Up!TakeOutput
    /\ UpAlone

DownStep ==
    /\ \/ \E a \in Down!Invocations : Down!Enqueue(a) \/ Down!Answer(a)
       \/ Down!Drop \/ Down!Process \/ Down!Send \/ Down!TakeOutput
       \/ Down!Publish
    /\ DownAlone

\* The invocation that asks Down for what Up has in hand.
Message == upReceived[upData]
Request == <<Message, downAttempts[Message]>>

\* Up's output loop calls InvokeMethodWithContent: a handler starts in Down.
Ask ==
    /\ upOutPc = "invoke" /\ asked = 0
    /\ Down!Call(Message)
    /\ asked' = upData
    /\ UNCHANGED <<upVars, faults>>

\* Mutant: the call does not wait for an answer.
ReturnAtOnce ==
    /\ asked # 0
    /\ UNCHANGED upRefused /\ Up!Invoke
    /\ asked' = 0
    /\ UNCHANGED <<downVars, faults>>

\* The call returns with Down's answer.
Return ==
    /\ asked # 0
    /\ Request \in downAnswered
    /\ UNCHANGED upRefused /\ Up!Invoke
    /\ asked' = 0
    /\ UNCHANGED <<downVars, faults>>

\* Down has died before it answered.
Died ==
    /\ asked # 0
    /\ Request \notin downSending \cup downReturning \cup downAnswered

\* The network fails, before Down is reached or later.
Fault == faults < MaxFaults /\ faults' = faults + 1

\* Mutant: a failed call is tried again.
FailAndRetry ==
    /\ upOutPc = "invoke"
    /\ (Died /\ UNCHANGED faults) \/ Fault
    /\ asked' = 0
    /\ UNCHANGED <<upVars, downVars>>

\* Mutant: a call that outlives the process it went to never returns.
FailByNetwork ==
    /\ Fault
    /\ UNCHANGED upInvoked /\ Up!Invoke
    /\ asked' = 0
    /\ UNCHANGED downVars

\* The call returns an error, which is logged; Down's handler may be alive.
Fail ==
    /\ (Died /\ UNCHANGED faults) \/ Fault
    /\ UNCHANGED upInvoked /\ Up!Invoke
    /\ asked' = 0
    /\ UNCHANGED downVars

\* Mutant: a restarted Up still waits for the call of before.
CrashUpWaiting ==
    /\ upCrashes + downCrashes < MaxCrashes
    /\ Up!Crash
    /\ UNCHANGED <<downVars, asked, faults>>

\* One of the two processes dies and is started again.
CrashUp ==
    /\ upCrashes + downCrashes < MaxCrashes
    /\ Up!Crash
    /\ asked' = 0
    /\ UNCHANGED <<downVars, faults>>

CrashDown ==
    /\ upCrashes + downCrashes < MaxCrashes
    /\ Down!Crash
    /\ UNCHANGED <<upVars, asked, faults>>

Next == UpStep \/ DownStep \/ Ask \/ Return \/ Fail \/ CrashUp \/ CrashDown

Spec == Init /\ [][Next]_vars

(***************************************************************************)
(* As for one channel; but that Up's calls return is not assumed: they are *)
(* made, and answers and failures reach Up.                                *)
(***************************************************************************)
Fairness ==
    /\ WF_vars((Up!Drop \/ Up!Process \/ Up!Send) /\ UpAlone)
    /\ WF_vars((Up!TakeOutput /\ UpAlone) \/ Ask \/ Return \/ (Died /\ Fail))
    /\ \A a \in Messages : SF_vars(Up!Enqueue(a) /\ UpAlone)
    /\ WF_vars((Down!Drop \/ Down!Process \/ Down!Send) /\ DownAlone)
    /\ WF_vars((Down!TakeOutput \/ Down!Publish) /\ DownAlone)
    /\ \A a \in Down!Invocations :
        /\ SF_vars(Down!Enqueue(a) /\ DownAlone)
        /\ WF_vars(Down!Answer(a) /\ DownAlone)

FairSpec == Spec /\ Fairness

-----------------------------------------------------------------------------
(* Both channels are well typed, and a call in flight is for what Up's     *)
(* output loop has in hand.                                                *)
TypeOK ==
    /\ Up!TypeOK /\ Down!TypeOK
    /\ asked # 0 => upOutPc = "invoke" /\ asked = upData
    /\ faults \in 0..MaxFaults

\* The positions of Down at which p of Up arrived, and where one came from.
ArrivalsOf(p) == {k \in DOMAIN downReceived : downReceived[k][1] = upReceived[p]}

(* An event callers send is on its way through both channels to the target *)
(* stream, was offered to it, stopped by a filter, or lost at a place that *)
(* shows: in a crash, or in a call that failed.  No hand-over between the  *)
(* two loses one (invocationHandler answers after inputChan <- e).         *)
NothingLostBetween ==
    \A p \in DOMAIN upReceived : Up!shouldCollect(upReceived[p]) =>
        \/ Up!Pending("component", p) \/ p \in upLost
        \/ <<"component", p>> \in upRefused
        \/ \E k \in ArrivalsOf(p) :
              Down!shouldCollect(downReceived[k]) =>
                  \/ Down!Pending("stream", k) \/ Down!Offered("stream", k)
                  \/ k \in downLost

(* The target stream gets each event at most once, although Up cannot tell *)
(* a call that failed from one whose answer was lost.  The code does not    *)
(* retry; that no sidecar retries a call on its own is assumed of Dapr.     *)
AtMostOnce ==
    \A i, j \in DOMAIN downPublished : i # j =>
        downReceived[downPublished[i]][1] # downReceived[downPublished[j]][1]

(* Events whose calls Up saw succeed reach Down in the order Up had them,  *)
(* although every call is a goroutine of its own in Down.                  *)
SucceededInOrder ==
    \A p, q \in DOMAIN upReceived :
        p < q /\ Holds(upInvoked, p) /\ Holds(upInvoked, q) =>
            \A k \in ArrivalsOf(p), l \in ArrivalsOf(q) : k < l

(* Up keeps what Channel promises of a single one, with calls that return  *)
(* because Down has room again and not because they are assumed to.        *)
UpstreamIsChannel == Up!FairSpec

(* What passes both filters ends up offered to the target stream, unless   *)
(* it is lost in a crash or in a call that failed.                         *)
EndToEnd ==
    \A a \in Messages : Up!shouldCollect(a) /\ Down!shouldCollect(<<a, 1>>) =>
        (\E p \in DOMAIN upReceived : upReceived[p] = a) ~>
            \/ \E p \in DOMAIN upReceived :
                  /\ upReceived[p] = a
                  /\ p \in upLost \/ <<"component", p>> \in upRefused
            \/ \E k \in DOMAIN downReceived :
                  /\ downReceived[k][1] = a
                  /\ Down!Offered("stream", k) \/ k \in downLost
=============================================================================
