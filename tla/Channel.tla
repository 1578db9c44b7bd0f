------------------------------ MODULE Channel ------------------------------
(***************************************************************************)
(* The Channel component (components/channel/main.go).                     *)
(*                                                                         *)
(* Callers invoke the component through its sidecar.  Each invocation runs *)
(* a handler goroutine that puts the event on the buffered inputChan and   *)
(* answers with the event it got.  The processing loop takes events one by *)
(* one, filters and projects them, and puts the result on the buffered     *)
(* outputChan; the output loop sends each result to the target stream and  *)
(* to the target component, those that are set.                            *)
(*                                                                         *)
(* An invocation is <<e, n>>, the n-th one with event e.  What travels     *)
(* through the queues is a position in received, the history of what was   *)
(* put on inputChan.                                                       *)
(***************************************************************************)
EXTENDS Lines

CONSTANTS
    Events,          \* the events callers may send
    Filter,          \* Filter[e]: "true", "false" or "error"
    Select,          \* Select[e]: "ok" or "error"
    Trigger,         \* n if the trigger expression is "count >= n", 0 if unset
    StreamTarget,    \* is CHANNEL_STREAM_TO_STREAM set?
    ComponentTarget, \* is CHANNEL_STREAM_TO_COMPONENT set?
    InputCapacity,   \* the buffer of inputChan, 1024 in the code
    OutputCapacity,  \* the buffer of outputChan, 1024 in the code
    MaxCalls,        \* bound: invocations with one event
    MaxCrashes,      \* bound: restarts of the process
    NoData           \* the payload of a nil slice

ASSUME ProgAssumption ==
    /\ Filter \in [Events -> {"true", "false", "error"}]
    /\ Select \in [Events -> {"ok", "error"}]
    /\ Trigger \in Nat

\* main refuses to start without a target (main.go:50-52).
ASSUME TargetAssumption ==
    /\ StreamTarget \in BOOLEAN /\ ComponentTarget \in BOOLEAN
    /\ StreamTarget \/ ComponentTarget

ASSUME BoundAssumption ==
    /\ InputCapacity \in Nat \ {0} /\ OutputCapacity \in Nat \ {0}
    /\ MaxCalls \in Nat /\ MaxCrashes \in Nat

VARIABLES
    attempts,    \* how often each event has been sent
    answered,    \* invocations the caller got an answer to
    sending,     \* handlers blocked in or before inputChan <- e
    returning,   \* handlers past it that have not answered yet
    inputChan,   \* positions waiting for the processing loop
    inPc,        \* processing loop: "select" or "send" (output <-)
    event,       \* processing loop: the position being sent, 0 if none
    counter,     \* results the processing loop has produced
    outputChan,  \* positions waiting for the output loop
    outPc,       \* output loop: "select", "publish" or "invoke"
    data,        \* output loop: the position in hand, 0 if none
    published,   \* positions the target stream has accepted, in order
    invoked,     \* positions the target component has accepted, in order
    crashes,     \* restarts so far
    received,    \* history: every invocation put on inputChan, in order
    refused,     \* history: <<target, position>> of calls that failed
    lost         \* history: positions a crash wiped from the process

callerVars  == <<attempts, answered>>
handlerVars == <<sending, returning>>
inputVars   == <<inPc, event, counter>>
outputVars  == <<outPc, data, published, invoked, refused>>
vars == <<callerVars, handlerVars, inputChan, inputVars, outputChan,
          outputVars, crashes, received, lost>>

-----------------------------------------------------------------------------
Invocations == Events \X (1..MaxCalls)

Targets == {t \in {"stream", "component"} :
               IF t = "stream" THEN StreamTarget ELSE ComponentTarget}

\* No error and the filter says true, or there is no filter.
shouldCollect(a) == Filter[a[1]] = "true"

(***************************************************************************)
(* Evaluating dataProg.  main compiles the trigger expression into it,     *)
(* over the projection.  Triggers are about count, which collectData does  *)
(* not define, so that with a trigger every evaluation fails (main.go:258).*)
(***************************************************************************)
dataProg(a) == IF Trigger > 0 THEN "error" ELSE Select[a[1]]

\* The payload sent for an event: a nil slice if that fails.
collectData(a) == IF dataProg(a) = "error" THEN NoData ELSE a

\* Mutant: the output loop waits for a trigger, and none is set.
TriggerIsSet == Trigger > 0

\* triggerProg is never set, and not looked at.
shouldTrigger == TRUE

-----------------------------------------------------------------------------
Init ==
    /\ attempts = [e \in Events |-> 0] /\ answered = {}
    /\ sending = {} /\ returning = {}
    /\ inputChan = <<>>
    /\ inPc = "select" /\ event = 0 /\ counter = 0
    /\ outputChan = <<>>
    /\ outPc = "select" /\ data = 0 /\ published = <<>> /\ invoked = <<>>
    /\ refused = {}
    /\ crashes = 0
    /\ received = <<>> /\ lost = {}

\* A caller sends an event, for the first time or once more.
Call(e) ==
    /\ attempts[e] < MaxCalls
    /\ attempts' = [attempts EXCEPT ![e] = @ + 1]
    /\ sending' = sending \cup {<<e, attempts[e] + 1>>}
    /\ UNCHANGED <<answered, returning, inputChan, inputVars, outputChan,
                   outputVars, crashes, received, lost>>

\* Mutant: a handler that finds the buffer full answers all the same.
EnqueueOrDrop(a) ==
    /\ a \in sending
    /\ sending' = sending \ {a}
    /\ returning' = returning \cup {a}
    /\ IF Len(inputChan) < InputCapacity
       THEN /\ inputChan' = Append(inputChan, Len(received) + 1)
            /\ received' = Append(received, a)
       ELSE UNCHANGED <<inputChan, received>>
    /\ UNCHANGED <<callerVars, inputVars, outputChan, outputVars, crashes,
                   lost>>

\* invocationHandler: inputChan <- e, which waits for room in the buffer.
Enqueue(a) ==
    /\ a \in sending
    /\ Len(inputChan) < InputCapacity
    /\ sending' = sending \ {a}
    /\ returning' = returning \cup {a}
    /\ inputChan' = Append(inputChan, Len(received) + 1)
    /\ received' = Append(received, a)
    /\ UNCHANGED <<callerVars, inputVars, outputChan, outputVars, crashes,
                   lost>>

\* invocationHandler returns the event as its answer.
Answer(a) ==
    /\ a \in returning
    /\ returning' = returning \ {a}
    /\ answered' = answered \cup {a}
    /\ UNCHANGED <<attempts, sending, inputChan, inputVars, outputChan,
                   outputVars, crashes, received, lost>>

(***************************************************************************)
(* The processing loop: case data := <-input.  An event the filter refuses *)
(* or fails on is dropped; a failed projection is logged and goes on.      *)
(***************************************************************************)
Drop ==
    /\ inPc = "select"
    /\ inputChan # <<>>
    /\ ~ shouldCollect(received[Head(inputChan)])
    /\ inputChan' = Tail(inputChan)
    /\ UNCHANGED <<callerVars, handlerVars, inputVars, outputChan, outputVars,
                   crashes, received, lost>>

Process ==
    /\ inPc = "select"
    /\ inputChan # <<>>
    /\ shouldCollect(received[Head(inputChan)])
    /\ inputChan' = Tail(inputChan)
    /\ event' = Head(inputChan)
    /\ counter' = counter + 1
    /\ inPc' = "send"
    /\ UNCHANGED <<callerVars, handlerVars, outputChan, outputVars, crashes,
                   received, lost>>

\* Mutant: the queue grows without waiting for room.
SendUnbounded ==
    /\ inPc = "send"
    /\ outputChan' = Append(outputChan, event)
    /\ event' = 0
    /\ inPc' = "select"
    /\ UNCHANGED <<callerVars, handlerVars, inputChan, counter, outputVars,
                   crashes, received, lost>>

\* output <- event, which waits for room in the buffer.
Send ==
    /\ inPc = "send"
    /\ Len(outputChan) < OutputCapacity
    /\ outputChan' = Append(outputChan, event)
    /\ event' = 0
    /\ inPc' = "select"
    /\ UNCHANGED <<callerVars, handlerVars, inputChan, counter, outputVars,
                   crashes, received, lost>>

(***************************************************************************)
(* The output loop: case data := <-output, and one call per target.  A     *)
(* call that fails is logged and not tried again.                          *)
(***************************************************************************)
TakeOutput ==
    /\ outPc = "select"
    /\ outputChan # <<>>
    /\ shouldTrigger
    /\ data' = Head(outputChan)
    /\ outputChan' = Tail(outputChan)
    /\ outPc' = IF StreamTarget THEN "publish" ELSE "invoke"
    /\ UNCHANGED <<callerVars, handlerVars, inputChan, inputVars, published,
                   invoked, refused, crashes, received, lost>>

\* Mutant: a refused result is put back on the queue.
PublishRetry ==
    /\ outPc = "publish"
    /\ \/ published' = Append(published, data) /\ UNCHANGED outputChan
       \/ outputChan' = Append(outputChan, data) /\ UNCHANGED published
    /\ IF ComponentTarget THEN outPc' = "invoke" /\ UNCHANGED data
                          ELSE outPc' = "select" /\ data' = 0
    /\ UNCHANGED <<callerVars, handlerVars, inputChan, inputVars, invoked,
                   refused, crashes, received, lost>>

\* Mutant: after the stream has refused, the component is not called.
PublishOrSkip ==
    /\ outPc = "publish"
    /\ \/ /\ published' = Append(published, data) /\ UNCHANGED refused
          /\ IF ComponentTarget THEN outPc' = "invoke" /\ UNCHANGED data
                                ELSE outPc' = "select" /\ data' = 0
       \/ /\ refused' = refused \cup {<<"stream", data>>}
          /\ outPc' = "select" /\ data' = 0
          /\ UNCHANGED published
    /\ UNCHANGED <<callerVars, handlerVars, inputChan, inputVars, outputChan,
                   invoked, crashes, received, lost>>

Publish ==
    /\ outPc = "publish"
    /\ \/ published' = Append(published, data) /\ UNCHANGED refused
       \/ refused' = refused \cup {<<"stream", data>>} /\ UNCHANGED published
    /\ IF ComponentTarget THEN outPc' = "invoke" /\ UNCHANGED data
                          ELSE outPc' = "select" /\ data' = 0
    /\ UNCHANGED <<callerVars, handlerVars, inputChan, inputVars, outputChan,
                   invoked, crashes, received, lost>>

\* Mutant: the loop returns when the component refuses.
InvokeOrStop ==
    /\ outPc = "invoke"
    /\ \/ /\ invoked' = Append(invoked, data) /\ UNCHANGED refused
          /\ outPc' = "select"
       \/ /\ refused' = refused \cup {<<"component", data>>}
          /\ outPc' = "stopped" /\ UNCHANGED invoked
    /\ data' = 0
    /\ UNCHANGED <<callerVars, handlerVars, inputChan, inputVars, outputChan,
                   published, crashes, received, lost>>

Invoke ==
    /\ outPc = "invoke"
    /\ \/ invoked' = Append(invoked, data) /\ UNCHANGED refused
       \/ refused' = refused \cup {<<"component", data>>} /\ UNCHANGED invoked
    /\ data' = 0
    /\ outPc' = "select"
    /\ UNCHANGED <<callerVars, handlerVars, inputChan, inputVars, outputChan,
                   published, crashes, received, lost>>

(***************************************************************************)
(* Where an accepted position can be on its way to a target.               *)
(***************************************************************************)
Offered(t, k) ==
    IF t = "stream" THEN Holds(published, k) \/ <<t, k>> \in refused
                    ELSE Holds(invoked, k) \/ <<t, k>> \in refused

Pending(t, k) ==
    \/ Holds(inputChan, k) \/ Holds(outputChan, k)
    \/ inPc = "send" /\ event = k
    \/ /\ data = k
       /\ outPc = "publish" \/ (outPc = "invoke" /\ t = "component")

\* The process dies and is started again: nothing of it is persisted.
Crash ==
    /\ crashes < MaxCrashes
    /\ crashes' = crashes + 1
    /\ sending' = {} /\ returning' = {}
    /\ inputChan' = <<>> /\ inPc' = "select" /\ event' = 0 /\ counter' = 0
    /\ outputChan' = <<>> /\ outPc' = "select" /\ data' = 0
    /\ lost' = lost \cup {k \in DOMAIN received :
                             \E t \in Targets : Pending(t, k)}
    /\ UNCHANGED <<callerVars, published, invoked, refused, received>>

-----------------------------------------------------------------------------
Next ==
    \/ \E e \in Events : Call(e)
    \/ \E a \in Invocations : Enqueue(a) \/ Answer(a)
    \/ Drop \/ Process \/ Send
    \/ TakeOutput \/ Publish \/ Invoke
    \/ Crash

Spec == Init /\ [][Next]_vars

(***************************************************************************)
(* The two goroutines run when they can and calls to the sidecar return.   *)
(* A buffered Go channel serves blocked senders first come, first served.  *)
(***************************************************************************)
Fairness ==
    /\ WF_vars(Drop) /\ WF_vars(Process) /\ WF_vars(Send)
    /\ WF_vars(TakeOutput) /\ WF_vars(Publish) /\ WF_vars(Invoke)
    /\ \A a \in Invocations : SF_vars(Enqueue(a))

FairSpec == Spec /\ Fairness

-----------------------------------------------------------------------------
(* Every variable ranges over the values the code can give it, and the two *)
(* buffers respect their capacities.                                       *)
TypeOK ==
    /\ attempts \in [Events -> 0..MaxCalls] /\ answered \subseteq Invocations
    /\ sending \subseteq Invocations /\ returning \subseteq Invocations
    /\ inputChan \in Seq(Nat) /\ Len(inputChan) <= InputCapacity
    /\ inPc \in {"select", "send"} /\ event \in Nat /\ counter \in Nat
    /\ outputChan \in Seq(Nat) /\ Len(outputChan) <= OutputCapacity
    /\ outPc \in {"select", "publish", "invoke"} /\ data \in Nat
    /\ published \in Seq(Nat) /\ invoked \in Seq(Nat)
    /\ refused \subseteq {"stream", "component"} \X Nat
    /\ crashes \in 0..MaxCrashes
    /\ received \in Seq(Invocations) /\ lost \subseteq Nat

(* An event the filter accepts is offered to every target that is set, is  *)
(* on its way to it or was wiped by a crash: no full buffer, no failing    *)
(* projection, and no other target's failure makes the channel skip one    *)
(* (invocationHandler, startProcessingLoop, startOutputLoop).              *)
NothingSkipped ==
    \A k \in DOMAIN received : shouldCollect(received[k]) =>
        \A t \in Targets : Pending(t, k) \/ Offered(t, k) \/ k \in lost

(* An answer means the channel has the event: every answered invocation    *)
(* was put on inputChan before, so NothingSkipped speaks of it.            *)
AnsweredIsReceived ==
    \A a \in answered : \E k \in DOMAIN received : received[k] = a

(* Each target gets events in the order of inputChan, each at most once    *)
(* and only those the filter accepts, whatever calls fail.                 *)
RelayedInOrder ==
    \A s \in {published, invoked} :
        /\ Increasing(s)
        /\ \A i \in DOMAIN s : /\ s[i] \in DOMAIN received
                               /\ shouldCollect(received[s[i]])

(* A caller is not kept waiting for ever: its handler gets its event into  *)
(* inputChan even if it waits behind a processing loop that waits behind a *)
(* full outputChan, or dies in a crash.                                    *)
CallsReturn ==
    \A a \in Invocations : (a \in sending) ~> (a \notin sending)

(* An accepted event ends up offered to every target, unless a crash came. *)
EventuallyOffered ==
    \A a \in {b \in Invocations : shouldCollect(b)} :
        (\E k \in DOMAIN received : received[k] = a) ~>
            \E k \in DOMAIN received :
                /\ received[k] = a
                /\ k \in lost \/ \A t \in Targets : Offered(t, k)

(* "collectData applies data collection expression (if any) and returns    *)
(* the collected event (original or synthetic) for downstream propagation" *)
(* (main.go:246-247): what the targets get is a collected event, with or   *)
(* without a trigger.                                                      *)
CollectedIsSent ==
    \A s \in {published, invoked} :
        \A i \in DOMAIN s : collectData(received[s[i]]) # NoData
=============================================================================
