------------------------------- MODULE Joiner -------------------------------
(***************************************************************************)
(* The Joiner component (components/joiner/main.go).                       *)
(*                                                                         *)
(* The broker's sidecar calls one HTTP handler goroutine per delivery of   *)
(* a message.  A handler hands its message over the unbuffered inputChan   *)
(* to the input loop and then answers.  The input loop stores messages by  *)
(* topic; when the window's ticker fires it joins everything stored and,   *)
(* if that gave at least one row, queues the JSON batch on the buffered    *)
(* outputChan and empties the store.  The output loop takes batches one by *)
(* one and sends each to the target stream, if any, and then to the        *)
(* target component.                                                       *)
(*                                                                         *)
(* A message delivered twice is stored twice, so what the store holds are  *)
(* arrivals <<e, n>>: the n-th delivery of message e.  A batch is known by *)
(* its position in the history variable batches.                           *)
(***************************************************************************)
EXTENDS Lines, FiniteSets

CONSTANTS
    Events,          \* the messages published on the two source topics
    TopicA, TopicB,  \* topics[0] and topics[1]
    TopicOf,         \* the topic of each message
    Filter,          \* Filter[a, b]: "true", "false" or "error"
    Select,          \* Select[a, b]: "ok" or "error"
    StreamTarget,    \* is JOINER_STREAM_TO_STREAM set?
    OutputCapacity,  \* the buffer of outputChan, 1024 in the code
    MaxDeliveries,   \* bound: deliveries of one message by the broker
    MaxArrivals,     \* bound: deliveries of all messages
    MaxCrashes       \* bound: restarts of the process

ASSUME TopicAssumption ==
    TopicOf \in [Events -> {TopicA, TopicB}]

ASSUME ProgAssumption ==
    /\ Filter \in [Events \X Events -> {"true", "false", "error"}]
    /\ Select \in [Events \X Events -> {"ok", "error"}]

ASSUME BoundAssumption ==
    /\ StreamTarget \in BOOLEAN
    /\ OutputCapacity \in Nat \ {0}
    /\ MaxDeliveries \in Nat
    /\ MaxArrivals \in Nat
    /\ MaxCrashes \in Nat

VARIABLES
    attempts,    \* broker: how often each message has been delivered
    acked,       \* broker: messages it has an acknowledgement for
    sending,     \* handlers blocked in inputChan <- e, by the arrival they hold
    returning,   \* handlers whose message was taken, not yet answered
    tick,        \* is a tick waiting in window.C?
    inPc,        \* input loop: "select", "send" (output <-) or "reset"
    streams,     \* store.streams: the arrivals stored for each topic
    jsonData,    \* input loop: the batch being sent, 0 if none
    outputChan,  \* batches queued for the output loop
    outPc,       \* output loop: "select", "publish" or "invoke"
    data,        \* output loop: the batch in hand, 0 if none
    published,   \* batches the target stream has accepted, in order
    invoked,     \* batches the target component has accepted, in order
    crashes,     \* restarts so far
    batches,     \* history: every batch aggregateEvents has produced
    lost         \* history: arrivals a crash wiped from the store

brokerVars  == <<attempts, acked>>
handlerVars == <<sending, returning>>
inputVars   == <<tick, inPc, streams, jsonData>>
outputVars  == <<outPc, data, published, invoked>>
historyVars == <<batches, lost>>
vars == <<brokerVars, handlerVars, inputVars, outputChan, outputVars,
          crashes, historyVars>>

-----------------------------------------------------------------------------
Arrivals == Events \X (1..MaxDeliveries)
Topics   == {TopicA, TopicB}
NoStream == [t \in Topics |-> {}]
Stored   == UNION {streams[t] : t \in Topics}

\* Arrivals that some batch has been computed from.
Taken == UNION {batches[k].window : k \in DOMAIN batches}

(***************************************************************************)
(* aggregateEvents, shouldCollect and collectData.  Every pair of the two  *)
(* topics is filtered and, if it passes, projected.  The first error, of   *)
(* evaluation, conversion or encoding, gives up the whole window; so does  *)
(* an empty topic and an empty result.                                     *)
(***************************************************************************)
Message(pair)   == <<pair[1][1], pair[2][1]>>
\* Mutant: the inner loop runs over the outer loop's topic.
PairsOfOneTopic(s) == s[TopicA] \X s[TopicA]
Pairs(s)        == s[TopicA] \X s[TopicB]
shouldCollect(pair) == Filter[Message(pair)] = "true"
collectData(pair)   == Select[Message(pair)] = "ok"

JoinRows(s) == {pair \in Pairs(s) : shouldCollect(pair)}

EvaluationFails(s) ==
    \E pair \in Pairs(s) : \/ Filter[Message(pair)] = "error"
                           \/ shouldCollect(pair) /\ ~ collectData(pair)

Aggregates(s) == JoinRows(s) # {} /\ ~ EvaluationFails(s)

-----------------------------------------------------------------------------
Init ==
    /\ attempts = [e \in Events |-> 0]
    /\ acked = {}
    /\ sending = {} /\ returning = {}
    /\ tick = FALSE /\ inPc = "select" /\ streams = NoStream /\ jsonData = 0
    /\ outputChan = <<>>
    /\ outPc = "select" /\ data = 0 /\ published = <<>> /\ invoked = <<>>
    /\ crashes = 0
    /\ batches = <<>> /\ lost = {}

\* The deliveries there have been.
Made == {a \in Arrivals : a[2] <= attempts[a[1]]}

(***************************************************************************)
(* The broker delivers a message it has no acknowledgement for, whether    *)
(* for the first time or again because no answer came in time.             *)
(***************************************************************************)
Deliver(e) ==
    /\ e \notin acked
    /\ attempts[e] < MaxDeliveries
    /\ Cardinality(Made) < MaxArrivals
    /\ attempts' = [attempts EXCEPT ![e] = @ + 1]
    /\ sending' = sending \cup {<<e, attempts[e] + 1>>}
    /\ UNCHANGED <<acked, returning, inputVars, outputChan, outputVars,
                   crashes, historyVars>>

\* A handler returns (false, nil): the sidecar acknowledges the message.
Answer(a) ==
    /\ a \in returning
    /\ returning' = returning \ {a}
    /\ acked' = acked \cup {a[1]}
    /\ UNCHANGED <<attempts, sending, inputVars, outputChan, outputVars,
                   crashes, historyVars>>

\* The ticker fires; a tick that finds the previous one unread is dropped.
Tick ==
    /\ ~ tick
    /\ tick' = TRUE
    /\ UNCHANGED <<brokerVars, handlerVars, inPc, streams, jsonData,
                   outputChan, outputVars, crashes, historyVars>>

\* Mutant: the handler appends to the store itself, whatever the loop does.
ReceiveAnytime(a) ==
    /\ a \in sending
    /\ sending' = sending \ {a}
    /\ returning' = returning \cup {a}
    /\ streams' = [streams EXCEPT ![TopicOf[a[1]]] = @ \cup {a}]
    /\ UNCHANGED <<brokerVars, tick, inPc, jsonData, outputChan, outputVars,
                   crashes, historyVars>>

(***************************************************************************)
(* The input loop: case e := <-input.                                      *)
(***************************************************************************)
Receive(a) ==
    /\ inPc = "select"
    /\ a \in sending
    /\ sending' = sending \ {a}
    /\ returning' = returning \cup {a}
    /\ streams' = [streams EXCEPT ![TopicOf[a[1]]] = @ \cup {a}]
    /\ UNCHANGED <<brokerVars, tick, inPc, jsonData, outputChan, outputVars,
                   crashes, historyVars>>

\* The input loop: case <-window.C, and aggregateEvents succeeds.
CloseWindow ==
    /\ inPc = "select"
    /\ tick
    /\ Aggregates(streams)
    /\ tick' = FALSE
    /\ inPc' = "send"
    /\ batches' = Append(batches, [window |-> Stored,
                                   rows   |-> JoinRows(streams)])
    /\ jsonData' = Len(batches) + 1
    /\ UNCHANGED <<brokerVars, handlerVars, streams, outputChan, outputVars,
                   crashes, lost>>

\* Mutant: a window that gave no batch is reset too.
SkipAndReset ==
    /\ inPc = "select"
    /\ tick
    /\ ~ Aggregates(streams)
    /\ tick' = FALSE
    /\ streams' = NoStream
    /\ UNCHANGED <<brokerVars, handlerVars, inPc, jsonData, outputChan,
                   outputVars, crashes, historyVars>>

\* The input loop: case <-window.C, and the error is logged: continue.
SkipWindow ==
    /\ inPc = "select"
    /\ tick
    /\ ~ Aggregates(streams)
    /\ tick' = FALSE
    /\ UNCHANGED <<brokerVars, handlerVars, inPc, streams, jsonData,
                   outputChan, outputVars, crashes, batches, lost>>

\* Mutant: the queue grows without waiting for room.
SendUnbounded ==
    /\ inPc = "send"
    /\ outputChan' = Append(outputChan, jsonData)
    /\ jsonData' = 0
    /\ inPc' = "reset"
    /\ UNCHANGED <<brokerVars, handlerVars, tick, streams, outputVars,
                   crashes, historyVars>>

\* output <- jsonData, which waits for room in the buffer.
SendOutput ==
    /\ inPc = "send"
    /\ Len(outputChan) < OutputCapacity
    /\ outputChan' = Append(outputChan, jsonData)
    /\ jsonData' = 0
    /\ inPc' = "reset"
    /\ UNCHANGED <<brokerVars, handlerVars, tick, streams, outputVars,
                   crashes, historyVars>>

\* Mutant: only the first topic is emptied.
ResetFirstTopic ==
    /\ inPc = "reset"
    /\ streams' = [streams EXCEPT ![TopicA] = {}]
    /\ inPc' = "select"
    /\ UNCHANGED <<brokerVars, handlerVars, tick, jsonData, outputChan,
                   outputVars, crashes, batches, lost>>

\* store.reset(): every topic's arrivals are dropped.
Reset ==
    /\ inPc = "reset"
    /\ streams' = NoStream
    /\ inPc' = "select"
    /\ UNCHANGED <<brokerVars, handlerVars, tick, jsonData, outputChan,
                   outputVars, crashes, batches, lost>>

\* Mutant: the loop is started for a target stream only.
TakeForStream ==
    /\ outPc = "select"
    /\ outputChan # <<>>
    /\ StreamTarget
    /\ data' = Head(outputChan)
    /\ outputChan' = Tail(outputChan)
    /\ outPc' = "publish"
    /\ UNCHANGED <<brokerVars, handlerVars, inputVars, published, invoked,
                   crashes, historyVars>>

(***************************************************************************)
(* The output loop.  main refuses to start without a target component, so  *)
(* only the target stream is optional.  A batch is never empty JSON, so    *)
(* the loop's len(data) == 0 branch cannot be taken.  A target that        *)
(* returns an error is logged and the batch is not tried again.            *)
(***************************************************************************)
TakeOutput ==
    /\ outPc = "select"
    /\ outputChan # <<>>
    /\ data' = Head(outputChan)
    /\ outputChan' = Tail(outputChan)
    /\ outPc' = IF StreamTarget THEN "publish" ELSE "invoke"
    /\ UNCHANGED <<brokerVars, handlerVars, inputVars, published, invoked,
                   crashes, historyVars>>

\* Mutant: a batch the target stream refused is queued once more.
PublishRetry ==
    /\ outPc = "publish"
    /\ \/ published' = Append(published, data) /\ UNCHANGED outputChan
       \/ outputChan' = Append(outputChan, data) /\ UNCHANGED published
    /\ outPc' = "invoke"
    /\ UNCHANGED <<brokerVars, handlerVars, inputVars, data, invoked,
                   crashes, historyVars>>

Publish ==
    /\ outPc = "publish"
    /\ \/ published' = Append(published, data)
       \/ UNCHANGED published
    /\ outPc' = "invoke"
    /\ UNCHANGED <<brokerVars, handlerVars, inputVars, outputChan, data,
                   invoked, crashes, historyVars>>

Invoke ==
    /\ outPc = "invoke"
    /\ \/ invoked' = Append(invoked, data)
       \/ UNCHANGED invoked
    /\ data' = 0
    /\ outPc' = "select"
    /\ UNCHANGED <<brokerVars, handlerVars, inputVars, outputChan, published,
                   crashes, historyVars>>

(***************************************************************************)
(* The process dies and its deployment starts it again: nothing of it is   *)
(* persisted, what it had not answered will be delivered again.            *)
(***************************************************************************)
Crash ==
    /\ crashes < MaxCrashes
    /\ crashes' = crashes + 1
    /\ sending' = {} /\ returning' = {}
    /\ tick' = FALSE /\ inPc' = "select" /\ streams' = NoStream /\ jsonData' = 0
    /\ outputChan' = <<>>
    /\ outPc' = "select" /\ data' = 0
    /\ lost' = lost \cup Stored
    /\ UNCHANGED <<brokerVars, published, invoked, batches>>

-----------------------------------------------------------------------------
Next ==
    \/ \E e \in Events : Deliver(e)
    \/ \E a \in Arrivals : Receive(a) \/ Answer(a)
    \/ Tick \/ CloseWindow \/ SkipWindow \/ SendOutput \/ Reset
    \/ TakeOutput \/ Publish \/ Invoke
    \/ Crash

Spec == Init /\ [][Next]_vars

(***************************************************************************)
(* The ticker keeps firing; the two goroutines run when they can; calls to *)
(* the sidecar return.  Go's select picks among ready cases at random and  *)
(* serves blocked senders first come first served, so a handler that is    *)
(* ready again and again is received from.                                 *)
(***************************************************************************)
Fairness ==
    /\ WF_vars(Tick) /\ WF_vars(CloseWindow) /\ WF_vars(SkipWindow)
    /\ WF_vars(SendOutput) /\ WF_vars(Reset)
    /\ WF_vars(TakeOutput) /\ WF_vars(Publish) /\ WF_vars(Invoke)
    /\ \A a \in Arrivals : SF_vars(Receive(a))

FairSpec == Spec /\ Fairness

-----------------------------------------------------------------------------
(* Every variable ranges over the values the code can give it: queues hold *)
(* positions of batches, the buffer respects its capacity, and a message   *)
(* is stored under its own topic.                                          *)
Batch == [window : SUBSET Arrivals, rows : SUBSET (Arrivals \X Arrivals)]

TypeOK ==
    /\ attempts \in [Events -> 0..MaxDeliveries] /\ acked \subseteq Events
    /\ sending \subseteq Arrivals /\ returning \subseteq Arrivals
    /\ tick \in BOOLEAN /\ inPc \in {"select", "send", "reset"}
    /\ streams \in [Topics -> SUBSET Arrivals] /\ jsonData \in Nat
    /\ outputChan \in Seq(Nat) /\ Len(outputChan) <= OutputCapacity
    /\ outPc \in {"select", "publish", "invoke"} /\ data \in Nat
    /\ published \in Seq(Nat) /\ invoked \in Seq(Nat)
    /\ crashes \in 0..MaxCrashes
    /\ batches \in Seq(Batch)
    /\ lost \subseteq Arrivals

(* A message the broker was told to forget is in the store, went into a    *)
(* batch, or was wiped from the store by a crash: the handler's answer     *)
(* races the input loop's aggregate-send-reset sequence and never the      *)
(* store's emptying (makeEventHandler, startInputLoop).                    *)
AckedIsAccountedFor ==
    \A e \in acked : \E n \in 1..MaxDeliveries :
        <<e, n>> \in Stored \cup Taken \cup lost

(* No delivery of a message is joined by two windows: between              *)
(* aggregateEvents and store.reset the store is not read again.            *)
NoArrivalJoinedTwice ==
    \A i, j \in DOMAIN batches :
        i # j => batches[i].window \cap batches[j].window = {}

(* Whatever leaves the store was in the window of a batch, or was lost in  *)
(* a crash: reset never drops a message that arrived after the join.       *)
NothingDroppedUnjoined ==
    [][Stored \subseteq Stored' \cup Taken' \cup lost']_vars

(* Each target sees batches in the order they were computed, none twice,   *)
(* whatever calls fail and however often the process restarts.             *)
DeliveredInOrder ==
    \A s \in {published, invoked} :
        Increasing(s) /\ \A i \in DOMAIN s : s[i] \in DOMAIN batches

(* A handler blocked on inputChan gets its message over, even when it      *)
(* waits for an input loop that a full outputChan has stopped, or dies     *)
(* with the process: the output loop always makes room.                    *)
HandlersReturn ==
    \A a \in Arrivals : (a \in sending) ~> (a \notin sending)

(* The input loop's contract, "check time window, if closed: aggregate     *)
(* stored data, and send aggregated data to outputChan" (main.go:174-177): *)
(* two stored messages that the filter accepts end up as a row of a batch, *)
(* unless a crash wiped them.                                              *)
Matches ==
    {p \in Arrivals \X Arrivals :
        /\ TopicOf[p[1][1]] = TopicA /\ TopicOf[p[2][1]] = TopicB
        /\ shouldCollect(p)}

MatchesAreJoined ==
    \A p \in Matches :
        (p[1] \in streams[TopicA] /\ p[2] \in streams[TopicB]) ~>
            \/ \E k \in DOMAIN batches : p \in batches[k].rows
            \/ p[1] \in lost
=============================================================================
