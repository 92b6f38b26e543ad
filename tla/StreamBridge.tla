---------------------------- MODULE StreamBridge ----------------------------
(***************************************************************************)
(* The two goroutines of one agent request: the pipeline, which emits      *)
(* events into a bounded channel, and its reader.  For message/stream the  *)
(* reader is the SSE bridge of NewDefaultStreamHandler over serve.go's     *)
(* httpStreamWriter; for message/send and proactive events it is the       *)
(* collecting loop of runArtifact, gatherSync or assembleSync.             *)
(*                                                                         *)
(* The pipeline's part is what AgentPipeline shows of it: any number of    *)
(* events, then exactly one terminal status if it reports one at all, and  *)
(* an error exactly when that status is failed or canceled.                *)
(***************************************************************************)
EXTENDS Integers, Sequences

CONSTANTS Capacity,    \* of the event channel (32 for the bridge, 64 for the others)
          MaxEvents    \* bound: events before the terminal status

ASSUME BridgeAssumption ==
    /\ Capacity \in Nat \ {0}
    /\ MaxEvents \in Nat

VARIABLES
    entry,     \* "stream" or "collect", fixed by the entry point
    producer,  \* "emitting", "closing", "reporting", "done"
    runErr,    \* the pipeline's error: "none" until it returns
    reported,  \* runErr is in its one-place channel
    channel, channelClosed,
    emitted,   \* history: every event emitted
    consumer,  \* "loop", "draining", "joining", "closing", "returned"
    writeErr,  \* WriteEvent failed
    wire,      \* events the reader delivered
    ret        \* what the entry point returned

producerVars == <<producer, runErr, reported, channelClosed, emitted>>
consumerVars == <<consumer, writeErr, wire, ret>>
vars == <<entry, producerVars, channel, consumerVars>>

Terminal == {"completed", "failed", "canceled", "input-required"}
Event == [seq : Int, kind : {"event"} \cup Terminal]
CloseMarker == [seq |-> -1, kind |-> "completed"]

TypeOK ==
    /\ entry \in {"stream", "collect"}
    /\ producer \in {"emitting", "closing", "reporting", "done"}
    /\ runErr \in {"none", "nil", "error"}
    /\ reported \in BOOLEAN
    /\ channel \in Seq(Event) /\ Len(channel) <= Capacity
    /\ channelClosed \in BOOLEAN
    /\ emitted \in Seq(Event)
    /\ consumer \in {"loop", "draining", "joining", "closing", "returned"}
    /\ writeErr \in BOOLEAN
    /\ wire \in Seq(Event)
    /\ ret \in {"none", "nil", "error"}

Init ==
    /\ entry \in {"stream", "collect"}
    /\ producer = "emitting"
    /\ runErr = "none"
    /\ reported = FALSE
    /\ channel = <<>>
    /\ channelClosed = FALSE
    /\ emitted = <<>>
    /\ consumer = "loop"
    /\ writeErr = FALSE
    /\ wire = <<>>
    /\ ret = "none"

-----------------------------------------------------------------------------
\* The pipeline goroutine.

\* emit: numbers the event and sends it, waiting while the channel is full.
emit(kind) ==
    LET e == [seq |-> Len(emitted) + 1, kind |-> kind]
    IN  /\ Len(channel) < Capacity
        /\ channel' = Append(channel, e)
        /\ emitted' = Append(emitted, e)

Emit ==
    /\ producer = "emitting"
    /\ Len(emitted) < MaxEvents
    /\ emit("event")
    /\ UNCHANGED <<entry, producer, runErr, reported, channelClosed, consumerVars>>

\* Run emits its terminal status and returns.
EmitTerminal(s) ==
    /\ producer = "emitting"
    /\ emit(s)
    /\ producer' = "closing"
    /\ runErr' = IF s \in {"failed", "canceled"} THEN "error" ELSE "nil"
    /\ UNCHANGED <<entry, reported, channelClosed, consumerVars>>

\* A gathering or an assembly returns without a status.
ReturnWithoutStatus ==
    /\ producer = "emitting"
    /\ entry = "collect"
    /\ producer' = "closing"
    /\ runErr' \in {"nil", "error"}
    /\ UNCHANGED <<entry, reported, channel, channelClosed, emitted, consumerVars>>

CloseChannel ==
    /\ producer = "closing"
    /\ producer' = "reporting"
    /\ channelClosed' = TRUE
    /\ UNCHANGED <<entry, runErr, reported, channel, emitted, consumerVars>>

Report ==
    /\ producer = "reporting"
    /\ producer' = "done"
    /\ reported' = TRUE
    /\ UNCHANGED <<entry, runErr, channel, channelClosed, emitted, consumerVars>>

-----------------------------------------------------------------------------
\* The reader.

NextEvent == Head(channel)

Forward ==
    /\ consumer = "loop"
    /\ channel # <<>>
    /\ channel' = Tail(channel)
    /\ wire' = Append(wire, NextEvent)
    /\ UNCHANGED <<entry, producerVars, consumer, writeErr, ret>>

\* Mutant: the handler returns at once.
MutReturnOnWriteError ==
    /\ consumer = "loop" /\ entry = "stream"
    /\ channel # <<>>
    /\ channel' = Tail(channel)
    /\ writeErr' = TRUE
    /\ consumer' = "returned"
    /\ ret' = "error"
    /\ UNCHANGED <<entry, producerVars, wire>>

\* Mutant: the handler waits for the pipeline without draining its channel.
MutJoinWithoutDrain ==
    /\ consumer = "loop" /\ entry = "stream"
    /\ channel # <<>>
    /\ channel' = Tail(channel)
    /\ writeErr' = TRUE
    /\ consumer' = "joining"
    /\ UNCHANGED <<entry, producerVars, wire, ret>>

\* WriteEvent fails (the client is gone, the event does not encode).
WriteFails ==
    /\ consumer = "loop" /\ entry = "stream"
    /\ channel # <<>>
    /\ channel' = Tail(channel)
    /\ writeErr' = TRUE
    /\ consumer' = "draining"
    /\ UNCHANGED <<entry, producerVars, wire, ret>>

Drain ==
    /\ consumer = "draining"
    /\ channel # <<>>
    /\ channel' = Tail(channel)
    /\ UNCHANGED <<entry, producerVars, consumerVars>>

\* Mutant: the loop ends when the channel is closed, full or not.
MutLeaveOnClose ==
    /\ consumer \in {"loop", "draining"}
    /\ channelClosed
    /\ consumer' = "joining"
    /\ UNCHANGED <<entry, producerVars, channel, writeErr, wire, ret>>

\* range ends: the channel is closed and empty.
RangeEnds ==
    /\ consumer \in {"loop", "draining"}
    /\ channelClosed /\ channel = <<>>
    /\ consumer' = "joining"
    /\ UNCHANGED <<entry, producerVars, channel, writeErr, wire, ret>>

\* Mutant: a failed run is reported as success once the stream is closed.
MutErrorForgotten == "nil"

\* The pipeline's error, unless the write error comes first.
joinedError == IF writeErr THEN "error" ELSE runErr

\* <-runErr.  The bridge closes the stream unless a write failed.
Join ==
    /\ consumer = "joining"
    /\ reported
    /\ IF entry = "stream" /\ ~writeErr
       THEN consumer' = "closing" /\ UNCHANGED ret
       ELSE consumer' = "returned" /\ ret' = joinedError
    /\ UNCHANGED <<entry, producerVars, channel, writeErr, wire>>

\* stream.Close, after a failed run too: one more completed status.  Its own
\* error counts only if there is no other.
CloseStream ==
    /\ consumer = "closing"
    /\ consumer' = "returned"
    /\ \/ wire' = Append(wire, CloseMarker) /\ ret' = joinedError
       \/ UNCHANGED wire /\ ret' = "error"
    /\ UNCHANGED <<entry, producerVars, channel, writeErr>>

ProducerStep ==
    \/ Emit \/ \E s \in Terminal : EmitTerminal(s)
    \/ ReturnWithoutStatus \/ CloseChannel \/ Report

ConsumerStep == Forward \/ WriteFails \/ Drain \/ RangeEnds \/ Join \/ CloseStream

Next == ProducerStep \/ ConsumerStep

\* Both goroutines are scheduled; the pipeline's own waits end (RequestEnds of
\* AgentPipeline) and a write to a client either succeeds or fails.
Spec == Init /\ [][Next]_vars /\ WF_vars(ProducerStep) /\ WF_vars(ConsumerStep)

-----------------------------------------------------------------------------
\* Properties.

\* When the entry point returns, the pipeline's goroutine has ended: a client
\* that went away leaves nothing behind.
NoGoroutineLeft == consumer = "returned" => producer = "done"

\* The client sees the events in the order they were emitted, without gaps,
\* then at most the closing marker; without a write error it sees all of them.
DeliveredInOrder ==
    LET n == IF wire # <<>> /\ wire[Len(wire)] = CloseMarker THEN Len(wire) - 1 ELSE Len(wire)
    IN  /\ n <= Len(emitted)
        /\ \A i \in 1..n : wire[i] = emitted[i]
        /\ consumer \in {"joining", "closing", "returned"} /\ ~writeErr => n = Len(emitted)

\* The entry point reports an error if the pipeline failed or an event could
\* not be written.
ErrorReported ==
    consumer = "returned" /\ (writeErr \/ runErr = "error") => ret = "error"

\* The request ends: neither side waits forever on the other.
BridgeReturns == <>(consumer = "returned")

=============================================================================
