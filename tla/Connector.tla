------------------------------ MODULE Connector ------------------------------
(***************************************************************************)
(* connector.ListenAndServe (connector/server.go): the initial Connect and *)
(* its background retry, the webhook handlers with their connect gate, the *)
(* bounded queue and worker of async mode, one poll loop per binding, and  *)
(* the shutdown that joins them.                                           *)
(*                                                                         *)
(* The kit's own code (Connect, Sync, HandleWebhook) is external: each call*)
(* may succeed, fail, or emit nothing.  A commit is transfer.Writer.Close  *)
(* as ArtifactCommit promises it: a receipt for a batch the platform took, *)
(* or an error that leaves open whether it did.  Cursors count pages of    *)
(* the source.  Nothing runs once ListenAndServe has returned: the process *)
(* exits.                                                                  *)
(***************************************************************************)
EXTENDS Naturals, Sequences, FiniteSets

CONSTANTS Delivery,           \* webhook deliveries the provider makes
          Binding,            \* poll-enabled bindings
          Pages,              \* bound: pages the source has for a binding
          WebhookQueueDepth   \* capacity of the async queue

ASSUME ConnectorAssumption ==
    /\ Pages \in Nat
    /\ WebhookQueueDepth \in Nat

VARIABLES
    webhookMode,     \* Config.WebhookMode, fixed at start
    main,            \* where ListenAndServe is
    exit,            \* why it leaves its select, then how it returned
    serveErr,        \* the http.Server's accept loop has died
    connectPending,  \* the gate in front of webhook deliveries
    retry,           \* retryConnect: "off", "waiting", "connecting", "done"
    stage,           \* where each delivery is
    answer,          \* the status the provider was given for it
    outcome,         \* history: what became of the delivery's batch
    queue,           \* webhookQueue
    queueClosed,     \* close(webhookQueue) ran
    worker,          \* the job the async worker runs, or a state of its loop
    poll,            \* where each poll loop is
    cursor,          \* its cursor, as a page number
    pending,         \* the SyncResult of the batch being committed
    covered          \* history: pages committed, or synced with nothing to emit

mainVars == <<webhookMode, main, exit, serveErr, connectPending, retry>>
hookVars == <<stage, answer, outcome, queue, queueClosed, worker>>
pollVars == <<poll, cursor, pending, covered>>
vars == <<mainVars, hookVars, pollVars>>

Idle == "idle"
Stopped == "stopped"
SyncResult == [advanced : BOOLEAN, more : BOOLEAN]
NoResult == [advanced |-> FALSE, more |-> FALSE]
Answers == {"none", "202", "200", "400", "429", "500", "503"}
Retriable == {"429", "500", "503"}

TypeOK ==
    /\ webhookMode \in {"sync", "async"}
    /\ main \in {"connecting", "running", "waitpoll", "shutdown", "drainqueue", "returned"}
    /\ exit \in {"none", "signal", "serve_error", "shutdown_error", "drain_timeout", "clean"}
    /\ serveErr \in BOOLEAN
    /\ connectPending \in BOOLEAN
    /\ retry \in {"off", "waiting", "connecting", "done"}
    /\ stage \in [Delivery -> {"unsent", "admitted", "handling", "committing", "answered"}]
    /\ answer \in [Delivery -> Answers]
    /\ outcome \in [Delivery -> {"none", "committed", "empty", "failed"}]
    /\ queue \in Seq(Delivery)
    /\ queueClosed \in BOOLEAN
    /\ worker \in [at : {Idle, "handling", "committing", Stopped}, job : SUBSET Delivery]
    /\ poll \in [Binding -> {"off", "drain", "sync", "commit", "wait", "done"}]
    /\ cursor \in [Binding -> 0..Pages]
    /\ pending \in [Binding -> SyncResult]
    /\ covered \in [Binding -> SUBSET (0..Pages)]

\* The gate is set and the worker started before the listener accepts.
Init ==
    /\ webhookMode \in {"sync", "async"}
    /\ main = "connecting"
    /\ exit = "none"
    /\ serveErr = FALSE
    /\ connectPending = TRUE
    /\ retry = "off"
    /\ stage = [d \in Delivery |-> "unsent"]
    /\ answer = [d \in Delivery |-> "none"]
    /\ outcome = [d \in Delivery |-> "none"]
    /\ queue = <<>>
    /\ queueClosed = FALSE
    /\ worker = [at |-> IF webhookMode = "async" THEN Idle ELSE Stopped, job |-> {}]
    /\ poll = [b \in Binding |-> "off"]
    /\ cursor = [b \in Binding |-> 0]
    /\ pending = [b \in Binding |-> NoResult]
    /\ covered = [b \in Binding |-> {}]

Alive == main # "returned"
runCtxDone == main \in {"waitpoll", "shutdown", "drainqueue", "returned"}

-----------------------------------------------------------------------------
\* ListenAndServe.

\* The initial Connect ends, well or not: the gate opens, a failure starts
\* the retry (unless disabled), and the poll loops start.
Connected ==
    /\ main = "connecting"
    /\ main' = "running"
    /\ connectPending' = FALSE
    /\ retry' \in {"off", "waiting"}
    /\ poll' = [b \in Binding |-> "drain"]
    /\ UNCHANGED <<webhookMode, exit, serveErr, hookVars, cursor, pending, covered>>

\* The accept loop ends with an error (a bind that fails included).
ServeFails ==
    /\ main \in {"connecting", "running", "waitpoll"}
    /\ ~serveErr
    /\ serveErr' = TRUE
    /\ UNCHANGED <<webhookMode, main, exit, connectPending, retry, hookVars, pollVars>>

\* The select: a signal, a cancelled context, or the serve error.
Leave(why) ==
    /\ main = "running"
    /\ why = "serve_error" => serveErr
    /\ main' = "waitpoll"
    /\ exit' = why
    /\ UNCHANGED <<webhookMode, serveErr, connectPending, retry, hookVars, pollVars>>

\* wg.Wait returned.  The serve-error path returns here.
PollsJoined ==
    /\ main = "waitpoll"
    /\ \A b \in Binding : poll[b] = "done"
    /\ main' = IF exit = "serve_error" THEN "returned" ELSE "shutdown"
    /\ UNCHANGED <<webhookMode, exit, serveErr, connectPending, retry, hookVars, pollVars>>

Active(d) == stage[d] \in {"admitted", "handling", "committing"}

\* Mutant: Shutdown's wait for active handlers is skipped.
MutCloseEarly ==
    /\ main = "shutdown"
    /\ main' = IF webhookMode = "async" THEN "drainqueue" ELSE "returned"
    /\ exit' = IF webhookMode = "async" THEN exit ELSE "clean"
    /\ queueClosed' = (webhookMode = "async")
    /\ UNCHANGED <<webhookMode, serveErr, connectPending, retry,
                   stage, answer, outcome, queue, worker, pollVars>>

\* server.Shutdown returns once no handler is active; only then is the queue
\* closed.
ShutdownDone ==
    /\ main = "shutdown"
    /\ \A d \in Delivery : ~Active(d)
    /\ main' = IF webhookMode = "async" THEN "drainqueue" ELSE "returned"
    /\ exit' = IF webhookMode = "async" THEN exit ELSE "clean"
    /\ queueClosed' = (webhookMode = "async")
    /\ UNCHANGED <<webhookMode, serveErr, connectPending, retry,
                   stage, answer, outcome, queue, worker, pollVars>>

\* ShutdownTimeout expires first.
ShutdownTimesOut ==
    /\ main = "shutdown"
    /\ main' = "returned"
    /\ exit' = "shutdown_error"
    /\ UNCHANGED <<webhookMode, serveErr, connectPending, retry, hookVars, pollVars>>

\* webhookWorkerDone is closed: every queued job has run.
QueueDrained ==
    /\ main = "drainqueue"
    /\ worker.at = Stopped
    /\ main' = "returned"
    /\ exit' = "clean"
    /\ UNCHANGED <<webhookMode, serveErr, connectPending, retry, hookVars, pollVars>>

\* The same ShutdownTimeout bounds the drain: ACKed jobs may be lost (logged).
DrainTimesOut ==
    /\ main = "drainqueue"
    /\ main' = "returned"
    /\ exit' = "drain_timeout"
    /\ UNCHANGED <<webhookMode, serveErr, connectPending, retry, hookVars, pollVars>>

-----------------------------------------------------------------------------
\* retryConnect.

\* The select between the back-off timer and ctx.Done.
RetryTimer ==
    /\ Alive /\ retry = "waiting"
    /\ retry' \in {"connecting"} \cup IF runCtxDone THEN {"done"} ELSE {}
    /\ UNCHANGED <<webhookMode, main, exit, serveErr, connectPending, hookVars, pollVars>>

RetrySucceeds ==
    /\ Alive /\ retry = "connecting"
    /\ retry' = "done"
    /\ UNCHANGED <<webhookMode, main, exit, serveErr, connectPending, hookVars, pollVars>>

RetryFails ==
    /\ Alive /\ retry = "connecting"
    /\ retry' = "waiting"
    /\ UNCHANGED <<webhookMode, main, exit, serveErr, connectPending, hookVars, pollVars>>

-----------------------------------------------------------------------------
\* Webhook deliveries.

Listening == main \in {"connecting", "running", "waitpoll"}

Answered(d, code) ==
    /\ stage' = [stage EXCEPT ![d] = "answered"]
    /\ answer' = [answer EXCEPT ![d] = code]

\* handleWebhook up to the gate.
Receive(d) ==
    /\ Listening /\ stage[d] = "unsent"
    /\ IF connectPending
       THEN Answered(d, "503")
       ELSE stage' = [stage EXCEPT ![d] = "admitted"] /\ UNCHANGED answer
    /\ UNCHANGED <<mainVars, outcome, queue, queueClosed, worker, pollVars>>

\* The body cannot be read, is too large, or fails PayloadValidator.
RejectPayload(d) ==
    /\ Alive /\ stage[d] = "admitted"
    /\ Answered(d, "400")
    /\ UNCHANGED <<mainVars, outcome, queue, queueClosed, worker, pollVars>>

\* enqueueWebhook: never waits; a full queue is 429.
Enqueue(d) ==
    /\ Alive /\ stage[d] = "admitted" /\ webhookMode = "async"
    /\ IF Len(queue) < WebhookQueueDepth
       THEN queue' = Append(queue, d) /\ Answered(d, "202")
       ELSE UNCHANGED queue /\ Answered(d, "429")
    /\ UNCHANGED <<mainVars, outcome, queueClosed, worker, pollVars>>

\* processWebhookSync: writer factory and HandleWebhook begin.
HandleSync(d) ==
    /\ Alive /\ stage[d] = "admitted" /\ webhookMode = "sync"
    /\ stage' = [stage EXCEPT ![d] = "handling"]
    /\ UNCHANGED <<mainVars, answer, outcome, queue, queueClosed, worker, pollVars>>

\* HandleWebhook (or the factory) fails, emits nothing, or leaves a batch.
HandledSync(d) ==
    /\ Alive /\ stage[d] = "handling"
    /\ \/ /\ outcome' = [outcome EXCEPT ![d] = "failed"]
          /\ Answered(d, "500")
       \/ /\ outcome' = [outcome EXCEPT ![d] = "empty"]
          /\ Answered(d, "200")
       \/ /\ stage' = [stage EXCEPT ![d] = "committing"]
          /\ UNCHANGED <<answer, outcome>>
    /\ UNCHANGED <<mainVars, queue, queueClosed, worker, pollVars>>

CommittedSync(d) ==
    /\ Alive /\ stage[d] = "committing"
    /\ \/ outcome' = [outcome EXCEPT ![d] = "committed"] /\ Answered(d, "200")
       \/ outcome' = [outcome EXCEPT ![d] = "failed"] /\ Answered(d, "500")
    /\ UNCHANGED <<mainVars, queue, queueClosed, worker, pollVars>>

\* The provider (external) delivers again what it was told to retry.
Redeliver(d) ==
    /\ Listening /\ stage[d] = "answered" /\ answer[d] \in Retriable
    /\ stage' = [stage EXCEPT ![d] = "unsent"]
    /\ answer' = [answer EXCEPT ![d] = "none"]
    /\ outcome' = [outcome EXCEPT ![d] = "none"]
    /\ UNCHANGED <<mainVars, queue, queueClosed, worker, pollVars>>

-----------------------------------------------------------------------------
\* webhookWorker: takes jobs until the queue is closed AND empty.

\* Mutant: the worker waits for a second job before it runs the first.
MutWorkerBatches ==
    /\ Alive /\ worker.at = Idle /\ Len(queue) > 1
    /\ worker' = [at |-> "handling", job |-> {Head(queue)}]
    /\ queue' = Tail(queue)
    /\ UNCHANGED <<mainVars, stage, answer, outcome, queueClosed, pollVars>>

WorkerTakes ==
    /\ Alive /\ worker.at = Idle /\ queue # <<>>
    /\ worker' = [at |-> "handling", job |-> {Head(queue)}]
    /\ queue' = Tail(queue)
    /\ UNCHANGED <<mainVars, stage, answer, outcome, queueClosed, pollVars>>

\* processWebhookAsync: failed, nothing emitted, or a batch to commit.
WorkerHandled ==
    /\ Alive /\ worker.at = "handling"
    /\ \E d \in worker.job :
         \/ /\ outcome' \in {[outcome EXCEPT ![d] = o] : o \in {"failed", "empty"}}
            /\ worker' = [at |-> Idle, job |-> {}]
         \/ /\ worker' = [worker EXCEPT !.at = "committing"]
            /\ UNCHANGED outcome
    /\ UNCHANGED <<mainVars, stage, answer, queue, queueClosed, pollVars>>

WorkerCommitted ==
    /\ Alive /\ worker.at = "committing"
    /\ \E d \in worker.job :
         outcome' \in {[outcome EXCEPT ![d] = o] : o \in {"committed", "failed"}}
    /\ worker' = [at |-> Idle, job |-> {}]
    /\ UNCHANGED <<mainVars, stage, answer, queue, queueClosed, pollVars>>

\* Mutant: the worker stops when the run context is cancelled.
MutWorkerHeedsCtx ==
    /\ Alive /\ worker.at = Idle
    /\ runCtxDone
    /\ worker' = [at |-> Stopped, job |-> {}]
    /\ UNCHANGED <<mainVars, stage, answer, outcome, queue, queueClosed, pollVars>>

WorkerStops ==
    /\ Alive /\ worker.at = Idle
    /\ queueClosed /\ queue = <<>>
    /\ worker' = [at |-> Stopped, job |-> {}]
    /\ UNCHANGED <<mainVars, stage, answer, outcome, queue, queueClosed, pollVars>>

-----------------------------------------------------------------------------
\* pollBinding, drain and runSync for one binding.

Goto(b, where) == poll' = [poll EXCEPT ![b] = where]

\* The top of drain's loop.
DrainTop(b) ==
    /\ Alive /\ poll[b] = "drain"
    /\ Goto(b, IF runCtxDone THEN "wait" ELSE "sync")
    /\ UNCHANGED <<mainVars, hookVars, cursor, pending, covered>>

\* A failed factory or Sync: nothing is committed, the cursor stays.
SyncFails(b) ==
    /\ Alive /\ poll[b] = "sync"
    /\ Goto(b, "wait")
    /\ UNCHANGED <<mainVars, hookVars, cursor, pending, covered>>

\* Mutant: no runaway guard.
MutNoRunawayGuard(b, res) ==
    /\ cursor' = [cursor EXCEPT ![b] = IF res.advanced THEN @ + 1 ELSE @]
    /\ Goto(b, IF res.more THEN "drain" ELSE "wait")

\* What drain does with a SyncResult: adopt the cursor, go on only if there
\* is more and the cursor moved.
Adopt(b, res) ==
    /\ cursor' = [cursor EXCEPT ![b] = IF res.advanced THEN @ + 1 ELSE @]
    /\ Goto(b, IF res.more /\ res.advanced THEN "drain" ELSE "wait")

\* Sync emitted nothing: no commit.
SyncEmpty(b) ==
    /\ Alive /\ poll[b] = "sync"
    /\ \E res \in SyncResult :
         /\ res.advanced => cursor[b] < Pages
         /\ Adopt(b, res)
    /\ covered' = [covered EXCEPT ![b] = @ \cup {cursor[b]}]
    /\ UNCHANGED <<mainVars, hookVars, pending>>

\* Sync emitted records: Close follows.
SyncEmits(b) ==
    /\ Alive /\ poll[b] = "sync"
    /\ \E res \in SyncResult :
         /\ res.advanced => cursor[b] < Pages
         /\ pending' = [pending EXCEPT ![b] = res]
    /\ Goto(b, "commit")
    /\ UNCHANGED <<mainVars, hookVars, cursor, covered>>

CommitOK(b) ==
    /\ Alive /\ poll[b] = "commit"
    /\ Adopt(b, pending[b])
    /\ pending' = [pending EXCEPT ![b] = NoResult]
    /\ covered' = [covered EXCEPT ![b] = @ \cup {cursor[b]}]
    /\ UNCHANGED <<mainVars, hookVars>>

\* Mutant: the result is adopted although the commit failed.
MutAdoptAnyway(b) ==
    /\ Alive /\ poll[b] = "commit"
    /\ Adopt(b, pending[b])
    /\ pending' = [pending EXCEPT ![b] = NoResult]
    /\ UNCHANGED <<mainVars, hookVars, covered>>

\* Close failed: the result is dropped, the next tick replays this page,
\* which the platform may already hold.
CommitFails(b) ==
    /\ Alive /\ poll[b] = "commit"
    /\ Goto(b, "wait")
    /\ pending' = [pending EXCEPT ![b] = NoResult]
    /\ covered' \in {covered, [covered EXCEPT ![b] = @ \cup {cursor[b]}]}
    /\ UNCHANGED <<mainVars, hookVars, cursor>>

\* The ticker fires; with ctx.Done also ready, select may pick either.
Tick(b) ==
    /\ Alive /\ poll[b] = "wait"
    /\ Goto(b, "drain")
    /\ UNCHANGED <<mainVars, hookVars, cursor, pending, covered>>

\* Mutant: the select has no ctx.Done case.
MutPollIgnoresCtx(b) == FALSE

PollDone(b) ==
    /\ Alive /\ poll[b] = "wait" /\ runCtxDone
    /\ Goto(b, "done")
    /\ UNCHANGED <<mainVars, hookVars, cursor, pending, covered>>

-----------------------------------------------------------------------------
MainStep ==
    \/ Connected \/ PollsJoined \/ ShutdownDone \/ ShutdownTimesOut
    \/ QueueDrained \/ DrainTimesOut

HandlerStep(d) ==
    \/ RejectPayload(d) \/ Enqueue(d)
    \/ HandleSync(d) \/ HandledSync(d) \/ CommittedSync(d)

WorkerStep == WorkerTakes \/ WorkerHandled \/ WorkerCommitted \/ WorkerStops

PollStep(b) ==
    \/ DrainTop(b) \/ SyncFails(b) \/ SyncEmpty(b) \/ SyncEmits(b)
    \/ CommitOK(b) \/ CommitFails(b)

RetryStep == RetryTimer \/ RetrySucceeds \/ RetryFails

Next ==
    \/ MainStep \/ ServeFails \/ \E why \in {"signal", "serve_error"} : Leave(why)
    \/ RetryStep
    \/ \E d \in Delivery : Receive(d) \/ HandlerStep(d) \/ Redeliver(d)
    \/ WorkerStep
    \/ \E b \in Binding : PollStep(b) \/ Tick(b) \/ PollDone(b)

\* Kit calls and commits return, timers fire, and select is fair between
\* ready cases.
Fairness ==
    /\ WF_vars(MainStep)
    /\ WF_vars(RetryTimer)
    /\ \A d \in Delivery : WF_vars(HandlerStep(d))
    /\ WF_vars(WorkerStep)
    /\ \A b \in Binding : WF_vars(PollStep(b)) /\ SF_vars(PollDone(b))

Spec == Init /\ [][Next]_vars /\ Fairness

-----------------------------------------------------------------------------
\* Properties.

Queued(d) == \E i \in DOMAIN queue : queue[i] = d
InHand(d) == d \in worker.job

\* No delivery is processed, queued or acknowledged while the initial Connect
\* is in flight, in either webhook mode: it is answered 503 and comes back.
GateHolds ==
    connectPending =>
        /\ \A d \in Delivery : ~Active(d) /\ answer[d] \in {"none", "503"}
        /\ queue = <<>>

\* In sync mode a 200 is given only for a delivery that was committed or had
\* nothing to commit; a failure is never acknowledged.
OKMeansStored ==
    \A d \in Delivery :
        answer[d] = "200" => outcome[d] \in {"committed", "empty"}

\* A delivery answered 202 is, at every moment, queued, in the worker's hands,
\* or already processed: a full queue, a shutdown or a closed channel never
\* makes it vanish, so a clean return has processed all of them; one
\* answered 200 was stored before the answer.
AckedIsKept ==
    /\ \A d \in Delivery :
         answer[d] = "202" /\ outcome[d] = "none" => Queued(d) \/ InHand(d)
    /\ exit = "clean" => \A d \in Delivery : answer[d] = "202" => outcome[d] # "none"
    /\ OKMeansStored

\* The queue is closed only when no handler can still send to it (a send on a
\* closed channel panics), and it never holds more than its capacity.
QueueClosedLast ==
    /\ queueClosed => \A d \in Delivery : ~Active(d)
    /\ Len(queue) <= WebhookQueueDepth

\* Every page before the cursor was committed or had nothing to emit: no
\* failed Sync, failed commit or cancelled drain lets the cursor pass data the
\* platform does not hold.
CursorCovered ==
    \A b \in Binding : \A p \in 0..Pages : p < cursor[b] => p \in covered[b]

\* When ListenAndServe has shut down, no poll loop is still running.
PollsStopped ==
    main \in {"shutdown", "drainqueue", "returned"} =>
        \A b \in Binding : poll[b] = "done"

\* Every 202 is followed by processing, unless the process ends first.
AckedIsProcessed ==
    \A d \in Delivery :
        answer[d] = "202" ~> (outcome[d] # "none" \/ ~Alive)

\* A drain of a finite source ends, whatever Sync says of there being more and
\* however its commits go: the loop is back at its select, where it sees the
\* ticker and ctx.Done, unless the process ends first.  [server.go drain]
DrainEnds ==
    \A b \in Binding :
        poll[b] \in {"drain", "sync", "commit"} ~> (poll[b] \in {"wait", "done"} \/ ~Alive)

\* A shutdown ends: joining the polls, the handlers and the worker never waits
\* forever.
ShutdownEnds == runCtxDone ~> ~Alive

\* server.go:764: "every job in the queue has already been ACKed with a 202,
\* so abandoning one on shutdown loses a delivery the provider believes it
\* handed over successfully" - whenever ListenAndServe returns, other than on
\* its shutdown timeout, no ACKed delivery is left unprocessed.
NoAckedAbandoned ==
    main = "returned" /\ exit \notin {"shutdown_error", "drain_timeout"} =>
        \A d \in Delivery : answer[d] = "202" => outcome[d] # "none"
=============================================================================
