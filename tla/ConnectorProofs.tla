--------------------------- MODULE ConnectorProofs ---------------------------
(***************************************************************************)
(* The safety invariants of Connector, for every set of deliveries and     *)
(* bindings, every number of pages and every queue depth.                  *)
(***************************************************************************)
EXTENDS Connector, SequenceTheorems, TLAPS

\* The gate is shut exactly during the initial Connect, and nothing has got
\* past it then.
GateInv ==
    /\ connectPending = (main = "connecting")
    /\ connectPending =>
         /\ \A d \in Delivery : stage[d] \in {"unsent", "answered"}
                                /\ answer[d] \in {"none", "503"}
         /\ queue = <<>>

\* A job in the queue or in the worker's hands is one that was ACKed, and an
\* ACKed job without an outcome is one of these.
JobInv ==
    /\ \A d \in Delivery : stage[d] # "answered" => answer[d] = "none"
    /\ \A d \in Delivery : Queued(d) \/ InHand(d) => answer[d] = "202"
    /\ \A d \in Delivery : answer[d] = "202" /\ outcome[d] = "none" => Queued(d) \/ InHand(d)
    /\ \A d, e \in worker.job : d = e
    /\ worker.at \in {Idle, Stopped} => worker.job = {}
    /\ webhookMode = "sync" => \A d \in Delivery : answer[d] # "202"
    /\ Len(queue) <= WebhookQueueDepth
    /\ OKMeansStored

\* How far the shutdown has come, and what that says of queue and worker.
StopInv ==
    /\ queueClosed => main \in {"drainqueue", "returned"} /\ \A d \in Delivery : ~Active(d)
    /\ webhookMode = "async" /\ worker.at = Stopped => queueClosed /\ queue = <<>>
    /\ main = "drainqueue" => webhookMode = "async"
    /\ exit = "clean" => /\ main = "returned"
                         /\ \A d \in Delivery : answer[d] = "202" => outcome[d] # "none"

PollInv ==
    /\ main = "connecting" => \A b \in Binding : poll[b] = "off"
    /\ CursorCovered
    /\ PollsStopped
    /\ \A b \in Binding : poll[b] = "commit" /\ pending[b].advanced => cursor[b] < Pages

CInv == TypeOK /\ GateInv /\ JobInv /\ StopInv /\ PollInv

-----------------------------------------------------------------------------
\* Appending a job keeps the queued ones and adds exactly that one.
LEMMA QueuedAppend ==
    ASSUME NEW q \in Seq(Delivery), NEW d \in Delivery
    PROVE  \A e : (\E i \in DOMAIN Append(q, d) : Append(q, d)[i] = e)
                 <=> (e = d \/ \E i \in DOMAIN q : q[i] = e)
  <1>1. /\ DOMAIN Append(q, d) = 1..(Len(q) + 1) /\ DOMAIN q = 1..Len(q) /\ Len(q) \in Nat
        /\ \A i \in 1..Len(q) : Append(q, d)[i] = q[i]
        /\ Append(q, d)[Len(q) + 1] = d
    OBVIOUS
  <1>2. \A i \in 1..(Len(q) + 1) : i \in 1..Len(q) \/ i = Len(q) + 1  BY <1>1
  <1>3. 1..Len(q) \subseteq 1..(Len(q) + 1) /\ Len(q) + 1 \in 1..(Len(q) + 1)  BY <1>1
  <1> QED  BY <1>1, <1>2, <1>3, Zenon

\* Taking the head leaves the tail queued and loses no other job.
LEMMA QueuedTail ==
    ASSUME NEW q \in Seq(Delivery), q # <<>>
    PROVE  /\ Head(q) \in Delivery /\ Tail(q) \in Seq(Delivery) /\ Len(Tail(q)) = Len(q) - 1
           /\ \A e : (\E i \in DOMAIN q : q[i] = e)
                    <=> (e = Head(q) \/ \E i \in DOMAIN Tail(q) : Tail(q)[i] = e)
  <1>1. /\ Head(q) \in Delivery /\ Tail(q) \in Seq(Delivery) /\ Len(Tail(q)) = Len(q) - 1
        /\ Head(q) = q[1] /\ Len(q) \in Nat \ {0}
        /\ DOMAIN Tail(q) = 1..(Len(q) - 1) /\ DOMAIN q = 1..Len(q)
    BY EmptySeq
  <1>2. \A i \in 1..(Len(q) - 1) : Tail(q)[i] = q[i + 1]  BY <1>1
  <1>3. \A i \in 1..Len(q) : i = 1 \/ (i - 1 \in 1..(Len(q) - 1) /\ (i - 1) + 1 = i)  BY <1>1
  <1>4. 1 \in 1..Len(q) /\ \A i \in 1..(Len(q) - 1) : i + 1 \in 1..Len(q)  BY <1>1
  <1>5. ASSUME NEW i \in DOMAIN q PROVE q[i] = Head(q) \/ \E j \in DOMAIN Tail(q) : Tail(q)[j] = q[i]
    <2>1. CASE i = 1  BY <1>1, <2>1
    <2>2. CASE i # 1
      <3>1. i - 1 \in 1..(Len(q) - 1) /\ (i - 1) + 1 = i  BY <1>1, <1>3, <2>2
      <3>2. Tail(q)[i - 1] = q[i]  BY <1>2, <3>1
      <3> QED  BY <1>1, <3>1, <3>2
    <2> QED  BY <2>1, <2>2
  <1> QED  BY <1>1, <1>2, <1>4, <1>5, Zenon

-----------------------------------------------------------------------------
\* The invariant is inductive.

\* Before anything arrives: the gate is shut, the queue empty.
LEMMA CInvInit == Init => CInv
  <1> SUFFICES ASSUME Init PROVE CInv  OBVIOUS
  <1> USE ConnectorAssumption DEF Init
  <1>1. TypeOK
    <2>1. queue \in Seq(Delivery)  BY EmptySeq
    <2>2. worker \in [at : {Idle, "handling", "committing", Stopped}, job : SUBSET Delivery]
      OBVIOUS
    <2>3. /\ cursor \in [Binding -> 0..Pages] /\ pending \in [Binding -> SyncResult]
          /\ covered \in [Binding -> SUBSET (0..Pages)]
      BY DEF SyncResult, NoResult
    <2> QED  BY <2>1, <2>2, <2>3 DEF TypeOK, Answers
  <1>2. GateInv  BY DEF GateInv
  <1>3. JobInv  BY DEF JobInv, Queued, InHand, OKMeansStored
  <1>4. StopInv  BY DEF StopInv, Idle, Stopped
  <1>5. PollInv  BY DEF PollInv, CursorCovered, PollsStopped
  <1> QED  BY <1>1, <1>2, <1>3, <1>4, <1>5 DEF CInv

\* ListenAndServe itself.
LEMMA CInvMain ==
    ASSUME CInv, MainStep \/ ServeFails \/ \E why \in {"signal", "serve_error"} : Leave(why)
    PROVE  CInv'
  <1> USE DEF CInv
  <1>1. CASE Connected
    <2> USE <1>1 DEF Connected, hookVars
    <2>1. TypeOK'  BY DEF TypeOK
    <2>2. GateInv'  BY DEF GateInv
    <2>3. JobInv'  BY DEF JobInv, Queued, InHand, OKMeansStored
    <2>4. StopInv'  BY DEF StopInv, Active
    <2>5. PollInv'  BY DEF PollInv, CursorCovered, PollsStopped
    <2> QED  BY <2>1, <2>2, <2>3, <2>4, <2>5
  <1>2. ASSUME main \in {"connecting", "running", "waitpoll", "shutdown"},
               main' \in {"connecting", "running", "waitpoll", "shutdown", "returned"},
               main' = "connecting" <=> main = "connecting",
               main' \in {"shutdown", "returned"} => \A b \in Binding : poll[b] = "done",
               exit' \in {"none", "signal", "serve_error", "shutdown_error", "drain_timeout"}
                        \cup {exit},
               serveErr' \in BOOLEAN,
               UNCHANGED <<webhookMode, connectPending, retry, hookVars, pollVars>>
        PROVE  CInv'
    <2> USE <1>2 DEF hookVars, pollVars
    <2>1. TypeOK'  BY DEF TypeOK
    <2>2. GateInv'  BY DEF GateInv
    <2>3. JobInv'  BY DEF JobInv, Queued, InHand, OKMeansStored
    <2>4. StopInv'  BY DEF StopInv, Active
    <2>5. PollInv'  BY DEF PollInv, CursorCovered, PollsStopped
    <2> QED  BY <2>1, <2>2, <2>3, <2>4, <2>5
  <1>3. CASE ServeFails
    BY <1>2, <1>3 DEF ServeFails
  <1>4. CASE \E why \in {"signal", "serve_error"} : Leave(why)
    BY <1>2, <1>4 DEF Leave, TypeOK
  <1>5. CASE PollsJoined
    BY <1>2, <1>5 DEF PollsJoined, TypeOK
  <1>6. CASE ShutdownTimesOut
    BY <1>2, <1>6 DEF ShutdownTimesOut, TypeOK, PollInv, PollsStopped
  <1>7. CASE ShutdownDone
    <2> USE <1>7 DEF ShutdownDone
    <2>1. TypeOK'  BY DEF TypeOK, pollVars
    <2>2. GateInv'  BY DEF GateInv
    <2>3. JobInv'  BY DEF JobInv, Queued, InHand, OKMeansStored
    <2>4. StopInv'  BY DEF StopInv, Active, JobInv, TypeOK
    <2>5. PollInv'  BY DEF PollInv, CursorCovered, PollsStopped, pollVars
    <2> QED  BY <2>1, <2>2, <2>3, <2>4, <2>5
  <1>8. CASE QueueDrained \/ DrainTimesOut
    <2>0. main = "drainqueue" /\ main' = "returned" /\ exit' \in {"clean", "drain_timeout"}
          /\ UNCHANGED <<webhookMode, serveErr, connectPending, retry, hookVars, pollVars>>
      BY <1>8 DEF QueueDrained, DrainTimesOut
    <2> USE <2>0 DEF hookVars, pollVars
    <2>1. TypeOK'  BY DEF TypeOK
    <2>2. GateInv'  BY DEF GateInv
    <2>3. JobInv'  BY DEF JobInv, Queued, InHand, OKMeansStored
    <2>4. StopInv'
      <3>1. CASE QueueDrained
        <4>1. queue = <<>> /\ worker.job = {}  BY <3>1 DEF QueueDrained, StopInv, JobInv
        <4>2. \A d \in Delivery : ~Queued(d) /\ ~InHand(d)  BY <4>1 DEF Queued, InHand
        <4> QED  BY <4>2 DEF StopInv, JobInv, Active
      <3>2. CASE DrainTimesOut
        BY <3>2 DEF DrainTimesOut, StopInv, Active
      <3> QED  BY <1>8, <3>1, <3>2
    <2>5. PollInv'  BY DEF PollInv, CursorCovered, PollsStopped
    <2> QED  BY <2>1, <2>2, <2>3, <2>4, <2>5
  <1> QED  BY <1>1, <1>3, <1>4, <1>5, <1>6, <1>7, <1>8 DEF MainStep

\* retryConnect touches nothing the invariant speaks of.
LEMMA CInvRetry ==
    ASSUME CInv, RetryStep
    PROVE  CInv'
  <1> USE DEF CInv
  <1>1. /\ retry' \in {"off", "waiting", "connecting", "done"}
        /\ UNCHANGED <<webhookMode, main, exit, serveErr, connectPending, hookVars, pollVars>>
    BY DEF RetryStep, RetryTimer, RetrySucceeds, RetryFails
  <1> USE <1>1 DEF hookVars, pollVars
  <1>2. TypeOK'  BY DEF TypeOK
  <1>3. GateInv'  BY DEF GateInv
  <1>4. JobInv'  BY DEF JobInv, Queued, InHand, OKMeansStored
  <1>5. StopInv'  BY DEF StopInv, Active
  <1>6. PollInv'  BY DEF PollInv, CursorCovered, PollsStopped
  <1> QED  BY <1>2, <1>3, <1>4, <1>5, <1>6

\* A delivery's own steps: gate, validation, enqueue, inline processing, retry.
LEMMA CInvDelivery ==
    ASSUME CInv, NEW d \in Delivery, Receive(d) \/ HandlerStep(d) \/ Redeliver(d)
    PROVE  CInv'
  <1> USE DEF CInv
  <1>0. main # "returned" /\ UNCHANGED <<mainVars, queueClosed, worker, pollVars>>
    BY DEF Receive, HandlerStep, RejectPayload, Enqueue, HandleSync, HandledSync,
           CommittedSync, Redeliver, Listening, Alive
  <1>1. PollInv'  BY <1>0 DEF PollInv, CursorCovered, PollsStopped, mainVars, pollVars
  <1>2. ASSUME \/ /\ stage[d] = "unsent" /\ Listening
                  /\ stage' = [stage EXCEPT ![d] = "admitted"] /\ ~connectPending
                  /\ answer' = answer
               \/ /\ Active(d)
                  /\ stage' \in {[stage EXCEPT ![d] = t] : t \in {"handling", "committing"}}
                  /\ answer' = answer,
               UNCHANGED <<outcome, queue>>
        PROVE  CInv'
    <2> USE <1>0, <1>2 DEF mainVars, pollVars
    <2>0. stage' \in [Delivery -> {"unsent", "admitted", "handling", "committing", "answered"}]
      <3>1. PICK t \in {"admitted", "handling", "committing"} : stage' = [stage EXCEPT ![d] = t]
        OBVIOUS
      <3> QED  BY ONLY <3>1, TypeOK DEF TypeOK
    <2>1. TypeOK'  BY <2>0 DEF TypeOK
    <2>2. GateInv'  BY DEF GateInv, Active
    <2>3. JobInv'  BY DEF JobInv, Queued, InHand, OKMeansStored, Active, TypeOK
    <2>4. StopInv'  BY DEF StopInv, Active, Listening, TypeOK
    <2> QED  BY <1>1, <2>1, <2>2, <2>3, <2>4
  <1>3. ASSUME NEW code \in Answers, NEW o \in {"none", "committed", "empty", "failed"},
               stage[d] = "unsent" \/ Active(d), code \notin {"none", "202"},
               connectPending => code = "503",
               code = "200" => o \in {"committed", "empty"},
               Answered(d, code), outcome' = [outcome EXCEPT ![d] = o], UNCHANGED queue
        PROVE  CInv'
    <2> USE <1>0, <1>3 DEF mainVars, pollVars, Answered
    <2>0. answer[d] = "none" /\ ~Queued(d) /\ ~InHand(d)  BY DEF JobInv, Active
    <2>1. TypeOK'  BY DEF TypeOK
    <2>2. GateInv'  BY DEF GateInv, Active, TypeOK
    <2>3. JobInv'  BY <2>0 DEF JobInv, Queued, InHand, OKMeansStored, TypeOK
    <2>4. StopInv'  BY DEF StopInv, Active, TypeOK
    <2> QED  BY <1>1, <2>1, <2>2, <2>3, <2>4
  <1>4. outcome = [outcome EXCEPT ![d] = outcome[d]]
        /\ outcome[d] \in {"none", "committed", "empty", "failed"}
    BY DEF TypeOK
  <1>5. CASE Receive(d)
    <2>1. CASE connectPending
      BY <1>3, <1>4, <1>5, <2>1 DEF Receive, Answers
    <2>2. CASE ~connectPending
      BY <1>2, <1>5, <2>2 DEF Receive
    <2> QED  BY <2>1, <2>2
  <1>6. ASSUME Active(d) PROVE ~connectPending
    BY <1>6 DEF GateInv, Active
  <1>7. CASE RejectPayload(d)
    BY <1>3, <1>4, <1>6, <1>7 DEF RejectPayload, Active, Answers
  <1>8. CASE Enqueue(d)
    <2>1. CASE Len(queue) < WebhookQueueDepth
      <3> USE <1>0, <1>8, <2>1 DEF mainVars, pollVars, Answered, Enqueue
      <3>0. queue \in Seq(Delivery) /\ queue' = Append(queue, d)
        BY DEF TypeOK
      <3>1. queue' \in Seq(Delivery) /\ Len(queue') = Len(queue) + 1
        BY ONLY <3>0, d \in Delivery
      <3>2. \A e \in Delivery : Queued(e)' <=> (e = d \/ Queued(e))
        BY <3>0, QueuedAppend DEF Queued
      <3>3. \A e \in Delivery : InHand(e)' <=> InHand(e)  BY DEF InHand
      <3>4. TypeOK'  BY <3>1 DEF TypeOK, Answers
      <3>5. GateInv'  BY <1>6 DEF GateInv, Active
      <3>6. JobInv'
        <4>1. answer[d] = "none"  BY DEF JobInv
        <4>2. Len(queue') <= WebhookQueueDepth
          BY <3>0, <3>1, ConnectorAssumption, LenProperties
        <4>3. OKMeansStored'  BY DEF JobInv, OKMeansStored, TypeOK
        <4>4. answer'[d] = "202" /\ \A e \in Delivery : e # d => answer'[e] = answer[e]
          BY DEF TypeOK
        <4>5. stage'[d] = "answered" /\ \A e \in Delivery : e # d => stage'[e] = stage[e]
          BY DEF TypeOK
        <4>8. \A e \in Delivery : stage'[e] # "answered" => answer'[e] = "none"
          BY ONLY <4>4, <4>5, JobInv DEF JobInv
        <4>6. \A e \in Delivery : Queued(e)' \/ InHand(e)' => answer'[e] = "202"
          BY <3>2, <3>3, <4>4 DEF JobInv
        <4>7. \A e \in Delivery : answer'[e] = "202" /\ outcome'[e] = "none"
                                  => Queued(e)' \/ InHand(e)'
          BY <3>2, <3>3, <4>4 DEF JobInv
        <4> QED  BY <4>2, <4>3, <4>6, <4>7, <4>8 DEF JobInv
      <3>7. StopInv'
        <4>1. ~queueClosed /\ exit # "clean"  BY DEF StopInv, Active, Alive
        <4> QED  BY <4>1 DEF StopInv, Active
      <3> QED  BY <1>1, <3>4, <3>5, <3>6, <3>7
    <2>2. CASE ~(Len(queue) < WebhookQueueDepth)
      BY <1>3, <1>4, <1>6, <1>8, <2>2 DEF Enqueue, Active, Answers
    <2> QED  BY <2>1, <2>2
  <1>9. CASE HandleSync(d)
    BY <1>2, <1>9 DEF HandleSync, Active
  <1>10. CASE HandledSync(d)
    <2>1. Active(d) /\ UNCHANGED queue  BY <1>10 DEF HandledSync, Active
    <2>2. CASE outcome' = [outcome EXCEPT ![d] = "failed"] /\ Answered(d, "500")
      BY <1>3, <1>6, <2>1, <2>2 DEF Answers
    <2>3. CASE outcome' = [outcome EXCEPT ![d] = "empty"] /\ Answered(d, "200")
      BY <1>3, <1>6, <2>1, <2>3 DEF Answers
    <2>4. CASE stage' = [stage EXCEPT ![d] = "committing"] /\ UNCHANGED <<answer, outcome>>
      BY <1>2, <2>1, <2>4
    <2> QED  BY <1>10, <2>2, <2>3, <2>4 DEF HandledSync
  <1>11. CASE CommittedSync(d)
    <2>1. Active(d) /\ UNCHANGED queue  BY <1>11 DEF CommittedSync, Active
    <2>2. CASE outcome' = [outcome EXCEPT ![d] = "committed"] /\ Answered(d, "200")
      BY <1>3, <1>6, <2>1, <2>2 DEF Answers
    <2>3. CASE outcome' = [outcome EXCEPT ![d] = "failed"] /\ Answered(d, "500")
      BY <1>3, <1>6, <2>1, <2>3 DEF Answers
    <2> QED  BY <1>11, <2>2, <2>3 DEF CommittedSync
  <1>12. CASE Redeliver(d)
    <2> USE <1>0, <1>12 DEF mainVars, pollVars, Redeliver
    <2>0. ~Queued(d) /\ ~InHand(d) /\ answer[d] # "202"  BY DEF JobInv, Retriable
    <2>1. TypeOK'  BY DEF TypeOK, Answers
    <2>2. GateInv'  BY DEF GateInv
    <2>3. JobInv'  BY <2>0 DEF JobInv, Queued, InHand, OKMeansStored, TypeOK
    <2>4. StopInv'  BY DEF StopInv, Active, TypeOK
    <2> QED  BY <1>1, <2>1, <2>2, <2>3, <2>4
  <1> QED  BY <1>5, <1>7, <1>8, <1>9, <1>10, <1>11, <1>12 DEF HandlerStep

\* The worker moves a job from the queue to its hands to an outcome.
LEMMA CInvWorker ==
    ASSUME CInv, WorkerStep
    PROVE  CInv'
  <1> USE DEF CInv
  <1>0. main # "returned" /\ UNCHANGED <<mainVars, stage, answer, queueClosed, pollVars>>
    BY DEF WorkerStep, WorkerTakes, WorkerHandled, WorkerCommitted, WorkerStops, Alive
  <1>1. PollInv'  BY <1>0 DEF PollInv, CursorCovered, PollsStopped, mainVars, pollVars
  <1>2. CASE WorkerTakes
    <2> USE <1>0, <1>2 DEF mainVars, pollVars, WorkerTakes
    <2>0. queue \in Seq(Delivery) /\ queue # <<>> /\ queue' = Tail(queue)  BY DEF TypeOK
    <2>1. /\ Head(queue) \in Delivery /\ queue' \in Seq(Delivery)
          /\ Len(queue') = Len(queue) - 1
          /\ \A e : Queued(e) <=> (e = Head(queue) \/ Queued(e)')
      <3>1. queue \in Seq(Delivery) /\ queue # <<>>  BY <2>0
      <3>2. /\ Head(queue) \in Delivery /\ Tail(queue) \in Seq(Delivery)
            /\ Len(Tail(queue)) = Len(queue) - 1
            /\ \A e : (\E i \in DOMAIN queue : queue[i] = e)
                     <=> (e = Head(queue) \/ \E i \in DOMAIN Tail(queue) : Tail(queue)[i] = e)
        BY ONLY <3>1, QueuedTail
      <3>3. queue' = Tail(queue)  BY <2>0
      <3> QED  BY ONLY <3>2, <3>3 DEF Queued
    <2>2. worker.job = {} /\ worker'.job = {Head(queue)} /\ worker'.at = "handling"
      BY DEF JobInv
    <2>3. TypeOK'  BY <2>1 DEF TypeOK
    <2>4. GateInv'  BY DEF GateInv
    <2>5. JobInv'
      <3>1. \A e \in Delivery : Queued(e)' \/ InHand(e)' <=> Queued(e) \/ InHand(e)
        BY <2>1, <2>2 DEF InHand
      <3>2. Len(queue') <= WebhookQueueDepth
        BY <2>0, <2>1, ConnectorAssumption, LenProperties DEF JobInv
      <3> QED  BY <2>2, <3>1, <3>2 DEF JobInv, OKMeansStored, Idle, Stopped
    <2>6. StopInv'  BY <2>2 DEF StopInv, Active, Stopped
    <2> QED  BY <1>1, <2>3, <2>4, <2>5, <2>6
  <1>3. ASSUME NEW d \in worker.job, NEW o \in {"committed", "failed", "empty"},
               outcome' = [outcome EXCEPT ![d] = o],
               worker' = [at |-> Idle, job |-> {}], UNCHANGED queue
        PROVE  CInv'
    <2> USE <1>0, <1>3 DEF mainVars, pollVars
    <2>1. d \in Delivery /\ answer[d] = "202" /\ worker.job = {d}
      BY DEF JobInv, InHand, TypeOK
    <2>2. TypeOK'  BY <2>1 DEF TypeOK
    <2>3. GateInv'  BY DEF GateInv
    <2>4. JobInv'
      <3>1. outcome'[d] # "none" /\ \A e \in Delivery : e # d => outcome'[e] = outcome[e]
        BY <2>1 DEF TypeOK
      <3>2. \A e \in Delivery : Queued(e)' <=> Queued(e)  BY DEF Queued
      <3>3. \A e \in Delivery : InHand(e)' = FALSE  BY DEF InHand
      <3>4. \A e \in Delivery : InHand(e) => e = d  BY <2>1 DEF InHand
      <3> QED  BY <2>1, <3>1, <3>2, <3>3, <3>4 DEF JobInv, OKMeansStored
    <2>5. StopInv'  BY DEF StopInv, Active, Idle, Stopped
    <2> QED  BY <1>1, <2>2, <2>3, <2>4, <2>5
  <1>4. ASSUME worker' = [worker EXCEPT !.at = "committing"], worker.at = "handling",
               UNCHANGED <<outcome, queue>>
        PROVE  CInv'
    <2> USE <1>0, <1>4 DEF mainVars, pollVars
    <2>1. worker'.job = worker.job /\ worker'.at = "committing"  BY DEF TypeOK
    <2>2. TypeOK'  BY DEF TypeOK
    <2>3. GateInv'  BY DEF GateInv
    <2>4. JobInv'  BY <2>1 DEF JobInv, Queued, InHand, OKMeansStored, Idle, Stopped
    <2>5. StopInv'  BY <2>1 DEF StopInv, Active, Stopped
    <2> QED  BY <1>1, <2>2, <2>3, <2>4, <2>5
  <1>5. CASE WorkerHandled
    BY <1>3, <1>4, <1>5 DEF WorkerHandled
  <1>6. CASE WorkerCommitted
    BY <1>3, <1>6 DEF WorkerCommitted
  <1>7. CASE WorkerStops
    <2> USE <1>0, <1>7 DEF mainVars, pollVars, WorkerStops
    <2>0. worker.job = {} /\ worker'.job = {}  BY DEF JobInv
    <2>1. TypeOK'  BY DEF TypeOK
    <2>2. GateInv'  BY DEF GateInv
    <2>3. JobInv'  BY <2>0 DEF JobInv, Queued, InHand, OKMeansStored
    <2>4. StopInv'  BY DEF StopInv, Active
    <2> QED  BY <1>1, <2>1, <2>2, <2>3, <2>4
  <1> QED  BY <1>2, <1>5, <1>6, <1>7 DEF WorkerStep

\* A poll loop moves its cursor only past what it covered.
LEMMA CInvPoll ==
    ASSUME CInv, NEW b \in Binding, PollStep(b) \/ Tick(b) \/ PollDone(b)
    PROVE  CInv'
  <1> USE DEF CInv
  <1>0. UNCHANGED <<mainVars, hookVars>> /\ poll[b] # "done"
    BY DEF PollStep, DrainTop, SyncFails, SyncEmpty, SyncEmits, CommitOK, CommitFails, Tick, PollDone
  <1>01. main # "connecting"
    BY DEF PollInv, PollStep, DrainTop, SyncFails, SyncEmpty, SyncEmits, CommitOK, CommitFails,
           Tick, PollDone
  <1>1. GateInv' /\ JobInv' /\ StopInv'
    BY <1>0 DEF GateInv, JobInv, StopInv, Queued, InHand, OKMeansStored, Active, mainVars, hookVars
  <1>2. ASSUME NEW w \in {"drain", "sync", "commit", "wait", "done"},
               NEW n \in 0..Pages, NEW res \in SyncResult, NEW C \in SUBSET (0..Pages),
               poll' = [poll EXCEPT ![b] = w], cursor' = [cursor EXCEPT ![b] = n],
               pending' = [pending EXCEPT ![b] = res], covered' = [covered EXCEPT ![b] = C],
               covered[b] \subseteq C,
               n = cursor[b] \/ (n = cursor[b] + 1 /\ cursor[b] \in C),
               w = "commit" /\ res.advanced => n < Pages
        PROVE  CInv'
    <2> USE <1>0, <1>2 DEF mainVars, hookVars
    <2>1. TypeOK'  BY DEF TypeOK
    <2>2. CursorCovered'
      <3> SUFFICES ASSUME NEW e \in Binding, NEW p \in 0..Pages, p < cursor'[e]
                   PROVE  p \in covered'[e]
        BY DEF CursorCovered
      <3>1. CASE e # b
        BY <3>1 DEF PollInv, CursorCovered, TypeOK
      <3>2. CASE e = b
        <4>1. cursor'[e] = n /\ covered'[e] = C /\ cursor[b] \in 0..Pages
          BY <3>2 DEF TypeOK
        <4>2. p < cursor[b] \/ p = cursor[b]  BY <4>1, ConnectorAssumption
        <4> QED  BY <3>2, <4>1, <4>2, ConnectorAssumption DEF PollInv, CursorCovered
      <3> QED  BY <3>1, <3>2
    <2>3. PollsStopped'  BY DEF PollInv, PollsStopped, TypeOK
    <2>4. \A e \in Binding : poll'[e] = "commit" /\ pending'[e].advanced => cursor'[e] < Pages
      BY DEF PollInv, TypeOK
    <2> QED  BY <1>01, <1>1, <2>1, <2>2, <2>3, <2>4 DEF PollInv
  <1>3. /\ cursor = [cursor EXCEPT ![b] = cursor[b]] /\ cursor[b] \in 0..Pages
        /\ pending = [pending EXCEPT ![b] = pending[b]] /\ pending[b] \in SyncResult
        /\ covered = [covered EXCEPT ![b] = covered[b]] /\ covered[b] \in SUBSET (0..Pages)
        /\ covered[b] \cup {cursor[b]} \in SUBSET (0..Pages)
        /\ NoResult \in SyncResult /\ NoResult.advanced = FALSE
    BY DEF TypeOK, NoResult, SyncResult
  <1>4. ASSUME UNCHANGED <<cursor, pending, covered>>,
               \E w \in {"drain", "sync", "wait", "done"} : Goto(b, w)
        PROVE  CInv'
    BY <1>2, <1>3, <1>4 DEF Goto
  <1>5. CASE DrainTop(b) \/ SyncFails(b) \/ Tick(b) \/ PollDone(b)
    BY <1>4, <1>5 DEF DrainTop, SyncFails, Tick, PollDone
  <1>6. ASSUME NEW res \in SyncResult, res.advanced => cursor[b] < Pages, Adopt(b, res),
               covered' = [covered EXCEPT ![b] = covered[b] \cup {cursor[b]}],
               pending' \in {pending, [pending EXCEPT ![b] = NoResult]}
        PROVE  CInv'
    <2>1. PICK w \in {"drain", "wait"} : Goto(b, w)  BY <1>6 DEF Adopt
    <2>2. PICK n \in 0..Pages : /\ cursor' = [cursor EXCEPT ![b] = n]
                                /\ n = cursor[b] \/ n = cursor[b] + 1
      <3>1. CASE res.advanced
        <4>1. cursor[b] + 1 \in 0..Pages  BY <1>3, <1>6, <3>1, ConnectorAssumption
        <4>2. cursor' = [cursor EXCEPT ![b] = cursor[b] + 1]  BY <1>6, <3>1 DEF Adopt
        <4> QED  BY <4>1, <4>2
      <3>2. CASE ~res.advanced
        <4>1. cursor' = [cursor EXCEPT ![b] = cursor[b]]  BY <1>6, <3>2 DEF Adopt
        <4> QED  BY <1>3, <4>1
      <3> QED  BY <3>1, <3>2
    <2>3. PICK r \in SyncResult : pending' = [pending EXCEPT ![b] = r]
      BY <1>3, <1>6
    <2> DEFINE C == covered[b] \cup {cursor[b]}
    <2>4. /\ poll' = [poll EXCEPT ![b] = w] /\ w \in {"drain", "wait"}
          /\ covered' = [covered EXCEPT ![b] = C] /\ C \in SUBSET (0..Pages)
          /\ covered[b] \subseteq C /\ cursor[b] \in C
      BY <1>3, <1>6, <2>1 DEF Goto
    <2> HIDE DEF C
    <2> QED  BY <1>2, <2>2, <2>3, <2>4
  <1>7. CASE SyncEmpty(b)
    BY <1>6, <1>7 DEF SyncEmpty
  <1>8. CASE CommitOK(b)
    BY <1>3, <1>6, <1>8 DEF CommitOK, PollInv
  <1>9. CASE SyncEmits(b)
    BY <1>2, <1>3, <1>9 DEF SyncEmits, Goto
  <1>10. CASE CommitFails(b)
    <2>1. PICK C \in {covered[b], covered[b] \cup {cursor[b]}} :
            covered' = [covered EXCEPT ![b] = C]
      BY <1>3, <1>10 DEF CommitFails
    <2>2. C \in SUBSET (0..Pages) /\ covered[b] \subseteq C  BY <1>3, <2>1
    <2>3. /\ poll' = [poll EXCEPT ![b] = "wait"] /\ cursor' = [cursor EXCEPT ![b] = cursor[b]]
          /\ pending' = [pending EXCEPT ![b] = NoResult]
      BY <1>3, <1>10 DEF CommitFails, Goto
    <2> QED  BY <1>2, <1>3, <2>1, <2>2, <2>3
  <1> QED  BY <1>5, <1>7, <1>8, <1>9, <1>10 DEF PollStep

\* The inductive invariant holds throughout.
THEOREM ConnectorInvariant == Spec => []CInv
  <1>1. ASSUME CInv, UNCHANGED vars PROVE CInv'
    BY <1>1 DEF CInv, TypeOK, GateInv, JobInv, StopInv, PollInv, Queued, InHand, Active,
                OKMeansStored, CursorCovered, PollsStopped, vars, mainVars, hookVars, pollVars
  <1>2. CInv /\ [Next]_vars => CInv'
    BY <1>1, CInvMain, CInvRetry, CInvDelivery, CInvWorker, CInvPoll DEF Next
  <1> QED  BY CInvInit, <1>2, PTL DEF Spec

-----------------------------------------------------------------------------
\* Every variable of the connector keeps its type.
THEOREM ConnectorTypeCorrect == Spec => []TypeOK
  <1>1. CInv => TypeOK  BY DEF CInv
  <1> QED  BY <1>1, ConnectorInvariant, PTL

\* No delivery gets past the gate while the initial Connect is in flight.
THEOREM GateTheorem == Spec => []GateHolds
  <1>1. CInv => GateHolds  BY DEF CInv, GateInv, GateHolds, Active
  <1> QED  BY <1>1, ConnectorInvariant, PTL

\* A 202 is never forgotten, and a clean return has processed every one.
THEOREM AckedTheorem == Spec => []AckedIsKept
  <1>1. CInv => AckedIsKept  BY DEF CInv, JobInv, StopInv, AckedIsKept
  <1> QED  BY <1>1, ConnectorInvariant, PTL

\* No handler sends on a closed queue, and the queue respects its capacity.
THEOREM QueueTheorem == Spec => []QueueClosedLast
  <1>1. CInv => QueueClosedLast  BY DEF CInv, JobInv, StopInv, QueueClosedLast
  <1> QED  BY <1>1, ConnectorInvariant, PTL

\* A 200 means the batch was committed or there was none.
THEOREM OKTheorem == Spec => []OKMeansStored
  <1>1. CInv => OKMeansStored  BY DEF CInv, JobInv
  <1> QED  BY <1>1, ConnectorInvariant, PTL

\* The cursor never passes a page the platform does not hold.
THEOREM CursorTheorem == Spec => []CursorCovered
  <1>1. CInv => CursorCovered  BY DEF CInv, PollInv
  <1> QED  BY <1>1, ConnectorInvariant, PTL

\* No poll loop outlives the join.
THEOREM PollsTheorem == Spec => []PollsStopped
  <1>1. CInv => PollsStopped  BY DEF CInv, PollInv
  <1> QED  BY <1>1, ConnectorInvariant, PTL
=============================================================================
