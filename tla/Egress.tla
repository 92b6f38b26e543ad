-------------------------------- MODULE Egress --------------------------------
(***************************************************************************)
(* egress.ListenAndServe (egress/server.go): the initial Connect and its   *)
(* background retry, the five push and withdrawal lanes with their gate,   *)
(* decode and error mapping, and the shutdown.  The platform delivers each *)
(* batch until it is answered for good, and may send it again while an     *)
(* earlier attempt is still running.                                       *)
(*                                                                         *)
(* External, modelled from the contract the package documents: the         *)
(* component's own code (it writes under a lock per entity, refuses what   *)
(* IsStale reports, and may replay the verdicts it recorded for a batch),  *)
(* the external system, and the platform's retry rule.                     *)
(***************************************************************************)
EXTENDS EgressBatch, FiniteSets

CONSTANTS
    Delivery,      \* batches the platform delivers, each under one batch_id
    Requests,      \* the requests the deliveries may carry: a set of functions on Delivery
    Implements,    \* the optional lanes the component implements
    Id,            \* record ids of the external system
    History,       \* the versions of an entity in the order the graph made them
    MaxAttempts,   \* bound: attempts of each delivery
    MaxSlips,      \* bound: verdicts other than those of a clean write
    MaxStarts      \* bound: times the component process is started

Lanes == {"sync", "ontology", "relationship", "withdraw", "relationship-withdraw"}

\* ver: which version of the history the item carries, 0 for none.
Item == [id : Id \cup {NoId}, ver : 0..Len(History)]
Request == [lane : Lanes, wellFormed : BOOLEAN, items : Seq(Item)]

ASSUME EgressAssumption ==
    /\ Requests \subseteq [Delivery -> Request]
    /\ MaxAttempts \in [Delivery -> Nat \ {0}]
    /\ MaxStarts \in Nat \ {0}
    /\ MaxSlips \in Nat
    /\ NoId \notin Id

\* A later version of the graph was created again in a later millisecond, or is
\* an update, which keeps the instant of creation and has a higher number.
\* Numbers count from 1.
ASSUME HistoryAssumption ==
    /\ History \in Seq([at : Nat, no : Nat \ {0}])
    /\ \A j, k \in 1..Len(History) : j < k =>
          \/ ms(History[j].at) < ms(History[k].at)
          \/ History[j].at = History[k].at /\ History[j].no < History[k].no

VARIABLES
    main,            \* where ListenAndServe is
    connectPending,  \* the gate in front of the lanes
    retry,           \* retryConnect: "off" (not needed, or over) or "waiting"
    starts,          \* how often the process was started
    req,             \* the request of each delivery
    call,            \* the attempts of each delivery
    settled,         \* the platform's view: "open", "done" or "dead"
    accepted,        \* the results the platform accepted
    remembered,      \* the component's window of recorded verdicts
    slips,           \* how many other verdicts were given
    external,        \* the records of the external system and their stamps; bare: a
                     \* stamped one was overwritten by a row without a stamp (history)
    torn             \* deliveries whose body could not be read once (history)

serverVars == <<main, connectPending, retry, starts>>
platformVars == <<settled, accepted>>
vars == <<serverVars, req, call, platformVars, remembered, slips, external, torn>>

Attempt(d) == 1..MaxAttempts[d]
verb(lane) == IF lane \in {"withdraw", "relationship-withdraw"} THEN "withdraw" ELSE "push"
isRelationship(lane) == lane \in {"relationship", "relationship-withdraw"}
stampOf(k) == IF k = 0 THEN NoStamp ELSE History[k]

NoBatch == [verb |-> "push", ids |-> <<>>, results |-> <<>>]
NoCall == [at |-> "unsent", status |-> "none", batch |-> NoBatch, answer |-> <<>>]
Over == [NoCall EXCEPT !.at = "over"]
Permanent == {"400", "501"}
Retriable == {"429", "500", "503"}
NoneYet == <<>>

TypeOK ==
    /\ main \in {"connecting", "running", "shutdown", "returned"}
    /\ connectPending \in BOOLEAN
    /\ retry \in {"off", "waiting"}
    /\ starts \in 1..MaxStarts
    /\ req \in Requests
    /\ \A d \in Delivery : \A n \in Attempt(d) :
          /\ call[d][n].at \in {"unsent", "component", "answered", "abandoned", "over"}
          /\ call[d][n].status \in Permanent \cup Retriable \cup {"none", "200"}
          /\ \A i \in DOMAIN call[d][n].batch.results : call[d][n].batch.results[i] \in SyncResult
    /\ settled \in [Delivery -> {"open", "done", "dead"}]
    /\ slips \in 0..MaxSlips
    /\ \A i \in Id : external[i].live \in BOOLEAN /\ external[i].bare \in BOOLEAN
    /\ torn \subseteq Delivery

Init ==
    /\ main = "connecting"
    /\ connectPending = TRUE
    /\ retry = "off"
    /\ starts = 1
    /\ req \in Requests
    /\ call = [d \in Delivery |-> [n \in Attempt(d) |-> NoCall]]
    /\ settled = [d \in Delivery |-> "open"]
    /\ accepted = [d \in Delivery |-> <<>>]
    /\ remembered = [d \in Delivery |-> NoneYet]
    /\ slips = 0
    /\ external = [i \in Id |-> [live |-> FALSE, stamp |-> NoStamp, bare |-> FALSE]]
    /\ torn = {}

-----------------------------------------------------------------------------
\* ListenAndServe and retryConnect.

\* The initial Connect ends, well or not: the gate opens, and a failure
\* starts the retry unless it is disabled.
Connected ==
    /\ main = "connecting"
    /\ main' = "running"
    /\ connectPending' = FALSE
    /\ retry' \in {"off", "waiting"}
    /\ UNCHANGED <<starts, req, call, platformVars, remembered, slips, external, torn>>

retrying == main \in {"running", "shutdown"} /\ retry = "waiting"

\* One turn of the loop, a wait and an attempt: a failure leaves it waiting.
retryConnect ==
    /\ retrying
    /\ retry' \in {"off", "waiting"}
    /\ UNCHANGED <<main, connectPending, starts, req, call, platformVars, remembered, slips, external, torn>>

\* A signal or a cancelled context: Shutdown stops the listener.
Leave ==
    /\ main = "running"
    /\ main' = "shutdown"
    /\ UNCHANGED <<connectPending, retry, starts, req, call, platformVars, remembered, slips, external, torn>>

inFlight == {d \in Delivery : \E n \in Attempt(d) : call[d][n].at \in {"component", "abandoned"}}

\* The process ends: what still runs in it is lost, and so is the window of
\* recorded verdicts, which a component keeps in memory.
Exit ==
    /\ main' = "returned"
    /\ retry' = "off"
    /\ call' = [d \in Delivery |-> [n \in Attempt(d) |->
                 IF call[d][n].at \in {"component", "abandoned"} THEN Over ELSE call[d][n]]]
    /\ remembered' = [d \in Delivery |-> NoneYet]
    /\ UNCHANGED <<connectPending, starts, req, platformVars, slips, external, torn>>

\* Shutdown returns when the last handler has: nothing is cut short.
ShutdownDone ==
    /\ main = "shutdown" /\ inFlight = {}
    /\ Exit

\* ShutdownTimeout, or an accept loop that died, ends the process at once.
ShutdownTimesOut == main = "shutdown" /\ inFlight # {} /\ Exit
ServeFails == main = "running" /\ Exit

\* The container is started again.
Restart ==
    /\ main = "returned" /\ starts < MaxStarts
    /\ main' = "connecting"
    /\ connectPending' = TRUE
    /\ retry' = "off"
    /\ starts' = starts + 1
    /\ UNCHANGED <<req, call, platformVars, remembered, slips, external, torn>>

-----------------------------------------------------------------------------
\* The lanes.  A request asks for distinct ids or not, in a lane, well formed
\* or not (a body over the cap, not JSON, without its type or predicate, or
\* with records of another one).

concluded(d, n) == call[d][n].at \in {"abandoned", "over"}
nextAttempt(d, n) ==
    /\ settled[d] = "open"
    /\ call[d][n].at = "unsent"
    /\ \A k \in 1..(n - 1) : concluded(d, k)

answer(d, n, status, results) ==
    [call EXCEPT ![d][n].at = "answered", ![d][n].status = status, ![d][n].answer = results]

\* No listener: the process is down, or Shutdown has closed it.
PushRefused(d, n) ==
    /\ nextAttempt(d, n)
    /\ main \in {"shutdown", "returned"}
    /\ call' = [call EXCEPT ![d][n] = Over]
    /\ UNCHANGED <<serverVars, req, platformVars, remembered, slips, external, torn>>

laneImplemented(lane) == lane = "sync" \/ lane \in Implements

\* Mutant: the gate answers like a request that could not be understood.
MutGate == "400"
gateStatus == "503"

gated(lane) == connectPending

beginBatch(lane, items) ==
    IF isRelationship(lane) THEN newLaneRelationshipBatch(verb(lane), items)
    ELSE newLaneBatch(verb(lane), items)

\* Up to the component's call: 501 before anything is read, then the gate,
\* then the body; a batch of nothing is answered without the component.  A body
\* that breaks off, or is still incomplete at ReadTimeout, fails in the decoder
\* like one that is malformed.
servePush(d, n) ==
    LET r == req[d]
        read == laneImplemented(r.lane) /\ ~gated(r.lane)
    IN  /\ nextAttempt(d, n)
        /\ main \in {"connecting", "running"}
        /\ \E cut \in BOOLEAN :
              /\ cut => read
              /\ torn' = IF cut THEN torn \cup {d} ELSE torn
              /\ call' = CASE ~laneImplemented(r.lane) -> answer(d, n, "501", <<>>)
                           [] laneImplemented(r.lane) /\ gated(r.lane) -> answer(d, n, gateStatus, <<>>)
                           [] read /\ (cut \/ ~r.wellFormed) -> answer(d, n, "400", <<>>)
                           [] read /\ ~cut /\ r.wellFormed /\ r.items = <<>> -> answer(d, n, "200", <<>>)
                           [] OTHER -> [call EXCEPT ![d][n].at = "component",
                                                    ![d][n].batch = beginBatch(r.lane, r.items)]
        /\ UNCHANGED <<serverVars, req, platformVars, remembered, slips, external>>

-----------------------------------------------------------------------------
\* The component's call (external).

running(d, n) == call[d][n].at \in {"component", "abandoned"}
itemStamp(d, id) ==
    LET k == CHOOSE k \in 1..Len(req[d].items) : req[d].items[k].id = id
    IN  stampOf(req[d].items[k].ver)

\* The call comes back: the platform may have stopped waiting for it.
comeBack(d, n, status, results) ==
    IF call[d][n].at = "component" THEN answer(d, n, status, results)
    ELSE [call EXCEPT ![d][n] = Over]

\* Read, compare and write of one record, under its lock.  A record is stored
\* with the stamp its row carries: a row the platform could not stamp leaves none.
Apply(d, n, id) ==
    LET b == call[d][n].batch
        v == itemStamp(d, id)
        stored == external[id]
        stale == IsStale(v, stored.stamp)
        retract == verb(req[d].lane) = "withdraw"
        uncovers == v = NoStamp /\ stored.stamp # NoStamp
    IN  /\ running(d, n)
        /\ id \in Pending(b)
        /\ call' = [call EXCEPT ![d][n].batch =
                      IF stale THEN SkippedReason(b, id, StaleVersion)
                      ELSE IF retract THEN IF stored.live THEN Withdrawn(b, id) ELSE Skipped(b, id)
                      ELSE IF stored.live THEN Updated(b, id, "x") ELSE Created(b, id, "x")]
        /\ external' = IF stale \/ (retract /\ ~stored.live) THEN external
                       ELSE [external EXCEPT ![id] = [live |-> ~retract, stamp |-> Truncated(v),
                                                      bare |-> stored.bare \/ uncovers]]
        /\ UNCHANGED <<serverVars, req, platformVars, remembered, slips, torn>>

\* Every other verdict: a record the external system refused, with or without
\* a reason, a skip, and the component's own slips, a second verdict included.
otherVerdicts(b, id) ==
    {Failed(b, id, FALSE), FailedReason(b, id, Refused, FALSE), SkippedReason(b, id, Refused),
     Created(b, id, ""), Withdrawn(b, id), Record(b, id, Verdict("skipped", "", NoReason)), Record(b, id, Verdict(Misspelt, "x", NoCode))}

Say(d, n, id) ==
    /\ running(d, n)
    /\ slips < MaxSlips
    /\ slips' = slips + 1
    /\ \E b \in otherVerdicts(call[d][n].batch, id) :
          /\ b # call[d][n].batch
          /\ call' = [call EXCEPT ![d][n].batch = b]
    /\ UNCHANGED <<serverVars, req, platformVars, remembered, external, torn>>

resultsOf(lane, b) == IF isRelationship(lane) THEN RelationshipResults(b) ELSE Results(b)

\* It returns nil, and may keep the verdicts for a redelivery of the batch.
ComponentReturns(d, n, keeps) ==
    LET results == resultsOf(req[d].lane, call[d][n].batch)
    IN  /\ running(d, n)
        /\ call' = comeBack(d, n, "200", results)
        /\ keeps => n < MaxAttempts[d]     \* the last attempt has no redelivery
        /\ remembered' = IF keeps THEN [remembered EXCEPT ![d] = results] ELSE remembered
        /\ UNCHANGED <<serverVars, req, platformVars, slips, external, torn>>

\* A redelivery answered from the recorded verdicts, through Batch.Record.
replayed(b, results) ==
    LET upTo[k \in 0..Len(results)] ==
            IF k = 0 THEN b ELSE Record(upTo[k - 1], results[k].id, results[k].r)
    IN  upTo[Len(results)]

Replay(d, n) ==
    LET b == replayed(call[d][n].batch, remembered[d])
    IN  /\ running(d, n)
        /\ DOMAIN call[d][n].batch.results = {}
        /\ remembered[d] # NoneYet
        /\ call' = IF call[d][n].at = "component"
                   THEN [answer(d, n, "200", resultsOf(req[d].lane, b)) EXCEPT ![d][n].batch = b]
                   ELSE [call EXCEPT ![d][n] = Over]
        /\ UNCHANGED <<serverVars, req, platformVars, remembered, slips, external, torn>>

\* A batch-wide fault; only a throttle that names a delay asks to wait.
writeSyncError(err) == IF err.throttle /\ err.after > 0 THEN "429" ELSE "500"

ComponentFails(d, n) ==
    /\ running(d, n)
    /\ \E err \in [throttle : BOOLEAN, after : 0..1] :
          call' = comeBack(d, n, writeSyncError(err), <<>>)
    /\ UNCHANGED <<serverVars, req, platformVars, remembered, slips, external, torn>>

-----------------------------------------------------------------------------
\* The platform's side (external).

\* A reply is taken whole or not at all.
acceptable(r, results) ==
    LET asked == {r.items[k].id : k \in 1..Len(r.items)} \ {NoId}
    IN  /\ Len(results) = Cardinality(asked)
        /\ {results[k].id : k \in 1..Len(results)} = asked
        /\ \A k \in 1..Len(results) :
              /\ permits(verb(r.lane), results[k].r.outcome)
              /\ results[k].r.outcome \in {"created", "updated"} => results[k].r.ext # ""

Hear(d, n) ==
    LET c == call[d][n]
        taken == c.status = "200" /\ acceptable(req[d], c.answer)
    IN  /\ c.at = "answered"
        /\ call' = [call EXCEPT ![d][n] = Over]
        /\ settled' = [settled EXCEPT ![d] = IF taken THEN "done"
                                             ELSE IF c.status \in Permanent THEN "dead" ELSE @]
        /\ accepted' = IF taken THEN [accepted EXCEPT ![d] = c.answer] ELSE accepted
        /\ UNCHANGED <<serverVars, req, remembered, slips, external, torn>>

\* The answer is lost, or does not come in time: the batch is sent again.
LoseAnswer(d, n) ==
    /\ \/ call[d][n].at = "answered" /\ call' = [call EXCEPT ![d][n] = Over]
       \/ call[d][n].at = "component" /\ call' = [call EXCEPT ![d][n].at = "abandoned"]
    /\ UNCHANGED <<serverVars, req, platformVars, remembered, slips, external, torn>>

Server ==
    \/ Connected \/ retryConnect
    \/ Leave \/ ShutdownDone \/ ShutdownTimesOut \/ ServeFails \/ Restart

ComponentStep(d, n) ==
    \/ \E id \in Id : Apply(d, n, id) \/ Say(d, n, id)
    \/ \E keeps \in BOOLEAN : ComponentReturns(d, n, keeps)
    \/ Replay(d, n) \/ ComponentFails(d, n)

Next ==
    \/ Server
    \/ \E d \in Delivery : \E n \in Attempt(d) :
          PushRefused(d, n) \/ servePush(d, n) \/ ComponentStep(d, n) \/ Hear(d, n) \/ LoseAnswer(d, n)

Spec == Init /\ [][Next]_vars

-----------------------------------------------------------------------------
\* Properties.

\* What a reply reports as done is what the component itself said of the
\* record in this attempt.
successesSaid(c) ==
    \A k \in 1..Len(c.answer) :
        LET e == c.answer[k]
        IN  e.r.outcome # "failed" =>
                e.id \in DOMAIN c.batch.results /\ c.batch.results[e.id].outcome = e.r.outcome

\* Whatever the component says of the records, in whichever order, twice or
\* not at all, a reply is one the platform takes: exactly one permitted
\* verdict for each requested id, with a record id where one is due.  One bad
\* verdict never costs the batch, and a record left without a verdict, or with
\* one the lane does not know, is never taken for done.
\* [batch.go, relationship.go Results]
ReplyIsAcceptable ==
    \A d \in Delivery : \A n \in Attempt(d) :
        LET c == call[d][n]
        IN  c.at = "answered" /\ c.status = "200" => acceptable(req[d], c.answer) /\ successesSaid(c)

\* Where a stored stamp stands in the history.
position(stamp) == CHOOSE k \in 1..Len(History) : Truncated(History[k]) = stamp

\* When the platform has taken a versioned record as pushed (or as stale),
\* the external system holds that version or a later one of the graph's
\* history, however deliveries, retries and restarts interleave.  The one thing
\* that may undo it is a row of the entity the platform could not stamp, which
\* no stamp may block and which leaves none behind.
\* [version.go IsStale; EntityVersion contract]
AcceptedIsHeld ==
    \A d \in Delivery : \A k \in 1..Len(accepted[d]) :
        LET e == accepted[d][k]
        IN  /\ req[d].lane = "sync"
            /\ itemStamp(d, e.id) # NoStamp
            /\ ~external[e.id].bare
            /\ e.r.outcome \in {"created", "updated"} \/ e.r.code = StaleVersion
            => /\ external[e.id].stamp # NoStamp
               /\ position(external[e.id].stamp) >= position(Truncated(itemStamp(d, e.id)))

\* A stamped record is never overwritten by an earlier stamped version: neither
\* a version of the entity before it was re-created, nor a push older than its
\* withdrawal.  [version.go Compare, IsStale]
StampNeverRegresses ==
    [][\A i \in Id : external[i].stamp # NoStamp /\ external'[i].stamp # NoStamp =>
          position(external'[i].stamp) >= position(external[i].stamp)]_vars

\* A redelivered batch answered from recorded verdicts gets, byte for byte,
\* the reply it was given, the SDK's own failure codes included.
\* [types.go isSDKMintedReplay, batch.go Record]
ReplayIsExact ==
    [][\A d \in Delivery : \A n \in Attempt(d) :
          Replay(d, n) /\ call[d][n].at = "component" => call'[d][n].answer = remembered[d]]_vars

\* What is given up for good is a request the component can never serve, or one
\* whose body could not be read at least once; the gate, a throttle, a fault of
\* the component and a restart are answered so that the platform tries again.
\* [server.go servePush, decodeSync, writeSyncError]
DeadIsUnservable ==
    \A d \in Delivery : settled[d] = "dead" =>
        ~req[d].wellFormed \/ ~laneImplemented(req[d].lane) \/ d \in torn
=============================================================================
