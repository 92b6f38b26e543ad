---------------------------- MODULE AgentPipeline ----------------------------
(***************************************************************************)
(* One conversation with a kit agent (agent/streampipeline): the ReAct     *)
(* loop shared by message/stream, message/send and proactive events, the   *)
(* confirm-before-write gate whose token crosses two requests, the no-     *)
(* progress guard, and the assembly that ends each kind of request.        *)
(*                                                                         *)
(* The planner (an LLM), the tools and Frontier, which keeps the question  *)
(* of an input-required turn and hands it back, are external: each may     *)
(* answer in every way the code distinguishes.  Requests follow one        *)
(* another; what a request keeps is its own except for the schema cache.   *)
(* Events on their way to the client are the subject of StreamBridge.      *)
(***************************************************************************)
EXTENDS Naturals, Sequences, FiniteSets

CONSTANTS Tool,              \* names the planner may choose
          Arg,               \* canonical argument maps
          Writes,            \* tools whose schema says mutates: true
          Reads,             \* tools whose schema says mutates: false
          WriterName,        \* tools whose name contains a mutating hint
          Listing,           \* sets of tools the gateway's listing may describe
          Delegations,       \* names that stand for a sub-agent
          NoTool,            \* a clarification without a pending tool
          MaxSteps,          \* turn budget
          NoProgressLimit    \* unproductive observations in a row that stop the loop

ASSUME PipelineAssumption ==
    /\ Writes \subseteq Tool /\ Reads \subseteq Tool /\ Writes \cap Reads = {}
    /\ WriterName \subseteq Tool /\ Delegations \subseteq Tool
    /\ Listing \subseteq SUBSET Tool
    /\ NoTool \notin Tool
    /\ MaxSteps \in Nat \ {0}
    /\ NoProgressLimit \in Nat \ {0}

VARIABLES
    mode,        \* "stream", "send" or "proactive"
    pc,          \* "idle", or what the request waits for
    ctxDone,     \* the request's context is cancelled or past its deadline
    schemas,     \* tools the streaming handler's schema cache knows
    token,       \* the question the last streamed turn ended with (kept by Frontier)
    pending,     \* Input.PendingConfirmation
    answering,   \* history: the question the user had before them at the start
    turn, decided, results,
    step,        \* the step being executed
    question,    \* gatherResult.inputRequired
    evidence,    \* the results the assembly is given
    calls,       \* history: tool calls, as planned, that reached the gateway in this request
    statuses,    \* terminal statuses emitted in this request
    ret          \* what the entry point returned

loopVars == <<turn, decided, results, step, calls>>
askVars == <<schemas, token, pending, answering>>
vars == <<mode, pc, ctxDone, askVars, loopVars, question, evidence, statuses, ret>>

Call == [tool : Tool, arg : Arg]
Kind == {"confirmation", "other"}
Question == [kind : Kind, tool : Tool \cup {NoTool}]
NoQuestion == [kind |-> "none", tool |-> NoTool]
NoStep == {}
Observation == {"ok", "empty", "failed", "skipped"}
Status == {"completed", "failed", "canceled", "input-required"}

TypeOK ==
    /\ mode \in {"stream", "send", "proactive"}
    /\ pc \in {"idle", "decide", "call", "delegate", "assemble", "reassemble", "submit"}
    /\ ctxDone \in BOOLEAN
    /\ schemas \in SUBSET Tool
    /\ token \in Question \cup {NoQuestion}
    /\ pending \in Question \cup {NoQuestion}
    /\ answering \in Question \cup {NoQuestion}
    /\ turn \in 0..MaxSteps
    /\ decided \in Seq(Call)
    /\ results \in Seq(Observation)
    /\ step \in SUBSET [call : Call, required : BOOLEAN]
    /\ question \in Question \cup {NoQuestion}
    /\ evidence \in Seq(Observation)
    /\ calls \in Seq(Call)
    /\ statuses \in Seq(Status)
    /\ ret \in {"none", "nil", "error"}

Init ==
    /\ mode = "stream"
    /\ pc = "idle"
    /\ ctxDone = FALSE
    /\ schemas = {}
    /\ token = NoQuestion
    /\ pending = NoQuestion
    /\ answering = NoQuestion
    /\ turn = 0
    /\ decided = <<>>
    /\ results = <<>>
    /\ step = NoStep
    /\ question = NoQuestion
    /\ evidence = <<>>
    /\ calls = <<>>
    /\ statuses = <<>>
    /\ ret = "none"

-----------------------------------------------------------------------------
\* Helpers of the loop.

\* toolMutates: an annotation the cache knows wins, else the name decides.
toolMutates(t) ==
    IF t \in schemas /\ t \in Writes \cup Reads THEN t \in Writes ELSE t \in WriterName

\* Mutant: any pause that names the tool authorises it.
MutAnyKind(q, t) == q.tool = t

\* confirmationSatisfied: an explicit confirmation of this very tool.
confirmationSatisfied(q, t) == q.kind = "confirmation" /\ q.tool = t

buildConfirmation(t) == [kind |-> "confirmation", tool |-> t]

Unproductive(r) == r # "ok"

\* Mutant: only the previous step is compared.
MutOnlyLastCompared(c) ==
    decided # <<>> /\ decided[Len(decided)] = c

\* The same tool with the same canonical arguments was already decided.
duplicateAction(c) == \E i \in DOMAIN decided : decided[i] = c

\* Mutant: the guard looks one observation too late.
MutLateGuard(limit) ==
    /\ Len(results) > limit
    /\ \A i \in Len(results) - limit .. Len(results) : Unproductive(results[i])

\* The last limit observations failed, were skipped or came back empty.
thrashing(limit) ==
    /\ Len(results) >= limit
    /\ \A i \in Len(results) - limit + 1 .. Len(results) : Unproductive(results[i])

noProgress(c) == duplicateAction(c) \/ thrashing(NoProgressLimit)

-----------------------------------------------------------------------------
\* Requests.

\* What every request starts with.
Start(m) ==
    /\ pc = "idle"
    /\ mode' = m
    /\ pc' = "decide"
    /\ ctxDone' = FALSE
    /\ turn' = 0
    /\ decided' = <<>>
    /\ results' = <<>>
    /\ step' = NoStep
    /\ question' = NoQuestion
    /\ evidence' = <<>>
    /\ calls' = <<>>
    /\ statuses' = <<>>
    /\ ret' = "none"

\* NewDefaultStreamHandler, buildReactiveRequest: the cache is fresh, or is
\* replaced by a new listing, or the refresh fails and what it has is kept; the
\* resume token arrives with the message or is lost on the way.
StartStream ==
    /\ Start("stream")
    /\ schemas' \in {schemas} \cup Listing
    /\ pending' \in {token, NoQuestion}
    /\ answering' = token
    /\ UNCHANGED token

\* answerReactive, or handleProactive's detached goroutine.
StartMessage ==
    /\ \E m \in {"send", "proactive"} : Start(m)
    /\ pending' = NoQuestion
    /\ answering' = NoQuestion
    /\ UNCHANGED <<schemas, token>>

\* The client goes away, or the reasoning budget is spent.
Cancel ==
    /\ pc # "idle" /\ ~ctxDone
    /\ ctxDone' = TRUE
    /\ UNCHANGED <<mode, pc, askVars, loopVars, question, evidence, statuses, ret>>

\* The entry point returns; q is gatherResult.inputRequired.  Frontier keeps
\* the question of a streamed turn, and forgets an answered one.
Finish(status, r, q) ==
    /\ pc' = "idle"
    /\ statuses' = IF status = "none" THEN statuses ELSE Append(statuses, status)
    /\ ret' = r
    /\ question' = q
    /\ token' = IF mode = "stream" THEN q ELSE token
    /\ UNCHANGED <<schemas, pending, answering>>

Running == UNCHANGED <<askVars, question, statuses, ret>>

-----------------------------------------------------------------------------
\* reactLoop, one planner decision at a time.

\* The loop ends and the caller assembles from every observation.
Assemble ==
    /\ pc' = "assemble"
    /\ evidence' = results

\* Mutant: the terminal result of the loop is not returned.
MutFailsThenAssembles ==
    /\ pc = "decide"
    /\ Assemble
    /\ statuses' = IF ctxDone THEN Append(statuses, "failed") ELSE statuses
    /\ UNCHANGED <<mode, ctxDone, askVars, loopVars, question, ret>>

\* planner.Next fails.  A dead context is terminal; otherwise the answer is
\* assembled from what there is (nothing yet: the plain answer).
PlannerFails ==
    /\ pc = "decide"
    /\ IF ctxDone
       THEN Finish("failed", "error", question) /\ UNCHANGED evidence
       ELSE Assemble /\ Running
    /\ UNCHANGED <<mode, ctxDone, loopVars>>

\* The planner is done.
PlannerDone ==
    /\ pc = "decide"
    /\ Assemble
    /\ Running
    /\ UNCHANGED <<mode, ctxDone, loopVars>>

\* The reply carries a question, whichever the mode.  runInternal ends the
\* turn with input-required; gatherSync hands on the result, which has no
\* observations.
PlannerClarifies(q) ==
    /\ pc = "decide"
    /\ IF mode = "proactive"
       THEN /\ pc' = "assemble"
            /\ question' = q
            /\ evidence' = <<>>
            /\ UNCHANGED <<askVars, statuses, ret>>
       ELSE Finish("input-required", "nil", q) /\ UNCHANGED evidence
    /\ UNCHANGED <<mode, ctxDone, loopVars>>

\* One more turn, if the budget allows.
NextTurn(r) ==
    /\ results' = Append(results, r)
    /\ turn' = turn + 1
    /\ IF turn + 1 < MaxSteps
       THEN pc' = "decide" /\ UNCHANGED evidence
       ELSE pc' = "assemble" /\ evidence' = results'

\* A decided step: cancelled, no progress, a delegation, a confirmation, a
\* condition that does not hold, or a call.
PlannerActs(c, required) ==
    /\ pc = "decide"
    /\ \/ /\ ctxDone
          /\ Finish("canceled", "error", question)
          /\ UNCHANGED <<loopVars, evidence>>
       \/ /\ ~ctxDone /\ noProgress(c)
          /\ Assemble
          /\ Running
          /\ UNCHANGED loopVars
       \/ /\ ~ctxDone /\ ~noProgress(c)
          /\ decided' = Append(decided, c)
          /\ IF c.tool \in Delegations /\ mode # "proactive"
             THEN /\ pc' = "delegate"
                  /\ Running
                  /\ UNCHANGED <<turn, results, step, calls, evidence>>
             ELSE IF mode = "stream" /\ toolMutates(c.tool)
                     /\ ~confirmationSatisfied(pending, c.tool)
             THEN /\ Finish("input-required", "nil", buildConfirmation(c.tool))
                  /\ UNCHANGED <<turn, results, step, calls, evidence>>
             ELSE \/ /\ NextTurn("skipped")
                     /\ Running
                     /\ UNCHANGED <<step, calls>>
                  \/ /\ pc' = "call"
                     /\ step' = {[call |-> c, required |-> required]}
                     /\ Running
                     /\ UNCHANGED <<turn, results, calls, evidence>>
    /\ UNCHANGED <<mode, ctxDone>>

\* runDelegation: the sub-agent's answer, or an error, is the observation.
Delegated ==
    /\ pc = "delegate"
    /\ \E r \in {"ok", "failed"} : NextTurn(r)
    /\ Running
    /\ UNCHANGED <<mode, ctxDone, decided, step, calls>>

\* executeStep: not dispatched (upstream empty, arguments refused), or
\* dispatched with whatever the gateway answers.  A required step that failed
\* ends the request.
Executed ==
    /\ pc = "call"
    /\ \E s \in step, r \in Observation :
         /\ \/ r \in {"skipped", "failed"} /\ UNCHANGED calls
            \/ r # "skipped" /\ calls' = Append(calls, s.call)
         /\ IF s.required /\ r = "failed"
            THEN Finish("failed", "error", question) /\ UNCHANGED <<turn, results, evidence>>
            ELSE NextTurn(r) /\ Running
    /\ step' = NoStep
    /\ UNCHANGED <<mode, ctxDone, decided>>

-----------------------------------------------------------------------------
\* The end of a request.

\* streamAssembly for runInternal and runPlainAnswer: any content counts, cut
\* off or not; else the blocking call decides.
Assembled ==
    /\ pc = "assemble" /\ mode # "proactive"
    /\ Finish("completed", "nil", question) \/ Finish("failed", "error", question)
    /\ UNCHANGED <<mode, ctxDone, loopVars, evidence>>

\* Mutant: validation is retried until it succeeds.
MutRetryForever == {"assemble", "reassemble"} \ {pc}

\* What follows an assembly that does not validate.
AfterInvalid == IF pc = "assemble" THEN {"reassemble"} ELSE {}

\* RunSyncWithUsage on the proactive path: one more assembly, over the same
\* evidence, if the first output does not validate; then the decision.
AssembledDecision ==
    /\ pc \in {"assemble", "reassemble"} /\ mode = "proactive"
    /\ \/ pc' \in {"submit"} \cup AfterInvalid /\ Running
       \/ Finish("none", "nil", question)      \* no action warranted
       \/ Finish("none", "error", question)    \* assembly failed, still invalid, unknown action
    /\ UNCHANGED <<mode, ctxDone, loopVars, evidence>>

\* gateway.SubmitAction.
Submitted ==
    /\ pc = "submit"
    /\ Finish("none", "nil", question) \/ Finish("none", "error", question)
    /\ UNCHANGED <<mode, ctxDone, loopVars, evidence>>

Decide ==
    \/ PlannerFails \/ PlannerDone
    \/ \E q \in Question : PlannerClarifies(q)
    \/ \E c \in Call, required \in BOOLEAN : PlannerActs(c, required)

Step == Decide \/ Delegated \/ Executed \/ Assembled \/ AssembledDecision \/ Submitted

Next == StartStream \/ StartMessage \/ Cancel \/ Step

\* Every gateway call has a timeout, so each wait ends.
Spec == Init /\ [][Next]_vars /\ WF_vars(Step)

-----------------------------------------------------------------------------
\* Properties.

\* Property 3 of the source: in a streamed request, a tool the agent takes for
\* mutating is called only if the turn the user is answering was an explicit
\* confirmation of that tool, whatever the planner chooses, the cache learns or
\* other requests do in between.
ConfirmedBeforeWrite ==
    mode = "stream" =>
        \A i \in DOMAIN calls :
            toolMutates(calls[i].tool) => answering = buildConfirmation(calls[i].tool)

\* No planned call reaches the gateway twice in one request, with other calls
\* in between or not, and no retry repeats a tool.
NoRepeatedCall ==
    \A i, j \in DOMAIN calls : calls[i] = calls[j] => i = j

\* The loop never goes on after NoProgressLimit unproductive observations in a
\* row, and never beyond its turn budget.
ThrashBounded ==
    /\ Len(results) <= MaxSteps
    /\ \A i \in 1..Len(results) - NoProgressLimit :
         \E j \in i..i + NoProgressLimit - 1 : ~Unproductive(results[j])

Ending == {"assemble", "reassemble", "submit"}

\* pipeline.go:310 and 321: a gathering "carries the gathered transcript", and
\* one with a question "returns without assembling.  nil on every other path
\* (always nil on the proactive path - Property 1)".  So the answer, and its one
\* retry, are assembled from every observation of the loop, and never over a
\* question.
AssembledFromAll == pc \in Ending => question = NoQuestion /\ evidence = results

\* What the code does: the answer and its retry are assembled from every
\* observation unless the planner asked a question, and then from none.
GatheredOrAsked ==
    pc \in Ending => evidence = IF question = NoQuestion THEN results ELSE <<>>

\* What the pipeline emits for a streamed or sent request ends with exactly one
\* terminal status, which says what its caller is told, and has none before.
\* (The bridge adds a closing "completed" of its own to the wire.)
OneTerminalStatus ==
    mode # "proactive" =>
        IF ret = "none"
        THEN statuses = <<>>
        ELSE /\ Len(statuses) = 1
             /\ ret = "nil" <=> statuses[1] \in {"completed", "input-required"}

\* Every request ends.
RequestEnds == pc # "idle" ~> pc = "idle"

=============================================================================
