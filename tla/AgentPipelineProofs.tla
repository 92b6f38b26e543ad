------------------------- MODULE AgentPipelineProofs -------------------------
(***************************************************************************)
(* The safety invariants of AgentPipeline, for every palette of tools,     *)
(* every annotation of them, every budget and every no-progress limit.     *)
(***************************************************************************)
EXTENDS AgentPipeline, SequenceTheorems, TLAPS

Gathering == {"decide", "call", "delegate"}

\* One observation per decided step, and one step open during a call.
TurnInv ==
    /\ turn = Len(results)
    /\ pc \in Gathering => turn < MaxSteps
    /\ pc = "decide" => Len(decided) = turn
    /\ \A s, u \in step : s = u
    /\ pc # "call" => step = {}
    /\ pc \in {"call", "delegate"} => Len(decided) = turn + 1 /\ ~thrashing(NoProgressLimit)
    /\ \A s \in step : Len(decided) > 0 /\ s.call = decided[Len(decided)]

\* Decided steps are distinct, and every call is one of them; during a call it
\* is one of the earlier ones.
CallInv ==
    /\ \A i, j \in DOMAIN decided : decided[i] = decided[j] => i = j
    /\ \A k \in DOMAIN calls : \E i \in DOMAIN decided :
         calls[k] = decided[i] /\ (pc = "call" => i < Len(decided))
    /\ NoRepeatedCall

\* A call, or a step about to be one, of a mutating tool has its confirmation.
AskInv ==
    /\ mode = "stream" => pending \in {answering, NoQuestion}
    /\ mode = "stream" =>
         /\ \A i \in DOMAIN calls :
              toolMutates(calls[i].tool) => confirmationSatisfied(pending, calls[i].tool)
         /\ \A s \in step :
              toolMutates(s.call.tool) => confirmationSatisfied(pending, s.call.tool)

\* A running request has no status; a finished one has what it needs.
EndInv ==
    /\ pc # "idle" => ret = "none" /\ statuses = <<>>
    /\ pc \in {"reassemble", "submit"} => mode = "proactive"
    /\ pc \in Gathering => question = NoQuestion
    /\ OneTerminalStatus
    /\ GatheredOrAsked

AInv == TypeOK /\ TurnInv /\ CallInv /\ AskInv /\ EndInv /\ ThrashBounded

-----------------------------------------------------------------------------
\* Appending to a sequence, spelled out for the provers.
LEMMA AppendFacts ==
    ASSUME NEW S, NEW s \in Seq(S), NEW x \in S
    PROVE  /\ Append(s, x) \in Seq(S)
           /\ Len(s) \in Nat /\ Len(Append(s, x)) = Len(s) + 1
           /\ DOMAIN s = 1..Len(s) /\ DOMAIN Append(s, x) = 1..(Len(s) + 1)
           /\ \A i \in 1..Len(s) : Append(s, x)[i] = s[i]
           /\ Append(s, x)[Len(s) + 1] = x
  OBVIOUS

\* A question the planner may ask is not the absence of one.
LEMMA QuestionsAreQuestions ==
    /\ NoQuestion \notin Question
    /\ \A t \in Tool : buildConfirmation(t) \in Question
  BY DEF NoQuestion, Question, Kind, buildConfirmation

\* The guard passed and one more observation keeps the bound on thrashing.
LEMMA ThrashAppend ==
    ASSUME results \in Seq(Observation), ThrashBounded, ~thrashing(NoProgressLimit),
           Len(results) < MaxSteps, NEW r \in Observation, results' = Append(results, r)
    PROVE  ThrashBounded'
  <1> DEFINE n == Len(results)
             L == NoProgressLimit
  <1>1. /\ n \in Nat /\ L \in Nat /\ L > 0 /\ MaxSteps \in Nat
        /\ Len(results') = n + 1
        /\ \A i \in 1..n : results'[i] = results[i]
    BY AppendFacts, PipelineAssumption
  <1>2. ASSUME NEW i \in 1..(n + 1) - L
        PROVE  \E j \in i..i + L - 1 : ~Unproductive(results'[j])
    <2>1. CASE i \in 1..n - L
      <3>1. PICK j \in i..i + L - 1 : ~Unproductive(results[j])
        BY <2>1 DEF ThrashBounded
      <3>2. j \in 1..n  BY <1>1, <2>1
      <3> QED  BY <1>1, <3>1, <3>2 DEF Unproductive
    <2>2. CASE i = n - L + 1
      <3>1. n >= L  BY <1>1, <2>2
      <3>2. PICK j \in n - L + 1..n : ~Unproductive(results[j])
        BY <3>1 DEF thrashing
      <3>3. j \in 1..n /\ j \in i..i + L - 1  BY <1>1, <2>2, <3>1
      <3> QED  BY <1>1, <3>2, <3>3 DEF Unproductive
    <2> QED  BY <1>1, <2>1, <2>2
  <1>3. Len(results') <= MaxSteps  BY <1>1
  <1>4. \A i \in 1..Len(results') - L :
          \E j \in i..i + L - 1 : ~Unproductive(results'[j])
    BY <1>1, <1>2
  <1> QED  BY <1>3, <1>4 DEF ThrashBounded, Unproductive

-----------------------------------------------------------------------------
\* An idle agent that has served nothing.
LEMMA AInvInit == Init => AInv
  <1> SUFFICES ASSUME Init PROVE AInv  OBVIOUS
  <1> USE PipelineAssumption DEF Init
  <1>1. TypeOK
    <2>1. /\ <<>> \in Seq(Call) /\ <<>> \in Seq(Observation) /\ <<>> \in Seq(Status)
      BY EmptySeq
    <2>2. 0 \in 0..MaxSteps  OBVIOUS
    <2>3. NoStep \in SUBSET [call : Call, required : BOOLEAN]  BY DEF NoStep
    <2> QED  BY <2>1, <2>2, <2>3, Zenon DEF TypeOK
  <1>2. TurnInv  BY DEF TurnInv, NoStep, Gathering
  <1>3. CallInv  BY DEF CallInv, NoRepeatedCall
  <1>4. AskInv  BY DEF AskInv, NoStep
  <1>5. EndInv  BY DEF EndInv, OneTerminalStatus, GatheredOrAsked, Ending, Gathering
  <1>6. ThrashBounded  BY DEF ThrashBounded
  <1> QED  BY <1>1, <1>2, <1>3, <1>4, <1>5, <1>6 DEF AInv

\* A request starts with nothing decided, observed or called.
LEMMA AInvStart ==
    ASSUME AInv, NEW m \in {"stream", "send", "proactive"}, Start(m),
           schemas' \in SUBSET Tool, token' \in Question \cup {NoQuestion},
           answering' \in Question \cup {NoQuestion}, pending' \in {answering', NoQuestion}
    PROVE  AInv'
  <1> USE PipelineAssumption DEF Start
  <1>1. TypeOK'
    <2>1. /\ <<>> \in Seq(Call) /\ <<>> \in Seq(Observation) /\ <<>> \in Seq(Status)
      BY EmptySeq
    <2>2. 0 \in 0..MaxSteps  OBVIOUS
    <2>3. NoStep \in SUBSET [call : Call, required : BOOLEAN]  BY DEF NoStep
    <2> QED  BY <2>1, <2>2, <2>3, Zenon DEF TypeOK
  <1>2. TurnInv'  BY DEF TurnInv, NoStep, Gathering
  <1>3. CallInv'  BY DEF CallInv, NoRepeatedCall
  <1>4. AskInv'  BY DEF AskInv, NoStep
  <1>5. EndInv'  BY DEF EndInv, OneTerminalStatus, GatheredOrAsked, Ending, Gathering
  <1>6. ThrashBounded'  BY DEF ThrashBounded
  <1> QED  BY <1>1, <1>2, <1>3, <1>4, <1>5, <1>6 DEF AInv

\* The return of a request: its status fits what it returns, and the loop's
\* state is left as it is, but for a step decided or called last.
LEMMA AInvFinish ==
    ASSUME AInv, pc # "idle", NEW status \in Status \cup {"none"}, NEW r \in {"nil", "error"},
           NEW q \in Question \cup {NoQuestion}, Finish(status, r, q),
           mode # "proactive" => /\ status # "none"
                                 /\ r = "nil" <=> status \in {"completed", "input-required"},
           UNCHANGED <<mode, ctxDone, turn, results, evidence>>,
           step' = {}, decided' \in Seq(Call), CallInv', calls' \in Seq(Call),
           mode = "stream" =>
             \A i \in DOMAIN calls' :
               toolMutates(calls'[i].tool) => confirmationSatisfied(pending, calls'[i].tool)
    PROVE  AInv'
  <1> USE DEF AInv, Finish
  <1>0. statuses = <<>> /\ ret = "none"  BY DEF EndInv
  <1>1. statuses' \in Seq(Status) /\ (status # "none" => statuses' = <<status>>)
    BY <1>0 DEF TypeOK
  <1>2. TypeOK'  BY <1>1 DEF TypeOK
  <1>3. TurnInv'  BY DEF TurnInv, Gathering
  <1>4. AskInv'  BY DEF AskInv, toolMutates, confirmationSatisfied
  <1>5. EndInv'
    <2>1. OneTerminalStatus'  BY <1>1 DEF OneTerminalStatus
    <2> QED  BY <2>1 DEF EndInv, GatheredOrAsked, Ending, Gathering
  <1>6. ThrashBounded'  BY DEF ThrashBounded, Unproductive
  <1> QED  BY <1>2, <1>3, <1>4, <1>5, <1>6

\* From the loop to the assembly, and from one stage of the end to the next.
LEMMA AInvEnding ==
    ASSUME AInv, pc \in {"decide"} \cup Ending, pc' \in Ending,
           evidence' \in Seq(Observation), question' \in Question \cup {NoQuestion},
           evidence' = IF question' = NoQuestion THEN results ELSE <<>>,
           pc' \in {"reassemble", "submit"} => mode = "proactive",
           UNCHANGED <<mode, ctxDone, askVars, loopVars, statuses, ret>>
    PROVE  AInv'
  <1> USE DEF AInv, askVars, loopVars, Ending
  <1>1. TypeOK'  BY DEF TypeOK
  <1>2. TurnInv'  BY DEF TurnInv, Gathering
  <1>3. CallInv'  BY DEF CallInv, NoRepeatedCall
  <1>4. AskInv'  BY DEF AskInv, toolMutates, confirmationSatisfied
  <1>5. EndInv'  BY DEF EndInv, OneTerminalStatus, GatheredOrAsked, Ending, Gathering
  <1>6. ThrashBounded'  BY DEF ThrashBounded, Unproductive
  <1> QED  BY <1>1, <1>2, <1>3, <1>4, <1>5, <1>6

\* One more observation, after which the loop goes on or the budget is spent.
LEMMA AInvNextTurn ==
    ASSUME AInv, pc \in Gathering, ~thrashing(NoProgressLimit),
           NEW r \in Observation, NextTurn(r), Running, UNCHANGED <<mode, ctxDone>>,
           step' = {}, decided' \in Seq(Call), Len(decided') = turn + 1,
           calls' \in Seq(Call), CallInv',
           mode = "stream" =>
             \A i \in DOMAIN calls' :
               toolMutates(calls'[i].tool) => confirmationSatisfied(pending, calls'[i].tool)
    PROVE  AInv'
  <1> USE DEF AInv, NextTurn, Running, askVars
  <1>1. /\ results' \in Seq(Observation) /\ Len(results') = Len(results) + 1
        /\ Len(results) \in Nat /\ turn = Len(results) /\ turn < MaxSteps /\ MaxSteps \in Nat
        /\ results' = Append(results, r) /\ turn' = turn + 1
    BY AppendFacts, PipelineAssumption DEF TypeOK, TurnInv
  <1>2. pc' \in {"decide", "assemble"} /\ evidence' \in Seq(Observation)
    BY <1>1 DEF TypeOK
  <1>3. TypeOK'  BY <1>1, <1>2 DEF TypeOK
  <1>4. TurnInv'  BY <1>1, <1>2 DEF TurnInv, Gathering
  <1>5. AskInv'  BY DEF AskInv, toolMutates, confirmationSatisfied
  <1>6. EndInv'
    <2>1. ret' = "none" /\ statuses' = <<>>  BY DEF EndInv, Gathering
    <2>2. question' = NoQuestion  BY DEF EndInv
    <2>3. pc' \in Ending => evidence' = results'  BY <1>2 DEF Ending
    <2>4. GatheredOrAsked'  BY <2>2, <2>3 DEF GatheredOrAsked
    <2> QED  BY <1>2, <2>1, <2>2, <2>4 DEF EndInv, OneTerminalStatus
  <1>7. ThrashBounded'
    <2>1. results \in Seq(Observation) /\ Len(results) < MaxSteps  BY <1>1 DEF TypeOK
    <2> QED  BY <1>1, <2>1, ThrashAppend
  <1> QED  BY <1>3, <1>4, <1>5, <1>6, <1>7

-----------------------------------------------------------------------------
\* Every planner decision but a step.
LEMMA AInvPlanner ==
    ASSUME AInv, PlannerFails \/ PlannerDone \/ \E q \in Question : PlannerClarifies(q)
    PROVE  AInv'
  <1> USE DEF AInv
  <1>0. /\ pc = "decide" => step = {} /\ question = NoQuestion
        /\ NoQuestion \in Question \cup {NoQuestion} /\ question \in Question \cup {NoQuestion}
        /\ results \in Seq(Observation) /\ <<>> \in Seq(Observation)
        /\ decided \in Seq(Call) /\ calls \in Seq(Call)
        /\ mode = "stream" =>
             \A i \in DOMAIN calls :
               toolMutates(calls[i].tool) => confirmationSatisfied(pending, calls[i].tool)
    BY EmptySeq DEF TypeOK, TurnInv, AskInv, EndInv, Gathering
  <1>1. ASSUME NEW st \in {"failed", "input-required"}, NEW r \in {"nil", "error"},
               NEW q \in Question \cup {NoQuestion}, pc = "decide", Finish(st, r, q),
               r = "nil" <=> st = "input-required",
               UNCHANGED <<mode, ctxDone, loopVars, evidence>>
        PROVE  AInv'
    <2>1. CallInv'  BY <1>1 DEF CallInv, NoRepeatedCall, Finish, loopVars
    <2> QED  BY <1>0, <1>1, <2>1, AInvFinish DEF loopVars, Status
  <1>2. CASE PlannerFails
    <2>1. CASE ctxDone  BY <1>0, <1>1, <1>2, <2>1 DEF PlannerFails
    <2>2. CASE ~ctxDone
      BY <1>0, <1>2, <2>2, AInvEnding DEF PlannerFails, Assemble, Running, Ending
    <2> QED  BY <2>1, <2>2
  <1>3. CASE PlannerDone
    BY <1>0, <1>3, AInvEnding DEF PlannerDone, Assemble, Running, Ending
  <1>4. ASSUME NEW q \in Question, PlannerClarifies(q) PROVE AInv'
    <2>1. CASE mode = "proactive"
      BY <1>0, <1>4, <2>1, AInvEnding, QuestionsAreQuestions DEF PlannerClarifies, Ending
    <2>2. CASE mode # "proactive"
      BY <1>0, <1>1, <1>4, <2>2 DEF PlannerClarifies
    <2> QED  BY <2>1, <2>2
  <1> QED  BY <1>2, <1>3, <1>4

\* A decided step.
LEMMA AInvActs ==
    ASSUME AInv, NEW c \in Call, NEW required \in BOOLEAN, PlannerActs(c, required)
    PROVE  AInv'
  <1> USE DEF AInv
  <1>0. /\ pc = "decide" /\ step = {} /\ UNCHANGED <<mode, ctxDone>>
        /\ question \in Question \cup {NoQuestion} /\ question = NoQuestion
        /\ results \in Seq(Observation) /\ decided \in Seq(Call) /\ calls \in Seq(Call)
        /\ turn = Len(results) /\ Len(decided) = turn /\ turn < MaxSteps /\ turn \in Nat
        /\ mode = "stream" =>
             \A i \in DOMAIN calls :
               toolMutates(calls[i].tool) => confirmationSatisfied(pending, calls[i].tool)
    <2>1. pc = "decide" /\ UNCHANGED <<mode, ctxDone>>  BY DEF PlannerActs
    <2> QED  BY <2>1 DEF TypeOK, TurnInv, AskInv, EndInv, Gathering
  <1>1. CASE ctxDone
    <2>1. /\ Finish("canceled", "error", question) /\ UNCHANGED <<loopVars, evidence>>
      BY <1>1 DEF PlannerActs
    <2>2. CallInv'  BY <2>1, <1>0 DEF CallInv, NoRepeatedCall, Finish, loopVars
    <2> QED  BY <1>0, <2>1, <2>2, AInvFinish DEF loopVars, Status
  <1>2. CASE ~ctxDone /\ noProgress(c)
    BY <1>0, <1>2, AInvEnding DEF PlannerActs, Assemble, Running, Ending
  <1>3. CASE ~ctxDone /\ ~noProgress(c)
    <2>1. /\ decided' = Append(decided, c) /\ decided' \in Seq(Call)
          /\ Len(decided') = turn + 1 /\ Len(decided') = Len(decided) + 1
          /\ DOMAIN decided = 1..Len(decided) /\ DOMAIN decided' = 1..(Len(decided) + 1)
          /\ \A i \in 1..Len(decided) : decided'[i] = decided[i]
          /\ decided'[Len(decided) + 1] = c
      <3>1. decided' = Append(decided, c)  BY <1>3 DEF PlannerActs
      <3> QED  BY <1>0, <3>1, AppendFacts
    <2>2. ~thrashing(NoProgressLimit) /\ ~duplicateAction(c)  BY <1>3 DEF noProgress
    <2>3. \A i, j \in DOMAIN decided' : decided'[i] = decided'[j] => i = j
      BY <1>0, <2>1, <2>2 DEF CallInv, duplicateAction
    <2>4. ASSUME UNCHANGED calls PROVE CallInv'
      <3>1. ASSUME NEW k \in DOMAIN calls
            PROVE  \E i \in DOMAIN decided' : calls'[k] = decided'[i] /\ i < Len(decided')
        <4>1. PICK i \in DOMAIN decided : calls[k] = decided[i]  BY DEF CallInv
        <4>2. i \in DOMAIN decided' /\ i < Len(decided') /\ decided'[i] = decided[i]
          BY <1>0, <2>1
        <4> QED  BY <2>4, <4>1, <4>2
      <3> QED  BY <2>3, <2>4, <3>1 DEF CallInv, NoRepeatedCall
    <2>5. CASE c.tool \in Delegations /\ mode # "proactive"
      <3>1. /\ pc' = "delegate" /\ Running /\ UNCHANGED <<turn, results, step, calls, evidence>>
        BY <1>3, <2>5 DEF PlannerActs
      <3> USE <3>1 DEF Running, askVars
      <3>2. TypeOK'  BY <1>0, <2>1 DEF TypeOK
      <3>3. TurnInv'  BY <1>0, <2>1, <2>2 DEF TurnInv, Gathering, thrashing, Unproductive
      <3>4. AskInv'  BY <1>0 DEF AskInv, toolMutates, confirmationSatisfied
      <3>5. EndInv'  BY <1>0 DEF EndInv, OneTerminalStatus, GatheredOrAsked, Ending, Gathering
      <3>6. ThrashBounded'  BY DEF ThrashBounded, Unproductive
      <3> QED  BY <2>4, <3>2, <3>3, <3>4, <3>5, <3>6
    <2> DEFINE Gated == mode = "stream" /\ toolMutates(c.tool)
                        /\ ~confirmationSatisfied(pending, c.tool)
    <2>6. CASE ~(c.tool \in Delegations /\ mode # "proactive") /\ Gated
      <3>1. /\ Finish("input-required", "nil", buildConfirmation(c.tool))
            /\ UNCHANGED <<turn, results, step, calls, evidence>>
        BY <1>3, <2>6 DEF PlannerActs
      <3>2. buildConfirmation(c.tool) \in Question  BY QuestionsAreQuestions DEF Call
      <3> QED  BY <1>0, <2>1, <2>4, <3>1, <3>2, AInvFinish DEF Status
    <2>7. CASE ~(c.tool \in Delegations /\ mode # "proactive") /\ ~Gated
      <3>1. \/ NextTurn("skipped") /\ Running /\ UNCHANGED <<step, calls>>
            \/ /\ pc' = "call" /\ step' = {[call |-> c, required |-> required]}
               /\ Running /\ UNCHANGED <<turn, results, calls, evidence>>
        BY <1>3, <2>7 DEF PlannerActs
      <3>2. CASE NextTurn("skipped") /\ Running /\ UNCHANGED <<step, calls>>
        BY <1>0, <2>1, <2>2, <2>4, <3>2, AInvNextTurn DEF Gathering, Observation
      <3>3. CASE /\ pc' = "call" /\ step' = {[call |-> c, required |-> required]}
                 /\ Running /\ UNCHANGED <<turn, results, calls, evidence>>
        <4> USE <3>3 DEF Running, askVars
        <4>1. TypeOK'  BY <1>0, <2>1 DEF TypeOK
        <4>2. TurnInv'  BY <1>0, <2>1, <2>2 DEF TurnInv, Gathering, thrashing, Unproductive
        <4>3. AskInv'  BY <1>0, <2>7 DEF AskInv, toolMutates, confirmationSatisfied
        <4>4. EndInv'  BY <1>0 DEF EndInv, OneTerminalStatus, GatheredOrAsked, Ending, Gathering
        <4>5. ThrashBounded'  BY DEF ThrashBounded, Unproductive
        <4> QED  BY <2>4, <4>1, <4>2, <4>3, <4>4, <4>5
      <3> QED  BY <3>1, <3>2, <3>3
    <2> QED  BY <2>5, <2>6, <2>7
  <1> QED  BY <1>1, <1>2, <1>3

\* A delegation ends.
LEMMA AInvDelegated == ASSUME AInv, Delegated PROVE AInv'
  <1> USE DEF AInv, Delegated
  <1>1. PICK r \in {"ok", "failed"} : NextTurn(r)  OBVIOUS
  <1>2. /\ step' = {} /\ Len(decided') = turn + 1 /\ ~thrashing(NoProgressLimit)
        /\ decided' \in Seq(Call) /\ calls' \in Seq(Call)
    BY DEF TurnInv, TypeOK
  <1>3. pc' # "call"  BY <1>1 DEF NextTurn
  <1>4. CallInv'  BY <1>3 DEF CallInv, NoRepeatedCall
  <1>5. mode = "stream" =>
          \A i \in DOMAIN calls' :
            toolMutates(calls'[i].tool) => confirmationSatisfied(pending, calls'[i].tool)
    BY DEF AskInv
  <1> QED  BY <1>1, <1>2, <1>4, <1>5, AInvNextTurn DEF Gathering, Observation

\* A step was executed.
LEMMA AInvExecuted == ASSUME AInv, Executed PROVE AInv'
  <1> USE DEF AInv
  <1>1. PICK s \in step, r \in Observation :
          /\ UNCHANGED calls \/ calls' = Append(calls, s.call)
          /\ IF s.required /\ r = "failed"
             THEN Finish("failed", "error", question) /\ UNCHANGED <<turn, results, evidence>>
             ELSE NextTurn(r) /\ Running
    BY DEF Executed
  <1>2. /\ pc = "call" /\ step' = {} /\ UNCHANGED <<mode, ctxDone, decided>>
        /\ s.call \in Call /\ decided \in Seq(Call) /\ calls \in Seq(Call)
        /\ Len(decided) \in Nat /\ Len(decided) > 0 /\ s.call = decided[Len(decided)]
        /\ Len(decided) = turn + 1 /\ ~thrashing(NoProgressLimit)
        /\ DOMAIN decided = 1..Len(decided) /\ DOMAIN calls = 1..Len(calls)
        /\ question \in Question \cup {NoQuestion}
    BY <1>1 DEF Executed, TypeOK, TurnInv, NoStep
  <1>3. pc' # "call"  BY <1>1 DEF NextTurn, Finish
  <1>4. ASSUME NEW k \in DOMAIN calls PROVE calls[k] # s.call
    <2>1. PICK i \in DOMAIN decided : calls[k] = decided[i] /\ i < Len(decided)
      BY <1>2 DEF CallInv
    <2>2. Len(decided) \in DOMAIN decided  BY <1>2
    <2> QED  BY <1>2, <2>1, <2>2 DEF CallInv
  <1>5. /\ calls' \in Seq(Call) /\ CallInv'
        /\ mode = "stream" =>
             \A i \in DOMAIN calls' :
               toolMutates(calls'[i].tool) => confirmationSatisfied(pending, calls'[i].tool)
    <2>1. CASE UNCHANGED calls
      BY <1>2, <1>3, <2>1 DEF CallInv, NoRepeatedCall, AskInv
    <2>2. CASE calls' = Append(calls, s.call)
      <3>1. /\ calls' \in Seq(Call) /\ Len(calls) \in Nat
            /\ DOMAIN calls' = 1..(Len(calls) + 1)
            /\ \A i \in 1..Len(calls) : calls'[i] = calls[i]
            /\ calls'[Len(calls) + 1] = s.call
        BY <1>2, <2>2, AppendFacts
      <3>2. NoRepeatedCall'
        BY <1>2, <1>4, <3>1 DEF CallInv, NoRepeatedCall
      <3>3. ASSUME NEW k \in DOMAIN calls' PROVE \E i \in DOMAIN decided' : calls'[k] = decided'[i]
        <4>1. CASE k = Len(calls) + 1  BY <1>2, <3>1, <4>1
        <4>2. CASE k \in DOMAIN calls  BY <1>2, <3>1, <4>2 DEF CallInv
        <4> QED  BY <1>2, <3>1, <4>1, <4>2
      <3>4. CallInv'  BY <1>2, <1>3, <3>2, <3>3 DEF CallInv
      <3>5. ASSUME mode = "stream", NEW i \in DOMAIN calls', toolMutates(calls'[i].tool)
            PROVE  confirmationSatisfied(pending, calls'[i].tool)
        <4>1. CASE i = Len(calls) + 1  BY <3>1, <3>5, <4>1 DEF AskInv
        <4>2. CASE i \in DOMAIN calls  BY <1>2, <3>1, <3>5, <4>2 DEF AskInv
        <4> QED  BY <1>2, <3>1, <4>1, <4>2
      <3> QED  BY <3>1, <3>4, <3>5
    <2> QED  BY <1>1, <2>1, <2>2
  <1>6. CASE s.required /\ r = "failed"
    BY <1>1, <1>2, <1>5, <1>6, AInvFinish DEF Status
  <1>7. CASE ~(s.required /\ r = "failed")
    BY <1>1, <1>2, <1>5, <1>7, AInvNextTurn DEF Gathering
  <1> QED  BY <1>6, <1>7

\* The end of a request.
LEMMA AInvEnd == ASSUME AInv, Assembled \/ AssembledDecision \/ Submitted PROVE AInv'
  <1> USE DEF AInv
  <1>0. /\ pc \in Ending /\ step = {} /\ UNCHANGED <<mode, ctxDone, loopVars, evidence>>
        /\ question \in Question \cup {NoQuestion} /\ evidence \in Seq(Observation)
        /\ decided \in Seq(Call) /\ calls \in Seq(Call)
        /\ evidence = IF question = NoQuestion THEN results ELSE <<>>
        /\ pc = "submit" => mode = "proactive"
        /\ mode = "stream" =>
             \A i \in DOMAIN calls :
               toolMutates(calls[i].tool) => confirmationSatisfied(pending, calls[i].tool)
    BY DEF Assembled, AssembledDecision, Submitted, TypeOK, TurnInv, AskInv, EndInv,
           GatheredOrAsked, Ending, Gathering
  <1>1. ASSUME NEW st \in {"completed", "failed", "none"}, NEW r \in {"nil", "error"},
               Finish(st, r, question),
               mode # "proactive" => st # "none" /\ (r = "nil" <=> st = "completed")
        PROVE  AInv'
    <2>1. CallInv'  BY <1>0, <1>1 DEF CallInv, NoRepeatedCall, Finish, loopVars
    <2> QED  BY <1>0, <1>1, <2>1, AInvFinish DEF loopVars, Status, Ending
  <1>2. CASE Assembled  BY <1>1, <1>2 DEF Assembled
  <1>3. CASE AssembledDecision
    <2>1. CASE pc' \in {"submit"} \cup AfterInvalid /\ Running
      BY <1>0, <1>3, <2>1, AInvEnding DEF AssembledDecision, AfterInvalid, Running, Ending
    <2>2. CASE Finish("none", "nil", question) \/ Finish("none", "error", question)
      BY <1>1, <1>3, <2>2 DEF AssembledDecision
    <2> QED  BY <1>3, <2>1, <2>2 DEF AssembledDecision
  <1>4. CASE Submitted  BY <1>0, <1>1, <1>4 DEF Submitted
  <1> QED  BY <1>2, <1>3, <1>4

\* The invariant is inductive and holds throughout.
THEOREM PipelineInvariant == Spec => []AInv
  <1>1. ASSUME AInv, StartStream \/ StartMessage PROVE AInv'
    <2>1. CASE StartStream
      <3>1. /\ Start("stream") /\ schemas' \in {schemas} \cup Listing /\ token' = token
            /\ answering' = token /\ pending' \in {token, NoQuestion}
        BY <2>1 DEF StartStream
      <3>2. schemas \in SUBSET Tool /\ token \in Question \cup {NoQuestion}
        BY <1>1 DEF AInv, TypeOK
      <3>3. schemas' \in SUBSET Tool  BY <3>1, <3>2, PipelineAssumption
      <3> QED  BY <1>1, <3>1, <3>2, <3>3, AInvStart
    <2>2. CASE StartMessage
      <3>1. PICK m \in {"send", "proactive"} : Start(m)  BY <2>2 DEF StartMessage
      <3>2. /\ answering' = NoQuestion /\ pending' = NoQuestion
            /\ schemas' = schemas /\ token' = token
        BY <2>2 DEF StartMessage
      <3>3. schemas \in SUBSET Tool /\ token \in Question \cup {NoQuestion}
        BY <1>1 DEF AInv, TypeOK
      <3> QED  BY <1>1, <3>1, <3>2, <3>3, AInvStart
    <2> QED  BY <1>1, <2>1, <2>2
  <1>2. ASSUME AInv, Cancel \/ UNCHANGED vars PROVE AInv'
    <2>1. /\ ctxDone' \in BOOLEAN
          /\ UNCHANGED <<mode, pc, askVars, loopVars, question, evidence, statuses, ret>>
      BY <1>2 DEF Cancel, vars, AInv, TypeOK
    <2> USE <1>2, <2>1 DEF AInv, askVars, loopVars
    <2>2. TypeOK'  BY DEF TypeOK
    <2>3. TurnInv'  BY DEF TurnInv, thrashing, Unproductive
    <2>4. CallInv'  BY DEF CallInv, NoRepeatedCall
    <2>5. AskInv'  BY DEF AskInv, toolMutates, confirmationSatisfied
    <2>6. EndInv'  BY DEF EndInv, OneTerminalStatus, GatheredOrAsked, Ending, Gathering
    <2>7. ThrashBounded'  BY DEF ThrashBounded, Unproductive
    <2> QED  BY <2>2, <2>3, <2>4, <2>5, <2>6, <2>7
  <1>3. AInv /\ [Next]_vars => AInv'
    BY <1>1, <1>2, AInvPlanner, AInvActs, AInvDelegated, AInvExecuted, AInvEnd
       DEF Next, Step, Decide
  <1> QED  BY AInvInit, <1>3, PTL DEF Spec

-----------------------------------------------------------------------------
\* Every variable of the pipeline keeps its type; the turn stays in budget.
THEOREM PipelineTypeCorrect == Spec => []TypeOK
  <1>1. AInv => TypeOK  BY DEF AInv
  <1> QED  BY <1>1, PipelineInvariant, PTL

\* No mutating call without the user's answer to a confirmation of that tool.
THEOREM ConfirmTheorem == Spec => []ConfirmedBeforeWrite
  <1>1. ASSUME AInv, mode = "stream", NEW i \in DOMAIN calls, toolMutates(calls[i].tool)
        PROVE  answering = buildConfirmation(calls[i].tool)
    <2>1. confirmationSatisfied(pending, calls[i].tool)  BY <1>1 DEF AInv, AskInv
    <2>2. pending \in {answering, NoQuestion}  BY <1>1 DEF AInv, AskInv
    <2>3. pending # NoQuestion  BY <2>1 DEF confirmationSatisfied, NoQuestion
    <2>4. pending \in Question  BY <1>1, <2>3 DEF AInv, TypeOK
    <2> QED  BY <2>1, <2>2, <2>3, <2>4 DEF confirmationSatisfied, buildConfirmation, Question
  <1>2. AInv => ConfirmedBeforeWrite  BY <1>1 DEF ConfirmedBeforeWrite
  <1> QED  BY <1>2, PipelineInvariant, PTL

\* No tool call is repeated within a request.
THEOREM RepeatTheorem == Spec => []NoRepeatedCall
  <1>1. AInv => NoRepeatedCall  BY DEF AInv, CallInv
  <1> QED  BY <1>1, PipelineInvariant, PTL

\* The loop stops at its limits.
THEOREM ThrashTheorem == Spec => []ThrashBounded
  <1>1. AInv => ThrashBounded  BY DEF AInv
  <1> QED  BY <1>1, PipelineInvariant, PTL

\* The answer rests on every observation, or on none where the planner asked.
THEOREM EvidenceTheorem == Spec => []GatheredOrAsked
  <1>1. AInv => GatheredOrAsked  BY DEF AInv, EndInv
  <1> QED  BY <1>1, PipelineInvariant, PTL

\* One terminal status, and the right one.
THEOREM StatusTheorem == Spec => []OneTerminalStatus
  <1>1. AInv => OneTerminalStatus  BY DEF AInv, EndInv
  <1> QED  BY <1>1, PipelineInvariant, PTL
=============================================================================
