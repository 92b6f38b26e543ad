----------------------------- MODULE ToolSidecar -----------------------------
(***************************************************************************)
(* A kit's MCP tool sidecar: mcptools.Runtime (mcptools/runtime.go,        *)
(* mcptools/server.go) on a gateway client (gateway/client.go,             *)
(* gateway/client_env.go, gateway/composition.go) whose bearer comes from  *)
(* Identity.  The platform calls the sidecar's tools; a handler calls      *)
(* platform tools through the client, with the token as it is at that      *)
(* moment and within the composition of the running tool.                  *)
(*                                                                         *)
(* External: the platform's calls, the handlers' choices and the Platform  *)
(* Gateway, which refuses an expired or missing bearer (401) and a tool    *)
(* outside the sidecar's grant, the union of its tools' compositions.      *)
(***************************************************************************)
EXTENDS Identity

CONSTANTS
    Call,          \* slots for calls of the platform under way at once
    Tool,          \* tools the kit declares
    PlatformTool,  \* tools of the platform
    Composition,   \* the platform tools each tool declares
    Latency        \* bound: ticks a request may take to the gateway

ASSUME ToolSidecarAssumption ==
    /\ Composition \in [Tool -> SUBSET PlatformTool]
    /\ Latency \in Nat

VARIABLES
    main,      \* where the sidecar's main is
    registry,  \* the registered tools
    call,      \* each call: its tool, where it is, its bearer and its outcome
    overrun    \* Shutdown gave up on a handler

sidecarVars == <<main, registry, overrun>>
vars == <<identityVars, sidecarVars, call>>

NoTool == "none"
\* What a request took from the token: the ticks it is still good for, and
\* whether its renewal was already out of order.
Bearer == [left : Nat, unrenewed : BOOLEAN]
NoBearer == [left |-> 0, unrenewed |-> TRUE]
Free == [at |-> "free", tool |-> NoTool, asks |-> NoTool, bearer |-> NoBearer,
         wait |-> 0, outcome |-> "none"]
Outcomes == {"none", "ok", "composition", "toolError", "error", "401", "403"}
Replies == {"result", "isError", "rpcError"}
CallState == [at : {"free", "handler", "sent", "answered"},
              tool : Tool \cup {NoTool}, asks : PlatformTool \cup {NoTool},
              bearer : Bearer, wait : 0..Latency, outcome : Outcomes \cup Replies]

TypeOK ==
    /\ IdentityTypeOK
    /\ main \in {"starting", "failed", "built", "serving", "shutdown", "closing", "returned"}
    /\ registry \subseteq Tool
    /\ overrun \in BOOLEAN
    /\ call \in [Call -> CallState]

Init ==
    /\ NewTokenManagerFromEnv
    /\ main = "starting"
    /\ registry = {}
    /\ overrun = FALSE
    /\ call = [c \in Call |-> Free]

-----------------------------------------------------------------------------
\* Runtime: construction, registration, serving and shutdown.

\* NewRuntimeFromEnv returns: with a token, without an identity, or not at all.
NewRuntimeFromEnv ==
    /\ main = "starting"
    /\ held \/ loop \in {"off", "error"}
    /\ main' = IF loop = "error" THEN "failed" ELSE "built"
    /\ UNCHANGED <<identityVars, registry, overrun, call>>

\* A name is registered once; the second declaration is refused.
Register(t) ==
    /\ main \in {"built", "serving"}
    /\ t \notin registry
    /\ registry' = registry \cup {t}
    /\ UNCHANGED <<identityVars, main, overrun, call>>

ListenAndServe ==
    /\ main = "built"
    /\ main' = "serving"
    /\ UNCHANGED <<identityVars, registry, overrun, call>>

inFlight == {c \in Call : call[c].at \in {"handler", "sent"}}
ends(m) == main' = m /\ UNCHANGED <<identityVars, registry, overrun, call>>

\* A signal; the kit usually serves under the context of the token manager.
Signal == main = "serving" /\ ends("shutdown")
ContextEnds ==
    /\ ~ctxDone
    /\ main \in {"starting", "built", "serving", "shutdown"}
    /\ ctxDone' = TRUE
    /\ main' = IF main = "serving" THEN "shutdown" ELSE main
    /\ UNCHANGED <<credVars, tokenVars, loopVars, stopCh, registry, overrun, call>>

drained == inFlight = {}

\* Shutdown returns, and Close closes stopCh and waits for the goroutine.
Close ==
    /\ main = "shutdown"
    /\ drained
    /\ main' = "closing"
    /\ stopCh' = TRUE
    /\ UNCHANGED <<credVars, tokenVars, loopVars, ctxDone, registry, overrun, call>>

ShutdownTimesOut ==
    /\ main = "shutdown"
    /\ inFlight # {}
    /\ main' = "closing"
    /\ overrun' = TRUE
    /\ stopCh' = TRUE
    /\ UNCHANGED <<credVars, tokenVars, loopVars, ctxDone, registry, call>>

\* Stop has waited for the goroutine: main returns, and what still runs dies.
Stopped == loop \in {"off", "over"}
Returned ==
    /\ main = "closing" /\ Stopped
    /\ main' = "returned"
    /\ call' = [c \in Call |-> Free]
    /\ UNCHANGED <<identityVars, registry, overrun>>

\* The accept loop died: os.Exit, with nothing stopped or drained.
ServeFails ==
    /\ main = "serving"
    /\ main' = "returned"
    /\ call' = [c \in Call |-> Free]
    /\ loop' = "over" /\ timer' = 0
    /\ UNCHANGED <<credVars, tokenVars, first, attempt, sent, missed, ctxDone, stopCh, registry, overrun>>

-----------------------------------------------------------------------------
\* ServeMCP.

reply(c, what) == [call EXCEPT ![c] = [Free EXCEPT !.at = "answered", !.outcome = what]]

\* A message that is not a call of a registered tool is answered at once:
\* tools/list and ping with a result, the rest with a JSON-RPC error.
ServeMCP(c) ==
    /\ main = "serving" /\ call[c].at = "free"
    /\ \E what \in {"result", "rpcError"} : call' = reply(c, what)
    /\ UNCHANGED <<identityVars, sidecarVars>>

\* The composition goes with the handler's context.
handleToolsCall(c, t) ==
    /\ main = "serving" /\ call[c].at = "free"
    /\ call' = IF t \in registry THEN [call EXCEPT ![c].at = "handler", ![c].tool = t]
               ELSE reply(c, "rpcError")
    /\ UNCHANGED <<identityVars, sidecarVars>>

\* A handler's error is a result marked isError, never a transport error.
HandlerReturns(c) ==
    /\ call[c].at = "handler"
    /\ call' = reply(c, IF call[c].outcome \in {"none", "ok"} THEN "result" ELSE "isError")
    /\ UNCHANGED <<identityVars, sidecarVars>>

Forget(c) ==
    /\ call[c].at = "answered"
    /\ call' = [call EXCEPT ![c] = Free]
    /\ UNCHANGED <<identityVars, sidecarVars>>

-----------------------------------------------------------------------------
\* PlatformGatewayClient, called by a handler.

checkComposition(t, p) == p \in Composition[t]

\* The longest a round of attempts takes.
roundTime[k \in 0..mintAttempts] ==
    IF k = 0 THEN 0
    ELSE roundTime[k - 1] + CallTimeout + (IF k < mintAttempts THEN Delay[k] ELSE 0)

\* A token that lives long enough to be renewed with time to spare.
LongLived(l) == l - Max({l \div 2, MinRenew}) > roundTime[mintAttempts] + Latency

unrenewed == ~held \/ missed \/ ctxDone \/ overrun \/ ~LongLived(life)

\* The bearer is read from the token manager for every request.
loadToken == [left |-> left, unrenewed |-> unrenewed]

CallTool(c, p) ==
    /\ call[c].at = "handler" /\ call[c].outcome = "none"
    /\ call' = IF checkComposition(call[c].tool, p)
               THEN [call EXCEPT ![c] = [@ EXCEPT !.at = "sent", !.asks = p,
                                                  !.bearer = loadToken, !.wait = Latency]]
               ELSE [call EXCEPT ![c].outcome = "composition"]
    /\ UNCHANGED <<identityVars, sidecarVars>>

\* ParseToolError on the answer as read: a structured error of up to 64 KiB is
\* decoded whole, one that was cut there, or is no such error, is not.
Bodies == [structured : BOOLEAN, cut : BOOLEAN]
decodeToolError(body) == body.structured /\ ~body.cut
ParseToolError(body) == IF decodeToolError(body) THEN "toolError" ELSE "error"

hears(c, outcome) ==
    call' = [call EXCEPT ![c] = [@ EXCEPT !.at = "handler", !.outcome = outcome, !.wait = 0,
                                          !.asks = NoTool, !.bearer = [call[c].bearer EXCEPT !.left = 0]]]

\* The gateway's answer to post: it checks the bearer, then the grant.
Grant == UNION {Composition[t] : t \in Tool}
Gateway(c) ==
    /\ call[c].at = "sent"
    /\ CASE call[c].bearer.left = 0 -> hears(c, "401")
         [] call[c].bearer.left > 0 /\ call[c].asks \notin Grant -> hears(c, "403")
         [] OTHER -> \/ hears(c, "ok")
                     \/ \E body \in Bodies : hears(c, ParseToolError(body))
    /\ UNCHANGED <<identityVars, sidecarVars>>

-----------------------------------------------------------------------------
older(bearer) == [bearer EXCEPT !.left = Down(@)]
Tick ==
    /\ mayElapse
    /\ \A c \in Call : call[c].at = "sent" => call[c].wait > 0
    /\ elapse
    /\ call' = [c \in Call |-> [call[c] EXCEPT !.bearer = older(call[c].bearer), !.wait = Down(@)]]
    /\ UNCHANGED sidecarVars

alive(A) == main \notin {"failed", "returned"} /\ A /\ UNCHANGED <<sidecarVars, call>>
TokenManager == alive(IdentityStep)
Main == NewRuntimeFromEnv \/ ListenAndServe \/ Close \/ ShutdownTimesOut \/ Returned
Stop == Signal \/ ContextEnds \/ ServeFails \/ \E t \in Tool : Register(t)
Serving(c) == \/ ServeMCP(c) \/ HandlerReturns(c) \/ Forget(c) \/ Gateway(c)
              \/ \E t \in Tool : handleToolsCall(c, t)
              \/ \E p \in PlatformTool : CallTool(c, p)

Next == Tick \/ TokenManager \/ Main \/ Stop \/ \E c \in Call : Serving(c)

\* Goroutines run, timers expire and handlers return; an endpoint that keeps
\* being asked answers some day, and a credential can be read some day.
Fairness ==
    /\ WF_vars(Tick)
    /\ WF_vars(alive(mint \/ renewalLoop)) /\ SF_vars(alive(renewalEnds))
    /\ SF_vars(alive(bootstrapToken)) /\ SF_vars(alive(doMint))
    /\ WF_vars(Main)
    /\ \A c \in Call : WF_vars(HandlerReturns(c)) /\ WF_vars(Gateway(c))

Spec == Init /\ [][Next]_vars /\ Fairness

-----------------------------------------------------------------------------
\* Properties.

\* The gateway never refuses a handler's request while the identity is in
\* order: with tokens that live long enough, a context that lasts, and a
\* drain that ends in time, every request carries a token that is still good
\* when it arrives, through attempts that fail, a rotated credential and the
\* shutdown; and no request leaves for a tool outside the grant.
\* [token_manager.go renewalLoop, mint; runtime.go ListenAndServe;
\* composition.go checkComposition]
RefusedMeansUnrenewed ==
    \A c \in Call : call[c].at = "handler" =>
        /\ call[c].outcome = "401" => call[c].bearer.unrenewed
        /\ call[c].outcome # "403"

\* An expired token does not stay: it is replaced once the endpoint answers,
\* unless the context or the sidecar ends.  [token_manager.go renewalLoop]
ExpiredIsRenewed == (held /\ left = 0) ~> (left > 0 \/ ctxDone \/ main \in {"closing", "returned"})

\* A shutdown ends, although Stop waits for a mint that does not watch it.
\* [token_manager.go Stop, mint; runtime.go ListenAndServe]
ShutdownEnds == (main = "shutdown") ~> (main = "returned")
=============================================================================
