------------------------------- MODULE Identity -------------------------------
(***************************************************************************)
(* The workload token of a sidecar: NewTokenManagerFromEnv and             *)
(* TokenManager (auth/token_manager_env.go, auth/token_manager.go) over a  *)
(* bootstrap credential (auth/bootstrap.go), in discrete time.  The first  *)
(* mint decides whether the sidecar starts; a goroutine then renews the    *)
(* token at half its remaining life, in rounds of attempts with growing    *)
(* delays, until Stop or the end of its context.                           *)
(*                                                                         *)
(* Instants are kept as the ticks that are left until them, so that no     *)
(* clock grows.  A timer that is due is served before time passes, and the *)
(* credential is read within the tick.                                     *)
(* External: the mint endpoint, and the kubelet that rotates a projected   *)
(* credential; the endpoint refuses one that was rotated out.              *)
(***************************************************************************)
EXTENDS Integers, FiniteSetsExt

CONSTANTS
    Lifetimes,      \* lifetimes of the tokens the endpoint issues, in ticks
    MinRenew,       \* the renewal's lower bound (one minute)
    CallTimeout,    \* the mint client's timeout (30 s)
    mintAttempts,   \* attempts of a round
    mintFirstDelay, \* the delay after the first of them
    MaxRotations    \* bound: rotations of the credential

ASSUME IdentityAssumption ==
    /\ Lifetimes \subseteq Nat \ {0}
    /\ MinRenew \in Nat \ {0} /\ CallTimeout \in Nat \ {0}
    /\ mintAttempts \in Nat \ {0} /\ mintFirstDelay \in Nat
    /\ MaxRotations \in Nat

VARIABLES
    kind,      \* AGENT_BOOTSTRAP_KIND and its credential variable
    cred,      \* generation of the credential as it stands
    sent,      \* generation read for the attempt in flight
    held,      \* a token was minted
    left,      \* ticks until expiresAt
    life,      \* what was left of the token when it arrived
    loop,      \* where the minting goroutine is
    first,     \* the round is the one of NewTokenManager
    attempt,   \* attempt of the round, from 1
    timer,     \* ticks until the timer the goroutine waits on
    ctxDone,   \* the context of NewTokenManager has ended
    stopCh,    \* Stop has closed stopCh
    missed     \* the latest round of the renewal failed

credVars == <<kind, cred>>
tokenVars == <<held, left, life>>
loopVars == <<loop, first, attempt, timer, sent, missed>>
identityVars == <<credVars, tokenVars, loopVars, ctxDone, stopCh>>

Kinds == {"k8s_sa", "secret", "unset", "invalid"}

IdentityTypeOK ==
    /\ kind \in Kinds
    /\ cred \in 0..MaxRotations /\ sent \in 0..MaxRotations
    /\ held \in BOOLEAN
    /\ left \in Nat /\ life \in Nat
    /\ loop \in {"off", "reading", "asking", "backoff", "waiting", "over", "error"}
    /\ first \in BOOLEAN
    /\ attempt \in 1..mintAttempts
    /\ timer \in Nat
    /\ ctxDone \in BOOLEAN /\ stopCh \in BOOLEAN /\ missed \in BOOLEAN

\* BootstrapFromEnv: no identity means no token and no goroutine; an identity
\* that is not complete, or a required field that is empty, is an error.
BootstrapFromEnv(k) ==
    CASE k = "unset" -> "off"
      [] k = "invalid" -> "error"
      [] OTHER -> "reading"

NewTokenManagerFromEnv ==
    /\ kind \in Kinds
    /\ loop = BootstrapFromEnv(kind)
    /\ first = TRUE
    /\ attempt = 1
    /\ timer = 0
    /\ cred = 0 /\ sent = 0
    /\ held = FALSE /\ left = 0 /\ life = 0
    /\ ctxDone = FALSE /\ stopCh = FALSE /\ missed = FALSE

-----------------------------------------------------------------------------
\* One round of attempts: mint.

\* Mutant: renewed when the whole lifetime has passed.
MutAtExpiry(l) == Max({l, MinRenew})
renewAt(l) == Max({l \div 2, MinRenew})

\* The delay after attempt k: it doubles.
Delay[k \in 1..mintAttempts] == IF k = 1 THEN mintFirstDelay ELSE 2 * Delay[k - 1]

\* renewalLoop at the top of its loop: wait until half of what is left.
wait(l) == loop' = "waiting" /\ timer' = renewAt(l) /\ attempt' = 1

\* The bootstrap credential is read again for every attempt.
currentCredential == cred

bootstrapToken ==
    /\ loop = "reading"
    /\ sent' = currentCredential
    /\ loop' = "asking"
    /\ timer' = CallTimeout
    /\ UNCHANGED <<credVars, tokenVars, first, attempt, missed, ctxDone, stopCh>>

\* Mutant: the goroutine does not outlive a failed round.
MutGiveUp == loop' = "over" /\ timer' = 0 /\ attempt' = 1
keepTrying == wait(left)

\* The round has failed: the sidecar does not start, or the old token stays.
roundFails ==
    /\ missed' = ~first
    /\ IF first THEN loop' = "error" /\ timer' = 0 /\ attempt' = 1 ELSE keepTrying
    /\ sent' = 0
    /\ UNCHANGED <<credVars, tokenVars, first, ctxDone, stopCh>>

attemptFails ==
    IF attempt = mintAttempts THEN roundFails
    ELSE /\ loop' = "backoff"
         /\ timer' = Delay[attempt]
         /\ sent' = 0
         /\ UNCHANGED <<credVars, tokenVars, first, attempt, missed, ctxDone, stopCh>>

\* The projected file is missing or empty for a moment.
BootstrapUnreadable == loop = "reading" /\ kind = "k8s_sa" /\ attemptFails

\* Refused, unreachable, not in time, not 200, not JSON, without a token, or
\* cut off with the context.
doMintFails == loop = "asking" /\ attemptFails

\* The token was issued up to as long ago as the attempt has been under way.
doMint ==
    /\ loop = "asking" /\ ~ctxDone
    /\ sent = cred
    /\ \E ttl \in Lifetimes, late \in 0..(CallTimeout - timer) :
          /\ left' = Max({ttl - late, 0})
          /\ life' = left'
    /\ held' = TRUE
    /\ missed' = FALSE
    /\ first' = FALSE
    /\ wait(left')
    /\ sent' = 0
    /\ UNCHANGED <<credVars, ctxDone, stopCh>>

nextAttempt ==
    /\ loop = "backoff" /\ timer = 0
    /\ attempt' = attempt + 1
    /\ loop' = "reading"
    /\ UNCHANGED <<credVars, tokenVars, first, timer, sent, missed, ctxDone, stopCh>>

backoffCut == loop = "backoff" /\ ctxDone /\ roundFails

-----------------------------------------------------------------------------
\* renewalLoop's select.

renewalDue ==
    /\ loop = "waiting" /\ timer = 0
    /\ loop' = "reading"
    /\ UNCHANGED <<credVars, tokenVars, first, attempt, timer, sent, missed, ctxDone, stopCh>>

\* Mutant: the wait ends with its timer alone.
MutDeaf == ctxDone
woken == stopCh \/ ctxDone

renewalEnds ==
    /\ loop = "waiting" /\ woken
    /\ loop' = "over"
    /\ timer' = 0
    /\ UNCHANGED <<credVars, tokenVars, first, attempt, sent, missed, ctxDone, stopCh>>

\* The kubelet projects a new credential.
Rotate ==
    /\ kind = "k8s_sa" /\ cred < MaxRotations
    /\ cred' = cred + 1
    /\ UNCHANGED <<kind, tokenVars, loopVars, ctxDone, stopCh>>

mint == bootstrapToken \/ BootstrapUnreadable \/ doMintFails \/ doMint \/ nextAttempt \/ backoffCut
renewalLoop == renewalDue \/ renewalEnds
IdentityStep == mint \/ renewalLoop \/ Rotate

\* What one tick does to the identity, and when the goroutine lets it pass.
Down(n) == Max({n - 1, 0})
mayElapse == loop # "reading" /\ (loop \in {"asking", "backoff", "waiting"} => timer > 0)
elapse ==
    /\ left' = Down(left)
    /\ timer' = Down(timer)
    /\ UNCHANGED <<credVars, held, life, loop, first, attempt, sent, missed, ctxDone, stopCh>>
=============================================================================
