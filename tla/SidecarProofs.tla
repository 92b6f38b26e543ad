---------------------------- MODULE SidecarProofs ----------------------------
(***************************************************************************)
(* ToolSidecar over Identity: a handler's request is never refused while   *)
(* the identity is in order, for every lifetime of the tokens, every       *)
(* timeout, number of attempts and first delay, and any number of calls.   *)
(***************************************************************************)
EXTENDS ToolSidecar, NaturalsInduction, WellFoundedInduction, TLAPS

-----------------------------------------------------------------------------
\* How long a round takes.

\* Induction over the naturals, of a set instead of a predicate.
LEMMA InductionOverSet ==
    ASSUME NEW S, 0 \in S, \A n \in Nat : n \in S => n + 1 \in S
    PROVE  Nat \subseteq S
  <1> SUFFICES ASSUME Nat \ S # {} PROVE FALSE  OBVIOUS
  <1> DEFINE T == Nat \ S
             R == OpToRel(<, Nat)
  <1>1. T \subseteq Nat /\ T # {}  OBVIOUS
  <1>2. IsWellFoundedOn(R, Nat)  BY NatLessThanWellFounded
  <1>3. \A x, y \in Nat : <<y, x>> \in R <=> y < x  BY DEF OpToRel
  <1> HIDE DEF R, T
  <1>4. PICK x \in T : \A y \in T : ~(<<y, x>> \in R)  BY <1>1, <1>2, WFMin
  <1>5. x \in Nat /\ x # 0 /\ x - 1 \in Nat  BY DEF T
  <1>6. x - 1 \in S
    <2>1. <<x - 1, x>> \in R  BY <1>3, <1>5
    <2> QED  BY <1>4, <1>5, <2>1 DEF T
  <1>7. (x - 1) + 1 \in S  BY <1>5, <1>6
  <1> QED  BY <1>5, <1>7 DEF T

\* What doubles with every attempt, and what adds up over them, exists.
LEMMA DoublingExists ==
    ASSUME NEW n \in Nat, NEW d \in Nat
    PROVE  \E g : g = [k \in 1..n |-> IF k = 1 THEN d ELSE 2 * g[k - 1]]
  <1> DEFINE Q == {m \in Nat : \E g : g = [k \in 1..m |-> IF k = 1 THEN d ELSE 2 * g[k - 1]]}
  <1>1. 0 \in Q
    <2> DEFINE g == [k \in 1..0 |-> d]
    <2>1. g = [k \in 1..0 |-> IF k = 1 THEN d ELSE 2 * g[k - 1]]  OBVIOUS
    <2> HIDE DEF g
    <2> QED  BY <2>1
  <1>2. ASSUME NEW m \in Nat, m \in Q PROVE m + 1 \in Q
    <2>1. PICK g : g = [k \in 1..m |-> IF k = 1 THEN d ELSE 2 * g[k - 1]]  BY <1>2
    <2> DEFINE h == [k \in 1..(m + 1) |-> IF k = 1 THEN d ELSE 2 * g[k - 1]]
    <2>2. h = [k \in 1..(m + 1) |-> IF k = 1 THEN d ELSE 2 * h[k - 1]]
      <3>1. ASSUME NEW k \in 1..(m + 1) PROVE h[k] = IF k = 1 THEN d ELSE 2 * h[k - 1]
        <4>1. k # 1 => k - 1 \in 1..m /\ k - 1 \in 1..(m + 1)  OBVIOUS
        <4>2. k # 1 => h[k - 1] = g[k - 1]  BY <2>1, <4>1
        <4> QED  BY <4>2
      <3> QED  BY <3>1
    <2> HIDE DEF h
    <2> QED  BY <2>2
  <1> HIDE DEF Q
  <1>3. n \in Q  BY <1>1, <1>2, InductionOverSet
  <1> QED  BY <1>3 DEF Q

\* The delays are numbers.
LEMMA DelayIs == \A k \in 1..mintAttempts : Delay[k] \in Nat
  <1> DEFINE d == CHOOSE g : g = [k \in 1..mintAttempts |-> IF k = 1 THEN mintFirstDelay ELSE 2 * g[k - 1]]
  <1>1. Delay = d  BY DEF Delay
  <1>2. d = [k \in 1..mintAttempts |-> IF k = 1 THEN mintFirstDelay ELSE 2 * d[k - 1]]
    <2>1. mintAttempts \in Nat /\ mintFirstDelay \in Nat  BY IdentityAssumption
    <2>2. \E g : g = [k \in 1..mintAttempts |-> IF k = 1 THEN mintFirstDelay ELSE 2 * g[k - 1]]
      BY <2>1, DoublingExists
    <2> QED  BY <2>2
  <1> HIDE DEF d
  <1> DEFINE Q == {m \in Nat : m + 1 <= mintAttempts => d[m + 1] \in Nat}
  <1>3. 0 \in Q
    <2>1. d[1] = mintFirstDelay  BY <1>2, IdentityAssumption
    <2> QED  BY <2>1, IdentityAssumption
  <1>4. ASSUME NEW m \in Nat, m \in Q PROVE m + 1 \in Q
    <2> SUFFICES ASSUME (m + 1) + 1 <= mintAttempts PROVE d[(m + 1) + 1] \in Nat  OBVIOUS
    <2>1. d[m + 1] \in Nat  BY <1>4, IdentityAssumption
    <2>2. (m + 1) + 1 \in 1..mintAttempts /\ (m + 1) + 1 # 1 /\ ((m + 1) + 1) - 1 = m + 1
      BY IdentityAssumption
    <2>3. d[(m + 1) + 1] = 2 * d[m + 1]  BY <1>2, <2>2
    <2> QED  BY <2>1, <2>3
  <1> HIDE DEF Q
  <1>5. Nat \subseteq Q  BY <1>3, <1>4, InductionOverSet
  <1>6. ASSUME NEW k \in 1..mintAttempts PROVE d[k] \in Nat
    <2>1. k - 1 \in Nat /\ (k - 1) + 1 = k  BY IdentityAssumption
    <2>2. k - 1 \in Q  BY <1>5, <2>1
    <2> QED  BY <2>1, <2>2 DEF Q
  <1> QED  BY <1>1, <1>6

\* What attempt k takes at most, with the delay after it.
attemptTime(k) == CallTimeout + (IF k < mintAttempts THEN Delay[k] ELSE 0)

LEMMA AttemptTimeIs ==
    ASSUME NEW k \in 1..mintAttempts
    PROVE  attemptTime(k) \in Nat /\ attemptTime(k) >= CallTimeout
  BY IdentityAssumption, DelayIs DEF attemptTime

LEMMA SumExists ==
    ASSUME NEW n \in Nat
    PROVE  \E g : g = [k \in 0..n |-> IF k = 0 THEN 0 ELSE g[k - 1] + CallTimeout + (IF k < mintAttempts THEN Delay[k] ELSE 0)]
  <1> DEFINE G(g, m) == g = [k \in 0..m |-> IF k = 0 THEN 0
                               ELSE g[k - 1] + CallTimeout + (IF k < mintAttempts THEN Delay[k] ELSE 0)]
             Q == {m \in Nat : \E g : G(g, m)}
  <1>1. 0 \in Q
    <2> DEFINE g == [k \in 0..0 |-> 0]
    <2>1. G(g, 0)  OBVIOUS
    <2> HIDE DEF g
    <2> QED  BY <2>1
  <1>2. ASSUME NEW m \in Nat, m \in Q PROVE m + 1 \in Q
    <2>1. PICK g : G(g, m)  BY <1>2
    <2> DEFINE h == [k \in 0..(m + 1) |-> IF k = 0 THEN 0
                       ELSE g[k - 1] + CallTimeout + (IF k < mintAttempts THEN Delay[k] ELSE 0)]
    <2>2. G(h, m + 1)
      <3>1. ASSUME NEW k \in 0..(m + 1), k # 0 PROVE h[k - 1] = g[k - 1]
        <4>1. k - 1 \in 0..m /\ k - 1 \in 0..(m + 1)  BY <3>1
        <4> QED  BY <2>1, <4>1
      <3> QED  BY <3>1
    <2> HIDE DEF h
    <2> QED  BY <2>2
  <1> HIDE DEF Q
  <1>3. n \in Q  BY <1>1, <1>2, InductionOverSet
  <1> QED  BY <1>3 DEF Q

\* What is left of a round when attempt k begins.
remaining(k) == roundTime[mintAttempts] - roundTime[k - 1]

LEMMA RoundTimeIs ==
    /\ roundTime[0] = 0
    /\ \A k \in 1..mintAttempts : roundTime[k] = roundTime[k - 1] + attemptTime(k)
    /\ \A k \in 0..mintAttempts : roundTime[k] \in Nat
  <1> DEFINE r == CHOOSE g : g = [k \in 0..mintAttempts |-> IF k = 0 THEN 0
                    ELSE g[k - 1] + CallTimeout + (IF k < mintAttempts THEN Delay[k] ELSE 0)]
  <1>0. mintAttempts \in Nat /\ CallTimeout \in Nat  BY IdentityAssumption
  <1>1. roundTime = r  BY DEF roundTime
  <1>2. r = [k \in 0..mintAttempts |-> IF k = 0 THEN 0
                    ELSE r[k - 1] + CallTimeout + (IF k < mintAttempts THEN Delay[k] ELSE 0)]
    <2>1. \E g : g = [k \in 0..mintAttempts |-> IF k = 0 THEN 0
                    ELSE g[k - 1] + CallTimeout + (IF k < mintAttempts THEN Delay[k] ELSE 0)]
      BY <1>0, SumExists
    <2> QED  BY <2>1
  <1> HIDE DEF r
  <1>3. r[0] = 0  BY <1>0, <1>2
  <1>4. ASSUME NEW k \in 1..mintAttempts, r[k - 1] \in Nat PROVE r[k] = r[k - 1] + attemptTime(k)
    <2>1. k \in 0..mintAttempts /\ k # 0  BY <1>0
    <2>2. r[k] = r[k - 1] + CallTimeout + (IF k < mintAttempts THEN Delay[k] ELSE 0)  BY <1>2, <2>1
    <2>3. (IF k < mintAttempts THEN Delay[k] ELSE 0) \in Nat  BY DelayIs
    <2> QED  BY <1>0, <1>4, <2>2, <2>3 DEF attemptTime
  <1> DEFINE Q == {m \in Nat : m <= mintAttempts => r[m] \in Nat}
  <1>5. 0 \in Q  BY <1>3
  <1>6. ASSUME NEW m \in Nat, m \in Q PROVE m + 1 \in Q
    <2> SUFFICES ASSUME m + 1 <= mintAttempts PROVE r[m + 1] \in Nat  OBVIOUS
    <2>1. r[m] \in Nat /\ m + 1 \in 1..mintAttempts /\ (m + 1) - 1 = m  BY <1>0, <1>6
    <2>2. r[m + 1] = r[m] + attemptTime(m + 1)  BY <1>4, <2>1
    <2> QED  BY <2>1, <2>2, AttemptTimeIs
  <1> HIDE DEF Q
  <1>7. Nat \subseteq Q  BY <1>5, <1>6, InductionOverSet
  <1>8. \A k \in 0..mintAttempts : r[k] \in Nat  BY <1>0, <1>7 DEF Q
  <1>9. ASSUME NEW k \in 1..mintAttempts PROVE r[k - 1] \in Nat  BY <1>0, <1>8
  <1> QED  BY <1>1, <1>3, <1>4, <1>8, <1>9

\* What is left shrinks by each attempt, down to nothing.
LEMMA RemainingIs ==
    /\ remaining(1) = roundTime[mintAttempts]
    /\ \A k \in 1..mintAttempts : remaining(k) \in Nat /\ remaining(k) >= CallTimeout
    /\ \A k \in 1..mintAttempts : k < mintAttempts =>
          remaining(k) = CallTimeout + Delay[k] + remaining(k + 1)
  <1> DEFINE M == mintAttempts
  <1>0. M \in Nat \ {0} /\ CallTimeout \in Nat  BY IdentityAssumption
  <1>1. roundTime[0] = 0 /\ roundTime[M] \in Nat  BY <1>0, RoundTimeIs
  <1>2. remaining(1) = roundTime[M]  BY <1>0, <1>1 DEF remaining
  <1> DEFINE T(k) == roundTime[k]
             Q == {m \in Nat : m <= M => T(M) >= T(M - m)}
  <1>3. 0 \in Q  BY <1>0, <1>1
  <1>4. ASSUME NEW m \in Nat, m \in Q PROVE m + 1 \in Q
    <2> SUFFICES ASSUME m + 1 <= M PROVE T(M) >= T(M - (m + 1))  OBVIOUS
    <2> DEFINE k == M - m
    <2>1. k \in 1..M /\ k - 1 = M - (m + 1) /\ k - 1 \in 0..M /\ k \in 0..M  BY <1>0
    <2>2. T(M) >= T(k)  BY <1>0, <1>4
    <2> HIDE DEF k
    <2>3. T(k) = T(k - 1) + attemptTime(k) /\ T(k) \in Nat /\ T(k - 1) \in Nat  BY <2>1, RoundTimeIs
    <2>4. T(M) >= T(k - 1)  BY <1>1, <2>1, <2>2, <2>3, AttemptTimeIs
    <2> QED  BY <2>1, <2>4
  <1> HIDE DEF Q
  <1>5. Nat \subseteq Q  BY <1>3, <1>4, InductionOverSet
  <1>6. ASSUME NEW k \in 1..M PROVE T(M) >= T(k)
    <2>1. M - k \in Nat /\ M - k <= M /\ M - (M - k) = k  BY <1>0
    <2>2. M - k \in Q  BY <1>5, <2>1
    <2> QED  BY <2>1, <2>2 DEF Q
  <1>7. ASSUME NEW k \in 1..M
        PROVE  /\ remaining(k) = (T(M) - T(k)) + attemptTime(k)
               /\ remaining(k) \in Nat /\ remaining(k) >= CallTimeout
    <2>1. k \in 0..M /\ k - 1 \in 0..M  BY <1>0
    <2>2. T(k) = T(k - 1) + attemptTime(k) /\ T(k) \in Nat /\ T(k - 1) \in Nat  BY <2>1, RoundTimeIs
    <2> QED  BY <1>0, <1>1, <1>6, <2>2, AttemptTimeIs DEF remaining
  <1>8. ASSUME NEW k \in 1..M, k < M PROVE remaining(k) = CallTimeout + Delay[k] + remaining(k + 1)
    <2>1. k + 1 \in 1..M /\ (k + 1) - 1 = k /\ k \in 0..M  BY <1>0, <1>8
    <2>2. T(k) \in Nat /\ Delay[k] \in Nat  BY <2>1, RoundTimeIs, DelayIs
    <2>3. remaining(k + 1) = T(M) - T(k)  BY <2>1 DEF remaining
    <2>4. attemptTime(k) = CallTimeout + Delay[k]  BY <1>8 DEF attemptTime
    <2> QED  BY <1>0, <1>1, <1>7, <2>2, <2>3, <2>4
  <1> QED  BY <1>2, <1>7, <1>8

-----------------------------------------------------------------------------
\* The inductive invariant.

\* Where the minting goroutine is: a round of the renewal follows a token, and
\* after the last attempt of a round there is no delay.
LoopInv ==
    /\ held => ~first
    /\ loop \in {"off", "error"} => ~held
    /\ loop = "waiting" => attempt = 1
    /\ loop = "backoff" => attempt < mintAttempts

\* While no round has failed, what the goroutine still waits for and what is
\* left of the round fit into what is left of a token that lives long enough,
\* with time for a request to arrive.
inTime(t) == left > t + Latency
TimeInv ==
    held /\ ~missed /\ LongLived(life) =>
        /\ loop = "waiting" => inTime(timer + remaining(1))
        /\ loop = "reading" => inTime(remaining(attempt))
        /\ loop = "asking" => inTime(timer + (remaining(attempt) - CallTimeout))
        /\ loop = "backoff" => inTime(timer + remaining(attempt + 1))

\* The goroutine ends with its context or after the drain.
StopInv ==
    /\ stopCh => main \in {"closing", "returned"}
    /\ main \in {"closing", "returned"} /\ ~overrun => inFlight = {}
    /\ main = "returned" => inFlight = {}
    /\ loop = "over" => stopCh \/ ctxDone \/ main = "returned"

\* A request asks for what its tool declares, and its bearer, read while the
\* renewal was in order, outlives the way to the gateway.
CallInv(c) ==
    /\ c.at = "free" => c.outcome = "none"
    /\ c.at \in {"handler", "sent"} => c.tool \in Tool
    /\ c.at = "sent" => /\ c.asks \in Composition[c.tool]
                        /\ ~c.bearer.unrenewed => c.bearer.left > c.wait
    /\ c.at = "handler" => /\ c.outcome = "401" => c.bearer.unrenewed
                           /\ c.outcome # "403"

SInv == /\ TypeOK /\ LoopInv /\ TimeInv /\ StopInv
        /\ \A c \in Call : CallInv(call[c])

-----------------------------------------------------------------------------
\* The initial states.
LEMMA SInvInit == Init => SInv
  <1> SUFFICES ASSUME Init PROVE SInv  OBVIOUS
  <1> USE DEF Init, NewTokenManagerFromEnv
  <1>1. loop \in {"off", "error", "reading"}  BY DEF BootstrapFromEnv
  <1>2. Free \in CallState
    BY ToolSidecarAssumption DEF Free, CallState, Bearer, NoBearer, Outcomes, Replies
  <1>3. call \in [Call -> CallState]  BY <1>2
  <1>4. IdentityTypeOK
    <2>1. 0 \in 0..MaxRotations /\ 1 \in 1..mintAttempts /\ 0 \in Nat  BY IdentityAssumption
    <2> QED  BY <1>1, <2>1 DEF IdentityTypeOK
  <1>5. TypeOK  BY <1>3, <1>4 DEF TypeOK
  <1>6. LoopInv /\ TimeInv  BY <1>1 DEF LoopInv, TimeInv
  <1>7. StopInv  BY <1>1 DEF StopInv
  <1>8. ASSUME NEW c \in Call PROVE CallInv(call[c])  BY DEF CallInv, Free
  <1> QED  BY <1>5, <1>6, <1>7, <1>8 DEF SInv

LEMMA MaxOfTwo ==
    ASSUME NEW a \in Int, NEW b \in Int
    PROVE  Max({a, b}) = IF a >= b THEN a ELSE b
  <1> DEFINE m == IF a >= b THEN a ELSE b
  <1>1. m \in {a, b} /\ \A y \in {a, b} : m >= y  OBVIOUS
  <1>2. \A x \in {a, b} : (\A y \in {a, b} : x >= y) => x = m  OBVIOUS
  <1> HIDE DEF m
  <1>3. Max({a, b}) = m  BY <1>1, <1>2 DEF Max
  <1> QED  BY <1>3 DEF m

LEMMA DownIs ==
    ASSUME NEW n \in Nat
    PROVE  Down(n) = IF n > 0 THEN n - 1 ELSE 0
  BY MaxOfTwo DEF Down

LEMMA RenewAtIs ==
    ASSUME NEW l \in Nat
    PROVE  renewAt(l) \in Nat /\ (LongLived(l) <=> l > (renewAt(l) + roundTime[mintAttempts]) + Latency)
  <1>1. l \div 2 \in Nat /\ MinRenew \in Nat  BY IdentityAssumption
  <1>2. renewAt(l) \in Nat  BY <1>1, MaxOfTwo DEF renewAt
  <1>3. mintAttempts \in 0..mintAttempts  BY IdentityAssumption
  <1>4. roundTime[mintAttempts] \in Nat  BY <1>3, RoundTimeIs
  <1>5. LongLived(l) <=> l - renewAt(l) > roundTime[mintAttempts] + Latency  BY DEF LongLived, renewAt
  <1> QED  BY <1>2, <1>4, <1>5, ToolSidecarAssumption

\* The token is good for longer than a request takes, wherever the goroutine
\* is in a round that has not failed.
LEMMA GoodForLatency ==
    ASSUME TypeOK, LoopInv, TimeInv, held, ~missed, LongLived(life), loop # "over"
    PROVE  left > Latency
  <1>1. loop \in {"waiting", "reading", "asking", "backoff"}
    BY DEF TypeOK, IdentityTypeOK, LoopInv
  <1>2. /\ timer \in Nat /\ left \in Nat /\ attempt \in 1..mintAttempts
        /\ Latency \in Nat /\ CallTimeout \in Nat /\ mintAttempts \in Nat \ {0}
    BY IdentityAssumption, ToolSidecarAssumption DEF TypeOK, IdentityTypeOK
  <1>3. 1 \in 1..mintAttempts  BY <1>2
  <1>4. /\ remaining(1) \in Nat
        /\ remaining(attempt) \in Nat /\ remaining(attempt) >= CallTimeout
    BY <1>2, <1>3, RemainingIs
  <1>5. CASE loop = "waiting"  BY <1>2, <1>4, <1>5 DEF TimeInv, inTime
  <1>6. CASE loop = "reading"  BY <1>2, <1>4, <1>6 DEF TimeInv, inTime
  <1>7. CASE loop = "asking"  BY <1>2, <1>4, <1>7 DEF TimeInv, inTime
  <1>8. CASE loop = "backoff"
    <2>1. attempt + 1 \in 1..mintAttempts  BY <1>2, <1>8 DEF LoopInv
    <2>2. remaining(attempt + 1) \in Nat  BY <2>1, RemainingIs
    <2> QED  BY <1>2, <1>8, <2>2 DEF TimeInv, inTime
  <1> QED  BY <1>1, <1>5, <1>6, <1>7, <1>8

-----------------------------------------------------------------------------
\* The identity's own steps.

\* A step that leaves the sidecar alone.
LEMMA SidecarKept ==
    ASSUME SInv, UNCHANGED <<sidecarVars, call, ctxDone, stopCh>>,
           IdentityTypeOK', LoopInv', TimeInv',
           loop' = "over" => loop = "over" \/ stopCh \/ ctxDone
    PROVE  SInv'
  <1>1. TypeOK'  BY DEF SInv, TypeOK, sidecarVars
  <1>2. StopInv'
    <2>1. inFlight' = inFlight  BY DEF inFlight
    <2> QED  BY <2>1 DEF SInv, StopInv, sidecarVars
  <1>3. ASSUME NEW c \in Call PROVE CallInv(call[c])'  BY DEF SInv, CallInv
  <1> QED  BY <1>1, <1>2, <1>3 DEF SInv

\* A round that fails: the first one leaves no token, a later one is missed.
LEMMA RoundFailsKeeps ==
    ASSUME SInv, UNCHANGED <<sidecarVars, call>>, roundFails,
           loop \in {"reading", "asking", "backoff"}
    PROVE  SInv'
  <1>1. IdentityTypeOK  BY DEF SInv, TypeOK
  <1>2. renewAt(left) \in Nat  BY <1>1, RenewAtIs DEF IdentityTypeOK
  <1>3. /\ loop' \in {"error", "waiting"} /\ timer' \in Nat /\ attempt' = 1 /\ sent' = 0
        /\ first => loop' = "error"
        /\ ~first => loop' = "waiting" /\ missed'
        /\ missed' \in BOOLEAN
    <2>1. missed' = ~first /\ sent' = 0  BY DEF roundFails
    <2>2. CASE first
      <3>1. loop' = "error" /\ timer' = 0 /\ attempt' = 1  BY <2>2 DEF roundFails
      <3> QED  BY <2>1, <2>2, <3>1
    <2>3. CASE ~first
      <3>1. loop' = "waiting" /\ timer' = renewAt(left) /\ attempt' = 1
        BY <2>3 DEF roundFails, keepTrying, wait
      <3> QED  BY <1>2, <2>1, <2>3, <3>1
    <2> QED  BY <2>2, <2>3
  <1>4. UNCHANGED <<kind, cred, held, left, life, first, ctxDone, stopCh>>
    BY DEF roundFails, credVars, tokenVars
  <1>5. 1 \in 1..mintAttempts /\ 0 \in 0..MaxRotations  BY IdentityAssumption
  <1>6. IdentityTypeOK'  BY <1>1, <1>3, <1>4, <1>5 DEF IdentityTypeOK
  <1>7. held => ~first  BY DEF SInv, LoopInv
  <1>8. LoopInv'  BY <1>3, <1>4, <1>7 DEF LoopInv
  <1>9. TimeInv'  BY <1>3, <1>4, <1>7 DEF TimeInv
  <1> QED  BY <1>3, <1>4, <1>6, <1>8, <1>9, SidecarKept

LEMMA AttemptFailsKeeps ==
    ASSUME SInv, UNCHANGED <<sidecarVars, call>>, attemptFails, loop \in {"reading", "asking"}
    PROVE  SInv'
  <1>1. IdentityTypeOK /\ LoopInv /\ TimeInv  BY DEF SInv, TypeOK
  <1>2. CASE attempt = mintAttempts  BY <1>2, RoundFailsKeeps DEF attemptFails
  <1>3. CASE attempt # mintAttempts
    <2>1. /\ loop' = "backoff" /\ timer' = Delay[attempt] /\ sent' = 0
          /\ UNCHANGED <<kind, cred, held, left, life, first, attempt, missed, ctxDone, stopCh>>
      BY <1>3 DEF attemptFails, credVars, tokenVars
    <2>2. /\ attempt \in 1..mintAttempts /\ attempt < mintAttempts /\ left \in Nat /\ timer \in Nat
          /\ CallTimeout \in Nat /\ Latency \in Nat /\ mintAttempts \in Nat /\ 0 \in 0..MaxRotations
      BY <1>1, <1>3, IdentityAssumption, ToolSidecarAssumption DEF IdentityTypeOK
    <2>3. attempt + 1 \in 1..mintAttempts  BY <2>2
    <2>4. /\ remaining(attempt) = CallTimeout + Delay[attempt] + remaining(attempt + 1)
          /\ remaining(attempt + 1) \in Nat /\ Delay[attempt] \in Nat
      BY <2>2, <2>3, RemainingIs, DelayIs
    <2>5. IdentityTypeOK'  BY <1>1, <2>1, <2>2, <2>4 DEF IdentityTypeOK
    <2>6. LoopInv'  BY <1>1, <2>1, <2>2 DEF LoopInv
    <2>7. ASSUME held, ~missed, LongLived(life) PROVE left > (Delay[attempt] + remaining(attempt + 1)) + Latency
      <3>1. CASE loop = "reading"
        <4>1. left > remaining(attempt) + Latency  BY <1>1, <2>7, <3>1 DEF TimeInv, inTime
        <4> QED  BY <2>2, <2>4, <4>1
      <3>2. CASE loop = "asking"
        <4>1. left > (timer + (remaining(attempt) - CallTimeout)) + Latency
          BY <1>1, <2>7, <3>2 DEF TimeInv, inTime
        <4> QED  BY <2>2, <2>4, <4>1
      <3> QED  BY <3>1, <3>2
    <2>8. TimeInv'
      <3>1. LongLived(life)' <=> LongLived(life)  BY <2>1
      <3>2. remaining(attempt + 1)' = remaining(attempt + 1)  BY <2>1
      <3> QED  BY <2>1, <2>7, <3>1, <3>2 DEF TimeInv, inTime
    <2> QED  BY <2>1, <2>5, <2>6, <2>8, SidecarKept
  <1> QED  BY <1>2, <1>3

\* One step per operation of the token manager.
LEMMA IdentityKeeps ==
    ASSUME SInv, UNCHANGED <<sidecarVars, call>>, IdentityStep
    PROVE  SInv'
  <1>1. IdentityTypeOK /\ LoopInv /\ TimeInv  BY DEF SInv, TypeOK
  <1>2. /\ attempt \in 1..mintAttempts /\ left \in Nat /\ life \in Nat /\ timer \in Nat
        /\ mintAttempts \in Nat \ {0} /\ CallTimeout \in Nat /\ Latency \in Nat
        /\ cred \in 0..MaxRotations /\ MaxRotations \in Nat /\ 1 \in 1..mintAttempts
    BY <1>1, IdentityAssumption, ToolSidecarAssumption DEF IdentityTypeOK
  <1>3. remaining(attempt) \in Nat /\ remaining(1) \in Nat  BY <1>2, RemainingIs
  <1>4. CASE bootstrapToken
    <2>1. /\ loop = "reading" /\ loop' = "asking" /\ timer' = CallTimeout /\ sent' = cred
          /\ UNCHANGED <<kind, cred, held, left, life, first, attempt, missed, ctxDone, stopCh>>
      BY <1>4 DEF bootstrapToken, currentCredential, credVars, tokenVars
    <2>2. IdentityTypeOK'  BY <1>1, <1>2, <2>1 DEF IdentityTypeOK
    <2>3. LoopInv'  BY <1>1, <2>1 DEF LoopInv
    <2>4. TimeInv'
      <3>1. (LongLived(life)' <=> LongLived(life)) /\ remaining(attempt)' = remaining(attempt)  BY <2>1
      <3>2. held /\ ~missed /\ LongLived(life) => left > remaining(attempt) + Latency
        BY <1>1, <2>1 DEF TimeInv, inTime
      <3>3. held /\ ~missed /\ LongLived(life) =>
               left > (CallTimeout + (remaining(attempt) - CallTimeout)) + Latency
        BY <1>2, <1>3, <3>2
      <3> QED  BY <2>1, <3>1, <3>3 DEF TimeInv, inTime
    <2> QED  BY <2>1, <2>2, <2>3, <2>4, SidecarKept
  <1>5. CASE BootstrapUnreadable  BY <1>5, AttemptFailsKeeps DEF BootstrapUnreadable
  <1>6. CASE doMintFails  BY <1>6, AttemptFailsKeeps DEF doMintFails
  <1>7. CASE doMint
    <2>1. PICK ttl \in Lifetimes, late \in 0..(CallTimeout - timer) : left' = Max({ttl - late, 0})
      BY <1>7 DEF doMint
    <2>2. ttl \in Nat /\ late \in Int  BY <1>2, IdentityAssumption
    <2>3. left' \in Nat  BY <2>1, <2>2, MaxOfTwo
    <2>4. /\ life' = left' /\ held' = TRUE /\ missed' = FALSE /\ first' = FALSE /\ sent' = 0
          /\ loop' = "waiting" /\ timer' = renewAt(left') /\ attempt' = 1
          /\ UNCHANGED <<kind, cred, ctxDone, stopCh>>
      BY <1>7 DEF doMint, wait, credVars
    <2>5. renewAt(left') \in Nat  BY <2>3, RenewAtIs
    <2>6. 0 \in 0..MaxRotations  BY <1>2
    <2>7. IdentityTypeOK'  BY <1>1, <1>2, <2>3, <2>4, <2>5, <2>6 DEF IdentityTypeOK
    <2>8. LoopInv'  BY <2>4 DEF LoopInv
    <2>9. TimeInv'
      <3>1. ASSUME LongLived(life)' PROVE inTime(timer + remaining(1))'
        <4>1. LongLived(left')  BY <2>4, <3>1 DEF LongLived
        <4>2. left' > (renewAt(left') + roundTime[mintAttempts]) + Latency  BY <2>3, <4>1, RenewAtIs
        <4> QED  BY <2>4, <4>2, RemainingIs DEF inTime
      <3> QED  BY <2>4, <3>1 DEF TimeInv
    <2> QED  BY <2>4, <2>7, <2>8, <2>9, SidecarKept
  <1>8. CASE nextAttempt
    <2>1. /\ loop = "backoff" /\ timer = 0 /\ loop' = "reading" /\ attempt' = attempt + 1
          /\ UNCHANGED <<kind, cred, held, left, life, first, timer, sent, missed, ctxDone, stopCh>>
      BY <1>8 DEF nextAttempt, credVars, tokenVars
    <2>2. attempt + 1 \in 1..mintAttempts  BY <1>1, <1>2, <2>1 DEF LoopInv
    <2>3. IdentityTypeOK'  BY <1>1, <2>1, <2>2 DEF IdentityTypeOK
    <2>4. LoopInv'  BY <1>1, <2>1 DEF LoopInv
    <2>5. TimeInv'
      <3>1. (LongLived(life)' <=> LongLived(life)) /\ remaining(attempt)' = remaining(attempt + 1)
        BY <2>1 DEF remaining
      <3>2. remaining(attempt + 1) \in Nat  BY <2>2, RemainingIs
      <3>3. held /\ ~missed /\ LongLived(life) => left > (0 + remaining(attempt + 1)) + Latency
        BY <1>1, <2>1 DEF TimeInv, inTime
      <3>4. held /\ ~missed /\ LongLived(life) => left > remaining(attempt + 1) + Latency
        BY <1>2, <3>2, <3>3
      <3> QED  BY <2>1, <3>1, <3>4 DEF TimeInv, inTime
    <2> QED  BY <2>1, <2>3, <2>4, <2>5, SidecarKept
  <1>9. CASE backoffCut  BY <1>9, RoundFailsKeeps DEF backoffCut
  <1>10. CASE renewalDue
    <2>1. /\ loop = "waiting" /\ timer = 0 /\ loop' = "reading"
          /\ UNCHANGED <<kind, cred, held, left, life, first, attempt, timer, sent, missed, ctxDone, stopCh>>
      BY <1>10 DEF renewalDue, credVars, tokenVars
    <2>2. attempt = 1  BY <1>1, <2>1 DEF LoopInv
    <2>3. IdentityTypeOK'  BY <1>1, <2>1 DEF IdentityTypeOK
    <2>4. LoopInv'  BY <1>1, <2>1 DEF LoopInv
    <2>5. TimeInv'
      <3>1. (LongLived(life)' <=> LongLived(life)) /\ remaining(attempt)' = remaining(1)
        BY <2>1, <2>2
      <3>2. held /\ ~missed /\ LongLived(life) => left > (0 + remaining(1)) + Latency
        BY <1>1, <2>1 DEF TimeInv, inTime
      <3>3. held /\ ~missed /\ LongLived(life) => left > remaining(1) + Latency
        BY <1>2, <1>3, <3>2
      <3> QED  BY <2>1, <3>1, <3>3 DEF TimeInv, inTime
    <2> QED  BY <2>1, <2>3, <2>4, <2>5, SidecarKept
  <1>11. CASE renewalEnds
    <2>1. /\ stopCh \/ ctxDone
          /\ UNCHANGED <<kind, cred, held, left, life, first, attempt, sent, missed, ctxDone, stopCh>>
      BY <1>11 DEF renewalEnds, woken, credVars, tokenVars
    <2>2. loop' = "over" /\ timer' = 0  BY <1>11 DEF renewalEnds
    <2>3. 0 \in Nat  OBVIOUS
    <2>4. IdentityTypeOK'  BY <1>1, <2>1, <2>2, <2>3 DEF IdentityTypeOK
    <2>5. LoopInv' /\ TimeInv'  BY <1>1, <2>1, <2>2 DEF LoopInv, TimeInv
    <2> QED  BY <2>1, <2>4, <2>5, SidecarKept
  <1>12. CASE Rotate
    <2>1. /\ cred < MaxRotations /\ cred' = cred + 1
          /\ UNCHANGED <<kind, held, left, life, loop, first, attempt, timer, sent, missed, ctxDone, stopCh>>
      BY <1>12 DEF Rotate, tokenVars, loopVars
    <2>2. cred' \in 0..MaxRotations  BY <1>2, <2>1
    <2>3. IdentityTypeOK'  BY <1>1, <2>1, <2>2 DEF IdentityTypeOK
    <2>4. LoopInv' /\ TimeInv'
      BY <1>1, <2>1 DEF LoopInv, TimeInv, inTime, remaining, LongLived
    <2> QED  BY <2>1, <2>3, <2>4, SidecarKept
  <1> QED
    BY <1>4, <1>5, <1>6, <1>7, <1>8, <1>9, <1>10, <1>11, <1>12 DEF IdentityStep, mint, renewalLoop

-----------------------------------------------------------------------------
\* The sidecar's steps.

\* What a step that leaves the identity alone has to show.
LEMMA IdentityKept ==
    ASSUME SInv, UNCHANGED identityVars, TypeOK', StopInv', \A c \in Call : CallInv(call[c])'
    PROVE  SInv'
  <1>1. UNCHANGED <<held, left, life, loop, first, attempt, timer, missed>>
    BY DEF identityVars, tokenVars, loopVars
  <1>2. LoopInv'  BY <1>1 DEF SInv, LoopInv
  <1>3. TimeInv'  BY <1>1 DEF SInv, TimeInv, inTime, remaining, LongLived
  <1> QED  BY <1>2, <1>3 DEF SInv

\* A step of one call.
LEMMA CallKept ==
    ASSUME SInv, UNCHANGED <<identityVars, sidecarVars>>,
           NEW c \in Call, NEW x \in CallState, call' = [call EXCEPT ![c] = x], CallInv(x),
           x.at \in {"handler", "sent"} => c \in inFlight \/ main = "serving"
    PROVE  SInv'
  <1>1. call \in [Call -> CallState] /\ IdentityTypeOK  BY DEF SInv, TypeOK
  <1>2. UNCHANGED <<kind, cred, held, left, life, loop, first, attempt, timer, sent, missed, ctxDone, stopCh>>
    BY DEF identityVars, credVars, tokenVars, loopVars
  <1>3. UNCHANGED <<main, registry, overrun>>  BY DEF sidecarVars
  <1>4. TypeOK'  BY <1>1, <1>2, <1>3 DEF SInv, TypeOK, IdentityTypeOK
  <1>5. inFlight' \subseteq inFlight \/ main = "serving"
    BY <1>1 DEF inFlight
  <1>6. StopInv'
    <2>1. CASE main = "serving"  BY <1>2, <1>3, <2>1 DEF SInv, StopInv
    <2>2. CASE inFlight' \subseteq inFlight  BY <1>2, <1>3, <2>2 DEF SInv, StopInv
    <2> QED  BY <1>5, <2>1, <2>2
  <1>7. ASSUME NEW d \in Call PROVE CallInv(call[d])'
    <2>1. CallInv(call'[d])  BY <1>1 DEF SInv
    <2> QED  BY <2>1 DEF CallInv
  <1> QED  BY <1>4, <1>6, <1>7, IdentityKept

LEMMA ReplyKeeps ==
    ASSUME SInv, UNCHANGED <<identityVars, sidecarVars>>,
           NEW c \in Call, NEW what \in Replies, call' = reply(c, what)
    PROVE  SInv'
  <1> DEFINE x == [Free EXCEPT !.at = "answered", !.outcome = what]
  <1>1. x \in CallState /\ x.at = "answered"
    <2>1. NoBearer \in Bearer /\ 0 \in 0..Latency  BY ToolSidecarAssumption DEF NoBearer, Bearer
    <2> QED  BY <2>1 DEF CallState, Free
  <1>2. CallInv(x)  BY <1>1 DEF CallInv
  <1>3. call' = [call EXCEPT ![c] = x]  BY DEF reply
  <1> HIDE DEF x
  <1> QED  BY <1>1, <1>2, <1>3, CallKept

\* What a handler hears of its request.
LEMMA HearsKeeps ==
    ASSUME SInv, UNCHANGED <<identityVars, sidecarVars>>,
           NEW c \in Call, NEW outcome \in Outcomes, hears(c, outcome), call[c].at = "sent",
           outcome = "401" => call[c].bearer.unrenewed, outcome # "403"
    PROVE  SInv'
  <1> DEFINE y == call[c]
             b == [y.bearer EXCEPT !.left = 0]
             x == [y EXCEPT !.at = "handler", !.outcome = outcome, !.wait = 0,
                            !.asks = NoTool, !.bearer = b]
  <1>1. call \in [Call -> CallState] /\ y \in CallState  BY DEF SInv, TypeOK
  <1>2. call' = [call EXCEPT ![c] = x]  BY <1>1 DEF hears
  <1>3. /\ x \in CallState /\ x.at = "handler" /\ x.outcome = outcome /\ x.tool = y.tool
        /\ x.bearer.unrenewed = y.bearer.unrenewed
    <2>1. y.bearer \in Bearer  BY <1>1 DEF CallState
    <2>2. b \in Bearer /\ b.unrenewed = y.bearer.unrenewed  BY <2>1 DEF Bearer
    <2>3. 0 \in 0..Latency  BY ToolSidecarAssumption
    <2> HIDE DEF b
    <2> QED  BY <1>1, <2>2, <2>3 DEF CallState
  <1>4. y.tool \in Tool  BY DEF SInv, CallInv
  <1> HIDE DEF x
  <1>5. CallInv(x)  BY <1>3, <1>4 DEF CallInv, y
  <1>6. c \in inFlight  BY DEF inFlight
  <1> QED  BY <1>2, <1>3, <1>5, <1>6, CallKept

\* One step per operation on a call.
LEMMA ServingKeeps ==
    ASSUME SInv, NEW c \in Call, Serving(c)
    PROVE  SInv'
  <1> DEFINE y == call[c]
  <1>1. call \in [Call -> CallState] /\ y \in CallState /\ CallInv(y)  BY DEF SInv, TypeOK
  <1>2. CASE ServeMCP(c)
    <2>1. PICK what \in {"result", "rpcError"} : call' = reply(c, what)  BY <1>2 DEF ServeMCP
    <2>2. what \in Replies  BY DEF Replies
    <2>3. UNCHANGED <<identityVars, sidecarVars>>  BY <1>2 DEF ServeMCP
    <2> QED  BY <2>1, <2>2, <2>3, ReplyKeeps
  <1>3. CASE HandlerReturns(c)
    <2> DEFINE what == IF call[c].outcome \in {"none", "ok"} THEN "result" ELSE "isError"
    <2>1. call' = reply(c, what) /\ UNCHANGED <<identityVars, sidecarVars>>
      BY <1>3 DEF HandlerReturns
    <2>2. what \in Replies  BY DEF Replies
    <2> HIDE DEF what
    <2> QED  BY <2>1, <2>2, ReplyKeeps
  <1>4. CASE Forget(c)
    <2>1. call' = [call EXCEPT ![c] = Free] /\ UNCHANGED <<identityVars, sidecarVars>>
      BY <1>4 DEF Forget
    <2>2. Free \in CallState /\ Free.at = "free"
      BY ToolSidecarAssumption DEF Free, CallState, Bearer, NoBearer, Outcomes, Replies
    <2>3. CallInv(Free)  BY <2>2 DEF CallInv, Free
    <2> QED  BY <2>1, <2>2, <2>3, CallKept
  <1>5. CASE Gateway(c)
    <2>1. y.at = "sent" /\ UNCHANGED <<identityVars, sidecarVars>>  BY <1>5 DEF Gateway
    <2>2. y.asks \in Grant
      <3>1. y.tool \in Tool /\ y.asks \in Composition[y.tool]  BY <1>1, <2>1 DEF CallInv
      <3> QED  BY <3>1 DEF Grant
    <2>3. y.bearer.left \in Nat /\ y.wait \in Nat
      BY <1>1, ToolSidecarAssumption DEF CallState, Bearer
    <2>4. y.bearer.left = 0 => y.bearer.unrenewed  BY <1>1, <2>1, <2>3 DEF CallInv
    <2>5. CASE y.bearer.left = 0
      <3>1. hears(c, "401")  BY <1>5, <2>5 DEF Gateway
      <3>2. "401" \in Outcomes  BY DEF Outcomes
      <3> QED  BY <2>1, <2>4, <2>5, <3>1, <3>2, HearsKeeps
    <2>6. CASE y.bearer.left # 0
      <3>1. PICK outcome \in {"ok", "toolError", "error"} : hears(c, outcome)
        <4>1. hears(c, "ok") \/ \E body \in Bodies : hears(c, ParseToolError(body))
          BY <1>5, <2>2, <2>6 DEF Gateway
        <4> QED  BY <4>1 DEF ParseToolError
      <3>2. outcome \in Outcomes  BY DEF Outcomes
      <3> QED  BY <2>1, <3>1, <3>2, HearsKeeps
    <2> QED  BY <2>5, <2>6
  <1>6. ASSUME NEW t \in Tool, handleToolsCall(c, t) PROVE SInv'
    <2>1. main = "serving" /\ y.at = "free" /\ UNCHANGED <<identityVars, sidecarVars>>
      BY <1>6 DEF handleToolsCall
    <2>2. CASE t \notin registry
      <3>1. call' = reply(c, "rpcError") /\ "rpcError" \in Replies
        BY <1>6, <2>2 DEF handleToolsCall, Replies
      <3> QED  BY <2>1, <3>1, ReplyKeeps
    <2>3. CASE t \in registry
      <3> DEFINE x == [y EXCEPT !.at = "handler", !.tool = t]
      <3>1. call' = [call EXCEPT ![c] = x]  BY <1>1, <1>6, <2>3 DEF handleToolsCall
      <3>2. x \in CallState /\ x.at = "handler" /\ x.tool = t /\ x.outcome = y.outcome
        BY <1>1 DEF CallState
      <3>3. y.outcome = "none"  BY <1>1, <2>1 DEF CallInv
      <3> HIDE DEF x
      <3>4. CallInv(x)  BY <3>2, <3>3 DEF CallInv
      <3> QED  BY <2>1, <3>1, <3>2, <3>4, CallKept
    <2> QED  BY <2>2, <2>3
  <1>7. ASSUME NEW p \in PlatformTool, CallTool(c, p) PROVE SInv'
    <2>1. y.at = "handler" /\ y.outcome = "none" /\ UNCHANGED <<identityVars, sidecarVars>>
      BY <1>7 DEF CallTool
    <2>2. y.tool \in Tool /\ c \in inFlight  BY <1>1, <2>1 DEF CallInv, inFlight
    <2>3. CASE ~checkComposition(y.tool, p)
      <3> DEFINE x == [y EXCEPT !.outcome = "composition"]
      <3>1. call' = [call EXCEPT ![c] = x]  BY <1>1, <1>7, <2>3 DEF CallTool
      <3>2. x \in CallState /\ x.at = "handler" /\ x.tool = y.tool /\ x.outcome = "composition"
        BY <1>1, <2>1 DEF CallState, Outcomes
      <3> HIDE DEF x
      <3>3. CallInv(x)  BY <2>2, <3>2 DEF CallInv
      <3> QED  BY <2>1, <2>2, <3>1, <3>2, <3>3, CallKept
    <2>4. CASE checkComposition(y.tool, p)
      <3> DEFINE x == [y EXCEPT !.at = "sent", !.asks = p, !.bearer = loadToken, !.wait = Latency]
      <3>1. call' = [call EXCEPT ![c] = x]  BY <1>1, <1>7, <2>4 DEF CallTool
      <3>2. loadToken \in Bearer
        <4>1. left \in Nat /\ held \in BOOLEAN  BY DEF SInv, TypeOK, IdentityTypeOK
        <4>2. unrenewed \in BOOLEAN  BY DEF unrenewed
        <4> QED  BY <4>1, <4>2 DEF loadToken, Bearer
      <3>3. /\ x \in CallState /\ x.at = "sent" /\ x.tool = y.tool /\ x.asks = p
            /\ x.bearer = loadToken /\ x.wait = Latency
        <4>1. Latency \in 0..Latency  BY ToolSidecarAssumption
        <4> QED  BY <1>1, <3>2, <4>1 DEF CallState
      <3>4. ~unrenewed => left > Latency
        <4> SUFFICES ASSUME ~unrenewed PROVE left > Latency  OBVIOUS
        <4>1. held /\ ~missed /\ ~ctxDone /\ ~overrun /\ LongLived(life)  BY DEF unrenewed
        <4>2. loop # "over"  BY <2>2, <4>1 DEF SInv, StopInv
        <4> QED  BY <4>1, <4>2, GoodForLatency DEF SInv
      <3>5. loadToken.left = left /\ (loadToken.unrenewed <=> unrenewed)  BY DEF loadToken
      <3>6. p \in Composition[y.tool]  BY <2>4 DEF checkComposition
      <3> HIDE DEF x
      <3>7. CallInv(x)  BY <2>2, <3>3, <3>4, <3>5, <3>6 DEF CallInv
      <3> QED  BY <2>1, <2>2, <3>1, <3>3, <3>7, CallKept
    <2> QED  BY <2>3, <2>4
  <1> QED  BY <1>2, <1>3, <1>4, <1>5, <1>6, <1>7 DEF Serving

\* Construction, registration and shutdown: the calls stay, or all are gone.
LEMMA MainKeeps ==
    ASSUME SInv, Main \/ Stop
    PROVE  SInv'
  <1>1. TypeOK /\ IdentityTypeOK /\ StopInv /\ call \in [Call -> CallState]  BY DEF SInv, TypeOK
  <1>2. Free \in CallState /\ CallInv(Free) /\ Free.at = "free"
    BY ToolSidecarAssumption DEF Free, CallState, Bearer, NoBearer, Outcomes, Replies, CallInv
  <1>3. ASSUME UNCHANGED call PROVE inFlight' = inFlight /\ \A c \in Call : CallInv(call[c])'
    BY <1>3 DEF inFlight, CallInv, SInv
  <1>4. ASSUME call' = [c \in Call |-> Free]
        PROVE  /\ call' \in [Call -> CallState] /\ inFlight' = {}
               /\ \A c \in Call : CallInv(call[c])'
    <2>1. call' \in [Call -> CallState] /\ inFlight' = {}  BY <1>2, <1>4 DEF inFlight
    <2>2. ASSUME NEW c \in Call PROVE CallInv(call[c])'
      <3>1. CallInv(call'[c])  BY <1>2, <1>4
      <3> QED  BY <3>1 DEF CallInv
    <2> QED  BY <2>1, <2>2
  <1>5. CASE NewRuntimeFromEnv
    <2>1. main = "starting" /\ main' \in {"failed", "built"} /\ UNCHANGED <<identityVars, registry, overrun, call>>
      BY <1>5 DEF NewRuntimeFromEnv
    <2>2. UNCHANGED <<loop, ctxDone, stopCh>> /\ IdentityTypeOK'
      BY <1>1, <2>1 DEF identityVars, credVars, tokenVars, loopVars, IdentityTypeOK
    <2>3. TypeOK'  BY <1>1, <2>1, <2>2 DEF TypeOK
    <2>4. StopInv'  BY <1>1, <1>3, <2>1, <2>2 DEF StopInv
    <2> QED  BY <1>3, <2>1, <2>3, <2>4, IdentityKept
  <1>6. CASE ListenAndServe
    <2>1. main = "built" /\ main' = "serving" /\ UNCHANGED <<identityVars, registry, overrun, call>>
      BY <1>6 DEF ListenAndServe
    <2>2. UNCHANGED <<loop, ctxDone, stopCh>> /\ IdentityTypeOK'
      BY <1>1, <2>1 DEF identityVars, credVars, tokenVars, loopVars, IdentityTypeOK
    <2>3. TypeOK'  BY <1>1, <2>1, <2>2 DEF TypeOK
    <2>4. StopInv'  BY <1>1, <1>3, <2>1, <2>2 DEF StopInv
    <2> QED  BY <1>3, <2>1, <2>3, <2>4, IdentityKept
  <1>7. CASE Signal
    <2>1. main = "serving" /\ main' = "shutdown" /\ UNCHANGED <<identityVars, registry, overrun, call>>
      BY <1>7 DEF Signal, ends
    <2>2. UNCHANGED <<loop, ctxDone, stopCh>> /\ IdentityTypeOK'
      BY <1>1, <2>1 DEF identityVars, credVars, tokenVars, loopVars, IdentityTypeOK
    <2>3. TypeOK'  BY <1>1, <2>1, <2>2 DEF TypeOK
    <2>4. StopInv'  BY <1>1, <1>3, <2>1, <2>2 DEF StopInv
    <2> QED  BY <1>3, <2>1, <2>3, <2>4, IdentityKept
  <1>8. ASSUME NEW t \in Tool, Register(t) PROVE SInv'
    <2>1. registry' = registry \cup {t} /\ UNCHANGED <<identityVars, main, overrun, call>>
      BY <1>8 DEF Register
    <2>2. UNCHANGED <<loop, ctxDone, stopCh>> /\ IdentityTypeOK'
      BY <1>1, <2>1 DEF identityVars, credVars, tokenVars, loopVars, IdentityTypeOK
    <2>3. TypeOK'  BY <1>1, <2>1, <2>2 DEF TypeOK
    <2>4. StopInv'  BY <1>1, <1>3, <2>1, <2>2 DEF StopInv
    <2> QED  BY <1>3, <2>1, <2>3, <2>4, IdentityKept
  <1>9. CASE Returned
    <2>1. main' = "returned" /\ call' = [c \in Call |-> Free] /\ UNCHANGED <<identityVars, registry, overrun>>
      BY <1>9 DEF Returned
    <2>2. UNCHANGED <<loop, ctxDone, stopCh>> /\ IdentityTypeOK'
      BY <1>1, <2>1 DEF identityVars, credVars, tokenVars, loopVars, IdentityTypeOK
    <2>3. TypeOK'  BY <1>1, <1>4, <2>1, <2>2 DEF TypeOK
    <2>4. StopInv'  BY <1>1, <1>4, <2>1, <2>2 DEF StopInv
    <2> QED  BY <1>4, <2>1, <2>3, <2>4, IdentityKept
  \* The remaining steps set the context, stopCh or the goroutine as well.
  <1>10. ASSUME UNCHANGED <<kind, cred, held, left, life, first, attempt, sent, missed>>,
                UNCHANGED <<loop, timer>> \/ (loop' = "over" /\ timer' = 0),
                ctxDone' \in BOOLEAN, stopCh' \in BOOLEAN
         PROVE  IdentityTypeOK' /\ LoopInv' /\ TimeInv'
    <2>1. timer' \in Nat /\ loop' \in {loop, "over"}  BY <1>1, <1>10 DEF IdentityTypeOK
    <2>2. IdentityTypeOK'  BY <1>1, <1>10, <2>1 DEF IdentityTypeOK
    <2>3. LoopInv'  BY <1>10, <2>1 DEF SInv, LoopInv
    <2>4. TimeInv'  BY <1>10 DEF SInv, TimeInv, inTime, remaining, LongLived
    <2> QED  BY <2>2, <2>3, <2>4
  <1>11. CASE ContextEnds
    <2>1. /\ ctxDone' = TRUE /\ main' = (IF main = "serving" THEN "shutdown" ELSE main)
          /\ main \in {"starting", "built", "serving", "shutdown"}
          /\ UNCHANGED <<kind, cred, held, left, life, first, attempt, sent, missed, loop, timer>>
          /\ UNCHANGED <<stopCh, registry, overrun, call>>
      BY <1>11 DEF ContextEnds, credVars, tokenVars, loopVars
    <2>2. IdentityTypeOK' /\ LoopInv' /\ TimeInv'  BY <1>1, <1>10, <2>1 DEF IdentityTypeOK
    <2>3. main' \in {"starting", "built", "serving", "shutdown"}  BY <2>1
    <2>4. TypeOK'  BY <1>1, <2>1, <2>2, <2>3 DEF TypeOK
    <2>5. StopInv'  BY <1>1, <1>3, <2>1, <2>3 DEF StopInv
    <2> QED  BY <1>3, <2>1, <2>2, <2>4, <2>5 DEF SInv
  <1>12. CASE Close
    <2>1. /\ inFlight = {} /\ main' = "closing" /\ stopCh' = TRUE
          /\ UNCHANGED <<kind, cred, held, left, life, first, attempt, sent, missed, loop, timer>>
          /\ UNCHANGED <<ctxDone, registry, overrun, call>>
      BY <1>12 DEF Close, drained, credVars, tokenVars, loopVars
    <2>2. IdentityTypeOK' /\ LoopInv' /\ TimeInv'  BY <1>1, <1>10, <2>1 DEF IdentityTypeOK
    <2>3. TypeOK'  BY <1>1, <2>1, <2>2 DEF TypeOK
    <2>4. StopInv'  BY <1>1, <1>3, <2>1 DEF StopInv
    <2> QED  BY <1>3, <2>1, <2>2, <2>3, <2>4 DEF SInv
  <1>13. CASE ShutdownTimesOut
    <2>1. /\ main' = "closing" /\ overrun' = TRUE /\ stopCh' = TRUE
          /\ UNCHANGED <<kind, cred, held, left, life, first, attempt, sent, missed, loop, timer>>
          /\ UNCHANGED <<ctxDone, registry, call>>
      BY <1>13 DEF ShutdownTimesOut, credVars, tokenVars, loopVars
    <2>2. IdentityTypeOK' /\ LoopInv' /\ TimeInv'  BY <1>1, <1>10, <2>1 DEF IdentityTypeOK
    <2>3. TypeOK'  BY <1>1, <2>1, <2>2 DEF TypeOK
    <2>4. StopInv'  BY <1>1, <1>3, <2>1 DEF StopInv
    <2> QED  BY <1>3, <2>1, <2>2, <2>3, <2>4 DEF SInv
  <1>14. CASE ServeFails
    <2>1. /\ main' = "returned" /\ call' = [c \in Call |-> Free] /\ loop' = "over" /\ timer' = 0
          /\ UNCHANGED <<kind, cred, held, left, life, first, attempt, sent, missed>>
          /\ UNCHANGED <<ctxDone, stopCh, registry, overrun>>
      BY <1>14 DEF ServeFails, credVars, tokenVars
    <2>2. IdentityTypeOK' /\ LoopInv' /\ TimeInv'  BY <1>1, <1>10, <2>1 DEF IdentityTypeOK
    <2>3. TypeOK'  BY <1>1, <1>4, <2>1, <2>2 DEF TypeOK
    <2>4. StopInv'  BY <1>1, <1>4, <2>1 DEF StopInv
    <2> QED  BY <1>4, <2>1, <2>2, <2>3, <2>4 DEF SInv
  <1> QED
    BY <1>5, <1>6, <1>7, <1>8, <1>9, <1>11, <1>12, <1>13, <1>14 DEF Main, Stop

\* Time passes for the token, the timer and the requests alike.
LEMMA TickKeeps ==
    ASSUME SInv, Tick
    PROVE  SInv'
  <1>1. IdentityTypeOK /\ LoopInv /\ TimeInv /\ StopInv /\ call \in [Call -> CallState]  BY DEF SInv, TypeOK
  <1>2. /\ left' = Down(left) /\ timer' = Down(timer)
        /\ UNCHANGED <<kind, cred, held, life, loop, first, attempt, sent, missed, ctxDone, stopCh>>
        /\ UNCHANGED <<main, registry, overrun>>
    BY DEF Tick, elapse, credVars, sidecarVars
  <1>3. /\ left \in Nat /\ timer \in Nat /\ left' = (IF left > 0 THEN left - 1 ELSE 0)
        /\ timer' = (IF timer > 0 THEN timer - 1 ELSE 0)
    BY <1>1, <1>2, DownIs DEF IdentityTypeOK
  <1>4. left' \in Nat /\ timer' \in Nat  BY <1>3
  <1>5. IdentityTypeOK'  BY <1>1, <1>2, <1>4 DEF IdentityTypeOK
  <1>6. LoopInv'  BY <1>1, <1>2 DEF LoopInv
  <1>7. TimeInv'
    <2> SUFFICES ASSUME held, ~missed, LongLived(life)
                 PROVE  /\ loop = "waiting" => left' > (timer' + remaining(1)) + Latency
                        /\ loop # "reading"
                        /\ loop = "asking" => left' > (timer' + (remaining(attempt) - CallTimeout)) + Latency
                        /\ loop = "backoff" => left' > (timer' + remaining(attempt + 1)) + Latency
      BY <1>2 DEF TimeInv, inTime, remaining, LongLived
    <2>1. loop # "reading" /\ (loop \in {"asking", "backoff", "waiting"} => timer > 0)
      BY DEF Tick, mayElapse
    <2>2. /\ attempt \in 1..mintAttempts /\ mintAttempts \in Nat \ {0} /\ 1 \in 1..mintAttempts
          /\ CallTimeout \in Nat /\ Latency \in Nat
      BY <1>1, IdentityAssumption, ToolSidecarAssumption DEF IdentityTypeOK
    <2>3. remaining(1) \in Nat /\ remaining(attempt) \in Nat /\ remaining(attempt) >= CallTimeout
      BY <2>2, RemainingIs
    <2>4. CASE loop = "waiting"
      <3>1. left > (timer + remaining(1)) + Latency  BY <1>1, <2>4 DEF TimeInv, inTime
      <3> QED  BY <1>3, <2>1, <2>2, <2>3, <2>4, <3>1
    <2>5. CASE loop = "asking"
      <3>1. left > (timer + (remaining(attempt) - CallTimeout)) + Latency
        BY <1>1, <2>5 DEF TimeInv, inTime
      <3> QED  BY <1>3, <2>1, <2>2, <2>3, <2>5, <3>1
    <2>6. CASE loop = "backoff"
      <3>1. left > (timer + remaining(attempt + 1)) + Latency  BY <1>1, <2>6 DEF TimeInv, inTime
      <3>2. attempt + 1 \in 1..mintAttempts  BY <1>1, <2>2, <2>6 DEF LoopInv
      <3>3. remaining(attempt + 1) \in Nat  BY <3>2, RemainingIs
      <3> QED  BY <1>3, <2>1, <2>2, <2>6, <3>1, <3>3
    <2> QED  BY <2>1, <2>4, <2>5, <2>6
  <1>8. ASSUME NEW c \in Call
        PROVE  /\ call'[c] \in CallState /\ CallInv(call'[c]) /\ call'[c].at = call[c].at
    <2> DEFINE y == call[c]
               b == older(y.bearer)
               w == Down(y.wait)
               x == [y EXCEPT !.bearer = b, !.wait = w]
    <2>1. call'[c] = x  BY DEF Tick
    <2>2. y \in CallState /\ CallInv(y)  BY <1>1 DEF SInv
    <2>3. y.bearer \in Bearer /\ y.bearer.left \in Nat /\ y.wait \in 0..Latency /\ y.wait \in Nat
      BY <2>2, ToolSidecarAssumption DEF CallState, Bearer
    <2>4. /\ Down(y.bearer.left) = (IF y.bearer.left > 0 THEN y.bearer.left - 1 ELSE 0)
          /\ w = (IF y.wait > 0 THEN y.wait - 1 ELSE 0)
      BY <2>3, DownIs
    <2>5. b \in Bearer /\ b.unrenewed = y.bearer.unrenewed /\ b.left = Down(y.bearer.left)
      BY <2>3, <2>4 DEF older, Bearer
    <2>6. w \in 0..Latency  BY <2>3, <2>4, ToolSidecarAssumption
    <2>7. y.at = "sent" => y.wait > 0  BY DEF Tick
    <2> HIDE DEF b, w
    <2>8. /\ x \in CallState /\ x.at = y.at /\ x.tool = y.tool /\ x.asks = y.asks
          /\ x.outcome = y.outcome /\ x.bearer = b /\ x.wait = w
      BY <2>2, <2>5, <2>6 DEF CallState
    <2>9. y.at = "sent" /\ ~y.bearer.unrenewed => b.left > w
      <3>1. y.at = "sent" /\ ~y.bearer.unrenewed => y.bearer.left > y.wait  BY <2>2 DEF CallInv
      <3> QED  BY <2>3, <2>4, <2>5, <2>7, <3>1
    <2> HIDE DEF x, y
    <2>10. CallInv(x)  BY <2>2, <2>5, <2>8, <2>9 DEF CallInv
    <2> QED  BY <2>1, <2>8, <2>10 DEF y
  <1>9. call' \in [Call -> CallState]
    <2>1. call' = [c \in Call |-> call'[c]]  BY DEF Tick
    <2> QED  BY <1>8, <2>1
  <1>10. TypeOK'  BY <1>2, <1>5, <1>9 DEF SInv, TypeOK
  <1>11. inFlight' = inFlight  BY <1>8 DEF inFlight
  <1>12. StopInv'  BY <1>1, <1>2, <1>11 DEF StopInv
  <1>13. ASSUME NEW c \in Call PROVE CallInv(call[c])'  BY <1>8 DEF CallInv
  <1> QED  BY <1>6, <1>7, <1>10, <1>12, <1>13 DEF SInv

LEMMA SInvNext == SInv /\ [Next]_vars => SInv'
  <1> SUFFICES ASSUME SInv, [Next]_vars PROVE SInv'  OBVIOUS
  <1>1. CASE Tick  BY <1>1, TickKeeps
  <1>2. CASE TokenManager
    <2>1. IdentityStep /\ UNCHANGED <<sidecarVars, call>>  BY <1>2 DEF TokenManager, alive
    <2> QED  BY <2>1, IdentityKeeps
  <1>3. CASE Main \/ Stop  BY <1>3, MainKeeps
  <1>4. ASSUME NEW c \in Call, Serving(c) PROVE SInv'  BY <1>4, ServingKeeps
  <1>5. CASE UNCHANGED vars
    <2>1. UNCHANGED <<identityVars, sidecarVars, call, ctxDone, stopCh>>  BY <1>5 DEF vars, identityVars
    <2>2. UNCHANGED <<kind, cred, held, left, life, loop, first, attempt, timer, sent, missed>>
      BY <2>1 DEF identityVars, credVars, tokenVars, loopVars
    <2>3. IdentityTypeOK' /\ LoopInv' /\ TimeInv'
      BY <2>1, <2>2 DEF SInv, TypeOK, IdentityTypeOK, LoopInv, TimeInv, inTime, remaining, LongLived
    <2> QED  BY <2>1, <2>2, <2>3, SidecarKept
  <1> QED  BY <1>1, <1>2, <1>3, <1>4, <1>5 DEF Next

-----------------------------------------------------------------------------
\* Theorems.

\* The identity, the sidecar and its calls stay in order in every reachable
\* state.  [token_manager.go, runtime.go, client.go]
THEOREM SInvHolds == Spec => []SInv
  <1>1. Init => SInv  BY SInvInit
  <1>2. SInv /\ [Next]_vars => SInv'  BY SInvNext
  <1> QED  BY <1>1, <1>2, PTL DEF Spec

\* The state has its types: in particular an attempt is one of the round, and
\* what is left of a token does not fall below nothing.  [token_manager.go
\* mint, renewalLoop]
THEOREM SidecarTypeOK == Spec => []TypeOK
  <1>1. SInv => TypeOK  BY DEF SInv
  <1> QED  BY <1>1, SInvHolds, PTL

\* A handler's request is never refused while the identity is in order, and
\* never for a tool outside the grant, for every lifetime and every shape of
\* the rounds.  [token_manager.go renewalLoop, mint; runtime.go
\* ListenAndServe; composition.go checkComposition]
THEOREM SidecarRefusedMeansUnrenewed == Spec => []RefusedMeansUnrenewed
  <1>1. SInv => RefusedMeansUnrenewed  BY DEF SInv, CallInv, RefusedMeansUnrenewed
  <1> QED  BY <1>1, SInvHolds, PTL
=============================================================================
