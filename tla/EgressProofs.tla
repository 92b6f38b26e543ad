----------------------------- MODULE EgressProofs -----------------------------
(***************************************************************************)
(* What Egress promises for any number of deliveries, attempts, records    *)
(* and restarts, and what the batch book-keeping of EgressBatch computes   *)
(* for every list of items.                                                *)
(***************************************************************************)
EXTENDS Egress, FiniteSetTheorems, SequenceTheorems, TLAPS

-----------------------------------------------------------------------------
\* Induction over the naturals, stated of a set instead of a predicate.

LEMMA LeastNumber ==
    ASSUME NEW T, T \subseteq Nat, T # {}
    PROVE  \E x \in T : \A y \in T : x <= y
  <1> DEFINE R == OpToRel(<, Nat)
  <1>1. IsWellFoundedOn(R, Nat)  BY NatLessThanWellFounded
  <1>2. \A x, y \in Nat : <<y, x>> \in R <=> y < x
    BY DEF OpToRel
  <1> HIDE DEF R
  <1>3. PICK x \in T : \A y \in T : ~(<<y, x>> \in R)  BY <1>1, WFMin
  <1>4. \A y \in T : ~(y < x)  BY <1>2, <1>3
  <1>5. \A y \in T : x <= y  BY <1>4
  <1> QED  BY <1>5

LEMMA SetInduction ==
    ASSUME NEW S, 0 \in S, \A n \in Nat : n \in S => n + 1 \in S
    PROVE  Nat \subseteq S
  <1> SUFFICES ASSUME Nat \ S # {} PROVE FALSE  OBVIOUS
  <1> DEFINE T == Nat \ S
  <1>1. T \subseteq Nat /\ T # {}  OBVIOUS
  <1> HIDE DEF T
  <1>2. PICK x \in T : \A y \in T : x <= y  BY <1>1, LeastNumber
  <1>3. x \in Nat /\ x # 0 /\ x - 1 \in Nat  BY DEF T
  <1>4. x - 1 \in S  BY <1>2, <1>3 DEF T
  <1>5. (x - 1) + 1 \in S  BY <1>3, <1>4
  <1> QED  BY <1>3, <1>5 DEF T

-----------------------------------------------------------------------------
\* distinctIds.

firstOf(items, k) == \A j \in 1..(k - 1) : items[j].id # items[k].id

\* One more item, after the ids kept so far.
keepNext(items, s, k) ==
    IF items[k].id # NoId /\ firstOf(items, k) THEN Append(s, items[k].id) ELSE s

idsUpTo(items, k) == {items[j].id : j \in 1..k} \ {NoId}

\* s lists the ids of the first k items that are not empty, each once.
Kept(S, items, s, k) ==
    /\ s \in Seq(S)
    /\ {s[i] : i \in 1..Len(s)} = idsUpTo(items, k)
    /\ \A i, j \in 1..Len(s) : s[i] = s[j] => i = j

\* The recursion of distinctIds is well defined.
LEMMA KeepExists ==
    ASSUME NEW items, NEW n \in Nat
    PROVE  \E g : g = [k \in 0..n |-> IF k = 0 THEN <<>> ELSE keepNext(items, g[k - 1], k)]
  <1> DEFINE Q == {m \in Nat : \E g : g = [k \in 0..m |-> IF k = 0 THEN <<>> ELSE keepNext(items, g[k - 1], k)]}
  <1>1. 0 \in Q
    <2> DEFINE g == [k \in 0..0 |-> <<>>]
    <2>1. g = [k \in 0..0 |-> IF k = 0 THEN <<>> ELSE keepNext(items, g[k - 1], k)]  OBVIOUS
    <2> HIDE DEF g
    <2> QED  BY <2>1
  <1>2. ASSUME NEW m \in Nat, m \in Q PROVE m + 1 \in Q
    <2>1. PICK g : g = [k \in 0..m |-> IF k = 0 THEN <<>> ELSE keepNext(items, g[k - 1], k)]
      BY <1>2
    <2> DEFINE h == [k \in 0..(m + 1) |-> IF k = m + 1 THEN keepNext(items, g[m], k) ELSE g[k]]
    <2>2. h = [k \in 0..(m + 1) |-> IF k = 0 THEN <<>> ELSE keepNext(items, h[k - 1], k)]
      <3>1. ASSUME NEW k \in 0..(m + 1)
            PROVE  h[k] = IF k = 0 THEN <<>> ELSE keepNext(items, h[k - 1], k)
        BY <2>1
      <3> QED  BY <3>1
    <2> HIDE DEF h
    <2> QED  BY <2>2
  <1> HIDE DEF Q
  <1>3. n \in Q  BY <1>1, <1>2, SetInduction
  <1> QED  BY <1>3 DEF Q

\* For every list of items distinctIds lists the ids that are not empty, each
\* of them once.
LEMMA DistinctIdsAreAsked ==
    ASSUME NEW S, NEW items \in Seq([id : S, ver : 0..Len(History)])
    PROVE  Kept(S, items, distinctIds(items), Len(items))
  <1> DEFINE n == Len(items)
             g == CHOOSE g : g = [k \in 0..n |-> IF k = 0 THEN <<>> ELSE keepNext(items, g[k - 1], k)]
  <1>1. n \in Nat /\ \A k \in 1..n : items[k].id \in S
    <2>1. \A k \in 1..n : items[k] \in [id : S, ver : 0..Len(History)]  BY ElementOfSeq
    <2> QED  BY <2>1
  <1>2. distinctIds(items) = g[n]
    BY DEF distinctIds, keepNext, firstOf
  <1>3. g = [k \in 0..n |-> IF k = 0 THEN <<>> ELSE keepNext(items, g[k - 1], k)]
    BY <1>1, KeepExists
  <1> HIDE DEF g, n
  <1> DEFINE Q == {m \in Nat : m <= n => Kept(S, items, g[m], m)}
  <1>4. 0 \in Q
    <2>1. g[0] = <<>>  BY <1>1, <1>3
    <2>2. <<>> \in Seq(S) /\ Len(<<>>) = 0  OBVIOUS
    <2>3. idsUpTo(items, 0) = {}  BY DEF idsUpTo
    <2>4. Kept(S, items, <<>>, 0)  BY <2>2, <2>3 DEF Kept
    <2> QED  BY <2>1, <2>4
  <1>5. ASSUME NEW m \in Nat, m \in Q PROVE m + 1 \in Q
    <2> SUFFICES ASSUME m + 1 <= n PROVE Kept(S, items, g[m + 1], m + 1)  OBVIOUS
    <2>1. Kept(S, items, g[m], m) /\ m + 1 \in 1..n  BY <1>1, <1>5
    <2>2. g[m + 1] = keepNext(items, g[m], m + 1)  BY <1>1, <1>3, <2>1
    <2> DEFINE id == items[m + 1].id
               s == g[m]
    <2>3. id \in S  BY <1>1, <2>1
    <2>4. idsUpTo(items, m + 1) = idsUpTo(items, m) \cup ({id} \ {NoId})
      <3>1. 1..(m + 1) = 1..m \cup {m + 1}  OBVIOUS
      <3> QED  BY <3>1 DEF idsUpTo
    <2>5. firstOf(items, m + 1) <=> \A j \in 1..m : items[j].id # id
      <3>1. 1..((m + 1) - 1) = 1..m  OBVIOUS
      <3> QED  BY <3>1 DEF firstOf
    <2> HIDE DEF id, s
    <2>6. CASE id # NoId /\ firstOf(items, m + 1)
      <3>1. g[m + 1] = Append(s, id)  BY <2>2, <2>6 DEF keepNext, id, s
      <3>2. id \notin idsUpTo(items, m)  BY <2>5, <2>6 DEF idsUpTo
      <3>3. s \in Seq(S) /\ Kept(S, items, s, m)  BY <2>1 DEF s, Kept
      <3> DEFINE t == Append(s, id)
      <3>4. /\ t \in Seq(S) /\ Len(t) = Len(s) + 1 /\ t[Len(s) + 1] = id
            /\ \A i \in 1..Len(s) : t[i] = s[i]
        BY <2>3, <3>3, AppendProperties
      <3>5. Len(s) \in Nat /\ 1..(Len(s) + 1) = 1..Len(s) \cup {Len(s) + 1}  BY <3>3
      <3> HIDE DEF t
      <3>6. {t[i] : i \in 1..Len(t)} = idsUpTo(items, m + 1)
        <4>1. {t[i] : i \in 1..Len(t)} = {s[i] : i \in 1..Len(s)} \cup {id}
          BY <3>4, <3>5
        <4> QED  BY <2>4, <2>6, <3>3, <4>1 DEF Kept
      <3>7. \A i \in 1..Len(s) : s[i] # id  BY <3>2, <3>3 DEF Kept
      <3>8. ASSUME NEW i \in 1..Len(t), NEW j \in 1..Len(t), t[i] = t[j] PROVE i = j
        <4>1. CASE i \in 1..Len(s) /\ j \in 1..Len(s)
          BY <3>3, <3>4, <3>8, <4>1 DEF Kept
        <4>2. CASE i = Len(s) + 1 \/ j = Len(s) + 1
          BY <3>4, <3>5, <3>7, <3>8, <4>2
        <4> QED  BY <3>4, <3>5, <4>1, <4>2
      <3>9. Kept(S, items, t, m + 1)  BY <3>4, <3>6, <3>8 DEF Kept
      <3> QED  BY <3>1, <3>9 DEF t
    <2>7. CASE ~(id # NoId /\ firstOf(items, m + 1))
      <3>1. g[m + 1] = s  BY <2>2, <2>7 DEF keepNext, id, s
      <3>2. idsUpTo(items, m + 1) = idsUpTo(items, m)
        <4>1. CASE id = NoId  BY <2>4, <4>1
        <4>2. CASE ~firstOf(items, m + 1)
          BY <2>4, <2>5, <4>2 DEF idsUpTo
        <4> QED  BY <2>7, <4>1, <4>2
      <3> QED  BY <2>1, <3>1, <3>2 DEF s, Kept
    <2> QED  BY <2>6, <2>7
  <1> HIDE DEF Q
  <1>6. n \in Q  BY <1>1, <1>4, <1>5, SetInduction
  <1>7. Kept(S, items, g[n], n)  BY <1>1, <1>6 DEF Q
  <1> QED  BY <1>2, <1>7 DEF n

-----------------------------------------------------------------------------
\* Verdicts.

IsBatch(b) == b = [verb |-> b.verb, ids |-> b.ids, results |-> b.results]

\* What record leaves in a batch: a code of the SDK's own on its failures only.
Stable(r) ==
    /\ r \in SyncResult
    /\ (r.outcome = "failed" /\ r.code \in Minted) \/ r.code \in {NoCode, StaleVersion}

\* What a reply may say in a lane.
Final(v, r) ==
    /\ Stable(r) /\ permits(v, r.outcome)
    /\ needsRecordID(r.outcome) => r.ext # ""

LEMMA RecordIs ==
    ASSUME NEW b, IsBatch(b), NEW id, id \in known(b), NEW r
    PROVE  record(b, id, r) =
             [verb |-> b.verb, ids |-> b.ids,
              results |-> [i \in DOMAIN b.results \cup {id} |-> IF i = id THEN r ELSE b.results[i]]]
  BY DEF record, IsBatch

\* A stable verdict is recorded as it is.
LEMMA StableIsKept ==
    ASSUME NEW b, NEW id, NEW r, Stable(r)
    PROVE  Record(b, id, r) = record(b, id, r)
  <1>1. CASE isSDKMintedReplay(r)  BY <1>1 DEF Record
  <1>2. CASE ~isSDKMintedReplay(r)
    <2>1. normalizeReasonCode(r.code) = r.code
      BY <1>2 DEF Stable, isSDKMintedReplay, normalizeReasonCode, Minted, NoCode, StaleVersion, Refused,
         NoVerdict, UnrecognizedOutcome, MissingExternalRecordID, NoReason
    <2>2. [r EXCEPT !.code = normalizeReasonCode(@)] = r
      BY <2>1 DEF Stable, SyncResult
    <2> QED  BY <1>2, <2>2 DEF Record
  <1> QED  BY <1>1, <1>2

\* The failures the SDK mints are final.
LEMMA MintedIsFinal ==
    ASSUME NEW v, NEW code \in Minted
    PROVE  /\ Final(v, normalizedFailure(code))
           /\ normalizedFailure(code).outcome = "failed" /\ normalizedFailure(code).code # StaleVersion
  <1> DEFINE r == normalizedFailure(code)
  <1>1. r = [outcome |-> "failed", ext |-> "", code |-> code]
    BY DEF normalizedFailure, Verdict
  <1>2. code \in Codes /\ code # StaleVersion
    BY DEF Codes, Minted, NoVerdict, UnrecognizedOutcome, MissingExternalRecordID, NoReason, StaleVersion
  <1>3. "failed" \in Outcomes \cup {Misspelt} /\ "" \in {"", "x"}  BY DEF Outcomes
  <1> HIDE DEF r
  <1>4. r \in SyncResult /\ r.outcome = "failed" /\ r.code = code
    BY <1>1, <1>2, <1>3 DEF SyncResult
  <1>5. Final(v, r)
    BY <1>4 DEF Final, Stable, permits, needsRecordID
  <1> QED  BY <1>2, <1>4, <1>5 DEF r

\* What is said of an id is final; it is the verdict that was recorded, or a
\* failure; and a final verdict that was recorded is said as it is.
LEMMA VerdictIsFinal ==
    ASSUME NEW b, NEW id, id \in DOMAIN b.results => Stable(b.results[id]),
           NEW r, r = verdictOf(b, id)
    PROVE  /\ Final(b.verb, r)
           /\ \/ id \in DOMAIN b.results /\ r = b.results[id]
              \/ r.outcome = "failed" /\ r.code # StaleVersion
           /\ id \in DOMAIN b.results /\ Final(b.verb, b.results[id]) => r = b.results[id]
  <1> DEFINE old == b.results[id]
  <1>1. NoVerdict \in Minted /\ UnrecognizedOutcome \in Minted /\ MissingExternalRecordID \in Minted
    BY DEF Minted
  <1>2. CASE id \notin DOMAIN b.results
    BY <1>1, <1>2, MintedIsFinal DEF verdictOf
  <1>3. CASE id \in DOMAIN b.results
    <2>1. Stable(old)  BY <1>3
    <2> HIDE DEF old
    <2>2. r = IF outcomeViolation(b.verb, old.outcome) THEN normalizedFailure(UnrecognizedOutcome)
              ELSE IF needsRecordID(old.outcome) /\ old.ext = "" THEN normalizedFailure(MissingExternalRecordID)
              ELSE old
      BY <1>3 DEF verdictOf, old
    <2>3. CASE outcomeViolation(b.verb, old.outcome)
      <3>1. ~Final(b.verb, old)
        BY <2>3 DEF outcomeViolation, Final, permits, Valid, Outcomes
      <3> QED  BY <1>1, <1>3, <2>2, <2>3, <3>1, MintedIsFinal DEF old
    <2>4. CASE ~outcomeViolation(b.verb, old.outcome) /\ needsRecordID(old.outcome) /\ old.ext = ""
      <3>1. ~Final(b.verb, old)  BY <2>4 DEF Final
      <3> QED  BY <1>1, <1>3, <2>2, <2>4, <3>1, MintedIsFinal DEF old
    <2>5. CASE ~outcomeViolation(b.verb, old.outcome) /\ ~(needsRecordID(old.outcome) /\ old.ext = "")
      <3>1. r = old /\ Final(b.verb, old)
        BY <2>1, <2>2, <2>5 DEF outcomeViolation, Final
      <3> QED  BY <1>3, <3>1 DEF old
    <2> QED  BY <2>3, <2>4, <2>5
  <1> QED  BY <1>2, <1>3

-----------------------------------------------------------------------------
\* A redelivery.

\* The recursion of replayed is well defined.
LEMMA ReplayExists ==
    ASSUME NEW b, NEW results, NEW n \in Nat
    PROVE  \E g : g = [k \in 0..n |-> IF k = 0 THEN b ELSE Record(g[k - 1], results[k].id, results[k].r)]
  <1> DEFINE Q == {m \in Nat : \E g : g = [k \in 0..m |-> IF k = 0 THEN b
                                                        ELSE Record(g[k - 1], results[k].id, results[k].r)]}
  <1>1. 0 \in Q
    <2> DEFINE g == [k \in 0..0 |-> b]
    <2>1. g = [k \in 0..0 |-> IF k = 0 THEN b ELSE Record(g[k - 1], results[k].id, results[k].r)]  OBVIOUS
    <2> HIDE DEF g
    <2> QED  BY <2>1
  <1>2. ASSUME NEW m \in Nat, m \in Q PROVE m + 1 \in Q
    <2>1. PICK g : g = [k \in 0..m |-> IF k = 0 THEN b ELSE Record(g[k - 1], results[k].id, results[k].r)]
      BY <1>2
    <2> DEFINE h == [k \in 0..(m + 1) |-> IF k = m + 1 THEN Record(g[m], results[k].id, results[k].r) ELSE g[k]]
    <2>2. h = [k \in 0..(m + 1) |-> IF k = 0 THEN b ELSE Record(h[k - 1], results[k].id, results[k].r)]
      <3>1. ASSUME NEW k \in 0..(m + 1)
            PROVE  h[k] = IF k = 0 THEN b ELSE Record(h[k - 1], results[k].id, results[k].r)
        BY <2>1
      <3> QED  BY <3>1
    <2> HIDE DEF h
    <2> QED  BY <2>2
  <1> HIDE DEF Q
  <1>3. n \in Q  BY <1>1, <1>2, SetInduction
  <1> QED  BY <1>3 DEF Q

\* After the first k recorded verdicts the batch holds exactly these.
Replayed(b, c, results, k) ==
    /\ c = [verb |-> b.verb, ids |-> b.ids, results |-> c.results]
    /\ DOMAIN c.results = {b.ids[j] : j \in 1..k}
    /\ \A j \in 1..k : c.results[b.ids[j]] = results[j].r

LEMMA ReplayHolds ==
    ASSUME NEW S, NEW b, IsBatch(b), b.ids \in Seq(S),
           \A i, j \in 1..Len(b.ids) : b.ids[i] = b.ids[j] => i = j,
           DOMAIN b.results = {},
           NEW results, Len(results) = Len(b.ids),
           \A k \in 1..Len(b.ids) : results[k].id = b.ids[k] /\ Stable(results[k].r)
    PROVE  Replayed(b, replayed(b, results), results, Len(b.ids))
  <1> DEFINE n == Len(b.ids)
             g == CHOOSE g : g = [k \in 0..n |-> IF k = 0 THEN b
                                               ELSE Record(g[k - 1], results[k].id, results[k].r)]
  <1>1. n \in Nat  OBVIOUS
  <1>2. replayed(b, results) = g[n]
    BY DEF replayed
  <1>3. g = [k \in 0..n |-> IF k = 0 THEN b ELSE Record(g[k - 1], results[k].id, results[k].r)]
    BY <1>1, ReplayExists
  <1>4. \A k \in 1..n : results[k].id = b.ids[k] /\ Stable(results[k].r)
    OBVIOUS
  <1>5. \A i, j \in 1..n : b.ids[i] = b.ids[j] => i = j
    OBVIOUS
  <1> HIDE DEF g
  <1> DEFINE Q == {m \in Nat : m <= n => Replayed(b, g[m], results, m)}
  <1>6. 0 \in Q
    <2>1. g[0] = b  BY <1>1, <1>3
    <2>2. Replayed(b, b, results, 0)  BY DEF Replayed, IsBatch
    <2> QED  BY <2>1, <2>2
  <1>7. ASSUME NEW m \in Nat, m \in Q PROVE m + 1 \in Q
    <2> SUFFICES ASSUME m + 1 <= n PROVE Replayed(b, g[m + 1], results, m + 1)  OBVIOUS
    <2>1. Replayed(b, g[m], results, m)  BY <1>1, <1>7
    <2>2. known(b) = {b.ids[j] : j \in 1..n}  BY DEF known
    <2> HIDE DEF n, Q
    <2>3. m + 1 \in 1..n  BY <1>1
    <2> DEFINE c == g[m]
               id == b.ids[m + 1]
               r == results[m + 1].r
    <2>4. g[m + 1] = Record(c, results[m + 1].id, r)
      <3>1. m + 1 \in 0..n /\ m + 1 # 0 /\ (m + 1) - 1 = m  BY <1>1, <2>3
      <3> QED  BY <1>3, <3>1
    <2>5. Stable(r) /\ results[m + 1].id = id  BY <1>4, <2>3
    <2> HIDE DEF c, id, r
    <2>6. IsBatch(c) /\ c.ids = b.ids /\ c.verb = b.verb
      BY <2>1 DEF Replayed, IsBatch, c
    <2>7. id \in known(c)
      <3>1. known(c) = known(b)  BY <2>6 DEF known
      <3> QED  BY <2>2, <2>3, <3>1 DEF id
    <2>8. g[m + 1] = record(c, id, r)  BY <2>4, <2>5, StableIsKept
    <2> DEFINE new == [i \in DOMAIN c.results \cup {id} |-> IF i = id THEN r ELSE c.results[i]]
    <2>9. g[m + 1] = [verb |-> b.verb, ids |-> b.ids, results |-> new]
      <3>1. record(c, id, r) = [verb |-> c.verb, ids |-> c.ids, results |-> new]
        BY <2>6, <2>7 DEF record, IsBatch
      <3> HIDE DEF new
      <3> QED  BY <2>6, <2>8, <3>1
    <2>10. 1..(m + 1) = 1..m \cup {m + 1}  OBVIOUS
    <2>11. DOMAIN c.results = {b.ids[j] : j \in 1..m} /\ \A j \in 1..m : c.results[b.ids[j]] = results[j].r
      BY <2>1 DEF Replayed, c
    <2>12. DOMAIN new = {b.ids[j] : j \in 1..(m + 1)}
      BY <2>10, <2>11 DEF id
    <2>13. ASSUME NEW j \in 1..(m + 1) PROVE new[b.ids[j]] = results[j].r
      <3>1. CASE j = m + 1  BY <3>1 DEF id, r
      <3>2. CASE j \in 1..m
        <4>1. j \in 1..n /\ j # m + 1  BY <1>1, <2>3, <3>2
        <4>2. b.ids[j] # id  BY <1>5, <2>3, <4>1 DEF id
        <4> QED  BY <2>11, <3>2, <4>2
      <3> QED  BY <2>10, <3>1, <3>2
    <2> HIDE DEF new
    <2> DEFINE e == g[m + 1]
    <2>14. e = [verb |-> b.verb, ids |-> b.ids, results |-> new]  BY <2>9
    <2> HIDE DEF e
    <2>15. Replayed(b, e, results, m + 1)
      BY <2>12, <2>13, <2>14 DEF Replayed
    <2> QED  BY <2>15 DEF e
  <1> HIDE DEF Q, n
  <1>8. n \in Q  BY <1>1, <1>6, <1>7, SetInduction
  <1>9. n <= n  BY <1>1
  <1>10. Replayed(b, g[n], results, n)  BY <1>8, <1>9 DEF Q
  <1> QED  BY <1>2, <1>10 DEF n

\* Recording a reply in a batch without verdicts gives a batch whose reply is
\* the recorded one.
LEMMA ReplayGivesReply ==
    ASSUME NEW S, NEW b, IsBatch(b), b.ids \in Seq(S),
           \A i, j \in 1..Len(b.ids) : b.ids[i] = b.ids[j] => i = j,
           DOMAIN b.results = {},
           NEW results, results = [k \in 1..Len(b.ids) |-> [id |-> b.ids[k], r |-> results[k].r]],
           \A k \in 1..Len(b.ids) : Final(b.verb, results[k].r)
    PROVE  /\ Replayed(b, replayed(b, results), results, Len(b.ids))
           /\ answered(replayed(b, results)) = results
  <1> DEFINE n == Len(b.ids)
             c == replayed(b, results)
  <1>1. n \in Nat /\ Len(results) = n
    <2>1. n \in Nat  OBVIOUS
    <2> QED  BY <2>1
  <1>2. \A k \in 1..n : results[k].id = b.ids[k] /\ Stable(results[k].r) /\ Final(b.verb, results[k].r)
    <2>1. ASSUME NEW k \in 1..n PROVE results[k].id = b.ids[k]
      <3>1. results[k] = [id |-> b.ids[k], r |-> results[k].r]  OBVIOUS
      <3> QED  BY <3>1
    <2>2. \A k \in 1..n : Final(b.verb, results[k].r)  OBVIOUS
    <2> QED  BY <2>1, <2>2 DEF Final
  <1>3. Replayed(b, c, results, n)  BY <1>1, <1>2, ReplayHolds
  <1> HIDE DEF c
  <1>4. c.ids = b.ids /\ c.verb = b.verb  BY <1>3 DEF Replayed
  <1>5. ASSUME NEW k \in 1..n
        PROVE  [id |-> c.ids[k], r |-> verdictOf(c, c.ids[k])] = [id |-> b.ids[k], r |-> results[k].r]
    <2>1. b.ids[k] \in DOMAIN c.results /\ c.results[b.ids[k]] = results[k].r
      BY <1>3 DEF Replayed
    <2>2. Stable(c.results[b.ids[k]]) /\ Final(c.verb, c.results[b.ids[k]])
      BY <1>2, <1>4, <2>1
    <2>3. verdictOf(c, b.ids[k]) = results[k].r  BY <2>1, <2>2, VerdictIsFinal
    <2> QED  BY <1>4, <2>3
  <1>6. answered(c) = [k \in 1..n |-> [id |-> b.ids[k], r |-> results[k].r]]
    BY <1>4, <1>5 DEF answered
  <1> QED  BY <1>3, <1>6 DEF c

\* Every reply made of recorded verdicts is one the platform takes.
LEMMA AnsweredIsAcceptable ==
    ASSUME NEW r \in Request, NEW b, b.ids = distinctIds(r.items), b.verb = verb(r.lane),
           \A i \in DOMAIN b.results : Stable(b.results[i])
    PROVE  acceptable(r, answered(b))
  <1> DEFINE asked == {r.items[k].id : k \in 1..Len(r.items)} \ {NoId}
             n == Len(b.ids)
  <1>1. Kept(Id \cup {NoId}, r.items, b.ids, Len(r.items))
    BY DistinctIdsAreAsked DEF Request, Item
  <1>2. b.ids \in Seq(Id \cup {NoId}) /\ n \in Nat
    BY <1>1 DEF Kept
  <1>3. {b.ids[i] : i \in 1..n} = asked
    BY <1>1 DEF Kept, idsUpTo
  <1>4. \A i, j \in 1..n : b.ids[i] = b.ids[j] => i = j
    BY <1>1 DEF Kept
  <1>5. ASSUME NEW k \in 1..n PROVE b.ids[k] \in asked
    BY <1>3
  <1> HIDE DEF asked
  <1>6. Cardinality(asked) = n
    <2> DEFINE f == [k \in 1..n |-> b.ids[k]]
    <2>1. f \in Bijection(1..n, asked)
      <3>1. f \in [1..n -> asked] /\ \A k \in 1..n : f[k] = b.ids[k]  BY <1>5
      <3> HIDE DEF f
      <3>2. f \in Injection(1..n, asked)  BY <1>4, <3>1 DEF Injection, IsInjective
      <3>3. f \in Surjection(1..n, asked)  BY <1>3, <3>1 DEF Surjection
      <3> QED  BY <3>2, <3>3 DEF Bijection
    <2> QED  BY <1>2, <2>1, FS_CountingElements DEF ExistsBijection
  <1> DEFINE results == answered(b)
  <1>7. results = [k \in 1..n |-> [id |-> b.ids[k], r |-> verdictOf(b, b.ids[k])]]
    BY DEF answered
  <1>8. Len(results) = n  BY <1>2, <1>7
  <1>9. \A k \in 1..n : results[k].id = b.ids[k] /\ results[k].r = verdictOf(b, b.ids[k])
    BY <1>7
  <1> HIDE DEF results
  <1>10. {results[k].id : k \in 1..Len(results)} = asked
    BY <1>3, <1>8, <1>9
  <1>11. ASSUME NEW k \in 1..Len(results)
         PROVE  /\ permits(verb(r.lane), results[k].r.outcome)
                /\ results[k].r.outcome \in {"created", "updated"} => results[k].r.ext # ""
    <2>1. Final(b.verb, verdictOf(b, b.ids[k]))  BY VerdictIsFinal
    <2> QED  BY <1>8, <1>9, <2>1 DEF Final, needsRecordID
  <1> QED  BY <1>6, <1>8, <1>10, <1>11 DEF acceptable, asked, results

\* What it reports as done is what was recorded.
LEMMA AnsweredIsSaid ==
    ASSUME NEW b, b.ids \in Seq(Id \cup {NoId}), \A i \in DOMAIN b.results : Stable(b.results[i]),
           NEW k \in 1..Len(answered(b))
    PROVE  LET e == answered(b)[k]
           IN  /\ k \in 1..Len(b.ids) /\ e.id = b.ids[k] /\ Final(b.verb, e.r)
               /\ \/ e.id \in DOMAIN b.results /\ e.r = b.results[e.id]
                  \/ e.r.outcome = "failed" /\ e.r.code # StaleVersion
  <1>1. answered(b) = [j \in 1..Len(b.ids) |-> [id |-> b.ids[j], r |-> verdictOf(b, b.ids[j])]]
    BY DEF answered
  <1>2. k \in 1..Len(b.ids)
    <2>1. Len(b.ids) \in Nat  OBVIOUS
    <2> QED  BY <1>1, <2>1
  <1>3. answered(b)[k].id = b.ids[k] /\ answered(b)[k].r = verdictOf(b, b.ids[k])
    BY <1>1, <1>2
  <1> QED  BY <1>2, <1>3, VerdictIsFinal

-----------------------------------------------------------------------------
\* Versions.

Stamp == [at : Nat, no : Nat \ {0}]

LEMMA Milliseconds ==
    ASSUME NEW a \in Nat
    PROVE  ms(a) \in Nat /\ ms(2 * ms(a)) = ms(a) /\ 2 * ms(a) \in Nat
  BY DEF ms

\* A stamp read back with fewer digits orders like the one that was written.
LEMMA TruncatedIs ==
    ASSUME NEW v \in Stamp
    PROVE  /\ Truncated(v) \in Stamp /\ v # NoStamp /\ Truncated(v) # NoStamp
           /\ ms(Truncated(v).at) = ms(v.at) /\ Truncated(v).no = v.no
  <1>1. v.at \in Nat /\ v.no \in Nat /\ v.no # 0  BY DEF Stamp
  <1>2. v # NoStamp  BY <1>1 DEF NoStamp
  <1> DEFINE w == [v EXCEPT !.at = 2 * ms(v.at)]
  <1>3. Truncated(v) = w  BY <1>2 DEF Truncated
  <1>4. w \in Stamp /\ w.at = 2 * ms(v.at) /\ w.no = v.no  BY <1>1, Milliseconds DEF Stamp
  <1> HIDE DEF w
  <1>5. w # NoStamp  BY <1>1, <1>4 DEF NoStamp
  <1> QED  BY <1>1, <1>2, <1>3, <1>4, <1>5, Milliseconds

Versions == 1..Len(History)

\* The order of version.go is that of the history.
LEMMA LaterIsNewer ==
    \A j, k \in Versions : j < k => Older(History[j], History[k])
  BY HistoryAssumption DEF Versions, Older

\* A stored stamp has one place in the history, and a write that is not stale
\* is not before it.
LEMMA PositionIs ==
    ASSUME NEW k \in Versions
    PROVE  position(Truncated(History[k])) = k
  <1>1. \A j \in Versions : History[j] \in Stamp
    BY HistoryAssumption, ElementOfSeq DEF Versions, Stamp
  <1>2. ASSUME NEW j \in Versions, Truncated(History[j]) = Truncated(History[k]) PROVE j = k
    <2>1. ms(History[j].at) = ms(History[k].at) /\ History[j].no = History[k].no
      BY <1>1, <1>2, TruncatedIs
    <2>2. /\ History[j].at \in Nat /\ History[k].at \in Nat /\ History[j].no \in Nat /\ History[k].no \in Nat
          /\ ms(History[j].at) \in Nat /\ ms(History[k].at) \in Nat
      BY <1>1, Milliseconds DEF Stamp
    <2>3. ~Older(History[j], History[k]) /\ ~Older(History[k], History[j])
      BY <2>1, <2>2 DEF Older
    <2>4. j \in Int /\ k \in Int  BY DEF Versions
    <2> QED  BY <2>3, <2>4, LaterIsNewer
  <1> QED  BY <1>2 DEF position, Versions

LEMMA OlderIsBefore ==
    ASSUME NEW j \in Versions, NEW k \in Versions
    PROVE  Older(History[j], Truncated(History[k])) <=> j < k
  <1>1. History[j] \in Stamp /\ History[k] \in Stamp
    BY HistoryAssumption, ElementOfSeq DEF Versions, Stamp
  <1>2. Older(History[j], Truncated(History[k])) <=> Older(History[j], History[k])
    BY <1>1, TruncatedIs DEF Older
  <1>3. /\ History[j].at \in Nat /\ History[k].at \in Nat /\ History[j].no \in Nat /\ History[k].no \in Nat
        /\ ms(History[j].at) \in Nat /\ ms(History[k].at) \in Nat
    BY <1>1, Milliseconds DEF Stamp
  <1>4. j \in Int /\ k \in Int  BY DEF Versions
  <1>5. j < k => Older(History[j], History[k])
    BY LaterIsNewer
  <1>6. k < j => Older(History[k], History[j])
    BY LaterIsNewer
  <1>7. Older(History[j], History[k]) => ~Older(History[k], History[j]) /\ j # k
    BY <1>3 DEF Older
  <1> QED  BY <1>2, <1>4, <1>5, <1>6, <1>7
-----------------------------------------------------------------------------
\* The inductive invariant.  Its parts are about one request r, the external
\* system ext and the piece of state that stands beside them, so that a step
\* which changes the external system carries all of them in the same way.

asks(r, i) == \E k \in 1..Len(r.items) : r.items[k].id = i
stampIn(r, i) ==
    LET k == CHOOSE k \in 1..Len(r.items) : r.items[k].id = i
    IN  stampOf(r.items[k].ver)

StoredStamps == {NoStamp} \cup {Truncated(History[k]) : k \in Versions}
External == [Id -> [live : BOOLEAN, stamp : StoredStamps, bare : BOOLEAN]]

\* The external system holds what the request carries for i, or a later version,
\* unless a row without a stamp came in between.
Held(r, ext, i) ==
    r.lane = "sync" /\ stampIn(r, i) # NoStamp /\ ~ext[i].bare =>
        /\ ext[i].stamp # NoStamp
        /\ position(ext[i].stamp) >= position(Truncated(stampIn(r, i)))

\* A verdict that says so.
Claims(e) ==
    \/ e.outcome \in {"created", "updated"} /\ e.ext # ""
    \/ e.code = StaleVersion

HeldIfClaimed(r, ext, i, e) == Claims(e) => i \in Id /\ asks(r, i) /\ Held(r, ext, i)

BatchOK(r, ext, b) ==
    /\ b = [verb |-> verb(r.lane), ids |-> distinctIds(r.items), results |-> b.results]
    /\ \A i \in DOMAIN b.results : Stable(b.results[i]) /\ HeldIfClaimed(r, ext, i, b.results[i])

\* t: the delivery's body could not be read once.
CallOK(r, ext, t, c) ==
    /\ c = [at |-> c.at, status |-> c.status, batch |-> c.batch, answer |-> c.answer]
    /\ c.at \in {"unsent", "component", "answered", "abandoned", "over"}
    /\ c.status \in Permanent \cup Retriable \cup {"none", "200"}
    /\ c.batch = NoBatch \/ BatchOK(r, ext, c.batch)
    /\ c.at \in {"component", "abandoned"} => BatchOK(r, ext, c.batch)
    /\ c.at = "answered" /\ c.status = "200" =>
          \/ r.items = <<>> /\ c.answer = <<>>
          \/ BatchOK(r, ext, c.batch) /\ c.answer = answered(c.batch)
    /\ c.at = "answered" /\ c.status \in Permanent => ~r.wellFormed \/ ~laneImplemented(r.lane) \/ t

ReplyOK(r, ext, m) ==
    LET ids == distinctIds(r.items)
    IN  /\ m = [k \in 1..Len(ids) |-> [id |-> ids[k], r |-> m[k].r]]
        /\ \A k \in 1..Len(ids) :
              Final(verb(r.lane), m[k].r) /\ HeldIfClaimed(r, ext, ids[k], m[k].r)

RememberedOK(r, ext, m) == m = NoneYet \/ ReplyOK(r, ext, m)

AcceptedOK(r, ext, a) ==
    \A k \in 1..Len(a) : /\ HeldIfClaimed(r, ext, a[k].id, a[k].r)
                         /\ a[k].r.outcome \in {"created", "updated"} => a[k].r.ext # ""

CallsInv(q, c, ext, T) ==
    /\ c = [d \in Delivery |-> c[d]]
    /\ \A d \in Delivery : /\ c[d] = [n \in Attempt(d) |-> c[d][n]]
                           /\ \A n \in Attempt(d) : CallOK(q[d], ext, d \in T, c[d][n])

RememberedInv(q, m, ext) ==
    m = [d \in Delivery |-> m[d]] /\ \A d \in Delivery : RememberedOK(q[d], ext, m[d])

AcceptedInv(q, a, ext) ==
    a = [d \in Delivery |-> a[d]] /\ \A d \in Delivery : AcceptedOK(q[d], ext, a[d])

ServerInv ==
    /\ main \in {"connecting", "running", "shutdown", "returned"}
    /\ connectPending \in BOOLEAN
    /\ retry \in {"off", "waiting"}
    /\ starts \in 1..MaxStarts

EInv ==
    /\ ServerInv
    /\ slips \in 0..MaxSlips
    /\ req \in Requests
    /\ settled \in [Delivery -> {"open", "done", "dead"}]
    /\ external \in External
    /\ torn \subseteq Delivery
    /\ CallsInv(req, call, external, torn)
    /\ RememberedInv(req, remembered, external)
    /\ AcceptedInv(req, accepted, external)
    /\ DeadIsUnservable
-----------------------------------------------------------------------------
\* What the parts say of each other.

LEMMA RequestIds ==
    ASSUME NEW r \in Request, NEW ids, ids = distinctIds(r.items)
    PROVE  /\ ids \in Seq(Id \cup {NoId}) /\ Len(ids) \in Nat
           /\ \A i, j \in 1..Len(ids) : ids[i] = ids[j] => i = j
           /\ \A k \in 1..Len(ids) : ids[k] \in Id /\ asks(r, ids[k])
  <1>1. r.items \in Seq([id : Id \cup {NoId}, ver : 0..Len(History)])
    BY DEF Request, Item
  <1>2. Kept(Id \cup {NoId}, r.items, ids, Len(r.items))
    BY <1>1, DistinctIdsAreAsked
  <1>3. ids \in Seq(Id \cup {NoId}) /\ \A i, j \in 1..Len(ids) : ids[i] = ids[j] => i = j
    BY <1>2 DEF Kept
  <1>4. Len(ids) \in Nat  BY <1>3
  <1>5. ASSUME NEW k \in 1..Len(ids) PROVE ids[k] \in Id /\ asks(r, ids[k])
    <2>1. ids[k] \in idsUpTo(r.items, Len(r.items))  BY <1>2 DEF Kept
    <2>2. ids[k] # NoId /\ asks(r, ids[k])  BY <2>1 DEF idsUpTo, asks
    <2>3. ids[k] \in Id \cup {NoId}  BY <1>3, ElementOfSeq
    <2> QED  BY <2>2, <2>3
  <1> QED  BY <1>3, <1>4, <1>5

\* A reply made from a batch in order is one that can be recorded.
LEMMA AnsweredIsReply ==
    ASSUME NEW r \in Request, NEW ext, NEW b, BatchOK(r, ext, b)
    PROVE  ReplyOK(r, ext, answered(b))
  <1> DEFINE ids == distinctIds(r.items)
             m == answered(b)
  <1>1. b.ids = ids /\ b.verb = verb(r.lane)  BY DEF BatchOK
  <1>2. m = [k \in 1..Len(ids) |-> [id |-> ids[k], r |-> verdictOf(b, ids[k])]]
    BY <1>1 DEF answered
  <1>3. \A k \in 1..Len(ids) : m[k].r = verdictOf(b, ids[k])  BY <1>2
  <1> HIDE DEF ids, m
  <1>4. m = [k \in 1..Len(ids) |-> [id |-> ids[k], r |-> m[k].r]]  BY <1>2, <1>3
  <1>5. ASSUME NEW k \in 1..Len(ids)
        PROVE  Final(verb(r.lane), m[k].r) /\ HeldIfClaimed(r, ext, ids[k], m[k].r)
    <2> DEFINE e == m[k].r
    <2>1. ids[k] \in DOMAIN b.results => Stable(b.results[ids[k]]) /\ HeldIfClaimed(r, ext, ids[k], b.results[ids[k]])
      BY DEF BatchOK
    <2>2. e = verdictOf(b, ids[k])  BY <1>3
    <2> HIDE DEF e
    <2>3. /\ Final(verb(r.lane), e)
          /\ \/ ids[k] \in DOMAIN b.results /\ e = b.results[ids[k]]
             \/ e.outcome = "failed" /\ e.code # StaleVersion
      BY <1>1, <2>1, <2>2, VerdictIsFinal
    <2>4. HeldIfClaimed(r, ext, ids[k], e)
      <3>1. CASE ids[k] \in DOMAIN b.results /\ e = b.results[ids[k]]  BY <2>1, <3>1
      <3>2. CASE e.outcome = "failed" /\ e.code # StaleVersion  BY <3>2 DEF HeldIfClaimed, Claims
      <3> QED  BY <2>3, <3>1, <3>2
    <2> QED  BY <2>3, <2>4 DEF e
  <1> QED  BY <1>4, <1>5 DEF ReplyOK, ids, m

LEMMA ReplyIsHeld ==
    ASSUME NEW r \in Request, NEW ext, NEW m, ReplyOK(r, ext, m)
    PROVE  AcceptedOK(r, ext, m)
  <1> DEFINE ids == distinctIds(r.items)
  <1>1. Len(ids) \in Nat  BY RequestIds
  <1>2. m = [k \in 1..Len(ids) |-> [id |-> ids[k], r |-> m[k].r]]  BY DEF ReplyOK
  <1>3. \A k \in 1..Len(ids) : HeldIfClaimed(r, ext, ids[k], m[k].r) /\ Final(verb(r.lane), m[k].r)  BY DEF ReplyOK
  <1> HIDE DEF ids
  <1>4. Len(m) = Len(ids)  BY <1>1, <1>2
  <1>5. \A k \in 1..Len(ids) : m[k].id = ids[k]  BY <1>2
  <1> QED  BY <1>3, <1>4, <1>5 DEF AcceptedOK, Final, needsRecordID

\* Recording a reply in a batch without verdicts.
LEMMA ReplayIsReply ==
    ASSUME NEW r \in Request, NEW ext, NEW b, BatchOK(r, ext, b), DOMAIN b.results = {},
           NEW m, ReplyOK(r, ext, m)
    PROVE  BatchOK(r, ext, replayed(b, m)) /\ answered(replayed(b, m)) = m
  <1> DEFINE n == Len(b.ids)
             c == replayed(b, m)
  <1>1. b.ids = distinctIds(r.items) /\ b.verb = verb(r.lane) /\ IsBatch(b)
    BY DEF BatchOK, IsBatch
  <1>2. b.ids \in Seq(Id \cup {NoId}) /\ \A i, j \in 1..n : b.ids[i] = b.ids[j] => i = j
    BY <1>1, RequestIds
  <1>3. /\ m = [k \in 1..n |-> [id |-> b.ids[k], r |-> m[k].r]]
        /\ \A k \in 1..n : Final(b.verb, m[k].r) /\ HeldIfClaimed(r, ext, b.ids[k], m[k].r)
    BY <1>1 DEF ReplyOK
  <1>4. Replayed(b, c, m, n) /\ answered(c) = m
    BY <1>1, <1>2, <1>3, ReplayGivesReply
  <1> HIDE DEF c
  <1>5. c = [verb |-> verb(r.lane), ids |-> distinctIds(r.items), results |-> c.results]
    BY <1>1, <1>4 DEF Replayed
  <1>6. ASSUME NEW i \in DOMAIN c.results
        PROVE  Stable(c.results[i]) /\ HeldIfClaimed(r, ext, i, c.results[i])
    <2>1. PICK k \in 1..n : i = b.ids[k]  BY <1>4 DEF Replayed
    <2>2. c.results[i] = m[k].r  BY <1>4, <2>1 DEF Replayed
    <2> QED  BY <1>3, <2>1, <2>2 DEF Final
  <1> QED  BY <1>4, <1>5, <1>6 DEF BatchOK, c

\* A verdict recorded for any id.
LEMMA RecordedIsOK ==
    ASSUME NEW r \in Request, NEW ext, NEW b, BatchOK(r, ext, b), NEW id, NEW e, Stable(e),
           HeldIfClaimed(r, ext, id, e)
    PROVE  BatchOK(r, ext, record(b, id, e))
  <1>1. CASE id \notin known(b)  BY <1>1 DEF record
  <1>2. CASE id \in known(b)
    <2> DEFINE new == [i \in DOMAIN b.results \cup {id} |-> IF i = id THEN e ELSE b.results[i]]
               c == record(b, id, e)
    <2>1. c = [verb |-> verb(r.lane), ids |-> distinctIds(r.items), results |-> new]
      <3>1. IsBatch(b) /\ b.ids = distinctIds(r.items) /\ b.verb = verb(r.lane)  BY DEF BatchOK, IsBatch
      <3> QED  BY <1>2, <3>1 DEF record, IsBatch
    <2>2. ASSUME NEW i \in DOMAIN new PROVE Stable(new[i]) /\ HeldIfClaimed(r, ext, i, new[i])
      <3>1. CASE i = id  BY <3>1
      <3>2. CASE i # id /\ i \in DOMAIN b.results  BY <3>2 DEF BatchOK
      <3> QED  BY <3>1, <3>2
    <2> HIDE DEF new, c
    <2>3. BatchOK(r, ext, c)  BY <2>1, <2>2 DEF BatchOK
    <2> QED  BY <2>3 DEF c
  <1> QED  BY <1>1, <1>2
-----------------------------------------------------------------------------
\* The external system.

LEMMA RequestTyped ==
    ASSUME NEW q \in Requests, NEW d \in Delivery
    PROVE  q[d] \in Request
  BY EgressAssumption

LEMMA AskedVersion ==
    ASSUME NEW r \in Request, NEW i, asks(r, i)
    PROVE  \E k \in 1..Len(r.items) :
              /\ r.items[k].id = i /\ stampIn(r, i) = stampOf(r.items[k].ver)
              /\ \/ r.items[k].ver = 0 /\ stampIn(r, i) = NoStamp
                 \/ r.items[k].ver \in Versions /\ stampIn(r, i) = History[r.items[k].ver]
  <1> DEFINE k == CHOOSE k \in 1..Len(r.items) : r.items[k].id = i
  <1>1. k \in 1..Len(r.items) /\ r.items[k].id = i  BY DEF asks
  <1>2. stampIn(r, i) = stampOf(r.items[k].ver)  BY DEF stampIn
  <1> HIDE DEF k
  <1>3. r.items \in Seq(Item)  BY DEF Request
  <1>4. r.items[k] \in Item  BY <1>1, <1>3, ElementOfSeq
  <1>5. r.items[k].ver \in 0..Len(History)  BY <1>4 DEF Item
  <1>6. Len(History) \in Nat  BY HistoryAssumption
  <1>7. \A x \in 0..Len(History) : x = 0 \/ (x \in Versions /\ x # 0)
    BY <1>6 DEF Versions
  <1> QED  BY <1>1, <1>2, <1>5, <1>7 DEF stampOf

LEMMA VersionIsStamp ==
    ASSUME NEW k \in Versions
    PROVE  History[k] \in Stamp /\ History[k] # NoStamp /\ Truncated(History[k]) # NoStamp /\ k \in Nat
  <1>1. History[k] \in Stamp
    BY HistoryAssumption, ElementOfSeq DEF Versions, Stamp
  <1> QED  BY <1>1, TruncatedIs DEF Versions

LEMMA StaleIsHeld ==
    ASSUME NEW r \in Request, NEW ext \in External, NEW i \in Id, asks(r, i),
           IsStale(stampIn(r, i), ext[i].stamp)
    PROVE  Held(r, ext, i)
  <1>1. stampIn(r, i) # NoStamp /\ ext[i].stamp # NoStamp /\ Older(stampIn(r, i), ext[i].stamp)
    BY DEF IsStale
  <1>2. PICK j \in Versions : stampIn(r, i) = History[j]  BY <1>1, AskedVersion
  <1>3. ext[i].stamp \in StoredStamps  BY DEF External
  <1>4. PICK k \in Versions : ext[i].stamp = Truncated(History[k])  BY <1>1, <1>3 DEF StoredStamps
  <1>5. j < k /\ j \in Nat /\ k \in Nat  BY <1>1, <1>2, <1>4, OlderIsBefore, VersionIsStamp
  <1>6. position(ext[i].stamp) = k /\ position(Truncated(stampIn(r, i))) = j
    BY <1>2, <1>4, PositionIs
  <1> QED  BY <1>1, <1>5, <1>6 DEF Held

\* What one write leaves true: nothing the platform was told is undone.
Carries(r, ext, ext2) ==
    \A i \in Id : asks(r, i) /\ Held(r, ext, i) => Held(r, ext2, i)

\* A row without a stamp replaces, or once replaced, a stamped record.
uncovered(rec, v) == rec.bare \/ (v = NoStamp /\ rec.stamp # NoStamp)

LEMMA WriteKeepsHeld ==
    ASSUME NEW q \in Requests, NEW ext \in External, NEW e \in Delivery, NEW i \in Id, asks(q[e], i),
           ~IsStale(stampIn(q[e], i), ext[i].stamp),
           NEW live \in BOOLEAN,
           NEW ext2, ext2 = [ext EXCEPT ![i] = [live |-> live, stamp |-> Truncated(stampIn(q[e], i)),
                                                bare |-> uncovered(ext[i], stampIn(q[e], i))]]
    PROVE  /\ ext2 \in External
           /\ Held(q[e], ext2, i)
           /\ \A d \in Delivery : Carries(q[d], ext, ext2)
           /\ \A j \in Id : ext[j].stamp # NoStamp /\ ext2[j].stamp # NoStamp =>
                                position(ext2[j].stamp) >= position(ext[j].stamp)
  <1> DEFINE v == stampIn(q[e], i)
             s == ext[i].stamp
  <1>1. q[e] \in Request  BY RequestTyped
  <1>2. PICK k \in 1..Len(q[e].items) :
            /\ q[e].items[k].id = i
            /\ \/ q[e].items[k].ver = 0 /\ v = NoStamp
               \/ q[e].items[k].ver \in Versions /\ v = History[q[e].items[k].ver]
    BY <1>1, AskedVersion
  <1>4. s \in StoredStamps /\ ~IsStale(v, s)  BY DEF External
  <1>5. /\ ext2[i].stamp = Truncated(v) /\ ext2[i].bare = uncovered(ext[i], v)
        /\ \A j \in Id : j # i => ext2[j] = ext[j]
    <2>1. ext2[i] = [live |-> live, stamp |-> Truncated(v), bare |-> uncovered(ext[i], v)]  BY DEF External
    <2> QED  BY <2>1 DEF External
  <1>6. v = NoStamp \/ \E p \in Versions : v = History[p]  BY <1>2
  <1>7. Truncated(v) \in StoredStamps
    <2>1. CASE v = NoStamp  BY <2>1 DEF Truncated, StoredStamps
    <2>2. CASE \E p \in Versions : v = History[p]  BY <2>2 DEF StoredStamps
    <2> QED  BY <1>6, <2>1, <2>2
  <1>8. ext2 \in External
    <2> HIDE DEF v
    <2>1. uncovered(ext[i], v) \in BOOLEAN  BY DEF External, uncovered
    <2> QED  BY <1>7, <2>1 DEF External, v
  <1> HIDE DEF v, s
  <1>9. ASSUME v # NoStamp
        PROVE  /\ Truncated(v) # NoStamp /\ position(Truncated(v)) \in Nat
               /\ s # NoStamp => position(s) \in Nat /\ position(Truncated(v)) >= position(s)
    <2>1. PICK p \in Versions : v = History[p]  BY <1>6, <1>9
    <2>2. Truncated(v) # NoStamp /\ position(Truncated(v)) = p /\ p \in Nat
      BY <2>1, VersionIsStamp, PositionIs
    <2>3. ASSUME s # NoStamp PROVE position(s) \in Nat /\ p >= position(s)
      <3>1. PICK o \in Versions : s = Truncated(History[o])  BY <1>4, <2>3 DEF StoredStamps
      <3>2. ~Older(History[p], Truncated(History[o]))  BY <1>4, <1>9, <2>1, <2>3, <3>1 DEF IsStale
      <3>3. ~(p < o) /\ o \in Nat  BY <3>2, OlderIsBefore, VersionIsStamp
      <3> QED  BY <2>2, <3>1, <3>3, PositionIs
    <2> QED  BY <2>2, <2>3
  <1>10. Held(q[e], ext2, i)
    BY <1>5, <1>9 DEF Held, v
  <1>11. ASSUME NEW d \in Delivery, NEW j \in Id, asks(q[d], j), Held(q[d], ext, j)
         PROVE  Held(q[d], ext2, j)
    <2>1. CASE j # i  BY <1>5, <1>11, <2>1 DEF Held
    <2>2. CASE j = i
      <3> SUFFICES ASSUME q[d].lane = "sync", stampIn(q[d], i) # NoStamp, ~ext2[i].bare
                   PROVE  /\ ext2[i].stamp # NoStamp
                          /\ position(ext2[i].stamp) >= position(Truncated(stampIn(q[d], i)))
        BY <2>2 DEF Held
      <3>1. q[d] \in Request  BY RequestTyped
      <3>2. PICK l \in 1..Len(q[d].items) :
                q[d].items[l].id = i /\ q[d].items[l].ver \in Versions /\ stampIn(q[d], i) = History[q[d].items[l].ver]
        BY <1>11, <2>2, <3>1, AskedVersion
      <3>4. ~ext[i].bare /\ (v # NoStamp \/ s = NoStamp)  BY <1>5 DEF uncovered, s
      <3>6. s # NoStamp /\ position(s) >= position(Truncated(stampIn(q[d], i)))
        BY <1>11, <2>2, <3>4 DEF Held, s
      <3>5. v # NoStamp  BY <3>4, <3>6
      <3>7. position(Truncated(stampIn(q[d], i))) \in Nat
        BY <3>2, PositionIs, VersionIsStamp
      <3> QED  BY <1>5, <1>9, <3>5, <3>6, <3>7
    <2> QED  BY <2>1, <2>2
  <1>12. ASSUME NEW j \in Id, ext[j].stamp # NoStamp, ext2[j].stamp # NoStamp
         PROVE  position(ext2[j].stamp) >= position(ext[j].stamp)
    <2>1. CASE j = i
      <3>1. v # NoStamp  BY <1>5, <1>12, <2>1 DEF Truncated
      <3> QED  BY <1>5, <1>9, <1>12, <2>1, <3>1 DEF s
    <2>2. CASE j # i
      <3>1. ext[j].stamp \in StoredStamps  BY DEF External
      <3>2. PICK o \in Versions : ext[j].stamp = Truncated(History[o])  BY <1>12, <3>1 DEF StoredStamps
      <3>3. position(ext[j].stamp) \in Nat  BY <3>2, PositionIs, VersionIsStamp
      <3> QED  BY <1>5, <2>2, <3>3
    <2> QED  BY <2>1, <2>2
  <1> QED  BY <1>8, <1>10, <1>11, <1>12 DEF Carries

\* An external system that only moved forward leaves every part in order.
LEMMA CarriesAll ==
    ASSUME NEW r \in Request, NEW ext, NEW ext2, Carries(r, ext, ext2)
    PROVE  /\ \A b : BatchOK(r, ext, b) => BatchOK(r, ext2, b)
           /\ \A t, u, c : CallOK(r, ext, t, c) /\ (t => u) => CallOK(r, ext2, u, c)
           /\ \A m : RememberedOK(r, ext, m) => RememberedOK(r, ext2, m)
           /\ \A a : AcceptedOK(r, ext, a) => AcceptedOK(r, ext2, a)
  <1>1. \A i, e : HeldIfClaimed(r, ext, i, e) => HeldIfClaimed(r, ext2, i, e)
    BY DEF HeldIfClaimed, Carries
  <1>2. \A b : BatchOK(r, ext, b) => BatchOK(r, ext2, b)
    BY <1>1 DEF BatchOK
  <1>3. \A t, u, c : CallOK(r, ext, t, c) /\ (t => u) => CallOK(r, ext2, u, c)
    BY <1>2 DEF CallOK
  <1>4. \A m : ReplyOK(r, ext, m) => ReplyOK(r, ext2, m)
    BY <1>1 DEF ReplyOK
  <1>5. \A a : AcceptedOK(r, ext, a) => AcceptedOK(r, ext2, a)
    BY <1>1 DEF AcceptedOK
  <1> QED  BY <1>2, <1>3, <1>4, <1>5 DEF RememberedOK

\* One attempt is set to c, beside an external system that moved forward.
LEMMA SetCall ==
    ASSUME NEW q \in Requests, NEW C, NEW ext, NEW ext2,
           NEW T, NEW U, T \subseteq U, CallsInv(q, C, ext, T),
           \A e \in Delivery : Carries(q[e], ext, ext2),
           NEW d \in Delivery, NEW n \in Attempt(d), NEW c, CallOK(q[d], ext2, d \in U, c)
    PROVE  CallsInv(q, [C EXCEPT ![d][n] = c], ext2, U)
  <1> DEFINE D == [C EXCEPT ![d][n] = c]
  <1>1. C = [e \in Delivery |-> C[e]] /\ \A e \in Delivery : C[e] = [m \in Attempt(e) |-> C[e][m]]
    BY DEF CallsInv
  <1>2. /\ D = [e \in Delivery |-> D[e]]
        /\ D[d] = [C[d] EXCEPT ![n] = c]
        /\ \A e \in Delivery : e # d => D[e] = C[e]
    BY <1>1
  <1>3. D[d] = [m \in Attempt(d) |-> D[d][m]] /\ D[d][n] = c /\ \A m \in Attempt(d) : m # n => D[d][m] = C[d][m]
    <2> HIDE DEF D
    <2> QED  BY <1>1, <1>2
  <1> HIDE DEF D
  <1>4. ASSUME NEW e \in Delivery, NEW m \in Attempt(e) PROVE CallOK(q[e], ext2, e \in U, D[e][m])
    <2>1. CASE e = d /\ m = n  BY <1>3, <2>1
    <2>2. CASE ~(e = d /\ m = n)
      <3>1. D[e][m] = C[e][m]  BY <1>2, <1>3, <2>2
      <3>2. CallOK(q[e], ext, e \in T, C[e][m])  BY DEF CallsInv
      <3>3. q[e] \in Request /\ Carries(q[e], ext, ext2)  BY RequestTyped
      <3> DEFINE t == e \in T
                 u == e \in U
      <3>4. CallOK(q[e], ext, t, C[e][m]) /\ (t => u)  BY <3>2
      <3> HIDE DEF t, u
      <3>5. CallOK(q[e], ext2, u, C[e][m])  BY <3>3, <3>4, CarriesAll
      <3> QED  BY <3>1, <3>5 DEF u
    <2> QED  BY <2>1, <2>2
  <1>5. \A e \in Delivery : D[e] = [m \in Attempt(e) |-> D[e][m]]
    BY <1>1, <1>2, <1>3
  <1>6. CallsInv(q, D, ext2, U)  BY <1>2, <1>4, <1>5 DEF CallsInv
  <1> QED  BY <1>6 DEF D
\* The fields the actions set, as one attempt set as a whole.
IsCall(c) == c = [at |-> c.at, status |-> c.status, batch |-> c.batch, answer |-> c.answer]

setAt(d, n, a) == [call EXCEPT ![d][n].at = a]
setBatch(d, n, b) == [call EXCEPT ![d][n].batch = b]
setBegun(d, n, a, b) == [call EXCEPT ![d][n].at = a, ![d][n].batch = b]
setAnswered(d, n, a, s, m) == [call EXCEPT ![d][n].at = a, ![d][n].status = s, ![d][n].answer = m]
setReplayed(d, n, a, s, m, b) == [setAnswered(d, n, a, s, m) EXCEPT ![d][n].batch = b]
setCall(d, n, a, s, b, m) == [call EXCEPT ![d][n] = [at |-> a, status |-> s, batch |-> b, answer |-> m]]

LEMMA FieldsSet ==
    ASSUME NEW d \in Delivery, NEW n \in Attempt(d), call = [e \in Delivery |-> call[e]],
           call[d] = [m \in Attempt(d) |-> call[d][m]], IsCall(call[d][n])
    PROVE  LET c == call[d][n]
           IN  /\ \A a : setAt(d, n, a) = setCall(d, n, a, c.status, c.batch, c.answer)
               /\ \A b : setBatch(d, n, b) = setCall(d, n, c.at, c.status, b, c.answer)
               /\ \A a, b : setBegun(d, n, a, b) = setCall(d, n, a, c.status, b, c.answer)
               /\ \A a, s, m : setAnswered(d, n, a, s, m) = setCall(d, n, a, s, c.batch, m)
               /\ \A a, s, m, b : setReplayed(d, n, a, s, m, b) = setCall(d, n, a, s, b, m)
  <1> DEFINE C == call
             c == C[d][n]
  <1>a. C = [e \in Delivery |-> C[e]] /\ C[d] = [m \in Attempt(d) |-> C[d][m]] /\ IsCall(C[d][n])
    OBVIOUS
  <1> SUFFICES ASSUME NEW a, NEW s, NEW b, NEW m
               PROVE  /\ setAt(d, n, a) = setCall(d, n, a, c.status, c.batch, c.answer)
                      /\ setBatch(d, n, b) = setCall(d, n, c.at, c.status, b, c.answer)
                      /\ setBegun(d, n, a, b) = setCall(d, n, a, c.status, b, c.answer)
                      /\ setAnswered(d, n, a, s, m) = setCall(d, n, a, s, c.batch, m)
                      /\ setReplayed(d, n, a, s, m, b) = setCall(d, n, a, s, b, m)
    OBVIOUS
  <1> HIDE DEF C
  <1>0. \A x : [C EXCEPT ![d][n] = x][d][n] = x /\ [C EXCEPT ![d][n] = x][d] = [C[d] EXCEPT ![n] = x]
    BY <1>a
  <1>00. \A x, y : [[C EXCEPT ![d][n] = x] EXCEPT ![d][n] = y] = [C EXCEPT ![d][n] = y]
    BY <1>a
  <1>1. \A x : IsCall(x) => [x EXCEPT !.at = a] = [at |-> a, status |-> x.status, batch |-> x.batch, answer |-> x.answer]
    BY DEF IsCall
  <1>2. \A x : IsCall(x) => [x EXCEPT !.batch = b] = [at |-> x.at, status |-> x.status, batch |-> b, answer |-> x.answer]
    BY DEF IsCall
  <1>3. \A x : IsCall(x) => [x EXCEPT !.status = s] = [at |-> x.at, status |-> s, batch |-> x.batch, answer |-> x.answer]
    BY DEF IsCall
  <1>4. \A x : IsCall(x) => [x EXCEPT !.answer = m] = [at |-> x.at, status |-> x.status, batch |-> x.batch, answer |-> m]
    BY DEF IsCall
  <1> DEFINE set(x) == [C EXCEPT ![d][n] = x]
  <1>5. ASSUME NEW x
        PROVE  /\ [set(x) EXCEPT ![d][n].at = a] = set([x EXCEPT !.at = a])
               /\ [set(x) EXCEPT ![d][n].status = s] = set([x EXCEPT !.status = s])
               /\ [set(x) EXCEPT ![d][n].batch = b] = set([x EXCEPT !.batch = b])
               /\ [set(x) EXCEPT ![d][n].answer = m] = set([x EXCEPT !.answer = m])
    <2> DEFINE D == set(x)
    <2>1. D[d][n] = x  BY <1>0
    <2>2. \A y : [D EXCEPT ![d][n] = y] = set(y)  BY <1>00
    <2>3. D[d] = [C[d] EXCEPT ![n] = x]  BY <1>0
    <2> HIDE DEF D, set
    <2>5. [D EXCEPT ![d][n].at = a] = [D EXCEPT ![d][n] = [D[d][n] EXCEPT !.at = a]]  OBVIOUS
    <2>6. [D EXCEPT ![d][n].status = s] = [D EXCEPT ![d][n] = [D[d][n] EXCEPT !.status = s]]  OBVIOUS
    <2>7. [D EXCEPT ![d][n].batch = b] = [D EXCEPT ![d][n] = [D[d][n] EXCEPT !.batch = b]]  OBVIOUS
    <2>8. [D EXCEPT ![d][n].answer = m] = [D EXCEPT ![d][n] = [D[d][n] EXCEPT !.answer = m]]  OBVIOUS
    <2>10. [D EXCEPT ![d][n].at = a] = set([x EXCEPT !.at = a])  BY <2>1, <2>2, <2>5
    <2>11. [D EXCEPT ![d][n].status = s] = set([x EXCEPT !.status = s])  BY <2>1, <2>2, <2>6
    <2>12. [D EXCEPT ![d][n].batch = b] = set([x EXCEPT !.batch = b])  BY <2>1, <2>2, <2>7
    <2>13. [D EXCEPT ![d][n].answer = m] = set([x EXCEPT !.answer = m])  BY <2>1, <2>2, <2>8
    <2> QED  BY <2>10, <2>11, <2>12, <2>13 DEF D
  <1>6. set(c) = C  BY <1>a
  <1>7. [C EXCEPT ![d][n].at = a, ![d][n].batch = b] = [[C EXCEPT ![d][n].at = a] EXCEPT ![d][n].batch = b]
    OBVIOUS
  <1>8. [C EXCEPT ![d][n].at = a, ![d][n].status = s, ![d][n].answer = m] =
           [[[C EXCEPT ![d][n].at = a] EXCEPT ![d][n].status = s] EXCEPT ![d][n].answer = m]
    OBVIOUS
  <1> DEFINE c1 == [at |-> a, status |-> c.status, batch |-> c.batch, answer |-> c.answer]
             c2 == [at |-> a, status |-> s, batch |-> c.batch, answer |-> c.answer]
             c3 == [at |-> a, status |-> s, batch |-> c.batch, answer |-> m]
  <1>9. /\ IsCall(c) /\ IsCall(c1) /\ IsCall(c2) /\ IsCall(c3)
        /\ c1.status = c.status /\ c1.batch = c.batch /\ c1.answer = c.answer /\ c1.at = a
        /\ c2.status = s /\ c2.batch = c.batch /\ c2.answer = c.answer /\ c2.at = a
        /\ c3.status = s /\ c3.batch = c.batch /\ c3.answer = m /\ c3.at = a
    BY <1>a DEF IsCall
  <1>10. [c EXCEPT !.at = a] = c1  BY <1>1, <1>9
  <1>11. [c1 EXCEPT !.status = s] = c2
    <2> HIDE DEF c1
    <2>1. [c1 EXCEPT !.status = s] = [at |-> c1.at, status |-> s, batch |-> c1.batch, answer |-> c1.answer]
      BY <1>3, <1>9
    <2> QED  BY <1>9, <2>1
  <1>12. [c2 EXCEPT !.answer = m] = c3
    <2> HIDE DEF c2
    <2>1. [c2 EXCEPT !.answer = m] = [at |-> c2.at, status |-> c2.status, batch |-> c2.batch, answer |-> m]
      BY <1>4, <1>9
    <2> QED  BY <1>9, <2>1
  <1>13. [c1 EXCEPT !.batch = b] = [at |-> a, status |-> c.status, batch |-> b, answer |-> c.answer]
    <2> HIDE DEF c1
    <2>1. [c1 EXCEPT !.batch = b] = [at |-> c1.at, status |-> c1.status, batch |-> b, answer |-> c1.answer]
      BY <1>2, <1>9
    <2> QED  BY <1>9, <2>1
  <1>14. [c3 EXCEPT !.batch = b] = [at |-> a, status |-> s, batch |-> b, answer |-> m]
    <2> HIDE DEF c3
    <2>1. [c3 EXCEPT !.batch = b] = [at |-> c3.at, status |-> c3.status, batch |-> b, answer |-> c3.answer]
      BY <1>2, <1>9
    <2> QED  BY <1>9, <2>1
  <1>15. [c EXCEPT !.batch = b] = [at |-> c.at, status |-> c.status, batch |-> b, answer |-> c.answer]
    BY <1>2, <1>9
  <1> HIDE DEF set, c1, c2, c3, c
  <1>16. [C EXCEPT ![d][n].at = a] = set(c1)  BY <1>5, <1>6, <1>10
  <1>17. [C EXCEPT ![d][n].batch = b] = set([c EXCEPT !.batch = b])  BY <1>5, <1>6
  <1>18. [[C EXCEPT ![d][n].at = a] EXCEPT ![d][n].batch = b] = set([c1 EXCEPT !.batch = b])
    BY <1>5, <1>16
  <1>19. [[C EXCEPT ![d][n].at = a] EXCEPT ![d][n].status = s] = set(c2)
    BY <1>5, <1>11, <1>16
  <1>20. [[[C EXCEPT ![d][n].at = a] EXCEPT ![d][n].status = s] EXCEPT ![d][n].answer = m] = set(c3)
    BY <1>5, <1>12, <1>19
  <1>21. [[[[C EXCEPT ![d][n].at = a] EXCEPT ![d][n].status = s] EXCEPT ![d][n].answer = m] EXCEPT ![d][n].batch = b]
            = set([c3 EXCEPT !.batch = b])
    BY <1>5, <1>20
  <1>22. setAt(d, n, a) = setCall(d, n, a, c.status, c.batch, c.answer)
    BY <1>16 DEF set, c1, setAt, setCall, C
  <1>23. setBatch(d, n, b) = setCall(d, n, c.at, c.status, b, c.answer)
    BY <1>15, <1>17 DEF set, setBatch, setCall, C
  <1>24. setBegun(d, n, a, b) = setCall(d, n, a, c.status, b, c.answer)
    BY <1>7, <1>13, <1>18 DEF set, setBegun, setCall, C
  <1>25. setAnswered(d, n, a, s, m) = setCall(d, n, a, s, c.batch, m)
    BY <1>8, <1>20 DEF set, c3, setAnswered, setCall, C
  <1>26. setReplayed(d, n, a, s, m, b) = setCall(d, n, a, s, b, m)
    BY <1>8, <1>14, <1>21 DEF set, setReplayed, setAnswered, setCall, C
  <1> QED  BY <1>22, <1>23, <1>24, <1>25, <1>26

-----------------------------------------------------------------------------
\* The invariant is inductive.

LEMMA Standing ==
    ASSUME EInv, NEW d \in Delivery
    PROVE  /\ req[d] \in Request
           /\ call = [e \in Delivery |-> call[e]] /\ call[d] = [m \in Attempt(d) |-> call[d][m]]
           /\ \A n \in Attempt(d) : CallOK(req[d], external, d \in torn, call[d][n])
           /\ \A e \in Delivery : Carries(req[e], external, external)
  BY RequestTyped DEF EInv, CallsInv, Carries

LEMMA FreshIsOK ==
    ASSUME NEW r, NEW ext, NEW t
    PROVE  CallOK(r, ext, t, NoCall) /\ CallOK(r, ext, t, Over)
  <1>1. Over = [at |-> "over", status |-> "none", batch |-> NoBatch, answer |-> <<>>]
    BY DEF Over, NoCall
  <1> QED  BY <1>1 DEF CallOK, NoCall, Permanent, Retriable

LEMMA NothingAccepted ==
    ASSUME NEW r, NEW ext
    PROVE  AcceptedOK(r, ext, <<>>)
  <1> DEFINE a == <<>>
  <1>1. 1..Len(a) = {}  OBVIOUS
  <1> HIDE DEF a
  <1>2. AcceptedOK(r, ext, a)  BY <1>1 DEF AcceptedOK
  <1> QED  BY <1>2 DEF a

\* A step that leaves the external system alone sets one attempt.
LEMMA CallSet ==
    ASSUME EInv, NEW d \in Delivery, NEW n \in Attempt(d), NEW c,
           NEW U, torn \subseteq U, CallOK(req[d], external, d \in U, c)
    PROVE  CallsInv(req, [call EXCEPT ![d][n] = c], external, U)
  BY Standing, SetCall DEF EInv

LEMMA CallOver ==
    ASSUME EInv, NEW d \in Delivery, NEW n \in Attempt(d)
    PROVE  CallsInv(req, [call EXCEPT ![d][n] = Over], external, torn)
  BY FreshIsOK, CallSet

LEMMA CallAnswered ==
    ASSUME EInv, NEW d \in Delivery, NEW n \in Attempt(d), NEW status, NEW results,
           NEW U, torn \subseteq U,
           status \in Permanent \cup Retriable \cup {"200"},
           status = "200" => \/ req[d].items = <<>> /\ results = <<>>
                             \/ BatchOK(req[d], external, call[d][n].batch) /\ results = answered(call[d][n].batch),
           status \in Permanent => ~req[d].wellFormed \/ ~laneImplemented(req[d].lane) \/ d \in U
    PROVE  CallsInv(req, answer(d, n, status, results), external, U)
  <1> DEFINE b == call[d][n].batch
             c == [at |-> "answered", status |-> status, batch |-> b, answer |-> results]
  <1>1. CallOK(req[d], external, d \in torn, call[d][n])  BY Standing
  <1>2. b = NoBatch \/ BatchOK(req[d], external, b)  BY <1>1 DEF CallOK
  <1>3. IsCall(call[d][n])  BY <1>1 DEF CallOK, IsCall
  <1>4. call = [e \in Delivery |-> call[e]] /\ call[d] = [m \in Attempt(d) |-> call[d][m]]
    BY Standing
  <1>5. answer(d, n, status, results) = [call EXCEPT ![d][n] = c]
    <2>1. answer(d, n, status, results) = setAnswered(d, n, "answered", status, results)
      BY DEF answer, setAnswered
    <2>2. setAnswered(d, n, "answered", status, results) = setCall(d, n, "answered", status, b, results)
      BY <1>3, <1>4, FieldsSet
    <2> QED  BY <2>1, <2>2 DEF setCall
  <1>6. CallOK(req[d], external, d \in U, c)  BY <1>2 DEF CallOK
  <1> HIDE DEF c
  <1>7. CallsInv(req, [call EXCEPT ![d][n] = c], external, U)  BY <1>6, CallSet
  <1> QED  BY <1>5, <1>7

\* What is left of EInv when the external system is not written.
LEMMA NoWrite ==
    ASSUME EInv, req' = req, external' = external, ServerInv',
           slips' \in 0..MaxSlips, settled' \in [Delivery -> {"open", "done", "dead"}],
           torn' \subseteq Delivery, CallsInv(req, call', external, torn'),
           RememberedInv(req, remembered', external), AcceptedInv(req, accepted', external), DeadIsUnservable'
    PROVE  EInv'
  BY DEF EInv

\* The platform's own state is untouched as well.
LEMMA OnlyCalls ==
    ASSUME EInv, UNCHANGED <<serverVars, req, platformVars, slips, external, torn>>,
           CallsInv(req, call', external, torn), RememberedInv(req, remembered', external)
    PROVE  EInv'
  <1>1. ServerInv' /\ DeadIsUnservable'
    BY DEF EInv, ServerInv, serverVars, DeadIsUnservable, platformVars
  <1>2. UNCHANGED <<req, external, slips, settled, accepted, torn>>  BY DEF platformVars
  <1> QED  BY <1>1, <1>2, NoWrite DEF EInv

LEMMA InitKeepsEInv ==
    ASSUME Init
    PROVE  EInv
  <1>1. ServerInv /\ slips \in 0..MaxSlips /\ req \in Requests
    BY EgressAssumption DEF Init, ServerInv
  <1>2. settled \in [Delivery -> {"open", "done", "dead"}] /\ DeadIsUnservable
    BY DEF Init, DeadIsUnservable
  <1>3. external \in External /\ torn \subseteq Delivery  BY DEF Init, External, StoredStamps
  <1>4. CallsInv(req, call, external, torn)
    BY FreshIsOK DEF Init, CallsInv
  <1>5. RememberedInv(req, remembered, external)
    BY DEF Init, RememberedInv, RememberedOK
  <1>6. AcceptedInv(req, accepted, external)
    <2>1. \A d \in Delivery : accepted[d] = <<>>  BY DEF Init
    <2>2. \A r, ext : AcceptedOK(r, ext, <<>>)  BY NothingAccepted
    <2> QED  BY <2>1, <2>2 DEF Init, AcceptedInv
  <1> QED  BY <1>1, <1>2, <1>3, <1>4, <1>5, <1>6 DEF EInv

LEMMA ServerKeepsEInv ==
    ASSUME EInv, Server
    PROVE  EInv'
  <1>1. CASE UNCHANGED <<req, call, platformVars, remembered, slips, external, torn>> /\ ServerInv'
    BY <1>1, NoWrite DEF EInv, platformVars, DeadIsUnservable
  <1>2. ASSUME Connected \/ retryConnect \/ Leave \/ Restart
        PROVE  UNCHANGED <<req, call, platformVars, remembered, slips, external, torn>> /\ ServerInv'
    <2>1. ServerInv  BY DEF EInv
    <2>2. CASE Connected  BY <2>1, <2>2 DEF Connected, ServerInv
    <2>3. CASE retryConnect  BY <2>1, <2>3 DEF retryConnect, ServerInv
    <2>4. CASE Leave  BY <2>1, <2>4 DEF Leave, ServerInv
    <2>5. CASE Restart  BY <2>1, <2>5, EgressAssumption DEF Restart, ServerInv
    <2> QED  BY <1>2, <2>2, <2>3, <2>4, <2>5
  <1>3. ASSUME Exit PROVE EInv'
    <2>1. UNCHANGED <<req, external, slips, settled, accepted, torn>>  BY <1>3 DEF Exit, platformVars
    <2>2. ServerInv' /\ DeadIsUnservable'
      BY <1>3, <2>1 DEF Exit, EInv, ServerInv, DeadIsUnservable
    <2>3. RememberedInv(req, remembered', external)
      BY <1>3 DEF Exit, RememberedInv, RememberedOK
    <2>4. CallsInv(req, call', external, torn)
      <3>1. \A d \in Delivery : \A n \in Attempt(d) : CallOK(req[d], external, d \in torn, call[d][n])  BY Standing
      <3>2. \A d \in Delivery : \A n \in Attempt(d) : call'[d][n] = Over \/ call'[d][n] = call[d][n]
        BY <1>3 DEF Exit
      <3>3. \A d \in Delivery : \A n \in Attempt(d) : CallOK(req[d], external, d \in torn, call'[d][n])
        BY <3>1, <3>2, FreshIsOK
      <3>4. call' = [d \in Delivery |-> call'[d]] /\ \A d \in Delivery : call'[d] = [n \in Attempt(d) |-> call'[d][n]]
        BY <1>3 DEF Exit
      <3> QED  BY <3>3, <3>4 DEF CallsInv
    <2> QED  BY <2>1, <2>2, <2>3, <2>4, NoWrite DEF EInv
  <1> QED  BY <1>1, <1>2, <1>3 DEF Server, ShutdownDone, ShutdownTimesOut, ServeFails

LEMMA ServePushKeepsEInv ==
    ASSUME EInv, NEW d \in Delivery, NEW n \in Attempt(d), servePush(d, n)
    PROVE  EInv'
  <1> DEFINE r == req[d]
             c == call[d][n]
  <1>1. UNCHANGED <<serverVars, req, platformVars, remembered, slips, external>>  BY DEF servePush
  <1>a. PICK cut \in BOOLEAN :
           /\ torn' = IF cut THEN torn \cup {d} ELSE torn
           /\ \/ ~laneImplemented(r.lane) /\ call' = answer(d, n, "501", <<>>)
              \/ call' = answer(d, n, gateStatus, <<>>)
              \/ (cut \/ ~r.wellFormed) /\ call' = answer(d, n, "400", <<>>)
              \/ r.items = <<>> /\ call' = answer(d, n, "200", <<>>)
              \/ call' = [call EXCEPT ![d][n].at = "component", ![d][n].batch = beginBatch(r.lane, r.items)]
    BY DEF servePush
  <1> DEFINE U == torn'
  <1>b. torn \subseteq U /\ U \subseteq Delivery /\ (cut => d \in U)  BY <1>a DEF EInv
  <1> HIDE DEF U
  <1>2. r \in Request /\ CallOK(r, external, d \in torn, c)  BY Standing
  <1>3. CallsInv(req, call', external, U)
    <2>1. CASE ~laneImplemented(r.lane) /\ call' = answer(d, n, "501", <<>>)
      BY <1>b, <2>1, CallAnswered DEF Permanent, Retriable
    <2>2. CASE call' = answer(d, n, gateStatus, <<>>)
      BY <1>b, <2>2, CallAnswered DEF Permanent, Retriable, gateStatus
    <2>3. CASE (cut \/ ~r.wellFormed) /\ call' = answer(d, n, "400", <<>>)
      BY <1>b, <2>3, CallAnswered DEF Permanent, Retriable
    <2>4. CASE r.items = <<>> /\ call' = answer(d, n, "200", <<>>)
      BY <1>b, <2>4, CallAnswered DEF Permanent, Retriable
    <2>5. CASE call' = [call EXCEPT ![d][n].at = "component", ![d][n].batch = beginBatch(r.lane, r.items)]
      <3> DEFINE b == beginBatch(r.lane, r.items)
                 e == [at |-> "component", status |-> c.status, batch |-> b, answer |-> c.answer]
      <3>1. IsCall(c)  BY <1>2 DEF CallOK, IsCall
      <3>2. call' = [call EXCEPT ![d][n] = e]
        <4>1. call = [f \in Delivery |-> call[f]] /\ call[d] = [m \in Attempt(d) |-> call[d][m]]
          BY Standing
        <4>2. call' = setBegun(d, n, "component", b)  BY <2>5 DEF setBegun
        <4>3. call' = setCall(d, n, "component", c.status, b, c.answer)  BY <3>1, <4>1, <4>2, FieldsSet
        <4> QED  BY <4>3 DEF setCall
      <3>3. b = [verb |-> verb(r.lane), ids |-> distinctIds(r.items), results |-> <<>>]
        BY DEF beginBatch, newLaneBatch, newLaneRelationshipBatch
      <3>4. BatchOK(r, external, b)
        <4> HIDE DEF b
        <4> QED  BY <3>3 DEF BatchOK
      <3>5. CallOK(r, external, d \in U, e)
        <4> HIDE DEF b
        <4> QED  BY <1>2, <3>4 DEF CallOK
      <3> HIDE DEF e
      <3> QED  BY <1>b, <3>2, <3>5, CallSet
    <2> QED  BY <1>a, <2>1, <2>2, <2>3, <2>4, <2>5
  <1>4. ServerInv' /\ DeadIsUnservable'
    BY <1>1, <1>b DEF EInv, ServerInv, serverVars, DeadIsUnservable, platformVars, U
  <1> QED  BY <1>1, <1>b, <1>3, <1>4, NoWrite DEF EInv, platformVars, U
LEMMA RunningBatch ==
    ASSUME EInv, NEW d \in Delivery, NEW n \in Attempt(d), running(d, n)
    PROVE  /\ BatchOK(req[d], external, call[d][n].batch)
           /\ CallOK(req[d], external, d \in torn, call[d][n]) /\ IsCall(call[d][n])
  BY Standing DEF running, CallOK, IsCall

\* The running attempt's batch is replaced, beside an external system that
\* moved forward.
LEMMA BatchSet ==
    ASSUME EInv, NEW d \in Delivery, NEW n \in Attempt(d), running(d, n),
           NEW ext2, \A e \in Delivery : Carries(req[e], external, ext2),
           NEW b, BatchOK(req[d], ext2, b)
    PROVE  CallsInv(req, [call EXCEPT ![d][n].batch = b], ext2, torn)
  <1> DEFINE c == call[d][n]
             new == [at |-> c.at, status |-> c.status, batch |-> b, answer |-> c.answer]
  <1>1. CallOK(req[d], external, d \in torn, c) /\ IsCall(c)  BY RunningBatch
  <1>2. c.at \in {"component", "abandoned"}  BY DEF running
  <1>3. call = [e \in Delivery |-> call[e]] /\ call[d] = [m \in Attempt(d) |-> call[d][m]]
    BY Standing
  <1>4. setBatch(d, n, b) = setCall(d, n, c.at, c.status, b, c.answer)
    BY <1>1, <1>3, FieldsSet
  <1>5. [call EXCEPT ![d][n].batch = b] = [call EXCEPT ![d][n] = new]
    BY <1>4 DEF setBatch, setCall
  <1>6. CallOK(req[d], ext2, d \in torn, new)  BY <1>1, <1>2 DEF CallOK
  <1> HIDE DEF new
  <1>7. CallsInv(req, [call EXCEPT ![d][n] = new], ext2, torn)
    BY <1>6, SetCall DEF EInv
  <1> QED  BY <1>5, <1>7

\* The verdicts of a component.
LEMMA VerdictIsStable ==
    ASSUME NEW o \in Outcomes \cup {Misspelt}, NEW x \in {"", "x"}, NEW k,
           k \in {NoCode, StaleVersion} \/ (o = "failed" /\ k \in Minted)
    PROVE  /\ Stable(Verdict(o, x, k))
           /\ (o \notin {"created", "updated"} \/ x = "") /\ k # StaleVersion => ~Claims(Verdict(o, x, k))
  <1> DEFINE e == Verdict(o, x, k)
  <1>1. k \in Codes  BY DEF Codes
  <1>2. e = [outcome |-> o, ext |-> x, code |-> k]  BY DEF Verdict
  <1> HIDE DEF e
  <1>3. e.outcome = o /\ e.ext = x /\ e.code = k  BY <1>2
  <1>4. e \in SyncResult
    <2> DEFINE O == Outcomes \cup {Misspelt}
               X == {"", "x"}
    <2>1. o \in O /\ x \in X  OBVIOUS
    <2> HIDE DEF O, X
    <2>2. e \in [outcome : O, ext : X, code : Codes]  BY <1>1, <1>2, <2>1
    <2> QED  BY <2>2 DEF SyncResult, O, X
  <1>5. Stable(e)  BY <1>3, <1>4 DEF Stable
  <1>6. (o \notin {"created", "updated"} \/ x = "") /\ k # StaleVersion => ~Claims(e)
    BY <1>3 DEF Claims
  <1> QED  BY <1>5, <1>6 DEF e

LEMMA OtherVerdictIs ==
    ASSUME NEW b, NEW id, NEW c \in otherVerdicts(b, id)
    PROVE  \E e : Stable(e) /\ ~Claims(e) /\ c = record(b, id, e)
  <1>1. /\ normalizeReasonCode(Refused) = NoCode /\ normalizeReasonCode(NoReason) = NoCode
        /\ normalizeReasonCode(NoCode) = NoCode /\ NoReason \in Minted /\ NoCode # StaleVersion
        /\ NoReason # StaleVersion
    BY DEF normalizeReasonCode, Refused, NoCode, Minted, NoReason, StaleVersion, NoVerdict,
           UnrecognizedOutcome, MissingExternalRecordID
  <1>2. /\ "failed" \in Outcomes /\ "skipped" \in Outcomes /\ "created" \in Outcomes /\ "withdrawn" \in Outcomes
        /\ Misspelt \notin {"created", "updated", "failed"}
    BY DEF Outcomes, Misspelt
  <1>3. CASE c = Failed(b, id, FALSE) \/ c = FailedReason(b, id, Refused, FALSE)
    <2> DEFINE e == Verdict("failed", "", NoReason)
    <2>1. c = record(b, id, e)  BY <1>1, <1>3 DEF Failed, FailedReason
    <2>2. Stable(e) /\ ~Claims(e)  BY <1>1, <1>2, VerdictIsStable
    <2> HIDE DEF e
    <2> QED  BY <2>1, <2>2
  <1>4. CASE c = SkippedReason(b, id, Refused)
    <2> DEFINE e == Verdict("skipped", "", NoCode)
    <2>1. c = record(b, id, e)  BY <1>1, <1>4 DEF SkippedReason
    <2>2. Stable(e) /\ ~Claims(e)  BY <1>1, <1>2, VerdictIsStable
    <2> HIDE DEF e
    <2> QED  BY <2>1, <2>2
  <1>5. CASE c = Created(b, id, "")
    <2> DEFINE e == Verdict("created", "", NoCode)
    <2>1. c = record(b, id, e)  BY <1>5 DEF Created
    <2>2. Stable(e) /\ ~Claims(e)  BY <1>1, <1>2, VerdictIsStable
    <2> HIDE DEF e
    <2> QED  BY <2>1, <2>2
  <1>6. CASE c = Withdrawn(b, id)
    <2> DEFINE e == Verdict("withdrawn", "", NoCode)
    <2>1. c = record(b, id, e)  BY <1>6 DEF Withdrawn
    <2>2. Stable(e) /\ ~Claims(e)  BY <1>1, <1>2, VerdictIsStable
    <2> HIDE DEF e
    <2> QED  BY <2>1, <2>2
  <1>7. CASE c = Record(b, id, Verdict("skipped", "", NoReason))
    <2> DEFINE f == Verdict("skipped", "", NoReason)
               e == Verdict("skipped", "", NoCode)
    <2>1. f = [outcome |-> "skipped", ext |-> "", code |-> NoReason]  BY DEF Verdict
    <2>2. Stable(e) /\ ~Claims(e)  BY <1>1, <1>2, VerdictIsStable
    <2> HIDE DEF f
    <2>3. f.code = NoReason /\ f.outcome = "skipped"  BY <2>1
    <2>4. [f EXCEPT !.code = NoCode] = [outcome |-> "skipped", ext |-> "", code |-> NoCode]
      <3> DEFINE o == "skipped"
                 x == ""
                 k == NoReason
                 y == NoCode
      <3>1. f = [outcome |-> o, ext |-> x, code |-> k]  BY <2>1
      <3> HIDE DEF o, x, k, y
      <3>2. [f EXCEPT !.code = y] = [outcome |-> o, ext |-> x, code |-> y]  BY <3>1
      <3> QED  BY <3>2 DEF o, x, y
    <2>5. [f EXCEPT !.code = normalizeReasonCode(f.code)] = e  BY <1>1, <2>3, <2>4 DEF Verdict
    <2>6. ~isSDKMintedReplay(f)  BY <2>3 DEF isSDKMintedReplay
    <2> HIDE DEF e
    <2>7. c = record(b, id, e)  BY <1>7, <2>5, <2>6 DEF Record, f
    <2> QED  BY <2>2, <2>7
  <1>8. CASE c = Record(b, id, Verdict(Misspelt, "x", NoCode))
    <2> DEFINE e == Verdict(Misspelt, "x", NoCode)
    <2>1. Stable(e) /\ ~Claims(e)  BY <1>1, <1>2, VerdictIsStable
    <2> HIDE DEF e
    <2>2. c = record(b, id, e)  BY <1>8, <2>1, StableIsKept DEF e
    <2> QED  BY <2>1, <2>2
  <1> QED  BY <1>3, <1>4, <1>5, <1>6, <1>7, <1>8 DEF otherVerdicts

LEMMA SayKeepsEInv ==
    ASSUME EInv, NEW d \in Delivery, NEW n \in Attempt(d), NEW id \in Id, Say(d, n, id)
    PROVE  EInv'
  <1>1. UNCHANGED <<serverVars, req, platformVars, remembered, external, torn>> /\ running(d, n)  BY DEF Say
  <1>2. slips' \in 0..MaxSlips  BY EgressAssumption DEF Say, EInv
  <1>3. PICK b \in otherVerdicts(call[d][n].batch, id) : call' = [call EXCEPT ![d][n].batch = b]
    BY DEF Say
  <1>4. PICK e : Stable(e) /\ ~Claims(e) /\ b = record(call[d][n].batch, id, e)
    BY OtherVerdictIs
  <1>5. req[d] \in Request /\ BatchOK(req[d], external, call[d][n].batch)
    BY <1>1, Standing, RunningBatch
  <1>6. HeldIfClaimed(req[d], external, id, e)  BY <1>4 DEF HeldIfClaimed
  <1>7. BatchOK(req[d], external, b)  BY <1>4, <1>5, <1>6, RecordedIsOK
  <1>8. \A f \in Delivery : Carries(req[f], external, external)  BY DEF Carries
  <1>9. CallsInv(req, call', external, torn)  BY <1>1, <1>3, <1>7, <1>8, BatchSet
  <1>10. ServerInv' /\ DeadIsUnservable'
    BY <1>1 DEF EInv, ServerInv, serverVars, DeadIsUnservable, platformVars
  <1> QED  BY <1>1, <1>2, <1>9, <1>10, NoWrite DEF EInv, platformVars

LEMMA ComponentEndsKeepsEInv ==
    ASSUME EInv, NEW d \in Delivery, NEW n \in Attempt(d),
           ComponentFails(d, n) \/ \E keeps \in BOOLEAN : ComponentReturns(d, n, keeps)
    PROVE  EInv'
  <1> DEFINE b == call[d][n].batch
             results == resultsOf(req[d].lane, b)
  <1>1. UNCHANGED <<serverVars, req, platformVars, slips, external, torn>> /\ running(d, n)
    BY DEF ComponentFails, ComponentReturns
  <1>2. req[d] \in Request /\ BatchOK(req[d], external, b)  BY <1>1, Standing, RunningBatch
  <1>3. results = answered(b)  BY DEF resultsOf, RelationshipResults, Results
  <1>4. CASE ComponentFails(d, n)
    <2>1. PICK err \in [throttle : BOOLEAN, after : 0..1] : call' = comeBack(d, n, writeSyncError(err), <<>>)
      BY <1>4 DEF ComponentFails
    <2>2. writeSyncError(err) \in {"429", "500"}  BY DEF writeSyncError
    <2> DEFINE status == writeSyncError(err)
    <2> HIDE DEF status
    <2>3. status \in Retriable /\ status \notin Permanent /\ status # "200"
      BY <2>2 DEF status, Retriable, Permanent
    <2>4. CallsInv(req, answer(d, n, status, <<>>), external, torn)
      BY <2>3, CallAnswered
    <2>5. CallsInv(req, call', external, torn)  BY <2>1, <2>4, CallOver DEF comeBack, status
    <2> QED  BY <1>1, <1>4, <2>5, OnlyCalls DEF EInv, ComponentFails
  <1>5. CASE \E keeps \in BOOLEAN : ComponentReturns(d, n, keeps)
    <2>1. PICK keeps \in BOOLEAN : ComponentReturns(d, n, keeps)  BY <1>5
    <2>2. CallsInv(req, answer(d, n, "200", results), external, torn)
      BY <1>2, <1>3, CallAnswered DEF Permanent
    <2>3. CallsInv(req, call', external, torn)
      BY <2>1, <2>2, CallOver DEF ComponentReturns, comeBack
    <2>4. ReplyOK(req[d], external, results)  BY <1>2, <1>3, AnsweredIsReply
    <2>5. remembered' = remembered \/ remembered' = [remembered EXCEPT ![d] = results]
      BY <2>1 DEF ComponentReturns
    <2> HIDE DEF results
    <2>6. RememberedInv(req, remembered', external)
      BY <2>4, <2>5 DEF EInv, RememberedInv, RememberedOK
    <2> QED  BY <1>1, <2>3, <2>6, OnlyCalls
  <1> QED  BY <1>4, <1>5

\* A replay writes nothing, and its reply is the recorded one.
LEMMA ReplayKeepsEInv ==
    ASSUME EInv, NEW d \in Delivery, NEW n \in Attempt(d), Replay(d, n)
    PROVE  EInv' /\ (call[d][n].at = "component" => call'[d][n].answer = remembered[d])
  <1> DEFINE c == call[d][n]
             b == replayed(c.batch, remembered[d])
             m == remembered[d]
             new == [at |-> "answered", status |-> "200", batch |-> b, answer |-> m]
  <1>1. UNCHANGED <<serverVars, req, platformVars, remembered, slips, external, torn>> /\ running(d, n)
    BY DEF Replay
  <1>2. req[d] \in Request /\ BatchOK(req[d], external, c.batch) /\ IsCall(c) /\ CallOK(req[d], external, d \in torn, c)
    BY <1>1, Standing, RunningBatch
  <1>3. m # NoneYet /\ DOMAIN c.batch.results = {}  BY DEF Replay
  <1>4. ReplyOK(req[d], external, m)  BY <1>3 DEF EInv, RememberedInv, RememberedOK
  <1>5. BatchOK(req[d], external, b) /\ answered(b) = m  BY <1>2, <1>3, <1>4, ReplayIsReply
  <1>6. resultsOf(req[d].lane, b) = m  BY <1>5 DEF resultsOf, RelationshipResults, Results
  <1>7. call = [e \in Delivery |-> call[e]] /\ call[d] = [k \in Attempt(d) |-> call[d][k]]
    BY Standing
  <1>8. CASE c.at = "component"
    <2>1. call' = [answer(d, n, "200", resultsOf(req[d].lane, b)) EXCEPT ![d][n].batch = b]
      BY <1>8 DEF Replay
    <2> HIDE DEF b, m
    <2>2. call' = setReplayed(d, n, "answered", "200", m, b)
      BY <1>6, <2>1 DEF answer, setReplayed, setAnswered
    <2>3. call' = setCall(d, n, "answered", "200", b, m)  BY <1>2, <1>7, <2>2, FieldsSet
    <2>4. call' = [call EXCEPT ![d][n] = new]  BY <2>3 DEF setCall
    <2>5. CallOK(req[d], external, d \in torn, new)  BY <1>5 DEF CallOK, Permanent
    <2>6. new.answer = m  OBVIOUS
    <2> HIDE DEF new
    <2>7. CallsInv(req, call', external, torn)  BY <2>4, <2>5, CallSet
    <2>8. call'[d][n] = new  BY <1>7, <2>4
    <2>9. EInv'  BY <1>1, <2>7, OnlyCalls DEF EInv
    <2> QED  BY <2>6, <2>8, <2>9 DEF m
  <1>9. CASE c.at # "component"
    <2>1. CallsInv(req, call', external, torn)  BY <1>9, CallOver DEF Replay
    <2> QED  BY <1>1, <1>9, <2>1, OnlyCalls DEF EInv
  <1> QED  BY <1>8, <1>9
\* What a read, compare and write of one record does.
StampsForward(ext, ext2) ==
    \A i \in Id : ext[i].stamp # NoStamp /\ ext2[i].stamp # NoStamp =>
        position(ext2[i].stamp) >= position(ext[i].stamp)

LEMMA ApplyKeepsEInv ==
    ASSUME EInv, NEW d \in Delivery, NEW n \in Attempt(d), NEW id \in Id, Apply(d, n, id)
    PROVE  EInv' /\ StampsForward(external, external')
  <1> DEFINE r == req[d]
             b == call[d][n].batch
             v == itemStamp(d, id)
             stored == external[id]
             stale == IsStale(v, stored.stamp)
             retract == verb(r.lane) = "withdraw"
             wrote == ~stale /\ (~retract \/ stored.live)
             bare == stored.bare \/ (v = NoStamp /\ stored.stamp # NoStamp)
  <1>1. UNCHANGED <<serverVars, req, platformVars, remembered, slips, torn>> /\ running(d, n) /\ id \in known(b)
    BY DEF Apply, Pending
  <1>2. r \in Request /\ BatchOK(r, external, b) /\ req \in Requests /\ external \in External
    BY <1>1, Standing, RunningBatch DEF EInv
  <1>3. v = stampIn(r, id)  BY DEF itemStamp, stampIn
  <1>4. asks(r, id)
    <2>1. b.ids = distinctIds(r.items)  BY <1>2 DEF BatchOK
    <2>2. PICK k \in 1..Len(b.ids) : id = b.ids[k]  BY <1>1 DEF known
    <2> QED  BY <1>2, <2>1, <2>2, RequestIds
  <1>5. external' = IF wrote THEN [external EXCEPT ![id] = [live |-> ~retract, stamp |-> Truncated(v), bare |-> bare]]
                    ELSE external
    BY DEF Apply
  <1>6. call' = [call EXCEPT ![d][n].batch =
                      IF stale THEN SkippedReason(b, id, StaleVersion)
                      ELSE IF retract THEN IF stored.live THEN Withdrawn(b, id) ELSE Skipped(b, id)
                      ELSE IF stored.live THEN Updated(b, id, "x") ELSE Created(b, id, "x")]
    BY DEF Apply
  <1> HIDE DEF v
  <1>7. /\ external' \in External /\ \A e \in Delivery : Carries(req[e], external, external')
        /\ StampsForward(external, external') /\ (~retract \/ stale => Held(r, external', id))
    <2>1. CASE wrote
      <3> DEFINE live == ~retract
                 ext2 == external'
      <3>1. live \in BOOLEAN /\ ~IsStale(stampIn(r, id), external[id].stamp)  BY <1>3, <2>1
      <3> HIDE DEF live
      <3>2. ext2 = [external EXCEPT ![id] = [live |-> live, stamp |-> Truncated(stampIn(req[d], id)),
                                             bare |-> uncovered(external[id], stampIn(req[d], id))]]
        BY <1>3, <1>5, <2>1 DEF live, uncovered
      <3> HIDE DEF ext2
      <3>3. /\ ext2 \in External /\ Held(req[d], ext2, id)
            /\ \A e \in Delivery : Carries(req[e], external, ext2)
            /\ \A j \in Id : external[j].stamp # NoStamp /\ ext2[j].stamp # NoStamp =>
                                position(ext2[j].stamp) >= position(external[j].stamp)
        BY <1>2, <1>4, <3>1, <3>2, WriteKeepsHeld
      <3> QED  BY <3>3 DEF ext2, StampsForward
    <2>2. CASE ~wrote
      <3>1. external' = external  BY <1>5, <2>2
      <3>2. stale => Held(r, external, id)  BY <1>2, <1>3, <1>4, StaleIsHeld
      <3>3. ~retract => stale  BY <2>2
      <3>4. \A e \in Delivery : Carries(req[e], external, external)  BY DEF Carries
      <3>5. StampsForward(external, external)
        <4>1. ASSUME NEW i \in Id, external[i].stamp # NoStamp PROVE position(external[i].stamp) \in Nat
          <5>1. external[i].stamp \in StoredStamps  BY <1>2 DEF External
          <5>2. PICK k \in Versions : external[i].stamp = Truncated(History[k])  BY <4>1, <5>1 DEF StoredStamps
          <5> QED  BY <5>2, PositionIs, VersionIsStamp
        <4> QED  BY <4>1 DEF StampsForward
      <3> QED  BY <1>2, <3>1, <3>2, <3>3, <3>4, <3>5
    <2> QED  BY <2>1, <2>2
  <1>8. PICK e : /\ Stable(e) /\ (Claims(e) => ~retract \/ stale)
                 /\ call' = [call EXCEPT ![d][n].batch = record(b, id, e)]
    <2>1. normalizeReasonCode(StaleVersion) = StaleVersion /\ NoCode # StaleVersion
      BY DEF normalizeReasonCode, Minted, Refused, NoVerdict, UnrecognizedOutcome, MissingExternalRecordID, NoReason,
             StaleVersion, NoCode
    <2>2. "skipped" \in Outcomes /\ "withdrawn" \in Outcomes /\ "updated" \in Outcomes /\ "created" \in Outcomes
      BY DEF Outcomes
    <2>3. CASE stale
      <3>1. Stable(Verdict("skipped", "", StaleVersion))  BY <2>2, VerdictIsStable
      <3> QED  BY <1>6, <2>1, <2>3, <3>1 DEF SkippedReason
    <2>4. CASE ~stale /\ retract /\ stored.live
      <3>1. Stable(Verdict("withdrawn", "", NoCode)) /\ ~Claims(Verdict("withdrawn", "", NoCode))
        BY <2>1, <2>2, VerdictIsStable
      <3> QED  BY <1>6, <2>4, <3>1 DEF Withdrawn
    <2>5. CASE ~stale /\ retract /\ ~stored.live
      <3>1. Stable(Verdict("skipped", "", NoCode)) /\ ~Claims(Verdict("skipped", "", NoCode))
        BY <2>1, <2>2, VerdictIsStable
      <3> QED  BY <1>6, <2>5, <3>1 DEF Skipped
    <2>6. CASE ~stale /\ ~retract /\ stored.live
      <3>1. Stable(Verdict("updated", "x", NoCode))  BY <2>2, VerdictIsStable
      <3> QED  BY <1>6, <2>6, <3>1 DEF Updated
    <2>7. CASE ~stale /\ ~retract /\ ~stored.live
      <3>1. Stable(Verdict("created", "x", NoCode))  BY <2>2, VerdictIsStable
      <3> QED  BY <1>6, <2>7, <3>1 DEF Created
    <2> QED  BY <2>3, <2>4, <2>5, <2>6, <2>7
  <1> DEFINE ext2 == external'
  <1> HIDE DEF r, b, retract, stale
  <1>9. CallsInv(req, call', ext2, torn) /\ RememberedInv(req, remembered, ext2) /\ AcceptedInv(req, accepted, ext2)
    <2>1. ext2 \in External /\ \A f \in Delivery : Carries(req[f], external, ext2) /\ req[f] \in Request
      BY <1>2, <1>7, RequestTyped
    <2>2. HeldIfClaimed(r, ext2, id, e)  BY <1>4, <1>7, <1>8 DEF HeldIfClaimed
    <2> HIDE DEF ext2
    <2>3. BatchOK(r, ext2, b)  BY <1>2, <2>1, CarriesAll DEF r
    <2>4. BatchOK(r, ext2, record(b, id, e))  BY <1>2, <1>8, <2>2, <2>3, RecordedIsOK
    <2>5. CallsInv(req, [call EXCEPT ![d][n].batch = record(b, id, e)], ext2, torn)
      BY <1>1, <2>1, <2>4, BatchSet DEF r
    <2>6. RememberedInv(req, remembered, ext2) /\ AcceptedInv(req, accepted, ext2)
      BY <2>1, CarriesAll DEF EInv, RememberedInv, AcceptedInv
    <2> QED  BY <1>8, <2>5, <2>6
  <1>10. ServerInv' /\ DeadIsUnservable'
    BY <1>1 DEF EInv, ServerInv, serverVars, DeadIsUnservable, platformVars
  <1> QED  BY <1>1, <1>7, <1>9, <1>10 DEF EInv, platformVars

LEMMA HearKeepsEInv ==
    ASSUME EInv, NEW d \in Delivery, NEW n \in Attempt(d), Hear(d, n)
    PROVE  EInv'
  <1> DEFINE c == call[d][n]
             taken == c.status = "200" /\ acceptable(req[d], c.answer)
  <1>1. /\ UNCHANGED <<serverVars, req, remembered, slips, external, torn>> /\ c.at = "answered"
        /\ call' = [call EXCEPT ![d][n] = Over]
        /\ settled' = [settled EXCEPT ![d] = IF taken THEN "done"
                                             ELSE IF c.status \in Permanent THEN "dead" ELSE @]
        /\ accepted' = IF taken THEN [accepted EXCEPT ![d] = c.answer] ELSE accepted
    BY DEF Hear
  <1>2. req[d] \in Request /\ CallOK(req[d], external, d \in torn, c)  BY Standing
  <1>3. CallsInv(req, call', external, torn)  BY <1>1, CallOver
  <1>4. c.status \in Permanent => ~req[d].wellFormed \/ ~laneImplemented(req[d].lane) \/ d \in torn
    BY <1>1, <1>2 DEF CallOK
  <1>5. taken => AcceptedOK(req[d], external, c.answer)
    <2>1. CASE c.status = "200" /\ c.answer = <<>>  BY <2>1, NothingAccepted
    <2>2. CASE c.status = "200" /\ BatchOK(req[d], external, c.batch) /\ c.answer = answered(c.batch)
      BY <1>2, <2>2, AnsweredIsReply, ReplyIsHeld
    <2> QED  BY <1>1, <1>2, <2>1, <2>2 DEF CallOK
  <1> HIDE DEF c, taken
  <1>6. AcceptedInv(req, accepted', external)
    <2>1. CASE taken  BY <1>1, <1>5, <2>1 DEF EInv, AcceptedInv
    <2>2. CASE ~taken  BY <1>1, <2>2 DEF EInv
    <2> QED  BY <2>1, <2>2
  <1>7. settled' \in [Delivery -> {"open", "done", "dead"}] /\ ServerInv'
    BY <1>1 DEF EInv, ServerInv, serverVars
  <1>8. DeadIsUnservable'
    <2>1. settled \in [Delivery -> {"open", "done", "dead"}] /\ DeadIsUnservable  BY DEF EInv
    <2>2. \A e \in Delivery : settled'[e] = "dead" => settled[e] = "dead" \/ (e = d /\ c.status \in Permanent)
      BY <1>1, <2>1
    <2> QED  BY <1>1, <1>4, <2>1, <2>2 DEF DeadIsUnservable, laneImplemented
  <1> QED  BY <1>1, <1>3, <1>6, <1>7, <1>8, NoWrite DEF EInv

LEMMA LoseAnswerKeepsEInv ==
    ASSUME EInv, NEW d \in Delivery, NEW n \in Attempt(d), LoseAnswer(d, n) \/ PushRefused(d, n)
    PROVE  EInv'
  <1> DEFINE c == call[d][n]
             new == [at |-> "abandoned", status |-> c.status, batch |-> c.batch, answer |-> c.answer]
  <1>1. UNCHANGED <<serverVars, req, platformVars, remembered, slips, external, torn>>
    BY DEF LoseAnswer, PushRefused
  <1>2. CallsInv(req, call', external, torn)
    <2>1. CASE call' = [call EXCEPT ![d][n] = Over]  BY <2>1, CallOver
    <2>2. CASE c.at = "component" /\ call' = [call EXCEPT ![d][n].at = "abandoned"]
      <3>1. CallOK(req[d], external, d \in torn, c) /\ IsCall(c)  BY Standing DEF CallOK, IsCall
      <3>2. call = [e \in Delivery |-> call[e]] /\ call[d] = [m \in Attempt(d) |-> call[d][m]]
        BY Standing
      <3>3. setAt(d, n, "abandoned") = setCall(d, n, "abandoned", c.status, c.batch, c.answer)
        BY <3>1, <3>2, FieldsSet
      <3>4. call' = [call EXCEPT ![d][n] = new]  BY <2>2, <3>3 DEF setAt, setCall
      <3>5. CallOK(req[d], external, d \in torn, new)  BY <2>2, <3>1 DEF CallOK
      <3> HIDE DEF new
      <3> QED  BY <3>4, <3>5, CallSet
    <2> QED  BY <2>1, <2>2 DEF LoseAnswer, PushRefused
  <1> QED  BY <1>1, <1>2, OnlyCalls DEF EInv

LEMMA NextKeepsEInv ==
    ASSUME EInv, [Next]_vars
    PROVE  EInv'
  <1>1. CASE UNCHANGED vars
    BY <1>1, OnlyCalls DEF vars, EInv
  <1>2. CASE Server  BY <1>2, ServerKeepsEInv
  <1>3. ASSUME NEW d \in Delivery, NEW n \in Attempt(d),
               PushRefused(d, n) \/ servePush(d, n) \/ ComponentStep(d, n) \/ Hear(d, n) \/ LoseAnswer(d, n)
        PROVE  EInv'
    <2>1. CASE PushRefused(d, n) \/ LoseAnswer(d, n)  BY <2>1, LoseAnswerKeepsEInv
    <2>2. CASE servePush(d, n)  BY <2>2, ServePushKeepsEInv
    <2>3. CASE Hear(d, n)  BY <2>3, HearKeepsEInv
    <2>4. CASE ComponentStep(d, n)
      BY <2>4, ApplyKeepsEInv, SayKeepsEInv, ComponentEndsKeepsEInv, ReplayKeepsEInv DEF ComponentStep
    <2> QED  BY <1>3, <2>1, <2>2, <2>3, <2>4
  <1> QED  BY <1>1, <1>2, <1>3 DEF Next
-----------------------------------------------------------------------------
\* The theorems.

\* The inductive invariant holds in every reachable state of the egress
\* runtime, whatever its deliveries, retries and restarts.
THEOREM EInvHolds == Spec => []EInv
  <1>1. Init => EInv  BY InitKeepsEInv
  <1>2. EInv /\ [Next]_vars => EInv'  BY NextKeepsEInv
  <1> QED  BY <1>1, <1>2, PTL DEF Spec

LEMMA EInvIsTyped ==
    ASSUME EInv
    PROVE  TypeOK
  <1>1. ASSUME NEW d \in Delivery, NEW n \in Attempt(d)
        PROVE  /\ call[d][n].at \in {"unsent", "component", "answered", "abandoned", "over"}
               /\ call[d][n].status \in Permanent \cup Retriable \cup {"none", "200"}
               /\ \A i \in DOMAIN call[d][n].batch.results : call[d][n].batch.results[i] \in SyncResult
    <2>1. CallOK(req[d], external, d \in torn, call[d][n])  BY Standing
    <2> DEFINE b == call[d][n].batch
    <2>2. b = NoBatch \/ BatchOK(req[d], external, b)  BY <2>1 DEF CallOK
    <2> HIDE DEF b
    <2>3. b = NoBatch => DOMAIN b.results = {}  BY DEF NoBatch
    <2>4. BatchOK(req[d], external, b) => \A i \in DOMAIN b.results : b.results[i] \in SyncResult
      BY DEF BatchOK, Stable
    <2> QED  BY <2>1, <2>2, <2>3, <2>4 DEF CallOK, b
  <1>2. \A i \in Id : external[i].live \in BOOLEAN /\ external[i].bare \in BOOLEAN  BY DEF EInv, External
  <1> QED  BY <1>1, <1>2 DEF TypeOK, EInv, ServerInv

\* Every variable of the egress runtime keeps its type: verdicts stay among
\* those egress/types.go defines.
THEOREM EgressTypeOK == Spec => []TypeOK
  <1>1. EInv => TypeOK  BY EInvIsTyped
  <1> QED  BY <1>1, EInvHolds, PTL

LEMMA EInvAnswers ==
    ASSUME EInv
    PROVE  ReplyIsAcceptable
  <1> SUFFICES ASSUME NEW d \in Delivery, NEW n \in Attempt(d),
                      call[d][n].at = "answered", call[d][n].status = "200"
               PROVE  acceptable(req[d], call[d][n].answer) /\ successesSaid(call[d][n])
    BY DEF ReplyIsAcceptable
  <1> DEFINE c == call[d][n]
  <1>1. req[d] \in Request /\ CallOK(req[d], external, d \in torn, c)  BY Standing
  <1>2. CASE req[d].items = <<>> /\ c.answer = <<>>
    <2> DEFINE r == req[d]
    <2>1. {r.items[k].id : k \in 1..Len(r.items)} \ {NoId} = {}  BY <1>2
    <2>2. Cardinality({}) = 0  BY FS_EmptySet
    <2>3. Len(c.answer) = 0  BY <1>2
    <2> HIDE DEF r, c
    <2>4. acceptable(r, c.answer)
      <3>1. 1..Len(c.answer) = {}  BY <2>3
      <3>2. {c.answer[k].id : k \in 1..Len(c.answer)} = {}  BY <3>1
      <3>3. Len(c.answer) = Cardinality({r.items[k].id : k \in 1..Len(r.items)} \ {NoId})  BY <2>1, <2>2, <2>3
      <3> QED  BY <2>1, <3>1, <3>2, <3>3 DEF acceptable
    <2>5. successesSaid(c)  BY <2>3 DEF successesSaid
    <2> QED  BY <2>4, <2>5 DEF r, c
  <1>3. CASE BatchOK(req[d], external, c.batch) /\ c.answer = answered(c.batch)
    <2> DEFINE b == c.batch
    <2>1. b.ids = distinctIds(req[d].items) /\ b.verb = verb(req[d].lane) /\ \A i \in DOMAIN b.results : Stable(b.results[i])
      BY <1>3 DEF BatchOK
    <2>2. b.ids \in Seq(Id \cup {NoId})  BY <1>1, <2>1, RequestIds
    <2>3. acceptable(req[d], answered(b))  BY <1>1, <2>1, AnsweredIsAcceptable
    <2>4. ASSUME NEW k \in 1..Len(answered(b)), answered(b)[k].r.outcome # "failed"
          PROVE  /\ answered(b)[k].id \in DOMAIN b.results
                 /\ b.results[answered(b)[k].id].outcome = answered(b)[k].r.outcome
      BY <2>1, <2>2, <2>4, AnsweredIsSaid
    <2> QED  BY <1>3, <2>3, <2>4 DEF successesSaid
  <1> QED  BY <1>1, <1>2, <1>3 DEF CallOK

\* For every list of requested records, every lane and every order, repetition
\* or absence of verdicts, a 200 reply carries exactly one permitted verdict
\* for each distinct id, and reports as done only what the component said of
\* that record in this attempt.  [batch.go, relationship.go Results]
THEOREM EgressReplyIsAcceptable == Spec => []ReplyIsAcceptable
  <1>1. EInv => ReplyIsAcceptable  BY EInvAnswers
  <1> QED  BY <1>1, EInvHolds, PTL

LEMMA EInvAccepts ==
    ASSUME EInv
    PROVE  AcceptedIsHeld
  <1>1. ASSUME NEW d \in Delivery, NEW k \in 1..Len(accepted[d]), NEW e, e = accepted[d][k],
               req[d].lane = "sync", itemStamp(d, e.id) # NoStamp, ~external[e.id].bare,
               e.r.outcome \in {"created", "updated"} \/ e.r.code = StaleVersion
        PROVE  /\ external[e.id].stamp # NoStamp
               /\ position(external[e.id].stamp) >= position(Truncated(itemStamp(d, e.id)))
    <2>1. AcceptedOK(req[d], external, accepted[d])  BY DEF EInv, AcceptedInv
    <2>2. HeldIfClaimed(req[d], external, e.id, e.r) /\ (e.r.outcome \in {"created", "updated"} => e.r.ext # "")
      BY <1>1, <2>1 DEF AcceptedOK
    <2>3. Claims(e.r)  BY <1>1, <2>2 DEF Claims
    <2>4. Held(req[d], external, e.id)  BY <2>2, <2>3 DEF HeldIfClaimed
    <2>5. itemStamp(d, e.id) = stampIn(req[d], e.id)  BY DEF itemStamp, stampIn
    <2> QED  BY <1>1, <2>4, <2>5 DEF Held
  <1> QED  BY <1>1 DEF AcceptedIsHeld

\* When the platform has taken a stamped record as pushed or as stale, the
\* external system holds that version or a later one, for every history, every
\* number of deliveries and attempts and every interleaving of them with
\* lost answers, abandoned calls and restarts.  [version.go IsStale]
THEOREM EgressAcceptedIsHeld == Spec => []AcceptedIsHeld
  <1>1. EInv => AcceptedIsHeld  BY EInvAccepts
  <1> QED  BY <1>1, EInvHolds, PTL

\* A delivery the platform gave up for good was malformed, or in a lane the
\* component does not implement: neither the gate, a throttle nor a fault of
\* the component ever costs a batch.  [server.go servePush, writeSyncError]
THEOREM EgressDeadIsUnservable == Spec => []DeadIsUnservable
  <1>1. EInv => DeadIsUnservable  BY DEF EInv
  <1> QED  BY <1>1, EInvHolds, PTL

LEMMA StepForward ==
    ASSUME EInv, [Next]_vars
    PROVE  StampsForward(external, external')
  <1>1. CASE \E d \in Delivery : \E n \in Attempt(d) : \E id \in Id : Apply(d, n, id)
    BY <1>1, ApplyKeepsEInv
  <1>2. CASE external' = external
    <2>1. ASSUME NEW i \in Id, external[i].stamp # NoStamp PROVE position(external[i].stamp) \in Nat
      <3>1. external[i].stamp \in StoredStamps  BY DEF EInv, External
      <3>2. PICK k \in Versions : external[i].stamp = Truncated(History[k])  BY <2>1, <3>1 DEF StoredStamps
      <3> QED  BY <3>2, PositionIs, VersionIsStamp
    <2> QED  BY <1>2, <2>1 DEF StampsForward
  <1>3. CASE UNCHANGED vars  BY <1>2, <1>3 DEF vars
  <1>4. CASE Server
    BY <1>2, <1>4 DEF Server, Connected, retryConnect, Leave, ShutdownDone, ShutdownTimesOut, ServeFails, Exit, Restart
  <1>5. ASSUME NEW d \in Delivery, NEW n \in Attempt(d),
               PushRefused(d, n) \/ servePush(d, n) \/ Hear(d, n) \/ LoseAnswer(d, n)
        PROVE  external' = external
    BY <1>5 DEF PushRefused, servePush, Hear, LoseAnswer
  <1>6. ASSUME NEW d \in Delivery, NEW n \in Attempt(d), ComponentStep(d, n)
        PROVE  external' = external \/ \E id \in Id : Apply(d, n, id)
    BY <1>6 DEF ComponentStep, Say, ComponentReturns, Replay, ComponentFails
  <1> QED  BY <1>1, <1>2, <1>3, <1>4, <1>5, <1>6 DEF Next

\* No step of any actor replaces the stamp of a record by an earlier version's,
\* for every history: the order of version.go survives the digits an external
\* system drops.  [version.go Compare, IsStale]
THEOREM EgressStampNeverRegresses == Spec => StampNeverRegresses
  <1>1. EInv /\ [Next]_vars =>
           [\A i \in Id : external[i].stamp # NoStamp /\ external'[i].stamp # NoStamp =>
               position(external'[i].stamp) >= position(external[i].stamp)]_vars
    BY StepForward DEF StampsForward
  <1> QED  BY <1>1, EInvHolds, PTL DEF Spec, StampNeverRegresses

\* A redelivery answered from recorded verdicts gets the recorded reply
\* unchanged, for every reply: Record takes back everything Results gives out.
\* [types.go isSDKMintedReplay, batch.go Record]
THEOREM EgressReplayIsExact == Spec => ReplayIsExact
  <1>1. EInv /\ [Next]_vars =>
           [\A d \in Delivery : \A n \in Attempt(d) :
               Replay(d, n) /\ call[d][n].at = "component" => call'[d][n].answer = remembered[d]]_vars
    BY ReplayKeepsEInv
  <1> QED  BY <1>1, EInvHolds, PTL DEF Spec, ReplayIsExact
=============================================================================
