----------------------------- MODULE EgressBatch -----------------------------
(***************************************************************************)
(* The verdict book-keeping of an egress push (egress/batch.go,            *)
(* egress/relationship.go), the outcomes a lane accepts and the reason     *)
(* codes a component may use (egress/types.go), and the order of entity    *)
(* versions (egress/version.go), as operators.                             *)
(*                                                                         *)
(* A verdict keeps what the platform's acceptance rule and its run report  *)
(* tell apart: the outcome, whether an external record id came with it     *)
(* ("" when not) and the reason code.  A code the SDK refuses (overlong,   *)
(* with a space, or with a reserved prefix) is the one value Refused.      *)
(***************************************************************************)
EXTENDS Naturals, Sequences

CONSTANT NoId    \* the empty id

Outcomes == {"created", "updated", "skipped", "failed", "withdrawn"}
Valid(o) == o \in Outcomes
Misspelt == "craeted"    \* an outcome no lane knows

permits(verb, o) ==
    \/ o \in {"skipped", "failed"}
    \/ o \in {"created", "updated"} /\ verb = "push"
    \/ o = "withdrawn" /\ verb = "withdraw"

-----------------------------------------------------------------------------
\* Reason codes.

NoCode == ""
Refused == "refused"
StaleVersion == "stale_version"
NoVerdict == "sdk:no_verdict"
UnrecognizedOutcome == "sdk:unrecognized_outcome"
MissingExternalRecordID == "sdk:missing_external_record_id"
NoReason == "sdk:no_reason"
Minted == {NoVerdict, UnrecognizedOutcome, MissingExternalRecordID, NoReason}
Codes == Minted \cup {NoCode, StaleVersion, Refused}

\* A code of the SDK's own namespace is refused like any reserved one.
normalizeReasonCode(code) == IF code \in Minted \cup {Refused} THEN NoCode ELSE code

SyncResult == [outcome : Outcomes \cup {Misspelt}, ext : {"", "x"}, code : Codes]
Verdict(o, ext, code) == [outcome |-> o, ext |-> ext, code |-> code]
normalizedFailure(code) == Verdict("failed", "", code)

\* Mutant: a replayed code is refused like any reserved one.
MutNoReplay(r) == FALSE
isSDKMintedReplay(r) == r.outcome = "failed" /\ r.code \in Minted

-----------------------------------------------------------------------------
\* Batch: the requested ids in request order, one verdict at most for each.

\* Mutant: a repeated id is answered as often as it is asked.
MutEveryId(items) == [k \in 1..Len(items) |-> items[k].id]

\* Empty ids are passed over and a repeated id is answered once.
distinctIds(items) ==
    LET first(k) == \A j \in 1..(k - 1) : items[j].id # items[k].id
        keep[k \in 0..Len(items)] ==
            IF k = 0 THEN <<>>
            ELSE IF items[k].id # NoId /\ first(k) THEN Append(keep[k - 1], items[k].id)
            ELSE keep[k - 1]
    IN  keep[Len(items)]

newLaneBatch(verb, items) ==
    [verb |-> verb, ids |-> distinctIds(items), results |-> <<>>]

newLaneRelationshipBatch(verb, items) ==
    [verb |-> verb, ids |-> distinctIds(items), results |-> <<>>]

known(b) == {b.ids[k] : k \in 1..Len(b.ids)}

\* A verdict for an id that was not asked about is dropped; the last of
\* several verdicts for one id wins.
record(b, id, r) ==
    IF id \notin known(b) THEN b
    ELSE [b EXCEPT !.results = [i \in DOMAIN b.results \cup {id} |->
                                   IF i = id THEN r ELSE b.results[i]]]

Created(b, id, ext) == record(b, id, Verdict("created", ext, NoCode))
Updated(b, id, ext) == record(b, id, Verdict("updated", ext, NoCode))
Withdrawn(b, id) == record(b, id, Verdict("withdrawn", "", NoCode))
Skipped(b, id) == record(b, id, Verdict("skipped", "", NoCode))
SkippedReason(b, id, code) == record(b, id, Verdict("skipped", "", normalizeReasonCode(code)))

\* said: the component gave a reason in words.
Failed(b, id, said) == record(b, id, Verdict("failed", "", IF said THEN NoCode ELSE NoReason))
FailedReason(b, id, code, said) ==
    LET c == normalizeReasonCode(code)
    IN  record(b, id, Verdict("failed", "", IF ~said /\ c = NoCode THEN NoReason ELSE c))

\* An arbitrary verdict; a failed one the SDK itself coded keeps its code.
Record(b, id, r) ==
    record(b, id, IF isSDKMintedReplay(r) THEN r
                  ELSE [r EXCEPT !.code = normalizeReasonCode(@)])

Pending(b) == known(b) \ DOMAIN b.results

needsRecordID(o) == o \in {"created", "updated"}
outcomeViolation(verb, o) == ~Valid(o) \/ ~permits(verb, o)

\* What is said of one requested id: the verdict given, or the failure its
\* absence or its defect is turned into.
verdictOf(b, id) ==
    IF id \notin DOMAIN b.results THEN normalizedFailure(NoVerdict)
    ELSE LET r == b.results[id]
         IN  IF outcomeViolation(b.verb, r.outcome) THEN normalizedFailure(UnrecognizedOutcome)
             ELSE IF needsRecordID(r.outcome) /\ r.ext = ""
                  THEN normalizedFailure(MissingExternalRecordID)
             ELSE r

answered(b) == [k \in 1..Len(b.ids) |-> [id |-> b.ids[k], r |-> verdictOf(b, b.ids[k])]]
Results(b) == answered(b)
RelationshipResults(b) == answered(b)

-----------------------------------------------------------------------------
\* EntityVersion: when the entity was created, in half milliseconds, and its
\* version number.  A record without a stamp holds NoStamp.

NoStamp == [at |-> 0, no |-> 0]
ms(at) == at \div 2

\* An external system may keep the instant with fewer digits.
Truncated(v) == IF v = NoStamp THEN v ELSE [v EXCEPT !.at = 2 * ms(@)]

\* Mutant: the version number alone decides.
MutByNumber(v, w) == v.no < w.no
\* Mutant: the instants are compared with all their digits.
MutToTheDigit(v, w) == \/ v.at < w.at
                       \/ v.at = w.at /\ v.no < w.no

Older(v, w) == \/ ms(v.at) < ms(w.at)
               \/ ms(v.at) = ms(w.at) /\ v.no < w.no

IsStale(incoming, stored) ==
    incoming # NoStamp /\ stored # NoStamp /\ Older(incoming, stored)
=============================================================================
