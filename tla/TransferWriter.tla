--------------------------- MODULE TransferWriter ---------------------------
(***************************************************************************)
(* One transfer.Writer (bufferedWriter, transfer/writer.go) from NewWriter *)
(* to Close or Discard, with the HTTPCommitClient it commits through       *)
(* (transfer/http_client.go) and the platform's loader endpoint (external).*)
(*                                                                         *)
(* A body is a sequence of NDJSON lines: the header or a record.  A hash   *)
(* is modelled as the lines it was fed, so two bodies have the same hash   *)
(* exactly when they are the same lines.  Calls the code refuses with an   *)
(* early return that changes nothing are stuttering steps.                 *)
(***************************************************************************)
EXTENDS Naturals, Sequences, FiniteSets

CONSTANTS Record,           \* the values a kit may pass to Write*
          Invalid,          \* records a Write* method refuses (a required field is empty)
          Unmarshalable,    \* records json.Encoder cannot encode (a NaN property, a channel)
          Header,           \* the header line
          LineLen,          \* encoded length of each line
          InlineBodyLimit,  \* the largest body that stays in memory
          MaxLines          \* bound: the number of lines a body may reach

Line == Record \cup {Header}

ASSUME WriterAssumption ==
    /\ Invalid \subseteq Record
    /\ Unmarshalable \subseteq Record
    /\ Header \notin Record
    /\ LineLen \in [Line -> Nat]
    /\ InlineBodyLimit \in Nat
    /\ MaxLines \in Nat

VARIABLES
    optErr,     \* a WriterOption was rejected at construction
    closed, discarded, count,
    body,       \* size, buf, spool, spooled, hash and writeErr of bufferedWriter
    pc,         \* what Close is waiting for: "idle", "prepare", "put", "complete"
    result,     \* what Close returned: "none", "receipt", "error", "client_refused"
    acked,      \* history: records whose Write* returned nil
    misfits,    \* history: headers written for a first record that did not encode
    wire,       \* loader.complete requests sent and not yet acted on
    reply,      \* the platform's answer to the request Close waits for
    staged,     \* the object stored behind the presigned URL, if any
    accepted    \* the artifacts loader.complete took, in order

writerVars == <<optErr, closed, discarded, count, body>>
platformVars == <<wire, reply, staged, accepted>>
vars == <<writerVars, pc, result, acked, misfits, platformVars>>

Writable == Record \ (Invalid \cup Unmarshalable)
SpoolKind == {"nil", "unlinked", "named"}
Body == [size : Nat, buf : Seq(Line), spool : SpoolKind, spooled : Seq(Line),
         hash : Seq(Line), err : BOOLEAN]
Request == [mode : {"inline", "presigned"}, content : Seq(Line), hash : Seq(Line),
            count : Nat, size : Nat]

TypeOK ==
    /\ optErr \in BOOLEAN
    /\ closed \in BOOLEAN
    /\ discarded \in BOOLEAN
    /\ count \in Nat
    /\ body \in Body
    /\ pc \in {"idle", "prepare", "put", "complete"}
    /\ result \in {"none", "receipt", "error", "client_refused"}
    /\ acked \in Seq(Writable)
    /\ misfits \in Nat
    /\ wire \in SUBSET Request
    /\ reply \in {"none", "job", "nojob", "refused"}
    /\ staged \in SUBSET Seq(Line)
    /\ accepted \in Seq(Request)

EmptyBody == [size |-> 0, buf |-> <<>>, spool |-> "nil", spooled |-> <<>>,
              hash |-> <<>>, err |-> FALSE]

\* NewWriter: WithUpstreamRef may have been given an over-length value.
Init ==
    /\ optErr \in BOOLEAN
    /\ closed = FALSE
    /\ discarded = FALSE
    /\ count = 0
    /\ body = EmptyBody
    /\ pc = "idle"
    /\ result = "none"
    /\ acked = <<>>
    /\ misfits = 0
    /\ wire = {}
    /\ reply = "none"
    /\ staged = {}
    /\ accepted = <<>>

-----------------------------------------------------------------------------
\* The body.  Each operator is the set of bodies one call may leave behind.

\* startSpool: no temp file can be created; the copy from memory fails; or
\* the body now lives in the file, kept by name only where the unlink failed.
startSpool(b) ==
    {[b EXCEPT !.err = TRUE]}
    \cup {[b EXCEPT !.spool = s, !.err = TRUE] : s \in {"unlinked", "named"}}
    \cup {[b EXCEPT !.spool = s, !.spooled = b.buf, !.buf = <<>>] : s \in {"unlinked", "named"}}

\* A write lands where the body lives; only then is it hashed and counted.
landIn(b, line) ==
    IF b.spool = "nil"
    THEN [b EXCEPT !.buf = Append(@, line), !.hash = Append(@, line),
                   !.size = @ + LineLen[line]]
    ELSE [b EXCEPT !.spooled = Append(@, line), !.hash = Append(@, line),
                   !.size = @ + LineLen[line]]

\* A write to the spool may fail; a write to memory does not.
appendTo(b, line) ==
    IF b.err THEN {b}
    ELSE IF b.spool = "nil" THEN {landIn(b, line)}
    ELSE {landIn(b, line), [b EXCEPT !.err = TRUE]}

mustSpool(b, line) == b.spool = "nil" /\ b.size + LineLen[line] > InlineBodyLimit

appendBody(b, line) ==
    IF mustSpool(b, line)
    THEN UNION {appendTo(c, line) : c \in startSpool(b)}
    ELSE appendTo(b, line)

\* releaseBody: memory and descriptor go; the sticky error, size and hash stay.
releaseBody(b) ==
    [size |-> b.size, buf |-> <<>>, spool |-> "nil", spooled |-> <<>>,
     hash |-> b.hash, err |-> b.err]

-----------------------------------------------------------------------------
\* The caller's operations.

Usable == ~optErr /\ ~discarded /\ ~closed /\ ~body.err

\* The required-field checks of WriteVertex, WriteEdge, WriteEntityType,
\* WriteRelationshipType and WriteHierarchy.
Valid(r) == r \notin Invalid

\* Mutant: the header is written before every record.
MutHeaderEachRecord == TRUE

headerNeeded == count = 0

\* writeEnvelope: the header before the first record, then the record.  An
\* I/O failure is kept in body.err; a record that does not encode leaves the
\* body as it is, the header included, and the next one writes it again.
Write(r) ==
    /\ Valid(r)
    /\ Usable
    /\ Len(body.hash) + 1 < MaxLines
    /\ \E b \in IF headerNeeded THEN appendBody(body, Header) ELSE {body} :
         IF b.err \/ r \in Unmarshalable
         THEN /\ body' = b
              /\ misfits' = IF headerNeeded /\ ~b.err THEN misfits + 1 ELSE misfits
              /\ UNCHANGED <<count, acked>>
         ELSE \E c \in appendBody(b, r) :
                /\ body' = c
                /\ count' = IF c.err THEN count ELSE count + 1
                /\ acked' = IF c.err THEN acked ELSE Append(acked, r)
                /\ UNCHANGED misfits
    /\ UNCHANGED <<optErr, closed, discarded, pc, result, platformVars>>

\* Mutant: Discard forgets the spool.
MutDiscardKeepsSpool ==
    /\ ~closed
    /\ closed' = TRUE
    /\ discarded' = TRUE
    /\ UNCHANGED <<optErr, count, body, pc, result, acked, misfits, platformVars>>

\* Discard: commits nothing; a no-op once the writer is closed.
Discard ==
    /\ ~closed
    /\ closed' = TRUE
    /\ discarded' = TRUE
    /\ body' = releaseBody(body)
    /\ UNCHANGED <<optErr, count, pc, result, acked, misfits, platformVars>>

\* Close returns: the body is released on every outcome, and a failure to
\* release it never turns a receipt into an error.
Return(res) ==
    /\ pc' = "idle"
    /\ result' = res
    /\ body' = releaseBody(body)

\* Close of a writer whose option was rejected at construction.
CloseRejectedOption ==
    /\ optErr
    /\ closed' = TRUE
    /\ Return("error")
    /\ UNCHANGED <<optErr, discarded, count, acked, misfits, platformVars>>

Closable == ~optErr /\ ~discarded /\ ~closed

\* commit refuses a body that may be missing bytes: a sticky write error, or
\* a flush of the spool buffer that fails.
CloseBroken ==
    /\ Closable
    /\ body.err \/ body.spool # "nil"
    /\ closed' = TRUE
    /\ Return("error")
    /\ UNCHANGED <<optErr, discarded, count, acked, misfits, platformVars>>

completeRequest(mode, content) ==
    [mode |-> mode, content |-> content, hash |-> body.hash, count |-> count, size |-> body.size]

\* Complete (client side): exactly one of upload_token and inline_body.
clientRefuses(content) == content = <<>>

CloseInline ==
    /\ Closable
    /\ ~body.err
    /\ body.spool = "nil"
    /\ closed' = TRUE
    /\ IF clientRefuses(body.buf)
       THEN Return("client_refused") /\ UNCHANGED wire
       ELSE /\ pc' = "complete"
            /\ wire' = {completeRequest("inline", body.buf)}
            /\ UNCHANGED <<result, body>>
    /\ UNCHANGED <<optErr, discarded, count, acked, misfits, reply, staged, accepted>>

\* The spool flushed: commitPresigned asks for an upload URL and token.
ClosePresigned ==
    /\ Closable
    /\ ~body.err
    /\ body.spool # "nil"
    /\ closed' = TRUE
    /\ pc' = "prepare"
    /\ UNCHANGED <<optErr, discarded, count, body, result, acked, misfits, platformVars>>

\* loader.prepare_upload answers with both fields.
PrepareOK ==
    /\ pc = "prepare"
    /\ pc' = "put"
    /\ UNCHANGED <<writerVars, result, acked, misfits, platformVars>>

\* It fails, or answers without upload_url or upload_token.
PrepareFails ==
    /\ pc = "prepare"
    /\ Return("error")
    /\ UNCHANGED <<optErr, closed, discarded, count, acked, misfits, platformVars>>

\* PutBytes: a 2xx means the object is stored, and Complete follows.
PutOK ==
    /\ pc = "put"
    /\ staged' = {body.spooled}
    /\ pc' = "complete"
    /\ wire' = {completeRequest("presigned", body.spooled)}
    /\ UNCHANGED <<writerVars, result, acked, misfits, reply, accepted>>

\* Anything else is a failure, whether or not the object was stored.
PutFails ==
    /\ pc = "put"
    /\ staged' \in {{}, {body.spooled}}
    /\ Return("error")
    /\ UNCHANGED <<optErr, closed, discarded, count, acked, misfits, wire, reply, accepted>>

\* Mutant: any answer counts as acceptance.
MutAnyAnswerIsReceipt ==
    /\ pc = "complete"
    /\ reply # "none"
    /\ Return("receipt")
    /\ UNCHANGED <<optErr, closed, discarded, count, acked, misfits, platformVars>>

\* The answer to loader.complete: a job id, or a refusal, or no job id.
CompleteAnswered ==
    /\ pc = "complete"
    /\ reply # "none"
    /\ Return(IF reply = "job" THEN "receipt" ELSE "error")
    /\ UNCHANGED <<optErr, closed, discarded, count, acked, misfits, platformVars>>

\* Mutant: the HTTP client has no timeout.
MutNoTimeout == FALSE

\* No answer: connection lost, client timeout or cancelled context.  The
\* request may still be on its way.
CompleteUnanswered ==
    /\ pc = "complete"
    /\ Return("error")
    /\ UNCHANGED <<optErr, closed, discarded, count, acked, misfits, platformVars>>

-----------------------------------------------------------------------------
\* The platform's loader.complete, as the client's comments describe it.

\* It takes a body whose hash is the declared one.
PlatformAccept ==
    \E q \in wire :
        /\ q.content = q.hash
        /\ q.mode = "presigned" => staged = {q.content}
        /\ accepted' = Append(accepted, q)
        /\ reply' \in {"job", "nojob"}
        /\ wire' = wire \ {q}
        /\ UNCHANGED <<writerVars, pc, result, acked, misfits, staged>>

\* It refuses the request (hash mismatch, authorization, rate limit).
PlatformRefuse ==
    \E q \in wire :
        /\ wire' = wire \ {q}
        /\ reply' = "refused"
        /\ UNCHANGED <<writerVars, pc, result, acked, misfits, staged, accepted>>

\* The request never arrives.
RequestLost ==
    \E q \in wire :
        /\ wire' = wire \ {q}
        /\ UNCHANGED <<writerVars, pc, result, acked, misfits, reply, staged, accepted>>

ClientStep ==
    \/ PrepareOK \/ PrepareFails \/ PutOK \/ PutFails
    \/ CompleteAnswered \/ CompleteUnanswered

Next ==
    \/ \E r \in Record : Write(r)
    \/ Discard
    \/ CloseRejectedOption \/ CloseBroken \/ CloseInline \/ ClosePresigned
    \/ ClientStep
    \/ PlatformAccept \/ PlatformRefuse \/ RequestLost

\* Every HTTP call ends: the client has a timeout (5 minutes by default).
Spec == Init /\ [][Next]_vars /\ WF_vars(ClientStep)

-----------------------------------------------------------------------------
\* Properties.

\* s is the records recs, in order, behind exactly k header lines.
Framed(s, k, recs) ==
    /\ Len(s) = k + Len(recs)
    /\ \A i \in 1..k : s[i] = Header
    /\ \A i \in 1..Len(recs) : s[k + i] = recs[i]

\* The headers of a body: one with the first record, none without records, and
\* one more for each record that failed to encode before the first was in.
headers == misfits + (IF acked = <<>> THEN 0 ELSE 1)

\* An artifact the platform took holds exactly the records whose Write*
\* returned nil, in order, and declares that many entries: no I/O failure,
\* encoding failure or move to the spool loses or adds one, and what came
\* inline fits InlineBodyLimit.  The comment at writer.go:398 promises the
\* header "once on first record" and no "header-only blob".  The code keeps
\* that, exactly, as long as no record fails to encode before the first one
\* is in; each that does leaves a header of its own, which Close commits even
\* when no record follows.  [writer.go writeEnvelope, appendBody, commit]
ArtifactIsWhatWasAcked ==
    \A i \in DOMAIN accepted :
        /\ Framed(accepted[i].content, headers, acked)
        /\ accepted[i].count = Len(acked)
        /\ accepted[i].mode = "inline" => accepted[i].size <= InlineBodyLimit

\* One writer never gets two artifacts into the platform, although an
\* unanswered loader.complete leaves the caller not knowing (the double commit
\* the comment in Close is about).
AtMostOneArtifact ==
    Len(accepted) + Cardinality(wire) <= 1

\* Close hands out a Receipt only for an artifact the platform really took,
\* and the writer's own count is what the platform was told.
ReceiptIsTruthful ==
    result = "receipt" => Len(accepted) = 1 /\ accepted[1].count = count

\* A writer that lost bytes, was discarded, or was built with a rejected
\* option commits nothing, now or later.
FailedWriterNeverCommits ==
    optErr \/ discarded \/ body.err => accepted = <<>> /\ wire = {}

\* Once Close returned or Discard ran, neither the buffer nor the spool
\* descriptor is held, whichever path ended the writer.
BodyReleased ==
    closed /\ pc = "idle" => body.buf = <<>> /\ body.spool = "nil"

\* What is sent inline never exceeds InlineBodyLimit, and what is sent as an
\* upload token is in storage under it when the platform looks.
TransportFitsBody ==
    \A q \in wire :
        /\ q.mode = "inline" => q.size <= InlineBodyLimit
        /\ q.mode = "presigned" => staged = {q.content}

\* The running hash is the hash of the body wherever it now lives, so the
\* platform's integrity check never refuses what the writer built.
HashIsOfBody ==
    ~closed /\ ~body.err => body.hash = body.buf \o body.spooled

\* Close always returns (no reply, a lost request and a dead upload included).
CloseReturns == pc # "idle" ~> pc = "idle"

-----------------------------------------------------------------------------
\* The writer implements ArtifactCommit.

\* The records of an artifact: what follows its leading header lines.
recordsOf(content) ==
    LET k == CHOOSE n \in 0..Len(content) :
                /\ \A i \in 1..n : content[i] = Header
                /\ n < Len(content) => content[n + 1] # Header
    IN  SubSeq(content, k + 1, Len(content))

phaseOf ==
    IF ~closed THEN "open"
    ELSE IF pc # "idle" THEN "committing"
    ELSE IF wire # {} THEN "indoubt"
    ELSE "settled"

Promise == INSTANCE ArtifactCommit WITH
    records  <- acked,
    phase    <- phaseOf,
    receipt  <- result = "receipt",
    platform <- [i \in DOMAIN accepted |-> recordsOf(accepted[i].content)]

\* The writer keeps the promise of ArtifactCommit, seen through the records it
\* acknowledged and the artifacts the platform took.
KeepsPromise == Promise!Spec
=============================================================================
