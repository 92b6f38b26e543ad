# Formal model of oga-kit-sdk

TLA+ specifications of the Go SDK that kits (connectors, loaders, agents) are
built on, the TLC runs that check them, and TLAPS proofs about them.  The Go
source is the reference: every definition that stands for code is listed in
`PROJECT.json` under `map` with the lines it models.

Contents: 1 inventory, 2 modules and how they correspond to the code,
3 runs and bounds, 4 fairness, 5 proofs, 6 disagreements found,
7 what is not modelled, 8 plan.

## 1. Inventory

The SDK is a library.  A kit links it and becomes one process: a source
connector (pulls or receives data and commits artifacts), an egress connector
(receives pushes and writes them to an external system), a loader sidecar, an
agent, or a tool server.  The platform (Frontier gateway, loader service, event
bus) is on the other side of HTTP and is not in this repository.

| component | state it keeps | operations | talks to | what is hard | what makes it correct |
|---|---|---|---|---|---|
| transfer writer (`transfer/writer.go`) | body in memory or in a spool file, running hash, count, sticky write error, closed/discarded | `Write*`, `Close`, `Discard`, options | the commit client; one owner goroutine | failing half-way, the move to disk, ending on every path | the platform holds exactly the acknowledged records, at most once |
| commit client (`transfer/http_client.go`) | none (an `http.Client` with a timeout) | `PrepareUpload`, `PutBytes`, `Complete` | the platform's loader endpoints | lost and late answers | never reports acceptance the platform did not give |
| source connector (`connector/`) | connect gate, webhook queue, worker, retry state, a cursor per binding | `ListenAndServe`, webhook handlers, `retryConnect`, `pollBinding`/`drain`/`runSync` | kit handlers, transfer writers, the provider of webhooks | six kinds of goroutine, shutdown order, bounded queue | nothing acknowledged is lost, cursors never skip data |
| egress connector (`egress/`) | connect gate, retry; a batch's verdicts | `ListenAndServe`, five push and withdrawal lanes, `Batch` verdicts, `IsStale` | kit push code, the platform | gate, partial batches, redelivery, out-of-order versions | every record of a batch gets one verdict, older versions never overwrite newer ones |
| loader sidecar and client (`loader/`) | the load in progress, a downloaded source, an open writer | `POST /load`, `GET /jobs/{id}`, single-pass and streaming kits | transfer writers, the source's server, the caller | cleanup on every path; a commit whose answer is lost | one artifact per load or none, an answer that says which, no leftover files |
| workload identity (`auth/`) | current token and its expiry, a renewal goroutine | first mint, renewal, `Token`, `Stop` | the mint endpoint, the rotated credential | renewal racing expiry and `Stop` | a token that is good when it arrives, a shutdown that ends |
| guarded download (`fetch/`) | spool files in a shared directory | `Get` with retries, `Result`, `SweepStaleSpools` | remote sources, other processes | retry classification, spool ownership, the cap at its limit | whole artifacts, no spool leaked, no live spool swept |
| kit manifest (`manifest/`) | none | `Parse`, `Validate`, egress defaults | the platform that acts on it, the connector that serves its bindings | what passes validation and then silently does nothing | what is accepted can be delivered and is served |
| outcome reports (`outcomereport/`) | none | `Handler`, `Validate` | the platform's delivery, the kit's receiver | lost answers, failing receivers | a report is given up only where nobody receives it, its body cannot be read, or the retry budget is used up |
| agent pipeline (`agent/streampipeline/`) | turn, decided steps, results, schema cache; an event channel | ReAct loop, confirmation gate, answer assembly, proactive investigations | the gateway (LLM and tools), the SSE bridge | producer and consumer over a bounded channel, state that spans two requests | no unconfirmed write, bounded work, no goroutine left behind |
| agent server (`agent/serve.go`, `default_runtime.go`) | the SSE stream of one request | message handlers, `WriteEvent`, `Close` | the A2A client | terminal statuses, client disconnects | every stream ends, and the reader is told how; the pipeline emits one terminal status, to which `Close` adds a `completed` |
| gateway client (`gateway/`) | a token provider | tool and chat calls, two stream readers | the gateway | an expiring bearer, cut streams, a caller that leaves | events are handed over whole and in order, no reader is left behind |
| MCP tool server (`mcptools/`) | registered tools, the client it owns | `Register`, `ServeMCP`, `ListenAndServe`, `Close` | the platform, kit tools, the gateway client | shutdown against running handlers and a mint | calls stay within their composition, shutdown ends |
| ontology registrar, kitlog, redact, mocks | none that changes at run time | decoding, logging | | | |

`PROJECT.json` lists each of them with its sources and status, and under
`hazards` the places where each can go wrong in a way tests hardly reach.

Interactions: a kit's `Sync` or `HandleWebhook` gets a fresh transfer writer
from the connector, writes records to it and returns; the *connector* closes
(commits) or discards it.  So the connector is modelled over what the writer
promises (`ArtifactCommit`), and the writer is shown to keep that promise; the
loader's handler uses a writer in the same way.  A tool sidecar owns a gateway
client, which owns a token manager: `ToolSidecar` extends `Identity`.  A
manifest is read by the SDK's validator, by the platform and by the component it
declares: `EgressRun` puts the three together with the outcome reports.

## 2. Modules

| module | models | 
|---|---|
| `ArtifactCommit` | what `transfer.Writer` promises, without mechanism (abstract specification) |
| `TransferWriter` | `bufferedWriter`, `HTTPCommitClient`, and the platform's loader endpoint (external) |
| `MCTransferWriter` | the instance TLC checks |
| `TransferWriterProofs` | theorems about `TransferWriter` |
| `Connector` | `connector.ListenAndServe` and everything it starts |
| `MCConnector` | the instances TLC checks |
| `ConnectorProofs` | theorems about `Connector` |
| `AgentPipeline` | one conversation with an agent: the ReAct loop and the three kinds of request around it |
| `MCAgentPipeline` | the instance TLC checks |
| `AgentPipelineProofs` | theorems about `AgentPipeline` |
| `StreamBridge` | the event channel between the pipeline's goroutine and its reader, and the SSE writer |
| `MCStreamBridge` | the instance TLC checks |
| `EgressBatch` | verdicts of a batch, reason codes and version order, as operators |
| `Egress`, `MCEgress` | `egress.ListenAndServe`, its lanes, redelivery and restarts |
| `EgressProofs` | theorems about `EgressBatch` and `Egress` |
| `Loader`, `MCLoader` | the loader sidecar with the client that calls it |
| `Fetch`, `MCFetch` | `Downloader.Get`, its retry loop, spools and the sweep, in several processes |
| `LoadProofs` | theorems about `Loader` and `Fetch` |
| `Identity` | bootstrap, token manager and renewal in discrete time |
| `ToolSidecar`, `MCToolSidecar` | `mcptools.Runtime` on a gateway client whose bearer comes from `Identity` |
| `SidecarProofs` | theorems about `ToolSidecar` and `Identity` |
| `AgentStream`, `MCAgentStream` | the stream readers of the gateway client |
| `StreamProofs` | theorems about `StreamBridge` and `AgentStream` |
| `EgressManifest` | the egress section of a manifest: reading, defaults, validation, as operators |
| `KitManifest` | the rest of `Validate`, and the connector's side of a declared binding |
| `OutcomeReport` | `Handler` and `Validate` of a report, as operators |
| `EgressRun`, `MCEgressRun` | a manifest from upload over runs and events to the report; composes the three above |
| `EgressRunProofs` | theorems about `EgressRun` and the operators it composes |

### TransferWriter

A body is a sequence of lines (the header or a record), and a hash is the
sequence it was fed, so equal hashes mean equal bodies.  `body` collects the
fields of `bufferedWriter` that hold bytes: `buf`, `spooled` (content of the
spool file), `spool` (no file; an unlinked file; a file still reachable by name
because the unlink failed), `hash`, `size` and the sticky `err`.

`appendBody`, `startSpool` and `releaseBody` are the functions of the same
names, written as sets of possible results because each I/O call may fail.
`Write(r)` is a whole `Write*` call: required fields, usability, lazy header,
record.  The header goes in before the record is encoded, so a record that does
not encode leaves its header behind while `count` is still 0; `misfits` is a
history variable that counts those, and `headers` is the exact number of header
lines a body has: `misfits`, and one with the first acknowledged record.  `Close` is `CloseRejectedOption`, `CloseBroken`, `CloseInline` or
`ClosePresigned`, then one action for each answer of the platform
(`PrepareOK/Fails`, `PutOK/Fails`, `CompleteAnswered/Unanswered`).  Requests in
flight are in `wire`: the platform may take one after the client has given up.
The platform's own actions (`PlatformAccept`, `PlatformRefuse`, `RequestLost`)
are external: all the code in this repository relies on is that it checks the
hash and takes each request at most once.

A writer has one owner (the doc comment says it is not safe for concurrent
use), so `Write` and `Close` are single steps up to the first HTTP call.

### ArtifactCommit and the refinement

`KeepsPromise` maps the writer to `ArtifactCommit`: the records are the
acknowledged ones, the platform's artifacts are the records of the accepted
requests (`recordsOf`: what follows the leading header lines), and the phase is
`open`, `committing`, `indoubt` (Close returned, a request may still arrive) or
`settled`.  TLC checks the refinement on the run's instance and `PromiseTheorem`
proves it (section 5).

### Connector

Processes and their state: `main` (ListenAndServe), `retry` (retryConnect),
one handler per delivery (`stage`), the async `worker`, one poll loop per
binding (`poll`).  `stage`, `poll` and `worker` are the program points between
which other goroutines can run: before and after a kit call, before and after a
commit.  `connectPending` is the gate; `queue` is the buffered channel;
`queueClosed` is `close(webhookQueue)`; `runCtxDone` is the cancelled run
context, which the code cancels in the same step in which it leaves its select.

`cursor` counts pages of the source.  Sync returns whether the cursor moved and
whether there is more; `covered` is a history variable of the pages that were
committed or had nothing to emit.  `outcome` is a history variable of what
became of a delivery's batch.  A commit that fails may still have reached the
platform (`CommitFails` chooses), which is `ArtifactCommit`'s `indoubt`.

Once `main = "returned"` nothing runs: the process exits when
`ListenAndServe` returns.

### AgentPipeline

One request after another, each of one `mode`: `stream` (message/stream),
`send` (message/send) or `proactive` (a detached investigation).  All three run
the same `reactLoop`; they differ in the confirmation gate (only streamed
requests can carry an answer back), in delegation (not for proactive ones) and
in how they end.  `pc` is what the request waits for: a planner decision, a tool
call, a sub-agent, an assembly or `SubmitAction`.  Between these points no other
goroutine touches the request's state, so one action covers everything up to
the next wait; only the context may end at any time (`Cancel`).

The planner is a language model and is external: `Decide` lets it fail, finish,
ask, or choose any tool with any arguments, required or not (the built-in
planners never set `required`, a condition or a dependency; a kit's own planner
may).  Tools may succeed, come back empty, fail, or not be dispatched.  `token`
is the question Frontier keeps of a streamed turn that ended with
input-required; the next streamed request may get it back as `pending` or may
not.  `answering` is a history variable: the question the user had before them.
`schemas` is the handler's schema cache, filled by one of the gateway's possible
listings (`Listing`) or empty because discovery
failed; `toolMutates` then goes by the tool's name, as in the code.

`calls` records calls as planned.  A dependent step of a kit's own planner has
identifiers filled in after the guard has compared it, so two different planned
calls can become the same one; `NoRepeatedCall` is about what was planned.

### StreamBridge

One request's pipeline goroutine and its reader over a channel of `Capacity`
events.  `entry = "stream"` is the bridge of `NewDefaultStreamHandler` over
`httpStreamWriter`, whose writes may fail; `entry = "collect"` is the loop of
`runArtifact`, `gatherSync` and `assembleSync`, which cannot.  The producer's
behaviour is what `AgentPipeline` establishes (`OneTerminalStatus`,
`RequestEnds`): events, then one terminal status, an error exactly when it is
failed or canceled; gathering and assembling on their own return without one.
Closing the channel and sending the error are two steps, in the code's order.

### EgressBatch and Egress

`EgressBatch` has one operator per verdict method of `Batch` and
`RelationshipBatch` (one body, because the two types do the same), the
normalisation in `Results`, reason codes, replay, and `EntityVersion.Compare`.
Instants are counted in half milliseconds, so that the comparison to the
millisecond can be told from one to the last digit.

`Egress` is the server around it.  `main`, `connectPending` and `retry` are
`ListenAndServe` and `retryConnect`; `call[d][n]` is attempt `n` of delivery
`d`, unsent, in the component, answered, abandoned by the platform but still
running, or over.  `servePush` is a handler up to the component's call, in the
code's order: lane implemented, gate, body, empty batch.  A body may be one that
never decodes (`wellFormed`), or break off in one attempt; the decoder answers
both with 400, which the platform does not try again (`torn` is the history of
the second).  Each row carries a stamp or none, row by row: the platform could
not read one for every record (`types.go:258`).  External, from the
contract in the package's comments: the component (it applies a record under a
lock, asks `IsStale`, may give any other verdict up to `MaxSlips` times, may
keep verdicts for a replay), the external system, which may store a stamp with
fewer digits (`Truncated`; `bare` remembers that an unstamped row replaced a
stamped record, which no stamp can prevent), and the platform, which takes a reply whole or not
at all and delivers again until it gets one or a permanent refusal.

### Loader

`load[l]` is the handler of one `POST /load`: where it is, the downloaded
source (`temp`), its writer as a phase of `ArtifactCommit`, the passes left and
the answer.  The actions follow `loadHandlerFunc`: decode, `SourceOpens`,
`CopyDone`/`CopyFails`, writer, single pass or `Plan` and `Pass`, `CloseOK` or
`CloseFails`, and `Deferred`, the deferred discard and removal, which also runs
after a kit's panic.  `client[l]` is the caller, who may stop waiting.  A commit
in doubt may be published after `Close` failed.  `body` is what the kit's writes
left: nothing, lines, or an I/O error, which alone sticks.  A record that the
writer refuses or cannot encode returns an error to the kit and no more; a kit
that ignores it commits the rest, and a body that is only a header (`Emit`).  `Killed` is the end of the
process when the shutdown's time is up.

`Writer(l)` maps each load to `ArtifactCommit`: its records are as many as the
load has written, its phase is the load's (a writer not yet made is open and
empty), its receipt is the platform's job id in the answer.  `WriterKeepsPromise`
says that every load uses its writer as that specification allows, so the loader
relies on nothing of the writer but what `PromiseTheorem` proves of
`TransferWriter`.  The model counts a load's records and does not tell them
apart: that the artifact holds the right ones is the writer's part.

### Fetch

`get[p]` is process `p`'s call of `Get`, `spool` the files it has created
(name on disk, modification time, who owns it), `sweep[p]` the sweep a process
runs when it starts, one directory entry a step.  `int64` is
`-MaxInt-1..MaxInt`; `readLimit` is what the overflow is about.  A killed process
leaves its files behind as orphans, which is what the sweep is for.

### Identity and ToolSidecar

`Identity` is the token manager: a round of attempts with growing delays
(`attempt`, `timer`), the first one synchronous in `NewTokenManager`, the others
in the renewal goroutine.  `Delay` doubles from attempt to attempt, as
`delay *= 2` does.  Times are ticks left until the instant, so that the
state stays finite without a bound on the run; `Tick` is taken only when no
timer is due.  `missed` and `bearer.unrenewed` are history variables: they say
whether renewal was in order when a request took its bearer.

`ToolSidecar` adds the runtime's `main` (register, serve, shutdown with a
timeout, close), calls of the platform in slots, the handler's request through
`CallTool` (composition check, bearer, answer) and the gateway, external, which
refuses an expired bearer and a tool outside the grant.

### AgentStream

The two goroutines of `gateway/client.go` over a body given as lines.  `flush`
joins, trims and skips as the code does; sending is a step of its own because
the channel may be full and the context may end meanwhile.  A body may be cut in
its last line.

What a body's events are is defined without the reader: `Frames` are sets of
lines, those between two neighbouring separators from the first to the last
that is not empty, and `Chunks` the lines up to the first that cannot be
decoded.  `EventsFramed` compares the events handed over with these sets.

### EgressManifest, KitManifest, OutcomeReport and EgressRun

Validators are operators that say whether a declaration is accepted; wording
and order of the messages are left out.  The two custom YAML readers are
modelled, because what they refuse (a mistyped key) decides what a declaration
means.  Edge names are sequences of characters, because `isAddressableEdgeName`
is about characters; `sanitizeEdgeName` is what the store does to a name.  One
name, `TypeRefKey`, stands for the reserved `type_ref`.

`EgressRun` starts with every manifest an author may write for a given store,
uploads it, and lets the platform (external, from what `manifest/egress.go` and
`outcomereport.go` say it does) run the lanes in their order, walk hierarchies
by level in batches, hold relationships back until every endpoint type has
converged, feed change events in between, and deliver a report of each run.
A record may have several owners.  `counted` is what `owner_precedence` leaves of
those a parent edge leads to: all of them where it is empty, those of the first
listed type that has one otherwise, none of a type that is not listed.  A record
with more than one left is `ambiguous` and fails on its own, as does one whose
owner is not correlated.  An edge called `type_ref` beside a reference to the
type shares its key, and either value may be the one that is left (`collides`).
A report is tried up to `MaxTries` times; an attempt's body may be unreadable or
over the cap, which `Handler` answers with 400.
`BindingsServed` compares what the manifest declares for a source binding with
what `ModeFromStrings` makes of it.

## 3. Runs

| run | configuration | what it shows |
|---|---|---|
| `transfer_writer` | 3 kinds of record (good, refused, unencodable), lines of different length, limit 3, at most 6 lines | `ArtifactIsWhatWasAcked`, `BodyReleased`, `CloseReturns`, and the refinement `KeepsPromise` |
| `connector` | 2 deliveries, 1 binding with 2 pages, queue of 1, both webhook modes | `AckedIsKept`, `QueueClosedLast`, `CursorCovered`, `AckedIsProcessed`, `ShutdownEnds`, `DrainEnds` |
| `connector_abandon` | 2 deliveries, no binding | violation of `NoAckedAbandoned`, see section 6 |
| `agent_pipeline` | a writer, a reader with a misleading name and a sub-agent, 3 turns, limit 2 | `ConfirmedBeforeWrite`, `NoRepeatedCall`, `ThrashBounded`, `OneTerminalStatus`, `RequestEnds` |
| `agent_clarify` | the same instance | violation of `AssembledFromAll`, see section 6 |
| `stream_bridge` | channel of 2, up to 5 events and a terminal status | `NoGoroutineLeft`, `DeliveredInOrder`, `ErrorReported`, `BridgeReturns` |
| `egress` | 2 deliveries (one sent twice), 2 records, 3 versions and rows without a stamp, 1 slip, 1 restart | `ReplyIsAcceptable`, `AcceptedIsHeld`, `StampNeverRegresses`, `ReplayIsExact`, `DeadIsUnservable` |
| `loader` | 2 loads, plans of up to 2 passes, every writer factory | `AnswerIsTruthful`, `ArtifactIsWholeLoad`, `NothingLeftBehind` |
| `fetch` | 2 processes (symmetric), 2 attempts, caps 1 and the largest integer | `ArtifactIsWhole`, `NoSpoolLeaked`, `LiveSurvivesSweep` |
| `tool_sidecar` | 1 call at a time, 2 tools, lifetimes 3 and 9 ticks, rounds of 2 attempts, 1 rotation | `RefusedMeansUnrenewed`, `ExpiredIsRenewed`, `ShutdownEnds` |
| `agent_stream` | every body of up to 5 lines, whole or cut, channel of 1 | `EventsFramed`, `ReaderEnds` |
| `egress_run` | 5 records of 3 types, 7 ways of storing containment, about 1000 manifests, 2 runs, 1 refused record, 1 event, 2 tries per report | `CleanRunIsWhole`, `ReferencesKept`, `Converges`, `ReportNotLost`, `BindingsServed` |

Each property is also checked to fail under a mutant of the code's model (a
definition `Mut...` beside the one it replaces), listed in `PROJECT.json`.  The
type invariant of every module and the further safety invariants of the
writer, the connector, the pipeline and the bridge are not repeated in the runs.
They are theorems (section 5).

Bounds, and why they are enough.

* `MaxLines = 6` with `InlineBodyLimit = 3`: the body crosses the limit on the
  header, on a record, and exactly reaches it; several records follow the
  crossing.  The theorems hold for every limit and every bound.
* `WebhookQueueDepth = 1` with two deliveries: the queue is full while another
  delivery is in the worker's hands, and 429 with redelivery happens.
* `Pages = 2` with one binding: a drain takes two pages in a row and fails on the
  first or the second, while webhooks are under way and at any point of a
  shutdown.  Bindings share nothing but the group that joins them; the theorems
  are for any number.
* `Redeliver` makes the provider's retry unbounded; the state stays finite
  because a redelivered request is the same delivery.

* `MaxSteps = 3` with `NoProgressLimit = 2`: the budget ends the loop after a
  productive turn, the guard ends it before the budget does, and a call can be
  repeated with another in between.  Requests follow one another without
  bound, so a question asked in one is answered, lost or answered late in
  another, with sends and proactive events between.
* `Capacity = 2` with five events and a terminal status: the producer blocks,
  the channel is closed full, and a write fails on the first, a middle and the
  last event.

* `egress`: one delivery with a retry beside one without gives an older push that
  is still running when a newer one is applied, an answer that is lost after the
  write, and a restart between two attempts; the history has an update that
  shares its creation instant and a re-creation, which is where the order of
  versions can go wrong.  A row without a stamp, delivered twice, lands before
  and after a stamped one of the same entity.
* `loader`: two passes, so that one fails after another has written; a second
  load so that a shutdown meets one load in its commit and one in its kit.
* `fetch`: `Timeout < StaleAge` as in the code (by default 2 minutes for an
  attempt against an hour), two ticks
  of clock, so that a spool gets stale; bodies below, at and above the cap.
* `tool_sidecar`: one lifetime leaves time for a whole round after the renewal
  is due, one does not; the rotation invalidates a credential read before it.
* `agent_stream`: five lines hold two events of two pieces with a separator
  between them, empty pieces at either end and inside, a sentinel inside an
  event, and a cut after any of them.
* `egress_run`: containment two levels deep so that the walk has levels;
  batches of one and of all; a record with two owners of different types.  The
  manifests vary the form, spelling and keys of the parent edge, combined with
  references and `change_delivery`, the catalog, relationships, the batch size
  and the report; then, one at a time, the declared types, their order, a type
  listed twice, an owner type that is not declared, `owner_precedence`,
  `sync_generation` and the component's own fields, and the kit's header,
  policies, monitors, modeling and connectors.

The runs other than `agent_pipeline` and `agent_clarify` say `CHECK_DEADLOCK FALSE`: a writer that
was closed, a process that returned, a stream that was read to its end and a
manifest that was refused really have nothing more to do; `egress`, `loader`,
`fetch` and `egress_run` also stop at their bounds.

## 4. Fairness

* `TransferWriter`: `WF(ClientStep)`.  Every HTTP call ends, because the client
  has a timeout (5 minutes by default).  Nothing is assumed of the platform.
* `Connector`: kit calls and commits return (`WF` of the handler, worker and
  poll steps); the scheduler runs every runnable goroutine (`WF(MainStep)`);
  Go's `select` picks among ready cases at random, so a poll loop whose context
  is cancelled does not pick the ticker forever (`SF(PollDone)`).
  Ticks, redeliveries, signals and accept-loop errors are not fair: they need
  never happen.
* `AgentPipeline`: `WF(Step)`.  Every wait of a request is a gateway call with a
  timeout (`ToolTimeout` for tools, the HTTP client's for the planner and the
  assembly), so it ends one way or another.  New requests and cancellations are
  not fair.
* `StreamBridge`: weak fairness of each goroutine.  The producer's own waits
  end by `RequestEnds`; a write to a client succeeds or fails.
* `ToolSidecar`: time passes (`WF(Tick)`); the goroutines run and serve a timer
  that is due; `select` is fair between the timer and `Stop` (`SF(renewalEnds)`);
  the endpoint, tried again and again, issues a token some time (`SF(doMint)`),
  which only `ExpiredIsRenewed` needs; handlers and the gateway answer.
* `AgentStream`: the reader runs, and a caller that has not left receives.
  `http.Client.Timeout` ends a body that says nothing.
* `EgressRun`: the platform works through a run and starts the next one.
  Failures, events and reports are not fair.
* `Egress`, `Loader` and `Fetch` state no fairness: their properties are safety.

A kit call that never returns would hang the join of the poll loops, which has
no timeout of its own (`server.go:350`); that is outside this fairness and is
listed as a hazard.

## 5. Proofs

TLAPS proves the theorems listed in `PROJECT.json` for every value of the
constants that satisfies the named assumptions of the module (any set of
records, deliveries, bindings, tools, loads and processes, finite or not, any
limit, queue depth, budget or capacity).  Every assumption is evaluated by TLC in
the runs.  Most only give the constants their types.  These say more:

| assumption | says | why |
|---|---|---|
| `FetchAssumption` (`Fetch`) | `Timeout < StaleAge`; a cap is positive | 2 minutes for an attempt against an hour in `fetch.go`; `WithMaxBytes` ignores the rest |
| `HistoryAssumption` (`Egress`) | an update keeps the instant of creation and raises the number; a re-creation falls in a later millisecond | the fields of `EntityVersion` in `version.go`; the proof shows that `Compare` is this order |
| `DocAssumption` (`EgressRun`) | a document has the shape of the manifest's types | it was decoded into them |
| `AuthorAssumption` (`EgressRun`) | the author names the stored predicate, raw or sanitized, and its direction; any key may be mistyped | a name that is on no edge is nothing the validator can see |
| `ForestAssumption` (`EgressRun`) | containment, which may give a record several owners, has no cycle | the walk goes from the roots down |

**Writer.**  The inductive invariant is
`IInv == TypeOK /\ PhaseInv /\ OneInv /\ BodyInv /\ OutInv`.  None of the
properties is inductive alone: that an accepted artifact holds what was
acknowledged needs to know that the request on the wire was built from the
body, and that the body is framed (`BodyInv`: memory followed by spool is exactly
`headers` header lines and then the acknowledged records; the hash equals it unless an
error is sticky).  `PhaseInv` ties `pc`, `closed` and `result` together, so that
`Write` cannot run while a commit is under way; `OneInv` counts the artifact
over `wire` and `accepted`; `OutInv` says the same of whatever has left the
writer.  `FramedAppend` and the lemmas on `appendBody` and `startSpool` carry
the sequence reasoning; the step lemma has one case per action.

`PromiseTheorem` is the refinement `Spec => KeepsPromise`.  Under `IInv` the
platform's view is empty or one artifact (`PlatformOfNone`, `PlatformOfOne`),
and the records of a framed body are the acknowledged ones (`RecordsOfFramed`).
Then an acknowledged `Write` is `Accept`; the begin of `Close`, or `Discard`, is
`Seal`; the platform's taking of the one request is `Publish`; an answer is
`Confirm`, an error or a lost answer `GiveUp`; a request lost or refused after
`Close` has returned is `Lapse`; every other step is invisible.

**Connector.**  `CInv == TypeOK /\ GateInv /\ JobInv /\ StopInv /\ PollInv`.
`GateInv` adds to the gate that `main = "connecting"` whenever it is up.
`JobInv` says where a job can be (the queue holds deliveries answered 202 that
have no outcome; the worker's job likewise), which `AckedIsKept` needs to
survive `WorkerTakes`, and that a delivery answered 200 was stored
(`OKMeansStored`, the last part of `AckedIsKept`).  `StopInv` orders the shutdown: the queue is closed only
after every handler is inactive, and the worker stops only on a closed and empty
queue.  `PollInv` adds that a pending result that advances is below the last
page, which `CursorCovered` and the type of `cursor` need in `CommitOK`.

**Agent pipeline.**  `AInv == TypeOK /\ TurnInv /\ CallInv /\ AskInv /\ EndInv /\
ThrashBounded`.  `TurnInv` says how many results there are for the turn the loop
is in, which the budget needs.  `CallInv` says that the calls made, and the one
in hand, are among the decided steps and not yet repeated: `NoRepeatedCall`
alone is lost when a step decided in one action is called in the next.
`AskInv` carries the gate over that gap: a step in hand of a streamed request
was let through with a `pending` that is the user's question, and both stay
fixed, with the schema cache, until the request ends.  `EndInv` ties `pc`,
`ret` and `statuses`.

**Stream bridge.**  `BInv == TypeOK /\ PhaseInv /\ ChannelInv /\ WireInv`.
`PhaseInv` orders the two goroutines (the reader joins only a closed, empty
channel, and returns only after the report).  Delivery in order is not
inductive: `ChannelInv` says that the channel is the end of what was emitted,
and `WireInv` that what was delivered is its beginning and that the two meet as
long as no write failed.

**Agent stream.**  `RInv == StreamTypeOK /\ ReadInv`.  `EventsFramed` speaks of what
was handed over; to keep it, the invariant has to say where the reader is.  While
it scans, there is a bound `a` with no separator behind it (`Segment`), the pieces
gathered are exactly the data lines behind `a`, in order (`Gathered`), and what
was handed over is exactly the events up to `a` (`HandedUpTo`); while it sends,
the event in its hands is the one that is missing.  Three facts about the
operators carry the steps: trimming keeps the pieces from the first to the last
that is not empty (`TrimmedIs`), so that a flush yields the set of lines that
`content` defines, and is skipped exactly when that set is worth nothing
(`TrimmedFrames`); between neighbouring bounds lies at most one event
(`OneFrame`); and the next event extends what was handed over without a gap
(`HandOver`).  The same `HandedUpTo` serves the chunks.

**Tool sidecar.**  `SInv == TypeOK /\ LoopInv /\ TimeInv /\ StopInv` and `CallInv` of
every call.  That a request is refused only while the renewal is out of order is
a statement about time: `TimeInv` says that, as long as no round has failed and
the token lives long enough, what the minting goroutine still waits for and what
is left of its round (`remaining`) fit into what is left of the token, with the
latency of a request to spare.  A tick takes one from both sides; an attempt that
fails leaves the delay and the attempts behind it (`RemainingIs`); a token that
arrives starts anew with `LongLived`.  `CallInv` then follows the bearer on its
way to the gateway.  `StopInv` is needed because a stopped goroutine no longer
renews: it stops only once no call is in flight, unless the shutdown overran or
the context ended, and both make the bearer `unrenewed`.  `Delay` and `roundTime`
are recursive functions; that they exist, are numbers and add up is proved by
induction over a set of naturals (`InductionOverSet`).

**Loader.**  `LInv == TypeOK /\ \A l : HandlerInv(load[l], platform[l])`.  A step
is a step of one handler, so the invariant is about one handler and what the
platform has of it.  `WriterInv` gives the phase of the writer at every position
of the handler: none before the writer is made, open in the kit, committing
exactly during `Close`, in doubt only after it.  `PassInv` says that no pass is
left when a commit is begun, which makes the artifact that of the whole load;
`AnswerInv` says how far the writer was when a status was written, which
`AnswerIsTruthful` needs once the handler has left; `SourceInv` is the downloaded
file.  `LoaderWriterKeepsPromise` is the refinement of `ArtifactCommit` by every
load.  `HandlerUsesWriter` goes through the handler's steps: an `Emit` whose
record is taken is `Accept`, one that fails changes nothing the writer shows, the start of `Close` and a discard are `Seal`, `CloseOK` is
`Confirm`, `CloseFails` and a kill under a commit are `GiveUp`, and the rest
change nothing the writer shows.  `HandlerIsAlone` says that one load's step is
none of another's.  It needs `WriterInv` for the phase and, from `AnswerInv`, that
no answer has the platform's job id before the commit is confirmed.

**Fetch.**  `FInv == FetchTypeOK`, and for each process `GetInv` and `SweepInv`, for
each file `SpoolInv`.  `SpoolInv` is ownership: a spool that is neither released
nor an orphan is that of the attempt or the open result of the process that made
it.  `LiveSurvivesSweep` is about two processes and a clock: a file in use is
younger than `Timeout` (`GetInv`), the cutoff of a running sweep is at least
`StaleAge` back, also when the clock has moved on since it was read
(`SweepInv`), and `Timeout < StaleAge`.  The overflow of `readLimit` at the
largest integer is a case of the proof.

**Egress.**  `EInv` says of every attempt, remembered reply and accepted reply
what its verdicts mean for the external system: an id with a positive verdict
is held under a stamp at least as new as the one sent.  `AcceptedIsHeld` alone
says it of accepted replies only; it has to be known from the moment the
component has applied the record, over the replies in flight, the ones given up
by the platform and the ones kept for a replay.  It is stable because no step
replaces a stamp by an older one, which is `StampNeverRegresses`; both rest on
the lemmas on `Older` (a strict order up to a millisecond) and `Truncated`.
`ReplyIsAcceptable` is about `EgressBatch` for batches of any length: what the
recursive functions `distinctIds` and `replayed` return is proved by induction
over a set of positions (`SetInduction`, from the least element of a set of
naturals), which needs no operator as a parameter.  `AcceptedIsHeld` says that a
stamped record is held with a stamp, unless a row without one has replaced it
since (`bare`).  Nothing is assumed about which rows are stamped: a row without
a stamp is never stale (`IsStale`), so it is written over any other, and the
invariant carries the exception along with every verdict.

**A declaration from upload to report.**  `RInv` says that what runs was read
from a manifest that passed validation, that nothing was pushed before that,
that references come from an entry that declares them, and that a report which
may still be sent is within its budget (`BudgetInv`, which `ReportNotLost` needs:
a report given up after a failure of the receiver has used all its tries).
`BindingsServed` and `FedIsBare` then are facts about the validators for every
manifest.
`CleanRunIsWhole` needs `WInv == SentInv /\ WalkInv /\ CleanInv`: what is held was
sent with the owners of an entry for its type; a walk has its roots and the
children of everything behind it; and as long as nothing failed, what the run
has been through is held.  That a walk which ended has seen every row is
`WalkIsWhole`: a smallest unseen set of rows would, containment being acyclic,
have a member whose owners were walked.  That an accepted edge finds what the
store holds (`AcceptedEdgeFinds`, `EdgesFind`, `HierarchyFinds`) joins the
YAML readers, the defaults and `isAddressableEdgeName`.  `CountedIsHeld` joins
the precedence rule of the walk to what the property says of it: `counted` takes
the owners of the first listed type that has one (`LeastNumber`), and the
property, which is stated without it, asks for every owner that counts or one
that precedes it.

Two things that `Validate` accepts are excluded inside the properties, not by an
assumption, and the run contains both.  With a type listed twice the later entry
replaces what the earlier one sent, references and owners included
(`listedOnce`); an edge called `type_ref` loses its value or takes that of the
type reference (`collides`).  `Converges` is about what can be delivered
(`deliverable`): rows of a type listed once, with at most one owner left, under
owners that an earlier entry, or the same walk, delivers.  Accepted declarations
outside it, such as a parent edge whose owner type is not declared, are in the
run too, and nothing is claimed of their rows.

Proved but in no run: the `TypeOK`s, `AtMostOneArtifact`, `ReceiptIsTruthful`,
`FailedWriterNeverCommits`, `TransportFitsBody`, `HashIsOfBody`, `GateHolds`,
`PollsStopped`, `GatheredOrAsked`, `FedIsBare` and the loader's
`WriterKeepsPromise`.

**Only model-checked**: the liveness properties `CloseReturns`,
`AckedIsProcessed`, `DrainEnds`, `ShutdownEnds` (of both), `RequestEnds`, `BridgeReturns`,
`ExpiredIsRenewed`, `ReaderEnds` and `Converges`: liveness under fairness is out
of the prover's reach.  Every safety property of a passing run is a theorem.

## 6. Disagreements between the code and its comments

Two have a run that is expected to end in a violation.

* `connector_abandon`.  When the accept loop dies, `ListenAndServe` joins the
  poll loops and returns without draining the webhook queue, so deliveries
  answered 202 are lost; `server.go:764` explains why that must not happen.
* `agent_clarify` (`agent/next_step.go:266`).  `parseNextStep` honours a clarify
  object in every reply, and `reactLoop` ends the gathering with it in every
  mode.  On the proactive path nobody can be asked, and the decision is assembled
  without the observations; `GatheredOrAsked` is the theorem of what the code
  does.  `next_step.go:120` says the object is only honoured when
  clarifications are enabled, `pipeline.go:323` that it is always nil there.

The others were met while modelling; the model follows the code.

* `transfer/writer.go:397`.  The header is appended before the first record is
  encoded, and `count` is still 0 if that record does not encode: the next write
  appends a second header, and a Close at that point commits a header-only
  artifact.  `writer.go:398` says the header is written once and never alone.
  `ArtifactIsWhatWasAcked` states the exact number: one header with the first
  record, and one for each record that failed to encode before it.
* `transfer/http_client.go:189`.  A writer closed without records passes an empty
  inline body and no token, which `Complete` refuses; `writer.go:113` says the
  writer ensures exactly one.  Connectors avoid it by not closing empty writers.
* `agent/serve.go:168`.  The bridge calls `Close` after every run whose events
  could be written, so a `completed` status follows a failed, canceled or
  input-required one; `serve.go:164` calls it a duplicate.
* `fetch/retry.go:125`.  A connection that is refused or reset is not retried,
  nor is `Client.Timeout`; the comment on `Get` says a network error is
  retryable.  The tests confirm the code.
* `egress/types.go`.  `Record` lets a created verdict keep a reason code and a
  skipped one its error, which the comments on `SyncResult` exclude.
* `loader/server.go:510`.  The comment says the status is set to running when a
  receipt is attached; only an empty status is.  A response that the kit already
  marked failed or completed is committed all the same.

Worth knowing, and as designed:

* A throttle that asks for less than half a second is sent as `Retry-After: 0`
  (`egress/server.go`, rounding to seconds).
* The temp source of a killed loader is swept by nobody.
* A token manager whose context ends keeps serving its token until it expires;
  tokens that live less than twice the mint's retries can be expired between
  renewals (`RefusedMeansUnrenewed` excludes both by its history variable).
* A stream that is cut, or has a line over 1 MiB, looks to the caller like one
  that ended, and its last event may be torn; `EventsFramed` is about the lines
  the connection delivered.
* Two entries of `entities_sync` may have the same name; the later one decides
  what is held of the type.
* A row the platform could not stamp replaces a stamped record, also a newer one
  (`egress/types.go:258`, `version.go:51-53`).
* A push whose body breaks off is answered 400, as one that does not decode, and
  is not tried again (`egress/server.go:609-614`); so is a report whose body
  breaks off or is over the cap (`outcomereport.go:700-706`).
* A parent edge may be called `type_ref`; beside a reference to the type one
  value overwrites the other without a failure (`egress/types.go:289-293`).
* A parent edge whose owner type is not declared, or is declared after its
  records, is accepted, and a record with such an owner fails in every run, or
  in the first one (`egress/types.go:170-171`).
* An owner whose type `owner_precedence` does not list is never sent, and the
  record counts as one without an owner (`egress/types.go:167-169`).
* A report is given up when its retry budget is used up, also where a receiver
  only failed for a while (`outcomereport.go:42-44`).

Not a disagreement, but worth knowing: the confirmation gate protects what
`toolMutates` takes for a writer.  While schema discovery fails, an annotated
writer whose name has none of the hints runs unconfirmed; `ConfirmedBeforeWrite`
is therefore stated about `toolMutates`, not about the annotation.

## 7. Not modelled

* Of the connector: extra routes, health and test-connection endpoints,
  configuration checks that run before anything starts, and the time-series
  sink (one stateless POST).
* Of egress and loader: health, liveness, formats and test-connection endpoints;
  the decoders' checks of single fields are one bit of the request, and a body
  that breaks off is a choice of each attempt.
* Of the agent: prompts, parsing of replies beyond their four outcomes, token
  usage, citations, argument checks, several requests at once (they share only
  the schema cache, which is replaced whole under a lock), actions (stateless
  validation and dispatch).
* Of the identity: `CredentialWatcher`, which nothing in the repository starts
  (a second `Stop` of it would panic).
* Of the gateway client: the calls that are one request and one answer, other
  than `CallTool`.
* Of the manifest: tool definitions, property types, ontology files: lists of
  names and lookups.
* Payload contents, headers, error wording, logging.
* A crash of a connector or an agent: they persist nothing.  Cursors live in
  memory and a restart polls from the start.  Restarts are modelled where the
  code meets their consequences: redelivery (`Egress`) and spools (`Fetch`).
* Pure data packages: logging, redaction, wire types, mocks.

## 8. Plan

The components of section 1 that keep state are modelled, and every safety
property of the passing runs is proved.  What could follow, in this order:

1. Several requests of one agent that share the schema cache.
2. The connector's extra routes and test-connection endpoints, once they keep
   state.
