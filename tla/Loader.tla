-------------------------------- MODULE Loader --------------------------------
(***************************************************************************)
(* The loader sidecar (loader/server.go) and the client the platform calls *)
(* it with (loader/client.go): POST /load from the decoded request over    *)
(* the downloaded source, the writer, the kit's passes and the commit to   *)
(* the answer, GET /jobs/{id}, and the shutdown.                           *)
(*                                                                         *)
(* The transfer writer appears as its promise, the phases of               *)
(* ArtifactCommit: open, committing, in doubt, settled.  External: the     *)
(* kit's handler, the server of the source, the platform behind the        *)
(* writer, and the connection of the caller.                               *)
(***************************************************************************)
EXTENDS Naturals, Sequences

CONSTANTS
    Load,        \* the load calls
    Requests,    \* what they carry: a set of functions on Load
    Factories,   \* how the writer factory may be configured
    MaxPasses,   \* bound: passes of a streaming plan
    MaxRecords   \* bound: records a kit writes in one load

ASSUME LoaderAssumption ==
    /\ MaxPasses \in Nat \ {0}
    /\ MaxRecords \in Nat
    /\ Factories \subseteq {"none", "commit", "noClient", "custom"}

VARIABLES
    main,        \* ListenAndServe: "running", "shutdown" or "returned"
    factory,     \* the configured writer factory
    streaming,   \* the kit implements StreamingLoaderHandler
    req,         \* the request of each load
    load,        \* the handler of each load
    platform,    \* the artifacts the platform took from each load's writer
    client       \* what the caller knows of each load

vars == <<main, factory, streaming, req, load, platform, client>>
config == <<factory, streaming, req>>

None == "none"
Statuses == {"", "pending", "running", "completed", "failed", "cancelled"}
IsTerminal(s) == s \in {"completed", "failed", "cancelled"}

\* A response keeps its status and whose job id it carries.
LoadResponse == [status : Statuses, job : {None, "kit", "platform"}]
NoResponse == [status |-> "", job |-> None]

\* temp: the downloaded source on disk.  phase, records, body: the writer, how
\* many records it accepted, and whether its body has a line or lost one to an
\* I/O error.  left: passes to run.
NewLoad == [at |-> "unsent", temp |-> FALSE, phase |-> None, records |-> 0, body |-> "empty",
            left |-> 0, http |-> None, resp |-> NoResponse]

LoadState ==
    [at : {"unsent", "source", "copy", "factory", "load", "plan", "pass", "close", "leaving", "done", "killed"},
     temp : BOOLEAN, phase : {None, "open", "committing", "indoubt", "settled"},
     records : 0..MaxRecords, body : {"empty", "lines", "broken"},
     left : 0..MaxPasses, http : {None, "200", "202", "400", "500", "502"}, resp : LoadResponse]

TypeOK ==
    /\ main \in {"running", "shutdown", "returned"}
    /\ factory \in Factories
    /\ streaming \in BOOLEAN
    /\ req \in Requests
    /\ load \in [Load -> LoadState]
    /\ platform \in [Load -> BOOLEAN]
    /\ client \in [Load -> {"idle", "waiting", "polling", "told", "error"}]

Init ==
    /\ main = "running"
    /\ factory \in Factories
    /\ streaming \in BOOLEAN
    /\ req \in Requests
    /\ load = [l \in Load |-> NewLoad]
    /\ platform = [l \in Load |-> FALSE]
    /\ client = [l \in Load |-> "idle"]

-----------------------------------------------------------------------------
\* The caller.

\* Client.Load looks at its own arguments before it sends anything; a caller
\* other than this client may send anything.
clientRefuses(r) == r.byClient /\ (r.tenant = None \/ r.source = None)

Call(l) ==
    /\ client[l] = "idle"
    /\ client' = [client EXCEPT ![l] = IF clientRefuses(req[l]) \/ main # "running" THEN "error"
                                       ELSE "waiting"]
    /\ UNCHANGED <<main, config, load, platform>>

\* 200 and 202 are answers, every other code an HTTPError, whatever its body.
HTTPError(status) == status \notin {"200", "202"}
IsNotFound(status) == HTTPError(status) /\ status = "404"

\* A response that is not terminal is followed by polls of its job.
Hear(l) ==
    /\ client[l] = "waiting"
    /\ load[l].http # None
    /\ client' = [client EXCEPT ![l] =
                    IF HTTPError(load[l].http) THEN "error"
                    ELSE IF IsTerminal(load[l].resp.status) THEN "told" ELSE "polling"]
    /\ UNCHANGED <<main, config, load, platform>>

\* A timeout, a cancelled context or a lost connection.
GiveUp(l) ==
    /\ client[l] = "waiting"
    /\ client' = [client EXCEPT ![l] = "error"]
    /\ UNCHANGED <<main, config, load, platform>>

\* GET /jobs/{id}, answered from the kit's own table of jobs.
jobStatus(found) == CASE found = "job" -> "200" [] found = "unknown" -> "404" [] OTHER -> "500"

Poll(l) ==
    /\ client[l] = "polling"
    /\ main = "running"
    /\ \E found \in {"job", "unknown", "failure"}, s \in Statuses :
          client' = [client EXCEPT ![l] = IF IsNotFound(jobStatus(found)) THEN "error"
                                          ELSE IF ~HTTPError(jobStatus(found)) /\ IsTerminal(s) THEN "told"
                                          ELSE "polling"]
    /\ UNCHANGED <<main, config, load, platform>>

-----------------------------------------------------------------------------
\* The handler of POST /load up to the kit's code.

step(l, at) == load' = [load EXCEPT ![l].at = at]
stay == UNCHANGED <<main, config, platform, client>>

\* The answer is written; what was deferred still runs.
reply(l, http, resp) ==
    [load EXCEPT ![l].at = "leaving", ![l].http = http, ![l].resp = resp]
fail(l, http) == reply(l, http, NoResponse)

\* The same before anything was deferred.
refuse(l, http) == [load EXCEPT ![l].at = "done", ![l].http = http]

\* The header's tenant counts; a body may only repeat it.
validLoadRequest(r) ==
    /\ r.json
    /\ r.header # None
    /\ r.tenant \in {None, r.header}
    /\ r.source # None

isRemote(r) == r.source = "remote"

decodeAndValidateLoadRequest(l) ==
    /\ client[l] = "waiting"
    /\ load[l].at = "unsent"
    /\ main = "running"
    /\ load' = IF validLoadRequest(req[l])
               THEN [load EXCEPT ![l].at = IF isRemote(req[l]) THEN "source" ELSE "factory"]
               ELSE refuse(l, "400")
    /\ stay

\* No answer, a status other than 200, or no temporary file.
SourceFails(l) ==
    /\ load[l].at = "source"
    /\ load' = refuse(l, "502")
    /\ stay

SourceOpens(l) ==
    /\ load[l].at = "source"
    /\ load' = [load EXCEPT ![l].at = "copy", ![l].temp = TRUE]
    /\ stay

\* Mutant: the partial copy of a source over the cap stays on disk.
MutKeepPartial(l) ==
    /\ load[l].at = "copy"
    /\ load' = refuse(l, "502")
    /\ stay

\* A copy that breaks off, cannot be closed or is over the cap.
CopyFails(l) ==
    /\ load[l].at = "copy"
    /\ load' = [refuse(l, "502") EXCEPT ![l].temp = FALSE]
    /\ stay

CopyDone(l) ==
    /\ load[l].at = "copy"
    /\ step(l, "factory")
    /\ stay

\* Only a factory of the kit's own can find fault with the request.
factoryError == CASE factory = "noClient" -> {"500"}
                  [] factory = "custom" -> {"400", "500"}
                  [] OTHER -> {}

WriterFails(l) ==
    /\ load[l].at = "factory"
    /\ \E http \in factoryError : load' = fail(l, http)
    /\ stay

MakeWriter(l) ==
    /\ load[l].at = "factory"
    /\ factory # "noClient"
    /\ load' = [load EXCEPT ![l].at = IF streaming THEN "plan" ELSE "load",
                            ![l].phase = IF factory = "none" THEN None ELSE "open"]
    /\ stay

-----------------------------------------------------------------------------
\* The kit's code (external) and what the handler makes of its return.

inKit(l) == load[l].at \in {"load", "plan", "pass"}

\* A Write* of the kit's.  A record that does not encode leaves its header and
\* nothing else; an I/O error sticks.  A record the writer refuses, and every
\* one after an I/O error, changes nothing.  Each of these errors is the kit's
\* to pass on or to ignore.
Emit(l) ==
    /\ inKit(l)
    /\ load[l].phase = "open"
    /\ load[l].body # "broken"
    /\ \/ /\ load[l].records < MaxRecords
          /\ load' = [load EXCEPT ![l].records = @ + 1, ![l].body = "lines"]
       \/ \E b \in {"lines", "broken"} : load' = [load EXCEPT ![l].body = b]
    /\ stay

\* Load returned an error or no response, Plan an error or no passes.
LoadFails(l) ==
    /\ load[l].at \in {"load", "plan"}
    /\ load' = fail(l, "500")
    /\ stay

\* A panic ends the handler without an answer; the deferred calls run.
KitPanics(l) ==
    /\ inKit(l)
    /\ step(l, "leaving")
    /\ client' = [client EXCEPT ![l] = IF @ = "waiting" THEN "error" ELSE @]
    /\ UNCHANGED <<main, config, platform>>

httpOf(resp) == IF IsTerminal(resp.status) THEN "200" ELSE "202"

\* The writer is closed with the response in hand; without a writer the
\* response goes out as it is.
beginClose(l, resp) ==
    IF load[l].phase = None THEN reply(l, httpOf(resp), resp)
    ELSE [load EXCEPT ![l].at = "close", ![l].phase = "committing", ![l].resp = resp]

runSinglePassLoad(l) ==
    /\ load[l].at = "load"
    /\ \E resp \in [status : Statuses, job : {None, "kit"}] : load' = beginClose(l, resp)
    /\ stay

Plan(l) ==
    /\ load[l].at = "plan"
    /\ \E n \in 1..MaxPasses : load' = [load EXCEPT ![l].at = "pass", ![l].left = n]
    /\ stay

streamed == [status |-> "running", job |-> None]

Pass(l) ==
    /\ load[l].at = "pass"
    /\ load' = IF load[l].left > 1 THEN [load EXCEPT ![l].left = @ - 1]
               ELSE [beginClose(l, streamed) EXCEPT ![l].left = 0]
    /\ stay

\* Mutant: a failed pass ends the loop, and what was written is committed.
MutPassBreaks(l) ==
    /\ load[l].at = "pass"
    /\ load' = beginClose(l, streamed)
    /\ stay

PassFails(l) ==
    /\ load[l].at = "pass"
    /\ load' = fail(l, "500")
    /\ stay

-----------------------------------------------------------------------------
\* Close and the answer.

\* What a writer commits: a body with a line in it, every accepted record
\* among them, that lost none to an I/O error.
committable(l) == load[l].body = "lines"

\* The platform takes the artifact (external), in time or late.
Publish(l) ==
    /\ load[l].phase \in {"committing", "indoubt"}
    /\ committable(l) /\ ~platform[l]
    /\ platform' = [platform EXCEPT ![l] = TRUE]
    /\ load' = [load EXCEPT ![l].phase = IF @ = "indoubt" THEN "settled" ELSE @]
    /\ UNCHANGED <<main, config, client>>

\* A receipt brings the job id; only an empty status becomes "running".
attachReceipt(resp) ==
    [status |-> IF resp.status = "" THEN "running" ELSE resp.status, job |-> "platform"]

CloseOK(l) ==
    /\ load[l].at = "close" /\ platform[l]
    /\ LET resp == attachReceipt(load[l].resp)
       IN  load' = [reply(l, httpOf(resp), resp) EXCEPT ![l].phase = "settled"]
    /\ stay

\* Mutant: a response that is terminal already keeps its status.
MutKeepTerminal(resp) ==
    IF IsTerminal(resp.status) THEN resp ELSE [resp EXCEPT !.status = "failed"]
closeFailed(resp) == [resp EXCEPT !.status = "failed"]

\* The commit request may be acted on although its answer was not seen.
CloseFails(l) ==
    /\ load[l].at = "close"
    /\ LET resp == closeFailed(load[l].resp)
           inFlight == IF committable(l) /\ ~platform[l] THEN {"settled", "indoubt"} ELSE {"settled"}
       IN  \E p \in inFlight : load' = [reply(l, httpOf(resp), resp) EXCEPT ![l].phase = p]
    /\ stay

\* The deferred calls: the writer is discarded unless it was closed, the
\* downloaded source removed.
Deferred(l) ==
    /\ load[l].at = "leaving"
    /\ load' = [load EXCEPT ![l].at = "done", ![l].temp = FALSE,
                            ![l].phase = IF @ = "open" THEN "settled" ELSE @]
    /\ stay

-----------------------------------------------------------------------------
\* ListenAndServe.

running(l) == load[l].at \notin {"unsent", "done", "killed"}

Leave ==
    /\ main = "running"
    /\ main' = "shutdown"
    /\ UNCHANGED <<config, load, platform, client>>

ShutdownDone ==
    /\ main = "shutdown"
    /\ \A l \in Load : ~running(l)
    /\ main' = "returned"
    /\ UNCHANGED <<config, load, platform, client>>

\* The process ends under its handlers: nothing deferred runs any more.
killed(l) == [load[l] EXCEPT !.at = "killed",
                             !.phase = IF @ = "committing" THEN IF platform[l] THEN "settled" ELSE "indoubt"
                                       ELSE @]
Killed ==
    /\ \/ main = "running"                                    \* the accept loop failed
       \/ main = "shutdown" /\ \E l \in Load : running(l)     \* ShutdownTimeout
    /\ main' = "returned"
    /\ load' = [l \in Load |-> IF running(l) THEN killed(l) ELSE load[l]]
    /\ client' = [l \in Load |-> IF client[l] = "waiting" THEN "error" ELSE client[l]]
    /\ UNCHANGED <<config, platform>>

Handler(l) ==
    \/ decodeAndValidateLoadRequest(l) \/ SourceFails(l) \/ SourceOpens(l) \/ CopyFails(l) \/ CopyDone(l)
    \/ WriterFails(l) \/ MakeWriter(l)
    \/ Emit(l) \/ LoadFails(l) \/ KitPanics(l) \/ runSinglePassLoad(l) \/ Plan(l) \/ Pass(l) \/ PassFails(l)
    \/ CloseOK(l) \/ CloseFails(l) \/ Deferred(l)

Next ==
    \/ \E l \in Load : Call(l) \/ Hear(l) \/ GiveUp(l) \/ Poll(l) \/ Handler(l) \/ Publish(l)
    \/ Leave \/ ShutdownDone \/ Killed

Spec == Init /\ [][Next]_vars

-----------------------------------------------------------------------------
\* Properties.

\* A caller that is told the load did not fail can rely on the artifact, and
\* one that is told an HTTP error can load again without a duplicate: the
\* platform holds nothing of that load, and never will.  Only the status
\* "failed" leaves it open.  [server.go closeWriterAndAttachReceipt]
AnswerIsTruthful ==
    \A l \in Load :
        /\ load[l].http \in {"200", "202"} /\ load[l].resp.status # "failed" /\ load[l].phase # None
              => platform[l] /\ load[l].resp.job = "platform"
        /\ load[l].http \in {"400", "500", "502"} => ~platform[l] /\ load[l].phase \in {None, "open", "settled"}

\* The platform never holds part of a load: an artifact exists only after the
\* kit's code came back without an error, from every pass of its plan.  A
\* record the writer refused or could not encode is missing from it where the
\* kit chose not to report that.  [server.go runStreamingLoad, loadHandlerFunc]
ArtifactIsWholeLoad ==
    \A l \in Load : platform[l] =>
        /\ load[l].left = 0
        /\ load[l].at \in {"close", "leaving", "done", "killed"} /\ load[l].http # "500"

\* Whichever way a handler ends, by an error, a panic or an answer, it leaves
\* neither a downloaded source nor an open writer with its spool behind.
\* [server.go materializeRemoteSource, loadHandlerFunc]
NothingLeftBehind ==
    \A l \in Load : load[l].at = "done" => ~load[l].temp /\ load[l].phase # "open"

\* A load's writer, seen as ArtifactCommit: a record is as good as any other,
\* a writer that is not yet made is open and empty.
Accepted(l) == [k \in 1..load[l].records |-> "record"]
Writer(l) == INSTANCE ArtifactCommit WITH
                 Record <- {"record"},
                 records <- Accepted(l),
                 phase <- IF load[l].phase = None THEN "open" ELSE load[l].phase,
                 receipt <- load[l].resp.job = "platform",
                 platform <- IF platform[l] THEN <<Accepted(l)>> ELSE <<>>

\* Every load uses its writer as the writer's promise allows, whatever happens
\* to the other loads and to the process: nothing is written once the commit
\* has begun, the platform takes one artifact of all the records or none, and
\* an answer has the platform's job id only after it took it.
\* [server.go loadHandlerFunc, closeWriterAndAttachReceipt]
WriterKeepsPromise ==
    /\ \A l \in Load : Writer(l)!Init
    /\ [][\A l \in Load : [Writer(l)!Next]_(Writer(l)!abstractVars)]_vars
=============================================================================
