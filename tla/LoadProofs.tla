----------------------------- MODULE LoadProofs -----------------------------
(***************************************************************************)
(* The safety invariants of the two parts of a load: Loader, for any       *)
(* number of loads, passes and records, whatever the requests carry; and   *)
(* Fetch, for any number of processes, spool files and ticks, and for      *)
(* every cap up to the largest integer.                                    *)
(***************************************************************************)
EXTENDS Loader, Fetch, TLAPS

-----------------------------------------------------------------------------
\* Loader.


Before == {"unsent", "source", "copy", "factory"}
Kit == {"load", "plan", "pass"}

\* The writer of a handler h, and whether the platform has its artifact (p):
\* it is made after the factory, commits exactly while it is being closed, and
\* is left to the platform, if at all, with a commit that is in doubt.
WriterInv(h, p) ==
    /\ h.at \in Before => h.phase = None
    /\ h.at \in Kit => h.phase \in {None, "open"}
    /\ h.phase = "committing" <=> h.at = "close"
    /\ h.phase = "indoubt" => h.at \in {"leaving", "done", "killed"} /\ ~p
    /\ h.at = "done" => h.phase # "open"
    /\ p => h.phase \in {"committing", "settled"}

\* Passes are left only between the plan and the last of them, or for good.
PassInv(h, p) ==
    /\ h.at \in Before \cup {"load", "plan"} => h.left = 0
    /\ p \/ h.phase \in {"committing", "indoubt"} => h.left = 0

\* What was answered, and how far the writer was.
AnswerInv(h, p) ==
    /\ h.at \in Before \cup Kit \cup {"close"} => h.http = None /\ h.resp.job # "platform"
    /\ h.http \in {"200", "202"} /\ h.phase # None =>
          /\ h.phase \in {"settled", "indoubt"}
          /\ h.resp.status = "failed" \/ (p /\ h.resp.job = "platform")
    /\ h.http \in {"400", "500", "502"} => ~p /\ h.phase \in {None, "open", "settled"}
    /\ p => h.at \in {"close", "leaving", "done", "killed"}

\* The downloaded source.
SourceInv(h) == h.at \in {"unsent", "source", "done"} => ~h.temp

HandlerInv(h, p) == WriterInv(h, p) /\ PassInv(h, p) /\ AnswerInv(h, p) /\ SourceInv(h)

LInv == TypeOK /\ \A l \in Load : HandlerInv(load[l], platform[l])

-----------------------------------------------------------------------------
\* No load has begun.
LEMMA LInvInit == Init => LInv
  <1> SUFFICES ASSUME Init PROVE LInv  OBVIOUS
  <1>1. NewLoad \in LoadState
    BY LoaderAssumption DEF NewLoad, LoadState, LoadResponse, NoResponse, Statuses, None
  <1>2. TypeOK  BY <1>1 DEF Init, TypeOK
  <1>3. HandlerInv(NewLoad, FALSE)
    BY DEF NewLoad, NoResponse, HandlerInv, WriterInv, PassInv, AnswerInv, SourceInv, Before,
           Kit, None
  <1> QED  BY <1>2, <1>3 DEF Init, LInv

\* A step of one handler leaves the others alone, so that the invariant has to
\* be shown for that handler only.
LEMMA OneHandler ==
    ASSUME LInv, NEW l \in Load, NEW h \in LoadState, NEW p \in BOOLEAN,
           UNCHANGED <<main, config>>, client' \in [Load -> {"idle", "waiting", "polling", "told", "error"}],
           load' = [load EXCEPT ![l] = h], platform' = [platform EXCEPT ![l] = p],
           HandlerInv(h, p)
    PROVE  LInv'
  <1>1. TypeOK'  BY DEF LInv, TypeOK, config
  <1>2. ASSUME NEW k \in Load PROVE HandlerInv(load'[k], platform'[k])
    BY DEF LInv, TypeOK
  <1> QED  BY <1>1, <1>2 DEF LInv

\* A step of the handler that leaves the platform and the caller alone.
LEMMA OwnStep ==
    ASSUME LInv, NEW l \in Load, NEW h \in LoadState, stay,
           load' = [load EXCEPT ![l] = h], HandlerInv(h, platform[l])
    PROVE  LInv'
  <1>1. platform' = [platform EXCEPT ![l] = platform[l]] /\ platform[l] \in BOOLEAN
    BY DEF LInv, TypeOK, stay
  <1> QED  BY <1>1, OneHandler DEF LInv, TypeOK, stay, config

\* The answers are responses.
LEMMA Responses ==
    /\ NoResponse \in LoadResponse /\ streamed \in LoadResponse
    /\ [status : Statuses, job : {None, "kit"}] \subseteq LoadResponse
    /\ \A resp \in LoadResponse :
          /\ attachReceipt(resp) \in LoadResponse /\ attachReceipt(resp).job = "platform"
          /\ closeFailed(resp) \in LoadResponse /\ closeFailed(resp).status = "failed"
          /\ httpOf(resp) \in {"200", "202"}
  BY DEF NoResponse, streamed, LoadResponse, Statuses, None, attachReceipt, closeFailed, httpOf

\* Every step of a handler up to the kit's code.
LEMMA EarlySteps ==
    ASSUME LInv, NEW l \in Load,
           \/ decodeAndValidateLoadRequest(l) \/ SourceFails(l) \/ SourceOpens(l)
           \/ CopyFails(l) \/ CopyDone(l) \/ WriterFails(l) \/ MakeWriter(l)
    PROVE  LInv'
  <1>0. load \in [Load -> LoadState] /\ load[l] \in LoadState /\ HandlerInv(load[l], platform[l]) /\ platform[l] \in BOOLEAN
    BY DEF LInv, TypeOK
  <1> USE DEF HandlerInv, WriterInv, PassInv, AnswerInv, SourceInv, Before, Kit, None
  <1>1. CASE decodeAndValidateLoadRequest(l)
    <2>1. CASE validLoadRequest(req[l])
      <3> DEFINE h == [load[l] EXCEPT !.at = IF isRemote(req[l]) THEN "source" ELSE "factory"]
      <3>1. load' = [load EXCEPT ![l] = h] /\ stay
        BY <1>0, <1>1, <2>1 DEF decodeAndValidateLoadRequest
      <3>2. h \in LoadState
        BY <1>0 DEF LoadState
      <3>3. HandlerInv(h, platform[l])
        BY <1>0, <1>1 DEF decodeAndValidateLoadRequest, LoadState
      <3> HIDE DEF h, HandlerInv
      <3> QED  BY <3>1, <3>2, <3>3, OwnStep
    <2>2. CASE ~validLoadRequest(req[l])
      <3> DEFINE h == [load[l] EXCEPT !.at = "done", !.http = "400"]
      <3>1. load' = [load EXCEPT ![l] = h] /\ stay
        BY <1>0, <1>1, <2>2 DEF decodeAndValidateLoadRequest, refuse
      <3>2. h \in LoadState
        BY <1>0 DEF LoadState
      <3>3. HandlerInv(h, platform[l])
        BY <1>0, <1>1 DEF decodeAndValidateLoadRequest, LoadState
      <3> HIDE DEF h, HandlerInv
      <3> QED  BY <3>1, <3>2, <3>3, OwnStep
    <2> QED  BY <2>1, <2>2
  <1>2. CASE SourceFails(l)
    <2> DEFINE h == [load[l] EXCEPT !.at = "done", !.http = "502"]
    <2>1. load' = [load EXCEPT ![l] = h] /\ stay
      BY <1>0, <1>2 DEF SourceFails, refuse
    <2>2. h \in LoadState
      BY <1>0, <1>2 DEF SourceFails, LoadState
    <2>3. HandlerInv(h, platform[l])
      BY <1>0, <1>2 DEF SourceFails, LoadState
    <2> HIDE DEF h, HandlerInv
    <2> QED  BY <2>1, <2>2, <2>3, OwnStep
  <1>3. CASE SourceOpens(l)
    <2> DEFINE h == [load[l] EXCEPT !.at = "copy", !.temp = TRUE]
    <2>1. load' = [load EXCEPT ![l] = h] /\ stay
      BY <1>0, <1>3 DEF SourceOpens
    <2>2. h \in LoadState
      BY <1>0, <1>3 DEF SourceOpens, LoadState
    <2>3. HandlerInv(h, platform[l])
      BY <1>0, <1>3 DEF SourceOpens, LoadState
    <2> HIDE DEF h, HandlerInv
    <2> QED  BY <2>1, <2>2, <2>3, OwnStep
  <1>4. CASE CopyFails(l)
    <2> DEFINE h == [load[l] EXCEPT !.at = "done", !.http = "502", !.temp = FALSE]
    <2>1. load' = [load EXCEPT ![l] = h] /\ stay
      BY <1>0, <1>4 DEF CopyFails, refuse
    <2>2. h \in LoadState
      BY <1>0, <1>4 DEF CopyFails, LoadState
    <2>3. HandlerInv(h, platform[l])
      BY <1>0, <1>4 DEF CopyFails, LoadState
    <2> HIDE DEF h, HandlerInv
    <2> QED  BY <2>1, <2>2, <2>3, OwnStep
  <1>5. CASE CopyDone(l)
    <2> DEFINE h == [load[l] EXCEPT !.at = "factory"]
    <2>1. load' = [load EXCEPT ![l] = h] /\ stay
      BY <1>0, <1>5 DEF CopyDone, step
    <2>2. h \in LoadState
      BY <1>0, <1>5 DEF CopyDone, LoadState
    <2>3. HandlerInv(h, platform[l])
      BY <1>0, <1>5 DEF CopyDone, LoadState
    <2> HIDE DEF h, HandlerInv
    <2> QED  BY <2>1, <2>2, <2>3, OwnStep
  <1>6. CASE WriterFails(l)
    <2>0. PICK http \in {"400", "500"} : load' = reply(l, http, NoResponse)
      BY <1>6 DEF WriterFails, fail, factoryError
    <2> DEFINE h == [load[l] EXCEPT !.at = "leaving", !.http = http, !.resp = NoResponse]
    <2>1. load' = [load EXCEPT ![l] = h] /\ stay
      BY <1>0, <1>6, <2>0 DEF WriterFails, reply
    <2>2. h \in LoadState
      BY <1>0, <1>6, <2>0, Responses DEF WriterFails, LoadState
    <2>3. HandlerInv(h, platform[l])
      BY <1>0, <1>6, <2>0 DEF WriterFails, LoadState
    <2> HIDE DEF h, HandlerInv
    <2> QED  BY <2>1, <2>2, <2>3, OwnStep
  <1>7. CASE MakeWriter(l)
    <2> DEFINE h == [load[l] EXCEPT !.at = IF streaming THEN "plan" ELSE "load",
                                    !.phase = IF factory = "none" THEN None ELSE "open"]
    <2>1. load' = [load EXCEPT ![l] = h] /\ stay
      BY <1>0, <1>7 DEF MakeWriter
    <2>2. h \in LoadState
      BY <1>0, <1>7 DEF MakeWriter, LoadState
    <2>3. HandlerInv(h, platform[l])
      BY <1>0, <1>7 DEF MakeWriter, LoadState
    <2> HIDE DEF h
    <2> HIDE DEF h, HandlerInv
    <2> QED  BY <2>1, <2>2, <2>3, OwnStep
  <1> QED  BY <1>1, <1>2, <1>3, <1>4, <1>5, <1>6, <1>7

\* A response in hand goes out, or the writer is closed first.
LEMMA BeginClose ==
    ASSUME LInv, NEW l \in Load, load[l].at \in {"load", "pass"}, stay,
           NEW resp \in LoadResponse, resp.job # "platform",
           NEW n \in {0, load[l].left}, load[l].at = "pass" => n = 0,
           load' = [beginClose(l, resp) EXCEPT ![l].left = n]
    PROVE  LInv'
  <1>0. load \in [Load -> LoadState] /\ load[l] \in LoadState /\ HandlerInv(load[l], platform[l]) /\ platform[l] \in BOOLEAN
    BY DEF LInv, TypeOK
  <1> USE DEF HandlerInv, WriterInv, PassInv, AnswerInv, SourceInv, Before, Kit, None
  <1>1. n \in 0..MaxPasses /\ n = 0
    BY <1>0, LoaderAssumption DEF LoadState
  <1>2. CASE load[l].phase = None
    <2> DEFINE h == [load[l] EXCEPT !.at = "leaving", !.http = httpOf(resp), !.resp = resp, !.left = n]
    <2>1. load' = [load EXCEPT ![l] = h]
      BY <1>0, <1>2 DEF beginClose, reply
    <2>2. httpOf(resp) \in {"200", "202"}  BY Responses
    <2>3. h \in LoadState  BY <1>0, <1>1, <2>2 DEF LoadState
    <2>4. HandlerInv(h, platform[l])  BY <1>0, <1>1, <1>2, <2>2 DEF LoadState
    <2> HIDE DEF h, HandlerInv
    <2> QED  BY <2>1, <2>3, <2>4, OwnStep
  <1>3. CASE load[l].phase = "open"
    <2> DEFINE h == [load[l] EXCEPT !.at = "close", !.phase = "committing", !.resp = resp, !.left = n]
    <2>1. load' = [load EXCEPT ![l] = h]
      BY <1>0, <1>3 DEF beginClose
    <2>2. h \in LoadState  BY <1>0, <1>1 DEF LoadState
    <2>3. HandlerInv(h, platform[l])  BY <1>0, <1>1, <1>3 DEF LoadState
    <2> HIDE DEF h, HandlerInv
    <2> QED  BY <2>1, <2>2, <2>3, OwnStep
  <1> QED  BY <1>0, <1>2, <1>3

\* Every step of the kit's code, and what the handler makes of its return.
LEMMA KitSteps ==
    ASSUME LInv, NEW l \in Load,
           \/ Emit(l) \/ LoadFails(l) \/ KitPanics(l) \/ runSinglePassLoad(l)
           \/ Plan(l) \/ Pass(l) \/ PassFails(l)
    PROVE  LInv'
  <1>0. load \in [Load -> LoadState] /\ load[l] \in LoadState /\ HandlerInv(load[l], platform[l]) /\ platform[l] \in BOOLEAN
    BY DEF LInv, TypeOK
  <1> USE DEF HandlerInv, WriterInv, PassInv, AnswerInv, SourceInv, Before, Kit, None
  <1>1. CASE Emit(l)
    <2>1. PICK n \in 0..MaxRecords, b \in {"lines", "broken"} :
              load' = [load EXCEPT ![l] = [load[l] EXCEPT !.records = n, !.body = b]]
      <3>1. load[l].records \in 0..MaxRecords
        BY <1>0 DEF LoadState
      <3>2. CASE /\ load[l].records < MaxRecords
                 /\ load' = [load EXCEPT ![l].records = @ + 1, ![l].body = "lines"]
        <4>1. load' = [load EXCEPT ![l] = [load[l] EXCEPT !.records = load[l].records + 1, !.body = "lines"]]
          BY <1>0, <3>2
        <4>2. load[l].records + 1 \in 0..MaxRecords  BY <3>1, <3>2, LoaderAssumption
        <4> QED  BY <4>1, <4>2
      <3>3. ASSUME NEW b \in {"lines", "broken"}, load' = [load EXCEPT ![l].body = b]
            PROVE  load' = [load EXCEPT ![l] = [load[l] EXCEPT !.records = load[l].records, !.body = b]]
        BY <1>0, <3>3 DEF LoadState
      <3> QED  BY <1>1, <3>1, <3>2, <3>3 DEF Emit
    <2> DEFINE h == [load[l] EXCEPT !.records = n, !.body = b]
    <2>2. h \in LoadState  BY <1>0 DEF LoadState
    <2>3. HandlerInv(h, platform[l])  BY <1>0, <1>1 DEF Emit, inKit, LoadState
    <2>4. stay  BY <1>1 DEF Emit
    <2>5. load' = [load EXCEPT ![l] = h]  BY <2>1
    <2> HIDE DEF h, HandlerInv
    <2> QED  BY <2>2, <2>3, <2>4, <2>5, OwnStep
  <1>2. CASE LoadFails(l)
    <2>0. PICK http \in {"500"} : load' = reply(l, http, NoResponse)
      BY <1>2 DEF LoadFails, fail
    <2> DEFINE h == [load[l] EXCEPT !.at = "leaving", !.http = http, !.resp = NoResponse]
    <2>1. load' = [load EXCEPT ![l] = h] /\ stay
      BY <1>0, <1>2, <2>0 DEF LoadFails, reply
    <2>2. h \in LoadState
      BY <1>0, <1>2, <2>0, Responses DEF LoadFails, LoadState
    <2>3. HandlerInv(h, platform[l])
      BY <1>0, <1>2, <2>0 DEF LoadFails, LoadState
    <2> HIDE DEF h, HandlerInv
    <2> QED  BY <2>1, <2>2, <2>3, OwnStep
  <1>3. CASE KitPanics(l)
    <2> DEFINE h == [load[l] EXCEPT !.at = "leaving"]
    <2>1. load' = [load EXCEPT ![l] = h]
      BY <1>0, <1>3 DEF KitPanics, step
    <2>2. h \in LoadState  BY <1>0 DEF LoadState
    <2>3. HandlerInv(h, platform[l])
      BY <1>0, <1>3 DEF KitPanics, inKit, LoadState
    <2>4. client' \in [Load -> {"idle", "waiting", "polling", "told", "error"}]
      BY <1>3 DEF KitPanics, LInv, TypeOK
    <2>5. platform' = [platform EXCEPT ![l] = platform[l]] /\ UNCHANGED <<main, config>>
      BY <1>3 DEF KitPanics, LInv, TypeOK
    <2> HIDE DEF h, HandlerInv
    <2> QED  BY <1>0, <2>1, <2>2, <2>3, <2>4, <2>5, OneHandler
  <1>4. CASE runSinglePassLoad(l)
    <2>1. PICK resp \in [status : Statuses, job : {None, "kit"}] : load' = beginClose(l, resp)
      BY <1>4 DEF runSinglePassLoad
    <2>4. resp \in LoadResponse /\ resp.job # "platform"  BY Responses
    <2>2. beginClose(l, resp) = [beginClose(l, resp) EXCEPT ![l].left = load[l].left]
      <3>1. load \in [Load -> LoadState]  BY <1>0
      <3>2. CASE load[l].phase = None  BY <3>1, <3>2 DEF beginClose, reply, LoadState
      <3>3. CASE load[l].phase # None  BY <3>1, <3>3 DEF beginClose, LoadState
      <3> QED  BY <3>2, <3>3
    <2>3. load[l].left = 0 /\ load[l].at = "load" /\ stay  BY <1>0, <1>4 DEF runSinglePassLoad
    <2> QED  BY <2>1, <2>4, <2>2, <2>3, BeginClose
  <1>5. CASE Plan(l)
    <2>0. PICK n \in 1..MaxPasses : load' = [load EXCEPT ![l].at = "pass", ![l].left = n]
      BY <1>5 DEF Plan
    <2> DEFINE h == [load[l] EXCEPT !.at = "pass", !.left = n]
    <2>1. load' = [load EXCEPT ![l] = h] /\ stay
      BY <1>0, <1>5, <2>0 DEF Plan
    <2>2. h \in LoadState
      <3>1. n \in 0..MaxPasses  BY LoaderAssumption
      <3> QED  BY <1>0, <3>1 DEF LoadState
    <2>3. HandlerInv(h, platform[l])
      BY <1>0, <1>5 DEF Plan, LoadState
    <2> HIDE DEF h, HandlerInv
    <2> QED  BY <2>1, <2>2, <2>3, OwnStep
  <1>6. CASE Pass(l)
    <2>1. CASE load[l].left > 1
      <3> DEFINE h == [load[l] EXCEPT !.left = load[l].left - 1]
      <3>1. load' = [load EXCEPT ![l] = h] /\ stay
        BY <1>0, <1>6, <2>1 DEF Pass
      <3>2. load[l].left - 1 \in 0..MaxPasses
        BY <1>0, <2>1, LoaderAssumption DEF LoadState
      <3>3. h \in LoadState  BY <1>0, <3>2 DEF LoadState
      <3>4. HandlerInv(h, platform[l])
        BY <1>0, <1>6 DEF Pass, LoadState
      <3> HIDE DEF h, HandlerInv
      <3> QED  BY <3>1, <3>3, <3>4, OwnStep
    <2>2. CASE ~(load[l].left > 1)
      <3>1. load' = [beginClose(l, streamed) EXCEPT ![l].left = 0] /\ stay /\ load[l].at = "pass"
        BY <1>6, <2>2 DEF Pass
      <3>2. streamed \in LoadResponse /\ streamed.job # "platform"  BY Responses DEF streamed
      <3> QED  BY <3>1, <3>2, BeginClose
    <2> QED  BY <2>1, <2>2
  <1>7. CASE PassFails(l)
    <2>0. PICK http \in {"500"} : load' = reply(l, http, NoResponse)
      BY <1>7 DEF PassFails, fail
    <2> DEFINE h == [load[l] EXCEPT !.at = "leaving", !.http = http, !.resp = NoResponse]
    <2>1. load' = [load EXCEPT ![l] = h] /\ stay
      BY <1>0, <1>7, <2>0 DEF PassFails, reply
    <2>2. h \in LoadState
      BY <1>0, <1>7, <2>0, Responses DEF PassFails, LoadState
    <2>3. HandlerInv(h, platform[l])
      BY <1>0, <1>7, <2>0 DEF PassFails, LoadState
    <2> HIDE DEF h, HandlerInv
    <2> QED  BY <2>1, <2>2, <2>3, OwnStep
  <1> QED  BY <1>1, <1>2, <1>3, <1>4, <1>5, <1>6, <1>7

\* Closing the writer, the platform taking the artifact, in time or late, and
\* the deferred calls.
LEMMA CloseSteps ==
    ASSUME LInv, NEW l \in Load,
           Publish(l) \/ CloseOK(l) \/ CloseFails(l) \/ Deferred(l)
    PROVE  LInv'
  <1>0. load \in [Load -> LoadState] /\ load[l] \in LoadState /\ HandlerInv(load[l], platform[l]) /\ platform[l] \in BOOLEAN
    BY DEF LInv, TypeOK
  <1> USE DEF HandlerInv, WriterInv, PassInv, AnswerInv, SourceInv, Before, Kit, None
  <1>1. CASE Publish(l)
    <2> DEFINE h == [load[l] EXCEPT !.phase = IF load[l].phase = "indoubt" THEN "settled" ELSE load[l].phase]
    <2>1. load' = [load EXCEPT ![l] = h] /\ UNCHANGED <<main, config, client>>
      BY <1>0, <1>1 DEF Publish
    <2>2. h \in LoadState  BY <1>0 DEF LoadState
    <2>3. HandlerInv(h, TRUE)
      BY <1>0, <1>1 DEF Publish, committable, LoadState
    <2>4. platform' = [platform EXCEPT ![l] = TRUE]
      BY <1>1 DEF Publish
    <2> HIDE DEF h, HandlerInv
    <2> QED  BY <2>1, <2>2, <2>3, <2>4, OneHandler DEF LInv, TypeOK
  <1>2. CASE CloseOK(l)
    <2> DEFINE resp == attachReceipt(load[l].resp)
               h == [load[l] EXCEPT !.at = "leaving", !.http = httpOf(resp), !.resp = resp, !.phase = "settled"]
    <2>1. load' = [load EXCEPT ![l] = h] /\ stay /\ load[l].at = "close" /\ platform[l]
      BY <1>0, <1>2 DEF CloseOK, reply
    <2>2. resp \in LoadResponse /\ resp.job = "platform" /\ httpOf(resp) \in {"200", "202"}
      BY <1>0, Responses DEF LoadState
    <2> HIDE DEF resp
    <2>3. h \in LoadState  BY <1>0, <2>2 DEF LoadState
    <2>4. HandlerInv(h, platform[l])  BY <1>0, <2>1, <2>2 DEF LoadState
    <2> HIDE DEF h, HandlerInv
    <2> QED  BY <2>1, <2>3, <2>4, OwnStep
  <1>3. CASE CloseFails(l)
    <2> DEFINE resp == closeFailed(load[l].resp)
    <2>1. PICK p \in {"settled", "indoubt"} :
               load' = [reply(l, httpOf(resp), resp) EXCEPT ![l].phase = p] /\ (p = "indoubt" => ~platform[l])
      BY <1>3 DEF CloseFails
    <2> DEFINE h == [load[l] EXCEPT !.at = "leaving", !.http = httpOf(resp), !.resp = resp, !.phase = p]
    <2>2. load' = [load EXCEPT ![l] = h] /\ stay /\ load[l].at = "close"
      BY <1>0, <1>3, <2>1 DEF CloseFails, reply
    <2>3. resp \in LoadResponse /\ resp.status = "failed" /\ httpOf(resp) \in {"200", "202"}
      BY <1>0, Responses DEF LoadState
    <2> HIDE DEF resp
    <2>4. h \in LoadState  BY <1>0, <2>3 DEF LoadState
    <2>5. HandlerInv(h, platform[l])  BY <1>0, <2>1, <2>2, <2>3 DEF LoadState
    <2> HIDE DEF h, HandlerInv
    <2> QED  BY <2>2, <2>4, <2>5, OwnStep
  <1>4. CASE Deferred(l)
    <2> DEFINE h == [load[l] EXCEPT !.at = "done", !.temp = FALSE,
                                    !.phase = IF load[l].phase = "open" THEN "settled" ELSE load[l].phase]
    <2>1. load' = [load EXCEPT ![l] = h] /\ stay
      BY <1>0, <1>4 DEF Deferred
    <2>2. h \in LoadState
      BY <1>0, <1>4 DEF Deferred, LoadState
    <2>3. HandlerInv(h, platform[l])
      BY <1>0, <1>4 DEF Deferred, LoadState
    <2> HIDE DEF h, HandlerInv
    <2> QED  BY <2>1, <2>2, <2>3, OwnStep
  <1> QED  BY <1>1, <1>2, <1>3, <1>4

\* The caller's steps change nothing the invariant is about.
LEMMA CallerSteps ==
    ASSUME LInv, NEW l \in Load, Call(l) \/ Hear(l) \/ GiveUp(l) \/ Poll(l)
    PROVE  LInv'
  <1>1. UNCHANGED <<main, config, load, platform>>
    BY DEF Call, Hear, GiveUp, Poll
  <1>2. client' \in [Load -> {"idle", "waiting", "polling", "told", "error"}]
    BY DEF Call, Hear, GiveUp, Poll, LInv, TypeOK
  <1> QED  BY <1>1, <1>2 DEF LInv, TypeOK, config

\* The shutdown, and the end of the process under its handlers.
LEMMA MainSteps ==
    ASSUME LInv, Leave \/ ShutdownDone \/ Killed
    PROVE  LInv'
  <1>1. CASE Leave \/ ShutdownDone
    <2>1. TypeOK' /\ UNCHANGED <<load, platform>>
      BY <1>1 DEF Leave, ShutdownDone, LInv, TypeOK, config
    <2> QED  BY <2>1 DEF LInv
  <1>2. CASE Killed
    <2>1. ASSUME NEW l \in Load
          PROVE  load'[l] \in LoadState /\ HandlerInv(load'[l], platform'[l])
      <3>1. load[l] \in LoadState /\ HandlerInv(load[l], platform[l]) /\ platform[l] \in BOOLEAN
        BY DEF LInv, TypeOK
      <3>2. platform' = platform /\ load'[l] = IF running(l) THEN killed(l) ELSE load[l]
        BY <1>2 DEF Killed
      <3>3. CASE running(l)
        <4>1. PICK ph \in {None, "open", "committing", "indoubt", "settled"} :
                 /\ killed(l) = [load[l] EXCEPT !.at = "killed", !.phase = ph]
                 /\ ph = IF load[l].phase = "committing" THEN IF platform[l] THEN "settled" ELSE "indoubt"
                         ELSE load[l].phase
          BY <3>1 DEF killed, LoadState
        <4> DEFINE h == [load[l] EXCEPT !.at = "killed", !.phase = ph]
        <4>2. h \in LoadState  BY <3>1 DEF LoadState
        <4>3. HandlerInv(h, platform[l])
          BY <3>1, <3>3, <4>1 DEF running, LoadState, None,
             HandlerInv, WriterInv, PassInv, AnswerInv, SourceInv, Before, Kit
        <4> QED  BY <3>2, <3>3, <4>1, <4>2, <4>3
      <3> QED  BY <3>1, <3>2, <3>3
    <2>2. TypeOK'
      <3>1. load' \in [Load -> LoadState]  BY <1>2, <2>1 DEF Killed
      <3> QED  BY <1>2, <3>1 DEF Killed, LInv, TypeOK, config
    <2> QED  BY <2>1, <2>2 DEF LInv
  <1> QED  BY <1>1, <1>2

LEMMA LInvNext == LInv /\ [Next]_vars => LInv'
  <1> SUFFICES ASSUME LInv, [Next]_vars PROVE LInv'  OBVIOUS
  <1>1. CASE UNCHANGED vars
    BY <1>1 DEF vars, config, LInv, TypeOK
  <1>2. CASE \E l \in Load : Call(l) \/ Hear(l) \/ GiveUp(l) \/ Poll(l) \/ Handler(l) \/ Publish(l)
    BY <1>2, CallerSteps, EarlySteps, KitSteps, CloseSteps DEF Handler
  <1>3. CASE Leave \/ ShutdownDone \/ Killed
    BY <1>3, MainSteps
  <1> QED  BY <1>1, <1>2, <1>3 DEF Next

\* LInv is an inductive invariant of the specification.
THEOREM LInvHolds == Spec => []LInv
  BY LInvInit, LInvNext, PTL DEF Spec

\* Whatever the caller of POST /load is told, an answer other than "failed"
\* is an artifact the platform holds, and an HTTP error is an artifact it does
\* not hold and will not take (closeWriterAndAttachReceipt).
THEOREM LoaderAnswerIsTruthful == Spec => []AnswerIsTruthful
  <1>1. LInv => AnswerIsTruthful
    BY DEF LInv, AnswerIsTruthful, HandlerInv, AnswerInv
  <1> QED  BY <1>1, LInvHolds, PTL

\* An artifact of the platform is a whole load: the kit's code returned without
\* an error, every pass ran, and the caller was not told 500 (runStreamingLoad).
THEOREM LoaderArtifactIsWholeLoad == Spec => []ArtifactIsWholeLoad
  <1>1. LInv => ArtifactIsWholeLoad
    BY DEF LInv, ArtifactIsWholeLoad, HandlerInv, WriterInv, PassInv, AnswerInv
  <1> QED  BY <1>1, LInvHolds, PTL

\* However a handler ends, the downloaded source is removed and the writer
\* closed or discarded (the deferred calls of loadHandlerFunc).
THEOREM LoaderNothingLeftBehind == Spec => []NothingLeftBehind
  <1>1. LInv => NothingLeftBehind
    BY DEF LInv, NothingLeftBehind, HandlerInv, WriterInv, SourceInv
  <1> QED  BY <1>1, LInvHolds, PTL

-----------------------------------------------------------------------------
\* Loader uses every writer as ArtifactCommit allows.

\* What a step has to do to a handler to be a step of its writer, or none.
LEMMA WriterUnmoved ==
    ASSUME NEW l \in Load, load'[l].records = load[l].records, platform'[l] = platform[l],
           \/ load'[l].phase = load[l].phase
           \/ load[l].phase = None /\ load'[l].phase = "open",
           load'[l].resp.job = "platform" <=> load[l].resp.job = "platform"
    PROVE  UNCHANGED Writer(l)!abstractVars
  <1>1. Accepted(l)' = Accepted(l)  BY DEF Accepted
  <1>2. (load'[l].resp.job = "platform") = (load[l].resp.job = "platform")  OBVIOUS
  <1>3. (IF load'[l].phase = None THEN "open" ELSE load'[l].phase)
        = IF load[l].phase = None THEN "open" ELSE load[l].phase
    OBVIOUS
  <1>4. (IF platform'[l] THEN <<Accepted(l)'>> ELSE <<>>)
        = IF platform[l] THEN <<Accepted(l)>> ELSE <<>>
    BY <1>1
  <1> QED  BY <1>1, <1>2, <1>3, <1>4 DEF Writer!abstractVars

LEMMA WriterAccepts ==
    ASSUME NEW l \in Load, load[l].records \in Nat, load'[l].records = load[l].records + 1,
           load[l].phase = "open", load'[l].phase = "open", ~platform[l], ~platform'[l],
           load'[l].resp.job = "platform" <=> load[l].resp.job = "platform"
    PROVE  Writer(l)!Accept
  <1>1. Accepted(l)' = Append(Accepted(l), "record")  BY DEF Accepted
  <1>2. (load'[l].resp.job = "platform") = (load[l].resp.job = "platform")  OBVIOUS
  <1> QED  BY <1>1, <1>2 DEF Writer!Accept, None

LEMMA WriterSeals ==
    ASSUME NEW l \in Load, load'[l].records = load[l].records, platform'[l] = platform[l],
           load[l].phase = "open", load'[l].phase \in {"committing", "settled"},
           load'[l].resp.job = "platform" <=> load[l].resp.job = "platform"
    PROVE  Writer(l)!Seal
  <1>1. Accepted(l)' = Accepted(l)  BY DEF Accepted
  <1>2. (load'[l].resp.job = "platform") = (load[l].resp.job = "platform")  OBVIOUS
  <1> QED  BY <1>1, <1>2 DEF Writer!Seal, None

LEMMA WriterGivesUp ==
    ASSUME NEW l \in Load, load'[l].records = load[l].records, platform'[l] = platform[l],
           load[l].phase = "committing", load'[l].phase \in {"settled", "indoubt"},
           load'[l].resp.job = "platform" <=> load[l].resp.job = "platform"
    PROVE  Writer(l)!GiveUp
  <1>1. Accepted(l)' = Accepted(l)  BY DEF Accepted
  <1>2. (load'[l].resp.job = "platform") = (load[l].resp.job = "platform")  OBVIOUS
  <1> QED  BY <1>1, <1>2 DEF Writer!GiveUp, None

\* A step of another load, or of the caller.
LEMMA OthersUnmoved ==
    ASSUME NEW l \in Load, load'[l] = load[l], platform'[l] = platform[l]
    PROVE  UNCHANGED Writer(l)!abstractVars
  BY WriterUnmoved

\* The steps of a handler, seen from its writer.
LEMMA HandlerUsesWriter ==
    ASSUME LInv, NEW l \in Load, Handler(l) \/ Publish(l)
    PROVE  [Writer(l)!Next]_(Writer(l)!abstractVars)
  <1>0. /\ load \in [Load -> LoadState] /\ load[l] \in LoadState
        /\ platform \in [Load -> BOOLEAN] /\ load[l].records \in Nat
    BY LoaderAssumption DEF LInv, TypeOK, LoadState
  <1>1. /\ load[l].at \in Before \cup Kit \cup {"close"} => load[l].resp.job # "platform"
        /\ load[l].at \in Kit => load[l].phase \in {None, "open"}
        /\ load[l].at = "factory" => load[l].phase = None
        /\ load[l].phase = "committing" <=> load[l].at = "close"
        /\ platform[l] => load[l].phase \in {"committing", "settled"}
    BY DEF LInv, HandlerInv, AnswerInv, WriterInv, Before
  <1>2. NoResponse.job # "platform" /\ streamed.job # "platform"
    BY DEF NoResponse, streamed, None
  <1> USE DEF stay, reply, fail, refuse, step
  <1>3. ASSUME stay, load'[l].records = load[l].records,
               \/ load'[l].phase = load[l].phase
               \/ load[l].phase = None /\ load'[l].phase = "open",
               load'[l].resp.job = "platform" <=> load[l].resp.job = "platform"
        PROVE  UNCHANGED Writer(l)!abstractVars
    BY <1>3, WriterUnmoved
  <1>4. CASE decodeAndValidateLoadRequest(l) \/ SourceFails(l) \/ SourceOpens(l)
             \/ CopyFails(l) \/ CopyDone(l) \/ Plan(l)
    <2>1. /\ stay /\ load'[l].records = load[l].records /\ load'[l].phase = load[l].phase
          /\ load'[l].resp = load[l].resp
      <3> USE DEF LoadState
      <3>1. CASE decodeAndValidateLoadRequest(l)
        BY <1>0, <3>1 DEF decodeAndValidateLoadRequest
      <3>2. CASE SourceFails(l)  BY <1>0, <3>2 DEF SourceFails
      <3>3. CASE SourceOpens(l)  BY <1>0, <3>3 DEF SourceOpens
      <3>4. CASE CopyFails(l)  BY <1>0, <3>4 DEF CopyFails
      <3>5. CASE CopyDone(l)  BY <1>0, <3>5 DEF CopyDone
      <3>6. CASE Plan(l)  BY <1>0, <3>6 DEF Plan
      <3> QED  BY <1>4, <3>1, <3>2, <3>3, <3>4, <3>5, <3>6
    <2> QED  BY <1>3, <2>1
  <1>5. CASE WriterFails(l) \/ LoadFails(l) \/ PassFails(l)
    <2>1. /\ stay /\ load'[l].records = load[l].records /\ load'[l].phase = load[l].phase
          /\ load'[l].resp = NoResponse /\ load[l].at \in {"factory", "load", "plan", "pass"}
      <3> USE DEF LoadState
      <3>1. CASE WriterFails(l)  BY <1>0, <3>1 DEF WriterFails
      <3>2. CASE LoadFails(l)  BY <1>0, <3>2 DEF LoadFails
      <3>3. CASE PassFails(l)  BY <1>0, <3>3 DEF PassFails
      <3> QED  BY <1>5, <3>1, <3>2, <3>3
    <2> QED  BY <1>1, <1>2, <1>3, <2>1 DEF Before, Kit
  <1>6. CASE MakeWriter(l)
    <2>1. /\ stay /\ load'[l].records = load[l].records /\ load'[l].phase \in {None, "open"}
          /\ load'[l].resp = load[l].resp /\ load[l].phase = None
      BY <1>0, <1>1, <1>6 DEF MakeWriter, LoadState
    <2> QED  BY <1>3, <2>1
  <1>7. CASE Emit(l)
    <2>1. ~platform[l] /\ stay /\ load[l].phase = "open"  BY <1>1, <1>7 DEF Emit
    <2>2. CASE load' = [load EXCEPT ![l].records = @ + 1, ![l].body = "lines"]
      <3>1. /\ load'[l].records = load[l].records + 1 /\ load'[l].phase = load[l].phase
            /\ load'[l].resp = load[l].resp
        BY <1>0, <2>2 DEF LoadState
      <3>2. Writer(l)!Accept  BY <1>0, <2>1, <3>1, WriterAccepts
      <3> QED  BY <3>2 DEF Writer!Next
    <2>3. CASE \E b \in {"lines", "broken"} : load' = [load EXCEPT ![l].body = b]
      <3>1. /\ load'[l].records = load[l].records /\ load'[l].phase = load[l].phase
            /\ load'[l].resp = load[l].resp
        BY <1>0, <2>3 DEF LoadState
      <3> QED  BY <1>3, <2>1, <3>1
    <2> QED  BY <1>7, <2>2, <2>3 DEF Emit
  <1>8. CASE KitPanics(l)
    <2>1. /\ load'[l].records = load[l].records /\ load'[l].phase = load[l].phase
          /\ load'[l].resp = load[l].resp /\ platform'[l] = platform[l]
      BY <1>0, <1>8 DEF KitPanics, LoadState
    <2> QED  BY <2>1, WriterUnmoved
  <1>9. ASSUME NEW resp \in LoadResponse, resp.job # "platform", stay, load[l].at \in Kit,
               load'[l].records = beginClose(l, resp)[l].records,
               load'[l].phase = beginClose(l, resp)[l].phase,
               load'[l].resp = beginClose(l, resp)[l].resp
        PROVE  [Writer(l)!Next]_(Writer(l)!abstractVars)
    <2>1. CASE load[l].phase = None
      <3>1. /\ load'[l].records = load[l].records /\ load'[l].phase = load[l].phase
            /\ load'[l].resp = resp
        BY <1>0, <1>9, <2>1 DEF beginClose, LoadState
      <3> QED  BY <1>1, <1>3, <1>9, <3>1
    <2>2. CASE load[l].phase = "open"
      <3>1. /\ load'[l].records = load[l].records /\ load'[l].phase = "committing"
            /\ load'[l].resp = resp
        BY <1>0, <1>9, <2>2 DEF beginClose, LoadState, None
      <3>2. Writer(l)!Seal  BY <1>1, <1>9, <2>2, <3>1, WriterSeals
      <3> QED  BY <3>2 DEF Writer!Next
    <2> QED  BY <1>1, <1>9, <2>1, <2>2
  <1>10. CASE runSinglePassLoad(l)
    <2>1. PICK resp \in [status : Statuses, job : {None, "kit"}] : load' = beginClose(l, resp)
      BY <1>10 DEF runSinglePassLoad
    <2>2. resp \in LoadResponse /\ resp.job # "platform"  BY Responses DEF None
    <2>3. stay /\ load[l].at \in Kit  BY <1>10 DEF runSinglePassLoad, Kit
    <2> QED  BY <1>9, <2>1, <2>2, <2>3
  <1>11. CASE Pass(l)
    <2>1. CASE load[l].left > 1
      <3>1. /\ stay /\ load'[l].records = load[l].records /\ load'[l].phase = load[l].phase
            /\ load'[l].resp = load[l].resp
        BY <1>0, <1>11, <2>1 DEF Pass, LoadState
      <3> QED  BY <1>3, <3>1
    <2>2. CASE ~(load[l].left > 1)
      <3>1. load' = [beginClose(l, streamed) EXCEPT ![l].left = 0] /\ stay /\ load[l].at \in Kit
        BY <1>11, <2>2 DEF Pass, Kit
      <3>2. \E h \in LoadState : beginClose(l, streamed) = [load EXCEPT ![l] = h]
        <4>1. streamed \in LoadResponse /\ httpOf(streamed) \in {"200", "202"}  BY Responses
        <4>2. CASE load[l].phase = None
          <5> DEFINE h == [load[l] EXCEPT !.at = "leaving", !.http = httpOf(streamed), !.resp = streamed]
          <5>1. h \in LoadState  BY <1>0, <4>1 DEF LoadState
          <5>2. beginClose(l, streamed) = [load EXCEPT ![l] = h]
            BY <1>0, <4>2 DEF beginClose
          <5> QED  BY <5>1, <5>2
        <4>3. CASE load[l].phase # None
          <5> DEFINE h == [load[l] EXCEPT !.at = "close", !.phase = "committing", !.resp = streamed]
          <5>1. h \in LoadState  BY <1>0, <4>1 DEF LoadState
          <5>2. beginClose(l, streamed) = [load EXCEPT ![l] = h]
            BY <1>0, <4>3 DEF beginClose
          <5> QED  BY <5>1, <5>2
        <4> QED  BY <4>2, <4>3
      <3>3. PICK h \in LoadState : beginClose(l, streamed) = [load EXCEPT ![l] = h]  BY <3>2
      <3>4. beginClose(l, streamed)[l] = h  BY <1>0, <3>3
      <3>5. load'[l] = [h EXCEPT !.left = 0]  BY <1>0, <3>1, <3>3
      <3>6. /\ load'[l].records = h.records /\ load'[l].phase = h.phase /\ load'[l].resp = h.resp
        BY <3>5 DEF LoadState
      <3>7. streamed \in LoadResponse  BY Responses
      <3> QED  BY <1>2, <1>9, <3>1, <3>4, <3>6, <3>7
    <2> QED  BY <2>1, <2>2
  <1>12. CASE Publish(l)
    <2>1. /\ load[l].phase \in {"committing", "indoubt"} /\ ~platform[l] /\ platform'[l]
          /\ load'[l].records = load[l].records /\ load'[l].resp = load[l].resp
          /\ load'[l].phase = IF load[l].phase = "indoubt" THEN "settled" ELSE load[l].phase
      BY <1>0, <1>12 DEF Publish, LoadState
    <2>2. Accepted(l)' = Accepted(l)  BY <2>1 DEF Accepted
    <2>3. Writer(l)!Publish  BY <2>1, <2>2 DEF Writer!Publish, None
    <2> QED  BY <2>3 DEF Writer!Next
  <1>13. CASE CloseOK(l)
    <2> DEFINE resp == attachReceipt(load[l].resp)
    <2>1. resp \in LoadResponse /\ resp.job = "platform" /\ httpOf(resp) \in {"200", "202"}
      BY <1>0, Responses DEF LoadState
    <2>2. /\ load' = [reply(l, httpOf(resp), resp) EXCEPT ![l].phase = "settled"]
          /\ load[l].phase = "committing" /\ platform[l] /\ stay
      BY <1>1, <1>13 DEF CloseOK
    <2> HIDE DEF resp
    <2>3. /\ load'[l].records = load[l].records /\ load'[l].phase = "settled"
          /\ load'[l].resp = resp
      BY <1>0, <2>2 DEF LoadState
    <2>4. Accepted(l)' = Accepted(l)  BY <2>3 DEF Accepted
    <2>5. (load'[l].resp.job = "platform") = TRUE  BY <2>1, <2>3
    <2>6. Writer(l)!Confirm  BY <2>2, <2>3, <2>4, <2>5 DEF Writer!Confirm, None
    <2> QED  BY <2>6 DEF Writer!Next
  <1>14. CASE CloseFails(l)
    <2> DEFINE resp == closeFailed(load[l].resp)
    <2>1. resp.job = load[l].resp.job  BY <1>0 DEF closeFailed, LoadState, LoadResponse
    <2>2. /\ \E p \in {"settled", "indoubt"} :
                load' = [reply(l, httpOf(resp), resp) EXCEPT ![l].phase = p]
          /\ load[l].phase = "committing" /\ stay
      BY <1>1, <1>14 DEF CloseFails
    <2> HIDE DEF resp
    <2>3. /\ load'[l].records = load[l].records /\ load'[l].phase \in {"settled", "indoubt"}
          /\ load'[l].resp = resp
      BY <1>0, <2>2 DEF LoadState
    <2>4. Writer(l)!GiveUp  BY <2>1, <2>2, <2>3, WriterGivesUp
    <2> QED  BY <2>4 DEF Writer!Next
  <1>15. CASE Deferred(l)
    <2>1. /\ stay /\ load'[l].records = load[l].records /\ load'[l].resp = load[l].resp
          /\ load'[l].phase = IF load[l].phase = "open" THEN "settled" ELSE load[l].phase
      BY <1>0, <1>15 DEF Deferred, LoadState
    <2>2. CASE load[l].phase = "open"
      <3>1. Writer(l)!Seal  BY <2>1, <2>2, WriterSeals
      <3> QED  BY <3>1 DEF Writer!Next
    <2>3. CASE load[l].phase # "open"  BY <1>3, <2>1, <2>3
    <2> QED  BY <2>2, <2>3
  <1> QED
    BY <1>4, <1>5, <1>6, <1>7, <1>8, <1>10, <1>11, <1>12, <1>13, <1>14, <1>15 DEF Handler

\* A step of one handler leaves the others where they are.
LEMMA HandlerIsAlone ==
    ASSUME LInv, NEW k \in Load, NEW l \in Load, l # k,
           Call(k) \/ Hear(k) \/ GiveUp(k) \/ Poll(k) \/ Handler(k) \/ Publish(k)
    PROVE  load'[l] = load[l] /\ platform'[l] = platform[l]
  <1>0. load \in [Load -> LoadState] /\ platform \in [Load -> BOOLEAN]  BY DEF LInv, TypeOK
  <1> USE DEF stay, reply, fail, refuse, step
  <1>1. CASE Call(k) \/ Hear(k) \/ GiveUp(k) \/ Poll(k)  BY <1>1 DEF Call, Hear, GiveUp, Poll
  <1>2. CASE \/ decodeAndValidateLoadRequest(k) \/ SourceFails(k) \/ SourceOpens(k)
             \/ CopyFails(k) \/ CopyDone(k)
    BY <1>0, <1>2 DEF decodeAndValidateLoadRequest, SourceFails, SourceOpens, CopyFails, CopyDone
  <1>3. CASE WriterFails(k) \/ MakeWriter(k) \/ Emit(k) \/ LoadFails(k) \/ KitPanics(k)
    BY <1>0, <1>3 DEF WriterFails, MakeWriter, Emit, LoadFails, KitPanics
  <1>4. CASE runSinglePassLoad(k) \/ Plan(k) \/ Pass(k) \/ PassFails(k)
    BY <1>0, <1>4 DEF runSinglePassLoad, beginClose, Plan, Pass, PassFails
  <1>5. CASE CloseOK(k) \/ CloseFails(k) \/ Deferred(k) \/ Publish(k)
    BY <1>0, <1>5 DEF CloseOK, CloseFails, Deferred, Publish
  <1> QED  BY <1>1, <1>2, <1>3, <1>4, <1>5 DEF Handler

\* Every load keeps to what the transfer writer promises and may be asked, for
\* any number of loads, passes and records, and also when the process ends
\* under a commit (loadHandlerFunc, closeWriterAndAttachReceipt).
THEOREM LoaderWriterKeepsPromise == Spec => WriterKeepsPromise
  <1>1. ASSUME Init PROVE \A l \in Load : Writer(l)!Init
    <2> TAKE l \in Load
    <2>1. load[l].records = 0 /\ load[l].phase = None /\ load[l].resp.job = None /\ ~platform[l]
      BY <1>1 DEF Init, NewLoad, NoResponse
    <2>2. Accepted(l) = <<>>  BY <2>1 DEF Accepted
    <2>3. (load[l].resp.job = "platform") = FALSE  BY <2>1 DEF None
    <2> QED  BY <2>1, <2>2, <2>3 DEF Writer!Init
  <1>2. ASSUME LInv, [Next]_vars
        PROVE  \A l \in Load : [Writer(l)!Next]_(Writer(l)!abstractVars)
    <2> TAKE l \in Load
    <2>1. CASE UNCHANGED vars
      <3>1. load'[l] = load[l] /\ platform'[l] = platform[l]  BY <2>1 DEF vars
      <3> QED  BY <3>1, OthersUnmoved
    <2>2. ASSUME NEW k \in Load, Call(k) \/ Hear(k) \/ GiveUp(k) \/ Poll(k) \/ Handler(k) \/ Publish(k)
          PROVE  [Writer(l)!Next]_(Writer(l)!abstractVars)
      <3>1. CASE l # k
        <4>1. load'[l] = load[l] /\ platform'[l] = platform[l]  BY <1>2, <2>2, <3>1, HandlerIsAlone
        <4> QED  BY <4>1, OthersUnmoved
      <3>2. CASE l = k /\ (Handler(l) \/ Publish(l))  BY <1>2, <3>2, HandlerUsesWriter
      <3>3. CASE Call(k) \/ Hear(k) \/ GiveUp(k) \/ Poll(k)
        <4>1. load'[l] = load[l] /\ platform'[l] = platform[l]
          BY <3>3 DEF Call, Hear, GiveUp, Poll
        <4> QED  BY <4>1, OthersUnmoved
      <3> QED  BY <2>2, <3>1, <3>2, <3>3
    <2>3. CASE Leave \/ ShutdownDone
      <3>1. load'[l] = load[l] /\ platform'[l] = platform[l]  BY <2>3 DEF Leave, ShutdownDone
      <3> QED  BY <3>1, OthersUnmoved
    <2>4. CASE Killed
      <3>0. load[l] \in LoadState /\ platform'[l] = platform[l]
        BY <1>2, <2>4 DEF Killed, LInv, TypeOK
      <3>1. CASE ~running(l)
        <4>1. load'[l] = load[l]  BY <2>4, <3>1 DEF Killed
        <4> QED  BY <3>0, <4>1, OthersUnmoved
      <3>2. CASE running(l)
        <4>1. load'[l] = killed(l)  BY <2>4, <3>2 DEF Killed
        <4>2. /\ load'[l].records = load[l].records /\ load'[l].resp = load[l].resp
              /\ load'[l].phase = IF load[l].phase = "committing"
                                  THEN IF platform[l] THEN "settled" ELSE "indoubt"
                                  ELSE load[l].phase
          BY <3>0, <4>1 DEF killed, LoadState
        <4>3. CASE load[l].phase = "committing"
          <5>1. Writer(l)!GiveUp  BY <3>0, <4>2, <4>3, WriterGivesUp
          <5> QED  BY <5>1 DEF Writer!Next
        <4>4. CASE load[l].phase # "committing"  BY <3>0, <4>2, <4>4, WriterUnmoved
        <4> QED  BY <4>3, <4>4
      <3> QED  BY <3>1, <3>2
    <2> QED  BY <1>2, <2>1, <2>2, <2>3, <2>4 DEF Next
  <1>3. LInv /\ [Next]_vars => [\A l \in Load : [Writer(l)!Next]_(Writer(l)!abstractVars)]_vars
    BY <1>2
  <1>4. Init => \A l \in Load : Writer(l)!Init  BY <1>1
  <1> QED  BY <1>3, <1>4, LInvHolds, PTL DEF Spec, WriterKeepsPromise

-----------------------------------------------------------------------------
\* Fetch.


\* An attempt is younger than its timeout; the file it writes is on disk, was
\* last touched after the attempt began, and holds no more than it may read.
\* A Result is the whole body.
GetInv(p) ==
    LET g == get[p]
    IN  /\ g.at \notin {"copy", "open"} => g.copied = 0
        /\ g.at \in {"request", "copy"} => g.since <= clock /\ clock - g.since <= Timeout
        /\ g.at \in {"copy", "open"} => g.mine \in 1..MaxSpools
        /\ g.at = "copy" =>
              /\ g.copied <= readable(p)
              /\ spool[mine(p)].owner = "attempt" /\ spool[mine(p)].named
              /\ g.since <= spool[mine(p)].mtime
        /\ g.at = "open" =>
              spool[mine(p)].owner = "result" /\ g.copied = g.got /\ g.got <= maxBytes[p]

\* A file somebody owns is the one its process works on.
SpoolInv(f) ==
    spool[f].owner \in {"none", "orphan"} \/ (f = mine(f[1]) /\ get[f[1]].at \in {"copy", "open"})

\* A sweep's cutoff lies StaleAge back, or more by now.
SweepInv(p) == sweep[p].at = "running" => sweep[p].cutoff <= clock - StaleAge

FInv ==
    /\ FetchTypeOK
    /\ \A p \in Process : GetInv(p)
    /\ \A f \in File : SpoolInv(f)
    /\ \A p \in Process : SweepInv(p)

-----------------------------------------------------------------------------
\* The file of a process.
LEMMA MineIsFile ==
    ASSUME NEW p \in Process, NEW k \in 1..MaxSpools
    PROVE  <<p, k>> \in File /\ <<p, k>>[1] = p
  BY DEF File

letThrough(cap, got) ==
    LET limit == readLimit(cap) IN IF limit <= 0 THEN 0 ELSE IF got < limit THEN got ELSE limit

\* What LimitReader lets through is within the cap or all there is: the limit
\* is one more than the cap, or the largest integer, which no body exceeds.
LEMMA ReadableIsWhole ==
    ASSUME NEW cap \in 1..MaxInt, NEW got \in 0..MaxInt
    PROVE  /\ letThrough(cap, got) \in Nat
           /\ letThrough(cap, got) <= cap => letThrough(cap, got) = got
  BY FetchAssumption DEF letThrough, readLimit

LEMMA Ranges ==
    ASSUME FetchTypeOK, NEW p \in Process
    PROVE  maxBytes[p] \in 1..MaxInt /\ get[p].got \in 0..MaxInt
  <1>1. maxBytes[p] \in Caps /\ get[p].got \in Bodies \cup {0}
    BY DEF FetchTypeOK, GetState
  <1>2. 0 \in 0..MaxInt  BY FetchAssumption
  <1> QED  BY <1>1, <1>2, FetchAssumption

LEMMA FInvInit == FetchInit => FInv
  <1> SUFFICES ASSUME FetchInit PROVE FInv  OBVIOUS
  <1>1. Idle \in GetState /\ NotSweeping \in SweepState /\ NoFile \in SpoolState /\ clock \in 0..MaxClock
    BY FetchAssumption DEF FetchInit, Idle, NotSweeping, NoFile, GetState, SweepState, SpoolState
  <1>2. FetchTypeOK  BY <1>1 DEF FetchInit, FetchTypeOK
  <1>3. \A p \in Process : GetInv(p)  BY DEF FetchInit, GetInv, Idle
  <1>4. \A f \in File : SpoolInv(f)  BY DEF FetchInit, SpoolInv, NoFile
  <1>5. \A p \in Process : SweepInv(p)  BY DEF FetchInit, SweepInv, NotSweeping
  <1> QED  BY <1>2, <1>3, <1>4, <1>5 DEF FInv

\* A step of Get in one process touches its own call and its own files only.
LEMMA ProcessStep ==
    ASSUME FInv, NEW p \in Process, keepOthers,
           NEW g \in GetState, get' = [get EXCEPT ![p] = g],
           spool' \in [File -> SpoolState],
           \A f \in File : f[1] # p => spool'[f] = spool[f],
           GetInv(p)', \A f \in File : f[1] = p => SpoolInv(f)'
    PROVE  FInv'
  <1>1. FetchTypeOK'  BY DEF FInv, FetchTypeOK, keepOthers
  <1>2. ASSUME NEW q \in Process PROVE GetInv(q)'
    <2>1. CASE q = p  BY <2>1
    <2>2. CASE q # p
      <3>1. get'[q] = get[q] /\ maxBytes' = maxBytes /\ clock' = clock
        BY <2>2 DEF FInv, FetchTypeOK, keepOthers
      <3>2. mine(q)' = mine(q) /\ readable(q)' = readable(q)
        BY <3>1 DEF mine, readable
      <3>3. get[q].mine \in 1..MaxSpools => spool'[mine(q)] = spool[mine(q)]
        BY <2>2, MineIsFile DEF mine
      <3>4. GetInv(q)  BY DEF FInv
      <3> QED  BY <3>1, <3>2, <3>3, <3>4 DEF GetInv
    <2> QED  BY <2>1, <2>2
  <1>3. ASSUME NEW f \in File PROVE SpoolInv(f)'
    <2>1. CASE f[1] # p
      <3>1. f[1] \in Process  BY DEF File
      <3>2. get'[f[1]] = get[f[1]] /\ spool'[f] = spool[f]
        BY <2>1, <3>1 DEF FInv, FetchTypeOK
      <3> QED  BY <3>2 DEF FInv, SpoolInv, mine
    <2> QED  BY <2>1
  <1>4. \A q \in Process : SweepInv(q)'
    BY DEF FInv, SweepInv, keepOthers
  <1> QED  BY <1>1, <1>2, <1>3, <1>4 DEF FInv

\* A process that neither writes a file nor holds one open owns none.
LEMMA OwnsNothing ==
    ASSUME FInv, NEW p \in Process, get[p].at \notin {"copy", "open"},
           NEW f \in File, f[1] = p
    PROVE  spool[f].owner \in {"none", "orphan"}
  BY DEF FInv, SpoolInv

\* Steps that change the call but no file, from a call without a file.
LEMMA CallStep ==
    ASSUME FInv, NEW p \in Process, get[p].at \notin {"copy", "open"},
           keepOthers, UNCHANGED spool,
           NEW g \in GetState, get' = [get EXCEPT ![p] = g],
           g.at \notin {"copy", "open"}, g.copied = 0,
           g.at = "request" => g.since <= clock /\ clock - g.since <= Timeout
    PROVE  FInv'
  <1>1. GetInv(p)'
    <2>1. get'[p] = g /\ clock' = clock  BY DEF FInv, FetchTypeOK, keepOthers
    <2> QED  BY <2>1 DEF GetInv
  <1>2. \A f \in File : f[1] = p => SpoolInv(f)'
    BY OwnsNothing DEF SpoolInv
  <1> QED  BY <1>1, <1>2, ProcessStep DEF FInv, FetchTypeOK

\* Steps that end a call and remove its file.
LEMMA ReleaseStep ==
    ASSUME FInv, NEW p \in Process, get[p].at \in {"copy", "open"},
           keepOthers, spool' = removed(mine(p)),
           NEW g \in GetState, get' = [get EXCEPT ![p] = g],
           g.at \in {"idle", "wait"}, g.copied = 0
    PROVE  FInv'
  <1>1. GetInv(p)'
    <2>1. get'[p] = g /\ clock' = clock  BY DEF FInv, FetchTypeOK, keepOthers
    <2> QED  BY <2>1 DEF GetInv
  <1>2. mine(p) \in File /\ mine(p)[1] = p
    BY MineIsFile DEF FInv, GetInv, mine
  <1>3. NoFile \in SpoolState
    BY FetchAssumption DEF NoFile, SpoolState
  <1>4. spool' \in [File -> SpoolState] /\ \A f \in File : f[1] # p => spool'[f] = spool[f]
    BY <1>2, <1>3 DEF removed, FInv, FetchTypeOK
  <1>5. ASSUME NEW f \in File, f[1] = p PROVE SpoolInv(f)'
    <2>1. CASE f = mine(p)
      BY <1>2, <2>1 DEF removed, FInv, FetchTypeOK, SpoolInv, NoFile
    <2>2. CASE f # mine(p)
      BY <1>2, <1>5, <2>2 DEF removed, FInv, FetchTypeOK, SpoolInv
    <2> QED  BY <2>1, <2>2
  <1> QED  BY <1>1, <1>4, <1>5, ProcessStep

\* What the retry loop goes on with owns nothing.
LEMMA AfterFailure ==
    ASSUME FInv, NEW p \in Process, NEW err
    PROVE  /\ afterFailure(p, err) \in GetState
           /\ afterFailure(p, err).at \in {"idle", "wait"}
           /\ afterFailure(p, err).copied = 0
  <1>1. get[p].attempt \in Nat /\ 0 \in 0..MaxClock /\ 0 \in 0..MaxSpools
    BY FetchAssumption DEF FInv, FetchTypeOK, GetState
  <1> QED  BY <1>1 DEF afterFailure, Idle, GetState

LEMMA IdleIs == Idle \in GetState /\ Idle.at = "idle" /\ Idle.copied = 0
  BY FetchAssumption DEF Idle, GetState

-----------------------------------------------------------------------------
\* Get, from the look at the URL to the Result and its Close.
LEMMA GetSteps ==
    ASSUME FInv, NEW p \in Process, GetStep(p) \/ Close(p)
    PROVE  FInv'
  <1>0. /\ get \in [Process -> GetState] /\ get[p] \in GetState /\ GetInv(p)
        /\ clock \in 0..MaxClock /\ clock \in Nat /\ MaxClock \in Nat /\ MaxSpools \in Nat /\ Timeout \in Nat
        /\ spool \in [File -> SpoolState]
    BY FetchAssumption DEF FInv, FetchTypeOK
  <1>1. CASE Get(p)
    <2> DEFINE h == [Idle EXCEPT !.at = "request", !.attempt = 1, !.since = clock]
    <2>1. h \in GetState /\ h.at = "request" /\ h.copied = 0 /\ h.since = clock
      BY <1>0, IdleIs DEF GetState
    <2>2. PICK g \in {h, Idle} : get' = [get EXCEPT ![p] = g]
      BY <1>1 DEF Get
    <2>3. get[p].at = "idle" /\ UNCHANGED spool /\ keepOthers  BY <1>1 DEF Get
    <2>4. clock - clock <= Timeout  BY <1>0
    <2> HIDE DEF h
    <2>5. g \in GetState /\ g.at \in {"request", "idle"} /\ g.copied = 0 /\ (g.at = "request" => g.since = clock)
      BY <2>1, <2>2, IdleIs
    <2>6. g.at = "request" => g.since <= clock /\ clock - g.since <= Timeout
      BY <1>0, <2>4, <2>5
    <2> QED  BY <2>2, <2>3, <2>5, <2>6, CallStep
  <1>2. CASE attemptFails(p)
    <2>1. PICK err : get' = [get EXCEPT ![p] = afterFailure(p, err)]
      BY <1>2 DEF attemptFails
    <2>2. get[p].at = "request" /\ UNCHANGED spool /\ keepOthers  BY <1>2 DEF attemptFails
    <2> QED  BY <2>1, <2>2, AfterFailure, CallStep
  <1>3. CASE attemptSpools(p)
    <2>1. PICK n \in Bodies, k \in 1..MaxSpools :
             /\ spool[<<p, k>>].owner = "none"
             /\ spool' = [spool EXCEPT ![<<p, k>>] = [named |-> TRUE, mtime |-> clock, owner |-> "attempt"]]
             /\ get' = [get EXCEPT ![p].at = "copy", ![p].got = n, ![p].mine = k]
      BY <1>3 DEF attemptSpools
    <2> DEFINE g == [get[p] EXCEPT !.at = "copy", !.got = n, !.mine = k]
               s == [named |-> TRUE, mtime |-> clock, owner |-> "attempt"]
    <2>2. get' = [get EXCEPT ![p] = g] /\ get[p].at = "request" /\ keepOthers
      BY <1>0, <1>3, <2>1 DEF attemptSpools
    <2>3. g \in GetState /\ s \in SpoolState
      <3>1. n \in Bodies \cup {0} /\ k \in 0..MaxSpools  BY <1>0
      <3> QED  BY <1>0, <3>1 DEF GetState, SpoolState
    <2>4. g.at = "copy" /\ g.mine = k /\ g.copied = 0 /\ g.since = get[p].since /\ g.since \in Nat
      BY <1>0, <2>2 DEF GetState, GetInv
    <2>5. <<p, k>> \in File /\ <<p, k>>[1] = p  BY MineIsFile
    <2>6. spool' = [spool EXCEPT ![<<p, k>>] = s] /\ spool'[<<p, k>>] = s
      BY <1>0, <2>1, <2>5
    <2>7. s.named /\ s.mtime = clock /\ s.owner = "attempt"  OBVIOUS
    <2> HIDE DEF g, s
    <2>8. get'[p] = g /\ mine(p)' = <<p, k>> /\ clock' = clock
      BY <1>0, <2>2, <2>4 DEF mine, keepOthers
    <2>9. FetchTypeOK'
      BY <1>0, <2>2, <2>3, <2>5, <2>6 DEF FInv, FetchTypeOK, keepOthers
    <2>10. readable(p)' \in Nat
      <3>1. maxBytes'[p] \in 1..MaxInt /\ get'[p].got \in 0..MaxInt
        <4>1. maxBytes'[p] \in Caps /\ get'[p].got \in Bodies \cup {0}
          BY <2>9 DEF FetchTypeOK, GetState
        <4>2. 0 \in 0..MaxInt  BY FetchAssumption
        <4> QED  BY <4>1, <4>2, FetchAssumption
      <3> QED  BY <3>1, ReadableIsWhole DEF readable, letThrough
    <2>11. GetInv(p)'
      BY <1>0, <2>2, <2>4, <2>6, <2>7, <2>8, <2>10 DEF GetInv
    <2>12. ASSUME NEW f \in File, f[1] = p PROVE SpoolInv(f)'
      <3>1. CASE f = <<p, k>>  BY <2>4, <2>8, <3>1, <2>12 DEF SpoolInv
      <3>2. CASE f # <<p, k>>
        BY <1>0, <2>2, <2>6, <2>12, <3>2, OwnsNothing DEF SpoolInv
      <3> QED  BY <3>1, <3>2
    <2>13. spool' \in [File -> SpoolState] /\ \A f \in File : f[1] # p => spool'[f] = spool[f]
      BY <1>0, <2>3, <2>5, <2>6
    <2> QED  BY <2>2, <2>3, <2>11, <2>12, <2>13, ProcessStep
  <1>4. CASE copySome(p)
    <2> DEFINE g == [get[p] EXCEPT !.copied = get[p].copied + 1]
               s == [spool[mine(p)] EXCEPT !.mtime = clock]
    <2>1. get' = [get EXCEPT ![p] = g] /\ get[p].at = "copy" /\ keepOthers /\ get[p].copied < readable(p)
      BY <1>0, <1>4 DEF copySome
    <2>2. mine(p) \in File /\ mine(p)[1] = p
      BY <1>0, <2>1, MineIsFile DEF GetInv, mine
    <2>3. spool' = [spool EXCEPT ![mine(p)] = s]
      BY <1>0, <1>4, <2>2 DEF copySome
    <2>4. g \in GetState /\ s \in SpoolState
      BY <1>0, <2>2 DEF GetState, SpoolState
    <2>5. /\ g.at = "copy" /\ g.mine = get[p].mine /\ g.got = get[p].got /\ g.since = get[p].since
          /\ g.copied = get[p].copied + 1 /\ get[p].copied \in Nat /\ g.since \in Nat
      BY <1>0, <2>1 DEF GetState
    <2>6. s.named = spool[mine(p)].named /\ s.owner = spool[mine(p)].owner /\ s.mtime = clock
      BY <1>0, <2>2 DEF SpoolState
    <2> HIDE DEF g, s
    <2>7. /\ get'[p] = g /\ mine(p)' = mine(p) /\ clock' = clock
          /\ readable(p)' = readable(p) /\ spool'[mine(p)] = s
      BY <1>0, <2>1, <2>2, <2>3, <2>5 DEF mine, readable, keepOthers
    <2>8. readable(p) \in Nat
      BY Ranges, ReadableIsWhole DEF readable, letThrough, FInv
    <2>9. GetInv(p)'
      BY <1>0, <2>1, <2>5, <2>6, <2>7, <2>8 DEF GetInv
    <2>10. ASSUME NEW f \in File, f[1] = p PROVE SpoolInv(f)'
      <3>1. CASE f = mine(p)  BY <2>5, <2>7, <2>10, <3>1 DEF SpoolInv
      <3>2. CASE f # mine(p)
        BY <1>0, <2>3, <2>10, <3>2 DEF SpoolInv, FInv
      <3> QED  BY <3>1, <3>2
    <2>11. spool' \in [File -> SpoolState] /\ \A f \in File : f[1] # p => spool'[f] = spool[f]
      BY <1>0, <2>2, <2>3, <2>4
    <2> QED  BY <2>1, <2>4, <2>9, <2>10, <2>11, ProcessStep
  <1>5. CASE writeSpoolFails(p)
    <2>1. PICK err : spool' = discardSpool(p, err) /\ get' = [get EXCEPT ![p] = afterFailure(p, err)]
      BY <1>5 DEF writeSpoolFails
    <2>2. get[p].at = "copy" /\ keepOthers  BY <1>5 DEF writeSpoolFails
    <2>3. spool' = removed(mine(p))  BY <2>1 DEF discardSpool
    <2> QED  BY <2>1, <2>2, <2>3, AfterFailure, ReleaseStep
  <1>6. CASE writeSpoolEnds(p)
    <2>0. get[p].at = "copy" /\ get[p].copied = readable(p) /\ keepOthers
      BY <1>6 DEF writeSpoolEnds
    <2>1. CASE overCap(p)
      <3>1. spool' = removed(mine(p)) /\ get' = [get EXCEPT ![p] = afterFailure(p, "permanent")]
        BY <1>6, <2>1 DEF writeSpoolEnds, discardSpool
      <3> QED  BY <2>0, <3>1, AfterFailure, ReleaseStep
    <2>2. CASE ~overCap(p)
      <3> DEFINE g == [get[p] EXCEPT !.at = "open"]
                 s == [spool[mine(p)] EXCEPT !.owner = "result"]
      <3>1. get' = [get EXCEPT ![p] = g]
        BY <1>0, <1>6, <2>2 DEF writeSpoolEnds
      <3>2. mine(p) \in File /\ mine(p)[1] = p
        BY <1>0, <2>0, MineIsFile DEF GetInv, mine
      <3>3. spool' = [spool EXCEPT ![mine(p)] = s]
        BY <1>0, <1>6, <2>2, <3>2 DEF writeSpoolEnds
      <3>4. g \in GetState /\ s \in SpoolState
        BY <1>0, <3>2 DEF GetState, SpoolState
      <3>5. g.at = "open" /\ g.mine = get[p].mine /\ g.got = get[p].got /\ g.copied = get[p].copied
        BY <1>0 DEF GetState
      <3>6. s.owner = "result"  BY <1>0, <3>2 DEF SpoolState
      <3> HIDE DEF g, s
      <3>7. /\ get'[p] = g /\ mine(p)' = mine(p) /\ maxBytes' = maxBytes /\ spool'[mine(p)] = s
        BY <1>0, <2>0, <3>1, <3>2, <3>3, <3>5 DEF mine, keepOthers
      <3>8. get[p].copied = get[p].got /\ get[p].got <= maxBytes[p]
        <4>1. maxBytes[p] \in 1..MaxInt /\ get[p].got \in 0..MaxInt /\ MaxInt \in Nat
          BY Ranges, FetchAssumption DEF FInv
        <4>2. readable(p) = letThrough(maxBytes[p], get[p].got)
          BY DEF readable, letThrough
        <4>3. ~(readable(p) > maxBytes[p])  BY <2>0, <2>2 DEF overCap
        <4> QED  BY <2>0, <4>1, <4>2, <4>3, ReadableIsWhole
      <3>9. GetInv(p)'
        BY <1>0, <2>0, <3>5, <3>6, <3>7, <3>8 DEF GetInv
      <3>10. ASSUME NEW f \in File, f[1] = p PROVE SpoolInv(f)'
        <4>1. CASE f = mine(p)  BY <3>5, <3>7, <3>10, <4>1 DEF SpoolInv
        <4>2. CASE f # mine(p)
          BY <1>0, <3>3, <3>10, <4>2 DEF SpoolInv, FInv
        <4> QED  BY <4>1, <4>2
      <3>11. spool' \in [File -> SpoolState] /\ \A f \in File : f[1] # p => spool'[f] = spool[f]
        BY <1>0, <3>2, <3>3, <3>4
      <3> QED  BY <2>0, <3>1, <3>4, <3>9, <3>10, <3>11, ProcessStep
    <2> QED  BY <2>1, <2>2
  <1>7. CASE Retry(p)
    <2> DEFINE h == [get[p] EXCEPT !.at = "request", !.attempt = get[p].attempt + 1, !.since = clock]
    <2>0. get[p].at = "wait" /\ UNCHANGED spool /\ keepOthers  BY <1>7 DEF Retry
    <2>1. h \in GetState /\ h.at = "request" /\ h.copied = 0 /\ h.since = clock
      <3>1. get[p].attempt + 1 \in Nat /\ get[p].copied = 0
        BY <1>0, <2>0 DEF GetState, GetInv
      <3> QED  BY <1>0, <3>1 DEF GetState
    <2>2. PICK g \in {h, Idle} : get' = [get EXCEPT ![p] = g]
      BY <1>0, <1>7 DEF Retry
    <2> HIDE DEF h
    <2>3. g \in GetState /\ g.at \in {"request", "idle"} /\ g.copied = 0 /\ (g.at = "request" => g.since = clock)
      BY <2>1, <2>2, IdleIs
    <2>4. g.at = "request" => g.since <= clock /\ clock - g.since <= Timeout
      BY <1>0, <2>3
    <2> QED  BY <2>0, <2>2, <2>3, <2>4, CallStep
  <1>8. CASE Close(p)
    BY <1>8, IdleIs, ReleaseStep DEF Close
  <1> QED  BY <1>1, <1>2, <1>3, <1>4, <1>5, <1>6, <1>7, <1>8 DEF GetStep

-----------------------------------------------------------------------------
\* A killed process leaves its named files as orphans and owns nothing more;
\* a started one sweeps before it serves.
LEMMA KillStep ==
    ASSUME FInv, NEW p \in Process, Kill(p)
    PROVE  FInv'
  <1> DEFINE g == [Idle EXCEPT !.at = "down"]
  <1>0. /\ get \in [Process -> GetState] /\ spool \in [File -> SpoolState] /\ sweep \in [Process -> SweepState]
        /\ clock' = clock /\ maxBytes' = maxBytes
    BY DEF FInv, FetchTypeOK, Kill
  <1>1. g \in GetState /\ g.at = "down" /\ g.copied = 0
    BY IdleIs DEF GetState
  <1>2. get' = [get EXCEPT ![p] = g] /\ sweep' = [sweep EXCEPT ![p] = NotSweeping]
    BY DEF Kill
  <1>3. NoFile \in SpoolState /\ NoFile.owner = "none" /\ NotSweeping \in SweepState /\ NotSweeping.at = "done"
    BY FetchAssumption DEF NoFile, SpoolState, NotSweeping, SweepState
  <1> HIDE DEF g
  <1>4. ASSUME NEW f \in File
        PROVE  /\ spool'[f] \in SpoolState
               /\ f[1] # p => spool'[f] = spool[f]
               /\ f[1] = p => spool'[f].owner \in {"none", "orphan"}
    <2>1. spool'[f] = IF f[1] = p /\ spool[f].owner # "none"
                      THEN IF spool[f].named THEN [spool[f] EXCEPT !.owner = "orphan"] ELSE NoFile
                      ELSE spool[f]
      BY DEF Kill, ofProcess
    <2>2. [spool[f] EXCEPT !.owner = "orphan"] \in SpoolState /\ [spool[f] EXCEPT !.owner = "orphan"].owner = "orphan"
      BY <1>0 DEF SpoolState
    <2> QED  BY <1>0, <1>3, <2>1, <2>2
  <1>5. FetchTypeOK'
    <2>1. spool' \in [File -> SpoolState]  BY <1>4 DEF Kill
    <2> QED  BY <1>0, <1>1, <1>2, <1>3, <2>1 DEF FInv, FetchTypeOK
  <1>6. ASSUME NEW q \in Process PROVE GetInv(q)'
    <2>1. CASE q = p  BY <1>0, <1>1, <1>2, <2>1 DEF GetInv
    <2>2. CASE q # p
      <3>1. get'[q] = get[q]  BY <1>0, <1>2, <2>2
      <3>2. mine(q)' = mine(q) /\ readable(q)' = readable(q)
        BY <1>0, <3>1 DEF mine, readable
      <3>3. get[q].mine \in 1..MaxSpools => spool'[mine(q)] = spool[mine(q)]
        BY <1>4, <2>2, MineIsFile DEF mine
      <3>4. GetInv(q)  BY DEF FInv
      <3> QED  BY <1>0, <3>1, <3>2, <3>3, <3>4 DEF GetInv
    <2> QED  BY <2>1, <2>2
  <1>7. ASSUME NEW f \in File PROVE SpoolInv(f)'
    <2>1. CASE f[1] = p  BY <1>4, <2>1 DEF SpoolInv
    <2>2. CASE f[1] # p
      <3>1. f[1] \in Process  BY DEF File
      <3>2. get'[f[1]] = get[f[1]] /\ spool'[f] = spool[f]
        BY <1>0, <1>2, <1>4, <2>2, <3>1
      <3> QED  BY <3>2 DEF FInv, SpoolInv, mine
    <2> QED  BY <2>1, <2>2
  <1>8. ASSUME NEW q \in Process PROVE SweepInv(q)'
    BY <1>0, <1>2, <1>3 DEF FInv, SweepInv
  <1> QED  BY <1>5, <1>6, <1>7, <1>8 DEF FInv

\* A file is unlinked only when it is older than the cutoff, which no file of
\* a running attempt is: the attempt began less than Timeout ago.
LEMMA SweepSteps ==
    ASSUME FInv, NEW p \in Process,
           Start(p) \/ SweepBegins(p) \/ SweepOne(p) \/ SweepEnds(p)
    PROVE  FInv'
  <1>0. /\ get \in [Process -> GetState] /\ spool \in [File -> SpoolState] /\ sweep \in [Process -> SweepState]
        /\ clock \in Nat /\ Timeout \in Nat /\ StaleAge \in Nat /\ Timeout < StaleAge
        /\ clock' = clock /\ maxBytes' = maxBytes
    BY FetchAssumption DEF FInv, FetchTypeOK, Start, SweepBegins, SweepOne, SweepEnds
  <1>1. CASE Start(p)
    <2> DEFINE w == [sweep[p] EXCEPT !.at = "due"]
    <2>1. get' = [get EXCEPT ![p] = Idle] /\ sweep' = [sweep EXCEPT ![p] = w] /\ spool' = spool /\ get[p].at = "down"
      BY <1>0, <1>1 DEF Start
    <2>2. w \in SweepState /\ w.at = "due"  BY <1>0 DEF SweepState
    <2> HIDE DEF w
    <2>3. FetchTypeOK'  BY <1>0, <2>1, <2>2, IdleIs DEF FInv, FetchTypeOK
    <2>4. ASSUME NEW q \in Process PROVE GetInv(q)'
      <3>1. CASE q = p  BY <1>0, <2>1, <3>1, IdleIs DEF GetInv
      <3>2. CASE q # p
        <4>1. get'[q] = get[q]  BY <1>0, <2>1, <3>2
        <4> QED  BY <1>0, <2>1, <4>1 DEF FInv, GetInv, mine, readable
      <3> QED  BY <3>1, <3>2
    <2>5. ASSUME NEW f \in File PROVE SpoolInv(f)'
      <3>1. f[1] \in Process  BY DEF File
      <3>2. CASE f[1] = p  BY <2>1, <2>5, <3>2, OwnsNothing DEF SpoolInv
      <3>3. CASE f[1] # p
        BY <1>0, <2>1, <3>1, <3>3 DEF FInv, SpoolInv, mine
      <3> QED  BY <3>2, <3>3
    <2>6. ASSUME NEW q \in Process PROVE SweepInv(q)'
      BY <1>0, <2>1, <2>2 DEF FInv, SweepInv
    <2> QED  BY <2>3, <2>4, <2>5, <2>6 DEF FInv
  <1>2. CASE SweepBegins(p)
    <2> DEFINE w == [at |-> "running", todo |-> onDisk, cutoff |-> clock - StaleAge]
    <2>1. sweep' = [sweep EXCEPT ![p] = w] /\ UNCHANGED <<get, spool>>
      BY <1>2 DEF SweepBegins
    <2>2. w \in SweepState /\ w.cutoff = clock - StaleAge
      <3>1. onDisk \in SUBSET File  BY DEF onDisk
      <3>2. clock - StaleAge \in Int  BY <1>0
      <3> QED  BY <3>1, <3>2 DEF SweepState
    <2> HIDE DEF w
    <2>3. ASSUME NEW q \in Process PROVE SweepInv(q)'
      <3>1. CASE q = p
        <4>1. clock - StaleAge <= clock - StaleAge  BY <1>0
        <4> QED  BY <1>0, <2>1, <2>2, <3>1, <4>1 DEF SweepInv
      <3>2. CASE q # p  BY <1>0, <2>1, <3>2 DEF FInv, SweepInv
      <3> QED  BY <3>1, <3>2
    <2> QED  BY <1>0, <2>1, <2>2, <2>3 DEF FInv, FetchTypeOK, GetInv, SpoolInv, mine, readable
  <1>3. CASE SweepEnds(p)
    <2>1. sweep' = [sweep EXCEPT ![p] = NotSweeping] /\ UNCHANGED <<get, spool>>
      BY <1>3 DEF SweepEnds
    <2>2. NotSweeping \in SweepState /\ NotSweeping.at = "done"
      BY DEF NotSweeping, SweepState
    <2>3. ASSUME NEW q \in Process PROVE SweepInv(q)'
      BY <1>0, <2>1, <2>2 DEF FInv, SweepInv
    <2> QED  BY <1>0, <2>1, <2>2, <2>3 DEF FInv, FetchTypeOK, GetInv, SpoolInv, mine, readable
  <1>4. CASE SweepOne(p)
    <2>0. sweep[p].at = "running" /\ get' = get  BY <1>4 DEF SweepOne
    <2>1. PICK f \in sweep[p].todo :
             /\ sweep' = [sweep EXCEPT ![p].todo = @ \ {f}]
             /\ \/ sweepable(p, f) /\ spool' = unlinked(f)
                \/ UNCHANGED spool /\ ~sweepable(p, f)
      BY <1>4 DEF SweepOne
    <2> DEFINE w == [sweep[p] EXCEPT !.todo = sweep[p].todo \ {f}]
    <2>2. sweep' = [sweep EXCEPT ![p] = w] /\ f \in File
      BY <1>0, <2>1 DEF SweepState
    <2>3. w \in SweepState /\ w.cutoff = sweep[p].cutoff
      BY <1>0 DEF SweepState
    <2> HIDE DEF w
    <2>4. ASSUME NEW q \in Process PROVE SweepInv(q)'
      <3>1. CASE q = p  BY <1>0, <2>0, <2>2, <2>3, <3>1 DEF FInv, SweepInv
      <3>2. CASE q # p  BY <1>0, <2>2, <3>2 DEF FInv, SweepInv
      <3> QED  BY <3>1, <3>2
    <2>5. CASE UNCHANGED spool
      BY <1>0, <2>0, <2>2, <2>3, <2>4, <2>5 DEF FInv, FetchTypeOK, GetInv, SpoolInv, mine, readable
    <2>6. CASE sweepable(p, f) /\ spool' = unlinked(f)
      <3>1. f[1] \in Process  BY <2>2 DEF File
      <3>2. spool[f].owner # "attempt"
        <4> SUFFICES ASSUME spool[f].owner = "attempt" PROVE FALSE  OBVIOUS
        <4> DEFINE q == f[1]
        <4>1. f = mine(q) /\ get[q].at = "copy"
          BY <2>2, <3>1 DEF FInv, SpoolInv, GetInv
        <4>2. get[q].since <= spool[f].mtime /\ clock - get[q].since <= Timeout
          BY <3>1, <4>1 DEF FInv, GetInv
        <4>3. spool[f].mtime <= sweep[p].cutoff /\ sweep[p].cutoff <= clock - StaleAge
          BY <2>0, <2>6 DEF sweepable, FInv, SweepInv
        <4>4. get[q].since \in Nat /\ spool[f].mtime \in Nat /\ sweep[p].cutoff \in Int
          BY <1>0, <2>2, <3>1, FetchAssumption DEF GetState, SpoolState, SweepState
        <4> HIDE DEF q
        <4> QED  BY <1>0, <4>2, <4>3, <4>4
      <3> DEFINE s == IF spool[f].owner = "orphan" THEN NoFile ELSE [spool[f] EXCEPT !.named = FALSE]
      <3>3. spool' = [spool EXCEPT ![f] = s]
        BY <1>0, <2>2, <2>6 DEF unlinked
      <3>4. /\ s \in SpoolState
            /\ spool[f].owner = "orphan" => s.owner = "none"
            /\ spool[f].owner # "orphan" => s.owner = spool[f].owner
        <4>1. NoFile \in SpoolState /\ NoFile.owner = "none"
          BY FetchAssumption DEF SpoolState, NoFile
        <4>2. /\ [spool[f] EXCEPT !.named = FALSE] \in SpoolState
              /\ [spool[f] EXCEPT !.named = FALSE].owner = spool[f].owner
          BY <1>0, <2>2 DEF SpoolState
        <4> QED  BY <4>1, <4>2
      <3> HIDE DEF s
      <3>5. FetchTypeOK'  BY <1>0, <2>0, <2>2, <2>3, <3>3, <3>4 DEF FInv, FetchTypeOK
      <3>6. ASSUME NEW q \in Process PROVE GetInv(q)'
        <4>1. GetInv(q) /\ mine(q)' = mine(q) /\ readable(q)' = readable(q)
          BY <1>0, <2>0 DEF FInv, mine, readable
        <4>2. ASSUME get[q].at \in {"copy", "open"}
              PROVE  mine(q) \in File
          BY <4>1, <4>2, MineIsFile DEF GetInv, mine
        <4>3. get[q].at = "copy" => spool'[mine(q)] = spool[mine(q)]
          BY <1>0, <2>2, <3>2, <3>3, <4>1, <4>2 DEF GetInv
        <4>4. get[q].at = "open" => spool'[mine(q)].owner = "result"
          BY <1>0, <2>2, <3>3, <3>4, <4>1, <4>2 DEF GetInv
        <4> QED  BY <1>0, <2>0, <4>1, <4>3, <4>4 DEF GetInv
      <3>7. ASSUME NEW e \in File PROVE SpoolInv(e)'
        <4>1. spool'[e].owner \in {spool[e].owner, "none"}
          BY <1>0, <2>2, <3>3, <3>4
        <4> QED  BY <2>0, <4>1 DEF FInv, SpoolInv, mine
      <3> QED  BY <2>4, <3>5, <3>6, <3>7 DEF FInv
    <2> QED  BY <2>1, <2>5, <2>6
  <1> QED  BY <1>1, <1>2, <1>3, <1>4

\* Time leaves an attempt within its timeout, and only adds to the age of a
\* cutoff.
LEMMA TickStep ==
    ASSUME FInv, Tick
    PROVE  FInv'
  <1>0. /\ clock \in Nat /\ MaxClock \in Nat /\ Timeout \in Nat /\ StaleAge \in Nat
        /\ clock' = clock + 1 /\ clock < MaxClock /\ UNCHANGED <<maxBytes, get, spool, sweep>>
    BY FetchAssumption DEF FInv, FetchTypeOK, Tick
  <1>1. FetchTypeOK'  BY <1>0 DEF FInv, FetchTypeOK
  <1>2. ASSUME NEW p \in Process PROVE GetInv(p)'
    <2>1. get[p].since \in Nat  BY FetchAssumption DEF FInv, FetchTypeOK, GetState
    <2>2. mine(p)' = mine(p) /\ readable(p)' = readable(p)
      BY <1>0 DEF mine, readable
    <2>3. get[p].at \in {"request", "copy"} => get[p].since <= clock' /\ clock' - get[p].since <= Timeout
      BY <1>0, <2>1 DEF Tick, FInv, GetInv
    <2> QED  BY <1>0, <2>2, <2>3 DEF FInv, GetInv
  <1>3. \A f \in File : SpoolInv(f)'  BY <1>0 DEF FInv, SpoolInv, mine
  <1>4. ASSUME NEW p \in Process PROVE SweepInv(p)'
    <2>1. sweep[p].cutoff \in Int  BY DEF FInv, FetchTypeOK, SweepState
    <2> QED  BY <1>0, <2>1 DEF FInv, SweepInv
  <1> QED  BY <1>1, <1>2, <1>3, <1>4 DEF FInv

LEMMA FInvNext == FInv /\ [FetchNext]_fetchVars => FInv'
  <1> SUFFICES ASSUME FInv, [FetchNext]_fetchVars PROVE FInv'  OBVIOUS
  <1>1. CASE UNCHANGED fetchVars
    BY <1>1 DEF fetchVars, FInv, FetchTypeOK, GetInv, SpoolInv, SweepInv, mine, readable
  <1>2. CASE FetchNext
    BY <1>2, GetSteps, KillStep, SweepSteps, TickStep DEF FetchNext
  <1> QED  BY <1>1, <1>2

\* FInv is an inductive invariant of the specification.
THEOREM FInvHolds == FetchSpec => []FInv
  BY FInvInit, FInvNext, PTL DEF FetchSpec

\* What Get hands out is the whole artifact, within the cap, for every cap up
\* to the largest int64 (writeSpool, readLimit).
THEOREM FetchArtifactIsWhole == FetchSpec => []ArtifactIsWhole
  <1>1. FInv => ArtifactIsWhole
    BY DEF FInv, ArtifactIsWhole, GetInv
  <1> QED  BY <1>1, FInvHolds, PTL

\* Nothing but the file of a running attempt or of an open Result has an
\* owner: every other way out of an attempt removed its file (spool, Close).
THEOREM FetchNoSpoolLeaked == FetchSpec => []NoSpoolLeaked
  <1>1. FInv => NoSpoolLeaked
    BY DEF FInv, NoSpoolLeaked, SpoolInv, ofProcess, mine
  <1> QED  BY <1>1, FInvHolds, PTL

\* No sweep, of whichever process, takes the file of a running attempt, as
\* long as an attempt times out before a file counts as stale
\* (SweepStaleSpools, DefaultStaleSpoolAge).
THEOREM FetchLiveSurvivesSweep == FetchSpec => []LiveSurvivesSweep
  <1>1. ASSUME FInv PROVE LiveSurvivesSweep
    <2> SUFFICES ASSUME NEW f \in File, spool[f].owner = "attempt" PROVE spool[f].named
      BY DEF LiveSurvivesSweep
    <2>1. f[1] \in Process  BY DEF File
    <2>2. f = mine(f[1]) /\ get[f[1]].at \in {"copy", "open"}  BY <1>1 DEF FInv, SpoolInv
    <2> QED  BY <1>1, <2>1, <2>2 DEF FInv, GetInv
  <1> QED  BY <1>1, FInvHolds, PTL
=============================================================================
