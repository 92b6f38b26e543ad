--------------------------------- MODULE Fetch ---------------------------------
(***************************************************************************)
(* The guarded download (fetch/fetch.go) with its retry loop               *)
(* (fetch/retry.go): Get over several attempts, the spool file each        *)
(* attempt writes, the Result its owner reads and closes, and the sweep of *)
(* stale spools that a process runs when it starts.  Several processes     *)
(* share one spool directory, and any of them may be killed.               *)
(*                                                                         *)
(* Lengths are counted in units and times in ticks; int64 is the range     *)
(* -MaxInt-1..MaxInt.  External: the source, the directory and the clock.  *)
(***************************************************************************)
EXTENDS Integers, FiniteSets

CONSTANTS
    Process,       \* the processes that share the spool directory
    Caps,          \* the values maxBytes may have
    Bodies,        \* the lengths of artifacts the source may publish
    MaxInt,        \* the largest int64
    MaxAttempts,   \* RetryConfig.MaxAttempts
    Timeout,       \* ticks an attempt may take (http.Client.Timeout)
    StaleAge,      \* ticks after which a sweep takes a spool for abandoned
    MaxSpools,     \* bound: spool files a process creates
    MaxClock       \* bound: ticks

ASSUME FetchAssumption ==
    /\ MaxInt \in Nat \ {0}
    /\ Caps \subseteq 1..MaxInt          \* WithMaxBytes ignores the rest
    /\ Bodies \subseteq 0..MaxInt
    /\ MaxAttempts \in Int               \* Do takes a non-positive one for 1
    /\ Timeout \in Nat /\ StaleAge \in Nat /\ Timeout < StaleAge
    /\ MaxSpools \in Nat /\ MaxClock \in Nat

VARIABLES
    clock,
    maxBytes,    \* the cap of each process's Downloader
    get,         \* the call of Get of each process
    spool,       \* the spool files of each process, in creation order
    sweep        \* the sweep of each process

fetchVars == <<clock, maxBytes, get, spool, sweep>>

File == Process \X (1..MaxSpools)
NoFile == [named |-> FALSE, mtime |-> 0, owner |-> "none"]
NotSweeping == [at |-> "done", todo |-> {}, cutoff |-> 0]

\* got: the length of the body the source sends; copied: how much of it is in
\* the spool; mine: that spool.
Idle == [at |-> "idle", attempt |-> 0, since |-> 0, got |-> 0, copied |-> 0, mine |-> 0]

GetState == [at : {"down", "idle", "request", "copy", "wait", "open"}, attempt : Nat,
             since : 0..MaxClock, got : Bodies \cup {0}, copied : Nat, mine : 0..MaxSpools]
SpoolState == [named : BOOLEAN, mtime : 0..MaxClock, owner : {"none", "attempt", "result", "orphan"}]
SweepState == [at : {"due", "running", "done"}, todo : SUBSET File, cutoff : Int]

FetchTypeOK ==
    /\ clock \in 0..MaxClock
    /\ maxBytes \in [Process -> Caps]
    /\ get \in [Process -> GetState]
    /\ spool \in [File -> SpoolState]
    /\ sweep \in [Process -> SweepState]

FetchInit ==
    /\ clock = 0
    /\ maxBytes \in [Process -> Caps]
    /\ get = [p \in Process |-> Idle]
    /\ spool = [f \in File |-> NoFile]
    /\ sweep = [p \in Process |-> NotSweeping]

-----------------------------------------------------------------------------
\* Classification of errors.  A timeout of http.Client is a
\* context.DeadlineExceeded; "network" is a net.Error that is no timeout (a
\* refused or reset connection); "transient" is anything else unmarked.

Errors == {"permanent", "cancelled", "deadline", "timeout", "network", "transient"}

isRetryable(err) == CASE err \in {"cancelled", "deadline", "permanent"} -> FALSE
                      [] err \in {"timeout", "network"} -> err = "timeout"
                      [] OTHER -> TRUE

StatusError(status) == IF status \in 400..499 THEN "permanent" ELSE "transient"

attempts == IF MaxAttempts <= 0 THEN 1 ELSE MaxAttempts

\* What Do makes of a failed attempt of p: a wait for the next one, or the end
\* with an error, after which the caller has nothing to release.
afterFailure(p, err) ==
    IF isRetryable(err) /\ get[p].attempt < attempts
    THEN [Idle EXCEPT !.at = "wait", !.attempt = get[p].attempt]
    ELSE Idle

-----------------------------------------------------------------------------
\* Get.

up(p) == get[p].at # "down"
keepOthers == UNCHANGED <<clock, maxBytes, sweep>>

\* Scheme, host and allowlist are looked at before any request is made.
acceptableURL(u) == u.parses /\ (u.https \/ u.allowInsecure) /\ u.host /\ u.allowed

Get(p) ==
    /\ get[p].at = "idle"
    /\ sweep[p].at = "done"
    /\ \E u \in [parses : BOOLEAN, https : BOOLEAN, allowInsecure : BOOLEAN, host : BOOLEAN, allowed : BOOLEAN] :
          get' = [get EXCEPT ![p] = IF acceptableURL(u)
                                    THEN [Idle EXCEPT !.at = "request", !.attempt = 1, !.since = clock]
                                    ELSE Idle]
    /\ UNCHANGED spool /\ keepOthers

\* attempt ends before there is a file: no request, no answer, a status
\* outside 2xx, a declared length over the cap, or no spool file.
attemptFails(p) ==
    /\ get[p].at = "request"
    /\ \E err \in Errors \cup {StatusError(404), StatusError(503)} :
          get' = [get EXCEPT ![p] = afterFailure(p, err)]
    /\ UNCHANGED spool /\ keepOthers

declaredTooLong(p, n) == n > maxBytes[p]

\* A body of n units; its length may or may not be declared.
attemptSpools(p) ==
    /\ get[p].at = "request"
    /\ \E n \in Bodies, declared \in BOOLEAN, k \in 1..MaxSpools :
          /\ ~(declared /\ declaredTooLong(p, n))
          /\ spool[<<p, k>>].owner = "none" /\ \A j \in 1..(k - 1) : spool[<<p, j>>].owner # "none"
          /\ spool' = [spool EXCEPT ![<<p, k>>] = [named |-> TRUE, mtime |-> clock, owner |-> "attempt"]]
          /\ get' = [get EXCEPT ![p].at = "copy", ![p].got = n, ![p].mine = k]
    /\ keepOthers

\* Mutant: the limit wraps around at the largest cap.
MutWrap(cap) == IF cap = MaxInt THEN -MaxInt - 1 ELSE cap + 1
readLimit(cap) == IF cap = MaxInt THEN MaxInt ELSE cap + 1

\* What LimitReader lets through of a body.
readable(p) == LET limit == readLimit(maxBytes[p])
               IN  IF limit <= 0 THEN 0 ELSE IF get[p].got < limit THEN get[p].got ELSE limit

mine(p) == <<p, get[p].mine>>

copySome(p) ==
    /\ get[p].at = "copy"
    /\ get[p].copied < readable(p)
    /\ get' = [get EXCEPT ![p].copied = @ + 1]
    /\ spool' = [spool EXCEPT ![mine(p)].mtime = clock]
    /\ keepOthers

\* The descriptor is closed and the name removed; the slot is free again.
removed(f) == [spool EXCEPT ![f] = NoFile]

\* Mutant: an attempt that will be retried leaves its partial file.
MutKeepOnRetry(p, err) ==
    IF isRetryable(err) THEN [spool EXCEPT ![mine(p)].owner = "lost"] ELSE removed(mine(p))
discardSpool(p, err) == removed(mine(p))

\* A read fails with whatever the connection reports, a write for good.
writeSpoolFails(p) ==
    /\ get[p].at = "copy"
    /\ \E err \in Errors :
          /\ spool' = discardSpool(p, err)
          /\ get' = [get EXCEPT ![p] = afterFailure(p, err)]
    /\ keepOthers

overCap(p) == get[p].copied > maxBytes[p]

\* The copy saw the end of the body, or the limit.
writeSpoolEnds(p) ==
    /\ get[p].at = "copy"
    /\ get[p].copied = readable(p)
    /\ IF overCap(p)
       THEN /\ spool' = discardSpool(p, "permanent")
            /\ get' = [get EXCEPT ![p] = afterFailure(p, "permanent")]
       ELSE /\ spool' = [spool EXCEPT ![mine(p)].owner = "result"]
            /\ get' = [get EXCEPT ![p].at = "open"]
    /\ keepOthers

\* Between two attempts: the wait is over, or the context is.
Retry(p) ==
    /\ get[p].at = "wait"
    /\ \/ get' = [get EXCEPT ![p].at = "request", ![p].attempt = @ + 1, ![p].since = clock]
       \/ get' = [get EXCEPT ![p] = Idle]
    /\ UNCHANGED spool /\ keepOthers

\* Close, once or again: a name that is gone already is no error.
Close(p) ==
    /\ get[p].at = "open"
    /\ spool' = removed(mine(p))
    /\ get' = [get EXCEPT ![p] = Idle]
    /\ keepOthers

-----------------------------------------------------------------------------
\* Kill, restart and the sweep.

ofProcess(p) == {f \in File : f[1] = p}

\* No defer runs: what the process had on disk stays.
Kill(p) ==
    /\ up(p)
    /\ get' = [get EXCEPT ![p] = [Idle EXCEPT !.at = "down"]]
    /\ spool' = [f \in File |-> IF f \in ofProcess(p) /\ spool[f].owner # "none"
                                THEN IF spool[f].named THEN [spool[f] EXCEPT !.owner = "orphan"] ELSE NoFile
                                ELSE spool[f]]
    /\ sweep' = [sweep EXCEPT ![p] = NotSweeping]
    /\ UNCHANGED <<clock, maxBytes>>

Start(p) ==
    /\ get[p].at = "down"
    /\ get' = [get EXCEPT ![p] = Idle]
    /\ sweep' = [sweep EXCEPT ![p].at = "due"]
    /\ UNCHANGED <<clock, maxBytes, spool>>

onDisk == {f \in File : spool[f].named}

\* The names and the cutoff are read once, at the start.
SweepBegins(p) ==
    /\ sweep[p].at = "due"
    /\ sweep' = [sweep EXCEPT ![p] = [at |-> "running", todo |-> onDisk, cutoff |-> clock - StaleAge]]
    /\ UNCHANGED <<clock, maxBytes, get, spool>>

\* Mutant: everything with the prefix is taken for abandoned.
MutEveryName(p, f) == spool[f].named
sweepable(p, f) == spool[f].named /\ spool[f].mtime <= sweep[p].cutoff

\* A spool that is swept under its owner keeps its bytes: the descriptor is
\* open.  A name that vanished, or cannot be removed, is passed over.
unlinked(f) == [spool EXCEPT ![f] = IF @.owner = "orphan" THEN NoFile ELSE [@ EXCEPT !.named = FALSE]]

SweepOne(p) ==
    /\ sweep[p].at = "running"
    /\ \E f \in sweep[p].todo :
          /\ sweep' = [sweep EXCEPT ![p].todo = @ \ {f}]
          /\ \/ sweepable(p, f) /\ spool' = unlinked(f)
             \/ UNCHANGED spool /\ ~sweepable(p, f)
    /\ UNCHANGED <<clock, maxBytes, get>>

SweepEnds(p) ==
    /\ sweep[p].at = "running" /\ sweep[p].todo = {}
    /\ sweep' = [sweep EXCEPT ![p] = NotSweeping]
    /\ UNCHANGED <<clock, maxBytes, get, spool>>

\* Time passes, but no attempt outlives its timeout.
Tick ==
    /\ clock < MaxClock
    /\ \A p \in Process : get[p].at \in {"request", "copy"} => clock - get[p].since < Timeout
    /\ clock' = clock + 1
    /\ UNCHANGED <<maxBytes, get, spool, sweep>>

GetStep(p) ==
    \/ Get(p) \/ attemptFails(p) \/ attemptSpools(p) \/ copySome(p) \/ writeSpoolFails(p) \/ writeSpoolEnds(p)
    \/ Retry(p)

FetchNext ==
    \/ \E p \in Process : GetStep(p) \/ Close(p) \/ Kill(p) \/ Start(p) \/ SweepBegins(p) \/ SweepOne(p) \/ SweepEnds(p)
    \/ Tick

FetchSpec == FetchInit /\ [][FetchNext]_fetchVars

-----------------------------------------------------------------------------
\* Properties.

\* What Get hands out is the whole artifact the source published, never more
\* than the cap and never the part of it that fitted: up to a cap that is the
\* largest integer.  [fetch.go writeSpool, readLimit]
ArtifactIsWhole ==
    \A p \in Process : get[p].at = "open" =>
        /\ spool[mine(p)].owner = "result"
        /\ get[p].copied = get[p].got
        /\ get[p].got <= maxBytes[p]

\* A spool file is on disk only while an attempt writes it or its Result is
\* open: over retries, overruns and cancellations nothing stays behind, except
\* what a killed process left.  [fetch.go spool, Get, Result.Close]
NoSpoolLeaked ==
    \A p \in Process : \A f \in ofProcess(p) :
        spool[f].owner \in {"none", "orphan"} \/ (f = mine(p) /\ get[p].at \in {"copy", "open"})

\* A sweep never takes the file of an attempt that is still writing it, in
\* whichever process.  [fetch.go SweepStaleSpools, DefaultStaleSpoolAge]
LiveSurvivesSweep ==
    \A f \in File : spool[f].owner = "attempt" => spool[f].named
=============================================================================
