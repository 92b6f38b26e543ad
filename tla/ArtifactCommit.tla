--------------------------- MODULE ArtifactCommit ---------------------------
(***************************************************************************)
(* What transfer.Writer promises its caller, without saying how: records   *)
(* the caller was told are written make up one artifact; the platform      *)
(* takes that artifact at most once and only whole; a receipt is handed    *)
(* out only for an artifact the platform took.  An error leaves the caller *)
(* in doubt: the platform may already hold the artifact, or take it later. *)
(***************************************************************************)
EXTENDS Sequences

CONSTANT Record

VARIABLES records,   \* records whose Write* returned nil, in call order
          phase,     \* "open", "committing", "indoubt" or "settled"
          receipt,   \* TRUE once Close returned a Receipt
          platform   \* the artifacts the platform has taken, as record sequences

abstractVars == <<records, phase, receipt, platform>>

Init ==
    /\ records = <<>>
    /\ phase = "open"
    /\ receipt = FALSE
    /\ platform = <<>>

Accept ==
    /\ phase = "open"
    /\ \E r \in Record : records' = Append(records, r)
    /\ UNCHANGED <<phase, receipt, platform>>

\* Close begins; Discard or a refused Close ends the writer at once.
Seal ==
    /\ phase = "open"
    /\ phase' \in {"committing", "settled"}
    /\ UNCHANGED <<records, receipt, platform>>

\* The platform takes the artifact: while Close waits, or after it gave up.
Publish ==
    /\ phase \in {"committing", "indoubt"}
    /\ platform = <<>>
    /\ platform' = <<records>>
    /\ phase' = IF phase = "indoubt" THEN "settled" ELSE phase
    /\ UNCHANGED <<records, receipt>>

\* Close returns a receipt.
Confirm ==
    /\ phase = "committing"
    /\ platform = <<records>>
    /\ phase' = "settled"
    /\ receipt' = TRUE
    /\ UNCHANGED <<records, platform>>

\* Close returns an error; a request already sent may still be acted on.
GiveUp ==
    /\ phase = "committing"
    /\ phase' \in {"settled", "indoubt"}
    /\ UNCHANGED <<records, receipt, platform>>

\* A request still under way is lost or refused after Close returned.
Lapse ==
    /\ phase = "indoubt"
    /\ phase' = "settled"
    /\ UNCHANGED <<records, receipt, platform>>

Next == Accept \/ Seal \/ Publish \/ Confirm \/ GiveUp \/ Lapse

Spec == Init /\ [][Next]_abstractVars
=============================================================================
