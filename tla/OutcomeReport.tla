---------------------------- MODULE OutcomeReport ----------------------------
(***************************************************************************)
(* The receiving side of a sync-outcome report                             *)
(* (outcomereport/outcomereport.go) as operators: what Handler answers to  *)
(* a request, and what of the envelope a receiver can rely on.             *)
(***************************************************************************)
EXTENDS Naturals

\* The fields the handler looks at; "" and 0 are missing ones.
Report(delivery, stage, status) ==
    [delivery_id |-> delivery, tenant_id |-> "tenant", stage |-> stage, status |-> status]

\* An unknown stage or status is no error: only what a receiver cannot act
\* without is required.
Validate(rep) ==
    /\ rep.delivery_id # 0
    /\ rep.tenant_id # "" /\ rep.stage # "" /\ rep.status # ""

\* Mutant: a receiver that fails is answered like a report it cannot read.
MutReceiverError(accepts) == IF accepts THEN "204" ELSE "400"
received(accepts) == IF accepts THEN "204" ELSE "500"

\* The answer: no receiver at all, a body that cannot be read or decoded or
\* lacks a required field, then what the receiver itself says.
Handler(hasReceiver, readable, rep, accepts) ==
    IF ~hasReceiver THEN "501"
    ELSE IF ~readable \/ ~Validate(rep) THEN "400"
    ELSE received(accepts)
=============================================================================
