------------------------------ MODULE MCLoader ------------------------------
(***************************************************************************)
(* Two loads: one of a remote source for a streaming or a single-pass kit, *)
(* beside a local one, one without its tenant or one of another tenant.    *)
(***************************************************************************)
EXTENDS Loader, TLC

CONSTANTS l1, l2

TwoLoads == {l1, l2}
good(source) == [byClient |-> TRUE, json |-> TRUE, header |-> "t", tenant |-> "t", source |-> source]
Mixed == {l1 :> good("remote") @@ l2 :> other :
             other \in {good("local"), good(None),
                        [good("local") EXCEPT !.byClient = FALSE, !.tenant = "u"]}}
=============================================================================
