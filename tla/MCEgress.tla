------------------------------ MODULE MCEgress ------------------------------
(***************************************************************************)
(* Two deliveries that may be about the same entity, one sent up to two    *)
(* times, and a component that is restarted once.  The entity is updated,  *)
(* removed and created again; its first two versions share a creation      *)
(* instant that does not fall on a millisecond.  In one mix the platform   *)
(* could not stamp the row of the delivery that is sent twice.             *)
(***************************************************************************)
EXTENDS Egress, TLC

CONSTANTS d1, d2, id1, id2

TwoDeliveries == {d1, d2}
TwoIds == {id1, id2}
Lived == <<[at |-> 3, no |-> 1], [at |-> 3, no |-> 2], [at |-> 6, no |-> 1]>>

item(id, ver) == [id |-> id, ver |-> ver]
request(lane, items) == [lane |-> lane, wellFormed |-> TRUE, items |-> items]
EarlierAndLater ==
    {d1 :> request("sync", <<item(id1, 1), item(id1, 1), item(NoId, 0)>>) @@ d2 :> request("withdraw", <<item(id1, 2)>>),
     d1 :> request("sync", <<item(id1, 2)>>) @@ d2 :> request("sync", <<item(id1, 3)>>),
     d1 :> request("sync", <<item(id1, 0)>>) @@ d2 :> request("sync", <<item(id1, 3)>>),
     d1 :> request("relationship", <<item(id2, 0)>>) @@ d2 :> request("ontology", <<item(id2, 0)>>),
     d1 :> request("sync", <<>>) @@ d2 :> [request("sync", <<item(id1, 1)>>) EXCEPT !.wellFormed = FALSE]}
RetriedAndOnce == d1 :> 2 @@ d2 :> 1
=============================================================================
