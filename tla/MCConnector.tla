---------------------------- MODULE MCConnector ----------------------------
(***************************************************************************)
(* Two deliveries that compete for a queue of one, beside one polled       *)
(* binding or none.                                                        *)
(***************************************************************************)
EXTENDS Connector

CONSTANTS d1, d2, b1

TwoDeliveries == {d1, d2}
NoBinding == {}
OneBinding == {b1}
=============================================================================
