---------------------------- MODULE MCToolSidecar ----------------------------
(***************************************************************************)
(* One call at a time, two tools of which one declares nothing, and a      *)
(* platform tool no tool declares.  A round takes up to three ticks; one   *)
(* lifetime leaves time for it after the renewal is due, one does not.     *)
(***************************************************************************)
EXTENDS ToolSidecar, TLC

CONSTANTS c1, t1, t2, p1, p2

OneCall == {c1}
TwoTools == {t1, t2}
TwoPlatformTools == {p1, p2}
Declared == t1 :> {p1} @@ t2 :> {}
=============================================================================
