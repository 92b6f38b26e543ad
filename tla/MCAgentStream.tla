--------------------------- MODULE MCAgentStream ---------------------------
(***************************************************************************)
(* Every body of up to five lines, whole or cut in its last one, through a *)
(* channel that holds one event, so that the sender meets a full one.      *)
(***************************************************************************)
EXTENDS AgentStream
=============================================================================
