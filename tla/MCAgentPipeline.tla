--------------------------- MODULE MCAgentPipeline ---------------------------
(***************************************************************************)
(* A writer, a reader and a sub-agent.  The gateway's listing describes    *)
(* all of them, or not the reader, whose name has a mutating hint.         *)
(***************************************************************************)
EXTENDS AgentPipeline

CONSTANTS write, read, ask, a1, none

MCTool == {write, read, ask}
OneArg == {a1}
JustWrite == {write}
JustRead == {read}
JustAsk == {ask}
NamesWithHint == {write, read}
AllOrOneMissing == {MCTool, MCTool \ {read}}
=============================================================================
