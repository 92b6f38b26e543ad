-------------------------- MODULE MCTransferWriter --------------------------
(***************************************************************************)
(* A small writer: two good records (one of them long enough to force the  *)
(* spool), one a Write* method refuses, one that cannot be encoded.        *)
(***************************************************************************)
EXTENDS TransferWriter

MCRecord == {"small", "long", "invalid", "nan"}
MCInvalid == {"invalid"}
MCUnmarshalable == {"nan"}
MCLineLen == [l \in MCRecord \cup {"header"} |-> IF l = "long" THEN 2 ELSE 1]
=============================================================================
