--------------------------- MODULE MCStreamBridge ---------------------------
(* The instance of StreamBridge for TLC.                                    *)
EXTENDS StreamBridge
=============================================================================
