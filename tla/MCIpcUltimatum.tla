--------------------------- MODULE MCIpcUltimatum ---------------------------
(* Instances of IpcUltimatum for TLC.                                      *)
EXTENDS IpcUltimatum
=============================================================================
