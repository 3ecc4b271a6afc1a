------------------------ MODULE MCConnectionServers ------------------------
(* Instances of ConnectionServers for TLC.                                 *)
EXTENDS ConnectionServers
=============================================================================
