---------------------------- MODULE MCProcessNet ----------------------------
(* All seven systems of ProcessNet in one run: Init chooses among them.    *)
EXTENDS ProcessNet
=============================================================================
