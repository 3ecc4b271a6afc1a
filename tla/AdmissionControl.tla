-------------------------- MODULE AdmissionControl --------------------------
(***************************************************************************)
(* What a concurrency limit promises, with no counter, no signal and no    *)
(* register in sight: a caller enters while at most Limit others are       *)
(* inside, leaves once, and does not come back.  The limit may break at    *)
(* any time, once for all: it has no lock to protect it.                   *)
(*                                                                         *)
(* su_server.cpp tests "curr1 <= 25" before it accepts, so 26 sessions may *)
(* be inside at a time; Limit is the constant of that test.                *)
(***************************************************************************)
EXTENDS Integers, FiniteSets

CONSTANTS Callers, Limit

VARIABLES active,  \* the callers being served
          gone,    \* the callers that have left
          broken   \* whether the limit holds no more

vars == <<active, gone, broken>>

Init ==
  /\ active = {}
  /\ gone = {}
  /\ broken = FALSE

Admit(c) ==
  /\ c \notin active \cup gone
  /\ broken \/ Cardinality(active) <= Limit
  /\ active' = active \cup {c}
  /\ UNCHANGED <<gone, broken>>

Leave(c) ==
  /\ c \in active
  /\ active' = active \ {c}
  /\ gone' = gone \cup {c}
  /\ UNCHANGED broken

Break ==
  /\ ~broken
  /\ broken' = TRUE
  /\ UNCHANGED <<active, gone>>

Next == Break \/ \E c \in Callers : Admit(c) \/ Leave(c)

Spec == Init /\ [][Next]_vars
=============================================================================
