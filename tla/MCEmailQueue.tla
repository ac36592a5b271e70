---------------------------- MODULE MCEmailQueue ----------------------------
(* Instances of EmailQueue for model checking. *)
EXTENDS EmailQueue

CONSTANTS r1, r2

OneRunner  == {r1}
TwoRunners == {r1, r2}
=============================================================================
