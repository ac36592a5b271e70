------------------------------ MODULE MCEtlJobs ------------------------------
(* Instances of EtlJobs for TLC. *)
EXTENDS EtlJobs

CONSTANT a

(* A flow that runs its job twice.                                         *)
Twice == << <<a, a>> >>

(* Each load mode with an incremental query, and the two that differ most  *)
(* without one: append repeats its rows, full refresh drops none.          *)
Settings ==
  {[mode |-> m, increment |-> "query"] : m \in Mode} \cup
  {[mode |-> "append", increment |-> "none"],
   [mode |-> "full_refresh", increment |-> "none"]}

EachSetting == [Job -> Settings]
=============================================================================
