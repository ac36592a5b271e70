--------------------------- MODULE MCWorkflowRun ---------------------------
(* Workflows for model checking. *)
EXTENDS WorkflowRun

(* An order with a photo, then its lines, checked by a procedure.          *)
OrderThenLines == [multi |-> {2}, gated |-> {2}, gallery |-> {1}, link |-> <<0, 1>>]

(* Several contacts, then one visit, checked by a procedure.               *)
ContactsThenVisit == [multi |-> {1}, gated |-> {1, 2}, gallery |-> {2}, link |-> <<0, 1>>]

(* What the deletion of a first step can leave: links shifted by one.      *)
ShiftedLinks == [multi |-> {2}, gated |-> {}, gallery |-> {}, link |-> <<1, 2>>]

Chosen == {OrderThenLines, ContactsThenVisit, ShiftedLinks}
=============================================================================
