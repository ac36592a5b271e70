--------------------------- MODULE MCAdminEditor ---------------------------
(* Instances of AdminEditor for model checking. *)
EXTENDS AdminEditor

CONSTANTS schema, workflows, overview

TwoTabs  == {schema, workflows}
OnePage  == {overview}
Checked  == {workflows}
=============================================================================
