--------------------------- MODULE MCConfigStore ---------------------------
(* Instances of ConfigStore for model checking. *)
EXTENDS ConfigStore, TLC

CONSTANTS e1, e2, b1, b2, w1

TwoEditors == {e1, e2}
OneEditor  == {e1}
OneBlind   == {b1}
TwoBlind   == {b1, b2}
OneCleaner == {b1}
OneWorker  == {w1}
None       == {}

EditorSymmetry == Permutations({e1, e2})
=============================================================================
