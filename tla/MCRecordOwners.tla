--------------------------- MODULE MCRecordOwners ---------------------------
(* Instances of RecordOwners for model checking. *)
EXTENDS RecordOwners

CONSTANTS s1, s2, m1, m2, x, y, ann, bob

OneSingle  == {s1}
TwoSingles == {s1, s2}
TwoBulks   == {m1, m2}
None       == {}
OneRecord  == {x}
TwoRecords == {x, y}
TwoUsers   == {ann, bob}
=============================================================================
