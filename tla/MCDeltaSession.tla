--------------------------- MODULE MCDeltaSession ---------------------------
(* A buffer of at most three bytes, started empty or with two bytes.       *)
EXTENDS DeltaSession

MCOriginals == {<< >>, << 1, 2 >>}
=============================================================================
