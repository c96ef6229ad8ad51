-------------------------------- MODULE MCLinks --------------------------------
(* Two values of one fact, contradicting each other, for TLC. *)
EXTENDS Links, TLC

MCContradicts == {<<"python", "go">>, <<"go", "python">>}

MCSymmetry == Permutations(Writes)
===============================================================================
