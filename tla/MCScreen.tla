------------------------------ MODULE MCScreen ------------------------------
(* What programs print when Screen is model checked. *)
EXTENDS Screen

MCOutput == {<<"b", "a", "b", "b", "a">>, <<"\n", "a">>, <<"\t">>}
=============================================================================
