---------------------------- MODULE MCAlgorithms ----------------------------
(* Constants for Algorithms: three nodes for two cells and a location      *)
(* outside the screen; all short texts for a buffer of three bytes.        *)
EXTENDS Algorithms, SequencesExt

Blinking(loc, on, off) ==
  [location |-> loc, on_char |-> "*", off_char |-> "-", on_length |-> on, off_length |-> off]
MCStruct == {Blinking(1, 2, 1), Blinking(2, 1, 1), Blinking(3, 1, 1)}

MCTexts == BoundedSeq({"a", "b", EOL}, 5)
MCWords == {<<"a">>, <<"a", "b">>}
MCStack == {"a", EOL}
=============================================================================
