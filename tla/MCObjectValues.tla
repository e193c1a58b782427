---------------------------- MODULE MCObjectValues ----------------------------
(***************************************************************************)
(* Values for model checking: a number of two bytes that differ, a text    *)
(* that is also an object's, and a string that begins like a marker.       *)
(***************************************************************************)
EXTENDS ObjectValues, TLC

OneNumber == {258}
TwoTexts == {<<7>>, <<COMPLEX_TYPE>>}

Symmetry == Permutations(Keys)
=============================================================================
