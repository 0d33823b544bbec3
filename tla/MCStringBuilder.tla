-------------------------- MODULE MCStringBuilder --------------------------
(* StringBuilder with four cells, four buffers and texts of 0 to 2        *)
(* characters.                                                             *)
EXTENDS StringBuilder, TLC

MCTexts == {<<>>, <<1>>, <<2, 3>>}

Symmetry == Permutations(Cells) \union Permutations(Buffers)
=============================================================================
