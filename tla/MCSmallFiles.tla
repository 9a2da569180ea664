--------------------------- MODULE MCSmallFiles ---------------------------
(* Files are interchangeable: cells are chosen by number, never by file. *)
EXTENDS SmallFiles, TLC

(* For limits of 2 and 3 units: a write of the limit of a tiny file, one   *)
(* of the limit of a cell, and one too long for it that leaves a gap.      *)
MCWrites == {<<0, 2>>, <<0, 3>>, <<1, 3>>}

Symmetry == Permutations(File)
===========================================================================
