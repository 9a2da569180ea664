--------------------------- MODULE MCNamespace ---------------------------
(* Names and inode numbers are interchangeable. *)
EXTENDS Namespace, TLC

Symmetry == Permutations(Ino) \cup Permutations(Name)
==========================================================================
