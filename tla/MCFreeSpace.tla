--------------------------- MODULE MCFreeSpace ---------------------------
(***************************************************************************)
(* Small volumes for module FreeSpace.  Blocks, files and tasks are        *)
(* interchangeable.                                                        *)
(***************************************************************************)
EXTENDS FreeSpace, TLC

Symmetry == Permutations(Block) \cup Permutations(File) \cup Permutations(Task)
==========================================================================
