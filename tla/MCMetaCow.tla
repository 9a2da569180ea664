---------------------------- MODULE MCMetaCow ----------------------------
(***************************************************************************)
(* Small volumes for module MetaCow.                                       *)
(***************************************************************************)
EXTENDS MetaCow

CONSTANTS cat, bmp   \* a b-tree file and a bitmap file

(* Chunk 0 of the tree in blocks 0 and 1, chunk 0 of the bitmap in 2. *)
MCMkfsTab ==
  [c \in Files \X (0 .. MaxIdx) |->
     CASE c = <<cat, 0>> -> 0 [] c = <<bmp, 0>> -> 2 [] OTHER -> NoBlk]

(* These volumes have the sizes that NoMetaExhaustion is proved for. *)
ASSUME SizesAssumption == MetaSizes
==========================================================================
