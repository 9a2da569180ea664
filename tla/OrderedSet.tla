---------------------------- MODULE OrderedSet ----------------------------
(***************************************************************************)
(* What a b-tree promises to the trees built on it (cattree.c, extents.c,  *)
(* hlinktree.c, xattr.c): a set of keys.  A call that succeeds adds or     *)
(* removes exactly its key; a call that reports an error changes nothing.  *)
(***************************************************************************)
CONSTANTS
  Key,      \* keys of records
  Fixed     \* the record written when the volume is made, never removed

VARIABLE contents   \* keys of the records in the tree

Init == contents = {Fixed}

Insert(k) == k \notin contents /\ contents' = contents \cup {k}
Remove(k) == k \in contents    /\ contents' = contents \ {k}

Next == \E k \in Key : Insert(k) \/ Remove(k)

Spec == Init /\ [][Next]_contents
==========================================================================
