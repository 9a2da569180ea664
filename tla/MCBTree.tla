----------------------------- MODULE MCBTree -----------------------------
(***************************************************************************)
(* A node of 8 units has room for three records of length 2.  The keys     *)
(* divisible by 3 are long ones.                                           *)
(***************************************************************************)
EXTENDS BTree

CONSTANT NumKeys   \* how many keys there are

MCKey    == 1 .. NumKeys
MCKeyLen == [k \in 0 .. NumKeys |-> IF k > 0 /\ k % 3 = 0 THEN 2 ELSE 1]

(* Two trees that differ in the numbers of their nodes only are the same:  *)
(* a node is known by its level and its first key.                         *)
NodeName(id) ==
  IF id \notin DOMAIN tree.node THEN <<0, 0>>
  ELSE <<tree.node[id].level,
         IF tree.node[id].recs = <<>> THEN 0 ELSE FirstKey(tree, id) + 1>>

View ==
  <<{<<NodeName(i), NodeName(tree.node[i].prev), NodeName(tree.node[i].next),
       [j \in DOMAIN tree.node[i].recs |->
          <<tree.node[i].recs[j].key, NodeName(tree.node[i].recs[j].child)>>]>>
       : i \in DOMAIN tree.node},
    NodeName(tree.root), tree.avail, tree.limit, tree.torn,
    tree.bug, tree.fault>>
==========================================================================
