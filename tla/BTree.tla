------------------------------ MODULE BTree ------------------------------
(***************************************************************************)
(* The b-tree under the catalog, the extents, the hard links and the       *)
(* extended attributes (btree.c), built from the operations on its nodes   *)
(* in module BTreeNode.                                                    *)
(*                                                                         *)
(* The caller has the tree locked for writing, so an operation is one      *)
(* step; what may fail in the middle of it is a new node (no metadata      *)
(* space is left) and an allocation of memory (Faults).  Splits and merges *)
(* go up from level to level.                                              *)
(*                                                                         *)
(* Every tree gets a record smaller than all others when the volume is     *)
(* made (key 0): a key before the first one of the root cannot be placed.  *)
(***************************************************************************)
EXTENDS BTreeNode

CONSTANTS
  Limits,      \* how many nodes the metadata area may let the tree have
  Faults       \* allocations of memory that may fail: "todo" (the work for an
               \* index record), "key" (a new key), "merge" (the key of a
               \* node that goes)

ASSUME BTreeConstants ==
  Limits \subseteq Nat /\ Faults \subseteq {"todo", "key", "merge"}

VARIABLE
  tree    \* the tree, see MkTree

---------------------------------------------------------------------------
(* Search                                                                  *)

(* From the root down to a level; path[l] is the node passed at level l    *)
(* (the traverse stack).                                                   *)
RECURSIVE Descend(_, _, _, _, _)
Descend(t, key, f, till, path) ==
  LET level == t.node[f.id].level
      here  == (level :> f.id) @@ path
  IN  IF f.err # "0" THEN f
      ELSE IF level > till
      THEN Descend(t, key, btree_traverse_level(t, key, t.node[f.id].recs[f.pos].child),
                   till, here)
      ELSE f @@ [path |-> here]

vdfs2_btree_traverse(t, key, till) ==
  Descend(t, key, btree_traverse_level(t, key, t.root), till, <<>>)

(* vdfs2_btree_find(): the caller gets the last record that is not after   *)
(* the key and compares it itself.                                         *)
RecordAt(t, f) ==
  IF f.err # "0" THEN [err |-> f.err]
  ELSE [err |-> "0", key |-> t.node[f.id].recs[f.pos].key]

vdfs2_btree_find(t, key) ==
  RecordAt(t, vdfs2_btree_traverse(t, key, VDFS2_BTREE_LEAF_LVL))

\* An error of a search, as the result of the call that made it.
Failed(t, f) == IF f.err = "BUG" THEN BUG(t) ELSE Err(t, f.err)

---------------------------------------------------------------------------
(* Insertion                                                               *)

\* The nodes of a level from one of them to the right.
RECURSIVE Chain(_, _)
Chain(t, id) ==
  IF id = VDFS2_INVALID_NODE_ID THEN <<>> ELSE <<id>> \o Chain(t, t.node[id].next)

\* A new root over the nodes of the old root's level that fit.
Rooted(a) ==
  IF a.err # "0" THEN a ELSE Ok([a.t EXCEPT !.root = a.id, !.height = @ + 1])

RootOver(t, recs) ==
  LET fits(i) == NodeHeader + used_space(t.height + 1, SubSeq(recs, 1, i - 1))
                 + record_len(t.height, recs[i].key) <= NodeSize
      n == Max({i \in DOMAIN recs : \A j \in 1 .. i : fits(j)})
  IN  Rooted(vdfs2_alloc_new_bnode(t, init_new_node_descr(t.height + 1, SubSeq(recs, 1, n))))

build_new_root(t) ==
  LET kids == Chain(t, t.root)
  IN  RootOver(t, [i \in DOMAIN kids |-> form_new_adding_record(t, kids[i])])

\* The work is dropped when there is no memory to remember it.
put_add_index_work(t) == t.fault # "todo"

(* The loop over the todo list.  The node right was split off at a level   *)
(* and gets its record one level up, where another split may follow.  An   *)
(* error is only logged.                                                   *)
PlaceFound(t, f, rec, len) ==
  IF f.err # "0" THEN Failed(t, f) ELSE place_key_in_bnode(t, f.id, f.pos, rec, len)

RECURSIVE place_index_record(_, _, _, _)

\* r is what came of the work for a node of the level.
IndexPlaced(r, path, level, top) ==
  IF r.err # "0" THEN [r.t EXCEPT !.torn = @ \/ r.err # "BUG"]
  ELSE IF top \/ r.right = VDFS2_INVALID_NODE_ID THEN r.t
  ELSE place_index_record(r.t, path, level + 1, r.right)

place_index_record(t, path, level, right) ==
  LET rec == form_new_adding_record(t, right)
  IN  IF ~put_add_index_work(t) THEN [t EXCEPT !.torn = TRUE]
      ELSE IndexPlaced(
             IF level = t.height THEN build_new_root(t)
             ELSE PlaceFound(t, btree_traverse_level(t, rec.key, path[level + 1]),
                             rec, record_len(level, rec.key)),
             path, level, level = t.height)

\* f is where the record goes, p what came of placing it.
DataPlaced(p, f, level) ==
  IF p.err # "0" \/ p.right = VDFS2_INVALID_NODE_ID THEN p
  ELSE Ok(place_index_record(p.t, f.path, level, p.right))

PlaceAt(t, f, rec, level) ==
  DataPlaced(PlaceFound(t, f, rec, record_len(level, rec.key)), f, level)

place_data_at_level(t, rec, level) ==
  PlaceAt(t, vdfs2_btree_traverse(t, rec.key, level), rec, level)

vdfs2_btree_insert(t, key) ==
  place_data_at_level(t, Rec(key, VDFS2_INVALID_NODE_ID), VDFS2_BTREE_LEAF_LVL)

---------------------------------------------------------------------------
(* Removal                                                                 *)

RECURSIVE btree_update_key(_, _, _, _)

\* f is the record of the old key, in the tree that has the new one.
DropOldKey(t, f, key, level) ==
  IF f.err # "0" THEN Failed(t, f)
  ELSE IF t.node[f.id].recs[f.pos].key # key THEN Ok(t)
  ELSE IF f.pos = 1 /\ level < t.height
  THEN btree_update_key(delete_from_node(t, f.id, f.pos), key, f.id, level + 1)
  ELSE Ok(delete_from_node(t, f.id, f.pos))

NewKeyPlaced(p, key, level) ==
  IF p.err # "0" THEN p
  ELSE DropOldKey(p.t, vdfs2_btree_traverse(p.t, key, level), key, level)

(* Mutant: only the level above the changed node is brought up to date.    *)
UpdateOneLevel(t, key, point_to, level) ==
  IF level > VDFS2_BTREE_LEAF_LVL + 1 THEN Ok(t)
  ELSE NewKeyPlaced(place_data_at_level(t, form_new_adding_record(t, point_to), level), key, level)

(* The first record of the node point_to changed: its key at the level     *)
(* above is replaced, the new one first.                                   *)
btree_update_key(t, key, point_to, level) ==
  IF t.fault = "key" THEN Err(t, "ENOMEM")
  ELSE IF t.node[point_to].recs = <<>> THEN BUG(t)
  ELSE NewKeyPlaced(place_data_at_level(t, form_new_adding_record(t, point_to), level),
                    key, level)

(* btree_remove() is __vdfs2_btree_remove(), which takes a key out at a    *)
(* level.  A node it empties goes; a node that lost its first key gets a   *)
(* new index record; a node that is a third empty may merge.               *)
RECURSIVE btree_remove(_, _, _)

\* r is what came of removing the index record of the emptied node.
Emptied(r, right) ==
  IF r.err # "0" THEN r ELSE Ok(vdfs2_destroy_bnode(r.t, right))

AfterMove(m, key, left, right, level, is_right_dangling) ==
  IF free_space(m.node[left]) < 0 THEN BUG(m)
  ELSE IF is_right_dangling THEN Ok(vdfs2_destroy_bnode(m, right))
  ELSE IF m.fault = "merge" THEN Err([m EXCEPT !.torn = TRUE], "ENOMEM")
  ELSE Emptied(btree_remove(m, key, level + 1), right)

btree_merge(t, left, right, level, is_right_dangling) ==
  AfterMove(MoveLeft(t, left, right), FirstKey(t, right), left, right, level,
            is_right_dangling)

(* Mutant: two nodes merge although their records do not fit into one.     *)
MergeAlways(t, left, right, level, is_right_dangling) ==
  IF VDFS2_INVALID_NODE_ID \in {left, right} THEN BUG(t)
  ELSE btree_merge(t, left, right, level, is_right_dangling)

\* The node and its neighbour merge when one node has room for both.
Balance(t, left, right, level, is_right_dangling) ==
  IF VDFS2_INVALID_NODE_ID \in {left, right} THEN BUG(t)
  ELSE IF free_space(t.node[left]) + free_space(t.node[right]) >= NodeSize
  THEN btree_merge(t, left, right, level, is_right_dangling)
  ELSE Ok(t)

\* f is the index record of the node.  Its left neighbour is preferred.
WithSibling(t, level, id, f) ==
  LET cur   == t.node[id]
      precs == t.node[f.id].recs
  IN  IF f.err # "0" THEN Failed(t, f)
      ELSE IF f.pos > 1
      THEN Balance(t, cur.prev, id, level, precs[f.pos].child # id)
      ELSE IF Len(precs) > 1
      THEN Balance(t, id, cur.next, level, precs[2].child # cur.next)
      ELSE Ok(t)

rebalance(t, key, level, id) ==
  LET cur == t.node[id]
  IN  IF level < t.height
      THEN WithSibling(t, level, id, vdfs2_btree_traverse(t, key, level + 1))
      ELSE IF cur.prev # VDFS2_INVALID_NODE_ID THEN Balance(t, cur.prev, id, level, TRUE)
      ELSE IF cur.next # VDFS2_INVALID_NODE_ID THEN Balance(t, id, cur.next, level, TRUE)
      ELSE Ok(t)

(* The only child of the root becomes the root.                            *)
DropRoot(t) ==
  vdfs2_destroy_bnode([t EXCEPT !.root = t.node[t.root].recs[1].child, !.height = @ - 1],
                      t.root)

\* An error of rebalance() stops the kernel.
Balanced(b) == IF b.err # "0" THEN BUG(b.t) ELSE b

\* u is the tree once the index has the node's new first key.
Shrink(u, key, level, id, full) ==
  IF u.err # "0" THEN [u EXCEPT !.t.torn = @ \/ u.err # "BUG"]
  ELSE IF full THEN u
  ELSE IF id # u.t.root THEN Balanced(rebalance(u.t, key, level, id))
  ELSE IF Len(u.t.node[id].recs) = 1 /\ u.t.height > 1 THEN Ok(DropRoot(u.t))
  ELSE u

\* The node became empty: u is what came of removing its index record.
NodeGone(u) == IF u.err = "ENOENT" THEN Ok(u.t) ELSE u

\* d is the tree without the record.
Removed(d, key, level, f) ==
  LET recs  == d.node[f.id].recs
      moved == f.pos = 1 /\ level < d.height
      gone  == vdfs2_destroy_bnode(Unlink(d, f.id), f.id)
  IN  IF recs = <<>> THEN
        IF f.id = d.root THEN BUG(d)
        ELSE IF level = d.height THEN Ok(gone)
        ELSE NodeGone(btree_remove(gone, key, level + 1))
      ELSE Shrink(IF moved THEN btree_update_key(d, key, f.id, level + 1) ELSE Ok(d),
                  IF moved THEN recs[1].key ELSE key, level, f.id,
                  free_space(d.node[f.id]) <= NodeSize \div 3)

RemoveFound(t, key, level, f) ==
  IF f.err # "0" THEN Failed(t, f)
  ELSE IF t.node[f.id].recs[f.pos].key # key THEN Err(t, "ENOENT")
  ELSE Removed(delete_from_node(t, f.id, f.pos), key, level, f)

btree_remove(t, key, level) ==
  IF level > t.height THEN BUG(t)
  ELSE RemoveFound(t, key, level, vdfs2_btree_traverse(t, key, level))

vdfs2_btree_remove(t, key) == btree_remove(t, key, VDFS2_BTREE_LEAF_LVL)

---------------------------------------------------------------------------
(* The keys in the leaves, as vdfs2_get_next_btree_record() walks them     *)
(* from the first record.                                                  *)
RECURSIVE Leftmost(_, _, _)
Leftmost(t, id, level) ==
  IF t.node[id].level = level THEN id ELSE Leftmost(t, t.node[id].recs[1].child, level)

RECURSIVE WalkFrom(_, _)
WalkFrom(t, id) ==
  IF id = VDFS2_INVALID_NODE_ID THEN <<>>
  ELSE t.node[id].recs \o WalkFrom(t, t.node[id].next)

Walk(t) == WalkFrom(t, Leftmost(t, t.root, VDFS2_BTREE_LEAF_LVL))

---------------------------------------------------------------------------
(* The checks a mount makes on request (option btree_check).               *)

\* The index records of a level, from the left, and a level's first node.
LevelRecs(t, level) ==
  WalkFrom(t, Leftmost(t, t.root, level))

(* The children of a level are linked in the order of their records.       *)
(* Nodes between two of them are counted as dangling.                      *)
check_btree_links_at_level(t, level) ==
  LET recs == LevelRecs(t, level)
      kid(i) == IF i \in DOMAIN recs THEN recs[i].child ELSE VDFS2_INVALID_NODE_ID
  IN  \A i \in DOMAIN recs : /\ t.node[kid(i)].prev = kid(i - 1)
                             /\ t.node[kid(i)].next = kid(i + 1)

\* No dangling node at the root's level, none below.
vdfs2_check_btree_links(t) ==
  /\ t.node[t.root].prev = VDFS2_INVALID_NODE_ID
  /\ t.node[t.root].next = VDFS2_INVALID_NODE_ID
  /\ \A level \in VDFS2_BTREE_LEAF_LVL + 1 .. t.height : check_btree_links_at_level(t, level)

check_ordering_at_level(t, level) ==
  LET recs == LevelRecs(t, level)
  IN  \A i \in 1 .. Len(recs) - 1 : recs[i].key <= recs[i + 1].key

vdfs2_check_btree_records_order(t) ==
  \A level \in VDFS2_BTREE_LEAF_LVL .. t.height : check_ordering_at_level(t, level)

---------------------------------------------------------------------------
Init == tree \in {MkTree(l) : l \in Limits}

Arm(fault) == [tree EXCEPT !.fault = fault]

(* The fault stays on record when the kernel stopped.                      *)
Return(r) == tree' = IF r.t.bug THEN r.t ELSE [r.t EXCEPT !.fault = "none"]

(* What becomes of a tree whose index is out of date is not followed.      *)
Sound == ~tree.bug /\ ~tree.torn

InsertKey(k, fault) == Sound /\ Return(vdfs2_btree_insert(Arm(fault), k))
RemoveKey(k, fault) == Sound /\ Return(vdfs2_btree_remove(Arm(fault), k))

Next == \E k \in Key, fault \in Faults \cup {"none"} :
          InsertKey(k, fault) \/ RemoveKey(k, fault)

Spec == Init /\ [][Next]_tree

---------------------------------------------------------------------------
(* Properties                                                              *)

Keys(t) == LET w == Walk(t) IN {w[i].key : i \in DOMAIN w}

Contents == Keys(tree)

(* A search leads to the greatest key in the leaves that is not after the  *)
(* one searched (vdfs2_btree_find() through the index nodes).              *)
FindExact ==
  ~tree.torn =>
    LET all == Contents
    IN  \A k \in Key \cup {First} :
          vdfs2_btree_find(tree, k) = [err |-> "0", key |-> Max({c \in all : c <= k})]

\* The nodes that index records lead to.
RECURSIVE Below(_, _)
Below(t, id) ==
  {id} \cup UNION {Below(t, t.node[id].recs[i].child) :
                     i \in IF t.node[id].level = VDFS2_BTREE_LEAF_LVL THEN {}
                           ELSE DOMAIN t.node[id].recs}

(* Every node number taken from the bitmap is in the tree, and the first   *)
(* free number is right (vdfs2_alloc_new_bnode() asserts that it is free). *)
NoNodeLost ==
  /\ ~tree.torn => Below(tree, tree.root) = DOMAIN tree.node
  /\ tree.first_free_id = Min((1 .. Cardinality(Used(tree))) \ Used(tree))
  /\ Used(tree) \subseteq 0 .. tree.avail - 1

(* The tree passes the driver's own checks after every operation, and no   *)
(* key is there twice.  What these checks leave out and a removal relies   *)
(* on holds too: an index record has exactly the first key of its child, a *)
(* node one level down, and no node is empty or overfull.                  *)
IndexExact ==
  ~tree.torn =>
    /\ vdfs2_check_btree_links(tree)
    /\ vdfs2_check_btree_records_order(tree)
    /\ LET w == Walk(tree) IN \A i \in 1 .. Len(w) - 1 : w[i].key # w[i + 1].key
    /\ \A i \in DOMAIN tree.node :
         LET n == tree.node[i]
         IN  /\ n.recs # <<>> /\ free_space(n) >= 0
             /\ n.level > VDFS2_BTREE_LEAF_LVL =>
                  \A j \in DOMAIN n.recs :
                    /\ tree.node[n.recs[j].child].level = n.level - 1
                    /\ FirstKey(tree, n.recs[j].child) = n.recs[j].key

(* "If we fail during adding work - it's ok": a node whose index record    *)
(* could not be placed is still found (put_add_index_work()).              *)
DanglingFound ==
  tree.torn /\ ~tree.bug => \A k \in Contents : vdfs2_btree_find(tree, k).err = "0"

(* A call that succeeds adds or removes its key and no other; a call that  *)
(* reports an error leaves the records as they were.                       *)
CallsExact ==
  Sound =>
    LET all == Contents
    IN  \A k \in Key :
          LET i == vdfs2_btree_insert(tree, k)
              d == vdfs2_btree_remove(tree, k)
          IN  /\ Keys(i.t) = IF i.err = "0" THEN all \cup {k} ELSE all
              /\ ~d.t.torn => Keys(d.t) = IF d.err = "0" THEN all \ {k} ELSE all
              /\ (i.err = "EEXIST") = (k \in all)
              /\ (d.err = "ENOENT") = (k \notin all)

(* A node was left without an index record, which is only logged.          *)
Dangling == Below(tree, tree.root) # DOMAIN tree.node

(* No assertion of btree.c or bnode.c fails in an operation on a sound     *)
(* tree, also when it runs out of nodes or of memory, with two exceptions, *)
(* both defects:                                                           *)
(*  - btree_merge() gets no memory for the key of the node that goes, when *)
(*    its records were moved already: rebalance() fails and                *)
(*    __vdfs2_btree_remove() stops the kernel;                             *)
(*  - a new key splits an index node, the record of the new node is        *)
(*    dropped, and the same removal then meets the dangling node.          *)
NoBug == tree.bug => tree.torn /\ (tree.fault = "merge" \/ Dangling)

Map == INSTANCE OrderedSet WITH Fixed <- First, contents <- Contents

(* The tree implements a set of keys (cattree.c and the others use it as   *)
(* one).                                                                   *)
IsMap == Map!Spec
==========================================================================
