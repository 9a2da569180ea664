---------------------------- MODULE BTreeNode ----------------------------
(***************************************************************************)
(* The nodes of a b-tree and the numbers they are given: what btree.c and  *)
(* bnode.c do to one node at a time.  A node has its records in the order  *)
(* of their keys, and the nodes of a level are linked.  Level 1 are the    *)
(* leaves.  A record of an index node has the first key of a child.        *)
(*                                                                         *)
(* A tree is a record here (MkTree), and an operation on it a function of  *)
(* the tree.                                                               *)
(***************************************************************************)
EXTENDS Integers, FiniteSets, Sequences, SequencesExt

CONSTANTS
  Key,         \* keys of records, greater than 0
  KeyLen,      \* length of a key; names differ in length
  LeafLen,     \* length of the value in a leaf
  IndexLen,    \* length of the value in an index node (a node number)
  NodeSize,    \* node_size_bytes
  NodeHeader   \* what a node needs besides its records

First == 0
VDFS2_INVALID_NODE_ID == 0
VDFS2_BTREE_LEAF_LVL == 1

ASSUME NodeConstants ==
  /\ Key \subseteq Nat \ {First} /\ IsFiniteSet(Key)
  /\ KeyLen \in [Key \cup {First} -> Nat \ {0}]
  /\ LeafLen \in Nat /\ IndexLen \in Nat /\ IndexLen <= LeafLen
  /\ NodeSize \in Nat /\ NodeHeader \in Nat

(* No record takes more than half of a node: max_record_len is below 700   *)
(* bytes, and a node is a superpage.                                       *)
ASSUME ShortRecords ==
  \A k \in DOMAIN KeyLen : NodeHeader + KeyLen[k] + LeafLen <= NodeSize \div 2

---------------------------------------------------------------------------
(* Nodes                                                                   *)

Rec(k, child) == [key |-> k, child |-> child]

\* key_len + length of the value; the entry in the offset table is included.
record_len(level, k) ==
  KeyLen[k] + IF level = VDFS2_BTREE_LEAF_LVL THEN LeafLen ELSE IndexLen

used_space(level, recs) ==
  LET sum[i \in 0 .. Len(recs)] ==
        IF i = 0 THEN 0 ELSE sum[i - 1] + record_len(level, recs[i].key)
  IN  sum[Len(recs)]

free_space(n) == NodeSize - NodeHeader - used_space(n.level, n.recs)

\* The record goes to the free space and its offset into the offset table.
place_into_node(n, pos, rec) == [n EXCEPT !.recs = InsertAt(@, pos, rec)]

init_new_node_descr(level, recs) ==
  [level |-> level, recs |-> recs,
   prev |-> VDFS2_INVALID_NODE_ID, next |-> VDFS2_INVALID_NODE_ID]

(* The numbers in use are the bitmap in the head node; the head itself is  *)
(* number 0.                                                               *)
MkTree(limit) ==
  [node   |-> [i \in {1} |-> init_new_node_descr(VDFS2_BTREE_LEAF_LVL, <<Rec(First, 0)>>)],
   root   |-> 1, height |-> 1,
   first_free_id |-> 2,
   avail  |-> 2,        \* VDFS2_LAST_TABLE_INDEX + 1
   limit  |-> limit,
   fault  |-> "none",   \* the allocation that fails in this call
   torn   |-> FALSE,    \* an index could not be brought up to date
   bug    |-> FALSE]    \* an assertion failed: the kernel stops

Used(t) == {0} \cup DOMAIN t.node

Ok(t)     == [t |-> t, err |-> "0"]
Err(t, e) == [t |-> t, err |-> e]
BUG(t)    == [t |-> [t EXCEPT !.bug = TRUE], err |-> "BUG"]

\* A change of a node, if there is a node of that number.
SetNode(t, id, n) == [t EXCEPT !.node[id] = n]
SetPrev(t, id, p) == IF id = VDFS2_INVALID_NODE_ID THEN t ELSE [t EXCEPT !.node[id].prev = p]
SetNext(t, id, p) == IF id = VDFS2_INVALID_NODE_ID THEN t ELSE [t EXCEPT !.node[id].next = p]

\* get_record(bnode, 0)
FirstKey(t, id) == t.node[id].recs[1].key

\* The index record of a node.
form_new_adding_record(t, id) == Rec(FirstKey(t, id), id)

---------------------------------------------------------------------------
(* Node numbers (bnode.c)                                                  *)

\* vdfs2_check_page_offset() through __get_bnode(): the tree's file grows.
Grow(t, count) == [t EXCEPT !.avail = count]

VDFS2_BNODE_RESERVE(t) == t.height * 4

\* Before a split: as many nodes as a split up to the root may need.
vdfs2_check_bnode_reserve(t) ==
  LET want == Cardinality(Used(t)) + VDFS2_BNODE_RESERVE(t)
  IN  IF want <= t.avail THEN Ok(t)
      ELSE IF want <= t.limit THEN Ok(Grow(t, want))
      ELSE Err(Grow(t, IF t.avail < t.limit THEN t.limit ELSE t.avail), "ENOSPC")

\* set_bnode_bit() and the next free number.
TakeNumber(t, id, n) ==
  LET used == Used(t) \cup {id}
  IN  [t |-> [t EXCEPT !.node = [i \in DOMAIN @ \cup {id} |-> IF i = id THEN n ELSE @[i]],
                       !.first_free_id = Min((id + 1 .. id + 1 + Cardinality(used)) \ used)],
       err |-> "0", id |-> id]

vdfs2_alloc_new_bnode(t, n) ==
  LET id == t.first_free_id
      g  == IF id < t.avail THEN t ELSE Grow(t, id + 1)
  IN  IF g.avail > t.limit THEN Err(t, "ENOSPC") ELSE TakeNumber(g, id, n)

(* Mutant: the first free number is not lowered.                           *)
DestroyKeepsFirst(t, id) ==
  [t EXCEPT !.node = [i \in DOMAIN @ \ {id} |-> @[i]]]

vdfs2_destroy_bnode(t, id) ==
  [t EXCEPT !.node = [i \in DOMAIN @ \ {id} |-> @[i]],
            !.first_free_id = IF @ > id THEN id ELSE @]

---------------------------------------------------------------------------
(* Search                                                                  *)

\* The loop of binary_search(): the key is in first .. last - 1.
Bisect(recs, key) ==
  LET loop[r \in (1 .. Len(recs)) \X (1 .. Len(recs))] ==
        LET first == r[1]
            last  == r[2]
            mid   == first + ((last + 1 - first) \div 2)
        IN  IF first >= last - 1 THEN first
            ELSE IF recs[mid].key = key THEN mid
            ELSE IF recs[mid].key < key THEN loop[<<mid, last>>]
            ELSE loop[<<first, mid>>]
  IN  loop[<<1, Len(recs)>>]

(* Mutant: a key equal to the last one of the node is searched on its left. *)
SearchBeforeLast(recs, key) ==
  IF recs[1].key > key THEN 0
  ELSE IF recs[Len(recs)].key < key \/ Len(recs) = 1 THEN Len(recs)
  ELSE Bisect(recs, key)

\* Position of the last record that is not greater, 0 for -ENOENT.
binary_search(recs, key) ==
  IF recs[1].key > key THEN 0
  ELSE IF recs[Len(recs)].key <= key THEN Len(recs)
  ELSE Bisect(recs, key)

(* The position in one node of a level.  The search looks into the next    *)
(* node when the key may be there: a node without an index record ("the    *)
(* dangling bnode") stops the kernel.                                      *)
FoundAt(t, key, id, pos) ==
  LET n == t.node[id]
      dangling == /\ pos = Len(n.recs) /\ n.next # VDFS2_INVALID_NODE_ID
                  /\ binary_search(t.node[n.next].recs, key) # 0
  IN  IF pos = 0 THEN [err |-> "ENOENT"]
      ELSE IF dangling THEN [err |-> "BUG"]
      ELSE [err |-> "0", id |-> id, pos |-> pos]

btree_traverse_level(t, key, id) ==
  IF id \notin DOMAIN t.node THEN [err |-> "ENOENT"]
  ELSE IF t.node[id].recs = <<>> THEN [err |-> "BUG"]
  ELSE FoundAt(t, key, id, binary_search(t.node[id].recs, key))

---------------------------------------------------------------------------
(* Insertion into a node                                                   *)

(* Mutant: the first record of the right node is lost.                     *)
SplitLosesOne(t, id, right, rec, len, pos) ==
  LET n   == t.node[id]
      all == place_into_node(n, pos, rec).recs
      cut == Len(all) \div 2
      u   == SetNode(SetNode(t, id, [n EXCEPT !.recs = SubSeq(all, 1, cut), !.next = right]),
                     right, [n EXCEPT !.recs = SubSeq(all, cut + 2, Len(all)), !.prev = id])
  IN  Ok(SetPrev(u, n.next, right))

(* The records of a full node and the new one, of length len, go to the    *)
(* node and to a new one on its right; the left one takes records until    *)
(* it is more than half full.                                              *)
SplitAt(t, id, right, all, cut) ==
  LET n == t.node[id]
      left_bnode  == [n EXCEPT !.recs = SubSeq(all, 1, cut), !.next = right]
      right_bnode == [level |-> n.level, recs |-> SubSeq(all, cut + 1, Len(all)),
                      prev |-> id, next |-> n.next]
  IN  IF free_space(left_bnode) < 0 \/ free_space(right_bnode) < 0
         \/ right_bnode.recs = <<>>
      THEN BUG(t)
      ELSE Ok(SetPrev(SetNode(SetNode(t, id, left_bnode), right, right_bnode), n.next, right))

\* Space taken on the left once record i is there.
Taken(level, all, rec, len, pos, i) ==
  NodeHeader + used_space(level, SubSeq(all, 1, i))
    + IF i < pos THEN 0 ELSE len - record_len(level, rec.key)

SplitCut(level, all, rec, len, pos) ==
  Min({Len(all)} \cup {i \in 1 .. Len(all) :
                          Taken(level, all, rec, len, pos, i) > NodeSize \div 2})

split_bnode(t, id, right, rec, len, pos) ==
  LET level == t.node[id].level
      all   == place_into_node(t.node[id], pos, rec).recs
  IN  SplitAt(t, id, right, all, SplitCut(level, all, rec, len, pos))

\* The result of a call that placed a record, with the node split off.
WithRight(r, right) == [t |-> r.t, err |-> r.err, right |-> right]

\* A full node: c is the reserve, a the new node.
SplitInto(a, id, pos, rec, len) ==
  IF a.err # "0" THEN a
  ELSE WithRight(split_bnode(a.t, id, a.id, rec, len, pos + 1), a.id)

SplitFull(c, id, pos, rec, len) ==
  IF c.err # "0" THEN c
  ELSE SplitInto(vdfs2_alloc_new_bnode(c.t, init_new_node_descr(c.t.node[id].level, <<>>)),
                 id, pos, rec, len)

(* Mutant: a record whose key is there already is inserted again.          *)
PlaceTwice(t, id, pos, rec, len) ==
  IF free_space(t.node[id]) >= len
  THEN WithRight(Ok(SetNode(t, id, place_into_node(t.node[id], pos + 1, rec))),
                 VDFS2_INVALID_NODE_ID)
  ELSE SplitFull(vdfs2_check_bnode_reserve(t), id, pos, rec, len)

(* right is the number of the new node if there was a split.  len is the   *)
(* length in the record the key was taken from, not that of the new one.   *)
place_key_in_bnode(t, id, pos, rec, len) ==
  IF t.node[id].recs[pos].key = rec.key THEN Err(t, "EEXIST")
  ELSE IF free_space(t.node[id]) >= len
  THEN WithRight(Ok(SetNode(t, id, place_into_node(t.node[id], pos + 1, rec))),
                 VDFS2_INVALID_NODE_ID)
  ELSE SplitFull(vdfs2_check_bnode_reserve(t), id, pos, rec, len)

---------------------------------------------------------------------------
(* Removal from a node                                                     *)

delete_from_node(t, id, pos) == [t EXCEPT !.node[id].recs = RemoveAt(@, pos)]

(* A node leaves the list of its level.                                    *)
Unlink(t, id) ==
  LET n == t.node[id] IN SetPrev(SetNext(t, n.prev, n.next), n.next, n.prev)

(* The records of a node move to its left neighbour.                       *)
MoveLeft(t, left, right) ==
  LET r == t.node[right]
  IN  SetPrev([t EXCEPT !.node[left].recs = @ \o r.recs, !.node[left].next = r.next],
              r.next, left)
==========================================================================
