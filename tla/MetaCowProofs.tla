-------------------------- MODULE MetaCowProofs --------------------------
(***************************************************************************)
(* Proofs about module MetaCow, for every set of special files, every size *)
(* of chunk and of volume, and any number of commits.                      *)
(***************************************************************************)
EXTENDS MetaCow, FiniteSetTheorems, TLAPS

(* Every block of a table's chunks lies in the metadata area. *)
Fits(t) == \A c \in Chunk : Has(t, c) => Region(c, t[c]) \subseteq Block

(* Only chunks with a content are dirty or being written. *)
PagesValid == /\ \A c \in dirty : mem[c] \in Val
              /\ \A e \in todo : mem[e[1]] \in Val

TypeInv == TypeOK /\ Fits(tab) /\ Fits(ctab) /\ PagesValid

--------------------------------------------------------------------------
(* A chunk has at least one block. *)
LEMMA NrPositive == \A f : Nr(f) \in Nat \ {0}
  BY CowConstants DEF Nr

(* The area get_new_meta_iblock() returns is free, inside the bitmap and   *)
(* as long as the chunk.                                                   *)
LEMMA NewIblockFree ==
  ASSUME NEW c, NEW bm, NEW sz \in 0 .. MaxTbc, NEW h, NEW p \in Block,
         IsNewIblock(c, bm, sz, h, p)
  PROVE  /\ Region(c, p) \subseteq Block
         /\ Region(c, p) \cap bm = {}
         /\ p \in Region(c, p)
         /\ p + Nr(c[1]) \in 0 .. MaxTbc
<1>1. IsZeroArea(bm, sz, p, Nr(c[1]))
  BY DEF IsNewIblock
<1>2. Nr(c[1]) \in Nat \ {0} /\ MaxTbc \in Nat
  BY NrPositive, CowConstants
<1>3. p \in Nat /\ p + Nr(c[1]) <= sz /\ (p .. (p + Nr(c[1]) - 1)) \cap bm = {}
  BY <1>1 DEF IsZeroArea, Block
<1>4. QED
  BY <1>2, <1>3 DEF Region, Block

(* The blocks of a table, one by one. *)
LEMMA UsedMember ==
  ASSUME NEW t, NEW b
  PROVE  b \in Used(t) <=> \E c \in Chunk : Has(t, c) /\ b \in Region(c, t[c])
  BY DEF Used

(* The blocks of a table that fits are blocks. *)
LEMMA UsedBlocks ==
  ASSUME NEW t, Fits(t)
  PROVE  Used(t) \subseteq Block
  BY UsedMember DEF Fits

(* The size after expand_special_file() is a size. *)
LEMMA SizeForSize ==
  ASSUME NEW c, size \in 0 .. MaxTbc, SizeFor(c) <= MaxTbc
  PROVE  SizeFor(c) \in 0 .. MaxTbc
  BY CowConstants DEF SizeFor

--------------------------------------------------------------------------
(* mkfs leaves a typed volume. *)
LEMMA InitType == Init => TypeInv
<1> SUFFICES ASSUME Init PROVE TypeInv
  OBVIOUS
<1> USE DEF Init
<1>1. Fits(tab)
  BY DEF Fits, Has, NoTable
<1>2. Fits(ctab)
  <2> SUFFICES ASSUME NEW c \in Chunk, Has(MkfsTab, c)
               PROVE  Region(c, MkfsTab[c]) \subseteq Block
    BY DEF Fits
  <2>1. MkfsTab[c] \in Block /\ IsZeroArea({}, MkfsTbc, MkfsTab[c], Nr(c[1]))
    BY CowConstants DEF IsMkfsTable, Has
  <2>2. Nr(c[1]) \in Nat \ {0} /\ MaxTbc \in Nat /\ MkfsTbc \in Nat /\ MkfsTbc <= MaxTbc
    BY NrPositive, CowConstants
  <2> QED
    BY <2>1, <2>2 DEF IsZeroArea, Region, Block
<1>3. MkfsBlk \in [Block -> Content]
  <2> SUFFICES ASSUME NEW b \in Block, b \in Used(MkfsTab)
               PROVE  (CHOOSE c \in Chunk : Has(MkfsTab, c) /\ b \in Region(c, MkfsTab[c])) \in Chunk
    BY CowConstants DEF MkfsBlk, Content
  <2>1. \E c \in Chunk : Has(MkfsTab, c) /\ b \in Region(c, MkfsTab[c])
    BY UsedMember
  <2> QED
    BY <2>1
<1>4. pend \in BOOLEAN
  BY Zenon
<1>5. ctab \in [Chunk -> Block \cup {NoBlk}] /\ csize \in 0 .. MaxTbc
  BY CowConstants DEF IsMkfsTable
<1>6. /\ tab \in [Chunk -> Block \cup {NoBlk}]
      /\ mem \in [Chunk -> Val \cup {NoVal, Junk}]
      /\ hint \in [{"btree", "bitmaps"} -> 0 .. MaxTbc]
  BY CowConstants DEF NoTable, NoMem, NoHint
<1>7. TypeOK
  BY <1>3, <1>4, <1>5, <1>6, CowConstants DEF TypeOK
<1> QED
  BY <1>1, <1>2, <1>7 DEF TypeInv, PagesValid

(* What a mount reads is a value, junk or nothing. *)
LEMMA ReadBackType ==
  ASSUME NEW t, NEW c, NEW disk
  PROVE  ReadBack(t, c, disk) \in Val \cup {NoVal, Junk}
  BY DEF ReadBack

(* A chunk put in a place get_new_meta_iblock() found. *)
LEMMA TakeType ==
  ASSUME TypeInv, NEW c \in Chunk, NEW p \in Block, NEW sz \in 0 .. MaxTbc, NEW v \in Val,
         IsNewIblock(c, snap, sz, hint[HintOf(c)], p), Take(c, p), SetPages(c, v),
         tab' = [tab EXCEPT ![c] = p], todo' = todo
  PROVE  /\ tab' \in [Chunk -> Block \cup {NoBlk}] /\ Fits(tab')
         /\ snap' \subseteq Block /\ moved' \subseteq Block
         /\ hint' \in [{"btree", "bitmaps"} -> 0 .. MaxTbc]
         /\ mem' \in [Chunk -> Val \cup {NoVal, Junk}]
         /\ dirty' \subseteq Chunk
         /\ PagesValid'
         /\ ret' \in {"none", "ok", "err"}
<1>1. /\ Region(c, p) \subseteq Block
      /\ p + Nr(c[1]) \in 0 .. MaxTbc
  BY NewIblockFree
<1>2. tab' \in [Chunk -> Block \cup {NoBlk}] /\ tab'[c] = p
  BY DEF TypeInv, TypeOK
<1>3. Fits(tab')
  BY <1>1 DEF TypeInv, TypeOK, Fits, Has
<1>4. hint' \in [{"btree", "bitmaps"} -> 0 .. MaxTbc]
  BY <1>1 DEF TypeInv, TypeOK, Take, HintOf
<1>5. snap' \subseteq Block /\ moved' \subseteq Block
  BY <1>1 DEF TypeInv, TypeOK, Take
<1>6. /\ mem' \in [Chunk -> Val \cup {NoVal, Junk}]
      /\ dirty' \subseteq Chunk /\ ret' \in {"none", "ok", "err"}
  BY DEF TypeInv, TypeOK, SetPages
<1>7. \A d \in Chunk : mem'[d] = IF d = c THEN v ELSE mem[d]
  BY DEF TypeInv, TypeOK, SetPages
<1>8. PagesValid'
  BY <1>7 DEF TypeInv, TypeOK, PagesValid, SetPages
<1> QED
  BY <1>2, <1>3, <1>4, <1>5, <1>6, <1>8

(* Every step keeps the type invariant. *)
LEMMA NextType == TypeInv /\ [Next]_vars => TypeInv'
<1> SUFFICES ASSUME TypeInv, [Next]_vars PROVE TypeInv'
  OBVIOUS
<1> USE DEF volume, memory
<1>1. CASE Mount
  <2>1. mem' \in [Chunk -> Val \cup {NoVal, Junk}]
    BY <1>1, ReadBackType DEF Mount
  <2>2. snap' \subseteq Block /\ next' \subseteq Block
    BY <1>1, UsedBlocks DEF Mount, TypeInv
  <2>3. hint' \in [{"btree", "bitmaps"} -> 0 .. MaxTbc]
    BY <1>1, CowConstants DEF Mount, NoHint
  <2>4. pend' \in BOOLEAN
    BY <1>1, Zenon DEF Mount
  <2>5. tab' = ctab /\ ctab' = ctab
    BY <1>1 DEF Mount
  <2>6. Fits(tab') /\ Fits(ctab')
    BY <2>5 DEF TypeInv
  <2>7. TypeOK'
    BY <1>1, <2>1, <2>2, <2>3, <2>4 DEF Mount, TypeInv, TypeOK
  <2> QED
    BY <1>1, <2>6, <2>7 DEF Mount, TypeInv, PagesValid
<1>2. ASSUME NEW c \in Chunk, NEW v \in Val, ChangeInPlace(c, v)
      PROVE  TypeInv'
  <2>1. \A d \in Chunk : mem'[d] = IF d = c THEN v ELSE mem[d]
    BY <1>2 DEF ChangeInPlace, SetPages, TypeInv, TypeOK
  <2>2. PagesValid'
    BY <1>2, <2>1 DEF ChangeInPlace, SetPages, TypeInv, TypeOK, PagesValid
  <2>3. TypeOK'
    BY <1>2 DEF ChangeInPlace, SetPages, TypeInv, TypeOK
  <2>4. tab' = tab /\ ctab' = ctab
    BY <1>2 DEF ChangeInPlace
  <2> QED
    BY <2>2, <2>3, <2>4 DEF TypeInv
<1>3. ASSUME NEW c \in Chunk, NEW v \in Val, ChangeAndMove(c, v)
      PROVE  TypeInv'
  <2>1. PICK p \in Block :
           /\ IsNewIblock(c, snap, size, hint[HintOf(c)], p)
           /\ Take(c, p)
           /\ next' = (next \cup Region(c, p)) \ Region(c, tab[c])
           /\ tab' = [tab EXCEPT ![c] = p]
    BY <1>3 DEF ChangeAndMove
  <2>2. SetPages(c, v) /\ todo' = todo /\ size \in 0 .. MaxTbc
    BY <1>3 DEF ChangeAndMove, TypeInv, TypeOK
  <2>3. /\ tab' \in [Chunk -> Block \cup {NoBlk}] /\ Fits(tab')
        /\ snap' \subseteq Block /\ moved' \subseteq Block
        /\ hint' \in [{"btree", "bitmaps"} -> 0 .. MaxTbc]
        /\ mem' \in [Chunk -> Val \cup {NoVal, Junk}]
        /\ dirty' \subseteq Chunk
        /\ PagesValid'
        /\ ret' \in {"none", "ok", "err"}
    BY <2>1, <2>2, TakeType
  <2>4. next' \subseteq Block
    BY <2>1, <2>2, NewIblockFree DEF TypeInv, TypeOK
  <2>5. pend' \in BOOLEAN
    BY <1>3, Zenon DEF ChangeAndMove
  <2>6. TypeOK'
    BY <1>3, <2>3, <2>4, <2>5 DEF ChangeAndMove, TypeInv, TypeOK
  <2>7. ctab' = ctab
    BY <1>3 DEF ChangeAndMove
  <2> QED
    BY <2>3, <2>6, <2>7 DEF TypeInv
<1>4. ASSUME NEW c \in Chunk, NEW v \in Val, Expand(c, v)
      PROVE  TypeInv'
  <2>1. PICK p \in Block :
           /\ IsNewIblock(c, snap, SizeFor(c), hint[HintOf(c)], p)
           /\ Take(c, p)
           /\ next' = next \cup Region(c, p)
           /\ tab' = [tab EXCEPT ![c] = p]
    BY <1>4 DEF Expand
  <2>2. SetPages(c, v) /\ todo' = todo /\ SizeFor(c) \in 0 .. MaxTbc
    BY <1>4, SizeForSize DEF Expand, TypeInv, TypeOK
  <2>3. /\ tab' \in [Chunk -> Block \cup {NoBlk}] /\ Fits(tab')
        /\ snap' \subseteq Block /\ moved' \subseteq Block
        /\ hint' \in [{"btree", "bitmaps"} -> 0 .. MaxTbc]
        /\ mem' \in [Chunk -> Val \cup {NoVal, Junk}]
        /\ dirty' \subseteq Chunk
        /\ PagesValid'
        /\ ret' \in {"none", "ok", "err"}
    BY <2>1, <2>2, TakeType
  <2>4. next' \subseteq Block
    BY <2>1, <2>2, NewIblockFree DEF TypeInv, TypeOK
  <2>5. pend' \in BOOLEAN
    BY <1>4, Zenon DEF Expand
  <2>6. TypeOK'
    BY <1>4, <2>2, <2>3, <2>4, <2>5 DEF Expand, TypeInv, TypeOK
  <2>7. ctab' = ctab
    BY <1>4 DEF Expand
  <2> QED
    BY <2>3, <2>6, <2>7 DEF TypeInv
<1>5. CASE SyncNothing
  BY <1>5 DEF SyncNothing, TypeInv, TypeOK, Fits, PagesValid
<1>6. CASE CommitBegin
  <2>1. syncs' \in 0 .. MaxSync
    BY <1>6, CowConstants DEF CommitBegin, TypeInv, TypeOK
  <2>2. todo' \subseteq dirty \X Block
    BY <1>6 DEF CommitBegin
  <2>3. TypeOK'
    BY <1>6, <2>1, <2>2 DEF CommitBegin, TypeInv, TypeOK
  <2>4. PagesValid'
    BY <1>6, <2>2 DEF CommitBegin, TypeInv, PagesValid
  <2>5. tab' = tab /\ ctab' = ctab
    BY <1>6 DEF CommitBegin
  <2> QED
    BY <2>3, <2>4, <2>5 DEF TypeInv
<1>7. ASSUME NEW c \in Chunk, NEW b \in Block, WritePage(c, b)
      PROVE  TypeInv'
  <2>1. mem[c] \in Val
    BY <1>7 DEF WritePage, TypeInv, PagesValid
  <2>2. blk' \in [Block -> Content]
    BY <1>7, <2>1 DEF WritePage, TypeInv, TypeOK, Content
  <2>3. TypeOK'
    BY <1>7, <2>2 DEF WritePage, TypeInv, TypeOK
  <2>4. PagesValid'
    BY <1>7 DEF WritePage, TypeInv, PagesValid
  <2>5. tab' = tab /\ ctab' = ctab
    BY <1>7 DEF WritePage
  <2> QED
    BY <2>3, <2>4, <2>5 DEF TypeInv
<1>8. ASSUME NEW later \in SUBSET Chunk, SignFails(later)
      PROVE  TypeInv'
  <2>1. failed' \subseteq {"sign", "table"}
    BY <1>8 DEF SignFails, TypeInv, TypeOK
  <2>2. TypeOK'
    BY <1>8, <2>1 DEF SignFails, TypeInv, TypeOK
  <2>3. PagesValid'
    BY <1>8 DEF SignFails, TypeInv, PagesValid
  <2>4. tab' = tab /\ ctab' = ctab
    BY <1>8 DEF SignFails
  <2> QED
    BY <2>2, <2>3, <2>4 DEF TypeInv
<1>9. CASE MetaAbort
  BY <1>9 DEF MetaAbort, TypeInv, TypeOK, Fits, PagesValid
<1>10. CASE UpdateBitmaps
  BY <1>10 DEF UpdateBitmaps, TypeInv, TypeOK, Fits, PagesValid
<1>11. CASE UpdateTables
  <2>1. pend' \in BOOLEAN
    BY <1>11, Zenon DEF UpdateTables
  <2> QED
    BY <1>11, <2>1 DEF UpdateTables, TypeInv, TypeOK, Fits, PagesValid
<1>12. CASE UpdateTablesFails
  <2>1. pend' \in BOOLEAN
    BY <1>12, Zenon DEF UpdateTablesFails
  <2>2. failed' \subseteq {"sign", "table"}
    BY <1>12 DEF UpdateTablesFails, TypeInv, TypeOK
  <2> QED
    BY <1>12, <2>1, <2>2 DEF UpdateTablesFails, TypeInv, TypeOK, Fits, PagesValid
<1>13. CASE PowerOff
  <2>1. pend' \in BOOLEAN
    BY <1>13, Zenon DEF PowerOff, Forget
  <2>2. /\ tab' \in [Chunk -> Block \cup {NoBlk}] /\ Fits(tab')
        /\ mem' \in [Chunk -> Val \cup {NoVal, Junk}]
        /\ hint' \in [{"btree", "bitmaps"} -> 0 .. MaxTbc]
    BY <1>13, CowConstants DEF PowerOff, Forget, NoTable, NoMem, NoHint, Fits, Has
  <2>3. TypeOK'
    BY <1>13, <2>1, <2>2, CowConstants DEF PowerOff, Forget, TypeInv, TypeOK
  <2>4. ctab' = ctab /\ PagesValid'
    BY <1>13 DEF PowerOff, Forget, PagesValid
  <2> QED
    BY <2>2, <2>3, <2>4 DEF TypeInv
<1>14. CASE UNCHANGED vars
  BY <1>14 DEF vars, TypeInv, TypeOK, Fits, PagesValid
<1>15. ASSUME NEW c \in Chunk, NEW b \in Block, SignUnseen(c, b)
      PROVE  TypeInv'
  <2>1. /\ blk' \in [Block -> Content]
        /\ failed' \subseteq {"sign", "table"}
    BY <1>15 DEF SignUnseen, TypeInv, TypeOK, Content
  <2>2. TypeOK'
    BY <1>15, <2>1 DEF SignUnseen, TypeInv, TypeOK
  <2>3. PagesValid'
    BY <1>15 DEF SignUnseen, TypeInv, PagesValid
  <2>4. tab' = tab /\ ctab' = ctab
    BY <1>15 DEF SignUnseen
  <2> QED
    BY <2>2, <2>3, <2>4 DEF TypeInv
<1> QED
  BY <1>1, <1>2, <1>3, <1>4, <1>5, <1>6, <1>7, <1>8, <1>9, <1>10, <1>11, <1>12,
     <1>13, <1>14, <1>15 DEF Next

(* The state of the snapshot manager keeps its shape: page writes only put *)
(* real contents on blocks of the metadata area, allocation stays inside   *)
(* the bitmaps.                                                            *)
THEOREM TypeCorrect == Spec => []TypeOK
<1>1. TypeInv => TypeOK
  BY DEF TypeInv
<1> QED
  BY InitType, NextType, <1>1, PTL DEF Spec

--------------------------------------------------------------------------
(* next_snapshot_bitmap never leaves the blocks that may not be allocated. *)
SharedInv == NoSharedChunk /\ next \subseteq snap

(* A chunk that moves to a free place (or is inserted there, old = {})     *)
(* leaves table and next_snapshot_bitmap in agreement.                     *)
LEMMA MoveKeepsUsed ==
  ASSUME TypeInv, SharedInv, NEW c \in Chunk, NEW p \in Block, NEW old,
         Region(c, p) \cap snap = {},
         tab' = [tab EXCEPT ![c] = p],
         old = IF Has(tab, c) THEN Region(c, tab[c]) ELSE {},
         next' = (next \cup Region(c, p)) \ old
  PROVE  Disjoint(tab') /\ next' = Used(tab')
<1>1. \A d \in Chunk : tab'[d] = IF d = c THEN p ELSE tab[d]
  BY DEF TypeInv, TypeOK
<1>2. p # NoBlk
  BY CowConstants DEF Block
<1>3. \A d \in Chunk : Has(tab', d) <=> (d = c \/ Has(tab, d))
  BY <1>1, <1>2 DEF Has
<1>4. \A d \in Chunk : Has(tab, d) => Region(d, tab[d]) \subseteq snap
  BY UsedMember DEF SharedInv, NoSharedChunk
<1>5. Disjoint(tab')
  <2> SUFFICES ASSUME NEW d \in Chunk, NEW e \in Chunk, Has(tab', d), Has(tab', e), d # e
               PROVE  Region(d, tab'[d]) \cap Region(e, tab'[e]) = {}
    BY DEF Disjoint
  <2>1. CASE d = c
    BY <1>1, <1>3, <1>4, <2>1
  <2>2. CASE e = c
    BY <1>1, <1>3, <1>4, <2>2
  <2>3. CASE d # c /\ e # c
    BY <1>1, <1>3, <2>3 DEF SharedInv, NoSharedChunk, Disjoint
  <2> QED
    BY <2>1, <2>2, <2>3
<1>6. \A b : b \in Used(tab') <=> b \in (next \cup Region(c, p)) \ old
  <2> SUFFICES ASSUME NEW b PROVE b \in Used(tab') <=> b \in (next \cup Region(c, p)) \ old
    OBVIOUS
  <2>1. b \in Used(tab') <=> \E d \in Chunk : Has(tab', d) /\ b \in Region(d, tab'[d])
    BY UsedMember
  <2>2. b \in next <=> \E d \in Chunk : Has(tab, d) /\ b \in Region(d, tab[d])
    BY UsedMember DEF SharedInv, NoSharedChunk
  <2>3. b \in Region(c, p) => b \notin old
    BY <1>4
  <2>4. \A d \in Chunk : d # c /\ Has(tab, d) /\ b \in Region(d, tab[d]) => b \notin old
    BY DEF SharedInv, NoSharedChunk, Disjoint
  <2> QED
    BY <1>1, <1>3, <2>1, <2>2, <2>3, <2>4
<1> QED
  BY <1>5, <1>6

(* mkfs lays the chunks out side by side. *)
LEMMA InitShared == Init => SharedInv
<1> SUFFICES ASSUME Init PROVE SharedInv
  OBVIOUS
<1>1. Disjoint(tab)
  BY DEF Init, Disjoint, NoTable, Has
<1>2. Disjoint(ctab)
  BY CowConstants DEF Init, Disjoint, IsMkfsTable
<1>3. Used(tab) = {}
  BY DEF Init, Used, NoTable, Has
<1> QED
  BY <1>1, <1>2, <1>3 DEF Init, SharedInv, NoSharedChunk

(* Every step keeps table and bitmaps in agreement. *)
LEMMA NextShared == TypeInv /\ SharedInv /\ [Next]_vars => SharedInv'
<1> SUFFICES ASSUME TypeInv, SharedInv, [Next]_vars PROVE SharedInv'
  OBVIOUS
<1> USE DEF volume, memory
<1>1. CASE Mount
  BY <1>1 DEF Mount, SharedInv, NoSharedChunk
<1>2. ASSUME NEW c \in Chunk, NEW v \in Val, ChangeInPlace(c, v)
      PROVE  SharedInv'
  BY <1>2 DEF ChangeInPlace, SharedInv, NoSharedChunk
<1>3. ASSUME NEW c \in Chunk, NEW v \in Val, ChangeAndMove(c, v)
      PROVE  SharedInv'
  <2>1. PICK p \in Block :
           /\ IsNewIblock(c, snap, size, hint[HintOf(c)], p)
           /\ Take(c, p)
           /\ next' = (next \cup Region(c, p)) \ Region(c, tab[c])
           /\ tab' = [tab EXCEPT ![c] = p]
    BY <1>3 DEF ChangeAndMove
  <2>2. Region(c, p) \cap snap = {}
    BY <2>1, NewIblockFree DEF TypeInv, TypeOK
  <2>3. Disjoint(tab') /\ next' = Used(tab')
    BY <1>3, <2>1, <2>2, MoveKeepsUsed DEF ChangeAndMove
  <2>4. ctab' = ctab /\ next' \subseteq snap'
    BY <1>3, <2>1 DEF ChangeAndMove, Take, SharedInv
  <2> QED
    BY <2>3, <2>4 DEF SharedInv, NoSharedChunk
<1>4. ASSUME NEW c \in Chunk, NEW v \in Val, Expand(c, v)
      PROVE  SharedInv'
  <2>1. PICK p \in Block :
           /\ IsNewIblock(c, snap, SizeFor(c), hint[HintOf(c)], p)
           /\ Take(c, p)
           /\ next' = next \cup Region(c, p)
           /\ tab' = [tab EXCEPT ![c] = p]
    BY <1>4 DEF Expand
  <2>2. SizeFor(c) \in 0 .. MaxTbc
    BY <1>4, SizeForSize DEF Expand, TypeInv, TypeOK
  <2>3. Region(c, p) \cap snap = {}
    BY <2>1, <2>2, NewIblockFree
  <2>4. next' = (next \cup Region(c, p)) \ {} /\ ~Has(tab, c)
    BY <1>4, <2>1 DEF Expand, IsNextChunk
  <2>5. Disjoint(tab') /\ next' = Used(tab')
    BY <2>1, <2>3, <2>4, MoveKeepsUsed
  <2>6. ctab' = ctab /\ next' \subseteq snap'
    BY <1>4, <2>1 DEF Expand, Take, SharedInv
  <2> QED
    BY <2>5, <2>6 DEF SharedInv, NoSharedChunk
<1>5. CASE SyncNothing
  BY <1>5 DEF SyncNothing, SharedInv, NoSharedChunk
<1>6. CASE CommitBegin
  BY <1>6 DEF CommitBegin, SharedInv, NoSharedChunk
<1>7. ASSUME NEW c \in Chunk, NEW b \in Block, WritePage(c, b)
      PROVE  SharedInv'
  BY <1>7 DEF WritePage, SharedInv, NoSharedChunk
<1>8. ASSUME NEW later \in SUBSET Chunk, SignFails(later)
      PROVE  SharedInv'
  BY <1>8 DEF SignFails, SharedInv, NoSharedChunk
<1>9. CASE MetaAbort
  BY <1>9 DEF MetaAbort, SharedInv, NoSharedChunk
<1>10. CASE UpdateBitmaps
  BY <1>10 DEF UpdateBitmaps, SharedInv, NoSharedChunk
<1>11. CASE UpdateTables
  BY <1>11 DEF UpdateTables, SharedInv, NoSharedChunk
<1>12. CASE UpdateTablesFails
  BY <1>12 DEF UpdateTablesFails, SharedInv, NoSharedChunk
<1>13. CASE PowerOff
  <2>1. Disjoint(tab') /\ Used(tab') = {}
    BY <1>13 DEF PowerOff, Forget, Disjoint, Used, NoTable, Has
  <2> QED
    BY <1>13, <2>1 DEF PowerOff, Forget, SharedInv, NoSharedChunk
<1>14. CASE UNCHANGED vars
  BY <1>14 DEF vars, SharedInv, NoSharedChunk
<1>15. ASSUME NEW c \in Chunk, NEW b \in Block, SignUnseen(c, b)
      PROVE  SharedInv'
  BY <1>15 DEF SignUnseen, SharedInv, NoSharedChunk
<1> QED
  BY <1>1, <1>2, <1>3, <1>4, <1>5, <1>6, <1>7, <1>8, <1>9, <1>10, <1>11, <1>12,
     <1>13, <1>14, <1>15 DEF Next

(* Whatever fails, table and bitmaps agree and no two chunks share a       *)
(* block: move_iblock(), insert_new_iblocks() and vdfs2_update_bitmaps()   *)
(* together.                                                               *)
THEOREM ChunksNeverShared == Spec => []NoSharedChunk
<1>1. TypeInv /\ SharedInv => NoSharedChunk
  BY DEF SharedInv
<1> QED
  BY InitType, NextType, InitShared, NextShared, <1>1, PTL DEF Spec

--------------------------------------------------------------------------
(* A chunk is dirty only in the place it moved to since the last commit,   *)
(* and a commit only writes there.                                         *)
MovedInv ==
  /\ pc # "meta" => todo = {}
  /\ pc # "idle" => dirty = {}
  /\ pc = "tables" => moved = {}
  /\ \A c \in dirty : Has(tab, c) /\ Region(c, tab[c]) \subseteq moved
  /\ \A e \in todo : /\ Has(tab, e[1]) /\ e[2] \in moved
                     /\ e[2] \in Region(e[1], tab[e[1]])
  /\ \A c \in Chunk : Has(tab, c) /\ tab[c] \in moved => Region(c, tab[c]) \subseteq moved

(* A chunk put in a free place keeps MovedInv. *)
LEMMA TakeKeepsMoved ==
  ASSUME TypeInv, SharedInv, MovedInv, NEW c \in Chunk, NEW p \in Block, NEW v,
         Region(c, p) \cap snap = {}, Take(c, p), SetPages(c, v),
         tab' = [tab EXCEPT ![c] = p], todo' = todo, pc = "idle", pc' = "idle"
  PROVE  MovedInv'
<1>1. \A d \in Chunk : tab'[d] = IF d = c THEN p ELSE tab[d]
  BY DEF TypeInv, TypeOK
<1>2. p # NoBlk
  BY CowConstants DEF Block
<1>3. moved' = moved \cup Region(c, p) /\ dirty' = dirty \cup {c}
  BY DEF Take, SetPages
<1>4. \A d \in Chunk : Has(tab, d) => Region(d, tab[d]) \subseteq snap
  BY UsedMember DEF SharedInv, NoSharedChunk
<1>5. \A d \in Chunk : Has(tab, d) => tab[d] \in Region(d, tab[d])
  <2> SUFFICES ASSUME NEW d \in Chunk, Has(tab, d) PROVE tab[d] \in Region(d, tab[d])
    OBVIOUS
  <2>1. tab[d] \in Int /\ Nr(d[1]) \in Nat \ {0}
    BY NrPositive, CowConstants DEF TypeInv, TypeOK, Has, Block
  <2> QED
    BY <2>1 DEF Region
<1>6. \A d \in dirty' : Has(tab', d) /\ Region(d, tab'[d]) \subseteq moved'
  BY <1>1, <1>2, <1>3 DEF MovedInv, Has, TypeInv, TypeOK
<1>7. \A d \in Chunk : Has(tab', d) /\ tab'[d] \in moved' => Region(d, tab'[d]) \subseteq moved'
  <2> SUFFICES ASSUME NEW d \in Chunk, Has(tab', d), tab'[d] \in moved'
               PROVE  Region(d, tab'[d]) \subseteq moved'
    OBVIOUS
  <2>1. CASE d = c
    BY <1>1, <1>3, <2>1
  <2>2. CASE d # c
    <3>1. Has(tab, d) /\ tab[d] = tab'[d]
      BY <1>1, <2>2 DEF Has
    <3>2. tab[d] \notin Region(c, p)
      BY <1>4, <1>5, <3>1
    <3>3. tab[d] \in moved
      BY <1>3, <3>1, <3>2
    <3> QED
      BY <1>3, <3>1, <3>3 DEF MovedInv
  <2> QED
    BY <2>1, <2>2
<1> QED
  BY <1>6, <1>7 DEF MovedInv

(* Nothing is dirty before the first mount. *)
LEMMA InitMoved == Init => MovedInv
  BY DEF Init, MovedInv, NoTable, Has

(* Every step keeps dirty chunks in blocks taken since the last commit. *)
LEMMA NextMoved == TypeInv /\ SharedInv /\ MovedInv /\ [Next]_vars => MovedInv'
<1> SUFFICES ASSUME TypeInv, SharedInv, MovedInv, [Next]_vars PROVE MovedInv'
  OBVIOUS
<1> USE DEF volume, memory
<1>1. CASE Mount
  BY <1>1 DEF Mount, MovedInv
<1>2. ASSUME NEW c \in Chunk, NEW v \in Val, ChangeInPlace(c, v)
      PROVE  MovedInv'
  BY <1>2 DEF ChangeInPlace, MustMove, SetPages, MovedInv
<1>3. ASSUME NEW c \in Chunk, NEW v \in Val, ChangeAndMove(c, v)
      PROVE  MovedInv'
  <2>1. PICK p \in Block :
           /\ IsNewIblock(c, snap, size, hint[HintOf(c)], p)
           /\ Take(c, p)
           /\ next' = (next \cup Region(c, p)) \ Region(c, tab[c])
           /\ tab' = [tab EXCEPT ![c] = p]
    BY <1>3 DEF ChangeAndMove
  <2>2. Region(c, p) \cap snap = {}
    BY <2>1, NewIblockFree DEF TypeInv, TypeOK
  <2> QED
    BY <1>3, <2>1, <2>2, TakeKeepsMoved DEF ChangeAndMove
<1>4. ASSUME NEW c \in Chunk, NEW v \in Val, Expand(c, v)
      PROVE  MovedInv'
  <2>1. PICK p \in Block :
           /\ IsNewIblock(c, snap, SizeFor(c), hint[HintOf(c)], p)
           /\ Take(c, p)
           /\ next' = next \cup Region(c, p)
           /\ tab' = [tab EXCEPT ![c] = p]
    BY <1>4 DEF Expand
  <2>2. SizeFor(c) \in 0 .. MaxTbc
    BY <1>4, SizeForSize DEF Expand, TypeInv, TypeOK
  <2>3. Region(c, p) \cap snap = {}
    BY <2>1, <2>2, NewIblockFree
  <2> QED
    BY <1>4, <2>1, <2>3, TakeKeepsMoved DEF Expand
<1>5. CASE SyncNothing
  BY <1>5 DEF SyncNothing, MovedInv
<1>6. CASE CommitBegin
  <2>1. \A e \in todo' : e[1] \in dirty /\ e[2] \in Region(e[1], tab[e[1]])
    BY <1>6 DEF CommitBegin
  <2> QED
    BY <1>6, <2>1 DEF CommitBegin, MovedInv
<1>7. ASSUME NEW c \in Chunk, NEW b \in Block, WritePage(c, b)
      PROVE  MovedInv'
  BY <1>7 DEF WritePage, MovedInv
<1>8. ASSUME NEW later \in SUBSET Chunk, SignFails(later)
      PROVE  MovedInv'
  <2>1. \A c \in later : Has(tab, c)
    BY <1>8 DEF SignFails, MovedInv
  <2>2. \A c \in later : \A b \in Region(c, tab[c]) : <<c, b>> \in todo
    BY <1>8 DEF SignFails
  <2>3. \A c \in later : Region(c, tab[c]) \subseteq moved
    BY <2>2 DEF MovedInv
  <2> QED
    BY <1>8, <2>1, <2>3 DEF SignFails, MovedInv
<1>9. CASE MetaAbort
  BY <1>9 DEF MetaAbort, MovedInv
<1>10. CASE UpdateBitmaps
  BY <1>10 DEF UpdateBitmaps, MovedInv
<1>11. CASE UpdateTables
  BY <1>11 DEF UpdateTables, MovedInv
<1>12. CASE UpdateTablesFails
  BY <1>12 DEF UpdateTablesFails, MovedInv
<1>13. CASE PowerOff
  BY <1>13 DEF PowerOff, Forget, MovedInv, NoTable, Has
<1>14. CASE UNCHANGED vars
  BY <1>14 DEF vars, MovedInv
<1>15. ASSUME NEW c \in Chunk, NEW b \in Block, SignUnseen(c, b)
      PROVE  MovedInv'
  BY <1>15 DEF SignUnseen, MovedInv
<1> QED
  BY <1>1, <1>2, <1>3, <1>4, <1>5, <1>6, <1>7, <1>8, <1>9, <1>10, <1>11, <1>12,
     <1>13, <1>14, <1>15 DEF Next

--------------------------------------------------------------------------
CowInv == TypeInv /\ SharedInv /\ MovedInv

(* The three invariants together are inductive. *)
LEMMA CowInductive == Spec => []CowInv
<1>1. Init => CowInv
  BY InitType, InitShared, InitMoved DEF CowInv
<1>2. CowInv /\ [Next]_vars => CowInv'
  BY NextType, NextShared, NextMoved DEF CowInv
<1> QED
  BY <1>1, <1>2, PTL DEF Spec

(* Reserving a free place never touches what the volume holds. *)
LEMMA TakeKeepsProtected ==
  ASSUME CowInv, CommittedReserved, NEW c \in Chunk, NEW p \in Block,
         Region(c, p) \cap snap = {}, Take(c, p), ctab' = ctab, pc = "idle",
         SharedInv'
  PROVE  CommittedReserved'
<1>1. snap' = snap \cup Region(c, p) /\ moved' = moved \cup Region(c, p)
  BY DEF Take
<1>2. Used(ctab) \subseteq snap /\ moved \cap Used(ctab) = {}
  BY DEF CommittedReserved
<1>3. Used(tab') \subseteq snap'
  BY DEF SharedInv, NoSharedChunk
<1> QED
  BY <1>1, <1>2, <1>3 DEF CommittedReserved

(* Every step keeps the committed snapshot out of reach of the allocator,  *)
(* or is a table write that fails.                                         *)
LEMMA NextProtected ==
  CowInv /\ CowInv' /\ CommittedProtected /\ [Next]_vars => CommittedProtected'
<1> SUFFICES ASSUME CowInv, CowInv', CommittedProtected, [Next]_vars,
                    "table" \notin failed'
             PROVE  CommittedReserved'
  BY DEF CommittedProtected
<1> USE DEF volume, memory
<1>0. SharedInv' /\ SharedInv /\ MovedInv
  BY DEF CowInv
<1>1. CASE Mount
  BY <1>1 DEF Mount, CommittedProtected, CommittedReserved
<1>2. ASSUME NEW c \in Chunk, NEW v \in Val, ChangeInPlace(c, v)
      PROVE  CommittedReserved'
  BY <1>2 DEF ChangeInPlace, CommittedProtected, CommittedReserved
<1>3. ASSUME NEW c \in Chunk, NEW v \in Val, ChangeAndMove(c, v)
      PROVE  CommittedReserved'
  <2>1. PICK p \in Block : IsNewIblock(c, snap, size, hint[HintOf(c)], p) /\ Take(c, p)
    BY <1>3 DEF ChangeAndMove
  <2>2. Region(c, p) \cap snap = {}
    BY <2>1, NewIblockFree DEF CowInv, TypeInv, TypeOK
  <2> QED
    BY <1>0, <1>3, <2>1, <2>2, TakeKeepsProtected
       DEF ChangeAndMove, CommittedProtected
<1>4. ASSUME NEW c \in Chunk, NEW v \in Val, Expand(c, v)
      PROVE  CommittedReserved'
  <2>1. PICK p \in Block : IsNewIblock(c, snap, SizeFor(c), hint[HintOf(c)], p) /\ Take(c, p)
    BY <1>4 DEF Expand
  <2>2. SizeFor(c) \in 0 .. MaxTbc
    BY <1>4, SizeForSize DEF Expand, CowInv, TypeInv, TypeOK
  <2>3. Region(c, p) \cap snap = {}
    BY <2>1, <2>2, NewIblockFree
  <2> QED
    BY <1>0, <1>4, <2>1, <2>3, TakeKeepsProtected
       DEF Expand, CommittedProtected
<1>5. CASE SyncNothing
  BY <1>5 DEF SyncNothing, CommittedProtected, CommittedReserved
<1>6. CASE CommitBegin
  BY <1>6 DEF CommitBegin, CommittedProtected, CommittedReserved
<1>7. ASSUME NEW c \in Chunk, NEW b \in Block, WritePage(c, b)
      PROVE  CommittedReserved'
  BY <1>7 DEF WritePage, CommittedProtected, CommittedReserved
<1>8. ASSUME NEW later \in SUBSET Chunk, SignFails(later)
      PROVE  CommittedReserved'
  BY <1>8 DEF SignFails, CommittedProtected, CommittedReserved
<1>9. CASE MetaAbort
  BY <1>9 DEF MetaAbort, CommittedProtected, CommittedReserved
<1>10. CASE UpdateBitmaps
  BY <1>10 DEF UpdateBitmaps, CommittedProtected, CommittedReserved
<1>11. CASE UpdateTables
  BY <1>0, <1>11 DEF UpdateTables, CommittedProtected, CommittedReserved, SharedInv, NoSharedChunk, MovedInv
<1>12. CASE UpdateTablesFails
  BY <1>12 DEF UpdateTablesFails
<1>13. CASE PowerOff
  BY <1>13 DEF PowerOff, CommittedProtected, CommittedReserved
<1>14. CASE UNCHANGED vars
  BY <1>14 DEF vars, CommittedProtected, CommittedReserved
<1>15. ASSUME NEW c \in Chunk, NEW b \in Block, SignUnseen(c, b)
      PROVE  CommittedReserved'
  BY <1>15 DEF SignUnseen, CommittedProtected, CommittedReserved
<1> QED
  BY <1>1, <1>2, <1>3, <1>4, <1>5, <1>6, <1>7, <1>8, <1>9, <1>10, <1>11, <1>12,
     <1>13, <1>14, <1>15 DEF Next

(* Unless the last table write of the mount failed, snapshot_bitmap covers *)
(* the snapshot on the volume and the one being built whenever             *)
(* get_new_meta_iblock() may run; commits given up before their table      *)
(* write do no harm.                                                       *)
THEOREM SnapshotProtected == Spec => []CommittedProtected
<1>1. Init => CommittedProtected
  BY DEF Init, CommittedProtected, CommittedReserved
<1> QED
  BY <1>1, CowInductive, NextProtected, PTL DEF Spec

(* No step changes a committed block. *)
LEMMA CommittedBlocksKept ==
  ASSUME CowInv, CommittedReserved, Next, NEW b \in Used(ctab)
  PROVE  blk'[b] = blk[b]
<1> USE DEF volume
<1>1. CASE \E c \in Chunk, a \in Block : WritePage(c, a) \/ SignUnseen(c, a)
  <2>1. PICK c \in Chunk, a \in Block : WritePage(c, a) \/ SignUnseen(c, a)
    BY <1>1
  <2>2. a \in moved /\ pc = "meta"
    BY <2>1 DEF WritePage, SignUnseen, CowInv, MovedInv
  <2>3. a # b
    BY <2>2 DEF CommittedReserved
  <2>4. \E x : blk' = [blk EXCEPT ![a] = x]
    BY <2>1 DEF WritePage, SignUnseen
  <2> QED
    BY <2>3, <2>4 DEF CowInv, TypeInv, TypeOK
<1>2. CASE ~\E c \in Chunk, a \in Block : WritePage(c, a) \/ SignUnseen(c, a)
  BY <1>2 DEF Next, Mount, ChangeInPlace, ChangeAndMove, Expand, SyncNothing, CommitBegin,
              SignFails, MetaAbort, UpdateBitmaps, UpdateTables, UpdateTablesFails, PowerOff
<1> QED
  BY <1>1, <1>2

(* Unless the last table write of the mount failed, no page write of any   *)
(* commit lands on a block of the snapshot a power failure falls back to.  *)
THEOREM SnapshotNeverOverwritten == Spec => CommittedNeverOverwritten
<1>1. CowInv /\ CommittedProtected /\ [Next]_vars
        => [\A b \in Used(ctab) : "table" \notin failed => blk'[b] = blk[b]]_vars
  BY CommittedBlocksKept DEF CommittedProtected
<1> QED
  BY <1>1, CowInductive, SnapshotProtected, PTL DEF Spec, CommittedNeverOverwritten

--------------------------------------------------------------------------
(* Chunk c is complete on the volume, with content v. *)
Holds(t, c, v) == \A b \in Region(c, t[c]) : blk[b] = <<c, v>>

(* What is clean in memory is on the volume, what is committed is          *)
(* readable, and dirty_pages_count tells when memory and volume differ.    *)
DurableInv ==
  /\ pc # "off" => \A c \in Chunk :
       /\ Has(tab, c) => mem[c] \in Val
       /\ ~Has(tab, c) => mem[c] = NoVal
       /\ Has(tab, c) /\ c \notin dirty
            => \A b \in Region(c, tab[c]) : <<c, b>> \notin todo => blk[b] = <<c, mem[c]>>
  /\ \A c \in Chunk : Has(ctab, c) => \E v \in Val : Holds(ctab, c, v)
  /\ ret = "ok" => ~pend /\ pc # "off"
  /\ pend = FALSE => dirty = {} /\ todo = {}
  /\ pend = FALSE /\ pc # "off" => tab = ctab

(* The first block of a chunk is one of its blocks. *)
LEMMA StartInRegion ==
  ASSUME NEW t \in [Chunk -> Block \cup {NoBlk}], NEW c \in Chunk, Has(t, c)
  PROVE  t[c] \in Region(c, t[c])
<1>1. t[c] \in Int /\ Nr(c[1]) \in Nat \ {0}
  BY NrPositive, CowConstants DEF Has, Block
<1> QED
  BY <1>1 DEF Region

(* vdfs2_meta_read() returns the content of a chunk that is complete. *)
LEMMA ReadBackHolds ==
  ASSUME NEW t \in [Chunk -> Block \cup {NoBlk}], NEW c \in Chunk, NEW v \in Val,
         Has(t, c), Holds(t, c, v)
  PROVE  ReadBack(t, c, blk) = v
<1>1. \E w \in Val : \A b \in Region(c, t[c]) : blk[b] = <<c, w>>
  BY DEF Holds
<1> DEFINE w == CHOOSE w \in Val : \A b \in Region(c, t[c]) : blk[b] = <<c, w>>
<1>2. w \in Val /\ \A b \in Region(c, t[c]) : blk[b] = <<c, w>>
  BY <1>1
<1>3. t[c] \in Region(c, t[c])
  BY StartInRegion
<1>4. blk[t[c]] = <<c, w>> /\ blk[t[c]] = <<c, v>>
  BY <1>2, <1>3 DEF Holds
<1>5. w = v
  BY <1>4
<1> QED
  BY <1>1, <1>5 DEF ReadBack

(* mkfs writes every chunk it lays out. *)
LEMMA InitDurable == Init => DurableInv
<1> SUFFICES ASSUME Init PROVE DurableInv
  OBVIOUS
<1>1. ASSUME NEW c \in Chunk, Has(ctab, c) PROVE Holds(ctab, c, MkfsVal)
  <2> SUFFICES ASSUME NEW b \in Region(c, MkfsTab[c]) PROVE MkfsBlk[b] = <<c, MkfsVal>>
    BY <1>1 DEF Holds, Init
  <2>1. Has(MkfsTab, c) /\ b \in Used(MkfsTab)
    BY <1>1, UsedMember DEF Init
  <2>2. b \in Block
    BY <2>1, InitType DEF Init, TypeInv, Fits
  <2>3. \A d \in Chunk : Has(MkfsTab, d) /\ b \in Region(d, MkfsTab[d]) => d = c
    BY <2>1, CowConstants DEF IsMkfsTable
  <2>4. (CHOOSE d \in Chunk : Has(MkfsTab, d) /\ b \in Region(d, MkfsTab[d])) = c
    BY <2>1, <2>3
  <2> QED
    BY <2>1, <2>2, <2>4 DEF MkfsBlk
<1>2. \A c \in Chunk : Has(ctab, c) => \E v \in Val : Holds(ctab, c, v)
  BY <1>1, CowConstants
<1> QED
  BY <1>2 DEF Init, DurableInv

(* A chunk put in a free place is dirty; the others are as they were. *)
LEMMA TakeKeepsDurable ==
  ASSUME CowInv, DurableInv, NEW c \in Chunk, NEW p \in Block, NEW v \in Val,
         SetPages(c, v), tab' = [tab EXCEPT ![c] = p], todo' = todo,
         pc = "idle", pc' = "idle", pend' = TRUE, blk' = blk, ctab' = ctab
  PROVE  DurableInv'
<1>1. \A d \in Chunk : tab'[d] = IF d = c THEN p ELSE tab[d]
  BY DEF CowInv, TypeInv, TypeOK
<1>2. \A d \in Chunk : mem'[d] = IF d = c THEN v ELSE mem[d]
  BY DEF CowInv, TypeInv, TypeOK, SetPages
<1>3. p # NoBlk
  BY CowConstants DEF Block
<1>4. dirty' = dirty \cup {c} /\ ret' = "none"
  BY DEF SetPages
<1>5. ASSUME NEW d \in Chunk
      PROVE  /\ Has(tab', d) => mem'[d] \in Val
             /\ ~Has(tab', d) => mem'[d] = NoVal
             /\ Has(tab', d) /\ d \notin dirty'
                  => \A b \in Region(d, tab'[d]) : <<d, b>> \notin todo' => blk'[b] = <<d, mem'[d]>>
  <2>1. CASE d = c
    BY <1>1, <1>2, <1>3, <1>4, <2>1 DEF Has
  <2>2. CASE d # c
    <3>1. tab'[d] = tab[d] /\ mem'[d] = mem[d] /\ (Has(tab', d) <=> Has(tab, d))
      BY <1>1, <1>2, <2>2 DEF Has
    <3> QED
      BY <1>4, <3>1 DEF DurableInv
  <2> QED
    BY <2>1, <2>2
<1>6. \A d \in Chunk : Has(ctab', d) => \E w \in Val : Holds(ctab, d, w)'
  BY DEF DurableInv, Holds
<1> QED
  BY <1>4, <1>5, <1>6 DEF DurableInv

(* Without memory shortage every step keeps DurableInv. *)
LEMMA NextDurable ==
  ASSUME Faults = {}
  PROVE  CowInv /\ CommittedReserved /\ DurableInv /\ [Next]_vars => DurableInv'
<1> SUFFICES ASSUME CowInv, CommittedReserved, DurableInv, [Next]_vars
             PROVE  DurableInv'
  OBVIOUS
<1> USE DEF volume, memory
<1>1. CASE Mount
  <2>1. /\ tab' = ctab /\ ctab' = ctab /\ blk' = blk /\ dirty' = {} /\ todo' = {}
        /\ ret' = "none"
    BY <1>1 DEF Mount
  <2>2. ASSUME NEW c \in Chunk
        PROVE  /\ Has(ctab, c) => mem'[c] \in Val /\ Holds(ctab, c, mem'[c])
               /\ ~Has(ctab, c) => mem'[c] = NoVal
    <3>1. mem'[c] = ReadBack(ctab, c, blk)
      BY <1>1 DEF Mount
    <3>2. CASE Has(ctab, c)
      <4>1. PICK v \in Val : Holds(ctab, c, v)
        BY <3>2 DEF DurableInv
      <4>2. mem'[c] = v
        BY <3>1, <3>2, <4>1, ReadBackHolds DEF CowInv, TypeInv, TypeOK
      <4> QED
        BY <3>2, <4>1, <4>2
    <3>3. CASE ~Has(ctab, c)
      BY <3>1, <3>3 DEF ReadBack
    <3> QED
      BY <3>2, <3>3
  <2>3. \A c \in Chunk : Has(ctab', c) => \E v \in Val : Holds(ctab, c, v)'
    BY <2>1 DEF DurableInv, Holds
  <2> QED
    BY <2>1, <2>2, <2>3 DEF DurableInv, Holds
<1>2. ASSUME NEW c \in Chunk, NEW v \in Val, ChangeInPlace(c, v)
      PROVE  DurableInv'
  <2>1. pend # FALSE
    <3>1. SUFFICES ASSUME pend = FALSE PROVE FALSE
      OBVIOUS
    <3>2. dirty = {} /\ tab = ctab /\ tab[c] \in moved /\ Has(ctab, c) /\ pc = "idle"
      BY <1>2, <3>1 DEF ChangeInPlace, MustMove, DurableInv
    <3>3. ctab[c] \in Region(c, ctab[c])
      BY <3>2, StartInRegion DEF CowInv, TypeInv, TypeOK
    <3>4. ctab[c] \in Used(ctab)
      BY <3>2, <3>3, UsedMember
    <3> QED
      BY <3>2, <3>4 DEF CommittedReserved
  <2>2. \A d \in Chunk : mem'[d] = IF d = c THEN v ELSE mem[d]
    BY <1>2 DEF ChangeInPlace, SetPages, CowInv, TypeInv, TypeOK
  <2>3. /\ tab' = tab /\ ctab' = ctab /\ blk' = blk /\ todo' = todo /\ pend' = pend
        /\ dirty' = dirty \cup {c} /\ ret' = "none" /\ Has(tab, c) /\ pc = "idle" /\ pc' = pc
    BY <1>2 DEF ChangeInPlace, SetPages
  <2>4. \A d \in Chunk : Has(ctab', d) => \E w \in Val : Holds(ctab, d, w)'
    BY <2>3 DEF DurableInv, Holds
  <2> QED
    BY <2>1, <2>2, <2>3, <2>4 DEF DurableInv
<1>3. ASSUME NEW c \in Chunk, NEW v \in Val, ChangeAndMove(c, v)
      PROVE  DurableInv'
  BY <1>3, TakeKeepsDurable DEF ChangeAndMove
<1>4. ASSUME NEW c \in Chunk, NEW v \in Val, Expand(c, v)
      PROVE  DurableInv'
  BY <1>4, TakeKeepsDurable DEF Expand
<1>5. CASE SyncNothing
  BY <1>5 DEF SyncNothing, DurableInv, Holds
<1>6. CASE CommitBegin
  <2>1. /\ tab' = tab /\ mem' = mem /\ ctab' = ctab /\ blk' = blk /\ pend' = pend /\ ret' = ret
        /\ dirty' = {} /\ todo = {} /\ pc = "idle" /\ pc' = "meta"
    BY <1>6 DEF CommitBegin, CowInv, MovedInv
  <2>2. pend # FALSE
    BY <1>6 DEF CommitBegin
  <2>3. \A c \in dirty : \A b \in Region(c, tab[c]) : <<c, b>> \in todo'
    <3> SUFFICES ASSUME NEW c \in dirty, NEW b \in Region(c, tab[c]) PROVE <<c, b>> \in todo'
      OBVIOUS
    <3>1. c \in Chunk /\ Has(tab, c) /\ b \in Block
      BY DEF CowInv, MovedInv, TypeInv, TypeOK, Fits
    <3> QED
      BY <1>6, <3>1 DEF CommitBegin
  <2>4. \A d \in Chunk : Has(ctab', d) => \E w \in Val : Holds(ctab, d, w)'
    BY <2>1 DEF DurableInv, Holds
  <2> QED
    BY <2>1, <2>2, <2>3, <2>4 DEF DurableInv
<1>7. ASSUME NEW c \in Chunk, NEW a \in Block, WritePage(c, a)
      PROVE  DurableInv'
  <2>1. /\ tab' = tab /\ mem' = mem /\ ctab' = ctab /\ pend' = pend /\ ret' = ret
        /\ dirty' = dirty /\ todo' = todo \ {<<c, a>>} /\ pc = "meta" /\ pc' = pc
    BY <1>7 DEF WritePage
  <2>2. /\ <<c, a>> \in todo /\ a \in moved /\ a \in Region(c, tab[c]) /\ Has(tab, c)
    BY <1>7 DEF WritePage, CowInv, MovedInv
  <2>3. \A b \in Block : blk'[b] = IF b = a THEN <<c, mem[c]>> ELSE blk[b]
    BY <1>7 DEF WritePage, CowInv, TypeInv, TypeOK
  <2>4. ASSUME NEW d \in Chunk, Has(tab, d), NEW b \in Region(d, tab[d]), <<d, b>> \notin todo'
        PROVE  blk'[b] = <<d, mem[d]>>
    <3>1. b \in Block
      BY <2>4 DEF CowInv, TypeInv, Fits
    <3>2. CASE b = a
      BY <2>2, <2>3, <2>4, <3>1, <3>2 DEF CowInv, SharedInv, NoSharedChunk, Disjoint
    <3>3. CASE b # a
      <4>1. <<d, b>> \notin todo /\ d \notin dirty
        BY <2>1, <2>4, <3>3 DEF CowInv, MovedInv
      <4> QED
        BY <2>1, <2>3, <2>4, <3>1, <3>3, <4>1 DEF DurableInv
    <3> QED
      BY <3>2, <3>3
  <2>5. ASSUME NEW d \in Chunk, Has(ctab, d)
        PROVE  \E v \in Val : Holds(ctab, d, v)'
    <3>1. PICK v \in Val : Holds(ctab, d, v)
      BY <2>5 DEF DurableInv
    <3>2. a \notin Region(d, ctab[d])
      BY <2>1, <2>2, <2>5, UsedMember DEF CommittedReserved
    <3>3. Region(d, ctab[d]) \subseteq Block
      BY <2>5 DEF CowInv, TypeInv, Fits
    <3>4. Holds(ctab, d, v)'
      BY <2>1, <2>3, <3>1, <3>2, <3>3 DEF Holds
    <3> QED
      BY <3>4
  <2>6. pend # FALSE
    BY <2>2 DEF DurableInv
  <2> QED
    BY <2>1, <2>4, <2>5, <2>6 DEF DurableInv
<1>8. ASSUME NEW later \in SUBSET Chunk, SignFails(later)
      PROVE  DurableInv'
  BY <1>8 DEF SignFails
<1>9. CASE MetaAbort
  BY <1>9 DEF MetaAbort, DurableInv, Holds
<1>10. CASE UpdateBitmaps
  BY <1>10 DEF UpdateBitmaps, DurableInv, Holds
<1>11. CASE UpdateTables
  <2>1. /\ tab' = tab /\ mem' = mem /\ ctab' = tab /\ blk' = blk
        /\ dirty' = dirty /\ todo' = todo /\ pc = "tables" /\ pc' = "idle"
    BY <1>11 DEF UpdateTables
  <2>2. dirty = {} /\ todo = {}
    BY <2>1 DEF CowInv, MovedInv
  <2>3. \A c \in Chunk : Has(tab, c) => mem[c] \in Val /\ Holds(tab, c, mem[c])
    BY <2>1, <2>2 DEF DurableInv, Holds
  <2>4. \A c \in Chunk : Has(ctab', c) => \E v \in Val : Holds(ctab, c, v)'
    BY <2>1, <2>3 DEF Holds
  <2>5. ~pend'
    BY <1>11, Zenon DEF UpdateTables
  <2> QED
    BY <2>1, <2>2, <2>4, <2>5 DEF DurableInv
<1>12. CASE UpdateTablesFails
  BY <1>12 DEF UpdateTablesFails
<1>13. CASE PowerOff
  BY <1>13 DEF PowerOff, Forget, DurableInv, Holds
<1>14. CASE UNCHANGED vars
  BY <1>14 DEF vars, DurableInv, Holds
<1>15. ASSUME NEW c \in Chunk, NEW b \in Block, SignUnseen(c, b)
      PROVE  DurableInv'
  BY <1>15 DEF SignUnseen
<1> QED
  BY <1>1, <1>2, <1>3, <1>4, <1>5, <1>6, <1>7, <1>8, <1>9, <1>10, <1>11, <1>12,
     <1>13, <1>14, <1>15 DEF Next

--------------------------------------------------------------------------
FullInv == CowInv /\ CommittedReserved /\ failed = {} /\ DurableInv

(* Without memory shortage all the invariants hold together. *)
LEMMA FullInductive ==
  ASSUME Faults = {}
  PROVE  Spec => []FullInv
<1>1. Init => FullInv
  BY InitType, InitShared, InitMoved, InitDurable
     DEF FullInv, CowInv, CommittedReserved, Init
<1>2. FullInv /\ [Next]_vars => FullInv'
  <2> SUFFICES ASSUME FullInv, [Next]_vars PROVE FullInv'
    OBVIOUS
  <2>1. CowInv'
    BY NextType, NextShared, NextMoved DEF FullInv, CowInv
  <2>2. failed' = {}
    BY DEF FullInv, Next, vars, volume, memory, Mount, ChangeInPlace, ChangeAndMove, Expand,
           SyncNothing, CommitBegin, WritePage, SignUnseen, SignFails, MetaAbort, UpdateBitmaps,
           UpdateTables, UpdateTablesFails, PowerOff, Forget
  <2>4. CommittedReserved'
    BY <2>1, <2>2, NextProtected DEF FullInv, CommittedProtected
  <2>3. DurableInv'
    BY NextDurable DEF FullInv
  <2> QED
    BY <2>1, <2>2, <2>3, <2>4 DEF FullInv
<1> QED
  BY <1>1, <1>2, PTL DEF Spec

(* Everything clean and no page under way: the volume holds table tab.     *)
LEMMA CleanIsOnVolume ==
  ASSUME CowInv, DurableInv, pc # "off", dirty = {}, todo = {}
  PROVE  [c \in Chunk |-> ReadBack(tab, c, blk)] = mem
<1>1. tab \in [Chunk -> Block \cup {NoBlk}] /\ mem \in [Chunk -> Val \cup {NoVal, Junk}]
  BY DEF CowInv, TypeInv, TypeOK
<1>2. ASSUME NEW c \in Chunk PROVE ReadBack(tab, c, blk) = mem[c]
  <2>1. CASE Has(tab, c)
    <3>1. mem[c] \in Val /\ Holds(tab, c, mem[c])
      BY <2>1 DEF DurableInv, Holds
    <3> QED
      BY <1>1, <2>1, <3>1, ReadBackHolds
  <2>2. CASE ~Has(tab, c)
    BY <2>2 DEF ReadBack, DurableInv
  <2> QED
    BY <2>1, <2>2
<1> QED
  BY <1>1, <1>2

(* What a mount reads depends only on the committed blocks. *)
LEMMA ReadBackValue ==
  ASSUME CowInv, DurableInv, NEW c \in Chunk
  PROVE  ReadBack(ctab, c, blk) \in Val \cup {NoVal}
<1>1. CASE Has(ctab, c)
  <2>1. PICK v \in Val : Holds(ctab, c, v)
    BY <1>1 DEF DurableInv
  <2>2. ReadBack(ctab, c, blk) = v
    BY <1>1, <2>1, ReadBackHolds DEF CowInv, TypeInv, TypeOK
  <2> QED
    BY <2>2
<1>2. CASE ~Has(ctab, c)
  BY <1>2 DEF ReadBack
<1> QED
  BY <1>1, <1>2

(* A sync that returns success, the empty one included, means that the     *)
(* next mount finds what the driver had in memory.                         *)
THEOREM SyncIsDurable ==
  ASSUME Faults = {}
  PROVE  Spec => []SyncMeansDurable
<1>1. FullInv => SyncMeansDurable
  <2> SUFFICES ASSUME FullInv, ret = "ok" PROVE durableNow = mem
    BY DEF SyncMeansDurable
  <2>1. pend = FALSE
    BY DEF FullInv, DurableInv, CowInv, TypeInv, TypeOK
  <2>2. CASE pc = "off"
    BY <2>2 DEF FullInv, DurableInv
  <2>3. CASE pc # "off"
    <3>1. dirty = {} /\ todo = {} /\ tab = ctab
      BY <2>1, <2>3 DEF FullInv, DurableInv
    <3> QED
      BY <2>3, <3>1, CleanIsOnVolume DEF FullInv, durableNow
  <2> QED
    BY <2>2, <2>3
<1> QED
  BY <1>1, FullInductive, PTL

(* At every moment a power failure leaves a volume on which each chunk of  *)
(* the committed table is complete.                                        *)
THEOREM AlwaysReadable ==
  ASSUME Faults = {}
  PROVE  Spec => []MountReadable
<1>1. FullInv => MountReadable
  BY ReadBackValue, CowConstants DEF FullInv, MountReadable
<1> QED
  BY <1>1, FullInductive, PTL

--------------------------------------------------------------------------
(* Refinement.  The committed blocks do not change while ctab stays. *)
LEMMA DurableKept ==
  ASSUME FullInv, Next, ctab' = ctab
  PROVE  durableNow' = durableNow
<1>1. \A b \in Used(ctab) : blk'[b] = blk[b]
  BY CommittedBlocksKept DEF FullInv
<1>2. \A c \in Chunk : Has(ctab, c) => \A b \in Region(c, ctab[c]) : blk'[b] = blk[b]
  BY <1>1, UsedMember
<1>3. \A c \in Chunk : ReadBack(ctab, c, blk') = ReadBack(ctab, c, blk)
  <2> SUFFICES ASSUME NEW c \in Chunk PROVE ReadBack(ctab, c, blk') = ReadBack(ctab, c, blk)
    OBVIOUS
  <2>1. CASE ~Has(ctab, c)
    BY <2>1 DEF ReadBack
  <2>2. CASE Has(ctab, c)
    <3>1. \A v : (\A b \in Region(c, ctab[c]) : blk'[b] = <<c, v>>)
                   <=> (\A b \in Region(c, ctab[c]) : blk[b] = <<c, v>>)
      BY <1>2, <2>2
    <3>2. (CHOOSE v \in Val : \A b \in Region(c, ctab[c]) : blk'[b] = <<c, v>>)
            = (CHOOSE v \in Val : \A b \in Region(c, ctab[c]) : blk[b] = <<c, v>>)
      BY <3>1
    <3> QED
      BY <2>2, <3>1, <3>2 DEF ReadBack
  <2> QED
    BY <2>1, <2>2
<1> QED
  BY <1>3 DEF durableNow

(* A step that changes one chunk in memory. *)
LEMMA ChangeSimulates ==
  ASSUME FullInv, Next, NEW c \in Chunk, NEW v \in Val,
         SetPages(c, v), pc = "idle", pc' = "idle", ctab' = ctab
  PROVE  Abs!Update(c, v)
<1>1. durableNow' = durableNow
  BY DurableKept
<1>2. mem' = [mem EXCEPT ![c] = v]
  BY DEF SetPages
<1> QED
  BY <1>1, <1>2 DEF Abs!Update

(* A step that changes neither what is in memory nor what is committed. *)
LEMMA QuietSimulates ==
  ASSUME FullInv, Next, mem' = mem, pc # "off", pc' # "off", ctab' = ctab
  PROVE  UNCHANGED Abs!vars
<1>1. durableNow' = durableNow
  BY DurableKept
<1>2. (pc # "off")' = (pc # "off")
  OBVIOUS
<1> QED
  BY <1>1, <1>2 DEF Abs!vars

(* Every step of the snapshot manager is a step of the atomic store or     *)
(* leaves it alone.                                                        *)
LEMMA StepSimulates ==
  ASSUME Faults = {}
  PROVE  FullInv /\ [Next]_vars => [Abs!Next]_(Abs!vars)
<1> SUFFICES ASSUME FullInv, [Next]_vars PROVE [Abs!Next]_(Abs!vars)
  OBVIOUS
<1> USE DEF volume, memory
<1>1. CASE Mount
  <2>1. Next
    BY <1>1 DEF Next
  <2>2. pc = "off" /\ pc' = "idle" /\ ctab' = ctab /\ mem' = durableNow
    BY <1>1 DEF Mount, durableNow
  <2>3. durableNow' = durableNow
    BY <2>1, <2>2, DurableKept
  <2>4. Abs!Start
    BY <2>2, <2>3 DEF Abs!Start
  <2> QED
    BY <2>4 DEF Abs!Next
<1>2. ASSUME NEW c \in Chunk, NEW v \in Val, ChangeInPlace(c, v)
      PROVE  Abs!Next
  <2>1. Next
    BY <1>2 DEF Next
  <2>2. Abs!Update(c, v)
    BY <1>2, <2>1, ChangeSimulates DEF ChangeInPlace
  <2> QED
    BY <2>2 DEF Abs!Next
<1>3. ASSUME NEW c \in Chunk, NEW v \in Val, ChangeAndMove(c, v)
      PROVE  Abs!Next
  <2>1. Next
    BY <1>3 DEF Next
  <2>2. Abs!Update(c, v)
    BY <1>3, <2>1, ChangeSimulates DEF ChangeAndMove
  <2> QED
    BY <2>2 DEF Abs!Next
<1>4. ASSUME NEW c \in Chunk, NEW v \in Val, Expand(c, v)
      PROVE  Abs!Next
  <2>1. Next
    BY <1>4 DEF Next
  <2>2. Abs!Update(c, v)
    BY <1>4, <2>1, ChangeSimulates DEF Expand
  <2> QED
    BY <2>2 DEF Abs!Next
<1>5. CASE SyncNothing
  BY <1>5, QuietSimulates DEF SyncNothing, Next
<1>6. CASE CommitBegin
  BY <1>6, QuietSimulates DEF CommitBegin, Next
<1>7. ASSUME NEW c \in Chunk, NEW b \in Block, WritePage(c, b)
      PROVE  UNCHANGED Abs!vars
  <2>1. Next
    BY <1>7 DEF Next
  <2> QED
    BY <1>7, <2>1, QuietSimulates DEF WritePage
<1>8. ASSUME NEW later \in SUBSET Chunk, SignFails(later)
      PROVE  FALSE
  BY <1>8 DEF SignFails
<1>9. CASE MetaAbort
  BY <1>9, QuietSimulates DEF MetaAbort, Next
<1>10. CASE UpdateBitmaps
  BY <1>10, QuietSimulates DEF UpdateBitmaps, Next
<1>11. CASE UpdateTables
  <2>1. pc = "tables" /\ pc' = "idle" /\ ctab' = tab /\ blk' = blk /\ mem' = mem
    BY <1>11 DEF UpdateTables
  <2>2. dirty = {} /\ todo = {}
    BY <2>1 DEF FullInv, CowInv, MovedInv
  <2>3. [c \in Chunk |-> ReadBack(tab, c, blk)] = mem
    BY <2>1, <2>2, CleanIsOnVolume DEF FullInv
  <2>4. durableNow' = mem
    BY <2>1, <2>3 DEF durableNow
  <2>5. Abs!Commit
    BY <2>1, <2>4 DEF Abs!Commit
  <2> QED
    BY <2>5 DEF Abs!Next
<1>12. CASE UpdateTablesFails
  BY <1>12 DEF UpdateTablesFails
<1>13. CASE PowerOff
  <2>1. Next
    BY <1>13 DEF Next
  <2>2. pc # "off" /\ pc' = "off" /\ ctab' = ctab
    BY <1>13 DEF PowerOff
  <2>3. durableNow' = durableNow
    BY <2>1, <2>2, DurableKept
  <2>4. Abs!Stop
    BY <2>2, <2>3 DEF Abs!Stop
  <2> QED
    BY <2>4 DEF Abs!Next
<1>14. CASE UNCHANGED vars
  BY <1>14 DEF vars, Abs!vars, durableNow
<1>15. ASSUME NEW c \in Chunk, NEW b \in Block, SignUnseen(c, b)
      PROVE  FALSE
  BY <1>15 DEF SignUnseen
<1> QED
  BY <1>1, <1>2, <1>3, <1>4, <1>5, <1>6, <1>7, <1>8, <1>9, <1>10, <1>11, <1>12,
     <1>13, <1>14, <1>15 DEF Next

(* Without memory shortage the snapshot manager implements the atomic      *)
(* store: updates become durable all together at UpdateTables and a power  *)
(* failure anywhere in a commit falls back to the previous one.            *)
THEOREM ImplementsAtomicMeta ==
  ASSUME Faults = {}
  PROVE  Spec => Atomic
<1>1. Init => Abs!Init
  <2> SUFFICES ASSUME Init PROVE Abs!Init
    OBVIOUS
  <2>1. CowInv /\ DurableInv
    BY InitType, InitShared, InitMoved, InitDurable DEF CowInv
  <2>2. durableNow \in Abs!Store
    BY <2>1, ReadBackValue DEF durableNow, Abs!Store
  <2> QED
    BY <2>2 DEF Init, Abs!Init
<1> QED
  BY <1>1, StepSimulates, FullInductive, PTL DEF Spec, Atomic, Abs!Spec

--------------------------------------------------------------------------
(* What memory and volume have to do with each other when memory ran short *)
(* but no signing failed: a chunk in memory is what its present place      *)
(* holds, unless it is dirty or being written, and a chunk that the mount  *)
(* could not read is still unreadable there.                               *)
Stored(c) ==
  /\ ~Has(tab, c) => mem[c] = NoVal
  /\ Has(tab, c) => mem[c] \in Val \cup {Junk}
  /\ Has(tab, c) /\ c \notin dirty =>
       \/ mem[c] \in Val /\ \A b \in Region(c, tab[c]) : <<c, b>> \notin todo => blk[b] = <<c, mem[c]>>
       \/ mem[c] = Junk /\ \A v \in Val : ~Holds(tab, c, v)

StoredInv == "sign" \notin failed /\ pc # "off" => \A c \in Chunk : Stored(c)

(* What is stored does not change when these variables do not. *)
LEMMA StoredKept ==
  ASSUME StoredInv, UNCHANGED <<tab, mem, dirty, todo, blk>>,
         pc # "off", "sign" \in failed => "sign" \in failed'
  PROVE  StoredInv'
BY DEF StoredInv, Stored, Holds

(* One chunk becomes dirty, in its place or in a new one. *)
LEMMA StoredChange ==
  ASSUME CowInv, StoredInv, NEW c \in Chunk, NEW v \in Val, SetPages(c, v), Has(tab', c),
         \A d \in Chunk : d # c => tab'[d] = tab[d],
         todo' = todo, blk' = blk, pc = "idle", failed' = failed
  PROVE  StoredInv'
<1> SUFFICES ASSUME "sign" \notin failed, NEW d \in Chunk PROVE Stored(d)'
  BY DEF StoredInv
<1>1. /\ mem'[d] = IF d = c THEN v ELSE mem[d]
      /\ dirty' = dirty \cup {c}
  BY DEF CowInv, TypeInv, TypeOK, SetPages
<1>2. CASE d = c
  BY <1>1, <1>2 DEF Stored
<1>3. CASE d # c
  <2>1. Stored(d) /\ tab'[d] = tab[d] /\ (Has(tab', d) <=> Has(tab, d)) /\ (d \in dirty' <=> d \in dirty)
    BY <1>1, <1>3 DEF StoredInv, Has
  <2>2. \A w \in Val : Holds(tab, d, w)' <=> Holds(tab, d, w)
    BY <2>1 DEF Holds
  <2> QED BY <1>1, <1>3, <2>1, <2>2 DEF Stored
<1> QED BY <1>2, <1>3

(* A page of a commit reaches its place, which no other chunk shares. *)
LEMMA StoredWrite ==
  ASSUME CowInv, StoredInv, NEW c \in Chunk, NEW a \in Block, WritePage(c, a)
  PROVE  StoredInv'
<1>1. /\ tab' = tab /\ mem' = mem /\ dirty' = dirty /\ todo' = todo \ {<<c, a>>}
      /\ pc = "meta" /\ pc' = pc /\ failed' = failed
  BY DEF WritePage
<1>2. /\ <<c, a>> \in todo /\ a \in Region(c, tab[c]) /\ Has(tab, c) /\ mem[c] \in Val
      /\ dirty = {}
  BY <1>1 DEF WritePage, CowInv, MovedInv, TypeInv, PagesValid
<1>3. \A b \in Block : blk'[b] = IF b = a THEN <<c, mem[c]>> ELSE blk[b]
  BY DEF WritePage, CowInv, TypeInv, TypeOK
<1> SUFFICES ASSUME "sign" \notin failed, NEW d \in Chunk PROVE Stored(d)'
  BY <1>1 DEF StoredInv
<1>4. Stored(d)
  BY <1>1 DEF StoredInv
<1>5. CASE ~Has(tab, d)
  BY <1>1, <1>4, <1>5 DEF Stored
<1>6. CASE Has(tab, d)
  <2>1. Region(d, tab[d]) \subseteq Block
    BY <1>6 DEF CowInv, TypeInv, Fits
  <2>2. d # c => a \notin Region(d, tab[d])
    BY <1>2, <1>6 DEF CowInv, SharedInv, NoSharedChunk, Disjoint
  <2>3. CASE mem[d] \in Val
    <3>1. \A b \in Region(d, tab[d]) : <<d, b>> \notin todo => blk[b] = <<d, mem[d]>>
      BY <1>2, <1>4, <1>6, <2>3, CowConstants DEF Stored
    <3>2. ASSUME NEW b \in Region(d, tab[d]), <<d, b>> \notin todo' PROVE blk'[b] = <<d, mem[d]>>
      <4>1. b \in Block
        BY <2>1
      <4>2. CASE b = a
        BY <1>3, <2>2, <4>1, <4>2
      <4>3. CASE b # a
        BY <1>1, <1>3, <3>1, <3>2, <4>1, <4>3
      <4> QED BY <4>2, <4>3
    <3> QED BY <1>1, <1>6, <2>3, <3>2 DEF Stored
  <2>4. CASE mem[d] \notin Val
    <3>1. mem[d] = Junk /\ d # c /\ \A v \in Val : ~Holds(tab, d, v)
      BY <1>2, <1>4, <1>6, <2>4 DEF Stored
    <3>2. \A b \in Region(d, tab[d]) : blk'[b] = blk[b]
      BY <1>3, <2>1, <2>2, <3>1
    <3>3. \A v \in Val : Holds(tab, d, v)' <=> Holds(tab, d, v)
      BY <1>1, <3>2 DEF Holds
    <3> QED BY <1>1, <1>6, <3>1, <3>3 DEF Stored
  <2> QED BY <2>3, <2>4
<1> QED BY <1>5, <1>6

(* Every step keeps it, whatever fails. *)
LEMMA NextStored == CowInv /\ StoredInv /\ [Next]_vars => StoredInv'
<1> SUFFICES ASSUME CowInv, StoredInv, [Next]_vars PROVE StoredInv'
  OBVIOUS
<1> USE DEF volume, memory
<1>1. CASE Mount
  <2>1. tab' = ctab /\ blk' = blk /\ dirty' = {} /\ todo' = {}
    BY <1>1 DEF Mount
  <2>2. ASSUME NEW c \in Chunk PROVE Stored(c)'
    <3>1. mem'[c] = ReadBack(ctab, c, blk)
      BY <1>1 DEF Mount
    <3>2. CASE ~Has(ctab, c)
      BY <2>1, <3>1, <3>2 DEF Stored, ReadBack
    <3>3. ASSUME Has(ctab, c), NEW v \in Val, Holds(ctab, c, v) PROVE Stored(c)'
      <4>1. mem'[c] = v
        BY <3>1, <3>3, ReadBackHolds DEF CowInv, TypeInv, TypeOK
      <4> QED BY <2>1, <3>3, <4>1 DEF Stored, Holds
    <3>4. CASE Has(ctab, c) /\ \A v \in Val : ~Holds(ctab, c, v)
      <4>1. mem'[c] = Junk
        BY <3>1, <3>4 DEF ReadBack, Holds
      <4>2. \A v \in Val : ~Holds(tab, c, v)'
        BY <2>1, <3>4 DEF Holds
      <4> QED BY <2>1, <3>4, <4>1, <4>2 DEF Stored
    <3> QED BY <3>2, <3>3, <3>4
  <2> QED BY <2>2 DEF StoredInv
<1>2. ASSUME NEW c \in Chunk, NEW v \in Val, ChangeInPlace(c, v) PROVE StoredInv'
  <2>1. /\ SetPages(c, v) /\ Has(tab', c) /\ \A d \in Chunk : d # c => tab'[d] = tab[d]
        /\ todo' = todo /\ blk' = blk /\ pc = "idle" /\ failed' = failed
    BY <1>2 DEF ChangeInPlace
  <2> QED BY <2>1, StoredChange
<1>3. ASSUME NEW c \in Chunk, NEW v \in Val, ChangeAndMove(c, v) \/ Expand(c, v) PROVE StoredInv'
  <2>1. /\ SetPages(c, v) /\ \E p \in Block : tab' = [tab EXCEPT ![c] = p]
        /\ todo' = todo /\ blk' = blk /\ pc = "idle" /\ failed' = failed
    BY <1>3 DEF ChangeAndMove, Expand
  <2>2. Has(tab', c) /\ \A d \in Chunk : d # c => tab'[d] = tab[d]
    BY <2>1, CowConstants DEF CowInv, TypeInv, TypeOK, Has, Block
  <2> QED BY <2>1, <2>2, StoredChange
<1>4. CASE SyncNothing \/ MetaAbort \/ UpdateBitmaps \/ UpdateTables \/ UpdateTablesFails
  BY <1>4, StoredKept DEF SyncNothing, MetaAbort, UpdateBitmaps, UpdateTables, UpdateTablesFails
<1>5. CASE CommitBegin
  <2>1. /\ tab' = tab /\ mem' = mem /\ blk' = blk /\ dirty' = {} /\ todo = {} /\ pc = "idle"
        /\ failed' = failed
    BY <1>5 DEF CommitBegin, CowInv, MovedInv
  <2>2. \A c \in dirty : mem[c] \in Val /\ \A b \in Region(c, tab[c]) : <<c, b>> \in todo'
    <3> SUFFICES ASSUME NEW c \in dirty
                 PROVE  mem[c] \in Val /\ \A b \in Region(c, tab[c]) : <<c, b>> \in todo'
      OBVIOUS
    <3>1. c \in Chunk /\ Has(tab, c) /\ mem[c] \in Val /\ Region(c, tab[c]) \subseteq Block
      BY DEF CowInv, MovedInv, TypeInv, TypeOK, Fits, PagesValid
    <3> QED
      BY <1>5, <3>1 DEF CommitBegin
  <2> SUFFICES ASSUME "sign" \notin failed, NEW d \in Chunk PROVE Stored(d)'
    BY <2>1 DEF StoredInv
  <2>3. Stored(d)
    BY <2>1 DEF StoredInv
  <2>4. CASE d \in dirty
    <3>1. \A b \in Region(d, tab[d]) : <<d, b>> \in todo'
      BY <2>2, <2>4
    <3>2. mem[d] \in Val
      BY <2>2, <2>4
    <3>3. Has(tab, d)
      BY <2>4 DEF CowInv, MovedInv
    <3> QED BY <2>1, <3>1, <3>2, <3>3 DEF Stored
  <2>5. CASE d \notin dirty
    <3>1. \A w \in Val : Holds(tab, d, w)' <=> Holds(tab, d, w)
      BY <2>1 DEF Holds
    <3> QED BY <2>1, <2>3, <2>5, <3>1 DEF Stored
  <2> QED BY <2>4, <2>5
<1>6. ASSUME NEW later \in SUBSET Chunk, SignFails(later) PROVE StoredInv'
  BY <1>6 DEF SignFails, StoredInv
<1>7. CASE PowerOff
  BY <1>7 DEF PowerOff, StoredInv
<1>8. CASE UNCHANGED vars
  BY <1>8 DEF vars, StoredInv, Stored, Holds
<1>9. ASSUME NEW c \in Chunk, NEW b \in Block, SignUnseen(c, b)
      PROVE  StoredInv'
  BY <1>9 DEF SignUnseen, StoredInv
<1> QED BY <1>1, <1>2, <1>3, <1>4, <1>5, <1>6, <1>7, <1>8, <1>9, StoredWrite DEF Next

(* A commit that writes its table makes everything in memory durable, also *)
(* after commits whose vdfs2_table_IO() failed and that cleared            *)
(* dirty_pages_count; only pages that a failed signing took, or left       *)
(* unsigned, are lost.                                                     *)
THEOREM LaterCommitIsComplete == Spec => LaterCommitRepairs
<1> DEFINE Inv == CowInv /\ StoredInv
<1>1. Init => StoredInv
  BY DEF Init, StoredInv
<1>2. CowInv /\ [Next]_vars => CowInv'
  BY NextType, NextShared, NextMoved DEF CowInv
<1>3. Spec => []Inv
  <2>1. Inv /\ [Next]_vars => Inv'
    BY <1>2, NextStored
  <2>2. Init => Inv
    BY <1>1, InitType, InitShared, InitMoved DEF CowInv
  <2> QED BY <2>1, <2>2, PTL DEF Spec
<1>4. ASSUME Inv, UpdateTables, "sign" \notin failed PROVE durableNow' = mem
  <2>1. ctab' = tab /\ blk' = blk /\ pc = "tables"
    BY <1>4 DEF UpdateTables
  <2>2. dirty = {} /\ todo = {}
    BY <1>4, <2>1 DEF CowInv, MovedInv
  <2>3. tab \in [Chunk -> Block \cup {NoBlk}] /\ mem \in [Chunk -> Val \cup {NoVal, Junk}]
    BY <1>4 DEF CowInv, TypeInv, TypeOK
  <2>4. ASSUME NEW c \in Chunk PROVE ReadBack(tab, c, blk) = mem[c]
    <3>1. Stored(c)
      BY <1>4, <2>1 DEF StoredInv
    <3>2. CASE ~Has(tab, c)
      BY <3>1, <3>2 DEF Stored, ReadBack
    <3>3. CASE Has(tab, c) /\ mem[c] \in Val
      <4>1. Holds(tab, c, mem[c])
        BY <2>2, <3>1, <3>3, CowConstants DEF Stored, Holds
      <4> QED BY <2>3, <3>3, <4>1, ReadBackHolds
    <3>4. CASE Has(tab, c) /\ mem[c] \notin Val
      BY <2>2, <3>1, <3>4 DEF Stored, ReadBack, Holds
    <3> QED BY <3>2, <3>3, <3>4
  <2>5. durableNow' = [c \in Chunk |-> ReadBack(tab, c, blk)]
    BY <2>1 DEF durableNow
  <2> QED BY <2>3, <2>4, <2>5
<1>5. Inv => [UpdateTables /\ "sign" \notin failed => durableNow' = mem]_vars
  BY <1>4
<1> QED BY <1>3, <1>5, PTL DEF LaterCommitRepairs

--------------------------------------------------------------------------
(* There is always room for a chunk that moves.  The metadata area is seen *)
(* as slots of the size of a b-tree node.  A chunk lies in one slot, and   *)
(* until the next commit it has at most two places: where it is and where  *)
(* it was.  expand_special_file() keeps twice as many slots as chunks.     *)

(* m slots are enough for n chunks. *)
Enough(n, m) ==
  /\ 2 * n <= m + 1
  /\ ~Tight => 2 * n <= m
  /\ EvenSizes => Multiple(m, 2)

Roomy(t, s) == \E m \in Nat : s = BlksInLeb * m /\ Enough(Cardinality(Present(t)), m)

Slot(b) == b \div BlksInLeb

Aligned(t) == \A c \in Chunk : Has(t, c) => t[c] % Nr(c[1]) = 0

(* The places of the chunks of table t whose old places are in table o. *)
Place(t, o, x)  == IF x[2] = 0 THEN t[x[1]] ELSE o[x[1]]
Places(t, o)    == {x \in Chunk \X {0, 1} : Has(t, x[1])
                      /\ (x[2] = 1 => Has(o, x[1]) /\ o[x[1]] # t[x[1]])}
SharesSlot(t, o) ==
  \E x, y \in Places(t, o) : x # y /\ Slot(Place(t, o, x)) = Slot(Place(t, o, y))

(* o says where the chunks were at the last commit. *)
Old(t, o, bm, mv) ==
  /\ o \in [Chunk -> Block \cup {NoBlk}] /\ Aligned(o)
  /\ \A c \in Chunk : Has(o, c) => Has(t, c)
  /\ \A c \in Chunk : Has(t, c) /\ t[c] \notin mv => o[c] = t[c]
  /\ \A b \in bm : \E x \in Places(t, o) : b \in Region(x[1], Place(t, o, x))

(* Pages of bitmaps that moved since the last commit. *)
MovedPages(t, mv) == {c \in Chunk : c[1] \notin Trees /\ Has(t, c) /\ t[c] \in mv}

(* hint_bitmaps packs them: of three two are in one slot.  After two that  *)
(* are not, the hint is inside the slot of the second.                     *)
Packed(t, o, mv, h) ==
  /\ MovedPages(t, mv) # {} => \E c \in MovedPages(t, mv) : h = t[c] + 1
  /\ \A c, d \in MovedPages(t, mv) : c # d => SharesSlot(t, o) \/ h % BlksInLeb # 0
  /\ \A c, d, e \in MovedPages(t, mv) : c # d /\ d # e /\ c # e => SharesSlot(t, o)

(* A table in a metadata area of s blocks. *)
Laid(t, s) ==
  /\ Aligned(t)
  /\ \A c \in Chunk : Has(t, c) => t[c] + Nr(c[1]) <= s
  /\ Roomy(t, s)
  /\ Present(MkfsTab) \subseteq Present(t)

RoomInv ==
  /\ Laid(ctab, csize)
  /\ pc # "off" => Laid(tab, size)
  /\ \E o : Old(tab, o, snap, moved) /\ (Tight => Packed(tab, o, moved, hint["bitmaps"]))

(* Numbers. *)
LEMMA DivMod ==
  ASSUME NEW a \in Nat, NEW b \in Nat \ {0}
  PROVE  a = (b * (a \div b)) + (a % b) /\ a \div b \in Nat /\ a % b \in 0 .. b - 1
  OBVIOUS

(* Division of a multiple and a rest. *)
LEMMA MultDiv ==
  ASSUME NEW k \in Nat, NEW b \in Nat \ {0}, NEW r \in 0 .. b - 1
  PROVE  (b * k + r) \div b = k /\ (b * k + r) % b = r
  OBVIOUS

(* Multiples in order. *)
LEMMA MultLess ==
  ASSUME NEW j \in Int, NEW k \in Int, NEW b \in Nat \ {0}
  PROVE  /\ b * j < b * k <=> j < k
         /\ j < k => b * j + b <= b * k
  OBVIOUS

LEMMA MultNext ==
  ASSUME NEW j \in Int, NEW k \in Int, NEW b \in Nat \ {0}, b * j < b * k
  PROVE  b * j + b <= b * k
  BY MultLess

(* What is left after a multiple of a multiple of b. *)
LEMMA MultRest ==
  ASSUME NEW b \in Nat \ {0}, NEW j \in Nat, NEW k \in Nat, NEW q \in Nat, NEW r \in Nat,
         b * k = ((b * j) * q) + r, r < b * j
  PROVE  r + b <= b * j
<1>1. PICK d \in Int : d = k - (j * q)
  OBVIOUS
<1>2. r = b * d
  BY <1>1
<1> QED
  BY <1>2, MultNext

(* The quotient of a multiple. *)
LEMMA ModZero ==
  ASSUME NEW a \in Nat, NEW b \in Nat \ {0}, a % b = 0
  PROVE  \E k \in Nat : a = b * k
<1>1. a = (b * (a \div b)) + (a % b) /\ a \div b \in Nat
  BY DivMod
<1> QED BY <1>1

(* A block of slot q. *)
LEMMA SlotOf ==
  ASSUME NEW q \in Nat, NEW i \in Nat, i < BlksInLeb
  PROVE  Slot((BlksInLeb * q) + i) = q
  BY MultDiv, CowConstants, i \in 0 .. BlksInLeb - 1 DEF Slot

(* A chunk lies in one slot. *)
LEMMA OneSlot ==
  ASSUME MetaSizes, NEW c \in Chunk, NEW p \in Nat, p % Nr(c[1]) = 0, NEW b \in Region(c, p)
  PROVE  b \in Nat /\ Slot(b) = Slot(p)
<1>1. PICK q \in Nat, r \in 0 .. BlksInLeb - 1 : p = (BlksInLeb * q) + r /\ r = p % BlksInLeb
  BY DivMod, CowConstants
<1>2. BlksInLeb \in Nat \ {0} /\ BlksInPage \in Nat \ {0}
  BY CowConstants
<1>3. b \in p .. p + Nr(c[1]) - 1 /\ Nr(c[1]) \in Nat \ {0}
  BY NrPositive DEF Region
<1>4. r + Nr(c[1]) <= BlksInLeb
  <2>1. CASE c[1] \in Trees
    BY <1>1, <1>2, <2>1 DEF Nr
  <2>2. CASE c[1] \notin Trees
    <3>1. Nr(c[1]) = BlksInPage /\ p % BlksInPage = 0
      BY <2>2 DEF Nr
    <3>2. PICK j \in Nat : BlksInLeb = BlksInPage * j
      BY <1>2, ModZero DEF MetaSizes, Multiple
    <3>3. PICK k \in Nat : p = BlksInPage * k
      BY <1>2, <3>1, ModZero
    <3>4. BlksInPage * k = ((BlksInPage * j) * q) + r
      BY <1>1, <3>2, <3>3, Zenon
    <3>5. r < BlksInPage * j /\ r \in Nat
      BY <1>2, <3>2
    <3>6. r + BlksInPage <= BlksInPage * j
      BY <1>2, <3>4, <3>5, MultRest
    <3> QED BY <3>1, <3>2, <3>6
  <2> QED BY <2>1, <2>2
<1>5. PICK i \in Nat : i = r + (b - p)
  BY <1>1, <1>3
<1>6. i < BlksInLeb
  BY <1>2, <1>3, <1>4, <1>5
<1>7. b = (BlksInLeb * q) + i
  <2>1. PICK z \in Nat : z = BlksInLeb * q
    BY <1>2
  <2>2. p = z + r
    BY <1>1, <2>1
  <2>3. b = z + i
    BY <1>2, <1>3, <1>5, <2>2
  <2> QED BY <2>1, <2>3
<1>8. Slot(b) = q
  BY <1>6, <1>7, SlotOf
<1>9. Slot(p) = q
  BY <1>1, <1>2, SlotOf
<1> QED BY <1>3, <1>8, <1>9

(* A product is not less than its factors. *)
LEMMA MultAtLeast ==
  ASSUME NEW a \in Nat, NEW b \in Nat \ {0}
  PROVE  a * b >= a /\ (b >= 2 => a * b >= 2 * a)
  OBVIOUS

(* Products with even and odd numbers. *)
LEMMA MultTwice ==
  ASSUME NEW b \in Nat, NEW k \in Nat
  PROVE  b * (2 * k) = 2 * (b * k) /\ b * ((2 * k) + 1) = 2 * (b * k) + b
  OBVIOUS

(* Products in order. *)
LEMMA MultLeq ==
  ASSUME NEW b \in Nat, NEW j \in Nat, NEW k \in Nat, j <= k
  PROVE  b * j <= b * k
  OBVIOUS

(* A sum of sizes of two nodes is a number of two nodes. *)
LEMMA EvenSlots ==
  ASSUME NEW b \in Nat \ {0}, NEW k \in Nat, Multiple(b * k, 2 * b)
  PROVE  Multiple(k, 2)
<1>1. 2 * b \in Nat \ {0} /\ b * k \in Nat
  OBVIOUS
<1>2. PICK i \in Nat : b * k = (2 * b) * i
  BY <1>1, ModZero DEF Multiple
<1>3. b * k = b * (2 * i)
  BY <1>2
<1>4. ~(k < 2 * i) /\ ~(2 * i < k)
  BY <1>3, MultLess, 2 * i \in Int, b * k \in Int
<1>5. k = 2 * i
  BY <1>4
<1> QED BY <1>5 DEF Multiple

(* expand_special_file() leaves twice as many slots as chunks when it does *)
(* not grow the area: fr blocks are reserved for the new chunk.            *)
LEMMA StaySlots ==
  ASSUME NEW l \in Nat \ {0}, NEW pg \in Nat \ {0}, NEW n \in Nat \ {0}, NEW m \in Nat,
         NEW fr \in {l * pg, pg}, pg <= l,
         ~((((l * m) - ((l * pg) * n)) - fr) < ((l * m) \div 2))
  PROVE  /\ m >= 2 * n + 1
         /\ pg >= 2 => m >= 2 * n + 2
<1>1. PICK x \in Nat, y \in Nat, u \in Nat, w \in Nat :
        x = l * m /\ y = l * n /\ u = (l * pg) * n /\ w = l * pg
  OBVIOUS
<1>2. u = y * pg
  BY <1>1
<1>3. u >= y /\ (pg >= 2 => u >= 2 * y)
  BY <1>2, MultAtLeast
<1>4. w >= l /\ (pg >= 2 => w >= 2 * l)
  BY <1>1, MultAtLeast
<1>5. fr \in Nat /\ ~((x - u) - fr < (x \div 2))
  BY <1>1
<1>6. x + 1 >= (2 * u) + (2 * fr)
  BY <1>5
<1>7. m <= 2 * n => x <= 2 * y
  BY <1>1, MultLeq, MultTwice, 2 * n \in Nat
<1>8. m <= 2 * n + 1 => x <= 2 * y + l
  BY <1>1, MultLeq, MultTwice, 2 * n + 1 \in Nat
<1>9. y >= l
  BY <1>1, MultAtLeast
<1>10. fr = w \/ fr = pg
  BY <1>1
<1>11. m >= 2 * n + 1
  BY <1>3, <1>4, <1>6, <1>7, <1>10
<1>12. pg >= 2 => m >= 2 * n + 2
  BY <1>3, <1>4, <1>6, <1>8, <1>9, <1>10
<1> QED BY <1>11, <1>12

(* The metadata area stays roomy when a chunk is added. *)
LEMMA GrowRoomy ==
  ASSUME MetaSizes, NEW c, NEW n \in Nat \ {0}, NEW m \in Nat, Enough(n, m),
         size = BlksInLeb * m, Cardinality(Present(tab)) = n
  PROVE  \E k \in Nat : SizeFor(c) = BlksInLeb * k /\ Enough(n + 1, k) /\ 2 * n < k
<1>1. /\ BlksInLeb \in Nat \ {0} /\ BlksInPage \in Nat \ {0} /\ ExpandStep \in Nat
      /\ MkfsTbc \in Nat
  BY CowConstants
<1>2. PICK k \in Nat : ExpandStep = BlksInLeb * k
  BY <1>1, ModZero DEF MetaSizes, Multiple
<1>3. CASE MustExpand(c)
  <2>1. k >= 2
    <3>1. BlksInLeb * k >= BlksInLeb * 2
      BY <1>1, <1>2 DEF MetaSizes
    <3> QED BY <1>1, <3>1, MultLess
  <2>2. SizeFor(c) = BlksInLeb * (m + k)
    BY <1>1, <1>2, <1>3 DEF SizeFor
  <2>3. EvenSizes => Multiple(k, 2)
    BY <1>1, <1>2, EvenSlots DEF EvenSizes
  <2>4. EvenSizes => Multiple(m + k, 2)
    BY <2>3 DEF Enough, Multiple
  <2>5. Enough(n + 1, m + k) /\ 2 * n < m + k
    BY <2>1, <2>4 DEF Enough
  <2> QED BY <2>2, <2>5
<1>4. CASE ~MustExpand(c)
  <2> DEFINE fr == IF c[1] \in Trees THEN Unit ELSE BlksInPage
  <2>1. SizeFor(c) = BlksInLeb * m
    BY <1>4 DEF SizeFor
  <2>2. ~(((BlksInLeb * m) - ((BlksInLeb * BlksInPage) * n)) - fr < ((BlksInLeb * m) \div 2))
    BY <1>4 DEF MustExpand, Unit, Present
  <2>3. fr \in {BlksInLeb * BlksInPage, BlksInPage}
    BY DEF Unit
  <2>4. BlksInPage <= BlksInLeb
    <3>1. PICK j \in Nat : BlksInLeb = BlksInPage * j
      BY <1>1, ModZero DEF MetaSizes, Multiple
    <3>2. j # 0
      BY <1>1, <3>1
    <3> QED BY <1>1, <3>1, <3>2, MultAtLeast
  <2> HIDE DEF fr
  <2>5. m >= 2 * n + 1 /\ (BlksInPage >= 2 => m >= 2 * n + 2)
    BY <1>1, <2>2, <2>3, <2>4, StaySlots
  <2>6. EvenSizes => m >= 2 * n + 2
    BY <2>5 DEF Enough, Multiple
  <2>7. ~Tight => m >= 2 * n + 2
    BY <1>1, <2>5, <2>6 DEF Tight
  <2>8. Enough(n + 1, m)
    BY <2>5, <2>6, <2>7 DEF Enough
  <2> QED BY <2>1, <2>5, <2>8
<1> QED BY <1>3, <1>4

(* A volume has finitely many chunks, *)
LEMMA FiniteChunks ==
  ASSUME MetaSizes
  PROVE  IsFiniteSet(Chunk)
<1>1. IsFiniteSet(0 .. MaxIdx)
  BY FS_Interval, CowConstants, 0 \in Int, MaxIdx \in Int
<1> QED BY <1>1, FS_Product DEF MetaSizes, Chunk

(* and so has a table, *)
LEMMA FinitePresent ==
  ASSUME MetaSizes, NEW t
  PROVE  IsFiniteSet(Present(t)) /\ Cardinality(Present(t)) \in Nat
<1>1. Present(t) \in SUBSET Chunk
  BY DEF Present
<1> QED BY <1>1, FiniteChunks, FS_Subset, FS_CardinalityType

(* each of them in at most two places. *)
LEMMA FinitePair ==
  /\ IsFiniteSet({0, 1}) /\ Cardinality({0, 1}) = 2
<1>1. IsFiniteSet({0}) /\ Cardinality({0}) = 1
  BY FS_Singleton
<1>2. /\ IsFiniteSet({0} \cup {1})
      /\ Cardinality({0} \cup {1}) = IF 1 \in {0} THEN Cardinality({0}) ELSE Cardinality({0}) + 1
  BY <1>1, FS_AddElement
<1>3. {0, 1} = {0} \cup {1} /\ 1 \notin {0}
  OBVIOUS
<1> QED BY <1>1, <1>2, <1>3

(* A chunk has two places at most. *)
LEMMA CountPlaces ==
  ASSUME MetaSizes, NEW t, NEW o
  PROVE  /\ IsFiniteSet(Places(t, o)) /\ Cardinality(Places(t, o)) \in Nat
         /\ Cardinality(Places(t, o)) <= 2 * Cardinality(Present(t))
<1>1. /\ IsFiniteSet(Present(t) \X {0, 1})
      /\ Cardinality(Present(t) \X {0, 1}) = Cardinality(Present(t)) * 2
  BY FinitePresent, FinitePair, FS_Product
<1>2. Places(t, o) \in SUBSET (Present(t) \X {0, 1})
  BY DEF Places, Present
<1>3. /\ IsFiniteSet(Places(t, o))
      /\ Cardinality(Places(t, o)) <= Cardinality(Present(t) \X {0, 1})
  BY <1>1, <1>2, FS_Subset
<1> QED BY <1>1, <1>3, FinitePresent, FS_CardinalityType

(* A chunk that did not move has one. *)
LEMMA CountPlacesLess ==
  ASSUME MetaSizes, NEW t, NEW o, NEW c \in Chunk, Has(t, c), o[c] = t[c]
  PROVE  /\ Cardinality(Places(t, o)) <= (2 * Cardinality(Present(t))) - 1
         /\ Cardinality(Places(t, o)) = (2 * Cardinality(Present(t))) - 1
              => \A d \in Present(t) : d # c => <<d, 1>> \in Places(t, o)
<1> DEFINE A == Present(t) \X {0, 1}
           B == A \ {<<c, 1>>}
<1>1. IsFiniteSet(A) /\ Cardinality(A) = Cardinality(Present(t)) * 2
  BY FinitePresent, FinitePair, FS_Product
<1>2. <<c, 1>> \in A
  BY DEF Present
<1>3. IsFiniteSet(B) /\ Cardinality(B) = Cardinality(A) - 1
  BY <1>1, <1>2, FS_RemoveElement
<1>4. Places(t, o) \in SUBSET B
  BY DEF Places, Present
<1>5. \A d \in Present(t) : d # c => <<d, 1>> \in B
  OBVIOUS
<1> HIDE DEF A, B
<1>6. /\ Cardinality(Places(t, o)) <= Cardinality(B)
      /\ Cardinality(B) = Cardinality(Places(t, o)) => B = Places(t, o)
  BY <1>3, <1>4, FS_Subset
<1> QED BY <1>1, <1>3, <1>5, <1>6, FinitePresent

(* Fewer slots with places than slots: one slot is free. *)
LEMMA FreeSlot ==
  ASSUME MetaSizes, NEW t \in [Chunk -> Block \cup {NoBlk}], NEW o, NEW bm, NEW mv,
         Aligned(t), Old(t, o, bm, mv), NEW m \in Nat,
         \/ Cardinality(Places(t, o)) < m
         \/ SharesSlot(t, o) /\ Cardinality(Places(t, o)) <= m
  PROVE  \E s \in 0 .. m - 1 : \A b \in bm : Slot(b) # s
<1> DEFINE S == Places(t, o)
           f == [x \in S |-> Slot(Place(t, o, x))]
           T == {f[x] : x \in S}
<1>1. f \in Surjection(S, T)
  BY DEF Surjection
<1>2. IsFiniteSet(S) /\ Cardinality(S) \in Nat
  BY CountPlaces
<1>3. SharesSlot(t, o) => f \notin Injection(S, T)
  <2> SUFFICES ASSUME SharesSlot(t, o), f \in Injection(S, T) PROVE FALSE
    OBVIOUS
  <2>1. PICK x \in S, y \in S : x # y /\ f[x] = f[y]
    BY DEF SharesSlot
  <2> QED BY <2>1 DEF Injection, IsInjective
<1> HIDE DEF f
<1>4. /\ IsFiniteSet(T) /\ Cardinality(T) <= Cardinality(S)
      /\ SharesSlot(t, o) => Cardinality(T) # Cardinality(S)
  BY <1>1, <1>2, <1>3, FS_Surjection
<1>5. Cardinality(T) \in Nat /\ Cardinality(T) < m
  BY <1>2, <1>4, FS_CardinalityType
<1>6. PICK s \in 0 .. m - 1 : s \notin T
  <2> SUFFICES ASSUME 0 .. m - 1 \in SUBSET T PROVE FALSE
    OBVIOUS
  <2>1. Cardinality(0 .. m - 1) <= Cardinality(T)
    BY <1>4, FS_Subset
  <2>2. Cardinality(0 .. m - 1) = IF 0 > m - 1 THEN 0 ELSE (m - 1) - 0 + 1
    BY FS_Interval
  <2> QED BY <1>5, <2>1, <2>2
<1>7. ASSUME NEW b \in bm PROVE Slot(b) # s
  <2>1. PICK x \in S : b \in Region(x[1], Place(t, o, x))
    BY DEF Old
  <2>2. /\ x[1] \in Chunk /\ Place(t, o, x) \in Nat
        /\ Place(t, o, x) % Nr(x[1][1]) = 0
    BY DEF Places, Place, Old, Aligned, Has, Block
  <2>3. Slot(b) = Slot(Place(t, o, x))
    BY <2>1, <2>2, OneSlot
  <2>4. f[x] \in T /\ f[x] = Slot(Place(t, o, x))
    BY DEF f
  <2> QED BY <1>6, <2>3, <2>4
<1> QED BY <1>7

(* A free slot is a place for any chunk. *)
LEMMA SlotArea ==
  ASSUME MetaSizes, NEW c, NEW bm, NEW m \in Nat, BlksInLeb * m <= MaxTbc,
         NEW s \in 0 .. m - 1, \A b \in bm : Slot(b) # s
  PROVE  \E p \in Block : IsZeroArea(bm, BlksInLeb * m, p, Nr(c[1]))
<1>1. /\ BlksInLeb \in Nat \ {0} /\ BlksInPage \in Nat \ {0} /\ MaxTbc \in Nat
      /\ s \in Nat /\ s < m
  BY CowConstants
<1>2. PICK j \in Nat : BlksInLeb = BlksInPage * j
  BY <1>1, ModZero DEF MetaSizes, Multiple
<1>3. PICK p \in Nat : p = BlksInLeb * s
  BY <1>1
<1>4. Nr(c[1]) \in Nat \ {0} /\ Nr(c[1]) <= BlksInLeb
  <2>1. j # 0
    BY <1>1, <1>2
  <2>2. BlksInPage <= BlksInLeb
    BY <1>1, <1>2, <2>1, MultAtLeast
  <2> QED BY <1>1, <2>2 DEF Nr
<1>5. p % Nr(c[1]) = 0
  <2>1. (BlksInLeb * s + 0) % BlksInLeb = 0
    BY <1>1, MultDiv
  <2>2. (BlksInPage * (j * s) + 0) % BlksInPage = 0
    BY <1>1, MultDiv, j * s \in Nat
  <2>3. p = BlksInPage * (j * s) + 0
    BY <1>1, <1>2, <1>3
  <2>4. p = BlksInLeb * s + 0
    BY <1>1, <1>3
  <2> QED BY <2>1, <2>2, <2>3, <2>4 DEF Nr
<1>6. p + BlksInLeb <= BlksInLeb * m
  BY <1>1, <1>3, MultLess
<1>7. PICK z \in Nat : z = BlksInLeb * m
  BY <1>1
<1>8. p + Nr(c[1]) <= z /\ p \in Block
  BY <1>1, <1>4, <1>6, <1>7 DEF Block
<1>9. ASSUME NEW b \in p .. p + Nr(c[1]) - 1 PROVE b \notin bm
  <2>1. PICK i \in Nat : i = b - p /\ i < BlksInLeb
    BY <1>1, <1>4
  <2>2. b = p + i
    BY <2>1
  <2>3. b = (BlksInLeb * s) + i
    BY <1>3, <2>2
  <2>4. Slot(b) = s
    BY <1>1, <2>1, <2>3, SlotOf
  <2> QED BY <2>4
<1> QED BY <1>5, <1>7, <1>8, <1>9 DEF IsZeroArea

(* A chunk that did not move since the last commit gets place p. *)
Placing(c, p, sz, o) ==
  /\ IsNewIblock(c, snap, sz, hint[HintOf(c)], p) /\ Take(c, p)
  /\ tab' = [tab EXCEPT ![c] = p]
  /\ Has(tab, c) => tab[c] \notin moved
  /\ Old(tab, o, snap, moved)

(* It keeps its earlier place, if it has one, as its old place; the other  *)
(* chunks keep theirs.                                                     *)
LEMMA PlacesKept ==
  ASSUME TypeInv, SharedInv, NEW c \in Chunk, NEW p \in Block, NEW sz \in 0 .. MaxTbc, NEW o,
         Placing(c, p, sz, o)
  PROVE  /\ <<c, 0>> \in Places(tab', o) /\ Place(tab', o, <<c, 0>>) = p
         /\ \A x \in Places(tab, o) : x[1] # c
              => x \in Places(tab', o) /\ Place(tab', o, x) = Place(tab, o, x)
         /\ \A x \in Places(tab, o) : x[1] = c
              => /\ x = <<c, 0>> /\ <<c, 1>> \in Places(tab', o)
                 /\ Place(tab', o, <<c, 1>>) = Place(tab, o, x)
<1>1. p \in Region(c, p) /\ Region(c, p) \cap snap = {} /\ p \in Int
  BY NewIblockFree DEF Placing, Block
<1>2. /\ tab \in [Chunk -> Block \cup {NoBlk}]
      /\ \A d \in Chunk : tab'[d] = IF d = c THEN p ELSE tab[d]
  BY DEF Placing, TypeInv, TypeOK
<1>3. Has(tab', c)
  BY <1>1, <1>2, CowConstants DEF Has
<1>4. <<c, 0>> \in Places(tab', o) /\ Place(tab', o, <<c, 0>>) = p
  BY <1>2, <1>3 DEF Places, Place
<1>5. ASSUME NEW x \in Places(tab, o), x[1] # c
      PROVE  x \in Places(tab', o) /\ Place(tab', o, x) = Place(tab, o, x)
  <2>1. x[1] \in Chunk /\ tab'[x[1]] = tab[x[1]]
    BY <1>2, <1>5 DEF Places
  <2> QED BY <2>1 DEF Places, Place, Has
<1>6. ASSUME NEW x \in Places(tab, o), x[1] = c
      PROVE  /\ x = <<c, 0>> /\ <<c, 1>> \in Places(tab', o)
             /\ Place(tab', o, <<c, 1>>) = Place(tab, o, x)
  <2>1. Has(tab, c) /\ o[c] = tab[c]
    BY <1>6 DEF Places, Placing, Old
  <2>2. x = <<c, 0>>
    BY <1>6, <2>1 DEF Places
  <2>3. Has(o, c)
    BY <2>1 DEF Has
  <2>4. tab[c] \in Region(c, tab[c])
    BY <1>2, <2>1, NrPositive DEF Region, Block, Has
  <2>5. tab[c] \in snap
    BY <2>1, <2>4, UsedMember DEF SharedInv, NoSharedChunk
  <2>6. o[c] # tab'[c]
    BY <1>1, <1>2, <2>1, <2>5
  <2>7. <<c, 1>> \in Places(tab', o)
    BY <1>3, <2>3, <2>6 DEF Places
  <2>8. Place(tab', o, <<c, 1>>) = Place(tab, o, x)
    BY <2>1, <2>2 DEF Place
  <2> QED BY <2>2, <2>7, <2>8
<1> QED BY <1>4, <1>5, <1>6

(* A slot that two chunks share stays shared when a chunk moves. *)
LEMMA SharesKept ==
  ASSUME TypeInv, SharedInv, NEW c \in Chunk, NEW p \in Block, NEW sz \in 0 .. MaxTbc, NEW o,
         Placing(c, p, sz, o), SharesSlot(tab, o)
  PROVE  SharesSlot(tab', o)
<1>0. /\ <<c, 0>> \in Places(tab', o) /\ Place(tab', o, <<c, 0>>) = p
      /\ \A x \in Places(tab, o) : x[1] # c
           => x \in Places(tab', o) /\ Place(tab', o, x) = Place(tab, o, x)
      /\ \A x \in Places(tab, o) : x[1] = c
           => /\ x = <<c, 0>> /\ <<c, 1>> \in Places(tab', o)
              /\ Place(tab', o, <<c, 1>>) = Place(tab, o, x)
  BY PlacesKept
<1>1. PICK x \in Places(tab, o), y \in Places(tab, o) :
        x # y /\ Slot(Place(tab, o, x)) = Slot(Place(tab, o, y))
  BY DEF SharesSlot
<1>2. CASE x[1] = c
  <2>1. y[1] # c
    BY <1>1, <1>2, <1>0
  <2>2. /\ y \in Places(tab', o) /\ Place(tab', o, y) = Place(tab, o, y)
        /\ <<c, 1>> \in Places(tab', o) /\ Place(tab', o, <<c, 1>>) = Place(tab, o, x)
    BY <1>2, <2>1, <1>0
  <2>3. y # <<c, 1>>
    BY <2>1
  <2> QED BY <1>1, <2>2, <2>3 DEF SharesSlot
<1>3. CASE x[1] # c /\ y[1] = c
  <2>1. /\ x \in Places(tab', o) /\ Place(tab', o, x) = Place(tab, o, x)
        /\ <<c, 1>> \in Places(tab', o) /\ Place(tab', o, <<c, 1>>) = Place(tab, o, y)
    BY <1>3, <1>0
  <2>2. x # <<c, 1>>
    BY <1>3
  <2> QED BY <1>1, <2>1, <2>2 DEF SharesSlot
<1>4. CASE x[1] # c /\ y[1] # c
  <2>1. /\ x \in Places(tab', o) /\ Place(tab', o, x) = Place(tab, o, x)
        /\ y \in Places(tab', o) /\ Place(tab', o, y) = Place(tab, o, y)
    BY <1>4, <1>0
  <2> QED BY <1>1, <2>1 DEF SharesSlot
<1> QED BY <1>2, <1>3, <1>4

(* The places at the last commit are still taken when a chunk moves. *)
LEMMA OldKept ==
  ASSUME TypeInv, SharedInv, NEW c \in Chunk, NEW p \in Block, NEW sz \in 0 .. MaxTbc, NEW o,
         Placing(c, p, sz, o)
  PROVE  Old(tab', o, snap', moved')
<1>0. /\ <<c, 0>> \in Places(tab', o) /\ Place(tab', o, <<c, 0>>) = p
      /\ \A x \in Places(tab, o) : x[1] # c
           => x \in Places(tab', o) /\ Place(tab', o, x) = Place(tab, o, x)
      /\ \A x \in Places(tab, o) : x[1] = c
           => /\ x = <<c, 0>> /\ <<c, 1>> \in Places(tab', o)
              /\ Place(tab', o, <<c, 1>>) = Place(tab, o, x)
  BY PlacesKept
<1>1. p \in Region(c, p) /\ p \in Int
  BY NewIblockFree DEF Placing, Block
<1>2. \A d \in Chunk : tab'[d] = IF d = c THEN p ELSE tab[d]
  BY DEF Placing, TypeInv, TypeOK
<1>3. snap' = snap \cup Region(c, p) /\ moved' = moved \cup Region(c, p)
  BY DEF Placing, Take
<1>4. \A d \in Chunk : Has(o, d) => Has(tab', d)
  BY <1>1, <1>2, CowConstants DEF Placing, Old, Has
<1>5. \A d \in Chunk : Has(tab', d) /\ tab'[d] \notin moved' => o[d] = tab'[d]
  BY <1>1, <1>2, <1>3 DEF Placing, Old, Has
<1>6. ASSUME NEW b \in snap' PROVE \E y \in Places(tab', o) : b \in Region(y[1], Place(tab', o, y))
  <2>1. CASE b \in Region(c, p)
    <3>1. <<c, 0>> \in Places(tab', o) /\ Place(tab', o, <<c, 0>>) = p
      BY <1>0
    <3> QED BY <2>1, <3>1
  <2>2. CASE b \in snap
    <3>1. PICK x \in Places(tab, o) : b \in Region(x[1], Place(tab, o, x))
      BY <2>2 DEF Placing, Old
    <3>2. CASE x[1] = c
      <4>1. <<c, 1>> \in Places(tab', o) /\ Place(tab', o, <<c, 1>>) = Place(tab, o, x)
        BY <3>2, <1>0
      <4> QED BY <3>1, <3>2, <4>1
    <3>3. CASE x[1] # c
      <4>1. x \in Places(tab', o) /\ Place(tab', o, x) = Place(tab, o, x)
        BY <3>3, <1>0
      <4> QED BY <3>1, <4>1
    <3> QED BY <3>2, <3>3
  <2> QED BY <1>3, <2>1, <2>2
<1> QED BY <1>4, <1>5, <1>6 DEF Old, Placing

(* A block of the snapshot in the slot of another place shares that slot. *)
LEMMA PlaceInSlot ==
  ASSUME MetaSizes, NEW t \in [Chunk -> Block \cup {NoBlk}], NEW o, NEW bm, NEW mv,
         Aligned(t), Old(t, o, bm, mv), NEW b \in bm
  PROVE  \E x \in Places(t, o) : b \in Region(x[1], Place(t, o, x)) /\ Slot(b) = Slot(Place(t, o, x))
<1>1. PICK x \in Places(t, o) : b \in Region(x[1], Place(t, o, x))
  BY DEF Old
<1>2. /\ x[1] \in Chunk /\ Place(t, o, x) \in Nat
      /\ Place(t, o, x) % Nr(x[1][1]) = 0
  BY DEF Places, Place, Old, Aligned, Has, Block
<1> QED BY <1>1, <1>2, OneSlot

(* The pages of bitmaps that moved. *)
LEMMA MovedPagesKept ==
  ASSUME TypeInv, SharedInv, NEW c \in Chunk, NEW p \in Block, NEW sz \in 0 .. MaxTbc, NEW o,
         Placing(c, p, sz, o)
  PROVE  \A d \in Chunk : d \in MovedPages(tab', moved')
                            <=> d \in MovedPages(tab, moved) \/ (d = c /\ c[1] \notin Trees)
<1>1. p \in Region(c, p) /\ Region(c, p) \cap snap = {} /\ p \in Int
  BY NewIblockFree DEF Placing, Block
<1>2. /\ tab \in [Chunk -> Block \cup {NoBlk}]
      /\ \A d \in Chunk : tab'[d] = IF d = c THEN p ELSE tab[d]
  BY DEF Placing, TypeInv, TypeOK
<1>3. moved' = moved \cup Region(c, p)
  BY DEF Placing, Take
<1>4. Has(tab', c)
  BY <1>1, <1>2, CowConstants DEF Has
<1>5. c \notin MovedPages(tab, moved)
  BY DEF MovedPages, Placing
<1>6. ASSUME NEW d \in Chunk, d # c
      PROVE  d \in MovedPages(tab', moved') <=> d \in MovedPages(tab, moved)
  <2>1. Has(tab, d) => tab[d] \in snap
    <3> SUFFICES ASSUME Has(tab, d) PROVE tab[d] \in snap
      OBVIOUS
    <3>1. tab[d] \in Region(d, tab[d])
      BY <1>2, NrPositive DEF Region, Block, Has
    <3> QED BY <3>1, UsedMember DEF SharedInv, NoSharedChunk
  <2>2. tab'[d] = tab[d]
    BY <1>2, <1>6
  <2> QED BY <1>1, <1>3, <2>1, <2>2 DEF MovedPages, Has
<1> QED BY <1>1, <1>2, <1>3, <1>4, <1>5, <1>6 DEF MovedPages

(* The block after another is in the same slot, if it does not start one. *)
LEMMA SlotNext ==
  ASSUME NEW a \in Nat, (a + 1) % BlksInLeb # 0
  PROVE  Slot(a + 1) = Slot(a)
<1>1. BlksInLeb \in Nat \ {0}
  BY CowConstants
<1>2. PICK q \in Nat, r \in 0 .. BlksInLeb - 1 : a = (BlksInLeb * q) + r
  BY <1>1, DivMod
<1>3. CASE r + 1 < BlksInLeb
  <2>1. a + 1 = (BlksInLeb * q) + (r + 1)
    BY <1>1, <1>2
  <2>2. Slot((BlksInLeb * q) + (r + 1)) = q
    BY <1>1, <1>3, SlotOf, r + 1 \in Nat
  <2>3. Slot((BlksInLeb * q) + r) = q
    BY <1>1, <1>3, SlotOf, r \in Nat
  <2> QED BY <1>2, <2>1, <2>2, <2>3
<1>4. CASE r + 1 = BlksInLeb
  <2>1. PICK k \in Nat : k = q + 1
    OBVIOUS
  <2>2. a + 1 = (BlksInLeb * k) + 0
    BY <1>1, <1>2, <1>4, <2>1
  <2>3. ((BlksInLeb * k) + 0) % BlksInLeb = 0
    BY <1>1, MultDiv
  <2> QED BY <2>2, <2>3
<1> QED BY <1>1, <1>3, <1>4

(* The first block of a slot. *)
LEMMA SlotStart ==
  ASSUME NEW a \in Nat
  PROVE  /\ Slot(a) \in Nat /\ BlksInLeb * Slot(a) \in Nat
         /\ BlksInLeb * Slot(a) <= a
         /\ a < (BlksInLeb * Slot(a)) + BlksInLeb
         /\ Slot(BlksInLeb * Slot(a)) = Slot(a)
         /\ (BlksInLeb * Slot(a)) % BlksInLeb = 0
<1>1. BlksInLeb \in Nat \ {0}
  BY CowConstants
<1>2. PICK q \in Nat, r \in 0 .. BlksInLeb - 1 : a = (BlksInLeb * q) + r
  BY <1>1, DivMod
<1>3. Slot((BlksInLeb * q) + r) = q
  <2>1. r \in Nat /\ r < BlksInLeb
    BY <1>1
  <2> QED BY <2>1, SlotOf
<1>4. Slot((BlksInLeb * q) + 0) = q
  BY <1>1, SlotOf
<1>5. ((BlksInLeb * q) + 0) % BlksInLeb = 0
  BY <1>1, MultDiv
<1>6. PICK z \in Nat : z = BlksInLeb * q
  BY <1>1
<1>7. a = z + r /\ z + 0 = z
  BY <1>2, <1>6
<1> QED BY <1>1, <1>2, <1>3, <1>4, <1>5, <1>6, <1>7

(* Slots are in the order of their blocks. *)
LEMMA SlotOrder ==
  ASSUME NEW a \in Nat, NEW k \in Nat
  PROVE  /\ a < BlksInLeb * k <=> Slot(a) < k
         /\ BlksInLeb * k <= a => BlksInLeb * k <= BlksInLeb * Slot(a)
<1>1. BlksInLeb \in Nat \ {0}
  BY CowConstants
<1>2. PICK q \in Nat : q = Slot(a)
  BY SlotStart
<1>3. PICK x \in Nat, z \in Nat : x = BlksInLeb * q /\ z = BlksInLeb * k
  BY <1>1
<1>4. x <= a /\ a < x + BlksInLeb
  BY <1>2, <1>3, SlotStart
<1>5. (x < z <=> q < k) /\ (q < k => x + BlksInLeb <= z)
  BY <1>1, <1>3, MultLess
<1>6. (z < x <=> k < q) /\ (k < q => z + BlksInLeb <= x)
  BY <1>1, <1>3, MultLess
<1>7. q = k => x = z
  BY <1>3
<1>8. (a < z <=> q < k) /\ (z <= a => z <= x)
  BY <1>1, <1>4, <1>5, <1>6, <1>7
<1> QED BY <1>2, <1>3, <1>8

(* With blocks as large as pages a block beside one of them, in a slot     *)
(* that holds nothing else, is free.                                       *)
LEMMA BesidePage ==
  ASSUME MetaSizes, BlksInPage = 1, NEW t \in [Chunk -> Block \cup {NoBlk}], NEW o, NEW bm, NEW mv,
         Aligned(t), Old(t, o, bm, mv), ~SharesSlot(t, o),
         NEW e \in Chunk, e[1] \notin Trees, Has(t, e),
         NEW b \in Nat, b # t[e], Slot(b) = Slot(t[e])
  PROVE  b \notin bm
<1> SUFFICES ASSUME b \in bm PROVE FALSE
  OBVIOUS
<1>1. PICK x \in Places(t, o) : b \in Region(x[1], Place(t, o, x)) /\ Slot(b) = Slot(Place(t, o, x))
  BY PlaceInSlot
<1>2. <<e, 0>> \in Places(t, o) /\ Place(t, o, <<e, 0>>) = t[e]
  BY DEF Places, Place
<1>3. t[e] \in Nat
  BY DEF Has, Block
<1>4. Nr(e[1]) = 1
  BY DEF Nr
<1>5. b \notin Region(e, t[e])
  BY <1>3, <1>4 DEF Region
<1>6. x # <<e, 0>>
  BY <1>1, <1>2, <1>5
<1> QED BY <1>1, <1>2, <1>6 DEF SharesSlot

(* A chunk that moves into a slot that is in use shares it. *)
LEMMA SharesNow ==
  ASSUME TypeInv, SharedInv, MetaSizes, NEW c \in Chunk, NEW p \in Block, NEW sz \in 0 .. MaxTbc,
         NEW o, Placing(c, p, sz, o), Aligned(tab), NEW b \in snap, Slot(b) = Slot(p)
  PROVE  SharesSlot(tab', o)
<1>0. /\ <<c, 0>> \in Places(tab', o) /\ Place(tab', o, <<c, 0>>) = p
      /\ \A x \in Places(tab, o) : x[1] # c
           => x \in Places(tab', o) /\ Place(tab', o, x) = Place(tab, o, x)
      /\ \A x \in Places(tab, o) : x[1] = c
           => /\ x = <<c, 0>> /\ <<c, 1>> \in Places(tab', o)
              /\ Place(tab', o, <<c, 1>>) = Place(tab, o, x)
  BY PlacesKept
<1>1. tab \in [Chunk -> Block \cup {NoBlk}] /\ Old(tab, o, snap, moved)
  BY DEF Placing, TypeInv, TypeOK
<1>2. PICK x \in Places(tab, o) :
        b \in Region(x[1], Place(tab, o, x)) /\ Slot(b) = Slot(Place(tab, o, x))
  BY <1>1, PlaceInSlot
<1>3. CASE x[1] = c
  <2>1. /\ <<c, 1>> \in Places(tab', o) /\ Place(tab', o, <<c, 1>>) = Place(tab, o, x)
        /\ <<c, 1>> # <<c, 0>>
    BY <1>0, <1>3
  <2> QED BY <1>0, <1>2, <2>1 DEF SharesSlot
<1>4. CASE x[1] # c
  <2>1. x \in Places(tab', o) /\ Place(tab', o, x) = Place(tab, o, x) /\ x # <<c, 0>>
    BY <1>0, <1>4
  <2> QED BY <1>0, <1>2, <2>1 DEF SharesSlot
<1> QED BY <1>3, <1>4

(* A page after a hint inside a slot goes to that slot. *)
LEMMA HintInside ==
  ASSUME TypeInv, SharedInv, MetaSizes, BlksInPage = 1, NEW c \in Chunk, c[1] \notin Trees,
         NEW p \in Block, NEW m \in Nat, BlksInLeb * m \in 0 .. MaxTbc, NEW o,
         Placing(c, p, BlksInLeb * m, o), Aligned(tab),
         NEW e \in Chunk, e[1] \notin Trees, Has(tab, e), tab[e] < BlksInLeb * m,
         hint["bitmaps"] = tab[e] + 1, (tab[e] + 1) % BlksInLeb # 0
  PROVE  SharesSlot(tab', o)
<1> SUFFICES ASSUME ~SharesSlot(tab', o) PROVE FALSE
  OBVIOUS
<1>1. ~SharesSlot(tab, o)
  BY SharesKept
<1>2. PICK a \in Nat : a = tab[e]
  BY DEF TypeInv, TypeOK, Has, Block
<1>3. Slot(a + 1) = Slot(a)
  BY <1>2, SlotNext
<1>4. a + 1 \notin snap
  BY <1>1, <1>2, <1>3, BesidePage DEF Placing, TypeInv, TypeOK
<1>5. a + 1 < BlksInLeb * m
  BY <1>2, <1>3, SlotOrder
<1>6. PICK z \in 0 .. MaxTbc : z = BlksInLeb * m
  OBVIOUS
<1>7. a + 1 \in Block /\ Nr(c[1]) = 1 /\ HintOf(c) = "bitmaps"
  BY <1>5, <1>6, CowConstants DEF Block, Nr, HintOf
<1>8. IsZeroArea(snap, z, a + 1, Nr(c[1]))
  BY <1>4, <1>5, <1>6, <1>7 DEF IsZeroArea
<1>9. IsNewIblock(c, snap, z, a + 1, p)
  BY <1>2, <1>6, <1>7 DEF Placing
<1>10. p >= a + 1 /\ p <= a + 1
  BY <1>7, <1>8, <1>9 DEF IsNewIblock
<1>11. p = a + 1
  BY <1>10 DEF Block
<1>12. a \in snap
  <2>1. a \in Region(e, a)
    BY NrPositive DEF Region
  <2> QED BY <1>2, <2>1, UsedMember DEF SharedInv, NoSharedChunk
<1> QED BY <1>3, <1>11, <1>12, SharesNow

(* A page after a hint at the border of a slot goes to the start of a slot *)
(* unless it shares its slot.                                              *)
LEMMA HintAtBorder ==
  ASSUME TypeInv, SharedInv, MetaSizes, BlksInPage = 1, NEW c \in Chunk, c[1] \notin Trees,
         NEW p \in Block, NEW sz \in 0 .. MaxTbc, NEW o,
         Placing(c, p, sz, o), Aligned(tab),
         hint["bitmaps"] % BlksInLeb = 0, ~SharesSlot(tab', o)
  PROVE  p % BlksInLeb = 0
<1>1. BlksInLeb \in Nat \ {0} /\ MaxTbc \in Nat /\ p \in Nat /\ hint["bitmaps"] \in Nat
  BY CowConstants DEF Block, TypeInv, TypeOK
<1>2. PICK s \in Nat : s = BlksInLeb * Slot(p)
  BY <1>1, SlotStart
<1>3. s <= p /\ Slot(s) = Slot(p) /\ s % BlksInLeb = 0
  BY <1>1, <1>2, SlotStart
<1>4. s \notin snap
  BY <1>3, SharesNow
<1>5. Nr(c[1]) = 1 /\ HintOf(c) = "bitmaps"
  BY DEF Nr, HintOf
<1>6. IsNewIblock(c, snap, sz, hint["bitmaps"], p)
  BY <1>5 DEF Placing
<1>7. IsZeroArea(snap, sz, p, 1)
  BY <1>5, <1>6 DEF IsNewIblock
<1>8. s \in Block /\ IsZeroArea(snap, sz, s, 1)
  BY <1>1, <1>3, <1>4, <1>7 DEF Block, IsZeroArea
<1>9. hint["bitmaps"] <= p => hint["bitmaps"] <= s
  <2>1. PICK k \in Nat : hint["bitmaps"] = BlksInLeb * k
    BY <1>1, ModZero
  <2> QED BY <1>1, <1>2, <2>1, SlotOrder
<1>10. p <= s
  <2>1. CASE \E q \in Block : q >= hint["bitmaps"] /\ IsZeroArea(snap, sz, q, 1)
    BY <1>1, <1>5, <1>6, <1>8, <1>9, <2>1 DEF IsNewIblock
  <2>2. CASE ~\E q \in Block : q >= hint["bitmaps"] /\ IsZeroArea(snap, sz, q, 1)
    BY <1>5, <1>6, <1>8, <2>2 DEF IsNewIblock
  <2> QED BY <2>1, <2>2
<1>11. p = s
  BY <1>1, <1>3, <1>10
<1> QED BY <1>3, <1>11

(* The hint goes on packing the pages of bitmaps. *)
LEMMA PackedKept ==
  ASSUME TypeInv, SharedInv, MetaSizes, Tight, NEW c \in Chunk, NEW p \in Block, NEW m \in Nat,
         BlksInLeb * m \in 0 .. MaxTbc, NEW o, Placing(c, p, BlksInLeb * m, o), Aligned(tab),
         \A d \in Chunk : Has(tab, d) => tab[d] < BlksInLeb * m,
         Packed(tab, o, moved, hint["bitmaps"])
  PROVE  Packed(tab', o, moved', hint'["bitmaps"])
<1>1. \A d \in Chunk : d \in MovedPages(tab', moved')
                         <=> d \in MovedPages(tab, moved) \/ (d = c /\ c[1] \notin Trees)
  BY MovedPagesKept
<1>2. SharesSlot(tab, o) => SharesSlot(tab', o)
  BY SharesKept
<1>3. \A d \in Chunk : tab'[d] = IF d = c THEN p ELSE tab[d]
  BY DEF Placing, TypeInv, TypeOK
<1>4. BlksInPage = 1 /\ BlksInLeb > 1 /\ BlksInLeb \in Nat
  BY CowConstants DEF MetaSizes, Tight
<1>5. MovedPages(tab, moved) \subseteq Chunk /\ MovedPages(tab', moved') \subseteq Chunk
  BY DEF MovedPages
<1>6. c \notin MovedPages(tab, moved)
  BY DEF MovedPages, Placing
<1>7. CASE c[1] \in Trees
  <2>1. hint'["bitmaps"] = hint["bitmaps"]
    BY <1>7 DEF Placing, Take, HintOf, TypeInv, TypeOK
  <2>2. MovedPages(tab', moved') = MovedPages(tab, moved)
    BY <1>1, <1>5, <1>7
  <2>3. \A d \in MovedPages(tab, moved) : tab'[d] = tab[d]
    BY <1>3, <1>5, <1>6
  <2> QED BY <1>2, <2>1, <2>2, <2>3 DEF Packed
<1>8. CASE c[1] \notin Trees
  <2>1. Nr(c[1]) = 1 /\ HintOf(c) = "bitmaps"
    BY <1>4, <1>8 DEF Nr, HintOf
  <2>2. hint'["bitmaps"] = p + 1 /\ p \in Nat
    BY <2>1 DEF Placing, Take, TypeInv, TypeOK, Block
  <2>3. c \in MovedPages(tab', moved') /\ hint'["bitmaps"] = tab'[c] + 1
    BY <1>1, <1>3, <1>8, <2>2
  <2>4. ASSUME ~SharesSlot(tab', o), NEW e \in MovedPages(tab, moved)
        PROVE  hint["bitmaps"] % BlksInLeb = 0
    <3> SUFFICES ASSUME hint["bitmaps"] % BlksInLeb # 0 PROVE FALSE
      OBVIOUS
    <3>1. PICK d \in MovedPages(tab, moved) : hint["bitmaps"] = tab[d] + 1
      BY DEF Packed
    <3>2. d \in Chunk /\ d[1] \notin Trees /\ Has(tab, d)
      BY DEF MovedPages
    <3> QED BY <1>4, <1>8, <2>4, <3>1, <3>2, HintInside
  <2>5. ASSUME ~SharesSlot(tab', o), hint["bitmaps"] % BlksInLeb = 0
        PROVE  hint'["bitmaps"] % BlksInLeb # 0
    <3>1. p % BlksInLeb = 0
      BY <1>4, <1>8, <2>5, HintAtBorder
    <3>2. PICK k \in Nat : p = BlksInLeb * k
      BY <1>4, <2>2, <3>1, ModZero
    <3>3. ((BlksInLeb * k) + 1) % BlksInLeb = 1
      BY <1>4, MultDiv, 1 \in 0 .. BlksInLeb - 1, BlksInLeb \in Nat \ {0}
    <3> QED BY <2>2, <3>2, <3>3
  <2>6. ASSUME NEW d \in MovedPages(tab', moved'), NEW e \in MovedPages(tab', moved'), d # e,
               ~SharesSlot(tab', o)
        PROVE  hint'["bitmaps"] % BlksInLeb # 0
    <3>1. d \in MovedPages(tab, moved) \/ e \in MovedPages(tab, moved)
      BY <1>1, <1>5, <2>6
    <3> QED BY <2>4, <2>5, <2>6, <3>1
  <2>7. ASSUME NEW d \in MovedPages(tab', moved'), NEW e \in MovedPages(tab', moved'),
               NEW f \in MovedPages(tab', moved'), d # e, e # f, d # f
        PROVE  SharesSlot(tab', o)
    <3> SUFFICES ASSUME ~SharesSlot(tab', o) PROVE FALSE
      OBVIOUS
    <3>1. PICK x \in MovedPages(tab, moved), y \in MovedPages(tab, moved) : x # y
      BY <1>1, <1>5, <2>7
    <3>2. hint["bitmaps"] % BlksInLeb # 0
      BY <1>2, <3>1 DEF Packed
    <3> QED BY <2>4, <3>1, <3>2
  <2> QED BY <2>3, <2>6, <2>7 DEF Packed
<1> QED BY <1>7, <1>8

(* A place for a chunk that must move. *)
LEMMA RoomToMove ==
  ASSUME TypeInv, MetaSizes, Laid(tab, size), NEW o, Old(tab, o, snap, moved),
         Tight => Packed(tab, o, moved, hint["bitmaps"]),
         NEW c \in Chunk, Has(tab, c), tab[c] \notin moved
  PROVE  \E p \in Block : IsZeroArea(snap, size, p, Nr(c[1]))
<1> DEFINE n == Cardinality(Present(tab))
           k == Cardinality(Places(tab, o))
<1>1. PICK m \in Nat : size = BlksInLeb * m /\ Enough(n, m)
  BY DEF Laid, Roomy
<1>2. tab \in [Chunk -> Block \cup {NoBlk}] /\ Aligned(tab) /\ size \in 0 .. MaxTbc
  BY DEF TypeInv, TypeOK, Laid
<1>3. n \in Nat /\ k \in Nat
  BY FinitePresent, CountPlaces
<1>4. o[c] = tab[c]
  BY DEF Old
<1>5. /\ k <= (2 * n) - 1
      /\ k = (2 * n) - 1 => \A d \in Present(tab) : d # c => <<d, 1>> \in Places(tab, o)
  BY <1>4, CountPlacesLess
<1> HIDE DEF n, k
<1>6. ASSUME k < m \/ (SharesSlot(tab, o) /\ k <= m)
      PROVE  \E p \in Block : IsZeroArea(snap, size, p, Nr(c[1]))
  <2>1. PICK s \in 0 .. m - 1 : \A b \in snap : Slot(b) # s
    BY <1>2, <1>6, FreeSlot DEF k
  <2>2. BlksInLeb * m <= MaxTbc
    BY <1>1, <1>2
  <2>3. \E p \in Block : IsZeroArea(snap, BlksInLeb * m, p, Nr(c[1]))
    BY <2>1, <2>2, SlotArea
  <2> QED BY <1>1, <2>3
<1>7. k <= m
  BY <1>1, <1>3, <1>5 DEF Enough
<1>8. ASSUME ~(k < m), ~SharesSlot(tab, o)
      PROVE  \E p \in Block : IsZeroArea(snap, size, p, Nr(c[1]))
  <2>1. Tight /\ k = (2 * n) - 1
    BY <1>1, <1>3, <1>5, <1>8 DEF Enough
  <2>2. ASSUME NEW d \in Present(tab), d # c, d[1] \notin Trees
        PROVE  d \in MovedPages(tab, moved)
    <3>1. d \in Chunk /\ Has(tab, d) /\ o[d] # tab[d]
      BY <1>5, <2>1, <2>2 DEF Places, Present
    <3> QED BY <2>2, <3>1 DEF Old, MovedPages
  <2>3. PICK d \in Present(tab), e \in Present(tab), f \in Present(tab) :
          d # e /\ e # f /\ d # f /\ d[1] \notin Trees /\ e[1] \notin Trees /\ f[1] \notin Trees
    BY <2>1 DEF MetaSizes, ThreeBitmaps, Laid
  <2>4. CASE c[1] \in Trees
    <3>1. d \in MovedPages(tab, moved) /\ e \in MovedPages(tab, moved) /\ f \in MovedPages(tab, moved)
      BY <2>2, <2>3, <2>4
    <3> QED BY <1>8, <2>1, <2>3, <3>1 DEF Packed
  <2>5. CASE c[1] \notin Trees
    <3>1. PICK g \in Chunk : g[1] \notin Trees /\ Has(tab, g)
      BY <2>3 DEF Present
    <3>2. PICK a \in Nat : a = tab[g]
      BY <1>2, <3>1 DEF Has, Block
    <3>3. BlksInPage = 1 /\ BlksInLeb > 1 /\ BlksInLeb \in Nat /\ MaxTbc \in Nat
      BY <2>1, CowConstants DEF MetaSizes, Tight
    <3>4. PICK s \in Nat : s = BlksInLeb * Slot(a) /\ Slot(s) = Slot(a) /\ Slot(a) \in Nat
      BY SlotStart
    <3>5. Slot(s + 1) = Slot(a)
      <4>1. Slot((BlksInLeb * Slot(a)) + 1) = Slot(a)
        BY <3>3, <3>4, SlotOf
      <4> QED BY <3>4, <4>1
    <3>6. PICK b \in {s, s + 1} : b # a
      BY <3>2
    <3>7. b \in Nat /\ Slot(b) = Slot(a)
      BY <3>4, <3>5
    <3>8. b \notin snap
      BY <1>2, <1>8, <3>1, <3>2, <3>3, <3>6, <3>7, BesidePage
    <3>9. a < BlksInLeb * m
      BY <1>1, <1>2, <3>1, <3>2, NrPositive DEF Laid
    <3>10. b < size
      BY <1>1, <3>7, <3>9, SlotOrder
    <3>11. b \in Block /\ Nr(c[1]) = 1
      BY <1>2, <2>5, <3>3, <3>7, <3>10 DEF Block, Nr
    <3>12. IsZeroArea(snap, size, b, Nr(c[1]))
      BY <1>2, <3>7, <3>8, <3>10, <3>11 DEF IsZeroArea
    <3> QED BY <3>11, <3>12
  <2> QED BY <2>4, <2>5
<1> QED BY <1>6, <1>7, <1>8

(* The chunks mkfs made are there. *)
LEMMA SomePresent ==
  ASSUME MetaSizes, NEW t, Present(MkfsTab) \subseteq Present(t)
  PROVE  Cardinality(Present(t)) \in Nat \ {0}
<1>1. Present(t) # {}
  BY DEF MetaSizes
<1> QED BY <1>1, FinitePresent, FS_EmptySet

(* A place for a new chunk. *)
LEMMA RoomToGrow ==
  ASSUME TypeInv, MetaSizes, Laid(tab, size), NEW o, Old(tab, o, snap, moved),
         NEW c \in Chunk, SizeFor(c) <= MaxTbc
  PROVE  /\ \E p \in Block : IsZeroArea(snap, SizeFor(c), p, Nr(c[1]))
         /\ \E k \in Nat : /\ SizeFor(c) = BlksInLeb * k
                             /\ Enough(Cardinality(Present(tab)) + 1, k)
<1>1. PICK n \in Nat \ {0} : n = Cardinality(Present(tab))
  BY SomePresent DEF Laid
<1>2. PICK m \in Nat : size = BlksInLeb * m /\ Enough(n, m)
  BY <1>1 DEF Laid, Roomy
<1>3. PICK k \in Nat : SizeFor(c) = BlksInLeb * k /\ Enough(n + 1, k) /\ 2 * n < k
  BY <1>1, <1>2, GrowRoomy
<1>4. Cardinality(Places(tab, o)) < k
  BY <1>1, <1>3, CountPlaces
<1>5. tab \in [Chunk -> Block \cup {NoBlk}] /\ Aligned(tab)
  BY DEF TypeInv, TypeOK, Laid
<1>6. PICK s \in 0 .. k - 1 : \A b \in snap : Slot(b) # s
  BY <1>4, <1>5, FreeSlot
<1>7. \E p \in Block : IsZeroArea(snap, BlksInLeb * k, p, Nr(c[1]))
  BY <1>3, <1>6, SlotArea
<1> QED BY <1>1, <1>3, <1>7

(* Just after a commit or a mount no chunk has an old place. *)
LEMMA FreshOld ==
  ASSUME NEW t \in [Chunk -> Block \cup {NoBlk}], Aligned(t)
  PROVE  Old(t, t, Used(t), {})
<1>1. ASSUME NEW b \in Used(t) PROVE \E x \in Places(t, t) : b \in Region(x[1], Place(t, t, x))
  <2>1. PICK c \in Chunk : Has(t, c) /\ b \in Region(c, t[c])
    BY UsedMember
  <2>2. <<c, 0>> \in Places(t, t) /\ Place(t, t, <<c, 0>>) = t[c]
    BY <2>1 DEF Places, Place
  <2> QED BY <2>1, <2>2
<1> QED BY <1>1 DEF Old

(* Nothing moved, nothing to pack. *)
LEMMA FreshPacked == \A t, o, h : Packed(t, o, {}, h)
  BY DEF Packed, MovedPages

(* No table, no old places. *)
LEMMA NoTableOld == Old(NoTable, NoTable, {}, {})
  BY DEF Old, NoTable, Has, Aligned

(* mkfs leaves a roomy volume. *)
LEMMA InitRoom ==
  ASSUME MetaSizes, Init
  PROVE  RoomInv
<1>1. IsMkfsTable(MkfsTab) /\ BlksInLeb \in Nat \ {0} /\ MkfsTbc \in Nat
  BY CowConstants
<1>2. Aligned(MkfsTab) /\ \A c \in Chunk : Has(MkfsTab, c) => MkfsTab[c] + Nr(c[1]) <= MkfsTbc
  BY <1>1 DEF IsMkfsTable, IsZeroArea, Aligned
<1>3. PICK m \in Nat : MkfsTbc = BlksInLeb * m
  BY <1>1, ModZero DEF MetaSizes, Multiple
<1>4. PICK n \in Nat : n = Cardinality(Present(MkfsTab))
  BY FinitePresent
<1>5. 2 * n <= m
  <2>1. (2 * BlksInLeb) * n <= BlksInLeb * m
    BY <1>3, <1>4 DEF MetaSizes
  <2>2. ~(BlksInLeb * m < BlksInLeb * (2 * n))
    BY <1>1, <2>1
  <2> QED BY <1>1, <2>2, MultLess, 2 * n \in Int
<1>6. EvenSizes => Multiple(m, 2)
  BY <1>1, <1>3, EvenSlots DEF EvenSizes
<1>7. Roomy(MkfsTab, MkfsTbc)
  BY <1>3, <1>4, <1>5, <1>6 DEF Roomy, Enough
<1> QED BY <1>2, <1>7, NoTableOld, FreshPacked DEF Init, RoomInv, Laid

(* The table with one more chunk or with a chunk elsewhere. *)
LEMMA LaidKept ==
  ASSUME TypeInv, MetaSizes, Laid(tab, size), NEW c \in Chunk, NEW p \in Block,
         NEW sz \in 0 .. MaxTbc, size <= sz,
         IsNewIblock(c, snap, sz, hint[HintOf(c)], p), tab' = [tab EXCEPT ![c] = p],
         \E m \in Nat : /\ sz = BlksInLeb * m
                         /\ Enough(Cardinality(Present(tab)) + (IF Has(tab, c) THEN 0 ELSE 1), m)
  PROVE  Laid(tab', sz)
<1>1. /\ tab \in [Chunk -> Block \cup {NoBlk}] /\ size \in Nat
      /\ \A d \in Chunk : tab'[d] = IF d = c THEN p ELSE tab[d]
  BY DEF TypeInv, TypeOK
<1>2. p % Nr(c[1]) = 0 /\ p + Nr(c[1]) <= sz /\ p \in Int
  BY DEF IsNewIblock, IsZeroArea, Block
<1>3. Has(tab', c) /\ \A d \in Chunk : d # c => (Has(tab', d) <=> Has(tab, d))
  BY <1>1, <1>2, CowConstants DEF Has
<1>4. Aligned(tab')
  BY <1>1, <1>2, <1>3 DEF Laid, Aligned
<1>5. ASSUME NEW d \in Chunk, Has(tab', d) PROVE tab'[d] + Nr(d[1]) <= sz
  <2>1. CASE d = c
    BY <1>1, <1>2, <2>1
  <2>2. CASE d # c
    <3>1. tab'[d] = tab[d] /\ tab[d] \in Nat /\ tab[d] + Nr(d[1]) <= size
      BY <1>1, <1>3, <1>5, <2>2 DEF Laid, Has, Block
    <3> QED BY <1>1, <3>1, NrPositive
  <2> QED BY <2>1, <2>2
<1>6. Present(tab') = Present(tab) \cup {c}
  BY <1>3 DEF Present
<1>7. Cardinality(Present(tab')) = Cardinality(Present(tab)) + (IF Has(tab, c) THEN 0 ELSE 1)
  <2>1. IsFiniteSet(Present(tab)) /\ Cardinality(Present(tab)) \in Nat
    BY FinitePresent
  <2>2. c \in Present(tab) <=> Has(tab, c)
    BY DEF Present
  <2>3. Cardinality(Present(tab) \cup {c})
          = IF c \in Present(tab) THEN Cardinality(Present(tab)) ELSE Cardinality(Present(tab)) + 1
    BY <2>1, FS_AddElement
  <2>4. CASE Has(tab, c)
    <3>1. Cardinality(Present(tab')) = Cardinality(Present(tab))
      BY <1>6, <2>2, <2>3, <2>4
    <3>2. Cardinality(Present(tab)) + 0 = Cardinality(Present(tab))
      BY <2>1
    <3> QED BY <2>4, <3>1, <3>2
  <2>5. CASE ~Has(tab, c)
    BY <1>6, <2>2, <2>3, <2>5
  <2> QED BY <2>4, <2>5
<1>8. Roomy(tab', sz)
  BY <1>7 DEF Roomy
<1> QED BY <1>4, <1>5, <1>6, <1>8 DEF Laid

(* The invariant holds again when a chunk has moved. *)
LEMMA MoveKeepsRoom ==
  ASSUME TypeInv, SharedInv, MetaSizes, RoomInv, pc = "idle", NEW c \in Chunk, NEW p \in Block,
         NEW sz \in 0 .. MaxTbc, size <= sz, size' = sz, pc' = "idle",
         UNCHANGED <<ctab, csize>>,
         IsNewIblock(c, snap, sz, hint[HintOf(c)], p), Take(c, p), tab' = [tab EXCEPT ![c] = p],
         Has(tab, c) => tab[c] \notin moved,
         \E m \in Nat : /\ sz = BlksInLeb * m
                         /\ Enough(Cardinality(Present(tab)) + (IF Has(tab, c) THEN 0 ELSE 1), m)
  PROVE  RoomInv'
<1>1. Laid(tab, size) /\ Laid(ctab, csize)
  BY DEF RoomInv
<1>2. Laid(tab', sz)
  BY <1>1, LaidKept
<1>3. PICK o : Old(tab, o, snap, moved) /\ (Tight => Packed(tab, o, moved, hint["bitmaps"]))
  BY DEF RoomInv
<1>4. Placing(c, p, sz, o)
  BY <1>3 DEF Placing
<1>5. Old(tab', o, snap', moved')
  BY <1>4, OldKept
<1>6. Tight => Packed(tab', o, moved', hint'["bitmaps"])
  <2> SUFFICES ASSUME Tight PROVE Packed(tab', o, moved', hint'["bitmaps"])
    OBVIOUS
  <2>1. PICK m \in Nat : sz = BlksInLeb * m
    OBVIOUS
  <2>2. ASSUME NEW d \in Chunk, Has(tab, d) PROVE tab[d] < sz
    <3>1. tab[d] \in Nat /\ tab[d] + Nr(d[1]) <= size /\ Nr(d[1]) \in Nat \ {0} /\ size \in Nat
      BY <1>1, <2>2, NrPositive DEF Laid, TypeInv, TypeOK, Has, Block
    <3> QED BY <3>1
  <2>3. Aligned(tab) /\ BlksInLeb * m \in 0 .. MaxTbc /\ Placing(c, p, BlksInLeb * m, o)
        /\ \A d \in Chunk : Has(tab, d) => tab[d] < BlksInLeb * m
    BY <1>1, <1>4, <2>1, <2>2 DEF Laid
  <2> QED BY <1>3, <2>3, PackedKept
<1>7. Laid(ctab', csize')
  BY <1>1
<1> QED BY <1>2, <1>5, <1>6, <1>7 DEF RoomInv

(* Every step keeps the metadata area roomy. *)
LEMMA NextRoom ==
  ASSUME MetaSizes, CowInv, RoomInv, [Next]_vars
  PROVE  RoomInv'
<1> USE DEF memory, volume
<1>0. TypeInv /\ SharedInv
  BY DEF CowInv
<1>1. CASE Mount
  <2>1. ctab \in [Chunk -> Block \cup {NoBlk}] /\ Aligned(ctab) /\ Laid(ctab, csize)
    BY <1>0 DEF TypeInv, TypeOK, RoomInv, Laid
  <2>2. Old(tab', ctab, snap', moved')
    BY <1>1, <2>1, FreshOld DEF Mount
  <2>3. Packed(tab', ctab, moved', hint'["bitmaps"])
    BY <1>1, FreshPacked DEF Mount
  <2>4. Laid(tab', size') /\ Laid(ctab', csize')
    BY <1>1, <2>1 DEF Mount
  <2> QED BY <2>2, <2>3, <2>4 DEF RoomInv
<1>2. ASSUME NEW c \in Chunk, NEW v \in Val, ChangeInPlace(c, v)
      PROVE  RoomInv'
  BY <1>2 DEF ChangeInPlace, SetPages, RoomInv
<1>3. ASSUME NEW c \in Chunk, NEW v \in Val, ChangeAndMove(c, v)
      PROVE  RoomInv'
  <2>1. PICK p \in Block : /\ IsNewIblock(c, snap, size, hint[HintOf(c)], p) /\ Take(c, p)
                            /\ tab' = [tab EXCEPT ![c] = p]
    BY <1>3 DEF ChangeAndMove
  <2>2. /\ pc = "idle" /\ pc' = "idle" /\ size' = size /\ UNCHANGED <<ctab, csize>>
        /\ Has(tab, c) /\ tab[c] \notin moved
    BY <1>3 DEF ChangeAndMove, MustMove
  <2>3. size \in 0 .. MaxTbc /\ size <= size
    BY <1>0 DEF TypeInv, TypeOK
  <2>4. \E m \in Nat : /\ size = BlksInLeb * m
                        /\ Enough(Cardinality(Present(tab)) + (IF Has(tab, c) THEN 0 ELSE 1), m)
    <3>1. Cardinality(Present(tab)) + 0 = Cardinality(Present(tab))
      BY FinitePresent
    <3> QED BY <2>2, <3>1 DEF RoomInv, Laid, Roomy
  <2> QED BY <1>0, <2>1, <2>2, <2>3, <2>4, MoveKeepsRoom
<1>4. ASSUME NEW c \in Chunk, NEW v \in Val, Expand(c, v)
      PROVE  RoomInv'
  <2>1. PICK p \in Block : /\ IsNewIblock(c, snap, SizeFor(c), hint[HintOf(c)], p) /\ Take(c, p)
                            /\ tab' = [tab EXCEPT ![c] = p]
    BY <1>4 DEF Expand
  <2>2. /\ pc = "idle" /\ pc' = "idle" /\ size' = SizeFor(c) /\ UNCHANGED <<ctab, csize>>
        /\ ~Has(tab, c) /\ SizeFor(c) <= MaxTbc
    BY <1>4 DEF Expand, IsNextChunk
  <2>3. SizeFor(c) \in 0 .. MaxTbc /\ size <= SizeFor(c)
    <3>1. size \in 0 .. MaxTbc
      BY <1>0 DEF TypeInv, TypeOK
    <3> QED BY <2>2, <3>1, CowConstants DEF SizeFor
  <2>4. PICK o : Old(tab, o, snap, moved)
    BY DEF RoomInv
  <2>5. \E m \in Nat : /\ SizeFor(c) = BlksInLeb * m
                        /\ Enough(Cardinality(Present(tab)) + (IF Has(tab, c) THEN 0 ELSE 1), m)
    <3>1. \E m \in Nat : SizeFor(c) = BlksInLeb * m /\ Enough(Cardinality(Present(tab)) + 1, m)
      BY <1>0, <2>2, <2>4, RoomToGrow DEF RoomInv
    <3> QED BY <2>2, <3>1
  <2> QED BY <1>0, <2>1, <2>2, <2>3, <2>5, MoveKeepsRoom
<1>5. CASE SyncNothing
  BY <1>5 DEF SyncNothing, RoomInv
<1>6. CASE CommitBegin
  BY <1>6 DEF CommitBegin, RoomInv
<1>7. ASSUME NEW c \in Chunk, NEW b \in Block, WritePage(c, b)
      PROVE  RoomInv'
  BY <1>7 DEF WritePage, RoomInv
<1>8. ASSUME NEW later \in SUBSET Chunk, SignFails(later)
      PROVE  RoomInv'
  BY <1>8 DEF SignFails, RoomInv
<1>9. CASE MetaAbort
  BY <1>9 DEF MetaAbort, RoomInv
<1>10. CASE UpdateBitmaps
  <2>1. /\ tab \in [Chunk -> Block \cup {NoBlk}] /\ next = Used(tab)
        /\ Laid(tab, size) /\ Laid(ctab, csize) /\ Aligned(tab)
    BY <1>0, <1>10 DEF TypeInv, TypeOK, SharedInv, NoSharedChunk, RoomInv, UpdateBitmaps, Laid
  <2>2. Old(tab', tab, snap', moved')
    BY <1>10, <2>1, FreshOld DEF UpdateBitmaps
  <2>3. Packed(tab', tab, moved', hint'["bitmaps"])
    BY <1>10, FreshPacked DEF UpdateBitmaps
  <2>4. Laid(tab', size') /\ Laid(ctab', csize')
    BY <1>10, <2>1 DEF UpdateBitmaps
  <2> QED BY <2>2, <2>3, <2>4 DEF RoomInv
<1>11. CASE UpdateTables
  BY <1>11 DEF UpdateTables, RoomInv
<1>12. CASE UpdateTablesFails
  BY <1>12 DEF UpdateTablesFails, RoomInv
<1>13. CASE PowerOff
  <2>1. Old(tab', NoTable, snap', moved') /\ Packed(tab', NoTable, moved', hint'["bitmaps"])
    BY <1>13, NoTableOld, FreshPacked DEF PowerOff, Forget
  <2> QED BY <1>13, <2>1 DEF PowerOff, RoomInv
<1>14. CASE UNCHANGED vars
  BY <1>14 DEF vars, RoomInv
<1>15. ASSUME NEW c \in Chunk, NEW b \in Block, SignUnseen(c, b)
      PROVE  RoomInv'
  BY <1>15 DEF SignUnseen, RoomInv
<1> QED
  BY <1>1, <1>2, <1>3, <1>4, <1>5, <1>6, <1>7, <1>8, <1>9, <1>10, <1>11, <1>12, <1>13, <1>14, <1>15
  DEF Next

(* get_new_meta_iblock() never hits its BUG(): if a node is made of pages  *)
(* and the area of nodes, at most half of it is in use after mkfs, and it  *)
(* grows by at least two nodes, there is a place whenever a chunk moves    *)
(* and whenever expand_special_file() adds one, after any history of       *)
(* commits, failures and mounts.                                           *)
THEOREM AlwaysRoom ==
  ASSUME MetaSizes
  PROVE  Spec => []NoMetaExhaustion
<1>1. Init => RoomInv
  BY InitRoom
<1>2. CowInv /\ RoomInv /\ [Next]_vars => RoomInv'
  BY NextRoom
<1>3. CowInv /\ RoomInv => NoMetaExhaustion
  <2> SUFFICES ASSUME CowInv, RoomInv, pc = "idle", NEW c \in Chunk
               PROVE  /\ Has(tab, c) /\ MustMove(c)
                           => \E p \in Block : IsZeroArea(snap, size, p, Nr(c[1]))
                      /\ IsNextChunk(c) /\ SizeFor(c) <= MaxTbc
                           => \E p \in Block : IsZeroArea(snap, SizeFor(c), p, Nr(c[1]))
    BY DEF NoMetaExhaustion
  <2>1. PICK o : Old(tab, o, snap, moved) /\ (Tight => Packed(tab, o, moved, hint["bitmaps"]))
    BY DEF RoomInv
  <2>2. TypeInv /\ Laid(tab, size)
    BY DEF CowInv, RoomInv
  <2>3. Has(tab, c) /\ MustMove(c) => \E p \in Block : IsZeroArea(snap, size, p, Nr(c[1]))
    BY <2>1, <2>2, RoomToMove DEF MustMove
  <2>4. SizeFor(c) <= MaxTbc => \E p \in Block : IsZeroArea(snap, SizeFor(c), p, Nr(c[1]))
    BY <2>1, <2>2, RoomToGrow
  <2> QED BY <2>3, <2>4
<1> QED
  BY <1>1, <1>2, <1>3, CowInductive, PTL DEF Spec
==========================================================================
