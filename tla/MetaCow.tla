----------------------------- MODULE MetaCow -----------------------------
(***************************************************************************)
(* Copy-on-write placement of metadata (snapshot.c, data.c).               *)
(*                                                                         *)
(* Every special file is cut into chunks: a b-tree node of a tree file     *)
(* (2^log_blocks_in_leb blocks) or a page of a bitmap file                 *)
(* (2^log_blocks_in_page blocks).  The translation table tab maps a chunk  *)
(* to the metadata block where it starts.  The first change of a chunk     *)
(* after a commit moves it to free blocks; the blocks it leaves stay       *)
(* reserved until the commit is over, so that the volume always holds one  *)
(* complete old snapshot.  Three bitmaps keep the books:                   *)
(*   snap   snapshot_bitmap       blocks that may not be allocated now     *)
(*   next   next_snapshot_bitmap  blocks of the snapshot being built       *)
(*   moved  moved_iblock          blocks taken since the last commit       *)
(*                                                                         *)
(* Here a table reaches the volume in one step (ctab); how the two table   *)
(* slots, the extended tables and the two extended super blocks achieve    *)
(* that is module TransTables.                                             *)
(***************************************************************************)
EXTENDS Integers, FiniteSets

CONSTANTS
  Files,       \* special files with an entry in the base table
  Trees,       \* those for which is_tree() holds
  MaxIdx,      \* bound: largest chunk index of a file
  BlksInLeb,   \* 1 << log_blocks_in_leb
  BlksInPage,  \* 1 << log_blocks_in_page
  Val,         \* contents of a chunk
  NoVal,       \* content of a chunk the file does not have
  Junk,        \* content of a block or chunk that nothing valid was written to
  NoBlk,       \* table entry of a chunk the file does not have
  MkfsTab,     \* translation table that mkfs leaves on the volume
  MkfsVal,     \* content mkfs gives to every chunk
  MkfsTbc,     \* meta_tbc after mkfs
  ExpandStep,  \* calculate_expand_step()
  MaxTbc,      \* bound: meta_tbc never grows beyond it (volume full)
  Faults,      \* kinds of memory shortage: "sign" and "table"
  MaxSync      \* bound: commits since mkfs

Chunk == Files \X (0 .. MaxIdx)
Block == 0 .. (MaxTbc - 1)

(* Blocks of one chunk: nr in get_new_meta_iblock() and move_iblock().     *)
(* GET_TABLE_INDEX() folds the pages of a b-tree node into one chunk.      *)
Nr(f) == IF f \in Trees THEN BlksInLeb ELSE BlksInPage

(* A block on the volume remembers whose chunk it was last written for.    *)
Content == (Chunk \X Val) \cup {Junk}

VARIABLES
  pc,      \* "off", "idle", "meta" (vdfs2_meta_write), "tables"
  tab,     \* in-memory translation tables (snapshot->base_t)
  mem,     \* metadata pages in the page cache
  dirty,   \* chunks whose pages are PageDirty
  todo,    \* <<chunk, block>> pages of the running commit not yet on the volume
  snap, next, moved,
  size,    \* bitmap_size_in_bits = exsb->meta_tbc
  hint,    \* hint_btree and hint_bitmaps
  pend,    \* dirty_pages_count # 0
  ret,     \* result of the last sync, "none" once metadata changed after it
  syncs,   \* commits begun since mkfs
  failed,  \* ghost: failures of this mount that no complete commit made good
  blk,     \* volume: the blocks of the metadata area
  ctab,    \* volume: the committed translation table
  csize    \* volume: the committed meta_tbc

memory == <<tab, mem, dirty, todo, snap, next, moved, size, hint, pend, ret, failed>>
volume == <<blk, ctab, csize>>
vars == <<pc, memory, syncs, volume>>

--------------------------------------------------------------------------
Region(c, p) == p .. (p + Nr(c[1]) - 1)

Has(t, c) == t[c] # NoBlk

(* Blocks a table refers to. *)
Used(t) == UNION {Region(c, t[c]) : c \in {d \in Chunk : Has(t, d)}}

(* vdfs2_meta_read(): what a mount finds in chunk c of table t. *)
ReadBack(t, c, disk) ==
  IF ~Has(t, c) THEN NoVal
  ELSE IF \E v \in Val : \A b \in Region(c, t[c]) : disk[b] = <<c, v>>
         THEN CHOOSE v \in Val : \A b \in Region(c, t[c]) : disk[b] = <<c, v>>
         ELSE Junk

(* An aligned run of zero bits: bitmap_find_next_zero_area(). *)
IsZeroArea(bm, sz, p, nr) == /\ p % nr = 0
                             /\ p + nr <= sz
                             /\ (p .. (p + nr - 1)) \cap bm = {}

(* get_new_meta_iblock(): p is the first zero area at or after the hint    *)
(* or, if there is none, the first one of the whole bitmap.  No such p is  *)
(* the BUG() of that function.                                             *)
IsNewIblock(c, bm, sz, h, p) ==
  LET area(q)  == IsZeroArea(bm, sz, q, Nr(c[1]))
      later(q) == q >= h /\ area(q)
  IN  /\ area(p)
      /\ IF \E q \in Block : later(q)
           THEN later(p) /\ \A q \in Block : later(q) => p <= q
           ELSE \A q \in Block : area(q) => p <= q

HintOf(c) == IF c[1] \in Trees THEN "btree" ELSE "bitmaps"

(* Mutants: the block is not reserved in snapshot_bitmap; the hint is one  *)
(* too far.                                                                *)
TakeUnreserved(c, p) ==
  /\ snap'  = snap
  /\ moved' = moved \cup Region(c, p)
  /\ hint'  = [hint EXCEPT ![HintOf(c)] = p + Nr(c[1])]

TakeHintPast(c, p) ==
  /\ snap'  = snap \cup Region(c, p)
  /\ moved' = moved \cup Region(c, p)
  /\ hint'  = [hint EXCEPT ![HintOf(c)] = p + Nr(c[1]) + 1]

(* Bits set and hint advanced by get_new_meta_iblock(). *)
Take(c, p) ==
  /\ snap'  = snap \cup Region(c, p)
  /\ moved' = moved \cup Region(c, p)
  /\ hint'  = [hint EXCEPT ![HintOf(c)] = p + Nr(c[1])]

--------------------------------------------------------------------------
(* mkfs (external): chunks laid out one after the other on b-tree borders, *)
(* all written.                                                            *)
IsMkfsTable(t) ==
  /\ t \in [Chunk -> Block \cup {NoBlk}]
  /\ \A c \in Chunk : Has(t, c) => IsZeroArea({}, MkfsTbc, t[c], Nr(c[1]))
  /\ \A c, d \in Chunk : Has(t, c) /\ Has(t, d) /\ c # d
                           => Region(c, t[c]) \cap Region(d, t[d]) = {}

MkfsBlk == [b \in Block |->
              IF b \in Used(MkfsTab)
                THEN <<CHOOSE c \in Chunk : Has(MkfsTab, c) /\ b \in Region(c, MkfsTab[c]),
                       MkfsVal>>
                ELSE Junk]

ASSUME CowConstants ==
  /\ Trees \subseteq Files
  /\ MaxIdx \in Nat
  /\ BlksInLeb \in Nat \ {0} /\ BlksInPage \in Nat \ {0}
  /\ MkfsTbc \in Nat /\ ExpandStep \in Nat /\ MaxTbc \in Nat
  /\ MaxSync \in Nat
  /\ MkfsTbc <= MaxTbc
  /\ NoBlk \notin Int
  /\ MkfsVal \in Val /\ NoVal \notin Val /\ Junk \notin Val /\ Junk # NoVal
  /\ Junk \notin Chunk \X Val
  /\ IsMkfsTable(MkfsTab)

Multiple(x, y) == x % y = 0

Present(t) == {c \in Chunk : Has(t, c)}

(* Sizes are multiples of two nodes. *)
EvenSizes == Multiple(MkfsTbc, 2 * BlksInLeb) /\ Multiple(ExpandStep, 2 * BlksInLeb)

(* With blocks as large as pages, expand_special_file() reserves less for  *)
(* a page of a bitmap than it counts later, and the last slot may be       *)
(* missing.                                                                *)
Tight == ~EvenSizes /\ BlksInPage = 1

(* The bitmaps of free space, inode numbers and small files. *)
ThreeBitmaps ==
  \E c, d, e \in Present(MkfsTab) :
    c # d /\ d # e /\ c # e /\ c[1] \notin Trees /\ d[1] \notin Trees /\ e[1] \notin Trees

(* What mkfs and calculate_expand_step() choose: a node is made of pages,  *)
(* the area of nodes, at most half of it is in use, and it grows by two    *)
(* nodes at least.                                                         *)
MetaSizes ==
  /\ IsFiniteSet(Files)
  /\ Multiple(BlksInLeb, BlksInPage)
  /\ Multiple(MkfsTbc, BlksInLeb) /\ Multiple(ExpandStep, BlksInLeb)
  /\ Present(MkfsTab) # {}
  /\ 2 * BlksInLeb * Cardinality(Present(MkfsTab)) <= MkfsTbc
  /\ ExpandStep >= 2 * BlksInLeb
  /\ Tight => BlksInLeb > 1 /\ ThreeBitmaps

NoTable == [c \in Chunk |-> NoBlk]
NoMem   == [c \in Chunk |-> NoVal]
NoHint  == [h \in {"btree", "bitmaps"} |-> 0]

Forget ==
  /\ tab' = NoTable /\ mem' = NoMem /\ dirty' = {} /\ todo' = {}
  /\ snap' = {} /\ next' = {} /\ moved' = {} /\ size' = 0
  /\ hint' = NoHint /\ pend' = FALSE /\ ret' = "none" /\ failed' = {}

Init ==
  /\ pc = "off" /\ syncs = 0 /\ failed = {}
  /\ tab = NoTable /\ mem = NoMem /\ dirty = {} /\ todo = {}
  /\ snap = {} /\ next = {} /\ moved = {} /\ size = 0
  /\ hint = NoHint /\ pend = FALSE /\ ret = "none"
  /\ blk = MkfsBlk /\ ctab = MkfsTab /\ csize = MkfsTbc

--------------------------------------------------------------------------
(* Mount: vdfs2_build_snapshot_manager() loads the table and builds the    *)
(* bitmaps from it (build_snapshot_bitmaps), then the metadata is read.    *)
Mount ==
  /\ pc = "off"
  /\ pc' = "idle"
  /\ tab' = ctab /\ size' = csize
  /\ mem' = [c \in Chunk |-> ReadBack(ctab, c, blk)]
  /\ snap' = Used(ctab) /\ next' = Used(ctab) /\ moved' = {}
  /\ dirty' = {} /\ todo' = {} /\ hint' = NoHint /\ pend' = FALSE /\ ret' = "none" /\ failed' = {}
  /\ UNCHANGED <<syncs, volume>>

(* The pages of chunk c get content v and become dirty.                    *)
SetPages(c, v) ==
  /\ mem' = [mem EXCEPT ![c] = v]
  /\ dirty' = dirty \cup {c}
  /\ ret' = "none"

(* The chunk moves before it is changed unless its pages are dirty (the    *)
(* early returns of vdfs2_add_chunk_bnode() and vdfs2_add_chunk_bitmap())  *)
(* or it moved since the last commit (that of vdfs2_add_chunk_no_lock()).  *)
MustMove(c) == c \notin dirty /\ tab[c] \notin moved

ChangeInPlace(c, v) ==
  /\ pc = "idle" /\ Has(tab, c) /\ ~MustMove(c)
  /\ SetPages(c, v)
  /\ UNCHANGED <<pc, tab, todo, snap, next, moved, size, hint, pend, syncs, failed, volume>>

(* Mutant: the old place stays in next_snapshot_bitmap. *)
ChangeAndMoveKeepOld(c, v) ==
  /\ pc = "idle" /\ Has(tab, c) /\ MustMove(c)
  /\ \E p \in Block :
       /\ IsNewIblock(c, snap, size, hint[HintOf(c)], p)
       /\ Take(c, p)
       /\ next' = next \cup Region(c, p)
       /\ tab'  = [tab EXCEPT ![c] = p]
  /\ SetPages(c, v)
  /\ pend' = TRUE
  /\ UNCHANGED <<pc, todo, size, syncs, failed, volume>>

(* First change of a clean chunk: move_iblock(). *)
ChangeAndMove(c, v) ==
  /\ pc = "idle" /\ Has(tab, c) /\ MustMove(c)
  /\ \E p \in Block :
       /\ IsNewIblock(c, snap, size, hint[HintOf(c)], p)
       /\ Take(c, p)
       /\ next' = (next \cup Region(c, p)) \ Region(c, tab[c])
       /\ tab'  = [tab EXCEPT ![c] = p]
  /\ SetPages(c, v)
  /\ pend' = TRUE
  /\ UNCHANGED <<pc, todo, size, syncs, failed, volume>>

(* expand_special_file(): must the metadata area grow for one more chunk?  *)
(* free_blocks counts a bitmap chunk as large as a b-tree node.            *)
Unit == BlksInLeb * BlksInPage

MustExpand(c) ==
  LET used  == Unit * Cardinality({d \in Chunk : Has(tab, d)})
      fresh == IF c[1] \in Trees THEN Unit ELSE BlksInPage
  IN  (size - used) - fresh < size \div 2

SizeFor(c) == IF MustExpand(c) THEN size + ExpandStep ELSE size

(* Chunk c is the one after the last of its file: the file ends before it. *)
IsNextChunk(c) == ~Has(tab, c) /\ (c[2] > 0 => Has(tab, <<c[1], c[2] - 1>>))

(* vdfs2_check_page_offset() for that chunk: expand_area() when needed (no *)
(* space: the call fails and nothing changes), insert_new_iblocks(), and   *)
(* the caller's vdfs2_mark_bnode_dirty() or vdfs2_add_chunk_bitmap().      *)
Expand(c, v) ==
  /\ pc = "idle" /\ IsNextChunk(c)
  /\ SizeFor(c) <= MaxTbc
  /\ size' = SizeFor(c)
  /\ \E p \in Block :
       /\ IsNewIblock(c, snap, SizeFor(c), hint[HintOf(c)], p)
       /\ Take(c, p)
       /\ next' = next \cup Region(c, p)
       /\ tab'  = [tab EXCEPT ![c] = p]
  /\ SetPages(c, v)
  /\ pend' = TRUE
  /\ UNCHANGED <<pc, todo, syncs, failed, volume>>

--------------------------------------------------------------------------
(* vdfs2_sync_metadata(), called with transaction_lock held for writing so *)
(* that nobody changes metadata until it returns.  Nothing moved since the *)
(* last commit: success.                                                   *)
SyncNothing ==
  /\ pc = "idle" /\ ~pend
  /\ ret' = "ok"
  /\ UNCHANGED <<pc, tab, mem, dirty, todo, snap, next, moved, size, hint, pend, syncs, failed, volume>>

(* Mutants: vdfs2_next_mapping() leaves the bitmap files out; the table is *)
(* written before the pages.                                               *)
CommitBeginTreesOnly ==
  /\ pc = "idle" /\ pend /\ syncs < MaxSync
  /\ pc' = "meta"
  /\ syncs' = syncs + 1
  /\ todo' = {e \in dirty \X Block : e[1][1] \in Trees /\ e[2] \in Region(e[1], tab[e[1]])}
  /\ dirty' = {}
  /\ UNCHANGED <<tab, mem, snap, next, moved, size, hint, pend, ret, failed, volume>>

CommitBeginTableFirst ==
  /\ pc = "idle" /\ pend /\ syncs < MaxSync
  /\ pc' = "meta"
  /\ syncs' = syncs + 1
  /\ todo' = {e \in dirty \X Block : e[2] \in Region(e[1], tab[e[1]])}
  /\ dirty' = {}
  /\ ctab' = tab /\ csize' = size
  /\ UNCHANGED <<tab, mem, snap, next, moved, size, hint, pend, ret, failed, blk>>

(* get_pages_from_mapping() takes the dirty pages of all special files.    *)
CommitBegin ==
  /\ pc = "idle" /\ pend /\ syncs < MaxSync
  /\ pc' = "meta"
  /\ syncs' = syncs + 1
  /\ todo' = {e \in dirty \X Block : e[2] \in Region(e[1], tab[e[1]])}
  /\ dirty' = {}
  /\ UNCHANGED <<tab, mem, snap, next, moved, size, hint, pend, ret, failed, volume>>

(* One page of vdfs2_meta_write() reaches the volume, in any order. *)
WritePage(c, b) ==
  /\ pc = "meta" /\ <<c, b>> \in todo
  /\ blk' = [blk EXCEPT ![b] = <<c, mem[c]>>]
  /\ todo' = todo \ {<<c, b>>}
  /\ UNCHANGED <<pc, tab, mem, dirty, snap, next, moved, size, hint, pend, ret, syncs, failed, ctab, csize>>

(* vdfs2_sign_mapping_pages() gets no memory for a page and returns only   *)
(* what happened to the last one of its vector.  Another one is written    *)
(* with the signature it had, which the next read refuses.                 *)
SignUnseen(c, b) ==
  /\ pc = "meta" /\ "sign" \in Faults /\ <<c, b>> \in todo
  /\ \E e \in todo : e[1][1] = c[1] /\ e[1][2] > c[2]
  /\ blk' = [blk EXCEPT ![b] = Junk]
  /\ todo' = todo \ {<<c, b>>}
  /\ failed' = failed \cup {"sign"}
  /\ UNCHANGED <<pc, tab, mem, dirty, snap, next, moved, size, hint, pend, ret, syncs, ctab, csize>>

(* It fails for the last page and vdfs2_meta_write() returns: the pages    *)
(* taken and not submitted are neither dirty nor written; the chunks not   *)
(* taken yet (later) are dirty as before.                                  *)
SignFails(later) ==
  /\ pc = "meta" /\ "sign" \in Faults
  /\ later \subseteq {e[1] : e \in todo}
  /\ \A c \in later : {c} \X Region(c, tab[c]) \subseteq todo
  /\ \E e \in todo : e[1] \notin later
  /\ pc' = "idle"
  /\ dirty' = later /\ todo' = {}
  /\ ret' = "err" /\ failed' = failed \cup {"sign"}
  /\ UNCHANGED <<tab, mem, snap, next, moved, size, hint, pend, syncs, volume>>

(* The commit is given up after the pages were written: fsm_get_tree()     *)
(* fails, or nothing was dirty and the uninitialised ret of                *)
(* vdfs2_meta_write() is not zero.  dirty_pages_count and moved stay.      *)
MetaAbort ==
  /\ pc = "meta" /\ todo = {}
  /\ pc' = "idle"
  /\ ret' = "err"
  /\ UNCHANGED <<tab, mem, dirty, todo, snap, next, moved, size, hint, pend, syncs, failed, volume>>

(* Mutants: moved_iblock is not cleared; the old snapshot stays reserved   *)
(* for ever.                                                               *)
UpdateBitmapsKeepMoved ==
  /\ pc = "meta" /\ todo = {}
  /\ pc' = "tables"
  /\ snap' = next
  /\ UNCHANGED <<tab, mem, dirty, todo, next, moved, size, hint, pend, ret, syncs, failed, volume>>

UpdateBitmapsNoCopy ==
  /\ pc = "meta" /\ todo = {}
  /\ pc' = "tables"
  /\ moved' = {}
  /\ UNCHANGED <<tab, mem, dirty, todo, snap, next, size, hint, pend, ret, syncs, failed, volume>>

(* All pages written: vdfs2_update_bitmaps(). *)
UpdateBitmaps ==
  /\ pc = "meta" /\ todo = {}
  /\ pc' = "tables"
  /\ snap' = next /\ moved' = {}
  /\ UNCHANGED <<tab, mem, dirty, todo, next, size, hint, pend, ret, syncs, failed, volume>>

(* vdfs2_update_translation_tables() succeeds: the new snapshot is in      *)
(* force.                                                                  *)
UpdateTables ==
  /\ pc = "tables"
  /\ pc' = "idle"
  /\ ctab' = tab /\ csize' = size
  /\ pend' = FALSE
  /\ ret' = "ok" /\ failed' = failed \ {"table"}
  /\ UNCHANGED <<tab, mem, dirty, todo, snap, next, moved, size, hint, syncs, blk>>

(* vdfs2_table_IO() gets no memory: dirty_pages_count is cleared all the   *)
(* same.                                                                   *)
UpdateTablesFails ==
  /\ pc = "tables" /\ "table" \in Faults
  /\ pc' = "idle"
  /\ pend' = FALSE
  /\ ret' = "err" /\ failed' = failed \cup {"table"}
  /\ UNCHANGED <<tab, mem, dirty, todo, snap, next, moved, size, hint, syncs, volume>>

(* Power failure, at any moment; or vdfs2_put_super(). *)
PowerOff ==
  /\ pc # "off"
  /\ pc' = "off"
  /\ Forget
  /\ UNCHANGED <<syncs, volume>>

Next ==
  \/ Mount
  \/ \E c \in Chunk, v \in Val : ChangeInPlace(c, v)
  \/ \E c \in Chunk, v \in Val : ChangeAndMove(c, v)
  \/ \E c \in Chunk, v \in Val : Expand(c, v)
  \/ SyncNothing
  \/ CommitBegin
  \/ \E c \in Chunk, b \in Block : WritePage(c, b)
  \/ \E c \in Chunk, b \in Block : SignUnseen(c, b)
  \/ \E later \in SUBSET Chunk : SignFails(later)
  \/ MetaAbort
  \/ UpdateBitmaps
  \/ UpdateTables
  \/ UpdateTablesFails
  \/ PowerOff

Spec == Init /\ [][Next]_vars

--------------------------------------------------------------------------
(* Every variable keeps its type: a chunk never gets a place outside the   *)
(* metadata area and the hint never leaves the bitmap.                     *)
TypeOK ==
  /\ pc \in {"off", "idle", "meta", "tables"}
  /\ tab \in [Chunk -> Block \cup {NoBlk}]
  /\ mem \in [Chunk -> Val \cup {NoVal, Junk}]
  /\ dirty \subseteq Chunk
  /\ todo \subseteq Chunk \X Block
  /\ snap \subseteq Block /\ next \subseteq Block /\ moved \subseteq Block
  /\ size \in 0 .. MaxTbc /\ csize \in 0 .. MaxTbc
  /\ hint \in [{"btree", "bitmaps"} -> 0 .. MaxTbc]
  /\ pend \in BOOLEAN /\ ret \in {"none", "ok", "err"}
  /\ syncs \in 0 .. MaxSync /\ failed \subseteq {"sign", "table"}
  /\ blk \in [Block -> Content]
  /\ ctab \in [Chunk -> Block \cup {NoBlk}]

Disjoint(t) == \A c, d \in Chunk : Has(t, c) /\ Has(t, d) /\ c # d
                  => Region(c, t[c]) \cap Region(d, t[d]) = {}

(* Two chunks never share a block, in the tables in memory and on the      *)
(* volume, and next_snapshot_bitmap holds exactly the blocks of the tables *)
(* in memory: what move_iblock(), insert_new_iblocks() and                 *)
(* vdfs2_update_bitmaps() do to table and bitmaps in separate places       *)
(* agrees, whatever fails.                                                 *)
NoSharedChunk == /\ Disjoint(tab) /\ Disjoint(ctab)
                 /\ next = Used(tab)

CommittedReserved ==
  pc \in {"idle", "meta"} => /\ Used(ctab) \cup Used(tab) \subseteq snap
                             /\ moved \cap Used(ctab) = {}

(* snapshot_bitmap covers the snapshot on the volume and the one being     *)
(* built, so that get_new_meta_iblock() never returns a block of either,   *)
(* at any time a chunk may move.  Only a failed table write breaks this,   *)
(* until the next complete commit or the next mount.                       *)
CommittedProtected == "table" \notin failed => CommittedReserved

(* A page write never hits a block of the committed snapshot, with the     *)
(* same exception.                                                         *)
CommittedNeverOverwritten ==
  [][\A b \in Used(ctab) : "table" \notin failed => blk'[b] = blk[b]]_vars

(* What the next mount will read. *)
durableNow == [c \in Chunk |-> ReadBack(ctab, c, blk)]

(* After a sync that returned success the next mount finds the metadata    *)
(* the driver had in memory.                                               *)
SyncMeansDurable ==
  ret = "ok" => durableNow = mem

(* A commit that gets as far as writing its table makes everything in      *)
(* memory durable, even when earlier commits failed to write theirs and    *)
(* forgot dirty_pages_count; only pages that a failed signing took, or     *)
(* left unsigned, are lost.                                                *)
LaterCommitRepairs ==
  [][UpdateTables /\ "sign" \notin failed => durableNow' = mem]_vars

(* At any moment, in the middle of a commit too, a mount would find every  *)
(* chunk of the committed table complete and its own.                      *)
MountReadable == \A c \in Chunk : ReadBack(ctab, c, blk) # Junk

(* get_new_meta_iblock() never hits its BUG(): whenever a chunk has to     *)
(* move, or a new one is inserted, there is a place for it.                *)
NoMetaExhaustion ==
  pc = "idle" => \A c \in Chunk :
    /\ Has(tab, c) /\ MustMove(c)
         => \E p \in Block : IsZeroArea(snap, size, p, Nr(c[1]))
    /\ IsNextChunk(c) /\ SizeFor(c) <= MaxTbc
         => \E p \in Block : IsZeroArea(snap, SizeFor(c), p, Nr(c[1]))

(* The metadata implements the atomic store: a commit takes effect at once *)
(* and a power failure in the middle of one leaves the previous commit.    *)
Abs == INSTANCE AtomicMeta WITH
         up <- pc # "off", durable <- durableNow,
         mem <- IF pc = "off" THEN durableNow ELSE mem

Atomic == Abs!Spec
==========================================================================
