---------------------------- MODULE SmallFiles ----------------------------
(***************************************************************************)
(* Tiny and small files (small.c, inode.c, orphan.c).                      *)
(*                                                                         *)
(* A file is created tiny: its data is in its catalog record.  When it no  *)
(* longer fits it becomes small, with a cell of the small files area, or   *)
(* ordinary, with blocks of its own.  A write changes the first page of    *)
(* the page cache and the inode; data moves to the record, to the cell or  *)
(* to blocks at writeback, and only then is a cell taken.  The limits are  *)
(* "at most" when written and "less than" at writeback, so that a file of  *)
(* exactly the limit moves on when it is written back.                     *)
(*                                                                         *)
(* The bitmap of the cells is metadata.  The area itself is data: it is    *)
(* written in place, at once by a writeback for a sync, or only to its     *)
(* page by a background writeback.  A freed cell may be taken at once.     *)
(*                                                                         *)
(* Data is counted in units; a unit is Zero, or was written to the file it *)
(* names, or is Junk: memory or a block that was not cleared.  The files   *)
(* fit in one page of one block and the cells in one page of the area.     *)
(* hurt names files a defect of the code hit: see Properties.              *)
(***************************************************************************)
EXTENDS Integers, FiniteSets

CONSTANTS
  File,            \* inode numbers; also the units written to them
  Zero,            \* an empty unit
  Junk,            \* a unit nobody wrote
  TINY_DATA_SIZE,  \* units that fit in a catalog record
  cell_size,       \* units of a cell
  PageSize,        \* bound: units of the first page, and of a file
  NumCells,        \* bound: cells of the area, which grows without a limit
  NoCell,          \* ULLONG_MAX
  NoPage,          \* the first page is not in the cache
  NoWrite,         \* no write is between its two halves
  Writes,          \* bound: <<position, units>> of the writes
  Sizes,           \* bound: sizes files are truncated or extended to
  MaxOps,          \* bound: writes, truncations, removals and failures
  Faults           \* "area" (a cell or its page), "nospace" (blocks)

ASSUME SmallConstants ==
  /\ TINY_DATA_SIZE \in Nat /\ cell_size \in Nat /\ PageSize \in Nat
  /\ 0 < TINY_DATA_SIZE /\ TINY_DATA_SIZE < cell_size /\ cell_size < PageSize
  /\ NumCells \in Nat \ {0} /\ NoCell \notin 0 .. NumCells - 1
  /\ NoPage \notin [0 .. PageSize - 1 -> File \cup {Zero, Junk}]
  /\ Zero \notin File /\ Junk \notin File \cup {Zero}
  /\ \A w \in Writes : w[1] \in Nat /\ w[2] \in Nat \ {0} /\ w[1] + w[2] <= PageSize
  /\ Sizes \subseteq 0 .. PageSize
  /\ MaxOps \in Nat /\ Faults \subseteq {"area", "nospace"}

VARIABLES
  ino,      \* inode in memory, see MkInode
  rec,      \* its record in the catalog tree
  orphan,   \* unlinked files with a record in the orphan directory
  page,     \* first page of the file in the page cache, up to date
  bh,       \* its buffer: "none", "unmapped" or "mapped"
  dirty,    \* files whose page is dirty
  list,     \* dirty_list_head
  mid,      \* a write that gave up its locks half way: <<position, units>>
  bits,     \* bitmap of the cells
  area,     \* pages of the small files area
  disk,     \* the area on the volume
  blk,      \* data in the blocks of ordinary files
  com,      \* the committed snapshot
  want,     \* ghost: what the writes and truncations should have made
  touched,  \* ghost: files changed since the commit
  reused,   \* ghost: cells of the snapshot that were written for another file
  unsafe,   \* ghost: files committed before their cell was written
  failed,   \* ghost: cells taken by a writeback that failed
  hurt,     \* ghost
  ops       \* operations so far

ghosts == <<want, touched, reused, unsafe, failed, hurt>>
vars   == <<ino, rec, orphan, page, bh, dirty, list, mid, bits, area, disk,
            blk, com, ghosts, ops>>

Cell == 0 .. NumCells - 1
Pos  == 0 .. PageSize - 1

ZeroPage == [i \in Pos |-> Zero]
JunkPage == [i \in Pos |-> Junk]
ZeroData == [i \in 0 .. TINY_DATA_SIZE - 1 |-> Zero]
(* The kind is "tiny", "small", "ordinary" or "none"; len is the length of *)
(* what is stored, data that of a tiny file and cell that of a small one.  *)
(* ext tells of the fork of an ordinary file: no block, a block that was   *)
(* never written ("raw") or one that was ("data").                         *)
MkInode(kind, size, len) ==
  [kind |-> kind, size |-> size, len |-> len, cell |-> NoCell,
   data |-> ZeroData, ext |-> "none"]
None == MkInode("none", 0, 0)

Snapshot == [rec |-> rec, bits |-> bits, orphan |-> orphan,
             want |-> want, hurt |-> hurt]

Init ==
  /\ ino = [f \in File |-> None] /\ rec = ino /\ orphan = {}
  /\ page = [f \in File |-> NoPage] /\ bh = [f \in File |-> "none"]
  /\ dirty = {} /\ list = {} /\ mid = [f \in File |-> NoWrite]
  /\ bits = {} /\ area = [u \in 0 .. NumCells * cell_size - 1 |-> Junk]
  /\ disk = area /\ blk = [f \in File |-> JunkPage]
  /\ want = [f \in File |-> <<0, ZeroPage>>]
  /\ touched = {} /\ reused = {} /\ unsafe = {} /\ failed = {} /\ hurt = {}
  /\ com = Snapshot
  /\ ops = 0

Larger(m, n) == IF m >= n THEN m ELSE n

(* Page p after n units of f were written from position pos. *)
Fill(p, f, pos, n) == [i \in Pos |-> IF i >= pos /\ i < pos + n THEN f ELSE p[i]]
Cut(p, n)          == [i \in Pos |-> IF i < n THEN p[i] ELSE Zero]

(* The area after n units of page p were written from unit u on. *)
Put(a, u, p, n) ==
  [v \in DOMAIN a |-> IF v >= u /\ v < u + n THEN p[v - u] ELSE a[v]]

(* Mutant: the record is left for later. *)
RecordLater(f, x) ==
  /\ ino' = [ino EXCEPT ![f] = x]
  /\ UNCHANGED rec
  /\ list' = list \cup {f}

(* vdfs2_write_inode_to_bnode() for inode x. *)
vdfs2_write_inode_to_bnode(f, x) ==
  /\ ino' = [ino EXCEPT ![f] = x]
  /\ rec' = [rec EXCEPT ![f] = x]
  /\ list' = list \cup {f}

(* Unit i of what is stored.  Nothing asks whether a small file has a cell *)
(* (cell -1): the memory of a page that belongs to no cell is copied.      *)
Stored(f, i) ==
  LET x == ino[f]
      u == x.cell * cell_size + i
  IN IF x.kind = "tiny"
       THEN IF i < TINY_DATA_SIZE THEN x.data[i] ELSE Junk
       ELSE IF x.cell # NoCell /\ u \in DOMAIN area THEN area[u] ELSE Junk

(* What is stored is copied, and the page cleared from there to the size;  *)
(* behind it is what was there before, t.                                  *)
read_tiny_small_page(f, t) ==
  [i \in Pos |-> IF i >= ino[f].size THEN t
                 ELSE IF i >= ino[f].len THEN Zero ELSE Stored(f, i)]

(* mpage_read_folio(): a file without the block is empty there. *)
ReadBlock(f) ==
  IF ino[f].ext = "none" THEN ZeroPage
  ELSE IF ino[f].ext = "raw" THEN JunkPage ELSE blk[f]

Read(f, t) == IF ino[f].kind \in {"tiny", "small"} THEN read_tiny_small_page(f, t)
                                                   ELSE ReadBlock(f)

(* vdfs2_get_tinysmall_page(), which gets a cleared page, and the page of  *)
(* a generic write.                                                        *)
GetPage(f) == IF page[f] = NoPage THEN Read(f, Zero) ELSE page[f]

(* Units of page p that nobody asked for appear between n and m. *)
Exposed(p, n, m) == \E i \in Pos : i >= n /\ i < m /\ p[i] # Zero

(* A write at pos, behind the end, leaves what is in between. *)
Gap(f, pos) == IF Exposed(GetPage(f), ino[f].size, pos) THEN {f} ELSE {}

vdfs2_get_free_cell == CHOOSE c \in Cell \ bits : \A d \in Cell \ bits : c <= d

Take(c) ==
  /\ bits' = bits \cup {c}
  /\ reused' = IF c \in com.bits THEN reused \cup {c} ELSE reused

(* Mutant: the bit stays set. *)
FreeKeeps(c) == c \in Cell \cup {NoCell} /\ UNCHANGED bits

(* vdfs2_free_cell() *)
FreeCell(c) == bits' = bits \ {c}

(* What f should be after a write. *)
Wanted(f, pos, n) ==
  /\ want' = [want EXCEPT ![f] = <<Larger(@[1], pos + n), Fill(@[2], f, pos, n)>>]
  /\ touched' = touched \cup {f}

---------------------------------------------------------------------------
(* Writes: vdfs2_file_write_iter(), process_tiny_small_file(). *)

vdfs2_create(f) ==
  /\ ino[f].kind = "none"
  /\ vdfs2_write_inode_to_bnode(f, MkInode("tiny", 0, 0))
  /\ want' = [want EXCEPT ![f] = <<0, ZeroPage>>]
  /\ touched' = touched \cup {f}
  /\ UNCHANGED <<orphan, page, bh, dirty, mid, bits, area, disk, blk, com, reused,
                 unsafe, failed, hurt, ops>>

(* len becomes the end of this write, whatever was there before; the       *)
(* writeback sets it to the size.                                          *)
write_tiny_small_file(f, pos, n) ==
  /\ ops < MaxOps
  /\ \/ ino[f].kind = "tiny" /\ pos + n <= TINY_DATA_SIZE
     \/ ino[f].kind = "small" /\ pos + n <= cell_size
  /\ page' = [page EXCEPT ![f] = Fill(GetPage(f), f, pos, n)]
  /\ dirty' = dirty \cup {f}
  /\ vdfs2_write_inode_to_bnode(f,
       [ino[f] EXCEPT !.len = pos + n, !.size = Larger(@, pos + n)])
  /\ Wanted(f, pos, n) /\ ops' = ops + 1
  /\ hurt' = hurt \cup Gap(f, pos)
  /\ UNCHANGED <<orphan, bh, mid, bits, area, disk, blk, com, reused, unsafe,
                 failed>>

(* The new length is the old one plus what is written, even if the write   *)
(* does not start at the end: the file may become too long.                *)
convert_tiny_file_to_small_file(f, pos, n) ==
  LET len  == Larger(ino[f].len + n, pos + n)
      size == Larger(ino[f].size, len)
  IN /\ ops < MaxOps
     /\ ino[f].kind = "tiny"
     /\ pos + n > TINY_DATA_SIZE /\ pos + n <= cell_size
     /\ size <= PageSize
     /\ page' = [page EXCEPT ![f] = Fill(GetPage(f), f, pos, n)]
     /\ dirty' = dirty \cup {f}
     /\ vdfs2_write_inode_to_bnode(f, MkInode("small", size, len))
     /\ Wanted(f, pos, n) /\ ops' = ops + 1
     /\ hurt' = hurt \cup Gap(f, pos) \cup (IF size = want'[f][1] THEN {} ELSE {f})
     /\ UNCHANGED <<orphan, bh, mid, bits, area, disk, blk, com, reused, unsafe,
                    failed>>

(* The record is not written; the write goes on without the locks. *)
convert_tiny_file_to_ordinary_file(f, pos, n) ==
  /\ ops < MaxOps
  /\ ino[f].kind = "tiny" /\ pos + n > cell_size
  /\ ino' = [ino EXCEPT ![f] = MkInode("ordinary", @.size, 0)]
  /\ page' = [page EXCEPT ![f] = GetPage(f)]
  /\ dirty' = dirty \cup {f}
  /\ mid' = [mid EXCEPT ![f] = <<pos, n>>] /\ ops' = ops + 1
  /\ UNCHANGED <<rec, orphan, bh, list, bits, area, disk, blk, com, ghosts>>

make_small_file_ordinary(f) ==
  /\ FreeCell(ino[f].cell)
  /\ vdfs2_write_inode_to_bnode(f, MkInode("ordinary", ino[f].size, 0))

convert_small_file_to_ordinary_file(f, pos, n) ==
  /\ ops < MaxOps
  /\ ino[f].kind = "small" /\ pos + n > cell_size
  /\ make_small_file_ordinary(f)
  /\ page' = [page EXCEPT ![f] = GetPage(f)]
  /\ dirty' = dirty \cup {f}
  /\ mid' = [mid EXCEPT ![f] = <<pos, n>>]
  /\ touched' = touched \cup {f} /\ ops' = ops + 1
  /\ UNCHANGED <<orphan, bh, area, disk, blk, com, want, reused, unsafe, failed,
                 hurt>>

(* A generic write is the other half of a conversion, or one of its own,   *)
(* which no lock keeps out in between.                                     *)
EitherHalf(f, pos, n) ==
  \/ mid[f] = <<pos, n>> /\ mid' = [mid EXCEPT ![f] = NoWrite] /\ ops' = ops
  \/ ops < MaxOps /\ mid' = mid /\ ops' = ops + 1

(* generic_file_write_iter() of an ordinary file: vdfs2_write_begin()      *)
(* reserves a block, vdfs2_write_end() sets the size.                      *)
GenericWrite(f, pos, n) ==
  /\ ino[f].kind = "ordinary"
  /\ EitherHalf(f, pos, n)
  /\ page' = [page EXCEPT ![f] = Fill(GetPage(f), f, pos, n)]
  /\ bh' = [bh EXCEPT ![f] = "mapped"]
  /\ dirty' = dirty \cup {f}
  /\ IF pos + n > ino[f].size
       THEN vdfs2_write_inode_to_bnode(f, [ino[f] EXCEPT !.size = pos + n])
       ELSE UNCHANGED <<ino, rec, list>>
  /\ Wanted(f, pos, n)
  /\ hurt' = hurt \cup Gap(f, pos)
  /\ UNCHANGED <<orphan, bits, area, disk, blk, com, reused, unsafe, failed>>

(* No space is left to reserve; the page has got its buffer already. *)
GenericWriteFails(f, pos, n) ==
  /\ "nospace" \in Faults
  /\ ino[f].kind = "ordinary" /\ ino[f].ext = "none" /\ bh[f] # "mapped"
  /\ EitherHalf(f, pos, n)
  /\ bh' = [bh EXCEPT ![f] = "unmapped"]
  /\ UNCHANGED <<ino, rec, orphan, page, dirty, list, bits, area, disk, blk, com,
                 ghosts>>

(* vdfs2_truncate_pages(): block_truncate_page() clears the rest of a page *)
(* that has a block and marks it dirty, and leaves an unmapped buffer on   *)
(* one that has none; then the page cache is truncated.                    *)
vdfs2_truncate_pages(f, n) ==
  LET part == n # 0 /\ n # PageSize
      held == ino[f].kind = "ordinary" /\ (ino[f].ext # "none" \/ bh[f] = "mapped")
      old  == IF part /\ held THEN GetPage(f) ELSE page[f]
  IN /\ page' = [page EXCEPT ![f] = IF n = 0 \/ old = NoPage THEN NoPage ELSE Cut(old, n)]
     /\ bh' = [bh EXCEPT ![f] = IF n = 0 THEN "none"
                                ELSE IF part /\ held THEN "mapped"
                                ELSE IF part /\ @ = "none" THEN "unmapped" ELSE @]
     /\ dirty' = IF n = 0 THEN dirty \ {f}
                 ELSE IF part /\ held THEN dirty \cup {f} ELSE dirty

(* vdfs2_setattr(), vdfs2_update_inode(): a shrinking file gets its new    *)
(* size as length, also when less was stored, and old units may reappear.  *)
(* A growing one shows what the page, or what it is read from again, has   *)
(* behind the end.                                                         *)
vdfs2_update_inode(f, n) ==
  LET x == ino[f]
      less == n < x.size /\ x.kind # "ordinary"
  IN /\ x.kind # "none" /\ n # x.size /\ ops < MaxOps
     /\ vdfs2_truncate_pages(f, n)
     /\ vdfs2_write_inode_to_bnode(f,
          [x EXCEPT !.size = n, !.len = IF less THEN n ELSE @,
                    !.ext = IF n = 0 THEN "none" ELSE @])
     /\ hurt' = IF \/ less /\ n > x.len /\ f \notin dirty
                   \/ Exposed(GetPage(f), x.size, n)
                   \/ f \notin dirty' /\ Exposed(Read(f, Zero), x.size, n)
                  THEN hurt \cup {f} ELSE hurt
     /\ want' = [want EXCEPT ![f] = <<n, Cut(@[2], n)>>]
     /\ touched' = touched \cup {f} /\ ops' = ops + 1
     /\ UNCHANGED <<orphan, mid, bits, area, disk, blk, com, reused, unsafe, failed>>

---------------------------------------------------------------------------
(* Writeback. *)

(* The area page goes to the volume at once when the writeback is for a    *)
(* sync, with all the cells in it.                                         *)
ToVolume(sync) ==
  IF sync THEN disk' = area' /\ unsafe' = {} ELSE UNCHANGED <<disk, unsafe>>

(* The cell to be written, taken if the file has none. *)
HasCell(f) == ino[f].cell # NoCell \/ bits # Cell
CellOf(f) == IF ino[f].cell = NoCell THEN vdfs2_get_free_cell ELSE ino[f].cell

TakeCellOf(f) ==
  IF ino[f].cell = NoCell THEN Take(CellOf(f)) ELSE UNCHANGED <<bits, reused>>

(* writepage_tiny(), a file that is really tiny. *)
writepage_tiny(f) ==
  /\ f \in dirty /\ ino[f].kind = "tiny" /\ ino[f].size < TINY_DATA_SIZE
  /\ vdfs2_write_inode_to_bnode(f,
       [ino[f] EXCEPT !.data = [i \in DOMAIN @ |->
                                  IF i < ino[f].size THEN page[f][i] ELSE @[i]],
                      !.len = ino[f].size])
  /\ dirty' = dirty \ {f}
  /\ UNCHANGED <<orphan, page, bh, mid, bits, area, disk, blk, com, ghosts, ops>>

(* The length stored with the data: a write may have left a shorter one. *)
StoredLen(f) == IF ino[f].kind = "tiny" THEN ino[f].size
                                        ELSE Larger(ino[f].len, ino[f].size)

(* A file whose page goes to a cell: a small one, or a tiny one that       *)
(* becomes small now.                                                      *)
GoesToCell(f) ==
  /\ f \in dirty /\ ino[f].size < cell_size
  /\ \/ ino[f].kind = "tiny" /\ ino[f].size >= TINY_DATA_SIZE
     \/ ino[f].kind = "small"

(* Mutant: the beginning of the area, as in reclaim. *)
PutAtStart(f) == Put(area, 0, page[f], ino[f].size)

PutInCell(f) == Put(area, CellOf(f) * cell_size, page[f], ino[f].size)

write_small_file_page(f, sync) ==
  /\ GoesToCell(f) /\ HasCell(f)
  /\ TakeCellOf(f)
  /\ area' = PutInCell(f)
  /\ vdfs2_write_inode_to_bnode(f,
       [MkInode("small", ino[f].size, StoredLen(f)) EXCEPT !.cell = CellOf(f)])
  /\ ToVolume(sync)
  /\ dirty' = dirty \ {f}
  /\ UNCHANGED <<orphan, page, bh, mid, blk, com, want, touched, failed, hurt, ops>>

(* No cell is got; or the page of the area cannot be read, when cell c was *)
(* taken; or it cannot be written at once, when it was filled.             *)
CellFails(f, c) ==
  \/ /\ c = NoCell /\ ino[f].cell = NoCell
     /\ UNCHANGED <<bits, reused, area, failed>>
  \/ /\ HasCell(f) /\ c = CellOf(f)
     /\ TakeCellOf(f)
     /\ area' \in {area, PutInCell(f)}
     /\ failed' = failed \cup {c}

(* The record is not written.  A tiny file stays dirty, as a small one;    *)
(* the page of a small file is marked clean and its data lost.             *)
WritebackFails(f) ==
  LET tiny == ino[f].kind = "tiny"
      x == IF tiny THEN MkInode("small", ino[f].size, ino[f].size) ELSE ino[f]
  IN /\ "area" \in Faults /\ ops < MaxOps
     /\ GoesToCell(f)
     /\ \E c \in Cell \cup {NoCell} :
          CellFails(f, c) /\ ino' = [ino EXCEPT ![f] = [x EXCEPT !.cell = c]]
     /\ dirty' = IF tiny THEN dirty ELSE dirty \ {f}
     /\ hurt' = IF tiny THEN hurt ELSE hurt \cup {f}
     /\ ops' = ops + 1
     /\ UNCHANGED <<rec, orphan, page, bh, list, mid, disk, blk, com, want, touched,
                    unsafe>>

(* A dirty page that goes to a block: that of an ordinary file, or of one  *)
(* that is too large for its kind and becomes ordinary now.                *)
GoesToBlock(f) ==
  /\ f \in dirty
  /\ \/ ino[f].kind \in {"tiny", "small"} /\ ino[f].size >= cell_size
     \/ ino[f].kind = "ordinary"

(* The record is written when the file becomes ordinary or gets its block  *)
(* (that the block is no longer raw is not in the record).                 *)
BecomesOrdinary(f, ext) ==
  /\ IF ino[f].kind = "small" THEN FreeCell(ino[f].cell) ELSE UNCHANGED bits
  /\ IF ino[f].kind # "ordinary" \/ ext # ino[f].ext
       THEN vdfs2_write_inode_to_bnode(f,
              [MkInode("ordinary", ino[f].size, 0) EXCEPT !.ext = ext])
       ELSE UNCHANGED <<ino, rec, list>>

(* The page is cleared behind the end and written; at size 0 the block is  *)
(* allocated and nothing is written.                                       *)
vdfs2_mpage_writepages(f) ==
  LET n == ino[f].size
      p == Cut(page[f], n)
  IN /\ GoesToBlock(f) /\ bh[f] # "unmapped"
     /\ BecomesOrdinary(f, IF n > 0 THEN "data"
                           ELSE IF ino[f].ext = "none" THEN "raw" ELSE ino[f].ext)
     /\ IF n > 0 THEN page' = [page EXCEPT ![f] = p] /\ blk' = [blk EXCEPT ![f] = p]
                 ELSE UNCHANGED <<page, blk>>
     /\ bh' = [bh EXCEPT ![f] = "mapped"]
     /\ dirty' = dirty \ {f}
     /\ UNCHANGED <<orphan, mid, area, disk, com, ghosts, ops>>

(* A page that became dirty without a reservation finds no space.  It is   *)
(* clean then, unwritten, and no error is returned.                        *)
WritepageNoSpace(f) ==
  /\ "nospace" \in Faults /\ ops < MaxOps
  /\ GoesToBlock(f) /\ bh[f] = "none" /\ ino[f].ext = "none"
  /\ BecomesOrdinary(f, "none")
  /\ page' = [page EXCEPT ![f] = IF ino[f].size > 0 THEN Cut(@, ino[f].size) ELSE @]
  /\ bh' = [bh EXCEPT ![f] = "unmapped"]
  /\ dirty' = dirty \ {f}
  /\ hurt' = hurt \cup {f}
  /\ ops' = ops + 1
  /\ UNCHANGED <<orphan, mid, area, disk, blk, com, want, touched, reused, unsafe,
                 failed>>

(* A page with an unmapped buffer is not written but marked dirty again;   *)
(* its file has become ordinary.                                           *)
vdfs2_writepage(f) ==
  /\ GoesToBlock(f) /\ bh[f] = "unmapped" /\ ino[f].kind # "ordinary"
  /\ BecomesOrdinary(f, "none")
  /\ UNCHANGED <<orphan, page, bh, dirty, mid, area, disk, blk, com, ghosts, ops>>

(* The pages that no writeback writes until the next generic write. *)
Stuck == {f \in File : ino[f].kind = "ordinary" /\ bh[f] = "unmapped"}

(* The cells that n units from the beginning of the area reach into. *)
Beginning(n) == {c \in Cell : c * cell_size < n}

(* vdfs2_writepage() for memory reclaim.  Of a small file it fills the     *)
(* beginning of the page of the area, not its cell.  The page is marked    *)
(* dirty again.                                                            *)
write_tiny_small_page(f) ==
  /\ f \in dirty /\ ino[f].kind \in {"tiny", "small"}
  /\ ino[f].kind = "small" => HasCell(f)
  /\ IF ino[f].kind = "tiny"
       THEN /\ vdfs2_write_inode_to_bnode(f,
                 [ino[f] EXCEPT !.data = [i \in DOMAIN @ |->
                                   IF i < ino[f].len THEN page[f][i] ELSE @[i]]])
            /\ UNCHANGED <<bits, area, reused, hurt>>
       ELSE LET c == CellOf(f)
            IN /\ vdfs2_write_inode_to_bnode(f, [ino[f] EXCEPT !.cell = c])
               /\ bits' = bits \cup {c}
               /\ area' = Put(area, 0, page[f], ino[f].len)
               /\ reused' = reused \cup (({c} \cup Beginning(ino[f].len)) \cap com.bits)
               /\ hurt' = hurt \cup {g \in File \ {f} : /\ ino[g].kind = "small"
                                                       /\ ino[g].cell \in Beginning(ino[f].len)}
  /\ UNCHANGED <<orphan, page, bh, dirty, mid, disk, blk, com, want, touched, unsafe,
                 failed, ops>>

(* It fails: the page is clean already and is not marked dirty again. *)
ReclaimFails(f) ==
  /\ "area" \in Faults /\ ops < MaxOps
  /\ f \in dirty /\ ino[f].kind = "small"
  /\ \E c \in Cell \cup {NoCell} :
       CellFails(f, c) /\ ino' = [ino EXCEPT ![f].cell = c]
  /\ area' = area
  /\ dirty' = dirty \ {f}
  /\ hurt' = hurt \cup {f}
  /\ ops' = ops + 1
  /\ UNCHANGED <<rec, orphan, page, bh, list, mid, disk, blk, com, want, touched,
                 unsafe>>

(* Writeback of the area's own pages. *)
FlushArea ==
  /\ disk # area
  /\ disk' = area /\ unsafe' = {}
  /\ UNCHANGED <<ino, rec, orphan, page, bh, dirty, list, mid, bits, area, blk, com,
                 want, touched, reused, failed, hurt, ops>>

---------------------------------------------------------------------------
(* Cache, commit, removal, crash. *)

(* A new page of the cache is not cleared. *)
vdfs2_read_folio(f) ==
  /\ ino[f].kind # "none" /\ page[f] = NoPage
  /\ \E t \in IF bh[f] = "none" THEN {Zero, Junk} ELSE {Zero} :
       page' = [page EXCEPT ![f] = Read(f, t)]
  /\ UNCHANGED <<ino, rec, orphan, bh, dirty, list, mid, bits, area, disk, blk, com,
                 ghosts, ops>>

(* The page of the area cannot be read, for a read or for a write.  The    *)
(* page of the file is up to date all the same.                            *)
ReadFails(f) ==
  /\ "area" \in Faults /\ ops < MaxOps
  /\ ino[f].kind = "small" /\ page[f] = NoPage
  /\ \E p \in {ZeroPage, JunkPage} : page' = [page EXCEPT ![f] = p]
  /\ hurt' = hurt \cup {f}
  /\ ops' = ops + 1
  /\ UNCHANGED <<ino, rec, orphan, bh, dirty, list, mid, bits, area, disk, blk, com,
                 want, touched, reused, unsafe, failed>>

DropPage(f) ==
  /\ page[f] # NoPage \/ bh[f] # "none"
  /\ f \notin dirty
  /\ page' = [page EXCEPT ![f] = NoPage] /\ bh' = [bh EXCEPT ![f] = "none"]
  /\ UNCHANGED <<ino, rec, orphan, dirty, list, mid, bits, area, disk, blk, com,
                 ghosts, ops>>

(* A clean inode leaves memory and is read again from its record. *)
vdfs2_read_inode(f) ==
  /\ f \notin dirty /\ mid[f] = NoWrite /\ f \notin orphan
  /\ ino[f] # rec[f]
  /\ ino' = [ino EXCEPT ![f] = rec[f]]
  /\ page' = [page EXCEPT ![f] = NoPage] /\ bh' = [bh EXCEPT ![f] = "none"]
  /\ UNCHANGED <<rec, orphan, dirty, list, mid, bits, area, disk, blk, com, ghosts,
                 ops>>

(* The units of f in the area that are not on the volume. *)
Unwritten(f) ==
  /\ rec[f].kind = "small" /\ rec[f].cell # NoCell
  /\ \E i \in 0 .. cell_size - 1 :
       LET u == rec[f].cell * cell_size + i IN area[u] # disk[u]

Commits ==
  /\ com' = Snapshot
  /\ list' = {} /\ touched' = dirty /\ reused' = {}
  /\ UNCHANGED <<ino, rec, orphan, page, bh, dirty, mid, bits, area, blk, want, hurt,
                 failed, ops>>

(* sync(2), unmount and the delayed commit write every dirty inode, that   *)
(* of the area too, and commit when the dirty list is done.                *)
sync_filesystem ==
  /\ dirty \subseteq Stuck
  /\ disk' = area /\ unsafe' = {}
  /\ Commits

(* fsync commits when the dirty list is done; the pages of the area are    *)
(* not on it.                                                              *)
vdfs2_file_fsync ==
  /\ list \cap dirty \subseteq Stuck
  /\ unsafe' = {f \in File : Unwritten(f)} /\ disk' = disk
  /\ Commits

(* The new record, in the orphan directory, is filled from the inode. *)
vdfs2_unlink(f) ==
  /\ ino[f].kind # "none" /\ f \notin orphan /\ ops < MaxOps
  /\ orphan' = orphan \cup {f}
  /\ rec' = [rec EXCEPT ![f] = ino[f]]
  /\ touched' = touched \cup {f} /\ ops' = ops + 1
  /\ UNCHANGED <<ino, list, page, bh, dirty, mid, bits, area, disk, blk, com, want,
                 reused, unsafe, hurt, failed>>

(* vdfs2_evict_inode() of an unlinked file.  What hurt the file may have   *)
(* hurt it in the snapshot, too.                                           *)
vdfs2_kill_orphan_inode(f) ==
  /\ f \in orphan /\ mid[f] = NoWrite
  /\ IF ino[f].kind = "small" THEN FreeCell(ino[f].cell) ELSE UNCHANGED bits
  /\ orphan' = orphan \ {f}
  /\ ino' = [ino EXCEPT ![f] = None] /\ rec' = [rec EXCEPT ![f] = None]
  /\ page' = [page EXCEPT ![f] = NoPage] /\ bh' = [bh EXCEPT ![f] = "none"]
  /\ dirty' = dirty \ {f} /\ list' = list \ {f}
  /\ want' = [want EXCEPT ![f] = <<0, ZeroPage>>]
  /\ hurt' = hurt \ {f}
  /\ com' = [com EXCEPT !.hurt = @ \cup (hurt \cap {f})]
  /\ UNCHANGED <<mid, area, disk, blk, touched, reused, unsafe, failed, ops>>

(* A record that says more is stored in it than it holds. *)
Overlong(x) == x.kind = "tiny" /\ x.len > TINY_DATA_SIZE

(* Power fails; the next mount removes the orphans of the snapshot.  Of a  *)
(* file that was changed since the commit nothing more is asked than that  *)
(* what is found stays.                                                    *)
Crash ==
  LET left == {f \in File : com.rec[f].kind # "none"} \ com.orphan
      back == [f \in File |-> IF f \in left THEN com.rec[f] ELSE None]
      lost == {f \in left : \/ f \in unsafe \/ Overlong(com.rec[f])
                            \/ com.rec[f].kind = "small" /\ com.rec[f].cell \in reused}
  IN /\ ino' = back /\ rec' = back /\ orphan' = {}
     /\ page' = [f \in File |-> NoPage] /\ bh' = [f \in File |-> "none"]
     /\ dirty' = {} /\ list' = {} /\ mid' = [f \in File |-> NoWrite]
     /\ bits' = com.bits \ {com.rec[f].cell : f \in {g \in com.orphan :
                                                       com.rec[g].kind = "small"}}
     /\ area' = disk /\ disk' = disk /\ blk' = blk
     /\ hurt' = ((hurt \cup com.hurt) \cap left) \cup lost
     /\ com' = [com EXCEPT !.hurt = hurt']
     /\ want' = [f \in File |->
                   IF f \in touched \/ f \notin left
                     THEN <<back[f].size, Cut((Read(f, Zero))', back[f].size)>>
                     ELSE com.want[f]]
     /\ touched' = touched \cup com.orphan /\ reused' = {} /\ unsafe' = {}
     /\ failed' = failed /\ ops' = ops

Step(f) ==
  \/ vdfs2_create(f) \/ vdfs2_unlink(f) \/ vdfs2_kill_orphan_inode(f)
  \/ \E w \in Writes : LET pos == w[1]  n == w[2] IN
       \/ write_tiny_small_file(f, pos, n)
       \/ convert_tiny_file_to_small_file(f, pos, n)
       \/ convert_tiny_file_to_ordinary_file(f, pos, n)
       \/ convert_small_file_to_ordinary_file(f, pos, n)
       \/ GenericWrite(f, pos, n) \/ GenericWriteFails(f, pos, n)
  \/ \E n \in Sizes : vdfs2_update_inode(f, n)
  \/ writepage_tiny(f) \/ WritebackFails(f)
  \/ \E sync \in BOOLEAN : write_small_file_page(f, sync)
  \/ vdfs2_mpage_writepages(f) \/ WritepageNoSpace(f) \/ vdfs2_writepage(f)
  \/ write_tiny_small_page(f) \/ ReclaimFails(f)
  \/ vdfs2_read_folio(f) \/ ReadFails(f) \/ DropPage(f) \/ vdfs2_read_inode(f)

Next ==
  \/ \E f \in File : Step(f)
  \/ FlushArea \/ sync_filesystem \/ vdfs2_file_fsync \/ Crash

Spec == Init /\ [][Next]_vars

---------------------------------------------------------------------------
(* Properties.  hurt holds the files that one of these defects hit:        *)
(*  - a tiny file that becomes small by a write not at its end gets too    *)
(*    long (convert_tiny_file_to_small_file);                              *)
(*  - a file shrinks to more than what is stored of it, and old units      *)
(*    reappear (vdfs2_update_inode);                                       *)
(*  - a file grows, or is written behind its end, over memory that         *)
(*    read_tiny_small_page() did not clear, over a block that was          *)
(*    allocated and never written, or over what a block has behind the     *)
(*    end after a crash (vdfs2_update_inode, Gap);                         *)
(*  - the page of a small file counts as up to date although the area      *)
(*    could not be read (ReadFails), as clean although it could not be     *)
(*    written (WritebackFails, ReclaimFails), and so does the page of a    *)
(*    file that became ordinary and found no space (WritepageNoSpace);     *)
(*  - reclaim writes another file's page over its cell                     *)
(*    (write_tiny_small_page);                                             *)
(*  - after a crash: its cell had been given to another file already, or   *)
(*    fsync committed it before the area was written, or while its record  *)
(*    was Overlong (Crash).                                                *)

Owned(x) == {f \in File : x[f].kind = "small" /\ x[f].cell # NoCell}

(* The cell of a small file is marked in the bitmap and no other file has  *)
(* it, in memory and in the snapshot a crash leads back to; and no cell is *)
(* marked that no file has, unless a failing writeback took it.            *)
(* vdfs2_free_cell() therefore never meets a clear bit, which is a BUG().  *)
CellsOwned ==
  /\ \A f, g \in Owned(ino) : ino[f].cell = ino[g].cell => f = g
  /\ \A f \in Owned(ino) : ino[f].cell \in bits
  /\ \A f \in Owned(com.rec) : com.rec[f].cell \in com.bits
  /\ bits \ {ino[f].cell : f \in Owned(ino)} \subseteq failed

(* What a reader gets is what the writes and truncations made of the file, *)
(* through every conversion, writeback, failed write, reclaim and re-read, *)
(* for every file no defect hit; and after a crash too a file holds its    *)
(* own units and zeros, never those of another file or unwritten memory.   *)
(* Of every file no more is stored than its size, or the memset() of       *)
(* read_tiny_small_page() would run with a negative length.                *)
ContentExact ==
  \A f \in File :
    /\ ino[f].len <= ino[f].size
    /\ f \notin hurt /\ ino[f].kind # "none" =>
         /\ ino[f].size = want[f][1]
         /\ \A i \in 0 .. ino[f].size - 1 :
              GetPage(f)[i] = want[f][2][i] /\ GetPage(f)[i] \in {f, Zero}

(* An inode that may leave memory has its state in its record: nothing is  *)
(* forgotten by reading it again.                                          *)
RecordCurrent ==
  \A f \in File \ hurt : f \notin dirty /\ mid[f] = NoWrite => ino[f] = rec[f]

===========================================================================
