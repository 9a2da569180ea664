-------------------------- MODULE SmallFilesProofs --------------------------
(***************************************************************************)
(* Proofs about module SmallFiles, for every number of files and cells,    *)
(* every size of a cell and of a page, and every sequence of operations.   *)
(***************************************************************************)
EXTENDS SmallFiles, NatFacts, TLAPS

Unit  == File \cup {Zero, Junk}
Page  == [Pos -> Unit]
Units == 0 .. NumCells * cell_size - 1
Inode == [kind : {"none", "tiny", "small", "ordinary"}, size : 0 .. PageSize,
          len : 0 .. PageSize, cell : Cell \cup {NoCell},
          data : [0 .. TINY_DATA_SIZE - 1 -> Unit], ext : {"none", "raw", "data"}]

Types ==
  /\ ino \in [File -> Inode] /\ rec \in [File -> Inode] /\ com.rec \in [File -> Inode]
  /\ page \in [File -> Page \cup {NoPage}] /\ blk \in [File -> Page]
  /\ bh \in [File -> {"none", "unmapped", "mapped"}]
  /\ area \in [Units -> Unit] /\ disk \in [Units -> Unit]
  /\ bits \subseteq Cell /\ com.bits \subseteq Cell /\ reused \subseteq Cell
  /\ dirty \subseteq File /\ orphan \subseteq File /\ com.orphan \subseteq File
  /\ \A f \in dirty : page[f] # NoPage
  /\ com = [rec |-> com.rec, bits |-> com.bits, orphan |-> com.orphan,
            want |-> com.want, hurt |-> com.hurt]

---------------------------------------------------------------------------
(* Who has which cell.  An inode in memory may have a cell its record does *)
(* not name only after a failing writeback.                                *)
CellInv ==
  /\ \A f \in File : ino[f].kind # "small" => ino[f].cell = NoCell
  /\ \A f \in File : rec[f].kind # "small" => rec[f].cell = NoCell
  /\ \A f \in File : com.rec[f].kind # "small" => com.rec[f].cell = NoCell
  /\ \A f, g \in File : ino[f].cell = ino[g].cell /\ ino[f].cell # NoCell => f = g
  /\ \A f \in File : ino[f].cell # NoCell => ino[f].cell \in bits
  /\ \A f \in File : rec[f].cell # NoCell => rec[f].cell = ino[f].cell
  /\ \A f \in File : ino[f].cell # NoCell => rec[f].cell = ino[f].cell \/ ino[f].cell \in failed
  /\ \A c \in bits : c \in failed \/ \E f \in File : ino[f].cell = c

(* The same of the snapshot. *)
ComCellInv ==
  /\ \A f, g \in File : com.rec[f].cell = com.rec[g].cell /\ com.rec[f].cell # NoCell => f = g
  /\ \A f \in File : com.rec[f].cell # NoCell => com.rec[f].cell \in com.bits
  /\ \A c \in com.bits : c \in failed \/ \E f \in File : com.rec[f].cell = c

(* A clean inode has its state in its record, and so has one with a block, *)
(* which is an ordinary one.                                               *)
HasBlock(x) == x.ext # "none"
RecInv ==
  \A f \in File :
    /\ (f \notin hurt /\ f \notin dirty) \/ HasBlock(ino[f]) => ino[f] = rec[f]
    /\ HasBlock(ino[f]) => ino[f].kind = "ordinary"
    /\ HasBlock(rec[f]) => rec[f].kind = "ordinary"
    /\ HasBlock(com.rec[f]) => com.rec[f].kind = "ordinary"

SmallInv == Types /\ CellInv /\ ComCellInv /\ RecInv

---------------------------------------------------------------------------
(* The numbers of the cells, and the sizes. *)
LEMMA SizesOk ==
  /\ TINY_DATA_SIZE \in Nat /\ cell_size \in Nat /\ PageSize \in Nat /\ NumCells \in Nat
  /\ 0 < TINY_DATA_SIZE /\ TINY_DATA_SIZE < cell_size /\ cell_size < PageSize
  /\ Cell \subseteq Nat /\ NoCell \notin Cell
  /\ Zero \in Unit /\ Junk \in Unit /\ NoPage \notin Page /\ ZeroPage \in Page /\ JunkPage \in Page
  /\ ZeroData \in [0 .. TINY_DATA_SIZE - 1 -> Unit]
  BY SmallConstants DEF Cell, Unit, Page, Pos, ZeroPage, JunkPage, ZeroData

(* MkInode() makes an inode without a cell. *)
LEMMA MkInodeOk ==
  ASSUME NEW k \in {"none", "tiny", "small", "ordinary"}, NEW s \in 0 .. PageSize,
         NEW l \in 0 .. PageSize
  PROVE  /\ MkInode(k, s, l) \in Inode /\ MkInode(k, s, l).kind = k
         /\ MkInode(k, s, l).size = s /\ MkInode(k, s, l).len = l
         /\ MkInode(k, s, l).cell = NoCell /\ MkInode(k, s, l).data = ZeroData
         /\ MkInode(k, s, l).ext = "none"
  BY SizesOk DEF MkInode, Inode

LEMMA NoneOk ==
  /\ None \in Inode /\ None.cell = NoCell /\ None.kind = "none" /\ None.size = 0
  /\ None.len = 0 /\ None.ext = "none"
<1>1. 0 \in 0 .. PageSize
  BY SizesOk
<1> QED BY <1>1, MkInodeOk DEF None

LEMMA LargerOk ==
  ASSUME NEW m \in Nat, NEW n \in Nat
  PROVE  /\ Larger(m, n) \in {m, n} /\ Larger(m, n) \in Nat
         /\ m <= Larger(m, n) /\ n <= Larger(m, n)
  BY DEF Larger

(* vdfs2_get_free_cell() finds a clear bit. *)
LEMMA FreeCellOk ==
  ASSUME bits \subseteq Cell, bits # Cell
  PROVE  vdfs2_get_free_cell \in Cell \ bits
<1>1. Cell \ bits \in SUBSET Nat /\ Cell \ bits # {}
  BY SizesOk
<1>2. \E c \in Cell \ bits : \A d \in Cell \ bits : c <= d
  BY <1>1, LeastNat
<1> QED BY <1>2 DEF vdfs2_get_free_cell

(* The operations on pages give pages. *)
LEMMA FillOk ==
  ASSUME NEW p \in Page, NEW f \in File, NEW m \in Nat, NEW n \in Nat
  PROVE  Fill(p, f, m, n) \in Page
  BY SizesOk DEF Fill, Page, Pos, Unit

LEMMA CutOk ==
  ASSUME NEW p \in Page, NEW n \in Nat
  PROVE  Cut(p, n) \in Page
  BY SizesOk DEF Cut, Page, Pos

LEMMA PutOk ==
  ASSUME NEW a \in [Units -> Unit], NEW u \in Nat, NEW p \in Page, NEW n \in 0 .. PageSize
  PROVE  Put(a, u, p, n) \in [Units -> Unit]
<1>1. ASSUME NEW v \in Units, v >= u, v < u + n PROVE p[v - u] \in Unit
  <2>1. v \in Nat
    BY SizesOk DEF Units
  <2>2. v - u \in Pos
    BY <1>1, <2>1, SizesOk DEF Pos
  <2> QED BY <2>2 DEF Page
<1>2. DOMAIN a = Units
  OBVIOUS
<1>3. ASSUME NEW v \in Units
      PROVE (IF v >= u /\ v < u + n THEN p[v - u] ELSE a[v]) \in Unit
  BY <1>1
<1> QED BY <1>2, <1>3 DEF Put

LEMMA ReadOk ==
  ASSUME Types, NEW f \in File
  PROVE  /\ \A t \in Unit : Read(f, t) \in Page
         /\ GetPage(f) \in Page
<1>1. ino[f] \in Inode /\ ino[f].data \in [0 .. TINY_DATA_SIZE - 1 -> Unit] /\ blk[f] \in Page
      /\ area \in [Units -> Unit] /\ page[f] \in Page \cup {NoPage} /\ ino[f].len \in Nat
  BY SizesOk DEF Types, Inode
<1>2. ASSUME NEW t \in Unit PROVE Read(f, t) \in Page
  <2>1. CASE ino[f].kind \in {"tiny", "small"}
    <3>1. \A i \in Pos : Stored(f, i) \in Unit
      <4>1. \A i \in Pos : i < TINY_DATA_SIZE => ino[f].data[i] \in Unit
        BY <1>1, SizesOk DEF Pos
      <4>2. \A u \in DOMAIN area : area[u] \in Unit
        BY <1>1
      <4> QED BY <4>1, <4>2, SizesOk DEF Stored
    <3>2. read_tiny_small_page(f, t) \in Page
      BY <3>1, SizesOk DEF read_tiny_small_page, Page
    <3> QED BY <2>1, <3>2 DEF Read
  <2>2. CASE ino[f].kind \notin {"tiny", "small"}
    BY <1>1, <2>2, SizesOk DEF Read, ReadBlock
  <2> QED BY <2>1, <2>2
<1> QED BY <1>1, <1>2, SizesOk DEF GetPage

---------------------------------------------------------------------------
(* What an operation on file f does with its inode and its record. *)
Changes(f, x, r) ==
  /\ ino' = [ino EXCEPT ![f] = x] /\ rec' = [rec EXCEPT ![f] = r]
  /\ com'.rec = com.rec /\ com'.bits = com.bits
  /\ failed \subseteq failed'
  /\ x \in Inode /\ (r = x \/ r = rec[f])
  /\ x.kind # "small" => x.cell = NoCell

(* The cell stays; a free one is taken; it is freed; or it is forgotten,   *)
(* with the bit left set.                                                  *)
CellStays(f, x)    == x.cell = ino[f].cell /\ bits' = bits
CellTaken(f, x, r) == /\ ino[f].cell = NoCell /\ x.cell \in Cell \ bits
                      /\ bits' = bits \cup {x.cell}
                      /\ r = x \/ x.cell \in failed'
CellFreed(f, x, r) == /\ x.cell = NoCell /\ r = x
                      /\ bits' = bits \ {ino[f].cell}
CellLost(f, x)     == /\ x = rec[f] /\ bits' = bits

(* Under each of them every cell has its owner. *)
LEMMA CellStep ==
  ASSUME Types, CellInv, ComCellInv, NEW f \in File, NEW x, NEW r, Changes(f, x, r),
         CellStays(f, x) \/ CellTaken(f, x, r) \/ CellFreed(f, x, r) \/ CellLost(f, x)
  PROVE  CellInv' /\ ComCellInv'
<1> USE SizesOk
<1>1. /\ ino'[f] = x /\ rec'[f] = r
      /\ \A g \in File : g # f => ino'[g] = ino[g] /\ rec'[g] = rec[g]
      /\ \A g \in File : com.rec[g].cell \in Cell \cup {NoCell} /\ ino[g].cell \in Cell \cup {NoCell}
  BY DEF Changes, Types, Inode
<1>2. com'.rec = com.rec /\ com'.bits = com.bits /\ failed \subseteq failed'
      /\ (x.kind # "small" => x.cell = NoCell)
      /\ (r = x \/ r = rec[f])
  BY DEF Changes
<1>3. ComCellInv'
  BY <1>2 DEF ComCellInv
<1>4. (\A g \in File : com.rec[g].kind # "small" => com.rec[g].cell = NoCell)'
  BY <1>2 DEF CellInv
<1>5. CASE CellStays(f, x)
  BY <1>1, <1>2, <1>3, <1>4, <1>5 DEF CellInv, CellStays
<1>6. CASE CellTaken(f, x, r)
  <2>1. /\ ino[f].cell = NoCell /\ x.cell \in Cell /\ x.cell \notin bits
        /\ bits' = bits \cup {x.cell} /\ (r = x \/ x.cell \in failed')
    BY <1>6 DEF CellTaken
  <2>2. rec[f].cell = NoCell
    BY <2>1 DEF CellInv
  <2>3. \A g, h \in File : ino'[g].cell = ino'[h].cell /\ ino'[g].cell # NoCell => g = h
    BY <1>1, <2>1 DEF CellInv
  <2>4. \A g \in File : ino'[g].cell # NoCell => ino'[g].cell \in bits'
    BY <1>1, <2>1 DEF CellInv
  <2>5. \A g \in File : rec'[g].cell # NoCell => rec'[g].cell = ino'[g].cell
    BY <1>1, <1>2, <2>1, <2>2 DEF CellInv
  <2>6. \A g \in File : ino'[g].cell # NoCell => rec'[g].cell = ino'[g].cell \/ ino'[g].cell \in failed'
    BY <1>1, <1>2, <2>1 DEF CellInv
  <2>7. ASSUME NEW c \in bits' PROVE c \in failed' \/ \E g \in File : ino'[g].cell = c
    <3>1. CASE c = x.cell
      BY <1>1, <3>1
    <3>2. CASE c \in bits
      <4>1. c # NoCell
        BY <3>2 DEF Types
      <4>2. c \in failed \/ \E g \in File : ino[g].cell = c
        BY <3>2 DEF CellInv
      <4> QED BY <1>1, <1>2, <2>1, <4>1, <4>2
    <3> QED BY <2>1, <3>1, <3>2
  <2>8. /\ \A g \in File : ino'[g].kind # "small" => ino'[g].cell = NoCell
        /\ \A g \in File : rec'[g].kind # "small" => rec'[g].cell = NoCell
    BY <1>1, <1>2, <2>1 DEF CellInv
  <2> QED BY <1>3, <1>4, <2>3, <2>4, <2>5, <2>6, <2>7, <2>8 DEF CellInv
<1>7. CASE CellFreed(f, x, r)
  BY <1>1, <1>2, <1>3, <1>4, <1>7 DEF CellInv, CellFreed
<1>8. CASE CellLost(f, x)
  BY <1>1, <1>2, <1>3, <1>4, <1>8 DEF CellInv, CellLost
<1> QED BY <1>5, <1>6, <1>7, <1>8

FileStep(f) ==
  \E x, r : /\ Changes(f, x, r)
            /\ CellStays(f, x) \/ CellTaken(f, x, r) \/ CellFreed(f, x, r) \/ CellLost(f, x)

(* The types of what else an operation changes. *)
RestTypes ==
  /\ page \in [File -> Page \cup {NoPage}] /\ blk \in [File -> Page]
  /\ bh \in [File -> {"none", "unmapped", "mapped"}]
  /\ area \in [Units -> Unit] /\ disk \in [Units -> Unit]
  /\ reused \subseteq Cell
  /\ dirty \subseteq File /\ orphan \subseteq File /\ com.orphan \subseteq File
  /\ \A f \in dirty : page[f] # NoPage
  /\ com = [rec |-> com.rec, bits |-> com.bits, orphan |-> com.orphan,
            want |-> com.want, hurt |-> com.hurt]

(* An operation on one file keeps the invariant. *)
LEMMA OneFile ==
  ASSUME Types, CellInv, ComCellInv, NEW f \in File, FileStep(f), RestTypes', RecInv'
  PROVE  SmallInv'
<1>1. PICK x, r : /\ Changes(f, x, r)
                  /\ CellStays(f, x) \/ CellTaken(f, x, r) \/ CellFreed(f, x, r) \/ CellLost(f, x)
  BY DEF FileStep
<1>2. CellInv' /\ ComCellInv'
  BY <1>1, CellStep
<1>3. ino' \in [File -> Inode] /\ rec' \in [File -> Inode] /\ com'.rec \in [File -> Inode]
      /\ com'.bits \subseteq Cell
  BY <1>1 DEF Types, Changes
<1>4. bits' \subseteq Cell
  BY <1>1 DEF Types, CellStays, CellTaken, CellFreed, CellLost
<1>5. Types'
  BY <1>3, <1>4 DEF Types, RestTypes
<1> QED BY <1>2, <1>5 DEF SmallInv

(* Nothing happens to the inodes and the cells. *)
LEMMA NoFile ==
  ASSUME SmallInv, RestTypes', UNCHANGED <<ino, rec, bits, com, failed>>,
         hurt \subseteq hurt', \A f \in dirty \ dirty' : f \in hurt' \/ ino[f] = rec[f]
  PROVE  SmallInv'
<1>1. Types'
  BY DEF SmallInv, Types, RestTypes
<1>2. CellInv' /\ ComCellInv'
  BY DEF SmallInv, CellInv, ComCellInv
<1>3. RecInv'
  BY DEF SmallInv, RecInv
<1> QED BY <1>1, <1>2, <1>3 DEF SmallInv

LEMMA RestOfTypes ==
  ASSUME Types
  PROVE  RestTypes
  BY DEF Types, RestTypes

(* The inode is written to its record, or the file is dirty or hurt. *)
LEMMA RecordStep ==
  ASSUME Types, RecInv, NEW f \in File, NEW x, NEW r, Changes(f, x, r),
         HasBlock(x) => x.kind = "ordinary",
         r = x \/ ((f \in dirty' \/ f \in hurt') /\ ~HasBlock(x)),
         hurt \ {f} \subseteq hurt', dirty \ {f} \subseteq dirty'
  PROVE  RecInv'
<1>1. /\ ino'[f] = x /\ rec'[f] = r
      /\ \A g \in File : g # f => ino'[g] = ino[g] /\ rec'[g] = rec[g]
  BY DEF Changes, Types
<1>2. com'.rec = com.rec /\ (r = x \/ r = rec[f])
  BY DEF Changes
<1> QED BY <1>1, <1>2 DEF RecInv

---------------------------------------------------------------------------
(* One lemma per operation.  The first says what it does; x is its inode   *)
(* and r its record afterwards.                                            *)

LEMMA InodeOk ==
  ASSUME Types, NEW f \in File
  PROVE  /\ ino[f] \in Inode /\ rec[f] \in Inode /\ com.rec[f] \in Inode
         /\ ino[f].size \in 0 .. PageSize /\ ino[f].len \in 0 .. PageSize
         /\ ino[f].size \in Nat /\ ino[f].len \in Nat
         /\ ino[f].cell \in Cell \cup {NoCell}
         /\ ino[f].data \in [0 .. TINY_DATA_SIZE - 1 -> Unit]
         /\ ino[f].ext \in {"none", "raw", "data"}
  BY SizesOk DEF Types, Inode

(* An operation that writes x to the record. *)
LEMMA Written ==
  ASSUME Types, NEW f \in File, NEW x \in Inode,
         vdfs2_write_inode_to_bnode(f, x), com' = com, failed' = failed,
         x.kind # "small" => x.cell = NoCell
  PROVE  Changes(f, x, x)
  BY DEF vdfs2_write_inode_to_bnode, Changes

(* An operation that writes the inode with its cell, or with none. *)
LEMMA WrittenStays ==
  ASSUME SmallInv, NEW f \in File, NEW x \in Inode,
         vdfs2_write_inode_to_bnode(f, x), com' = com, failed' = failed,
         x.kind # "small" => x.cell = NoCell, HasBlock(x) => x.kind = "ordinary",
         \/ x.cell = ino[f].cell /\ bits' = bits
         \/ x.cell = NoCell /\ bits' = bits \ {ino[f].cell}
         \/ ino[f].cell = NoCell /\ x.cell \in Cell \ bits /\ bits' = bits \cup {x.cell},
         RestTypes', hurt \ {f} \subseteq hurt', dirty \ {f} \subseteq dirty'
  PROVE  SmallInv'
<1>1. Types /\ CellInv /\ ComCellInv /\ RecInv
  BY DEF SmallInv
<1>2. Changes(f, x, x)
  BY <1>1, Written
<1>3. FileStep(f)
  BY <1>2 DEF FileStep, CellStays, CellTaken, CellFreed
<1>4. RecInv'
  BY <1>1, <1>2, RecordStep
<1> QED BY <1>1, <1>3, <1>4, OneFile

LEMMA Create ==
  ASSUME SmallInv, NEW f \in File, vdfs2_create(f)
  PROVE  SmallInv'
<1>1. 0 \in 0 .. PageSize
  BY SizesOk
<1>2. MkInode("tiny", 0, 0) \in Inode /\ MkInode("tiny", 0, 0).cell = NoCell
      /\ ~HasBlock(MkInode("tiny", 0, 0))
  BY <1>1, MkInodeOk DEF HasBlock
<1>3. ino[f].cell = NoCell
  BY DEF SmallInv, CellInv, vdfs2_create
<1>4. RestTypes'
  BY RestOfTypes DEF SmallInv, RestTypes, vdfs2_create
<1> QED BY <1>2, <1>3, <1>4, WrittenStays DEF vdfs2_create

(* The writes have sizes of a page. *)
LEMMA WritesOk ==
  ASSUME NEW w \in Writes
  PROVE  w[1] \in Nat /\ w[2] \in Nat /\ w[1] + w[2] \in Nat /\ w[1] + w[2] \in 0 .. PageSize
  BY SmallConstants

LEMMA WriteTinySmall ==
  ASSUME SmallInv, NEW f \in File, NEW m \in Nat, NEW n \in Nat, m + n \in 0 .. PageSize,
         write_tiny_small_file(f, m, n)
  PROVE  SmallInv'
<1> DEFINE x == [ino[f] EXCEPT !.len = m + n, !.size = Larger(@, m + n)]
<1>1. Types /\ CellInv /\ RecInv
  BY DEF SmallInv
<1>2. ino[f] \in Inode /\ Larger(ino[f].size, m + n) \in 0 .. PageSize
  BY <1>1, InodeOk DEF Larger
<1>3. x \in Inode /\ x.cell = ino[f].cell /\ x.kind = ino[f].kind /\ x.ext = ino[f].ext
  BY <1>2 DEF Inode
<1>4. (x.kind # "small" => x.cell = NoCell) /\ (HasBlock(x) => x.kind = "ordinary")
  BY <1>1, <1>3 DEF CellInv, RecInv, HasBlock
<1>5. GetPage(f) \in Page /\ Fill(GetPage(f), f, m, n) \in Page
  BY <1>1, ReadOk, FillOk
<1>6. RestTypes'
  BY <1>1, <1>5, RestOfTypes, SizesOk DEF RestTypes, write_tiny_small_file
<1>7. vdfs2_write_inode_to_bnode(f, x) /\ com' = com /\ failed' = failed /\ bits' = bits
      /\ hurt \subseteq hurt' /\ dirty' = dirty \cup {f}
  BY DEF write_tiny_small_file
<1> QED BY <1>3, <1>4, <1>6, <1>7, WrittenStays

LEMMA TinyToSmall ==
  ASSUME SmallInv, NEW f \in File, NEW m \in Nat, NEW n \in Nat, m + n \in 0 .. PageSize,
         convert_tiny_file_to_small_file(f, m, n)
  PROVE  SmallInv'
<1> DEFINE len  == Larger(ino[f].len + n, m + n)
           size == Larger(ino[f].size, len)
           x    == MkInode("small", size, len)
<1>1. Types /\ CellInv
  BY DEF SmallInv
<1>2. len \in Nat /\ size \in Nat /\ len <= size
  BY <1>1, InodeOk DEF Larger
<1>3. size <= PageSize
  BY DEF convert_tiny_file_to_small_file
<1>4. len \in 0 .. PageSize /\ size \in 0 .. PageSize
  BY <1>2, <1>3, SizesOk
<1>5. x \in Inode /\ x.cell = NoCell /\ ~HasBlock(x)
  BY <1>4, MkInodeOk DEF HasBlock
<1>6. ino[f].cell = NoCell
  BY <1>1 DEF CellInv, convert_tiny_file_to_small_file
<1>7. GetPage(f) \in Page /\ Fill(GetPage(f), f, m, n) \in Page
  BY <1>1, ReadOk, FillOk
<1>8. RestTypes'
  BY <1>1, <1>7, RestOfTypes, SizesOk DEF RestTypes, convert_tiny_file_to_small_file
<1>9. vdfs2_write_inode_to_bnode(f, x) /\ com' = com /\ failed' = failed /\ bits' = bits
      /\ hurt \subseteq hurt' /\ dirty' = dirty \cup {f}
  BY DEF convert_tiny_file_to_small_file
<1> HIDE DEF x
<1> QED BY <1>5, <1>6, <1>8, <1>9, WrittenStays

LEMMA TinyToOrdinary ==
  ASSUME SmallInv, NEW f \in File, NEW m \in Nat, NEW n \in Nat,
         convert_tiny_file_to_ordinary_file(f, m, n)
  PROVE  SmallInv'
<1> DEFINE x == MkInode("ordinary", ino[f].size, 0)
<1>1. Types /\ CellInv /\ ComCellInv /\ RecInv
  BY DEF SmallInv
<1>2. x \in Inode /\ x.cell = NoCell /\ x.kind = "ordinary" /\ ~HasBlock(x)
  BY <1>1, InodeOk, MkInodeOk, SizesOk DEF HasBlock
<1>3. ino[f].cell = NoCell
  BY <1>1 DEF CellInv, convert_tiny_file_to_ordinary_file
<1>4. GetPage(f) \in Page
  BY <1>1, ReadOk
<1>5. RestTypes'
  BY <1>1, <1>4, RestOfTypes, SizesOk DEF RestTypes, convert_tiny_file_to_ordinary_file, ghosts
<1>6. /\ ino' = [ino EXCEPT ![f] = x] /\ rec' = rec /\ com' = com /\ failed' = failed
      /\ bits' = bits /\ hurt' = hurt /\ dirty' = dirty \cup {f}
  BY DEF convert_tiny_file_to_ordinary_file, ghosts
<1>7. rec' = [rec EXCEPT ![f] = rec[f]]
  BY <1>1, <1>6 DEF Types
<1> HIDE DEF x
<1>8. Changes(f, x, rec[f])
  BY <1>2, <1>6, <1>7 DEF Changes
<1>9. FileStep(f)
  BY <1>2, <1>3, <1>6, <1>8 DEF FileStep, CellStays
<1>10. RecInv'
  BY <1>1, <1>2, <1>6, <1>8, RecordStep
<1> QED BY <1>1, <1>5, <1>9, <1>10, OneFile

LEMMA SmallToOrdinary ==
  ASSUME SmallInv, NEW f \in File, NEW m \in Nat, NEW n \in Nat,
         convert_small_file_to_ordinary_file(f, m, n)
  PROVE  SmallInv'
<1> DEFINE x == MkInode("ordinary", ino[f].size, 0)
<1>1. Types /\ CellInv
  BY DEF SmallInv
<1>2. x \in Inode /\ x.cell = NoCell /\ ~HasBlock(x)
  BY <1>1, InodeOk, MkInodeOk, SizesOk DEF HasBlock
<1>3. GetPage(f) \in Page
  BY <1>1, ReadOk
<1>4. RestTypes'
  BY <1>1, <1>3, RestOfTypes, SizesOk
     DEF RestTypes, convert_small_file_to_ordinary_file, make_small_file_ordinary
<1>5. vdfs2_write_inode_to_bnode(f, x) /\ com' = com /\ failed' = failed
      /\ bits' = bits \ {ino[f].cell} /\ hurt' = hurt /\ dirty' = dirty \cup {f}
  BY DEF convert_small_file_to_ordinary_file, make_small_file_ordinary, FreeCell
<1> HIDE DEF x
<1> QED BY <1>2, <1>4, <1>5, WrittenStays

LEMMA Generic ==
  ASSUME SmallInv, NEW f \in File, NEW m \in Nat, NEW n \in Nat, m + n \in 0 .. PageSize,
         GenericWrite(f, m, n)
  PROVE  SmallInv'
<1> DEFINE x == [ino[f] EXCEPT !.size = m + n]
<1>1. Types /\ CellInv
  BY DEF SmallInv
<1>2. x \in Inode /\ x.cell = ino[f].cell /\ x.kind = ino[f].kind /\ ino[f].kind = "ordinary"
  BY <1>1, InodeOk DEF Inode, GenericWrite
<1>3. GetPage(f) \in Page /\ Fill(GetPage(f), f, m, n) \in Page
  BY <1>1, ReadOk, FillOk
<1>4. RestTypes'
  BY <1>1, <1>3, RestOfTypes, SizesOk DEF RestTypes, GenericWrite
<1>5. /\ com' = com /\ failed' = failed /\ bits' = bits /\ hurt \subseteq hurt' /\ dirty' = dirty \cup {f}
      /\ vdfs2_write_inode_to_bnode(f, x) \/ UNCHANGED <<ino, rec>>
  BY DEF GenericWrite
<1>6. x.kind # "small" => x.cell = NoCell
  BY <1>1, <1>2 DEF CellInv
<1> HIDE DEF x
<1>7. CASE vdfs2_write_inode_to_bnode(f, x)
  BY <1>2, <1>4, <1>5, <1>6, <1>7, WrittenStays
<1>8. CASE UNCHANGED <<ino, rec>>
  BY <1>4, <1>5, <1>8, NoFile
<1> QED BY <1>5, <1>7, <1>8

(* Steps that change no inode: a write fails, a page is read, or cannot be *)
(* read, or is dropped.                                                    *)
LEMMA Quiet ==
  ASSUME SmallInv, NEW f \in File, NEW m, NEW n,
         \/ GenericWriteFails(f, m, n) \/ vdfs2_read_folio(f) \/ ReadFails(f) \/ DropPage(f)
  PROVE  SmallInv'
<1>1. Types
  BY DEF SmallInv
<1>2. UNCHANGED <<ino, rec, bits, com, failed, dirty>> /\ hurt \subseteq hurt'
  BY DEF GenericWriteFails, vdfs2_read_folio, ReadFails, DropPage, ghosts
<1>3. RestTypes'
  <2>1. CASE GenericWriteFails(f, m, n)
    BY <1>1, <2>1, RestOfTypes DEF RestTypes, GenericWriteFails, ghosts
  <2>2. CASE vdfs2_read_folio(f)
    <3>1. PICK t \in {Zero, Junk} : page' = [page EXCEPT ![f] = Read(f, t)]
      BY <2>2 DEF vdfs2_read_folio
    <3>2. Read(f, t) \in Page
      BY <1>1, ReadOk, SizesOk
    <3> QED BY <1>1, <2>2, <3>1, <3>2, RestOfTypes, SizesOk DEF RestTypes, vdfs2_read_folio, ghosts
  <2>3. CASE ReadFails(f)
    BY <1>1, <2>3, RestOfTypes, SizesOk DEF RestTypes, ReadFails
  <2>4. CASE DropPage(f)
    BY <1>1, <2>4, RestOfTypes DEF RestTypes, DropPage, ghosts
  <2> QED BY <2>1, <2>2, <2>3, <2>4
<1> QED BY <1>2, <1>3, NoFile

LEMMA TruncatePages ==
  ASSUME Types, NEW f \in File, NEW n \in Nat, vdfs2_truncate_pages(f, n)
  PROVE  /\ page' \in [File -> Page \cup {NoPage}]
         /\ bh' \in [File -> {"none", "unmapped", "mapped"}]
         /\ dirty' \subseteq File /\ dirty \ {f} \subseteq dirty'
         /\ \A g \in dirty' : page'[g] # NoPage
<1> DEFINE part == n # 0 /\ n # PageSize
           held == ino[f].kind = "ordinary" /\ (ino[f].ext # "none" \/ bh[f] = "mapped")
           old  == IF part /\ held THEN GetPage(f) ELSE page[f]
           p    == IF n = 0 \/ old = NoPage THEN NoPage ELSE Cut(old, n)
<1>1. page' = [page EXCEPT ![f] = p] /\ (dirty' = dirty \ {f} \/ dirty' = dirty \cup {f} \/ dirty' = dirty)
      /\ bh' \in [File -> {"none", "unmapped", "mapped"}]
  BY DEF vdfs2_truncate_pages, Types
<1>2. GetPage(f) \in Page /\ page[f] \in Page \cup {NoPage}
  BY ReadOk DEF Types
<1>3. p \in Page \cup {NoPage}
  BY <1>2, CutOk
<1>4. f \in dirty' => p # NoPage
  <2> SUFFICES ASSUME f \in dirty' PROVE p # NoPage
    OBVIOUS
  <2>1. n # 0 /\ (f \in dirty \/ (part /\ held))
    BY DEF vdfs2_truncate_pages
  <2>2. old # NoPage /\ old \in Page
    BY <1>2, <2>1, SizesOk DEF Types
  <2>3. Cut(old, n) \in Page
    BY <2>2, CutOk
  <2> QED BY <2>1, <2>2, <2>3, SizesOk
<1> HIDE DEF p
<1> QED BY <1>1, <1>3, <1>4 DEF Types

LEMMA Update ==
  ASSUME SmallInv, NEW f \in File, NEW n \in Sizes, vdfs2_update_inode(f, n)
  PROVE  SmallInv'
<1> DEFINE l == IF n < ino[f].size /\ ino[f].kind # "ordinary" THEN n ELSE ino[f].len
           e == IF n = 0 THEN "none" ELSE ino[f].ext
           x == [ino[f] EXCEPT !.size = n, !.len = l, !.ext = e]
<1>1. Types /\ CellInv /\ RecInv
  BY DEF SmallInv
<1>2. n \in 0 .. PageSize /\ n \in Nat
  BY SmallConstants
<1>3. ino[f] \in Inode /\ l \in 0 .. PageSize /\ e \in {"none", "raw", "data"}
  BY <1>1, <1>2, InodeOk
<1>4. x \in Inode /\ x.cell = ino[f].cell /\ x.kind = ino[f].kind /\ x.ext = e
  BY <1>2, <1>3 DEF Inode
<1>5. (x.kind # "small" => x.cell = NoCell) /\ (HasBlock(x) => x.kind = "ordinary")
  BY <1>1, <1>4 DEF CellInv, RecInv, HasBlock
<1>6. vdfs2_write_inode_to_bnode(f, x) /\ com' = com /\ failed' = failed /\ bits' = bits
      /\ hurt \subseteq hurt' /\ vdfs2_truncate_pages(f, n)
  BY DEF vdfs2_update_inode
<1>7. /\ page' \in [File -> Page \cup {NoPage}]
      /\ bh' \in [File -> {"none", "unmapped", "mapped"}]
      /\ dirty' \subseteq File /\ dirty \ {f} \subseteq dirty'
      /\ \A g \in dirty' : page'[g] # NoPage
  BY <1>1, <1>2, <1>6, TruncatePages
<1>8. RestTypes'
  BY <1>1, <1>7, RestOfTypes DEF RestTypes, vdfs2_update_inode
<1> HIDE DEF x
<1> QED BY <1>4, <1>5, <1>6, <1>7, <1>8, WrittenStays

LEMMA WriteTiny ==
  ASSUME SmallInv, NEW f \in File, writepage_tiny(f)
  PROVE  SmallInv'
<1> DEFINE d == [i \in DOMAIN ino[f].data |-> IF i < ino[f].size THEN page[f][i] ELSE ino[f].data[i]]
           x == [ino[f] EXCEPT !.data = d, !.len = ino[f].size]
<1>1. Types /\ CellInv /\ RecInv
  BY DEF SmallInv
<1>2. page[f] \in Page /\ f \in dirty
  BY <1>1 DEF Types, writepage_tiny
<1>3. d \in [0 .. TINY_DATA_SIZE - 1 -> Unit]
  <2>1. \A i \in 0 .. TINY_DATA_SIZE - 1 : i \in Pos
    BY SizesOk DEF Pos
  <2> QED BY <1>1, <1>2, <2>1, InodeOk DEF Page
<1>4. x \in Inode /\ x.cell = ino[f].cell /\ x.kind = ino[f].kind /\ x.ext = ino[f].ext
  BY <1>1, <1>3, InodeOk DEF Inode
<1>5. (x.kind # "small" => x.cell = NoCell) /\ (HasBlock(x) => x.kind = "ordinary")
  BY <1>1, <1>4 DEF CellInv, RecInv, HasBlock
<1>6. vdfs2_write_inode_to_bnode(f, x) /\ com' = com /\ failed' = failed /\ bits' = bits
      /\ hurt' = hurt /\ dirty' = dirty \ {f}
  BY DEF writepage_tiny, ghosts
<1>7. RestTypes'
  BY <1>1, RestOfTypes DEF RestTypes, writepage_tiny, ghosts
<1> HIDE DEF x
<1> QED BY <1>4, <1>5, <1>6, <1>7, WrittenStays

(* The cell of a writeback is the file's own or was free. *)
LEMMA CellOfOk ==
  ASSUME Types, NEW f \in File, HasCell(f)
  PROVE  /\ CellOf(f) \in Cell /\ CellOf(f) \in Nat /\ CellOf(f) * cell_size \in Nat
         /\ \/ ino[f].cell # NoCell /\ CellOf(f) = ino[f].cell
            \/ ino[f].cell = NoCell /\ CellOf(f) \in Cell \ bits
<1> DEFINE c == CellOf(f)
<1> HIDE DEF c
<1>0. ASSUME c \in Cell PROVE c \in Nat /\ c * cell_size \in Nat
  BY <1>0, SizesOk
<1>1. CASE ino[f].cell # NoCell
  <2>1. c = ino[f].cell
    BY <1>1 DEF CellOf, c
  <2>2. c \in Cell
    BY <1>1, <2>1, InodeOk
  <2> QED BY <1>0, <1>1, <2>1, <2>2 DEF c
<1>2. CASE ino[f].cell = NoCell
  <2>1. bits \subseteq Cell /\ bits # Cell
    BY <1>2 DEF HasCell, Types
  <2>2. c \in Cell \ bits
    BY <1>2, <2>1, FreeCellOk DEF CellOf, c
  <2> QED BY <1>0, <1>2, <2>2 DEF c
<1> QED BY <1>1, <1>2

LEMMA WriteSmall ==
  ASSUME SmallInv, NEW f \in File, NEW sync \in BOOLEAN, write_small_file_page(f, sync)
  PROVE  SmallInv'
<1> DEFINE c == CellOf(f)
           y == MkInode("small", ino[f].size, StoredLen(f))
           x == [y EXCEPT !.cell = c]
<1>1. Types /\ CellInv /\ HasCell(f)
  BY DEF SmallInv, write_small_file_page
<1>2. /\ c \in Cell /\ c * cell_size \in Nat
      /\ \/ ino[f].cell # NoCell /\ c = ino[f].cell
         \/ ino[f].cell = NoCell /\ c \in Cell \ bits
  BY <1>1, CellOfOk
<1>3. StoredLen(f) \in 0 .. PageSize
  BY <1>1, InodeOk DEF StoredLen, Larger
<1>4. y \in Inode /\ y.kind = "small" /\ y.ext = "none"
  BY <1>1, <1>3, InodeOk, MkInodeOk
<1>5. page[f] \in Page /\ ino[f].size \in 0 .. PageSize
  BY <1>1, InodeOk DEF Types, write_small_file_page, GoesToCell
<1> HIDE DEF c, y
<1>6. x \in Inode /\ x.cell = c /\ x.kind = "small" /\ ~HasBlock(x)
  BY <1>2, <1>4 DEF Inode, HasBlock
<1>7. /\ vdfs2_write_inode_to_bnode(f, x) /\ com' = com /\ failed' = failed
      /\ hurt' = hurt /\ dirty' = dirty \ {f} /\ page' = page /\ blk' = blk /\ orphan' = orphan /\ bh' = bh
      /\ area' = Put(area, c * cell_size, page[f], ino[f].size)
      /\ IF ino[f].cell = NoCell THEN Take(c) ELSE UNCHANGED <<bits, reused>>
      /\ disk' = area' \/ disk' = disk
  BY DEF write_small_file_page, ToVolume, TakeCellOf, PutInCell, c, y
<1>8. area' \in [Units -> Unit]
  BY <1>1, <1>2, <1>5, <1>7, PutOk DEF Types
<1>9. RestTypes'
  BY <1>1, <1>2, <1>7, <1>8, RestOfTypes DEF RestTypes, Take
<1>10. \/ x.cell = ino[f].cell /\ bits' = bits
       \/ ino[f].cell = NoCell /\ x.cell \in Cell \ bits /\ bits' = bits \cup {x.cell}
  BY <1>2, <1>6, <1>7 DEF Take
<1> HIDE DEF x
<1> QED BY <1>6, <1>7, <1>9, <1>10, WrittenStays

(* A cell is not got, or taken and not written. *)
LEMMA CellLeft ==
  ASSUME SmallInv, NEW f \in dirty, NEW c \in Cell \cup {NoCell}, CellFails(f, c), NEW x \in Inode,
         x.kind = "small", x.cell = c, ~HasBlock(x), ino' = [ino EXCEPT ![f] = x],
         UNCHANGED <<rec, com, page, blk, bh, orphan, disk>>, hurt \subseteq hurt',
         dirty \ {f} \subseteq dirty', dirty' \subseteq dirty, f \in dirty' \/ f \in hurt'
  PROVE  SmallInv'
<1>1. Types /\ CellInv /\ ComCellInv /\ RecInv
  BY DEF SmallInv
<1>2. f \in File /\ page[f] \in Page /\ ino[f].size \in 0 .. PageSize
  <2>1. f \in File
    BY <1>1 DEF Types
  <2> QED BY <1>1, <2>1, InodeOk DEF Types
<1>3. rec' = [rec EXCEPT ![f] = rec[f]]
  BY <1>1 DEF Types
<1>4. failed \subseteq failed'
  BY DEF CellFails
<1>5. Changes(f, x, rec[f])
  BY <1>3, <1>4 DEF Changes
<1>6. RecInv'
  BY <1>1, <1>2, <1>5, RecordStep
<1>7. CASE c = NoCell /\ ino[f].cell = NoCell /\ UNCHANGED <<bits, reused, area, failed>>
  <2>1. FileStep(f)
    BY <1>5, <1>7 DEF FileStep, CellStays
  <2>2. RestTypes'
    BY <1>1, <1>7, RestOfTypes DEF RestTypes
  <2> QED BY <1>1, <1>2, <1>6, <2>1, <2>2, OneFile
<1>8. CASE /\ HasCell(f) /\ c = CellOf(f) /\ TakeCellOf(f)
           /\ area' \in {area, PutInCell(f)} /\ failed' = failed \cup {c}
  <2>1. /\ c \in Cell /\ c * cell_size \in Nat
        /\ \/ ino[f].cell # NoCell /\ c = ino[f].cell
           \/ ino[f].cell = NoCell /\ c \in Cell \ bits
    BY <1>1, <1>2, <1>8, CellOfOk
  <2>2. IF ino[f].cell = NoCell THEN Take(c) ELSE UNCHANGED <<bits, reused>>
    BY <1>8 DEF TakeCellOf
  <2>3. PutInCell(f) \in [Units -> Unit]
    BY <1>1, <1>2, <1>8, <2>1, PutOk DEF PutInCell, Types
  <2>4. RestTypes'
    BY <1>1, <1>8, <2>1, <2>2, <2>3, RestOfTypes DEF RestTypes, Take
  <2>5. CellStays(f, x) \/ CellTaken(f, x, rec[f])
    BY <1>8, <2>1, <2>2 DEF CellStays, CellTaken, Take
  <2>6. FileStep(f)
    BY <1>5, <2>5 DEF FileStep
  <2> QED BY <1>1, <1>2, <1>6, <2>4, <2>6, OneFile
<1> QED BY <1>7, <1>8 DEF CellFails

LEMMA WriteFails ==
  ASSUME SmallInv, NEW f \in File, WritebackFails(f) \/ ReclaimFails(f)
  PROVE  SmallInv'
<1> DEFINE y == IF WritebackFails(f) /\ ino[f].kind = "tiny"
                  THEN MkInode("small", ino[f].size, ino[f].size) ELSE ino[f]
<1>1. Types /\ CellInv /\ RecInv /\ f \in dirty
  BY DEF SmallInv, WritebackFails, ReclaimFails, GoesToCell
<1>2. y \in Inode /\ y.kind = "small" /\ ~HasBlock(y)
  BY <1>1, InodeOk, MkInodeOk DEF WritebackFails, ReclaimFails, GoesToCell, HasBlock, RecInv
<1>3. PICK c \in Cell \cup {NoCell} :
         CellFails(f, c) /\ ino' = [ino EXCEPT ![f] = [y EXCEPT !.cell = c]]
  BY <1>1 DEF WritebackFails, ReclaimFails, GoesToCell, Types
<1>4. /\ UNCHANGED <<rec, com, page, blk, bh, orphan, disk>> /\ hurt \subseteq hurt'
      /\ dirty \ {f} \subseteq dirty' /\ dirty' \subseteq dirty /\ (f \in dirty' \/ f \in hurt')
  BY <1>1 DEF WritebackFails, ReclaimFails
<1> HIDE DEF y
<1> DEFINE x == [y EXCEPT !.cell = c]
<1>5. x \in Inode /\ x.cell = c /\ x.kind = "small" /\ ~HasBlock(x)
  BY <1>2 DEF Inode, HasBlock
<1> HIDE DEF x
<1>6. ino' = [ino EXCEPT ![f] = x]
  BY <1>3 DEF x
<1> QED BY <1>1, <1>3, <1>4, <1>5, <1>6, CellLeft

(* A file becomes ordinary, or was so. *)
LEMMA Ordinary ==
  ASSUME SmallInv, NEW f \in File, NEW e \in {"none", "raw", "data"}, BecomesOrdinary(f, e),
         com' = com, failed' = failed, RestTypes', hurt \subseteq hurt', dirty \ {f} \subseteq dirty',
         f \in dirty' \/ f \in hurt' \/ e # "none"
  PROVE  SmallInv'
<1> DEFINE y == MkInode("ordinary", ino[f].size, 0)
           x == [y EXCEPT !.ext = e]
<1>1. Types /\ CellInv /\ RecInv
  BY DEF SmallInv
<1>2. y \in Inode /\ y.cell = NoCell /\ y.kind = "ordinary"
  BY <1>1, InodeOk, MkInodeOk, SizesOk
<1>3. (NoCell = ino[f].cell /\ bits' = bits) \/ bits' = bits \ {ino[f].cell}
  BY <1>1 DEF CellInv, BecomesOrdinary, FreeCell
<1>4. CASE vdfs2_write_inode_to_bnode(f, x)
  <2> HIDE DEF y
  <2>1. x \in Inode /\ x.cell = NoCell /\ x.kind = "ordinary"
    BY <1>2 DEF Inode
  <2> HIDE DEF x
  <2> QED BY <1>3, <1>4, <2>1, WrittenStays
<1>5. CASE ino[f].kind = "ordinary" /\ e = ino[f].ext /\ UNCHANGED <<ino, rec, list>>
  <2>1. bits' = bits
    BY <1>5 DEF BecomesOrdinary
  <2>2. f \in dirty' \/ f \in hurt' \/ ino[f] = rec[f]
    BY <1>1, <1>5 DEF RecInv, HasBlock
  <2> QED BY <1>5, <2>1, <2>2, NoFile
<1> QED BY <1>4, <1>5 DEF BecomesOrdinary

LEMMA WritePages ==
  ASSUME SmallInv, NEW f \in File,
         vdfs2_mpage_writepages(f) \/ WritepageNoSpace(f) \/ vdfs2_writepage(f)
  PROVE  SmallInv'
<1>1. Types /\ f \in dirty /\ ino[f].ext \in {"none", "raw", "data"}
  BY InodeOk DEF SmallInv, vdfs2_mpage_writepages, WritepageNoSpace, vdfs2_writepage, GoesToBlock
<1>2. page[f] \in Page /\ Cut(page[f], ino[f].size) \in Page
  BY <1>1, InodeOk, CutOk DEF Types
<1>3. CASE vdfs2_mpage_writepages(f)
  <2> DEFINE e == IF ino[f].size > 0 THEN "data" ELSE IF ino[f].ext = "none" THEN "raw" ELSE ino[f].ext
  <2>1. e \in {"none", "raw", "data"} /\ e # "none"
    BY <1>1
  <2>2. /\ BecomesOrdinary(f, e) /\ com' = com /\ failed' = failed /\ hurt' = hurt
        /\ dirty' = dirty \ {f} /\ bh' = [bh EXCEPT ![f] = "mapped"]
        /\ UNCHANGED <<orphan, area, disk, reused>>
        /\ \/ page' = page /\ blk' = blk
           \/ /\ page' = [page EXCEPT ![f] = Cut(page[f], ino[f].size)]
              /\ blk' = [blk EXCEPT ![f] = Cut(page[f], ino[f].size)]
    BY <1>3 DEF vdfs2_mpage_writepages, ghosts
  <2>3. RestTypes'
    BY <1>1, <1>2, <2>2, RestOfTypes, SizesOk DEF RestTypes
  <2> HIDE DEF e
  <2> QED BY <2>1, <2>2, <2>3, Ordinary
<1>4. CASE WritepageNoSpace(f)
  <2>1. /\ BecomesOrdinary(f, "none") /\ com' = com /\ failed' = failed /\ hurt' = hurt \cup {f}
        /\ dirty' = dirty \ {f} /\ bh' = [bh EXCEPT ![f] = "unmapped"]
        /\ UNCHANGED <<orphan, area, disk, reused, blk>>
        /\ page' = page \/ page' = [page EXCEPT ![f] = Cut(page[f], ino[f].size)]
    BY <1>1, <1>4 DEF WritepageNoSpace, Types
  <2>2. RestTypes'
    BY <1>1, <1>2, <2>1, RestOfTypes, SizesOk DEF RestTypes
  <2> QED BY <2>1, <2>2, Ordinary
<1>5. CASE vdfs2_writepage(f)
  <2>1. RestTypes'
    BY <1>1, <1>5, RestOfTypes DEF RestTypes, vdfs2_writepage, ghosts
  <2> QED BY <1>1, <1>5, <2>1, Ordinary DEF vdfs2_writepage, ghosts
<1> QED BY <1>3, <1>4, <1>5

(* Reclaim. *)
LEMMA Reclaim ==
  ASSUME SmallInv, NEW f \in File, write_tiny_small_page(f)
  PROVE  SmallInv'
<1>1. Types /\ CellInv /\ RecInv
  BY DEF SmallInv
<1>2. page[f] \in Page /\ f \in dirty
  BY <1>1 DEF Types, write_tiny_small_page
<1>3. /\ com' = com /\ failed' = failed /\ hurt \subseteq hurt' /\ dirty' = dirty
      /\ page' = page /\ blk' = blk /\ orphan' = orphan /\ disk' = disk /\ bh' = bh
  BY DEF write_tiny_small_page
<1>4. CASE ino[f].kind = "tiny"
  <2> DEFINE d == [i \in DOMAIN ino[f].data |-> IF i < ino[f].len THEN page[f][i] ELSE ino[f].data[i]]
             x == [ino[f] EXCEPT !.data = d]
  <2>1. d \in [0 .. TINY_DATA_SIZE - 1 -> Unit]
    <3>1. \A i \in 0 .. TINY_DATA_SIZE - 1 : i \in Pos
      BY SizesOk DEF Pos
    <3> QED BY <1>1, <1>2, <3>1, InodeOk DEF Page
  <2>2. x \in Inode /\ x.cell = ino[f].cell /\ x.kind = ino[f].kind /\ x.ext = ino[f].ext
    BY <1>1, <2>1, InodeOk DEF Inode
  <2>3. (x.kind # "small" => x.cell = NoCell) /\ (HasBlock(x) => x.kind = "ordinary")
    BY <1>1, <2>2 DEF CellInv, RecInv, HasBlock
  <2>4. vdfs2_write_inode_to_bnode(f, x) /\ bits' = bits /\ area' = area /\ reused' = reused
    BY <1>4 DEF write_tiny_small_page
  <2>5. RestTypes'
    BY <1>1, <1>3, <2>4, RestOfTypes DEF RestTypes
  <2> HIDE DEF x
  <2> QED BY <1>3, <2>2, <2>3, <2>4, <2>5, WrittenStays
<1>5. CASE ino[f].kind # "tiny"
  <2> DEFINE c == CellOf(f)
             x == [ino[f] EXCEPT !.cell = c]
  <2>1. HasCell(f) /\ ino[f].kind = "small"
    BY <1>5 DEF write_tiny_small_page
  <2>2. /\ c \in Cell
        /\ \/ ino[f].cell # NoCell /\ c = ino[f].cell
           \/ ino[f].cell = NoCell /\ c \in Cell \ bits
    BY <1>1, <2>1, CellOfOk
  <2>3. /\ vdfs2_write_inode_to_bnode(f, x) /\ bits' = bits \cup {c}
        /\ area' = Put(area, 0, page[f], ino[f].len)
        /\ reused' = reused \cup (({c} \cup Beginning(ino[f].len)) \cap com.bits)
    BY <1>5 DEF write_tiny_small_page
  <2> HIDE DEF c
  <2>4. x \in Inode /\ x.cell = c /\ x.kind = "small" /\ ~HasBlock(x)
    BY <1>1, <2>1, <2>2, InodeOk DEF Inode, RecInv, HasBlock
  <2>5. area' \in [Units -> Unit] /\ reused' \subseteq Cell
    BY <1>1, <1>2, <2>2, <2>3, InodeOk, PutOk DEF Types
  <2>6. RestTypes'
    BY <1>1, <1>3, <2>5, RestOfTypes DEF RestTypes
  <2>7. \/ x.cell = ino[f].cell /\ bits' = bits
        \/ ino[f].cell = NoCell /\ x.cell \in Cell \ bits /\ bits' = bits \cup {x.cell}
    BY <1>1, <2>2, <2>3, <2>4 DEF CellInv
  <2> HIDE DEF x
  <2> QED BY <1>3, <2>3, <2>4, <2>6, <2>7, WrittenStays
<1> QED BY <1>4, <1>5

LEMMA ReadInode ==
  ASSUME SmallInv, NEW f \in File, vdfs2_read_inode(f)
  PROVE  SmallInv'
<1>1. Types /\ CellInv /\ ComCellInv /\ RecInv
  BY DEF SmallInv
<1>2. /\ ino' = [ino EXCEPT ![f] = rec[f]] /\ rec' = rec /\ com' = com /\ failed' = failed
      /\ bits' = bits /\ hurt' = hurt /\ dirty' = dirty /\ f \notin dirty
  BY DEF vdfs2_read_inode, ghosts
<1>3. rec' = [rec EXCEPT ![f] = rec[f]] /\ rec[f] \in Inode
  BY <1>1, <1>2 DEF Types
<1>4. Changes(f, rec[f], rec[f])
  BY <1>1, <1>2, <1>3 DEF Changes, CellInv
<1>5. FileStep(f)
  BY <1>2, <1>4 DEF FileStep, CellLost
<1>6. RestTypes'
  BY <1>1, RestOfTypes DEF RestTypes, vdfs2_read_inode, ghosts
<1>7. RecInv'
  BY <1>1, <1>2, <1>4, RecordStep DEF RecInv
<1> QED BY <1>1, <1>5, <1>6, <1>7, OneFile

LEMMA Unlink ==
  ASSUME SmallInv, NEW f \in File, vdfs2_unlink(f)
  PROVE  SmallInv'
<1>1. Types /\ CellInv /\ ComCellInv /\ RecInv
  BY DEF SmallInv
<1>2. /\ ino' = ino /\ rec' = [rec EXCEPT ![f] = ino[f]] /\ com' = com /\ failed' = failed
      /\ bits' = bits /\ hurt' = hurt /\ dirty' = dirty
  BY DEF vdfs2_unlink
<1>3. ino' = [ino EXCEPT ![f] = ino[f]] /\ ino[f] \in Inode
  BY <1>1, <1>2 DEF Types
<1>4. Changes(f, ino[f], ino[f])
  BY <1>1, <1>2, <1>3 DEF Changes, CellInv
<1>5. FileStep(f)
  BY <1>2, <1>4 DEF FileStep, CellStays
<1>6. RestTypes'
  BY <1>1, RestOfTypes DEF RestTypes, vdfs2_unlink
<1>7. RecInv'
  BY <1>1, <1>2, <1>4, RecordStep DEF RecInv
<1> QED BY <1>1, <1>5, <1>6, <1>7, OneFile

LEMMA KillOrphan ==
  ASSUME SmallInv, NEW f \in File, vdfs2_kill_orphan_inode(f)
  PROVE  SmallInv'
<1>1. Types /\ CellInv /\ ComCellInv /\ RecInv
  BY DEF SmallInv
<1>2. /\ ino' = [ino EXCEPT ![f] = None] /\ rec' = [rec EXCEPT ![f] = None]
      /\ com' = [com EXCEPT !.hurt = @ \cup (hurt \cap {f})] /\ failed' = failed
      /\ hurt' = hurt \ {f} /\ dirty' = dirty \ {f} /\ orphan' = orphan \ {f}
      /\ page' = [page EXCEPT ![f] = NoPage] /\ bh' = [bh EXCEPT ![f] = "none"]
      /\ UNCHANGED <<area, disk, blk, reused>>
  BY DEF vdfs2_kill_orphan_inode
<1>3. com = [rec |-> com.rec, bits |-> com.bits, orphan |-> com.orphan,
             want |-> com.want, hurt |-> com.hurt]
  BY <1>1 DEF Types
<1>4. com'.rec = com.rec /\ com'.bits = com.bits /\ com'.orphan = com.orphan
      /\ com' = [rec |-> com'.rec, bits |-> com'.bits, orphan |-> com'.orphan,
                 want |-> com'.want, hurt |-> com'.hurt]
  BY <1>2, <1>3
<1>5. Changes(f, None, None)
  BY <1>2, <1>4, NoneOk DEF Changes
<1>6. ino[f].kind # "small" => ino[f].cell = NoCell
  BY <1>1 DEF CellInv
<1>7. (None.cell = ino[f].cell /\ bits' = bits) \/ bits' = bits \ {ino[f].cell}
  BY <1>6, NoneOk DEF vdfs2_kill_orphan_inode, FreeCell
<1>8. FileStep(f)
  BY <1>5, <1>7, NoneOk DEF FileStep, CellStays, CellFreed
<1>9. RestTypes'
  BY <1>1, <1>2, <1>4, RestOfTypes DEF RestTypes
<1>10. RecInv'
  BY <1>1, <1>2, <1>5, NoneOk, RecordStep DEF HasBlock
<1> QED BY <1>1, <1>8, <1>9, <1>10, OneFile

LEMMA Commit ==
  ASSUME SmallInv, sync_filesystem \/ vdfs2_file_fsync
  PROVE  SmallInv'
<1>1. Types /\ CellInv /\ ComCellInv /\ RecInv
  BY DEF SmallInv
<1>2. /\ com' = Snapshot /\ reused' = {}
      /\ UNCHANGED <<ino, rec, orphan, page, bh, dirty, mid, bits, area, blk, want, hurt, failed>>
      /\ disk' = area \/ disk' = disk
  BY DEF sync_filesystem, vdfs2_file_fsync, Commits
<1>3. com'.rec = rec /\ com'.bits = bits /\ com'.orphan = orphan
      /\ com' = [rec |-> com'.rec, bits |-> com'.bits, orphan |-> com'.orphan,
                 want |-> com'.want, hurt |-> com'.hurt]
  BY <1>2 DEF Snapshot
<1>4. Types'
  BY <1>1, <1>2, <1>3 DEF Types
<1>5. CellInv'
  BY <1>1, <1>2, <1>3 DEF CellInv
<1>6. ComCellInv'
  BY <1>1, <1>2, <1>3 DEF ComCellInv, CellInv
<1>7. RecInv'
  BY <1>1, <1>2, <1>3 DEF RecInv
<1> QED BY <1>4, <1>5, <1>6, <1>7 DEF SmallInv

LEMMA Crashes ==
  ASSUME SmallInv, Crash
  PROVE  SmallInv'
<1> DEFINE left == {f \in File : com.rec[f].kind # "none"} \ com.orphan
           back == [f \in File |-> IF f \in left THEN com.rec[f] ELSE None]
<1>1. Types /\ CellInv /\ ComCellInv /\ RecInv
  BY DEF SmallInv
<1>2. /\ ino' = back /\ rec' = back /\ orphan' = {} /\ page' = [f \in File |-> NoPage]
      /\ dirty' = {} /\ area' = disk /\ disk' = disk /\ reused' = {} /\ failed' = failed
      /\ blk' = blk /\ bh' = [f \in File |-> "none"]
      /\ bits' = com.bits \ {com.rec[f].cell : f \in {g \in com.orphan : com.rec[g].kind = "small"}}
      /\ com' = [com EXCEPT !.hurt = hurt']
  BY DEF Crash
<1>3. com = [rec |-> com.rec, bits |-> com.bits, orphan |-> com.orphan,
             want |-> com.want, hurt |-> com.hurt]
  BY <1>1 DEF Types
<1>4. com'.rec = com.rec /\ com'.bits = com.bits /\ com'.orphan = com.orphan
      /\ com' = [rec |-> com'.rec, bits |-> com'.bits, orphan |-> com'.orphan,
                 want |-> com'.want, hurt |-> com'.hurt]
  BY <1>2, <1>3
<1>5. back \in [File -> Inode]
  BY <1>1, NoneOk DEF Types
<1>6. \A f \in File : /\ f \in left => back[f] = com.rec[f]
                      /\ f \notin left => back[f].cell = NoCell /\ back[f].kind = "none"
                                              /\ ~HasBlock(back[f])
  BY NoneOk DEF HasBlock
<1>7. \A f \in File : f \notin left => com.rec[f].cell = NoCell \/ f \in com.orphan
  BY <1>1 DEF CellInv
<1>8. \A f \in File : f \in left => f \notin com.orphan
  OBVIOUS
<1> HIDE DEF left, back
<1>9. Types'
  BY <1>1, <1>2, <1>4, <1>5 DEF Types
<1>10. CellInv'
  <2>1. \A f \in File : ino'[f].kind # "small" => ino'[f].cell = NoCell
    BY <1>1, <1>2, <1>6 DEF CellInv
  <2>2. \A f, g \in File : ino'[f].cell = ino'[g].cell /\ ino'[f].cell # NoCell => f = g
    BY <1>1, <1>2, <1>6 DEF ComCellInv
  <2>3. \A f \in File : ino'[f].cell # NoCell => ino'[f].cell \in bits'
    <3> SUFFICES ASSUME NEW f \in File, back[f].cell # NoCell PROVE back[f].cell \in bits'
      BY <1>2
    <3>1. f \in left /\ back[f].cell = com.rec[f].cell /\ f \notin com.orphan
      BY <1>6, <1>8
    <3>2. com.rec[f].cell \in com.bits
      BY <1>1, <3>1 DEF ComCellInv
    <3>3. ASSUME NEW g \in com.orphan, com.rec[g].kind = "small", com.rec[g].cell = com.rec[f].cell
          PROVE  FALSE
      <4>1. g \in File
        BY <1>1 DEF Types
      <4> QED BY <1>1, <3>1, <3>3, <4>1 DEF ComCellInv
    <3> QED BY <1>2, <3>1, <3>2, <3>3
  <2>4. \A c \in bits' : c \in failed' \/ \E f \in File : ino'[f].cell = c
    <3> SUFFICES ASSUME NEW c \in bits', c \notin failed PROVE \E f \in File : back[f].cell = c
      BY <1>2
    <3>1. c \in com.bits /\ c # NoCell
      BY <1>1, <1>2, SizesOk DEF Types
    <3>2. PICK f \in File : com.rec[f].cell = c
      BY <1>1, <3>1 DEF ComCellInv
    <3>3. com.rec[f].kind = "small"
      BY <1>1, <3>1, <3>2 DEF CellInv
    <3>4. f \notin com.orphan
      BY <1>2, <3>2, <3>3
    <3>5. f \in left
      BY <1>7, <3>1, <3>2, <3>4
    <3> QED BY <1>6, <3>2, <3>5
  <2> QED BY <1>1, <1>2, <1>4, <2>1, <2>2, <2>3, <2>4 DEF CellInv
<1>11. ComCellInv'
  BY <1>1, <1>2, <1>4 DEF ComCellInv
<1>12. RecInv'
  BY <1>1, <1>2, <1>4, <1>6 DEF RecInv
<1> QED BY <1>9, <1>10, <1>11, <1>12 DEF SmallInv

LEMMA SmallInit ==
  ASSUME Init
  PROVE  SmallInv
<1>1. /\ ino = [f \in File |-> None] /\ rec = ino /\ orphan = {} /\ bits = {} /\ reused = {}
      /\ page = [f \in File |-> NoPage] /\ dirty = {} /\ failed = {}
      /\ area = [u \in Units |-> Junk] /\ disk = area /\ blk = [f \in File |-> JunkPage]
      /\ com = Snapshot /\ bh = [f \in File |-> "none"]
  BY DEF Init, Units
<1>2. com.rec = rec /\ com.bits = bits /\ com.orphan = {}
      /\ com = [rec |-> com.rec, bits |-> com.bits, orphan |-> com.orphan,
                want |-> com.want, hurt |-> com.hurt]
  BY <1>1 DEF Snapshot
<1>3. Types
  BY <1>1, <1>2, NoneOk, SizesOk DEF Types
<1>4. CellInv /\ ComCellInv /\ RecInv
  BY <1>1, <1>2, NoneOk DEF CellInv, ComCellInv, RecInv, HasBlock
<1> QED BY <1>3, <1>4 DEF SmallInv

LEMMA SmallNext ==
  ASSUME SmallInv, [Next]_vars
  PROVE  SmallInv'
<1>1. CASE UNCHANGED vars
  <2>1. UNCHANGED <<ino, rec, bits, com, failed, hurt, dirty, page, blk, area, disk, reused, orphan, bh>>
    BY <1>1 DEF vars, ghosts
  <2>2. RestTypes'
    BY <2>1, RestOfTypes DEF RestTypes, SmallInv
  <2> QED BY <2>1, <2>2, NoFile
<1>2. ASSUME NEW f \in File, Step(f) PROVE SmallInv'
  <2>1. CASE vdfs2_create(f) \/ vdfs2_unlink(f) \/ vdfs2_kill_orphan_inode(f)
    BY <2>1, Create, Unlink, KillOrphan
  <2>2. ASSUME NEW w \in Writes,
               \/ write_tiny_small_file(f, w[1], w[2])
               \/ convert_tiny_file_to_small_file(f, w[1], w[2])
               \/ convert_tiny_file_to_ordinary_file(f, w[1], w[2])
               \/ convert_small_file_to_ordinary_file(f, w[1], w[2])
               \/ GenericWrite(f, w[1], w[2]) \/ GenericWriteFails(f, w[1], w[2])
        PROVE  SmallInv'
    BY <2>2, WritesOk, WriteTinySmall, TinyToSmall, TinyToOrdinary, SmallToOrdinary, Generic, Quiet
  <2>3. CASE vdfs2_read_folio(f) \/ ReadFails(f) \/ DropPage(f)
    BY <2>3, Quiet
  <2>4. CASE \E n \in Sizes : vdfs2_update_inode(f, n)
    BY <2>4, Update
  <2>5. CASE \/ writepage_tiny(f) \/ WritebackFails(f) \/ ReclaimFails(f)
             \/ vdfs2_mpage_writepages(f) \/ WritepageNoSpace(f) \/ vdfs2_writepage(f)
    BY <2>5, WriteTiny, WriteFails, WritePages
  <2>6. CASE \E sync \in BOOLEAN : write_small_file_page(f, sync)
    BY <2>6, WriteSmall
  <2>7. CASE write_tiny_small_page(f) \/ vdfs2_read_inode(f)
    BY <2>7, Reclaim, ReadInode
  <2> QED BY <1>2, <2>1, <2>2, <2>3, <2>4, <2>5, <2>6, <2>7 DEF Step
<1>3. CASE FlushArea
  <2>1. Types
    BY DEF SmallInv
  <2>2. RestTypes'
    BY <1>3, <2>1, RestOfTypes DEF RestTypes, FlushArea
  <2> QED BY <1>3, <2>2, NoFile DEF FlushArea
<1>4. CASE sync_filesystem \/ vdfs2_file_fsync
  BY <1>4, Commit
<1>5. CASE Crash
  BY <1>5, Crashes
<1> QED BY <1>1, <1>2, <1>3, <1>4, <1>5 DEF Next

LEMMA SmallAlways == Spec => []SmallInv
<1>1. Init => SmallInv
  BY SmallInit
<1>2. SmallInv /\ [Next]_vars => SmallInv'
  BY SmallNext
<1> QED BY <1>1, <1>2, PTL DEF Spec

(* The cell of a small file is marked and its own, in memory and in the    *)
(* snapshot, whatever conversions, failing writebacks, reclaims, removals, *)
(* commits and crashes come in whatever order; and a marked cell has an    *)
(* owner unless a failing writeback took it.  vdfs2_free_cell() meets no   *)
(* clear bit.                                                              *)
THEOREM CellsHaveOneOwner == Spec => []CellsOwned
<1>1. SmallInv => CellsOwned
  <2> SUFFICES ASSUME SmallInv PROVE CellsOwned
    OBVIOUS
  <2>1. /\ \A f, g \in Owned(ino) : ino[f].cell = ino[g].cell => f = g
        /\ \A f \in Owned(ino) : ino[f].cell \in bits
        /\ \A f \in Owned(com.rec) : com.rec[f].cell \in com.bits
    BY DEF SmallInv, CellInv, ComCellInv, Owned
  <2>2. ASSUME NEW c \in bits, c \notin failed PROVE c \in {ino[f].cell : f \in Owned(ino)}
    <3>1. c # NoCell
      BY SizesOk DEF SmallInv, Types
    <3>2. PICK f \in File : ino[f].cell = c
      BY <2>2 DEF SmallInv, CellInv
    <3>3. f \in Owned(ino)
      BY <3>1, <3>2 DEF SmallInv, CellInv, Owned
    <3> QED BY <3>2, <3>3
  <2> QED BY <2>1, <2>2 DEF CellsOwned
<1> QED BY <1>1, SmallAlways, PTL

(* A clean inode may leave memory at any time: what vdfs2_read_inode()     *)
(* finds in the record is the inode, unless a writeback of it failed.      *)
THEOREM RecordsStayCurrent == Spec => []RecordCurrent
<1>1. SmallInv => RecordCurrent
  BY DEF SmallInv, RecInv, RecordCurrent
<1> QED BY <1>1, SmallAlways, PTL

---------------------------------------------------------------------------
(* What is stored of a file, by inode x, area a and blocks b; what a read  *)
(* leaves behind the end counts as zero.                                   *)
View(x, a, b) ==
  IF x.kind = "tiny" THEN
    [i \in Pos |-> IF i >= x.size THEN Zero ELSE IF i >= x.len THEN Zero
                   ELSE IF i < TINY_DATA_SIZE THEN x.data[i] ELSE Junk]
  ELSE IF x.kind = "small" THEN
    [i \in Pos |-> IF i >= x.size THEN Zero ELSE IF i >= x.len THEN Zero
                   ELSE IF x.cell # NoCell /\ x.cell * cell_size + i \in DOMAIN a
                          THEN a[x.cell * cell_size + i] ELSE Junk]
  ELSE IF x.ext = "none" THEN ZeroPage ELSE IF x.ext = "raw" THEN JunkPage ELSE b

Own(f)         == {f, Zero}
OwnPage(f, p)  == \A i \in Pos : p[i] \in Own(f)
OwnData(f, d)  == \A i \in 0 .. TINY_DATA_SIZE - 1 : d[i] \in Own(f)
Agree(p, w)    == \A i \in Pos : i < w[1] => p[i] = w[2][i]

(* A reader finds only units of f. *)
Shows(f, x, a, b) == \A i \in Pos : i < x.size => View(x, a, b)[i] \in Own(f)

LenOk(x) == x.len <= x.size /\ (x.kind = "ordinary" => x.len = 0)

(* Kinds change in one order; the stored length is at most the size; a     *)
(* clean small file fits in its cell; a page whose buffer is unmapped has  *)
(* no block; the record of an inode that has one is current; and a block   *)
(* that was never written is behind the end, or the next commit writes it. *)
KindOk(f) ==
  /\ ino[f].kind = "none" <=> rec[f].kind = "none"
  /\ ino[f].kind = "none" => page[f] = NoPage
  /\ ino[f].kind = "tiny" => rec[f].kind = "tiny"
  /\ ino[f].kind = "ordinary" => rec[f].kind \in {"tiny", "ordinary"}
  /\ f \in dirty => f \in list \/ ino[f].kind = "ordinary"
  /\ LenOk(ino[f]) /\ LenOk(rec[f]) /\ LenOk(com.rec[f])
  /\ f \notin hurt /\ ino[f].kind = "small" /\ f \notin dirty => ino[f].len <= cell_size
  /\ bh[f] = "unmapped" => ino[f].ext = "none"
  /\ rec[f].ext # "none" => ino[f] = rec[f]
  /\ f \notin hurt /\ ino[f].ext = "raw" => ino[f].size = 0 \/ (f \in dirty /\ f \in list)

(* What is asked of f is its own units, and zeros past the end. *)
WantOf(f, w) ==
  /\ w = <<w[1], w[2]>> /\ w[1] \in 0 .. PageSize /\ w[2] \in Page
  /\ OwnPage(f, w[2])
  /\ \A i \in Pos : i >= w[1] => w[2][i] = Zero

(* A file that no defect hit: up to its end its page is what is asked of   *)
(* it, and what is stored of it too once the page is clean.  Its record    *)
(* and its block never hold units of another file: a crash may bring them  *)
(* back.                                                                   *)
FileOk(f) ==
  f \notin hurt /\ ino[f].kind # "none" =>
    /\ WantOf(f, want[f]) /\ ino[f].size = want[f][1]
    /\ page[f] # NoPage => Agree(page[f], want[f])
    /\ f \notin dirty => Agree(View(ino[f], area, blk[f]), want[f])
    /\ OwnData(f, ino[f].data) /\ OwnData(f, rec[f].data)
    /\ ino[f].ext = "data" \/ rec[f].ext = "data" => OwnPage(f, blk[f])

(* The snapshot: a file that was not hurt, and whose cell was not written  *)
(* for another one, has only its own units; and one that was not touched   *)
(* is what was asked when it was committed.                                *)
Kept(f) == /\ com.rec[f].kind # "none" /\ f \notin com.orphan
           /\ f \notin hurt /\ f \notin com.hurt /\ com.rec[f].cell \notin reused
           /\ ~Overlong(com.rec[f])

Alone(f) == \A g \in File : ino[g].cell = com.rec[f].cell /\ ino[g].cell # NoCell => g = f

Untouched(f) ==
  /\ WantOf(f, com.want[f]) /\ com.rec[f].size = com.want[f][1]
  /\ com.rec[f].kind \in {"small", "ordinary"} =>
       f \notin dirty /\ ino[f] = com.rec[f] /\ rec[f] = com.rec[f]
  /\ Agree(View(com.rec[f], area, blk[f]), com.want[f])
  /\ f \notin unsafe => Agree(View(com.rec[f], disk, blk[f]), com.want[f])

ComOk(f) ==
  Kept(f) =>
    /\ Alone(f)
    /\ com.rec[f].kind = "small" => com.rec[f].len <= cell_size
    /\ OwnData(f, com.rec[f].data)
    /\ com.rec[f].ext = "data" => OwnPage(f, blk[f])
    /\ Shows(f, com.rec[f], area, blk[f])
    /\ f \notin unsafe => Shows(f, com.rec[f], disk, blk[f])
    /\ f \notin touched => Untouched(f)

OrphanInv == orphan \subseteq touched \cup com.orphan
WantInv   == want = [f \in File |-> want[f]]

ContentInv ==
  /\ OrphanInv /\ WantInv
  /\ \A f \in File : KindOk(f)
  /\ \A f \in File : FileOk(f)
  /\ \A f \in File : ComOk(f)

(* A reader without a page in the cache gets what is stored. *)
LEMMA ReadsView ==
  ASSUME NEW f \in File
  PROVE  Read(f, Zero) = View(ino[f], area, blk[f])
  BY DEF Read, read_tiny_small_page, Stored, ReadBlock, View

LEMMA ViewTiny ==
  ASSUME NEW x, NEW a, NEW b, x.kind = "tiny"
  PROVE  View(x, a, b) = [i \in Pos |-> IF i >= x.size THEN Zero ELSE IF i >= x.len THEN Zero
                                        ELSE IF i < TINY_DATA_SIZE THEN x.data[i] ELSE Junk]
  BY DEF View

LEMMA ViewSmall ==
  ASSUME NEW x, NEW a \in [Units -> Unit], NEW b, x.kind = "small"
  PROVE  View(x, a, b) = [i \in Pos |-> IF i >= x.size THEN Zero ELSE IF i >= x.len THEN Zero
                                        ELSE IF x.cell # NoCell /\ x.cell * cell_size + i \in Units
                                               THEN a[x.cell * cell_size + i] ELSE Junk]
  BY DEF View

LEMMA ViewOther ==
  ASSUME NEW x, NEW a, NEW b, x.kind \notin {"tiny", "small"}
  PROVE  View(x, a, b) = IF x.ext = "none" THEN ZeroPage ELSE IF x.ext = "raw" THEN JunkPage ELSE b
  BY DEF View

(* Only the cell of a small file and the block of an ordinary one matter. *)
LEMMA ViewSame ==
  ASSUME NEW x \in Inode, NEW a \in [Units -> Unit], NEW b, NEW e \in [Units -> Unit], NEW d,
         x.kind \notin {"tiny", "small"} /\ x.ext = "data" => b = d,
         x.kind = "small" /\ x.cell # NoCell =>
            \A i \in Pos : i < x.len /\ x.cell * cell_size + i \in Units =>
                             e[x.cell * cell_size + i] = a[x.cell * cell_size + i]
  PROVE  View(x, e, d) = View(x, a, b)
<1>1. CASE x.kind = "tiny"
  BY <1>1, ViewTiny
<1>2. CASE x.kind = "small"
  <2> DEFINE V(z) == [i \in Pos |-> IF i >= x.size THEN Zero ELSE IF i >= x.len THEN Zero
                                    ELSE IF x.cell # NoCell /\ x.cell * cell_size + i \in Units
                                           THEN z[x.cell * cell_size + i] ELSE Junk]
  <2>1. View(x, e, d) = V(e) /\ View(x, a, b) = V(a)
    BY <1>2, ViewSmall
  <2>2. ASSUME NEW i \in Pos PROVE V(e)[i] = V(a)[i]
    <3>1. i \in Nat /\ x.len \in Nat
      BY SizesOk DEF Pos, Inode
    <3>2. i >= x.len \/ i < x.len
      BY <3>1
    <3> QED BY <1>2, <3>2
  <2>3. V(e) = V(a)
    BY <2>2
  <2> QED BY <2>1, <2>3
<1>3. CASE x.kind \notin {"tiny", "small"}
  <2>1. x.ext \in {"none", "raw", "data"}
    BY DEF Inode
  <2> QED BY <1>3, <2>1, ViewOther
<1> QED BY <1>1, <1>2, <1>3

(* What is stored of a tiny or small file ends at its length. *)
LEMMA ViewEnds ==
  ASSUME NEW x, NEW a \in [Units -> Unit], NEW b, x.kind \in {"tiny", "small"},
         NEW i \in Pos, i >= x.len \/ i >= x.size
  PROVE  View(x, a, b)[i] = Zero
<1>1. CASE x.kind = "tiny"
  BY <1>1, ViewTiny
<1>2. CASE x.kind = "small"
  BY <1>2, ViewSmall
<1> QED BY <1>1, <1>2

(* The units of a cell. *)
LEMMA CellUnits ==
  ASSUME NEW c \in Cell, NEW i \in Nat, i < cell_size
  PROVE  /\ c * cell_size \in Nat /\ c * cell_size + i \in Nat /\ c * cell_size + i \in Units
<1>1. c \in Nat /\ c < NumCells /\ NumCells \in Nat /\ cell_size \in Nat
  BY SizesOk DEF Cell
<1>2. c * cell_size \in Nat /\ NumCells * cell_size \in Nat
      /\ c * cell_size + cell_size <= NumCells * cell_size
  BY <1>1, RangesApart
<1> HIDE DEF Cell
<1> DEFINE u == c * cell_size
           v == NumCells * cell_size
<1>3. u \in Nat /\ v \in Nat /\ u + cell_size <= v
  BY <1>2
<1> HIDE DEF u, v
<1>4. u + i \in Nat /\ u + i \in 0 .. v - 1
  BY <1>1, <1>3
<1> QED BY <1>3, <1>4 DEF u, v, Units

(* A write to cell c leaves the units of cell d alone. *)
LEMMA PutElsewhere ==
  ASSUME NEW a \in [Units -> Unit], NEW c \in Cell, NEW d \in Cell, c # d,
         NEW p, NEW n \in Nat, n <= cell_size, NEW i \in Nat, i < cell_size
  PROVE  Put(a, c * cell_size, p, n)[d * cell_size + i] = a[d * cell_size + i]
<1> DEFINE u == c * cell_size
           v == d * cell_size
<1>1. c \in Nat /\ d \in Nat /\ cell_size \in Nat /\ (c < d \/ d < c)
  BY SizesOk
<1>2. u \in Nat /\ v \in Nat /\ (u + cell_size <= v \/ v + cell_size <= u)
  BY <1>1, RangesApart
<1>3. v + i \in Units
  BY CellUnits
<1> HIDE DEF u, v
<1>4. ~(v + i >= u /\ v + i < u + n)
  BY <1>1, <1>2
<1>5. Put(a, u, p, n)[v + i] = a[v + i]
  BY <1>3, <1>4 DEF Put
<1> QED BY <1>5 DEF u, v

(* A write to the beginning of the area leaves the units of the cells it   *)
(* does not reach alone.                                                   *)
LEMMA PutBeginning ==
  ASSUME NEW a \in [Units -> Unit], NEW d \in Cell, NEW p, NEW n \in Nat,
         d \notin Beginning(n), NEW i \in Nat, d * cell_size + i \in Units
  PROVE  Put(a, 0, p, n)[d * cell_size + i] = a[d * cell_size + i]
<1> DEFINE v == d * cell_size
<1>1. v \in Nat /\ ~(v < n)
  BY SizesOk DEF Beginning
<1>2. v + i \in Units
  OBVIOUS
<1> HIDE DEF v
<1>3. ~(v + i < 0 + n)
  BY <1>1
<1>4. Put(a, 0, p, n)[v + i] = a[v + i]
  BY <1>2, <1>3 DEF Put
<1> QED BY <1>4 DEF v

LEMMA PutHere ==
  ASSUME NEW a \in [Units -> Unit], NEW c \in Cell, NEW p, NEW n \in Nat,
         n <= cell_size, NEW i \in Nat, i < n
  PROVE  Put(a, c * cell_size, p, n)[c * cell_size + i] = p[i]
<1> DEFINE u == c * cell_size
<1>1. cell_size \in Nat /\ i < cell_size
  BY SizesOk
<1>2. u \in Nat /\ u + i \in Units
  BY <1>1, CellUnits
<1> HIDE DEF u
<1>3. u + i >= u /\ u + i < u + n /\ (u + i) - u = i
  BY <1>2
<1>4. Put(a, u, p, n)[u + i] = p[i]
  BY <1>2, <1>3 DEF Put
<1> QED BY <1>4 DEF u

---------------------------------------------------------------------------
(* An operation on file f leaves the other files alone, and the snapshot. *)
OthersSame(f) ==
  \A g \in File : g # f =>
    /\ ino'[g] = ino[g] /\ rec'[g] = rec[g] /\ page'[g] = page[g]
    /\ want'[g] = want[g] /\ blk'[g] = blk[g] /\ bh'[g] = bh[g]
    /\ g \in dirty' <=> g \in dirty
    /\ g \in list => g \in list'
    /\ g \in hurt => g \in hurt'

ComSame(f) ==
  /\ com'.rec = com.rec /\ com'.bits = com.bits /\ com'.orphan = com.orphan
  /\ com'.want = com.want /\ com.hurt \subseteq com'.hurt
  /\ f \in hurt => f \in hurt' \/ f \in com'.hurt
  /\ reused \subseteq reused' /\ touched \subseteq touched'
  /\ orphan' \subseteq orphan \cup touched'

(* A cell f gets is not one the snapshot has, or counts as reused. *)
CellMove(f) ==
  \/ ino'[f].cell \in {ino[f].cell, NoCell}
  \/ ino'[f].cell \notin com.bits
  \/ ino'[f].cell \in reused'

(* Only a file that is touched, or dirty already, or tiny, changes. *)
Busy(f) ==
  \/ f \in touched' \/ f \in dirty \/ ino[f].kind = "tiny" \/ f \in hurt' \/ f \in com.orphan
  \/ ino'[f] = ino[f] /\ rec'[f] = rec[f] /\ f \notin dirty'

(* What the area and the volume hold of the snapshot. *)
AreaMove(g) ==
  Kept(g)' =>
    \/ View(com.rec[g], area', blk'[g]) = View(com.rec[g], area, blk[g])
    \/ g \in touched' /\ Shows(g, com.rec[g], area', blk'[g])

DiskMove(g) ==
  Kept(g)' /\ g \notin unsafe' =>
    \/ disk' = area'
    \/ /\ g \notin unsafe
       /\ \/ View(com.rec[g], disk', blk'[g]) = View(com.rec[g], disk, blk[g])
          \/ g \in touched' /\ Shows(g, com.rec[g], disk', blk'[g])

(* The block of f changes only under a file that is touched. *)
BlkMove(f) ==
  \/ blk'[f] = blk[f]
  \/ Kept(f)' /\ com.rec[f].ext = "data" => f \in touched' /\ OwnPage(f, blk'[f])

LEMMA KeptBefore ==
  ASSUME NEW f \in File, NEW g \in File, OthersSame(f), ComSame(f), Kept(g)'
  PROVE  Kept(g)
  BY DEF OthersSame, ComSame, Kept

(* A file of the snapshot whose cell counts as its own has a cell that is  *)
(* marked there.                                                           *)
LEMMA ComStep ==
  ASSUME SmallInv, ContentInv, NEW f \in File, OthersSame(f), ComSame(f), CellMove(f), Busy(f),
         BlkMove(f), NEW g \in File, AreaMove(g), DiskMove(g)
  PROVE  ComOk(g)'
<1> SUFFICES ASSUME Kept(g)' 
             PROVE  /\ Alone(g)'
                    /\ com'.rec[g].kind = "small" => com'.rec[g].len <= cell_size
                    /\ OwnData(g, com'.rec[g].data)
                    /\ com'.rec[g].ext = "data" => OwnPage(g, blk'[g])
                    /\ Shows(g, com'.rec[g], area', blk'[g])
                    /\ g \notin unsafe' => Shows(g, com'.rec[g], disk', blk'[g])
                    /\ g \notin touched' => Untouched(g)'
  BY DEF ComOk
<1>1. com'.rec = com.rec /\ com'.want = com.want /\ touched \subseteq touched'
  BY DEF ComSame
<1>2. Kept(g)
  BY KeptBefore
<1>3. /\ Alone(g)
      /\ com.rec[g].kind = "small" => com.rec[g].len <= cell_size
      /\ OwnData(g, com.rec[g].data)
      /\ com.rec[g].ext = "data" => OwnPage(g, blk[g])
      /\ Shows(g, com.rec[g], area, blk[g])
      /\ g \notin unsafe => Shows(g, com.rec[g], disk, blk[g])
      /\ g \notin touched => Untouched(g)
  BY <1>2 DEF ContentInv, ComOk
<1>4. Alone(g)'
  <2> SUFFICES ASSUME NEW h \in File, ino'[h].cell = com.rec[g].cell, ino'[h].cell # NoCell
               PROVE  h = g
    BY <1>1 DEF Alone
  <2>1. CASE ino'[h].cell = ino[h].cell
    BY <1>3, <2>1 DEF Alone
  <2>2. CASE ino'[h].cell # ino[h].cell
    <3>1. h = f
      BY <2>2 DEF OthersSame
    <3>2. com.rec[g].cell \in com.bits
      BY DEF SmallInv, ComCellInv
    <3>3. com.rec[g].cell \notin reused'
      BY <1>1 DEF Kept
    <3> QED BY <2>2, <3>1, <3>2, <3>3 DEF CellMove
  <2> QED BY <2>1, <2>2
<1>5. Shows(g, com.rec[g], area', blk'[g])
  BY <1>3 DEF AreaMove, Shows
<1>6. g \notin unsafe' => Shows(g, com.rec[g], disk', blk'[g])
  BY <1>3, <1>5 DEF DiskMove, Shows
<1>7. ASSUME g \notin touched' PROVE Untouched(g)'
  <2>1. Untouched(g) /\ g \notin touched
    BY <1>1, <1>3, <1>7
  <2>2. Agree(View(com.rec[g], area', blk'[g]), com.want[g])
    BY <1>7, <2>1 DEF AreaMove, Untouched
  <2>3. g \notin unsafe' => Agree(View(com.rec[g], disk', blk'[g]), com.want[g])
    BY <1>7, <2>1, <2>2 DEF DiskMove, Untouched
  <2>4. ASSUME com.rec[g].kind \in {"small", "ordinary"}
        PROVE  g \notin dirty' /\ ino'[g] = com.rec[g] /\ rec'[g] = com.rec[g]
    <3>1. g \notin dirty /\ ino[g] = com.rec[g] /\ rec[g] = com.rec[g]
      BY <2>1, <2>4 DEF Untouched
    <3>2. CASE g # f
      BY <3>1, <3>2 DEF OthersSame
    <3>3. CASE g = f
      <4>1. g \notin hurt' /\ g \notin com.orphan
        BY <1>2 DEF Kept
      <4>2. ino[g].kind # "tiny"
        BY <2>4, <3>1
      <4> QED BY <1>7, <3>1, <3>3, <4>1, <4>2 DEF Busy
    <3> QED BY <3>2, <3>3
  <2>5. WantOf(g, com.want[g]) /\ com.rec[g].size = com.want[g][1]
    BY <2>1 DEF Untouched
  <2> QED BY <1>1, <2>2, <2>3, <2>4, <2>5 DEF Untouched
<1>8. com.rec[g].ext = "data" => OwnPage(g, blk'[g])
  <2>1. CASE blk'[g] = blk[g]
    BY <1>3, <2>1
  <2>2. CASE blk'[g] # blk[g]
    <3>1. g = f
      BY <2>2 DEF OthersSame
    <3> QED BY <2>2, <3>1 DEF BlkMove
  <2> QED BY <2>1, <2>2
<1> QED BY <1>1, <1>3, <1>4, <1>5, <1>6, <1>7, <1>8

(* The other files. *)
LEMMA OtherFiles ==
  ASSUME ContentInv, NEW f \in File, OthersSame(f), ComSame(f), KindOk(f)', FileOk(f)',
         \A g \in File : g # f /\ g \notin hurt' /\ g \notin dirty /\ ino[g].kind # "none" =>
            View(ino[g], area', blk[g]) = View(ino[g], area, blk[g])
  PROVE  (\A g \in File : KindOk(g)') /\ (\A g \in File : FileOk(g)')
<1>1. ASSUME NEW g \in File, g # f PROVE KindOk(g)' /\ FileOk(g)'
  <2>1. /\ ino'[g] = ino[g] /\ rec'[g] = rec[g] /\ page'[g] = page[g]
        /\ want'[g] = want[g] /\ blk'[g] = blk[g] /\ bh'[g] = bh[g]
        /\ g \in dirty' <=> g \in dirty
        /\ g \in list => g \in list'
        /\ g \in hurt => g \in hurt'
        /\ com'.rec = com.rec
    BY <1>1 DEF OthersSame, ComSame
  <2>2. KindOk(g) /\ FileOk(g)
    BY DEF ContentInv
  <2>3. KindOk(g)'
    BY <2>1, <2>2 DEF KindOk
  <2>4. FileOk(g)'
    BY <1>1, <2>1, <2>2 DEF FileOk
  <2> QED BY <2>3, <2>4
<1> QED BY <1>1

(* All of it for an operation on one file. *)
LEMMA OneContent ==
  ASSUME SmallInv, ContentInv, NEW f \in File, OthersSame(f), ComSame(f), CellMove(f), Busy(f),
         BlkMove(f), KindOk(f)', FileOk(f)', WantInv',
         \A g \in File : AreaMove(g) /\ DiskMove(g),
         \A g \in File : g # f /\ g \notin hurt' /\ g \notin dirty /\ ino[g].kind # "none" =>
            View(ino[g], area', blk[g]) = View(ino[g], area, blk[g])
  PROVE  ContentInv'
<1>1. (\A g \in File : KindOk(g)') /\ (\A g \in File : FileOk(g)')
  BY OtherFiles
<1>2. \A g \in File : ComOk(g)'
  BY ComStep
<1>3. OrphanInv'
  BY DEF ContentInv, OrphanInv, ComSame
<1> QED BY <1>1, <1>2, <1>3 DEF ContentInv

(* An operation that writes nothing to the area. *)
LEMMA StillContent ==
  ASSUME SmallInv, ContentInv, NEW f \in File, OthersSame(f), ComSame(f), CellMove(f), Busy(f),
         KindOk(f)', FileOk(f)', WantInv',
         area' = area, disk' = disk, unsafe' = unsafe, BlkMove(f)
  PROVE  ContentInv'
<1>1. ASSUME NEW g \in File PROVE AreaMove(g) /\ DiskMove(g)
  <2> SUFFICES ASSUME Kept(g)' PROVE AreaMove(g) /\ DiskMove(g)
    BY DEF AreaMove, DiskMove
  <2>1. area \in [Units -> Unit] /\ disk \in [Units -> Unit] /\ com.rec[g] \in Inode
    BY DEF SmallInv, Types
  <2>2. Kept(g)
    BY KeptBefore
  <2>3. com.rec[g].kind \in {"tiny", "small", "ordinary"}
    BY <2>1, <2>2 DEF Kept, Inode
  <2>4. CASE blk'[g] = blk[g] \/ com.rec[g].ext # "data"
    <3>1. /\ View(com.rec[g], area, blk'[g]) = View(com.rec[g], area, blk[g])
          /\ View(com.rec[g], disk, blk'[g]) = View(com.rec[g], disk, blk[g])
      BY <2>1, <2>3, <2>4, ViewSame
    <3> QED BY <3>1 DEF AreaMove, DiskMove
  <2>5. CASE blk'[g] # blk[g] /\ com.rec[g].ext = "data"
    <3>1. g = f
      BY <2>5 DEF OthersSame
    <3>2. g \in touched' /\ OwnPage(g, blk'[g])
      BY <2>5, <3>1 DEF BlkMove
    <3>3. com.rec[g].kind = "ordinary"
      BY <2>5 DEF SmallInv, RecInv, HasBlock
    <3>4. View(com.rec[g], area', blk'[g]) = blk'[g] /\ View(com.rec[g], disk', blk'[g]) = blk'[g]
      BY <2>5, <3>3, ViewOther
    <3> QED BY <3>2, <3>4 DEF AreaMove, DiskMove, Shows, OwnPage
  <2> QED BY <2>4, <2>5
<1>2. \A g \in File : g # f /\ g \notin hurt' /\ g \notin dirty /\ ino[g].kind # "none" =>
         View(ino[g], area', blk[g]) = View(ino[g], area, blk[g])
  OBVIOUS
<1> QED BY <1>1, <1>2, OneContent

(* What the page in the cache, or a read, gives. *)
LEMMA PageIsWanted ==
  ASSUME SmallInv, ContentInv, NEW f \in File, f \notin hurt, ino[f].kind # "none"
  PROVE  Agree(GetPage(f), want[f]) /\ WantOf(f, want[f]) /\ ino[f].size = want[f][1]
<1>1. FileOk(f)
  BY DEF ContentInv
<1>2. CASE page[f] = NoPage
  <2>1. f \notin dirty
    BY <1>2 DEF SmallInv, Types
  <2> QED BY <1>1, <1>2, <2>1, ReadsView DEF FileOk, GetPage
<1>3. CASE page[f] # NoPage
  BY <1>1, <1>3 DEF FileOk, GetPage
<1> QED BY <1>2, <1>3

(* A dirty file of the snapshot was touched, or was tiny then. *)
LEMMA DirtyTouched ==
  ASSUME SmallInv, ContentInv, NEW f \in dirty, Kept(f)
  PROVE  f \in touched \/ com.rec[f].kind = "tiny"
<1>1. f \in File /\ com.rec[f] \in Inode
  BY DEF SmallInv, Types
<1>2. com.rec[f].kind \in {"tiny", "small", "ordinary"}
  BY <1>1 DEF Kept, Inode
<1>3. f \notin touched => Untouched(f)
  BY <1>1 DEF ContentInv, ComOk
<1> QED BY <1>2, <1>3 DEF Untouched

LEMMA DirtyPage ==
  ASSUME SmallInv, ContentInv, NEW f \in dirty
  PROVE  /\ f \in File /\ page[f] \in Page /\ page[f] # NoPage /\ ino[f].kind # "none"
         /\ GetPage(f) = page[f]
<1>1. f \in File /\ page[f] # NoPage /\ page[f] \in Page
  BY DEF SmallInv, Types
<1>2. KindOk(f)
  BY <1>1 DEF ContentInv
<1> QED BY <1>1, <1>2 DEF KindOk, GetPage

LEMMA WantFill ==
  ASSUME NEW f \in File, NEW w, WantOf(f, w), NEW m \in Nat, NEW n \in Nat, m + n \in 0 .. PageSize
  PROVE  WantOf(f, <<Larger(w[1], m + n), Fill(w[2], f, m, n)>>)
<1> DEFINE v == <<Larger(w[1], m + n), Fill(w[2], f, m, n)>>
<1>1. w[1] \in Nat /\ w[1] \in 0 .. PageSize /\ w[2] \in Page
  BY SizesOk DEF WantOf
<1>2. v[1] \in 0 .. PageSize /\ v[1] \in Nat /\ w[1] <= v[1] /\ m + n <= v[1]
  BY <1>1 DEF Larger
<1>3. v[2] \in Page
  BY <1>1, FillOk
<1>4. OwnPage(f, v[2])
  BY DEF OwnPage, Fill, WantOf, Own
<1>5. ASSUME NEW i \in Pos, i >= v[1] PROVE v[2][i] = Zero
  <2>1. i \in Nat /\ i >= w[1] /\ ~(i < m + n)
    BY <1>1, <1>2, <1>5, SizesOk DEF Pos
  <2> QED BY <2>1 DEF Fill, WantOf
<1> QED BY <1>2, <1>3, <1>4, <1>5 DEF WantOf

LEMMA WantCut ==
  ASSUME NEW f \in File, NEW w, WantOf(f, w), NEW n \in 0 .. PageSize
  PROVE  WantOf(f, <<n, Cut(w[2], n)>>)
<1> DEFINE v == <<n, Cut(w[2], n)>>
<1>1. w[2] \in Page /\ n \in Nat
  BY SizesOk DEF WantOf
<1>2. v[2] \in Page
  BY <1>1, CutOk
<1>3. OwnPage(f, v[2])
  BY DEF OwnPage, Cut, WantOf, Own
<1>4. ASSUME NEW i \in Pos, i >= v[1] PROVE v[2][i] = Zero
  <2>1. ~(i < n)
    BY <1>1, <1>4, SizesOk DEF Pos
  <2> QED BY <2>1 DEF Cut
<1> QED BY <1>2, <1>3, <1>4 DEF WantOf

(* A page that agrees, cut at the end, has only units of f. *)
LEMMA AgreeCut ==
  ASSUME NEW f \in File, NEW w, WantOf(f, w), NEW p, Agree(p, w)
  PROVE  OwnPage(f, Cut(p, w[1])) /\ Agree(Cut(p, w[1]), w)
  BY DEF OwnPage, Agree, Cut, WantOf, Own

(* A written page. *)
LEMMA AgreeFill ==
  ASSUME NEW f \in File, NEW w, WantOf(f, w), NEW p \in Page, Agree(p, w),
         NEW m \in Nat, NEW n \in Nat, m + n \in 0 .. PageSize, ~Exposed(p, w[1], m)
  PROVE  Agree(Fill(p, f, m, n), <<Larger(w[1], m + n), Fill(w[2], f, m, n)>>)
<1> DEFINE v == <<Larger(w[1], m + n), Fill(w[2], f, m, n)>>
<1>1. w[1] \in Nat /\ w[2] \in Page
  BY SizesOk DEF WantOf
<1>2. ASSUME NEW i \in Pos, i < v[1] PROVE Fill(p, f, m, n)[i] = v[2][i]
  <2>1. i \in Nat /\ (i < w[1] \/ i < m + n)
    BY <1>1, <1>2, SizesOk DEF Pos, Larger
  <2>2. CASE i >= m /\ i < m + n
    BY <2>2 DEF Fill
  <2>3. CASE ~(i >= m /\ i < m + n) /\ i < w[1]
    BY <2>3 DEF Fill, Agree
  <2>4. CASE ~(i >= m /\ i < m + n) /\ ~(i < w[1])
    <3>1. i >= w[1] /\ i < m
      BY <1>1, <2>1, <2>4
    <3>2. p[i] = Zero /\ w[2][i] = Zero
      BY <3>1 DEF Exposed, WantOf
    <3> QED BY <2>4, <3>2 DEF Fill
  <2> QED BY <2>2, <2>3, <2>4
<1> QED BY <1>2 DEF Agree

LEMMA WantZero ==
  ASSUME NEW f \in File
  PROVE  /\ WantOf(f, <<0, ZeroPage>>) /\ OwnData(f, ZeroData) /\ OwnPage(f, ZeroPage)
         /\ \A p : Agree(p, <<0, ZeroPage>>)
<1>1. OwnPage(f, ZeroPage) /\ OwnData(f, ZeroData)
  BY DEF OwnPage, OwnData, ZeroPage, ZeroData, Own
<1>2. \A p : Agree(p, <<0, ZeroPage>>)
  BY SizesOk DEF Agree, Pos
<1> QED BY <1>1, <1>2, SizesOk DEF WantOf, ZeroPage

---------------------------------------------------------------------------
(* One lemma per operation again. *)
LEMMA CreateC ==
  ASSUME SmallInv, ContentInv, NEW f \in File, vdfs2_create(f)
  PROVE  ContentInv'
<1>1. Types /\ CellInv
  BY DEF SmallInv
<1> DEFINE x == MkInode("tiny", 0, 0)
<1>2. x.kind = "tiny" /\ x.size = 0 /\ x.len = 0 /\ x.cell = NoCell /\ x.data = ZeroData
      /\ x.ext = "none"
  BY MkInodeOk, SizesOk
<1>3. /\ ino' = [ino EXCEPT ![f] = x] /\ rec' = [rec EXCEPT ![f] = x] /\ list' = list \cup {f}
      /\ want' = [want EXCEPT ![f] = <<0, ZeroPage>>] /\ touched' = touched \cup {f}
      /\ UNCHANGED <<orphan, page, bh, dirty, area, disk, blk, com, reused, unsafe, hurt>>
      /\ ino[f].kind = "none"
  BY DEF vdfs2_create, vdfs2_write_inode_to_bnode
<1> HIDE DEF x
<1>4. /\ ino'[f] = x /\ rec'[f] = x /\ want'[f] = <<0, ZeroPage>> /\ WantInv'
      /\ OthersSame(f) /\ ComSame(f)
  BY <1>1, <1>3 DEF Types, ContentInv, WantInv, OthersSame, ComSame
<1>5. CellMove(f) /\ Busy(f) /\ BlkMove(f)
  BY <1>2, <1>3, <1>4 DEF CellMove, Busy, BlkMove
<1>6. page[f] = NoPage /\ f \notin dirty /\ LenOk(com.rec[f])
  BY <1>1, <1>3 DEF ContentInv, KindOk, Types
<1>7. KindOk(f)'
  BY <1>2, <1>3, <1>4, <1>6 DEF KindOk, LenOk
<1>8. FileOk(f)'
  BY <1>2, <1>3, <1>4, <1>6, WantZero DEF FileOk
<1> QED BY <1>3, <1>4, <1>5, <1>7, <1>8, StillContent

(* The file after a write: the page is the written one. *)
LEMMA WriteC ==
  ASSUME SmallInv, ContentInv, NEW f \in File, NEW m \in Nat, NEW n \in Nat,
         m + n \in 0 .. PageSize, ino[f].kind # "none",
         page' = [page EXCEPT ![f] = Fill(GetPage(f), f, m, n)], dirty' = dirty \cup {f},
         Wanted(f, m, n), hurt \cup Gap(f, m) \subseteq hurt',
         f \notin hurt' => /\ ino'[f].size = want'[f][1]
                           /\ OwnData(f, ino'[f].data) /\ OwnData(f, rec'[f].data)
                           /\ (ino'[f].ext = "data" \/ rec'[f].ext = "data") => OwnPage(f, blk'[f])
  PROVE  FileOk(f)'
<1> SUFFICES ASSUME f \notin hurt' PROVE FileOk(f)'
  BY DEF FileOk
<1>1. Agree(GetPage(f), want[f]) /\ WantOf(f, want[f]) /\ ino[f].size = want[f][1]
  BY PageIsWanted
<1>2. want'[f] = <<Larger(want[f][1], m + n), Fill(want[f][2], f, m, n)>>
  BY DEF Wanted, ContentInv, WantInv
<1>3. WantOf(f, want'[f])
  BY <1>1, <1>2, WantFill
<1>4. GetPage(f) \in Page /\ ~Exposed(GetPage(f), want[f][1], m)
  BY <1>1, ReadOk DEF Gap, SmallInv
<1>5. Agree(Fill(GetPage(f), f, m, n), want'[f])
  BY <1>1, <1>2, <1>4, AgreeFill
<1>6. page'[f] = Fill(GetPage(f), f, m, n) /\ f \in dirty'
  BY DEF SmallInv, Types
<1>7. /\ ino'[f].size = want'[f][1] /\ OwnData(f, ino'[f].data) /\ OwnData(f, rec'[f].data)
      /\ ino'[f].ext = "data" => OwnPage(f, blk'[f])
      /\ rec'[f].ext = "data" => OwnPage(f, blk'[f])
  OBVIOUS
<1> QED BY <1>3, <1>5, <1>6, <1>7 DEF FileOk

LEMMA WriteTinySmallC ==
  ASSUME SmallInv, ContentInv, NEW f \in File, NEW m \in Nat, NEW n \in Nat, m + n \in 0 .. PageSize,
         write_tiny_small_file(f, m, n)
  PROVE  ContentInv'
<1> DEFINE x == [ino[f] EXCEPT !.len = m + n, !.size = Larger(@, m + n)]
<1>1. Types /\ ino[f] \in Inode /\ ino[f].size \in Nat /\ ino[f].kind \in {"tiny", "small"}
      /\ ino[f].ext = "none"
  BY InodeOk DEF SmallInv, RecInv, HasBlock, write_tiny_small_file
<1>2. /\ x.kind = ino[f].kind /\ x.cell = ino[f].cell /\ x.data = ino[f].data
      /\ x.size = Larger(ino[f].size, m + n) /\ x.len = m + n /\ x.len <= x.size /\ x.ext = "none"
  BY <1>1, LargerOk DEF Inode
<1>3. /\ ino' = [ino EXCEPT ![f] = x] /\ rec' = [rec EXCEPT ![f] = x] /\ list' = list \cup {f}
      /\ page' = [page EXCEPT ![f] = Fill(GetPage(f), f, m, n)] /\ dirty' = dirty \cup {f}
      /\ Wanted(f, m, n)
      /\ hurt' = hurt \cup Gap(f, m)
      /\ UNCHANGED <<orphan, bh, area, disk, blk, com, reused, unsafe>>
  BY DEF write_tiny_small_file, vdfs2_write_inode_to_bnode
<1> HIDE DEF x
<1>4. /\ ino'[f] = x /\ rec'[f] = x /\ WantInv' /\ f \in touched' /\ touched \subseteq touched'
      /\ want'[f][1] = Larger(want[f][1], m + n)
      /\ OthersSame(f)
  BY <1>1, <1>3 DEF Types, ContentInv, WantInv, OthersSame, Wanted
<1>5. ComSame(f) /\ CellMove(f) /\ Busy(f) /\ BlkMove(f)
  BY <1>2, <1>3, <1>4 DEF ComSame, CellMove, Busy, BlkMove
<1>6. LenOk(com.rec[f])
  BY DEF ContentInv, KindOk
<1>7. KindOk(f)'
  BY <1>1, <1>2, <1>3, <1>4, <1>6 DEF KindOk, LenOk
<1>8. f \notin hurt => ino[f].size = want[f][1] /\ OwnData(f, ino[f].data)
  BY <1>1 DEF ContentInv, FileOk
<1>9. FileOk(f)'
  BY <1>1, <1>2, <1>3, <1>4, <1>8, WriteC
<1> QED BY <1>3, <1>4, <1>5, <1>7, <1>9, StillContent

LEMMA TinyToSmallC ==
  ASSUME SmallInv, ContentInv, NEW f \in File, NEW m \in Nat, NEW n \in Nat, m + n \in 0 .. PageSize,
         convert_tiny_file_to_small_file(f, m, n)
  PROVE  ContentInv'
<1> DEFINE len  == Larger(ino[f].len + n, m + n)
           size == Larger(ino[f].size, len)
           x    == MkInode("small", size, len)
<1>1. Types /\ ino[f].len \in Nat /\ ino[f].size \in Nat /\ ino[f].kind = "tiny"
  BY InodeOk DEF SmallInv, convert_tiny_file_to_small_file
<1>2. len \in Nat /\ size \in Nat /\ len <= size
  BY <1>1 DEF Larger
<1>3. size <= PageSize
  BY DEF convert_tiny_file_to_small_file
<1>4. len \in 0 .. PageSize /\ size \in 0 .. PageSize
  BY <1>2, <1>3, SizesOk
<1>5. x.kind = "small" /\ x.size = size /\ x.len = len /\ x.cell = NoCell /\ x.data = ZeroData
      /\ x.ext = "none"
  BY <1>4, MkInodeOk
<1>6. /\ ino' = [ino EXCEPT ![f] = x] /\ rec' = [rec EXCEPT ![f] = x] /\ list' = list \cup {f}
      /\ page' = [page EXCEPT ![f] = Fill(GetPage(f), f, m, n)] /\ dirty' = dirty \cup {f}
      /\ Wanted(f, m, n)
      /\ hurt' = hurt \cup Gap(f, m) \cup (IF size = want'[f][1] THEN {} ELSE {f})
      /\ UNCHANGED <<orphan, bh, area, disk, blk, com, reused, unsafe>>
  BY DEF convert_tiny_file_to_small_file, vdfs2_write_inode_to_bnode
<1> HIDE DEF x, len, size
<1>7. /\ ino'[f] = x /\ rec'[f] = x /\ WantInv' /\ f \in touched' /\ touched \subseteq touched'
      /\ hurt \cup Gap(f, m) \subseteq hurt' /\ OthersSame(f)
  BY <1>1, <1>6 DEF Types, ContentInv, WantInv, OthersSame, Wanted
<1>8. ComSame(f) /\ CellMove(f) /\ Busy(f) /\ BlkMove(f)
  BY <1>5, <1>6, <1>7 DEF ComSame, CellMove, Busy, BlkMove
<1>9. LenOk(com.rec[f])
  BY DEF ContentInv, KindOk
<1>10. KindOk(f)'
  BY <1>2, <1>5, <1>6, <1>7, <1>9 DEF KindOk, LenOk
<1>11. f \notin hurt' => x.size = want'[f][1]
  BY <1>5, <1>6
<1>12. FileOk(f)'
  BY <1>1, <1>5, <1>6, <1>7, <1>11, WantZero, WriteC
<1> QED BY <1>6, <1>7, <1>8, <1>10, <1>12, StillContent

LEMMA TinyToOrdinaryC ==
  ASSUME SmallInv, ContentInv, NEW f \in File, NEW m \in Nat, NEW n \in Nat,
         convert_tiny_file_to_ordinary_file(f, m, n)
  PROVE  ContentInv'
<1> DEFINE x == MkInode("ordinary", ino[f].size, 0)
<1>1. Types /\ ino[f].size \in 0 .. PageSize /\ ino[f].kind = "tiny"
  BY InodeOk DEF SmallInv, convert_tiny_file_to_ordinary_file
<1>2. x.kind = "ordinary" /\ x.size = ino[f].size /\ x.len = 0 /\ x.cell = NoCell /\ x.data = ZeroData
      /\ x.ext = "none"
  BY <1>1, MkInodeOk, SizesOk
<1>3. /\ ino' = [ino EXCEPT ![f] = x] /\ rec' = rec /\ list' = list
      /\ page' = [page EXCEPT ![f] = GetPage(f)] /\ dirty' = dirty \cup {f}
      /\ UNCHANGED <<orphan, bh, area, disk, blk, com, reused, unsafe, hurt, want, touched>>
  BY DEF convert_tiny_file_to_ordinary_file, ghosts
<1> HIDE DEF x
<1>4. /\ ino'[f] = x /\ WantInv' /\ OthersSame(f) /\ page'[f] = GetPage(f)
  BY <1>1, <1>3 DEF Types, ContentInv, WantInv, OthersSame
<1>5. ComSame(f) /\ CellMove(f) /\ Busy(f) /\ BlkMove(f)
  BY <1>1, <1>2, <1>3, <1>4 DEF ComSame, CellMove, Busy, BlkMove
<1>7. KindOk(f) /\ ino[f].size \in Nat /\ rec[f].ext = "none"
  BY <1>1, InodeOk DEF ContentInv, KindOk, SmallInv, RecInv, HasBlock
<1>8. KindOk(f)'
  BY <1>1, <1>2, <1>3, <1>4, <1>7, SizesOk DEF KindOk, LenOk
<1>9. FileOk(f)'
  <2> SUFFICES ASSUME f \notin hurt PROVE FileOk(f)'
    BY <1>3 DEF FileOk
  <2>1. Agree(GetPage(f), want[f]) /\ WantOf(f, want[f]) /\ ino[f].size = want[f][1]
    BY <1>1, PageIsWanted
  <2>2. OwnData(f, rec[f].data) /\ (rec[f].ext = "data" => OwnPage(f, blk[f]))
    BY <1>1 DEF ContentInv, FileOk
  <2> QED BY <1>2, <1>3, <1>4, <2>1, <2>2, WantZero DEF FileOk
<1> QED BY <1>3, <1>4, <1>5, <1>8, <1>9, StillContent

LEMMA SmallToOrdinaryC ==
  ASSUME SmallInv, ContentInv, NEW f \in File, NEW m \in Nat, NEW n \in Nat,
         convert_small_file_to_ordinary_file(f, m, n)
  PROVE  ContentInv'
<1> DEFINE x == MkInode("ordinary", ino[f].size, 0)
<1>1. Types /\ ino[f].size \in 0 .. PageSize /\ ino[f].kind = "small" /\ ino[f].size \in Nat
  BY InodeOk DEF SmallInv, convert_small_file_to_ordinary_file
<1>2. x.kind = "ordinary" /\ x.size = ino[f].size /\ x.len = 0 /\ x.cell = NoCell /\ x.data = ZeroData
      /\ x.ext = "none"
  BY <1>1, MkInodeOk, SizesOk
<1>3. /\ ino' = [ino EXCEPT ![f] = x] /\ rec' = [rec EXCEPT ![f] = x] /\ list' = list \cup {f}
      /\ page' = [page EXCEPT ![f] = GetPage(f)] /\ dirty' = dirty \cup {f}
      /\ touched' = touched \cup {f}
      /\ UNCHANGED <<orphan, bh, area, disk, blk, com, reused, unsafe, hurt, want>>
  BY DEF convert_small_file_to_ordinary_file, make_small_file_ordinary, vdfs2_write_inode_to_bnode
<1> HIDE DEF x
<1>4. /\ ino'[f] = x /\ rec'[f] = x /\ WantInv' /\ OthersSame(f)
      /\ page'[f] = GetPage(f)
  BY <1>1, <1>3 DEF Types, ContentInv, WantInv, OthersSame
<1>5. ComSame(f) /\ CellMove(f) /\ Busy(f) /\ BlkMove(f)
  BY <1>1, <1>2, <1>3, <1>4, WantZero DEF ComSame, CellMove, Busy, BlkMove
<1>6. KindOk(f)
  BY DEF ContentInv
<1>7. KindOk(f)'
  BY <1>1, <1>2, <1>3, <1>4, <1>6 DEF KindOk, LenOk
<1>8. FileOk(f)'
  <2> SUFFICES ASSUME f \notin hurt PROVE FileOk(f)'
    BY <1>3 DEF FileOk
  <2>1. Agree(GetPage(f), want[f]) /\ WantOf(f, want[f]) /\ ino[f].size = want[f][1]
    BY <1>1, PageIsWanted
  <2> QED BY <1>2, <1>3, <1>4, <2>1, WantZero DEF FileOk
<1> QED BY <1>3, <1>4, <1>5, <1>7, <1>8, StillContent

LEMMA GenericC ==
  ASSUME SmallInv, ContentInv, NEW f \in File, NEW m \in Nat, NEW n \in Nat, m + n \in 0 .. PageSize,
         GenericWrite(f, m, n)
  PROVE  ContentInv'
<1> DEFINE x == IF m + n > ino[f].size THEN [ino[f] EXCEPT !.size = m + n] ELSE ino[f]
           r == IF m + n > ino[f].size THEN x ELSE rec[f]
<1>1. Types /\ ino[f] \in Inode /\ ino[f].size \in Nat /\ ino[f].kind = "ordinary" /\ ino[f].len \in Nat
  BY InodeOk DEF SmallInv, GenericWrite
<1>2. KindOk(f)
  BY DEF ContentInv
<1>3. /\ x.kind = "ordinary" /\ x.cell = ino[f].cell /\ x.data = ino[f].data
      /\ x.size = Larger(ino[f].size, m + n) /\ x.len = ino[f].len /\ x.ext = ino[f].ext
  BY <1>1 DEF Inode, Larger
<1>4. LenOk(x)
  BY <1>1, <1>2, <1>3, LargerOk DEF LenOk, KindOk
<1>5. /\ ino' = [ino EXCEPT ![f] = x] /\ rec' = [rec EXCEPT ![f] = r] /\ list \subseteq list'
      /\ page' = [page EXCEPT ![f] = Fill(GetPage(f), f, m, n)] /\ dirty' = dirty \cup {f}
      /\ Wanted(f, m, n)
      /\ hurt' = hurt \cup Gap(f, m) /\ bh' = [bh EXCEPT ![f] = "mapped"]
      /\ m + n > ino[f].size => f \in list'
      /\ UNCHANGED <<orphan, area, disk, blk, com, reused, unsafe>>
  BY <1>1 DEF GenericWrite, vdfs2_write_inode_to_bnode, Types
<1>6. (r = x \/ (r = rec[f] /\ x = ino[f])) /\ (m + n > ino[f].size \/ x = ino[f])
  OBVIOUS
<1> HIDE DEF x, r
<1>7. /\ ino'[f] = x /\ rec'[f] = r /\ WantInv' /\ f \in touched' /\ touched \subseteq touched'
      /\ want'[f][1] = Larger(want[f][1], m + n) /\ bh'[f] = "mapped"
      /\ OthersSame(f)
  BY <1>1, <1>5 DEF Types, ContentInv, WantInv, OthersSame, Wanted
<1>8. ComSame(f) /\ CellMove(f) /\ Busy(f) /\ BlkMove(f)
  BY <1>3, <1>5, <1>7 DEF ComSame, CellMove, Busy, BlkMove
<1>9. KindOk(f)'
  BY <1>1, <1>2, <1>3, <1>4, <1>5, <1>6, <1>7 DEF KindOk, LenOk
<1>10. f \notin hurt => /\ ino[f].size = want[f][1] /\ OwnData(f, ino[f].data)
                        /\ OwnData(f, rec[f].data)
                        /\ ino[f].ext = "data" \/ rec[f].ext = "data" => OwnPage(f, blk[f])
  BY <1>1 DEF ContentInv, FileOk
<1>11. FileOk(f)'
  BY <1>1, <1>3, <1>5, <1>6, <1>7, <1>10, WriteC
<1> QED BY <1>5, <1>7, <1>8, <1>9, <1>11, StillContent

(* Steps that change at most the page of f: a write fails, a page is read, *)
(* or cannot be read, or is dropped.                                       *)
LEMMA QuietC ==
  ASSUME SmallInv, ContentInv, NEW f \in File, NEW m, NEW n,
         \/ GenericWriteFails(f, m, n) \/ vdfs2_read_folio(f) \/ ReadFails(f) \/ DropPage(f)
  PROVE  ContentInv'
<1>1. Types
  BY DEF SmallInv
<1>2. /\ UNCHANGED <<ino, rec, dirty, list, area, disk, blk, com, orphan, want, touched, reused,
                     unsafe>>
      /\ \A g \in File : g # f => page'[g] = page[g] /\ bh'[g] = bh[g]
      /\ hurt \subseteq hurt'
  BY <1>1 DEF GenericWriteFails, vdfs2_read_folio, ReadFails, DropPage, ghosts, Types
<1>3. /\ \/ page'[f] \in {page[f], NoPage} \/ (f \in hurt' /\ ino[f].kind # "none")
         \/ /\ \E t \in {Zero, Junk} : page'[f] = Read(f, t)
            /\ ino[f].kind # "none" /\ page[f] = NoPage
      /\ bh'[f] = "unmapped" => bh[f] = "unmapped" \/ ino[f].ext = "none"
  BY <1>1 DEF GenericWriteFails, vdfs2_read_folio, ReadFails, DropPage, Types
<1>4. OthersSame(f) /\ ComSame(f) /\ CellMove(f) /\ BlkMove(f) /\ WantInv'
  BY <1>2 DEF OthersSame, ComSame, CellMove, BlkMove, ContentInv, WantInv
<1>5. Busy(f)
  BY <1>2 DEF Busy
<1>6. KindOk(f) /\ FileOk(f)
  BY DEF ContentInv
<1>7. KindOk(f)'
  BY <1>2, <1>3, <1>6 DEF KindOk
<1>8. FileOk(f)'
  <2> SUFFICES ASSUME f \notin hurt', ino[f].kind # "none" PROVE FileOk(f)'
    BY <1>2 DEF FileOk
  <2>1. f \notin hurt
    BY <1>2
  <2>2. page'[f] # NoPage => Agree(page'[f], want[f])
    <3>1. CASE page'[f] \in {page[f], NoPage}
      BY <1>6, <2>1, <3>1 DEF FileOk
    <3>2. ASSUME NEW t \in {Zero, Junk}, page'[f] = Read(f, t), page[f] = NoPage
          PROVE  Agree(page'[f], want[f])
      <4>1. Agree(Read(f, Zero), want[f]) /\ WantOf(f, want[f]) /\ ino[f].size = want[f][1]
        BY <2>1, <3>2, PageIsWanted DEF GetPage
      <4>2. ASSUME NEW i \in Pos, i < want[f][1] PROVE Read(f, t)[i] = Read(f, Zero)[i]
        <5>1. ~(i >= ino[f].size)
          BY <4>1, <4>2, SizesOk DEF Pos, WantOf
        <5> QED BY <5>1 DEF Read, read_tiny_small_page
      <4> QED BY <3>2, <4>1, <4>2 DEF Agree
    <3> QED BY <1>3, <3>1, <3>2
  <2> QED BY <1>2, <1>6, <2>1, <2>2 DEF FileOk
<1> QED BY <1>2, <1>4, <1>5, <1>7, <1>8, StillContent

(* A file that grows or shrinks to n: a page that has zeros where it grows *)
(* is what is asked of it.                                                 *)
LEMMA AgreeGrow ==
  ASSUME NEW f \in File, NEW w, WantOf(f, w), NEW p, Agree(p, w), NEW n \in 0 .. PageSize,
         ~Exposed(p, w[1], n)
  PROVE  /\ Agree(p, <<n, Cut(w[2], n)>>) /\ Agree(Cut(p, n), <<n, Cut(w[2], n)>>)
<1>1. w[1] \in Nat /\ n \in Nat
  BY SizesOk DEF WantOf
<1>2. ASSUME NEW i \in Pos, i < n PROVE p[i] = w[2][i]
  <2>1. i \in Nat
    BY SizesOk DEF Pos
  <2>2. CASE i < w[1]
    BY <2>2 DEF Agree
  <2>3. CASE ~(i < w[1])
    <3>1. i >= w[1]
      BY <1>1, <2>1, <2>3
    <3> QED BY <1>2, <3>1 DEF Exposed, WantOf
  <2> QED BY <2>2, <2>3
<1> QED BY <1>2 DEF Agree, Cut

(* What is stored of a tiny or small file that changed its size. *)
LEMMA ViewUpdate ==
  ASSUME NEW f \in File, NEW x \in Inode, NEW y, NEW a \in [Units -> Unit], NEW b,
         NEW w, WantOf(f, w), x.size = w[1], x.len <= x.size,
         NEW n \in 0 .. PageSize, x.kind \in {"tiny", "small"},
         y.kind = x.kind, y.cell = x.cell, y.data = x.data, y.size = n,
         y.len = (IF n < x.size THEN n ELSE x.len),
         Agree(View(x, a, b), w), n < x.size => n <= x.len
  PROVE  Agree(View(y, a, b), <<n, Cut(w[2], n)>>)
<1>1. x.len \in Nat /\ x.size \in Nat /\ n \in Nat /\ y.len \in Nat
  BY SizesOk DEF Inode
<1>2. ASSUME NEW i \in Pos, i < n PROVE View(y, a, b)[i] = w[2][i]
  <2>1. i \in Nat
    BY SizesOk DEF Pos
  <2>2. CASE i >= y.len
    <3>1. View(y, a, b)[i] = Zero
      BY <2>2, ViewEnds
    <3>2. i >= x.len
      BY <1>1, <1>2, <2>1, <2>2
    <3>3. View(x, a, b)[i] = Zero
      BY <3>2, ViewEnds
    <3>4. CASE i < x.size
      BY <3>1, <3>3, <3>4 DEF Agree
    <3>5. CASE i >= x.size
      BY <3>1, <3>5 DEF WantOf
    <3> QED BY <1>1, <2>1, <3>4, <3>5
  <2>3. CASE i < y.len
    <3>1. i < x.len /\ i < x.size /\ ~(i >= x.len) /\ ~(i >= x.size) /\ ~(i >= y.len) /\ ~(i >= y.size)
      BY <1>1, <1>2, <2>1, <2>3
    <3>2. View(y, a, b)[i] = View(x, a, b)[i]
      <4>1. CASE x.kind = "tiny"
        BY <3>1, <4>1, ViewTiny
      <4>2. CASE x.kind = "small"
        BY <3>1, <4>2, ViewSmall
      <4> QED BY <4>1, <4>2
    <3> QED BY <3>1, <3>2 DEF Agree
  <2> QED BY <1>1, <2>1, <2>2, <2>3
<1> QED BY <1>2 DEF Agree, Cut

LEMMA UpdateC ==
  ASSUME SmallInv, ContentInv, NEW f \in File, NEW n \in Sizes, vdfs2_update_inode(f, n)
  PROVE  ContentInv'
<1> DEFINE l == IF n < ino[f].size /\ ino[f].kind # "ordinary" THEN n ELSE ino[f].len
           e == IF n = 0 THEN "none" ELSE ino[f].ext
           x == [ino[f] EXCEPT !.size = n, !.len = l, !.ext = e]
           part == n # 0 /\ n # PageSize
           held == ino[f].kind = "ordinary" /\ (ino[f].ext # "none" \/ bh[f] = "mapped")
           old  == IF part /\ held THEN GetPage(f) ELSE page[f]
           p    == IF n = 0 \/ old = NoPage THEN NoPage ELSE Cut(old, n)
           g    == IF n = 0 THEN "none" ELSE IF part /\ held THEN "mapped"
                   ELSE IF part /\ bh[f] = "none" THEN "unmapped" ELSE bh[f]
<1>1. Types /\ RecInv /\ ino[f] \in Inode /\ ino[f].size \in Nat /\ ino[f].len \in Nat
      /\ ino[f].kind # "none" /\ ino[f].kind \in {"tiny", "small", "ordinary"}
  BY InodeOk DEF SmallInv, vdfs2_update_inode, Inode
<1>2. n \in 0 .. PageSize /\ n \in Nat
  BY SmallConstants
<1>3. KindOk(f) /\ FileOk(f) /\ LenOk(ino[f])
  BY DEF ContentInv, KindOk
<1>4. /\ x.kind = ino[f].kind /\ x.cell = ino[f].cell /\ x.data = ino[f].data
      /\ x.size = n /\ x.len = l /\ x.ext = e
  BY <1>1 DEF Inode
<1>5. /\ ino' = [ino EXCEPT ![f] = x] /\ rec' = [rec EXCEPT ![f] = x] /\ list' = list \cup {f}
      /\ want' = [want EXCEPT ![f] = <<n, Cut(want[f][2], n)>>]
      /\ touched' = touched \cup {f} /\ vdfs2_truncate_pages(f, n)
      /\ UNCHANGED <<orphan, area, disk, blk, com, reused, unsafe>>
  BY DEF vdfs2_update_inode, vdfs2_write_inode_to_bnode
<1>6. /\ page' = [page EXCEPT ![f] = p] /\ bh' = [bh EXCEPT ![f] = g]
      /\ dirty' = (IF n = 0 THEN dirty \ {f} ELSE IF part /\ held THEN dirty \cup {f} ELSE dirty)
  BY <1>5 DEF vdfs2_truncate_pages
<1>7. /\ hurt \subseteq hurt' /\ \A h \in File : h # f /\ h \in hurt' => h \in hurt
      /\ f \notin hurt' =>
           /\ n < ino[f].size /\ ino[f].kind # "ordinary" /\ n > ino[f].len => f \in dirty
           /\ ~Exposed(GetPage(f), ino[f].size, n)
           /\ f \notin dirty' => ~Exposed(Read(f, Zero), ino[f].size, n)
  BY DEF vdfs2_update_inode
<1>8. /\ l = (IF n < ino[f].size /\ ino[f].kind # "ordinary" THEN n ELSE ino[f].len)
      /\ e = (IF n = 0 THEN "none" ELSE ino[f].ext)
      /\ g = "unmapped" => n # 0 /\ (bh[f] = "unmapped" \/ (part /\ ~held))
      /\ p # NoPage => n # 0 /\ p = Cut(GetPage(f), n)
  BY DEF GetPage
<1>9. held <=> ino[f].kind = "ordinary" /\ (ino[f].ext # "none" \/ bh[f] = "mapped")
  OBVIOUS
<1>10. part <=> n # 0 /\ n # PageSize
  OBVIOUS
<1> HIDE DEF x, l, e, p, g, part, held
<1>11. /\ ino'[f] = x /\ rec'[f] = x /\ WantInv' /\ OthersSame(f)
       /\ want'[f] = <<n, Cut(want[f][2], n)>> /\ page'[f] = p /\ bh'[f] = g
  BY <1>1, <1>5, <1>6, <1>7 DEF Types, ContentInv, WantInv, OthersSame
<1>12. ComSame(f) /\ CellMove(f) /\ Busy(f) /\ BlkMove(f)
  BY <1>4, <1>5, <1>7, <1>11 DEF ComSame, CellMove, Busy, BlkMove
<1>13. LenOk(x) /\ l \in Nat
  BY <1>1, <1>2, <1>3, <1>4, <1>8 DEF LenOk
<1>14. KindOk(f)'
  <2>1. f \notin hurt' /\ x.kind = "small" /\ f \notin dirty' => x.len <= cell_size
    <3> SUFFICES ASSUME f \notin hurt', ino[f].kind = "small", f \notin dirty' PROVE l <= cell_size
      BY <1>4
    <3>1. CASE n = 0
      BY <1>1, <1>2, <1>3, <1>8, <3>1, SizesOk DEF LenOk
    <3>2. CASE n # 0
      <4>1. f \notin dirty /\ f \notin hurt
        BY <1>6, <1>7, <3>2
      <4>2. ino[f].len <= cell_size
        BY <1>3, <4>1 DEF KindOk
      <4>3. ~(n < ino[f].size /\ n > ino[f].len)
        BY <1>7, <4>1
      <4> QED BY <1>1, <1>2, <1>8, <4>2, <4>3, SizesOk
    <3> QED BY <3>1, <3>2
  <2>2. g = "unmapped" => x.ext = "none"
    <3> SUFFICES ASSUME g = "unmapped" PROVE ino[f].ext = "none"
      BY <1>4, <1>8
    <3>1. CASE bh[f] = "unmapped"
      BY <1>3, <3>1 DEF KindOk
    <3>2. CASE ~held
      BY <1>1, <1>9, <3>2 DEF RecInv, HasBlock
    <3> QED BY <1>8, <3>1, <3>2
  <2>3. ASSUME f \notin hurt', x.ext = "raw" PROVE f \in dirty'
    <3>1. n # 0 /\ ino[f].ext = "raw" /\ ino[f].kind = "ordinary" /\ f \notin hurt
      BY <1>1, <1>4, <1>7, <1>8, <2>3 DEF RecInv, HasBlock
    <3>2. CASE part \/ f \in dirty
      BY <1>6, <1>9, <3>1, <3>2
    <3>3. CASE ~part /\ f \notin dirty
      <4>1. ino[f].size = 0 /\ f \notin dirty'
        BY <1>3, <1>6, <3>1, <3>3 DEF KindOk
      <4>2. Read(f, Zero) = JunkPage
        BY <3>1 DEF Read, ReadBlock
      <4>3. 0 \in Pos /\ 0 >= 0 /\ 0 < n
        BY <1>2, <3>1, SizesOk DEF Pos
      <4>4. JunkPage[0] # Zero
        BY <4>3, SmallConstants DEF JunkPage
      <4>5. Exposed(Read(f, Zero), 0, n)
        BY <4>2, <4>3, <4>4 DEF Exposed
      <4> QED BY <1>7, <2>3, <4>1, <4>5
    <3> QED BY <3>2, <3>3
  <2>4. LenOk(com.rec[f]) /\ f \in list'
    BY <1>3, <1>5 DEF KindOk
  <2> QED BY <1>1, <1>4, <1>5, <1>11, <1>13, <2>1, <2>2, <2>3, <2>4 DEF KindOk
<1>15. FileOk(f)'
  <2> SUFFICES ASSUME f \notin hurt' PROVE FileOk(f)'
    BY DEF FileOk
  <2>1. f \notin hurt
    BY <1>7
  <2>2. /\ WantOf(f, want[f]) /\ ino[f].size = want[f][1] /\ Agree(GetPage(f), want[f])
    BY <1>1, <2>1, PageIsWanted
  <2>3. /\ OwnData(f, ino[f].data) /\ (ino[f].ext = "data" => OwnPage(f, blk[f]))
        /\ f \notin dirty => Agree(View(ino[f], area, blk[f]), want[f])
    BY <1>1, <1>3, <2>1 DEF FileOk
  <2>4. WantOf(f, want'[f]) /\ want'[f][1] = n
    BY <1>2, <1>11, <2>2, WantCut
  <2>5. p # NoPage => Agree(p, want'[f])
    BY <1>2, <1>7, <1>8, <1>11, <2>2, AgreeGrow
  <2>6. ASSUME f \notin dirty' PROVE Agree(View(x, area, blk[f]), want'[f])
    <3>1. area \in [Units -> Unit] /\ blk[f] \in Page
      BY <1>1 DEF Types
    <3>2. CASE n = 0
      BY <2>4, <3>2, SizesOk DEF Agree, Pos
    <3>3. CASE n # 0 /\ ino[f].kind = "ordinary"
      <4>1. f \notin dirty
        BY <1>6, <2>6, <3>3
      <4>2. View(x, area, blk[f]) = View(ino[f], area, blk[f])
        BY <1>4, <1>8, <3>3, ViewOther
      <4>3. ~Exposed(View(ino[f], area, blk[f]), want[f][1], n)
        BY <1>7, <2>2, <2>6, ReadsView
      <4> QED BY <1>2, <1>11, <2>2, <2>3, <4>1, <4>2, <4>3, AgreeGrow
    <3>4. CASE n # 0 /\ ino[f].kind \in {"tiny", "small"}
      <4>1. f \notin dirty
        BY <1>6, <2>6, <3>4
      <4>2. n < ino[f].size => n <= ino[f].len
        BY <1>1, <1>2, <1>7, <3>4, <4>1
      <4>3. x.len = (IF n < ino[f].size THEN n ELSE ino[f].len) /\ ino[f].len <= ino[f].size
        BY <1>3, <1>4, <1>8, <3>4 DEF LenOk
      <4> QED BY <1>1, <1>2, <1>4, <1>11, <2>2, <2>3, <3>1, <3>4, <4>1, <4>2, <4>3, ViewUpdate
    <3> QED BY <1>1, <3>2, <3>3, <3>4
  <2>7. x.ext = "data" => OwnPage(f, blk[f])
    BY <1>4, <1>8, <2>3
  <2> QED BY <1>4, <1>5, <1>11, <2>3, <2>4, <2>5, <2>6, <2>7 DEF FileOk
<1> QED BY <1>5, <1>11, <1>12, <1>14, <1>15, StillContent

(* Of a file that is dirty the snapshot has nothing that an operation      *)
(* would have to keep: see DirtyTouched.                                   *)
LEMMA WriteTinyC ==
  ASSUME SmallInv, ContentInv, NEW f \in File, writepage_tiny(f)
  PROVE  ContentInv'
<1> DEFINE s == ino[f].size
           d == [i \in DOMAIN ino[f].data |-> IF i < s THEN page[f][i] ELSE ino[f].data[i]]
           x == [ino[f] EXCEPT !.data = d, !.len = s]
<1>1. Types /\ ino[f] \in Inode /\ s \in Nat /\ s < TINY_DATA_SIZE /\ ino[f].kind = "tiny"
      /\ f \in dirty /\ ino[f].data \in [0 .. TINY_DATA_SIZE - 1 -> Unit] /\ ino[f].ext = "none"
  BY InodeOk DEF SmallInv, RecInv, HasBlock, writepage_tiny
<1>2. /\ x.kind = "tiny" /\ x.cell = ino[f].cell /\ x.data = d /\ x.size = s /\ x.len = s
      /\ x.ext = "none"
  BY <1>1 DEF Inode
<1>3. /\ ino' = [ino EXCEPT ![f] = x] /\ rec' = [rec EXCEPT ![f] = x] /\ list' = list \cup {f}
      /\ dirty' = dirty \ {f}
      /\ UNCHANGED <<orphan, page, bh, area, disk, blk, com, reused, unsafe, hurt, want, touched>>
  BY DEF writepage_tiny, vdfs2_write_inode_to_bnode, ghosts
<1>4. \A i \in 0 .. TINY_DATA_SIZE - 1 : d[i] = IF i < s THEN page[f][i] ELSE ino[f].data[i]
  BY <1>1
<1> HIDE DEF x, d
<1>5. /\ ino'[f] = x /\ rec'[f] = x /\ WantInv' /\ OthersSame(f)
  BY <1>1, <1>3 DEF Types, ContentInv, WantInv, OthersSame
<1>6. ComSame(f) /\ CellMove(f) /\ Busy(f) /\ BlkMove(f)
  BY <1>1, <1>2, <1>3, <1>5 DEF ComSame, CellMove, Busy, BlkMove
<1>7. LenOk(com.rec[f]) /\ LenOk(x)
  BY <1>2, <1>1 DEF ContentInv, KindOk, LenOk
<1>8. KindOk(f)'
  BY <1>2, <1>3, <1>5, <1>7 DEF KindOk
<1>9. FileOk(f)'
  <2> SUFFICES ASSUME f \notin hurt PROVE FileOk(f)'
    BY <1>3 DEF FileOk
  <2>1. /\ Agree(page[f], want[f]) /\ WantOf(f, want[f]) /\ s = want[f][1]
    BY <1>1, PageIsWanted, DirtyPage
  <2>2. OwnPage(f, want[f][2])
    BY <2>1 DEF WantOf
  <2>3. OwnData(f, ino[f].data)
    BY <1>1 DEF ContentInv, FileOk
  <2>4. \A i \in 0 .. TINY_DATA_SIZE - 1 : i \in Pos
    BY SizesOk DEF Pos
  <2>5. OwnData(f, d)
    BY <1>4, <2>1, <2>2, <2>3, <2>4 DEF OwnData, OwnPage, Agree
  <2>6. ASSUME NEW i \in Pos, i < s PROVE View(x, area, blk[f])[i] = want[f][2][i]
    <3>1. i \in 0 .. TINY_DATA_SIZE - 1 /\ i < TINY_DATA_SIZE /\ ~(i >= s)
      BY <1>1, <2>6, SizesOk DEF Pos
    <3>2. View(x, area, blk[f])[i] = x.data[i]
      BY <1>2, <3>1, ViewTiny
    <3> QED BY <1>2, <1>4, <2>1, <2>6, <3>1, <3>2 DEF Agree
  <2>7. Agree(View(x, area, blk[f]), want[f])
    BY <2>1, <2>6 DEF Agree
  <2> QED BY <1>2, <1>3, <1>5, <2>1, <2>5, <2>7 DEF FileOk
<1> QED BY <1>3, <1>5, <1>6, <1>8, <1>9, StillContent

(* The inode of a file that is ordinary now. *)
LEMMA OrdinaryC ==
  ASSUME SmallInv, ContentInv, NEW f \in File, NEW e \in {"none", "raw", "data"},
         BecomesOrdinary(f, e)
  PROVE  /\ ino'[f].kind = "ordinary" /\ ino'[f].size = ino[f].size /\ ino'[f].ext = e
         /\ ino'[f].cell = NoCell /\ LenOk(ino'[f])
         /\ \/ ino'[f].data = ZeroData /\ rec'[f] = ino'[f]
            \/ ino'[f] = ino[f] /\ rec'[f] = rec[f]
         /\ list \subseteq list'
         /\ \A g \in File : g # f => ino'[g] = ino[g] /\ rec'[g] = rec[g]
<1> DEFINE y == MkInode("ordinary", ino[f].size, 0)
           x == [y EXCEPT !.ext = e]
<1>1. Types /\ CellInv /\ LenOk(ino[f]) /\ ino[f].size \in Nat
  BY InodeOk DEF SmallInv, ContentInv, KindOk
<1>2. y \in Inode /\ y.kind = "ordinary" /\ y.size = ino[f].size /\ y.len = 0 /\ y.cell = NoCell
      /\ y.data = ZeroData
  BY <1>1, InodeOk, MkInodeOk, SizesOk
<1>3. CASE vdfs2_write_inode_to_bnode(f, x)
  <2> HIDE DEF y
  <2>1. /\ x.kind = "ordinary" /\ x.size = ino[f].size /\ x.len = 0 /\ x.cell = NoCell
        /\ x.data = ZeroData /\ x.ext = e
    BY <1>2 DEF Inode
  <2> HIDE DEF x
  <2>2. LenOk(x)
    BY <1>1, <2>1 DEF LenOk
  <2> QED BY <1>1, <1>3, <2>1, <2>2 DEF vdfs2_write_inode_to_bnode, Types
<1>4. CASE ino[f].kind = "ordinary" /\ e = ino[f].ext /\ UNCHANGED <<ino, rec, list>>
  BY <1>1, <1>4 DEF CellInv
<1> QED BY <1>3, <1>4 DEF BecomesOrdinary

LEMMA WritePagesC ==
  ASSUME SmallInv, ContentInv, NEW f \in File, vdfs2_mpage_writepages(f)
  PROVE  ContentInv'
<1> DEFINE s == ino[f].size
           p == Cut(page[f], s)
           e == IF s > 0 THEN "data" ELSE IF ino[f].ext = "none" THEN "raw" ELSE ino[f].ext
<1>1. Types /\ s \in Nat /\ f \in dirty /\ ino[f].ext \in {"none", "raw", "data"}
  BY InodeOk DEF SmallInv, vdfs2_mpage_writepages, GoesToBlock
<1>2. page[f] \in Page /\ ino[f].kind # "none" /\ GetPage(f) = page[f]
  BY <1>1, DirtyPage
<1>3. p \in Page
  BY <1>1, <1>2, CutOk
<1>4. e \in {"none", "raw", "data"} /\ BecomesOrdinary(f, e)
  BY <1>1 DEF vdfs2_mpage_writepages
<1>5. /\ ino'[f].kind = "ordinary" /\ ino'[f].size = s /\ ino'[f].ext = e
      /\ ino'[f].cell = NoCell /\ LenOk(ino'[f])
      /\ \/ ino'[f].data = ZeroData /\ rec'[f] = ino'[f]
         \/ ino'[f] = ino[f] /\ rec'[f] = rec[f]
      /\ list \subseteq list'
      /\ \A g \in File : g # f => ino'[g] = ino[g] /\ rec'[g] = rec[g]
  BY <1>4, OrdinaryC
<1>6. /\ dirty' = dirty \ {f} /\ bh' = [bh EXCEPT ![f] = "mapped"]
      /\ UNCHANGED <<orphan, area, disk, com, reused, unsafe, hurt, want, touched>>
      /\ s > 0 => page' = [page EXCEPT ![f] = p] /\ blk' = [blk EXCEPT ![f] = p]
      /\ ~(s > 0) => page' = page /\ blk' = blk
  BY DEF vdfs2_mpage_writepages, ghosts
<1>7. /\ s > 0 => e = "data"
      /\ ~(s > 0) => s = 0 /\ (e = "data" => ino[f].ext = "data")
  BY <1>1
<1> HIDE DEF p, e
<1>8. /\ WantInv' /\ OthersSame(f) /\ bh'[f] = "mapped"
      /\ s > 0 => page'[f] = p /\ blk'[f] = p
  BY <1>1, <1>5, <1>6 DEF Types, ContentInv, WantInv, OthersSame
<1>9. ComSame(f) /\ CellMove(f) /\ Busy(f)
  BY <1>1, <1>5, <1>6 DEF ComSame, CellMove, Busy
<1>10. ASSUME f \notin hurt
       PROVE  /\ Agree(page[f], want[f]) /\ WantOf(f, want[f]) /\ s = want[f][1]
              /\ OwnPage(f, p) /\ Agree(p, want[f])
  <2>1. Agree(page[f], want[f]) /\ WantOf(f, want[f]) /\ s = want[f][1]
    BY <1>2, <1>10, PageIsWanted
  <2>2. OwnPage(f, Cut(page[f], s)) /\ Agree(Cut(page[f], s), want[f])
    BY <2>1, AgreeCut
  <2> QED BY <2>1, <2>2 DEF p
<1>11. BlkMove(f)
  <2>1. CASE ~(s > 0)
    BY <1>6, <2>1 DEF BlkMove
  <2>2. CASE s > 0
    <3> SUFFICES ASSUME Kept(f)', com.rec[f].ext = "data" PROVE f \in touched' /\ OwnPage(f, blk'[f])
      BY DEF BlkMove
    <3>1. Kept(f) /\ f \notin hurt
      BY <1>8, <1>9, KeptBefore DEF Kept
    <3>2. com.rec[f].kind = "ordinary"
      BY DEF SmallInv, RecInv, HasBlock
    <3>3. f \in touched
      BY <1>1, <3>1, <3>2, DirtyTouched
    <3> QED BY <1>6, <1>8, <1>10, <2>2, <3>1, <3>3
  <2> QED BY <2>1, <2>2
<1>12. KindOk(f)
  BY DEF ContentInv
<1>13. KindOk(f)'
  BY <1>5, <1>6, <1>7, <1>8, <1>12 DEF KindOk
<1>14. FileOk(f)'
  <2> SUFFICES ASSUME f \notin hurt PROVE FileOk(f)'
    BY <1>6 DEF FileOk
  <2>1. /\ Agree(page[f], want[f]) /\ WantOf(f, want[f]) /\ s = want[f][1]
        /\ OwnPage(f, p) /\ Agree(p, want[f])
    BY <1>10
  <2>2. /\ OwnData(f, ino[f].data) /\ OwnData(f, rec[f].data)
        /\ ino[f].ext = "data" => OwnPage(f, blk[f])
        /\ rec[f].ext = "data" => OwnPage(f, blk[f])
    BY <1>2 DEF ContentInv, FileOk
  <2>3. OwnData(f, ino'[f].data) /\ OwnData(f, rec'[f].data)
    BY <1>5, <2>2, WantZero
  <2>4. CASE s > 0
    <3>1. View(ino'[f], area', blk'[f]) = p
      BY <1>5, <1>7, <1>8, <2>4, ViewOther
    <3> QED BY <1>5, <1>6, <1>8, <2>1, <2>3, <2>4, <3>1 DEF FileOk
  <2>5. CASE ~(s > 0)
    <3>1. \A q : Agree(q, want[f])
      BY <1>7, <2>1, <2>5, SizesOk DEF Agree, Pos
    <3>2. ino'[f].ext = "data" \/ rec'[f].ext = "data" => OwnPage(f, blk[f])
      BY <1>5, <1>7, <2>2, <2>5
    <3> QED BY <1>5, <1>6, <2>1, <2>3, <2>5, <3>1, <3>2 DEF FileOk
  <2> QED BY <2>4, <2>5
<1> QED BY <1>6, <1>8, <1>9, <1>11, <1>13, <1>14, StillContent

(* The page of a file that is ordinary now could not be written. *)
LEMMA NoSpaceC ==
  ASSUME SmallInv, ContentInv, NEW f \in File, WritepageNoSpace(f) \/ vdfs2_writepage(f)
  PROVE  ContentInv'
<1>1. Types /\ f \in dirty /\ BecomesOrdinary(f, "none")
      /\ UNCHANGED <<orphan, area, disk, blk, com, reused, unsafe, want, touched>>
  BY DEF SmallInv, WritepageNoSpace, vdfs2_writepage, GoesToBlock, ghosts
<1>2. page[f] \in Page /\ ino[f].kind # "none" /\ GetPage(f) = page[f]
  BY <1>1, DirtyPage
<1>3. /\ ino'[f].kind = "ordinary" /\ ino'[f].size = ino[f].size /\ ino'[f].ext = "none"
      /\ ino'[f].cell = NoCell /\ LenOk(ino'[f])
      /\ \/ ino'[f].data = ZeroData /\ rec'[f] = ino'[f]
         \/ ino'[f] = ino[f] /\ rec'[f] = rec[f]
      /\ list \subseteq list'
      /\ \A g \in File : g # f => ino'[g] = ino[g] /\ rec'[g] = rec[g]
  BY <1>1, OrdinaryC
<1>4. /\ hurt \subseteq hurt' /\ \A g \in File : g # f => page'[g] = page[g] /\ bh'[g] = bh[g]
      /\ \A g \in File : g # f => (g \in dirty' <=> g \in dirty)
      /\ (f \in hurt') \/ (page' = page /\ dirty' = dirty /\ hurt' = hurt)
  BY <1>1 DEF WritepageNoSpace, vdfs2_writepage, ghosts, Types
<1>5. WantInv' /\ OthersSame(f) /\ ComSame(f) /\ CellMove(f) /\ Busy(f) /\ BlkMove(f)
  BY <1>1, <1>3, <1>4 DEF ContentInv, WantInv, OthersSame, ComSame, CellMove, Busy, BlkMove
<1>6. KindOk(f)
  BY DEF ContentInv
<1>7. KindOk(f)'
  BY <1>1, <1>3, <1>6 DEF KindOk
<1>8. FileOk(f)'
  <2> SUFFICES ASSUME f \notin hurt' PROVE FileOk(f)'
    BY DEF FileOk
  <2>1. page' = page /\ dirty' = dirty /\ f \notin hurt
    BY <1>4
  <2>2. Agree(page[f], want[f]) /\ WantOf(f, want[f]) /\ ino[f].size = want[f][1]
    BY <1>2, <2>1, PageIsWanted
  <2>3. /\ OwnData(f, ino[f].data) /\ OwnData(f, rec[f].data)
        /\ rec[f].ext = "data" => OwnPage(f, blk[f])
    BY <1>2, <2>1 DEF ContentInv, FileOk
  <2>4. /\ OwnData(f, ino'[f].data) /\ OwnData(f, rec'[f].data)
        /\ rec'[f].ext = "data" => OwnPage(f, blk[f])
    BY <1>3, <2>3, WantZero
  <2> QED BY <1>1, <1>3, <2>1, <2>2, <2>4 DEF FileOk
<1> QED BY <1>1, <1>5, <1>7, <1>8, StillContent

LEMMA ReadInodeC ==
  ASSUME SmallInv, ContentInv, NEW f \in File, vdfs2_read_inode(f)
  PROVE  ContentInv'
<1>1. Types /\ f \notin dirty /\ ino[f] # rec[f]
  BY DEF SmallInv, vdfs2_read_inode
<1>2. f \in hurt
  BY <1>1 DEF SmallInv, RecInv
<1>3. /\ ino' = [ino EXCEPT ![f] = rec[f]] /\ page' = [page EXCEPT ![f] = NoPage]
      /\ bh' = [bh EXCEPT ![f] = "none"]
      /\ UNCHANGED <<rec, orphan, dirty, list, area, disk, blk, com, reused, unsafe, hurt, want, touched>>
  BY DEF vdfs2_read_inode, ghosts
<1>4. /\ ino'[f] = rec[f] /\ page'[f] = NoPage /\ bh'[f] = "none" /\ WantInv' /\ OthersSame(f)
  BY <1>1, <1>3 DEF Types, ContentInv, WantInv, OthersSame
<1>5. \A g \in File : rec[g].cell # NoCell => rec[g].cell = ino[g].cell
  BY DEF SmallInv, CellInv
<1>6. ComSame(f) /\ CellMove(f) /\ Busy(f) /\ BlkMove(f)
  BY <1>2, <1>3, <1>4, <1>5 DEF ComSame, CellMove, Busy, BlkMove
<1>7. LenOk(com.rec[f]) /\ LenOk(rec[f])
  BY DEF ContentInv, KindOk
<1>8. KindOk(f)' /\ FileOk(f)'
  BY <1>1, <1>2, <1>3, <1>4, <1>7 DEF KindOk, FileOk
<1> QED BY <1>3, <1>4, <1>6, <1>8, StillContent

LEMMA UnlinkC ==
  ASSUME SmallInv, ContentInv, NEW f \in File, vdfs2_unlink(f)
  PROVE  ContentInv'
<1>1. Types
  BY DEF SmallInv
<1>2. /\ rec' = [rec EXCEPT ![f] = ino[f]] /\ orphan' = orphan \cup {f} /\ touched' = touched \cup {f}
      /\ UNCHANGED <<ino, page, bh, dirty, list, area, disk, blk, com, reused, unsafe, hurt, want>>
  BY DEF vdfs2_unlink
<1>3. /\ rec'[f] = ino[f] /\ WantInv' /\ OthersSame(f)
  BY <1>1, <1>2 DEF Types, ContentInv, WantInv, OthersSame
<1>4. ComSame(f) /\ CellMove(f) /\ Busy(f) /\ BlkMove(f)
  BY <1>2, <1>3 DEF ComSame, CellMove, Busy, BlkMove
<1>5. KindOk(f) /\ FileOk(f)
  BY DEF ContentInv
<1>6. KindOk(f)'
  BY <1>2, <1>3, <1>5 DEF KindOk
<1>7. FileOk(f)'
  BY <1>2, <1>3, <1>5 DEF FileOk
<1> QED BY <1>2, <1>3, <1>4, <1>6, <1>7, StillContent

LEMMA KillOrphanC ==
  ASSUME SmallInv, ContentInv, NEW f \in File, vdfs2_kill_orphan_inode(f)
  PROVE  ContentInv'
<1>1. Types /\ f \in orphan
  BY DEF SmallInv, vdfs2_kill_orphan_inode
<1>2. /\ ino' = [ino EXCEPT ![f] = None] /\ rec' = [rec EXCEPT ![f] = None]
      /\ com' = [com EXCEPT !.hurt = com.hurt \cup (hurt \cap {f})]
      /\ hurt' = hurt \ {f} /\ dirty' = dirty \ {f} /\ orphan' = orphan \ {f} /\ list' = list \ {f}
      /\ page' = [page EXCEPT ![f] = NoPage] /\ bh' = [bh EXCEPT ![f] = "none"]
      /\ want' = [want EXCEPT ![f] = <<0, ZeroPage>>]
      /\ UNCHANGED <<area, disk, blk, touched, reused, unsafe>>
  BY DEF vdfs2_kill_orphan_inode
<1>3. com = [rec |-> com.rec, bits |-> com.bits, orphan |-> com.orphan,
             want |-> com.want, hurt |-> com.hurt]
  BY <1>1 DEF Types
<1>4. com'.rec = com.rec /\ com'.bits = com.bits /\ com'.orphan = com.orphan
      /\ com'.want = com.want /\ com'.hurt = com.hurt \cup (hurt \cap {f})
  BY <1>2, <1>3
<1>5. /\ ino'[f] = None /\ rec'[f] = None /\ page'[f] = NoPage /\ bh'[f] = "none"
      /\ WantInv' /\ OthersSame(f)
  BY <1>1, <1>2 DEF Types, ContentInv, WantInv, OthersSame
<1>6. ComSame(f) /\ CellMove(f) /\ BlkMove(f)
  BY <1>2, <1>4, <1>5, NoneOk DEF ComSame, CellMove, BlkMove
<1>7. Busy(f)
  BY <1>1, <1>2 DEF ContentInv, OrphanInv, Busy
<1>8. LenOk(com.rec[f]) /\ LenOk(None)
  BY NoneOk DEF ContentInv, KindOk, LenOk
<1>9. KindOk(f)' /\ FileOk(f)'
  BY <1>2, <1>4, <1>5, <1>8, NoneOk DEF KindOk, FileOk
<1> QED BY <1>2, <1>5, <1>6, <1>7, <1>9, StillContent

LEMMA PutAfter ==
  ASSUME NEW a \in [Units -> Unit], NEW c \in Cell, NEW p, NEW n \in Nat,
         NEW i \in Nat, i < cell_size, i >= n
  PROVE  Put(a, c * cell_size, p, n)[c * cell_size + i] = a[c * cell_size + i]
<1> DEFINE u == c * cell_size
<1>1. u \in Nat /\ u + i \in Units
  BY CellUnits
<1> HIDE DEF u
<1>2. ~(u + i < u + n)
  BY <1>1
<1>3. Put(a, u, p, n)[u + i] = a[u + i]
  BY <1>1, <1>2 DEF Put
<1> QED BY <1>3 DEF u

(* A write to cell c leaves what is stored of another short file alone. *)
LEMMA ViewElsewhere ==
  ASSUME NEW k \in Inode, NEW a \in [Units -> Unit], NEW b, NEW c \in Cell, NEW p \in Page,
         NEW n \in Nat, n <= cell_size,
         k.kind = "small" => k.cell # c /\ k.len <= cell_size
  PROVE  View(k, Put(a, c * cell_size, p, n), b) = View(k, a, b)
<1>1. k.len \in Nat /\ k.cell \in Cell \cup {NoCell} /\ n \in 0 .. PageSize
  BY SizesOk DEF Inode
<1>2. c * cell_size \in Nat
  BY CellUnits, SizesOk
<1> DEFINE e == Put(a, c * cell_size, p, n)
<1>3. e \in [Units -> Unit]
  BY <1>1, <1>2, PutOk
<1>4. ASSUME k.kind = "small", k.cell # NoCell, NEW i \in Pos, i < k.len
      PROVE  e[k.cell * cell_size + i] = a[k.cell * cell_size + i]
  <2>1. i \in Nat /\ i < cell_size /\ k.cell \in Cell /\ k.cell # c
    BY <1>1, <1>4, SizesOk DEF Pos
  <2> QED BY <2>1, PutElsewhere
<1> HIDE DEF e
<1>5. View(k, e, b) = View(k, a, b)
  BY <1>3, <1>4, ViewSame
<1> QED BY <1>5 DEF e

(* The page of f goes to its cell: the other files keep what is stored of  *)
(* them, now and in the snapshot.                                          *)
LEMMA PutMoves ==
  ASSUME SmallInv, ContentInv, NEW f \in dirty, GoesToCell(f), HasCell(f), TakeCellOf(f),
         area' = PutInCell(f), UNCHANGED <<blk, com, touched>>, hurt \subseteq hurt',
         OthersSame(f), ComSame(f), disk' = area' \/ (disk' = disk /\ unsafe' = unsafe)
  PROVE  /\ \A g \in File : AreaMove(g) /\ DiskMove(g)
         /\ \A g \in File : g # f /\ g \notin hurt' /\ g \notin dirty /\ ino[g].kind # "none" =>
              View(ino[g], area', blk[g]) = View(ino[g], area, blk[g])
         /\ area' \in [Units -> Unit]
<1> DEFINE c == CellOf(f)
           s == ino[f].size
<1>1. /\ f \in File /\ Types /\ CellInv /\ area \in [Units -> Unit]
      /\ page[f] \in Page /\ ino[f].kind # "none" /\ GetPage(f) = page[f]
  BY DirtyPage DEF SmallInv, Types
<1>2. s \in 0 .. PageSize /\ s \in Nat /\ s <= cell_size
  BY <1>1, InodeOk, SizesOk DEF GoesToCell
<1>3. /\ c \in Cell /\ c * cell_size \in Nat
      /\ \/ ino[f].cell # NoCell /\ c = ino[f].cell
         \/ ino[f].cell = NoCell /\ c \in Cell \ bits
  BY <1>1, CellOfOk
<1>4. area' = Put(area, c * cell_size, page[f], s)
  BY DEF PutInCell
<1>5. reused' = (IF ino[f].cell = NoCell /\ c \in com.bits THEN reused \cup {c} ELSE reused)
  BY DEF TakeCellOf, Take
<1>6. f \notin hurt => /\ Agree(page[f], want[f]) /\ WantOf(f, want[f]) /\ s = want[f][1]
  BY <1>1, PageIsWanted
<1> HIDE DEF c, s
<1>7. area' \in [Units -> Unit]
  BY <1>1, <1>2, <1>3, <1>4, PutOk
<1>8. ASSUME NEW g \in File PROVE AreaMove(g) /\ DiskMove(g)
  <2> SUFFICES ASSUME Kept(g)' PROVE AreaMove(g) /\ DiskMove(g)
    BY DEF AreaMove, DiskMove
  <2>1. Kept(g) /\ com.rec[g] \in Inode
    BY <1>1, KeptBefore DEF Types
  <2>2. /\ Alone(g)
        /\ com.rec[g].kind = "small" => com.rec[g].len <= cell_size
        /\ Shows(g, com.rec[g], area, blk[g])
    BY <2>1 DEF ContentInv, ComOk
  <2>3. DiskMove(g)
    BY DEF DiskMove
  <2>4. CASE com.rec[g].kind # "small" \/ com.rec[g].cell # c
    <3>1. View(com.rec[g], area', blk[g]) = View(com.rec[g], area, blk[g])
      BY <1>1, <1>2, <1>3, <1>4, <2>1, <2>2, <2>4, ViewElsewhere
    <3> QED BY <2>3, <3>1 DEF AreaMove
  <2>5. CASE com.rec[g].kind = "small" /\ com.rec[g].cell = c
    <3>1. g = f
      <4>1. CASE ino[f].cell = c
        BY <1>1, <1>3, <2>2, <2>5, <4>1, SizesOk DEF Alone
      <4>2. CASE ino[f].cell = NoCell
        <5>1. c \in com.bits
          BY <1>3, <2>5, SizesOk DEF SmallInv, ComCellInv
        <5>2. com.rec[g].cell \in reused'
          BY <1>5, <2>5, <4>2, <5>1
        <5> QED BY <5>2 DEF Kept
      <4> QED BY <1>3, <4>1, <4>2
    <3>2. f \in touched /\ f \notin hurt
      BY <2>1, <2>5, <3>1, DirtyTouched DEF Kept
    <3>3. Agree(page[f], want[f]) /\ WantOf(f, want[f]) /\ s = want[f][1]
      BY <1>6, <3>2
    <3>4. ASSUME NEW i \in Pos, i < com.rec[g].size
          PROVE  View(com.rec[g], area', blk[g])[i] \in Own(f)
      <4>1. /\ i \in Nat /\ com.rec[g].len \in Nat /\ com.rec[g].len <= cell_size
            /\ com.rec[g].size \in Nat
        BY <2>1, <2>2, <2>5, SizesOk DEF Pos, Inode
      <4>2. CASE i >= com.rec[g].len
        <5>1. View(com.rec[g], area', blk[g])[i] = Zero
          BY <1>7, <2>5, <4>2, ViewEnds
        <5> QED BY <5>1 DEF Own
      <4>3. CASE i < com.rec[g].len
        <5>1. i < cell_size /\ ~(i >= com.rec[g].size) /\ ~(i >= com.rec[g].len)
          BY <3>4, <4>1, <4>3, SizesOk
        <5>2. c * cell_size + i \in Units /\ c # NoCell
          BY <1>3, <4>1, <5>1, CellUnits, SizesOk
        <5>3. /\ View(com.rec[g], area', blk[g])[i] = area'[c * cell_size + i]
              /\ View(com.rec[g], area, blk[g])[i] = area[c * cell_size + i]
          BY <1>1, <1>7, <2>5, <5>1, <5>2, ViewSmall
        <5>4. CASE i < s
          <6>1. area'[c * cell_size + i] = page[f][i]
            BY <1>1, <1>2, <1>3, <1>4, <4>1, <5>4, PutHere
          <6> QED BY <3>3, <5>3, <5>4, <6>1 DEF Agree, WantOf, OwnPage
        <5>5. CASE ~(i < s)
          <6>1. i >= s
            BY <1>2, <4>1, <5>5
          <6>2. area'[c * cell_size + i] = area[c * cell_size + i]
            BY <1>1, <1>2, <1>3, <1>4, <4>1, <5>1, <6>1, PutAfter
          <6> QED BY <2>2, <3>1, <3>4, <5>3, <6>2 DEF Shows
        <5> QED BY <5>4, <5>5
      <4> QED BY <4>1, <4>2, <4>3
    <3>5. AreaMove(g)
      BY <3>1, <3>2, <3>4 DEF AreaMove, Shows
    <3> QED BY <2>3, <3>5
  <2> QED BY <2>4, <2>5
<1>9. ASSUME NEW g \in File, g # f, g \notin hurt', g \notin dirty, ino[g].kind # "none"
      PROVE  View(ino[g], area', blk[g]) = View(ino[g], area, blk[g])
  <2>1. ino[g] \in Inode /\ KindOk(g) /\ g \notin hurt
    BY <1>1, <1>9 DEF Types, ContentInv
  <2>2. ino[g].kind = "small" => ino[g].len <= cell_size
    BY <1>9, <2>1 DEF KindOk
  <2>3. ino[g].cell # c
    <3>1. CASE ino[f].cell = c
      BY <1>1, <1>3, <1>9, <3>1, SizesOk DEF CellInv
    <3>2. CASE c \notin bits
      BY <1>1, <1>3, <3>2, SizesOk DEF CellInv
    <3> QED BY <1>3, <3>1, <3>2
  <2> QED BY <1>1, <1>2, <1>3, <1>4, <2>1, <2>2, <2>3, ViewElsewhere
<1> QED BY <1>7, <1>8, <1>9

LEMMA WriteSmallC ==
  ASSUME SmallInv, ContentInv, NEW f \in File, NEW sync \in BOOLEAN, write_small_file_page(f, sync)
  PROVE  ContentInv'
<1> DEFINE c == CellOf(f)
           s == ino[f].size
           y == MkInode("small", s, StoredLen(f))
           x == [y EXCEPT !.cell = c]
<1>1. /\ Types /\ GoesToCell(f) /\ HasCell(f) /\ TakeCellOf(f) /\ area' = PutInCell(f)
      /\ f \in dirty /\ ino[f].kind \in {"tiny", "small"} /\ s \in 0 .. PageSize /\ s \in Nat
      /\ s < cell_size /\ ino[f].len \in Nat /\ area \in [Units -> Unit]
  BY InodeOk DEF SmallInv, write_small_file_page, GoesToCell, Types
<1>2. KindOk(f) /\ LenOk(ino[f])
  BY DEF ContentInv, KindOk
<1>3. StoredLen(f) = s
  <2>1. ino[f].len <= s
    BY <1>2 DEF LenOk
  <2> QED BY <1>1, <2>1 DEF StoredLen, Larger
<1>4. /\ c \in Cell
      /\ \/ ino[f].cell # NoCell /\ c = ino[f].cell
         \/ ino[f].cell = NoCell /\ c \in Cell \ bits
  BY <1>1, CellOfOk
<1>5. y \in Inode /\ y.kind = "small" /\ y.size = s /\ y.len = s /\ y.data = ZeroData
      /\ y.ext = "none"
  BY <1>1, <1>3, MkInodeOk
<1>6. /\ ino' = [ino EXCEPT ![f] = x] /\ rec' = [rec EXCEPT ![f] = x] /\ list' = list \cup {f}
      /\ ToVolume(sync)
      /\ dirty' = dirty \ {f}
      /\ UNCHANGED <<orphan, page, bh, blk, com, want, touched, hurt>>
  BY DEF write_small_file_page, vdfs2_write_inode_to_bnode
<1>7. page[f] \in Page /\ ino[f].kind # "none" /\ GetPage(f) = page[f]
  BY <1>1, DirtyPage
<1>8. area' = Put(area, c * cell_size, page[f], s)
  BY <1>1 DEF PutInCell
<1>9. reused' = (IF ino[f].cell = NoCell /\ c \in com.bits THEN reused \cup {c} ELSE reused)
  BY <1>1 DEF TakeCellOf, Take
<1> HIDE DEF c, y
<1>10. /\ x.kind = "small" /\ x.size = s /\ x.len = s /\ x.data = ZeroData /\ x.cell = c
       /\ x.ext = "none"
  BY <1>4, <1>5 DEF Inode
<1> HIDE DEF x, s
<1>11. /\ ino'[f] = x /\ rec'[f] = x /\ WantInv' /\ OthersSame(f)
  BY <1>1, <1>6 DEF Types, ContentInv, WantInv, OthersSame
<1>12. ComSame(f) /\ CellMove(f) /\ Busy(f) /\ BlkMove(f)
  BY <1>1, <1>4, <1>6, <1>9, <1>10, <1>11 DEF ComSame, CellMove, Busy, BlkMove
<1>13. disk' = area' \/ (disk' = disk /\ unsafe' = unsafe)
  BY <1>6 DEF ToVolume
<1>14. /\ \A g \in File : AreaMove(g) /\ DiskMove(g)
       /\ \A g \in File : g # f /\ g \notin hurt' /\ g \notin dirty /\ ino[g].kind # "none" =>
            View(ino[g], area', blk[g]) = View(ino[g], area, blk[g])
       /\ area' \in [Units -> Unit]
  BY <1>1, <1>6, <1>11, <1>12, <1>13, PutMoves
<1>15. LenOk(com.rec[f]) /\ LenOk(x) /\ x.len <= cell_size
  BY <1>1, <1>2, <1>10, SizesOk DEF KindOk, LenOk
<1>16. KindOk(f)'
  BY <1>6, <1>10, <1>11, <1>15 DEF KindOk
<1>17. FileOk(f)'
  <2> SUFFICES ASSUME f \notin hurt PROVE FileOk(f)'
    BY <1>6 DEF FileOk
  <2>1. /\ Agree(page[f], want[f]) /\ WantOf(f, want[f]) /\ s = want[f][1]
    BY <1>7, PageIsWanted DEF s
  <2>2. ASSUME NEW i \in Pos, i < s PROVE View(x, area', blk[f])[i] = want[f][2][i]
    <3>1. i \in Nat /\ i < cell_size /\ ~(i >= s) /\ s <= cell_size
      BY <1>1, <2>2, SizesOk DEF Pos
    <3>2. c * cell_size + i \in Units /\ c # NoCell
      BY <1>4, <3>1, CellUnits, SizesOk
    <3>3. area'[c * cell_size + i] = page[f][i]
      BY <1>1, <1>4, <1>8, <2>2, <3>1, PutHere
    <3>4. View(x, area', blk[f])[i] = area'[c * cell_size + i]
      BY <1>10, <1>14, <3>1, <3>2, ViewSmall
    <3> QED BY <2>1, <2>2, <3>3, <3>4 DEF Agree
  <2>3. Agree(View(x, area', blk[f]), want[f])
    BY <2>1, <2>2 DEF Agree
  <2> QED BY <1>6, <1>10, <1>11, <2>1, <2>3, WantZero DEF FileOk
<1> QED BY <1>11, <1>12, <1>14, <1>16, <1>17, OneContent

(* A cell is not got, or not written. *)
LEMMA WriteFailsC ==
  ASSUME SmallInv, ContentInv, NEW f \in File, WritebackFails(f) \/ ReclaimFails(f)
  PROVE  ContentInv'
<1> DEFINE tiny == WritebackFails(f) /\ ino[f].kind = "tiny"
           y == IF tiny THEN MkInode("small", ino[f].size, ino[f].size) ELSE ino[f]
<1>1. Types /\ RecInv /\ f \in dirty /\ ino[f].kind \in {"tiny", "small"}
      /\ ino[f] \in Inode /\ ino[f].size \in 0 .. PageSize /\ ino[f].size \in Nat
  BY InodeOk DEF SmallInv, WritebackFails, ReclaimFails, GoesToCell
<1>2. KindOk(f) /\ FileOk(f)
  BY DEF ContentInv
<1>3. /\ y \in Inode /\ y.kind = "small" /\ y.size = ino[f].size /\ y.ext = "none"
      /\ tiny => y.len = ino[f].size /\ y.data = ZeroData
      /\ ~tiny => y = ino[f]
  BY <1>1, MkInodeOk DEF WritebackFails, ReclaimFails, GoesToCell, RecInv, HasBlock
<1>4. PICK c \in Cell \cup {NoCell} :
         CellFails(f, c) /\ ino' = [ino EXCEPT ![f] = [y EXCEPT !.cell = c]]
  BY <1>1 DEF WritebackFails, ReclaimFails, GoesToCell, Types
<1>5. /\ dirty' = (IF tiny THEN dirty ELSE dirty \ {f})
      /\ hurt' = (IF tiny THEN hurt ELSE hurt \cup {f})
      /\ UNCHANGED <<rec, orphan, page, bh, list, disk, blk, com, want, touched, unsafe>>
      /\ area' = area \/ GoesToCell(f)
      /\ tiny => ino[f].kind = "tiny"
  BY DEF WritebackFails, ReclaimFails
<1>6. /\ c \in {NoCell, ino[f].cell} \/ c \notin com.bits \/ c \in reused'
      /\ reused \subseteq reused'
      /\ area' = area \/ (HasCell(f) /\ TakeCellOf(f) /\ area' = PutInCell(f))
  BY <1>4 DEF CellFails, CellOf, TakeCellOf, Take
<1> HIDE DEF y, tiny
<1> DEFINE x == [y EXCEPT !.cell = c]
<1>7. /\ x.kind = "small" /\ x.size = y.size /\ x.len = y.len /\ x.data = y.data /\ x.cell = c
      /\ x.ext = "none"
  BY <1>3 DEF Inode
<1> HIDE DEF x
<1>8. /\ ino'[f] = x /\ WantInv' /\ OthersSame(f)
  BY <1>1, <1>4, <1>5 DEF Types, ContentInv, WantInv, OthersSame, x
<1>9. ComSame(f) /\ CellMove(f) /\ Busy(f) /\ BlkMove(f)
  BY <1>1, <1>5, <1>6, <1>7, <1>8 DEF ComSame, CellMove, Busy, BlkMove
<1>10. LenOk(x)
  BY <1>1, <1>2, <1>3, <1>7 DEF KindOk, LenOk
<1>11. KindOk(f)'
  <2>1. /\ rec[f].kind # "none" /\ LenOk(rec[f]) /\ LenOk(com.rec[f])
        /\ f \in list /\ rec[f].ext = "none"
    BY <1>1, <1>2 DEF KindOk, RecInv, HasBlock
  <2>2. f \in hurt' \/ f \in dirty'
    BY <1>1, <1>5
  <2> QED BY <1>5, <1>7, <1>8, <1>10, <2>1, <2>2 DEF KindOk
<1>12. FileOk(f)'
  <2> SUFFICES ASSUME f \notin hurt' PROVE FileOk(f)'
    BY DEF FileOk
  <2>1. f \notin hurt /\ tiny /\ f \in dirty'
    BY <1>1, <1>5
  <2>2. WantOf(f, want[f]) /\ ino[f].size = want[f][1] /\ (page[f] # NoPage => Agree(page[f], want[f]))
        /\ OwnData(f, rec[f].data) /\ (rec[f].ext = "data" => OwnPage(f, blk[f]))
    BY <1>1, <1>2, <2>1 DEF FileOk
  <2> QED BY <1>3, <1>5, <1>7, <1>8, <2>1, <2>2, WantZero DEF FileOk
<1>13. CASE area' = area
  BY <1>5, <1>8, <1>9, <1>11, <1>12, <1>13, StillContent
<1>14. CASE area' # area
  <2>1. hurt \subseteq hurt' /\ GoesToCell(f)
    BY <1>5, <1>14
  <2>2. /\ \A g \in File : AreaMove(g) /\ DiskMove(g)
        /\ \A g \in File : g # f /\ g \notin hurt' /\ g \notin dirty /\ ino[g].kind # "none" =>
             View(ino[g], area', blk[g]) = View(ino[g], area, blk[g])
    BY <1>1, <1>5, <1>6, <1>8, <1>9, <1>14, <2>1, PutMoves
  <2> QED BY <1>8, <1>9, <1>11, <1>12, <2>2, OneContent
<1> QED BY <1>13, <1>14

(* A write to the beginning of the area leaves what is stored of a file    *)
(* alone whose cell it does not reach.                                     *)
LEMMA ViewPastBeginning ==
  ASSUME NEW k \in Inode, NEW a \in [Units -> Unit], NEW b, NEW p \in Page, NEW n \in 0 .. PageSize,
         k.kind = "small" /\ k.cell # NoCell => k.cell \notin Beginning(n)
  PROVE  View(k, Put(a, 0, p, n), b) = View(k, a, b)
<1>1. k.cell \in Cell \cup {NoCell} /\ n \in Nat /\ 0 \in Nat
  BY SizesOk DEF Inode
<1> DEFINE e == Put(a, 0, p, n)
<1>2. e \in [Units -> Unit]
  BY <1>1, PutOk
<1>3. ASSUME k.kind = "small", k.cell # NoCell, NEW i \in Pos, k.cell * cell_size + i \in Units
      PROVE  e[k.cell * cell_size + i] = a[k.cell * cell_size + i]
  <2>1. i \in Nat /\ k.cell \in Cell
    BY <1>1, <1>3, SizesOk DEF Pos
  <2> QED BY <1>1, <1>3, <2>1, PutBeginning
<1> HIDE DEF e
<1>4. View(k, e, b) = View(k, a, b)
  BY <1>2, <1>3, ViewSame
<1> QED BY <1>4 DEF e

LEMMA ReclaimTinyC ==
  ASSUME SmallInv, ContentInv, NEW f \in File, write_tiny_small_page(f), ino[f].kind = "tiny"
  PROVE  ContentInv'
<1> DEFINE d == [i \in DOMAIN ino[f].data |-> IF i < ino[f].len THEN page[f][i] ELSE ino[f].data[i]]
           x == [ino[f] EXCEPT !.data = d]
<1>1. Types /\ ino[f] \in Inode /\ f \in dirty /\ ino[f].data \in [0 .. TINY_DATA_SIZE - 1 -> Unit]
      /\ ino[f].ext = "none" /\ ino[f].len \in Nat /\ ino[f].size \in Nat /\ LenOk(ino[f])
  BY InodeOk DEF SmallInv, RecInv, HasBlock, write_tiny_small_page, ContentInv, KindOk
<1>2. /\ x.kind = "tiny" /\ x.cell = ino[f].cell /\ x.data = d /\ x.size = ino[f].size
      /\ x.len = ino[f].len /\ x.ext = "none"
  BY <1>1 DEF Inode
<1>3. /\ ino' = [ino EXCEPT ![f] = x] /\ rec' = [rec EXCEPT ![f] = x] /\ list' = list \cup {f}
      /\ UNCHANGED <<orphan, page, bh, dirty, area, disk, blk, com, reused, unsafe, hurt, want, touched>>
  BY DEF write_tiny_small_page, vdfs2_write_inode_to_bnode
<1>4. \A i \in 0 .. TINY_DATA_SIZE - 1 : (d[i] = page[f][i] /\ i < ino[f].len) \/ d[i] = ino[f].data[i]
  BY <1>1
<1> HIDE DEF x, d
<1>5. /\ ino'[f] = x /\ rec'[f] = x /\ WantInv' /\ OthersSame(f)
  BY <1>1, <1>3 DEF Types, ContentInv, WantInv, OthersSame
<1>6. ComSame(f) /\ CellMove(f) /\ Busy(f) /\ BlkMove(f)
  BY <1>1, <1>2, <1>3, <1>5 DEF ComSame, CellMove, Busy, BlkMove
<1>7. LenOk(com.rec[f]) /\ LenOk(x)
  BY <1>1, <1>2 DEF ContentInv, KindOk, LenOk
<1>8. KindOk(f)'
  BY <1>2, <1>3, <1>5, <1>7 DEF KindOk
<1>9. FileOk(f)'
  <2> SUFFICES ASSUME f \notin hurt PROVE FileOk(f)'
    BY <1>3 DEF FileOk
  <2>1. /\ Agree(page[f], want[f]) /\ WantOf(f, want[f]) /\ ino[f].size = want[f][1]
    BY <1>1, PageIsWanted, DirtyPage
  <2>2. OwnData(f, ino[f].data) /\ OwnPage(f, want[f][2])
    BY <1>1, <2>1 DEF ContentInv, FileOk, WantOf
  <2>3. \A i \in 0 .. TINY_DATA_SIZE - 1 : i \in Pos /\ (i < ino[f].len => i < want[f][1])
    BY <1>1, <2>1, SizesOk DEF Pos, LenOk
  <2>4. OwnData(f, d)
    BY <1>4, <2>1, <2>2, <2>3 DEF OwnData, OwnPage, Agree
  <2> QED BY <1>1, <1>2, <1>3, <1>5, <2>1, <2>4 DEF FileOk
<1> QED BY <1>3, <1>5, <1>6, <1>8, <1>9, StillContent

LEMMA ReclaimSmallC ==
  ASSUME SmallInv, ContentInv, NEW f \in File, write_tiny_small_page(f), ino[f].kind # "tiny"
  PROVE  ContentInv'
<1> DEFINE c == CellOf(f)
           l == ino[f].len
           x == [ino[f] EXCEPT !.cell = c]
<1>1. /\ Types /\ HasCell(f) /\ f \in dirty /\ ino[f].kind = "small" /\ ino[f] \in Inode
      /\ l \in 0 .. PageSize /\ area \in [Units -> Unit] /\ ino[f].ext = "none"
  BY InodeOk DEF SmallInv, RecInv, HasBlock, write_tiny_small_page, Types
<1>2. /\ c \in Cell
      /\ \/ ino[f].cell # NoCell /\ c = ino[f].cell
         \/ ino[f].cell = NoCell /\ c \in Cell \ bits
  BY <1>1, CellOfOk
<1>3. /\ ino' = [ino EXCEPT ![f] = x] /\ rec' = [rec EXCEPT ![f] = x] /\ list' = list \cup {f}
      /\ area' = Put(area, 0, page[f], l)
      /\ reused' = reused \cup (({c} \cup Beginning(l)) \cap com.bits)
      /\ hurt' = hurt \cup {g \in File \ {f} : ino[g].kind = "small" /\ ino[g].cell \in Beginning(l)}
      /\ UNCHANGED <<orphan, page, bh, dirty, disk, blk, com, want, touched, unsafe>>
  BY DEF write_tiny_small_page, vdfs2_write_inode_to_bnode
<1>4. page[f] \in Page /\ ino[f].kind # "none" /\ GetPage(f) = page[f]
  BY <1>1, DirtyPage
<1>5. /\ x.kind = "small" /\ x.size = ino[f].size /\ x.len = ino[f].len /\ x.data = ino[f].data
      /\ x.cell = c /\ x.ext = "none"
  BY <1>1, <1>2 DEF Inode
<1> HIDE DEF c, x, l
<1>6. /\ ino'[f] = x /\ rec'[f] = x /\ WantInv' /\ OthersSame(f)
  BY <1>1, <1>3 DEF Types, ContentInv, WantInv, OthersSame
<1>7. ComSame(f) /\ CellMove(f) /\ Busy(f) /\ BlkMove(f)
  BY <1>1, <1>2, <1>3, <1>5, <1>6 DEF ComSame, CellMove, Busy, BlkMove
<1>8. ASSUME NEW g \in File PROVE AreaMove(g) /\ DiskMove(g)
  <2> SUFFICES ASSUME Kept(g)' PROVE AreaMove(g) /\ DiskMove(g)
    BY DEF AreaMove, DiskMove
  <2>1. com.rec[g] \in Inode
    BY <1>1 DEF Types
  <2>2. com.rec[g].cell # NoCell => com.rec[g].cell \in com.bits
    BY DEF SmallInv, ComCellInv
  <2>3. com.rec[g].cell \notin reused'
    BY <1>3 DEF Kept
  <2>4. com.rec[g].cell # NoCell => com.rec[g].cell \notin Beginning(l)
    BY <1>3, <2>2, <2>3
  <2>5. View(com.rec[g], area', blk[g]) = View(com.rec[g], area, blk[g])
    BY <1>1, <1>3, <1>4, <2>1, <2>4, ViewPastBeginning
  <2> QED BY <1>3, <2>5 DEF AreaMove, DiskMove
<1>9. ASSUME NEW g \in File, g # f, g \notin hurt'
      PROVE  View(ino[g], area', blk[g]) = View(ino[g], area, blk[g])
  <2>1. ino[g] \in Inode
    BY <1>1 DEF Types
  <2>2. ino[g].kind = "small" => ino[g].cell \notin Beginning(l)
    BY <1>3, <1>9
  <2> QED BY <1>1, <1>3, <1>4, <2>1, <2>2, ViewPastBeginning
<1>10. LenOk(com.rec[f]) /\ LenOk(x)
  BY <1>1, <1>5 DEF ContentInv, KindOk, LenOk
<1>11. KindOk(f)'
  BY <1>1, <1>3, <1>5, <1>6, <1>10 DEF KindOk
<1>12. FileOk(f)'
  <2> SUFFICES ASSUME f \notin hurt PROVE FileOk(f)'
    BY <1>3 DEF FileOk
  <2>1. /\ Agree(page[f], want[f]) /\ WantOf(f, want[f]) /\ ino[f].size = want[f][1]
        /\ OwnData(f, ino[f].data)
    BY <1>4, PageIsWanted DEF ContentInv, FileOk
  <2> QED BY <1>1, <1>3, <1>5, <1>6, <2>1 DEF FileOk
<1> QED BY <1>6, <1>7, <1>8, <1>9, <1>11, <1>12, OneContent

(* Nothing happens, or the area is flushed. *)
LEMMA FlushC ==
  ASSUME SmallInv, ContentInv,
         UNCHANGED <<ino, rec, orphan, page, bh, dirty, list, area, blk, com, want, touched,
                     reused, hurt>>,
         (disk' = disk /\ unsafe' = unsafe) \/ disk' = area
  PROVE  ContentInv'
<1>1. ASSUME NEW g \in File PROVE KindOk(g)' /\ FileOk(g)' /\ ComOk(g)'
  <2>1. KindOk(g) /\ FileOk(g)
    BY DEF ContentInv
  <2>2. KindOk(g)'
    BY <2>1 DEF KindOk
  <2>3. FileOk(g)'
    BY <2>1 DEF FileOk
  <2>4. OthersSame(g) /\ ComSame(g) /\ CellMove(g) /\ BlkMove(g)
    BY DEF OthersSame, ComSame, CellMove, BlkMove
  <2>5. Busy(g)
    BY DEF Busy
  <2>6. AreaMove(g) /\ DiskMove(g)
    BY DEF AreaMove, DiskMove
  <2>7. ComOk(g)'
    BY <2>4, <2>5, <2>6, ComStep
  <2> QED BY <2>2, <2>3, <2>7
<1>2. OrphanInv' /\ WantInv'
  BY DEF ContentInv, OrphanInv, WantInv
<1> QED BY <1>1, <1>2 DEF ContentInv

(* What is found of a tiny file is in its record. *)
LEMMA OwnTiny ==
  ASSUME NEW f \in File, NEW x \in Inode, NEW a, NEW b, x.kind = "tiny", OwnData(f, x.data),
         ~Overlong(x)
  PROVE  Shows(f, x, a, b)
<1>1. x.len \in Nat /\ x.len <= TINY_DATA_SIZE
  BY SizesOk DEF Inode, Overlong
<1>2. ASSUME NEW i \in Pos PROVE View(x, a, b)[i] \in Own(f)
  <2>1. View(x, a, b)[i] = IF i >= x.size THEN Zero ELSE IF i >= x.len THEN Zero
                           ELSE IF i < TINY_DATA_SIZE THEN x.data[i] ELSE Junk
    BY ViewTiny
  <2>2. i \in Nat
    BY SizesOk DEF Pos
  <2>3. CASE i >= x.len
    BY <2>1, <2>3 DEF Own
  <2>4. CASE ~(i >= x.len)
    <3>1. i < TINY_DATA_SIZE /\ i \in 0 .. TINY_DATA_SIZE - 1
      BY <1>1, <2>2, <2>4, SizesOk
    <3> QED BY <2>1, <2>4, <3>1 DEF Own, OwnData
  <2> QED BY <2>3, <2>4
<1> QED BY <1>2 DEF Shows

(* A commit: every dirty file left is an ordinary one. *)
LEMMA CommitC ==
  ASSUME SmallInv, ContentInv, sync_filesystem \/ vdfs2_file_fsync
  PROVE  ContentInv'
<1>1. Types
  BY DEF SmallInv
<1>2. /\ com' = Snapshot /\ list' = {} /\ touched' = dirty /\ reused' = {}
      /\ UNCHANGED <<ino, rec, orphan, page, bh, dirty, bits, area, blk, want, hurt>>
      /\ list \cap dirty \subseteq Stuck
      /\ disk' = area \/ (disk' = disk /\ unsafe' = {g \in File : Unwritten(g)})
  BY DEF sync_filesystem, vdfs2_file_fsync, Commits
<1>3. com'.rec = rec /\ com'.bits = bits /\ com'.orphan = orphan /\ com'.want = want /\ com'.hurt = hurt
  BY <1>2 DEF Snapshot
<1>4. OrphanInv' /\ WantInv'
  BY <1>2, <1>3 DEF ContentInv, OrphanInv, WantInv
<1>5. ASSUME NEW f \in File PROVE KindOk(f)' /\ FileOk(f)' /\ ComOk(f)'
  <2>1. KindOk(f) /\ FileOk(f)
    BY DEF ContentInv
  <2>2. f \in dirty => ino[f].kind = "ordinary"
    BY <1>2, <2>1 DEF KindOk, Stuck
  <2>3. f \notin hurt /\ ino[f].ext = "raw" => ino[f].size = 0
    BY <1>2, <2>1 DEF KindOk, Stuck
  <2>4. KindOk(f)'
    BY <1>2, <1>3, <2>1, <2>2, <2>3 DEF KindOk
  <2>5. FileOk(f)'
    BY <1>2, <2>1 DEF FileOk
  <2>6. ComOk(f)'
    <3> SUFFICES ASSUME Kept(f)'
                 PROVE  /\ Alone(f)'
                        /\ rec[f].kind = "small" => rec[f].len <= cell_size
                        /\ OwnData(f, rec[f].data)
                        /\ rec[f].ext = "data" => OwnPage(f, blk[f])
                        /\ Shows(f, rec[f], area, blk[f])
                        /\ f \notin unsafe' => Shows(f, rec[f], disk', blk[f])
                        /\ f \notin dirty => Untouched(f)'
      BY <1>2, <1>3 DEF ComOk
    <3>1. /\ f \notin hurt /\ rec[f].kind # "none" /\ ino[f].kind # "none" /\ rec[f] \in Inode
          /\ ~Overlong(rec[f]) /\ rec[f].ext \in {"none", "raw", "data"}
      BY <1>1, <1>2, <1>3, <2>1 DEF Kept, KindOk, Types, Inode
    <3>2. /\ WantOf(f, want[f]) /\ ino[f].size = want[f][1] /\ OwnPage(f, want[f][2])
          /\ f \notin dirty => Agree(View(ino[f], area, blk[f]), want[f])
          /\ OwnData(f, rec[f].data)
          /\ rec[f].ext = "data" => OwnPage(f, blk[f])
      BY <2>1, <3>1 DEF FileOk, WantOf
    <3>3. Alone(f)'
      BY <1>2, <1>3 DEF Alone, SmallInv, CellInv
    <3>4. f \notin dirty => ino[f] = rec[f]
      BY <3>1 DEF SmallInv, RecInv
    <3>5. f \in dirty => rec[f].kind \in {"tiny", "ordinary"}
      BY <2>1, <2>2 DEF KindOk
    <3>6. rec[f].kind = "small" => rec[f].len <= cell_size
      BY <2>1, <3>1, <3>4, <3>5 DEF KindOk
    <3>7. Shows(f, rec[f], area, blk[f])
      <4>1. CASE f \notin dirty
        BY <3>2, <3>4, <4>1 DEF Shows, Agree, OwnPage
      <4>2. CASE rec[f].kind = "tiny"
        BY <3>1, <3>2, <4>2, OwnTiny
      <4>3. CASE rec[f].kind = "ordinary" /\ rec[f].ext = "raw"
        <5>1. rec[f].size = 0
          BY <2>1, <2>3, <3>1, <4>3 DEF KindOk
        <5> QED BY <5>1, SizesOk DEF Shows, Pos
      <4>4. CASE rec[f].kind = "ordinary" /\ rec[f].ext = "none"
        <5>1. View(rec[f], area, blk[f]) = ZeroPage
          BY <4>4, ViewOther
        <5> QED BY <5>1 DEF Shows, ZeroPage, Own
      <4>5. CASE rec[f].kind = "ordinary" /\ rec[f].ext = "data"
        <5>1. View(rec[f], area, blk[f]) = blk[f]
          BY <4>5, ViewOther
        <5> QED BY <3>2, <4>5, <5>1 DEF Shows, OwnPage
      <4> QED BY <3>1, <3>5, <4>1, <4>2, <4>3, <4>4, <4>5
    <3>8. f \notin unsafe' => View(rec[f], disk', blk[f]) = View(rec[f], area, blk[f])
      <4>1. CASE disk' = area
        BY <4>1
      <4>2. CASE disk' = disk /\ unsafe' = {g \in File : Unwritten(g)}
        <5> SUFFICES ASSUME ~Unwritten(f) PROVE View(rec[f], disk, blk[f]) = View(rec[f], area, blk[f])
          BY <4>2
        <5>1. area \in [Units -> Unit] /\ disk \in [Units -> Unit]
          BY <1>1 DEF Types
        <5>2. ASSUME rec[f].kind = "small", rec[f].cell # NoCell, NEW i \in Pos, i < rec[f].len
              PROVE  disk[rec[f].cell * cell_size + i] = area[rec[f].cell * cell_size + i]
          <6>1. i \in Nat /\ rec[f].len \in Nat /\ rec[f].len <= cell_size
            BY <3>1, <3>6, <5>2, SizesOk DEF Pos, Inode
          <6>2. i \in 0 .. cell_size - 1
            BY <5>2, <6>1, SizesOk
          <6> QED BY <5>2, <6>2 DEF Unwritten
        <5> QED BY <3>1, <5>1, <5>2, ViewSame
      <4> QED BY <1>2, <4>1, <4>2
    <3>9. ASSUME f \notin dirty PROVE Untouched(f)'
      <4>1. ino[f] = rec[f] /\ Agree(View(rec[f], area, blk[f]), want[f]) /\ rec[f].size = want[f][1]
        BY <3>2, <3>4, <3>9
      <4> QED BY <1>2, <1>3, <3>2, <3>8, <3>9, <4>1 DEF Untouched
    <3>10. f \notin unsafe' => Shows(f, rec[f], disk', blk[f])
      BY <3>7, <3>8 DEF Shows
    <3> QED BY <3>2, <3>3, <3>6, <3>7, <3>9, <3>10
  <2> QED BY <2>4, <2>5, <2>6
<1> QED BY <1>4, <1>5 DEF ContentInv

(* What the next mount finds of a file that is kept. *)
LEMMA CrashView ==
  ASSUME SmallInv, ContentInv, NEW f \in File, Kept(f), f \notin unsafe,
         NEW v, v = View(com.rec[f], disk, blk[f])
  PROVE  /\ WantOf(f, <<com.rec[f].size, Cut(v, com.rec[f].size)>>)
         /\ Agree(v, <<com.rec[f].size, Cut(v, com.rec[f].size)>>)
         /\ Shows(f, com.rec[f], disk, blk[f])
         /\ com.rec[f].ext = "data" => OwnPage(f, blk[f])
         /\ com.rec[f].ext = "raw" => com.rec[f].size = 0
         /\ f \notin touched => Agree(v, com.want[f])
<1> DEFINE k == com.rec[f]
           s == k.size
           w == Cut(v, s)
<1>1. s \in 0 .. PageSize /\ s \in Nat
  BY SizesOk DEF SmallInv, Types, Inode
<1>2. /\ Shows(f, k, disk, blk[f]) /\ (k.ext = "data" => OwnPage(f, blk[f]))
      /\ f \notin touched => Agree(v, com.want[f])
  BY DEF ContentInv, ComOk, Untouched
<1>3. ASSUME NEW i \in Pos PROVE w[i] \in Own(f) /\ (i >= s => w[i] = Zero) /\ (i < s => w[i] = v[i])
  <2>1. i \in Nat
    BY SizesOk DEF Pos
  <2>2. i < s => v[i] \in Own(f)
    BY <1>2 DEF Shows
  <2>3. w[i] = IF i < s THEN v[i] ELSE Zero
    BY DEF Cut
  <2>4. ~(i < s /\ i >= s)
    BY <1>1, <2>1
  <2> QED BY <2>2, <2>3, <2>4 DEF Own
<1>4. w \in Page
  <2>1. w = [i \in Pos |-> w[i]]
    BY DEF Cut
  <2>2. \A i \in Pos : w[i] \in Unit
    BY <1>3 DEF Own, Unit
  <2> HIDE DEF w
  <2> QED BY <2>1, <2>2 DEF Page
<1>5. ASSUME k.ext = "raw" PROVE s = 0
  <2>1. k.kind = "ordinary"
    BY <1>5 DEF SmallInv, RecInv, HasBlock
  <2>2. View(k, disk, blk[f]) = JunkPage
    BY <1>5, <2>1, ViewOther
  <2>3. 0 \in Pos /\ (0 < s => JunkPage[0] \in Own(f))
    BY <1>2, <2>2, SizesOk DEF Shows, Pos
  <2>4. JunkPage[0] \notin Own(f)
    BY <2>3, SmallConstants DEF JunkPage, Own
  <2> QED BY <1>1, <2>3, <2>4
<1> HIDE DEF w, s
<1>6. WantOf(f, <<s, w>>) /\ Agree(v, <<s, w>>)
  BY <1>1, <1>3, <1>4 DEF WantOf, Agree, OwnPage
<1> QED BY <1>2, <1>5, <1>6 DEF w, s

LEMMA CrashesC ==
  ASSUME SmallInv, ContentInv, Crash
  PROVE  ContentInv'
<1> DEFINE left == {f \in File : com.rec[f].kind # "none"} \ com.orphan
           back == [f \in File |-> IF f \in left THEN com.rec[f] ELSE None]
           lost == {f \in left : \/ f \in unsafe \/ Overlong(com.rec[f])
                                 \/ com.rec[f].kind = "small" /\ com.rec[f].cell \in reused}
<1>1. Types /\ CellInv /\ ComCellInv
  BY DEF SmallInv
<1>2. /\ ino' = back /\ rec' = back /\ orphan' = {} /\ page' = [f \in File |-> NoPage]
      /\ bh' = [f \in File |-> "none"] /\ blk' = blk
      /\ dirty' = {} /\ area' = disk /\ disk' = disk /\ reused' = {} /\ unsafe' = {}
      /\ hurt' = ((hurt \cup com.hurt) \cap left) \cup lost
      /\ com' = [com EXCEPT !.hurt = hurt']
      /\ want' = [f \in File |-> IF f \in touched \/ f \notin left
                                    THEN <<back[f].size, Cut((Read(f, Zero))', back[f].size)>>
                                    ELSE com.want[f]]
      /\ touched' = touched \cup com.orphan
  BY DEF Crash
<1>3. com = [rec |-> com.rec, bits |-> com.bits, orphan |-> com.orphan,
             want |-> com.want, hurt |-> com.hurt]
  BY <1>1 DEF Types
<1>4. com'.rec = com.rec /\ com'.bits = com.bits /\ com'.orphan = com.orphan
      /\ com'.want = com.want /\ com'.hurt = hurt'
  BY <1>2, <1>3
<1>5. \A f \in File : /\ f \in left => back[f] = com.rec[f]
                      /\ f \notin left => back[f] = None
                      /\ f \in left <=> com.rec[f].kind # "none" /\ f \notin com.orphan
  OBVIOUS
<1>6. ASSUME NEW f \in File, f \in left, f \notin hurt' PROVE Kept(f) /\ f \notin unsafe
  <2>1. f \notin hurt /\ f \notin com.hurt /\ f \notin lost
    BY <1>2, <1>6
  <2>2. com.rec[f].kind # "small" => com.rec[f].cell = NoCell
    BY <1>1 DEF CellInv
  <2>3. com.rec[f].cell \notin reused /\ ~Overlong(com.rec[f])
    BY <1>1, <1>6, <2>1, <2>2, SizesOk DEF Types
  <2> QED BY <1>6, <2>1, <2>3 DEF Kept
<1> HIDE DEF left, back, lost
<1>7. OrphanInv' /\ WantInv'
  BY <1>2 DEF OrphanInv, WantInv
<1>8. ASSUME NEW f \in File PROVE KindOk(f)' /\ FileOk(f)' /\ ComOk(f)'
  <2>1. ino'[f] = back[f] /\ rec'[f] = back[f] /\ page'[f] = NoPage /\ bh'[f] = "none"
    BY <1>2
  <2>2. Read(f, Zero)' = View(ino'[f], area', blk'[f])
    BY DEF Read, read_tiny_small_page, Stored, ReadBlock, View
  <2>3. want'[f] = IF f \in touched \/ f \notin left
                     THEN <<back[f].size, Cut(View(back[f], disk, blk[f]), back[f].size)>>
                     ELSE com.want[f]
    BY <1>2, <2>1, <2>2
  <2>4. LenOk(com.rec[f]) /\ LenOk(None)
    BY NoneOk DEF ContentInv, KindOk, LenOk
  <2> DEFINE v == View(com.rec[f], disk, blk[f])
             w == <<com.rec[f].size, Cut(v, com.rec[f].size)>>
  <2>5. ASSUME f \in left, f \notin hurt'
        PROVE  /\ Kept(f) /\ f \notin unsafe /\ back[f] = com.rec[f]
               /\ View(ino'[f], area', blk'[f]) = v
               /\ WantOf(f, w) /\ Agree(v, w) /\ Shows(f, com.rec[f], disk, blk[f])
               /\ com.rec[f].ext = "data" => OwnPage(f, blk[f])
               /\ com.rec[f].ext = "raw" => com.rec[f].size = 0
               /\ f \notin touched => Agree(v, com.want[f])
    <3>1. Kept(f) /\ f \notin unsafe
      BY <1>6, <2>5
    <3>2. back[f] = com.rec[f]
      BY <1>5, <2>5
    <3>3. /\ WantOf(f, w) /\ Agree(v, w) /\ Shows(f, com.rec[f], disk, blk[f])
          /\ com.rec[f].ext = "data" => OwnPage(f, blk[f])
          /\ com.rec[f].ext = "raw" => com.rec[f].size = 0
          /\ f \notin touched => Agree(v, com.want[f])
      BY <3>1, CrashView
    <3> QED BY <1>2, <2>1, <3>1, <3>2, <3>3
  <2>6. w[1] = com.rec[f].size
    OBVIOUS
  <2>7. f \in touched /\ back[f] = com.rec[f] => want'[f] = w
    BY <2>3
  <2> HIDE DEF v, w
  <2>8. Kept(f) =>
          /\ Alone(f)
          /\ com.rec[f].kind = "small" => com.rec[f].len <= cell_size
          /\ OwnData(f, com.rec[f].data)
          /\ f \notin touched => Untouched(f)
    BY DEF ContentInv, ComOk
  <2>9. f \notin left => back[f].kind = "none" /\ back[f] = None
    BY <1>5, NoneOk
  <2>10. KindOk(f)'
    <3>1. LenOk(back[f])
      BY <1>5, <2>4
    <3>2. f \notin hurt' /\ back[f].kind = "small" => back[f].len <= cell_size
      BY <2>5, <2>8, <2>9
    <3>3. f \notin hurt' /\ back[f].ext = "raw" => back[f].size = 0
      BY <2>5, <2>9, NoneOk
    <3> QED BY <1>2, <1>4, <2>1, <2>4, <3>1, <3>2, <3>3 DEF KindOk
  <2>11. FileOk(f)'
    <3> SUFFICES ASSUME f \notin hurt', f \in left PROVE FileOk(f)'
      BY <2>1, <2>9 DEF FileOk
    <3>1. /\ back[f] = com.rec[f] /\ Kept(f) /\ View(ino'[f], area', blk'[f]) = v
          /\ WantOf(f, w) /\ Agree(v, w)
          /\ com.rec[f].ext = "data" => OwnPage(f, blk[f])
          /\ f \notin touched => Agree(v, com.want[f])
      BY <2>5
    <3>2. OwnData(f, com.rec[f].data)
      BY <2>8, <3>1
    <3>3. WantOf(f, want'[f]) /\ want'[f][1] = com.rec[f].size /\ Agree(v, want'[f])
      <4>1. CASE f \in touched
        BY <2>6, <2>7, <3>1, <4>1
      <4>2. CASE f \notin touched
        <5>1. want'[f] = com.want[f] /\ Untouched(f)
          BY <2>3, <2>8, <3>1, <4>2
        <5> QED BY <3>1, <4>2, <5>1 DEF Untouched
      <4> QED BY <4>1, <4>2
    <3> QED BY <1>2, <2>1, <3>1, <3>2, <3>3 DEF FileOk
  <2>12. ComOk(f)'
    <3> SUFFICES ASSUME Kept(f)' PROVE ComOk(f)'
      BY DEF ComOk
    <3>1. f \in left /\ f \notin hurt'
      BY <1>4, <1>5 DEF Kept
    <3>2. /\ back[f] = com.rec[f] /\ Kept(f) /\ View(com.rec[f], disk, blk[f]) = v
          /\ Shows(f, com.rec[f], disk, blk[f])
          /\ com.rec[f].ext = "data" => OwnPage(f, blk[f])
          /\ f \notin touched => Agree(v, com.want[f])
      BY <2>5, <3>1 DEF v
    <3>3. Alone(f)'
      <4> SUFFICES ASSUME NEW g \in File, back[g].cell = com.rec[f].cell, back[g].cell # NoCell
                   PROVE  g = f
        BY <1>2, <1>4 DEF Alone
      <4>1. back[g] = com.rec[g]
        BY <1>5, NoneOk
      <4> QED BY <1>1, <4>1 DEF ComCellInv
    <3>4. ASSUME f \notin touched' PROVE Untouched(f)'
      <4>1. f \notin touched
        BY <1>2, <3>4
      <4>2. Untouched(f)
        BY <2>8, <3>2, <4>1
      <4>3. WantOf(f, com.want[f]) /\ com.rec[f].size = com.want[f][1] /\ Agree(v, com.want[f])
        BY <3>2, <4>1, <4>2 DEF Untouched
      <4> QED BY <1>2, <1>4, <2>1, <3>2, <4>3 DEF Untouched
    <3> QED BY <1>2, <1>4, <2>8, <3>2, <3>3, <3>4 DEF ComOk
  <2> QED BY <2>10, <2>11, <2>12
<1> QED BY <1>7, <1>8 DEF ContentInv

LEMMA ContentInit ==
  ASSUME Init
  PROVE  ContentInv
<1>1. /\ ino = [f \in File |-> None] /\ rec = ino /\ orphan = {}
      /\ page = [f \in File |-> NoPage] /\ bh = [f \in File |-> "none"] /\ dirty = {}
      /\ want = [f \in File |-> <<0, ZeroPage>>] /\ com = Snapshot
  BY DEF Init
<1>2. com.rec = rec
  BY <1>1 DEF Snapshot
<1>3. OrphanInv /\ WantInv
  BY <1>1 DEF OrphanInv, WantInv
<1>4. LenOk(None)
  BY NoneOk DEF LenOk
<1>5. ASSUME NEW f \in File PROVE KindOk(f) /\ FileOk(f) /\ ComOk(f)
  <2>1. ino[f] = None /\ rec[f] = None /\ com.rec[f] = None /\ page[f] = NoPage
        /\ bh[f] = "none"
    BY <1>1, <1>2
  <2> QED BY <1>1, <1>4, <2>1, NoneOk DEF KindOk, FileOk, ComOk, Kept
<1> QED BY <1>3, <1>5 DEF ContentInv

LEMMA ContentNext ==
  ASSUME SmallInv, ContentInv, [Next]_vars
  PROVE  ContentInv'
<1>1. CASE UNCHANGED vars
  BY <1>1, FlushC DEF vars, ghosts
<1>2. ASSUME NEW f \in File, Step(f) PROVE ContentInv'
  <2>1. CASE vdfs2_create(f) \/ vdfs2_unlink(f) \/ vdfs2_kill_orphan_inode(f)
    BY <2>1, CreateC, UnlinkC, KillOrphanC
  <2>2. ASSUME NEW w \in Writes,
               \/ write_tiny_small_file(f, w[1], w[2])
               \/ convert_tiny_file_to_small_file(f, w[1], w[2])
               \/ convert_tiny_file_to_ordinary_file(f, w[1], w[2])
               \/ convert_small_file_to_ordinary_file(f, w[1], w[2])
               \/ GenericWrite(f, w[1], w[2]) \/ GenericWriteFails(f, w[1], w[2])
        PROVE  ContentInv'
    BY <2>2, WritesOk, WriteTinySmallC, TinyToSmallC, TinyToOrdinaryC, SmallToOrdinaryC, GenericC,
          QuietC
  <2>3. CASE vdfs2_read_folio(f) \/ ReadFails(f) \/ DropPage(f)
    BY <2>3, QuietC
  <2>4. CASE \E n \in Sizes : vdfs2_update_inode(f, n)
    BY <2>4, UpdateC
  <2>5. CASE \/ writepage_tiny(f) \/ WritebackFails(f) \/ ReclaimFails(f)
             \/ vdfs2_mpage_writepages(f) \/ WritepageNoSpace(f) \/ vdfs2_writepage(f)
    BY <2>5, WriteTinyC, WriteFailsC, WritePagesC, NoSpaceC
  <2>6. CASE \E sync \in BOOLEAN : write_small_file_page(f, sync)
    BY <2>6, WriteSmallC
  <2>7. CASE write_tiny_small_page(f) \/ vdfs2_read_inode(f)
    BY <2>7, ReclaimTinyC, ReclaimSmallC, ReadInodeC
  <2> QED BY <1>2, <2>1, <2>2, <2>3, <2>4, <2>5, <2>6, <2>7 DEF Step
<1>3. CASE FlushArea
  BY <1>3, FlushC DEF FlushArea
<1>4. CASE sync_filesystem \/ vdfs2_file_fsync
  BY <1>4, CommitC
<1>5. CASE Crash
  BY <1>5, CrashesC
<1> QED BY <1>1, <1>2, <1>3, <1>4, <1>5 DEF Next

(* What a reader gets of a file that no defect hit is what the writes and  *)
(* truncations made of it, through every conversion, writeback, failed     *)
(* write, reclaim, commit, crash and re-read; never a unit of another      *)
(* file, and never memory or a block that nobody wrote.  Of no file is     *)
(* more stored than its size.                                              *)
THEOREM FilesKeepTheirContent == Spec => []ContentExact
<1>1. Init => ContentInv
  BY ContentInit
<1>2. SmallInv /\ ContentInv /\ [Next]_vars => ContentInv'
  BY ContentNext
<1>3. SmallInv /\ ContentInv => ContentExact
  <2> SUFFICES ASSUME SmallInv, ContentInv, NEW f \in File
               PROVE  /\ ino[f].len <= ino[f].size
                      /\ f \notin hurt /\ ino[f].kind # "none" =>
                           /\ ino[f].size = want[f][1]
                           /\ \A i \in 0 .. ino[f].size - 1 :
                                GetPage(f)[i] = want[f][2][i] /\ GetPage(f)[i] \in {f, Zero}
    BY DEF ContentExact
  <2>1. ino[f].len <= ino[f].size
    BY DEF ContentInv, KindOk, LenOk
  <2>2. ASSUME f \notin hurt, ino[f].kind # "none", NEW i \in 0 .. ino[f].size - 1
        PROVE  GetPage(f)[i] = want[f][2][i] /\ GetPage(f)[i] \in {f, Zero}
    <3>1. Agree(GetPage(f), want[f]) /\ WantOf(f, want[f]) /\ ino[f].size = want[f][1]
      BY <2>2, PageIsWanted
    <3>2. i \in Pos /\ i < want[f][1]
      BY <3>1, SizesOk DEF WantOf, Pos
    <3> QED BY <3>1, <3>2 DEF Agree, WantOf, OwnPage, Own
  <2>3. f \notin hurt /\ ino[f].kind # "none" => ino[f].size = want[f][1]
    BY PageIsWanted
  <2> QED BY <2>1, <2>2, <2>3
<1> QED BY <1>1, <1>2, <1>3, SmallAlways, PTL DEF Spec
=============================================================================
