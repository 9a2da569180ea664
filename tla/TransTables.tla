---------------------------- MODULE TransTables ----------------------------
(***************************************************************************)
(* How a translation table reaches the volume and is found again           *)
(* (snapshot.c, super.c, vdfs2_sync_metadata() in data.c).                 *)
(*                                                                         *)
(* The tables area has two slots, one at its start and one at its middle.  *)
(* A slot holds a base table (all of the translation tables) followed by   *)
(* extended tables (what moved since the previous table).  Base tables go  *)
(* to the two slots in turn.  A mount takes the base table with the        *)
(* greatest version <<mount_counter, sync_count>> and applies the extended *)
(* tables whose sync counts follow on.  The area's geometry is in the      *)
(* extended super block, kept twice: the copy is written before the table, *)
(* the first one after it.                                                 *)
(*                                                                         *)
(* The content of the tables is a number that grows with every change; the *)
(* tables area doubles when it grows, so its middle is named by the number *)
(* of doublings (lv), and the sizes of the metadata area by meta.          *)
(***************************************************************************)
EXTENDS Integers, FiniteSets

CONSTANTS
  MaxExt,        \* VDFS2_SNAPSHOT_TABLES_COUNT, VDFS2_SNAPSHOT_EXT_TABLES
  MaxRec,        \* records an extended table has room for
  MetaPerLv,     \* sizes of the metadata area one level of the tables area serves
  MkfsMount, MkfsSync,  \* version of the table and super blocks mkfs writes
  Faults,        \* "table", "super" (no memory for such a write), "nospace" (volume full)
  MaxId,         \* bound: changes of the metadata
  MaxMount,      \* bound: mount_counter
  MaxMeta,       \* bound: size of the metadata area
  MaxLv,         \* bound: size of the tables area
  Bad,           \* a table or super block whose checksum is wrong
  Mixed          \* tables made from an extended table of another base

ASSUME TablesConstants ==
  /\ MaxExt \in Nat \ {0} /\ MaxRec \in Nat /\ MetaPerLv \in Nat \ {0}
  /\ MkfsMount \in Nat \ {0} /\ MkfsSync \in Nat
  /\ MaxId \in Nat /\ MaxMount \in Nat /\ MkfsMount <= MaxMount
  /\ MaxMeta \in Nat \ {0} /\ MaxLv \in Nat \ {0}
  /\ Mixed \notin Int

Slot  == 0 .. MaxLv
Ver   == Nat \X Nat
Table == 0 .. MaxId
Exsb  == [mount : 0 .. MaxMount, meta : 1 .. MaxMeta, lv : 1 .. MaxLv]
Base  == [ver : Ver, id : Table \cup {Mixed}, meta : 1 .. MaxMeta]
Ext   == [ver : Ver, rel : Table \cup {Mixed}, id : Table \cup {Mixed}]

ASSUME BadAssumption == Bad \notin Exsb \cup Base \cup Ext

NoVer == <<0, 0>>

(* Order of VDFS2_SNAPSHOT_VERSION(). *)
Newer(v, w) == v[1] > w[1] \/ (v[1] = w[1] /\ v[2] > w[2])

VARIABLES
  pc,      \* "off", "idle" or the place in vdfs2_sync_metadata()
  exsb,    \* extended super block in memory: mount, meta, lv
  exdirty, \* EXSB_DIRTY
  id,      \* content of the translation tables in memory
  rel,     \* content the records of extended_t are relative to
  recs,    \* records_count of extended_t
  useBase, \* use_base_table
  pend,    \* dirty_pages_count # 0
  sync,    \* sync_count
  extn,    \* exteneded_table_count
  isec,    \* isector: slot, and 0 at its start or n after the base and n-1 more
  tpages,  \* tables_pages_count, as the size of the metadata area it serves
  base, ext, sb,   \* volume: base tables, extended tables, super block and copy
  good,    \* content of the last table written completely
  broken,  \* writes that failed, "table" until a base table is written
  geoCrash \* power was lost while super block and copy had different geometry

memory == <<exsb, exdirty, id, rel, recs, useBase, pend, sync, extn, isec, tpages>>
volume == <<base, ext, sb>>
ghost  == <<good, broken, geoCrash>>
vars   == <<pc, memory, volume, ghost>>

--------------------------------------------------------------------------
(* vdfs2_extended_sb_read(): a corrupted super block is replaced by the    *)
(* other one.                                                              *)
Sb1 == IF sb[1] = Bad THEN sb[2] ELSE sb[1]
Sb2 == IF sb[2] = Bad THEN sb[1] ELSE sb[2]

(* VDFS2_EXSB_VERSION(): sync_counter keeps the value mkfs gave it. *)
ExsbVersion(e) == <<e.mount, MkfsSync>>

(* get_table_version(): 0 for a table that does not validate. *)
TableVersion(s) == IF base[s] = Bad THEN NoVer ELSE base[s].ver

(* load_base_table(): the slots of the first super block, and the second   *)
(* slot of the copy if the metadata area differs.  Only a version greater  *)
(* than both others is taken; no such version is -EINVAL.                  *)
Versions == << TableVersion(0), TableVersion(Sb1.lv),
               IF Sb1.meta # Sb2.meta THEN TableVersion(Sb2.lv) ELSE NoVer >>
SlotOf   == << 0, Sb1.lv, Sb2.lv >>

IsNewest(i) == \A j \in 1 .. 3 : j # i => Newer(Versions[i], Versions[j])

HasNewest == \E i \in 1 .. 3 : IsNewest(i)
Newest    == CHOOSE i \in 1 .. 3 : IsNewest(i)
NewSlot   == SlotOf[Newest]

(* restore_exsb(): which super block the mount goes on with. *)
Restored == IF \/ ExsbVersion(Sb1) = ExsbVersion(Sb2)
               \/ Versions[Newest] = ExsbVersion(Sb1)
              THEN Sb1 ELSE Sb2

(* The chosen table is read again through the restored super block.        *)
Reachable == NewSlot <= Restored.lv

(* Mutant: the sync counts are not compared. *)
FollowsAnySync(s, n) ==
  \A k \in 1 .. n : /\ ext[s][k] # Bad
                    /\ ext[s][k].ver[1] = base[s].ver[1]

(* The loop of vdfs2_build_snapshot_manager(): extended tables with the    *)
(* mount count of the base and sync counts that follow.                    *)
Follows(s, n) ==
  \A k \in 1 .. n : /\ ext[s][k] # Bad
                    /\ ext[s][k].ver = <<base[s].ver[1], base[s].ver[2] + k>>

Chain(s) == CHOOSE n \in 0 .. MaxExt :
              Follows(s, n) /\ (n < MaxExt => ~Follows(s, n + 1))

(* parse_extended_table(): records apply to the content they were made for. *)
Content(s) ==
  LET n == Chain(s)
      before(k) == IF k = 1 THEN base[s].id ELSE ext[s][k - 1].id
  IN  IF n = 0 THEN base[s].id
      ELSE IF \A k \in 1 .. n : ext[s][k].rel = before(k) THEN ext[s][n].id
      ELSE Mixed

Mountable == HasNewest /\ Reachable
Found     == Content(NewSlot)

--------------------------------------------------------------------------
(* mkfs (external): a base table in the first slot, two equal super blocks. *)
MkfsExsb == [mount |-> MkfsMount, meta |-> 1, lv |-> 1]

Init ==
  /\ pc = "off"
  /\ exsb = MkfsExsb /\ exdirty = FALSE
  /\ id = 0 /\ rel = 0 /\ recs = 0 /\ useBase = FALSE /\ pend = FALSE
  /\ sync = 0 /\ extn = 0 /\ isec = <<0, 0>> /\ tpages = 0
  /\ base = [s \in Slot |-> IF s = 0 THEN [ver |-> <<MkfsMount, MkfsSync>>, id |-> 0, meta |-> 1]
                                     ELSE Bad]
  /\ ext = [s \in Slot |-> [k \in 1 .. MaxExt |-> Bad]]
  /\ sb = [i \in 1 .. 2 |-> MkfsExsb]
  /\ good = 0 /\ broken = {} /\ geoCrash = FALSE

(* Mutant: mount_counter is not incremented. *)
MountSameCount ==
  /\ pc = "off" /\ Mountable
  /\ Restored.mount < MaxMount
  /\ pc' = "idle"
  /\ sb' = IF ExsbVersion(Sb1) = ExsbVersion(Sb2) THEN [i \in 1 .. 2 |-> IF i = 1 THEN Sb1 ELSE Sb2]
                                                  ELSE [i \in 1 .. 2 |-> Restored]
  /\ exsb' = Restored /\ exdirty' = TRUE
  /\ id' = Found /\ rel' = Found /\ recs' = 0
  /\ useBase' = FALSE /\ pend' = FALSE /\ sync' = 0
  /\ extn' = Chain(NewSlot) /\ isec' = <<NewSlot, Chain(NewSlot) + 1>>
  /\ tpages' = Restored.meta
  /\ UNCHANGED <<base, ext, ghost>>

(* Mount for writing: the super blocks are repaired, the tables loaded     *)
(* (vdfs2_build_snapshot_manager), mount_counter incremented in memory.    *)
Mount ==
  /\ pc = "off" /\ Mountable
  /\ Restored.mount < MaxMount
  /\ pc' = "idle"
  /\ sb' = IF ExsbVersion(Sb1) = ExsbVersion(Sb2) THEN [i \in 1 .. 2 |-> IF i = 1 THEN Sb1 ELSE Sb2]
                                                  ELSE [i \in 1 .. 2 |-> Restored]
  /\ exsb' = [Restored EXCEPT !.mount = @ + 1] /\ exdirty' = TRUE
  /\ id' = Found /\ rel' = Found /\ recs' = 0
  /\ useBase' = FALSE /\ pend' = FALSE /\ sync' = 0
  /\ extn' = Chain(NewSlot) /\ isec' = <<NewSlot, Chain(NewSlot) + 1>>
  /\ tpages' = Restored.meta
  /\ UNCHANGED <<base, ext, ghost>>

(* A chunk moves: update_extended_table(). *)
Update ==
  /\ pc = "idle" /\ id \in Int /\ id < MaxId
  /\ id' = id + 1 /\ pend' = TRUE
  /\ IF useBase THEN UNCHANGED <<recs, useBase>>
     ELSE IF recs + 1 > MaxRec THEN useBase' = TRUE /\ UNCHANGED recs
     ELSE recs' = recs + 1 /\ UNCHANGED useBase
  /\ UNCHANGED <<pc, exsb, exdirty, rel, sync, extn, isec, tpages, volume, ghost>>

(* The small files area grows (vdfs2_read_or_create_pages), or the volume  *)
(* statistics change (vdfs2_dirty_super).                                  *)
DirtyExsb ==
  /\ pc = "idle" /\ ~exdirty
  /\ exdirty' = TRUE
  /\ UNCHANGED <<pc, exsb, id, rel, recs, useBase, pend, sync, extn, isec, tpages, volume, ghost>>

(* expand_special_file(): the metadata area grows or not; the tables area  *)
(* has to when more table pages are needed than it has room for.           *)
NewMeta(grow) == IF grow THEN exsb.meta + 1 ELSE exsb.meta
MoreTables(m) == m > tpages /\ m > MetaPerLv * exsb.lv

(* An expansion that succeeds. *)
Expand(grow) ==
  LET m  == NewMeta(grow)
      lv == IF MoreTables(m) THEN exsb.lv + 1 ELSE exsb.lv
  IN  /\ pc = "idle" /\ id \in Int /\ id < MaxId
      /\ m <= MaxMeta /\ lv <= MaxLv
      /\ exsb' = [exsb EXCEPT !.meta = m, !.lv = lv]
      /\ exdirty' = (exdirty \/ grow)
      /\ tpages' = IF m > tpages THEN m ELSE tpages
      /\ id' = id + 1 /\ pend' = TRUE /\ useBase' = TRUE
      /\ UNCHANGED <<pc, rel, recs, sync, extn, isec, volume, ghost>>

(* -ENOSPC from the second expand_area(), after the first one succeeded. *)
ExpandNoSpace ==
  LET m == NewMeta(TRUE)
  IN  /\ pc = "idle" /\ "nospace" \in Faults
      /\ m <= MaxMeta /\ MoreTables(m)
      /\ exsb' = [exsb EXCEPT !.meta = m] /\ exdirty' = TRUE
      /\ broken' = broken \cup {"nospace"}
      /\ UNCHANGED <<pc, id, rel, recs, useBase, pend, sync, extn, isec, tpages, volume, good, geoCrash>>

--------------------------------------------------------------------------
(* vdfs2_sync_metadata(). *)
CommitStart ==
  /\ pc = "idle" /\ pend
  /\ pc' = IF exdirty THEN "sb2" ELSE "meta"
  /\ UNCHANGED <<memory, volume, ghost>>

(* vdfs2_sync_second_super(): the copy is invalid while it is written. *)
Sb2Begin ==
  /\ pc = "sb2" /\ pc' = "sb2 written"
  /\ sb' = [sb EXCEPT ![2] = Bad]
  /\ UNCHANGED <<memory, base, ext, ghost>>

Sb2End ==
  /\ pc = "sb2 written" /\ pc' = "meta"
  /\ sb' = [sb EXCEPT ![2] = exsb] /\ useBase' = TRUE
  /\ UNCHANGED <<exsb, exdirty, id, rel, recs, pend, sync, extn, isec, tpages, base, ext, ghost>>

Sb2Fails ==
  /\ pc = "sb2" /\ "super" \in Faults
  /\ pc' = "idle"
  /\ useBase' = TRUE
  /\ broken' = broken \cup {"super"}
  /\ UNCHANGED <<exsb, exdirty, id, rel, recs, pend, sync, extn, isec, tpages, volume, good, geoCrash>>

(* vdfs2_meta_write() or fsm_get_tree() fails. *)
MetaAbort ==
  /\ pc = "meta" /\ pc' = "idle"
  /\ UNCHANGED <<memory, volume, ghost>>

(* Mutant: one extended table more than VDFS2_SNAPSHOT_TABLES_COUNT. *)
WritesBaseLate == extn > MaxExt \/ useBase

(* vdfs2_update_translation_tables(): which table, and where. *)
WritesBase == extn >= MaxExt \/ useBase

(* Mutant: the comparison is the wrong way round. *)
NextSlotSame == IF isec[1] > exsb.lv \/ (isec[1] = exsb.lv /\ isec[2] > 0) THEN exsb.lv ELSE 0

(* isector > table_sectors_count / 2 ? 0 : table_sectors_count / 2 *)
NextSlot == IF isec[1] > exsb.lv \/ (isec[1] = exsb.lv /\ isec[2] > 0) THEN 0 ELSE exsb.lv

ChooseBase == useBase' = FALSE /\ extn' = 0 /\ isec' = <<NextSlot, 0>>
ChooseExt  == extn' = extn + 1 /\ UNCHANGED <<useBase, isec>>

(* vdfs2_table_IO() has begun: what it overwrites is gone. *)
BaseBegin ==
  /\ pc = "meta" /\ WritesBase
  /\ pc' = "base"
  /\ ChooseBase
  /\ base' = [base EXCEPT ![NextSlot] = Bad]
  /\ UNCHANGED <<exsb, exdirty, id, rel, recs, pend, sync, tpages, ext, sb, ghost>>

ExtBegin ==
  /\ pc = "meta" /\ ~WritesBase
  /\ pc' = "ext"
  /\ ChooseExt
  /\ IF isec[2] = 0
       THEN base' = [base EXCEPT ![isec[1]] = Bad] /\ UNCHANGED ext
       ELSE ext' = [ext EXCEPT ![isec[1]][isec[2]] = Bad] /\ UNCHANGED base
  /\ UNCHANGED <<exsb, exdirty, id, rel, recs, pend, sync, tpages, sb, ghost>>

(* Mutant: sync_count is not advanced. *)
AfterTableSameSync == sync' = sync /\ pend' = FALSE /\ recs' = 0 /\ rel' = id

(* What vdfs2_update_translation_tables() does after the write, whatever   *)
(* its result.                                                             *)
AfterTable == sync' = sync + 1 /\ pend' = FALSE /\ recs' = 0 /\ rel' = id

BaseEnd ==
  /\ pc = "base"
  /\ pc' = IF exdirty THEN "sb1" ELSE "idle"
  /\ base' = [base EXCEPT ![isec[1]] = [ver |-> <<exsb.mount, sync>>, id |-> id, meta |-> exsb.meta]]
  /\ isec' = <<isec[1], 1>>
  /\ AfterTable
  /\ good' = id /\ broken' = broken \ {"table"}
  /\ UNCHANGED <<exsb, exdirty, id, useBase, extn, tpages, ext, sb, geoCrash>>

ExtEnd ==
  /\ pc = "ext"
  /\ pc' = IF exdirty THEN "sb1" ELSE "idle"
  /\ IF isec[2] = 0 THEN UNCHANGED ext
     ELSE ext' = [ext EXCEPT ![isec[1]][isec[2]] =
                    [ver |-> <<exsb.mount, sync>>, rel |-> rel, id |-> id]]
  /\ isec' = <<isec[1], isec[2] + 1>>
  /\ AfterTable
  /\ good' = id
  /\ UNCHANGED <<exsb, exdirty, id, useBase, extn, tpages, base, sb, broken, geoCrash>>

(* vdfs2_table_IO() gets no memory, at once or after part of the table is  *)
(* written: the position stays at the start of the slot or of the extended *)
(* table.                                                                  *)
TableRefused ==
  /\ pc = "meta" /\ "table" \in Faults
  /\ pc' = "idle"
  /\ IF WritesBase THEN ChooseBase ELSE ChooseExt
  /\ AfterTable
  /\ broken' = broken \cup {"table"}
  /\ UNCHANGED <<exsb, exdirty, id, tpages, volume, good, geoCrash>>

TableFails ==
  /\ pc \in {"base", "ext"} /\ "table" \in Faults
  /\ pc' = "idle"
  /\ AfterTable
  /\ broken' = broken \cup {"table"}
  /\ UNCHANGED <<exsb, exdirty, id, useBase, extn, isec, tpages, volume, good, geoCrash>>

(* vdfs2_sync_first_super(). *)
Sb1Begin ==
  /\ pc = "sb1" /\ pc' = "sb1 written"
  /\ sb' = [sb EXCEPT ![1] = Bad]
  /\ UNCHANGED <<memory, base, ext, ghost>>

Sb1End ==
  /\ pc = "sb1 written" /\ pc' = "idle"
  /\ sb' = [sb EXCEPT ![1] = exsb] /\ exdirty' = FALSE
  /\ UNCHANGED <<exsb, id, rel, recs, useBase, pend, sync, extn, isec, tpages, base, ext, ghost>>

Sb1Fails ==
  /\ pc = "sb1" /\ "super" \in Faults
  /\ pc' = "idle"
  /\ broken' = broken \cup {"super"}
  /\ UNCHANGED <<memory, volume, good, geoCrash>>

--------------------------------------------------------------------------
SameGeometry == Sb1.meta = Sb2.meta /\ Sb1.lv = Sb2.lv

(* Power failure at any moment, or unmount. *)
PowerOff ==
  /\ pc # "off" /\ pc' = "off"
  /\ geoCrash' = (geoCrash \/ ~SameGeometry)
  /\ exsb' = MkfsExsb /\ exdirty' = FALSE
  /\ id' = 0 /\ rel' = 0 /\ recs' = 0 /\ useBase' = FALSE /\ pend' = FALSE
  /\ sync' = 0 /\ extn' = 0 /\ isec' = <<0, 0>> /\ tpages' = 0
  /\ UNCHANGED <<volume, good, broken>>

Next ==
  \/ Mount \/ Update \/ DirtyExsb
  \/ \E grow \in BOOLEAN : Expand(grow)
  \/ ExpandNoSpace
  \/ CommitStart
  \/ Sb2Begin \/ Sb2End \/ Sb2Fails
  \/ MetaAbort
  \/ BaseBegin \/ ExtBegin \/ BaseEnd \/ ExtEnd \/ TableRefused \/ TableFails
  \/ Sb1Begin \/ Sb1End \/ Sb1Fails
  \/ PowerOff

Spec == Init /\ [][Next]_vars

--------------------------------------------------------------------------
(* Every variable keeps its type; the position of the next table stays in  *)
(* its slot, behind at most MaxExt extended tables.                        *)
TypeOK ==
  /\ pc \in {"off", "idle", "sb2", "sb2 written", "meta", "base", "ext", "sb1", "sb1 written"}
  /\ exsb \in Exsb /\ exdirty \in BOOLEAN
  /\ {id, rel, good} \subseteq Table \cup {Mixed}
  /\ recs \in 0 .. MaxRec /\ useBase \in BOOLEAN /\ pend \in BOOLEAN
  /\ sync \in Nat /\ extn \in 0 .. MaxExt
  /\ isec \in Slot \X (0 .. (MaxExt + 1)) /\ tpages \in 0 .. MaxMeta
  /\ base \in [Slot -> Base \cup {Bad}]
  /\ ext \in [Slot -> [1 .. MaxExt -> Ext \cup {Bad}]]
  /\ sb \in [1 .. 2 -> Exsb \cup {Bad}]
  /\ broken \subseteq Faults /\ geoCrash \in BOOLEAN

(* A mount at this moment would find the tables of the last commit that    *)
(* was written completely, with the metadata area that belongs to them.    *)
RecoveryExact ==
  Mountable /\ Found = good /\ Restored.meta = base[NewSlot].meta

(* With growing areas and failing writes: so it is whenever the super      *)
(* block and its copy agree, if they agreed at every power failure before, *)
(* no super block write failed, no growth was refused, and a base table    *)
(* was written since the last failing table write.  And whatever failed    *)
(* before, the records of an extended table are never applied to tables    *)
(* other than those they were made for: the sync count of a lost table is  *)
(* not used again.                                                         *)
RecoveryUnlessBroken ==
  /\ broken # {} \/ geoCrash \/ ~SameGeometry \/ RecoveryExact
  /\ Mountable => Found # Mixed

(* A table that is written is newer than every table on the volume, so     *)
(* that the comparison in load_base_table() chooses it.                    *)
VersionsGrow ==
  [][BaseEnd => \A s \in Slot \ {isec[1]} :
                  base[s] # Bad => Newer(base'[isec[1]].ver, base[s].ver)]_vars

(* Tables reach the volume as a whole: to the rest of the driver a commit  *)
(* of any number of sectors is the one step MetaCow takes it for.          *)
Abs == INSTANCE AtomicMeta WITH
         Chunk <- {"tables"}, Val <- Table, NoVal <- 0, up <- pc # "off",
         durable <- [c \in {"tables"} |-> Found],
         mem <- [c \in {"tables"} |-> IF pc = "off" THEN Found ELSE id]

Atomic == Abs!Spec
=============================================================================
