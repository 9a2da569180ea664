---------------------------- MODULE FreeSpace ----------------------------
(***************************************************************************)
(* Free space and delayed allocation (fsm.c, inode.c, file.c, orphan.c,    *)
(* super.c).                                                               *)
(*                                                                         *)
(* The space bitmap bits is metadata and is committed with the rest.  The  *)
(* tree of free extents, here the set of its blocks, and free_blocks_count *)
(* live in memory only.  A write reserves: it lowers the count and notes a *)
(* runtime extent in the inode (res).  Writeback turns reservations into   *)
(* blocks without looking at the count.  A freed block leaves the bitmap   *)
(* at once but is back in the tree only when a commit rebuilds tree and    *)
(* count from the bitmap, so that it is not overwritten while the          *)
(* committed snapshot still refers to it.  vdfs2_sync_fs() writes back the *)
(* inodes of the dirty list before it commits, because the rebuilt count   *)
(* knows of no reservation.                                                *)
(*                                                                         *)
(* A transaction holds transaction_lock for reading and a commit holds it  *)
(* for writing: both are single steps here.  What eviction does to the     *)
(* counter happens in no transaction and has steps of its own.  Positions  *)
(* of blocks, and therefore extents, are left out.  Block 0 and the last   *)
(* block of the volume are never free.                                     *)
(***************************************************************************)
EXTENDS Integers, FiniteSets, Functions

CONSTANTS
  Block,       \* blocks of the volume that mkfs leaves free
  File,        \* inode numbers
  Task,        \* tasks that may be in vdfs2_sync_fs() at the same time
  Idle, Scan,  \* what such a task does when it holds no inode
  ExpandStep,  \* blocks of one growth of the metadata area
  MaxMeta,     \* bound: blocks by which the metadata area may grow
  MaxRes,      \* bound: reserved blocks of a file
  Faults       \* failures for lack of memory: "insert", "rebuild", "table"

ASSUME SpaceConstants ==
  /\ IsFiniteSet(Block) /\ IsFiniteSet(File)
  /\ Idle # Scan /\ Idle \notin File /\ Scan \notin File
  /\ ExpandStep \in Nat \ {0} /\ MaxMeta \in Nat /\ MaxRes \in Nat
  /\ Faults \subseteq {"insert", "rebuild", "table"}

VARIABLES
  up,        \* "off", "mounting" (orphans are being removed), "on"
  bits,      \* space bitmap: blocks in use
  tree,      \* blocks in the tree of free extents
  count,     \* free_blocks_count
  nextFree,  \* next_free_blocks
  meta,      \* blocks added to the metadata area
  phase,     \* life of an inode, see Phase
  own,       \* blocks in the forks and extents of the inode in memory
  rec,       \* blocks in its catalog record and in the extents tree
  res,       \* blocks in its runtime extents
  list,      \* inodes of dirty_list_head
  sync,      \* what each task in vdfs2_sync_fs() does
  pend,      \* dirty_pages_count # 0
  com,       \* volume: the committed snapshot
  quiet,     \* ghost: inodes with a reservation that no write listed
  failed     \* ghost: failures not made good yet, see the properties

space == <<bits, tree, count, nextFree, meta>>
inode == <<phase, own, rec, res, list>>
vars  == <<up, space, inode, sync, pend, com, quiet, failed>>

(* none      no such inode                                                 *)
(* linked    has a name                                                    *)
(* open      unlinked, record in the orphan directory, still in use        *)
(* evicting  vdfs2_evict_inode() took it off the dirty list                *)
(* evicted   its reservations were given back                              *)
(* dead      orphan found by a mount                                       *)
Phase == {"none", "linked", "open", "evicting", "evicted", "dead"}

Live(f) == phase[f] \in {"linked", "open"}

Reserved == SumFunction(res)
Free     == Block \ bits

Snapshot == [bits |-> bits, meta |-> meta, rec |-> rec,
             phase |-> [f \in File |-> IF phase[f] \in {"none", "linked"}
                                         THEN phase[f] ELSE "dead"]]

Init ==
  /\ up = "off" /\ bits = {} /\ tree = {} /\ count = 0 /\ nextFree = 0 /\ meta = {}
  /\ phase = [f \in File |-> "none"] /\ own = [f \in File |-> {}]
  /\ rec = own /\ res = [f \in File |-> 0] /\ list = {}
  /\ sync = [t \in Task |-> Idle] /\ pend = FALSE
  /\ com = Snapshot /\ quiet = {} /\ failed = {}

--------------------------------------------------------------------------
(* Mount: bitmap and records as committed, vdfs2_fsm_build_management().   *)
Mount ==
  /\ up = "off"
  /\ up' = "mounting"
  /\ bits' = com.bits /\ meta' = com.meta
  /\ tree' = Block \ com.bits /\ count' = Cardinality(Block \ com.bits) /\ nextFree' = 0
  /\ phase' = com.phase /\ own' = com.rec /\ rec' = com.rec
  /\ UNCHANGED <<res, list, sync, pend, com, quiet, failed>>

MountEnd ==
  /\ up = "mounting" /\ \A f \in File : phase[f] # "dead"
  /\ up' = "on"
  /\ UNCHANGED <<space, inode, sync, pend, com, quiet, failed>>

(* Power failure, or unmount without a last commit. *)
PowerOff ==
  /\ up # "off"
  /\ up' = "off"
  /\ bits' = {} /\ tree' = {} /\ count' = 0 /\ nextFree' = 0 /\ meta' = {}
  /\ phase' = [f \in File |-> "none"] /\ own' = [f \in File |-> {}]
  /\ rec' = own' /\ res' = [f \in File |-> 0] /\ list' = {}
  /\ sync' = [t \in Task |-> Idle] /\ pend' = FALSE
  /\ quiet' = {} /\ failed' = failed \cap {"insert"}
  /\ UNCHANGED com

--------------------------------------------------------------------------
Create(f) ==
  /\ up = "on" /\ phase[f] = "none"
  /\ phase' = [phase EXCEPT ![f] = "linked"]
  /\ list' = list \cup {f}
  /\ pend' = TRUE
  /\ UNCHANGED <<up, space, own, rec, res, sync, com, quiet, failed>>

(* vdfs2_write_end(): only a write that changes i_size writes the inode to *)
(* its record, which lists it.  (A write_begin that fails after it         *)
(* reserved a block ends like a write inside i_size.)  Sizes are not kept: *)
(* a file without blocks may have been extended by setattr, see Truncate.  *)
ListAfterWrite(f, grows) ==
  /\ list' = IF grows THEN list \cup {f} ELSE list
  /\ pend' = (pend \/ grows)
  /\ quiet' = IF grows THEN quiet \ {f} ELSE quiet \cup ({f} \ list)

(* Mutant: a full volume is not noticed. *)
WriteUnchecked(f, grows) ==
  /\ up = "on" /\ Live(f) /\ res[f] < MaxRes
  /\ count' = count - 1
  /\ res' = [res EXCEPT ![f] = @ + 1]
  /\ ListAfterWrite(f, grows)
  /\ UNCHANGED <<up, bits, tree, nextFree, meta, phase, own, rec, sync, com, failed>>

(* Write to a block without an extent: vdfs2_get_block_prep_da() reserves. *)
Write(f, grows) ==
  /\ up = "on" /\ Live(f) /\ res[f] < MaxRes
  /\ count # 0
  /\ count' = count - 1
  /\ res' = [res EXCEPT ![f] = @ + 1]
  /\ ListAfterWrite(f, grows)
  /\ UNCHANGED <<up, bits, tree, nextFree, meta, phase, own, rec, sync, com, failed>>

(* vdfs2_fsm_get_free_block() without delayed allocation, and with it. *)
TakeCounted(s) ==
  /\ s \subseteq tree /\ Cardinality(s) <= count
  /\ tree' = tree \ s /\ bits' = bits \cup s
  /\ count' = count - Cardinality(s)
  /\ UNCHANGED nextFree

TakeReserved(s) ==
  /\ s \subseteq tree
  /\ tree' = tree \ s /\ bits' = bits \cup s
  /\ UNCHANGED <<count, nextFree>>

(* vdfs2_write_inode_to_bnode(): lists the inode and fills its record. *)
WriteInode(f) ==
  /\ rec' = [rec EXCEPT ![f] = own'[f]]
  /\ list' = list \cup {f}
  /\ quiet' = quiet \ {f}
  /\ pend' = TRUE

(* vdfs2_allocate_space(): every reserved block gets a place. *)
AllocateSpace(f, s) ==
  /\ up = "on" /\ Live(f) /\ res[f] # 0
  /\ Cardinality(s) = res[f] /\ TakeReserved(s)
  /\ own' = [own EXCEPT ![f] = @ \cup s]
  /\ res' = [res EXCEPT ![f] = 0]
  /\ WriteInode(f)
  /\ UNCHANGED <<up, meta, phase, com, failed>>

(* Writeback by the kernel's flusher. *)
Flush(f, s) == AllocateSpace(f, s) /\ UNCHANGED sync

(* insert_extent() fails in vdfs2_allocate_space() after the blocks done   *)
(* got their extents: blocks s go back to the bitmap but not to the tree,  *)
(* the reservation stays and the record is not written.                    *)
AllocateFails(f, done, s) ==
  /\ up = "on" /\ Live(f) /\ "insert" \in Faults
  /\ done \cup s \subseteq tree /\ done \cap s = {} /\ s # {}
  /\ Cardinality(done) + Cardinality(s) <= res[f]
  /\ tree' = tree \ (done \cup s) /\ bits' = bits \cup done
  /\ nextFree' = nextFree + Cardinality(s)
  /\ own' = [own EXCEPT ![f] = @ \cup done]
  /\ res' = [res EXCEPT ![f] = @ - Cardinality(done)]
  /\ pend' = TRUE /\ failed' = failed \cup {"insert"}
  /\ UNCHANGED <<up, count, meta, phase, rec, list, sync, com, quiet>>

(* vdfs2_get_int_block() for a block that vdfs2_allocate_space() left      *)
(* reserved, and its failure: the reservation is gone as well.             *)
AllocateOne(f, b) ==
  /\ up = "on" /\ Live(f) /\ res[f] # 0 /\ "insert" \in failed
  /\ TakeReserved({b})
  /\ own' = [own EXCEPT ![f] = @ \cup {b}]
  /\ res' = [res EXCEPT ![f] = @ - 1]
  /\ WriteInode(f)
  /\ UNCHANGED <<up, meta, phase, sync, com, failed>>

AllocateOneFails(f, b) ==
  /\ up = "on" /\ Live(f) /\ res[f] # 0 /\ "insert" \in failed
  /\ b \in tree /\ tree' = tree \ {b} /\ nextFree' = nextFree + 1
  /\ res' = [res EXCEPT ![f] = @ - 1]
  /\ pend' = TRUE
  /\ UNCHANGED <<up, bits, count, meta, phase, own, rec, list, sync, com, quiet, failed>>

(* vdfs2_get_block(): a page that was mapped, or direct I/O, gets its      *)
(* block without a reservation.                                            *)
AllocateNow(f, b) ==
  /\ up = "on" /\ Live(f)
  /\ TakeCounted({b})
  /\ own' = [own EXCEPT ![f] = @ \cup {b}]
  /\ WriteInode(f)
  /\ UNCHANGED <<up, meta, phase, res, sync, com, failed>>

(* Mutants: the blocks are not counted; they are in the tree at once.      *)
PutFreeUncounted(s) ==
  /\ bits' = bits \ s
  /\ UNCHANGED <<tree, nextFree>>

PutFreeToTree(s) ==
  /\ bits' = bits \ s
  /\ tree' = tree \cup s
  /\ UNCHANGED nextFree

(* fsm_free_block_chunk() *)
PutFree(s) ==
  /\ bits' = bits \ s
  /\ nextFree' = nextFree + Cardinality(s)
  /\ UNCHANGED tree

(* vdfs2_setattr(): n reserved and the allocated blocks s are cut off. *)
Truncate(f, n, s) ==
  /\ up = "on" /\ Live(f)
  /\ n <= res[f] /\ s \subseteq own[f]
  /\ res' = [res EXCEPT ![f] = @ - n] /\ count' = count + n
  /\ own' = [own EXCEPT ![f] = @ \ s]
  /\ PutFree(s)
  /\ WriteInode(f)
  /\ UNCHANGED <<up, meta, phase, sync, com, failed>>

(* vdfs2_unlink() of the last name: the record moves to the orphans. *)
Unlink(f) ==
  /\ up = "on" /\ phase[f] = "linked"
  /\ phase' = [phase EXCEPT ![f] = "open"]
  /\ rec' = [rec EXCEPT ![f] = own[f]]
  /\ pend' = TRUE
  /\ UNCHANGED <<up, space, own, res, list, sync, com, quiet, failed>>

--------------------------------------------------------------------------
(* The last user of an inode is gone: nobody writes to it and no sync      *)
(* holds it.                                                               *)
Unused(f) == \A t \in Task : sync[t] # f

(* A linked inode without dirty pages leaves memory and is read again. *)
EvictClean(f) ==
  /\ up = "on" /\ phase[f] = "linked" /\ res[f] = 0 /\ Unused(f)
  /\ list' = list \ {f}
  /\ own' = [own EXCEPT ![f] = rec[f]]
  /\ UNCHANGED <<up, space, phase, rec, res, sync, pend, com, quiet, failed>>

(* vdfs2_evict_inode() of an unlinked inode, in three steps: off the list, *)
(* reservations back to the count, vdfs2_kill_orphan_inode().              *)
EvictUnlist(f) ==
  /\ up = "on" /\ phase[f] = "open" /\ Unused(f)
  /\ phase' = [phase EXCEPT ![f] = "evicting"]
  /\ list' = list \ {f}
  /\ UNCHANGED <<up, space, own, rec, res, sync, pend, com, quiet, failed>>

(* Mutant: the reservations are dropped without a refund. *)
EvictUnreserveLost(f) ==
  /\ up = "on" /\ phase[f] = "evicting"
  /\ phase' = [phase EXCEPT ![f] = "evicted"]
  /\ res' = [res EXCEPT ![f] = 0]
  /\ quiet' = quiet \ {f}
  /\ UNCHANGED <<up, space, own, rec, list, sync, pend, com, failed>>

EvictUnreserve(f) ==
  /\ up = "on" /\ phase[f] = "evicting"
  /\ phase' = [phase EXCEPT ![f] = "evicted"]
  /\ count' = count + res[f]
  /\ res' = [res EXCEPT ![f] = 0]
  /\ quiet' = quiet \ {f}
  /\ UNCHANGED <<up, bits, tree, nextFree, meta, own, rec, list, sync, pend, com, failed>>

(* Mutant: the orphan's blocks are not given back. *)
KillOrphanKeepBits(f) ==
  /\ \/ up = "on" /\ phase[f] = "evicted"
     \/ up = "mounting" /\ phase[f] = "dead"
  /\ phase' = [phase EXCEPT ![f] = "none"]
  /\ own' = [own EXCEPT ![f] = {}]
  /\ rec' = [rec EXCEPT ![f] = {}]
  /\ pend' = TRUE
  /\ UNCHANGED <<up, space, res, list, sync, com, quiet, failed>>

KillOrphan(f) ==
  /\ \/ up = "on" /\ phase[f] = "evicted"
     \/ up = "mounting" /\ phase[f] = "dead"
  /\ phase' = [phase EXCEPT ![f] = "none"]
  /\ PutFree(own[f])
  /\ own' = [own EXCEPT ![f] = {}]
  /\ rec' = [rec EXCEPT ![f] = {}]
  /\ pend' = TRUE
  /\ UNCHANGED <<up, count, meta, res, list, sync, com, quiet, failed>>

(* expand_area(): the metadata area grows in the transaction of whoever    *)
(* needed a chunk.                                                         *)
ExpandArea(s) ==
  /\ up = "on"
  /\ Cardinality(s) = ExpandStep /\ Cardinality(meta) + ExpandStep <= MaxMeta
  /\ TakeCounted(s)
  /\ meta' = meta \cup s
  /\ pend' = TRUE
  /\ UNCHANGED <<up, inode, sync, com, quiet, failed>>

--------------------------------------------------------------------------
(* vdfs2_sync_fs(), for sync, fsync and the delayed commit.                *)
SyncStart(t) ==
  /\ up = "on" /\ sync[t] = Idle
  /\ sync' = [sync EXCEPT ![t] = Scan]
  /\ UNCHANGED <<up, space, inode, pend, com, quiet, failed>>

SyncPop(t, f) ==
  /\ sync[t] = Scan /\ f \in list
  /\ list' = list \ {f}
  /\ sync' = [sync EXCEPT ![t] = f]
  /\ UNCHANGED <<up, space, phase, own, rec, res, pend, com, quiet, failed>>

(* filemap_write_and_wait() *)
SyncWrite(t, f, s) ==
  /\ sync[t] = f
  /\ sync' = [sync EXCEPT ![t] = Scan]
  /\ AllocateSpace(f, s)

SyncWriteNothing(t) ==
  /\ sync[t] \in File
  /\ res[sync[t]] = 0 \/ "insert" \in failed
  /\ sync' = [sync EXCEPT ![t] = Scan]
  /\ UNCHANGED <<up, space, inode, pend, com, quiet, failed>>

(* An error, or dirty_pages_count is 0. *)
SyncEnd(t) ==
  /\ sync[t] = Scan
  /\ sync' = [sync EXCEPT ![t] = Idle]
  /\ UNCHANGED <<up, space, inode, pend, com, quiet, failed>>

(* Mutant: the dirty list is not looked at again under the lock. *)
MayCommitListed(t) == sync[t] = Scan /\ pend

MayCommit(t) == sync[t] = Scan /\ list = {} /\ pend

(* The part of vdfs2_sync_metadata() that builds the tree again. *)
Rebuild ==
  /\ tree' = Free /\ count' = Cardinality(Free) /\ nextFree' = 0
  /\ UNCHANGED <<bits, meta>>

(* Ghost: the commit found reservations. *)
Booked == IF Reserved = 0 THEN {} ELSE {"booked"}

Commit(t) ==
  /\ MayCommit(t)
  /\ Rebuild
  /\ com' = Snapshot
  /\ pend' = FALSE
  /\ failed' = (failed \cap {"insert"}) \cup Booked
  /\ sync' = [sync EXCEPT ![t] = Idle]
  /\ UNCHANGED <<up, inode, quiet>>

(* The translation table is not written: dirty_pages_count is cleared all  *)
(* the same.                                                               *)
CommitTableFails(t) ==
  /\ MayCommit(t) /\ "table" \in Faults
  /\ Rebuild
  /\ pend' = FALSE
  /\ failed' = (failed \cap {"insert"}) \cup Booked \cup {"table"}
  /\ sync' = [sync EXCEPT ![t] = Idle]
  /\ UNCHANGED <<up, inode, com, quiet>>

(* fsm_get_tree() gets no memory in the middle. *)
CommitRebuildFails(t, s) ==
  /\ MayCommit(t) /\ "rebuild" \in Faults
  /\ s \subseteq Free /\ s # Free
  /\ tree' = s /\ count' = Cardinality(s) /\ nextFree' = 0
  /\ failed' = (failed \cap {"insert", "table"}) \cup Booked \cup {"rebuild"}
  /\ sync' = [sync EXCEPT ![t] = Idle]
  /\ UNCHANGED <<up, bits, meta, inode, pend, com, quiet>>

Next ==
  \/ Mount \/ MountEnd \/ PowerOff
  \/ \E f \in File :
       \/ Create(f) \/ Unlink(f)
       \/ \E grows \in BOOLEAN : Write(f, grows)
       \/ \E s \in SUBSET tree : Flush(f, s)
       \/ \E done, s \in SUBSET tree : AllocateFails(f, done, s)
       \/ \E b \in tree : AllocateOne(f, b) \/ AllocateOneFails(f, b) \/ AllocateNow(f, b)
       \/ \E n \in 0 .. MaxRes, s \in SUBSET own[f] : Truncate(f, n, s)
       \/ EvictClean(f) \/ EvictUnlist(f) \/ EvictUnreserve(f) \/ KillOrphan(f)
  \/ \E s \in SUBSET tree : ExpandArea(s)
  \/ \E t \in Task :
       \/ SyncStart(t) \/ SyncWriteNothing(t) \/ SyncEnd(t)
       \/ \E f \in File : SyncPop(t, f)
       \/ \E f \in File, s \in SUBSET tree : SyncWrite(t, f, s)
       \/ Commit(t) \/ CommitTableFails(t)
       \/ \E s \in SUBSET Free : CommitRebuildFails(t, s)

Spec == Init /\ [][Next]_vars

--------------------------------------------------------------------------
(* Every variable keeps its type: no counter becomes negative and the tree *)
(* holds free blocks of the volume only.                                   *)
TypeOK ==
  /\ up \in {"off", "mounting", "on"}
  /\ bits \subseteq Block /\ meta \subseteq Block /\ tree \subseteq Free
  /\ count \in Nat /\ nextFree \in Nat
  /\ phase \in [File -> Phase]
  /\ own \in [File -> SUBSET Block] /\ rec \in [File -> SUBSET Block]
  /\ res \in [File -> 0 .. MaxRes]
  /\ list \subseteq File /\ quiet \subseteq File
  /\ sync \in [Task -> File \cup {Idle, Scan}]
  /\ pend \in BOOLEAN
  /\ com \in [bits : SUBSET Block, meta : SUBSET Block, rec : [File -> SUBSET Block],
              phase : [File -> {"none", "linked", "dead"}]]
  /\ failed \subseteq {"insert", "rebuild", "table", "booked"}

(* Reservations are backed: what the counter calls free and what files     *)
(* reserved is together what the tree holds, through writes, writeback,    *)
(* truncation, eviction and growth of the metadata.  The exceptions are    *)
(* named by failed: a commit that found reservations ("booked"), a failed  *)
(* insert_extent() and a half built tree.                                  *)
ReservationsBacked ==
  failed \cap {"booked", "insert", "rebuild"} = {}
    => count + Reserved = Cardinality(tree)

(* What a commit may overlook: vdfs2_sync_fs() empties the dirty list, and *)
(* looks again under the lock, so that a commit finds no reservations.  An *)
(* inode that has one all the same is being evicted, or another            *)
(* vdfs2_sync_fs() took it off the list and did not write it yet, or it    *)
(* was written inside its i_size, or its allocation failed.                *)
CommitSeesNoReservation ==
  [][(pend /\ ~pend' /\ up' # "off" /\ "insert" \notin failed)
       => \A f \in File : res[f] # 0 =>
            f \in quiet \/ phase[f] = "evicting" \/ ~Unused(f)]_vars

(* next_free_blocks counts exactly the blocks that are free in the bitmap  *)
(* and wait for a commit to be in the tree, so that                        *)
(* vdfs2_file_write_iter() retries whenever a commit would help.           *)
NextFreeExact ==
  "rebuild" \notin failed /\ up # "off"
    => nextFree = Cardinality(Free) - Cardinality(tree)

(* A block has one owner, and the bitmap holds exactly the blocks that     *)
(* files and metadata own, in memory and in the committed snapshot: after  *)
(* a power failure no block is shared and none is lost, orphans included.  *)
Exact(bm, mt, ow) ==
  /\ bm = mt \cup UNION {ow[f] : f \in File}
  /\ \A f, g \in File : f # g => ow[f] \cap ow[g] = {}
  /\ \A f \in File : ow[f] \cap mt = {}

BitmapExact ==
  "insert" \notin failed => Exact(bits, meta, own) /\ Exact(com.bits, com.meta, com.rec)

(* Blocks of the committed snapshot are not given out again before the     *)
(* next commit, even if they were freed: what a power failure brings back  *)
(* was not overwritten.  A table that was not written, and a rebuild that  *)
(* failed, break this until the next complete commit.                      *)
CommittedDataKept ==
  failed \cap {"table", "rebuild"} = {} /\ up # "off" => tree \cap com.bits = {}

(* vdfs2_allocate_space() never runs out: it would be the BUG() there. *)
AllocateNeverFails ==
  \A f \in File : Live(f) => res[f] <= Cardinality(tree)
==========================================================================
