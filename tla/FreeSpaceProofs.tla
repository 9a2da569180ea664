------------------------- MODULE FreeSpaceProofs -------------------------
(***************************************************************************)
(* Proofs about module FreeSpace, for every set of blocks, files and tasks *)
(* and every kind of failure: types, the ownership of blocks in memory and *)
(* in the committed snapshot, that committed blocks are not given out, the *)
(* two counters, and which reservations a commit may overlook.             *)
(***************************************************************************)
EXTENDS FreeSpace, NatFacts, FiniteSetTheorems

(* Sets of blocks are finite and have a size. *)
LEMMA BlocksFinite == \A s \in SUBSET Block : IsFiniteSet(s) /\ Cardinality(s) \in Nat
  BY SpaceConstants, FS_Subset, FS_CardinalityType

(* A single block counts one. *)
LEMMA OneBlock == \A b : Cardinality({b}) = 1
  BY FS_Singleton

(* What a commit writes has the type of a snapshot. *)
LEMMA SnapshotType ==
  ASSUME TypeOK
  PROVE  Snapshot \in [bits : SUBSET Block, meta : SUBSET Block, rec : [File -> SUBSET Block],
                       phase : [File -> {"none", "linked", "dead"}]]
<1> QED BY DEF TypeOK, Snapshot, Phase

--------------------------------------------------------------------------
(* Actions of one file keep the types. *)
LEMMA FileType ==
  ASSUME TypeOK, NEW f \in File,
         \/ Create(f) \/ Unlink(f)
         \/ \E grows \in BOOLEAN : Write(f, grows)
         \/ EvictClean(f) \/ EvictUnlist(f) \/ EvictUnreserve(f) \/ KillOrphan(f)
  PROVE  TypeOK'
<1>1. CASE Create(f)
  BY <1>1 DEF TypeOK, Create, space, Phase, Free
<1>2. CASE Unlink(f)
  BY <1>2 DEF TypeOK, Unlink, space, Phase, Free
<1>3. CASE \E grows \in BOOLEAN : Write(f, grows)
  BY <1>3, SpaceConstants DEF TypeOK, Write, ListAfterWrite, Free
<1>4. CASE EvictClean(f)
  BY <1>4 DEF TypeOK, EvictClean, space, Free
<1>5. CASE EvictUnlist(f)
  BY <1>5 DEF TypeOK, EvictUnlist, space, Phase, Free
<1>6. CASE EvictUnreserve(f)
  BY <1>6, SpaceConstants DEF TypeOK, EvictUnreserve, Phase, Free
<1>7. CASE KillOrphan(f)
  <2>1. Cardinality(own[f]) \in Nat
    BY BlocksFinite DEF TypeOK
  <2> QED BY <1>7, <2>1 DEF TypeOK, KillOrphan, PutFree, Phase, Free
<1> QED BY <1>1, <1>2, <1>3, <1>4, <1>5, <1>6, <1>7

(* Allocation and truncation keep the types. *)
LEMMA AllocateSpaceType ==
  ASSUME TypeOK, NEW f \in File, NEW s \in SUBSET tree, AllocateSpace(f, s),
         sync' \in [Task -> File \cup {Idle, Scan}]
  PROVE  TypeOK'
<1> QED BY SpaceConstants DEF TypeOK, AllocateSpace, TakeReserved, WriteInode, Free

(* An allocation keeps the types. *)
LEMMA AllocateType ==
  ASSUME TypeOK, NEW f \in File,
         \/ \E done, s \in SUBSET tree : AllocateFails(f, done, s)
         \/ \E b \in tree : AllocateOne(f, b) \/ AllocateOneFails(f, b) \/ AllocateNow(f, b)
         \/ \E n \in 0 .. MaxRes, s \in SUBSET own[f] : Truncate(f, n, s)
  PROVE  TypeOK'
<1>1. ASSUME NEW done \in SUBSET tree, NEW s \in SUBSET tree, AllocateFails(f, done, s)
      PROVE  TypeOK'
  <2>1. Cardinality(done) \in Nat /\ Cardinality(s) \in Nat
    BY BlocksFinite DEF TypeOK, Free
  <2> QED BY <1>1, <2>1, SpaceConstants DEF TypeOK, AllocateFails, Free
<1>2. ASSUME NEW b \in tree, AllocateOne(f, b)
      PROVE  TypeOK'
  <2>1. res' \in [File -> 0 .. MaxRes]
    BY <1>2, SpaceConstants DEF TypeOK, AllocateOne
  <2>2. own' \in [File -> SUBSET Block] /\ rec' \in [File -> SUBSET Block]
    BY <1>2 DEF TypeOK, AllocateOne, WriteInode, Free
  <2> QED BY <1>2, <2>1, <2>2 DEF TypeOK, AllocateOne, TakeReserved, WriteInode, Free
<1>3. ASSUME NEW b \in tree, AllocateOneFails(f, b)
      PROVE  TypeOK'
  <2>1. res' \in [File -> 0 .. MaxRes]
    BY <1>3, SpaceConstants DEF TypeOK, AllocateOneFails
  <2> QED BY <1>3, <2>1 DEF TypeOK, AllocateOneFails, Free
<1>4. ASSUME NEW b \in tree, AllocateNow(f, b)
      PROVE  TypeOK'
  <2>1. count' \in Nat
    <3>1. Cardinality({b}) = 1
      BY OneBlock
    <3> QED BY <1>4, <3>1 DEF TypeOK, AllocateNow, TakeCounted
  <2>2. own' \in [File -> SUBSET Block] /\ rec' \in [File -> SUBSET Block]
    BY <1>4 DEF TypeOK, AllocateNow, WriteInode, Free
  <2> QED BY <1>4, <2>1, <2>2 DEF TypeOK, AllocateNow, TakeCounted, WriteInode, Free
<1>5. ASSUME NEW n \in 0 .. MaxRes, NEW s \in SUBSET own[f], Truncate(f, n, s)
      PROVE  TypeOK'
  <2>1. Cardinality(s) \in Nat
    BY BlocksFinite DEF TypeOK
  <2> QED BY <1>5, <2>1, SpaceConstants DEF TypeOK, Truncate, PutFree, WriteInode, Free
<1> QED BY <1>1, <1>2, <1>3, <1>4, <1>5

(* Steps of vdfs2_sync_fs() keep the types. *)
LEMMA SyncType ==
  ASSUME TypeOK, NEW t \in Task,
         \/ SyncStart(t) \/ SyncWriteNothing(t) \/ SyncEnd(t)
         \/ \E f \in File : SyncPop(t, f)
         \/ \E f \in File, s \in SUBSET tree : SyncWrite(t, f, s)
         \/ Commit(t) \/ CommitTableFails(t)
         \/ \E s \in SUBSET Free : CommitRebuildFails(t, s)
  PROVE  TypeOK'
<1>0. Free \subseteq Block /\ Cardinality(Free) \in Nat
  BY BlocksFinite DEF Free
<1>1. CASE SyncStart(t) \/ SyncWriteNothing(t) \/ SyncEnd(t)
  BY <1>1 DEF TypeOK, SyncStart, SyncWriteNothing, SyncEnd, space, inode, Free
<1>2. ASSUME NEW f \in File, SyncPop(t, f)
      PROVE  TypeOK'
  BY <1>2 DEF TypeOK, SyncPop, space, Free
<1>3. ASSUME NEW f \in File, NEW s \in SUBSET tree, SyncWrite(t, f, s)
      PROVE  TypeOK'
  <2>1. sync' \in [Task -> File \cup {Idle, Scan}]
    BY <1>3 DEF TypeOK, SyncWrite
  <2> QED BY <1>3, <2>1, AllocateSpaceType DEF SyncWrite
<1>4. CASE Commit(t)
  BY <1>0, <1>4, SnapshotType DEF TypeOK, Commit, Rebuild, Booked, inode, Free
<1>5. CASE CommitTableFails(t)
  BY <1>0, <1>5 DEF TypeOK, CommitTableFails, Rebuild, Booked, inode, Free
<1>6. ASSUME NEW s \in SUBSET Free, CommitRebuildFails(t, s)
      PROVE  TypeOK'
  <2>1. Cardinality(s) \in Nat
    BY <1>0, BlocksFinite
  <2> QED BY <1>6, <2>1 DEF TypeOK, CommitRebuildFails, Booked, inode, Free
<1> QED BY <1>1, <1>2, <1>3, <1>4, <1>5, <1>6

(* The initial state has the types. *)
LEMMA InitType == Init => TypeOK
<1> SUFFICES ASSUME Init PROVE TypeOK
  OBVIOUS
<1>1. /\ phase \in [File -> Phase] /\ own \in [File -> SUBSET Block] /\ rec = own
      /\ res \in [File -> 0 .. MaxRes] /\ sync \in [Task -> File \cup {Idle, Scan}]
  BY SpaceConstants DEF Init, Phase
<1>2. com \in [bits : SUBSET Block, meta : SUBSET Block, rec : [File -> SUBSET Block],
               phase : [File -> {"none", "linked", "dead"}]]
  BY <1>1 DEF Init, Snapshot, Phase
<1> QED BY <1>1, <1>2 DEF Init, TypeOK, Free

(* Every step keeps the types. *)
LEMMA NextType == TypeOK /\ [Next]_vars => TypeOK'
<1> SUFFICES ASSUME TypeOK, [Next]_vars PROVE TypeOK'
  OBVIOUS
<1>1. CASE Mount
  <2>1. Block \ com.bits \in SUBSET Block /\ Cardinality(Block \ com.bits) \in Nat
    BY BlocksFinite
  <2> QED BY <1>1, <2>1 DEF TypeOK, Mount, Phase, Free
<1>2. CASE MountEnd
  BY <1>2 DEF TypeOK, MountEnd, space, inode, Free
<1>3. CASE PowerOff
  <2>1. /\ phase' \in [File -> Phase] /\ own' \in [File -> SUBSET Block] /\ rec' = own'
        /\ res' \in [File -> 0 .. MaxRes] /\ sync' \in [Task -> File \cup {Idle, Scan}]
    BY <1>3, SpaceConstants DEF PowerOff, Phase
  <2> QED BY <1>3, <2>1 DEF TypeOK, PowerOff, Free
<1>4. ASSUME NEW f \in File, NEW s \in SUBSET tree, Flush(f, s)
      PROVE  TypeOK'
  <2>1. sync' \in [Task -> File \cup {Idle, Scan}]
    BY <1>4 DEF TypeOK, Flush
  <2> QED BY <1>4, <2>1, AllocateSpaceType DEF Flush
<1>5. ASSUME NEW s \in SUBSET tree, ExpandArea(s)
      PROVE  TypeOK'
  <2>1. Cardinality(s) \in Nat
    BY BlocksFinite DEF TypeOK, Free
  <2> QED BY <1>5, <2>1 DEF TypeOK, ExpandArea, TakeCounted, inode, Free
<1>6. CASE UNCHANGED vars
  BY <1>6 DEF TypeOK, vars, space, inode, Free
<1> QED BY <1>1, <1>2, <1>3, <1>4, <1>5, <1>6, FileType, AllocateType, SyncType DEF Next

(* Type correctness of the free space manager: the counters never become   *)
(* negative and the tree never holds a block in use, whatever fails.       *)
THEOREM SpaceTypeCorrect == Spec => []TypeOK
  BY InitType, NextType, PTL DEF Spec

--------------------------------------------------------------------------
(* The definition of Exact, block by block. *)
LEMMA ExactByBlock ==
  ASSUME NEW bm, NEW mt, NEW ow
  PROVE  Exact(bm, mt, ow) <=>
           /\ \A b : b \in bm <=> b \in mt \/ \E f \in File : b \in ow[f]
           /\ \A f, g \in File : f # g => \A b : ~(b \in ow[f] /\ b \in ow[g])
           /\ \A f \in File : \A b : ~(b \in ow[f] /\ b \in mt)
  BY DEF Exact

(* A file is given free blocks. *)
LEMMA ExactGive ==
  ASSUME NEW bm, NEW mt, NEW ow \in [File -> SUBSET Block], Exact(bm, mt, ow),
         NEW f \in File, NEW s, s \cap bm = {}
  PROVE  Exact(bm \cup s, mt, [ow EXCEPT ![f] = @ \cup s])
<1> DEFINE now == [ow EXCEPT ![f] = @ \cup s]
<1>1. \A g \in File : now[g] = IF g = f THEN ow[g] \cup s ELSE ow[g]
  OBVIOUS
<1> HIDE DEF now
<1>2. \A b : b \in s => /\ b \notin mt
                        /\ \A g \in File : b \notin ow[g]
  BY ExactByBlock
<1>3. \A b : b \in bm \cup s <=> b \in mt \/ \E g \in File : b \in now[g]
  BY <1>1, ExactByBlock
<1>4. \A g, h \in File : g # h => \A b : ~(b \in now[g] /\ b \in now[h])
  BY <1>1, <1>2, ExactByBlock
<1>5. \A g \in File : \A b : ~(b \in now[g] /\ b \in mt)
  BY <1>1, <1>2, ExactByBlock
<1>6. Exact(bm \cup s, mt, now)
  BY <1>3, <1>4, <1>5, ExactByBlock
<1> QED BY <1>6 DEF now

(* A file gives blocks back. *)
LEMMA ExactPut ==
  ASSUME NEW bm, NEW mt, NEW ow \in [File -> SUBSET Block], Exact(bm, mt, ow),
         NEW f \in File, NEW s, s \subseteq ow[f]
  PROVE  Exact(bm \ s, mt, [ow EXCEPT ![f] = @ \ s])
<1> DEFINE now == [ow EXCEPT ![f] = @ \ s]
<1>1. \A g \in File : now[g] = IF g = f THEN ow[g] \ s ELSE ow[g]
  OBVIOUS
<1> HIDE DEF now
<1>2. Exact(bm \ s, mt, now)
  BY <1>1, ExactByBlock
<1> QED BY <1>2 DEF now

(* The metadata area is given free blocks. *)
LEMMA ExactGrow ==
  ASSUME NEW bm, NEW mt, NEW ow, Exact(bm, mt, ow), NEW s, s \cap bm = {}
  PROVE  Exact(bm \cup s, mt \cup s, ow)
  BY ExactByBlock

(* Nothing is owned on a fresh volume. *)
LEMMA ExactEmpty == Exact({}, {}, [f \in File |-> {}])
<1> DEFINE none == [f \in File |-> {}]
<1>1. \A f \in File : none[f] = {}
  OBVIOUS
<1> HIDE DEF none
<1>2. Exact({}, {}, none)
  BY <1>1, ExactByBlock
<1> QED BY <1>2 DEF none

(* As long as no insert_extent() failed an inode in memory and its record  *)
(* agree, so that a commit and a reload see the same blocks.               *)
RecordsCurrent == "insert" \notin failed => rec = own

OwnerInv == TypeOK /\ BitmapExact /\ RecordsCurrent

(* Initially. *)
LEMMA InitOwner == Init => OwnerInv
<1> SUFFICES ASSUME Init PROVE OwnerInv
  OBVIOUS
<1>1. TypeOK
  BY InitType
<1>2. BitmapExact
  BY ExactEmpty DEF Init, BitmapExact, Snapshot
<1>3. RecordsCurrent
  BY DEF Init, RecordsCurrent
<1> QED BY <1>1, <1>2, <1>3 DEF OwnerInv

(* Writeback and direct allocation: blocks from the tree have no owner. *)
LEMMA GiveOwner ==
  ASSUME OwnerInv, TypeOK', NEW f \in File, NEW s \in SUBSET tree,
         bits' = bits \cup s, own' = [own EXCEPT ![f] = @ \cup s],
         WriteInode(f), UNCHANGED <<meta, com, failed>>
  PROVE  OwnerInv'
<1>1. s \cap bits = {}
  BY DEF OwnerInv, TypeOK, Free
<1>2. BitmapExact'
  BY <1>1, ExactGive DEF OwnerInv, TypeOK, BitmapExact
<1>3. RecordsCurrent'
  <2> SUFFICES ASSUME "insert" \notin failed PROVE rec' = own'
    BY DEF RecordsCurrent
  <2> QED BY DEF OwnerInv, TypeOK, RecordsCurrent, WriteInode
<1> QED BY <1>2, <1>3 DEF OwnerInv

(* Actions of one file. *)
LEMMA FileOwner ==
  ASSUME OwnerInv, TypeOK', NEW f \in File,
         \/ Create(f) \/ Unlink(f)
         \/ \E grows \in BOOLEAN : Write(f, grows)
         \/ \E s \in SUBSET tree : Flush(f, s)
         \/ \E done, s \in SUBSET tree : AllocateFails(f, done, s)
         \/ \E b \in tree : AllocateOne(f, b) \/ AllocateOneFails(f, b) \/ AllocateNow(f, b)
         \/ \E n \in 0 .. MaxRes, s \in SUBSET own[f] : Truncate(f, n, s)
         \/ EvictClean(f) \/ EvictUnlist(f) \/ EvictUnreserve(f) \/ KillOrphan(f)
  PROVE  OwnerInv'
<1>1. CASE Create(f) \/ (\E grows \in BOOLEAN : Write(f, grows)) \/ EvictUnlist(f) \/ EvictUnreserve(f)
  BY <1>1 DEF OwnerInv, BitmapExact, RecordsCurrent, Create, Write, EvictUnlist, EvictUnreserve, space
<1>2. CASE Unlink(f)
  <2>1. RecordsCurrent'
    BY <1>2 DEF OwnerInv, TypeOK, RecordsCurrent, Unlink
  <2> QED BY <1>2, <2>1 DEF OwnerInv, BitmapExact, Unlink, space
<1>3. ASSUME NEW s \in SUBSET tree, Flush(f, s)
      PROVE  OwnerInv'
  BY <1>3, GiveOwner DEF Flush, AllocateSpace, TakeReserved
<1>4. ASSUME NEW done \in SUBSET tree, NEW s \in SUBSET tree, AllocateFails(f, done, s)
      PROVE  OwnerInv'
  BY <1>4 DEF OwnerInv, BitmapExact, RecordsCurrent, AllocateFails
<1>5. ASSUME NEW b \in tree, AllocateOne(f, b) \/ AllocateNow(f, b)
      PROVE  OwnerInv'
  BY <1>5, GiveOwner DEF AllocateOne, AllocateNow, TakeReserved, TakeCounted
<1>6. ASSUME NEW b \in tree, AllocateOneFails(f, b)
      PROVE  OwnerInv'
  BY <1>6 DEF OwnerInv, BitmapExact, RecordsCurrent, AllocateOneFails
<1>7. ASSUME NEW n \in 0 .. MaxRes, NEW s \in SUBSET own[f], Truncate(f, n, s)
      PROVE  OwnerInv'
  <2>1. BitmapExact'
    BY <1>7, ExactPut DEF OwnerInv, TypeOK, BitmapExact, Truncate, PutFree
  <2>2. RecordsCurrent'
    <3> SUFFICES ASSUME "insert" \notin failed PROVE rec' = own'
      BY <1>7 DEF RecordsCurrent, Truncate
    <3> QED BY <1>7 DEF OwnerInv, TypeOK, RecordsCurrent, Truncate, WriteInode
  <2> QED BY <2>1, <2>2 DEF OwnerInv
<1>8. CASE EvictClean(f)
  <2> SUFFICES ASSUME "insert" \notin failed PROVE own' = own
    BY <1>8 DEF OwnerInv, BitmapExact, RecordsCurrent, EvictClean, space
  <2> QED BY <1>8 DEF OwnerInv, TypeOK, RecordsCurrent, EvictClean
<1>9. CASE KillOrphan(f)
  <2>1. own' = [own EXCEPT ![f] = @ \ own[f]]
    BY <1>9 DEF OwnerInv, TypeOK, KillOrphan
  <2>2. bits' = bits \ own[f] /\ UNCHANGED <<meta, com, failed>>
    BY <1>9 DEF KillOrphan, PutFree
  <2>3. "insert" \notin failed => Exact(bits \ own[f], meta, own')
    BY <2>1, ExactPut DEF OwnerInv, TypeOK, BitmapExact
  <2>4. BitmapExact'
    BY <2>2, <2>3 DEF OwnerInv, BitmapExact
  <2>5. RecordsCurrent'
    BY <1>9 DEF OwnerInv, TypeOK, RecordsCurrent, KillOrphan
  <2> QED BY <2>4, <2>5 DEF OwnerInv
<1> QED BY <1>1, <1>2, <1>3, <1>4, <1>5, <1>6, <1>7, <1>8, <1>9

(* Every step. *)
LEMMA NextOwner == OwnerInv /\ [Next]_vars => OwnerInv'
<1> SUFFICES ASSUME OwnerInv, [Next]_vars PROVE OwnerInv'
  OBVIOUS
<1>0. TypeOK'
  BY NextType DEF OwnerInv
<1>1. CASE Mount
  BY <1>0, <1>1 DEF OwnerInv, BitmapExact, RecordsCurrent, Mount
<1>2. CASE MountEnd
  BY <1>0, <1>2 DEF OwnerInv, BitmapExact, RecordsCurrent, MountEnd, space, inode
<1>3. CASE PowerOff
  BY <1>0, <1>3, ExactEmpty DEF OwnerInv, BitmapExact, RecordsCurrent, PowerOff
<1>4. ASSUME NEW s \in SUBSET tree, ExpandArea(s)
      PROVE  OwnerInv'
  <2>1. s \cap bits = {}
    BY DEF OwnerInv, TypeOK, Free
  <2>2. BitmapExact'
    BY <1>4, <2>1, ExactGrow DEF OwnerInv, BitmapExact, ExpandArea, TakeCounted, inode
  <2> QED BY <1>0, <1>4, <2>2 DEF OwnerInv, RecordsCurrent, ExpandArea, inode
<1>5. ASSUME NEW t \in Task,
             \/ SyncStart(t) \/ SyncWriteNothing(t) \/ SyncEnd(t)
             \/ \E f \in File : SyncPop(t, f)
      PROVE  OwnerInv'
  BY <1>0, <1>5 DEF OwnerInv, BitmapExact, RecordsCurrent, SyncStart, SyncWriteNothing, SyncEnd,
                    SyncPop, space, inode
<1>6. ASSUME NEW t \in Task, NEW f \in File, NEW s \in SUBSET tree, SyncWrite(t, f, s)
      PROVE  OwnerInv'
  BY <1>0, <1>6, GiveOwner DEF SyncWrite, AllocateSpace, TakeReserved
<1>7. ASSUME NEW t \in Task,
             \/ Commit(t) \/ CommitTableFails(t)
             \/ \E s \in SUBSET Free : CommitRebuildFails(t, s)
      PROVE  OwnerInv'
  BY <1>0, <1>7 DEF OwnerInv, BitmapExact, RecordsCurrent, Commit, CommitTableFails,
                    CommitRebuildFails, Rebuild, Booked, Snapshot, inode
<1>8. CASE UNCHANGED vars
  BY <1>0, <1>8 DEF OwnerInv, BitmapExact, RecordsCurrent, vars, space, inode
<1> QED BY <1>0, <1>1, <1>2, <1>3, <1>4, <1>5, <1>6, <1>7, <1>8, FileOwner DEF Next

(* Unless an insert_extent() failed, every block in use has exactly one    *)
(* owner and every owned block is in use, in memory and in the snapshot a  *)
(* power failure goes back to, whatever else fails.                        *)
THEOREM OwnershipExact == Spec => []BitmapExact
<1>1. OwnerInv => BitmapExact
  BY DEF OwnerInv
<1> QED BY <1>1, InitOwner, NextOwner, PTL DEF Spec

--------------------------------------------------------------------------
(* No step puts a committed block into the tree. *)
LEMMA NextKept == CommittedDataKept /\ [Next]_vars => CommittedDataKept'
<1> SUFFICES ASSUME CommittedDataKept, [Next]_vars PROVE CommittedDataKept'
  OBVIOUS
<1>1. CASE Mount
  BY <1>1 DEF CommittedDataKept, Mount
<1>2. CASE MountEnd \/ PowerOff
  BY <1>2 DEF CommittedDataKept, MountEnd, PowerOff, space
<1>3. ASSUME NEW f \in File,
             \/ Create(f) \/ Unlink(f)
             \/ \E grows \in BOOLEAN : Write(f, grows)
             \/ EvictClean(f) \/ EvictUnlist(f) \/ EvictUnreserve(f) \/ KillOrphan(f)
      PROVE  CommittedDataKept'
  BY <1>3 DEF CommittedDataKept, Create, Unlink, Write, EvictClean, EvictUnlist, EvictUnreserve,
              KillOrphan, PutFree, space
<1>4. ASSUME NEW f \in File,
             \/ \E s \in SUBSET tree : Flush(f, s)
             \/ \E done, s \in SUBSET tree : AllocateFails(f, done, s)
             \/ \E b \in tree : AllocateOne(f, b) \/ AllocateOneFails(f, b) \/ AllocateNow(f, b)
             \/ \E n \in 0 .. MaxRes, s \in SUBSET own[f] : Truncate(f, n, s)
      PROVE  CommittedDataKept'
  BY <1>4 DEF CommittedDataKept, Flush, AllocateSpace, AllocateFails, AllocateOne,
              AllocateOneFails, AllocateNow, Truncate, TakeReserved, TakeCounted, PutFree
<1>5. ASSUME NEW s \in SUBSET tree, ExpandArea(s)
      PROVE  CommittedDataKept'
  BY <1>5 DEF CommittedDataKept, ExpandArea, TakeCounted
<1>6. ASSUME NEW t \in Task,
             \/ SyncStart(t) \/ SyncWriteNothing(t) \/ SyncEnd(t)
             \/ \E f \in File : SyncPop(t, f)
             \/ \E f \in File, s \in SUBSET tree : SyncWrite(t, f, s)
      PROVE  CommittedDataKept'
  BY <1>6 DEF CommittedDataKept, SyncStart, SyncWriteNothing, SyncEnd, SyncPop, SyncWrite,
              AllocateSpace, TakeReserved, space
<1>7. ASSUME NEW t \in Task, Commit(t)
      PROVE  CommittedDataKept'
  BY <1>7 DEF CommittedDataKept, Commit, Rebuild, Snapshot, Free
<1>8. ASSUME NEW t \in Task,
             CommitTableFails(t) \/ \E s \in SUBSET Free : CommitRebuildFails(t, s)
      PROVE  CommittedDataKept'
  BY <1>8 DEF CommittedDataKept, CommitTableFails, CommitRebuildFails
<1>9. CASE UNCHANGED vars
  BY <1>9 DEF CommittedDataKept, vars, space
<1> QED BY <1>1, <1>2, <1>3, <1>4, <1>5, <1>6, <1>7, <1>8, <1>9 DEF Next

(* Unless the last commit of the mount lost its table or its tree, a block *)
(* of the committed snapshot is never given out.                           *)
THEOREM CommittedBlocksKept == Spec => []CommittedDataKept
<1>1. Init => CommittedDataKept
  BY DEF Init, CommittedDataKept
<1> QED BY <1>1, NextKept, PTL DEF Spec

--------------------------------------------------------------------------
(* Blocks taken from a set, and added to one. *)
LEMMA CardTake ==
  ASSUME NEW t \in SUBSET Block, NEW s \in SUBSET t
  PROVE  Cardinality(t \ s) = Cardinality(t) - Cardinality(s)
<1>1. IsFiniteSet(t) /\ t \cap s = s
  BY BlocksFinite
<1> QED BY <1>1, FS_Difference

LEMMA CardGive ==
  ASSUME NEW t \in SUBSET Block, NEW s \in SUBSET Block, s \cap t = {}
  PROVE  Cardinality(t \cup s) = Cardinality(t) + Cardinality(s)
<1>1. (t \cup s) \ t = s /\ t \cup s \in SUBSET Block /\ t \in SUBSET (t \cup s)
  OBVIOUS
<1>2. Cardinality(s) = Cardinality(t \cup s) - Cardinality(t)
  BY <1>1, CardTake
<1>3. Cardinality(t) \in Nat /\ Cardinality(t \cup s) \in Nat
  BY <1>1, BlocksFinite
<1> QED BY <1>2, <1>3

(* After a failed insert_extent() the bitmap may hold blocks nobody owns,  *)
(* and a record may be behind its inode, but what files own is in use and  *)
(* in no second file, in memory and in the committed snapshot.             *)
Covered ==
  /\ \A f \in File : rec[f] \subseteq own[f] /\ own[f] \subseteq bits
  /\ \A f, g \in File : f # g => own[f] \cap own[g] = {}
  /\ \A f \in File : com.rec[f] \subseteq com.bits
  /\ \A f, g \in File : f # g => com.rec[f] \cap com.rec[g] = {}

(* A file takes free blocks, and its record follows or does not. *)
LEMMA CoveredGive ==
  ASSUME TypeOK, Covered, NEW f \in File, NEW s \in SUBSET tree,
         bits' = bits \cup s, own' = [own EXCEPT ![f] = @ \cup s],
         rec' = rec \/ rec' = [rec EXCEPT ![f] = own'[f]], com' = com
  PROVE  Covered'
<1>1. s \cap bits = {} /\ own'[f] = own[f] \cup s /\ \A g \in File : g # f => own'[g] = own[g]
  BY DEF TypeOK, Free
<1>2. rec'[f] \in {rec[f], own'[f]} /\ \A g \in File : g # f => rec'[g] = rec[g]
  BY DEF TypeOK
<1>3. \A g \in File : rec'[g] \subseteq own'[g] /\ own'[g] \subseteq bits'
  BY <1>1, <1>2 DEF Covered
<1>4. \A g, h \in File : g # h => own'[g] \cap own'[h] = {}
  <2>1. \A g \in File : own[g] \cap s = {}
    BY <1>1 DEF Covered
  <2> QED BY <1>1, <2>1 DEF Covered
<1> QED BY <1>3, <1>4 DEF Covered

(* A file gives blocks back. *)
LEMMA CoveredPut ==
  ASSUME TypeOK, Covered, NEW f \in File, NEW s \in SUBSET own[f],
         bits' = bits \ s, own' = [own EXCEPT ![f] = @ \ s],
         rec' = [rec EXCEPT ![f] = own'[f]], com' = com
  PROVE  Covered'
<1>1. own'[f] = own[f] \ s /\ \A g \in File : g # f => own'[g] = own[g]
  BY DEF TypeOK
<1>2. rec'[f] = own'[f] /\ \A g \in File : g # f => rec'[g] = rec[g]
  BY DEF TypeOK
<1>3. \A g \in File : g # f => own[g] \cap s = {}
  BY DEF Covered
<1>4. \A g \in File : rec'[g] \subseteq own'[g] /\ own'[g] \subseteq bits'
  BY <1>1, <1>2, <1>3 DEF Covered
<1>5. \A g, h \in File : g # h => own'[g] \cap own'[h] = {}
  BY <1>1 DEF Covered
<1> QED BY <1>4, <1>5 DEF Covered

(* What a file step, or a step of vdfs2_sync_fs(), does to the books: it   *)
(* keeps bitmap and owners.                                                *)
LEMMA CoveredKept ==
  ASSUME Covered, UNCHANGED <<bits, own, rec, com>>
  PROVE  Covered'
BY DEF Covered

LEMMA NextCovered == TypeOK /\ Covered /\ [Next]_vars => Covered'
<1> SUFFICES ASSUME TypeOK, Covered, [Next]_vars PROVE Covered'
  OBVIOUS
<1>1. CASE Mount
  BY <1>1 DEF Mount, Covered
<1>2. CASE MountEnd
  BY <1>2, CoveredKept DEF MountEnd, space, inode
<1>3. CASE PowerOff
  BY <1>3 DEF PowerOff, Covered
<1>4. ASSUME NEW f \in File,
             \/ Create(f) \/ \E grows \in BOOLEAN : Write(f, grows)
             \/ EvictUnlist(f) \/ EvictUnreserve(f)
             \/ \E b \in tree : AllocateOneFails(f, b)
      PROVE  Covered'
  BY <1>4, CoveredKept DEF Create, Write, EvictUnlist, EvictUnreserve, AllocateOneFails, space
<1>5. ASSUME NEW f \in File, Unlink(f) PROVE Covered'
  <2>1. /\ rec'[f] = own[f] /\ \A g \in File : g # f => rec'[g] = rec[g]
        /\ UNCHANGED <<bits, own, com>>
    BY <1>5 DEF Unlink, TypeOK, space
  <2> QED BY <2>1 DEF Covered
<1>6. ASSUME NEW f \in File, NEW s \in SUBSET tree, AllocateSpace(f, s) PROVE Covered'
  BY <1>6, CoveredGive DEF AllocateSpace, TakeReserved, WriteInode
<1>7. ASSUME NEW f \in File, NEW done \in SUBSET tree, NEW s \in SUBSET tree,
             AllocateFails(f, done, s)
      PROVE  Covered'
  BY <1>7, CoveredGive DEF AllocateFails
<1>8. ASSUME NEW f \in File, NEW b \in tree, AllocateOne(f, b) \/ AllocateNow(f, b)
      PROVE  Covered'
  <2>1. {b} \in SUBSET tree
    OBVIOUS
  <2>2. /\ bits' = bits \cup {b} /\ own' = [own EXCEPT ![f] = @ \cup {b}]
        /\ rec' = [rec EXCEPT ![f] = own'[f]] /\ com' = com
    BY <1>8 DEF AllocateOne, AllocateNow, TakeReserved, TakeCounted, WriteInode
  <2> QED BY <2>1, <2>2, CoveredGive
<1>9. ASSUME NEW f \in File, NEW n \in 0 .. MaxRes, NEW s \in SUBSET own[f], Truncate(f, n, s)
      PROVE  Covered'
  BY <1>9, CoveredPut DEF Truncate, PutFree, WriteInode
<1>10. ASSUME NEW f \in File, EvictClean(f) PROVE Covered'
  <2>1. /\ own'[f] = rec[f] /\ \A g \in File : g # f => own'[g] = own[g]
        /\ UNCHANGED <<bits, rec, com>>
    BY <1>10 DEF EvictClean, TypeOK, space
  <2> QED BY <2>1 DEF Covered
<1>11. ASSUME NEW f \in File, KillOrphan(f) PROVE Covered'
  <2>1. /\ own' = [own EXCEPT ![f] = @ \ own[f]] /\ rec' = [rec EXCEPT ![f] = own'[f]]
        /\ bits' = bits \ own[f] /\ com' = com
    BY <1>11 DEF KillOrphan, PutFree, TypeOK
  <2>2. own[f] \in SUBSET own[f]
    OBVIOUS
  <2> QED BY <2>1, <2>2, CoveredPut
<1>12. ASSUME NEW s \in SUBSET tree, ExpandArea(s) PROVE Covered'
  BY <1>12 DEF ExpandArea, TakeCounted, inode, Covered
<1>13. ASSUME NEW t \in Task,
              \/ SyncStart(t) \/ SyncWriteNothing(t) \/ SyncEnd(t)
              \/ \E f \in File : SyncPop(t, f)
              \/ CommitTableFails(t) \/ \E s \in SUBSET Free : CommitRebuildFails(t, s)
       PROVE  Covered'
  BY <1>13, CoveredKept DEF SyncStart, SyncWriteNothing, SyncEnd, SyncPop, CommitTableFails,
                            CommitRebuildFails, Rebuild, space, inode
<1>14. ASSUME NEW t \in Task, Commit(t) PROVE Covered'
  <2>1. UNCHANGED <<bits, own, rec>> /\ com'.bits = bits /\ com'.rec = rec
    BY <1>14 DEF Commit, Rebuild, Snapshot, inode
  <2> QED BY <2>1 DEF Covered
<1>15. CASE UNCHANGED vars
  BY <1>15, CoveredKept DEF vars, space, inode
<1> QED BY <1>1, <1>2, <1>3, <1>4, <1>5, <1>6, <1>7, <1>8, <1>9, <1>10, <1>11, <1>12, <1>13,
           <1>14, <1>15 DEF Next, Flush, SyncWrite

--------------------------------------------------------------------------
(* Blocks s go from the tree to the bitmap, blocks u from the tree only,   *)
(* blocks w from the bitmap only.                                          *)
LEMMA WaitingCount ==
  ASSUME TypeOK, NEW s \in SUBSET tree, NEW u \in SUBSET tree, s \cap u = {},
         NEW w \in SUBSET bits,
         tree' = tree \ (s \cup u), bits' = (bits \cup s) \ w
  PROVE  Cardinality(Free') - Cardinality(tree')
           = Cardinality(Free) - Cardinality(tree) + Cardinality(u) + Cardinality(w)
<1>1. /\ bits \in SUBSET Block /\ tree \in SUBSET Block /\ Free \in SUBSET Block
      /\ tree \subseteq Free /\ s \in SUBSET Block /\ u \in SUBSET Block /\ w \in SUBSET Block
  BY DEF TypeOK, Free
<1>2. Cardinality(s \cup u) = Cardinality(s) + Cardinality(u)
  <2>1. u \cap s = {}
    OBVIOUS
  <2> QED BY <1>1, <2>1, CardGive
<1>3. Cardinality(tree') = Cardinality(tree) - Cardinality(s \cup u)
  <2>1. s \cup u \in SUBSET tree
    OBVIOUS
  <2> QED BY <1>1, <2>1, CardTake
<1>4. Free' = (Free \ s) \cup w /\ w \cap (Free \ s) = {} /\ s \in SUBSET Free
  BY <1>1 DEF Free
<1>5. Cardinality(Free') = Cardinality(Free) - Cardinality(s) + Cardinality(w)
  <2>1. Free \ s \in SUBSET Block
    BY <1>1
  <2>2. Cardinality(Free') = Cardinality(Free \ s) + Cardinality(w)
    BY <1>1, <1>4, <2>1, CardGive
  <2>3. Cardinality(Free \ s) = Cardinality(Free) - Cardinality(s)
    BY <1>1, <1>4, CardTake
  <2> QED BY <2>2, <2>3
<1>6. /\ Cardinality(Free) \in Nat /\ Cardinality(tree) \in Nat /\ Cardinality(s) \in Nat
      /\ Cardinality(u) \in Nat /\ Cardinality(w) \in Nat
  BY <1>1, BlocksFinite
<1> QED BY <1>2, <1>3, <1>5, <1>6

(* A step that gives blocks s, loses blocks u and frees blocks w, and      *)
(* counts u and w.                                                         *)
LEMMA NextFreeMoves ==
  ASSUME TypeOK, NextFreeExact, NEW s \in SUBSET tree, NEW u \in SUBSET tree, s \cap u = {},
         NEW w \in SUBSET bits,
         tree' = tree \ (s \cup u), bits' = (bits \cup s) \ w,
         nextFree' = nextFree + Cardinality(u) + Cardinality(w),
         up' = up, "rebuild" \in failed => "rebuild" \in failed'
  PROVE  NextFreeExact'
<1>1. Cardinality(Free') - Cardinality(tree')
        = Cardinality(Free) - Cardinality(tree) + Cardinality(u) + Cardinality(w)
  BY WaitingCount
<1>2. /\ Cardinality(Free) \in Nat /\ Cardinality(tree) \in Nat
      /\ Cardinality(u) \in Nat /\ Cardinality(w) \in Nat
  <2>1. Free \in SUBSET Block /\ tree \in SUBSET Block /\ u \in SUBSET Block /\ w \in SUBSET Block
    BY DEF TypeOK, Free
  <2> QED BY <2>1, BlocksFinite
<1>3. nextFree \in Nat
  BY DEF TypeOK
<1> QED BY <1>1, <1>2, <1>3 DEF NextFreeExact

(* A step of the rest. *)
LEMMA NextFreeKept ==
  ASSUME NextFreeExact, bits' = bits, tree' = tree, nextFree' = nextFree,
         up = "off" => up' = "off", "rebuild" \in failed => "rebuild" \in failed'
  PROVE  NextFreeExact'
BY DEF NextFreeExact, Free

(* Only blocks from the tree to the bitmap. *)
LEMMA NextFreeGive ==
  ASSUME TypeOK, NextFreeExact, NEW s \in SUBSET tree, tree' = tree \ s, bits' = bits \cup s,
         nextFree' = nextFree, up' = up, failed' = failed
  PROVE  NextFreeExact'
<1>1. /\ {} \in SUBSET tree /\ s \cap {} = {} /\ {} \in SUBSET bits /\ Cardinality({}) = 0
      /\ tree' = tree \ (s \cup {}) /\ bits' = (bits \cup s) \ {}
  BY FS_EmptySet
<1>2. nextFree' = nextFree + Cardinality({}) + Cardinality({})
  BY <1>1 DEF TypeOK
<1> QED BY <1>1, <1>2, NextFreeMoves

(* Only blocks out of the bitmap. *)
LEMMA NextFreePut ==
  ASSUME TypeOK, NextFreeExact, NEW w \in SUBSET bits, PutFree(w), up' = up, failed' = failed
  PROVE  NextFreeExact'
<1>1. /\ {} \in SUBSET tree /\ {} \cap {} = {} /\ Cardinality({}) = 0
      /\ tree' = tree \ ({} \cup {}) /\ bits' = (bits \cup {}) \ w
  BY FS_EmptySet DEF PutFree
<1>2. Cardinality(w) \in Nat
  BY BlocksFinite DEF TypeOK
<1>3. nextFree' = nextFree + Cardinality({}) + Cardinality(w)
  BY <1>1, <1>2 DEF TypeOK, PutFree
<1> QED BY <1>1, <1>3, NextFreeMoves

(* Tree and bitmap agree after a mount and a commit. *)
LEMMA NextFreeRebuilt ==
  ASSUME bits' \in SUBSET Block, tree' = Free', nextFree' = 0
  PROVE  NextFreeExact'
<1>1. Cardinality(tree') \in Nat
  BY BlocksFinite DEF Free
<1> QED BY <1>1 DEF NextFreeExact

LEMMA NextNextFree == TypeOK /\ Covered /\ NextFreeExact /\ [Next]_vars => NextFreeExact'
<1> SUFFICES ASSUME TypeOK, Covered, NextFreeExact, [Next]_vars PROVE NextFreeExact'
  OBVIOUS
<1>1. CASE Mount
  BY <1>1, NextFreeRebuilt DEF Mount, TypeOK, Free
<1>2. CASE MountEnd
  BY <1>2, NextFreeKept DEF MountEnd, space
<1>3. CASE PowerOff
  BY <1>3 DEF PowerOff, NextFreeExact
<1>4. ASSUME NEW f \in File,
             \/ Create(f) \/ Unlink(f) \/ \E grows \in BOOLEAN : Write(f, grows)
             \/ EvictClean(f) \/ EvictUnlist(f) \/ EvictUnreserve(f)
      PROVE  NextFreeExact'
  BY <1>4, NextFreeKept DEF Create, Unlink, Write, EvictClean, EvictUnlist, EvictUnreserve, space
<1>5. ASSUME NEW f \in File, NEW s \in SUBSET tree, AllocateSpace(f, s) PROVE NextFreeExact'
  BY <1>5, NextFreeGive DEF AllocateSpace, TakeReserved
<1>6. ASSUME NEW f \in File, NEW done \in SUBSET tree, NEW s \in SUBSET tree,
             AllocateFails(f, done, s)
      PROVE  NextFreeExact'
  <2>1. /\ done \cap s = {} /\ {} \in SUBSET bits /\ Cardinality({}) = 0
        /\ tree' = tree \ (done \cup s) /\ bits' = (bits \cup done) \ {} /\ up' = up
        /\ "rebuild" \in failed => "rebuild" \in failed'
    BY <1>6, FS_EmptySet DEF AllocateFails
  <2>2. nextFree' = nextFree + Cardinality(s) + Cardinality({})
    <3>1. Cardinality(s) \in Nat
      BY BlocksFinite DEF TypeOK, Free
    <3> QED BY <1>6, <2>1, <3>1 DEF AllocateFails, TypeOK
  <2> QED BY <2>1, <2>2, NextFreeMoves
<1>7. ASSUME NEW f \in File, NEW b \in tree, AllocateOne(f, b) \/ AllocateNow(f, b)
      PROVE  NextFreeExact'
  <2>1. /\ {b} \in SUBSET tree /\ tree' = tree \ {b} /\ bits' = bits \cup {b}
        /\ nextFree' = nextFree /\ up' = up /\ failed' = failed
    BY <1>7 DEF AllocateOne, AllocateNow, TakeReserved, TakeCounted
  <2> QED BY <2>1, NextFreeGive
<1>8. ASSUME NEW f \in File, NEW b \in tree, AllocateOneFails(f, b)
      PROVE  NextFreeExact'
  <2>1. /\ {b} \in SUBSET tree /\ {} \in SUBSET tree /\ {} \cap {b} = {} /\ {} \in SUBSET bits
        /\ tree' = tree \ ({} \cup {b}) /\ bits' = (bits \cup {}) \ {}
        /\ up' = up /\ failed' = failed
    BY <1>8 DEF AllocateOneFails
  <2>2. nextFree' = nextFree + Cardinality({b}) + Cardinality({})
    <3>1. Cardinality({b}) = 1 /\ Cardinality({}) = 0
      BY OneBlock, FS_EmptySet
    <3> QED BY <1>8, <3>1 DEF AllocateOneFails, TypeOK
  <2> QED BY <2>1, <2>2, NextFreeMoves
<1>9. ASSUME NEW f \in File, NEW n \in 0 .. MaxRes, NEW s \in SUBSET own[f], Truncate(f, n, s)
      PROVE  NextFreeExact'
  <2>1. s \in SUBSET bits
    BY DEF Covered
  <2> QED BY <1>9, <2>1, NextFreePut DEF Truncate
<1>10. ASSUME NEW f \in File, KillOrphan(f) PROVE NextFreeExact'
  <2>1. own[f] \in SUBSET bits
    BY DEF Covered
  <2> QED BY <1>10, <2>1, NextFreePut DEF KillOrphan
<1>11. ASSUME NEW s \in SUBSET tree, ExpandArea(s) PROVE NextFreeExact'
  BY <1>11, NextFreeGive DEF ExpandArea, TakeCounted
<1>12. ASSUME NEW t \in Task,
              \/ SyncStart(t) \/ SyncWriteNothing(t) \/ SyncEnd(t)
              \/ \E f \in File : SyncPop(t, f)
       PROVE  NextFreeExact'
  BY <1>12, NextFreeKept DEF SyncStart, SyncWriteNothing, SyncEnd, SyncPop, space
<1>13. ASSUME NEW t \in Task, Commit(t) \/ CommitTableFails(t) PROVE NextFreeExact'
  BY <1>13, NextFreeRebuilt DEF Commit, CommitTableFails, Rebuild, TypeOK, Free
<1>14. ASSUME NEW t \in Task, NEW s \in SUBSET Free, CommitRebuildFails(t, s)
       PROVE  NextFreeExact'
  BY <1>14 DEF CommitRebuildFails, NextFreeExact
<1>15. CASE UNCHANGED vars
  BY <1>15, NextFreeKept DEF vars, space
<1> QED BY <1>1, <1>2, <1>3, <1>4, <1>5, <1>6, <1>7, <1>8, <1>9, <1>10, <1>11, <1>12, <1>13,
           <1>14, <1>15 DEF Next, Flush, SyncWrite

(* What next_free_blocks promises vdfs2_file_write_iter() is kept: unless  *)
(* a rebuild of the tree failed it is the number of blocks a commit would  *)
(* bring back, through truncation, removal of orphans and failed           *)
(* allocations.                                                            *)
THEOREM WaitingBlocksCounted == Spec => []NextFreeExact
<1> DEFINE Inv == TypeOK /\ Covered /\ NextFreeExact
<1>1. Init => Inv
  BY InitType DEF Init, Covered, NextFreeExact, Snapshot
<1>2. Inv /\ [Next]_vars => Inv'
  BY NextType, NextCovered, NextNextFree
<1> QED BY <1>1, <1>2, PTL DEF Spec

--------------------------------------------------------------------------
(* Sums.  Any: the element SumFunction takes next; Sums(h, g, S): h gives  *)
(* the sum of g over every part of S.                                      *)
Any(s) == CHOOSE x \in s : TRUE

Rest(h, g, s)  == IF s = {} THEN 0 ELSE g[Any(s)] + h[s \ {Any(s)}]
Sums(h, g, S)  == h = [s \in SUBSET S |-> Rest(h, g, s)]
SumOf(g, S)    == CHOOSE h : Sums(h, g, S)

LEMMA SumFunctionDef == ASSUME NEW g PROVE SumFunction(g) = SumOf(g, DOMAIN g)[DOMAIN g]
BY DEF SumFunction, SumFunctionOnSet, FoldFunctionOnSet, MapThenFoldSet, SumOf, Sums, Rest, Any

(* A part of a finite set without one of its elements. *)
LEMMA PartFacts ==
  ASSUME NEW S, IsFiniteSet(S), NEW s \in SUBSET S
  PROVE  /\ Cardinality(s) \in Nat /\ Cardinality(s) <= Cardinality(S)
         /\ Cardinality(s) = 0 <=> s = {}
         /\ s # {} => /\ Any(s) \in s /\ s \ {Any(s)} \in SUBSET S
                      /\ Cardinality(s \ {Any(s)}) = Cardinality(s) - 1
<1>1. IsFiniteSet(s) /\ Cardinality(s) <= Cardinality(S)
  BY FS_Subset
<1>2. Cardinality(s) \in Nat
  BY <1>1, FS_CardinalityType
<1>3. Cardinality(s) = 0 <=> s = {}
  BY <1>1, FS_EmptySet
<1>4. s # {} => Any(s) \in s
  BY DEF Any
<1>5. s # {} => Cardinality(s \ {Any(s)}) = Cardinality(s) - 1
  BY <1>1, <1>4, FS_RemoveElement
<1> QED BY <1>1, <1>2, <1>3, <1>4, <1>5

(* There are such sums, although they are defined by recursion. *)
LEMMA SumsExist ==
  ASSUME NEW S, IsFiniteSet(S), NEW g \in [S -> Nat]
  PROVE  \E h \in [SUBSET S -> Nat] : Sums(h, g, S)
<1> DEFINE Upto(h, n) == \A s \in SUBSET S : Cardinality(s) <= n => h[s] = Rest(h, g, s)
           P == {n \in Nat : \E h \in [SUBSET S -> Nat] : Upto(h, n)}
<1>1. 0 \in P
  <2>1. [s \in SUBSET S |-> 0] \in [SUBSET S -> Nat]
    OBVIOUS
  <2>2. ASSUME NEW s \in SUBSET S, Cardinality(s) <= 0 PROVE s = {}
    <3>1. Cardinality(s) \in Nat /\ (Cardinality(s) = 0 <=> s = {})
      BY PartFacts
    <3> QED BY <2>2, <3>1
  <2>3. Upto([s \in SUBSET S |-> 0], 0)
    BY <2>2 DEF Rest
  <2> QED BY <2>1, <2>3
<1>2. ASSUME NEW n \in Nat, n \in P PROVE n + 1 \in P
  <2>1. PICK h \in [SUBSET S -> Nat] : Upto(h, n)
    BY <1>2
  <2> DEFINE k == [s \in SUBSET S |-> IF Cardinality(s) <= n THEN h[s] ELSE Rest(h, g, s)]
  <2>2. ASSUME NEW s \in SUBSET S
        PROVE  /\ Rest(h, g, s) \in Nat
               /\ Cardinality(s) <= n + 1 => Rest(k, g, s) = Rest(h, g, s)
    <3>1. CASE s = {}
      BY <3>1 DEF Rest
    <3>2. CASE s # {}
      <4>1. /\ Any(s) \in S /\ s \ {Any(s)} \in SUBSET S
            /\ Cardinality(s) \in Nat /\ Cardinality(s \ {Any(s)}) = Cardinality(s) - 1
        BY <3>2, PartFacts
      <4>2. g[Any(s)] \in Nat /\ h[s \ {Any(s)}] \in Nat
        BY <4>1, <2>1
      <4>3. Cardinality(s) <= n + 1 => Cardinality(s \ {Any(s)}) <= n
        BY <4>1
      <4>4. Cardinality(s) <= n + 1 => k[s \ {Any(s)}] = h[s \ {Any(s)}]
        BY <4>1, <4>3
      <4> HIDE DEF k
      <4> QED BY <3>2, <4>2, <4>4 DEF Rest
    <3> QED BY <3>1, <3>2
  <2>3. k \in [SUBSET S -> Nat]
    BY <2>2
  <2>4. ASSUME NEW s \in SUBSET S, Cardinality(s) <= n + 1
        PROVE  k[s] = Rest(k, g, s)
    <3>1. k[s] = IF Cardinality(s) <= n THEN h[s] ELSE Rest(h, g, s)
      OBVIOUS
    <3>2. Cardinality(s) <= n => h[s] = Rest(h, g, s)
      BY <2>1
    <3>3. Rest(k, g, s) = Rest(h, g, s)
      BY <2>2, <2>4
    <3> HIDE DEF k
    <3> QED BY <3>1, <3>2, <3>3
  <2>5. Upto(k, n + 1)
    BY <2>4
  <2> HIDE DEF Upto, k
  <2> QED BY <2>3, <2>5
<1>3. \A n \in Nat : n \in P
  <2> HIDE DEF P
  <2> QED BY <1>1, <1>2, SetInduction
<1>4. Cardinality(S) \in P
  BY <1>3, FS_CardinalityType
<1>5. PICK h \in [SUBSET S -> Nat] : Upto(h, Cardinality(S))
  BY <1>4
<1>6. \A s \in SUBSET S : h[s] = Rest(h, g, s)
  BY <1>5, PartFacts
<1>7. h = [s \in SUBSET S |-> Rest(h, g, s)]
  BY <1>6
<1> QED BY <1>7 DEF Sums

LEMMA SumOfFacts ==
  ASSUME NEW S, IsFiniteSet(S), NEW g \in [S -> Nat]
  PROVE  \A s \in SUBSET S : SumOf(g, S)[s] = Rest(SumOf(g, S), g, s)
<1>1. Sums(SumOf(g, S), g, S)
  BY SumsExist DEF SumOf
<1> DEFINE h == SumOf(g, S)
<1> HIDE DEF h
<1>2. h = [s \in SUBSET S |-> Rest(h, g, s)]
  BY <1>1 DEF Sums, h
<1>3. \A s \in SUBSET S : h[s] = Rest(h, g, s)
  BY <1>2
<1> QED BY <1>3 DEF h

(* One value changes. *)
LEMMA SumChange ==
  ASSUME NEW S, IsFiniteSet(S), NEW g \in [S -> Nat], NEW k \in [S -> Nat],
         NEW f \in S, \A x \in S : x # f => k[x] = g[x]
  PROVE  /\ SumFunction(g) \in Nat /\ SumFunction(k) \in Nat
         /\ SumFunction(k) = SumFunction(g) - g[f] + k[f]
<1> DEFINE G == SumOf(g, S)
           K == SumOf(k, S)
<1>1. /\ \A s \in SUBSET S : G[s] = Rest(G, g, s)
      /\ \A s \in SUBSET S : K[s] = Rest(K, k, s)
  BY SumOfFacts
<1> HIDE DEF G, K
<1> DEFINE Good(s) == /\ G[s] \in Nat /\ K[s] \in Nat
                      /\ K[s] = G[s] + (IF f \in s THEN k[f] - g[f] ELSE 0)
           P == {n \in Nat : \A s \in SUBSET S : Cardinality(s) = n => Good(s)}
<1>2. 0 \in P
  <2>1. G[{}] = 0 /\ K[{}] = 0
    BY <1>1 DEF Rest
  <2>2. Good({})
    BY <2>1
  <2>3. \A s \in SUBSET S : Cardinality(s) = 0 => s = {}
    BY PartFacts
  <2> HIDE DEF Good
  <2> QED BY <2>2, <2>3
<1>3. ASSUME NEW n \in Nat, n \in P PROVE n + 1 \in P
  <2> SUFFICES ASSUME NEW s \in SUBSET S, Cardinality(s) = n + 1 PROVE Good(s)
    BY <1>3
  <2> DEFINE x == Any(s)
             r == s \ {x}
  <2>1. s # {} /\ x \in s /\ x \in S /\ r \in SUBSET S /\ Cardinality(r) = n
    BY PartFacts
  <2>2. G[s] = g[x] + G[r] /\ K[s] = k[x] + K[r]
    BY <1>1, <2>1 DEF Rest
  <2>3. Good(r)
    BY <1>3, <2>1
  <2>4. f \in r <=> f \in s /\ f # x
    OBVIOUS
  <2>5. g[x] \in Nat /\ k[x] \in Nat /\ g[f] \in Nat /\ k[f] \in Nat
    BY <2>1
  <2>6. x # f => k[x] = g[x]
    BY <2>1
  <2> HIDE DEF x, r
  <2>7. CASE f = x
    BY <2>1, <2>2, <2>3, <2>4, <2>5, <2>7
  <2>8. CASE f # x
    BY <2>1, <2>2, <2>3, <2>4, <2>5, <2>6, <2>8
  <2> QED BY <2>7, <2>8
<1>4. \A n \in Nat : n \in P
  <2> HIDE DEF P
  <2> QED BY <1>2, <1>3, SetInduction
<1>5. Good(S)
  <2>1. Cardinality(S) \in P
    BY <1>4, FS_CardinalityType
  <2> QED BY <2>1
<1>6. SumFunction(g) = G[S] /\ SumFunction(k) = K[S]
  BY SumFunctionDef DEF G, K
<1>7. g[f] \in Nat /\ k[f] \in Nat
  OBVIOUS
<1> QED BY <1>5, <1>6, <1>7

(* Nothing but zeros. *)
LEMMA SumZero ==
  ASSUME NEW S, IsFiniteSet(S)
  PROVE  SumFunction([x \in S |-> 0]) = 0
<1> DEFINE g == [x \in S |-> 0]
           G == SumOf(g, S)
<1>1. g \in [S -> Nat] /\ DOMAIN g = S /\ \A x \in S : g[x] = 0
  OBVIOUS
<1> HIDE DEF g
<1>2. \A s \in SUBSET S : G[s] = Rest(G, g, s)
  BY <1>1, SumOfFacts
<1> HIDE DEF G
<1> DEFINE P == {n \in Nat : \A s \in SUBSET S : Cardinality(s) = n => G[s] = 0}
<1>3. 0 \in P
  BY <1>2, PartFacts DEF Rest
<1>4. ASSUME NEW n \in Nat, n \in P PROVE n + 1 \in P
  <2> SUFFICES ASSUME NEW s \in SUBSET S, Cardinality(s) = n + 1 PROVE G[s] = 0
    BY <1>4
  <2> DEFINE x == Any(s)
             r == s \ {x}
  <2>1. s # {} /\ x \in S /\ r \in SUBSET S /\ Cardinality(r) = n
    BY PartFacts
  <2>2. G[s] = g[x] + G[r]
    BY <1>2, <2>1 DEF Rest
  <2>3. G[r] = 0 /\ g[x] = 0
    BY <1>1, <1>4, <2>1
  <2> QED BY <2>2, <2>3
<1>5. \A n \in Nat : n \in P
  <2> HIDE DEF P
  <2> QED BY <1>3, <1>4, SetInduction
<1>6. G[S] = 0
  <2>1. Cardinality(S) \in P
    BY <1>5, FS_CardinalityType
  <2> QED BY <2>1
<1>7. SumFunction(g) = G[S]
  BY <1>1, SumFunctionDef DEF G
<1> QED BY <1>6, <1>7 DEF g

--------------------------------------------------------------------------
(* There are no reservations before the volume is mounted. *)
NoneEarly == up # "on" => res = [f \in File |-> 0]

BackedInv == TypeOK /\ NoneEarly /\ ReservationsBacked

(* The reservations are a number, and change by what one file changes. *)
LEMMA ReservedNat ==
  ASSUME TypeOK
  PROVE  Reserved \in Nat
<1>1. IsFiniteSet(File) /\ res \in [File -> Nat]
  BY SpaceConstants DEF TypeOK
<1>2. CASE File = {}
  <2>1. res = [f \in File |-> 0]
    BY <1>1, <1>2
  <2> QED BY <1>1, <2>1, SumZero DEF Reserved
<1>3. ASSUME NEW f \in File PROVE Reserved \in Nat
  BY <1>1, SumChange DEF Reserved
<1> QED BY <1>2, <1>3

LEMMA ReservedChange ==
  ASSUME TypeOK, NEW f \in File, NEW n \in 0 .. MaxRes, res' = [res EXCEPT ![f] = n]
  PROVE  Reserved' = Reserved - res[f] + n /\ Reserved \in Nat /\ res[f] \in Nat
<1>1. /\ IsFiniteSet(File) /\ f \in File /\ res \in [File -> Nat] /\ res' \in [File -> Nat]
      /\ res'[f] = n /\ \A g \in File : g # f => res'[g] = res[g]
  BY SpaceConstants DEF TypeOK
<1>2. SumFunction(res) \in Nat /\ SumFunction(res') = SumFunction(res) - res[f] + res'[f]
  BY ONLY <1>1, SumChange
<1> QED BY <1>1, <1>2 DEF Reserved

LEMMA ReservedNone ==
  ASSUME res' = [f \in File |-> 0]
  PROVE  Reserved' = 0
BY SumZero, SpaceConstants DEF Reserved

(* Blocks that leave the tree. *)
LEMMA TreeTake ==
  ASSUME TypeOK, NEW s \in SUBSET tree, tree' = tree \ s
  PROVE  /\ Cardinality(tree') = Cardinality(tree) - Cardinality(s)
         /\ Cardinality(tree) \in Nat /\ Cardinality(s) \in Nat
<1>1. tree \in SUBSET Block /\ s \in SUBSET Block
  BY DEF TypeOK, Free
<1> QED BY <1>1, CardTake, BlocksFinite

LEMMA BackedKept ==
  ASSUME ReservationsBacked, UNCHANGED <<count, res, tree, failed>>
  PROVE  ReservationsBacked'
BY DEF ReservationsBacked, Reserved

LEMMA NextEarly == TypeOK /\ NoneEarly /\ [Next]_vars => NoneEarly'
<1> SUFFICES ASSUME TypeOK, NoneEarly, [Next]_vars PROVE NoneEarly'
  OBVIOUS
<1>1. CASE Mount \/ MountEnd \/ PowerOff
  BY <1>1 DEF NoneEarly, Mount, MountEnd, PowerOff
<1>2. CASE up' = up /\ (up # "on" => res' = res)
  BY <1>2 DEF NoneEarly
<1>3. CASE UNCHANGED vars
  BY <1>3 DEF NoneEarly, vars, inode
<1>4. ASSUME NEW f \in File,
             \/ Create(f) \/ Unlink(f)
             \/ \E grows \in BOOLEAN : Write(f, grows)
             \/ \E s \in SUBSET tree : Flush(f, s)
             \/ \E done, s \in SUBSET tree : AllocateFails(f, done, s)
             \/ \E b \in tree : AllocateOne(f, b) \/ AllocateOneFails(f, b) \/ AllocateNow(f, b)
             \/ \E n \in 0 .. MaxRes, s \in SUBSET own[f] : Truncate(f, n, s)
             \/ EvictClean(f) \/ EvictUnlist(f) \/ EvictUnreserve(f) \/ KillOrphan(f)
      PROVE  up' = up /\ (up # "on" => res' = res)
  BY <1>4 DEF Create, Unlink, Write, Flush, AllocateSpace, AllocateFails, AllocateOne,
              AllocateOneFails, AllocateNow, Truncate, EvictClean, EvictUnlist, EvictUnreserve,
              KillOrphan
<1>5. ASSUME NEW s \in SUBSET tree, ExpandArea(s) PROVE up' = up /\ (up # "on" => res' = res)
  BY <1>5 DEF ExpandArea
<1>6. ASSUME NEW t \in Task,
             \/ SyncStart(t) \/ SyncWriteNothing(t) \/ SyncEnd(t)
             \/ \E f \in File : SyncPop(t, f)
             \/ \E f \in File, s \in SUBSET tree : SyncWrite(t, f, s)
             \/ Commit(t) \/ CommitTableFails(t)
             \/ \E s \in SUBSET Free : CommitRebuildFails(t, s)
      PROVE  up' = up /\ (up # "on" => res' = res)
  BY <1>6 DEF SyncStart, SyncWriteNothing, SyncEnd, SyncPop, SyncWrite, AllocateSpace, Commit,
              CommitTableFails, CommitRebuildFails, inode
<1> QED BY <1>1, <1>2, <1>3, <1>4, <1>5, <1>6 DEF Next

(* One block of the counter becomes a reservation. *)
LEMMA WriteBacked ==
  ASSUME BackedInv, NEW f \in File, NEW grows \in BOOLEAN, Write(f, grows)
  PROVE  ReservationsBacked'
<1>1. /\ res' = [res EXCEPT ![f] = res[f] + 1] /\ count' = count - 1 /\ tree' = tree
      /\ failed' = failed /\ res[f] + 1 \in 0 .. MaxRes
  BY SpaceConstants DEF Write, BackedInv, TypeOK
<1>2. Reserved' = Reserved - res[f] + (res[f] + 1) /\ Reserved \in Nat /\ res[f] \in Nat
  BY <1>1, ReservedChange DEF BackedInv
<1>3. count \in Nat /\ ReservationsBacked
  BY DEF BackedInv, TypeOK
<1>4. count' = count - 1 /\ Reserved' = Reserved + 1 /\ Reserved \in Int
  BY <1>1, <1>2
<1>5. count' + Reserved' = count + Reserved
  BY <1>3, <1>4
<1> QED BY <1>1, <1>3, <1>5 DEF ReservationsBacked

(* vdfs2_allocate_space() uses up the blocks it had reserved. *)
LEMMA AllocateBacked ==
  ASSUME BackedInv, NEW f \in File, NEW s \in SUBSET tree, AllocateSpace(f, s)
  PROVE  ReservationsBacked'
<1>1. /\ res' = [res EXCEPT ![f] = 0] /\ count' = count /\ tree' = tree \ s /\ failed' = failed
      /\ Cardinality(s) = res[f] /\ 0 \in 0 .. MaxRes
  BY SpaceConstants DEF AllocateSpace, TakeReserved
<1>2. Reserved' = Reserved - res[f] + 0 /\ Reserved \in Nat /\ res[f] \in Nat
  BY <1>1, ReservedChange DEF BackedInv
<1>3. Cardinality(tree') = Cardinality(tree) - res[f] /\ Cardinality(tree) \in Nat
  BY <1>1, TreeTake DEF BackedInv
<1>4. count \in Nat
  BY DEF BackedInv, TypeOK
<1> QED BY <1>1, <1>2, <1>3, <1>4 DEF BackedInv, ReservationsBacked

(* Blocks that the counter called free leave the tree. *)
LEMMA TakeBacked ==
  ASSUME BackedInv, NEW s \in SUBSET tree, TakeCounted(s), res' = res, failed' = failed
  PROVE  ReservationsBacked'
<1>1. count' = count - Cardinality(s) /\ tree' = tree \ s /\ count \in Nat
  BY DEF BackedInv, TypeOK, TakeCounted
<1>2. /\ Cardinality(tree') = Cardinality(tree) - Cardinality(s)
      /\ Cardinality(tree) \in Nat /\ Cardinality(s) \in Nat
  BY <1>1, TreeTake DEF BackedInv
<1>3. Reserved' = Reserved /\ Reserved \in Nat
  BY ReservedNat DEF BackedInv, Reserved
<1> QED BY <1>1, <1>2, <1>3 DEF BackedInv, ReservationsBacked

(* Reservations go back to the counter. *)
LEMMA RefundBacked ==
  ASSUME BackedInv, NEW f \in File, NEW n \in Nat, n <= res[f],
         res' = [res EXCEPT ![f] = res[f] - n], count' = count + n, tree' = tree, failed' = failed
  PROVE  ReservationsBacked'
<1>1. res[f] - n \in 0 .. MaxRes /\ count \in Nat
  BY SpaceConstants DEF BackedInv, TypeOK
<1>2. Reserved' = Reserved - res[f] + (res[f] - n) /\ Reserved \in Nat /\ res[f] \in Nat
  BY <1>1, ReservedChange DEF BackedInv
<1> QED BY <1>1, <1>2 DEF BackedInv, ReservationsBacked

(* A commit and a mount make tree and counter equal. *)
LEMMA RebuildBacked ==
  ASSUME TypeOK, NEW b \in SUBSET Block, tree' = b, count' = Cardinality(b), Reserved' = 0
  PROVE  ReservationsBacked'
<1>1. Cardinality(b) \in Nat
  BY BlocksFinite
<1> QED BY <1>1 DEF ReservationsBacked

LEMMA NextBacked == BackedInv /\ [Next]_vars => ReservationsBacked'
<1> SUFFICES ASSUME BackedInv, [Next]_vars PROVE ReservationsBacked'
  OBVIOUS
<1>0. TypeOK /\ ReservationsBacked /\ NoneEarly
  BY DEF BackedInv
<1>1. CASE Mount
  <2>1. res' = [f \in File |-> 0] /\ tree' = Block \ com.bits /\ count' = Cardinality(Block \ com.bits)
    BY <1>0, <1>1 DEF Mount, NoneEarly
  <2>2. Reserved' = 0 /\ Block \ com.bits \in SUBSET Block
    BY <2>1, ReservedNone
  <2> QED BY <1>0, <2>1, <2>2, RebuildBacked
<1>2. CASE MountEnd
  BY <1>0, <1>2, BackedKept DEF MountEnd, space, inode
<1>3. CASE PowerOff
  <2>1. res' = [f \in File |-> 0] /\ tree' = {} /\ count' = Cardinality({})
    BY <1>3, FS_EmptySet DEF PowerOff
  <2>2. Reserved' = 0 /\ {} \in SUBSET Block
    BY <2>1, ReservedNone
  <2> QED BY <1>0, <2>1, <2>2, RebuildBacked
<1>4. ASSUME NEW f \in File, Create(f) \/ Unlink(f) \/ EvictClean(f) \/ EvictUnlist(f)
      PROVE  ReservationsBacked'
  BY <1>0, <1>4, BackedKept DEF Create, Unlink, EvictClean, EvictUnlist, space
<1>5. ASSUME NEW f \in File, NEW done \in SUBSET tree, NEW s \in SUBSET tree,
             AllocateFails(f, done, s)
      PROVE  ReservationsBacked'
  BY <1>5 DEF AllocateFails, ReservationsBacked
<1>6. ASSUME NEW f \in File, NEW b \in tree, AllocateOne(f, b) \/ AllocateOneFails(f, b)
      PROVE  ReservationsBacked'
  BY <1>6 DEF AllocateOne, AllocateOneFails, ReservationsBacked
<1>7. ASSUME NEW f \in File, NEW b \in tree, AllocateNow(f, b) PROVE ReservationsBacked'
  <2>1. {b} \in SUBSET tree
    OBVIOUS
  <2> QED BY <1>7, <2>1, TakeBacked DEF AllocateNow
<1>8. ASSUME NEW f \in File, NEW n \in 0 .. MaxRes, NEW s \in SUBSET own[f], Truncate(f, n, s)
      PROVE  ReservationsBacked'
  <2>1. /\ n \in Nat /\ n <= res[f] /\ res' = [res EXCEPT ![f] = res[f] - n]
        /\ count' = count + n /\ tree' = tree /\ failed' = failed
    BY <1>8, SpaceConstants DEF Truncate, PutFree
  <2> QED BY <2>1, RefundBacked
<1>9. ASSUME NEW f \in File, EvictUnreserve(f) PROVE ReservationsBacked'
  <2>1. /\ res[f] \in Nat /\ res[f] <= res[f] /\ res[f] - res[f] = 0
        /\ count' = count + res[f] /\ tree' = tree /\ failed' = failed
        /\ res' = [res EXCEPT ![f] = 0]
    BY <1>0, <1>9, SpaceConstants DEF EvictUnreserve, TypeOK
  <2>2. res' = [res EXCEPT ![f] = res[f] - res[f]]
    BY <2>1
  <2> QED BY <2>1, <2>2, RefundBacked
<1>10. ASSUME NEW f \in File, KillOrphan(f) PROVE ReservationsBacked'
  BY <1>0, <1>10, BackedKept DEF KillOrphan, PutFree
<1>11. ASSUME NEW s \in SUBSET tree, ExpandArea(s) PROVE ReservationsBacked'
  BY <1>11, TakeBacked DEF ExpandArea, inode
<1>12. ASSUME NEW t \in Task,
              \/ SyncStart(t) \/ SyncWriteNothing(t) \/ SyncEnd(t)
              \/ \E f \in File : SyncPop(t, f)
       PROVE  ReservationsBacked'
  BY <1>0, <1>12, BackedKept DEF SyncStart, SyncWriteNothing, SyncEnd, SyncPop, space, inode
<1>13. ASSUME NEW t \in Task, Commit(t) \/ CommitTableFails(t) PROVE ReservationsBacked'
  <2>1. /\ tree' = Free /\ count' = Cardinality(Free) /\ res' = res /\ Free \in SUBSET Block
        /\ Reserved # 0 => "booked" \in failed'
    BY <1>13 DEF Commit, CommitTableFails, Rebuild, Booked, inode, Free
  <2>2. CASE Reserved = 0
    <3>1. Reserved' = 0
      BY <2>1, <2>2 DEF Reserved
    <3> QED BY <1>0, <2>1, <3>1, RebuildBacked
  <2>3. CASE Reserved # 0
    BY <2>1, <2>3 DEF ReservationsBacked
  <2> QED BY <2>2, <2>3
<1>14. ASSUME NEW t \in Task, NEW s \in SUBSET Free, CommitRebuildFails(t, s)
       PROVE  ReservationsBacked'
  BY <1>14 DEF CommitRebuildFails, ReservationsBacked
<1>15. CASE UNCHANGED vars
  BY <1>0, <1>15, BackedKept DEF vars, space, inode
<1> QED BY <1>1, <1>2, <1>3, <1>4, <1>5, <1>6, <1>7, <1>8, <1>9, <1>10, <1>11, <1>12, <1>13,
           <1>14, <1>15, WriteBacked, AllocateBacked DEF Next, Flush, SyncWrite

(* The counter and the reservations add up to what the tree holds, for any *)
(* number of files that vdfs2_get_block_prep_da() reserves for and any     *)
(* order of writes, writeback, truncation, eviction and commits; the only  *)
(* exceptions are the ones the ghost names.                                *)
THEOREM ReservationsStayBacked == Spec => []ReservationsBacked
<1>1. Init => BackedInv
  <2> SUFFICES ASSUME Init PROVE NoneEarly /\ ReservationsBacked
    BY InitType DEF BackedInv
  <2>1. res = [f \in File |-> 0] /\ count = 0 /\ tree = {}
    BY DEF Init
  <2>2. Reserved = 0 /\ Cardinality(tree) = 0
    BY <2>1, SumZero, SpaceConstants, FS_EmptySet DEF Reserved
  <2> QED BY <2>1, <2>2 DEF NoneEarly, ReservationsBacked
<1>2. BackedInv /\ [Next]_vars => BackedInv'
  BY NextType, NextEarly, NextBacked DEF BackedInv
<1>3. BackedInv => ReservationsBacked
  BY DEF BackedInv
<1> QED BY <1>1, <1>2, <1>3, PTL DEF Spec

--------------------------------------------------------------------------
(* An inode with a reservation is known to somebody: the dirty list, a     *)
(* vdfs2_sync_fs() that took it, its eviction, or it was written quietly.  *)
Noted(f) == res[f] # 0 => f \in list \/ f \in quiet \/ phase[f] = "evicting" \/ ~Unused(f)

AllNoted == "insert" \notin failed => \A f \in File : Noted(f)

LEMMA NotedKept ==
  ASSUME AllNoted, UNCHANGED <<phase, res, list, sync, quiet>>,
         "insert" \in failed => "insert" \in failed'
  PROVE  AllNoted'
BY DEF AllNoted, Noted, Unused

(* One file has no reservation left, or is on the list. *)
LEMMA NotedOne ==
  ASSUME AllNoted, NEW f \in File, failed' = failed, Noted(f)',
         \A g \in File : g # f => /\ res'[g] = res[g] /\ phase'[g] = phase[g]
                                  /\ g \in list => g \in list'
                                  /\ g \in quiet => g \in quiet'
                                  /\ Unused(g)' => Unused(g)
  PROVE  AllNoted'
<1> SUFFICES ASSUME "insert" \notin failed, NEW g \in File, g # f PROVE Noted(g)'
  BY DEF AllNoted
<1>1. Noted(g)
  BY DEF AllNoted
<1> QED BY <1>1 DEF Noted

(* A task goes on from where it was. *)
LEMMA StepsOn ==
  ASSUME TypeOK, NEW t \in Task, NEW v, sync' = [sync EXCEPT ![t] = v], NEW g \in File,
         g # sync[t]
  PROVE  Unused(g)' => Unused(g)
<1>1. sync'[t] = v /\ \A u \in Task : u # t => sync'[u] = sync[u]
  BY DEF TypeOK
<1> QED BY <1>1 DEF Unused

NotedInv == TypeOK /\ NoneEarly /\ AllNoted

(* Steps of one file. *)
LEMMA FileNoted ==
  ASSUME NotedInv, NEW f \in File,
         \/ Create(f) \/ Unlink(f) \/ \E grows \in BOOLEAN : Write(f, grows)
         \/ \E b \in tree : AllocateNow(f, b)
         \/ \E n \in 0 .. MaxRes, s \in SUBSET own[f] : Truncate(f, n, s)
         \/ EvictClean(f) \/ EvictUnlist(f) \/ EvictUnreserve(f) \/ KillOrphan(f)
  PROVE  AllNoted'
<1>0. TypeOK /\ AllNoted
  BY DEF NotedInv
<1>1. /\ sync' = sync /\ failed' = failed
      /\ \A g \in File : g # f => /\ res'[g] = res[g] /\ phase'[g] = phase[g]
                                  /\ g \in list => g \in list'
                                  /\ g \in quiet => g \in quiet'
  BY <1>0 DEF TypeOK, Create, Unlink, Write, ListAfterWrite, AllocateNow, Truncate, WriteInode,
              EvictClean, EvictUnlist, EvictUnreserve, KillOrphan
<1>2. \A g \in File : Unused(g)' = Unused(g)
  BY <1>1 DEF Unused
<1>3. "insert" \notin failed => Noted(f)
  BY <1>0 DEF AllNoted
<1>4. CASE \/ Create(f) \/ \E b \in tree : AllocateNow(f, b)
           \/ \E n \in 0 .. MaxRes, s \in SUBSET own[f] : Truncate(f, n, s)
  <2>1. f \in list'
    BY <1>4 DEF Create, AllocateNow, Truncate, WriteInode
  <2> QED BY <1>0, <1>1, <1>2, <2>1, NotedOne DEF Noted
<1>5. CASE \E grows \in BOOLEAN : Write(f, grows)
  <2>1. f \in list' \/ f \in quiet'
    BY <1>5 DEF Write, ListAfterWrite
  <2> QED BY <1>0, <1>1, <1>2, <2>1, NotedOne DEF Noted
<1>6. CASE EvictClean(f) \/ EvictUnreserve(f)
  <2>1. res'[f] = 0
    BY <1>0, <1>6 DEF TypeOK, EvictClean, EvictUnreserve
  <2> QED BY <1>0, <1>1, <1>2, <2>1, NotedOne DEF Noted
<1>7. CASE EvictUnlist(f)
  <2>1. phase'[f] = "evicting"
    BY <1>0, <1>7 DEF TypeOK, EvictUnlist
  <2> QED BY <1>0, <1>1, <1>2, <2>1, NotedOne DEF Noted
<1>8. CASE Unlink(f) \/ KillOrphan(f)
  <2>1. phase[f] # "evicting" /\ res' = res /\ list' = list /\ quiet' = quiet
    BY <1>8 DEF Unlink, KillOrphan
  <2>2. CASE "insert" \in failed
    BY <1>1, <2>2 DEF AllNoted
  <2>3. CASE "insert" \notin failed
    <3>1. Noted(f)'
      BY <1>2, <1>3, <2>1, <2>3 DEF Noted
    <3> QED BY <1>0, <1>1, <1>2, <3>1, NotedOne
  <2> QED BY <2>2, <2>3
<1> QED BY <1>4, <1>5, <1>6, <1>7, <1>8

(* Steps of vdfs2_sync_fs() that change no inode but the one it holds. *)
LEMMA SyncNoted ==
  ASSUME NotedInv, NEW t \in Task,
         \/ SyncStart(t) \/ SyncWriteNothing(t) \/ SyncEnd(t)
         \/ Commit(t) \/ CommitTableFails(t)
         \/ \E s \in SUBSET Free : CommitRebuildFails(t, s)
  PROVE  AllNoted'
<1>0. TypeOK /\ AllNoted
  BY DEF NotedInv
<1>1. /\ UNCHANGED <<phase, res, list, quiet>>
      /\ "insert" \in failed => "insert" \in failed'
      /\ \E v : sync' = [sync EXCEPT ![t] = v]
      /\ sync[t] \in {Idle, Scan} \/ res[sync[t]] = 0 \/ "insert" \in failed
  BY DEF SyncStart, SyncWriteNothing, SyncEnd, Commit, CommitTableFails, CommitRebuildFails,
         MayCommit, inode
<1> SUFFICES ASSUME "insert" \notin failed, NEW g \in File PROVE Noted(g)'
  BY <1>1 DEF AllNoted
<1>2. Noted(g)
  BY <1>0 DEF AllNoted
<1>3. CASE g = sync[t]
  <2>1. res[g] = 0
    BY <1>1, <1>3, SpaceConstants
  <2> QED BY <1>1, <2>1 DEF Noted
<1>4. CASE g # sync[t]
  <2>1. Unused(g)' => Unused(g)
    BY <1>0, <1>1, <1>4, StepsOn
  <2> QED BY <1>1, <1>2, <2>1 DEF Noted
<1> QED BY <1>3, <1>4

LEMMA PopNoted ==
  ASSUME NotedInv, NEW t \in Task, NEW f \in File, SyncPop(t, f)
  PROVE  AllNoted'
<1>0. TypeOK /\ AllNoted
  BY DEF NotedInv
<1>1. /\ UNCHANGED <<phase, res, quiet>> /\ failed' = failed /\ list' = list \ {f}
      /\ sync' = [sync EXCEPT ![t] = f] /\ sync[t] = Scan
  BY DEF SyncPop
<1>2. \A g \in File : Unused(g)' => Unused(g)
  BY <1>0, <1>1, StepsOn, SpaceConstants
<1>3. sync'[t] = f
  BY <1>0, <1>1 DEF TypeOK
<1>4. Noted(f)'
  BY <1>3 DEF Noted, Unused
<1> QED BY <1>0, <1>1, <1>2, <1>4, NotedOne

LEMMA AllocateNoted ==
  ASSUME NotedInv, NEW f \in File, NEW s \in SUBSET tree, AllocateSpace(f, s),
         \/ sync' = sync
         \/ \E t \in Task : sync[t] = f /\ sync' = [sync EXCEPT ![t] = Scan]
  PROVE  AllNoted'
<1>0. TypeOK /\ AllNoted
  BY DEF NotedInv
<1>1. /\ failed' = failed /\ phase' = phase /\ res'[f] = 0
      /\ \A g \in File : g # f => /\ res'[g] = res[g]
                                  /\ g \in list => g \in list'
                                  /\ g \in quiet => g \in quiet'
  BY <1>0 DEF TypeOK, AllocateSpace, WriteInode
<1>2. ASSUME NEW g \in File, g # f PROVE Unused(g)' => Unused(g)
  <2>1. CASE sync' = sync
    BY <2>1 DEF Unused
  <2>2. ASSUME NEW t \in Task, sync[t] = f, sync' = [sync EXCEPT ![t] = Scan]
        PROVE  Unused(g)' => Unused(g)
    BY <1>0, <1>2, <2>2, StepsOn
  <2> QED BY <2>1, <2>2
<1>3. Noted(f)'
  BY <1>1 DEF Noted
<1> QED BY <1>0, <1>1, <1>2, <1>3, NotedOne

LEMMA NextNoted == NotedInv /\ [Next]_vars => AllNoted'
<1> SUFFICES ASSUME NotedInv, [Next]_vars PROVE AllNoted'
  OBVIOUS
<1>0. TypeOK /\ NoneEarly /\ AllNoted
  BY DEF NotedInv
<1>1. CASE Mount \/ PowerOff
  <2>1. \A f \in File : res'[f] = 0
    BY <1>0, <1>1 DEF Mount, PowerOff, NoneEarly
  <2> QED BY <2>1 DEF AllNoted, Noted
<1>2. CASE MountEnd
  BY <1>0, <1>2, NotedKept DEF MountEnd, inode
<1>3. ASSUME NEW f \in File,
             \/ \E done, s \in SUBSET tree : AllocateFails(f, done, s)
             \/ \E b \in tree : AllocateOne(f, b) \/ AllocateOneFails(f, b)
      PROVE  AllNoted'
  BY <1>3 DEF AllocateFails, AllocateOne, AllocateOneFails, AllNoted
<1>4. ASSUME NEW f \in File, NEW s \in SUBSET tree, Flush(f, s) PROVE AllNoted'
  BY <1>4, AllocateNoted DEF Flush
<1>5. ASSUME NEW t \in Task, NEW f \in File, NEW s \in SUBSET tree, SyncWrite(t, f, s)
      PROVE  AllNoted'
  BY <1>5, AllocateNoted DEF SyncWrite
<1>6. ASSUME NEW s \in SUBSET tree, ExpandArea(s) PROVE AllNoted'
  BY <1>0, <1>6, NotedKept DEF ExpandArea, inode
<1>7. CASE UNCHANGED vars
  BY <1>0, <1>7, NotedKept DEF vars, inode
<1> QED BY <1>1, <1>2, <1>3, <1>4, <1>5, <1>6, <1>7, FileNoted, SyncNoted, PopNoted DEF Next

(* Only a commit clears dirty_pages_count of a mounted volume, and it does *)
(* so with the dirty list empty.                                           *)
LEMMA ClearsUnlisted ==
  ASSUME TypeOK, [Next]_vars, pend, ~pend', up' # "off"
  PROVE  list = {}
<1>1. CASE Mount \/ MountEnd \/ PowerOff
  BY <1>1 DEF Mount, MountEnd, PowerOff
<1>2. ASSUME NEW f \in File,
             \/ Create(f) \/ Unlink(f)
             \/ \E grows \in BOOLEAN : Write(f, grows)
             \/ \E s \in SUBSET tree : Flush(f, s)
             \/ \E done, s \in SUBSET tree : AllocateFails(f, done, s)
             \/ \E b \in tree : AllocateOne(f, b) \/ AllocateOneFails(f, b) \/ AllocateNow(f, b)
             \/ \E n \in 0 .. MaxRes, s \in SUBSET own[f] : Truncate(f, n, s)
             \/ EvictClean(f) \/ EvictUnlist(f) \/ EvictUnreserve(f) \/ KillOrphan(f)
      PROVE  pend'
  BY <1>2 DEF Create, Unlink, Write, ListAfterWrite, Flush, AllocateSpace, AllocateFails,
              AllocateOne, AllocateOneFails, AllocateNow, Truncate, WriteInode, EvictClean,
              EvictUnlist, EvictUnreserve, KillOrphan
<1>3. ASSUME NEW s \in SUBSET tree, ExpandArea(s) PROVE pend'
  BY <1>3 DEF ExpandArea
<1>4. ASSUME NEW t \in Task,
             \/ SyncStart(t) \/ SyncWriteNothing(t) \/ SyncEnd(t)
             \/ \E f \in File : SyncPop(t, f)
             \/ \E f \in File, s \in SUBSET tree : SyncWrite(t, f, s)
             \/ \E s \in SUBSET Free : CommitRebuildFails(t, s)
      PROVE  pend'
  BY <1>4 DEF SyncStart, SyncWriteNothing, SyncEnd, SyncPop, SyncWrite, AllocateSpace, WriteInode,
              CommitRebuildFails
<1>5. ASSUME NEW t \in Task, Commit(t) \/ CommitTableFails(t) PROVE list = {}
  BY <1>5 DEF Commit, CommitTableFails, MayCommit
<1>6. CASE UNCHANGED vars
  BY <1>6 DEF vars
<1> QED BY <1>1, <1>2, <1>3, <1>4, <1>5, <1>6 DEF Next

(* A commit finds only the reservations vdfs2_sync_fs() has to overlook,   *)
(* however many tasks sync and write at once: the second look at the dirty *)
(* list under transaction_lock is enough for every other one.              *)
THEOREM CommitFindsFewReservations == Spec => CommitSeesNoReservation
<1>1. Init => NotedInv
  BY InitType DEF Init, NotedInv, NoneEarly, AllNoted, Noted
<1>2. NotedInv /\ [Next]_vars => NotedInv'
  BY NextType, NextEarly, NextNoted DEF NotedInv
<1>3. NotedInv /\ [Next]_vars
        => [(pend /\ ~pend' /\ up' # "off" /\ "insert" \notin failed)
              => \A f \in File : res[f] # 0 =>
                   f \in quiet \/ phase[f] = "evicting" \/ ~Unused(f)]_vars
  <2> SUFFICES ASSUME NotedInv, [Next]_vars, pend, ~pend', up' # "off", "insert" \notin failed,
                      NEW f \in File, res[f] # 0
               PROVE  f \in quiet \/ phase[f] = "evicting" \/ ~Unused(f)
    OBVIOUS
  <2>1. list = {}
    BY ClearsUnlisted DEF NotedInv
  <2> QED BY <2>1 DEF NotedInv, AllNoted, Noted
<1> QED BY <1>1, <1>2, <1>3, PTL DEF Spec, CommitSeesNoReservation
==========================================================================
