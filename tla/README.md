# Verification of the VDFS2 driver

VDFS2 is a Linux file system for flash volumes (`src/`). Its metadata is kept
in special files that are copied on write; a *commit* makes all changes since the
previous commit durable at once. File data is allocated late, when dirty pages
are written back. This directory holds TLA+ modules of the driver, the TLC
configurations that check them on small instances, and TLAPS proofs.

References to code are `file:line` under `src/`.

## 1. The system

### Components

| Component | State | Operations | Modelled by |
|---|---|---|---|
| Snapshot manager (`snapshot.c`) | translation tables, `snapshot_bitmap`, `next_snapshot_bitmap`, `moved_iblock`, hints, `dirty_pages_count` | `vdfs2_add_chunk_bnode`, `vdfs2_add_chunk_bitmap`, `vdfs2_check_page_offset`, `vdfs2_update_bitmaps` | `MetaCow` |
| Translation tables, extended super blocks (`snapshot.c`, `super.c`) | two table slots, extended tables, `isector`, `sync_count`, `exteneded_table_count`, two super blocks | `vdfs2_build_snapshot_manager`, `vdfs2_update_translation_tables`, `restore_exsb`, `vdfs2_sync_first_super`, `vdfs2_sync_second_super` | `TransTables` |
| Metadata I/O (`data.c`) | dirty pages of the special files | `vdfs2_meta_write`, `vdfs2_sync_metadata`, `vdfs2_table_IO` | commit steps of `MetaCow` and `TransTables` |
| Free space manager (`fsm.c`, `fsm_btree.c`) | space bitmap, tree of free extents, `free_blocks_count`, `next_free_blocks` | `vdfs2_fsm_get_free_block`, `vdfs2_fsm_put_free_block`, `fsm_get_tree` | `FreeSpace` (the tree as a set) |
| Inodes, delayed allocation (`inode.c`, `file.c`, `extents.c`) | forks, extents tree, runtime extents, dirty list | write, writeback, truncate, evict | `FreeSpace` (blocks without positions), `SmallFiles` (contents of one page) |
| Orphans (`orphan.c`) | records of unlinked inodes | `vdfs2_kill_orphan_inode`, `vdfs2_process_orphan_inodes` | `FreeSpace` (blocks), `Namespace` (records, attributes, numbers), `SmallFiles` (cells) |
| Transactions, mount, delayed commit (`snapshot.c`, `super.c`, `vdfs2.h`) | `transaction_lock`, task log, `delayed_commit` | `vdfs2_start_transaction`, `vdfs2_stop_transaction`, `vdfs2_sync_fs`, `vdfs2_put_super` | `Transactions`; syncs against reservations in `FreeSpace` |
| B-trees (`btree.c`, `bnode.c`) | nodes, node bitmap, reserve | insert, remove, find, node allocation, checks at mount | `BTreeNode`, `BTree` |
| Cache of b-tree nodes (`bnode.c`) | lists of nodes in memory | get, put, eviction | not modelled |
| Catalog and names (`cattree*.c`, `inode.c`) | records by (parent, name), inode number bitmap | create, link, unlink, rename | `Namespace` |
| Hard links (`hlinktree.c`) | records of inodes with several names | move a record between the trees | `Namespace` |
| Extended attributes (`xattr.c`) | one tree, keys (inode, name) | set, get, remove all | `Namespace` |
| Small files (`small.c`) | cell bitmap, tiny/small/normal kind of an inode | write, writeback, get and put a cell, conversion, truncation | `SmallFiles` |
| Packed images (`packtree*.c`, `ioctl.c`) | installed images, cache of chunks | install, uninstall, read | not modelled |
| Locks (`mutex_on_sem.h`) | read/write semaphores | lock, unlock | `transaction_lock` in `Transactions` |
| Quota, options, debug area | none that others depend on | | not modelled |

### How they interact

An operation on files opens a transaction: `transaction_lock` for reading, so
transactions run concurrently. Each tree has its own read/write lock. A change
of a node or of a bitmap page goes through the snapshot manager, which moves
the chunk at its first change after a commit and may grow the metadata area,
for which it takes blocks from the free space manager. `vdfs2_sync_fs()`
writes back the inodes on the dirty list, takes `transaction_lock` for writing, looks at the list
again and calls `vdfs2_sync_metadata()`: copy of the super block, metadata
pages, rebuild of the tree of free extents, bitmaps of the snapshot manager,
table, first super block. A delayed work item does the same in the background.

### What is hard

* *Power failure* between any two block writes of a commit, or inside one.
* *Partial failure*: memory can run out while pages are signed, a table is
  written, the free extents are rebuilt or an extent is inserted; the driver
  goes on with what was done before.
* *Stale decisions*: whether a chunk may be written in place, whether a
  reservation is on the dirty list, whether a block freed now is still part of
  the committed snapshot.
* *Interleaving*: eviction and writers against one or two syncs; an unlink
  between the kernel's lookup of a name and a link to it; a file that changes
  its kind and gives up its locks in the middle.
* *Waiting*: nested transactions, commits, the delayed work, a write that waits
  for that work and an unmount all meet at two locks.
* *Recursion on partial failure*: a b-tree operation goes up the levels, and a
  node or memory may be missing at any of them.
* *Limits*: the metadata area half full, the volume full, the slots of the
  tables area, the reserve of nodes, files of exactly the tiny or cell size.

The most important of them are listed under `hazards` in `PROJECT.json`, each at
its line.

### What makes each component correct

* Snapshot manager: chunks never share blocks, nothing of the committed
  snapshot is reused before the next commit is complete, there is always room
  for a move, a commit is atomic, a sync that succeeded is durable.
* Tables: a mount finds the last table written completely, whatever write was
  torn; versions grow; an extended table is applied to its own base only.
* Free space: a block has one owner, the counters agree with tree and bitmap, a
  reservation can be honoured, a freed block is not reused too early.
* Transactions: a commit excludes transactions, nested transactions do not
  deadlock with it, dirty metadata is committed eventually.
* Names: link counts equal names, an inode is in exactly one of catalog, hard
  link tree and orphans, inode numbers are not reused while in use.
* B-trees: a sorted map; every node is reachable or free; an operation that
  fails leaves the tree as it was.
* Small files: a cell has one owner, also after a power failure; what is read is
  what was written, whatever kind the file has and had.

## 2. Modules

| Module | Role |
|---|---|
| `AtomicMeta` | abstract specification: a store of chunks with atomic commits |
| `MetaCow` | copy-on-write placement and the commit page by page; implements `AtomicMeta` |
| `TransTables` | how one table reaches the volume; implements `AtomicMeta` for a single chunk |
| `FreeSpace` | bitmap, free extents, reservations, orphans' blocks, concurrent syncs |
| `Namespace` | names, links, inode numbers, attributes and orphans, with the records that hold them |
| `Transactions` | `transaction_lock`, task logs, `vdfs2_sync_fs()`, delayed commit, unmount; liveness |
| `OrderedSet` | abstract specification: a set of keys whose calls succeed or change nothing |
| `BTreeNode` | one node of a b-tree: search, insertion, split, merge; the numbers of nodes |
| `BTree` | search, insertion and removal through the levels, checks; implements `OrderedSet` |
| `SmallFiles` | tiny, small and ordinary files, cells and the small files area |
| `MCMetaCow`, `MCTransTables`, `MCFreeSpace`, `MCNamespace`, `MCBTree`, `MCSmallFiles` | instances for TLC (`Transactions` needs none) |
| `MetaCowProofs`, `TransTablesProofs`, `FreeSpaceProofs`, `TransactionsProofs`, `NamespaceProofs`, `SmallFilesProofs`, `BTreeNodeProofs` | theorems |
| `NatFacts` | lemmas about numbers that the proofs share |

Operators named as mutants in a comment are wrong variants of the definition
that follows them. No specification uses them; they are kept to show that the
property named in `PROJECT.json` notices such a mistake.

### MetaCow

`tab` is the translation table as a function from chunks (file, index) to the
block where the chunk starts; `snap`, `next`, `moved` are the three bitmaps as
sets; `dirty` are chunks whose pages are dirty; `blk` is the metadata area of
the volume, each block remembering for which chunk it was written; `ctab` and
`csize` are the committed table and `meta_tbc`.

* `ChangeInPlace`, `ChangeAndMove`: `vdfs2_add_chunk_bnode()`,
  `vdfs2_add_chunk_bitmap()`, `move_iblock()`. `IsNewIblock` is the search of
  `get_new_meta_iblock()`, hint and wrap-around included.
* `Expand`: `vdfs2_check_page_offset()`, `expand_special_file()`,
  `expand_area()`, `insert_new_iblocks()`.
* `CommitBegin`, `WritePage`, `SignUnseen`, `SignFails`, `MetaAbort`,
  `UpdateBitmaps`, `UpdateTables`, `UpdateTablesFails`: `vdfs2_sync_metadata()`.
  Pages reach the volume in any order. `vdfs2_sign_mapping_pages()` returns what
  happened to the last page of a vector: if that one cannot be signed the commit
  is given up (`SignFails`), if another one cannot it is written with its old
  signature and the commit goes on (`SignUnseen`). `MetaAbort` includes the return of an uninitialised
  variable by `vdfs2_meta_write()` when nothing was dirty.
* `Mount`, `PowerOff`.

That the table changes in one step is the promise `TransTables` is checked for:
both refine `AtomicMeta`.

### TransTables

The content of a table is a number that grows with every change. A slot has a
base table and up to `MaxExt` extended tables, each with a version and, for an
extended table, the content its records are relative to. Writes have a begin
and an end action; between them the target is `Bad` (wrong checksum). The
tables area grows by doubling its level, which moves its middle slot. The mount
computes the place of that slot from `tables_tbc >> 1` and the block size
(`snapshot.c:453`, `:484`, `:490`), a commit from `tables_tbc` and `PAGE_SHIFT`
(`snapshot.c:1037`); one slot number for both is exact when blocks are as large
as pages and `tables_tbc` is even, which the module assumes. `Versions`, `IsNewest`,
`Restored`, `Chain` and `Content` are the mount: `load_base_table()`,
`restore_exsb()`, the loop over extended tables, `parse_extended_table()`.
`pc` is the place in `vdfs2_sync_metadata()`: `sb2`, `meta`, `base` or `ext`, `sb1`.

### FreeSpace

`bits` is the space bitmap, `tree` the blocks of the in-memory tree of free
extents, `count` and `nextFree` the counters. Per inode: `own` (blocks known
in memory), `rec` (blocks in its record), `res` (reserved blocks). `list` is the
dirty list and `sync[t]` what task `t` does in `vdfs2_sync_fs()`.

* `Write` reserves (`vdfs2_get_block_prep_da`); `Flush` and `SyncWrite` are
  writeback (`vdfs2_allocate_space`); `AllocateOne` and `AllocateNow` the paths
  that allocate a single block with or without a reservation; the `...Fails`
  variants are a failing `insert_extent()`.
* `Truncate`, `Unlink`, `EvictClean`, and the eviction of an unlinked inode in
  three steps (`EvictUnlist`, `EvictUnreserve`, `KillOrphan`), because what it
  does to list and counter is outside any transaction.
* `SyncStart`, `SyncPop`, `SyncWriteNothing`, `SyncEnd`, `Commit`,
  `CommitTableFails`, `CommitRebuildFails`: `vdfs2_sync_fs()`. Several tasks
  may be in it.
* A transaction is one step, a commit is one step: they exclude each other by
  `transaction_lock`, and two transactions meet only at the free space
  manager, whose mutex serialises them.

The variables `quiet`, `failed`, `broken`, `good` and `geoCrash` are ghosts:
they record what happened. Only three guards read one: after an
`insert_extent()` failed, writeback may give up (`SyncWriteNothing`) and blocks
may still be reserved when a single one is mapped (`AllocateOne`,
`AllocateOneFails`).

### Namespace

`cat` is the catalog tree as a function from keys (directory and name, or the
orphans and a number) to records; `hl` the inodes with a record in the hard link
tree, `bits` the inode number bitmap, `rlink` and `rsz` the link and entry
counts in records, `xa` the extended attributes. Of the inodes in memory
(`cached`) the module keeps `i_nlink`, `i_size` of directories, the flag
`HARD_LINK` and where the inode looks for its record (`ikey`). `com` is the
snapshot of all trees that the last commit made durable.

* `Create` (also of directories, nodes and symbolic links), `Lookup`, `Unlink`
  (also `vdfs2_rmdir()`), `WriteInode`, `SetXattr`, `RemoveXattr` are one
  transaction each.
* A link is `LinkLookup`, where the kernel finds the old name, and a later step
  that is `vdfs2_link()`: `Link`, or `LinkStale` when the old name has come to
  mean another inode. A rename onto a name in use is `RenameReplace` and
  `RenameMove`, since the driver unlinks the target in its own transaction.
* `Evict` and, for an unlinked inode, `DropXattr` and `KillOrphan`; the same two
  for the orphans that a mount finds.
* `CreateFails`, `LinkNoSpace`, `LinkNoMemory`, `UnlinkNoSpace`,
  `RenameNoSpace`, `EvictGivesUp` are the failures. After three steps the trees
  in memory contradict each other (`Broken`): a failed
  `transform_record_into_hlink()`, an orphan record that could not be inserted,
  and `LinkStale`. What the driver does with such trees is not modelled; the
  properties are still checked for the last committed snapshot, and for
  everything before.

What the kernel guarantees (locks on directories and inodes, references, no
directory moved below itself) is external: `Busy`, `Held`, `Outside`, `Follow`.
That a read of a tree node may fail is left out here.

### Transactions

`readers`, `writer` and `queue` are `transaction_lock`, `log[p]` the
`r_lock_count` in the task log of `p`, `pc[p]` the place of `p` in an operation,
`sync[p]` its place in `vdfs2_sync_fs()` (an inode while it writes it), `timer`
the delayed work, `umount` the kernel's `s_umount`.

* `vdfs2_start_transaction`, `Started`, `vdfs2_stop_transaction`: outermost and
  nested; the outermost start arms the delayed commit.
* `Begin`, `Change`, `Nest`, `Finish`: an operation is two changes that belong
  together, with nested transactions between them. Every caller of
  `vdfs2_start_transaction()` has this shape; `map` names `vdfs2_write_begin()`
  and `vdfs2_write_end()`.
* `SyncTake`, `SyncWrite`, `vdfs2_mpage_writepages`, `SyncWriteFails`,
  `SyncLock`, `SyncCheck`, `vdfs2_update_metadata`, `SyncReturn`: `vdfs2_sync_fs()`
  for `fsync`, the worker and the unmount.
* `vdfs2_delayed_commit`, `Tick`, `Flush` (the retry of a write without space),
  `Mounted`, `MountFails`, `Hold`, `Unhold`, `Unmount`, `vdfs2_put_super`.

A commit that fails leaves the changes pending (`pend`, `dirty_pages_count`) or,
when it was the write of the table, counts them as written. `NothingForgotten`
speaks of what is pending; what becomes of the others is in `MetaCow`.

### BTreeNode and BTree

A tree is a record: its nodes by number (level, records, neighbours), root,
height, the node numbers in use and first free, `avail` (nodes the file has
room for) and `limit` (nodes the metadata area allows). The caller has locked
the tree, so an operation is one step and a recursive function of the tree;
its result is the new tree and what the call returns. An operator that needs
the result of a call several times takes it as a parameter (`PlaceAt`,
`Removed`, `Shrink`). Functions keep their
names: `binary_search`, `btree_traverse_level`, `split_bnode`,
`place_key_in_bnode`, `build_new_root`, `place_index_record`,
`delete_from_node`, `btree_update_key`, `btree_merge`, `rebalance`,
`vdfs2_check_btree_links`. `BTreeNode` has what happens to one node and to the
node numbers, with recursive functions where the code has a loop, so that it
can be proved about; `BTree` has the recursion over the levels. Lengths of keys differ, so that a split by bytes is
uneven. `Faults` are allocations of memory; node allocation fails by `limit`.
`torn` says that an index record could not be placed, that an old one stayed, or
that a merge moved the records and lost the node: what such a tree does next is
not followed. `FindExact`, `IndexExact`, the first half of `NoNodeLost` and what
`CallsExact` says of removals except it; the rest of them do not. The run
`bug_dangling` looks at one step more. `NoBug` names the two cases in which an
assertion of `btree.c` does fail, both in the operation that tears the tree and
both in section 5: no memory in `btree_merge()`, and a removal that comes to a
node whose index record it has just failed to place (`Dangling`). In every other
operation on a reachable tree that is not torn yet no assertion fails.

### SmallFiles

`ino` is an inode in memory, `rec` its catalog record, both with kind, size,
stored length, cell, tiny data and the state of the fork (`ext`: no block, a
block never written, a block with data); `page` the first page in the page cache
and `bh` its buffer, `area` the cached pages of the small files area and `disk`
the same on the volume, `blk` the blocks of ordinary files, `com` the committed
snapshot. A unit of data is `Zero`, written to a file, or `Junk`: memory or a
block that nobody cleared.

* `write_tiny_small_file`, the three `convert_...` actions and `GenericWrite`:
  `vdfs2_file_write_iter()`. A conversion to an ordinary file is two steps
  (`mid`), since it gives up its locks. `GenericWriteFails`: no space to
  reserve.
* `read_tiny_small_page` copies what is stored and clears up to the size, no
  further: behind it is what the page had, zeros in a page of
  `vdfs2_get_tinysmall_page()` and anything in one of the page cache
  (`vdfs2_read_folio`). It does not ask whether a small file has a cell; what it
  copies for cell -1 is `Junk`. `ReadFails`: the area cannot be read and the page
  counts as up to date all the same.
* `writepage_tiny`, `write_small_file_page`, `vdfs2_mpage_writepages`: writeback.
  `WritebackFails` has the three ways to fail of `write_small_file_page()`
  (`CellFails`): no cell, a cell and no page of the area, a page that cannot be
  written. `WritepageNoSpace`: a file that becomes ordinary at writeback has
  reserved nothing. `vdfs2_writepage`: a page whose buffer has no block is marked
  dirty again. `write_tiny_small_page` and `ReclaimFails`: reclaim; `FlushArea`:
  the kernel's writeback of the area.
* `vdfs2_truncate_pages` and `vdfs2_update_inode` (truncation and extension),
  `vdfs2_unlink`, `vdfs2_kill_orphan_inode`, `vdfs2_read_inode`, `DropPage`.
* `sync_filesystem` and `vdfs2_file_fsync` commit; `Crash` goes back to `com` and
  to `disk`, and removes the orphans as the next mount does.

`want` is a ghost: what each file should hold. `hurt` names the files that a
defect of section 5 has hit, from the step that does it on: a step that merely
could go wrong (a stale tail that is never uncovered, a page that stays dirty)
does not put a file there. `ContentExact` is claimed for
the others, and its bound on the stored length for all. `reused` are the cells given out,
or written by a misplaced reclaim, that the committed snapshot may still name; a
file that was hurt and is then removed stays hurt in the snapshot.

## 3. Model checking

| Run | Instance | Shows |
|---|---|---|
| `cow_atomic` | one tree and one bitmap file, two values, 8 blocks, 3 commits, no failures | commits are atomic (`Atomic`), `SyncMeansDurable`, `MountReadable`, `CommittedNeverOverwritten`, types |
| `cow_faults` | files of up to two chunks, growth 8 to 12 blocks, failing signing and table writes | `NoSharedChunk`, `NoMetaExhaustion`, `CommittedProtected`, `LaterCommitRepairs` |
| `tables_atomic` | two extended tables, six changes, four mounts, torn writes, fixed size | `RecoveryExact`, `VersionsGrow`, `Atomic`, types |
| `tables_faults` | growth of both areas, every failing write | `RecoveryUnlessBroken` |
| `space` | two blocks, two files, two tasks, no failures | `ReservationsBacked`, `BitmapExact`, `CommitSeesNoReservation`, types |
| `space_faults` | three blocks, one file, one task, every failure | `NextFreeExact`, `CommittedDataKept` |
| `names` | two inodes, two names per directory, one attribute, at most two links, every failure, one commit | `OneHome`, `CountsExact`, `XattrOwned`, `InodeFindsRecord`, types |
| `btree` | six keys of two lengths, nodes of two or three records, three levels, room for 13 nodes or for all, failing memory | `IsMap` (refines `OrderedSet`), `FindExact`, `CallsExact`, `IndexExact`, `NoNodeLost`, `NoBug` |
| `tx` | two tasks, the worker, an unmount, one inode, nesting of two, every failure | `CommitAlone`, `NothingForgotten`; under fairness `StartReturns`, `SyncReturns`, `Quiesces`; types |
| `small` | two files, two cells, three operations or failures besides creation, every failure, power failure | `CellsOwned`, `ContentExact`, `RecordCurrent` |
| `bug_reserve`, `bug_dangling` | as `space` and `btree` | disagreements of section 5 |

### Bounds

* Chunks: one b-tree chunk of two blocks and one page chunk of one block are the
  smallest pair for which alignment, hints and wrap-around differ; a second
  index is needed for growth. Three commits let a chunk return to a place it
  had two commits ago. For the invariants proved in section 4 the bound does
  not matter.
* Tables: `MaxExt` 2 and `MaxRec` 1 make every reason for a base table occur
  (too many tables, too many records, dirty super block, growth); with six
  changes both slots are overwritten more than once, with four mounts a
  mount count is reused after a crash. Two levels and three sizes are a growth
  with and one without a larger tables area.
* Free space: two files and two tasks are needed for a sync to take an inode
  off the list while another commits; two blocks for one to be reserved while
  one is freed. Failures are checked with three blocks and one file, since a
  failing allocation needs a part that succeeded. `MaxRes` and `MaxMeta` bound
  reservations and growth. Blocks, files and tasks are symmetric: no action
  orders them and `MCFreeSpace` declares the permutations; that run has no
  liveness property.
* Names: two inodes and two names in each of three directories allow a file
  with two names, a directory in a directory, a rename onto a name in use, and
  a number that is freed and used again. One task is between the two steps of a
  link or a rename while all others act in single steps. One commit at any
  moment is enough for a snapshot in the middle of every operation, since the
  properties hold for each snapshot by itself; after a power failure the system
  goes on from it. Inode numbers and names are symmetric.
* B-trees: six keys and the fixed one need three levels, with splits and merges
  of leaves and index nodes, keys longer and shorter than those they replace
  in an index, and removals that make the tree higher. The limit of 13 nodes
  is the least at which the reserve is granted for a leaf and refused for its
  parent. `View` in `MCBTree` identifies trees that differ only in the numbers
  of their nodes: no operation orders nodes by number except the choice of a
  free one, whose only effect is which number is used next.
* Transactions: two tasks, the worker and the unmounting task are needed for a
  reader, a waiting writer and a waiting reader behind it, while another sync
  scans the list; a depth of two is a nested start. A minute is two ticks and a
  second one, so that the work can run between two starts.
* Small files: limits of 2, 3 and 4 units and the writes of `MCWrites` give a
  file of exactly each limit, an overlapping write, a write past the end, and
  every conversion; sizes 0, 1 and 3 shrink and extend across the limits. Two
  cells in one page of the area let a write for one file reach another's cell.
  Three operations besides creations suffice for extend, shrink and write, or
  a free and a reuse of a cell before a commit; each failure counts as one. A
  record that is longer than its data (`Overlong`) needs a size of 4 among
  `Sizes` and is left to the proof. Files are symmetric.
* Deadlock is not checked in `btree` (a torn tree has no next step), `tx` (an
  unmounted volume has none; waiting for ever is excluded by the liveness
  properties) and `small` (`MaxOps`).
* In `TransTables` the bounds on changes and mounts end every behaviour, and a
  volume that cannot be mounted stays so: deadlock is not checked there. It is
  checked in the remaining runs.

### Fairness

Only `tx` has liveness properties. Weak fairness is assumed of: each task's own
steps once it is inside an operation or a sync (a kernel task that is not
blocked is scheduled); `Wake` (the semaphore hands the lock on, first come first
served); `Tick` and `vdfs2_delayed_commit` (timers fire, `system_wq` runs its
work); `Mounted`, `Unhold`, `vdfs2_put_super` (the kernel finishes what it
began). Nothing is assumed of `Begin`, `Nest`, `vdfs2_file_fsync`, `Flush`,
`Hold`, `Unmount` or a failure: nobody has to start anything. `SyncReturns` and
`Quiesces` have `Quiet` as premise, that new operations stop at some time:
otherwise writers may keep the dirty list filled for ever, and each new
transaction puts the delayed commit off by a minute (`snapshot.c:205`).

## 4. Proofs

The theorems hold for every value of the constants that satisfies the named
assumption of the module (`CowConstants`, `SpaceConstants`, ...). Those
assumptions say that the constants have their types and that the values which
stand for "none" are not also ordinary values, that limits are in the order the
headers give them, and that blocks, files, inodes and names are finite sets.
A bound such as `MaxSync` or `MaxOps` is any number, so that it bounds no proof.

| Module | Theorem | States | Failures |
|---|---|---|---|
| `MetaCowProofs` | `TypeCorrect` | `TypeOK` | any |
| | `ChunksNeverShared` | `NoSharedChunk` | any |
| | `SnapshotProtected` | `CommittedProtected` | any |
| | `SnapshotNeverOverwritten` | `CommittedNeverOverwritten` | any |
| | `LaterCommitIsComplete` | `LaterCommitRepairs` | any |
| | `SyncIsDurable` | `SyncMeansDurable` | none |
| | `AlwaysReadable` | `MountReadable` | none |
| | `ImplementsAtomicMeta` | `Atomic` | none |
| | `AlwaysRoom` | `NoMetaExhaustion` | any |
| `TransTablesProofs` | `Types` | `TypeOK` | any |
| | `RecoversUnlessBroken` | `RecoveryUnlessBroken` | any |
| | `VersionsAlwaysGrow` | `VersionsGrow` | table writes |
| | `RecoversExactly` | `RecoveryExact` | none, no growth |
| | `ImplementsAtomicMeta` | `Atomic` | none, no growth |
| `FreeSpaceProofs` | `SpaceTypeCorrect` | `TypeOK` | any |
| | `OwnershipExact` | `BitmapExact` | any |
| | `CommittedBlocksKept` | `CommittedDataKept` | any |
| | `WaitingBlocksCounted` | `NextFreeExact` | any |
| | `ReservationsStayBacked` | `ReservationsBacked` | any |
| | `CommitFindsFewReservations` | `CommitSeesNoReservation` | any |
| `TransactionsProofs` | `Types` | `TypeOK` | any |
| | `CommitIsAlone` | `CommitAlone` | any |
| | `NoChangeForgotten` | `NothingForgotten` | any |
| `NamespaceProofs` | `TypesHold` | `TypeOK` | any |
| | `MetadataHasOneHome` | `OneHome` | any |
| | `CountsStayExact` | `CountsExact` | any |
| | `AttributesAreOwned` | `XattrOwned` | any |
| | `InodesFindTheirRecord` | `InodeFindsRecord` | any |
| `SmallFilesProofs` | `CellsHaveOneOwner` | `CellsOwned` | any |
| | `RecordsStayCurrent` | `RecordCurrent` | any |
| | `FilesKeepTheirContent` | `ContentExact` | any |
| `BTreeNodeProofs` | `SearchExact`, `TraverseExact` | what a search in a node finds | |
| | `AllocExact`, `DestroyExact`, `ReserveSuffices` | node numbers and their reserve | no space |
| | `PlaceExact` | insertion into a node, with its split | no space |
| | `MergeExact` | two nodes become one | |

"any" means that `Faults` is arbitrary; a property that names an exception (a
failed table write, a `hurt` file) has it in the theorem too. The theorems
without failures have `Faults = {}` as an assumption, which they need: after a
failed table write the next sync reports success without writing.

*MetaCow.* `CommittedNeverOverwritten` does not follow from one step: that a
page is written outside the committed snapshot depends on where its chunk was
placed before. `CowInv` is the conjunction of `TypeInv` (types, chunks inside
the metadata area), `SharedInv` (tables disjoint, `next` is what the table uses
and is reserved) and `MovedInv` (a chunk is dirty, or being written, only in a
place taken since the last commit). It is inductive whatever fails. Together
with `CommittedProtected` (places taken since the last commit are not part of
the committed snapshot) it gives the overwriting theorem. `DurableInv` adds the
content of the volume: a chunk that is neither dirty nor being written is on
the volume at the place the table says, and nothing is dirty when
`dirty_pages_count` is 0, which is what a commit needs in order to make exactly
`mem` durable. `FullInv` is all of this without failures. `StoredInv` is the
half of it that survives failures: as long as no signing failed, a chunk that
is neither dirty nor being written is on the volume, whatever
`dirty_pages_count` says. `ImplementsAtomicMeta` maps each action to a step of
`AtomicMeta` or to a stutter; only `UpdateTables` is a `Commit`.

`AlwaysRoom` is about sizes. Its hypothesis `MetaSizes` says what mkfs and
`calculate_expand_step()` (`snapshot.c:1098`) leave: a node is made of whole
pages (`super.c:1246`); the area and a growth step are made of whole nodes; mkfs
fills at most half of the area; a step is two nodes or more. TLC evaluates it on
the instance of the runs. `expand_special_file()` counts blocks, but what a move
needs is a whole aligned slot of `BlksInLeb` blocks, and the page of a bitmap
anywhere in a slot spoils it for a node. `RoomInv` therefore counts slots: every
chunk of the tables starts where its size says and inside the area, and the area
has two slots for each of them (`Laid`, `Roomy`); `snapshot_bitmap` covers only
where a chunk is now or was at the last commit, at most two places for each
(`Old`, `Places`). A chunk that is to be moved is still in its old place and has
one place only, so there are fewer places than slots and one slot has none of
them (`FreeSlot`, the pigeonhole principle). The case that needs more is an area
of an odd number of nodes with pages of one block (`Tight`: nine superpages are
possible on a small volume). There the slots may be one fewer than twice the
chunks, and two places must share a slot. With the three bitmaps (free space,
inode numbers, small files: `ThreeBitmaps`) two do, or one bitmap has not moved:
`get_new_meta_iblock()` starts where the last search ended, so of three pages
that moved since the commit two are in one slot. `Packed` states this of
`hint_bitmaps`; without it `RoomInv` is not inductive in that case.

*TransTables.* `TablesInv` describes the volume whatever failed: no table
mixes two histories (`PureInv`), the super blocks (`SuperInv`), where the next table goes
(`PlaceInv`), and that an extended table whose version fits continues the table
before it (`ExtInv`, `ChainInv`, `LastInv`), which is why it is never applied to
a wrong base. `VersionInv` orders the mount counts of super blocks and tables
while no super block write and no growth failed; it is what makes the version of
the next base table the greatest. `CurrentInv` says that on a healthy volume one
slot holds the table of the last commit, newer than every other. The write of a
table destroys the older slot only, and a mount selects the other. Without
failures and growth (`PlainInv`; the assumption is that of run `tables_atomic`)
recovery is exact at every moment, and the end of a table's write is the
`Commit` of `AtomicMeta`. With growth it is not: see section 5.

*FreeSpace.* `BitmapExact` is not inductive, because a commit saves the records
and not the blocks the inodes have in memory; `OwnerInv` adds `RecordsCurrent`,
that a record agrees with its inode unless an `insert_extent()` failed.
`CommittedDataKept` is inductive with `TypeOK`: blocks enter the tree only at
commits and mounts. `NextFreeExact` has to survive a failed `insert_extent()`;
`Covered` is what is left then: records are within what the inodes own, that is
in the bitmap, and owners are disjoint, also in the snapshot. For
`ReservationsBacked` the sum over the files is shown to exist, and to change by
what one file's reservation changes (`SumsExist`, `SumChange`), by induction on
the number of files. `AllNoted` gives `CommitSeesNoReservation`: every
reservation is on the dirty list, or of one of the kinds the property excepts.

*Transactions.* `TxInv` ties the parts of the model together: `PlaceInv` (where
a task is, and what its log and its changes say), `LockInv` (the readers and the
writer of `transaction_lock` are the tasks whose logs or syncs say so, and
nobody waits who holds it), `LifeInv` (mount and unmount against everything
else) and `DelayedInv` (dirty metadata has a commit armed, running or due).

*Namespace.* `NamesInv` describes the trees in memory and in the snapshot by the
same predicate `TreeOk`: `Placed` (one place of the metadata), `Hung` (an inode
of the hard link tree has a name), `Linked`, `Sized`, `Rooted`, and the
attributes. `OneHome` alone is not inductive: that an unlink of the last name
finds the record to move needs `Hung`. `CachedOk` is about the inodes in memory,
and `RenameOk`, `RenamesApart` and `LinkOk` about tasks between two
transactions: what a rename looked up is still there, since the kernel's locks
keep others away, and the key of a pending link is that of the inode unless it
lost it. After one of the three steps that contradict the trees (`Broken`), only
the types and the snapshot are claimed.

*SmallFiles.* `SmallInv` is `Types`, `CellInv` (who has which cell, and that an
inode has a cell its record does not name only after a failing writeback), the
same of the snapshot (`ComCellInv`), and `RecInv`. `ContentInv` adds what is
stored where. `KindOk` relates inode and record: when they may differ, and which
lengths, cells and blocks go with which kind. `FileOk` says of a file no defect
hit what its page holds up to the size, and, if the page is clean, that reading
it again gives the same; that the page may be dropped at any time is why both are
needed. Behind the size it claims nothing of a page in the cache, which is why
an extension has to ask what it uncovers (`Exposed`). `ComOk` is the same for
what a power failure leads back to, which must be the content at the last commit
unless the file was changed since (`touched`), its cell reused (`reused`) or not
yet flushed (`unsafe`). `WantInv` and `OrphanInv` tie the ghosts together.

*BTreeNode.* There is no state machine here: the theorems say what an operation
makes of every tree that is given (`Tree`, any finite number of nodes, any
lengths that satisfy `NodeConstants` and `ShortRecords`; `FirstTree` shows that
mkfs's is one). Loops are recursive functions: that there is one function that
satisfies the recursion is shown by induction on the number of records
(`SumExists`) or the width of the range (`LoopExists`), and only then what it
computes (`SumShift`, `UsedInsert`, `LoopExact`). `NumbersOk` (`first_free_id`
is the least free number, all numbers are in the tree's file) is what
`vdfs2_alloc_new_bnode()` and `vdfs2_destroy_bnode()` keep, and with it the first
free number is at most the number of nodes, which is why a reserve counted in
nodes is one of numbers. For `PlaceExact` the split is the hard part
(`CutFits`): the left half takes records until it is more than half full. With
records of at most half a node, header included, it cannot overflow by the last
of them; the right half is not empty because the node was full, and fits
because more than half is gone. The record is counted with the length that the
key came with, which for an index record is the one it has a level below:
`LenOk` is what the callers give.

`NatFacts` has the lemmas about numbers that several proofs use: the least
element of a set, induction, and that cells do not overlap. The induction
theorems of the library take a predicate, which the provers cannot instantiate;
`SetInduction` is stated for a set of numbers instead, and is proved from the
least element.

### Only model-checked

* The properties of `BTree`, its refinement of `OrderedSet` included: the
  operations recurse over the levels with `RECURSIVE` operators, which the
  prover's SMT backend does not accept, and what they compute for every tree is
  an induction over the tree. The steps of that recursion which change one node
  are what `BTreeNodeProofs` is about.
* `StartReturns`, `SyncReturns` and `Quiesces`: liveness under fairness and
  `ENABLED` are beyond TLAPS here.

## 5. Disagreements between code and documentation

With a run that TLC finds violated:

1. `bug_reserve`: a reservation that is not on the dirty list at a commit is
   promised a second time, and `vdfs2_allocate_space()` can reach its `BUG()`.
2. `bug_dangling`: `vdfs2_check_bnode_reserve()` is asked at every level, so a
   leaf can be split and the record of its new half refused. That is only
   logged (`btree.c:1598`), because "this will be done next time, when somebody
   find dangling bnode" (`btree.c:997`); but the search that finds it stops in
   `VDFS2_BUG()` (`btree.c:1066`).

Visible in the models, as the exceptions that the properties name:

* A failed table write clears `dirty_pages_count` (`snapshot.c:1063`); the next
  sync reports success without writing (`SyncMeansDurable`).
* When the metadata area grew and the tables area did not, the second slot of
  the super block and of its copy are the same table. Its version is not
  strictly greater than itself, and after a power failure before the first super
  block `load_base_table()` returns `-EINVAL` (`RecoveryUnlessBroken`).
* `sync_counter` of the super block is compared by `restore_exsb()` but never
  advanced, so after a second growth in one mount a power failure keeps the
  smaller geometry.
* `vdfs2_link()` finds the record to move by the old name and does not compare
  its number with the inode. If that name was unlinked and given to a new file
  since the kernel looked it up, while the inode has another name, the metadata
  of the new file goes to the hard link tree (`LinkStale`).
* `btree_update_key()` runs out of memory or nodes after the record was deleted:
  the removal reports an error and the index keeps the old key (`torn`).
* `btree_merge()` moves the records and then asks for memory for a key
  (`btree.c:1941`). Without it `rebalance()` returns an error, and
  `__vdfs2_btree_remove()` stops the kernel (`BUG()` at `btree.c:2224`):
  `NoBug`, the case `merge`.
* A removal whose `btree_update_key()` split an index node and could not place
  its record comes to the node that is left without one in the same call, and
  stops in `VDFS2_BUG()` (`btree.c:1066`): `NoBug`, the case `Dangling`.
* Small files, wrong content (`hurt`): a tiny file that becomes small by an
  overlapping write gets too long (`small.c:912`); a file extended and shrunk
  again shows what an older write left, and its record may claim more than a
  record holds (`inode.c:1609`); `read_tiny_small_page()` clears a page up to the
  size only (`small.c:633`, `:666`), and an extension or a write behind the end
  shows what was in memory; a block that was allocated at size 0 and never
  written is shown in the same way.
* Small files, failures (`hurt`): after a failing read of the area the page is up
  to date (`small.c:675`), and a small file that was truncated to 0 before it had
  a cell is read from cell -1 (`small.c:644`); the page of a small file counts as
  clean although it could not be written (`small.c:475`), in reclaim too
  (`small.c:520`); a file that becomes ordinary at writeback and finds no space
  has its page marked clean and no error is returned (`data.c:1724`,
  `inode.c:1311`).
* A page with a buffer and no block, as `block_truncate_page()` and a failed
  `vdfs2_write_begin()` leave it, is only marked dirty again by writeback
  (`data.c:1706`, `inode.c:1300`): a sync returns success and the page stays in
  memory until the next write to the file (`Stuck`).
* Small files, cells (`hurt`): reclaim writes to the
  beginning of the area's page instead of the cell (`small.c:581`), which may be
  another file's; a freed cell is reused before the commit that frees it; `fsync`
  commits a cell before a background write of the area reached the volume.
* A failing writeback leaves a cell marked that no record names (`failed`).
* Pages taken by a failed `vdfs2_sign_mapping_pages()` are neither dirty nor
  written; a later commit succeeds without them (`LaterCommitRepairs`). It
  reports only a failure of the last page of its vector (`data.c:1201`, `:1224`):
  another page is committed without a valid signature (`SignUnseen`).
* A failed table write leaves the committed snapshot unreserved
  (`CommittedProtected`), and freed blocks in the tree (`CommittedDataKept`).
* After a failed table write the next extended table leaves a gap in the sync
  counts and is not found, until a base table is written
  (`RecoveryUnlessBroken`). A failed super block write lets a retry reuse the
  mount count, and a copy in force ahead of its table is adopted by a mount.
* A growth refused halfway makes the next one change the tables area without
  `EXSB_DIRTY`.
* Two concurrent syncs, or an eviction and a sync, promise a reservation twice
  (`CommitSeesNoReservation`).
* A failed `insert_extent()` leaves the bitmap ahead of the record
  (`BitmapExact`).
* A failed `transform_record_into_hlink()` leaves the inode's record in both
  trees, because the undo names the parent directory (`LinkNoMemory`).
* An orphan record that does not fit leaves an inode that looks for its record
  among the orphans (`UnlinkNoSpace`).
* A rename that fails after the target was unlinked, or a power failure there,
  loses the target (`RenameNoSpace`); the trees stay whole (`OneHome`).

Seen while reading, not modelled: `fsm_get_tree()` inserts an extent of length
-1 for some ends of the bitmap (`fsm.c:370`); `vdfs2_write_inode_to_bnode()`
and `vdfs2_process_orphan_inodes()` release a lock they do not hold on error
paths (`inode.c:2805`, `orphan.c:240`); the error exit of
`expand_translation_tables()` frees pages still in use (`snapshot.c:1310`);
when security attributes cannot be stored `vdfs2_create()` removes the record
under the wrong parent inside `BUG_ON()` (`inode.c:2740`), and without memory
for the name it ends a transaction it did not begin (`inode.c:2698`);
`vdfs2_rename()` without memory for the name drops a reference it does not own
(`inode.c:1805`).

## 6. Plan

1. `FsmTree`: extents, merge and alignment in `fsm_btree.c`, the scan of
   `fsm_get_tree()`, against the set `FreeSpace` uses.
2. `Extents`: positions in a file, forks, the extents tree and runtime extents.
3. The cache of b-tree nodes with its reference counts.
4. The levels of `BTree` without `RECURSIVE`, by induction on the height, on
   top of the theorems about nodes.

## 7. Not modelled

Formatting of logs, the debug area and mount option parsing have no state that
others read. Decompression in packed images and the layout of block requests
are input and output without a decision of the driver. Quota is a lookup in a
list that is read at mount. Checksums are modelled by their result (`Bad`),
and mkfs by the state it leaves. Packed images are read-only: installing one
inserts a record in the catalog, the rest is reading and decompression. Of the
b-trees the cache of nodes in memory is left out, and nodes can always be read;
of small files, quota, files of several pages, pages of several blocks and the
widths of the lengths;
of mounting, the checks of the volume's layout.

Seen while reading these parts: the mount and the commit place the middle slot of
the tables area differently when blocks are smaller than pages
(`snapshot.c:453`, `:1037`); eviction from the list of passive nodes counts
the node twice and does not ask whether it is in use (`bnode.c:237`); a mount
that fails late frees its state with the delayed work armed (`super.c:1942`);
`vdfs2_mpage_writepages()` overwrites the error of `vdfs2_allocate_space()`
(`inode.c:1402`); a commit of the worker that fails is not tried again
(`super.c:316`).

## 8. Running

    tlc -config cow_atomic.cfg MCMetaCow
    tlc -config tables_atomic.cfg MCTransTables
    tlc -config space.cfg MCFreeSpace
    tlc -config names.cfg MCNamespace
    tlc -config btree.cfg MCBTree
    tlc -config tx.cfg Transactions
    tlc -config small.cfg MCSmallFiles
    tlapm NatFacts.tla
    tlapm MetaCowProofs.tla
    tlapm TransTablesProofs.tla
    tlapm FreeSpaceProofs.tla
    tlapm TransactionsProofs.tla
    tlapm NamespaceProofs.tla
    tlapm SmallFilesProofs.tla
    tlapm BTreeNodeProofs.tla
