---------------------------- MODULE Namespace ----------------------------
(***************************************************************************)
(* Names, link counts and inode numbers (inode.c, cattree.c,               *)
(* cattree-helper.c, hlinktree.c, orphan.c, xattr.c, super.c).             *)
(*                                                                         *)
(* A record of the catalog tree has a key <<parent, name>>.  The metadata  *)
(* of an inode with one name is in its catalog record ("file"); the first  *)
(* vdfs2_link() moves it to the hard link tree and leaves a record that    *)
(* only has the inode number ("hlink").  An unlinked inode has a record    *)
(* in the directory of orphans until it is evicted or a mount finds it.    *)
(* The inode in memory remembers where its record is (parent_id and name,  *)
(* or the flag HARD_LINK).                                                 *)
(*                                                                         *)
(* An operation is a transaction and excludes commits; the kernel locks    *)
(* the directories and inodes it works on.  It is a single step here,      *)
(* except where the driver or the kernel lets go of these locks: between   *)
(* the lookup of the old name of a link and the link, between the removal  *)
(* of a rename's target and the move, and in the eviction of an orphan.    *)
(***************************************************************************)
EXTENDS Integers, FiniteSets

CONSTANTS
  Ino,         \* inode numbers
  Root,        \* VDFS2_ROOT_INO
  Orphans,     \* VDFS2_ORPHAN_INODES_INO
  Name,        \* names of directory entries
  Attr,        \* names of extended attributes
  Task,        \* tasks that may be in the middle of a link or a rename
  Idle,        \* state of such a task
  NoRec,       \* no record
  NoKey,       \* key of an inode that keeps no name
  LinkMax,     \* VDFS2_LINK_MAX
  Faults,      \* "insert", "transform", "xattr": what may fail
  MaxCommit    \* bound: commits since mkfs

Dirs == Ino \cup {Root}
Key  == Dirs \X Name

OrphanKey(i) == <<Orphans, i>>
AllKey == Key \cup {OrphanKey(i) : i \in Ino}

FileRec(i)  == [type |-> "file", ino |-> i]
HlinkRec(i) == [type |-> "hlink", ino |-> i]
Rec == [type : {"file", "hlink"}, ino : Ino]

ASSUME NamespaceConstants ==
  /\ IsFiniteSet(Ino) /\ IsFiniteSet(Name)
  /\ Root \notin Ino /\ Orphans \notin Dirs
  /\ NoRec \notin Rec /\ NoKey \notin AllKey
  /\ LinkMax \in Nat \ {0} /\ MaxCommit \in Nat
  /\ Faults \subseteq {"insert", "transform", "xattr"}

VARIABLES
  up,      \* "off", "mounting", "on", "broken" (see Broken)
  cat,     \* catalog tree
  hl,      \* inodes with a record in the hard link tree
  bits,    \* inode number bitmap
  rlink,   \* links_count in the record of an inode
  rsz,     \* total_items_count in the record of a directory
  dirs,    \* inodes that are directories
  xa,      \* extended attributes of an inode number
  cached,  \* inodes in memory
  ilink,   \* i_nlink
  isz,     \* i_size of a directory
  hard,    \* HARD_LINK
  ikey,    \* parent_id and name of the inode
  task,    \* what each task is in the middle of
  com,     \* volume: the committed trees
  commits  \* commits since mkfs

trees == <<cat, hl, bits, rlink, rsz, dirs, xa>>
cache == <<cached, ilink, isz, hard, ikey>>
vars  == <<up, trees, cache, task, com, commits>>

Trees == [cat |-> cat, hl |-> hl, bits |-> bits, rlink |-> rlink, rsz |-> rsz,
          dirs |-> dirs, xa |-> xa]

Nobody == /\ cached = {} /\ ilink = [i \in Ino |-> 0] /\ isz = [d \in Dirs |-> 0]
          /\ hard = {} /\ ikey = [i \in Ino |-> NoKey]
          /\ task = [t \in Task |-> Idle]

NoTrees == /\ cat = [k \in AllKey |-> NoRec] /\ hl = {} /\ bits = {}
           /\ rlink = [i \in Ino |-> 0] /\ rsz = [d \in Dirs |-> 0]
           /\ dirs = {} /\ xa = [i \in Ino |-> {}]

(* mkfs (external) leaves an empty root directory. *)
Init == /\ up = "off" /\ NoTrees /\ Nobody
        /\ com = Trees /\ commits = 0

--------------------------------------------------------------------------
Mount ==
  /\ up = "off" /\ up' = "mounting"
  /\ cat' = com.cat /\ hl' = com.hl /\ bits' = com.bits /\ rlink' = com.rlink
  /\ rsz' = com.rsz /\ dirs' = com.dirs /\ xa' = com.xa
  /\ isz' = [isz EXCEPT ![Root] = com.rsz[Root]]
  /\ UNCHANGED <<cached, ilink, hard, ikey, task, com, commits>>

(* vdfs2_process_orphan_inodes() found none. *)
MountEnd ==
  /\ up = "mounting" /\ \A i \in Ino : cat[OrphanKey(i)] = NoRec
  /\ up' = "on"
  /\ UNCHANGED <<trees, cache, task, com, commits>>

PowerOff == /\ up # "off" /\ up' = "off"
            /\ cat' = [k \in AllKey |-> NoRec] /\ hl' = {} /\ bits' = {} /\ dirs' = {}
            /\ rlink' = [i \in Ino |-> 0] /\ rsz' = [d \in Dirs |-> 0]
            /\ xa' = [i \in Ino |-> {}]
            /\ cached' = {} /\ ilink' = [i \in Ino |-> 0] /\ isz' = [d \in Dirs |-> 0]
            /\ hard' = {} /\ ikey' = [i \in Ino |-> NoKey]
            /\ task' = [t \in Task |-> Idle]
            /\ UNCHANGED <<com, commits>>

(* vdfs2_sync_fs(): the commit MetaCow models. *)
Commit ==
  /\ up = "on" /\ com # Trees /\ commits < MaxCommit
  /\ com' = Trees /\ commits' = commits + 1
  /\ UNCHANGED <<up, trees, cache, task>>

--------------------------------------------------------------------------
(* vdfs2_write_inode_to_bnode() searches the record where the inode says   *)
(* it is.                                                                  *)
RecordFound(i) ==
  CASE i = Root    -> TRUE
    [] i \in hard  -> i \in hl
    [] OTHER       -> ikey[i] # NoKey /\ cat[ikey[i]] = FileRec(i)

(* The kernel locks the directories of a rename and the inode it moves.    *)
Busy(i) == \E t \in Task : /\ task[t] # Idle
                           /\ task[t].op = "rename"
                           /\ i \in {task[t].key[1], task[t].to[1], task[t].ino}
Held(i) == \/ Busy(i)
           \/ \E t \in Task : /\ task[t] # Idle
                             /\ \/ task[t].ino = i
                                \/ task[t].op = "rename" /\ task[t].old = i

(* A directory somebody can work in. *)
OpenDir(d) == /\ up = "on" /\ ~Busy(d)
              /\ d # Root => d \in dirs \cap cached /\ ilink[d] # 0

(* Directory d has n entries now.  (InodeFindsRecord: the record is found.) *)
WriteDir(d, n) == isz' = [isz EXCEPT ![d] = n] /\ rsz' = [rsz EXCEPT ![d] = n]

(* The trees in memory contradict each other: what the driver does with    *)
(* them from here to the next power off is not modelled.                   *)
Broken == up' = "broken"

Less(n) == IF n = 0 THEN 0 ELSE n - 1

(* vdfs2_lookup(): vdfs2_get_inode_from_record(). *)
Lookup(k) ==
  /\ up = "on" /\ cat[k] # NoRec
  /\ k[1] # Root => k[1] \in cached
  /\ LET i == cat[k].ino
     IN  /\ i \notin cached
         /\ cat[k].type = "hlink" => i \in hl
         /\ cached' = cached \cup {i}
         /\ ilink' = [ilink EXCEPT ![i] = rlink[i]]
         /\ isz' = [isz EXCEPT ![i] = rsz[i]]
         /\ IF cat[k].type = "hlink" THEN hard' = hard \cup {i} /\ UNCHANGED ikey
            ELSE ikey' = [ikey EXCEPT ![i] = k] /\ UNCHANGED hard
  /\ UNCHANGED <<up, trees, task, com, commits>>

(* vdfs2_setattr(), the end of a write: the inode goes to its record.      *)
WriteInode(i) ==
  /\ up = "on" /\ i \in cached /\ ~Busy(i) /\ RecordFound(i)
  /\ rlink' = [rlink EXCEPT ![i] = ilink[i]]
  /\ rsz' = [rsz EXCEPT ![i] = isz[i]]
  /\ UNCHANGED <<up, cat, hl, bits, dirs, xa, cache, task, com, commits>>

--------------------------------------------------------------------------
(* vdfs2_create() for files, directories, nodes and symbolic links, with   *)
(* the security attributes a it gets.  Any number that is free in the      *)
(* bitmap stands for the one vdfs2_get_free_inode() finds; an inode with   *)
(* that number in memory makes insert_inode_locked() fail.                 *)
Create(d, n, i, isdir, a) ==
  /\ OpenDir(d) /\ cat[<<d, n>>] = NoRec
  /\ i \notin bits /\ i \notin cached
  /\ cat' = [cat EXCEPT ![<<d, n>>] = FileRec(i)]
  /\ bits' = bits \cup {i}
  /\ dirs' = IF isdir THEN dirs \cup {i} ELSE dirs
  /\ xa' = [xa EXCEPT ![i] = @ \cup a]
  /\ rlink' = [rlink EXCEPT ![i] = 1] /\ ilink' = [ilink EXCEPT ![i] = 1]
  /\ ikey' = [ikey EXCEPT ![i] = <<d, n>>]
  /\ cached' = cached \cup {i}
  /\ WriteDir(d, isz[d] + 1)
  /\ UNCHANGED <<up, hl, hard, task, com, commits>>

(* The record is not inserted: the number is free again, but the inode     *)
(* stays in memory until the kernel needs the space.                       *)
CreateFails(d, n, i) ==
  /\ OpenDir(d) /\ cat[<<d, n>>] = NoRec
  /\ i \notin bits /\ i \notin cached /\ "insert" \in Faults
  /\ ilink' = [ilink EXCEPT ![i] = 1]
  /\ ikey' = [ikey EXCEPT ![i] = <<d, n>>]
  /\ cached' = cached \cup {i}
  /\ UNCHANGED <<up, trees, isz, hard, task, com, commits>>

--------------------------------------------------------------------------
(* link(): the kernel looks up the old name and takes a reference, without *)
(* a lock on its directory.                                                *)
LinkLookup(t, k) ==
  /\ up = "on" /\ task[t] = Idle /\ cat[k] # NoRec
  /\ cat[k].ino \in cached /\ cat[k].ino \notin dirs
  /\ task' = [task EXCEPT ![t] = [op |-> "link", key |-> k, ino |-> cat[k].ino]]
  /\ UNCHANGED <<up, trees, cache, com, commits>>

(* Mutant: VDFS2_LINK_MAX is not checked. *)
LinkToUnlimited(t, k) ==
  /\ task[t] # Idle /\ task[t].op = "link"
  /\ OpenDir(k[1]) /\ cat[k] = NoRec
  /\ ~Busy(task[t].ino) /\ ilink[task[t].ino] > 0
  /\ cat[task[t].key] # NoRec
  /\ task' = [task EXCEPT ![t] = Idle]

(* vdfs2_link() begins; the kernel refuses an inode without a name.        *)
LinkTo(t, k) ==
  /\ task[t] # Idle /\ task[t].op = "link"
  /\ OpenDir(k[1]) /\ cat[k] = NoRec
  /\ ~Busy(task[t].ino) /\ ilink[task[t].ino] \in 1 .. (LinkMax - 1)
  /\ cat[task[t].key] # NoRec
  /\ task' = [task EXCEPT ![t] = Idle]

MovesRecord(t) == cat[task[t].key].type = "file"
OwnRecord(t)   == cat[task[t].key].ino = task[t].ino

(* The metadata of i moves to the hard link tree: vdfs2_hard_link_insert() *)
(* (which refuses a second record), transform_record_into_hlink().         *)
MoveToHlink(i) ==
  /\ i \notin hl /\ hl' = hl \cup {i}
  /\ hard' = hard \cup {i} /\ ikey' = [ikey EXCEPT ![i] = NoKey]

(* inode_inc_link_count() and the write of the inode. *)
CountLink(i) ==
  /\ ilink' = [ilink EXCEPT ![i] = @ + 1]
  /\ rlink' = [rlink EXCEPT ![i] = ilink[i] + 1]

Link(t, k) ==
  LET i == task[t].ino
  IN  /\ LinkTo(t, k)
      /\ IF MovesRecord(t) THEN OwnRecord(t) /\ MoveToHlink(i)
                           ELSE UNCHANGED <<hl, hard, ikey>>
      /\ cat' = [cat EXCEPT ![task[t].key] = HlinkRec(@.ino), ![k] = HlinkRec(i)]
      /\ CountLink(i) /\ WriteDir(k[1], isz[k[1]] + 1)
      /\ UNCHANGED <<up, bits, dirs, xa, cached, com, commits>>

(* add_hlink_record() fails after the metadata moved. *)
LinkNoSpace(t, k) ==
  LET i == task[t].ino
  IN  /\ LinkTo(t, k) /\ "insert" \in Faults
      /\ MovesRecord(t) /\ OwnRecord(t) /\ MoveToHlink(i)
      /\ cat' = [cat EXCEPT ![task[t].key] = HlinkRec(i)]
      /\ UNCHANGED <<up, bits, rlink, rsz, dirs, xa, cached, ilink, isz, com, commits>>

(* transform_record_into_hlink() gets no memory.  The record is then taken *)
(* from the hard link tree under the number of the parent directory, which *)
(* has none there: that of the inode stays.                                *)
LinkNoMemory(t, k) ==
  /\ LinkTo(t, k) /\ "transform" \in Faults
  /\ MovesRecord(t) /\ OwnRecord(t) /\ task[t].ino \notin hl
  /\ hl' = hl \cup {task[t].ino}
  /\ Broken
  /\ UNCHANGED <<cat, bits, rlink, rsz, dirs, xa, cache, com, commits>>

(* The old name was given to another inode since the lookup: the metadata  *)
(* of that inode moves and its name becomes one of the inode being linked. *)
LinkStale(t, k) ==
  LET i == task[t].ino
      j == cat[task[t].key].ino
  IN  /\ LinkTo(t, k) /\ MovesRecord(t) /\ ~OwnRecord(t) /\ j \notin hl
      /\ hl' = hl \cup {j} /\ hard' = hard \cup {i} /\ ikey' = [ikey EXCEPT ![i] = NoKey]
      /\ cat' = [cat EXCEPT ![task[t].key] = HlinkRec(i), ![k] = HlinkRec(i)]
      /\ CountLink(i) /\ WriteDir(k[1], isz[k[1]] + 1)
      /\ Broken
      /\ UNCHANGED <<bits, dirs, xa, cached, com, commits>>

(* The old name is gone, there are too many links, or another error. *)
LinkRefused(t) ==
  /\ task[t] # Idle /\ task[t].op = "link"
  /\ task' = [task EXCEPT ![t] = Idle]
  /\ UNCHANGED <<up, trees, cache, com, commits>>

--------------------------------------------------------------------------
(* Mutant: a directory is removed whatever its size. *)
MayUnlinkFull(k) ==
  /\ OpenDir(k[1]) /\ cat[k] # NoRec
  /\ LET i == cat[k].ino
     IN  /\ i \in cached /\ ~Busy(i)
         /\ ilink[i] > 1 => i \in hard

(* vdfs2_unlink() and vdfs2_rmdir(). *)
MayUnlink(k) ==
  /\ OpenDir(k[1]) /\ cat[k] # NoRec
  /\ LET i == cat[k].ino
     IN  /\ i \in cached /\ ~Busy(i)
         /\ i \in dirs => isz[i] = 0
         /\ ilink[i] > 1 => i \in hard

(* Mutant: the record in the hard link tree stays. *)
DropNameKeepHlink(k, i) ==
  /\ ilink' = [ilink EXCEPT ![i] = @ - 1]
  /\ rlink' = [rlink EXCEPT ![i] = ilink[i] - 1]
  /\ IF ilink[i] > 1
       THEN /\ cat' = [cat EXCEPT ![k] = NoRec]
            /\ UNCHANGED <<hl, hard, ikey>>
       ELSE /\ cat' = [cat EXCEPT ![k] = NoRec, ![OrphanKey(i)] = FileRec(i)]
            /\ hard' = hard \ {i}
            /\ ikey' = [ikey EXCEPT ![i] = OrphanKey(i)]
            /\ UNCHANGED hl

(* One name of several goes, or the last one: then the metadata moves to   *)
(* the orphans.  (The BUG_ON()s hold by InodeFindsRecord.)                 *)
DropName(k, i) ==
  /\ ilink' = [ilink EXCEPT ![i] = @ - 1]
  /\ rlink' = [rlink EXCEPT ![i] = ilink[i] - 1]
  /\ IF ilink[i] > 1
       THEN /\ cat' = [cat EXCEPT ![k] = NoRec]
            /\ UNCHANGED <<hl, hard, ikey>>
       ELSE /\ cat' = [cat EXCEPT ![k] = NoRec, ![OrphanKey(i)] = FileRec(i)]
            /\ hl' = IF i \in hard THEN hl \ {i} ELSE hl
            /\ hard' = hard \ {i}
            /\ ikey' = [ikey EXCEPT ![i] = OrphanKey(i)]

UnlinkName(k) ==
  /\ MayUnlink(k)
  /\ DropName(k, cat[k].ino)
  /\ WriteDir(k[1], Less(isz[k[1]]))
  /\ UNCHANGED <<up, bits, dirs, xa, cached, com, commits>>

Unlink(k) == UnlinkName(k) /\ UNCHANGED task

(* The record of the orphan is not inserted.  An inode without HARD_LINK   *)
(* then looks for its record among the orphans.                            *)
UnlinkNoSpace(k) ==
  /\ MayUnlink(k) /\ "insert" \in Faults
  /\ LET i == cat[k].ino
     IN  /\ ilink[i] = 1
         /\ IF i \in hard THEN UNCHANGED <<up, ikey>>
            ELSE Broken /\ ikey' = [ikey EXCEPT ![i] = OrphanKey(i)]
  /\ UNCHANGED <<trees, cached, ilink, isz, hard, task, com, commits>>

--------------------------------------------------------------------------
(* The kernel refuses to move a directory into its own subtree: d is in a  *)
(* set of directories closed under parents that i is not in.               *)
Outside(i, d) ==
  \E s \in SUBSET Dirs :
    /\ d \in s /\ i \notin s
    /\ \A k \in Key : cat[k] # NoRec /\ cat[k].ino \in s => k[1] \in s

MayRename(from, to) ==
  /\ OpenDir(from[1]) /\ OpenDir(to[1])
  /\ cat[from] # NoRec /\ cat[from].ino \in cached /\ ~Busy(cat[from].ino)
  /\ cat[from].ino \in dirs => Outside(cat[from].ino, to[1])

(* Mutant: the inode keeps its old parent_id and name. *)
MoveRecordOnly(from, to) ==
  LET i == cat[from].ino
  IN  /\ cat' = [cat EXCEPT ![from] = NoRec,
                            ![to] = IF i \in hard THEN HlinkRec(i) ELSE FileRec(i)]
      /\ UNCHANGED <<rlink, ikey>>

(* vdfs2_add_new_cattree_object() writes the inode, or its number if it is *)
(* a hard link, under the new name; the old record goes.                   *)
MoveRecord(from, to) ==
  LET i == cat[from].ino
  IN  /\ cat' = [cat EXCEPT ![from] = NoRec,
                            ![to] = IF i \in hard THEN HlinkRec(i) ELSE FileRec(i)]
      /\ IF i \in hard THEN UNCHANGED <<rlink, ikey>>
         ELSE rlink' = [rlink EXCEPT ![i] = ilink[i]] /\ ikey' = [ikey EXCEPT ![i] = to]

(* Then both directories are counted. *)
MoveName(from, to) ==
  LET i    == cat[from].ino
      less == [isz EXCEPT ![from[1]] = Less(@)]
      more == [less EXCEPT ![to[1]] = @ + 1]
      own  == IF i \in hard THEN rsz ELSE [rsz EXCEPT ![i] = isz[i]]
  IN  /\ MoveRecord(from, to)
      /\ isz' = more
      /\ rsz' = [own EXCEPT ![from[1]] = more[from[1]], ![to[1]] = more[to[1]]]
      /\ UNCHANGED <<up, hl, bits, dirs, xa, cached, ilink, hard, com, commits>>

(* References to the old name follow it (d_move(), external). *)
Follow(from, to) ==
  [t \in Task |-> IF task[t] # Idle /\ task[t].key = from /\ task[t].ino = cat[from].ino
                    THEN [task[t] EXCEPT !.key = to] ELSE task[t]]

(* vdfs2_rename() to a name that is free. *)
Rename(from, to) ==
  /\ MayRename(from, to) /\ cat[to] = NoRec
  /\ MoveName(from, to)
  /\ task' = Follow(from, to)

(* To a name in use: the target is unlinked in a transaction of its own,   *)
(* and a commit may come between that and the move.                        *)
RenameReplace(t, from, to) ==
  /\ task[t] = Idle
  /\ MayRename(from, to) /\ MayUnlink(to)
  /\ LET i == cat[from].ino  j == cat[to].ino
     IN  /\ i # j /\ (i \in dirs <=> j \in dirs)
         /\ task' = [task EXCEPT ![t] = [op |-> "rename", key |-> from, to |-> to,
                                         ino |-> i, old |-> j]]
  /\ UnlinkName(to)

RenameMove(t) ==
  /\ up = "on" /\ task[t] # Idle /\ task[t].op = "rename"
  /\ MoveName(task[t].key, task[t].to)
  /\ task' = [Follow(task[t].key, task[t].to) EXCEPT ![t] = Idle]

(* The new record is not inserted: the target is lost. *)
RenameNoSpace(t) ==
  /\ up = "on" /\ task[t] # Idle /\ task[t].op = "rename" /\ "insert" \in Faults
  /\ task' = [task EXCEPT ![t] = Idle]
  /\ UNCHANGED <<up, trees, cache, com, commits>>

--------------------------------------------------------------------------
(* vdfs2_setxattr(), vdfs2_removexattr().  An attribute that is replaced   *)
(* and cannot be inserted again ends like one that is removed.             *)
SetXattr(i, a) ==
  /\ up = "on" /\ i \in cached \cap bits /\ a \notin xa[i]
  /\ xa' = [xa EXCEPT ![i] = @ \cup {a}]
  /\ UNCHANGED <<up, cat, hl, bits, rlink, rsz, dirs, cache, task, com, commits>>

RemoveXattr(i, a) ==
  /\ up = "on" /\ i \in cached \cap bits /\ a \in xa[i]
  /\ xa' = [xa EXCEPT ![i] = @ \ {a}]
  /\ UNCHANGED <<up, cat, hl, bits, rlink, rsz, dirs, cache, task, com, commits>>

(* vdfs2_evict_inode() *)
Forget(i) ==
  /\ cached' = cached \ {i} /\ hard' = hard \ {i}
  /\ ilink' = [ilink EXCEPT ![i] = 0] /\ isz' = [isz EXCEPT ![i] = 0]
  /\ ikey' = [ikey EXCEPT ![i] = NoKey]

Evict(i) ==
  /\ up = "on" /\ i \in cached /\ ~Held(i) /\ ilink[i] # 0
  /\ Forget(i)
  /\ UNCHANGED <<up, trees, task, com, commits>>

(* An unlinked inode that nobody uses, or an orphan at mount. *)
Dying(i) == \/ up = "on" /\ i \in cached /\ ilink[i] = 0 /\ ~Held(i)
            \/ up = "mounting" /\ cat[OrphanKey(i)] # NoRec

(* vdfs2_xattrtree_remove_all(): one attribute in a transaction. *)
DropXattr(i, a) ==
  /\ Dying(i) /\ a \in xa[i]
  /\ xa' = [xa EXCEPT ![i] = @ \ {a}]
  /\ UNCHANGED <<up, cat, hl, bits, rlink, rsz, dirs, cache, task, com, commits>>

(* It fails, and the orphan waits for the next mount. *)
EvictGivesUp(i) ==
  /\ up = "on" /\ Dying(i) /\ "xattr" \in Faults
  /\ Forget(i)
  /\ UNCHANGED <<up, trees, task, com, commits>>

(* Mutant: the attributes stay. *)
KillOrphanWithXattr(i) ==
  /\ Dying(i)
  /\ cat' = [cat EXCEPT ![OrphanKey(i)] = NoRec]
  /\ bits' = bits \ {i} /\ dirs' = dirs \ {i}
  /\ rlink' = [rlink EXCEPT ![i] = 0] /\ rsz' = [rsz EXCEPT ![i] = 0]
  /\ Forget(i)
  /\ UNCHANGED <<up, hl, xa, task, com, commits>>

(* vdfs2_kill_orphan_inode(): the record and the number. *)
KillOrphan(i) ==
  /\ Dying(i) /\ xa[i] = {}
  /\ cat' = [cat EXCEPT ![OrphanKey(i)] = NoRec]
  /\ bits' = bits \ {i} /\ dirs' = dirs \ {i}
  /\ rlink' = [rlink EXCEPT ![i] = 0] /\ rsz' = [rsz EXCEPT ![i] = 0]
  /\ Forget(i)
  /\ UNCHANGED <<up, hl, xa, task, com, commits>>

Next ==
  \/ Mount \/ MountEnd \/ PowerOff \/ Commit
  \/ \E k \in Key : Lookup(k) \/ Unlink(k) \/ UnlinkNoSpace(k)
  \/ \E d \in Dirs, n \in Name, i \in Ino :
       \/ CreateFails(d, n, i)
       \/ \E isdir \in BOOLEAN, a \in SUBSET Attr : Create(d, n, i, isdir, a)
  \/ \E from, to \in Key : Rename(from, to) \/ \E t \in Task : RenameReplace(t, from, to)
  \/ \E t \in Task, k \in Key :
       \/ LinkLookup(t, k) \/ Link(t, k) \/ LinkNoSpace(t, k) \/ LinkNoMemory(t, k)
       \/ LinkStale(t, k)
  \/ \E t \in Task : LinkRefused(t) \/ RenameMove(t) \/ RenameNoSpace(t)
  \/ \E i \in Ino :
       \/ WriteInode(i) \/ Evict(i) \/ EvictGivesUp(i) \/ KillOrphan(i)
       \/ \E a \in Attr : SetXattr(i, a) \/ RemoveXattr(i, a) \/ DropXattr(i, a)

Spec == Init /\ [][Next]_vars

--------------------------------------------------------------------------
(* Every variable keeps its type: no link count is negative or beyond      *)
(* VDFS2_LINK_MAX.                                                         *)
TypeOK ==
  /\ up \in {"off", "mounting", "on", "broken"}
  /\ cat \in [AllKey -> Rec \cup {NoRec}]
  /\ hl \subseteq Ino /\ bits \subseteq Ino /\ dirs \subseteq Ino
  /\ cached \subseteq Ino /\ hard \subseteq Ino
  /\ rlink \in [Ino -> 0 .. LinkMax] /\ ilink \in [Ino -> 0 .. LinkMax]
  /\ rsz \in [Dirs -> Nat] /\ isz \in [Dirs -> Nat]
  /\ xa \in [Ino -> SUBSET Attr]
  /\ ikey \in [Ino -> AllKey \cup {NoKey}]
  /\ \A t \in Task : task[t] # Idle => task[t].op \in {"link", "rename"} /\ task[t].ino \in Ino
  /\ commits \in 0 .. MaxCommit

Names(c, i)   == {k \in Key : c[k] # NoRec /\ c[k].ino = i}
Entries(c, d) == {k \in Key : k[1] = d /\ c[k] # NoRec}
Homes(c, i)   == {k \in AllKey : c[k] = FileRec(i)}

(* P holds for what was committed, and for the trees in memory. *)
Whole(P(_)) == P(com) /\ (up # "broken" => P(Trees))

(* The metadata of every inode number in use is in exactly one place: a    *)
(* catalog record, the hard link tree, or the orphans; a number is free in *)
(* the bitmap exactly if it is in none; and an hlink record leads to the   *)
(* hard link tree.  So it is in memory and in every committed snapshot,    *)
(* through link, unlink, rename, eviction and power failures.              *)
OneHome ==
  LET ok(v) ==
        /\ \A i \in Ino :
             Cardinality(Homes(v.cat, i)) + (IF i \in v.hl THEN 1 ELSE 0)
               = (IF i \in v.bits THEN 1 ELSE 0)
        /\ \A k \in AllKey : v.cat[k] # NoRec /\ v.cat[k].type = "hlink"
                               => v.cat[k].ino \in v.hl
  IN  Whole(ok)

(* The counts the driver trusts are right, in memory and in every          *)
(* committed snapshot, through link, unlink, rename and their failures:    *)
(* links_count is the number of names of an inode, total_items_count the   *)
(* number of entries of a directory, for which vdfs2_rmdir() asks i_size.  *)
(* And every entry is in the root or in a directory that has a name        *)
(* itself: none is cut off.                                                *)
CountsExact ==
  LET ok(v) == /\ \A i \in v.bits : v.rlink[i] = Cardinality(Names(v.cat, i))
               /\ \A d \in v.dirs \cup {Root} : v.rsz[d] = Cardinality(Entries(v.cat, d))
               /\ \A k \in Key : v.cat[k] # NoRec
                    => k[1] = Root \/ (k[1] \in v.dirs /\ Names(v.cat, k[1]) # {})
  IN  Whole(ok)

(* An inode number that is free has no extended attributes, in memory and  *)
(* in every committed snapshot: a new file does not inherit those of the   *)
(* last one with its number.                                               *)
XattrOwned ==
  LET ok(v) == \A i \in Ino : i \notin v.bits => v.xa[i] = {}
  IN  Whole(ok)

(* An inode in memory finds its record, and it has a link exactly if it    *)
(* has a name: vdfs2_write_inode_to_bnode() does not fail and the          *)
(* BUG_ON()s of vdfs2_unlink() are not reached.                            *)
InodeFindsRecord ==
  up = "on" => \A i \in cached \cap bits :
                 RecordFound(i) /\ (ilink[i] = 0 <=> Names(cat, i) = {})

==========================================================================
