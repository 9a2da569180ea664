--------------------------- MODULE Transactions ---------------------------
(***************************************************************************)
(* Transactions, vdfs2_sync_fs() and the delayed commit (snapshot.c,       *)
(* super.c, inode.c).                                                      *)
(*                                                                         *)
(* An operation that changes metadata runs between vdfs2_start_transaction *)
(* and vdfs2_stop_transaction.  The pair holds transaction_lock for        *)
(* reading, once per task whatever the nesting: a task log per pid counts  *)
(* the depth.  A commit holds the lock for writing.  Each outermost start  *)
(* puts the delayed commit off by a minute.  The commit itself first       *)
(* writes back the inodes of the dirty list, in transactions of its own    *)
(* that put the inode on the list again.                                   *)
(*                                                                         *)
(* An operation is two changes of the metadata that belong together, with  *)
(* nested transactions between them.  rw_semaphore, the work queue,        *)
(* s_umount and the order of an unmount are the kernel's.                  *)
(***************************************************************************)
EXTENDS Naturals, Sequences

CONSTANTS
  Task,         \* tasks that use the file system
  Work,         \* the worker that runs vdfs2_delayed_commit()
  Admin,        \* the task that mounts and unmounts
  Inode,        \* inodes that may have data to write back
  MaxNest,      \* bound: depth of nested transactions
  Minute,       \* 60 * HZ in steps of the clock
  Second,       \* HZ
  Off,          \* the delayed work is not pending
  NoProc,       \* nobody holds transaction_lock for writing
  No, Scan, Lock, Commit,  \* positions in vdfs2_sync_fs(), see sync
  Faults        \* what may fail: "write" (writeback), "commit", "mount"

Proc == Task \cup {Work, Admin}

ASSUME TxConstants ==
  /\ Work # Admin /\ Work \notin Task /\ Admin \notin Task
  /\ NoProc \notin Proc
  /\ {No, Scan, Lock, Commit} \cap Inode = {}
  /\ No \notin {Scan, Lock, Commit} /\ Scan \notin {Lock, Commit} /\ Lock # Commit
  /\ MaxNest \in Nat \ {0} /\ Minute \in Nat \ {0} /\ Second \in Nat
  /\ Off \notin 0 .. Minute /\ Second <= Minute
  /\ Faults \subseteq {"write", "commit", "mount"}

VARIABLES
  life,     \* "mounting", "up", "leaving" (an unmount syncs), "closing",
            \* "gone", "failed"; SB_ACTIVE is set in "up" and "leaving"
  umount,   \* s_umount: "free", "read" (the worker), "write"
  readers,  \* who holds transaction_lock for reading
  writer,   \* who holds it for writing
  queue,    \* who waits for it, with the mode
  log,      \* task logs: r_lock_count of a pid, 0 if it has no log yet
  pc,       \* where a process is in its operation, see Pc
  sync,     \* where it is in vdfs2_sync_fs(); an inode while it writes it
  timer,    \* delayed_commit: steps until it runs
  list,     \* dirty_list_head
  data,     \* inodes with delayed data in the page cache
  pend,     \* dirty_pages_count # 0
  failed    \* ghost: the last commit of the worker or of an unmount failed

rwsem == <<readers, writer, queue>>
vars  == <<life, umount, rwsem, log, pc, sync, timer, list, data, pend, failed>>

(* idle    outside                 inner   in a nested transaction         *)
(* start   waits for the lock      outer   left a nested one               *)
(* first   nothing changed yet     end     both changes are made           *)
(* mid     one of two changes made                                         *)
(* flush   in flush_delayed_work(), the commit is queued                   *)
(* wait    in flush_delayed_work(), the commit runs                        *)
Pc == {"idle", "start", "first", "mid", "inner", "outer", "end", "flush", "wait"}

(* The metadata in memory holds half of what the operation of p does. *)
Half(p) == pc[p] \in {"mid", "inner", "outer"}

Init ==
  /\ life = "mounting" /\ umount = "write"
  /\ readers = {} /\ writer = NoProc /\ queue = <<>>
  /\ log = [p \in Proc |-> 0]
  /\ pc = [p \in Proc |-> "idle"]
  /\ sync = [p \in Proc |-> No]
  /\ timer = Off
  /\ list = <<>> /\ data = {}
  /\ pend = FALSE /\ failed = FALSE

---------------------------------------------------------------------------
(* rw_semaphore (external): first come, first served; who comes while      *)
(* somebody waits has to wait as well.                                     *)

DownRead(p) ==
  IF writer = NoProc /\ queue = <<>>
    THEN readers' = readers \cup {p} /\ UNCHANGED <<writer, queue>>
    ELSE queue' = Append(queue, <<p, "read">>) /\ UNCHANGED <<readers, writer>>

DownWrite(p) ==
  IF writer = NoProc /\ readers = {} /\ queue = <<>>
    THEN writer' = p /\ UNCHANGED <<readers, queue>>
    ELSE queue' = Append(queue, <<p, "write">>) /\ UNCHANGED <<readers, writer>>

UpRead(p) == readers' = readers \ {p} /\ UNCHANGED <<writer, queue>>
UpWrite   == writer' = NoProc /\ UNCHANGED <<readers, queue>>

Wake ==
  /\ queue # <<>> /\ writer = NoProc
  /\ LET p == Head(queue)[1]
     IN IF Head(queue)[2] = "read"
          THEN readers' = readers \cup {p} /\ writer' = writer
          ELSE readers = {} /\ writer' = p /\ readers' = readers
  /\ queue' = Tail(queue)
  /\ UNCHANGED <<life, umount, log, pc, sync, timer, list, data, pend, failed>>

---------------------------------------------------------------------------
(* Task logs and transactions. *)

SetCount(p, n) == log' = [log EXCEPT ![p] = n]

(* pc when the flushes that are at f go on to g. *)
Flushes(f, g) == [p \in Proc |-> IF pc[p] = f THEN g ELSE pc[p]]

(* Mutant: a start that is nested locks again. *)
StartLocksAgain(p) ==
  /\ log[p] < MaxNest
  /\ \/ pc[p] = "idle" /\ pc' = [pc EXCEPT ![p] = "start"]
     \/ pc[p] \in {"mid", "inner"} /\ pc' = [pc EXCEPT ![p] = "start"]
  /\ DownRead(p)
  /\ UNCHANGED <<life, umount, log, sync, timer, list, data, pend, failed>>

(* Only the outermost start of a task takes the lock. *)
vdfs2_start_transaction(p) ==
  /\ IF log[p] = 0
       THEN /\ pc[p] = "idle" /\ pc' = [pc EXCEPT ![p] = "start"]
            /\ DownRead(p) /\ log' = log
       ELSE /\ pc[p] \in {"mid", "inner"} /\ pc' = [pc EXCEPT ![p] = "inner"]
            /\ log[p] < MaxNest
            /\ SetCount(p, log[p] + 1) /\ UNCHANGED rwsem
  /\ UNCHANGED <<life, umount, sync, timer, list, data, pend, failed>>

(* The lock is granted.  A commit that is queued is taken off the queue;   *)
(* who waits for it is let go.                                             *)
Started(p) ==
  /\ pc[p] = "start" /\ p \in readers
  /\ timer' = Minute
  /\ SetCount(p, 1)
  /\ pc' = [Flushes("flush", "idle") EXCEPT ![p] = "first"]
  /\ UNCHANGED <<life, umount, rwsem, sync, list, data, pend, failed>>

(* A writeback of vdfs2_sync_fs() goes on with the dirty list. *)
vdfs2_stop_transaction(p) ==
  /\ \/ log[p] > 1 /\ pc[p] \in {"inner", "outer"}
     \/ log[p] = 1 /\ pc[p] = "end"
  /\ IF log[p] = 1 THEN UpRead(p) ELSE UNCHANGED rwsem
  /\ SetCount(p, log[p] - 1)
  /\ pc' = [pc EXCEPT ![p] = IF @ = "end" THEN "idle" ELSE "outer"]
  /\ sync' = [sync EXCEPT ![p] = IF @ \in Inode THEN Scan ELSE @]
  /\ UNCHANGED <<life, umount, timer, list, data, pend, failed>>

OnList(i) == \E n \in 1 .. Len(list) : list[n] = i

vdfs2_put_inode_into_dirty_list(i) ==
  list' = IF OnList(i) THEN list ELSE <<i>> \o list

(* An operation begins: of a task, or on an orphan while the volume is     *)
(* being mounted.                                                          *)
Begin(p) ==
  /\ sync[p] = No /\ log[p] = 0
  /\ \/ p \in Task /\ life = "up"
     \/ p = Admin /\ life = "mounting"
  /\ vdfs2_start_transaction(p)

Nest(p) == log[p] > 0 /\ vdfs2_start_transaction(p)

(* The first change.  A write leaves data for a later writeback. *)
Change(p) ==
  /\ pc[p] = "first" /\ sync[p] = No
  /\ pc' = [pc EXCEPT ![p] = "mid"]
  /\ pend' = TRUE
  /\ \/ UNCHANGED <<list, data>>
     \/ /\ p \in Task
        /\ \E i \in Inode : /\ vdfs2_put_inode_into_dirty_list(i)
                            /\ data' = data \cup {i}
  /\ UNCHANGED <<life, umount, rwsem, log, sync, timer, failed>>

(* The second change. *)
Finish(p) ==
  /\ pc[p] \in {"mid", "outer"} /\ log[p] = 1
  /\ pc' = [pc EXCEPT ![p] = "end"]
  /\ pend' = TRUE
  /\ UNCHANGED <<life, umount, rwsem, log, sync, timer, list, data, failed>>

---------------------------------------------------------------------------
(* vdfs2_sync_fs(). *)

(* The caller: fsync and sync(2), the delayed work, an unmount. *)
SyncReturn(p, ok) ==
  /\ sync' = [sync EXCEPT ![p] = No]
  /\ pc' = [IF p = Work THEN Flushes("wait", "idle") ELSE pc
               EXCEPT ![p] = "idle"]
  /\ umount' = IF p = Work THEN "free" ELSE umount
  /\ life' = IF p = Admin THEN "closing" ELSE life
  /\ failed' = IF ok THEN FALSE ELSE failed \/ p \in {Work, Admin}

vdfs2_file_fsync(p) ==
  /\ life = "up" /\ p \in Task /\ pc[p] = "idle" /\ sync[p] = No
  /\ sync' = [sync EXCEPT ![p] = Scan]
  /\ UNCHANGED <<life, umount, rwsem, log, pc, timer, list, data, pend, failed>>

(* The next inode leaves the list; one without data needs no writeback. *)
SyncTake(p) ==
  /\ sync[p] = Scan /\ list # <<>>
  /\ list' = Tail(list)
  /\ sync' = [sync EXCEPT ![p] = IF Head(list) \in data THEN Head(list) ELSE @]
  /\ UNCHANGED <<life, umount, rwsem, log, pc, timer, data, pend, failed>>

(* vdfs2_mpage_writepages() starts a transaction. *)
SyncWrite(p) ==
  /\ sync[p] \in Inode /\ pc[p] = "idle"
  /\ vdfs2_start_transaction(p)

(* Mutant: the inode is listed whether there was something to write or not. *)
WritesAlways(p) ==
  /\ sync[p] \in Inode /\ pc[p] = "first"
  /\ vdfs2_put_inode_into_dirty_list(sync[p])
  /\ pend' = TRUE /\ data' = data
  /\ pc' = [pc EXCEPT ![p] = "end"]
  /\ UNCHANGED <<life, umount, rwsem, log, sync, timer, failed>>

(* Allocation writes the inode to its record, which lists it again; the    *)
(* pages may have been written by somebody else meanwhile.                 *)
vdfs2_mpage_writepages(p) ==
  /\ sync[p] \in Inode /\ pc[p] = "first"
  /\ IF sync[p] \in data
       THEN vdfs2_put_inode_into_dirty_list(sync[p]) /\ pend' = TRUE
       ELSE UNCHANGED <<list, pend>>
  /\ data' = data \ {sync[p]}
  /\ pc' = [pc EXCEPT ![p] = "end"]
  /\ UNCHANGED <<life, umount, rwsem, log, sync, timer, failed>>

(* Mutant: the error path closes the transaction twice. *)
FailsAndStopsTwice(p) ==
  /\ "write" \in Faults
  /\ sync[p] \in Inode /\ pc[p] = "first"
  /\ UpRead(p) /\ SetCount(p, log[p] - 2)
  /\ SyncReturn(p, FALSE)
  /\ UNCHANGED <<timer, list, data, pend>>

(* An error of the writeback ends the sync: the transaction is closed, the *)
(* inode stays off the list.                                               *)
SyncWriteFails(p) ==
  /\ "write" \in Faults
  /\ sync[p] \in Inode /\ pc[p] = "first"
  /\ UpRead(p) /\ SetCount(p, 0)
  /\ SyncReturn(p, FALSE)
  /\ UNCHANGED <<timer, list, data, pend>>

SyncLock(p) ==
  /\ sync[p] = Scan /\ list = <<>>
  /\ DownWrite(p)
  /\ sync' = [sync EXCEPT ![p] = Lock]
  /\ UNCHANGED <<life, umount, log, pc, timer, list, data, pend, failed>>

(* Mutant: the commit does not wait for the lock. *)
CheckBeforeLock(p) ==
  /\ sync[p] = Lock
  /\ sync' = [sync EXCEPT ![p] = IF list = <<>> THEN Commit ELSE Scan]
  /\ UNCHANGED <<life, umount, rwsem, log, pc, timer, list, data, pend, failed>>

(* With the lock the list is looked at again. *)
SyncCheck(p) ==
  /\ sync[p] = Lock /\ writer = p
  /\ IF list = <<>>
       THEN sync' = [sync EXCEPT ![p] = Commit] /\ UNCHANGED rwsem
       ELSE sync' = [sync EXCEPT ![p] = Scan] /\ UpWrite
  /\ UNCHANGED <<life, umount, log, pc, timer, list, data, pend, failed>>

(* vdfs2_sync_metadata() does nothing without dirty pages.  When it fails  *)
(* the changes stay pending, unless it was the write of the table: they    *)
(* count as written then, until the next change.                           *)
vdfs2_update_metadata(p) ==
  /\ sync[p] = Commit
  /\ UpWrite
  /\ \/ pend' = FALSE /\ SyncReturn(p, TRUE)
     \/ pend /\ "commit" \in Faults /\ pend' \in BOOLEAN /\ SyncReturn(p, FALSE)
  /\ UNCHANGED <<log, timer, list, data>>

---------------------------------------------------------------------------
(* The delayed commit. *)

(* Mount takes less than a minute. *)
Tick ==
  /\ timer # Off /\ timer # 0 /\ life # "mounting"
  /\ timer' = timer - 1
  /\ UNCHANGED <<life, umount, rwsem, log, pc, sync, list, data, pend, failed>>

(* Mutant: a commit that meets a holder of s_umount is not tried again. *)
CommitGivesUp ==
  /\ timer = 0 /\ sync[Work] = No
  /\ timer' = Off
  /\ IF umount = "free"
       THEN /\ umount' = "read" /\ sync' = [sync EXCEPT ![Work] = Scan]
            /\ pc' = Flushes("flush", "wait")
       ELSE pc' = Flushes("flush", "idle") /\ UNCHANGED <<umount, sync>>
  /\ UNCHANGED <<life, rwsem, log, list, data, pend, failed>>

(* Mutant: the commit is armed again for the next minute in any case. *)
CommitRearms ==
  /\ timer = 0 /\ sync[Work] = No
  /\ timer' = Minute
  /\ IF umount = "free"
       THEN /\ umount' = "read" /\ sync' = [sync EXCEPT ![Work] = Scan]
            /\ pc' = Flushes("flush", "wait")
       ELSE pc' = Flushes("flush", "idle") /\ UNCHANGED <<umount, sync>>
  /\ UNCHANGED <<life, rwsem, log, list, data, pend, failed>>

vdfs2_delayed_commit ==
  /\ timer = 0 /\ sync[Work] = No
  /\ IF umount = "free"
       THEN /\ umount' = "read" /\ sync' = [sync EXCEPT ![Work] = Scan]
            /\ timer' = Off
            /\ pc' = Flushes("flush", "wait")
       ELSE /\ timer' = IF life \in {"up", "leaving"} THEN Second ELSE Off
            /\ pc' = Flushes("flush", "idle")
            /\ UNCHANGED <<umount, sync>>
  /\ UNCHANGED <<life, rwsem, log, list, data, pend, failed>>

(* vdfs2_file_write_iter() without space: flush_delayed_work() runs a      *)
(* pending commit now and waits for it.                                    *)
Flush(p) ==
  /\ p \in Task /\ life = "up" /\ pc[p] = "idle" /\ sync[p] = No
  /\ timer # Off \/ sync[Work] # No
  /\ pc' = [pc EXCEPT ![p] = IF timer = Off THEN "wait" ELSE "flush"]
  /\ timer' = IF timer = Off THEN Off ELSE 0
  /\ UNCHANGED <<life, umount, rwsem, log, sync, list, data, pend, failed>>

---------------------------------------------------------------------------
(* Mount and unmount. *)

Mounted ==
  /\ life = "mounting" /\ pc[Admin] = "idle"
  /\ life' = "up" /\ umount' = "free"
  /\ UNCHANGED <<rwsem, log, pc, sync, timer, list, data, pend, failed>>

(* An error after the orphans were processed frees sbi; a pending commit   *)
(* stays pending.                                                          *)
MountFails ==
  /\ "mount" \in Faults
  /\ life = "mounting" /\ pc[Admin] = "idle"
  /\ life' = "failed"
  /\ UNCHANGED <<umount, rwsem, log, pc, sync, timer, list, data, pend, failed>>

(* Another holder of s_umount, such as a remount (external). *)
Hold ==
  /\ life = "up" /\ umount = "free"
  /\ umount' = "write"
  /\ UNCHANGED <<life, rwsem, log, pc, sync, timer, list, data, pend, failed>>

Unhold ==
  /\ life = "up" /\ umount = "write"
  /\ umount' = "free"
  /\ UNCHANGED <<life, rwsem, log, pc, sync, timer, list, data, pend, failed>>

(* Nobody uses the volume any more: the kernel syncs it with s_umount held *)
(* (external).                                                             *)
Unmount ==
  /\ life = "up" /\ umount = "free"
  /\ \A p \in Task : pc[p] = "idle" /\ sync[p] = No
  /\ life' = "leaving" /\ umount' = "write"
  /\ sync' = [sync EXCEPT ![Admin] = Scan]
  /\ UNCHANGED <<rwsem, log, pc, timer, list, data, pend, failed>>

(* Inodes are evicted; the work is cancelled, or waited for if it runs;    *)
(* then sbi is freed.                                                      *)
vdfs2_put_super ==
  /\ life = "closing" /\ sync[Work] = No
  /\ timer' = Off
  /\ life' = "gone"
  /\ list' = <<>> /\ data' = {}
  /\ UNCHANGED <<umount, rwsem, log, pc, sync, pend, failed>>

SyncStep(p) ==
  \/ SyncTake(p) \/ SyncWrite(p) \/ vdfs2_mpage_writepages(p)
  \/ SyncWriteFails(p) \/ SyncLock(p) \/ SyncCheck(p)
  \/ vdfs2_update_metadata(p)

OpStep(p) == Started(p) \/ Change(p) \/ Finish(p) \/ vdfs2_stop_transaction(p)

Step ==
  \/ \E p \in Proc : Begin(p) \/ Nest(p) \/ OpStep(p) \/ SyncStep(p)
  \/ \E p \in Task : vdfs2_file_fsync(p) \/ Flush(p)
  \/ Wake \/ Tick \/ vdfs2_delayed_commit
  \/ Mounted \/ MountFails \/ Hold \/ Unhold \/ Unmount \/ vdfs2_put_super

(* Nothing is left to be done when sbi is freed. *)
Next == life \notin {"gone", "failed"} /\ Step

(* Operations and commits run to their end, the lock is handed on, time    *)
(* passes, the worker runs, and whoever holds s_umount lets it go.         *)
Fairness ==
  /\ \A p \in Proc : WF_vars(OpStep(p)) /\ WF_vars(SyncStep(p))
  /\ WF_vars(Wake) /\ WF_vars(Tick) /\ WF_vars(vdfs2_delayed_commit)
  /\ WF_vars(Mounted) /\ WF_vars(Unhold) /\ WF_vars(vdfs2_put_super)

Spec == Init /\ [][Next]_vars /\ Fairness

---------------------------------------------------------------------------
(* Every variable stays in its range, and who waits for the lock waits     *)
(* once.                                                                   *)
TypeOK ==
  /\ life \in {"mounting", "up", "leaving", "closing", "gone", "failed"}
  /\ umount \in {"free", "read", "write"}
  /\ readers \subseteq Proc /\ writer \in Proc \cup {NoProc}
  /\ queue \in Seq(Proc \X {"read", "write"})
  /\ \A m, n \in 1 .. Len(queue) : queue[m][1] = queue[n][1] => m = n
  /\ log \in [Proc -> 0 .. MaxNest]
  /\ pc \in [Proc -> Pc]
  /\ sync \in [Proc -> {No, Scan, Lock, Commit} \cup Inode]
  /\ timer \in (0 .. Minute) \cup {Off}
  /\ list \in Seq(Inode) /\ data \subseteq Inode
  /\ pend \in BOOLEAN /\ failed \in BOOLEAN

(* While a commit writes the metadata no operation is half done and no     *)
(* inode waits on the dirty list: BUG_ON(snapshot_info->flags) in          *)
(* vdfs2_add_chunk_no_lock() never fires, and a snapshot holds whole       *)
(* operations only, at every depth of nesting and with several callers of  *)
(* vdfs2_sync_fs().                                                        *)
CommitAlone ==
  \A p \in Proc : sync[p] = Commit =>
    /\ list = <<>>
    /\ \A q \in Proc : ~Half(q) /\ log[q] = 0
    /\ \A q \in Proc \ {p} : sync[q] # Commit

(* Changed metadata is never forgotten.  While the volume is mounted a     *)
(* commit is pending or running: the timer is set by the start of the      *)
(* transaction, before anything is changed, and a worker that cannot have  *)
(* s_umount sets it again.  When vdfs2_put_super() has freed sbi nothing   *)
(* is left uncommitted, and the delayed commit is neither pending nor      *)
(* running, whatever transactions the unmount itself started.  Excepted    *)
(* is what the last commit of the worker or the unmount failed to write,   *)
(* and what a failing write of the table counts as written.                *)
NothingForgotten ==
  /\ life = "up" /\ pend => timer # Off \/ sync[Work] # No \/ failed
  /\ life = "gone" => timer = Off /\ sync[Work] = No /\ (pend => failed)

(* vdfs2_start_transaction() returns: commits, other transactions and the  *)
(* waiting writers never block it for ever, and a nested start never waits *)
(* for the writer that waits for its own task.                             *)
StartReturns == \A p \in Proc : pc[p] = "start" ~> pc[p] # "start"

(* From some time on no operation begins and nobody new takes s_umount. *)
Quiet == <>[][~Hold /\ \A p \in Proc : ~Begin(p)]_vars

(* vdfs2_sync_fs() ends once no operation begins any more, although its    *)
(* own writeback puts inodes on the list it empties; so does the           *)
(* flush_delayed_work() of a write without space.                          *)
SyncReturns ==
  Quiet => \A p \in Proc : sync[p] # No \/ pc[p] \in {"flush", "wait"}
                                ~> sync[p] = No /\ pc[p] = "idle"

(* Once no operation begins any more everything is committed and the       *)
(* delayed commit comes to rest, although writeback starts transactions    *)
(* that put it off; unless a commit fails.                                 *)
Quiesces ==
  Quiet => <>[](~pend /\ timer = Off) \/ []<>(failed \/ life = "failed")

===========================================================================
