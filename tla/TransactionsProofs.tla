------------------------ MODULE TransactionsProofs ------------------------
(***************************************************************************)
(* Proofs about module Transactions, for every number of tasks and inodes, *)
(* every depth of nesting and every failure: types, that a commit is alone *)
(* with whole operations, and that no change is forgotten.                 *)
(***************************************************************************)
EXTENDS Transactions, SequenceTheorems, TLAPS

(* The positions of an operation that has its transaction. *)
Inside == {"first", "mid", "inner", "outer", "end"}

Waits(p, mode) == \E n \in 1 .. Len(queue) : queue[n] = <<p, mode>>

(* Where a process is, what it has of the lock and the depth in its task   *)
(* log agree.                                                              *)
PlaceInv ==
  \A p \in Proc :
    /\ pc[p] \in Inside => p \in readers /\ log[p] >= 1
    /\ pc[p] \in {"first", "mid", "end"} => log[p] = 1
    /\ pc[p] \notin Inside => log[p] = 0
    /\ pc[p] \in {"mid", "inner", "outer"} => sync[p] = No
    /\ sync[p] # No => pc[p] \notin {"flush", "wait"}
    /\ sync[p] \in {Scan, Lock, Commit} => pc[p] = "idle"

(* Who holds transaction_lock, and who waits for it, is where he should be; *)
(* readers and the writer exclude each other.                              *)
LockInv ==
  /\ writer # NoProc => readers = {}
  /\ \A p \in Proc :
       /\ p \in readers => pc[p] \in Inside \cup {"start"} /\ ~Waits(p, "read")
       /\ writer = p => sync[p] \in {Lock, Commit} /\ ~Waits(p, "write")
       /\ Waits(p, "read") => pc[p] = "start"
       /\ Waits(p, "write") => sync[p] = Lock
       /\ sync[p] = Commit => writer = p /\ list = <<>>

(* Which process may be active at which time of a mount. *)
LifeInv ==
  /\ sync[Work] # No <=> umount = "read"
  /\ sync[Work] = No => pc[Work] = "idle"
  /\ sync[Admin] # No <=> life = "leaving"
  /\ life \notin {"mounting", "leaving"} => pc[Admin] = "idle"
  /\ life # "up" => \A p \in Task : pc[p] = "idle" /\ sync[p] = No
  /\ life # "up" => umount = "write"

(* Something is to be committed, or soon may be. *)
Pending == pend \/ \E p \in Proc : pc[p] \in Inside

(* A commit is on its way for it. *)
DelayedInv ==
  /\ life = "mounting" => timer # 0
  /\ life \in {"mounting", "up"} /\ Pending => timer # Off \/ sync[Work] # No \/ failed
  /\ life \in {"closing", "gone"} /\ pend => failed
  /\ life = "gone" => timer = Off

TxInv == TypeOK /\ PlaceInv /\ LockInv /\ LifeInv /\ DelayedInv
---------------------------------------------------------------------------
(* transaction_lock. *)

SemType ==
  /\ readers \subseteq Proc /\ writer \in Proc \cup {NoProc}
  /\ queue \in Seq(Proc \X {"read", "write"})
  /\ \A m, n \in 1 .. Len(queue) : queue[m][1] = queue[n][1] => m = n

(* Who joins the queue waits in the mode he asked for; nobody else's place *)
(* changes.                                                                *)
LEMMA Joins ==
  ASSUME SemType, NEW p \in Proc, NEW mode \in {"read", "write"},
         ~Waits(p, "read"), ~Waits(p, "write"),
         queue' = Append(queue, <<p, mode>>), readers' = readers, writer' = writer
  PROVE  /\ SemType'
         /\ \A q, m : Waits(q, m)' <=> Waits(q, m) \/ (q = p /\ m = mode)
<1> DEFINE Pair == Proc \X {"read", "write"}
<1>1. <<p, mode>> \in Pair
  OBVIOUS
<1>2. /\ queue' \in Seq(Pair) /\ Len(queue') = Len(queue) + 1 /\ Len(queue) \in Nat
      /\ \A n \in 1 .. Len(queue) : queue'[n] = queue[n]
      /\ queue'[Len(queue) + 1] = <<p, mode>>
  BY <1>1, AppendProperties DEF SemType
<1>3. \A n \in 1 .. Len(queue) : queue[n] \in Pair
  BY ElementOfSeq DEF SemType
<1>4. \A n \in 1 .. Len(queue) : queue[n][1] # p
  BY <1>3 DEF Waits
<1>5. \A m, n \in 1 .. Len(queue') : queue'[m][1] = queue'[n][1] => m = n
  BY <1>2, <1>4 DEF SemType
<1>6. ASSUME NEW q, NEW m
      PROVE  Waits(q, m)' <=> Waits(q, m) \/ (q = p /\ m = mode)
  <2>1. ASSUME Waits(q, m)' PROVE Waits(q, m) \/ (q = p /\ m = mode)
    <3>1. PICK n \in 1 .. Len(queue') : queue'[n] = <<q, m>>
      BY <2>1 DEF Waits
    <3>2. CASE n \in 1 .. Len(queue)
      BY <1>2, <3>1, <3>2 DEF Waits
    <3>3. CASE n = Len(queue) + 1
      BY <1>2, <3>1, <3>3
    <3> QED BY <1>2, <3>2, <3>3
  <2>2. ASSUME Waits(q, m) PROVE Waits(q, m)'
    <3>1. PICK n \in 1 .. Len(queue) : queue[n] = <<q, m>>
      BY <2>2 DEF Waits
    <3>2. n \in 1 .. Len(queue') /\ queue'[n] = <<q, m>>
      BY <1>2, <3>1
    <3> QED BY <3>2 DEF Waits
  <2>3. ASSUME q = p, m = mode PROVE Waits(q, m)'
    <3>1. Len(queue) + 1 \in 1 .. Len(queue') /\ queue'[Len(queue) + 1] = <<q, m>>
      BY <1>2, <2>3
    <3> QED BY <3>1 DEF Waits
  <2> QED BY <2>1, <2>2, <2>3
<1> QED BY <1>2, <1>5, <1>6 DEF SemType

(* Who leaves it at its head waits no longer. *)
LEMMA Leaves ==
  ASSUME SemType, queue # <<>>, queue' = Tail(queue),
         readers' \subseteq Proc, writer' \in Proc \cup {NoProc}
  PROVE  /\ SemType' /\ Head(queue)[1] \in Proc
         /\ Waits(Head(queue)[1], Head(queue)[2]) /\ Head(queue)[2] \in {"read", "write"}
         /\ \A q, m : Waits(q, m)' <=> Waits(q, m) /\ q # Head(queue)[1]
<1> DEFINE Pair == Proc \X {"read", "write"}
<1>1. /\ queue \in Seq(Pair) /\ Len(queue) \in Nat /\ Len(queue) >= 1
      /\ Head(queue) = queue[1] /\ queue[1] \in Pair
      /\ queue' \in Seq(Pair) /\ Len(queue') = Len(queue) - 1
      /\ \A n \in 1 .. Len(queue') : queue'[n] = queue[n + 1]
  BY HeadTailProperties, EmptySeq, ElementOfSeq DEF SemType
<1>2. \A n \in 1 .. Len(queue) : queue[n] \in Pair
  BY <1>1, ElementOfSeq
<1>3. \A m, n \in 1 .. Len(queue') : queue'[m][1] = queue'[n][1] => m = n
  BY <1>1 DEF SemType
<1>4. ASSUME NEW q, NEW m
      PROVE  Waits(q, m)' <=> Waits(q, m) /\ q # Head(queue)[1]
  <2>1. ASSUME Waits(q, m)' PROVE Waits(q, m) /\ q # Head(queue)[1]
    <3>1. PICK n \in 1 .. Len(queue') : queue'[n] = <<q, m>>
      BY <2>1 DEF Waits
    <3>2. n + 1 \in 1 .. Len(queue) /\ n + 1 # 1 /\ queue[n + 1] = <<q, m>>
      BY <1>1, <3>1
    <3>3. queue[n + 1][1] # queue[1][1]
      BY <1>1, <3>2 DEF SemType
    <3>4. Waits(q, m)
      BY <3>2 DEF Waits
    <3> QED BY <1>1, <3>2, <3>3, <3>4
  <2>2. ASSUME Waits(q, m), q # Head(queue)[1] PROVE Waits(q, m)'
    <3>1. PICK n \in 1 .. Len(queue) : queue[n] = <<q, m>>
      BY <2>2 DEF Waits
    <3>2. n # 1 /\ n - 1 \in 1 .. Len(queue') /\ queue'[n - 1] = queue[n]
      BY <1>1, <2>2, <3>1
    <3> QED BY <3>1, <3>2 DEF Waits
  <2> QED BY <2>1, <2>2
<1>5. Waits(Head(queue)[1], Head(queue)[2])
  <2>1. queue[1] = <<queue[1][1], queue[1][2]>>
    BY <1>1
  <2> QED BY <1>1, <2>1 DEF Waits
<1> QED BY <1>1, <1>3, <1>4, <1>5 DEF SemType

(* An untouched queue. *)
LEMMA QueueStays ==
  ASSUME UNCHANGED queue
  PROVE  \A q, m : Waits(q, m)' <=> Waits(q, m)
BY DEF Waits

(* down_read(): p holds the lock for reading, or waits for it. *)
LEMMA DownReadFacts ==
  ASSUME SemType, NEW p \in Proc, ~Waits(p, "read"), ~Waits(p, "write"), DownRead(p)
  PROVE  /\ SemType' /\ writer' = writer
         /\ \/ /\ writer = NoProc /\ readers' = readers \cup {p}
               /\ \A q, m : Waits(q, m)' <=> Waits(q, m)
            \/ /\ readers' = readers
               /\ \A q, m : Waits(q, m)' <=> Waits(q, m) \/ (q = p /\ m = "read")
<1>1. CASE writer = NoProc /\ queue = <<>>
  BY <1>1, QueueStays DEF DownRead, SemType
<1>2. CASE ~(writer = NoProc /\ queue = <<>>)
  <2>1. queue' = Append(queue, <<p, "read">>) /\ readers' = readers /\ writer' = writer
    BY <1>2 DEF DownRead
  <2> QED BY <2>1, Joins
<1> QED BY <1>1, <1>2

(* down_write(): p holds the lock for writing, or waits for it. *)
LEMMA DownWriteFacts ==
  ASSUME SemType, NEW p \in Proc, ~Waits(p, "read"), ~Waits(p, "write"), DownWrite(p)
  PROVE  /\ SemType' /\ readers' = readers
         /\ \/ /\ readers = {} /\ writer = NoProc /\ writer' = p
               /\ \A q, m : Waits(q, m)' <=> Waits(q, m)
            \/ /\ writer' = writer
               /\ \A q, m : Waits(q, m)' <=> Waits(q, m) \/ (q = p /\ m = "write")
<1>1. CASE writer = NoProc /\ readers = {} /\ queue = <<>>
  BY <1>1, QueueStays DEF DownWrite, SemType
<1>2. CASE ~(writer = NoProc /\ readers = {} /\ queue = <<>>)
  <2>1. queue' = Append(queue, <<p, "write">>) /\ readers' = readers /\ writer' = writer
    BY <1>2 DEF DownWrite
  <2> QED BY <2>1, Joins
<1> QED BY <1>1, <1>2

---------------------------------------------------------------------------
(* Each step preserves the invariant. *)

(* The processes are distinct. *)
LEMMA Procs ==
  /\ Work \in Proc /\ Admin \in Proc /\ Work # Admin /\ NoProc \notin Proc
  /\ \A p \in Task : p \in Proc /\ p # Work /\ p # Admin
  /\ \A p \in Proc : p \in Task \/ p = Work \/ p = Admin
BY TxConstants DEF Proc

(* So are the positions in vdfs2_sync_fs(). *)
LEMMA Positions ==
  /\ No # Scan /\ No # Lock /\ No # Commit
  /\ Scan # Lock /\ Scan # Commit /\ Lock # Commit
  /\ \A i \in Inode : i # No /\ i # Scan /\ i # Lock /\ i # Commit
BY TxConstants

(* The ranges of the timer and of the depth. *)
LEMMA Clock ==
  /\ Off \notin 0 .. Minute /\ Minute \in (0 .. Minute) /\ Second \in 0 .. Minute
  /\ 0 \in 0 .. Minute /\ Minute # 0 /\ MaxNest \in Nat /\ 1 \in 0 .. MaxNest
BY TxConstants

(* A mount begins in the invariant. *)
LEMMA InitTx == Init => TxInv
<1> SUFFICES ASSUME Init PROVE TxInv
  OBVIOUS
<1>1. queue = <<>> /\ Len(queue) = 0 /\ list = <<>> /\ queue \in Seq(Proc \X {"read", "write"})
      /\ list \in Seq(Inode)
  BY EmptySeq DEF Init
<1>2. TypeOK
  <2>1. log \in [Proc -> 0 .. MaxNest] /\ pc \in [Proc -> Pc]
        /\ sync \in [Proc -> {No, Scan, Lock, Commit} \cup Inode]
    BY Clock DEF Init, Pc
  <2>2. \A m, n \in 1 .. Len(queue) : queue[m][1] = queue[n][1] => m = n
    BY <1>1
  <2> QED BY <1>1, <2>1, <2>2 DEF Init, TypeOK
<1>3. \A q, m : ~Waits(q, m)
  BY <1>1 DEF Waits
<1>4. PlaceInv
  BY Positions, Clock DEF Init, PlaceInv, Inside
<1>5. LockInv
  BY <1>3, Positions, Procs DEF Init, LockInv
<1>6. LifeInv
  BY Procs DEF Init, LifeInv
<1>7. DelayedInv
  BY TxConstants DEF Init, DelayedInv, Pending, Inside
<1> QED BY <1>2, <1>4, <1>5, <1>6, <1>7 DEF TxInv

(* An outermost vdfs2_start_transaction(): of a new operation, or of the   *)
(* writeback of a sync.                                                    *)
LEMMA StartOuter ==
  ASSUME TxInv, NEW p \in Proc, log[p] = 0, vdfs2_start_transaction(p),
         \/ sync[p] \in Inode
         \/ sync[p] = No /\ ((p \in Task /\ life = "up") \/ (p = Admin /\ life = "mounting"))
  PROVE  TxInv'
<1>1. /\ pc[p] = "idle" /\ pc' = [pc EXCEPT ![p] = "start"] /\ DownRead(p)
      /\ UNCHANGED <<log, life, umount, sync, timer, list, data, pend, failed>>
  BY DEF vdfs2_start_transaction
<1>2. SemType /\ ~Waits(p, "read") /\ ~Waits(p, "write") /\ p \notin readers
  BY <1>1, Positions DEF TxInv, TypeOK, SemType, LockInv, Inside
<1>3. /\ SemType' /\ writer' = writer
      /\ \/ /\ writer = NoProc /\ readers' = readers \cup {p}
            /\ \A q, m : Waits(q, m)' <=> Waits(q, m)
         \/ /\ readers' = readers
            /\ \A q, m : Waits(q, m)' <=> Waits(q, m) \/ (q = p /\ m = "read")
  BY <1>1, <1>2, DownReadFacts
<1>4. TypeOK'
  BY <1>1, <1>3 DEF TxInv, TypeOK, SemType, Pc
<1>5. PlaceInv'
  BY <1>1, <1>3, Positions DEF TxInv, TypeOK, PlaceInv, Inside
<1>6. LockInv'
  BY <1>1, <1>2, <1>3, Positions, Procs DEF TxInv, TypeOK, LockInv, Inside
<1>7. LifeInv'
  BY <1>1, Positions, Procs DEF TxInv, TypeOK, LifeInv
<1>8. DelayedInv'
  BY <1>1 DEF TxInv, TypeOK, DelayedInv, Pending, Inside
<1> QED BY <1>4, <1>5, <1>6, <1>7, <1>8 DEF TxInv

(* A nested vdfs2_start_transaction(). *)
LEMMA StartNested ==
  ASSUME TxInv, NEW p \in Proc, log[p] # 0, vdfs2_start_transaction(p)
  PROVE  TxInv'
<1>1. /\ pc[p] \in {"mid", "inner"} /\ pc' = [pc EXCEPT ![p] = "inner"]
      /\ log[p] < MaxNest /\ log' = [log EXCEPT ![p] = log[p] + 1]
      /\ UNCHANGED <<readers, writer, queue>>
      /\ UNCHANGED <<life, umount, sync, timer, list, data, pend, failed>>
  BY DEF vdfs2_start_transaction, SetCount, rwsem
<1>2. \A q, m : Waits(q, m)' <=> Waits(q, m)
  BY <1>1, QueueStays
<1>3. log[p] + 1 \in 0 .. MaxNest /\ log[p] + 1 >= 1
  BY <1>1, Clock DEF TxInv, TypeOK
<1>4. TypeOK'
  BY <1>1, <1>3 DEF TxInv, TypeOK, Pc
<1>5. PlaceInv'
  BY <1>1, <1>3, Positions DEF TxInv, TypeOK, PlaceInv, Inside
<1>6. LockInv'
  BY <1>1, <1>2 DEF TxInv, TypeOK, LockInv, Inside
<1>7. LifeInv'
  BY <1>1, Procs DEF TxInv, TypeOK, LifeInv
<1>8. DelayedInv'
  BY <1>1 DEF TxInv, TypeOK, DelayedInv, Pending, Inside
<1> QED BY <1>4, <1>5, <1>6, <1>7, <1>8 DEF TxInv

(* The dirty list holds inodes. *)
LEMMA Listed ==
  ASSUME list \in Seq(Inode), NEW i \in Inode, vdfs2_put_inode_into_dirty_list(i)
  PROVE  list' \in Seq(Inode)
BY DEF vdfs2_put_inode_into_dirty_list

(* The lock is granted to the outermost start. *)
LEMMA StartedStep ==
  ASSUME TxInv, NEW p \in Proc, Started(p)
  PROVE  TxInv'
<1>1. /\ pc[p] = "start" /\ p \in readers
      /\ timer' = Minute /\ log' = [log EXCEPT ![p] = 1]
      /\ pc' = [q \in Proc |-> IF q = p THEN "first" ELSE IF pc[q] = "flush" THEN "idle" ELSE pc[q]]
      /\ UNCHANGED <<readers, writer, queue>>
      /\ UNCHANGED <<life, umount, sync, list, data, pend, failed>>
  BY DEF Started, SetCount, Flushes, rwsem
<1>2. \A q, m : Waits(q, m)' <=> Waits(q, m)
  BY <1>1, QueueStays
<1>3. TypeOK'
  BY <1>1, Clock DEF TxInv, TypeOK, Pc
<1>4. PlaceInv'
  BY <1>1, Positions, Clock DEF TxInv, TypeOK, PlaceInv, Inside
<1>5. LockInv'
  BY <1>1, <1>2, Positions, Procs DEF TxInv, TypeOK, LockInv, PlaceInv, Inside
<1>6. LifeInv'
  BY <1>1, Positions, Procs DEF TxInv, TypeOK, LifeInv, PlaceInv
<1>7. DelayedInv'
  BY <1>1, Positions, Procs, Clock DEF TxInv, TypeOK, DelayedInv, LifeInv, PlaceInv, Pending, Inside
<1> QED BY <1>3, <1>4, <1>5, <1>6, <1>7 DEF TxInv

(* The first change of an operation. *)
LEMMA ChangeStep ==
  ASSUME TxInv, NEW p \in Proc, Change(p)
  PROVE  TxInv'
<1>1. /\ pc[p] = "first" /\ sync[p] = No /\ pc' = [pc EXCEPT ![p] = "mid"] /\ pend' = TRUE
      /\ UNCHANGED <<readers, writer, queue>>
      /\ UNCHANGED <<life, umount, log, sync, timer, failed>>
      /\ \/ UNCHANGED <<list, data>>
         \/ \E i \in Inode : vdfs2_put_inode_into_dirty_list(i) /\ data' = data \cup {i}
  BY DEF Change, rwsem
<1>2. \A q, m : Waits(q, m)' <=> Waits(q, m)
  BY <1>1, QueueStays
<1>3. list' \in Seq(Inode) /\ data' \subseteq Inode
  BY <1>1, Listed DEF TxInv, TypeOK
<1>4. \A q \in Proc : sync[q] # Commit
  BY <1>1, Procs DEF TxInv, TypeOK, LockInv, PlaceInv, Inside
<1>5. TypeOK'
  BY <1>1, <1>3, <1>4 DEF TxInv, TypeOK, Pc
<1>6. PlaceInv'
  BY <1>1, <1>3, <1>4, Positions, Clock DEF TxInv, TypeOK, PlaceInv, Inside
<1>7. LockInv'
  BY <1>1, <1>2, <1>3, <1>4, Positions, Procs DEF TxInv, TypeOK, LockInv, PlaceInv, Inside
<1>8. LifeInv'
  BY <1>1, <1>3, <1>4, Positions, Procs DEF TxInv, TypeOK, LifeInv, PlaceInv
<1>9. DelayedInv'
  BY <1>1, <1>3, <1>4, Positions, Procs, Clock DEF TxInv, TypeOK, DelayedInv, LifeInv, PlaceInv, Pending, Inside
<1> QED BY <1>5, <1>6, <1>7, <1>8, <1>9 DEF TxInv

(* The second change of an operation. *)
LEMMA FinishStep ==
  ASSUME TxInv, NEW p \in Proc, Finish(p)
  PROVE  TxInv'
<1>1. /\ pc[p] \in {"mid", "outer"} /\ log[p] = 1 /\ pc' = [pc EXCEPT ![p] = "end"] /\ pend' = TRUE
      /\ UNCHANGED <<readers, writer, queue>>
      /\ UNCHANGED <<life, umount, log, sync, timer, list, data, failed>>
  BY DEF Finish, rwsem
<1>2. \A q, m : Waits(q, m)' <=> Waits(q, m)
  BY <1>1, QueueStays
<1>3. TypeOK'
  BY <1>1, Clock DEF TxInv, TypeOK, Pc
<1>4. PlaceInv'
  BY <1>1, Positions, Clock DEF TxInv, TypeOK, PlaceInv, Inside
<1>5. LockInv'
  BY <1>1, <1>2, Positions, Procs DEF TxInv, TypeOK, LockInv, PlaceInv, Inside
<1>6. LifeInv'
  BY <1>1, Positions, Procs DEF TxInv, TypeOK, LifeInv, PlaceInv
<1>7. DelayedInv'
  BY <1>1, Positions, Procs, Clock DEF TxInv, TypeOK, DelayedInv, LifeInv, PlaceInv, Pending, Inside
<1> QED BY <1>3, <1>4, <1>5, <1>6, <1>7 DEF TxInv

(* vdfs2_stop_transaction(), nested or outermost. *)
LEMMA StopStep ==
  ASSUME TxInv, NEW p \in Proc, vdfs2_stop_transaction(p)
  PROVE  TxInv'
<1>1. /\ \/ log[p] > 1 /\ pc[p] \in {"inner", "outer"} /\ readers' = readers
         \/ log[p] = 1 /\ pc[p] = "end" /\ readers' = readers \ {p}
      /\ log' = [log EXCEPT ![p] = log[p] - 1]
      /\ pc' = [pc EXCEPT ![p] = IF pc[p] = "end" THEN "idle" ELSE "outer"]
      /\ sync' = [sync EXCEPT ![p] = IF sync[p] \in Inode THEN Scan ELSE sync[p]]
      /\ UNCHANGED <<writer, queue>>
      /\ UNCHANGED <<life, umount, timer, list, data, pend, failed>>
  BY DEF vdfs2_stop_transaction, SetCount, UpRead, rwsem
<1>2. \A q, m : Waits(q, m)' <=> Waits(q, m)
  BY <1>1, QueueStays
<1>3. log[p] \in Nat /\ log[p] - 1 \in 0 .. MaxNest
  BY <1>1, Clock DEF TxInv, TypeOK
<1>4. TypeOK'
  BY <1>1, <1>3 DEF TxInv, TypeOK, Pc
<1>5. PlaceInv'
  BY <1>1, <1>3, Positions, Clock DEF TxInv, TypeOK, PlaceInv, Inside
<1>6. LockInv'
  BY <1>1, <1>2, <1>3, Positions, Procs DEF TxInv, TypeOK, LockInv, PlaceInv, Inside
<1>7. LifeInv'
  BY <1>1, <1>3, Positions, Procs DEF TxInv, TypeOK, LifeInv, PlaceInv
<1>8. DelayedInv'
  BY <1>1, <1>3, Positions, Procs, Clock DEF TxInv, TypeOK, DelayedInv, LifeInv, PlaceInv, Pending, Inside
<1> QED BY <1>4, <1>5, <1>6, <1>7, <1>8 DEF TxInv

(* vdfs2_file_fsync() calls vdfs2_sync_fs(). *)
LEMMA FsyncStep ==
  ASSUME TxInv, NEW p \in Task, vdfs2_file_fsync(p)
  PROVE  TxInv'
<1>1. /\ life = "up" /\ pc[p] = "idle" /\ sync[p] = No /\ sync' = [sync EXCEPT ![p] = Scan]
      /\ UNCHANGED <<readers, writer, queue>>
      /\ UNCHANGED <<life, umount, log, pc, timer, list, data, pend, failed>>
  BY DEF vdfs2_file_fsync, rwsem
<1>2. \A q, m : Waits(q, m)' <=> Waits(q, m)
  BY <1>1, QueueStays
<1>3. TypeOK'
  BY <1>1, Clock DEF TxInv, TypeOK, Pc
<1>4. PlaceInv'
  BY <1>1, Positions, Clock DEF TxInv, TypeOK, PlaceInv, Inside
<1>5. LockInv'
  BY <1>1, <1>2, Positions, Procs DEF TxInv, TypeOK, LockInv, PlaceInv, Inside
<1>6. LifeInv'
  BY <1>1, Positions, Procs DEF TxInv, TypeOK, LifeInv, PlaceInv
<1>7. DelayedInv'
  BY <1>1, Positions, Procs, Clock DEF TxInv, TypeOK, DelayedInv, LifeInv, PlaceInv, Pending, Inside
<1> QED BY <1>3, <1>4, <1>5, <1>6, <1>7 DEF TxInv

(* vdfs2_sync_fs() takes the next inode of the dirty list. *)
LEMMA SyncTakeStep ==
  ASSUME TxInv, NEW p \in Proc, SyncTake(p)
  PROVE  TxInv'
<1>1. /\ sync[p] = Scan /\ list # <<>> /\ list' = Tail(list)
      /\ sync' = [sync EXCEPT ![p] = IF Head(list) \in data THEN Head(list) ELSE sync[p]]
      /\ UNCHANGED <<readers, writer, queue>>
      /\ UNCHANGED <<life, umount, log, pc, timer, data, pend, failed>>
  BY DEF SyncTake, rwsem
<1>2. \A q, m : Waits(q, m)' <=> Waits(q, m)
  BY <1>1, QueueStays
<1>3. list' \in Seq(Inode) /\ Head(list) \in Inode
  BY <1>1, HeadTailProperties DEF TxInv, TypeOK
<1>4. \A q \in Proc : sync[q] # Commit
  BY <1>1 DEF TxInv, LockInv
<1>5. TypeOK'
  BY <1>1, <1>3, <1>4 DEF TxInv, TypeOK, Pc
<1>6. PlaceInv'
  BY <1>1, <1>3, <1>4, Positions, Clock DEF TxInv, TypeOK, PlaceInv, Inside
<1>7. LockInv'
  BY <1>1, <1>2, <1>3, <1>4, Positions, Procs DEF TxInv, TypeOK, LockInv, PlaceInv, Inside
<1>8. LifeInv'
  BY <1>1, <1>3, <1>4, Positions, Procs DEF TxInv, TypeOK, LifeInv, PlaceInv
<1>9. DelayedInv'
  BY <1>1, <1>3, <1>4, Positions, Procs, Clock DEF TxInv, TypeOK, DelayedInv, LifeInv, PlaceInv, Pending, Inside
<1> QED BY <1>5, <1>6, <1>7, <1>8, <1>9 DEF TxInv

(* The writeback of an inode. *)
LEMMA WritepagesStep ==
  ASSUME TxInv, NEW p \in Proc, vdfs2_mpage_writepages(p)
  PROVE  TxInv'
<1>1. /\ sync[p] \in Inode /\ pc[p] = "first" /\ pc' = [pc EXCEPT ![p] = "end"]
      /\ \/ vdfs2_put_inode_into_dirty_list(sync[p]) /\ pend' = TRUE
         \/ UNCHANGED <<list, pend>>
      /\ data' = data \ {sync[p]}
      /\ UNCHANGED <<readers, writer, queue>>
      /\ UNCHANGED <<life, umount, log, sync, timer, failed>>
  BY DEF vdfs2_mpage_writepages, rwsem
<1>2. \A q, m : Waits(q, m)' <=> Waits(q, m)
  BY <1>1, QueueStays
<1>3. list' \in Seq(Inode) /\ data' \subseteq Inode
  BY <1>1, Listed DEF TxInv, TypeOK
<1>4. \A q \in Proc : sync[q] # Commit
  BY <1>1, Procs DEF TxInv, TypeOK, LockInv, PlaceInv, Inside
<1>5. TypeOK'
  BY <1>1, <1>3, <1>4 DEF TxInv, TypeOK, Pc
<1>6. PlaceInv'
  BY <1>1, <1>3, <1>4, Positions, Clock DEF TxInv, TypeOK, PlaceInv, Inside
<1>7. LockInv'
  BY <1>1, <1>2, <1>3, <1>4, Positions, Procs DEF TxInv, TypeOK, LockInv, PlaceInv, Inside
<1>8. LifeInv'
  BY <1>1, <1>3, <1>4, Positions, Procs DEF TxInv, TypeOK, LifeInv, PlaceInv
<1>9. DelayedInv'
  BY <1>1, <1>3, <1>4, Positions, Procs, Clock DEF TxInv, TypeOK, DelayedInv, LifeInv, PlaceInv, Pending, Inside
<1> QED BY <1>5, <1>6, <1>7, <1>8, <1>9 DEF TxInv

(* A writeback that fails ends vdfs2_sync_fs(). *)
LEMMA WriteFailsStep ==
  ASSUME TxInv, NEW p \in Proc, SyncWriteFails(p)
  PROVE  TxInv'
<1>1. /\ sync[p] \in Inode /\ pc[p] = "first" /\ readers' = readers \ {p}
      /\ log' = [log EXCEPT ![p] = 0]
      /\ sync' = [sync EXCEPT ![p] = No]
      /\ \/ p # Work /\ pc' = [pc EXCEPT ![p] = "idle"]
         \/ p = Work /\ pc' = [q \in Proc |-> IF q = p \/ pc[q] = "wait" THEN "idle" ELSE pc[q]]
      /\ umount' = (IF p = Work THEN "free" ELSE umount)
      /\ life' = (IF p = Admin THEN "closing" ELSE life)
      /\ failed' = (failed \/ p \in {Work, Admin})
      /\ UNCHANGED <<writer, queue>> /\ UNCHANGED <<timer, list, data, pend>>
  BY DEF SyncWriteFails, SyncReturn, Flushes, UpRead, SetCount
<1>2. \A q, m : Waits(q, m)' <=> Waits(q, m)
  BY <1>1, QueueStays
<1>3. p \in readers /\ writer = NoProc /\ ~Waits(p, "read") /\ ~Waits(p, "write")
  BY <1>1, Positions, Procs DEF TxInv, TypeOK, LockInv, PlaceInv, Inside
<1>4. TypeOK'
  <2>1. pc' \in [Proc -> Pc]
    BY <1>1 DEF TxInv, TypeOK, Pc
  <2>2. log' \in [Proc -> 0 .. MaxNest]
    BY <1>1, Clock DEF TxInv, TypeOK
  <2>3. sync' \in [Proc -> {No, Scan, Lock, Commit} \cup Inode]
    BY <1>1 DEF TxInv, TypeOK
  <2>4. failed' \in BOOLEAN
    BY <1>1 DEF TxInv, TypeOK
  <2> QED BY <1>1, <2>1, <2>2, <2>3, <2>4 DEF TxInv, TypeOK
<1>5. PlaceInv'
  BY <1>1, Positions, Clock DEF TxInv, TypeOK, PlaceInv, Inside
<1>6. LockInv'
  BY <1>1, <1>2, <1>3, Positions, Procs DEF TxInv, TypeOK, LockInv, PlaceInv, Inside
<1>7. LifeInv'
  BY <1>1, Positions, Procs DEF TxInv, TypeOK, LifeInv, PlaceInv
<1>8. DelayedInv'
  BY <1>1, Positions, Procs, Clock DEF TxInv, TypeOK, DelayedInv, LifeInv, PlaceInv, Pending, Inside
<1> QED BY <1>4, <1>5, <1>6, <1>7, <1>8 DEF TxInv

(* down_write() of vdfs2_sync_fs(). *)
LEMMA SyncLockStep ==
  ASSUME TxInv, NEW p \in Proc, SyncLock(p)
  PROVE  TxInv'
<1>1. /\ sync[p] = Scan /\ list = <<>> /\ DownWrite(p) /\ sync' = [sync EXCEPT ![p] = Lock]
      /\ UNCHANGED <<life, umount, log, pc, timer, list, data, pend, failed>>
  BY DEF SyncLock
<1>2. SemType /\ ~Waits(p, "read") /\ ~Waits(p, "write") /\ pc[p] = "idle"
  BY <1>1, Positions DEF TxInv, TypeOK, SemType, LockInv, PlaceInv
<1>3. /\ SemType' /\ readers' = readers
      /\ \/ /\ readers = {} /\ writer = NoProc /\ writer' = p
            /\ \A q, m : Waits(q, m)' <=> Waits(q, m)
         \/ /\ writer' = writer
            /\ \A q, m : Waits(q, m)' <=> Waits(q, m) \/ (q = p /\ m = "write")
  BY <1>1, <1>2, DownWriteFacts
<1>4. TypeOK'
  BY <1>1, <1>2, <1>3 DEF TxInv, TypeOK, SemType, Pc
<1>5. PlaceInv'
  BY <1>1, <1>2, <1>3, Positions, Clock DEF TxInv, TypeOK, PlaceInv, Inside
<1>6. LockInv'
  BY <1>1, <1>2, <1>3, Positions, Procs DEF TxInv, TypeOK, LockInv, PlaceInv, Inside
<1>7. LifeInv'
  BY <1>1, <1>2, <1>3, Positions, Procs DEF TxInv, TypeOK, LifeInv, PlaceInv
<1>8. DelayedInv'
  BY <1>1, <1>2, <1>3, Positions, Procs, Clock DEF TxInv, TypeOK, DelayedInv, LifeInv, PlaceInv, Pending, Inside
<1> QED BY <1>4, <1>5, <1>6, <1>7, <1>8 DEF TxInv

(* With the lock, vdfs2_sync_fs() commits or goes back to the list. *)
LEMMA SyncCheckStep ==
  ASSUME TxInv, NEW p \in Proc, SyncCheck(p)
  PROVE  TxInv'
<1>1. /\ sync[p] = Lock /\ writer = p
      /\ \/ list = <<>> /\ sync' = [sync EXCEPT ![p] = Commit] /\ writer' = writer
         \/ list # <<>> /\ sync' = [sync EXCEPT ![p] = Scan] /\ writer' = NoProc
      /\ UNCHANGED <<readers, queue>>
      /\ UNCHANGED <<life, umount, log, pc, timer, list, data, pend, failed>>
  BY DEF SyncCheck, UpWrite, rwsem
<1>2. \A q, m : Waits(q, m)' <=> Waits(q, m)
  BY <1>1, QueueStays
<1>3. TypeOK'
  BY <1>1 DEF TxInv, TypeOK, Pc
<1>4. PlaceInv'
  BY <1>1, Positions, Clock DEF TxInv, TypeOK, PlaceInv, Inside
<1>5. LockInv'
  BY <1>1, <1>2, Positions, Procs DEF TxInv, TypeOK, LockInv, PlaceInv, Inside
<1>6. LifeInv'
  BY <1>1, Positions, Procs DEF TxInv, TypeOK, LifeInv, PlaceInv
<1>7. DelayedInv'
  BY <1>1, Positions, Procs, Clock DEF TxInv, TypeOK, DelayedInv, LifeInv, PlaceInv, Pending, Inside
<1> QED BY <1>3, <1>4, <1>5, <1>6, <1>7 DEF TxInv

(* The commit, successful or not. *)
LEMMA CommitStep ==
  ASSUME TxInv, NEW p \in Proc, vdfs2_update_metadata(p)
  PROVE  TxInv'
<1>1. /\ sync[p] = Commit /\ writer' = NoProc
      /\ sync' = [sync EXCEPT ![p] = No]
      /\ \/ p # Work /\ pc' = [pc EXCEPT ![p] = "idle"]
         \/ p = Work /\ pc' = [q \in Proc |-> IF q = p \/ pc[q] = "wait" THEN "idle" ELSE pc[q]]
      /\ umount' = (IF p = Work THEN "free" ELSE umount)
      /\ life' = (IF p = Admin THEN "closing" ELSE life)
      /\ \/ pend' = FALSE /\ failed' = FALSE
         \/ pend /\ pend' \in BOOLEAN /\ failed' = (failed \/ p \in {Work, Admin})
      /\ UNCHANGED <<readers, queue>> /\ UNCHANGED <<log, timer, list, data>>
  BY DEF vdfs2_update_metadata, SyncReturn, Flushes, UpWrite
<1>2. \A q, m : Waits(q, m)' <=> Waits(q, m)
  BY <1>1, QueueStays
<1>3. writer = p /\ readers = {} /\ pc[p] = "idle" /\ \A q \in Proc : pc[q] \notin Inside
  BY <1>1, Procs DEF TxInv, LockInv, PlaceInv
<1>4. TypeOK'
  BY <1>1, <1>3 DEF TxInv, TypeOK, Pc
<1>5. PlaceInv'
  BY <1>1, <1>3, Positions, Clock DEF TxInv, TypeOK, PlaceInv, Inside
<1>6. LockInv'
  BY <1>1, <1>2, <1>3, Positions, Procs DEF TxInv, TypeOK, LockInv, PlaceInv, Inside
<1>7. LifeInv'
  BY <1>1, <1>3, Positions, Procs DEF TxInv, TypeOK, LifeInv, PlaceInv
<1>8. DelayedInv'
  BY <1>1, <1>3, Positions, Procs, Clock DEF TxInv, TypeOK, DelayedInv, LifeInv, PlaceInv, Pending, Inside
<1> QED BY <1>4, <1>5, <1>6, <1>7, <1>8 DEF TxInv

(* The lock is handed to who waits at the head of the queue. *)
LEMMA WakeStep ==
  ASSUME TxInv, Wake
  PROVE  TxInv'
<1>1. /\ queue # <<>> /\ writer = NoProc /\ queue' = Tail(queue)
      /\ \/ /\ Head(queue)[2] = "read" /\ writer' = writer
            /\ readers' = readers \cup {Head(queue)[1]}
         \/ /\ Head(queue)[2] # "read" /\ readers = {} /\ readers' = readers
            /\ writer' = Head(queue)[1]
      /\ UNCHANGED <<life, umount, log, pc, sync, timer, list, data, pend, failed>>
  BY DEF Wake
<1> DEFINE p == Head(queue)[1]
<1>2. SemType /\ p \in Proc
  BY <1>1, HeadTailProperties DEF TxInv, TypeOK, SemType
<1>3. /\ SemType' /\ Waits(p, Head(queue)[2]) /\ Head(queue)[2] \in {"read", "write"}
      /\ \A q, m : Waits(q, m)' <=> Waits(q, m) /\ q # p
  BY <1>1, <1>2, Leaves DEF SemType
<1>4. \/ /\ Waits(p, "read") /\ writer' = NoProc /\ writer = NoProc
         /\ readers' = readers \cup {p}
      \/ /\ Waits(p, "write") /\ readers = {} /\ readers' = {} /\ writer' = p
  BY <1>1, <1>3
<1> HIDE DEF p
<1>5. TypeOK'
  BY <1>1, <1>2, <1>3, <1>4 DEF TxInv, TypeOK, SemType, Pc
<1>6. PlaceInv'
  BY <1>1, <1>2, <1>3, Positions, Clock DEF TxInv, TypeOK, PlaceInv, Inside
<1>7. LockInv'
  BY <1>1, <1>2, <1>3, <1>4, Positions, Procs DEF TxInv, TypeOK, LockInv, PlaceInv, Inside
<1>8. LifeInv'
  BY <1>1, <1>2, <1>3, Positions, Procs DEF TxInv, TypeOK, LifeInv, PlaceInv
<1>9. DelayedInv'
  BY <1>1, <1>2, <1>3, Positions, Procs, Clock DEF TxInv, TypeOK, DelayedInv, LifeInv, PlaceInv, Pending, Inside
<1> QED BY <1>5, <1>6, <1>7, <1>8, <1>9 DEF TxInv

(* The clock. *)
LEMMA TickStep ==
  ASSUME TxInv, Tick
  PROVE  TxInv'
<1>1. /\ timer # Off /\ timer # 0 /\ life # "mounting" /\ timer' = timer - 1
      /\ UNCHANGED <<readers, writer, queue>>
      /\ UNCHANGED <<life, umount, log, pc, sync, list, data, pend, failed>>
  BY DEF Tick, rwsem
<1>2. \A q, m : Waits(q, m)' <=> Waits(q, m)
  BY <1>1, QueueStays
<1>3. timer - 1 \in 0 .. Minute
  BY <1>1, TxConstants DEF TxInv, TypeOK
<1>4. TypeOK'
  BY <1>1, <1>3 DEF TxInv, TypeOK, Pc
<1>5. PlaceInv'
  BY <1>1, <1>3, Positions, Clock DEF TxInv, TypeOK, PlaceInv, Inside
<1>6. LockInv'
  BY <1>1, <1>2, <1>3, Positions, Procs DEF TxInv, TypeOK, LockInv, PlaceInv, Inside
<1>7. LifeInv'
  BY <1>1, <1>3, Positions, Procs DEF TxInv, TypeOK, LifeInv, PlaceInv
<1>8. DelayedInv'
  BY <1>1, <1>3, Positions, Procs, Clock DEF TxInv, TypeOK, DelayedInv, LifeInv, PlaceInv, Pending, Inside
<1> QED BY <1>4, <1>5, <1>6, <1>7, <1>8 DEF TxInv

(* vdfs2_delayed_commit() starts a sync or is put off. *)
LEMMA DelayedCommitStep ==
  ASSUME TxInv, vdfs2_delayed_commit
  PROVE  TxInv'
<1>1. /\ timer = 0 /\ sync[Work] = No
      /\ \/ /\ umount = "free" /\ umount' = "read" /\ sync' = [sync EXCEPT ![Work] = Scan]
            /\ timer' = Off
            /\ pc' = [q \in Proc |-> IF pc[q] = "flush" THEN "wait" ELSE pc[q]]
         \/ /\ umount # "free" /\ UNCHANGED <<umount, sync>>
            /\ timer' = (IF life \in {"up", "leaving"} THEN Second ELSE Off)
            /\ pc' = [q \in Proc |-> IF pc[q] = "flush" THEN "idle" ELSE pc[q]]
      /\ UNCHANGED <<readers, writer, queue>> /\ UNCHANGED <<life, log, list, data, pend, failed>>
  BY DEF vdfs2_delayed_commit, Flushes, rwsem
<1>2. \A q, m : Waits(q, m)' <=> Waits(q, m)
  BY <1>1, QueueStays
<1>3. TypeOK'
  BY <1>1, Procs, Clock DEF TxInv, TypeOK, Pc
<1>4. PlaceInv'
  BY <1>1, Positions, Procs, Clock DEF TxInv, TypeOK, PlaceInv, LifeInv, Inside
<1>5. LockInv'
  BY <1>1, <1>2, Positions, Procs DEF TxInv, TypeOK, LockInv, PlaceInv, Inside
<1>6. LifeInv'
  BY <1>1, Positions, Procs DEF TxInv, TypeOK, LifeInv, PlaceInv
<1>7. DelayedInv'
  BY <1>1, Positions, Procs, Clock DEF TxInv, TypeOK, DelayedInv, LifeInv, PlaceInv, Pending, Inside
<1> QED BY <1>3, <1>4, <1>5, <1>6, <1>7 DEF TxInv

(* flush_delayed_work() of a write without space. *)
LEMMA FlushStep ==
  ASSUME TxInv, NEW p \in Task, Flush(p)
  PROVE  TxInv'
<1>1. /\ life = "up" /\ pc[p] = "idle" /\ sync[p] = No /\ (timer # Off \/ sync[Work] # No)
      /\ pc' = [pc EXCEPT ![p] = IF timer = Off THEN "wait" ELSE "flush"]
      /\ timer' = (IF timer = Off THEN Off ELSE 0)
      /\ UNCHANGED <<readers, writer, queue>>
      /\ UNCHANGED <<life, umount, log, sync, list, data, pend, failed>>
  BY DEF Flush, rwsem
<1>2. \A q, m : Waits(q, m)' <=> Waits(q, m)
  BY <1>1, QueueStays
<1>3. TypeOK'
  BY <1>1, Clock DEF TxInv, TypeOK, Pc
<1>4. PlaceInv'
  BY <1>1, Positions, Clock DEF TxInv, TypeOK, PlaceInv, Inside
<1>5. LockInv'
  BY <1>1, <1>2, Positions, Procs DEF TxInv, TypeOK, LockInv, PlaceInv, Inside
<1>6. LifeInv'
  BY <1>1, Positions, Procs DEF TxInv, TypeOK, LifeInv, PlaceInv
<1>7. DelayedInv'
  BY <1>1, Positions, Procs, Clock DEF TxInv, TypeOK, DelayedInv, LifeInv, PlaceInv, Pending, Inside
<1> QED BY <1>3, <1>4, <1>5, <1>6, <1>7 DEF TxInv

(* Mount succeeds or fails; others take and drop s_umount. *)
LEMMA MountStep ==
  ASSUME TxInv, Mounted \/ MountFails \/ Hold \/ Unhold
  PROVE  TxInv'
<1>1. /\ \/ life = "mounting" /\ pc[Admin] = "idle" /\ life' = "up" /\ umount' = "free"
         \/ life = "mounting" /\ pc[Admin] = "idle" /\ life' = "failed" /\ umount' = umount
         \/ life = "up" /\ life' = life /\ umount = "free" /\ umount' = "write"
         \/ life = "up" /\ life' = life /\ umount = "write" /\ umount' = "free"
      /\ UNCHANGED <<readers, writer, queue>>
      /\ UNCHANGED <<log, pc, sync, timer, list, data, pend, failed>>
  BY DEF Mounted, MountFails, Hold, Unhold, rwsem
<1>2. \A q, m : Waits(q, m)' <=> Waits(q, m)
  BY <1>1, QueueStays
<1>3. TypeOK'
  BY <1>1 DEF TxInv, TypeOK, Pc
<1>4. PlaceInv'
  BY <1>1, Positions, Clock DEF TxInv, TypeOK, PlaceInv, Inside
<1>5. LockInv'
  BY <1>1, <1>2, Positions, Procs DEF TxInv, TypeOK, LockInv, PlaceInv, Inside
<1>6. LifeInv'
  BY <1>1, Positions, Procs DEF TxInv, TypeOK, LifeInv, PlaceInv
<1>7. DelayedInv'
  BY <1>1, Positions, Procs, Clock DEF TxInv, TypeOK, DelayedInv, LifeInv, PlaceInv, Pending, Inside
<1> QED BY <1>3, <1>4, <1>5, <1>6, <1>7 DEF TxInv

(* An unmount begins with a sync. *)
LEMMA UnmountStep ==
  ASSUME TxInv, Unmount
  PROVE  TxInv'
<1>1. /\ life = "up" /\ umount = "free" /\ \A p \in Task : pc[p] = "idle" /\ sync[p] = No
      /\ life' = "leaving" /\ umount' = "write" /\ sync' = [sync EXCEPT ![Admin] = Scan]
      /\ UNCHANGED <<readers, writer, queue>>
      /\ UNCHANGED <<log, pc, timer, list, data, pend, failed>>
  BY DEF Unmount, rwsem
<1>2. \A q, m : Waits(q, m)' <=> Waits(q, m)
  BY <1>1, QueueStays
<1>3. TypeOK'
  BY <1>1, Procs DEF TxInv, TypeOK, Pc
<1>4. PlaceInv'
  BY <1>1, Positions, Procs, Clock DEF TxInv, TypeOK, PlaceInv, LifeInv, Inside
<1>5. LockInv'
  BY <1>1, <1>2, Positions, Procs DEF TxInv, TypeOK, LockInv, LifeInv, PlaceInv, Inside
<1>6. LifeInv'
  BY <1>1, Positions, Procs DEF TxInv, TypeOK, LifeInv, PlaceInv
<1>7. DelayedInv'
  BY <1>1, Positions, Procs, Clock DEF TxInv, TypeOK, DelayedInv, LifeInv, PlaceInv, Pending, Inside
<1> QED BY <1>3, <1>4, <1>5, <1>6, <1>7 DEF TxInv

(* vdfs2_put_super() frees sbi. *)
LEMMA PutSuperStep ==
  ASSUME TxInv, vdfs2_put_super
  PROVE  TxInv'
<1>1. /\ life = "closing" /\ sync[Work] = No /\ timer' = Off /\ life' = "gone"
      /\ list' = <<>> /\ data' = {}
      /\ UNCHANGED <<readers, writer, queue>>
      /\ UNCHANGED <<umount, log, pc, sync, pend, failed>>
  BY DEF vdfs2_put_super, rwsem
<1>2. \A q, m : Waits(q, m)' <=> Waits(q, m)
  BY <1>1, QueueStays
<1>3. TypeOK'
  BY <1>1, EmptySeq DEF TxInv, TypeOK, Pc
<1>4. PlaceInv'
  BY <1>1, Positions, Clock DEF TxInv, TypeOK, PlaceInv, Inside
<1>5. LockInv'
  BY <1>1, <1>2, Positions, Procs DEF TxInv, TypeOK, LockInv, PlaceInv, Inside
<1>6. LifeInv'
  BY <1>1, Positions, Procs DEF TxInv, TypeOK, LifeInv, PlaceInv
<1>7. DelayedInv'
  BY <1>1, Positions, Procs, Clock DEF TxInv, TypeOK, DelayedInv, LifeInv, PlaceInv, Pending, Inside
<1> QED BY <1>3, <1>4, <1>5, <1>6, <1>7 DEF TxInv

---------------------------------------------------------------------------
(* The theorems. *)

(* Every step preserves it. *)
LEMMA NextTx == TxInv /\ [Next]_vars => TxInv'
<1> SUFFICES ASSUME TxInv, [Next]_vars PROVE TxInv'
  OBVIOUS
<1>1. CASE UNCHANGED vars
  <2>1. /\ UNCHANGED <<life, umount, readers, writer, queue, log, pc, sync>>
        /\ UNCHANGED <<timer, list, data, pend, failed>>
    BY <1>1 DEF vars, rwsem
  <2>2. TypeOK' /\ PlaceInv' /\ LifeInv' /\ DelayedInv'
    BY <2>1 DEF TxInv, TypeOK, PlaceInv, LifeInv, DelayedInv, Pending
  <2>3. LockInv'
    BY <2>1, QueueStays DEF TxInv, LockInv
  <2> QED BY <2>2, <2>3 DEF TxInv
<1>2. ASSUME NEW p \in Proc, Begin(p) PROVE TxInv'
  <2>1. /\ sync[p] = No /\ log[p] = 0 /\ vdfs2_start_transaction(p)
        /\ (p \in Task /\ life = "up") \/ (p = Admin /\ life = "mounting")
    BY <1>2 DEF Begin
  <2>2. \/ sync[p] \in Inode
        \/ sync[p] = No /\ ((p \in Task /\ life = "up") \/ (p = Admin /\ life = "mounting"))
    BY <2>1
  <2> QED BY <2>1, <2>2, StartOuter
<1>3. ASSUME NEW p \in Proc, Nest(p) PROVE TxInv'
  <2>1. log[p] # 0 /\ vdfs2_start_transaction(p)
    BY <1>3 DEF Nest
  <2> QED BY <2>1, StartNested
<1>4. ASSUME NEW p \in Proc, OpStep(p) PROVE TxInv'
  BY <1>4, StartedStep, ChangeStep, FinishStep, StopStep DEF OpStep
<1>5. ASSUME NEW p \in Proc, SyncStep(p) PROVE TxInv'
  <2>1. CASE SyncWrite(p)
    <3>1. sync[p] \in Inode /\ pc[p] = "idle" /\ vdfs2_start_transaction(p)
      BY <2>1 DEF SyncWrite
    <3>2. log[p] = 0
      BY <3>1 DEF TxInv, PlaceInv, Inside
    <3> QED BY <3>1, <3>2, StartOuter
  <2> QED BY <1>5, <2>1, SyncTakeStep, WritepagesStep, WriteFailsStep, SyncLockStep,
             SyncCheckStep, CommitStep DEF SyncStep
<1>6. ASSUME NEW p \in Task, vdfs2_file_fsync(p) \/ Flush(p) PROVE TxInv'
  BY <1>6, FsyncStep, FlushStep
<1>7. CASE Wake \/ Tick \/ vdfs2_delayed_commit
  BY <1>7, WakeStep, TickStep, DelayedCommitStep
<1>8. CASE Mounted \/ MountFails \/ Hold \/ Unhold \/ Unmount \/ vdfs2_put_super
  BY <1>8, MountStep, UnmountStep, PutSuperStep
<1> QED BY <1>1, <1>2, <1>3, <1>4, <1>5, <1>6, <1>7, <1>8 DEF Next, Step

(* The invariant holds in every state of every behaviour. *)
THEOREM TxInvariant == Spec => []TxInv
BY InitTx, NextTx, PTL DEF Spec

(* Every variable keeps its type and nobody waits twice for                *)
(* transaction_lock, although vdfs2_start_transaction() and                *)
(* vdfs2_sync_fs() call each other.                                        *)
THEOREM Types == Spec => []TypeOK
<1>1. TxInv => TypeOK
  BY DEF TxInv
<1> QED BY <1>1, TxInvariant, PTL

(* A commit has the metadata for itself: when vdfs2_sync_fs() writes it no *)
(* operation is half done, no transaction is open at any depth, no inode   *)
(* waits for writeback, and no second commit runs.                         *)
THEOREM CommitIsAlone == Spec => []CommitAlone
<1>1. TxInv => CommitAlone
  <2> SUFFICES ASSUME TxInv, NEW p \in Proc, sync[p] = Commit
               PROVE  /\ list = <<>>
                      /\ \A q \in Proc : ~Half(q) /\ log[q] = 0
                      /\ \A q \in Proc \ {p} : sync[q] # Commit
    BY DEF CommitAlone
  <2>1. writer = p /\ list = <<>> /\ readers = {}
    BY Procs DEF TxInv, LockInv
  <2>2. \A q \in Proc : pc[q] \notin Inside
    BY <2>1 DEF TxInv, PlaceInv
  <2>3. \A q \in Proc : ~Half(q) /\ log[q] = 0
    BY <2>2 DEF TxInv, PlaceInv, Half, Inside
  <2>4. \A q \in Proc \ {p} : sync[q] # Commit
    BY <2>1 DEF TxInv, LockInv
  <2> QED BY <2>1, <2>3, <2>4
<1> QED BY <1>1, TxInvariant, PTL

(* No change is forgotten: with the volume mounted and metadata dirty the  *)
(* delayed commit is armed or runs, and after vdfs2_put_super() nothing is *)
(* dirty and no work is left that would use the freed sbi, but for what a  *)
(* commit failed to write.                                                 *)
THEOREM NoChangeForgotten == Spec => []NothingForgotten
<1>1. TxInv => NothingForgotten
  BY Procs DEF TxInv, LifeInv, DelayedInv, Pending, NothingForgotten
<1> QED BY <1>1, TxInvariant, PTL
===========================================================================
