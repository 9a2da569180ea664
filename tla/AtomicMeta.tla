---------------------------- MODULE AtomicMeta ----------------------------
(***************************************************************************)
(* What the snapshot manager promises to the rest of the driver: the       *)
(* metadata chunks (b-tree nodes and bitmap pages of the special files)    *)
(* form a store whose updates reach the volume all together at a commit,   *)
(* and whose content after a power failure is that of the last commit.     *)
(*                                                                         *)
(* mem is the metadata as the running driver sees it, durable what the     *)
(* next mount will find, up says whether the volume is mounted.            *)
(***************************************************************************)
CONSTANTS Chunk,     \* <<special file, chunk index>>
          Val,       \* contents of a chunk
          NoVal      \* content of a chunk the file does not have

VARIABLES up, mem, durable

vars == <<up, mem, durable>>

Store == [Chunk -> Val \cup {NoVal}]

Init == /\ up = FALSE
        /\ durable \in Store
        /\ mem = durable

(* A transaction changes a chunk, or adds one at the end of a file. *)
Update(c, v) == /\ up
                /\ mem' = [mem EXCEPT ![c] = v]
                /\ UNCHANGED <<up, durable>>

(* A commit: everything at once. *)
Commit == /\ up
          /\ durable' = mem
          /\ UNCHANGED <<up, mem>>

(* Power failure or unmount: what was not committed is gone. *)
Stop == /\ up
        /\ up' = FALSE
        /\ mem' = durable
        /\ UNCHANGED durable

Start == /\ ~up
         /\ up' = TRUE
         /\ UNCHANGED <<mem, durable>>

Next == \/ \E c \in Chunk, v \in Val : Update(c, v)
        \/ Commit
        \/ Stop
        \/ Start

Spec == Init /\ [][Next]_vars
============================================================================
