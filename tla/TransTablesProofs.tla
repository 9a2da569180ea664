------------------------- MODULE TransTablesProofs -------------------------
(***************************************************************************)
(* Proofs about module TransTables, for every length of the chains of      *)
(* extended tables, every size of the areas and every number of mounts,    *)
(* changes and power failures.                                             *)
(***************************************************************************)
EXTENDS TransTables, NatFacts, TLAPS

(* Places in vdfs2_sync_metadata() before and after the table is written,  *)
(* with a super block still to be written.                                 *)
AtSb1 == pc \in {"sb1", "sb1 written"}
Up    == pc # "off"

(* No table mixes two histories. *)
PureInv ==
  /\ {id, rel, good} \subseteq Table
  /\ \A s \in Slot : base[s] # Bad => base[s].id \in Table
  /\ \A s \in Slot, k \in 1 .. MaxExt : ext[s][k] # Bad => ext[s][k].id \in Table

(* One of the super blocks is always valid, the copy is the one in memory  *)
(* while the table and the first one are written, and a mounted volume     *)
(* with a clean super block has the mount count of this mount twice.       *)
SuperInv ==
  /\ sb[1] = Bad => pc \in {"off", "sb1 written"} /\ sb[2] # Bad
  /\ sb[2] = Bad => pc \in {"off", "sb2 written"}
  /\ exdirty /\ pc \in {"meta", "base", "sb1", "sb1 written"} => sb[2] = exsb
  /\ pc = "meta" /\ exdirty => useBase
  /\ pc = "ext" => ~exdirty
  /\ pc \in {"sb2", "sb2 written", "sb1", "sb1 written"} => exdirty
  /\ Up /\ ~exdirty => sb[1].mount = exsb.mount /\ sb[2].mount = exsb.mount
  /\ Up => \A i \in 1 .. 2 : sb[i] # Bad => sb[i].mount <= exsb.mount

(* The position of the next table follows the count of extended tables. *)
PlaceInv ==
  /\ isec[2] <= extn + 1
  /\ pc = "ext" => isec[2] <= extn
  /\ pc = "ext" /\ isec[2] = 0 => base[isec[1]] = Bad
  /\ pc = "ext" /\ isec[2] # 0 => ext[isec[1]][isec[2]] = Bad
  /\ pc = "base" => isec[2] = 0 /\ extn = 0 /\ isec[1] \in {0, exsb.lv} /\ base[isec[1]] = Bad

(* An extended table is older than the next one, and the super blocks know *)
(* of its mount.                                                           *)
ExtInv ==
  \A s \in Slot, k \in 1 .. MaxExt : ext[s][k] # Bad =>
    /\ \A i \in 1 .. 2 : sb[i] # Bad => ext[s][k].ver[1] <= sb[i].mount
    /\ Up => /\ ext[s][k].ver[1] <= exsb.mount
             /\ ext[s][k].ver[1] = exsb.mount => ext[s][k].ver[2] < sync

(* What the k-th extended table of slot s is relative to. *)
Before(s, k) == IF k = 1 THEN base[s].id ELSE ext[s][k - 1].id

(* Extended tables whose version follows on are relative to each other. *)
ChainInv ==
  \A s \in Slot, k \in 1 .. MaxExt :
    base[s] # Bad /\ Follows(s, k) => ext[s][k].rel = Before(s, k)

(* When the next table may be an extended one: the table before it, if it  *)
(* is the last version, has the content the records are relative to.       *)
Settled == Up /\ (~exdirty \/ AtSb1)

LastInv ==
  Settled =>
    /\ isec[2] = 1 /\ base[isec[1]] # Bad /\ base[isec[1]].ver[1] = exsb.mount =>
         /\ base[isec[1]].ver[2] < sync
         /\ base[isec[1]].ver[2] = sync - 1 => base[isec[1]].id = rel
    /\ isec[2] > 1 /\ ext[isec[1]][isec[2] - 1] # Bad
         /\ ext[isec[1]][isec[2] - 1].ver = <<exsb.mount, sync - 1>> =>
           ext[isec[1]][isec[2] - 1].id = rel

TablesInv ==
  TypeOK /\ PureInv /\ SuperInv /\ PlaceInv /\ ExtInv /\ ChainInv /\ LastInv

---------------------------------------------------------------------------
(* No write of a super block failed and no growth was refused. *)
Sound == broken \subseteq {"table"}

(* The first super block is never ahead of the copy. *)
SbOrder ==
  /\ Sb1.mount <= Sb2.mount
  /\ Sb1.mount # Sb2.mount /\ Sb1.meta = Sb2.meta => Sb1.lv = Sb2.lv

(* The copy knows of the mount of every base table, and the first super    *)
(* block too, except between the write of a table and its own.             *)
CopyKnows ==
  \A s \in Slot : base[s] # Bad =>
    /\ base[s].ver[1] >= 1 /\ base[s].ver[1] <= Sb2.mount
    /\ base[s].ver[1] > Sb1.mount => s \in {0, Sb2.lv}

FirstKnows ==
  pc \notin {"off", "sb1", "sb1 written"} =>
    \A s \in Slot : base[s] # Bad => base[s].ver[1] <= sb[1].mount

(* The next table is newer than every base table. *)
NextNewer ==
  Up => \A s \in Slot : base[s] # Bad => Newer(<<exsb.mount, sync>>, base[s].ver)

BaseKnown == CopyKnows /\ FirstKnows /\ NextNewer

(* The super block in memory is ahead of the first one on the volume, and  *)
(* equal to both when it is clean.                                         *)
Geometry ==
  Up => /\ exsb.mount >= 1 /\ tpages = exsb.meta
        /\ sb[1] # Bad => /\ exsb.meta >= sb[1].meta
                          /\ exsb.meta = sb[1].meta => exsb.lv = sb[1].lv
        /\ ~exdirty => sb[1] = exsb /\ sb[2] = exsb

VersionInv == Sound => SbOrder /\ BaseKnown /\ Geometry

(* Slot s holds the newest base table, followed by n extended tables, and  *)
(* together they are the last table that was written completely.           *)
Current(s, n) ==
  /\ base[s] # Bad /\ base[s].ver[1] >= 1
  /\ \A t \in Slot \ {s} : base[t] # Bad => Newer(base[s].ver, base[t].ver)
  /\ n \in 0 .. MaxExt /\ Follows(s, n) /\ (n < MaxExt => ~Follows(s, n + 1))
  /\ good = IF n = 0 THEN base[s].id ELSE ext[s][n].id

(* The volume is whole: no write failed since the last base table, and the *)
(* super blocks had the same geometry whenever power was lost.             *)
Healthy == broken = {} /\ ~geoCrash

VolumeCurrent ==
  \E s \in {0, Sb1.lv}, n \in 0 .. MaxExt : Current(s, n) /\ base[s].meta = Sb1.meta

(* While the volume is mounted, the next table goes behind the current     *)
(* one, which belongs to the metadata area of the first super block.       *)
AtTable(s, n) ==
  /\ isec = <<s, n + 1>> /\ Current(s, n)
  /\ extn = IF pc = "ext" THEN n + 1 ELSE n
  /\ IF AtSb1 THEN base[s].meta = exsb.meta /\ s \in {0, exsb.lv}
              ELSE base[s].meta = sb[1].meta /\ s \in {0, sb[1].lv}
  /\ Settled => base[s].ver = <<exsb.mount, sync - (n + 1)>>

OffInv  == Sound /\ ~geoCrash /\ ~Up => SameGeometry
RestInv == Healthy /\ pc \in {"off", "base"} /\ SameGeometry => VolumeCurrent
UpInv   == Healthy /\ pc \notin {"off", "base"} => \E s \in Slot, n \in 0 .. MaxExt : AtTable(s, n)

CurrentInv == OffInv /\ RestInv /\ UpInv

(* Nothing fails and nothing grows. *)
Plain == Faults = {} /\ MaxMeta = 1

PlainInv ==
  Plain => /\ ~geoCrash /\ exsb.lv = 1
           /\ \A i \in 1 .. 2 : sb[i] # Bad => sb[i].lv = 1

---------------------------------------------------------------------------
(* Chains of extended tables. *)

(* Every slot has a chain: the extended tables up to the first that does   *)
(* not follow.                                                             *)
LEMMA ChainFacts ==
  ASSUME NEW s
  PROVE  /\ Chain(s) \in 0 .. MaxExt /\ Follows(s, Chain(s))
         /\ Chain(s) < MaxExt => ~Follows(s, Chain(s) + 1)
<1> DEFINE P(k) == /\ ext[s][k] # Bad
                   /\ ext[s][k].ver = <<base[s].ver[1], base[s].ver[2] + k>>
           T == {k \in 1 .. MaxExt : ~P(k)}
<1>0. MaxExt \in Nat
  BY TablesConstants
<1>1. \A n : Follows(s, n) <=> \A k \in 1 .. n : P(k)
  BY DEF Follows
<1> HIDE DEF P
<1>2. \E n \in 0 .. MaxExt : Follows(s, n) /\ (n < MaxExt => ~Follows(s, n + 1))
  <2>1. CASE T = {}
    <3>1. MaxExt \in 0 .. MaxExt /\ Follows(s, MaxExt)
      BY <1>0, <1>1, <2>1
    <3> QED BY <1>0, <3>1
  <2>2. CASE T # {}
    <3>0. T \in SUBSET Nat
      BY <1>0
    <3>1. PICK x \in T : \A y \in T : x <= y
      <4> HIDE DEF T
      <4> QED BY <2>2, <3>0, LeastNat
    <3>2. x - 1 \in 0 .. MaxExt /\ (x - 1) + 1 = x
      BY <1>0, <3>1
    <3>3. Follows(s, x - 1)
      BY <1>0, <1>1, <3>1
    <3>4. ~Follows(s, x)
      BY <1>0, <1>1, <3>1
    <3> QED BY <3>2, <3>3, <3>4
  <2> QED BY <2>1, <2>2
<1> QED BY <1>2 DEF Chain

(* There is only one length it can have. *)
LEMMA ChainUnique ==
  ASSUME NEW s, NEW n \in 0 .. MaxExt, Follows(s, n), n < MaxExt => ~Follows(s, n + 1)
  PROVE  Chain(s) = n
<1>0. MaxExt \in Nat
  BY TablesConstants
<1>1. \A m \in 0 .. MaxExt : \A k \in 0 .. m : Follows(s, m) => Follows(s, k)
  BY <1>0 DEF Follows
<1>2. /\ Chain(s) \in 0 .. MaxExt /\ Follows(s, Chain(s))
      /\ Chain(s) < MaxExt => ~Follows(s, Chain(s) + 1)
  BY ChainFacts
<1>3. CASE Chain(s) < n
  <2>1. Chain(s) + 1 \in 0 .. n
    BY <1>0, <1>2, <1>3
  <2> QED BY <1>0, <1>1, <1>2, <1>3, <2>1
<1>4. CASE n < Chain(s)
  <2>1. n + 1 \in 0 .. Chain(s)
    BY <1>0, <1>2, <1>4
  <2> QED BY <1>0, <1>1, <1>2, <1>4, <2>1
<1> QED BY <1>0, <1>2, <1>3, <1>4

(* What a mount reads from a slot: the last table of the chain. *)
LEMMA ContentFacts ==
  ASSUME ChainInv, PureInv, NEW s \in Slot, base[s] # Bad
  PROVE  /\ Content(s) = IF Chain(s) = 0 THEN base[s].id ELSE ext[s][Chain(s)].id
         /\ Content(s) \in Table
<1>0. MaxExt \in Nat
  BY TablesConstants
<1>1. Chain(s) \in 0 .. MaxExt /\ Follows(s, Chain(s))
  BY ChainFacts
<1>2. \A k \in 1 .. Chain(s) : k \in 1 .. MaxExt /\ Follows(s, k)
  BY <1>0, <1>1 DEF Follows
<1>3. \A k \in 1 .. Chain(s) : ext[s][k] # Bad /\ ext[s][k].rel = Before(s, k)
  BY <1>2, <1>1 DEF ChainInv, Follows
<1>4. Content(s) = IF Chain(s) = 0 THEN base[s].id ELSE ext[s][Chain(s)].id
  BY <1>3 DEF Content, Before
<1>5. Chain(s) # 0 => Chain(s) \in 1 .. Chain(s)
  BY <1>0, <1>1
<1> QED BY <1>2, <1>3, <1>4, <1>5 DEF PureInv

---------------------------------------------------------------------------
(* What a mount finds. *)

(* The super blocks a mount works with are valid. *)
LEMMA Supers ==
  ASSUME TypeOK, SuperInv
  PROVE  /\ Sb1 \in Exsb /\ Sb2 \in Exsb
         /\ Sb1.mount \in Nat /\ Sb2.mount \in Nat /\ Sb1.meta \in Nat /\ Sb2.meta \in Nat
         /\ Sb1.lv \in Slot /\ Sb2.lv \in Slot /\ Sb1.lv # 0 /\ Sb2.lv # 0 /\ 0 \in Slot
<1>0. sb[1] \in Exsb \cup {Bad} /\ sb[2] \in Exsb \cup {Bad}
  <2>1. 1 \in 1 .. 2 /\ 2 \in 1 .. 2
    OBVIOUS
  <2> QED BY <2>1 DEF TypeOK
<1>1. Sb1 \in Exsb /\ Sb2 \in Exsb
  BY <1>0 DEF SuperInv, Sb1, Sb2
<1> QED BY <1>1, TablesConstants DEF Exsb, Slot

(* A valid table has a version. *)
LEMMA BaseVersions ==
  ASSUME TypeOK, NEW s \in Slot
  PROVE  /\ TableVersion(s)[1] \in Nat /\ TableVersion(s)[2] \in Nat
         /\ base[s] # Bad => /\ TableVersion(s) = base[s].ver
                             /\ base[s].ver = <<base[s].ver[1], base[s].ver[2]>>
         /\ base[s] = Bad => TableVersion(s) = <<0, 0>>
<1>1. base[s] # Bad => base[s].ver \in Nat \X Nat
  BY DEF TypeOK, Base, Ver
<1> QED BY <1>1 DEF TableVersion, NoVer

(* load_base_table() takes a valid table, newer than the others. *)
LEMMA NewestFacts ==
  ASSUME TypeOK, SuperInv, HasNewest
  PROVE  /\ NewSlot \in {0, Sb1.lv, Sb2.lv} /\ NewSlot \in Slot /\ base[NewSlot] # Bad
         /\ Newest \in 1 .. 3 /\ Versions[Newest] = base[NewSlot].ver /\ IsNewest(Newest)
<1>1. Newest \in 1 .. 3 /\ IsNewest(Newest)
  BY DEF HasNewest, Newest
<1>2. NewSlot \in {0, Sb1.lv, Sb2.lv} /\ NewSlot \in Slot
  BY <1>1, Supers DEF NewSlot, SlotOf
<1>3. Versions[Newest] = TableVersion(NewSlot) \/ Versions[Newest] = <<0, 0>>
  BY <1>1 DEF Versions, NewSlot, SlotOf, NoVer
<1>4. PICK j \in 1 .. 3 : j # Newest
  BY <1>1
<1>5. Newer(Versions[Newest], Versions[j])
  BY <1>1, <1>4 DEF IsNewest
<1>6. Versions[j][1] \in Nat /\ Versions[j][2] \in Nat
  BY <1>4, Supers, BaseVersions DEF Versions, NoVer
<1>7. Versions[Newest] # <<0, 0>>
  BY <1>5, <1>6 DEF Newer
<1> QED BY <1>1, <1>2, <1>3, <1>7, BaseVersions

(* A mount that finds a table never mixes two histories. *)
LEMMA NeverMixed ==
  ASSUME TablesInv, HasNewest
  PROVE  Found \in Table /\ Found # Mixed
<1>1. NewSlot \in Slot /\ base[NewSlot] # Bad
  BY NewestFacts DEF TablesInv
<1>2. Found \in Table
  BY <1>1, ContentFacts DEF TablesInv, Found
<1> QED BY <1>2, TablesConstants DEF Table

(* With the same geometry twice, the current table is the one found. *)
LEMMA CurrentFound ==
  ASSUME TypeOK, SuperInv, PureInv, ChainInv, SameGeometry,
         NEW s \in {0, Sb1.lv}, NEW n \in 0 .. MaxExt, Current(s, n), base[s].meta = Sb1.meta
  PROVE  /\ RecoveryExact /\ NewSlot = s /\ Chain(s) = n /\ Found = good
         /\ Restored.meta = Sb1.meta /\ Restored.lv = Sb1.lv /\ Restored \in {Sb1, Sb2}
<1> DEFINE other == IF s = 0 THEN Sb1.lv ELSE 0
           i == IF s = 0 THEN 1 ELSE 2
<1>1. s \in Slot /\ other \in Slot \ {s} /\ base[s] # Bad /\ base[s].ver[1] >= 1
  BY Supers DEF Current
<1>2. Versions = <<TableVersion(0), TableVersion(Sb1.lv), <<0, 0>>>>
  BY DEF Versions, SameGeometry, NoVer
<1>3. TableVersion(s) = base[s].ver /\ base[s].ver[1] \in Nat /\ base[s].ver[2] \in Nat
  BY <1>1, BaseVersions
<1>4. Newer(TableVersion(s), TableVersion(other)) /\ Newer(TableVersion(s), <<0, 0>>)
  <2>1. Newer(TableVersion(s), <<0, 0>>)
    BY <1>1, <1>3 DEF Newer
  <2>2. base[other] # Bad => Newer(base[s].ver, base[other].ver)
    BY <1>1 DEF Current
  <2> HIDE DEF other
  <2> QED BY <1>1, <1>3, <2>1, <2>2, BaseVersions
<1>5. ~Newer(TableVersion(other), TableVersion(s)) /\ ~Newer(<<0, 0>>, TableVersion(s))
  <2>1. TableVersion(other)[1] \in Nat /\ TableVersion(other)[2] \in Nat
    BY <1>1, BaseVersions
  <2> QED BY <1>3, <1>4, <2>1 DEF Newer
<1>6. i \in 1 .. 3 /\ IsNewest(i)
  BY <1>2, <1>4 DEF IsNewest
<1>7. \A j \in 1 .. 3 : IsNewest(j) => j = i
  BY <1>2, <1>5 DEF IsNewest
<1>8. HasNewest /\ Newest = i
  BY <1>6, <1>7 DEF HasNewest, Newest
<1>9. NewSlot = s
  BY <1>8 DEF NewSlot, SlotOf
<1>10. Restored \in {Sb1, Sb2} /\ Restored.meta = Sb1.meta /\ Restored.lv = Sb1.lv
  BY DEF Restored, SameGeometry
<1>11. Chain(s) = n
  BY ChainUnique DEF Current
<1>12. Found = good
  BY <1>1, <1>9, <1>11, ContentFacts DEF Found, Current
<1>13. Mountable
  BY <1>1, <1>8, <1>9, <1>10, Supers DEF Mountable, Reachable, Slot
<1> QED BY <1>9, <1>10, <1>11, <1>12, <1>13 DEF RecoveryExact

---------------------------------------------------------------------------
(* Steps and the invariant that holds whatever fails. *)

(* The types, field by field. *)
LEMMA Fields ==
  ASSUME TypeOK
  PROVE  /\ exsb.mount \in 0 .. MaxMount /\ exsb.meta \in 1 .. MaxMeta /\ exsb.lv \in 1 .. MaxLv
         /\ exsb.lv \in Slot /\ 0 \in Slot
         /\ sb[1] \in Exsb \cup {Bad} /\ sb[2] \in Exsb \cup {Bad}
         /\ isec = <<isec[1], isec[2]>> /\ isec[1] \in Slot /\ isec[2] \in 0 .. MaxExt + 1
         /\ \A s \in Slot : base[s] # Bad =>
              /\ base[s] \in Base /\ base[s].ver[1] \in Nat /\ base[s].ver[2] \in Nat
              /\ base[s].ver = <<base[s].ver[1], base[s].ver[2]>>
         /\ \A s \in Slot, k \in 1 .. MaxExt : ext[s][k] # Bad =>
              /\ ext[s][k] \in Ext /\ ext[s][k].ver[1] \in Nat /\ ext[s][k].ver[2] \in Nat
              /\ ext[s][k].ver = <<ext[s][k].ver[1], ext[s][k].ver[2]>>
<1>1. exsb \in Exsb /\ isec \in Slot \X (0 .. (MaxExt + 1))
  BY DEF TypeOK
<1>2. sb[1] \in Exsb \cup {Bad} /\ sb[2] \in Exsb \cup {Bad}
  <2>1. 1 \in 1 .. 2 /\ 2 \in 1 .. 2
    OBVIOUS
  <2> QED BY <2>1 DEF TypeOK
<1>3. \A s \in Slot : base[s] # Bad => base[s] \in Base
  BY DEF TypeOK
<1>4. ASSUME NEW s \in Slot, NEW k \in 1 .. MaxExt, ext[s][k] # Bad PROVE ext[s][k] \in Ext
  <2>1. ext[s] \in [1 .. MaxExt -> Ext \cup {Bad}]
    BY DEF TypeOK
  <2> QED BY <1>4, <2>1
<1>5. \A b \in Base : b.ver[1] \in Nat /\ b.ver[2] \in Nat /\ b.ver = <<b.ver[1], b.ver[2]>>
  BY DEF Base, Ver
<1>6. \A e \in Ext : e.ver[1] \in Nat /\ e.ver[2] \in Nat /\ e.ver = <<e.ver[1], e.ver[2]>>
  BY DEF Ext, Ver
<1>7. /\ exsb.mount \in 0 .. MaxMount /\ exsb.meta \in 1 .. MaxMeta /\ exsb.lv \in 1 .. MaxLv
      /\ exsb.lv \in Slot /\ 0 \in Slot
  BY <1>1, TablesConstants DEF Exsb, Slot
<1>8. isec = <<isec[1], isec[2]>> /\ isec[1] \in Slot /\ isec[2] \in 0 .. MaxExt + 1
  BY <1>1
<1> QED BY <1>2, <1>3, <1>4, <1>5, <1>6, <1>7, <1>8

(* The fields of the super blocks are numbers. *)
LEMMA SuperNats ==
  ASSUME TypeOK
  PROVE  /\ exsb # Bad /\ exsb.mount \in Nat /\ exsb.meta \in Nat /\ exsb.lv \in Nat
         /\ sb[1] # Bad => sb[1].mount \in Nat /\ sb[1].meta \in Nat /\ sb[1].lv \in Nat
         /\ sb[2] # Bad => sb[2].mount \in Nat /\ sb[2].meta \in Nat /\ sb[2].lv \in Nat
<1>1. exsb \in Exsb /\ sb[1] \in Exsb \cup {Bad} /\ sb[2] \in Exsb \cup {Bad}
  BY Fields DEF TypeOK
<1>2. \A e \in Exsb : e # Bad /\ e.mount \in Nat /\ e.meta \in Nat /\ e.lv \in Nat
  BY TablesConstants, BadAssumption DEF Exsb
<1> QED BY <1>1, <1>2

(* What mkfs writes. *)
LEMMA InitTables == Init => TablesInv
<1> SUFFICES ASSUME Init PROVE TablesInv
  OBVIOUS
<1> USE TablesConstants, BadAssumption
<1>1. MkfsExsb \in Exsb /\ MkfsExsb # Bad /\ MkfsExsb.mount = MkfsMount
  BY DEF MkfsExsb, Exsb
<1>2. [ver |-> <<MkfsMount, MkfsSync>>, id |-> 0, meta |-> 1] \in Base
  BY DEF Base, Ver, Table
<1>3. /\ base \in [Slot -> Base \cup {Bad}] /\ ext \in [Slot -> [1 .. MaxExt -> Ext \cup {Bad}]]
      /\ sb \in [1 .. 2 -> Exsb \cup {Bad}] /\ sb[1] = MkfsExsb /\ sb[2] = MkfsExsb
  BY <1>1, <1>2 DEF Init
<1>4. TypeOK
  <2>1. isec \in Slot \X (0 .. (MaxExt + 1)) /\ {id, rel, good} \subseteq Table
    BY DEF Init, Slot, Table
  <2>2. /\ exsb \in Exsb /\ recs \in 0 .. MaxRec /\ sync \in Nat /\ extn \in 0 .. MaxExt
        /\ tpages \in 0 .. MaxMeta /\ broken \subseteq Faults
    BY <1>1 DEF Init
  <2>3. exdirty \in BOOLEAN /\ useBase \in BOOLEAN /\ pend \in BOOLEAN /\ geoCrash \in BOOLEAN
        /\ pc = "off"
    BY DEF Init
  <2> QED BY <1>3, <2>1, <2>2, <2>3 DEF TypeOK
<1>5. \A s \in Slot, k \in 1 .. MaxExt : ext[s][k] = Bad
  BY DEF Init
<1>6. PureInv
  BY <1>5 DEF Init, PureInv, Table
<1>7. SuperInv
  BY <1>1, <1>3 DEF Init, SuperInv, Up
<1>8. PlaceInv
  BY DEF Init, PlaceInv
<1>9. ExtInv
  BY <1>5 DEF ExtInv
<1>10. ChainInv
  <2> SUFFICES ASSUME NEW s \in Slot, NEW k \in 1 .. MaxExt PROVE ~Follows(s, k)
    BY DEF ChainInv
  <2>1. k \in 1 .. k
    OBVIOUS
  <2> QED BY <1>5, <2>1 DEF Follows
<1>11. LastInv
  BY DEF Init, LastInv, Settled, Up
<1> QED BY <1>4, <1>6, <1>7, <1>8, <1>9, <1>10, <1>11 DEF TablesInv

(* Steps that change nothing on the volume while it is mounted and no      *)
(* table is being written.                                                 *)
MemoryStep ==
  \/ Update \/ DirtyExsb \/ \E grow \in BOOLEAN : Expand(grow)
  \/ ExpandNoSpace \/ CommitStart \/ Sb2Fails \/ MetaAbort \/ Sb1Fails

MemoryFacts ==
  /\ pc \in {"idle", "sb2", "meta", "sb1"} /\ pc' \in {"idle", "sb2", "meta"}
  /\ UNCHANGED <<rel, sync, extn, isec, base, ext, sb, good, geoCrash>>
  /\ exsb' \in Exsb /\ exsb'.mount = exsb.mount
  /\ exsb' = exsb \/ pc' = "idle"
  /\ exdirty' \in BOOLEAN /\ (exdirty => exdirty')
  /\ pc' = "meta" => ~exdirty'
  /\ pc' = "sb2" => exdirty'
  /\ id' \in Table
  /\ recs' \in 0 .. MaxRec /\ useBase' \in BOOLEAN /\ pend' \in BOOLEAN
  /\ tpages' \in 0 .. MaxMeta /\ broken \subseteq broken' /\ broken' \subseteq Faults

(* What such a step changes. *)
LEMMA MemorySteps ==
  ASSUME TablesInv, MemoryStep
  PROVE  MemoryFacts
<1> USE TablesConstants
<1>1. TypeOK /\ SuperInv /\ PureInv /\ exsb \in Exsb /\ id \in Table
  BY DEF TablesInv, PureInv, TypeOK
<1>2. /\ exsb.mount \in 0 .. MaxMount /\ exsb.meta \in 1 .. MaxMeta /\ exsb.lv \in 1 .. MaxLv
  BY <1>1, Fields
<1>3. CASE Update
  <2>1. /\ pc = "idle" /\ pc' = "idle" /\ id < MaxId /\ id' = id + 1 /\ pend' = TRUE
        /\ recs' = recs \/ (recs + 1 <= MaxRec /\ recs' = recs + 1)
        /\ useBase' = useBase \/ useBase' = TRUE
        /\ UNCHANGED <<exsb, exdirty, rel, sync, extn, isec, tpages, base, ext, sb, good, broken, geoCrash>>
    BY <1>1, <1>3 DEF Update, TypeOK, volume, ghost
  <2>2. id' \in Table /\ recs' \in 0 .. MaxRec
    BY <1>1, <2>1 DEF TypeOK, Table
  <2> QED BY <1>1, <2>1, <2>2 DEF MemoryFacts, TypeOK
<1>4. CASE DirtyExsb
  BY <1>1, <1>4 DEF DirtyExsb, MemoryFacts, TypeOK, volume, ghost
<1>5. ASSUME NEW grow \in BOOLEAN, Expand(grow) PROVE MemoryFacts
  <2> DEFINE m == NewMeta(grow)
             lv == IF MoreTables(m) THEN exsb.lv + 1 ELSE exsb.lv
  <2>1. m \in 1 .. MaxMeta /\ lv \in 1 .. MaxLv
    BY <1>2, <1>5 DEF Expand, NewMeta
  <2>2. /\ pc = "idle" /\ pc' = "idle" /\ exsb' = [exsb EXCEPT !.meta = m, !.lv = lv]
        /\ exdirty' = (exdirty \/ grow) /\ tpages' = (IF m > tpages THEN m ELSE tpages)
        /\ id < MaxId /\ id' = id + 1 /\ pend' = TRUE /\ useBase' = TRUE
        /\ UNCHANGED <<rel, recs, sync, extn, isec, base, ext, sb, good, broken, geoCrash>>
    BY <1>5 DEF Expand, volume, ghost
  <2> HIDE DEF m, lv
  <2>3. exsb' \in Exsb /\ exsb'.mount = exsb.mount
    BY <1>1, <1>2, <2>1, <2>2 DEF Exsb
  <2>4. exdirty' \in BOOLEAN /\ (exdirty => exdirty')
    BY <1>1, <2>2 DEF TypeOK
  <2>5. id' \in Table
    BY <1>1, <2>2 DEF Table
  <2>6. tpages' \in 0 .. MaxMeta
    <3>1. tpages \in 0 .. MaxMeta
      BY <1>1 DEF TypeOK
    <3> QED BY <2>1, <2>2, <3>1
  <2> QED BY <1>1, <2>2, <2>3, <2>4, <2>5, <2>6 DEF MemoryFacts, TypeOK
<1>6. CASE ExpandNoSpace
  <2> DEFINE m == NewMeta(TRUE)
  <2>1. m \in 1 .. MaxMeta
    BY <1>2, <1>6 DEF ExpandNoSpace, NewMeta
  <2>2. /\ pc = "idle" /\ pc' = "idle" /\ exsb' = [exsb EXCEPT !.meta = m] /\ exdirty' = TRUE
        /\ "nospace" \in Faults /\ broken' = broken \cup {"nospace"}
        /\ UNCHANGED <<id, rel, recs, useBase, pend, sync, extn, isec, tpages, base, ext, sb, good, geoCrash>>
    BY <1>6 DEF ExpandNoSpace, volume
  <2> HIDE DEF m
  <2>3. exsb' \in Exsb /\ exsb'.mount = exsb.mount
    BY <1>1, <1>2, <2>1, <2>2 DEF Exsb
  <2> QED BY <1>1, <2>1, <2>2, <2>3 DEF MemoryFacts, TypeOK
<1>7. CASE CommitStart
  BY <1>1, <1>7 DEF CommitStart, MemoryFacts, TypeOK, memory, volume, ghost
<1>8. CASE Sb2Fails
  BY <1>1, <1>8 DEF Sb2Fails, MemoryFacts, TypeOK, volume
<1>9. CASE MetaAbort
  BY <1>1, <1>9 DEF MetaAbort, MemoryFacts, TypeOK, memory, volume, ghost
<1>10. CASE Sb1Fails
  BY <1>1, <1>10 DEF Sb1Fails, MemoryFacts, TypeOK, memory, volume
<1> QED BY <1>3, <1>4, <1>5, <1>6, <1>7, <1>8, <1>9, <1>10 DEF MemoryStep

(* A step in memory keeps the invariant. *)
LEMMA MemoryKeeps ==
  ASSUME TablesInv, MemoryStep
  PROVE  TablesInv'
<1>1. MemoryFacts /\ TypeOK /\ PureInv /\ SuperInv /\ PlaceInv /\ ExtInv /\ ChainInv /\ LastInv
  BY MemorySteps DEF TablesInv
<1>2. TypeOK'
  BY <1>1 DEF MemoryFacts, TypeOK
<1>3. PureInv'
  BY <1>1 DEF MemoryFacts, PureInv
<1>4. SuperInv'
  BY <1>1 DEF MemoryFacts, SuperInv, Up
<1>5. PlaceInv'
  BY <1>1 DEF MemoryFacts, PlaceInv
<1>6. ExtInv'
  BY <1>1 DEF MemoryFacts, ExtInv, Up
<1>7. ChainInv'
  BY <1>1 DEF MemoryFacts, ChainInv, Follows, Before
<1>8. LastInv'
  BY <1>1 DEF MemoryFacts, LastInv, Settled, Up, AtSb1
<1> QED BY <1>2, <1>3, <1>4, <1>5, <1>6, <1>7, <1>8 DEF TablesInv

(* Writes of the super blocks. *)
SuperStep == Sb2Begin \/ Sb2End \/ Sb1Begin \/ Sb1End

SuperFacts ==
  /\ UNCHANGED <<exsb, id, rel, recs, pend, sync, extn, isec, tpages, base, ext, good, broken, geoCrash>>
  /\ sb' \in [1 .. 2 -> Exsb \cup {Bad}] /\ exdirty
  /\ \/ /\ pc = "sb2" /\ pc' = "sb2 written" /\ sb'[1] = sb[1] /\ sb'[2] = Bad
        /\ UNCHANGED <<exdirty, useBase>>
     \/ /\ pc = "sb2 written" /\ pc' = "meta" /\ sb'[1] = sb[1] /\ sb'[2] = exsb
        /\ exdirty' = exdirty /\ useBase' = TRUE
     \/ /\ pc = "sb1" /\ pc' = "sb1 written" /\ sb'[1] = Bad /\ sb'[2] = sb[2] /\ sb[2] = exsb
        /\ UNCHANGED <<exdirty, useBase>>
     \/ /\ pc = "sb1 written" /\ pc' = "idle" /\ sb'[1] = exsb /\ sb'[2] = sb[2] /\ sb[2] = exsb
        /\ exdirty' = FALSE /\ useBase' = useBase

(* Writing one of the two super blocks leaves the other one alone. *)
LEMMA PairExcept ==
  ASSUME NEW S, NEW f \in [1 .. 2 -> S], NEW v \in S
  PROVE  /\ [f EXCEPT ![1] = v] \in [1 .. 2 -> S] /\ [f EXCEPT ![2] = v] \in [1 .. 2 -> S]
         /\ [f EXCEPT ![1] = v][1] = v /\ [f EXCEPT ![1] = v][2] = f[2]
         /\ [f EXCEPT ![2] = v][2] = v /\ [f EXCEPT ![2] = v][1] = f[1]
OBVIOUS

(* What the write of a super block changes. *)
LEMMA SuperSteps ==
  ASSUME TablesInv, SuperStep
  PROVE  SuperFacts
<1>1. TypeOK /\ SuperInv /\ exsb \in Exsb /\ sb \in [1 .. 2 -> Exsb \cup {Bad}]
  BY DEF TablesInv, TypeOK
<1>2. CASE Sb2Begin
  <2>1. sb' = [sb EXCEPT ![2] = Bad]
    BY <1>2 DEF Sb2Begin
  <2>2. sb' \in [1 .. 2 -> Exsb \cup {Bad}] /\ sb'[2] = Bad /\ sb'[1] = sb[1]
    BY <1>1, <2>1, PairExcept
  <2> QED BY <1>1, <1>2, <2>2 DEF Sb2Begin, SuperFacts, SuperInv, memory, ghost
<1>3. CASE Sb2End
  <2>1. sb' = [sb EXCEPT ![2] = exsb]
    BY <1>3 DEF Sb2End
  <2>2. sb' \in [1 .. 2 -> Exsb \cup {Bad}] /\ sb'[2] = exsb /\ sb'[1] = sb[1]
    BY <1>1, <2>1, PairExcept
  <2> QED BY <1>1, <1>3, <2>2 DEF Sb2End, SuperFacts, SuperInv, ghost
<1>4. CASE Sb1Begin
  <2>1. sb' = [sb EXCEPT ![1] = Bad]
    BY <1>4 DEF Sb1Begin
  <2>2. sb' \in [1 .. 2 -> Exsb \cup {Bad}] /\ sb'[1] = Bad /\ sb'[2] = sb[2]
    BY <1>1, <2>1, PairExcept
  <2> QED BY <1>1, <1>4, <2>2 DEF Sb1Begin, SuperFacts, SuperInv, memory, ghost
<1>5. CASE Sb1End
  <2>1. sb' = [sb EXCEPT ![1] = exsb]
    BY <1>5 DEF Sb1End
  <2>2. sb' \in [1 .. 2 -> Exsb \cup {Bad}] /\ sb'[1] = exsb /\ sb'[2] = sb[2]
    BY <1>1, <2>1, PairExcept
  <2> QED BY <1>1, <1>5, <2>2 DEF Sb1End, SuperFacts, SuperInv, ghost
<1> QED BY <1>2, <1>3, <1>4, <1>5 DEF SuperStep

(* The write of a super block keeps the invariant: the other one is valid. *)
LEMMA SuperKeeps ==
  ASSUME TablesInv, SuperStep
  PROVE  TablesInv'
<1>1. SuperFacts /\ TypeOK /\ PureInv /\ SuperInv /\ PlaceInv /\ ExtInv /\ ChainInv /\ LastInv
  BY SuperSteps DEF TablesInv
<1>2. exsb \in Exsb /\ exsb # Bad
  BY <1>1, BadAssumption DEF TypeOK
<1>3. \A i \in 1 .. 2 : i = 1 \/ i = 2
  OBVIOUS
<1>4. TypeOK'
  BY <1>1 DEF SuperFacts, TypeOK
<1>5. PureInv'
  BY <1>1 DEF SuperFacts, PureInv
<1>6. SuperInv'
  <2>1. exsb.mount \in Nat /\ 1 \in 1 .. 2 /\ 2 \in 1 .. 2
    BY <1>1, Fields
  <2>2. /\ sb[1] # Bad => sb[1].mount <= exsb.mount
        /\ sb[2] # Bad => sb[2].mount <= exsb.mount
    BY <1>1, <2>1 DEF SuperInv, SuperFacts, Up
  <2>3. \A i \in 1 .. 2 : sb'[i] # Bad => sb'[i].mount <= exsb.mount
    <3>1. sb'[1] \in {sb[1], Bad, exsb} /\ sb'[2] \in {sb[2], Bad, exsb}
      BY <1>1 DEF SuperFacts
    <3>2. exsb.mount <= exsb.mount
      BY <2>1
    <3>3. /\ sb'[1] # Bad => sb'[1].mount <= exsb.mount
          /\ sb'[2] # Bad => sb'[2].mount <= exsb.mount
      BY <2>2, <3>1, <3>2
    <3> QED BY <1>3, <3>3
  <2> QED BY <1>1, <1>2, <2>3 DEF SuperFacts, SuperInv, Up
<1>7. PlaceInv'
  BY <1>1 DEF SuperFacts, PlaceInv
<1>8. ExtInv'
  BY <1>1, <1>3 DEF SuperFacts, ExtInv, Up
<1>9. ChainInv'
  BY <1>1 DEF SuperFacts, ChainInv, Follows, Before
<1>10. LastInv'
  BY <1>1 DEF SuperFacts, LastInv, Settled, Up, AtSb1
<1> QED BY <1>4, <1>5, <1>6, <1>7, <1>8, <1>9, <1>10 DEF TablesInv

(* Power off. *)
LEMMA PowerOffKeeps ==
  ASSUME TablesInv, PowerOff
  PROVE  TablesInv'
<1> USE TablesConstants
<1>1. /\ TypeOK /\ PureInv /\ SuperInv /\ ExtInv /\ ChainInv /\ pc' = "off"
      /\ exsb' = MkfsExsb /\ exdirty' = FALSE /\ id' = 0 /\ rel' = 0 /\ recs' = 0
      /\ useBase' = FALSE /\ pend' = FALSE /\ sync' = 0 /\ extn' = 0 /\ isec' = <<0, 0>>
      /\ tpages' = 0 /\ UNCHANGED <<base, ext, sb, good, broken>>
      /\ geoCrash' = (geoCrash \/ ~SameGeometry)
  BY DEF TablesInv, PowerOff, volume
<1>2. MkfsExsb \in Exsb /\ isec' \in Slot \X (0 .. (MaxExt + 1)) /\ 0 \in Table
  BY <1>1 DEF MkfsExsb, Exsb, Slot, Table
<1>3. geoCrash' \in BOOLEAN
  BY <1>1 DEF TypeOK
<1>4. TypeOK'
  <2>1. {id', rel', good'} \subseteq Table \cup {Mixed} /\ MaxRec \in Nat /\ MaxMeta \in Nat
    BY <1>1, <1>2 DEF TypeOK
  <2>2. recs' \in 0 .. MaxRec /\ sync' \in Nat /\ extn' \in 0 .. MaxExt /\ tpages' \in 0 .. MaxMeta
    BY <1>1
  <2> QED BY <1>1, <1>2, <1>3, <2>1, <2>2 DEF TypeOK
<1>5. PureInv'
  BY <1>1, <1>2 DEF PureInv
<1>6. SuperInv'
  BY <1>1 DEF SuperInv, Up
<1>7. PlaceInv'
  BY <1>1 DEF PlaceInv
<1>8. ExtInv'
  BY <1>1 DEF ExtInv, Up
<1>9. ChainInv'
  BY <1>1 DEF ChainInv, Follows, Before
<1>10. LastInv'
  BY <1>1 DEF LastInv, Settled, Up
<1> QED BY <1>4, <1>5, <1>6, <1>7, <1>8, <1>9, <1>10 DEF TablesInv

(* Mount: what it finds, and that it never takes a mount count twice for   *)
(* which there are extended tables.                                        *)
MountFacts ==
  /\ pc = "off" /\ pc' = "idle" /\ Mountable
  /\ sb' \in [1 .. 2 -> Exsb] /\ Restored \in {Sb1, Sb2} /\ Restored \in Exsb
  /\ \/ Sb1.mount = Sb2.mount /\ Restored = Sb1 /\ sb'[1] = Sb1 /\ sb'[2] = Sb2
     \/ Sb1.mount # Sb2.mount /\ sb'[1] = Restored /\ sb'[2] = Restored
  /\ exsb' \in Exsb /\ exsb'.mount = Restored.mount + 1 /\ exsb'.meta = Restored.meta
  /\ exsb'.lv = Restored.lv /\ exdirty' = TRUE
  /\ id' = Found /\ rel' = Found /\ Found \in Table /\ recs' = 0
  /\ useBase' = FALSE /\ pend' = FALSE /\ sync' = 0
  /\ NewSlot \in Slot /\ base[NewSlot] # Bad /\ Chain(NewSlot) \in 0 .. MaxExt
  /\ extn' = Chain(NewSlot) /\ isec' = <<NewSlot, Chain(NewSlot) + 1>>
  /\ tpages' = Restored.meta
  /\ UNCHANGED <<base, ext, good, broken, geoCrash>>

(* What Mount changes. *)
LEMMA MountSteps ==
  ASSUME TablesInv, Mount
  PROVE  MountFacts
<1>1. TypeOK /\ SuperInv /\ HasNewest
  BY DEF TablesInv, Mount, Mountable
<1>2. Sb1 \in Exsb /\ Sb2 \in Exsb /\ Sb1.mount \in Nat /\ Sb2.mount \in Nat
  BY <1>1, Supers
<1>3. ExsbVersion(Sb1) = ExsbVersion(Sb2) <=> Sb1.mount = Sb2.mount
  BY DEF ExsbVersion
<1>4. Restored \in {Sb1, Sb2} /\ Restored \in Exsb /\ (Sb1.mount = Sb2.mount => Restored = Sb1)
  BY <1>2, <1>3 DEF Restored
<1>5. /\ sb' \in [1 .. 2 -> Exsb]
      /\ \/ Sb1.mount = Sb2.mount /\ sb'[1] = Sb1 /\ sb'[2] = Sb2
         \/ Sb1.mount # Sb2.mount /\ sb'[1] = Restored /\ sb'[2] = Restored
  <2>1. sb' = IF Sb1.mount = Sb2.mount THEN [i \in 1 .. 2 |-> IF i = 1 THEN Sb1 ELSE Sb2]
                                       ELSE [i \in 1 .. 2 |-> Restored]
    BY <1>3 DEF Mount
  <2> QED BY <1>2, <1>4, <2>1
<1>6. /\ exsb' = [Restored EXCEPT !.mount = Restored.mount + 1] /\ Restored.mount < MaxMount
  BY DEF Mount
<1>7. /\ exsb' \in Exsb /\ exsb'.mount = Restored.mount + 1 /\ exsb'.meta = Restored.meta
      /\ exsb'.lv = Restored.lv
  BY <1>4, <1>6, TablesConstants DEF Exsb
<1>8. Found \in Table
  BY <1>1, NeverMixed
<1>9. NewSlot \in Slot /\ base[NewSlot] # Bad /\ Chain(NewSlot) \in 0 .. MaxExt
  BY <1>1, NewestFacts, ChainFacts
<1> QED BY <1>4, <1>5, <1>7, <1>8, <1>9 DEF Mount, MountFacts, ghost

(* Mount keeps the invariant. *)
LEMMA MountKeeps ==
  ASSUME TablesInv, Mount
  PROVE  TablesInv'
<1> USE TablesConstants
<1>1. /\ MountFacts /\ TypeOK /\ PureInv /\ SuperInv /\ ExtInv /\ ChainInv
  BY MountSteps DEF TablesInv
<1>2. \A i \in 1 .. 2 : i = 1 \/ i = 2
  OBVIOUS
<1>3. sb'[1] \in Exsb /\ sb'[2] \in Exsb /\ sb'[1] # Bad /\ sb'[2] # Bad
  <2>1. 1 \in 1 .. 2 /\ 2 \in 1 .. 2
    OBVIOUS
  <2> QED BY <1>1, <2>1, BadAssumption DEF MountFacts
<1>4. \A e \in Exsb : e.mount \in 0 .. MaxMount /\ e.meta \in 1 .. MaxMeta
  BY DEF Exsb
<1>5. TypeOK'
  <2>1. isec' \in Slot \X (0 .. (MaxExt + 1)) /\ tpages' \in 0 .. MaxMeta
    BY <1>1, <1>4 DEF MountFacts
  <2>2. sb' \in [1 .. 2 -> Exsb \cup {Bad}]
    BY <1>1 DEF MountFacts
  <2>3. {id', rel', good'} \subseteq Table \cup {Mixed} /\ recs' \in 0 .. MaxRec
        /\ extn' \in 0 .. MaxExt /\ sync' \in Nat
    BY <1>1 DEF MountFacts, TypeOK
  <2> QED BY <1>1, <2>1, <2>2, <2>3 DEF MountFacts, TypeOK
<1>6. PureInv'
  BY <1>1 DEF MountFacts, PureInv
<1>7. SuperInv'
  <2>1. Restored.mount \in Nat /\ Sb1.mount \in Nat /\ Sb2.mount \in Nat
    BY <1>1, <1>4, Supers DEF MountFacts
  <2>2. sb'[1].mount <= exsb'.mount /\ sb'[2].mount <= exsb'.mount
    BY <1>1, <2>1 DEF MountFacts
  <2> QED BY <1>1, <1>2, <1>3, <2>2 DEF MountFacts, SuperInv, Up
<1>8. PlaceInv'
  <2>1. isec'[2] = extn' + 1
    BY <1>1 DEF MountFacts
  <2> QED BY <1>1, <2>1 DEF MountFacts, PlaceInv
<1>9. ExtInv'
  <2> SUFFICES ASSUME NEW s \in Slot, NEW k \in 1 .. MaxExt, ext[s][k] # Bad
               PROVE  /\ ext[s][k].ver[1] <= sb'[1].mount /\ ext[s][k].ver[1] <= sb'[2].mount
                      /\ ext[s][k].ver[1] < exsb'.mount
    <3>1. UNCHANGED ext
      BY <1>1 DEF MountFacts
    <3>2. exsb'.mount \in Nat
      BY <1>1, <1>4 DEF MountFacts
    <3> QED BY <1>1, <1>2, <3>1, <3>2, Fields DEF ExtInv, Up
  <2>1. \A i \in 1 .. 2 : sb[i] # Bad => ext[s][k].ver[1] <= sb[i].mount
    BY <1>1 DEF ExtInv
  <2>2. ext[s][k].ver[1] <= Sb1.mount /\ ext[s][k].ver[1] <= Sb2.mount
    <3>1. 1 \in 1 .. 2 /\ 2 \in 1 .. 2
      OBVIOUS
    <3> QED BY <1>1, <2>1, <3>1 DEF Sb1, Sb2, SuperInv
  <2>3. Restored.mount \in Nat /\ Sb1.mount \in Nat /\ Sb2.mount \in Nat /\ ext[s][k].ver[1] \in Nat
    BY <1>1, <1>4, Supers, Fields DEF MountFacts
  <2> QED BY <1>1, <2>2, <2>3 DEF MountFacts
<1>10. ChainInv'
  BY <1>1 DEF MountFacts, ChainInv, Follows, Before
<1>11. LastInv'
  BY <1>1 DEF MountFacts, LastInv, Settled, Up, AtSb1
<1> QED BY <1>5, <1>6, <1>7, <1>8, <1>9, <1>10, <1>11 DEF TablesInv

---------------------------------------------------------------------------
(* Writes of the tables. *)

(* What vdfs2_update_translation_tables() leaves alone. *)
TableFacts ==
  /\ UNCHANGED <<exsb, exdirty, id, tpages, sb, geoCrash>>
  /\ isec' \in Slot \X (0 .. (MaxExt + 1)) /\ extn' \in 0 .. MaxExt
  /\ base' \in [Slot -> Base \cup {Bad}] /\ ext' \in [Slot -> [1 .. MaxExt -> Ext \cup {Bad}]]

(* Before the write is done, tables only disappear. *)
Erased ==
  /\ \A s \in Slot : base'[s] # Bad => base'[s] = base[s]
  /\ \A s \in Slot, k \in 1 .. MaxExt : ext'[s][k] # Bad => ext'[s][k] = ext[s][k]

(* Tables that disappear leave the chains that remain relative to each     *)
(* other.                                                                  *)
LEMMA ErasedKeeps ==
  ASSUME ChainInv, Erased
  PROVE  ChainInv'
<1> USE TablesConstants
<1> SUFFICES ASSUME NEW s \in Slot, NEW k \in 1 .. MaxExt, base'[s] # Bad, Follows(s, k)'
             PROVE  ext'[s][k].rel = Before(s, k)'
  BY DEF ChainInv
<1>1. \A j \in 1 .. k : j \in 1 .. MaxExt
  OBVIOUS
<1>2. base'[s] = base[s] /\ \A j \in 1 .. k : ext'[s][j] = ext[s][j]
  BY <1>1 DEF Erased, Follows
<1>3. Follows(s, k)
  BY <1>2 DEF Follows
<1>4. k \in 1 .. k /\ (k # 1 => k - 1 \in 1 .. k)
  OBVIOUS
<1> QED BY <1>2, <1>3, <1>4 DEF ChainInv, Before

(* The place of the next base table. *)
LEMMA NextSlotFacts ==
  ASSUME TypeOK
  PROVE  NextSlot \in {0, exsb.lv} /\ NextSlot \in Slot
BY Fields DEF NextSlot

(* What the start of a base table changes. *)
LEMMA BaseBeginSteps ==
  ASSUME TablesInv, BaseBegin
  PROVE  /\ TableFacts /\ Erased /\ pc = "meta" /\ pc' = "base" /\ NextSlot \in {0, exsb.lv}
         /\ NextSlot \in Slot /\ isec' = <<NextSlot, 0>> /\ extn' = 0 /\ useBase' = FALSE
         /\ base' = [base EXCEPT ![NextSlot] = Bad] /\ base'[NextSlot] = Bad
         /\ UNCHANGED <<rel, recs, pend, sync, ext, good, broken>>
<1>1. TypeOK /\ NextSlot \in {0, exsb.lv} /\ NextSlot \in Slot
  BY NextSlotFacts DEF TablesInv
<1>2. /\ pc = "meta" /\ pc' = "base" /\ isec' = <<NextSlot, 0>> /\ extn' = 0 /\ useBase' = FALSE
      /\ base' = [base EXCEPT ![NextSlot] = Bad]
      /\ UNCHANGED <<exsb, exdirty, id, rel, recs, pend, sync, tpages, ext, sb, good, broken, geoCrash>>
  BY DEF BaseBegin, ChooseBase, ghost
<1>3. base' \in [Slot -> Base \cup {Bad}] /\ base'[NextSlot] = Bad
      /\ \A s \in Slot : base'[s] # Bad => base'[s] = base[s]
  BY <1>1, <1>2 DEF TypeOK
<1>4. isec' \in Slot \X (0 .. (MaxExt + 1)) /\ extn' \in 0 .. MaxExt
  BY <1>1, <1>2, TablesConstants
<1> QED BY <1>1, <1>2, <1>3, <1>4 DEF TableFacts, Erased, TypeOK

(* The start of a base table keeps the invariant. *)
LEMMA BaseBeginKeeps ==
  ASSUME TablesInv, BaseBegin
  PROVE  TablesInv'
<1>1. TypeOK /\ PureInv /\ SuperInv /\ PlaceInv /\ ExtInv /\ ChainInv /\ LastInv
  BY DEF TablesInv
<1>2. /\ TableFacts /\ Erased /\ pc = "meta" /\ pc' = "base" /\ NextSlot \in {0, exsb.lv}
      /\ isec'[1] = NextSlot /\ isec'[2] = 0 /\ extn' = 0 /\ useBase' = FALSE
      /\ base'[NextSlot] = Bad /\ UNCHANGED <<rel, recs, pend, sync, ext, good, broken>>
  BY BaseBeginSteps
<1>3. TypeOK'
  BY <1>1, <1>2 DEF TableFacts, TypeOK
<1>4. PureInv'
  BY <1>1, <1>2 DEF TableFacts, Erased, PureInv
<1>5. SuperInv'
  BY <1>1, <1>2 DEF TableFacts, SuperInv, Up
<1>6. PlaceInv'
  BY <1>1, <1>2 DEF TableFacts, PlaceInv
<1>7. ExtInv'
  BY <1>1, <1>2 DEF TableFacts, ExtInv, Up
<1>8. ChainInv'
  BY <1>1, <1>2, ErasedKeeps
<1>9. LastInv'
  BY <1>2 DEF LastInv
<1> QED BY <1>3, <1>4, <1>5, <1>6, <1>7, <1>8, <1>9 DEF TablesInv

(* What the start of an extended table changes; the super block is clean   *)
(* then.                                                                   *)
LEMMA ExtBeginSteps ==
  ASSUME TablesInv, ExtBegin
  PROVE  /\ TableFacts /\ Erased /\ pc = "meta" /\ pc' = "ext" /\ ~exdirty /\ ~useBase
         /\ extn < MaxExt /\ extn' = extn + 1 /\ isec[2] <= extn'
         /\ UNCHANGED <<isec, useBase, rel, recs, pend, sync, good, broken>>
         /\ \/ isec[2] = 0 /\ base' = [base EXCEPT ![isec[1]] = Bad] /\ base'[isec[1]] = Bad
                 /\ ext' = ext
            \/ isec[2] # 0 /\ ext' = [ext EXCEPT ![isec[1]][isec[2]] = Bad] /\ base' = base
                 /\ ext'[isec[1]][isec[2]] = Bad /\ isec[2] \in 1 .. MaxExt
<1> USE TablesConstants
<1>1. TypeOK /\ SuperInv /\ PlaceInv /\ isec[1] \in Slot /\ isec[2] \in 0 .. MaxExt + 1
  BY Fields DEF TablesInv
<1>2. /\ pc = "meta" /\ pc' = "ext" /\ extn' = extn + 1 /\ ~(extn >= MaxExt) /\ ~useBase
      /\ UNCHANGED <<useBase, isec, exsb, exdirty, id, rel, recs, pend, sync, tpages, sb, good, broken, geoCrash>>
      /\ IF isec[2] = 0
           THEN base' = [base EXCEPT ![isec[1]] = Bad] /\ UNCHANGED ext
           ELSE ext' = [ext EXCEPT ![isec[1]][isec[2]] = Bad] /\ UNCHANGED base
  BY DEF ExtBegin, WritesBase, ChooseExt, ghost
<1>3. extn \in 0 .. MaxExt /\ extn < MaxExt /\ extn + 1 \in 0 .. MaxExt /\ isec[2] <= extn + 1
  BY <1>1, <1>2 DEF TypeOK, PlaceInv
<1>4. ~exdirty
  BY <1>1, <1>2 DEF SuperInv
<1>5. CASE isec[2] = 0
  <2>1. /\ base' \in [Slot -> Base \cup {Bad}] /\ base'[isec[1]] = Bad
        /\ \A s \in Slot : base'[s] # Bad => base'[s] = base[s]
    BY <1>1, <1>2, <1>5 DEF TypeOK
  <2> QED BY <1>1, <1>2, <1>3, <1>4, <1>5, <2>1 DEF TableFacts, Erased, TypeOK
<1>6. CASE isec[2] # 0
  <2>1. isec[2] \in 1 .. MaxExt
    BY <1>1, <1>3, <1>6
  <2>2. ext' = [ext EXCEPT ![isec[1]] = [ext[isec[1]] EXCEPT ![isec[2]] = Bad]]
    BY <1>2, <1>6
  <2>3. ext[isec[1]] \in [1 .. MaxExt -> Ext \cup {Bad}]
    BY <1>1 DEF TypeOK
  <2>4. [ext[isec[1]] EXCEPT ![isec[2]] = Bad] \in [1 .. MaxExt -> Ext \cup {Bad}]
    BY <2>3
  <2>5. ext' \in [Slot -> [1 .. MaxExt -> Ext \cup {Bad}]] /\ ext'[isec[1]][isec[2]] = Bad
    BY <1>1, <2>1, <2>2, <2>3, <2>4 DEF TypeOK
  <2>6. \A s \in Slot, k \in 1 .. MaxExt : ext'[s][k] # Bad => ext'[s][k] = ext[s][k]
    BY <1>1, <2>2, <2>3 DEF TypeOK
  <2> QED BY <1>1, <1>2, <1>3, <1>4, <1>6, <2>1, <2>5, <2>6 DEF TableFacts, Erased, TypeOK
<1> QED BY <1>5, <1>6

(* The start of an extended table keeps the invariant. *)
LEMMA ExtBeginKeeps ==
  ASSUME TablesInv, ExtBegin
  PROVE  TablesInv'
<1>1. TypeOK /\ PureInv /\ SuperInv /\ PlaceInv /\ ExtInv /\ ChainInv /\ LastInv
  BY DEF TablesInv
<1>2. /\ TableFacts /\ Erased /\ pc = "meta" /\ pc' = "ext" /\ ~exdirty /\ ~useBase
      /\ extn' = extn + 1 /\ isec[2] <= extn' /\ extn \in Nat /\ isec[2] \in Nat /\ isec[1] \in Slot
      /\ UNCHANGED <<isec, useBase, rel, recs, pend, sync, good, broken>>
      /\ \/ isec[2] = 0 /\ base'[isec[1]] = Bad
         \/ isec[2] # 0 /\ ext'[isec[1]][isec[2]] = Bad
  BY <1>1, ExtBeginSteps, Fields, TablesConstants DEF TypeOK
<1>3. TypeOK'
  BY <1>1, <1>2 DEF TableFacts, TypeOK
<1>4. PureInv'
  BY <1>1, <1>2 DEF TableFacts, Erased, PureInv
<1>5. SuperInv'
  BY <1>1, <1>2 DEF TableFacts, SuperInv, Up
<1>6. PlaceInv'
  BY <1>1, <1>2 DEF TableFacts, PlaceInv
<1>7. ExtInv'
  BY <1>1, <1>2 DEF TableFacts, Erased, ExtInv, Up
<1>8. ChainInv'
  BY <1>1, <1>2, ErasedKeeps
<1>9. LastInv'
  <2>1. isec[2] > 1 => isec[2] - 1 \in 1 .. MaxExt
    BY <1>1, Fields, TablesConstants
  <2> QED BY <1>1, <1>2, <2>1 DEF TableFacts, Erased, LastInv, Settled, Up, AtSb1
<1> QED BY <1>3, <1>4, <1>5, <1>6, <1>7, <1>8, <1>9 DEF TablesInv

(* What the end of a base table changes. *)
LEMMA BaseEndSteps ==
  ASSUME TablesInv, BaseEnd
  PROVE  /\ TableFacts /\ pc = "base" /\ pc' = (IF exdirty THEN "sb1" ELSE "idle")
         /\ isec[1] \in Slot /\ isec[1] \in {0, exsb.lv}
         /\ isec' = <<isec[1], 1>> /\ extn = 0 /\ sync \in Nat /\ sync' = sync + 1
         /\ rel' = id /\ recs' = 0 /\ pend' = FALSE /\ good' = id /\ id \in Table
         /\ base'[isec[1]] # Bad /\ base'[isec[1]].ver = <<exsb.mount, sync>>
         /\ base'[isec[1]].id = id /\ base'[isec[1]].meta = exsb.meta
         /\ \A s \in Slot \ {isec[1]} : base'[s] = base[s]
         /\ broken' = broken \ {"table"} /\ UNCHANGED <<useBase, extn, ext>>
<1> USE TablesConstants
<1> DEFINE new == [ver |-> <<exsb.mount, sync>>, id |-> id, meta |-> exsb.meta]
<1>1. /\ TypeOK /\ isec[1] \in Slot /\ exsb.mount \in 0 .. MaxMount /\ exsb.meta \in 1 .. MaxMeta
      /\ sync \in Nat /\ id \in Table
  BY Fields DEF TablesInv, TypeOK, PureInv
<1>2. /\ pc = "base" /\ pc' = (IF exdirty THEN "sb1" ELSE "idle") /\ base' = [base EXCEPT ![isec[1]] = new]
      /\ isec' = <<isec[1], 1>> /\ sync' = sync + 1 /\ pend' = FALSE /\ recs' = 0 /\ rel' = id
      /\ good' = id /\ broken' = broken \ {"table"}
      /\ UNCHANGED <<exsb, exdirty, id, useBase, extn, tpages, ext, sb, geoCrash>>
  BY DEF BaseEnd, AfterTable
<1>3. new \in Base /\ new # Bad
  BY <1>1, BadAssumption DEF Base, Ver
<1>4. /\ base' \in [Slot -> Base \cup {Bad}] /\ base'[isec[1]] = new
      /\ \A s \in Slot \ {isec[1]} : base'[s] = base[s]
  BY <1>1, <1>2, <1>3 DEF TypeOK
<1>5. isec' \in Slot \X (0 .. (MaxExt + 1))
  BY <1>1, <1>2
<1>6. isec[1] \in {0, exsb.lv} /\ extn = 0
  BY <1>2 DEF TablesInv, PlaceInv
<1> QED BY <1>1, <1>2, <1>3, <1>4, <1>5, <1>6 DEF TableFacts, TypeOK

(* A new base table has no followers: the extended tables left in its slot *)
(* are older.                                                              *)
LEMMA BaseEndKeeps ==
  ASSUME TablesInv, BaseEnd
  PROVE  TablesInv'
<1> USE TablesConstants
<1>1. TypeOK /\ PureInv /\ SuperInv /\ PlaceInv /\ ExtInv /\ ChainInv /\ LastInv
  BY DEF TablesInv
<1>2. /\ TableFacts /\ pc = "base" /\ pc' = (IF exdirty THEN "sb1" ELSE "idle")
      /\ isec[1] \in Slot /\ isec'[1] = isec[1] /\ isec'[2] = 1 /\ extn = 0
      /\ sync \in Nat /\ sync' = sync + 1 /\ rel' = id /\ recs' = 0 /\ pend' = FALSE
      /\ good' = id /\ id \in Table
      /\ base'[isec[1]] # Bad /\ base'[isec[1]].ver = <<exsb.mount, sync>> /\ base'[isec[1]].id = id
      /\ \A s \in Slot \ {isec[1]} : base'[s] = base[s]
      /\ broken' = broken \ {"table"} /\ UNCHANGED <<useBase, extn, ext>>
  BY BaseEndSteps
<1>3. exsb.mount \in Nat
  BY <1>1, Fields
<1>4. TypeOK'
  <2>1. {id', rel', good'} \subseteq Table \cup {Mixed} /\ recs' \in 0 .. MaxRec /\ sync' \in Nat
    BY <1>2 DEF TableFacts
  <2> QED BY <1>1, <1>2, <2>1 DEF TableFacts, TypeOK
<1>5. PureInv'
  BY <1>1, <1>2 DEF TableFacts, PureInv
<1>6. SuperInv'
  BY <1>1, <1>2 DEF TableFacts, SuperInv, Up
<1>7. PlaceInv'
  BY <1>1, <1>2 DEF TableFacts, PlaceInv
<1>8. ExtInv'
  <2>1. \A s \in Slot, k \in 1 .. MaxExt : ext[s][k] # Bad => ext[s][k].ver[2] \in Nat
    BY <1>1, Fields
  <2> QED BY <1>1, <1>2, <2>1 DEF TableFacts, ExtInv, Up
<1>9. ChainInv'
  <2> SUFFICES ASSUME NEW s \in Slot, NEW k \in 1 .. MaxExt, base'[s] # Bad, Follows(s, k)'
               PROVE  ext'[s][k].rel = Before(s, k)'
    BY DEF ChainInv
  <2>1. CASE s = isec[1]
    <3>1. 1 \in 1 .. k /\ 1 \in 1 .. MaxExt
      OBVIOUS
    <3>2. ext[s][1] # Bad /\ ext[s][1].ver = <<exsb.mount, sync + 1>>
      BY <1>2, <2>1, <3>1 DEF Follows
    <3>3. ext[s][1].ver[2] < sync
      BY <1>1, <1>2, <3>1, <3>2 DEF ExtInv, Up
    <3> QED BY <1>2, <3>2, <3>3
  <2>2. CASE s # isec[1]
    <3>1. base'[s] = base[s] /\ ext' = ext
      BY <1>2, <2>2
    <3>2. Follows(s, k)
      BY <3>1 DEF Follows
    <3> QED BY <1>1, <3>1, <3>2 DEF ChainInv, Before
  <2> QED BY <2>1, <2>2
<1>10. LastInv'
  BY <1>2, <1>3 DEF TableFacts, LastInv
<1> QED BY <1>4, <1>5, <1>6, <1>7, <1>8, <1>9, <1>10 DEF TablesInv

(* What the end of an extended table changes. *)
LEMMA ExtEndSteps ==
  ASSUME TablesInv, ExtEnd
  PROVE  /\ TableFacts /\ pc = "ext" /\ pc' = "idle" /\ ~exdirty
         /\ isec[1] \in Slot /\ isec[2] \in 0 .. MaxExt /\ isec[2] <= extn
         /\ isec' = <<isec[1], isec[2] + 1>> /\ sync \in Nat /\ sync' = sync + 1
         /\ rel' = id /\ recs' = 0 /\ pend' = FALSE /\ good' = id /\ id \in Table /\ rel \in Table
         /\ UNCHANGED <<useBase, extn, base, broken>>
         /\ isec[2] = 0 => ext' = ext /\ base[isec[1]] = Bad
         /\ isec[2] # 0 =>
              /\ ext'[isec[1]][isec[2]] # Bad
              /\ ext'[isec[1]][isec[2]].ver = <<exsb.mount, sync>>
              /\ ext'[isec[1]][isec[2]].id = id /\ ext'[isec[1]][isec[2]].rel = rel
              /\ \A s \in Slot, k \in 1 .. MaxExt :
                   s # isec[1] \/ k # isec[2] => ext'[s][k] = ext[s][k]
<1> USE TablesConstants
<1> DEFINE new == [ver |-> <<exsb.mount, sync>>, rel |-> rel, id |-> id]
<1>1. /\ TypeOK /\ isec[1] \in Slot /\ isec[2] \in 0 .. MaxExt + 1 /\ exsb.mount \in 0 .. MaxMount
      /\ sync \in Nat /\ id \in Table /\ rel \in Table /\ extn \in 0 .. MaxExt
  BY Fields DEF TablesInv, TypeOK, PureInv
<1>2. /\ pc = "ext" /\ pc' = (IF exdirty THEN "sb1" ELSE "idle")
      /\ IF isec[2] = 0 THEN UNCHANGED ext ELSE ext' = [ext EXCEPT ![isec[1]][isec[2]] = new]
      /\ isec' = <<isec[1], isec[2] + 1>> /\ sync' = sync + 1 /\ pend' = FALSE /\ recs' = 0 /\ rel' = id
      /\ good' = id /\ UNCHANGED <<exsb, exdirty, id, useBase, extn, tpages, base, sb, broken, geoCrash>>
  BY DEF ExtEnd, AfterTable
<1>3. ~exdirty /\ isec[2] <= extn /\ (isec[2] = 0 => base[isec[1]] = Bad)
  BY <1>2 DEF TablesInv, SuperInv, PlaceInv
<1>4. isec[2] \in 0 .. MaxExt
  BY <1>1, <1>3
<1>5. isec' \in Slot \X (0 .. (MaxExt + 1))
  BY <1>1, <1>2, <1>4
<1>6. CASE isec[2] = 0
  BY <1>1, <1>2, <1>3, <1>4, <1>5, <1>6 DEF TableFacts, TypeOK
<1>7. CASE isec[2] # 0
  <2>1. new \in Ext /\ new # Bad /\ isec[2] \in 1 .. MaxExt
    BY <1>1, <1>4, <1>7, BadAssumption DEF Ext, Ver
  <2>2. new.ver = <<exsb.mount, sync>> /\ new.rel = rel /\ new.id = id
    OBVIOUS
  <2>3. ext' = [ext EXCEPT ![isec[1]] = [ext[isec[1]] EXCEPT ![isec[2]] = new]]
    BY <1>2, <1>7
  <2>4. ext[isec[1]] \in [1 .. MaxExt -> Ext \cup {Bad}]
    BY <1>1 DEF TypeOK
  <2> HIDE DEF new
  <2>5. [ext[isec[1]] EXCEPT ![isec[2]] = new] \in [1 .. MaxExt -> Ext \cup {Bad}]
    BY <2>1, <2>4
  <2>6. ext' \in [Slot -> [1 .. MaxExt -> Ext \cup {Bad}]] /\ ext'[isec[1]][isec[2]] = new
    BY <1>1, <2>1, <2>3, <2>4, <2>5 DEF TypeOK
  <2>7. \A s \in Slot, k \in 1 .. MaxExt :
          s # isec[1] \/ k # isec[2] => ext'[s][k] = ext[s][k]
    BY <1>1, <2>3, <2>4 DEF TypeOK
  <2> QED BY <1>1, <1>2, <1>3, <1>4, <1>5, <1>7, <2>1, <2>2, <2>6, <2>7 DEF TableFacts, TypeOK
<1> QED BY <1>6, <1>7

(* A new extended table that follows on is relative to the table before    *)
(* it.                                                                     *)
LEMMA ExtEndKeeps ==
  ASSUME TablesInv, ExtEnd
  PROVE  TablesInv'
<1> USE TablesConstants
<1>1. TypeOK /\ PureInv /\ SuperInv /\ PlaceInv /\ ExtInv /\ ChainInv /\ LastInv
  BY DEF TablesInv
<1>2. /\ TableFacts /\ pc = "ext" /\ pc' = "idle" /\ ~exdirty
      /\ isec[1] \in Slot /\ isec[2] \in 0 .. MaxExt /\ isec[2] <= extn
      /\ isec'[1] = isec[1] /\ isec'[2] = isec[2] + 1 /\ sync \in Nat /\ sync' = sync + 1
      /\ rel' = id /\ recs' = 0 /\ pend' = FALSE /\ good' = id /\ id \in Table /\ rel \in Table
      /\ UNCHANGED <<useBase, extn, base, broken>>
  BY ExtEndSteps
<1>3. isec[2] = 0 => ext' = ext /\ base[isec[1]] = Bad
  BY ExtEndSteps
<1>4. isec[2] # 0 =>
        /\ isec[2] \in 1 .. MaxExt /\ ext'[isec[1]][isec[2]] # Bad
        /\ ext'[isec[1]][isec[2]].ver = <<exsb.mount, sync>>
        /\ ext'[isec[1]][isec[2]].id = id /\ ext'[isec[1]][isec[2]].rel = rel
        /\ \A s \in Slot, k \in 1 .. MaxExt :
             s # isec[1] \/ k # isec[2] => ext'[s][k] = ext[s][k]
  BY <1>2, ExtEndSteps
<1>5. exsb.mount \in Nat /\ extn \in Nat
  <2>1. exsb.mount \in 0 .. MaxMount /\ extn \in 0 .. MaxExt
    BY <1>1, Fields DEF TypeOK
  <2> QED BY <2>1
<1>6. TypeOK'
  <2>1. {id', rel', good'} \subseteq Table \cup {Mixed} /\ recs' \in 0 .. MaxRec /\ sync' \in Nat
    BY <1>2 DEF TableFacts
  <2> QED BY <1>1, <1>2, <2>1 DEF TableFacts, TypeOK
<1>7. PureInv'
  <2>1. \A s \in Slot, k \in 1 .. MaxExt : ext'[s][k] # Bad => ext'[s][k].id \in Table
    BY <1>1, <1>2, <1>3, <1>4 DEF PureInv
  <2> QED BY <1>1, <1>2, <2>1 DEF TableFacts, PureInv
<1>8. SuperInv'
  BY <1>1, <1>2 DEF TableFacts, SuperInv, Up
<1>9. PlaceInv'
  BY <1>1, <1>2, <1>5 DEF TableFacts, PlaceInv
<1>10. ExtInv'
  <2> SUFFICES ASSUME NEW s \in Slot, NEW k \in 1 .. MaxExt, ext'[s][k] # Bad
               PROVE  /\ \A i \in 1 .. 2 : sb[i] # Bad => ext'[s][k].ver[1] <= sb[i].mount
                      /\ ext'[s][k].ver[1] <= exsb.mount
                      /\ ext'[s][k].ver[1] = exsb.mount => ext'[s][k].ver[2] < sync + 1
    BY <1>2 DEF TableFacts, ExtInv
  <2>1. CASE isec[2] # 0 /\ s = isec[1] /\ k = isec[2]
    <3>1. ext'[s][k].ver[1] = exsb.mount /\ ext'[s][k].ver[2] = sync
      BY <1>4, <2>1
    <3>2. sb[1].mount = exsb.mount /\ sb[2].mount = exsb.mount
      BY <1>1, <1>2 DEF SuperInv, Up
    <3> QED BY <1>2, <1>5, <3>1, <3>2
  <2>2. CASE ~(isec[2] # 0 /\ s = isec[1] /\ k = isec[2])
    <3>1. ext'[s][k] = ext[s][k]
      BY <1>3, <1>4, <2>2
    <3>2. ext[s][k].ver[2] \in Nat
      BY <1>1, <3>1, Fields
    <3> QED BY <1>1, <1>2, <3>1, <3>2 DEF ExtInv, Up
  <2> QED BY <2>1, <2>2
<1>11. ChainInv'
  <2> SUFFICES ASSUME NEW s \in Slot, NEW k \in 1 .. MaxExt, base'[s] # Bad, Follows(s, k)'
               PROVE  ext'[s][k].rel = Before(s, k)'
    BY DEF ChainInv
  <2>0. /\ base' = base /\ k \in 1 .. k /\ (k # 1 => k - 1 \in 1 .. k)
        /\ \A j \in 1 .. k : j \in 1 .. MaxExt
        /\ base[s].ver[1] \in Nat /\ base[s].ver[2] \in Nat
    BY <1>1, <1>2, Fields
  <2>1. \A j \in 1 .. k : ext'[s][j] # Bad /\ ext'[s][j].ver = <<base[s].ver[1], base[s].ver[2] + j>>
    BY <2>0 DEF Follows
  <2>2. CASE isec[2] # 0 /\ s = isec[1] /\ isec[2] <= k
    <3> DEFINE n == isec[2]
    <3>1. n \in 1 .. k /\ ext'[s][n].ver = <<exsb.mount, sync>> /\ ext'[s][n].rel = rel
      BY <1>2, <1>4, <2>2
    <3>2. base[s].ver[1] = exsb.mount /\ base[s].ver[2] + n = sync
      BY <2>1, <3>1
    <3>3. k = n
      <4> SUFFICES ASSUME k # n PROVE FALSE
        OBVIOUS
      <4>1. n + 1 \in 1 .. k /\ n + 1 # n /\ n + 1 \in 1 .. MaxExt
        BY <2>2, <3>1
      <4>2. ext'[s][n + 1] = ext[s][n + 1]
        BY <1>4, <2>2, <4>1
      <4>3. ext[s][n + 1] # Bad /\ ext[s][n + 1].ver = <<exsb.mount, base[s].ver[2] + (n + 1)>>
        BY <2>1, <3>2, <4>1, <4>2
      <4>4. ext[s][n + 1].ver[2] < sync
        BY <1>1, <1>2, <4>1, <4>3 DEF ExtInv, Up
      <4> QED BY <1>2, <2>0, <3>1, <3>2, <4>3, <4>4
    <3>4. CASE n = 1
      <4>1. base[s].id = rel
        <5>1. base[s].ver[2] = sync - 1 /\ isec[2] = 1
          BY <1>2, <2>0, <3>2, <3>4
        <5>2. base[isec[1]] # Bad /\ base[isec[1]].ver[1] = exsb.mount
          BY <2>0, <2>2, <3>2
        <5> QED BY <1>1, <1>2, <2>2, <5>1, <5>2 DEF LastInv, Settled, Up
      <4> QED BY <2>0, <3>1, <3>3, <3>4, <4>1 DEF Before
    <3>5. CASE n # 1
      <4>1. n - 1 \in 1 .. k /\ n - 1 \in 1 .. MaxExt /\ n - 1 # n
        BY <3>1, <3>5
      <4>2. ext'[s][n - 1] = ext[s][n - 1]
        BY <1>4, <2>2, <4>1
      <4>3. ext[s][n - 1] # Bad /\ ext[s][n - 1].ver = <<exsb.mount, base[s].ver[2] + (n - 1)>>
        BY <2>1, <3>2, <4>1, <4>2
      <4>4. base[s].ver[2] + (n - 1) = sync - 1
        BY <1>2, <2>0, <3>1, <3>2
      <4>5. ext[s][n - 1].id = rel
        <5>1. isec[2] > 1 /\ ext[isec[1]][isec[2] - 1] # Bad
              /\ ext[isec[1]][isec[2] - 1].ver = <<exsb.mount, sync - 1>>
          BY <2>2, <3>1, <3>5, <4>3, <4>4
        <5> QED BY <1>1, <1>2, <2>2, <5>1 DEF LastInv, Settled, Up
      <4> QED BY <3>1, <3>3, <3>5, <4>2, <4>5 DEF Before
    <3> QED BY <3>4, <3>5
  <2>3. CASE ~(isec[2] # 0 /\ s = isec[1] /\ isec[2] <= k)
    <3>1. \A j \in 1 .. k : ext'[s][j] = ext[s][j]
      BY <1>2, <1>3, <1>4, <2>0, <2>3
    <3>2. Follows(s, k)
      BY <2>0, <2>1, <3>1 DEF Follows
    <3> QED BY <1>1, <2>0, <3>1, <3>2 DEF ChainInv, Before
  <2> QED BY <2>2, <2>3
<1>12. LastInv'
  <2>1. CASE isec[2] = 0
    BY <1>2, <1>3, <2>1 DEF LastInv
  <2>2. CASE isec[2] # 0
    <3>1. isec'[2] > 1 /\ isec'[2] - 1 = isec[2]
      BY <1>2, <2>2
    <3> QED BY <1>2, <1>4, <2>2, <3>1 DEF LastInv
  <2> QED BY <2>1, <2>2
<1> QED BY <1>6, <1>7, <1>8, <1>9, <1>10, <1>11, <1>12 DEF TablesInv

(* A table that is not written, or not to its end: its sync count is used. *)
LostFacts ==
  /\ TableFacts /\ pc' = "idle"
  /\ sync \in Nat /\ sync' = sync + 1 /\ rel' = id /\ recs' = 0 /\ pend' = FALSE
  /\ id \in Table /\ useBase' \in BOOLEAN
  /\ broken' = broken \cup {"table"} /\ "table" \in Faults /\ UNCHANGED <<base, ext, good>>
  /\ isec'[2] <= extn' + 1
  /\ \/ pc \in {"meta", "base"} /\ isec'[2] = 0
     \/ pc \in {"meta", "ext"} /\ ~exdirty /\ isec' = isec

(* What a failing table write changes. *)
LEMMA LostSteps ==
  ASSUME TablesInv, TableRefused \/ TableFails
  PROVE  LostFacts
<1> USE TablesConstants
<1>1. /\ TypeOK /\ SuperInv /\ PlaceInv /\ sync \in Nat /\ id \in Table /\ extn \in 0 .. MaxExt
      /\ isec[1] \in Slot /\ isec[2] \in 0 .. MaxExt + 1
  BY Fields DEF TablesInv, TypeOK, PureInv
<1>2. CASE TableFails
  <2>1. /\ pc \in {"base", "ext"} /\ pc' = "idle" /\ "table" \in Faults
        /\ sync' = sync + 1 /\ pend' = FALSE /\ recs' = 0 /\ rel' = id
        /\ broken' = broken \cup {"table"}
        /\ UNCHANGED <<exsb, exdirty, id, useBase, extn, isec, tpages, base, ext, sb, good, geoCrash>>
    BY <1>2 DEF TableFails, AfterTable, volume
  <2>2. pc = "base" => isec[2] = 0
    BY <1>1 DEF PlaceInv
  <2>3. pc = "ext" => ~exdirty
    BY <1>1 DEF SuperInv
  <2>4. isec[2] <= extn + 1
    BY <1>1 DEF PlaceInv
  <2> QED BY <1>1, <2>1, <2>2, <2>3, <2>4 DEF LostFacts, TableFacts, TypeOK
<1>3. CASE TableRefused /\ WritesBase
  <2>1. /\ pc = "meta" /\ pc' = "idle" /\ "table" \in Faults
        /\ sync' = sync + 1 /\ pend' = FALSE /\ recs' = 0 /\ rel' = id
        /\ useBase' = FALSE /\ extn' = 0 /\ isec' = <<NextSlot, 0>>
        /\ broken' = broken \cup {"table"}
        /\ UNCHANGED <<exsb, exdirty, id, tpages, base, ext, sb, good, geoCrash>>
    BY <1>3 DEF TableRefused, AfterTable, ChooseBase, volume
  <2>2. isec' \in Slot \X (0 .. (MaxExt + 1)) /\ extn' \in 0 .. MaxExt /\ isec'[2] = 0
    BY <1>1, <2>1, NextSlotFacts
  <2>3. isec'[2] <= extn' + 1
    BY <2>1, <2>2
  <2>4. pc \in {"meta", "base"} /\ isec'[2] = 0
    BY <2>1, <2>2
  <2> QED BY <1>1, <2>1, <2>2, <2>3, <2>4 DEF LostFacts, TableFacts, TypeOK
<1>4. CASE TableRefused /\ ~WritesBase
  <2>1. /\ pc = "meta" /\ pc' = "idle" /\ "table" \in Faults /\ ~(extn >= MaxExt) /\ ~useBase
        /\ sync' = sync + 1 /\ pend' = FALSE /\ recs' = 0 /\ rel' = id
        /\ extn' = extn + 1 /\ UNCHANGED <<useBase, isec>>
        /\ broken' = broken \cup {"table"}
        /\ UNCHANGED <<exsb, exdirty, id, tpages, base, ext, sb, good, geoCrash>>
    BY <1>4 DEF TableRefused, AfterTable, ChooseExt, WritesBase, volume
  <2>2. extn' \in 0 .. MaxExt /\ ~exdirty
    BY <1>1, <2>1 DEF SuperInv
  <2>3. isec[2] <= extn' + 1
    BY <1>1, <2>1 DEF PlaceInv
  <2> QED BY <1>1, <2>1, <2>2, <2>3 DEF LostFacts, TableFacts, TypeOK
<1> QED BY <1>2, <1>3, <1>4

(* A failing table write keeps the invariant: no later table has its       *)
(* version.                                                                *)
LEMMA LostKeeps ==
  ASSUME TablesInv, TableRefused \/ TableFails
  PROVE  TablesInv'
<1> USE TablesConstants
<1>1. LostFacts /\ TypeOK /\ PureInv /\ SuperInv /\ PlaceInv /\ ExtInv /\ ChainInv /\ LastInv
  BY LostSteps DEF TablesInv
<1>2. TypeOK'
  <2>1. id' \in Table /\ rel' \in Table /\ good' = good /\ recs' = 0
    BY <1>1 DEF LostFacts, TableFacts
  <2>2. sync' \in Nat /\ good \in Table /\ 0 \in 0 .. MaxRec
    BY <1>1 DEF LostFacts, PureInv
  <2> QED BY <1>1, <2>1, <2>2 DEF LostFacts, TableFacts, TypeOK
<1>3. PureInv'
  BY <1>1 DEF LostFacts, TableFacts, PureInv
<1>4. SuperInv'
  BY <1>1 DEF LostFacts, TableFacts, SuperInv, Up
<1>5. PlaceInv'
  BY <1>1 DEF LostFacts, PlaceInv
<1>6. ExtInv'
  <2>1. \A s \in Slot, k \in 1 .. MaxExt : ext[s][k] # Bad => ext[s][k].ver[2] \in Nat
    BY <1>1, Fields
  <2>2. Up /\ sync \in Nat /\ sync' = sync + 1 /\ UNCHANGED <<ext, sb, exsb>>
    BY <1>1 DEF LostFacts, TableFacts, Up
  <2> QED BY <1>1, <2>1, <2>2 DEF ExtInv
<1>7. ChainInv'
  BY <1>1 DEF LostFacts, ChainInv, Follows, Before
<1>8. LastInv'
  <2>1. CASE isec'[2] = 0
    BY <2>1 DEF LastInv
  <2>2. CASE pc \in {"meta", "ext"} /\ ~exdirty /\ isec' = isec
    <3>1. Settled /\ UNCHANGED <<base, ext, exsb, exdirty>> /\ sync' = sync + 1 /\ sync \in Nat
      BY <1>1, <2>2 DEF Settled, Up, LostFacts, TableFacts
    <3>2. isec[2] = 1 /\ base[isec[1]] # Bad /\ base[isec[1]].ver[1] = exsb.mount =>
            base[isec[1]].ver[2] < sync /\ base[isec[1]].ver[2] \in Nat
      BY <1>1, <3>1, Fields DEF LastInv
    <3>3. isec[2] > 1 /\ ext[isec[1]][isec[2] - 1] # Bad =>
            ext[isec[1]][isec[2] - 1].ver # <<exsb.mount, sync>>
      <4> SUFFICES ASSUME isec[2] > 1, ext[isec[1]][isec[2] - 1] # Bad,
                          ext[isec[1]][isec[2] - 1].ver = <<exsb.mount, sync>>
                   PROVE  FALSE
        OBVIOUS
      <4>1. isec[1] \in Slot /\ isec[2] - 1 \in 1 .. MaxExt
        BY <1>1, Fields
      <4>2. ext[isec[1]][isec[2] - 1].ver[2] < sync
        BY <1>1, <3>1, <4>1 DEF ExtInv, Settled, Up
      <4> QED BY <3>1, <4>2
    <3>4. (sync + 1) - 1 = sync
      BY <3>1
    <3> QED BY <2>2, <3>1, <3>2, <3>3, <3>4 DEF LastInv
  <2> QED BY <1>1, <2>1, <2>2 DEF LostFacts
<1> QED BY <1>2, <1>3, <1>4, <1>5, <1>6, <1>7, <1>8 DEF TablesInv

(* The invariant is inductive, whatever fails. *)
LEMMA NextTables == TablesInv /\ [Next]_vars => TablesInv'
<1> SUFFICES ASSUME TablesInv, [Next]_vars PROVE TablesInv'
  OBVIOUS
<1>1. CASE UNCHANGED vars
  <2>1. /\ UNCHANGED <<pc, exsb, exdirty, id, rel, recs, useBase, pend, sync, extn, isec, tpages>>
        /\ UNCHANGED <<base, ext, sb, good, broken, geoCrash>>
    BY <1>1 DEF vars, memory, volume, ghost
  <2>2. TypeOK' /\ PureInv' /\ SuperInv' /\ PlaceInv' /\ ExtInv'
    BY <2>1 DEF TablesInv, TypeOK, PureInv, SuperInv, PlaceInv, ExtInv, Up
  <2>3. ChainInv' /\ LastInv'
    BY <2>1 DEF TablesInv, ChainInv, Follows, Before, LastInv, Settled, Up, AtSb1
  <2> QED BY <2>2, <2>3 DEF TablesInv
<1>2. CASE Next
  BY <1>2, MountKeeps, MemoryKeeps, SuperKeeps, BaseBeginKeeps, ExtBeginKeeps, BaseEndKeeps,
     ExtEndKeeps, LostKeeps, PowerOffKeeps DEF Next, MemoryStep, SuperStep
<1> QED BY <1>1, <1>2

---------------------------------------------------------------------------
(* Versions grow while no super block is lost. *)

(* Versions on the volume mkfs made. *)
LEMMA InitVersions == Init => VersionInv
<1> SUFFICES ASSUME Init PROVE SbOrder /\ BaseKnown /\ Geometry
  BY DEF VersionInv
<1> USE TablesConstants
<1>1. MkfsExsb # Bad /\ MkfsExsb.mount = MkfsMount /\ sb[1] = MkfsExsb /\ sb[2] = MkfsExsb
  BY BadAssumption DEF Init, MkfsExsb, Exsb
<1>2. Sb1 = MkfsExsb /\ Sb2 = MkfsExsb /\ pc = "off"
  BY <1>1 DEF Sb1, Sb2, Init
<1>3. \A s \in Slot : base[s] # Bad => base[s].ver = <<MkfsMount, MkfsSync>>
  BY DEF Init
<1>4. SbOrder
  BY <1>1, <1>2 DEF SbOrder
<1>5. BaseKnown
  BY <1>1, <1>2, <1>3 DEF BaseKnown, CopyKnows, FirstKnows, NextNewer, Up
<1>6. Geometry
  BY <1>2 DEF Geometry, Up
<1> QED BY <1>4, <1>5, <1>6

(* A step in memory that refuses no growth and no super block: only a      *)
(* super block that becomes dirty changes its geometry.                    *)
LEMMA MemorySound ==
  ASSUME TablesInv, MemoryStep, Sound', Sound, Geometry
  PROVE  /\ pc # "sb1" /\ tpages' = exsb'.meta /\ exsb'.meta >= exsb.meta
         /\ exsb'.meta = exsb.meta => exsb'.lv = exsb.lv
         /\ ~exdirty' => exsb' = exsb
<1> USE TablesConstants
<1>1. /\ TypeOK /\ exsb \in Exsb /\ exsb.meta \in 1 .. MaxMeta /\ exsb.lv \in 1 .. MaxLv
      /\ tpages = exsb.meta
  BY MemorySteps, Fields DEF TablesInv, TypeOK, Geometry, MemoryFacts, Up
<1>2. exsb.meta \in Nat
  BY <1>1
<1>3. CASE exsb' = exsb /\ tpages' = tpages /\ pc # "sb1"
  BY <1>1, <1>2, <1>3
<1>4. ASSUME NEW grow \in BOOLEAN, Expand(grow)
      PROVE  /\ pc # "sb1" /\ tpages' = exsb'.meta /\ exsb'.meta >= exsb.meta
             /\ exsb'.meta = exsb.meta => exsb'.lv = exsb.lv
             /\ ~exdirty' => exsb' = exsb
  <2> DEFINE m == NewMeta(grow)
             lv == IF MoreTables(m) THEN exsb.lv + 1 ELSE exsb.lv
  <2>1. /\ pc = "idle" /\ exsb' = [exsb EXCEPT !.meta = m, !.lv = lv]
        /\ exdirty' = (exdirty \/ grow) /\ tpages' = (IF m > tpages THEN m ELSE tpages)
    BY <1>4 DEF Expand
  <2>2. \/ grow /\ m = exsb.meta + 1
        \/ ~grow /\ m = exsb.meta /\ lv = exsb.lv
    BY <1>1, <1>2 DEF NewMeta, MoreTables
  <2> HIDE DEF m, lv
  <2>3. exsb'.meta = m /\ exsb'.lv = lv
    BY <1>1, <2>1 DEF Exsb
  <2>4. m = exsb.meta /\ lv = exsb.lv => exsb' = exsb
    BY <1>1, <2>1 DEF Exsb
  <2> QED BY <1>1, <1>2, <2>1, <2>2, <2>3, <2>4
<1>5. CASE Update \/ DirtyExsb \/ CommitStart \/ MetaAbort
  BY <1>3, <1>5 DEF Update, DirtyExsb, CommitStart, MetaAbort, memory
<1>6. ~ExpandNoSpace /\ ~Sb2Fails /\ ~Sb1Fails
  <2>1. "nospace" \notin broken' /\ "super" \notin broken'
    BY DEF Sound
  <2>2. /\ ExpandNoSpace => "nospace" \in broken'
        /\ Sb2Fails \/ Sb1Fails => "super" \in broken'
    BY DEF ExpandNoSpace, Sb2Fails, Sb1Fails
  <2> QED BY <2>1, <2>2
<1> QED BY <1>4, <1>5, <1>6 DEF MemoryStep

(* Steps in memory keep the order of the versions. *)
LEMMA MemoryVersions ==
  ASSUME TablesInv, VersionInv, MemoryStep
  PROVE  VersionInv'
<1> SUFFICES ASSUME Sound' PROVE SbOrder' /\ BaseKnown' /\ Geometry'
  BY DEF VersionInv
<1>1. MemoryFacts /\ Sound /\ SbOrder /\ BaseKnown /\ Geometry /\ Up /\ Up'
  BY MemorySteps DEF VersionInv, Sound, MemoryFacts, Up
<1>2. /\ pc # "sb1" /\ tpages' = exsb'.meta /\ exsb'.meta >= exsb.meta
      /\ exsb'.meta = exsb.meta => exsb'.lv = exsb.lv
      /\ ~exdirty' => exsb' = exsb
  BY <1>1, MemorySound
<1>3. Sb1' = Sb1 /\ Sb2' = Sb2
  BY <1>1 DEF MemoryFacts, Sb1, Sb2
<1>4. SbOrder'
  BY <1>1, <1>3 DEF SbOrder
<1>5. BaseKnown'
  <2>1. base' = base /\ sync' = sync /\ exsb'.mount = exsb.mount /\ sb' = sb
    BY <1>1 DEF MemoryFacts
  <2>2. CopyKnows'
    BY <1>1, <1>3, <2>1 DEF BaseKnown, CopyKnows
  <2>3. FirstKnows'
    BY <1>1, <1>2, <2>1 DEF MemoryFacts, BaseKnown, FirstKnows
  <2>4. NextNewer'
    BY <1>1, <2>1 DEF BaseKnown, NextNewer
  <2> QED BY <2>2, <2>3, <2>4 DEF BaseKnown
<1>6. Geometry'
  <2>1. exsb.meta \in Nat /\ exsb'.meta \in Nat /\ (sb[1] # Bad => sb[1].meta \in Nat)
    <3>1. TypeOK /\ exsb' \in Exsb
      BY <1>1 DEF TablesInv, MemoryFacts
    <3> QED BY <3>1, SuperNats, TablesConstants DEF Exsb
  <2>2. exdirty => exdirty'
    BY <1>1 DEF MemoryFacts
  <2>3. UNCHANGED sb /\ exsb'.mount = exsb.mount
    BY <1>1 DEF MemoryFacts
  <2> QED BY <1>1, <1>2, <2>1, <2>2, <2>3 DEF Geometry
<1> QED BY <1>4, <1>5, <1>6

(* The copy is written first, so the first super block is never ahead of   *)
(* it.                                                                     *)
LEMMA SuperVersions ==
  ASSUME TablesInv, VersionInv, SuperStep
  PROVE  VersionInv'
<1> SUFFICES ASSUME Sound' PROVE SbOrder' /\ BaseKnown' /\ Geometry'
  BY DEF VersionInv
<1>0. SuperFacts /\ SuperInv /\ TypeOK
  BY SuperSteps DEF TablesInv
<1>1. Sound /\ SbOrder /\ BaseKnown /\ Geometry /\ Up /\ Up'
  BY <1>0 DEF VersionInv, Sound, SuperFacts, Up
<1>2. /\ exsb # Bad /\ exsb.mount \in Nat /\ exsb.meta \in Nat
      /\ sb[1] # Bad => sb[1].mount \in Nat /\ sb[1].meta \in Nat
  BY <1>0, SuperNats
<1>3. exsb' = exsb /\ base' = base /\ sync' = sync /\ tpages' = tpages
  BY <1>0 DEF SuperFacts
<1>4. \A s \in Slot : base[s] # Bad => base[s].ver[1] \in Nat
  BY <1>0, Fields
<1>5. /\ exsb.mount >= 1 /\ tpages = exsb.meta
      /\ sb[1] # Bad => /\ exsb.meta >= sb[1].meta
                        /\ exsb.meta = sb[1].meta => exsb.lv = sb[1].lv
  BY <1>1 DEF Geometry
<1>6. /\ \A s \in Slot : base[s] # Bad => /\ base[s].ver[1] >= 1 /\ base[s].ver[1] <= exsb.mount
                                        /\ base[s].ver[1] <= Sb2.mount
      /\ NextNewer'
  <2>1. NextNewer'
    BY <1>1, <1>3 DEF BaseKnown, NextNewer
  <2>2. ASSUME NEW s \in Slot, base[s] # Bad PROVE base[s].ver[1] <= exsb.mount
    <3>1. Newer(<<exsb.mount, sync>>, base[s].ver)
      BY <1>1, <2>2 DEF BaseKnown, NextNewer
    <3> QED BY <1>2, <1>4, <2>2, <3>1 DEF Newer
  <2> QED BY <1>1, <2>1, <2>2 DEF BaseKnown, CopyKnows
<1>7. CASE pc' = "sb2 written"
  <2>1. sb[1] # Bad /\ Sb1' = sb[1] /\ Sb2' = sb[1] /\ sb'[1] = sb[1] /\ pc = "sb2" /\ exdirty'
    BY <1>0, <1>7 DEF SuperFacts, SuperInv, Sb1, Sb2
  <2>2. BaseKnown'
    <3>1. \A s \in Slot : base[s] # Bad => base[s].ver[1] <= sb[1].mount
      BY <1>1, <2>1 DEF BaseKnown, FirstKnows
    <3>2. CopyKnows'
      BY <1>2, <1>3, <1>4, <1>6, <2>1, <3>1 DEF CopyKnows
    <3>3. FirstKnows'
      BY <1>3, <2>1, <3>1 DEF FirstKnows
    <3> QED BY <1>6, <3>2, <3>3 DEF BaseKnown
  <2>3. SbOrder'
    BY <1>2, <2>1 DEF SbOrder
  <2>4. Geometry'
    BY <1>3, <1>5, <2>1 DEF Geometry
  <2> QED BY <2>2, <2>3, <2>4
<1>8. CASE pc' = "meta"
  <2>1. sb[1] # Bad /\ Sb1' = sb[1] /\ Sb2' = exsb /\ sb'[1] = sb[1] /\ pc = "sb2 written" /\ exdirty'
    BY <1>0, <1>2, <1>8 DEF SuperFacts, SuperInv, Sb1, Sb2
  <2>2. sb[1].mount <= exsb.mount
    <3>1. 1 \in 1 .. 2
      OBVIOUS
    <3> QED BY <1>0, <1>1, <2>1, <3>1 DEF SuperInv
  <2>3. BaseKnown'
    <3>1. \A s \in Slot : base[s] # Bad => base[s].ver[1] <= sb[1].mount
      BY <1>1, <2>1 DEF BaseKnown, FirstKnows
    <3>2. CopyKnows'
      <4>1. \A s \in Slot : base'[s] # Bad =>
              /\ base'[s].ver[1] >= 1 /\ base'[s].ver[1] <= Sb2'.mount
              /\ base'[s].ver[1] <= Sb1'.mount /\ base'[s].ver[1] \in Nat
        BY <1>3, <1>4, <1>6, <2>1, <3>1
      <4>2. Sb1'.mount \in Nat
        BY <1>2, <2>1
      <4> QED BY <4>1, <4>2 DEF CopyKnows
    <3>3. FirstKnows'
      BY <1>3, <2>1, <3>1 DEF FirstKnows
    <3> QED BY <1>6, <3>2, <3>3 DEF BaseKnown
  <2>4. SbOrder'
    BY <1>2, <1>5, <2>1, <2>2 DEF SbOrder
  <2>5. Geometry'
    BY <1>3, <1>5, <2>1 DEF Geometry
  <2> QED BY <2>3, <2>4, <2>5
<1>9. CASE pc' \in {"sb1 written", "idle"}
  <2>1. /\ Sb2 = exsb /\ Sb1' = exsb /\ Sb2' = exsb /\ sb'[2] = exsb
        /\ sb'[1] \in {Bad, exsb} /\ (pc' = "idle" => sb'[1] = exsb)
        /\ (~exdirty' => sb'[1] = exsb)
    BY <1>0, <1>2, <1>9 DEF SuperFacts, SuperInv, Sb1, Sb2
  <2>2. BaseKnown'
    <3>1. CopyKnows'
      BY <1>2, <1>3, <1>4, <1>6, <2>1 DEF CopyKnows
    <3>2. FirstKnows'
      BY <1>3, <1>9, <1>6, <2>1 DEF FirstKnows
    <3> QED BY <1>6, <3>1, <3>2 DEF BaseKnown
  <2>3. SbOrder'
    BY <1>2, <2>1 DEF SbOrder
  <2>4. Geometry'
    BY <1>2, <1>3, <1>5, <2>1 DEF Geometry
  <2> QED BY <2>2, <2>3, <2>4
<1> QED BY <1>0, <1>7, <1>8, <1>9 DEF SuperFacts

(* A power failure changes no version. *)
LEMMA PowerOffVersions ==
  ASSUME VersionInv, PowerOff
  PROVE  VersionInv'
<1>1. UNCHANGED <<base, sb, broken>> /\ pc' = "off"
  BY DEF PowerOff, volume
<1>2. Sb1' = Sb1 /\ Sb2' = Sb2
  BY <1>1 DEF Sb1, Sb2
<1> QED BY <1>1, <1>2 DEF VersionInv, Sound, SbOrder, BaseKnown, CopyKnows, FirstKnows,
                          NextNewer, Geometry, Up

(* Mount goes on from a super block that knows of every base table: a      *)
(* table the first one does not know of is seen by load_base_table().      *)
LEMMA RestoredKnows ==
  ASSUME TablesInv, HasNewest, SbOrder, BaseKnown,
         NEW s \in Slot, base[s] # Bad
  PROVE  base[s].ver[1] <= Restored.mount
<1>1. /\ TypeOK /\ SuperInv /\ Sb1.mount \in Nat /\ Sb2.mount \in Nat
      /\ base[s].ver[1] \in Nat /\ base[s].ver[2] \in Nat
  BY Supers, Fields DEF TablesInv
<1>2. base[s].ver[1] <= Sb2.mount /\ (base[s].ver[1] > Sb1.mount => s \in {0, Sb2.lv})
  BY DEF BaseKnown, CopyKnows
<1>3. CASE Restored = Sb2 \/ Sb1.mount = Sb2.mount
  BY <1>1, <1>2, <1>3 DEF Restored
<1>4. CASE Restored # Sb2 /\ Sb1.mount # Sb2.mount
  <2>1. Restored = Sb1 /\ Versions[Newest] = <<Sb1.mount, MkfsSync>>
    BY <1>4 DEF Restored, ExsbVersion
  <2> SUFFICES ASSUME base[s].ver[1] > Sb1.mount PROVE FALSE
    BY <1>1, <2>1
  <2>2. s = 0 \/ s = Sb2.lv
    BY <1>2
  <2>3. \E j \in 1 .. 3 : Versions[j] = TableVersion(s)
    <3>1. CASE s = 0
      BY <3>1 DEF Versions
    <3>2. CASE s = Sb2.lv /\ Sb1.meta # Sb2.meta
      BY <3>2 DEF Versions
    <3>3. CASE s = Sb2.lv /\ Sb1.meta = Sb2.meta
      <4>1. Sb1.lv = Sb2.lv
        BY <1>4, <3>3 DEF SbOrder
      <4> QED BY <3>3, <4>1 DEF Versions
    <3> QED BY <2>2, <3>1, <3>2, <3>3
  <2>4. PICK j \in 1 .. 3 : Versions[j] = base[s].ver
    BY <1>1, <2>3, BaseVersions
  <2>5. Newest \in 1 .. 3 /\ IsNewest(Newest)
    BY <1>1, NewestFacts
  <2>6. j = Newest \/ Newer(Versions[Newest], base[s].ver)
    BY <2>4, <2>5 DEF IsNewest
  <2> QED BY <1>1, <2>1, <2>4, <2>6 DEF Newer
<1> QED BY <1>3, <1>4

(* A mount counts on from a super block that knows of every base table. *)
LEMMA MountVersions ==
  ASSUME TablesInv, VersionInv, Mount
  PROVE  VersionInv'
<1> SUFFICES ASSUME Sound' PROVE SbOrder' /\ BaseKnown' /\ Geometry'
  BY DEF VersionInv
<1>0. MountFacts /\ TypeOK /\ HasNewest
  BY MountSteps DEF TablesInv, MountFacts, Mountable
<1>1. SbOrder /\ BaseKnown
  BY <1>0 DEF VersionInv, Sound, MountFacts
<1>2. /\ sb'[1] \in Exsb /\ sb'[2] \in Exsb /\ sb'[1] # Bad /\ sb'[2] # Bad
      /\ Restored.mount \in Nat /\ Restored.meta \in Nat
  <2>1. 1 \in 1 .. 2 /\ 2 \in 1 .. 2
    OBVIOUS
  <2>2. sb'[1] \in Exsb /\ sb'[2] \in Exsb /\ Restored \in Exsb
    BY <1>0, <2>1 DEF MountFacts
  <2> QED BY <2>2, BadAssumption, TablesConstants DEF Exsb
<1>3. Sb1' = sb'[1] /\ Sb2' = sb'[2]
  BY <1>2 DEF Sb1, Sb2
<1>4. sb'[1] = Restored /\ sb'[2].mount = Restored.mount
  BY <1>0 DEF MountFacts
<1>5. /\ exsb'.mount = Restored.mount + 1 /\ exsb'.meta = Restored.meta /\ exsb'.lv = Restored.lv
      /\ exdirty' /\ tpages' = Restored.meta /\ base' = base
  BY <1>0 DEF MountFacts
<1>6. \A s \in Slot : base[s] # Bad => /\ base[s].ver[1] <= Restored.mount
                                       /\ base[s].ver[1] \in Nat /\ base[s].ver[1] >= 1
  BY <1>0, <1>1, RestoredKnows, Fields DEF BaseKnown, CopyKnows
<1>7. SbOrder'
  BY <1>2, <1>3, <1>4 DEF SbOrder
<1>8. CopyKnows'
  BY <1>2, <1>3, <1>4, <1>5, <1>6 DEF CopyKnows
<1>9. FirstKnows'
  BY <1>4, <1>5, <1>6 DEF FirstKnows
<1>10. NextNewer'
  <2>1. \A s \in Slot : base[s] # Bad => base[s].ver[1] < exsb'.mount
    BY <1>2, <1>5, <1>6
  <2>2. \A s \in Slot : base'[s] # Bad => Newer(<<exsb'.mount, sync'>>, base'[s].ver)
    BY <1>2, <1>5, <1>6, <2>1 DEF Newer
  <2> QED BY <2>2 DEF NextNewer
<1>11. Geometry'
  <2>1. exsb'.mount >= 1 /\ exsb'.meta >= sb'[1].meta
    BY <1>2, <1>4, <1>5
  <2> QED BY <1>4, <1>5, <2>1 DEF Geometry
<1> QED BY <1>7, <1>8, <1>9, <1>10, <1>11 DEF BaseKnown

(* Until a base table is written to its end, base tables only disappear. *)
LEMMA ErasedVersions ==
  ASSUME TablesInv, VersionInv, UNCHANGED <<exsb, exdirty, tpages, sb>>,
         \A s \in Slot : base'[s] # Bad => base'[s] = base[s],
         pc \in {"meta", "base", "ext"}, pc' \in {"base", "ext", "idle"},
         sync' = sync \/ sync' = sync + 1, broken \subseteq broken' \cup {"table"}
  PROVE  VersionInv'
<1> SUFFICES ASSUME Sound' PROVE SbOrder' /\ BaseKnown' /\ Geometry'
  BY DEF VersionInv
<1>1. SbOrder /\ CopyKnows /\ FirstKnows /\ NextNewer /\ Geometry /\ Up /\ Up'
  BY DEF VersionInv, Sound, BaseKnown, Up
<1>2. Sb1' = Sb1 /\ Sb2' = Sb2
  BY DEF Sb1, Sb2
<1>3. SbOrder'
  BY <1>1, <1>2 DEF SbOrder
<1>4. CopyKnows'
  BY <1>1, <1>2 DEF CopyKnows
<1>5. FirstKnows'
  BY <1>1 DEF FirstKnows
<1>6. NextNewer'
  <2> SUFFICES ASSUME NEW s \in Slot, base'[s] # Bad
               PROVE  Newer(<<exsb.mount, sync'>>, base[s].ver)
    BY DEF NextNewer
  <2>1. base[s] # Bad /\ Newer(<<exsb.mount, sync>>, base[s].ver)
    BY <1>1 DEF NextNewer
  <2>2. exsb.mount \in Nat /\ sync \in Nat /\ base[s].ver[1] \in Nat /\ base[s].ver[2] \in Nat
    BY <2>1, Fields, SuperNats DEF TablesInv, TypeOK
  <2> QED BY <2>1, <2>2 DEF Newer
<1>7. Geometry'
  BY <1>1 DEF Geometry
<1> QED BY <1>3, <1>4, <1>5, <1>6, <1>7 DEF BaseKnown

(* A base table is written when the copy knows of its mount. *)
LEMMA BaseEndVersions ==
  ASSUME TablesInv, VersionInv, BaseEnd
  PROVE  VersionInv'
<1> SUFFICES ASSUME Sound' PROVE SbOrder' /\ BaseKnown' /\ Geometry'
  BY DEF VersionInv
<1>0. TypeOK /\ SuperInv
  BY DEF TablesInv
<1>1. /\ UNCHANGED <<exsb, exdirty, tpages, sb>> /\ pc = "base" /\ pc' = (IF exdirty THEN "sb1" ELSE "idle")
      /\ isec[1] \in Slot /\ isec[1] \in {0, exsb.lv} /\ sync \in Nat /\ sync' = sync + 1
      /\ base'[isec[1]].ver = <<exsb.mount, sync>>
      /\ \A s \in Slot \ {isec[1]} : base'[s] = base[s]
      /\ broken' = broken \ {"table"}
  BY BaseEndSteps DEF TableFacts
<1>2. SbOrder /\ CopyKnows /\ FirstKnows /\ NextNewer /\ Geometry /\ Up /\ Up'
  BY <1>1 DEF VersionInv, Sound, BaseKnown, Up
<1>3. Sb1' = Sb1 /\ Sb2' = Sb2
  BY <1>1 DEF Sb1, Sb2
<1>4. exsb # Bad /\ exsb.mount \in Nat /\ exsb.mount >= 1 /\ Sb1.mount \in Nat
  BY <1>0, <1>2, SuperNats, Supers DEF Geometry
<1>5. Sb2 = exsb
  BY <1>0, <1>1, <1>2, <1>4 DEF SuperInv, Sb2, Geometry
<1>6. \A s \in Slot : base[s] # Bad => base[s].ver[1] \in Nat /\ base[s].ver[2] \in Nat
  BY <1>0, Fields
<1>7. SbOrder'
  BY <1>2, <1>3 DEF SbOrder
<1>8. CopyKnows'
  <2>1. \A s \in Slot \ {isec[1]} : base'[s] # Bad =>
          /\ base'[s].ver[1] >= 1 /\ base'[s].ver[1] <= Sb2.mount
          /\ base'[s].ver[1] > Sb1.mount => s \in {0, Sb2.lv}
    BY <1>1, <1>2 DEF CopyKnows
  <2>2. base'[isec[1]].ver[1] = exsb.mount
    BY <1>1
  <2> QED BY <1>1, <1>3, <1>4, <1>5, <2>1, <2>2 DEF CopyKnows
<1>9. FirstKnows'
  <2> SUFFICES ASSUME ~exdirty, NEW s \in Slot, base'[s] # Bad PROVE base'[s].ver[1] <= sb[1].mount
    BY <1>1 DEF FirstKnows
  <2>1. sb[1].mount = exsb.mount
    BY <1>2 DEF Geometry
  <2> QED BY <1>1, <1>2, <1>4, <2>1 DEF FirstKnows
<1>10. NextNewer'
  <2> SUFFICES ASSUME NEW s \in Slot, base'[s] # Bad
               PROVE  Newer(<<exsb.mount, sync + 1>>, base'[s].ver)
    BY <1>1 DEF NextNewer
  <2>1. CASE s = isec[1]
    BY <1>1, <1>4, <2>1 DEF Newer
  <2>2. CASE s # isec[1]
    <3>1. base'[s] = base[s] /\ Newer(<<exsb.mount, sync>>, base[s].ver)
      BY <1>1, <1>2, <2>2 DEF NextNewer
    <3> QED BY <1>1, <1>4, <1>6, <3>1 DEF Newer
  <2> QED BY <2>1, <2>2
<1>11. Geometry'
  BY <1>1, <1>2 DEF Geometry
<1> QED BY <1>7, <1>8, <1>9, <1>10, <1>11 DEF BaseKnown

(* The order of the versions is inductive. *)
LEMMA NextVersions == TablesInv /\ VersionInv /\ [Next]_vars => VersionInv'
<1> SUFFICES ASSUME TablesInv, VersionInv, [Next]_vars PROVE VersionInv'
  OBVIOUS
<1>1. CASE UNCHANGED vars
  <2>1. UNCHANGED <<pc, exsb, exdirty, sync, tpages, base, sb, broken>>
    BY <1>1 DEF vars, memory, volume, ghost
  <2>2. Sb1' = Sb1 /\ Sb2' = Sb2
    BY <2>1 DEF Sb1, Sb2
  <2>3. (Sound' <=> Sound) /\ (SbOrder' <=> SbOrder) /\ (Geometry' <=> Geometry)
    BY <2>1, <2>2 DEF Sound, SbOrder, Geometry, Up
  <2>4. (CopyKnows' <=> CopyKnows) /\ (FirstKnows' <=> FirstKnows) /\ (NextNewer' <=> NextNewer)
    BY <2>1, <2>2 DEF CopyKnows, FirstKnows, NextNewer, Up
  <2> QED BY <2>3, <2>4 DEF VersionInv, BaseKnown
<1>2. CASE BaseBegin
  <2>1. /\ TableFacts /\ Erased /\ pc = "meta" /\ pc' = "base" /\ UNCHANGED <<sync, broken>>
    BY <1>2, BaseBeginSteps
  <2> QED BY <2>1, ErasedVersions DEF TableFacts, Erased
<1>3. CASE ExtBegin
  <2>1. /\ TableFacts /\ Erased /\ pc = "meta" /\ pc' = "ext" /\ UNCHANGED <<sync, broken>>
    BY <1>3, ExtBeginSteps
  <2> QED BY <2>1, ErasedVersions DEF TableFacts, Erased
<1>4. CASE ExtEnd
  <2>1. TableFacts /\ pc = "ext" /\ pc' = "idle" /\ sync' = sync + 1 /\ UNCHANGED <<base, broken>>
    BY <1>4, ExtEndSteps
  <2> QED BY <2>1, ErasedVersions DEF TableFacts
<1>5. CASE TableRefused \/ TableFails
  <2>1. LostFacts
    BY <1>5, LostSteps
  <2> QED BY <2>1, ErasedVersions DEF LostFacts, TableFacts
<1> QED BY <1>1, <1>2, <1>3, <1>4, <1>5, MountVersions, MemoryVersions, SuperVersions,
           BaseEndVersions, PowerOffVersions DEF Next, MemoryStep, SuperStep

---------------------------------------------------------------------------
(* The current table. *)

(* A whole volume with the same geometry twice has its current table where *)
(* a mount looks for it.                                                   *)
LEMMA WholeVolume ==
  ASSUME TablesInv, CurrentInv, Healthy, SameGeometry
  PROVE  VolumeCurrent
<1>1. CASE pc \in {"off", "base"}
  BY <1>1 DEF CurrentInv, RestInv
<1>2. CASE pc \notin {"off", "base"}
  <2>1. PICK s \in Slot, n \in 0 .. MaxExt : AtTable(s, n)
    BY <1>2 DEF CurrentInv, UpInv
  <2>2. SuperInv /\ TypeOK /\ exsb # Bad
    BY SuperNats DEF TablesInv
  <2>3. CASE AtSb1
    <3>1. Sb2 = exsb
      BY <2>2, <2>3 DEF SuperInv, AtSb1, Sb2
    <3>2. base[s].meta = Sb1.meta /\ s \in {0, Sb1.lv} /\ Current(s, n)
      BY <2>1, <2>3, <3>1 DEF AtTable, SameGeometry
    <3> QED BY <3>2 DEF VolumeCurrent
  <2>4. CASE ~AtSb1
    <3>1. Sb1 = sb[1]
      BY <1>2, <2>2, <2>4 DEF SuperInv, AtSb1, Sb1
    <3>2. base[s].meta = Sb1.meta /\ s \in {0, Sb1.lv} /\ Current(s, n)
      BY <2>1, <2>4, <3>1 DEF AtTable
    <3> QED BY <3>2 DEF VolumeCurrent
  <2> QED BY <2>3, <2>4
<1> QED BY <1>1, <1>2

(* A whole volume is recovered exactly. *)
LEMMA WholeRecovers ==
  ASSUME TablesInv, CurrentInv, Healthy, SameGeometry
  PROVE  RecoveryExact
<1>1. PICK s \in {0, Sb1.lv}, n \in 0 .. MaxExt : Current(s, n) /\ base[s].meta = Sb1.meta
  BY WholeVolume DEF VolumeCurrent
<1> QED BY <1>1, CurrentFound DEF TablesInv

(* A step that leaves the tables alone leaves the current one current. *)
LEMMA SameCurrent ==
  ASSUME UNCHANGED <<base, ext, good>>, NEW s, NEW n
  PROVE  Current(s, n) => Current(s, n)'
BY DEF Current, Follows

(* The volume mkfs made. *)
LEMMA InitCurrent == Init => CurrentInv
<1> SUFFICES ASSUME Init PROVE CurrentInv
  OBVIOUS
<1> USE TablesConstants
<1>1. MkfsExsb # Bad /\ MkfsExsb.meta = 1 /\ sb[1] = MkfsExsb /\ sb[2] = MkfsExsb
  BY BadAssumption DEF Init, MkfsExsb, Exsb
<1>2. Sb1 = MkfsExsb /\ Sb2 = MkfsExsb
  BY <1>1 DEF Sb1, Sb2
<1>3. /\ 0 \in Slot /\ base[0] = [ver |-> <<MkfsMount, MkfsSync>>, id |-> 0, meta |-> 1]
      /\ \A t \in Slot \ {0} : base[t] = Bad
      /\ \A k \in 1 .. MaxExt : ext[0][k] = Bad
  BY DEF Init, Slot
<1>4. base[0] # Bad /\ base[0].ver[1] >= 1 /\ base[0].id = 0 /\ base[0].meta = 1
  <2>1. base[0] \in Base
    BY <1>3 DEF Base, Ver, Table
  <2> QED BY <1>3, <2>1, BadAssumption
<1>5. Follows(0, 0) /\ ~Follows(0, 0 + 1) /\ 0 \in 0 .. MaxExt
  <2>1. 1 \in 1 .. 1 /\ 1 \in 1 .. MaxExt
    OBVIOUS
  <2> QED BY <1>3, <2>1 DEF Follows
<1>6. Current(0, 0)
  BY <1>3, <1>4, <1>5 DEF Current, Init
<1>7. VolumeCurrent
  BY <1>1, <1>2, <1>4, <1>5, <1>6 DEF VolumeCurrent
<1>8. SameGeometry /\ pc = "off"
  BY <1>2 DEF SameGeometry, Init
<1> QED BY <1>7, <1>8 DEF CurrentInv, OffInv, RestInv, UpInv

(* Steps in memory. *)
LEMMA MemoryCurrent ==
  ASSUME TablesInv, VersionInv, CurrentInv, MemoryStep
  PROVE  CurrentInv'
<1>1. MemoryFacts
  BY MemorySteps
<1>2. pc' # "off" /\ pc' # "base" /\ pc' # "ext" /\ ~AtSb1'
  BY <1>1 DEF MemoryFacts, AtSb1
<1>3. OffInv' /\ RestInv'
  BY <1>2 DEF OffInv, RestInv, Up
<1>4. ASSUME Healthy' PROVE \E s \in Slot, n \in 0 .. MaxExt : AtTable(s, n)'
  <2>1. Healthy /\ Sound /\ Sound'
    BY <1>1, <1>4 DEF MemoryFacts, Healthy, Sound
  <2>2. Geometry
    BY <2>1 DEF VersionInv
  <2>3. pc # "sb1" /\ (~exdirty' => exsb' = exsb)
    BY <2>1, <2>2, MemorySound
  <2>4. pc \notin {"off", "base", "ext"} /\ ~AtSb1
    BY <1>1, <2>3 DEF MemoryFacts, AtSb1
  <2>5. PICK s \in Slot, n \in 0 .. MaxExt : AtTable(s, n)
    BY <2>1, <2>4 DEF CurrentInv, UpInv
  <2>6. Current(s, n)'
    BY <1>1, <2>5, SameCurrent DEF MemoryFacts, AtTable
  <2>7. Settled' => Settled /\ exsb' = exsb
    BY <1>1, <1>2, <2>3, <2>4 DEF Settled, Up, MemoryFacts
  <2>8. UNCHANGED <<isec, extn, base, sb, sync>>
    BY <1>1 DEF MemoryFacts
  <2>9. AtTable(s, n)'
    BY <1>2, <2>4, <2>5, <2>6, <2>7, <2>8 DEF AtTable
  <2> QED BY <2>9
<1> QED BY <1>3, <1>4 DEF CurrentInv, UpInv

(* Writes of the super blocks. *)
LEMMA SuperCurrent ==
  ASSUME TablesInv, CurrentInv, SuperStep
  PROVE  CurrentInv'
<1>1. SuperFacts
  BY SuperSteps
<1>2. pc' \notin {"off", "base", "ext"} /\ pc \notin {"off", "base", "ext"}
  BY <1>1 DEF SuperFacts
<1>3. OffInv' /\ RestInv'
  BY <1>2 DEF OffInv, RestInv, Up
<1>4. ASSUME Healthy' PROVE \E s \in Slot, n \in 0 .. MaxExt : AtTable(s, n)'
  <2>1. Healthy
    BY <1>1, <1>4 DEF SuperFacts, Healthy
  <2>2. PICK s \in Slot, n \in 0 .. MaxExt : AtTable(s, n)
    BY <1>2, <2>1 DEF CurrentInv, UpInv
  <2>3. UNCHANGED <<isec, extn, base, ext, good, exsb, sync>>
    BY <1>1 DEF SuperFacts
  <2>4. Current(s, n)'
    BY <2>2, <2>3, SameCurrent DEF AtTable
  <2>5. Settled' => Settled
    BY <1>1 DEF SuperFacts, Settled, Up, AtSb1
  <2>6. \/ AtSb1 /\ AtSb1'
        \/ AtSb1 /\ ~AtSb1' /\ sb'[1] = exsb
        \/ ~AtSb1 /\ ~AtSb1' /\ sb'[1] = sb[1]
    BY <1>1 DEF SuperFacts, AtSb1
  <2>7. IF AtSb1' THEN base[s].meta = exsb.meta /\ s \in {0, exsb.lv}
                  ELSE base[s].meta = sb'[1].meta /\ s \in {0, sb'[1].lv}
    BY <2>2, <2>6 DEF AtTable
  <2>8. AtTable(s, n)'
    BY <1>2, <2>2, <2>3, <2>4, <2>5, <2>7 DEF AtTable
  <2> QED BY <2>8
<1> QED BY <1>3, <1>4 DEF CurrentInv, UpInv

(* Power off. *)
LEMMA PowerOffCurrent ==
  ASSUME TablesInv, CurrentInv, PowerOff
  PROVE  CurrentInv'
<1>1. /\ pc' = "off" /\ UNCHANGED <<base, ext, sb, good, broken>>
      /\ geoCrash' = (geoCrash \/ ~SameGeometry)
  BY DEF PowerOff, volume
<1>2. Sb1' = Sb1 /\ Sb2' = Sb2
  BY <1>1 DEF Sb1, Sb2
<1>3. OffInv'
  BY <1>1, <1>2 DEF OffInv, SameGeometry
<1>4. RestInv'
  <2> SUFFICES ASSUME Healthy' PROVE VolumeCurrent'
    BY DEF RestInv
  <2>1. Healthy /\ SameGeometry
    BY <1>1 DEF Healthy
  <2>2. PICK s \in {0, Sb1.lv}, n \in 0 .. MaxExt : Current(s, n) /\ base[s].meta = Sb1.meta
    BY <2>1, WholeVolume DEF VolumeCurrent
  <2>3. Current(s, n)' /\ s \in {0, Sb1'.lv} /\ base'[s].meta = Sb1'.meta
    BY <1>1, <1>2, <2>2, SameCurrent
  <2> QED BY <2>3 DEF VolumeCurrent
<1>5. UpInv'
  BY <1>1 DEF UpInv
<1> QED BY <1>3, <1>4, <1>5 DEF CurrentInv

(* A mount finds the current table and goes on behind it. *)
LEMMA MountCurrent ==
  ASSUME TablesInv, CurrentInv, Mount
  PROVE  CurrentInv'
<1>1. MountFacts
  BY MountSteps
<1>2. pc = "off" /\ pc' = "idle" /\ exdirty' /\ UNCHANGED <<base, ext, good, broken, geoCrash>>
  BY <1>1 DEF MountFacts
<1>3. OffInv' /\ RestInv' /\ ~AtSb1' /\ ~Settled'
  BY <1>2 DEF OffInv, RestInv, Up, AtSb1, Settled
<1>4. ASSUME Healthy' PROVE \E s \in Slot, n \in 0 .. MaxExt : AtTable(s, n)'
  <2>1. Healthy /\ SameGeometry
    BY <1>2, <1>4 DEF Healthy, Sound, CurrentInv, OffInv, Up
  <2>2. PICK s \in {0, Sb1.lv}, n \in 0 .. MaxExt : Current(s, n) /\ base[s].meta = Sb1.meta
    BY <2>1, WholeVolume DEF VolumeCurrent
  <2>3. /\ NewSlot = s /\ Chain(s) = n /\ Restored.meta = Sb1.meta /\ Restored.lv = Sb1.lv
    BY <2>1, <2>2, CurrentFound DEF TablesInv
  <2>4. sb'[1] = Restored /\ isec' = <<s, n + 1>> /\ extn' = n /\ s \in Slot
    BY <1>1, <2>3 DEF MountFacts
  <2>5. Current(s, n)'
    BY <1>2, <2>2, SameCurrent
  <2>6. AtTable(s, n)'
    BY <1>2, <1>3, <2>2, <2>3, <2>4, <2>5 DEF AtTable
  <2> QED BY <2>4, <2>6
<1> QED BY <1>3, <1>4 DEF CurrentInv, UpInv

(* A base table goes to the slot the current table is not in. *)
LEMMA BaseBeginCurrent ==
  ASSUME TablesInv, VersionInv, CurrentInv, BaseBegin
  PROVE  CurrentInv'
<1>1. /\ TableFacts /\ pc = "meta" /\ pc' = "base" /\ NextSlot \in Slot
      /\ base' = [base EXCEPT ![NextSlot] = Bad] /\ UNCHANGED <<ext, good, broken>>
  BY BaseBeginSteps
<1>2. UNCHANGED <<sb, geoCrash>> /\ TypeOK /\ SuperInv
  BY <1>1 DEF TableFacts, TablesInv
<1>3. Sb1' = Sb1 /\ Sb2' = Sb2
  BY <1>2 DEF Sb1, Sb2
<1>4. OffInv' /\ UpInv'
  BY <1>1 DEF OffInv, UpInv, Up
<1>5. ASSUME Healthy', SameGeometry' PROVE VolumeCurrent'
  <2>1. Healthy /\ Sound /\ SameGeometry
    BY <1>1, <1>2, <1>3, <1>5 DEF Healthy, Sound, SameGeometry
  <2>2. PICK s \in Slot, n \in 0 .. MaxExt : AtTable(s, n)
    BY <1>1, <2>1 DEF CurrentInv, UpInv
  <2>3. Sb1 = sb[1] /\ base[s].meta = Sb1.meta /\ s \in {0, Sb1.lv} /\ Current(s, n)
        /\ isec = <<s, n + 1>>
    BY <1>1, <1>2, <2>2 DEF AtTable, AtSb1, SuperInv, Sb1
  <2>4. exsb.lv = Sb1.lv
    <3>1. CASE exdirty
      <4>1. Sb2 = exsb
        BY <1>1, <1>2, <3>1, SuperNats DEF SuperInv, Sb2
      <4> QED BY <2>1, <4>1 DEF SameGeometry
    <3>2. CASE ~exdirty
      BY <1>1, <2>1, <2>3, <3>2 DEF VersionInv, Geometry, Up
    <3> QED BY <3>1, <3>2
  <2>5. NextSlot # s
    <3>1. exsb.lv \in Nat /\ exsb.lv # 0 /\ n \in Nat
      BY <1>2, <2>4, Supers, SuperNats, TablesConstants
    <3>2. isec[1] = s /\ isec[2] = n + 1 /\ n + 1 > 0
      BY <2>3, <3>1
    <3>3. CASE s = 0
      <4>1. NextSlot = exsb.lv
        BY <3>1, <3>2, <3>3 DEF NextSlot
      <4> QED BY <3>1, <3>3, <4>1
    <3>4. CASE s = exsb.lv
      <4>1. NextSlot = 0
        BY <3>1, <3>2, <3>4 DEF NextSlot
      <4> QED BY <3>1, <3>4, <4>1
    <3> QED BY <2>3, <2>4, <3>3, <3>4
  <2>6. base'[s] = base[s] /\ \A t \in Slot : base'[t] # Bad => base'[t] = base[t]
    BY <1>1, <1>2, <2>5 DEF TypeOK
  <2>7. Current(s, n)'
    <3>1. Follows(s, n)' /\ (n < MaxExt => ~Follows(s, n + 1)')
      BY <1>1, <2>3, <2>6 DEF Current, Follows
    <3> QED BY <1>1, <2>3, <2>6, <3>1 DEF Current
  <2>8. base'[s].meta = Sb1'.meta /\ s \in {0, Sb1'.lv}
    BY <1>3, <2>3, <2>6
  <2> QED BY <2>7, <2>8 DEF VolumeCurrent
<1> QED BY <1>4, <1>5 DEF CurrentInv, RestInv

(* An extended table goes behind the current chain. *)
LEMMA ExtBeginCurrent ==
  ASSUME TablesInv, CurrentInv, ExtBegin
  PROVE  CurrentInv'
<1> USE TablesConstants
<1>1. /\ TableFacts /\ Erased /\ pc = "meta" /\ pc' = "ext" /\ ~exdirty /\ extn < MaxExt
      /\ extn' = extn + 1 /\ UNCHANGED <<isec, sync, good, broken>>
      /\ isec[2] # 0 => /\ ext' = [ext EXCEPT ![isec[1]][isec[2]] = Bad] /\ base' = base
                        /\ ext'[isec[1]][isec[2]] = Bad
  BY ExtBeginSteps
<1>2. UNCHANGED <<exsb, exdirty, sb, geoCrash>> /\ TypeOK
  BY <1>1 DEF TableFacts, TablesInv
<1>3. OffInv' /\ RestInv' /\ ~AtSb1 /\ ~AtSb1'
  BY <1>1 DEF OffInv, RestInv, Up, AtSb1
<1>4. ASSUME Healthy' PROVE \E s \in Slot, n \in 0 .. MaxExt : AtTable(s, n)'
  <2>1. Healthy
    BY <1>1, <1>2, <1>4 DEF Healthy
  <2>2. PICK s \in Slot, n \in 0 .. MaxExt : AtTable(s, n)
    BY <1>1, <2>1 DEF CurrentInv, UpInv
  <2>3. /\ isec[1] = s /\ isec[2] = n + 1 /\ n + 1 # 0 /\ extn = n /\ n + 1 \in 1 .. MaxExt
        /\ Current(s, n)
    BY <1>1, <2>2 DEF AtTable
  <2>4. base' = base /\ ext'[s][n + 1] = Bad
    BY <1>1, <2>3
  <2>5. \A k \in 1 .. n : ext'[s][k] = ext[s][k]
    <3>1. ext' = [ext EXCEPT ![s] = [ext[s] EXCEPT ![n + 1] = Bad]]
      BY <1>1, <2>3
    <3>2. ext[s] \in [1 .. MaxExt -> Ext \cup {Bad}] /\ ext \in [Slot -> [1 .. MaxExt -> Ext \cup {Bad}]]
      BY <1>2 DEF TypeOK
    <3> QED BY <2>2, <2>3, <3>1, <3>2
  <2>6. Current(s, n)'
    <3>1. Follows(s, n)'
      BY <2>3, <2>4, <2>5 DEF Current, Follows
    <3>2. ~Follows(s, n + 1)'
      <4>1. n + 1 \in 1 .. n + 1
        OBVIOUS
      <4> QED BY <2>4, <4>1 DEF Follows
    <3>3. n # 0 => n \in 1 .. n
      OBVIOUS
    <3> QED BY <1>1, <2>3, <2>4, <2>5, <3>1, <3>2, <3>3 DEF Current
  <2>7. Settled
    BY <1>1 DEF Settled, Up
  <2>8. AtTable(s, n)'
    BY <1>1, <1>2, <1>3, <2>2, <2>3, <2>4, <2>6, <2>7 DEF AtTable
  <2> QED BY <2>8
<1> QED BY <1>3, <1>4 DEF CurrentInv, UpInv

(* A base table is the current table once it is written. *)
LEMMA BaseEndCurrent ==
  ASSUME TablesInv, VersionInv, CurrentInv, BaseEnd
  PROVE  CurrentInv'
<1> USE TablesConstants
<1>1. /\ TableFacts /\ pc = "base" /\ pc' = (IF exdirty THEN "sb1" ELSE "idle")
      /\ isec[1] \in Slot /\ isec[1] \in {0, exsb.lv}
      /\ isec' = <<isec[1], 1>> /\ extn = 0 /\ sync \in Nat /\ sync' = sync + 1
      /\ good' = id /\ base'[isec[1]] # Bad /\ base'[isec[1]].ver = <<exsb.mount, sync>>
      /\ base'[isec[1]].id = id /\ base'[isec[1]].meta = exsb.meta
      /\ \A s \in Slot \ {isec[1]} : base'[s] = base[s]
      /\ broken' = broken \ {"table"} /\ UNCHANGED <<extn, ext>>
  BY BaseEndSteps
<1>2. UNCHANGED <<exsb, exdirty, sb, geoCrash>> /\ TypeOK /\ ExtInv
  BY <1>1 DEF TableFacts, TablesInv
<1>3. OffInv' /\ RestInv'
  BY <1>1 DEF OffInv, RestInv, Up
<1>4. ASSUME Healthy' PROVE \E s \in Slot, n \in 0 .. MaxExt : AtTable(s, n)'
  <2>1. Sound
    BY <1>1, <1>4 DEF Healthy, Sound
  <2>2. NextNewer /\ Geometry /\ Up
    BY <1>1, <2>1 DEF VersionInv, BaseKnown, Up
  <2>3. PICK s \in Slot : s = isec[1]
    BY <1>1
  <2>4. ~Follows(s, 0 + 1)'
    <3> SUFFICES ASSUME Follows(s, 0 + 1)' PROVE FALSE
      OBVIOUS
    <3>1. 1 \in 1 .. 0 + 1 /\ 1 \in 1 .. MaxExt
      OBVIOUS
    <3>2. ext[s][1] # Bad /\ ext[s][1].ver = <<exsb.mount, sync + 1>>
      BY <1>1, <2>3, <3>1 DEF Follows
    <3>3. ext[s][1].ver[2] < sync
      BY <1>2, <2>2, <3>1, <3>2 DEF ExtInv
    <3> QED BY <1>1, <3>2, <3>3
  <2>5. Follows(s, 0)'
    BY DEF Follows
  <2>6. Current(s, 0)'
    <3>1. base'[s] # Bad /\ base'[s].ver[1] >= 1 /\ good' = base'[s].id
      BY <1>1, <2>2, <2>3 DEF Geometry
    <3>2. \A t \in Slot \ {s} : base'[t] # Bad => Newer(base'[s].ver, base'[t].ver)
      BY <1>1, <2>2, <2>3 DEF NextNewer
    <3> QED BY <2>4, <2>5, <3>1, <3>2 DEF Current
  <2>7. isec' = <<s, 0 + 1>> /\ extn' = 0 /\ pc' # "ext"
    BY <1>1, <2>3
  <2>8. IF AtSb1' THEN base'[s].meta = exsb'.meta /\ s \in {0, exsb'.lv}
                  ELSE base'[s].meta = sb'[1].meta /\ s \in {0, sb'[1].lv}
    <3>1. CASE exdirty
      BY <1>1, <1>2, <2>3, <3>1 DEF AtSb1
    <3>2. CASE ~exdirty
      <4>1. sb'[1] = exsb
        BY <1>2, <2>2, <3>2 DEF Geometry
      <4> QED BY <1>1, <1>2, <2>3, <3>2, <4>1 DEF AtSb1
    <3> QED BY <3>1, <3>2
  <2>9. base'[s].ver = <<exsb'.mount, sync' - (0 + 1)>>
    BY <1>1, <1>2, <2>3
  <2>10. AtTable(s, 0)'
    BY <2>6, <2>7, <2>8, <2>9 DEF AtTable
  <2> QED BY <2>3, <2>10
<1> QED BY <1>3, <1>4 DEF CurrentInv, UpInv

(* An extended table makes the current chain longer by one. *)
LEMMA ExtEndCurrent ==
  ASSUME TablesInv, CurrentInv, ExtEnd
  PROVE  CurrentInv'
<1> USE TablesConstants
<1>1. /\ TableFacts /\ pc = "ext" /\ pc' = "idle" /\ ~exdirty
      /\ isec[2] <= extn /\ isec[2] \in 0 .. MaxExt /\ isec[1] \in Slot
      /\ isec' = <<isec[1], isec[2] + 1>> /\ sync \in Nat /\ sync' = sync + 1
      /\ good' = id /\ UNCHANGED <<extn, base, broken>>
  BY ExtEndSteps
<1>2. isec[2] # 0 =>
        /\ ext'[isec[1]][isec[2]] # Bad
        /\ ext'[isec[1]][isec[2]].ver = <<exsb.mount, sync>>
        /\ ext'[isec[1]][isec[2]].id = id
        /\ \A s \in Slot, k \in 1 .. MaxExt : s # isec[1] \/ k # isec[2] => ext'[s][k] = ext[s][k]
  BY ExtEndSteps
<1>3. UNCHANGED <<exsb, exdirty, sb, geoCrash>> /\ TypeOK /\ ExtInv
  BY <1>1 DEF TableFacts, TablesInv
<1>4. OffInv' /\ RestInv' /\ ~AtSb1 /\ ~AtSb1' /\ Settled
  BY <1>1 DEF OffInv, RestInv, Up, AtSb1, Settled
<1>5. ASSUME Healthy' PROVE \E s \in Slot, n \in 0 .. MaxExt : AtTable(s, n)'
  <2>1. Healthy
    BY <1>1, <1>3, <1>5 DEF Healthy
  <2>2. PICK s \in Slot, n \in 0 .. MaxExt : AtTable(s, n)
    BY <1>1, <2>1 DEF CurrentInv, UpInv
  <2>3. /\ isec[1] = s /\ isec[2] = n + 1 /\ isec[2] # 0 /\ extn = n + 1 /\ n + 1 \in 1 .. MaxExt
        /\ Current(s, n) /\ base[s].ver = <<exsb.mount, sync - (n + 1)>>
    BY <1>1, <1>4, <2>2 DEF AtTable
  <2>4. /\ ext'[s][n + 1] # Bad /\ ext'[s][n + 1].ver = <<exsb.mount, sync>>
        /\ ext'[s][n + 1].id = id
        /\ \A k \in 1 .. MaxExt : k # n + 1 => ext'[s][k] = ext[s][k]
    BY <1>2, <2>3
  <2>5. base'[s].ver[1] = exsb.mount /\ base'[s].ver[2] = sync - (n + 1)
    BY <1>1, <2>3
  <2>6. Follows(s, n + 1)'
    <3> SUFFICES ASSUME NEW k \in 1 .. n + 1
                 PROVE  ext'[s][k] # Bad /\ ext'[s][k].ver = <<base'[s].ver[1], base'[s].ver[2] + k>>
      BY DEF Follows
    <3>1. CASE k = n + 1
      BY <1>1, <2>4, <2>5, <3>1
    <3>2. CASE k # n + 1
      <4>1. k \in 1 .. n /\ k \in 1 .. MaxExt
        BY <2>3, <3>2
      <4>2. ext[s][k] # Bad /\ ext[s][k].ver = <<base[s].ver[1], base[s].ver[2] + k>>
        BY <2>3, <4>1 DEF Current, Follows
      <4> QED BY <1>1, <2>4, <3>2, <4>1, <4>2
    <3> QED BY <3>1, <3>2
  <2>7. ASSUME n + 1 < MaxExt PROVE ~Follows(s, (n + 1) + 1)'
    <3> SUFFICES ASSUME Follows(s, (n + 1) + 1)' PROVE FALSE
      OBVIOUS
    <3> DEFINE k == (n + 1) + 1
    <3>1. k \in 1 .. (n + 1) + 1 /\ k \in 1 .. MaxExt /\ k # n + 1
      BY <2>7
    <3>2. ext'[s][k] # Bad /\ ext'[s][k].ver = <<base'[s].ver[1], base'[s].ver[2] + k>>
      BY <3>1 DEF Follows
    <3>3. ext[s][k] # Bad /\ ext[s][k].ver = <<exsb.mount, sync + 1>>
      <4>1. (sync - (n + 1)) + k = sync + 1
        BY <1>1
      <4>2. ext'[s][k] = ext[s][k]
        BY <2>4, <3>1
      <4> QED BY <2>5, <3>2, <4>1, <4>2
    <3>4. ext[s][k].ver[2] < sync
      BY <1>1, <1>3, <3>1, <3>3 DEF ExtInv, Up
    <3> QED BY <1>1, <3>3, <3>4
  <2>8. Current(s, n + 1)'
    <3>1. /\ base'[s] # Bad /\ base'[s].ver[1] >= 1
          /\ \A t \in Slot \ {s} : base'[t] # Bad => Newer(base'[s].ver, base'[t].ver)
      BY <1>1, <2>3 DEF Current
    <3>2. n + 1 \in 0 .. MaxExt /\ n + 1 # 0 /\ good' = ext'[s][n + 1].id
      BY <1>1, <2>3, <2>4
    <3> QED BY <2>6, <2>7, <3>1, <3>2 DEF Current
  <2>9. isec' = <<s, (n + 1) + 1>> /\ extn' = n + 1 /\ n + 1 \in 0 .. MaxExt
    BY <1>1, <2>3
  <2>10. base'[s].ver = <<exsb'.mount, sync' - ((n + 1) + 1)>>
    <3>1. (sync + 1) - ((n + 1) + 1) = sync - (n + 1)
      BY <1>1
    <3> QED BY <1>1, <1>3, <2>3, <3>1
  <2>11. base'[s].meta = sb'[1].meta /\ s \in {0, sb'[1].lv}
    BY <1>1, <1>3, <1>4, <2>2 DEF AtTable
  <2>12. AtTable(s, n + 1)'
    BY <1>1, <1>4, <2>8, <2>9, <2>10, <2>11 DEF AtTable
  <2> QED BY <2>9, <2>12
<1> QED BY <1>4, <1>5 DEF CurrentInv, UpInv

(* Every step keeps the current table current, or breaks the volume. *)
LEMMA NextCurrent == TablesInv /\ VersionInv /\ CurrentInv /\ [Next]_vars => CurrentInv'
<1> SUFFICES ASSUME TablesInv, VersionInv, CurrentInv, [Next]_vars PROVE CurrentInv'
  OBVIOUS
<1>1. CASE UNCHANGED vars
  <2>1. /\ UNCHANGED <<pc, exsb, exdirty, sync, extn, isec>>
        /\ UNCHANGED <<base, ext, sb, good, broken, geoCrash>>
    BY <1>1 DEF vars, memory, volume, ghost
  <2>2. Sb1' = Sb1 /\ Sb2' = Sb2
    BY <2>1 DEF Sb1, Sb2
  <2>3. /\ Healthy' <=> Healthy
        /\ Sound' <=> Sound
        /\ SameGeometry' <=> SameGeometry
        /\ Settled' <=> Settled
        /\ AtSb1' <=> AtSb1
        /\ Up' <=> Up
    BY <2>1, <2>2 DEF Healthy, Sound, SameGeometry, Settled, AtSb1, Up
  <2>4. OffInv'
    BY <2>1, <2>3 DEF CurrentInv, OffInv
  <2>5. RestInv'
    <3>1. VolumeCurrent => VolumeCurrent'
      BY <2>1, <2>2, SameCurrent DEF VolumeCurrent
    <3> QED BY <2>1, <2>3, <3>1 DEF CurrentInv, RestInv
  <2>6. UpInv'
    <3>1. \A s \in Slot, n \in 0 .. MaxExt : AtTable(s, n) => AtTable(s, n)'
      BY <2>1, <2>3, SameCurrent DEF AtTable
    <3> QED BY <2>1, <2>3, <3>1 DEF CurrentInv, UpInv
  <2> QED BY <2>4, <2>5, <2>6 DEF CurrentInv
<1>2. CASE TableRefused \/ TableFails
  <2>1. LostFacts
    BY <1>2, LostSteps
  <2>2. pc' = "idle" /\ ~Healthy'
    BY <2>1 DEF LostFacts, Healthy
  <2> QED BY <2>2 DEF CurrentInv, OffInv, RestInv, UpInv, Up
<1> QED BY <1>1, <1>2, MountCurrent, MemoryCurrent, SuperCurrent, BaseBeginCurrent,
           ExtBeginCurrent, BaseEndCurrent, ExtEndCurrent, PowerOffCurrent
           DEF Next, MemoryStep, SuperStep

---------------------------------------------------------------------------
(* What follows for the volume. *)

FullInv == TablesInv /\ VersionInv /\ CurrentInv

(* The three invariants hold in every reachable state. *)
LEMMA FullInductive == Spec => []FullInv
<1>1. Init => FullInv
  BY InitTables, InitVersions, InitCurrent DEF FullInv
<1>2. FullInv /\ [Next]_vars => FullInv'
  BY NextTables, NextVersions, NextCurrent DEF FullInv
<1> QED BY <1>1, <1>2, PTL DEF Spec

(* TypeOK: every variable keeps its type whatever fails, and the next      *)
(* table is written inside its slot, behind at most MaxExt extended tables *)
(* (vdfs2_update_translation_tables).                                      *)
THEOREM Types == Spec => []TypeOK
<1>1. FullInv => TypeOK
  BY DEF FullInv, TablesInv
<1> QED BY <1>1, FullInductive, PTL

(* RecoveryUnlessBroken: a mount (vdfs2_build_snapshot_manager) finds the  *)
(* last commit whenever no fault of the list is outstanding, and never     *)
(* applies an extended table to another base table than its own.           *)
THEOREM RecoversUnlessBroken == Spec => []RecoveryUnlessBroken
<1>1. FullInv => RecoveryUnlessBroken
  <2> SUFFICES ASSUME FullInv PROVE RecoveryUnlessBroken
    OBVIOUS
  <2>1. broken # {} \/ geoCrash \/ ~SameGeometry \/ RecoveryExact
    BY WholeRecovers DEF FullInv, Healthy
  <2>2. Mountable => Found # Mixed
    BY NeverMixed DEF FullInv, Mountable
  <2> QED BY <2>1, <2>2 DEF RecoveryUnlessBroken
<1> QED BY <1>1, FullInductive, PTL

(* VersionsGrow: while no super block write fails and no growth is         *)
(* refused, a base table is written with a version greater than that of    *)
(* every other base table, also after table writes that failed and however *)
(* many mounts there were.                                                 *)
THEOREM VersionsAlwaysGrow ==
  ASSUME Faults \subseteq {"table"}
  PROVE  Spec => VersionsGrow
<1>1. FullInv /\ [Next]_vars =>
        [BaseEnd => \A s \in Slot \ {isec[1]} :
                      base[s] # Bad => Newer(base'[isec[1]].ver, base[s].ver)]_vars
  <2> SUFFICES ASSUME FullInv, BaseEnd, NEW s \in Slot \ {isec[1]}, base[s] # Bad
               PROVE  Newer(base'[isec[1]].ver, base[s].ver)
    OBVIOUS
  <2>1. Sound
    BY DEF FullInv, TablesInv, TypeOK, Sound
  <2>2. pc = "base" /\ base'[isec[1]].ver = <<exsb.mount, sync>>
    BY BaseEndSteps DEF FullInv
  <2> QED BY <2>1, <2>2 DEF FullInv, VersionInv, BaseKnown, NextNewer, Up
<1> QED BY <1>1, FullInductive, PTL DEF Spec, VersionsGrow

---------------------------------------------------------------------------
(* Without faults and with areas that do not grow, a commit is atomic. *)

(* mkfs makes areas of the first size. *)
LEMMA InitPlain == Init => PlainInv
BY DEF Init, PlainInv, MkfsExsb

(* Without faults and growth the super blocks always have the same         *)
(* geometry.                                                               *)
LEMMA PlainGeometry ==
  ASSUME TablesInv, PlainInv, Plain
  PROVE  SameGeometry /\ Healthy
<1>1. TypeOK /\ SuperInv
  BY DEF TablesInv
<1>2. Sb1.meta = 1 /\ Sb2.meta = 1
  <2>1. Sb1 \in Exsb /\ Sb2 \in Exsb
    BY <1>1, Supers
  <2>2. \A m \in 1 .. MaxMeta : m = 1
    BY DEF Plain
  <2> QED BY <2>1, <2>2 DEF Exsb
<1>3. Sb1.lv = 1 /\ Sb2.lv = 1
  <2>1. 1 \in 1 .. 2 /\ 2 \in 1 .. 2
    OBVIOUS
  <2> QED BY <1>1, <2>1 DEF PlainInv, SuperInv, Sb1, Sb2
<1>4. broken = {}
  BY <1>1 DEF TypeOK, Plain
<1> QED BY <1>2, <1>3, <1>4 DEF SameGeometry, Healthy, PlainInv

(* Without faults and growth no step changes the geometry. *)
LEMMA NextPlain == FullInv /\ PlainInv /\ [Next]_vars => PlainInv'
<1> SUFFICES ASSUME FullInv, PlainInv, [Next]_vars, Plain
             PROVE  /\ ~geoCrash' /\ exsb'.lv = 1
                    /\ \A i \in 1 .. 2 : sb'[i] # Bad => sb'[i].lv = 1
  BY DEF PlainInv, Plain
<1>1. /\ ~geoCrash /\ exsb.lv = 1 /\ \A i \in 1 .. 2 : sb[i] # Bad => sb[i].lv = 1
      /\ TablesInv /\ TypeOK /\ SuperInv /\ VersionInv /\ Sound /\ SameGeometry
  BY PlainGeometry DEF PlainInv, FullInv, TablesInv, Healthy, Sound
<1>2. \A i \in 1 .. 2 : i = 1 \/ i = 2
  OBVIOUS
<1>3. sb[1] # Bad => sb[1].lv = 1
  BY <1>1
<1>4. sb[2] # Bad => sb[2].lv = 1
  BY <1>1
<1>5. CASE UNCHANGED <<exsb, sb, geoCrash>>
  BY <1>1, <1>5
<1>6. CASE MemoryStep
  <2>1. UNCHANGED <<sb, geoCrash>> /\ broken' = {} /\ exsb' \in Exsb
    BY <1>1, <1>6, MemorySteps DEF MemoryFacts, Plain
  <2>2. exsb'.meta = exsb.meta
    <3>1. \A e \in Exsb : e.meta \in 1 .. MaxMeta
      BY DEF Exsb
    <3>2. \A m \in 1 .. MaxMeta : m = 1
      BY DEF Plain
    <3> QED BY <1>1, <2>1, <3>1, <3>2 DEF TypeOK
  <2>3. exsb'.lv = exsb.lv
    <3>1. Sound' /\ Up
      BY <1>1, <1>6, <2>1, MemorySteps DEF Sound, MemoryFacts, Up
    <3>2. Geometry
      BY <1>1 DEF VersionInv
    <3> QED BY <1>1, <1>6, <2>2, <3>1, <3>2, MemorySound
  <2> QED BY <1>1, <2>1, <2>3
<1>7. CASE SuperStep
  <2>1. SuperFacts
    BY <1>1, <1>7, SuperSteps
  <2>2. UNCHANGED <<exsb, geoCrash>> /\ sb'[1] \in {sb[1], Bad, exsb} /\ sb'[2] \in {sb[2], Bad, exsb}
    BY <2>1 DEF SuperFacts
  <2> QED BY <1>1, <1>2, <1>3, <1>4, <2>2
<1>8. CASE Mount
  <2>1. MountFacts
    BY <1>1, <1>8, MountSteps
  <2>2. Sb1.lv = 1 /\ Sb2.lv = 1
    BY <1>1, <1>3, <1>4 DEF Sb1, Sb2, SuperInv
  <2>3. Restored.lv = 1 /\ sb'[1].lv = 1 /\ sb'[2].lv = 1 /\ exsb'.lv = Restored.lv /\ UNCHANGED geoCrash
    BY <2>1, <2>2 DEF MountFacts
  <2> QED BY <1>1, <1>2, <2>3
<1>9. CASE BaseBegin \/ ExtBegin \/ BaseEnd \/ ExtEnd \/ TableRefused \/ TableFails
  <2>1. TableFacts
    BY <1>1, <1>9, BaseBeginSteps, ExtBeginSteps, BaseEndSteps, ExtEndSteps, LostSteps DEF LostFacts
  <2> QED BY <1>1, <2>1 DEF TableFacts
<1>10. CASE PowerOff
  BY <1>1, <1>10 DEF PowerOff, volume, MkfsExsb
<1> QED BY <1>5, <1>6, <1>7, <1>8, <1>9, <1>10
        DEF Next, MemoryStep, SuperStep, vars, memory, volume, ghost

(* So it is in every reachable state. *)
LEMMA PlainInductive == Spec => [](FullInv /\ PlainInv)
<1>1. Init => PlainInv
  BY InitPlain
<1> QED BY <1>1, NextPlain, FullInductive, PTL DEF Spec

(* Without faults and growth every reachable volume is recovered exactly. *)
LEMMA PlainRecovers ==
  ASSUME Plain, FullInv, PlainInv
  PROVE  RecoveryExact
BY PlainGeometry, WholeRecovers DEF FullInv

(* RecoveryExact: without faults and growth, a mount after a power failure *)
(* at any moment of vdfs2_sync_metadata() finds the last commit.           *)
THEOREM RecoversExactly ==
  ASSUME Faults = {}, MaxMeta = 1
  PROVE  Spec => []RecoveryExact
<1>1. FullInv /\ PlainInv => RecoveryExact
  BY PlainRecovers DEF Plain
<1> QED BY <1>1, PlainInductive, PTL

(* What the abstract store sees of a state. *)
durableNow == [c \in {"tables"} |-> Found]
memNow     == [c \in {"tables"} |-> IF pc = "off" THEN Found ELSE id]

StoreInv == FullInv /\ PlainInv /\ RecoveryExact

(* A step of the mounted driver that commits nothing is an update. *)
LEMMA QuietSimulates ==
  ASSUME RecoveryExact, RecoveryExact', pc # "off", pc' # "off", good' = good, id' \in Table
  PROVE  Abs!Update("tables", id')
<1>1. Found = good /\ Found' = good'
  BY DEF RecoveryExact
<1>2. durableNow' = durableNow
  BY <1>1 DEF durableNow
<1>3. memNow' = [memNow EXCEPT !["tables"] = id']
  BY DEF memNow
<1> QED BY <1>2, <1>3 DEF Abs!Update, durableNow, memNow

(* The table is on the volume to its end: the commit. *)
LEMMA CommitSimulates ==
  ASSUME RecoveryExact', pc # "off", pc' # "off", good' = id, id' = id
  PROVE  Abs!Commit
<1>1. Found' = id
  BY DEF RecoveryExact
<1>2. durableNow' = memNow /\ memNow' = memNow
  BY <1>1 DEF durableNow, memNow
<1> QED BY <1>2 DEF Abs!Commit, durableNow, memNow

(* Every step of the driver is a step of the store, or none. *)
LEMMA StepSimulates ==
  ASSUME Faults = {}
  PROVE  StoreInv /\ StoreInv' /\ [Next]_vars => [Abs!Next]_(Abs!vars)
<1> SUFFICES ASSUME StoreInv, StoreInv', [Next]_vars PROVE [Abs!Next]_(Abs!vars)
  OBVIOUS
<1>1. /\ RecoveryExact /\ RecoveryExact' /\ TablesInv /\ id \in Table /\ id' \in Table
      /\ Found = good /\ Found' = good'
  BY DEF StoreInv, FullInv, TablesInv, PureInv, RecoveryExact
<1>2. ASSUME pc # "off", pc' # "off", good' = good PROVE Abs!Next
  BY <1>1, <1>2, QuietSimulates DEF Abs!Next
<1>3. ASSUME pc # "off", pc' # "off", good' = id, id' = id PROVE Abs!Next
  BY <1>1, <1>3, CommitSimulates DEF Abs!Next
<1>4. CASE Mount
  <2>1. pc = "off" /\ pc' = "idle" /\ id' = Found /\ good' = good
    BY <1>1, <1>4, MountSteps DEF MountFacts
  <2>2. durableNow' = durableNow /\ memNow' = memNow
    BY <1>1, <2>1 DEF durableNow, memNow
  <2>3. Abs!Start
    BY <2>1, <2>2 DEF Abs!Start, durableNow, memNow
  <2> QED BY <2>3 DEF Abs!Next
<1>5. CASE MemoryStep
  <2>1. pc # "off" /\ pc' # "off" /\ good' = good
    BY <1>1, <1>5, MemorySteps DEF MemoryFacts
  <2> QED BY <1>2, <2>1
<1>6. CASE SuperStep
  <2>1. pc # "off" /\ pc' # "off" /\ good' = good
    BY <1>1, <1>6, SuperSteps DEF SuperFacts
  <2> QED BY <1>2, <2>1
<1>7. CASE BaseBegin
  <2>1. pc # "off" /\ pc' # "off" /\ good' = good
    BY <1>1, <1>7, BaseBeginSteps
  <2> QED BY <1>2, <2>1
<1>8. CASE ExtBegin
  <2>1. pc # "off" /\ pc' # "off" /\ good' = good
    BY <1>1, <1>8, ExtBeginSteps
  <2> QED BY <1>2, <2>1
<1>9. CASE BaseEnd
  <2>1. pc # "off" /\ pc' # "off" /\ good' = id /\ id' = id
    BY <1>1, <1>9, BaseEndSteps DEF TableFacts
  <2> QED BY <1>3, <2>1
<1>10. CASE ExtEnd
  <2>1. pc # "off" /\ pc' # "off" /\ good' = id /\ id' = id
    BY <1>1, <1>10, ExtEndSteps DEF TableFacts
  <2> QED BY <1>3, <2>1
<1>11. ~TableRefused /\ ~TableFails
  BY DEF TableRefused, TableFails
<1>12. CASE PowerOff
  <2>1. pc # "off" /\ pc' = "off" /\ good' = good
    BY <1>12 DEF PowerOff
  <2>2. durableNow' = durableNow /\ memNow' = durableNow
    BY <1>1, <2>1 DEF durableNow, memNow
  <2>3. Abs!Stop
    BY <2>1, <2>2 DEF Abs!Stop, durableNow, memNow
  <2> QED BY <2>3 DEF Abs!Next
<1>13. CASE UNCHANGED vars
  <2>1. pc' = pc /\ id' = id /\ good' = good
    BY <1>13 DEF vars, memory, ghost
  <2>2. durableNow' = durableNow /\ memNow' = memNow
    BY <1>1, <2>1 DEF durableNow, memNow
  <2> QED BY <2>1, <2>2 DEF Abs!vars, durableNow, memNow
<1> QED BY <1>4, <1>5, <1>6, <1>7, <1>8, <1>9, <1>10, <1>11, <1>12, <1>13
        DEF Next, MemoryStep, SuperStep

(* Atomic: without faults and growth the tables implement the store of     *)
(* AtomicMeta: a commit takes effect when the last sector of its table is  *)
(* written, and a power failure anywhere loses only what came after it.    *)
THEOREM ImplementsAtomicMeta ==
  ASSUME Faults = {}, MaxMeta = 1
  PROVE  Spec => Atomic
<1>1. FullInv /\ PlainInv => StoreInv
  BY PlainRecovers DEF Plain, StoreInv
<1>2. Init => Abs!Init
  <2> SUFFICES ASSUME Init PROVE Abs!Init
    OBVIOUS
  <2>1. StoreInv
    BY <1>1, InitTables, InitVersions, InitCurrent, InitPlain DEF FullInv
  <2>2. Found = good /\ good \in Table
    BY <2>1 DEF StoreInv, RecoveryExact, FullInv, TablesInv, PureInv
  <2>3. durableNow \in Abs!Store
    BY <2>2 DEF durableNow, Abs!Store
  <2>4. memNow = durableNow /\ pc = "off"
    BY DEF memNow, durableNow, Init
  <2> QED BY <2>3, <2>4 DEF Abs!Init, memNow, durableNow
<1> QED BY <1>1, <1>2, PlainInductive, StepSimulates, PTL DEF Spec, Atomic, Abs!Spec
===========================================================================
