-------------------------- MODULE NamespaceProofs --------------------------
(***************************************************************************)
(* Proofs about module Namespace, for every number of inodes, names,       *)
(* attributes and tasks, and every sequence of operations, faults, commits *)
(* and power failures.                                                     *)
(***************************************************************************)
EXTENDS Namespace, FiniteSetTheorems, TLAPS

(* Trees: catalog c, hard link tree h, bitmap b, counts rl and rs,         *)
(* directories ds, attributes x.                                           *)
TreeTypes(c, h, b, rl, rs, ds, x) ==
  /\ c \in [AllKey -> Rec \cup {NoRec}]
  /\ h \subseteq Ino /\ b \subseteq Ino /\ ds \subseteq b
  /\ rl \in [Ino -> 0 .. LinkMax] /\ rs \in [Dirs -> Nat]
  /\ x \in [Ino -> SUBSET Attr]

(* Where the metadata of an inode is. *)
Placed(c, h, b) ==
  /\ \A k \in AllKey : c[k] # NoRec /\ c[k].type = "hlink" => c[k].ino \in h
  /\ \A k \in AllKey : c[k] # NoRec /\ c[k].type = "file" => c[k].ino \in b \ h
  /\ \A k, l \in AllKey : c[k] # NoRec /\ c[k].type = "file" /\ c[l] = c[k] => k = l
  /\ h \subseteq b
  /\ \A i \in b : i \in h \/ \E k \in AllKey : c[k] = FileRec(i)
  /\ \A i \in Ino : c[OrphanKey(i)] \in {NoRec, FileRec(i)}

Hung(c, h)       == \A i \in h : Names(c, i) # {}
Linked(c, b, rl) == \A i \in b : rl[i] = Cardinality(Names(c, i))
Sized(c, b, rs, ds) ==
  /\ \A d \in ds \cup {Root} : rs[d] = Cardinality(Entries(c, d))
  /\ \A i \in Ino \ b : rs[i] = 0
Rooted(c, ds) == \A k \in Key : c[k] # NoRec => k[1] = Root \/ (k[1] \in ds /\ Names(c, k[1]) # {})
Attrs(b, x)   == \A i \in Ino \ b : x[i] = {}

TreeOk(v) ==
  /\ TreeTypes(v.cat, v.hl, v.bits, v.rlink, v.rsz, v.dirs, v.xa)
  /\ Placed(v.cat, v.hl, v.bits) /\ Hung(v.cat, v.hl)
  /\ Linked(v.cat, v.bits, v.rlink) /\ Sized(v.cat, v.bits, v.rsz, v.dirs)
  /\ Rooted(v.cat, v.dirs) /\ Attrs(v.bits, v.xa)

(* The inodes in memory. *)
MemTypes ==
  /\ up \in {"off", "mounting", "on", "broken"}
  /\ cached \subseteq Ino /\ hard \subseteq cached
  /\ ilink \in [Ino -> 0 .. LinkMax] /\ isz \in [Dirs -> Nat]
  /\ ikey \in [Ino -> AllKey \cup {NoKey}]
  /\ task = [t \in Task |-> task[t]]
  /\ \A t \in Task : task[t] # Idle => task[t].op \in {"link", "rename"} /\ task[t].ino \in Ino
  /\ commits \in 0 .. MaxCommit
  /\ up \in {"off", "mounting"} => cached = {} /\ \A t \in Task : task[t] = Idle

CachedOk ==
  /\ \A i \in cached \cap bits : ilink[i] = rlink[i] /\ isz[i] = rsz[i]
  /\ \A i \in cached \cap bits : IF i \in hard THEN i \in hl
                                 ELSE ikey[i] \in AllKey /\ cat[ikey[i]] = FileRec(i)
  /\ \A i \in cached \ bits : ilink[i] = 1 /\ i \notin hard
  /\ \A i \in Ino : i \notin cached \cap bits => isz[i] = 0
  /\ isz[Root] = rsz[Root]

(* A directory of a rename. *)
DirHeld(d) == d \in Dirs /\ (d # Root => d \in dirs \cap cached /\ ilink[d] # 0)

Locked(t) == {task[t].key[1], task[t].to[1], task[t].ino}
Renames(t) == task[t] # Idle /\ task[t].op = "rename"
Links(t)   == task[t] # Idle /\ task[t].op = "link"

RenameGood(t) ==
  Renames(t) =>
    /\ task[t] = [op |-> "rename", key |-> task[t].key, to |-> task[t].to,
                  ino |-> task[t].ino, old |-> task[t].old]
    /\ task[t].key \in Key /\ task[t].to \in Key
    /\ cat[task[t].key] # NoRec /\ cat[task[t].key].ino = task[t].ino
    /\ cat[task[t].to] = NoRec
    /\ task[t].ino \in cached
    /\ DirHeld(task[t].key[1]) /\ DirHeld(task[t].to[1])
RenameOk == \A t \in Task : RenameGood(t)

RenamesApart ==
  \A t, u \in Task : Renames(t) /\ Renames(u) /\ t # u => Locked(t) \cap Locked(u) = {}

LinkOk ==
  \A t \in Task : Links(t) =>
    /\ task[t] = [op |-> "link", key |-> task[t].key, ino |-> task[t].ino]
    /\ task[t].key \in Key
    /\ task[t].ino \in cached \cap bits
    /\ task[t].ino \notin hard /\ ilink[task[t].ino] # 0 => task[t].key = ikey[task[t].ino]

TypesOk == TypeOK /\ MemTypes
InMemory == up # "broken" => TreeOk(Trees) /\ CachedOk /\ RenameOk /\ RenamesApart /\ LinkOk
NamesInv == TypesOk /\ TreeOk(com) /\ InMemory

CatType == [AllKey -> Rec \cup {NoRec}]

--------------------------------------------------------------------------
(* Keys: those of the orphans are no names. *)
LEMMA KeyFacts ==
  /\ Key \subseteq AllKey
  /\ \A i \in Ino : OrphanKey(i) \in AllKey /\ OrphanKey(i) \notin Key
  /\ \A i, j \in Ino : OrphanKey(i) = OrphanKey(j) => i = j
  /\ \A k \in Key : k[1] \in Dirs
  /\ \A d \in Dirs, n \in Name : <<d, n>> \in Key /\ <<d, n>>[1] = d
  /\ Root \in Dirs /\ Ino \subseteq Dirs /\ Root \notin Ino
  /\ NoKey \notin AllKey
  /\ \A k \in AllKey : k \in Key \/ \E i \in Ino : k = OrphanKey(i)
BY NamespaceConstants DEF AllKey, Key, Dirs, OrphanKey

LEMMA RecFacts ==
  /\ \A i \in Ino : FileRec(i) \in Rec /\ FileRec(i).type = "file" /\ FileRec(i).ino = i
  /\ \A i \in Ino : HlinkRec(i) \in Rec /\ HlinkRec(i).type = "hlink" /\ HlinkRec(i).ino = i
  /\ \A r \in Rec : r # NoRec /\ r.ino \in Ino /\ r.type \in {"file", "hlink"}
  /\ \A r \in Rec : r.type = "file" => r = FileRec(r.ino)
  /\ \A r \in Rec : r.type = "hlink" => r = HlinkRec(r.ino)
  /\ \A i, j \in Ino : FileRec(i) # HlinkRec(j) /\ FileRec(i) # NoRec /\ HlinkRec(i) # NoRec
  /\ \A i, j \in Ino : FileRec(i) = FileRec(j) => i = j
BY NamespaceConstants DEF Rec, FileRec, HlinkRec

LEMMA KeyFinite == IsFiniteSet(Key)
<1>1. IsFiniteSet(Ino) /\ IsFiniteSet(Name)
  BY NamespaceConstants
<1>2. IsFiniteSet(Dirs)
  BY <1>1, FS_AddElement DEF Dirs
<1> QED BY <1>1, <1>2, FS_Product DEF Key

(* Names and entries are finite sets, so their cardinality counts them. *)
LEMMA NamesFinite ==
  ASSUME NEW c, NEW i
  PROVE  /\ IsFiniteSet(Names(c, i)) /\ Cardinality(Names(c, i)) \in Nat
         /\ Cardinality(Names(c, i)) = 0 <=> Names(c, i) = {}
         /\ IsFiniteSet(Entries(c, i)) /\ Cardinality(Entries(c, i)) \in Nat
         /\ Cardinality(Entries(c, i)) = 0 <=> Entries(c, i) = {}
<1>1. Names(c, i) \in SUBSET Key /\ Entries(c, i) \in SUBSET Key
  BY DEF Names, Entries
<1>2. IsFiniteSet(Names(c, i)) /\ IsFiniteSet(Entries(c, i))
  BY <1>1, KeyFinite, FS_Subset
<1> QED BY <1>2, FS_CardinalityType, FS_EmptySet

(* A record is added under a free name. *)
LEMMA AddName ==
  ASSUME NEW c \in CatType, NEW k \in Key, c[k] = NoRec, NEW e \in CatType,
         e[k] \in Rec, NEW i, i = e[k].ino, NEW d, d = k[1], \A l \in Key : l # k => e[l] = c[l]
  PROVE  /\ Cardinality(Names(e, i)) = Cardinality(Names(c, i)) + 1
         /\ k \in Names(e, i)
         /\ \A j : j # i => Names(e, j) = Names(c, j)
         /\ \A j : Names(c, j) \subseteq Names(e, j)
         /\ Cardinality(Entries(e, d)) = Cardinality(Entries(c, d)) + 1
         /\ \A j : j # d => Entries(e, j) = Entries(c, j)
<1>1. e[k] # NoRec
  BY RecFacts
<1>2. Names(e, i) = Names(c, i) \cup {k} /\ k \notin Names(c, i)
  BY <1>1, KeyFacts DEF Names
<1>3. \A j : j # i => Names(e, j) = Names(c, j)
  BY <1>1, KeyFacts DEF Names
<1>4. Entries(e, d) = Entries(c, d) \cup {k} /\ k \notin Entries(c, d)
  BY <1>1, KeyFacts DEF Entries
<1>5. \A j : j # d => Entries(e, j) = Entries(c, j)
  BY <1>1, KeyFacts DEF Entries
<1>6. Cardinality(Names(c, i) \cup {k}) = Cardinality(Names(c, i)) + 1
  BY <1>2, NamesFinite, FS_AddElement
<1>7. Cardinality(Entries(c, d) \cup {k}) = Cardinality(Entries(c, d)) + 1
  BY <1>4, NamesFinite, FS_AddElement
<1>8. \A j : Names(c, j) \subseteq Names(e, j)
  BY <1>2, <1>3
<1> QED BY <1>1, <1>2, <1>3, <1>4, <1>5, <1>6, <1>7, <1>8

(* A name is removed. *)
LEMMA DelName ==
  ASSUME NEW c \in CatType, NEW k \in Key, c[k] # NoRec, NEW e \in CatType,
         NEW i, i = c[k].ino, NEW d, d = k[1], e[k] = NoRec, \A l \in Key : l # k => e[l] = c[l]
  PROVE  /\ Names(e, i) = Names(c, i) \ {k}
         /\ Cardinality(Names(e, i)) = Cardinality(Names(c, i)) - 1
         /\ k \in Names(c, i)
         /\ Cardinality(Names(c, i)) > 0
         /\ \A j : j # i => Names(e, j) = Names(c, j)
         /\ Cardinality(Entries(e, d)) = Cardinality(Entries(c, d)) - 1
         /\ Cardinality(Entries(c, d)) > 0
         /\ k \in Entries(c, d)
         /\ \A j : j # d => Entries(e, j) = Entries(c, j)
         /\ \A j : Entries(e, j) \subseteq Entries(c, j)
<1>2. Names(e, i) = Names(c, i) \ {k} /\ k \in Names(c, i)
  BY KeyFacts DEF Names
<1>3. \A j : j # i => Names(e, j) = Names(c, j)
  BY KeyFacts DEF Names
<1>4. Entries(e, d) = Entries(c, d) \ {k} /\ k \in Entries(c, d)
  BY KeyFacts DEF Entries
<1>5. \A j : j # d => Entries(e, j) = Entries(c, j)
  BY KeyFacts DEF Entries
<1>6. Cardinality(Names(c, i) \ {k}) = Cardinality(Names(c, i)) - 1
  BY <1>2, NamesFinite, FS_RemoveElement
<1>7. Cardinality(Entries(c, d) \ {k}) = Cardinality(Entries(c, d)) - 1
  BY <1>4, NamesFinite, FS_RemoveElement
<1>8. Cardinality(Names(c, i)) > 0 /\ Cardinality(Entries(c, d)) > 0
  <2>1. Names(c, i) # {} /\ Entries(c, d) # {}
    BY <1>2, <1>4
  <2>2. Cardinality(Names(c, i)) \in Nat /\ Cardinality(Names(c, i)) # 0
    BY <2>1, NamesFinite
  <2>3. Cardinality(Entries(c, d)) \in Nat /\ Cardinality(Entries(c, d)) # 0
    BY <2>1, NamesFinite
  <2> QED BY <2>2, <2>3
<1>9. \A j : Entries(e, j) \subseteq Entries(c, j)
  BY <1>4, <1>5
<1> QED BY <1>2, <1>3, <1>4, <1>5, <1>6, <1>7, <1>8, <1>9

(* A record that stays that of the same inode, or one of an orphan,        *)
(* changes no name.                                                        *)
LEMMA SameNames ==
  ASSUME NEW c \in CatType, NEW e \in CatType,
         \A k \in Key : /\ e[k] = NoRec <=> c[k] = NoRec
                        /\ c[k] # NoRec => e[k].ino = c[k].ino
  PROVE  \A i : Names(e, i) = Names(c, i) /\ Entries(e, i) = Entries(c, i)
<1> TAKE i
<1>1. Names(e, i) = Names(c, i)
  BY DEF Names
<1>2. Entries(e, i) = Entries(c, i)
  BY DEF Entries
<1> QED BY <1>1, <1>2

--------------------------------------------------------------------------
(* What the places of the metadata say of one inode. *)
LEMMA PlacedFacts ==
  ASSUME NEW c \in CatType, NEW h \in SUBSET Ino, NEW b \in SUBSET Ino, Placed(c, h, b)
  PROVE  /\ \A k \in AllKey : c[k] # NoRec =>
              /\ c[k] \in Rec /\ c[k].ino \in b
              /\ c[k] = IF c[k].ino \in h THEN HlinkRec(c[k].ino) ELSE FileRec(c[k].ino)
         /\ \A k, l \in AllKey : c[k] # NoRec /\ c[l] # NoRec /\ c[k].ino = c[l].ino
                                   /\ c[k].ino \notin h => k = l
         /\ \A i \in Ino \ b : Names(c, i) = {}
         /\ \A i \in Ino : c[OrphanKey(i)] # NoRec => Names(c, i) = {} /\ i \in b \ h
<1>1. \A k \in AllKey : c[k] # NoRec =>
        /\ c[k] \in Rec /\ c[k].ino \in b
        /\ c[k] = IF c[k].ino \in h THEN HlinkRec(c[k].ino) ELSE FileRec(c[k].ino)
  BY RecFacts DEF Placed, CatType
<1>2. \A k, l \in AllKey : c[k] # NoRec /\ c[l] # NoRec /\ c[k].ino = c[l].ino
                             /\ c[k].ino \notin h => k = l
  <2> SUFFICES ASSUME NEW k \in AllKey, NEW l \in AllKey, c[k] # NoRec, c[l] # NoRec,
                      c[k].ino = c[l].ino, c[k].ino \notin h
               PROVE  k = l
    OBVIOUS
  <2>1. c[k] = FileRec(c[k].ino) /\ c[l] = FileRec(c[k].ino) /\ c[k].ino \in Ino
    BY <1>1
  <2>2. c[k].type = "file" /\ c[l] = c[k]
    BY <2>1, RecFacts
  <2> QED BY <2>2 DEF Placed
<1>3. \A i \in Ino \ b : Names(c, i) = {}
  BY <1>1, KeyFacts DEF Names
<1>4. ASSUME NEW i \in Ino, c[OrphanKey(i)] # NoRec
      PROVE  Names(c, i) = {} /\ i \in b \ h
  <2>1. c[OrphanKey(i)] = FileRec(i) /\ OrphanKey(i) \in AllKey
    BY <1>4, KeyFacts DEF Placed
  <2>2. i \in b \ h
    BY <2>1, <1>4, RecFacts DEF Placed
  <2>3. \A k \in Key : ~(c[k] # NoRec /\ c[k].ino = i)
    BY <2>1, <2>2, <1>2, <1>4, RecFacts, KeyFacts
  <2> QED BY <2>2, <2>3 DEF Names
<1> QED BY <1>1, <1>2, <1>3, <1>4

(* vdfs2_create(): a number that was free gets a catalog record. *)
LEMMA PlacedNew ==
  ASSUME NEW c \in CatType, NEW h \in SUBSET Ino, NEW b \in SUBSET Ino, Placed(c, h, b),
         NEW k \in Key, c[k] = NoRec, NEW i \in Ino \ b, NEW e,
         e \in CatType, e[k] = FileRec(i), \A m \in AllKey : m # k => e[m] = c[m]
  PROVE  Placed(e, h, b \cup {i})
<1>1. e[k] = FileRec(i) /\ \A l \in AllKey : l # k => e[l] = c[l]
  BY KeyFacts DEF CatType
<1>0. \A l \in AllKey : c[l] # NoRec => c[l].ino \in b
  BY PlacedFacts
<1>2. \A l \in AllKey : c[l] # FileRec(i) /\ (c[l] # NoRec => c[l].ino # i)
  BY <1>0, RecFacts
<1>3. \A l \in AllKey : e[l] # NoRec /\ e[l].type = "hlink" => e[l].ino \in h
  BY <1>1, RecFacts DEF Placed
<1>4. \A l \in AllKey : e[l] # NoRec /\ e[l].type = "file" => e[l].ino \in (b \cup {i}) \ h
  BY <1>1, RecFacts DEF Placed
<1>5. \A l, m \in AllKey : e[l] # NoRec /\ e[l].type = "file" /\ e[m] = e[l] => l = m
  BY <1>1, <1>2 DEF Placed
<1>6. \A j \in b \cup {i} : j \in h \/ \E l \in AllKey : e[l] = FileRec(j)
  <2>1. \E l \in AllKey : e[l] = FileRec(i)
    BY <1>1, KeyFacts
  <2>2. ASSUME NEW j \in b, j \notin h PROVE \E l \in AllKey : e[l] = FileRec(j)
    <3>1. PICK l \in AllKey : c[l] = FileRec(j)
      BY <2>2 DEF Placed
    <3>2. l # k
      BY <3>1, RecFacts
    <3> QED BY <3>1, <3>2, <1>1
  <2> QED BY <2>1, <2>2
<1>7. \A j \in Ino : e[OrphanKey(j)] \in {NoRec, FileRec(j)}
  BY <1>1, KeyFacts DEF Placed
<1>8. h \subseteq b \cup {i}
  BY DEF Placed
<1> QED BY <1>3, <1>4, <1>5, <1>6, <1>7, <1>8 DEF Placed

(* vdfs2_link() adds an hlink record of an inode in the hard link tree. *)
LEMMA PlacedAddHlink ==
  ASSUME NEW c \in CatType, NEW h \in SUBSET Ino, NEW b \in SUBSET Ino, Placed(c, h, b),
         NEW k \in Key, c[k] = NoRec, NEW i \in h, NEW e,
         e \in CatType, e[k] = HlinkRec(i), \A m \in AllKey : m # k => e[m] = c[m]
  PROVE  Placed(e, h, b)
<1>1. e[k] = HlinkRec(i) /\ \A l \in AllKey : l # k => e[l] = c[l]
  BY KeyFacts DEF CatType
<1>2. e[k].type = "hlink" /\ e[k].ino = i /\ \A j \in Ino : e[k] # FileRec(j)
  BY <1>1, RecFacts
<1>3. \A l \in AllKey : e[l] # NoRec /\ e[l].type = "hlink" => e[l].ino \in h
  BY <1>1, <1>2 DEF Placed
<1>4. \A l \in AllKey : e[l] # NoRec /\ e[l].type = "file" => e[l].ino \in b \ h
  BY <1>1, <1>2 DEF Placed
<1>5. \A l, m \in AllKey : e[l] # NoRec /\ e[l].type = "file" /\ e[m] = e[l] => l = m
  BY <1>1, <1>2 DEF Placed
<1>6. \A j \in b : j \in h \/ \E l \in AllKey : e[l] = FileRec(j)
  BY <1>1, RecFacts DEF Placed
<1>7. \A j \in Ino : e[OrphanKey(j)] \in {NoRec, FileRec(j)}
  BY <1>1, KeyFacts DEF Placed
<1> QED BY <1>3, <1>4, <1>5, <1>6, <1>7 DEF Placed

(* vdfs2_hard_link_insert(), transform_record_into_hlink(): the metadata   *)
(* moves to the hard link tree.                                            *)
LEMMA PlacedToHlink ==
  ASSUME NEW c \in CatType, NEW h \in SUBSET Ino, NEW b \in SUBSET Ino, Placed(c, h, b),
         NEW k \in Key, NEW i \in Ino, c[k] = FileRec(i), NEW e,
         e \in CatType, e[k] = HlinkRec(i), \A m \in AllKey : m # k => e[m] = c[m]
  PROVE  Placed(e, h \cup {i}, b)
<1>1. e[k] = HlinkRec(i) /\ k \in AllKey /\ \A l \in AllKey : l # k => e[l] = c[l]
  BY KeyFacts DEF CatType
<1>2. e[k].type = "hlink" /\ e[k].ino = i /\ \A j \in Ino : e[k] # FileRec(j)
  BY <1>1, RecFacts
<1>3. i \in b \ h /\ c[k].type = "file" /\ c[k].ino = i /\ c[k] # NoRec
  BY <1>1, RecFacts DEF Placed
<1>4. \A l \in AllKey : l # k => c[l] # FileRec(i)
  BY <1>1, <1>3 DEF Placed
<1>5. \A l \in AllKey : e[l] # NoRec /\ e[l].type = "hlink" => e[l].ino \in h \cup {i}
  BY <1>1, <1>2 DEF Placed
<1>6. \A l \in AllKey : e[l] # NoRec /\ e[l].type = "file" => e[l].ino \in b \ (h \cup {i})
  <2> SUFFICES ASSUME NEW l \in AllKey, e[l] # NoRec, e[l].type = "file"
               PROVE  e[l].ino \in b \ (h \cup {i})
    OBVIOUS
  <2>1. l # k /\ e[l] = c[l] /\ c[l].ino \in b \ h /\ c[l] \in Rec
    BY <1>1, <1>2 DEF Placed, CatType
  <2>2. c[l] = FileRec(c[l].ino)
    BY <2>1, RecFacts
  <2> QED BY <2>1, <2>2, <1>4
<1>7. \A l, m \in AllKey : e[l] # NoRec /\ e[l].type = "file" /\ e[m] = e[l] => l = m
  BY <1>1, <1>2 DEF Placed
<1>8. \A j \in b : j \in h \cup {i} \/ \E l \in AllKey : e[l] = FileRec(j)
  <2> SUFFICES ASSUME NEW j \in b, j \notin h, j # i PROVE \E l \in AllKey : e[l] = FileRec(j)
    OBVIOUS
  <2>1. PICK l \in AllKey : c[l] = FileRec(j)
    BY DEF Placed
  <2> QED BY <2>1, <1>1, RecFacts
<1>9. \A j \in Ino : e[OrphanKey(j)] \in {NoRec, FileRec(j)}
  BY <1>1, KeyFacts DEF Placed
<1>10. h \cup {i} \subseteq b
  BY <1>3 DEF Placed
<1> QED BY <1>5, <1>6, <1>7, <1>8, <1>9, <1>10 DEF Placed

(* One of the names of a hard link goes. *)
LEMMA PlacedDelHlink ==
  ASSUME NEW c \in CatType, NEW h \in SUBSET Ino, NEW b \in SUBSET Ino, Placed(c, h, b),
         NEW k \in Key, NEW i \in Ino, c[k] = HlinkRec(i), NEW e,
         e \in CatType, e[k] = NoRec, \A m \in AllKey : m # k => e[m] = c[m]
  PROVE  Placed(e, h, b)
<1>1. e[k] = NoRec /\ \A l \in AllKey : l # k => e[l] = c[l]
  BY KeyFacts DEF CatType
<1>2. \A l \in AllKey : e[l] # NoRec /\ e[l].type = "hlink" => e[l].ino \in h
  BY <1>1 DEF Placed
<1>3. \A l \in AllKey : e[l] # NoRec /\ e[l].type = "file" => e[l].ino \in b \ h
  BY <1>1 DEF Placed
<1>4. \A l, m \in AllKey : e[l] # NoRec /\ e[l].type = "file" /\ e[m] = e[l] => l = m
  BY <1>1 DEF Placed
<1>5. \A j \in b : j \in h \/ \E l \in AllKey : e[l] = FileRec(j)
  BY <1>1, RecFacts DEF Placed
<1>6. \A j \in Ino : e[OrphanKey(j)] \in {NoRec, FileRec(j)}
  BY <1>1, KeyFacts DEF Placed
<1> QED BY <1>2, <1>3, <1>4, <1>5, <1>6 DEF Placed

(* The record moves under another key, a name or that of the orphan. *)
LEMMA PlacedMove ==
  ASSUME NEW c \in CatType, NEW h \in SUBSET Ino, NEW b \in SUBSET Ino, Placed(c, h, b),
         NEW k \in Key, NEW i \in Ino, c[k] = FileRec(i),
         NEW l \in AllKey, l # k, l \in Key \/ l = OrphanKey(i), c[l] = NoRec, NEW e,
         e \in CatType, e[k] = NoRec, e[l] = FileRec(i),
         \A m \in AllKey : m # k /\ m # l => e[m] = c[m]
  PROVE  Placed(e, h, b)
<1>1. e[k] = NoRec /\ e[l] = FileRec(i) /\ \A m \in AllKey : m # k /\ m # l => e[m] = c[m]
  BY KeyFacts DEF CatType
<1>2. e[l].type = "file" /\ e[l].ino = i /\ i \in b \ h /\ c[k].type = "file" /\ c[k] # NoRec
  BY <1>1, KeyFacts, RecFacts DEF Placed
<1>3. \A m \in AllKey : m # k => c[m] # FileRec(i)
  BY <1>2, KeyFacts DEF Placed
<1>4. \A m \in AllKey : e[m] # NoRec /\ e[m].type = "hlink" => e[m].ino \in h
  BY <1>1, <1>2 DEF Placed
<1>5. \A m \in AllKey : e[m] # NoRec /\ e[m].type = "file" => e[m].ino \in b \ h
  BY <1>1, <1>2 DEF Placed
<1>6. \A m, n \in AllKey : e[m] # NoRec /\ e[m].type = "file" /\ e[n] = e[m] => m = n
  BY <1>1, <1>2, <1>3 DEF Placed
<1>7. \A j \in b : j \in h \/ \E m \in AllKey : e[m] = FileRec(j)
  <2> SUFFICES ASSUME NEW j \in b, j \notin h PROVE \E m \in AllKey : e[m] = FileRec(j)
    OBVIOUS
  <2>1. PICK m \in AllKey : c[m] = FileRec(j)
    BY DEF Placed
  <2>2. CASE m = k
    BY <2>1, <2>2, <1>1, RecFacts
  <2>3. CASE m # k
    <3>1. m # l
      BY <2>1, RecFacts
    <3> QED BY <2>1, <2>3, <3>1, <1>1
  <2> QED BY <2>2, <2>3
<1>8. ASSUME NEW j \in Ino PROVE e[OrphanKey(j)] \in {NoRec, FileRec(j)}
  <2>1. OrphanKey(j) \in AllKey /\ OrphanKey(j) # k /\ c[OrphanKey(j)] \in {NoRec, FileRec(j)}
    BY KeyFacts DEF Placed
  <2>2. CASE OrphanKey(j) = l
    BY <2>2, <1>1, KeyFacts
  <2>3. CASE OrphanKey(j) # l
    BY <2>1, <2>3, <1>1
  <2> QED BY <2>2, <2>3
<1> QED BY <1>4, <1>5, <1>6, <1>7, <1>8 DEF Placed

(* The last name of a hard link goes and the metadata moves to the orphans. *)
LEMMA PlacedHlinkOrphan ==
  ASSUME NEW c \in CatType, NEW h \in SUBSET Ino, NEW b \in SUBSET Ino, Placed(c, h, b),
         NEW k \in Key, NEW i \in Ino, c[k] = HlinkRec(i), \A m \in Names(c, i) : m = k, NEW e,
         e \in CatType, e[k] = NoRec, e[OrphanKey(i)] = FileRec(i),
         \A m \in AllKey : m # k /\ m # OrphanKey(i) => e[m] = c[m]
  PROVE  Placed(e, h \ {i}, b)
<1> DEFINE l == OrphanKey(i)
<1>0. l \in AllKey /\ l \notin Key /\ k \in AllKey
  BY KeyFacts
<1>1. e[k] = NoRec /\ e[l] = FileRec(i) /\ \A m \in AllKey : m # k /\ m # l => e[m] = c[m]
  BY <1>0 DEF CatType
<1>2. e[l].type = "file" /\ e[l].ino = i /\ i \in h /\ i \in b /\ c[k].type = "hlink" /\ c[k] # NoRec
  BY <1>1, <1>0, RecFacts DEF Placed
<1>3. \A m \in AllKey : c[m] # FileRec(i)
  BY <1>2, RecFacts DEF Placed
<1>4. \A m \in AllKey : m # k /\ m # l => (c[m] # NoRec => c[m].ino # i)
  <2> SUFFICES ASSUME NEW m \in AllKey, m # k, m # l, c[m] # NoRec, c[m].ino = i PROVE FALSE
    OBVIOUS
  <2>1. m \notin Key
    BY DEF Names
  <2>2. PICK j \in Ino : m = OrphanKey(j)
    BY <2>1, KeyFacts
  <2>3. c[m] = FileRec(j)
    BY <2>2 DEF Placed
  <2> QED BY <2>3, <2>2, RecFacts
<1>5. \A m \in AllKey : e[m] # NoRec /\ e[m].type = "hlink" => e[m].ino \in h \ {i}
  BY <1>1, <1>2, <1>4 DEF Placed
<1>6. \A m \in AllKey : e[m] # NoRec /\ e[m].type = "file" => e[m].ino \in b \ (h \ {i})
  BY <1>1, <1>2 DEF Placed
<1>7. \A m, n \in AllKey : e[m] # NoRec /\ e[m].type = "file" /\ e[n] = e[m] => m = n
  BY <1>1, <1>2, <1>3 DEF Placed
<1>8. \A j \in b : j \in h \ {i} \/ \E m \in AllKey : e[m] = FileRec(j)
  <2>1. \E m \in AllKey : e[m] = FileRec(i)
    BY <1>0, <1>1
  <2>2. ASSUME NEW j \in b, j \notin h, j # i PROVE \E m \in AllKey : e[m] = FileRec(j)
    <3>1. PICK m \in AllKey : c[m] = FileRec(j)
      BY <2>2 DEF Placed
    <3>2. m # k
      BY <3>1, RecFacts
    <3>3. m # l
      BY <3>1, <2>2, RecFacts DEF Placed
    <3> QED BY <3>1, <3>2, <3>3, <1>1
  <2> QED BY <2>1, <2>2
<1>9. \A j \in Ino : e[OrphanKey(j)] \in {NoRec, FileRec(j)}
  BY <1>1, <1>0, KeyFacts DEF Placed
<1>10. h \ {i} \subseteq b
  BY DEF Placed
<1> QED BY <1>5, <1>6, <1>7, <1>8, <1>9, <1>10 DEF Placed

(* vdfs2_kill_orphan_inode(): the record of an orphan and its number go. *)
LEMMA PlacedKill ==
  ASSUME NEW c \in CatType, NEW h \in SUBSET Ino, NEW b \in SUBSET Ino, Placed(c, h, b),
         NEW i \in Ino, c[OrphanKey(i)] = FileRec(i), NEW e,
         e \in CatType, e[OrphanKey(i)] = NoRec,
         \A m \in AllKey : m # OrphanKey(i) => e[m] = c[m]
  PROVE  Placed(e, h, b \ {i})
<1> DEFINE l == OrphanKey(i)
<1>0. l \in AllKey
  BY KeyFacts
<1>1. e[l] = NoRec /\ \A m \in AllKey : m # l => e[m] = c[m]
  BY <1>0 DEF CatType
<1>2. i \in b \ h
  BY <1>0, RecFacts DEF Placed
<1>3. \A m \in AllKey : m # l /\ c[m] # NoRec => c[m].ino # i
  <2>1. \A k, m \in AllKey : c[k] # NoRec /\ c[m] # NoRec /\ c[k].ino = c[m].ino
                               /\ c[k].ino \notin h => k = m
    BY PlacedFacts
  <2>2. c[l] # NoRec /\ c[l].ino = i
    BY RecFacts
  <2> QED BY <1>0, <1>2, <2>1, <2>2
<1>4. \A m \in AllKey : e[m] # NoRec /\ e[m].type = "hlink" => e[m].ino \in h
  BY <1>1 DEF Placed
<1>5. \A m \in AllKey : e[m] # NoRec /\ e[m].type = "file" => e[m].ino \in (b \ {i}) \ h
  BY <1>1, <1>3 DEF Placed
<1>6. \A m, n \in AllKey : e[m] # NoRec /\ e[m].type = "file" /\ e[n] = e[m] => m = n
  BY <1>1 DEF Placed
<1>7. \A j \in b \ {i} : j \in h \/ \E m \in AllKey : e[m] = FileRec(j)
  <2> SUFFICES ASSUME NEW j \in b \ {i}, j \notin h PROVE \E m \in AllKey : e[m] = FileRec(j)
    OBVIOUS
  <2>1. PICK m \in AllKey : c[m] = FileRec(j)
    BY DEF Placed
  <2>2. m # l
    BY <2>1, RecFacts
  <2> QED BY <2>1, <2>2, <1>1
<1>8. \A j \in Ino : e[OrphanKey(j)] \in {NoRec, FileRec(j)}
  BY <1>1, KeyFacts DEF Placed
<1>9. h \subseteq b \ {i}
  BY <1>2 DEF Placed
<1> QED BY <1>4, <1>5, <1>6, <1>7, <1>8, <1>9 DEF Placed

--------------------------------------------------------------------------
(* What the invariant says of the four properties. *)
LEMMA HomeCount ==
  ASSUME NEW c \in CatType, NEW h \in SUBSET Ino, NEW b \in SUBSET Ino, Placed(c, h, b),
         NEW i \in Ino
  PROVE  Cardinality(Homes(c, i)) + (IF i \in h THEN 1 ELSE 0) = (IF i \in b THEN 1 ELSE 0)
<1>1. CASE i \notin b \/ i \in h
  <2>1. \A k \in AllKey : c[k] # FileRec(i)
    BY <1>1, RecFacts DEF Placed
  <2>2. Homes(c, i) = {}
    BY <2>1 DEF Homes
  <2>3. Cardinality(Homes(c, i)) = 0
    BY <2>2, FS_EmptySet
  <2> QED BY <2>3, <1>1 DEF Placed
<1>2. CASE i \in b \ h
  <2>1. PICK k \in AllKey : c[k] = FileRec(i)
    BY <1>2 DEF Placed
  <2>2. \A l \in AllKey : c[l] = FileRec(i) => l = k
    BY <2>1, RecFacts DEF Placed
  <2>3. Homes(c, i) = {k}
    BY <2>1, <2>2 DEF Homes
  <2>4. Cardinality(Homes(c, i)) = 1
    BY <2>3, FS_Singleton
  <2> QED BY <2>4, <1>2
<1> QED BY <1>1, <1>2

LEMMA TreeProps ==
  ASSUME NEW v, TreeOk(v)
  PROVE  /\ \A i \in Ino : Cardinality(Homes(v.cat, i)) + (IF i \in v.hl THEN 1 ELSE 0)
                             = (IF i \in v.bits THEN 1 ELSE 0)
         /\ \A k \in AllKey : v.cat[k] # NoRec /\ v.cat[k].type = "hlink" => v.cat[k].ino \in v.hl
         /\ \A i \in v.bits : v.rlink[i] = Cardinality(Names(v.cat, i))
         /\ \A d \in v.dirs \cup {Root} : v.rsz[d] = Cardinality(Entries(v.cat, d))
         /\ \A k \in Key : v.cat[k] # NoRec => k[1] = Root \/ (k[1] \in v.dirs /\ Names(v.cat, k[1]) # {})
         /\ \A i \in Ino : i \notin v.bits => v.xa[i] = {}
<1>1. /\ v.cat \in CatType /\ v.hl \in SUBSET Ino /\ v.bits \in SUBSET Ino
      /\ Placed(v.cat, v.hl, v.bits)
  BY DEF TreeOk, TreeTypes, CatType
<1>2. \A i \in Ino : Cardinality(Homes(v.cat, i)) + (IF i \in v.hl THEN 1 ELSE 0)
                       = (IF i \in v.bits THEN 1 ELSE 0)
  BY <1>1, HomeCount
<1>3. \A k \in AllKey : v.cat[k] # NoRec /\ v.cat[k].type = "hlink" => v.cat[k].ino \in v.hl
  BY <1>1 DEF Placed
<1>4. \A i \in v.bits : v.rlink[i] = Cardinality(Names(v.cat, i))
  BY DEF TreeOk, Linked
<1>5. \A d \in v.dirs \cup {Root} : v.rsz[d] = Cardinality(Entries(v.cat, d))
  BY DEF TreeOk, Sized
<1>6. \A k \in Key : v.cat[k] # NoRec => k[1] = Root \/ (k[1] \in v.dirs /\ Names(v.cat, k[1]) # {})
  BY DEF TreeOk, Rooted
<1>7. \A i \in Ino : i \notin v.bits => v.xa[i] = {}
  BY DEF TreeOk, Attrs
<1> QED BY <1>2, <1>3, <1>4, <1>5, <1>6, <1>7

LEMMA InvOneHome == NamesInv => OneHome
<1> SUFFICES ASSUME NamesInv PROVE OneHome
  OBVIOUS
<1>1. TreeOk(com) /\ (up # "broken" => TreeOk(Trees))
  BY DEF NamesInv, InMemory
<1> QED BY <1>1, TreeProps DEF OneHome, Whole

LEMMA InvCountsExact == NamesInv => CountsExact
<1> SUFFICES ASSUME NamesInv PROVE CountsExact
  OBVIOUS
<1>1. TreeOk(com) /\ (up # "broken" => TreeOk(Trees))
  BY DEF NamesInv, InMemory
<1> QED BY <1>1, TreeProps DEF CountsExact, Whole

LEMMA InvXattrOwned == NamesInv => XattrOwned
<1> SUFFICES ASSUME NamesInv PROVE XattrOwned
  OBVIOUS
<1>1. TreeOk(com) /\ (up # "broken" => TreeOk(Trees))
  BY DEF NamesInv, InMemory
<1> QED BY <1>1, TreeProps DEF XattrOwned, Whole

(* The trees in memory. *)
MemTree ==
  /\ TreeTypes(cat, hl, bits, rlink, rsz, dirs, xa)
  /\ Placed(cat, hl, bits) /\ Hung(cat, hl) /\ Linked(cat, bits, rlink) /\ Sized(cat, bits, rsz, dirs)
  /\ Rooted(cat, dirs) /\ Attrs(bits, xa)

LEMMA MemTreeDef == (TreeOk(Trees) <=> MemTree) /\ (TreeOk(Trees) <=> MemTree)'
<1>1. TreeOk(Trees) <=> MemTree
  BY DEF TreeOk, Trees, MemTree
<1>2. TreeOk(Trees)' <=> MemTree'
  BY DEF TreeOk, Trees, MemTree
<1> QED BY <1>1, <1>2

LEMMA InvFindsRecord == NamesInv => InodeFindsRecord
<1> SUFFICES ASSUME NamesInv, up = "on", NEW i \in cached \cap bits
             PROVE  RecordFound(i) /\ (ilink[i] = 0 <=> Names(cat, i) = {})
  BY DEF InodeFindsRecord
<1>1. MemTree /\ CachedOk /\ MemTypes
  BY MemTreeDef DEF NamesInv, InMemory, TypesOk
<1>2. i \in Ino /\ i # Root
  BY <1>1, KeyFacts DEF MemTypes
<1>3. RecordFound(i)
  BY <1>1, <1>2, KeyFacts DEF CachedOk, RecordFound
<1>4. ilink[i] = Cardinality(Names(cat, i))
  BY <1>1 DEF CachedOk, MemTree, Linked
<1> QED BY <1>3, <1>4, NamesFinite

--------------------------------------------------------------------------
(* The parts of the invariant, taken apart and put together. *)
LEMMA Parts ==
  ASSUME NamesInv, up # "broken"
  PROVE  MemTypes /\ MemTree /\ CachedOk /\ RenameOk /\ RenamesApart /\ LinkOk
BY MemTreeDef DEF NamesInv, InMemory, TypesOk

LEMMA Together ==
  ASSUME TreeOk(com)', MemTypes', MemTree', CachedOk', RenameOk', RenamesApart', LinkOk'
  PROVE  NamesInv'
<1>1. TypeOK'
  BY DEF MemTypes, MemTree, TreeTypes, TypeOK
<1>2. TreeOk(Trees)'
  BY MemTreeDef
<1> QED BY <1>1, <1>2 DEF NamesInv, InMemory, TypesOk

LEMMA ComKept ==
  ASSUME NamesInv, com' = com
  PROVE  TreeOk(com)'
BY DEF NamesInv

LEMMA MemTreeFacts ==
  ASSUME MemTree
  PROVE  /\ cat \in CatType /\ hl \in SUBSET Ino /\ bits \in SUBSET Ino /\ dirs \subseteq bits
         /\ rlink \in [Ino -> 0 .. LinkMax] /\ rsz \in [Dirs -> Nat] /\ xa \in [Ino -> SUBSET Attr]
         /\ Placed(cat, hl, bits)
BY DEF MemTree, TreeTypes, CatType

LEMMA MemPlaced ==
  ASSUME MemTree
  PROVE  /\ \A k \in AllKey : cat[k] # NoRec =>
              /\ cat[k] \in Rec /\ cat[k].ino \in bits
              /\ cat[k] = IF cat[k].ino \in hl THEN HlinkRec(cat[k].ino) ELSE FileRec(cat[k].ino)
         /\ \A k, l \in AllKey : cat[k] # NoRec /\ cat[l] # NoRec /\ cat[k].ino = cat[l].ino
                                   /\ cat[k].ino \notin hl => k = l
         /\ \A i \in Ino \ bits : Names(cat, i) = {}
         /\ \A i \in Ino : cat[OrphanKey(i)] # NoRec => Names(cat, i) = {} /\ i \in bits \ hl
<1>1. cat \in CatType /\ hl \in SUBSET Ino /\ bits \in SUBSET Ino /\ Placed(cat, hl, bits)
  BY MemTreeFacts
<1> HIDE DEF CatType
<1> QED BY <1>1, PlacedFacts

LEMMA MemTreeKept ==
  ASSUME MemTree, UNCHANGED trees
  PROVE  MemTree'
BY DEF MemTree, trees

(* A name of an inode in memory: the inode knows where its metadata is and *)
(* how many names it has.                                                  *)
LEMMA NameFacts ==
  ASSUME MemTree, MemTypes, CachedOk, NEW k \in Key, cat[k] # NoRec,
         NEW i, i = cat[k].ino
  PROVE  /\ i \in Ino /\ i \in bits /\ k \in Names(cat, i) /\ rlink[i] = Cardinality(Names(cat, i))
         /\ rlink[i] > 0
         /\ cat[k] = IF i \in hl THEN HlinkRec(i) ELSE FileRec(i)
         /\ cat[OrphanKey(i)] = NoRec
         /\ i \in cached => /\ i \in hard <=> i \in hl
                            /\ ilink[i] = rlink[i] /\ isz[i] = rsz[i]
                            /\ i \notin hard => ikey[i] = k
<1>1. /\ cat \in CatType /\ hl \in SUBSET Ino /\ bits \in SUBSET Ino
      /\ Placed(cat, hl, bits) /\ k \in AllKey
  BY MemTreeFacts, KeyFacts
<1>2. /\ cat[k] \in Rec /\ i \in bits
      /\ cat[k] = IF i \in hl THEN HlinkRec(i) ELSE FileRec(i)
  BY <1>1, MemPlaced
<1>3. i \in Ino
  BY <1>1, <1>2
<1>4. k \in Names(cat, i)
  BY DEF Names
<1>5. rlink[i] = Cardinality(Names(cat, i))
  BY <1>2 DEF MemTree, Linked
<1>6. rlink[i] > 0
  <2>1. Names(cat, i) # {}
    BY <1>4
  <2>2. Cardinality(Names(cat, i)) \in Nat /\ Cardinality(Names(cat, i)) # 0
    BY <2>1, NamesFinite
  <2> QED BY <2>2, <1>5
<1>7. cat[OrphanKey(i)] = NoRec
  <2>1. cat[OrphanKey(i)] # NoRec => Names(cat, i) = {}
    BY <1>3, MemPlaced
  <2> QED BY <2>1, <1>4
<1>8. ASSUME i \in cached
      PROVE  /\ i \in hard <=> i \in hl
             /\ ilink[i] = rlink[i] /\ isz[i] = rsz[i]
             /\ i \notin hard => ikey[i] = k
  <2>1. /\ ilink[i] = rlink[i] /\ isz[i] = rsz[i]
        /\ IF i \in hard THEN i \in hl ELSE ikey[i] \in AllKey /\ cat[ikey[i]] = FileRec(i)
    BY <1>8, <1>2 DEF CachedOk
  <2>2. CASE i \notin hard
    <3>1. ikey[i] \in AllKey /\ cat[ikey[i]] = FileRec(i)
      BY <2>1, <2>2
    <3>2. cat[ikey[i]].type = "file" /\ cat[ikey[i]].ino = i /\ cat[ikey[i]] # NoRec
      BY <3>1, <1>3, RecFacts
    <3>3. i \notin hl
      BY <1>1, <3>1, <3>2 DEF Placed
    <3>4. cat[k] = cat[ikey[i]]
      BY <1>2, <3>1, <3>3
    <3>5. ikey[i] = k
      BY <1>1, <3>1, <3>2, <3>4 DEF Placed
    <3> QED BY <2>1, <2>2, <3>3, <3>5
  <2> QED BY <2>1, <2>2
<1> QED BY <1>2, <1>3, <1>4, <1>5, <1>6, <1>7, <1>8

(* A directory somebody works in knows how many entries it has. *)
LEMMA HeldFacts ==
  ASSUME MemTree, CachedOk, NEW d \in Dirs, DirHeld(d)
  PROVE  /\ d \in dirs \cup {Root} /\ isz[d] = rsz[d] /\ rsz[d] = Cardinality(Entries(cat, d))
         /\ d # Root => d \in cached /\ d \in bits /\ d \in dirs /\ ilink[d] # 0
         /\ isz[d] \in Nat
         /\ d # Root => Names(cat, d) # {}
<1>1. d # Root => d \in cached /\ d \in bits /\ d \in dirs /\ ilink[d] # 0
  BY DEF DirHeld, MemTree, TreeTypes
<1>2. isz[d] = rsz[d]
  BY <1>1 DEF CachedOk
<1>3. rsz[d] = Cardinality(Entries(cat, d))
  BY <1>1 DEF MemTree, Sized
<1>4. rsz[d] \in Nat
  BY DEF MemTree, TreeTypes
<1>5. d # Root => Names(cat, d) # {}
  <2>1. d # Root => rlink[d] # 0 /\ rlink[d] = Cardinality(Names(cat, d))
    BY <1>1 DEF CachedOk, MemTree, Linked
  <2> QED BY <2>1, NamesFinite
<1> QED BY <1>1, <1>2, <1>3, <1>4, <1>5

LEMMA DirFacts ==
  ASSUME MemTree, CachedOk, NEW d \in Dirs, OpenDir(d)
  PROVE  /\ d \in dirs \cup {Root} /\ isz[d] = rsz[d] /\ rsz[d] = Cardinality(Entries(cat, d))
         /\ d # Root => d \in cached /\ d \in bits /\ d \in dirs /\ ilink[d] # 0
         /\ isz[d] \in Nat
         /\ d # Root => Names(cat, d) # {}
<1>1. DirHeld(d)
  BY DEF OpenDir, DirHeld
<1> QED BY <1>1, HeldFacts

(* Other renames are not disturbed by what leaves their directories and    *)
(* inodes alone.                                                           *)
LEMMA RenameKept ==
  ASSUME MemTypes, RenameOk, NEW t \in Task, Renames(t)' => task'[t] = task[t],
         Renames(t) => \A k \in Key : k[1] \in Locked(t) =>
                         /\ cat'[k] = NoRec <=> cat[k] = NoRec
                         /\ cat[k] # NoRec => cat'[k].ino = cat[k].ino,
         Renames(t) => \A i \in Ino : i \in Locked(t) =>
                         /\ i \in cached => i \in cached'
                         /\ i \in dirs => i \in dirs'
                         /\ ilink[i] # 0 => ilink'[i] # 0
  PROVE  RenameGood(t)'
<1> DEFINE H(d) == d \in Dirs /\ (d # Root => d \in dirs' \cap cached' /\ ilink'[d] # 0)
<1> SUFFICES ASSUME Renames(t)'
             PROVE /\ task'[t] = [op |-> "rename", key |-> task'[t].key, to |-> task'[t].to,
                                  ino |-> task'[t].ino, old |-> task'[t].old]
                   /\ task'[t].key \in Key /\ task'[t].to \in Key
                   /\ cat'[task'[t].key] # NoRec /\ cat'[task'[t].key].ino = task'[t].ino
                   /\ cat'[task'[t].to] = NoRec
                   /\ task'[t].ino \in cached'
                   /\ H(task'[t].key[1]) /\ H(task'[t].to[1])
  BY DEF RenameGood, DirHeld
<1>1. /\ Renames(t) /\ task'[t] = task[t]
      /\ task[t].key[1] \in Locked(t) /\ task[t].to[1] \in Locked(t) /\ task[t].ino \in Locked(t)
  BY DEF Renames, Locked
<1>2. /\ task[t] = [op |-> "rename", key |-> task[t].key, to |-> task[t].to,
                    ino |-> task[t].ino, old |-> task[t].old]
      /\ task[t].key \in Key /\ task[t].to \in Key
      /\ cat[task[t].key] # NoRec /\ cat[task[t].key].ino = task[t].ino
      /\ cat[task[t].to] = NoRec
      /\ task[t].ino \in cached
      /\ DirHeld(task[t].key[1]) /\ DirHeld(task[t].to[1])
  BY <1>1 DEF RenameOk, RenameGood
<1>7. \A i \in Ino : i \in Locked(t) =>
        /\ i \in cached => i \in cached'
        /\ i \in dirs => i \in dirs'
        /\ ilink[i] # 0 => ilink'[i] # 0
  BY <1>1
<1>3. ASSUME NEW d, d \in Locked(t), DirHeld(d) PROVE H(d)
  BY <1>3, <1>7 DEF DirHeld, Dirs
<1>4. cat'[task[t].key] # NoRec /\ cat'[task[t].key].ino = task[t].ino /\ cat'[task[t].to] = NoRec
  BY <1>1, <1>2
<1>5. H(task[t].key[1]) /\ H(task[t].to[1])
  BY <1>1, <1>2, <1>3
<1> HIDE DEF H
<1>6. task[t].ino \in cached'
  <2>1. task[t].ino \in Ino
    BY <1>2 DEF MemTypes
  <2> QED BY <1>1, <1>2, <1>7, <2>1
<1> QED BY <1>1, <1>2, <1>4, <1>5, <1>6

LEMMA RenamesKeep ==
  ASSUME MemTypes, RenameOk, RenamesApart,
         \A t \in Task : Renames(t)' => task'[t] = task[t],
         \A k \in Key : Busy(k[1]) => /\ cat'[k] = NoRec <=> cat[k] = NoRec
                                      /\ cat[k] # NoRec => cat'[k].ino = cat[k].ino,
         \A i \in Ino : Busy(i) => /\ i \in cached => i \in cached'
                                   /\ i \in dirs => i \in dirs'
                                   /\ ilink[i] # 0 => ilink'[i] # 0
  PROVE  RenameOk' /\ RenamesApart'
<1>1. ASSUME NEW t \in Task PROVE RenameGood(t)'
  <2>1. Renames(t) => \A i \in Locked(t) : Busy(i)
    BY DEF Renames, Locked, Busy
  <2> QED BY <2>1, RenameKept
<1>2. ASSUME NEW t \in Task, Renames(t)'
      PROVE  Renames(t) /\ Locked(t)' = Locked(t)
  BY <1>2 DEF Renames, Locked
<1>3. RenamesApart'
  BY <1>2 DEF RenamesApart
<1> QED BY <1>1, <1>3 DEF RenameOk

Linking(i) == \E t \in Task : Links(t) /\ task[t].ino = i

(* So are links. *)
LEMMA LinksKeep ==
  ASSUME MemTypes, LinkOk,
         \A t \in Task : Links(t)' => task'[t] = task[t],
         \A i \in Ino : Linking(i) /\ i \in cached /\ i \in bits
                  => /\ i \in cached' /\ i \in bits'
                     /\ i \notin hard' /\ ilink'[i] # 0 => i \notin hard /\ ilink[i] # 0 /\ ikey'[i] = ikey[i]
  PROVE  LinkOk'
<1> SUFFICES ASSUME NEW t \in Task, Links(t)'
             PROVE  /\ task'[t] = [op |-> "link", key |-> task'[t].key, ino |-> task'[t].ino]
                    /\ task'[t].key \in Key
                    /\ task'[t].ino \in cached' \cap bits'
                    /\ task'[t].ino \notin hard' /\ ilink'[task'[t].ino] # 0
                         => task'[t].key = ikey'[task'[t].ino]
  BY DEF LinkOk
<1>1. task'[t] = task[t]
  OBVIOUS
<1>2. Links(t) /\ Linking(task[t].ino)
  BY <1>1 DEF Links, Linking
<1>3. /\ task[t] = [op |-> "link", key |-> task[t].key, ino |-> task[t].ino]
      /\ task[t].key \in Key
      /\ task[t].ino \in cached \cap bits
      /\ task[t].ino \notin hard /\ ilink[task[t].ino] # 0 => task[t].key = ikey[task[t].ino]
  BY <1>2 DEF LinkOk
<1>4. task[t].ino \in Ino
  BY <1>3 DEF MemTypes
<1> QED BY <1>1, <1>2, <1>3, <1>4

(* The directories and the inode of a rename stay in memory. *)
LEMMA BusyCached ==
  ASSUME RenameOk, NEW i, Busy(i), i # Root
  PROVE  i \in cached
<1>1. PICK t \in Task : Renames(t) /\ i \in {task[t].key[1], task[t].to[1], task[t].ino}
  BY DEF Busy, Renames
<1>2. DirHeld(task[t].key[1]) /\ DirHeld(task[t].to[1]) /\ task[t].ino \in cached
  BY <1>1 DEF RenameOk, RenameGood
<1> QED BY <1>1, <1>2 DEF DirHeld

LEMMA LinkingCached ==
  ASSUME LinkOk, NEW i, Linking(i)
  PROVE  i \in cached /\ i \in bits
BY DEF LinkOk, Linking

LEMMA TasksKept ==
  ASSUME task' = task
  PROVE  /\ \A t \in Task : Renames(t)' => task'[t] = task[t]
         /\ \A t \in Task : Links(t)' => task'[t] = task[t]
BY DEF Renames, Links

(* A task that is done leaves the others as they were. *)
LEMMA TaskDone ==
  ASSUME MemTypes, NEW t \in Task, task' = [task EXCEPT ![t] = Idle]
  PROVE  /\ \A u \in Task : task'[u] = IF u = t THEN Idle ELSE task[u]
         /\ \A u \in Task : Renames(u)' => task'[u] = task[u]
         /\ \A u \in Task : Links(u)' => task'[u] = task[u]
         /\ task' = [u \in Task |-> task'[u]]
<1>1. \A u \in Task : task'[u] = IF u = t THEN Idle ELSE task[u]
  BY DEF MemTypes
<1>2. task' = [u \in Task |-> task'[u]]
  BY DEF MemTypes
<1> QED BY <1>1, <1>2 DEF Renames, Links

--------------------------------------------------------------------------
(* Mount, power off, commit. *)
LEMMA EmptyOk == /\ NoTrees => MemTree
                 /\ NoTrees' => MemTree'
<1> DEFINE Empty(c, h, b, rl, rs, ds, x) ==
             /\ c = [k \in AllKey |-> NoRec] /\ h = {} /\ b = {}
             /\ rl = [i \in Ino |-> 0] /\ rs = [d \in Dirs |-> 0] /\ ds = {} /\ x = [i \in Ino |-> {}]
<1>1. ASSUME NEW c, NEW h, NEW b, NEW rl, NEW rs, NEW ds, NEW x, Empty(c, h, b, rl, rs, ds, x)
      PROVE  /\ TreeTypes(c, h, b, rl, rs, ds, x) /\ Placed(c, h, b) /\ Hung(c, h) /\ Linked(c, b, rl)
             /\ Sized(c, b, rs, ds) /\ Rooted(c, ds) /\ Attrs(b, x)
  <2>1. TreeTypes(c, h, b, rl, rs, ds, x)
    <3>1. 0 \in 0 .. LinkMax
      BY NamespaceConstants
    <3> QED BY <1>1, <3>1 DEF TreeTypes
  <2>2. Placed(c, h, b)
    BY <1>1, KeyFacts DEF Placed
  <2>3. Sized(c, b, rs, ds)
    <3>1. Entries(c, Root) = {}
      BY <1>1, KeyFacts DEF Entries
    <3>2. Cardinality(Entries(c, Root)) = 0
      BY <3>1, FS_EmptySet
    <3> QED BY <1>1, <3>2, KeyFacts DEF Sized
  <2>4. Hung(c, h) /\ Linked(c, b, rl) /\ Rooted(c, ds) /\ Attrs(b, x)
    BY <1>1, KeyFacts DEF Hung, Linked, Rooted, Attrs
  <2> QED BY <2>1, <2>2, <2>3, <2>4
<1>2. NoTrees => Empty(cat, hl, bits, rlink, rsz, dirs, xa)
  BY DEF NoTrees
<1>3. NoTrees' => Empty(cat', hl', bits', rlink', rsz', dirs', xa')
  BY DEF NoTrees
<1> HIDE DEF Empty
<1>4. NoTrees => MemTree
  BY <1>1, <1>2 DEF MemTree
<1>5. NoTrees' => MemTree'
  BY <1>1, <1>3 DEF MemTree
<1> QED BY <1>4, <1>5

LEMMA IdleTasks ==
  ASSUME \A t \in Task : task[t] = Idle
  PROVE  RenameOk /\ RenamesApart /\ LinkOk
BY DEF RenameOk, RenameGood, RenamesApart, LinkOk, Renames, Links

LEMMA IdleTasksNext ==
  ASSUME \A t \in Task : task'[t] = Idle
  PROVE  RenameOk' /\ RenamesApart' /\ LinkOk'
BY DEF RenameOk, RenameGood, RenamesApart, LinkOk, Renames, Links

LEMMA InitOk == Init => NamesInv
<1> SUFFICES ASSUME Init PROVE NamesInv
  OBVIOUS
<1>1. MemTree /\ TreeOk(Trees) /\ TreeOk(com)
  BY EmptyOk, MemTreeDef DEF Init
<1>2. MemTypes
  BY NamespaceConstants DEF Init, Nobody, MemTypes
<1>3. CachedOk
  BY KeyFacts DEF Init, Nobody, NoTrees, CachedOk
<1>4. RenameOk /\ RenamesApart /\ LinkOk
  BY IdleTasks DEF Init, Nobody
<1>5. TypeOK
  BY <1>1, <1>2 DEF MemTypes, MemTree, TreeTypes, TypeOK
<1> QED BY <1>1, <1>2, <1>3, <1>4, <1>5 DEF NamesInv, InMemory, TypesOk

LEMMA MountOk == NamesInv /\ Mount => NamesInv'
<1> SUFFICES ASSUME NamesInv, Mount PROVE NamesInv'
  OBVIOUS
<1>1. /\ up = "off" /\ up' = "mounting" /\ isz' = [isz EXCEPT ![Root] = com.rsz[Root]]
      /\ cat' = com.cat /\ hl' = com.hl /\ bits' = com.bits /\ rlink' = com.rlink
      /\ rsz' = com.rsz /\ dirs' = com.dirs /\ xa' = com.xa
      /\ cached' = cached /\ ilink' = ilink /\ hard' = hard /\ ikey' = ikey /\ task' = task
      /\ com' = com /\ commits' = commits
  BY DEF Mount
<1>2. MemTypes /\ MemTree /\ CachedOk
  BY <1>1, Parts
<1>3. TreeOk(com)
  BY DEF NamesInv
<1>4. MemTree'
  BY <1>1, <1>3 DEF TreeOk, MemTree
<1>5. cached = {} /\ \A t \in Task : task[t] = Idle
  BY <1>1, <1>2 DEF MemTypes
<1>6. com.rsz \in [Dirs -> Nat] /\ Root \in Dirs
  BY <1>3, KeyFacts DEF TreeOk, TreeTypes
<1>7. MemTypes'
  BY <1>1, <1>2, <1>5, <1>6 DEF MemTypes
<1>8. CachedOk'
  BY <1>1, <1>2, <1>5, <1>6, KeyFacts DEF CachedOk, MemTypes
<1> QED BY <1>1, <1>3, <1>4, <1>5, <1>7, <1>8, IdleTasksNext, Together, ComKept

LEMMA MountEndOk == NamesInv /\ MountEnd => NamesInv'
<1> SUFFICES ASSUME NamesInv, MountEnd PROVE NamesInv'
  OBVIOUS
<1>1. /\ up = "mounting" /\ up' = "on" /\ UNCHANGED <<trees, cache, task, com, commits>>
  BY DEF MountEnd
<1>2. MemTypes /\ MemTree /\ CachedOk
  BY <1>1, Parts
<1>3. /\ cached' = cached /\ ilink' = ilink /\ isz' = isz /\ hard' = hard /\ ikey' = ikey
      /\ task' = task /\ com' = com /\ commits' = commits /\ UNCHANGED trees
  BY <1>1 DEF cache
<1>4. MemTree'
  BY <1>2, <1>3, MemTreeKept
<1>5. MemTypes'
  BY <1>1, <1>2, <1>3 DEF MemTypes
<1>6. CachedOk'
  BY <1>2, <1>3 DEF CachedOk, trees
<1>7. \A t \in Task : task'[t] = Idle
  BY <1>1, <1>2, <1>3 DEF MemTypes
<1> QED BY <1>3, <1>4, <1>5, <1>6, <1>7, IdleTasksNext, Together, ComKept

LEMMA PowerOffOk == NamesInv /\ PowerOff => NamesInv'
<1> SUFFICES ASSUME NamesInv, PowerOff PROVE NamesInv'
  OBVIOUS
<1>1. /\ up' = "off" /\ NoTrees' /\ cached' = {} /\ ilink' = [i \in Ino |-> 0]
      /\ isz' = [d \in Dirs |-> 0] /\ hard' = {} /\ ikey' = [i \in Ino |-> NoKey]
      /\ task' = [t \in Task |-> Idle] /\ com' = com /\ commits' = commits
      /\ rsz' = [d \in Dirs |-> 0]
  BY DEF PowerOff, NoTrees
<1>2. MemTree'
  BY <1>1, EmptyOk
<1>3. MemTypes'
  BY <1>1, NamespaceConstants DEF NamesInv, TypesOk, MemTypes
<1>4. CachedOk'
  BY <1>1, KeyFacts DEF CachedOk
<1>5. \A t \in Task : task'[t] = Idle
  BY <1>1
<1> QED BY <1>1, <1>2, <1>3, <1>4, <1>5, IdleTasksNext, Together, ComKept

LEMMA CommitOk == NamesInv /\ Commit => NamesInv'
<1> SUFFICES ASSUME NamesInv, Commit PROVE NamesInv'
  OBVIOUS
<1>1. /\ up = "on" /\ up' = up /\ com' = Trees /\ commits' = commits + 1 /\ commits < MaxCommit
      /\ UNCHANGED trees /\ UNCHANGED cache /\ task' = task
  BY DEF Commit
<1>2. MemTypes /\ MemTree /\ CachedOk /\ RenameOk /\ RenamesApart /\ LinkOk /\ TreeOk(Trees)
  BY <1>1, Parts, MemTreeDef
<1>3. TreeOk(com)'
  <2>1. TreeOk(Trees)
    BY <1>2
  <2> QED BY <1>1, <2>1 DEF TreeOk
<1>4. MemTree'
  BY <1>1, <1>2, MemTreeKept
<1>5. MemTypes'
  BY <1>1, <1>2, NamespaceConstants DEF MemTypes, cache
<1>6. CachedOk'
  BY <1>1, <1>2 DEF CachedOk, trees, cache
<1>7. RenameOk' /\ RenamesApart' /\ LinkOk'
  BY <1>1, <1>2 DEF RenameOk, RenameGood, RenamesApart, LinkOk, Renames, Links, Locked, DirHeld, trees, cache
<1> QED BY <1>3, <1>4, <1>5, <1>6, <1>7, Together

--------------------------------------------------------------------------
(* Operations that leave the names alone. *)
LEMMA LookupOk == \A k \in Key : NamesInv /\ Lookup(k) => NamesInv'
<1> SUFFICES ASSUME NEW k \in Key, NamesInv, Lookup(k) PROVE NamesInv'
  OBVIOUS
<1> DEFINE i == cat[k].ino
<1>1. /\ up = "on" /\ up' = up /\ UNCHANGED trees /\ task' = task /\ com' = com /\ commits' = commits
      /\ cat[k] # NoRec /\ i \notin cached
      /\ cached' = cached \cup {i} /\ ilink' = [ilink EXCEPT ![i] = rlink[i]]
      /\ isz' = [isz EXCEPT ![i] = rsz[i]]
      /\ IF cat[k].type = "hlink" THEN hard' = hard \cup {i} /\ ikey' = ikey
         ELSE ikey' = [ikey EXCEPT ![i] = k] /\ hard' = hard
  BY DEF Lookup
<1>2. MemTypes /\ MemTree /\ CachedOk /\ RenameOk /\ RenamesApart /\ LinkOk
  BY <1>1, Parts
<1>3. /\ i \in Ino /\ i \in bits /\ k \in AllKey /\ i # Root /\ i \in Dirs
      /\ cat[k] = IF i \in hl THEN HlinkRec(i) ELSE FileRec(i)
  BY <1>1, <1>2, NameFacts, KeyFacts
<1>4. rlink \in [Ino -> 0 .. LinkMax] /\ rsz \in [Dirs -> Nat]
  BY <1>2, MemTreeFacts
<1>5. MemTree'
  BY <1>1, <1>2, MemTreeKept
<1> HIDE DEF i
<1>6. cat[k].type = "hlink" <=> i \in hl
  BY <1>3, RecFacts
<1>7. MemTypes'
  BY <1>1, <1>2, <1>3, <1>4 DEF MemTypes
<1>8. CachedOk'
  <2>1. /\ cat' = cat /\ hl' = hl /\ bits' = bits /\ rlink' = rlink /\ rsz' = rsz
    BY <1>1 DEF trees
  <2>2. /\ ilink'[i] = rlink[i] /\ isz'[i] = rsz[i]
        /\ \A j \in Ino : j # i => ilink'[j] = ilink[j] /\ isz'[j] = isz[j] /\ ikey'[j] = ikey[j]
        /\ isz'[Root] = isz[Root] /\ (i \in hard' <=> i \in hl)
        /\ (i \notin hard' => ikey'[i] = k)
        /\ \A j \in Ino : j # i => (j \in hard' <=> j \in hard)
    BY <1>1, <1>2, <1>3, <1>6, KeyFacts DEF MemTypes
  <2> QED BY <1>1, <1>2, <1>3, <2>1, <2>2 DEF CachedOk, MemTypes
<1>9. RenameOk' /\ RenamesApart'
  <2>1. \A j \in Ino : Busy(j) => j # i /\ ilink'[j] = ilink[j]
    BY <1>1, <1>2, <1>3, BusyCached, KeyFacts DEF MemTypes
  <2> QED BY <1>1, <1>2, <2>1, TasksKept, RenamesKeep DEF trees
<1>10. LinkOk'
  <2>1. \A j \in Ino : Linking(j) => j # i
    BY <1>1, <1>2, LinkingCached
  <2>2. \A j \in Ino : j # i => ilink'[j] = ilink[j] /\ ikey'[j] = ikey[j] /\ (j \in hard => j \in hard')
    BY <1>1, <1>2 DEF MemTypes
  <2> QED BY <1>1, <1>2, <2>1, <2>2, TasksKept, LinksKeep DEF trees
<1> QED BY <1>1, <1>5, <1>7, <1>8, <1>9, <1>10, Together, ComKept

LEMMA WriteInodeOk == \A i \in Ino : NamesInv /\ WriteInode(i) => NamesInv'
<1> SUFFICES ASSUME NEW i \in Ino, NamesInv, WriteInode(i) PROVE NamesInv'
  OBVIOUS
<1>1. /\ up = "on" /\ up' = up /\ i \in cached /\ RecordFound(i)
      /\ rlink' = [rlink EXCEPT ![i] = ilink[i]] /\ rsz' = [rsz EXCEPT ![i] = isz[i]]
      /\ cat' = cat /\ hl' = hl /\ bits' = bits /\ dirs' = dirs /\ xa' = xa
      /\ cached' = cached /\ ilink' = ilink /\ isz' = isz /\ hard' = hard /\ ikey' = ikey
      /\ task' = task /\ com' = com /\ commits' = commits
  BY DEF WriteInode, cache
<1>2. MemTypes /\ MemTree /\ CachedOk /\ RenameOk /\ RenamesApart /\ LinkOk
  BY <1>1, Parts
<1>3. i \in bits
  <2>1. CASE i \in hard
    BY <2>1, <1>1, <1>2 DEF CachedOk
  <2>2. CASE i \notin hard
    <3>1. ikey[i] \in AllKey /\ cat[ikey[i]] = FileRec(i)
      BY <2>2, <1>1, <1>2, KeyFacts DEF RecordFound, MemTypes
    <3> QED BY <3>1, <1>2, MemPlaced, RecFacts
  <2> QED BY <2>1, <2>2
<1>4. rlink' = rlink /\ rsz' = rsz
  <2>1. ilink[i] = rlink[i] /\ isz[i] = rsz[i]
    BY <1>1, <1>2, <1>3 DEF CachedOk
  <2>2. rlink \in [Ino -> 0 .. LinkMax] /\ rsz \in [Dirs -> Nat] /\ i \in Dirs
    BY <1>2, MemTreeFacts, KeyFacts
  <2> QED BY <1>1, <2>1, <2>2
<1>5. MemTree'
  BY <1>1, <1>2, <1>4, MemTreeKept DEF trees
<1>6. MemTypes'
  BY <1>1, <1>2 DEF MemTypes
<1>7. CachedOk'
  BY <1>1, <1>2, <1>4 DEF CachedOk
<1>8. RenameOk' /\ RenamesApart' /\ LinkOk'
  BY <1>1, <1>2, TasksKept, RenamesKeep, LinksKeep
<1> QED BY <1>1, <1>5, <1>6, <1>7, <1>8, Together, ComKept

LEMMA CreateFailsOk ==
  \A d \in Dirs, n \in Name, i \in Ino : NamesInv /\ CreateFails(d, n, i) => NamesInv'
<1> SUFFICES ASSUME NEW d \in Dirs, NEW n \in Name, NEW i \in Ino, NamesInv, CreateFails(d, n, i)
             PROVE  NamesInv'
  OBVIOUS
<1> DEFINE k == <<d, n>>
<1>1. /\ up = "on" /\ up' = up /\ i \notin bits /\ i \notin cached
      /\ ilink' = [ilink EXCEPT ![i] = 1] /\ ikey' = [ikey EXCEPT ![i] = k]
      /\ cached' = cached \cup {i} /\ UNCHANGED trees /\ isz' = isz /\ hard' = hard
      /\ task' = task /\ com' = com /\ commits' = commits
  BY DEF CreateFails, OpenDir
<1>2. MemTypes /\ MemTree /\ CachedOk /\ RenameOk /\ RenamesApart /\ LinkOk
  BY <1>1, Parts
<1>3. k \in AllKey /\ 1 \in 0 .. LinkMax
  BY KeyFacts, NamespaceConstants
<1> HIDE DEF k
<1>4. MemTree'
  BY <1>1, <1>2, MemTreeKept
<1>5. MemTypes'
  BY <1>1, <1>2, <1>3 DEF MemTypes
<1>6. \A j \in Ino : j # i => ilink'[j] = ilink[j] /\ ikey'[j] = ikey[j]
  BY <1>1, <1>2 DEF MemTypes
<1>7. ilink'[i] = 1
  BY <1>1, <1>2 DEF MemTypes
<1>8. CachedOk'
  BY <1>1, <1>2, <1>6, <1>7 DEF CachedOk, MemTypes, trees
<1>9. RenameOk' /\ RenamesApart'
  <2>1. \A j \in Ino : Busy(j) => j # i
    BY <1>1, <1>2, BusyCached, KeyFacts
  <2> QED BY <1>1, <1>2, <1>6, <2>1, TasksKept, RenamesKeep DEF trees
<1>10. LinkOk'
  BY <1>1, <1>2, <1>6, TasksKept, LinksKeep DEF trees
<1> QED BY <1>1, <1>4, <1>5, <1>8, <1>9, <1>10, Together, ComKept

(* vdfs2_evict_inode(): the inode leaves the memory. *)
LEMMA ForgetOk ==
  ASSUME NamesInv, up = "on", NEW i \in Ino, i \in cached, ~Held(i), Forget(i),
         UNCHANGED <<up, trees, task, com, commits>>
  PROVE  NamesInv'
<1>1. /\ up' = up /\ UNCHANGED trees /\ task' = task /\ com' = com /\ commits' = commits
      /\ cached' = cached \ {i} /\ hard' = hard \ {i}
      /\ ilink' = [ilink EXCEPT ![i] = 0] /\ isz' = [isz EXCEPT ![i] = 0]
      /\ ikey' = [ikey EXCEPT ![i] = NoKey]
  BY DEF Forget
<1>2. MemTypes /\ MemTree /\ CachedOk /\ RenameOk /\ RenamesApart /\ LinkOk
  BY Parts
<1>3. MemTree'
  BY <1>1, <1>2, MemTreeKept
<1>4. MemTypes'
  BY <1>1, <1>2, NamespaceConstants, KeyFacts DEF MemTypes
<1>5. /\ \A j \in Ino : j # i => ilink'[j] = ilink[j] /\ ikey'[j] = ikey[j] /\ isz'[j] = isz[j]
      /\ isz'[i] = 0 /\ isz'[Root] = isz[Root]
  BY <1>1, <1>2, KeyFacts DEF MemTypes
<1>6. CachedOk'
  BY <1>1, <1>2, <1>5 DEF CachedOk, MemTypes, trees
<1>7. ~Busy(i) /\ ~Linking(i)
  BY DEF Held, Linking, Links
<1>8. RenameOk' /\ RenamesApart'
  BY <1>1, <1>2, <1>5, <1>7, TasksKept, RenamesKeep DEF trees
<1>9. LinkOk'
  BY <1>1, <1>2, <1>5, <1>7, TasksKept, LinksKeep DEF trees
<1> QED BY <1>1, <1>3, <1>4, <1>6, <1>8, <1>9, Together, ComKept

LEMMA EvictOk == \A i \in Ino : NamesInv /\ (Evict(i) \/ EvictGivesUp(i)) => NamesInv'
<1> SUFFICES ASSUME NEW i \in Ino, NamesInv, Evict(i) \/ EvictGivesUp(i) PROVE NamesInv'
  OBVIOUS
<1>1. /\ up = "on" /\ i \in cached /\ ~Held(i) /\ Forget(i)
      /\ UNCHANGED <<up, trees, task, com, commits>>
  BY DEF Evict, EvictGivesUp, Dying
<1> QED BY <1>1, ForgetOk

LEMMA LinkLookupOk == \A t \in Task, k \in Key : NamesInv /\ LinkLookup(t, k) => NamesInv'
<1> SUFFICES ASSUME NEW t \in Task, NEW k \in Key, NamesInv, LinkLookup(t, k) PROVE NamesInv'
  OBVIOUS
<1> DEFINE i == cat[k].ino
           r == [op |-> "link", key |-> k, ino |-> i]
<1>1. /\ up = "on" /\ up' = up /\ task[t] = Idle /\ cat[k] # NoRec /\ i \in cached
      /\ task' = [task EXCEPT ![t] = r]
      /\ UNCHANGED trees /\ UNCHANGED cache /\ com' = com /\ commits' = commits
  BY DEF LinkLookup
<1>2. MemTypes /\ MemTree /\ CachedOk /\ RenameOk /\ RenamesApart /\ LinkOk
  BY <1>1, Parts
<1>3. i \in Ino /\ i \in bits /\ (i \notin hard => ikey[i] = k)
  BY <1>1, <1>2, NameFacts
<1>4. r.op = "link" /\ r.key = k /\ r.ino = i /\ r = [op |-> "link", key |-> r.key, ino |-> r.ino]
  OBVIOUS
<1> HIDE DEF i, r
<1>5. /\ \A u \in Task : task'[u] = IF u = t THEN r ELSE task[u]
      /\ task' = [u \in Task |-> task'[u]]
  BY <1>1, <1>2 DEF MemTypes
<1>6. /\ \A u \in Task : Renames(u)' => task'[u] = task[u]
      /\ \A u \in Task : u # t /\ Links(u)' => task'[u] = task[u] /\ Links(u)
  BY <1>4, <1>5 DEF Renames, Links
<1>7. MemTree'
  BY <1>1, <1>2, MemTreeKept
<1>8. MemTypes'
  BY <1>1, <1>2, <1>3, <1>4, <1>5 DEF MemTypes, cache
<1>9. CachedOk'
  BY <1>1, <1>2 DEF CachedOk, trees, cache
<1>10. RenameOk' /\ RenamesApart'
  BY <1>1, <1>2, <1>6, RenamesKeep DEF trees, cache
<1>11. LinkOk'
  <2> SUFFICES ASSUME NEW u \in Task, Links(u)'
               PROVE  /\ task'[u] = [op |-> "link", key |-> task'[u].key, ino |-> task'[u].ino]
                      /\ task'[u].key \in Key
                      /\ task'[u].ino \in cached' \cap bits'
                      /\ task'[u].ino \notin hard' /\ ilink'[task'[u].ino] # 0
                           => task'[u].key = ikey'[task'[u].ino]
    BY DEF LinkOk
  <2>1. cached' = cached /\ bits' = bits /\ hard' = hard /\ ilink' = ilink /\ ikey' = ikey
    BY <1>1 DEF trees, cache
  <2>2. CASE u = t
    BY <1>1, <1>3, <1>4, <1>5, <2>1, <2>2
  <2>3. CASE u # t
    BY <1>2, <1>6, <2>1, <2>3 DEF LinkOk
  <2> QED BY <2>2, <2>3
<1> QED BY <1>1, <1>7, <1>8, <1>9, <1>10, <1>11, Together, ComKept

(* A task that ends and changes nothing else. *)
LEMMA GiveUpOk ==
  ASSUME NamesInv, NEW t \in Task, task' = [task EXCEPT ![t] = Idle],
         UNCHANGED <<up, trees, cache, com, commits>>
  PROVE  NamesInv'
<1>1. /\ up' = up /\ UNCHANGED trees /\ UNCHANGED cache /\ com' = com /\ commits' = commits
  OBVIOUS
<1>2. MemTypes
  BY DEF NamesInv, TypesOk
<1>3. MemTypes'
  BY <1>1, <1>2, TaskDone DEF MemTypes, cache
<1>4. CASE up = "broken"
  <2>1. TypeOK'
    BY <1>1, <1>2, <1>3 DEF NamesInv, TypesOk, TypeOK, MemTypes, trees, cache
  <2> QED BY <1>1, <1>3, <1>4, <2>1, ComKept DEF NamesInv, TypesOk, InMemory
<1>5. CASE up # "broken"
  <2>1. MemTree /\ CachedOk /\ RenameOk /\ RenamesApart /\ LinkOk
    BY <1>5, Parts
  <2>2. MemTree'
    BY <1>1, <2>1, MemTreeKept
  <2>3. CachedOk'
    BY <1>1, <2>1 DEF CachedOk, trees, cache
  <2>4. RenameOk' /\ RenamesApart'
    BY <1>1, <1>2, <2>1, TaskDone, RenamesKeep DEF trees, cache
  <2>5. LinkOk'
    BY <1>1, <1>2, <2>1, TaskDone, LinksKeep DEF trees, cache
  <2> QED BY <1>1, <1>3, <2>2, <2>3, <2>4, <2>5, Together, ComKept
<1> QED BY <1>4, <1>5

LEMMA RefusedOk == \A t \in Task : NamesInv /\ (LinkRefused(t) \/ RenameNoSpace(t)) => NamesInv'
BY GiveUpOk DEF LinkRefused, RenameNoSpace

(* From a failure after which the trees contradict each other only the     *)
(* types are kept, and what was committed.                                 *)
LEMMA LinkNoMemoryOk == \A t \in Task, k \in Key : NamesInv /\ LinkNoMemory(t, k) => NamesInv'
<1> SUFFICES ASSUME NEW t \in Task, NEW k \in Key, NamesInv, LinkNoMemory(t, k) PROVE NamesInv'
  OBVIOUS
<1>1. /\ up = "on" /\ up' = "broken" /\ task' = [task EXCEPT ![t] = Idle] /\ task[t] # Idle
      /\ hl' = hl \cup {task[t].ino} /\ cat' = cat /\ bits' = bits /\ rlink' = rlink
      /\ rsz' = rsz /\ dirs' = dirs /\ xa' = xa /\ UNCHANGED cache /\ com' = com /\ commits' = commits
  BY DEF LinkNoMemory, LinkTo, OpenDir, Broken
<1>2. MemTypes /\ TypeOK
  BY DEF NamesInv, TypesOk
<1>3. task[t].ino \in Ino
  BY <1>1, <1>2 DEF MemTypes
<1>4. MemTypes'
  BY <1>1, <1>2, TaskDone DEF MemTypes, cache
<1>5. TypeOK'
  BY <1>1, <1>2, <1>3, <1>4 DEF TypeOK, MemTypes, cache
<1> QED BY <1>1, <1>4, <1>5, ComKept DEF NamesInv, TypesOk, InMemory

LEMMA UnlinkNoSpaceOk == \A k \in Key : NamesInv /\ UnlinkNoSpace(k) => NamesInv'
<1> SUFFICES ASSUME NEW k \in Key, NamesInv, UnlinkNoSpace(k) PROVE NamesInv'
  OBVIOUS
<1> DEFINE i == cat[k].ino
<1>1. /\ up = "on" /\ cat[k] # NoRec
      /\ IF i \in hard THEN up' = up /\ ikey' = ikey
         ELSE up' = "broken" /\ ikey' = [ikey EXCEPT ![i] = OrphanKey(i)]
      /\ UNCHANGED trees /\ cached' = cached /\ ilink' = ilink /\ isz' = isz /\ hard' = hard
      /\ task' = task /\ com' = com /\ commits' = commits
  BY DEF UnlinkNoSpace, MayUnlink, OpenDir, Broken
<1>2. MemTypes /\ MemTree /\ CachedOk /\ RenameOk /\ RenamesApart /\ LinkOk
  BY <1>1, Parts
<1>3. i \in Ino
  BY <1>1, <1>2, NameFacts
<1> HIDE DEF i
<1>4. CASE i \in hard
  <2>1. MemTree'
    BY <1>1, <1>2, MemTreeKept
  <2>2. MemTypes'
    BY <1>1, <1>2, <1>4 DEF MemTypes
  <2>3. CachedOk'
    BY <1>1, <1>2, <1>4 DEF CachedOk, trees
  <2>4. RenameOk' /\ RenamesApart' /\ LinkOk'
    BY <1>1, <1>2, <1>4, TasksKept, RenamesKeep, LinksKeep DEF trees
  <2> QED BY <1>1, <2>1, <2>2, <2>3, <2>4, Together, ComKept
<1>5. CASE i \notin hard
  <2>1. OrphanKey(i) \in AllKey
    BY <1>3, KeyFacts
  <2>2. MemTypes'
    BY <1>1, <1>2, <1>3, <1>5, <2>1 DEF MemTypes
  <2>3. TypeOK'
    BY <1>1, <1>2, <1>5, <2>2 DEF NamesInv, TypesOk, TypeOK, MemTypes, trees
  <2> QED BY <1>1, <1>5, <2>2, <2>3, ComKept DEF NamesInv, TypesOk, InMemory
<1> QED BY <1>4, <1>5

(* Extended attributes. *)
LEMMA XattrStep ==
  ASSUME NamesInv, up # "broken", NEW i \in Ino, NEW s \in SUBSET Attr,
         xa' = [xa EXCEPT ![i] = s], i \in bits,
         UNCHANGED <<up, cat, hl, bits, rlink, rsz, dirs, cache, task, com, commits>>
  PROVE  NamesInv'
<1>1. /\ up' = up /\ cat' = cat /\ hl' = hl /\ bits' = bits /\ rlink' = rlink /\ rsz' = rsz
      /\ dirs' = dirs /\ cached' = cached /\ ilink' = ilink /\ isz' = isz /\ hard' = hard
      /\ ikey' = ikey /\ task' = task /\ com' = com /\ commits' = commits
  BY DEF cache
<1>2. MemTypes /\ MemTree /\ CachedOk /\ RenameOk /\ RenamesApart /\ LinkOk
  BY Parts
<1>3. xa \in [Ino -> SUBSET Attr]
  BY <1>2, MemTreeFacts
<1>4. xa' \in [Ino -> SUBSET Attr] /\ \A j \in Ino : j # i => xa'[j] = xa[j]
  BY <1>3
<1>5. MemTree'
  BY <1>1, <1>2, <1>4 DEF MemTree, TreeTypes, Attrs
<1>6. MemTypes'
  BY <1>1, <1>2 DEF MemTypes
<1>7. CachedOk'
  BY <1>1, <1>2 DEF CachedOk
<1>8. RenameOk' /\ RenamesApart' /\ LinkOk'
  BY <1>1, <1>2, TasksKept, RenamesKeep, LinksKeep
<1> QED BY <1>1, <1>5, <1>6, <1>7, <1>8, Together, ComKept

(* An inode that dies is an orphan: it has a record there, and no name. *)
LEMMA DyingFacts ==
  ASSUME NamesInv, NEW i \in Ino, Dying(i)
  PROVE  /\ up \in {"on", "mounting"} /\ i \in bits /\ i \notin hl /\ Names(cat, i) = {}
         /\ cat[OrphanKey(i)] = FileRec(i)
         /\ ~Held(i)
<1>1. up \in {"on", "mounting"}
  BY DEF Dying
<1>2. MemTypes /\ MemTree /\ CachedOk
  BY <1>1, Parts
<1>3. CASE up = "mounting" /\ cat[OrphanKey(i)] # NoRec
  <2>1. i \in bits \ hl /\ Names(cat, i) = {}
    BY <1>3, <1>2, MemPlaced
  <2>2. cat[OrphanKey(i)] = FileRec(i)
    BY <1>3, <1>2, MemTreeFacts DEF Placed
  <2>3. ~Held(i)
    BY <1>3, <1>2 DEF Held, Busy, MemTypes
  <2> QED BY <1>1, <2>1, <2>2, <2>3
<1>4. CASE up = "on" /\ i \in cached /\ ilink[i] = 0 /\ ~Held(i)
  <2>1. i \in bits
    BY <1>2, <1>4 DEF CachedOk
  <2>2. rlink[i] = 0
    BY <1>2, <1>4, <2>1 DEF CachedOk
  <2>3. Cardinality(Names(cat, i)) = 0
    BY <1>2, <2>1, <2>2 DEF MemTree, Linked
  <2>4. Names(cat, i) = {}
    BY <2>3, NamesFinite
  <2>5. i \notin hl
    BY <1>2, <2>4 DEF MemTree, Hung
  <2>6. PICK k \in AllKey : cat[k] = FileRec(i)
    BY <1>2, <2>1, <2>5, MemTreeFacts DEF Placed
  <2>7. cat[k] # NoRec /\ cat[k].ino = i
    BY <2>6, RecFacts
  <2>8. k \notin Key
    BY <2>4, <2>7 DEF Names
  <2>9. PICK j \in Ino : k = OrphanKey(j)
    BY <2>8, KeyFacts
  <2>10. cat[k] = FileRec(j)
    BY <1>2, <2>7, <2>9, MemTreeFacts DEF Placed
  <2>11. j = i
    BY <2>6, <2>10, RecFacts
  <2> QED BY <1>1, <1>4, <2>1, <2>4, <2>5, <2>6, <2>9, <2>11
<1> QED BY <1>3, <1>4 DEF Dying

LEMMA XattrOk ==
  \A i \in Ino, a \in Attr :
    NamesInv /\ (SetXattr(i, a) \/ RemoveXattr(i, a) \/ DropXattr(i, a)) => NamesInv'
<1> SUFFICES ASSUME NEW i \in Ino, NEW a \in Attr, NamesInv,
                    SetXattr(i, a) \/ RemoveXattr(i, a) \/ DropXattr(i, a)
             PROVE  NamesInv'
  OBVIOUS
<1>1. up # "broken" /\ i \in bits
  BY DyingFacts DEF SetXattr, RemoveXattr, DropXattr
<1>2. xa[i] \in SUBSET Attr
  BY <1>1, Parts, MemTreeFacts
<1>3. CASE SetXattr(i, a)
  <2>1. xa[i] \cup {a} \in SUBSET Attr /\ xa' = [xa EXCEPT ![i] = xa[i] \cup {a}]
    BY <1>2, <1>3 DEF SetXattr
  <2>2. UNCHANGED <<up, cat, hl, bits, rlink, rsz, dirs, cache, task, com, commits>>
    BY <1>3 DEF SetXattr
  <2> QED BY <1>1, <2>1, <2>2, XattrStep
<1>4. CASE RemoveXattr(i, a)
  BY <1>1, <1>2, <1>4, XattrStep DEF RemoveXattr
<1>5. CASE DropXattr(i, a)
  BY <1>1, <1>2, <1>5, XattrStep DEF DropXattr
<1> QED BY <1>3, <1>4, <1>5

--------------------------------------------------------------------------
(* vdfs2_create() *)
LEMMA CreateOk ==
  \A d \in Dirs, n \in Name, i \in Ino, isdir \in BOOLEAN, a \in SUBSET Attr :
    NamesInv /\ Create(d, n, i, isdir, a) => NamesInv'
<1> SUFFICES ASSUME NEW d \in Dirs, NEW n \in Name, NEW i \in Ino, NEW isdir \in BOOLEAN,
                    NEW a \in SUBSET Attr, NamesInv, Create(d, n, i, isdir, a)
             PROVE  NamesInv'
  OBVIOUS
<1> DEFINE k == <<d, n>>
<1>0. k \in Key /\ k \in AllKey /\ k[1] = d /\ i \in Dirs /\ i # Root
  BY KeyFacts
<1>1. /\ OpenDir(d) /\ ~Busy(d) /\ up = "on" /\ up' = up /\ cat[k] = NoRec /\ i \notin bits /\ i \notin cached
      /\ cat' = [cat EXCEPT ![k] = FileRec(i)] /\ bits' = bits \cup {i}
      /\ dirs' \subseteq dirs \cup {i} /\ dirs \subseteq dirs'
      /\ xa' = [xa EXCEPT ![i] = @ \cup a]
      /\ rlink' = [rlink EXCEPT ![i] = 1] /\ ilink' = [ilink EXCEPT ![i] = 1]
      /\ ikey' = [ikey EXCEPT ![i] = k] /\ cached' = cached \cup {i}
      /\ isz' = [isz EXCEPT ![d] = isz[d] + 1] /\ rsz' = [rsz EXCEPT ![d] = isz[d] + 1]
      /\ hl' = hl /\ hard' = hard /\ task' = task /\ com' = com /\ commits' = commits
  BY DEF Create, OpenDir, WriteDir
<1>2. MemTypes /\ MemTree /\ CachedOk /\ RenameOk /\ RenamesApart /\ LinkOk
  BY <1>1, Parts
<1> HIDE DEF k
<1>3. /\ cat \in CatType /\ hl \in SUBSET Ino /\ bits \in SUBSET Ino /\ dirs \subseteq bits
      /\ rlink \in [Ino -> 0 .. LinkMax] /\ rsz \in [Dirs -> Nat] /\ xa \in [Ino -> SUBSET Attr]
      /\ Placed(cat, hl, bits)
  BY <1>2, MemTreeFacts
<1>4. /\ d \in dirs \cup {Root} /\ isz[d] = rsz[d] /\ rsz[d] = Cardinality(Entries(cat, d))
      /\ d # Root => d \in cached /\ d \in bits /\ d \in dirs /\ Names(cat, d) # {}
      /\ isz[d] \in Nat
  BY <1>1, <1>2, DirFacts
<1>5. d # i
  BY <1>0, <1>1, <1>4
<1>6. FileRec(i) \in Rec /\ FileRec(i).ino = i
  BY RecFacts
<1>10. cat' \in CatType /\ cat'[k] = FileRec(i) /\ \A l \in AllKey : l # k => cat'[l] = cat[l]
  BY <1>6, <1>0, <1>1, <1>3 DEF CatType
<1>7. /\ Cardinality(Names(cat', i)) = Cardinality(Names(cat, i)) + 1
      /\ k \in Names(cat', i)
      /\ \A j : j # i => Names(cat', j) = Names(cat, j)
      /\ \A j : Names(cat, j) \subseteq Names(cat', j)
      /\ Cardinality(Entries(cat', d)) = Cardinality(Entries(cat, d)) + 1
      /\ \A j : j # d => Entries(cat', j) = Entries(cat, j)
  <2>1. cat \in CatType /\ k \in Key /\ cat[k] = NoRec
    BY <1>0, <1>1, <1>3
  <2>2. \A l \in Key : l # k => cat'[l] = cat[l]
    BY <1>10, KeyFacts
  <2>3. cat' \in CatType /\ cat'[k] \in Rec /\ i = cat'[k].ino /\ d = k[1]
    BY <1>0, <1>6, <1>10
  <2> QED BY ONLY <2>1, <2>2, <2>3, AddName
<1>8. /\ rsz'[d] = isz[d] + 1 /\ isz'[d] = isz[d] + 1
      /\ \A j \in Dirs : j # d => rsz'[j] = rsz[j] /\ isz'[j] = isz[j]
      /\ rsz' \in [Dirs -> Nat] /\ isz' \in [Dirs -> Nat]
  BY <1>1, <1>2, <1>3, <1>4 DEF MemTypes
<1>9. /\ rlink'[i] = 1 /\ ilink'[i] = 1 /\ ikey'[i] = k
      /\ \A j \in Ino : j # i => rlink'[j] = rlink[j] /\ ilink'[j] = ilink[j] /\ ikey'[j] = ikey[j]
                                  /\ xa'[j] = xa[j]
      /\ rlink' \in [Ino -> 0 .. LinkMax] /\ ilink' \in [Ino -> 0 .. LinkMax]
      /\ ikey' \in [Ino -> AllKey \cup {NoKey}] /\ xa' \in [Ino -> SUBSET Attr]
  BY <1>0, <1>1, <1>2, <1>3, NamespaceConstants DEF MemTypes
<1>11. MemTypes'
  BY <1>1, <1>2, <1>8, <1>9 DEF MemTypes
<1>12. MemTree'
  <2>1. TreeTypes(cat', hl', bits', rlink', rsz', dirs', xa')
    BY <1>1, <1>3, <1>10, <1>8, <1>9 DEF TreeTypes, CatType
  <2>2. Placed(cat', hl', bits')
    <3>1. i \in Ino \ bits
      BY <1>1
    <3>2. Placed(cat', hl, bits \cup {i})
      BY <1>0, <1>1, <1>3, <1>10, <3>1, PlacedNew
    <3> QED BY <1>1, <3>2
  <2>3. Hung(cat', hl')
    BY <1>1, <1>2, <1>7 DEF MemTree, Hung
  <2>4. Linked(cat', bits', rlink')
    <3>1. Names(cat, i) = {}
      BY <1>1, <1>2, MemPlaced
    <3>2. Cardinality(Names(cat, i)) = 0
      BY <3>1, FS_EmptySet
    <3>3. rlink'[i] = Cardinality(Names(cat', i))
      BY <1>7, <1>9, <3>2
    <3>4. ASSUME NEW j \in bits PROVE rlink'[j] = Cardinality(Names(cat', j))
      <4>1. j \in Ino /\ j # i /\ rlink[j] = Cardinality(Names(cat, j))
        BY <1>1, <1>2, <1>3 DEF MemTree, Linked
      <4> QED BY <4>1, <1>7, <1>9
    <3> QED BY <1>1, <3>3, <3>4 DEF Linked
  <2>5. Sized(cat', bits', rsz', dirs')
    <3>1. Entries(cat, i) = {}
      BY <1>0, <1>1, <1>2, <1>3 DEF MemTree, Rooted, Entries
    <3>2. Cardinality(Entries(cat, i)) = 0 /\ rsz[i] = 0
      BY <1>1, <1>2, <3>1, FS_EmptySet DEF MemTree, Sized
    <3>3. \A e \in dirs' \cup {Root} : rsz'[e] = Cardinality(Entries(cat', e))
      <4> TAKE e \in dirs' \cup {Root}
      <4>1. CASE e = d
        BY <4>1, <1>4, <1>7, <1>8
      <4>2. CASE e # d
        <5>1. e \in Dirs /\ rsz[e] = Cardinality(Entries(cat, e))
          BY <1>1, <1>2, <1>3, <3>2, KeyFacts DEF MemTree, Sized
        <5> QED BY <4>2, <5>1, <1>7, <1>8
      <4> QED BY <4>1, <4>2
    <3>4. \A j \in Ino \ bits' : rsz'[j] = 0
      BY <1>1, <1>2, <1>4, <1>8, KeyFacts DEF MemTree, Sized
    <3> QED BY <3>3, <3>4 DEF Sized
  <2>6. Rooted(cat', dirs')
    <3> SUFFICES ASSUME NEW l \in Key, cat'[l] # NoRec
                 PROVE  l[1] = Root \/ (l[1] \in dirs' /\ Names(cat', l[1]) # {})
      BY DEF Rooted
    <3>1. CASE l = k
      BY <3>1, <1>0, <1>1, <1>4, <1>7
    <3>2. CASE l # k
      BY <3>2, <1>1, <1>2, <1>7, <1>10, KeyFacts DEF MemTree, Rooted
    <3> QED BY <3>1, <3>2
  <2>7. Attrs(bits', xa')
    BY <1>1, <1>2, <1>9 DEF MemTree, Attrs
  <2> QED BY <2>1, <2>2, <2>3, <2>4, <2>5, <2>6, <2>7 DEF MemTree
<1>13. CachedOk'
  <2>1. rsz[i] = 0 /\ isz[i] = 0
    BY <1>1, <1>2 DEF MemTree, Sized, CachedOk
  <2>2. \A j \in cached' \cap bits' : ilink'[j] = rlink'[j] /\ isz'[j] = rsz'[j]
    BY <1>1, <1>2, <1>3, <1>4, <1>8, <1>9, <2>1, KeyFacts DEF CachedOk
  <2>3. \A j \in cached' \cap bits' : IF j \in hard' THEN j \in hl'
                                     ELSE ikey'[j] \in AllKey /\ cat'[ikey'[j]] = FileRec(j)
    <3> TAKE j \in cached' \cap bits'
    <3>1. CASE j = i
      BY <3>1, <1>0, <1>1, <1>2, <1>9, <1>10 DEF MemTypes
    <3>2. CASE j # i
      <4>1. j \in Ino /\ j \in cached \cap bits
        BY <3>2, <1>1, <1>3
      <4>2. IF j \in hard THEN j \in hl ELSE ikey[j] \in AllKey /\ cat[ikey[j]] = FileRec(j)
        BY <4>1, <1>2 DEF CachedOk
      <4> QED BY <3>2, <4>1, <4>2, <1>1, <1>9, <1>10, RecFacts
    <3> QED BY <3>1, <3>2
  <2>4. \A j \in cached' \ bits' : ilink'[j] = 1 /\ j \notin hard'
    BY <1>1, <1>2, <1>9 DEF CachedOk, MemTypes
  <2>5. \A j \in Ino : j \notin cached' \cap bits' => isz'[j] = 0
    BY <1>0, <1>1, <1>2, <1>4, <1>8, KeyFacts DEF CachedOk
  <2>6. isz'[Root] = rsz'[Root]
    BY <1>2, <1>8, KeyFacts DEF CachedOk
  <2> QED BY <2>2, <2>3, <2>4, <2>5, <2>6 DEF CachedOk
<1>14. RenameOk' /\ RenamesApart'
  <2>1. \A j \in Ino : Busy(j) => j # i
    BY <1>0, <1>1, <1>2, BusyCached
  <2>2. \A l \in Key : Busy(l[1]) => cat'[l] = cat[l]
    BY <1>0, <1>1, <1>10, KeyFacts
  <2> QED BY <1>1, <1>2, <1>9, <2>1, <2>2, TasksKept, RenamesKeep
<1>15. LinkOk'
  BY <1>1, <1>2, <1>9, TasksKept, LinksKeep
<1> QED BY <1>1, <1>11, <1>12, <1>13, <1>14, <1>15, Together, ComKept

(* vdfs2_kill_orphan_inode() *)
LEMMA KillOrphanOk == \A i \in Ino : NamesInv /\ KillOrphan(i) => NamesInv'
<1> SUFFICES ASSUME NEW i \in Ino, NamesInv, KillOrphan(i) PROVE NamesInv'
  OBVIOUS
<1> DEFINE o == OrphanKey(i)
<1>0. o \in AllKey /\ o \notin Key /\ i \in Dirs /\ i # Root
  BY KeyFacts
<1>1. /\ Dying(i) /\ up' = up /\ xa[i] = {} /\ cat' = [cat EXCEPT ![o] = NoRec]
      /\ bits' = bits \ {i} /\ dirs' = dirs \ {i}
      /\ rlink' = [rlink EXCEPT ![i] = 0] /\ rsz' = [rsz EXCEPT ![i] = 0]
      /\ cached' = cached \ {i} /\ hard' = hard \ {i}
      /\ ilink' = [ilink EXCEPT ![i] = 0] /\ isz' = [isz EXCEPT ![i] = 0]
      /\ ikey' = [ikey EXCEPT ![i] = NoKey]
      /\ hl' = hl /\ xa' = xa /\ task' = task /\ com' = com /\ commits' = commits
  BY DEF KillOrphan, Forget
<1>2. /\ up \in {"on", "mounting"} /\ i \in bits /\ i \notin hl /\ Names(cat, i) = {}
      /\ cat[o] = FileRec(i) /\ ~Held(i)
  BY <1>1, DyingFacts
<1>3. MemTypes /\ MemTree /\ CachedOk /\ RenameOk /\ RenamesApart /\ LinkOk
  BY <1>2, Parts
<1>4. /\ cat \in CatType /\ hl \in SUBSET Ino /\ bits \in SUBSET Ino /\ dirs \subseteq bits
      /\ rlink \in [Ino -> 0 .. LinkMax] /\ rsz \in [Dirs -> Nat] /\ xa \in [Ino -> SUBSET Attr]
      /\ Placed(cat, hl, bits)
  BY <1>3, MemTreeFacts
<1> HIDE DEF o
<1>6. cat'[o] = NoRec /\ cat' \in CatType /\ \A l \in AllKey : l # o => cat'[l] = cat[l]
  BY <1>0, <1>1, <1>4 DEF CatType
<1>5. Placed(cat', hl', bits')
  BY <1>1, <1>2, <1>4, <1>6, PlacedKill DEF o
<1>7. \A j : Names(cat', j) = Names(cat, j) /\ Entries(cat', j) = Entries(cat, j)
  <2>1. \A l \in Key : cat'[l] = cat[l]
    BY <1>0, <1>6, KeyFacts
  <2> QED BY <1>4, <1>6, <2>1, SameNames
<1>8. /\ rlink'[i] = 0 /\ rsz'[i] = 0 /\ isz'[i] = 0 /\ ilink'[i] = 0
      /\ \A j \in Ino : j # i => rlink'[j] = rlink[j] /\ ilink'[j] = ilink[j] /\ ikey'[j] = ikey[j]
      /\ \A j \in Dirs : j # i => rsz'[j] = rsz[j] /\ isz'[j] = isz[j]
      /\ rlink' \in [Ino -> 0 .. LinkMax] /\ ilink' \in [Ino -> 0 .. LinkMax]
      /\ rsz' \in [Dirs -> Nat] /\ isz' \in [Dirs -> Nat]
      /\ ikey' \in [Ino -> AllKey \cup {NoKey}]
  BY <1>0, <1>1, <1>3, <1>4, NamespaceConstants DEF MemTypes
<1>9. MemTypes'
  BY <1>1, <1>3, <1>8 DEF MemTypes
<1>10. MemTree'
  <2>1. TreeTypes(cat', hl', bits', rlink', rsz', dirs', xa')
    BY <1>1, <1>4, <1>6, <1>8 DEF TreeTypes, CatType
  <2>2. Hung(cat', hl') /\ Linked(cat', bits', rlink')
    BY <1>1, <1>3, <1>4, <1>7, <1>8 DEF MemTree, Hung, Linked
  <2>3. Sized(cat', bits', rsz', dirs')
    <3>1. \A e \in dirs' \cup {Root} : rsz'[e] = Cardinality(Entries(cat', e))
      <4> TAKE e \in dirs' \cup {Root}
      <4>1. e \in Dirs /\ e # i /\ rsz[e] = Cardinality(Entries(cat, e))
        BY <1>0, <1>1, <1>3, <1>4, KeyFacts DEF MemTree, Sized
      <4> QED BY <4>1, <1>7, <1>8
    <3>2. \A j \in Ino \ bits' : rsz'[j] = 0
      BY <1>1, <1>3, <1>8, KeyFacts DEF MemTree, Sized
    <3> QED BY <3>1, <3>2 DEF Sized
  <2>4. Rooted(cat', dirs')
    <3> SUFFICES ASSUME NEW l \in Key, cat'[l] # NoRec
                 PROVE  l[1] = Root \/ (l[1] \in dirs' /\ Names(cat', l[1]) # {})
      BY DEF Rooted
    <3>1. cat[l] # NoRec
      BY <1>0, <1>6, KeyFacts
    <3> QED BY <3>1, <1>1, <1>2, <1>3, <1>7 DEF MemTree, Rooted
  <2>5. Attrs(bits', xa')
    BY <1>1, <1>3 DEF MemTree, Attrs
  <2> QED BY <1>5, <2>1, <2>2, <2>3, <2>4, <2>5 DEF MemTree
<1>11. CachedOk'
  <2>1. \A j \in cached' \cap bits' : IF j \in hard' THEN j \in hl'
                                     ELSE ikey'[j] \in AllKey /\ cat'[ikey'[j]] = FileRec(j)
    <3> TAKE j \in cached' \cap bits'
    <3>1. j \in Ino /\ j # i /\ j \in cached \cap bits
      BY <1>1, <1>4
    <3>2. IF j \in hard THEN j \in hl ELSE ikey[j] \in AllKey /\ cat[ikey[j]] = FileRec(j)
      BY <3>1, <1>3 DEF CachedOk
    <3> QED BY <3>1, <3>2, <1>1, <1>2, <1>6, <1>8, RecFacts
  <2> QED BY <1>0, <1>1, <1>3, <1>4, <1>8, <2>1, KeyFacts DEF CachedOk, MemTypes
<1>12. ~Busy(i) /\ ~Linking(i)
  BY <1>2 DEF Held, Linking, Links
<1>13. RenameOk' /\ RenamesApart'
  <2>1. \A l \in Key : cat'[l] = cat[l]
    BY <1>0, <1>6, KeyFacts
  <2> QED BY <1>1, <1>3, <1>8, <1>12, <2>1, TasksKept, RenamesKeep
<1>14. LinkOk'
  BY <1>1, <1>3, <1>8, <1>12, TasksKept, LinksKeep
<1> QED BY <1>1, <1>9, <1>10, <1>11, <1>13, <1>14, Together, ComKept

--------------------------------------------------------------------------
(* The catalog once the record under key o only has the inode number. *)
Relabelled(o) == [cat EXCEPT ![o] = HlinkRec(cat[o].ino)]

(* vdfs2_link(): the old name, whose metadata may move to the hard link    *)
(* tree first.  If it is already there the inode says so.                  *)
LEMMA OldName ==
  ASSUME MemTypes, MemTree, CachedOk, LinkOk, NEW t \in Task, NEW k \in Key, LinkTo(t, k),
         MovesRecord(t) => OwnRecord(t),
         NEW i, i = task[t].ino, NEW o, o = task[t].key,
         NEW e, e = Relabelled(o)
  PROVE  /\ i \in Ino /\ i \in cached /\ i \in bits /\ o \in Key /\ o \in AllKey /\ o # k
         /\ cat[o] # NoRec /\ cat[o].ino \in Ino
         /\ e \in CatType /\ e[o] = HlinkRec(cat[o].ino) /\ e[o] # NoRec /\ e[o].ino = cat[o].ino
         /\ \A l \in AllKey : l # o => e[l] = cat[l]
         /\ e[k] = NoRec
         /\ \A j : Names(e, j) = Names(cat, j) /\ Entries(e, j) = Entries(cat, j)
         /\ Placed(e, hl \cup {i}, bits)
         /\ Names(cat, i) # {}
         /\ \A l \in AllKey : \A j \in Ino : cat[l] = FileRec(j) /\ j # i => l # o
         /\ ~MovesRecord(t) => i \in hard /\ i \in hl
         /\ ilink[i] = rlink[i] /\ rlink[i] = Cardinality(Names(cat, i))
<1>1. /\ Links(t) /\ cat[k] = NoRec /\ ilink[i] # 0 /\ cat[o] # NoRec
  BY NamespaceConstants DEF LinkTo, Links
<1>2. /\ i \in cached /\ i \in bits /\ o \in Key /\ (i \notin hard => o = ikey[i])
  BY <1>1 DEF LinkOk
<1>3. i \in Ino /\ o \in AllKey /\ o # k
  BY <1>1, <1>2, KeyFacts DEF MemTypes
<1>4. /\ cat \in CatType /\ hl \in SUBSET Ino /\ bits \in SUBSET Ino /\ Placed(cat, hl, bits)
  BY MemTreeFacts
<1>5. /\ cat[o].ino \in Ino
      /\ cat[o] = IF cat[o].ino \in hl THEN HlinkRec(cat[o].ino) ELSE FileRec(cat[o].ino)
  BY <1>1, <1>2, NameFacts
<1>6. /\ e \in CatType /\ e[o] = HlinkRec(cat[o].ino) /\ \A l \in AllKey : l # o => e[l] = cat[l]
  BY <1>3, <1>4, <1>5, RecFacts DEF CatType, Relabelled
<1>7. e[o] # NoRec /\ e[o].ino = cat[o].ino
  BY <1>5, <1>6, RecFacts
<1>8. e[k] = NoRec
  BY <1>1, <1>3, <1>6, KeyFacts
<1>9. \A j : Names(e, j) = Names(cat, j) /\ Entries(e, j) = Entries(cat, j)
  <2>1. \A l \in Key : /\ e[l] = NoRec <=> cat[l] = NoRec
                       /\ cat[l] # NoRec => e[l].ino = cat[l].ino
    BY <1>1, <1>6, <1>7, KeyFacts
  <2> QED BY <1>4, <1>6, <2>1, SameNames
<1>10. ilink[i] = rlink[i] /\ rlink[i] = Cardinality(Names(cat, i))
  BY <1>2 DEF CachedOk, MemTree, Linked
<1>11. Names(cat, i) # {}
  BY <1>1, <1>10, NamesFinite
<1>12. CASE MovesRecord(t)
  <2>1. cat[o].type = "file" /\ cat[o].ino = i
    BY <1>12 DEF MovesRecord, OwnRecord
  <2>2. cat[o] = FileRec(i)
    BY <1>3, <1>5, <2>1, RecFacts
  <2>3. Placed(e, hl \cup {i}, bits)
    <3>1. e[o] = HlinkRec(i) /\ o \in Key /\ i \in Ino
      BY <1>2, <1>3, <1>6, <2>1
    <3> QED BY <1>4, <1>6, <2>2, <3>1, PlacedToHlink
  <2>4. \A l \in AllKey : \A j \in Ino : cat[l] = FileRec(j) /\ j # i => l # o
    BY <1>3, <2>2, RecFacts
  <2> QED BY <1>1, <1>2, <1>3, <1>5, <1>6, <1>7, <1>8, <1>9, <1>10, <1>11, <1>12, <2>3, <2>4
<1>13. CASE ~MovesRecord(t)
  <2>1. cat[o].type # "file"
    BY <1>13 DEF MovesRecord
  <2>2. cat[o] = HlinkRec(cat[o].ino)
    BY <1>5, <2>1, RecFacts
  <2>3. i \in hard
    <3>1. i \notin hard => cat[o] = FileRec(i)
      BY <1>2 DEF CachedOk
    <3> QED BY <3>1, <2>1, <1>3, RecFacts
  <2>4. i \in hl
    BY <1>2, <2>3 DEF CachedOk
  <2>5. e = cat
    BY <2>2, <1>3, <1>4 DEF CatType, Relabelled
  <2>6. hl \cup {i} = hl
    BY <2>4
  <2>7. Placed(e, hl \cup {i}, bits)
    BY <1>4, <2>5, <2>6
  <2>8. \A l \in AllKey : \A j \in Ino : cat[l] = FileRec(j) /\ j # i => l # o
    BY <2>1, RecFacts
  <2> QED BY <1>1, <1>2, <1>3, <1>5, <1>6, <1>7, <1>8, <1>9, <1>10, <1>11, <2>3, <2>4, <2>7, <2>8
<1> QED BY <1>12, <1>13

LEMMA LinkOkStep == \A t \in Task, k \in Key : NamesInv /\ Link(t, k) => NamesInv'
<1> SUFFICES ASSUME NEW t \in Task, NEW k \in Key, NamesInv, Link(t, k) PROVE NamesInv'
  OBVIOUS
<1> DEFINE i == task[t].ino
           o == task[t].key
           d == k[1]
           e == Relabelled(o)
<1>0. d \in Dirs /\ k \in AllKey
  BY KeyFacts
<1>1. /\ LinkTo(t, k) /\ (MovesRecord(t) => OwnRecord(t))
      /\ OpenDir(d) /\ ~Busy(d) /\ up = "on" /\ up' = up /\ cat[k] = NoRec
      /\ ilink[i] \in 1 .. (LinkMax - 1)
      /\ IF MovesRecord(t) THEN /\ hl' = hl \cup {i} /\ hard' = hard \cup {i}
                                /\ ikey' = [ikey EXCEPT ![i] = NoKey]
                           ELSE hl' = hl /\ hard' = hard /\ ikey' = ikey
      /\ ilink' = [ilink EXCEPT ![i] = ilink[i] + 1] /\ rlink' = [rlink EXCEPT ![i] = ilink[i] + 1]
      /\ isz' = [isz EXCEPT ![d] = isz[d] + 1] /\ rsz' = [rsz EXCEPT ![d] = isz[d] + 1]
      /\ bits' = bits /\ dirs' = dirs /\ xa' = xa /\ cached' = cached /\ com' = com /\ commits' = commits
      /\ task' = [task EXCEPT ![t] = Idle]
  BY DEF Link, LinkTo, OpenDir, MoveToHlink, CountLink, WriteDir
<1>2. cat' = [e EXCEPT ![k] = HlinkRec(i)]
  BY DEF Link, Relabelled
<1>3. MemTypes /\ MemTree /\ CachedOk /\ RenameOk /\ RenamesApart /\ LinkOk
  BY <1>1, Parts
<1>31. /\ LinkTo(t, k) /\ (MovesRecord(t) => OwnRecord(t))
       /\ i = task[t].ino /\ o = task[t].key /\ e = Relabelled(o)
  BY <1>1
<1> HIDE DEF i, o, d, e
<1>4. /\ i \in Ino /\ i \in cached /\ i \in bits /\ o \in Key /\ o \in AllKey /\ o # k
      /\ cat[o] # NoRec /\ cat[o].ino \in Ino
      /\ e \in CatType /\ e[o] = HlinkRec(cat[o].ino) /\ e[o] # NoRec /\ e[o].ino = cat[o].ino
      /\ \A l \in AllKey : l # o => e[l] = cat[l]
      /\ e[k] = NoRec
      /\ \A j : Names(e, j) = Names(cat, j) /\ Entries(e, j) = Entries(cat, j)
      /\ Placed(e, hl \cup {i}, bits)
      /\ Names(cat, i) # {}
      /\ \A l \in AllKey : \A j \in Ino : cat[l] = FileRec(j) /\ j # i => l # o
      /\ ~MovesRecord(t) => i \in hard /\ i \in hl
      /\ ilink[i] = rlink[i] /\ rlink[i] = Cardinality(Names(cat, i))
  BY <1>3, <1>31, OldName
<1>5. /\ hl' = hl \cup {i} /\ hard' = hard \cup {i}
      /\ ikey' \in [Ino -> AllKey \cup {NoKey}]
      /\ \A j \in Ino : j # i => ikey'[j] = ikey[j]
  BY <1>1, <1>3, <1>4 DEF MemTypes
<1>6. /\ cat \in CatType /\ hl \in SUBSET Ino /\ bits \in SUBSET Ino /\ dirs \subseteq bits
      /\ rlink \in [Ino -> 0 .. LinkMax] /\ rsz \in [Dirs -> Nat] /\ xa \in [Ino -> SUBSET Attr]
  BY <1>3, MemTreeFacts
<1>7. /\ d \in dirs \cup {Root} /\ isz[d] = rsz[d] /\ rsz[d] = Cardinality(Entries(cat, d))
      /\ d # Root => d \in cached /\ d \in bits /\ d \in dirs /\ Names(cat, d) # {}
      /\ isz[d] \in Nat
  BY <1>0, <1>1, <1>3, DirFacts
<1>8. HlinkRec(i) \in Rec /\ HlinkRec(i).ino = i /\ HlinkRec(i) # NoRec
  BY <1>4, RecFacts
<1>9. /\ cat' \in CatType /\ cat'[k] = HlinkRec(i) /\ \A l \in AllKey : l # k => cat'[l] = e[l]
  BY <1>0, <1>2, <1>4, <1>8 DEF CatType
<1>10. /\ Cardinality(Names(cat', i)) = Cardinality(Names(cat, i)) + 1
       /\ \A j : j # i => Names(cat', j) = Names(cat, j)
       /\ \A j : Names(cat, j) \subseteq Names(cat', j)
       /\ Cardinality(Entries(cat', d)) = Cardinality(Entries(cat, d)) + 1
       /\ \A j : j # d => Entries(cat', j) = Entries(cat, j)
  <2>1. cat' \in CatType /\ cat'[k] \in Rec /\ i = cat'[k].ino /\ d = k[1] /\ e[k] = NoRec
    BY <1>4, <1>8, <1>9 DEF d
  <2>2. e \in CatType /\ \A l \in Key : l # k => cat'[l] = e[l]
    BY <1>4, <1>9, KeyFacts
  <2>3. /\ Cardinality(Names(cat', i)) = Cardinality(Names(e, i)) + 1
        /\ \A j : j # i => Names(cat', j) = Names(e, j)
        /\ \A j : Names(e, j) \subseteq Names(cat', j)
        /\ Cardinality(Entries(cat', d)) = Cardinality(Entries(e, d)) + 1
        /\ \A j : j # d => Entries(cat', j) = Entries(e, j)
    BY ONLY k \in Key, <2>1, <2>2, AddName
  <2>4. \A j : Names(e, j) = Names(cat, j) /\ Entries(e, j) = Entries(cat, j)
    BY <1>4
  <2> QED BY ONLY <2>3, <2>4
<1>11. /\ rsz'[d] = isz[d] + 1 /\ isz'[d] = isz[d] + 1
       /\ \A j \in Dirs : j # d => rsz'[j] = rsz[j] /\ isz'[j] = isz[j]
       /\ rsz' \in [Dirs -> Nat] /\ isz' \in [Dirs -> Nat]
  BY <1>0, <1>1, <1>3, <1>6, <1>7 DEF MemTypes
<1>12. /\ ilink'[i] = ilink[i] + 1 /\ rlink'[i] = ilink[i] + 1 /\ ilink'[i] # 0
       /\ \A j \in Ino : j # i => rlink'[j] = rlink[j] /\ ilink'[j] = ilink[j]
       /\ rlink' \in [Ino -> 0 .. LinkMax] /\ ilink' \in [Ino -> 0 .. LinkMax]
  BY <1>1, <1>3, <1>4, <1>6, NamespaceConstants DEF MemTypes
<1>13. MemTypes'
  BY <1>1, <1>3, <1>4, <1>5, <1>11, <1>12, TaskDone DEF MemTypes
<1>14. MemTree'
  <2>1. TreeTypes(cat', hl', bits', rlink', rsz', dirs', xa')
    BY <1>1, <1>4, <1>5, <1>6, <1>9, <1>11, <1>12 DEF TreeTypes, CatType
  <2>2. Placed(cat', hl', bits')
    <3>1. hl \cup {i} \in SUBSET Ino /\ i \in hl \cup {i}
      BY <1>4, <1>6
    <3>2. Placed(cat', hl \cup {i}, bits)
      BY <1>4, <1>6, <1>9, <3>1, PlacedAddHlink
    <3> QED BY <1>1, <1>5, <3>2
  <2>3. Hung(cat', hl')
    BY <1>3, <1>4, <1>5, <1>10 DEF MemTree, Hung
  <2>4. Linked(cat', bits', rlink')
    <3>1. rlink'[i] = Cardinality(Names(cat', i))
      BY <1>4, <1>10, <1>12
    <3>2. ASSUME NEW j \in bits, j # i PROVE rlink'[j] = Cardinality(Names(cat', j))
      <4>1. j \in Ino /\ rlink[j] = Cardinality(Names(cat, j))
        BY <1>3, <1>6 DEF MemTree, Linked
      <4> QED BY <4>1, <3>2, <1>10, <1>12
    <3> QED BY <1>1, <3>1, <3>2 DEF Linked
  <2>5. Sized(cat', bits', rsz', dirs')
    <3>1. ASSUME NEW j \in dirs \cup {Root} PROVE rsz'[j] = Cardinality(Entries(cat', j))
      <4>1. j \in Dirs /\ rsz[j] = Cardinality(Entries(cat, j))
        BY <1>3, <1>6, KeyFacts DEF MemTree, Sized
      <4>2. CASE j = d
        BY <4>2, <1>7, <1>10, <1>11
      <4>3. CASE j # d
        BY <4>3, <4>1, <1>10, <1>11
      <4> QED BY <4>2, <4>3
    <3>2. \A j \in Ino \ bits : rsz'[j] = 0
      BY <1>3, <1>7, <1>11, KeyFacts DEF MemTree, Sized
    <3> QED BY <1>1, <3>1, <3>2 DEF Sized
  <2>6. Rooted(cat', dirs')
    <3> SUFFICES ASSUME NEW l \in Key, cat'[l] # NoRec
                 PROVE  l[1] = Root \/ (l[1] \in dirs' /\ Names(cat', l[1]) # {})
      BY DEF Rooted
    <3>1. CASE l = k
      BY <3>1, <1>1, <1>7, <1>10 DEF d
    <3>2. CASE l # k
      <4>1. cat[l] # NoRec
        BY <3>2, <1>4, <1>9, KeyFacts
      <4> QED BY <4>1, <1>1, <1>3, <1>10 DEF MemTree, Rooted
    <3> QED BY <3>1, <3>2
  <2>7. Attrs(bits', xa')
    BY <1>1, <1>3 DEF MemTree, Attrs
  <2> QED BY <2>1, <2>2, <2>3, <2>4, <2>5, <2>6, <2>7 DEF MemTree
<1>15. CachedOk'
  <2>1. \A j \in cached' \cap bits' : ilink'[j] = rlink'[j] /\ isz'[j] = rsz'[j]
    BY <1>1, <1>3, <1>4, <1>6, <1>11, <1>12, KeyFacts DEF CachedOk
  <2>2. \A j \in cached' \cap bits' : IF j \in hard' THEN j \in hl'
                                     ELSE ikey'[j] \in AllKey /\ cat'[ikey'[j]] = FileRec(j)
    <3> TAKE j \in cached' \cap bits'
    <3>1. CASE j = i
      BY <3>1, <1>5
    <3>2. CASE j # i
      <4>1. j \in Ino /\ j \in cached \cap bits
        BY <1>1, <1>6
      <4>2. IF j \in hard THEN j \in hl ELSE ikey[j] \in AllKey /\ cat[ikey[j]] = FileRec(j)
        BY <4>1, <1>3 DEF CachedOk
      <4>3. CASE j \in hard
        BY <4>2, <4>3, <1>5
      <4>4. CASE j \notin hard
        <5>1. ikey'[j] = ikey[j] /\ ikey[j] \in AllKey /\ cat[ikey[j]] = FileRec(j)
          BY <3>2, <4>1, <4>2, <4>4, <1>5
        <5>2. ikey[j] # o /\ ikey[j] # k
          BY <3>2, <4>1, <5>1, <1>1, <1>4, RecFacts
        <5>3. cat'[ikey[j]] = FileRec(j)
          BY <5>1, <5>2, <1>4, <1>9
        <5> QED BY <3>2, <4>4, <5>1, <5>3, <1>5
      <4> QED BY <4>3, <4>4
    <3> QED BY <3>1, <3>2
  <2>3. \A j \in cached' \ bits' : ilink'[j] = 1 /\ j \notin hard'
    BY <1>1, <1>3, <1>4, <1>5, <1>12 DEF CachedOk, MemTypes
  <2>4. \A j \in Ino : j \notin cached' \cap bits' => isz'[j] = 0
    BY <1>1, <1>3, <1>7, <1>11, KeyFacts DEF CachedOk
  <2>5. isz'[Root] = rsz'[Root]
    BY <1>3, <1>11, KeyFacts DEF CachedOk
  <2> QED BY <2>1, <2>2, <2>3, <2>4, <2>5 DEF CachedOk
<1>16. RenameOk' /\ RenamesApart'
  <2>1. \A l \in Key : Busy(l[1]) => /\ cat'[l] = NoRec <=> cat[l] = NoRec
                                     /\ cat[l] # NoRec => cat'[l].ino = cat[l].ino
    BY <1>1, <1>4, <1>9, KeyFacts DEF d
  <2>2. \A j \in Ino : ilink[j] # 0 => ilink'[j] # 0
    BY <1>12
  <2> QED BY <1>1, <1>3, <2>1, <2>2, TaskDone, RenamesKeep
<1>17. LinkOk'
  BY <1>1, <1>3, <1>5, <1>12, TaskDone, LinksKeep
<1> QED BY <1>1, <1>13, <1>14, <1>15, <1>16, <1>17, Together, ComKept

(* The metadata moved, but the new name was not added. *)
LEMMA LinkNoSpaceOk == \A t \in Task, k \in Key : NamesInv /\ LinkNoSpace(t, k) => NamesInv'
<1> SUFFICES ASSUME NEW t \in Task, NEW k \in Key, NamesInv, LinkNoSpace(t, k) PROVE NamesInv'
  OBVIOUS
<1> DEFINE i == task[t].ino
           o == task[t].key
           e == Relabelled(o)
<1>1. /\ LinkTo(t, k) /\ MovesRecord(t) /\ OwnRecord(t) /\ up = "on" /\ up' = up
      /\ hl' = hl \cup {i} /\ hard' = hard \cup {i} /\ ikey' = [ikey EXCEPT ![i] = NoKey]
      /\ ilink' = ilink /\ rlink' = rlink /\ isz' = isz /\ rsz' = rsz
      /\ bits' = bits /\ dirs' = dirs /\ xa' = xa /\ cached' = cached /\ com' = com /\ commits' = commits
      /\ task' = [task EXCEPT ![t] = Idle]
  BY DEF LinkNoSpace, LinkTo, OpenDir, MoveToHlink
<1>2. cat' = e
  BY DEF LinkNoSpace, Relabelled, OwnRecord
<1>3. MemTypes /\ MemTree /\ CachedOk /\ RenameOk /\ RenamesApart /\ LinkOk
  BY <1>1, Parts
<1>4. /\ LinkTo(t, k) /\ (MovesRecord(t) => OwnRecord(t))
      /\ i = task[t].ino /\ o = task[t].key /\ e = Relabelled(o)
  BY <1>1
<1> HIDE DEF i, o, e
<1>5. /\ i \in Ino /\ i \in cached /\ i \in bits /\ o \in Key /\ o \in AllKey
      /\ cat[o] # NoRec
      /\ e \in CatType /\ e[o] # NoRec /\ e[o].ino = cat[o].ino
      /\ \A l \in AllKey : l # o => e[l] = cat[l]
      /\ \A j : Names(e, j) = Names(cat, j) /\ Entries(e, j) = Entries(cat, j)
      /\ Placed(e, hl \cup {i}, bits)
      /\ Names(cat, i) # {}
      /\ \A l \in AllKey : \A j \in Ino : cat[l] = FileRec(j) /\ j # i => l # o
  BY <1>3, <1>4, OldName
<1>6. /\ ikey' \in [Ino -> AllKey \cup {NoKey}] /\ \A j \in Ino : j # i => ikey'[j] = ikey[j]
  BY <1>1, <1>3, <1>5 DEF MemTypes
<1>7. /\ bits \in SUBSET Ino /\ dirs \subseteq bits /\ hl \in SUBSET Ino
  BY <1>3, MemTreeFacts
<1>8. MemTypes'
  BY <1>1, <1>3, <1>5, <1>6, TaskDone DEF MemTypes
<1>9. MemTree'
  <2>1. TreeTypes(cat', hl', bits', rlink', rsz', dirs', xa')
    BY <1>1, <1>2, <1>3, <1>5, <1>7 DEF MemTree, TreeTypes, CatType
  <2>2. Placed(cat', hl', bits')
    BY <1>1, <1>2, <1>5
  <2>3. Hung(cat', hl')
    BY <1>1, <1>2, <1>3, <1>5 DEF MemTree, Hung
  <2>4. Linked(cat', bits', rlink')
    BY <1>1, <1>2, <1>3, <1>5 DEF MemTree, Linked
  <2>5. Sized(cat', bits', rsz', dirs')
    BY <1>1, <1>2, <1>3, <1>5 DEF MemTree, Sized
  <2>6. Rooted(cat', dirs')
    <3> SUFFICES ASSUME NEW l \in Key, cat'[l] # NoRec
                 PROVE  l[1] = Root \/ (l[1] \in dirs' /\ Names(cat', l[1]) # {})
      BY DEF Rooted
    <3>1. cat[l] # NoRec
      BY <1>2, <1>5, KeyFacts
    <3> QED BY <3>1, <1>1, <1>2, <1>3, <1>5 DEF MemTree, Rooted
  <2>7. Attrs(bits', xa')
    BY <1>1, <1>3 DEF MemTree, Attrs
  <2> QED BY <2>1, <2>2, <2>3, <2>4, <2>5, <2>6, <2>7 DEF MemTree
<1>10. CachedOk'
  <2>1. \A j \in cached' \cap bits' : IF j \in hard' THEN j \in hl'
                                     ELSE ikey'[j] \in AllKey /\ cat'[ikey'[j]] = FileRec(j)
    <3> TAKE j \in cached' \cap bits'
    <3>1. CASE j = i
      BY <3>1, <1>1
    <3>2. CASE j # i
      <4>1. j \in Ino /\ j \in cached \cap bits
        BY <1>1, <1>7
      <4>2. IF j \in hard THEN j \in hl ELSE ikey[j] \in AllKey /\ cat[ikey[j]] = FileRec(j)
        BY <4>1, <1>3 DEF CachedOk
      <4> QED BY <3>2, <4>1, <4>2, <1>1, <1>2, <1>5, <1>6
    <3> QED BY <3>1, <3>2
  <2>2. \A j \in cached' \ bits' : ilink'[j] = 1 /\ j \notin hard'
    BY <1>1, <1>3, <1>5 DEF CachedOk
  <2> QED BY <1>1, <1>3, <2>1, <2>2 DEF CachedOk
<1>11. RenameOk' /\ RenamesApart'
  <2>1. \A l \in Key : /\ cat'[l] = NoRec <=> cat[l] = NoRec
                       /\ cat[l] # NoRec => cat'[l].ino = cat[l].ino
    BY <1>2, <1>5, KeyFacts
  <2> QED BY <1>1, <1>3, <2>1, TaskDone, RenamesKeep
<1>12. LinkOk'
  BY <1>1, <1>3, <1>6, TaskDone, LinksKeep
<1> QED BY <1>1, <1>8, <1>9, <1>10, <1>11, <1>12, Together, ComKept

LEMMA LinkStaleOk == \A t \in Task, k \in Key : NamesInv /\ LinkStale(t, k) => NamesInv'
<1> SUFFICES ASSUME NEW t \in Task, NEW k \in Key, NamesInv, LinkStale(t, k) PROVE NamesInv'
  OBVIOUS
<1> DEFINE i == task[t].ino
           o == task[t].key
           d == k[1]
           h == cat[o].ino
<1>0. d \in Dirs /\ k \in AllKey
  BY KeyFacts
<1>1. /\ Links(t) /\ up = "on" /\ up' = "broken" /\ ilink[i] \in 1 .. (LinkMax - 1) /\ cat[o] # NoRec
      /\ hl' = hl \cup {h} /\ hard' = hard \cup {i} /\ ikey' = [ikey EXCEPT ![i] = NoKey]
      /\ cat' = [cat EXCEPT ![o] = HlinkRec(i), ![k] = HlinkRec(i)]
      /\ ilink' = [ilink EXCEPT ![i] = ilink[i] + 1] /\ rlink' = [rlink EXCEPT ![i] = ilink[i] + 1]
      /\ isz' = [isz EXCEPT ![d] = isz[d] + 1] /\ rsz' = [rsz EXCEPT ![d] = isz[d] + 1]
      /\ bits' = bits /\ dirs' = dirs /\ xa' = xa /\ cached' = cached /\ com' = com /\ commits' = commits
      /\ task' = [task EXCEPT ![t] = Idle]
  BY DEF LinkStale, LinkTo, Links, OpenDir, CountLink, WriteDir, Broken
<1>2. MemTypes /\ MemTree /\ CachedOk /\ LinkOk /\ TypeOK
  BY <1>1, Parts DEF NamesInv, TypesOk
<1>3. /\ i \in cached /\ i \in Ino /\ o \in Key /\ o \in AllKey
  BY <1>1, <1>2, KeyFacts DEF LinkOk, MemTypes
<1>4. h \in Ino
  BY <1>1, <1>2, <1>3, NameFacts
<1> HIDE DEF i, o, d, h
<1>5. cat' \in [AllKey -> Rec \cup {NoRec}]
  BY <1>0, <1>1, <1>2, <1>3, RecFacts DEF TypeOK
<1>6. rlink' \in [Ino -> 0 .. LinkMax] /\ ilink' \in [Ino -> 0 .. LinkMax]
  BY <1>1, <1>2, <1>3, NamespaceConstants DEF TypeOK
<1>7. rsz' \in [Dirs -> Nat] /\ isz' \in [Dirs -> Nat]
  BY <1>0, <1>1, <1>2 DEF TypeOK
<1>8. ikey' \in [Ino -> AllKey \cup {NoKey}]
  BY <1>1, <1>2 DEF TypeOK
<1>9. MemTypes'
  BY <1>1, <1>2, <1>3, <1>6, <1>7, <1>8, TaskDone DEF MemTypes
<1>10. TypeOK'
  BY <1>1, <1>2, <1>4, <1>5, <1>6, <1>7, <1>9 DEF TypeOK, MemTypes
<1> QED BY <1>1, <1>9, <1>10, ComKept DEF NamesInv, TypesOk, InMemory

--------------------------------------------------------------------------
(* vdfs2_unlink(), vdfs2_rmdir(): nothing is in what they remove. *)
LEMMA NothingInside ==
  ASSUME MemTypes, MemTree, CachedOk, NEW k \in Key, MayUnlink(k), NEW l \in Key, cat[l] # NoRec
  PROVE  l[1] # cat[k].ino
<1> DEFINE i == cat[k].ino
<1> SUFFICES ASSUME l[1] = i PROVE FALSE
  OBVIOUS
<1>1. cat[k] # NoRec /\ i \in cached /\ (i \in dirs => isz[i] = 0)
  BY DEF MayUnlink
<1>2. i \in Ino /\ isz[i] = rsz[i]
  BY <1>1, NameFacts
<1>3. i \in dirs
  BY <1>2, KeyFacts DEF MemTree, Rooted
<1>4. Cardinality(Entries(cat, i)) = 0
  BY <1>1, <1>2, <1>3 DEF MemTree, Sized
<1>5. Entries(cat, i) = {}
  BY <1>4, NamesFinite
<1> QED BY <1>5 DEF Entries

(* What the removal of a name does to the trees and to the inodes.  It     *)
(* leaves the tasks alone.                                                 *)
LEMMA UnlinkStep ==
  ASSUME NamesInv, NEW k \in Key, UnlinkName(k), NEW i, i = cat[k].ino
  PROVE  /\ up = "on" /\ up' = up /\ com' = com /\ commits' = commits /\ bits' = bits
         /\ cached' = cached /\ dirs' = dirs /\ hard' \subseteq cached'
         /\ ilink' \in [Ino -> 0 .. LinkMax] /\ isz' \in [Dirs -> Nat]
         /\ ikey' \in [Ino -> AllKey \cup {NoKey}]
         /\ i \in Ino /\ cat[k] # NoRec /\ ~Busy(i) /\ ~Busy(k[1])
         /\ cat'[k] = NoRec /\ \A l \in Key : l # k => cat'[l] = cat[l]
         /\ \A j \in Ino : j # i => ilink'[j] = ilink[j] /\ ikey'[j] = ikey[j] /\ (j \in hard' <=> j \in hard)
         /\ ilink'[i] # 0 => i \in hard'
         /\ MemTree' /\ CachedOk'
<1> DEFINE d == k[1]
           o == OrphanKey(i)
<1>0. d \in Dirs /\ k \in AllKey
  BY KeyFacts
<1>1. /\ MayUnlink(k) /\ OpenDir(d) /\ ~Busy(d) /\ up = "on" /\ up' = up /\ cat[k] # NoRec
      /\ i \in cached /\ ~Busy(i) /\ (ilink[i] > 1 => i \in hard)
      /\ ilink' = [ilink EXCEPT ![i] = ilink[i] - 1] /\ rlink' = [rlink EXCEPT ![i] = ilink[i] - 1]
      /\ isz' = [isz EXCEPT ![d] = Less(isz[d])] /\ rsz' = [rsz EXCEPT ![d] = Less(isz[d])]
      /\ bits' = bits /\ dirs' = dirs /\ xa' = xa /\ cached' = cached /\ com' = com /\ commits' = commits
  BY DEF UnlinkName, MayUnlink, DropName, WriteDir, OpenDir
<1>2. IF ilink[i] > 1
        THEN cat' = [cat EXCEPT ![k] = NoRec] /\ hl' = hl /\ hard' = hard /\ ikey' = ikey
        ELSE /\ cat' = [cat EXCEPT ![k] = NoRec, ![o] = FileRec(i)]
             /\ hl' = IF i \in hard THEN hl \ {i} ELSE hl
             /\ hard' = hard \ {i} /\ ikey' = [ikey EXCEPT ![i] = o]
  BY DEF UnlinkName, DropName
<1>3. MemTypes /\ MemTree /\ CachedOk
  BY <1>1, Parts
<1>4. /\ cat \in CatType /\ hl \in SUBSET Ino /\ bits \in SUBSET Ino /\ dirs \subseteq bits
      /\ rlink \in [Ino -> 0 .. LinkMax] /\ rsz \in [Dirs -> Nat] /\ xa \in [Ino -> SUBSET Attr]
      /\ Placed(cat, hl, bits)
  BY <1>3, MemTreeFacts
<1>5. /\ i \in Ino /\ i \in bits /\ rlink[i] = Cardinality(Names(cat, i)) /\ rlink[i] > 0
      /\ cat[k] = IF i \in hl THEN HlinkRec(i) ELSE FileRec(i)
      /\ cat[o] = NoRec /\ (i \in hard <=> i \in hl) /\ ilink[i] = rlink[i]
      /\ k \in Names(cat, i)
  BY <1>1, <1>3, NameFacts
<1>6. o \in AllKey /\ o \notin Key /\ o # k /\ FileRec(i) \in Rec /\ FileRec(i) # NoRec
  BY <1>5, KeyFacts, RecFacts
<1>7. /\ d \in dirs \cup {Root} /\ isz[d] = rsz[d] /\ rsz[d] = Cardinality(Entries(cat, d))
      /\ d # Root => d \in cached /\ d \in bits
      /\ isz[d] \in Nat
  BY <1>0, <1>1, <1>3, DirFacts
<1> HIDE DEF d, o
<1>8. /\ cat' \in CatType /\ cat'[k] = NoRec /\ \A l \in AllKey : l # k /\ l # o => cat'[l] = cat[l]
      /\ ilink[i] > 1 => cat'[o] = NoRec
      /\ ~(ilink[i] > 1) => cat'[o] = FileRec(i)
  <2>1. CASE ilink[i] > 1
    BY <2>1, <1>0, <1>2, <1>4, <1>5, <1>6 DEF CatType
  <2>2. CASE ~(ilink[i] > 1)
    BY <2>2, <1>0, <1>2, <1>4, <1>5, <1>6 DEF CatType
  <2> QED BY <2>1, <2>2
<1>9. \A l \in Key : l # k => cat'[l] = cat[l]
  BY <1>6, <1>8, KeyFacts
<1>10. /\ Names(cat', i) = Names(cat, i) \ {k}
       /\ Cardinality(Names(cat', i)) = Cardinality(Names(cat, i)) - 1
       /\ \A j : j # i => Names(cat', j) = Names(cat, j)
       /\ Cardinality(Entries(cat', d)) = Cardinality(Entries(cat, d)) - 1
       /\ Cardinality(Entries(cat, d)) > 0
       /\ \A j : j # d => Entries(cat', j) = Entries(cat, j)
  <2>1. cat \in CatType /\ cat' \in CatType /\ cat[k] # NoRec /\ cat'[k] = NoRec /\ d = k[1]
    BY <1>1, <1>4, <1>8 DEF d
  <2> QED BY ONLY k \in Key, i = cat[k].ino, <1>9, <2>1, DelName
<1>11. /\ ilink[i] \in Nat /\ ilink[i] > 0 /\ ilink'[i] = ilink[i] - 1 /\ rlink'[i] = ilink[i] - 1
       /\ \A j \in Ino : j # i => rlink'[j] = rlink[j] /\ ilink'[j] = ilink[j]
       /\ rlink' \in [Ino -> 0 .. LinkMax] /\ ilink' \in [Ino -> 0 .. LinkMax]
  <2>1. ilink[i] \in 1 .. LinkMax
    BY <1>4, <1>5, NamespaceConstants
  <2>2. ilink[i] - 1 \in 0 .. LinkMax
    BY <2>1, NamespaceConstants
  <2> QED BY <2>1, <2>2, <1>1, <1>3, <1>4, <1>5 DEF MemTypes
<1>12. /\ rsz'[d] = isz[d] - 1 /\ isz'[d] = isz[d] - 1
       /\ \A j \in Dirs : j # d => rsz'[j] = rsz[j] /\ isz'[j] = isz[j]
       /\ rsz' \in [Dirs -> Nat] /\ isz' \in [Dirs -> Nat]
  <2>1. Less(isz[d]) = isz[d] - 1 /\ isz[d] - 1 \in Nat
    BY <1>7, <1>10 DEF Less
  <2> QED BY <2>1, <1>0, <1>1, <1>3, <1>4 DEF MemTypes
<1>13. /\ ikey' \in [Ino -> AllKey \cup {NoKey}] /\ \A j \in Ino : j # i => ikey'[j] = ikey[j]
       /\ \A j \in Ino : j # i => (j \in hard' <=> j \in hard) /\ (j \in hl' <=> j \in hl)
       /\ hard' \subseteq cached' /\ hl' \subseteq hl
       /\ ilink[i] > 1 => i \in hard' /\ i \in hl' /\ i \in hard /\ hl' = hl
       /\ ~(ilink[i] > 1) => i \notin hard' /\ i \notin hl' /\ ikey'[i] = o /\ hl' = hl \ {i}
  <2>1. CASE ilink[i] > 1
    BY <2>1, <1>1, <1>2, <1>3, <1>5 DEF MemTypes
  <2>2. CASE ~(ilink[i] > 1)
    BY <2>2, <1>1, <1>2, <1>3, <1>5, <1>6 DEF MemTypes
  <2> QED BY <2>1, <2>2
<1>14. Placed(cat', hl', bits')
  <2>1. CASE ilink[i] > 1
    <3>1. cat[k] = HlinkRec(i)
      BY <2>1, <1>1, <1>5
    <3>2. cat' \in CatType /\ cat'[k] = NoRec /\ \A m \in AllKey : m # k => cat'[m] = cat[m]
      BY <2>1, <1>5, <1>8
    <3>3. Placed(cat', hl, bits)
      BY <1>4, <1>5, <3>1, <3>2, PlacedDelHlink
    <3> QED BY <2>1, <3>3, <1>1, <1>13
  <2>2. CASE ~(ilink[i] > 1) /\ i \in hl
    <3>0. i \in Ino
      BY <1>5
    <3>1. cat[k] = HlinkRec(i)
      BY <2>2, <1>5
    <3>2. \A m \in Names(cat, i) : m = k
      <4>1. Cardinality(Names(cat, i)) = 1
        BY <2>2, <1>5, <1>11
      <4>2. \E x : Names(cat, i) = {x}
        BY <4>1, NamesFinite, FS_Singleton
      <4> QED BY <4>2, <1>5
    <3>3. /\ cat' \in CatType /\ cat'[k] = NoRec /\ cat'[OrphanKey(i)] = FileRec(i)
          /\ \A m \in AllKey : m # k /\ m # OrphanKey(i) => cat'[m] = cat[m]
      BY <2>2, <1>8 DEF o
    <3>4. Placed(cat', hl \ {i}, bits)
      BY ONLY k \in Key, <1>4, <3>0, <3>1, <3>2, <3>3, PlacedHlinkOrphan
    <3> QED BY <2>2, <3>4, <1>1, <1>13
  <2>3. CASE ~(ilink[i] > 1) /\ i \notin hl
    <3>0. i \in Ino
      BY <1>5
    <3>1. cat[k] = FileRec(i)
      BY <2>3, <1>5
    <3>2. /\ cat' \in CatType /\ cat'[k] = NoRec /\ cat'[o] = FileRec(i)
          /\ \A m \in AllKey : m # k /\ m # o => cat'[m] = cat[m]
          /\ o \in AllKey /\ o # k /\ o = OrphanKey(i) /\ cat[o] = NoRec
      BY <2>3, <1>5, <1>6, <1>8 DEF o
    <3>3. Placed(cat', hl, bits)
      BY ONLY k \in Key, <1>4, <3>0, <3>1, <3>2, PlacedMove
    <3>4. hl' = hl
      BY <2>3, <1>13
    <3> QED BY <3>3, <3>4, <1>1
  <2> QED BY <2>1, <2>2, <2>3
<1>15. MemTree'
  <2>1. TreeTypes(cat', hl', bits', rlink', rsz', dirs', xa')
    BY <1>1, <1>4, <1>8, <1>11, <1>12, <1>13 DEF TreeTypes, CatType
  <2>2. Linked(cat', bits', rlink')
    <3>1. rlink'[i] = Cardinality(Names(cat', i))
      BY <1>5, <1>10, <1>11
    <3>2. ASSUME NEW j \in bits, j # i PROVE rlink'[j] = Cardinality(Names(cat', j))
      <4>1. j \in Ino /\ rlink[j] = Cardinality(Names(cat, j))
        BY <1>3, <1>4 DEF MemTree, Linked
      <4> QED BY <4>1, <3>2, <1>10, <1>11
    <3> QED BY <1>1, <3>1, <3>2 DEF Linked
  <2>3. Hung(cat', hl')
    <3> SUFFICES ASSUME NEW j \in hl' PROVE Names(cat', j) # {}
      BY DEF Hung
    <3>1. CASE j = i
      <4>1. Cardinality(Names(cat', i)) # 0
        BY <3>1, <1>5, <1>10, <1>11, <1>13
      <4> QED BY <3>1, <4>1, NamesFinite
    <3>2. CASE j # i
      BY <3>2, <1>3, <1>10, <1>13 DEF MemTree, Hung
    <3> QED BY <3>1, <3>2
  <2>4. Sized(cat', bits', rsz', dirs')
    <3>1. ASSUME NEW j \in dirs \cup {Root} PROVE rsz'[j] = Cardinality(Entries(cat', j))
      <4>1. j \in Dirs /\ rsz[j] = Cardinality(Entries(cat, j))
        BY <1>3, <1>4, KeyFacts DEF MemTree, Sized
      <4>2. CASE j = d
        BY <4>2, <1>7, <1>10, <1>12
      <4>3. CASE j # d
        BY <4>3, <4>1, <1>10, <1>12
      <4> QED BY <4>2, <4>3
    <3>2. \A j \in Ino \ bits : rsz'[j] = 0
      BY <1>3, <1>7, <1>12, KeyFacts DEF MemTree, Sized
    <3> QED BY <1>1, <3>1, <3>2 DEF Sized
  <2>5. Rooted(cat', dirs')
    <3> SUFFICES ASSUME NEW l \in Key, cat'[l] # NoRec
                 PROVE  l[1] = Root \/ (l[1] \in dirs' /\ Names(cat', l[1]) # {})
      BY DEF Rooted
    <3>1. cat[l] # NoRec
      BY <1>8, <1>9
    <3>2. l[1] # i
      BY <3>1, <1>1, <1>3, NothingInside
    <3>3. l[1] = Root \/ (l[1] \in dirs /\ Names(cat, l[1]) # {})
      BY <3>1, <1>3 DEF MemTree, Rooted
    <3> QED BY <3>2, <3>3, <1>1, <1>10
  <2>6. Attrs(bits', xa')
    BY <1>1, <1>3 DEF MemTree, Attrs
  <2> QED BY <1>14, <2>1, <2>2, <2>3, <2>4, <2>5, <2>6 DEF MemTree
<1>16. CachedOk'
  <2>1. \A j \in cached' \cap bits' : ilink'[j] = rlink'[j] /\ isz'[j] = rsz'[j]
    BY <1>1, <1>3, <1>4, <1>11, <1>12, KeyFacts DEF CachedOk
  <2>2. \A j \in cached' \cap bits' : IF j \in hard' THEN j \in hl'
                                     ELSE ikey'[j] \in AllKey /\ cat'[ikey'[j]] = FileRec(j)
    <3> TAKE j \in cached' \cap bits'
    <3>1. CASE j = i
      BY <3>1, <1>6, <1>8, <1>13
    <3>2. CASE j # i
      <4>1. j \in Ino /\ j \in cached \cap bits
        BY <1>1, <1>4
      <4>2. IF j \in hard THEN j \in hl ELSE ikey[j] \in AllKey /\ cat[ikey[j]] = FileRec(j)
        BY <4>1, <1>3 DEF CachedOk
      <4>3. CASE j \in hard
        BY <3>2, <4>1, <4>2, <4>3, <1>13
      <4>4. CASE j \notin hard
        <5>1. ikey'[j] = ikey[j] /\ ikey[j] \in AllKey /\ cat[ikey[j]] = FileRec(j)
          BY <3>2, <4>1, <4>2, <4>4, <1>13
        <5>2. FileRec(j).ino = j /\ FileRec(j) # NoRec
          BY <4>1, RecFacts
        <5>3. ikey[j] # k /\ ikey[j] # o
          BY <3>2, <5>1, <5>2, <1>5
        <5>4. cat'[ikey[j]] = FileRec(j)
          BY <5>1, <5>3, <1>8
        <5> QED BY <3>2, <4>1, <4>4, <5>1, <5>4, <1>13
      <4> QED BY <4>3, <4>4
    <3> QED BY <3>1, <3>2
  <2>3. \A j \in cached' \ bits' : ilink'[j] = 1 /\ j \notin hard'
    BY <1>1, <1>3, <1>5, <1>11, <1>13 DEF CachedOk, MemTypes
  <2>4. \A j \in Ino : j \notin cached' \cap bits' => isz'[j] = 0
    BY <1>1, <1>3, <1>7, <1>12, KeyFacts DEF CachedOk
  <2>5. isz'[Root] = rsz'[Root]
    BY <1>3, <1>12, KeyFacts DEF CachedOk
  <2> QED BY <2>1, <2>2, <2>3, <2>4, <2>5 DEF CachedOk
<1>17. ilink'[i] # 0 => i \in hard'
  BY <1>11, <1>13
<1> QED BY <1>1, <1>5, <1>8, <1>9, <1>11, <1>12, <1>13, <1>15, <1>16, <1>17 DEF d

LEMMA UnlinkOk == \A k \in Key : NamesInv /\ Unlink(k) => NamesInv'
<1> SUFFICES ASSUME NEW k \in Key, NamesInv, Unlink(k) PROVE NamesInv'
  OBVIOUS
<1> DEFINE i == cat[k].ino
<1>1. UnlinkName(k) /\ task' = task /\ i = cat[k].ino
  BY DEF Unlink
<1> HIDE DEF i
<1>2. /\ up = "on" /\ up' = up /\ com' = com /\ commits' = commits /\ bits' = bits
      /\ cached' = cached /\ dirs' = dirs /\ hard' \subseteq cached'
      /\ ilink' \in [Ino -> 0 .. LinkMax] /\ isz' \in [Dirs -> Nat]
      /\ ikey' \in [Ino -> AllKey \cup {NoKey}]
      /\ i \in Ino /\ cat[k] # NoRec /\ ~Busy(i) /\ ~Busy(k[1])
      /\ cat'[k] = NoRec /\ \A l \in Key : l # k => cat'[l] = cat[l]
      /\ \A j \in Ino : j # i => ilink'[j] = ilink[j] /\ ikey'[j] = ikey[j] /\ (j \in hard' <=> j \in hard)
      /\ ilink'[i] # 0 => i \in hard'
      /\ MemTree' /\ CachedOk'
  BY <1>1, UnlinkStep
<1>3. MemTypes /\ RenameOk /\ RenamesApart /\ LinkOk
  BY <1>2, Parts
<1>4. MemTypes'
  BY <1>1, <1>2, <1>3 DEF MemTypes
<1>5. RenameOk' /\ RenamesApart'
  <2>1. \A l \in Key : Busy(l[1]) => cat'[l] = cat[l]
    BY <1>2
  <2>2. \A j \in Ino : Busy(j) => ilink'[j] = ilink[j]
    BY <1>2
  <2> QED BY <1>1, <1>2, <1>3, <2>1, <2>2, TasksKept, RenamesKeep
<1>6. LinkOk'
  BY <1>1, <1>2, <1>3, TasksKept, LinksKeep
<1> QED BY <1>2, <1>4, <1>5, <1>6, Together, ComKept

--------------------------------------------------------------------------
(* vdfs2_rename(): what the move of a name does to the trees and to the    *)
(* inodes.                                                                 *)
LEMMA MoveStep ==
  ASSUME NamesInv, up = "on", NEW from \in Key, NEW to \in Key, MoveName(from, to),
         cat[from] # NoRec, cat[to] = NoRec, NEW i, i = cat[from].ino, i \in cached,
         DirHeld(from[1]), DirHeld(to[1])
  PROVE  /\ up' = up /\ com' = com /\ commits' = commits /\ bits' = bits
         /\ cached' = cached /\ dirs' = dirs /\ hard' = hard /\ ilink' = ilink
         /\ isz' \in [Dirs -> Nat] /\ ikey' \in [Ino -> AllKey \cup {NoKey}]
         /\ i \in Ino /\ i \in bits /\ ilink[i] # 0
         /\ cat'[from] = NoRec /\ \A l \in Key : l # from /\ l # to => cat'[l] = cat[l]
         /\ \A j \in Ino : j # i => ikey'[j] = ikey[j]
         /\ i \notin hard => ikey[i] = from /\ ikey'[i] = to
         /\ MemTree' /\ CachedOk'
<1> DEFINE f == from[1]
           g == to[1]
           c == [cat EXCEPT ![from] = NoRec]
           less == [isz EXCEPT ![f] = Less(isz[f])]
           more == [less EXCEPT ![g] = less[g] + 1]
           own == IF i \in hard THEN rsz ELSE [rsz EXCEPT ![i] = isz[i]]
           r == IF i \in hard THEN HlinkRec(i) ELSE FileRec(i)
<1>0. f \in Dirs /\ g \in Dirs /\ from \in AllKey /\ to \in AllKey /\ from # to
  BY KeyFacts
<1>1. /\ up' = up /\ com' = com /\ commits' = commits /\ bits' = bits /\ cached' = cached
      /\ dirs' = dirs /\ hard' = hard /\ ilink' = ilink /\ hl' = hl /\ xa' = xa
      /\ isz' = more /\ rsz' = [own EXCEPT ![f] = more[f], ![g] = more[g]]
      /\ cat' = [c EXCEPT ![to] = r]
      /\ IF i \in hard THEN rlink' = rlink /\ ikey' = ikey
         ELSE rlink' = [rlink EXCEPT ![i] = ilink[i]] /\ ikey' = [ikey EXCEPT ![i] = to]
  BY DEF MoveName, MoveRecord
<1>2. MemTypes /\ MemTree /\ CachedOk
  BY Parts
<1>3. /\ cat \in CatType /\ hl \in SUBSET Ino /\ bits \in SUBSET Ino /\ dirs \subseteq bits
      /\ rlink \in [Ino -> 0 .. LinkMax] /\ rsz \in [Dirs -> Nat] /\ xa \in [Ino -> SUBSET Attr]
      /\ Placed(cat, hl, bits)
  BY <1>2, MemTreeFacts
<1>4. /\ i \in Ino /\ i \in bits /\ rlink[i] = Cardinality(Names(cat, i)) /\ rlink[i] > 0
      /\ cat[from] = IF i \in hl THEN HlinkRec(i) ELSE FileRec(i)
      /\ (i \in hard <=> i \in hl) /\ ilink[i] = rlink[i] /\ isz[i] = rsz[i]
      /\ i \notin hard => ikey[i] = from
  BY <1>2, NameFacts
<1>5. /\ f \in dirs \cup {Root} /\ isz[f] = rsz[f] /\ rsz[f] = Cardinality(Entries(cat, f))
      /\ f # Root => f \in cached /\ f \in bits
      /\ isz[f] \in Nat
  BY <1>0, <1>2, HeldFacts
<1>6. /\ g \in dirs \cup {Root} /\ isz[g] = rsz[g] /\ rsz[g] = Cardinality(Entries(cat, g))
      /\ g # Root => g \in cached /\ g \in bits /\ g \in dirs /\ Names(cat, g) # {}
      /\ isz[g] \in Nat
  BY <1>0, <1>2, HeldFacts
<1>7. r \in Rec /\ r.ino = i /\ r # NoRec /\ r = cat[from]
  BY <1>4, RecFacts
<1>8. rlink' = rlink
  BY <1>1, <1>3, <1>4
<1>9. own = rsz
  BY <1>3, <1>4, KeyFacts
<1>10. /\ c \in CatType /\ c[from] = NoRec /\ c[to] = NoRec
       /\ \A l \in AllKey : l # from => c[l] = cat[l]
  BY <1>0, <1>3 DEF CatType
<1> HIDE DEF c, r
<1>11. /\ cat' \in CatType /\ cat'[to] = r /\ \A l \in AllKey : l # to => cat'[l] = c[l]
  BY <1>0, <1>1, <1>7, <1>10 DEF CatType
<1>12. cat'[from] = NoRec /\ \A l \in AllKey : l # from /\ l # to => cat'[l] = cat[l]
  BY <1>0, <1>10, <1>11
<1>13. /\ isz' \in [Dirs -> Nat] /\ rsz' \in [Dirs -> Nat]
       /\ \A j \in Dirs : j # f /\ j # g => isz'[j] = isz[j] /\ rsz'[j] = rsz[j]
       /\ isz'[f] = rsz'[f] /\ isz'[g] = rsz'[g]
       /\ f = g => isz'[f] = Less(isz[f]) + 1
       /\ f # g => isz'[f] = Less(isz[f]) /\ isz'[g] = isz[g] + 1
  <2>1. Less(isz[f]) \in Nat
    BY <1>5 DEF Less
  <2>2. less \in [Dirs -> Nat] /\ less[f] = Less(isz[f]) /\ \A j \in Dirs : j # f => less[j] = isz[j]
    BY <2>1, <1>0, <1>2 DEF MemTypes
  <2> HIDE DEF less
  <2>3. more \in [Dirs -> Nat] /\ more[g] = less[g] + 1 /\ \A j \in Dirs : j # g => more[j] = less[j]
    BY <2>2, <1>0
  <2> HIDE DEF more
  <2>4. rsz' = [rsz EXCEPT ![f] = more[f], ![g] = more[g]]
    BY <1>1, <1>9
  <2>5. /\ rsz' \in [Dirs -> Nat] /\ rsz'[f] = more[f] /\ rsz'[g] = more[g]
        /\ \A j \in Dirs : j # f /\ j # g => rsz'[j] = rsz[j]
    BY <2>3, <2>4, <1>0, <1>3
  <2>6. isz' = more
    BY <1>1
  <2> QED BY <2>2, <2>3, <2>5, <2>6, <1>0
<1> HIDE DEF f, g, less, more, own
<1>14. /\ Cardinality(Names(c, i)) = Cardinality(Names(cat, i)) - 1
       /\ \A j : j # i => Names(c, j) = Names(cat, j)
       /\ Cardinality(Entries(c, f)) = Cardinality(Entries(cat, f)) - 1
       /\ Cardinality(Entries(cat, f)) > 0
       /\ \A j : j # f => Entries(c, j) = Entries(cat, j)
  <2>1. cat \in CatType /\ c \in CatType /\ c[from] = NoRec /\ f = from[1]
    BY <1>3, <1>10 DEF f
  <2>2. \A l \in Key : l # from => c[l] = cat[l]
    BY <1>10, KeyFacts
  <2> QED BY ONLY from \in Key, cat[from] # NoRec, i = cat[from].ino, <2>1, <2>2, DelName
<1>15. /\ Cardinality(Names(cat', i)) = Cardinality(Names(c, i)) + 1
       /\ to \in Names(cat', i)
       /\ \A j : j # i => Names(cat', j) = Names(c, j)
       /\ Cardinality(Entries(cat', g)) = Cardinality(Entries(c, g)) + 1
       /\ \A j : j # g => Entries(cat', j) = Entries(c, j)
  <2>1. cat' \in CatType /\ c \in CatType /\ c[to] = NoRec /\ g = to[1]
        /\ cat'[to] \in Rec /\ i = cat'[to].ino
    BY <1>7, <1>10, <1>11 DEF g
  <2>2. \A l \in Key : l # to => cat'[l] = c[l]
    BY <1>11, KeyFacts
  <2> QED BY ONLY to \in Key, <2>1, <2>2, AddName
<1>16. Placed(cat', hl', bits')
  <2>1. CASE i \in hl
    <3>1. cat[from] = HlinkRec(i) /\ cat'[to] = HlinkRec(i) /\ i \in Ino
      BY <2>1, <1>4, <1>7, <1>11
    <3>2. Placed(c, hl, bits)
      BY ONLY from \in Key, <1>3, <1>10, <3>1, PlacedDelHlink
    <3>3. Placed(cat', hl, bits)
      BY ONLY to \in Key, <1>3, <1>10, <1>11, <2>1, <3>1, <3>2, PlacedAddHlink
    <3> QED BY <3>3, <1>1
  <2>2. CASE i \notin hl
    <3>1. cat[from] = FileRec(i) /\ cat'[to] = FileRec(i) /\ i \in Ino /\ cat' \in CatType
      BY <2>2, <1>4, <1>7, <1>11
    <3>2. Placed(cat', hl, bits)
      BY ONLY from \in Key, to \in Key, cat[to] = NoRec, <1>0, <1>3, <1>12, <3>1, PlacedMove
    <3> QED BY <3>2, <1>1
  <2> QED BY <2>1, <2>2
<1>17. \A j : Cardinality(Names(cat', j)) = Cardinality(Names(cat, j))
  <2>1. Cardinality(Names(cat', i)) = Cardinality(Names(cat, i))
    <3>1. Cardinality(Names(cat, i)) \in Nat
      BY NamesFinite
    <3> QED BY <3>1, <1>14, <1>15
  <2> QED BY <2>1, <1>14, <1>15
<1>18. \A j : Names(cat, j) # {} => Names(cat', j) # {}
  BY <1>14, <1>15
<1>19. MemTree'
  <2>1. TreeTypes(cat', hl', bits', rlink', rsz', dirs', xa')
    BY <1>1, <1>3, <1>8, <1>11, <1>13 DEF TreeTypes, CatType
  <2>2. Linked(cat', bits', rlink')
    BY <1>1, <1>2, <1>8, <1>17 DEF MemTree, Linked
  <2>3. Hung(cat', hl')
    BY <1>1, <1>2, <1>18 DEF MemTree, Hung
  <2>4. Sized(cat', bits', rsz', dirs')
    <3>1. ASSUME NEW j \in dirs \cup {Root} PROVE rsz'[j] = Cardinality(Entries(cat', j))
      <4>1. j \in Dirs /\ rsz[j] = Cardinality(Entries(cat, j))
        BY <1>2, <1>3, KeyFacts DEF MemTree, Sized
      <4>2. Less(isz[f]) = isz[f] - 1
        BY <1>5, <1>14 DEF Less
      <4>3. CASE j # f /\ j # g
        BY <4>1, <4>3, <1>13, <1>14, <1>15
      <4>4. CASE f = g /\ j = f
        BY <4>2, <4>4, <1>5, <1>13, <1>14, <1>15
      <4>5. CASE f # g /\ j = f
        BY <4>2, <4>5, <1>5, <1>13, <1>14, <1>15
      <4>6. CASE f # g /\ j = g
        BY <4>6, <1>6, <1>13, <1>14, <1>15
      <4> QED BY <4>3, <4>4, <4>5, <4>6
    <3>2. \A j \in Ino \ bits : rsz'[j] = 0
      BY <1>2, <1>5, <1>6, <1>13, KeyFacts DEF MemTree, Sized
    <3> QED BY <1>1, <3>1, <3>2 DEF Sized
  <2>5. Rooted(cat', dirs')
    <3> SUFFICES ASSUME NEW l \in Key, cat'[l] # NoRec
                 PROVE  l[1] = Root \/ (l[1] \in dirs' /\ Names(cat', l[1]) # {})
      BY DEF Rooted
    <3>1. CASE l = to
      BY <3>1, <1>1, <1>6, <1>18 DEF g
    <3>2. CASE l # to
      <4>1. cat[l] # NoRec
        BY <3>2, <1>12, KeyFacts
      <4> QED BY <4>1, <1>1, <1>2, <1>18 DEF MemTree, Rooted
    <3> QED BY <3>1, <3>2
  <2>6. Attrs(bits', xa')
    BY <1>1, <1>2 DEF MemTree, Attrs
  <2> QED BY <1>16, <2>1, <2>2, <2>3, <2>4, <2>5, <2>6 DEF MemTree
<1>20. /\ ikey' \in [Ino -> AllKey \cup {NoKey}] /\ \A j \in Ino : j # i => ikey'[j] = ikey[j]
       /\ i \notin hard => ikey'[i] = to
  BY <1>0, <1>1, <1>2, <1>4 DEF MemTypes
<1>21. CachedOk'
  <2>1. \A j \in cached' \cap bits' : ilink'[j] = rlink'[j] /\ isz'[j] = rsz'[j]
    BY <1>1, <1>2, <1>3, <1>8, <1>13, KeyFacts DEF CachedOk
  <2>2. \A j \in cached' \cap bits' : IF j \in hard' THEN j \in hl'
                                     ELSE ikey'[j] \in AllKey /\ cat'[ikey'[j]] = FileRec(j)
    <3> TAKE j \in cached' \cap bits'
    <3>1. CASE j = i
      BY <3>1, <1>0, <1>1, <1>4, <1>7, <1>11, <1>20
    <3>2. CASE j # i
      <4>1. j \in Ino /\ j \in cached \cap bits
        BY <1>1, <1>3
      <4>2. IF j \in hard THEN j \in hl ELSE ikey[j] \in AllKey /\ cat[ikey[j]] = FileRec(j)
        BY <4>1, <1>2 DEF CachedOk
      <4>3. CASE j \in hard
        BY <4>2, <4>3, <1>1
      <4>4. CASE j \notin hard
        <5>1. ikey'[j] = ikey[j] /\ ikey[j] \in AllKey /\ cat[ikey[j]] = FileRec(j)
          BY <3>2, <4>1, <4>2, <4>4, <1>20
        <5>2. FileRec(j).ino = j /\ FileRec(j) # NoRec
          BY <4>1, RecFacts
        <5>3. ikey[j] # from /\ ikey[j] # to
          BY <3>2, <5>1, <5>2
        <5>4. cat'[ikey[j]] = FileRec(j)
          BY <5>1, <5>3, <1>12
        <5> QED BY <4>4, <5>1, <5>4, <1>1
      <4> QED BY <4>3, <4>4
    <3> QED BY <3>1, <3>2
  <2>3. \A j \in cached' \ bits' : ilink'[j] = 1 /\ j \notin hard'
    BY <1>1, <1>2 DEF CachedOk
  <2>4. \A j \in Ino : j \notin cached' \cap bits' => isz'[j] = 0
    BY <1>1, <1>2, <1>5, <1>6, <1>13, KeyFacts DEF CachedOk
  <2>5. isz'[Root] = rsz'[Root]
    BY <1>2, <1>13, KeyFacts DEF CachedOk
  <2> QED BY <2>1, <2>2, <2>3, <2>4, <2>5 DEF CachedOk
<1>22. ilink[i] # 0
  BY <1>3, <1>4
<1>23. \A l \in Key : l # from /\ l # to => cat'[l] = cat[l]
  BY <1>12, KeyFacts
<1> QED BY <1>1, <1>4, <1>12, <1>13, <1>19, <1>20, <1>21, <1>22, <1>23

(* Links in progress follow the name they looked up (d_move()). *)
LEMMA FollowLinks ==
  ASSUME MemTypes, LinkOk, NEW from \in Key, NEW to \in Key, NEW i \in Ino, i = cat[from].ino,
         \A u \in Task : Links(u)' => task'[u] = Follow(from, to)[u],
         cached' = cached, bits' = bits, hard' = hard, ilink' = ilink,
         \A j \in Ino : j # i => ikey'[j] = ikey[j],
         i \notin hard => ikey[i] = from /\ ikey'[i] = to
  PROVE  LinkOk'
<1> SUFFICES ASSUME NEW u \in Task, Links(u)'
             PROVE  /\ task'[u] = [op |-> "link", key |-> task'[u].key, ino |-> task'[u].ino]
                    /\ task'[u].key \in Key
                    /\ task'[u].ino \in cached' \cap bits'
                    /\ task'[u].ino \notin hard' /\ ilink'[task'[u].ino] # 0
                         => task'[u].key = ikey'[task'[u].ino]
  BY DEF LinkOk
<1>1. task'[u] = IF task[u] # Idle /\ task[u].key = from /\ task[u].ino = i
                   THEN [task[u] EXCEPT !.key = to] ELSE task[u]
  BY DEF Follow
<1>2. task'[u] # Idle /\ task'[u].op = "link"
  BY DEF Links
<1>3. CASE task[u] # Idle /\ task[u].key = from /\ task[u].ino = i
  <2>1. task'[u] = [task[u] EXCEPT !.key = to]
    BY <1>1, <1>3
  <2>2. task[u].op \in {"link", "rename"}
    BY <1>3 DEF MemTypes
  <2>3. CASE Links(u)
    <3>1. /\ task[u] = [op |-> "link", key |-> task[u].key, ino |-> task[u].ino]
          /\ task[u].ino \in cached /\ task[u].ino \in bits
      BY <2>3 DEF LinkOk
    <3>2. task'[u] = [op |-> "link", key |-> to, ino |-> i]
      BY <1>3, <2>1, <3>1
    <3> QED BY <3>1, <3>2, <1>3
  <2>4. CASE ~Links(u)
    <3>1. task[u].op = "rename"
      BY <1>3, <2>2, <2>4 DEF Links
    <3> QED BY <3>1, <2>1, <1>2
  <2> QED BY <2>3, <2>4
<1>4. CASE ~(task[u] # Idle /\ task[u].key = from /\ task[u].ino = i)
  <2>1. task'[u] = task[u]
    BY <1>1, <1>4
  <2>2. Links(u)
    BY <1>2, <2>1 DEF Links
  <2>3. /\ task[u] = [op |-> "link", key |-> task[u].key, ino |-> task[u].ino]
        /\ task[u].key \in Key /\ task[u].ino \in cached /\ task[u].ino \in bits
        /\ task[u].ino \notin hard /\ ilink[task[u].ino] # 0 => task[u].key = ikey[task[u].ino]
    BY <2>2 DEF LinkOk
  <2>4. task[u].ino \in Ino
    BY <2>2 DEF MemTypes, Links
  <2>5. task[u].ino \notin hard /\ ilink[task[u].ino] # 0 => task[u].key = ikey'[task[u].ino]
    BY <1>2, <1>4, <2>1, <2>3, <2>4
  <2> QED BY <2>1, <2>3, <2>5
<1> QED BY <1>3, <1>4

(* A rename whose name did not move is as it was. *)
LEMMA FollowRenames ==
  ASSUME MemTypes, RenameOk, LinkOk, NEW from \in Key, NEW to \in Key, NEW u \in Task,
         task'[u] = Follow(from, to)[u], Renames(u)', Renames(u) => task[u].key # from
  PROVE  task'[u] = task[u]
<1>1. task'[u] = IF task[u] # Idle /\ task[u].key = from /\ task[u].ino = cat[from].ino
                   THEN [task[u] EXCEPT !.key = to] ELSE task[u]
  BY DEF Follow
<1> SUFFICES ASSUME task[u] # Idle, task[u].key = from, task[u].ino = cat[from].ino PROVE FALSE
  BY <1>1
<1>2. task'[u] = [task[u] EXCEPT !.key = to] /\ task'[u].op = "rename"
  BY <1>1 DEF Renames
<1>3. Links(u)
  BY DEF MemTypes, Links, Renames
<1>4. task[u] = [op |-> "link", key |-> task[u].key, ino |-> task[u].ino]
  BY <1>3 DEF LinkOk
<1>5. [task[u] EXCEPT !.key = to].op = "link"
  BY <1>4
<1> QED BY <1>2, <1>5

LEMMA FollowTypes ==
  ASSUME MemTypes, RenameOk, LinkOk, NEW from \in Key, NEW to \in Key, NEW u \in Task,
         task'[u] = Follow(from, to)[u], task'[u] # Idle
  PROVE  task'[u].op \in {"link", "rename"} /\ task'[u].ino \in Ino
<1>1. task'[u] = IF task[u] # Idle /\ task[u].key = from /\ task[u].ino = cat[from].ino
                   THEN [task[u] EXCEPT !.key = to] ELSE task[u]
  BY DEF Follow
<1>2. CASE task'[u] = task[u]
  BY <1>2 DEF MemTypes
<1>3. CASE task[u] # Idle /\ task'[u] = [task[u] EXCEPT !.key = to]
  <2>1. task[u].op \in {"link", "rename"} /\ task[u].ino \in Ino
    BY <1>3 DEF MemTypes
  <2>2. CASE Links(u)
    <3>1. task[u] = [op |-> "link", key |-> task[u].key, ino |-> task[u].ino]
      BY <2>2 DEF LinkOk
    <3> QED BY <1>3, <2>1, <3>1
  <2>3. CASE Renames(u)
    <3>1. task[u] = [op |-> "rename", key |-> task[u].key, to |-> task[u].to,
                     ino |-> task[u].ino, old |-> task[u].old]
      BY <2>3 DEF RenameOk, RenameGood
    <3> QED BY <1>3, <2>1, <3>1
  <2> QED BY <1>3, <2>1, <2>2, <2>3 DEF Links, Renames
<1> QED BY <1>1, <1>2, <1>3

LEMMA RenameOkStep == \A from, to \in Key : NamesInv /\ Rename(from, to) => NamesInv'
<1> SUFFICES ASSUME NEW from \in Key, NEW to \in Key, NamesInv, Rename(from, to) PROVE NamesInv'
  OBVIOUS
<1> DEFINE i == cat[from].ino
<1>1. /\ up = "on" /\ MoveName(from, to) /\ cat[from] # NoRec /\ cat[to] = NoRec
      /\ i \in cached /\ task' = Follow(from, to) /\ OpenDir(from[1]) /\ OpenDir(to[1])
      /\ ~Busy(from[1]) /\ ~Busy(to[1]) /\ i = cat[from].ino
  BY DEF Rename, MayRename, OpenDir
<1>2. DirHeld(from[1]) /\ DirHeld(to[1])
  BY <1>1, KeyFacts DEF OpenDir, DirHeld
<1> HIDE DEF i
<1>3. /\ up' = up /\ com' = com /\ commits' = commits /\ bits' = bits
      /\ cached' = cached /\ dirs' = dirs /\ hard' = hard /\ ilink' = ilink
      /\ isz' \in [Dirs -> Nat] /\ ikey' \in [Ino -> AllKey \cup {NoKey}]
      /\ i \in Ino /\ i \in bits /\ ilink[i] # 0
      /\ cat'[from] = NoRec /\ \A l \in Key : l # from /\ l # to => cat'[l] = cat[l]
      /\ \A j \in Ino : j # i => ikey'[j] = ikey[j]
      /\ i \notin hard => ikey[i] = from /\ ikey'[i] = to
      /\ MemTree' /\ CachedOk'
  BY <1>1, <1>2, MoveStep
<1>4. MemTypes /\ RenameOk /\ RenamesApart /\ LinkOk
  BY <1>1, Parts
<1>5. \A u \in Task : task'[u] = Follow(from, to)[u]
  BY <1>1
<1>6. \A u \in Task : Renames(u) => task[u].key # from
  BY <1>1 DEF Renames, Busy
<1>7. \A u \in Task : Renames(u)' => task'[u] = task[u]
  BY <1>4, <1>5, <1>6, FollowRenames
<1>8. MemTypes'
  <2>1. \A u \in Task : task'[u] # Idle => task'[u].op \in {"link", "rename"} /\ task'[u].ino \in Ino
    BY <1>4, <1>5, FollowTypes
  <2>2. task' = [u \in Task |-> task'[u]]
    BY <1>1 DEF Follow
  <2> QED BY <2>1, <2>2, <1>1, <1>3, <1>4 DEF MemTypes
<1>9. LinkOk'
  BY <1>3, <1>4, <1>1, <1>5, FollowLinks
<1>10. RenameOk' /\ RenamesApart'
  <2>1. \A l \in Key : Busy(l[1]) => cat'[l] = cat[l]
    BY <1>1, <1>3
  <2> QED BY <1>3, <1>4, <1>7, <2>1, RenamesKeep
<1> QED BY <1>3, <1>8, <1>9, <1>10, Together, ComKept

LEMMA RenameMoveOk == \A t \in Task : NamesInv /\ RenameMove(t) => NamesInv'
<1> SUFFICES ASSUME NEW t \in Task, NamesInv, RenameMove(t) PROVE NamesInv'
  OBVIOUS
<1> DEFINE from == task[t].key
           to == task[t].to
           i == cat[from].ino
<1>1. /\ up = "on" /\ MoveName(from, to) /\ Renames(t)
      /\ task' = [Follow(from, to) EXCEPT ![t] = Idle] /\ i = cat[from].ino
  BY DEF RenameMove, Renames
<1>2. MemTypes /\ RenameOk /\ RenamesApart /\ LinkOk
  BY <1>1, Parts
<1>3. /\ from \in Key /\ to \in Key /\ cat[from] # NoRec /\ cat[to] = NoRec /\ i \in cached
      /\ DirHeld(from[1]) /\ DirHeld(to[1])
      /\ Locked(t) = {from[1], to[1], i}
  BY <1>1, <1>2 DEF RenameOk, RenameGood, Locked
<1> HIDE DEF from, to, i
<1>4. /\ up' = up /\ com' = com /\ commits' = commits /\ bits' = bits
      /\ cached' = cached /\ dirs' = dirs /\ hard' = hard /\ ilink' = ilink
      /\ isz' \in [Dirs -> Nat] /\ ikey' \in [Ino -> AllKey \cup {NoKey}]
      /\ i \in Ino /\ i \in bits /\ ilink[i] # 0
      /\ cat'[from] = NoRec /\ \A l \in Key : l # from /\ l # to => cat'[l] = cat[l]
      /\ \A j \in Ino : j # i => ikey'[j] = ikey[j]
      /\ i \notin hard => ikey[i] = from /\ ikey'[i] = to
      /\ MemTree' /\ CachedOk'
  BY <1>1, <1>3, MoveStep
<1>5. /\ \A u \in Task : u # t => task'[u] = Follow(from, to)[u]
      /\ task'[t] = Idle /\ task' = [u \in Task |-> task'[u]]
  BY <1>1 DEF Follow
<1>6. \A u \in Task : u # t /\ Renames(u) => Locked(u) \cap {from[1], to[1], i} = {}
  BY <1>1, <1>2, <1>3 DEF RenamesApart
<1>7. \A u \in Task : u # t /\ Renames(u) => task[u].key # from
  BY <1>6 DEF Locked
<1>8. \A u \in Task : Renames(u)' => u # t /\ task'[u] = task[u]
  <2> SUFFICES ASSUME NEW u \in Task, Renames(u)' PROVE u # t /\ task'[u] = task[u]
    OBVIOUS
  <2>1. u # t
    BY <1>5 DEF Renames
  <2> QED BY <2>1, <1>2, <1>3, <1>5, <1>7, FollowRenames
<1>9. MemTypes'
  <2>1. \A u \in Task : task'[u] # Idle => task'[u].op \in {"link", "rename"} /\ task'[u].ino \in Ino
    BY <1>2, <1>3, <1>5, FollowTypes
  <2> QED BY <2>1, <1>1, <1>2, <1>4, <1>5 DEF MemTypes
<1>10. LinkOk'
  <2>1. \A u \in Task : Links(u)' => task'[u] = Follow(from, to)[u]
    BY <1>5 DEF Links
  <2> QED BY <1>1, <1>2, <1>3, <1>4, <2>1, FollowLinks
<1>11. RenamesApart'
  <2>1. ASSUME NEW u \in Task, Renames(u)'
        PROVE  Renames(u) /\ Locked(u)' = Locked(u)
    BY <2>1, <1>8 DEF Renames, Locked
  <2> QED BY <1>2, <2>1 DEF RenamesApart
<1>12. ASSUME NEW u \in Task PROVE RenameGood(u)'
  <2>1. CASE u = t
    BY <2>1, <1>5 DEF RenameGood, Renames
  <2>2. CASE u # t
    <3>1. Renames(u) => \A l \in Key : l[1] \in Locked(u) => cat'[l] = cat[l]
      BY <2>2, <1>4, <1>6
    <3>2. Renames(u)' => task'[u] = task[u]
      BY <1>8
    <3> QED BY <1>2, <1>4, <3>1, <3>2, RenameKept
  <2> QED BY <2>1, <2>2
<1> QED BY <1>4, <1>9, <1>10, <1>11, <1>12, Together, ComKept DEF RenameOk

LEMMA RenameReplaceOk ==
  \A t \in Task, from, to \in Key : NamesInv /\ RenameReplace(t, from, to) => NamesInv'
<1> SUFFICES ASSUME NEW t \in Task, NEW from \in Key, NEW to \in Key, NamesInv,
                    RenameReplace(t, from, to)
             PROVE  NamesInv'
  OBVIOUS
<1> DEFINE i == cat[from].ino
           h == cat[to].ino
           r == [op |-> "rename", key |-> from, to |-> to, ino |-> i, old |-> h]
<1>1. /\ up = "on" /\ task[t] = Idle /\ UnlinkName(to) /\ MayUnlink(to) /\ i # h
      /\ OpenDir(from[1]) /\ OpenDir(to[1]) /\ ~Busy(from[1]) /\ ~Busy(to[1]) /\ ~Busy(i)
      /\ cat[from] # NoRec /\ i \in cached /\ h = cat[to].ino /\ i = cat[from].ino
      /\ task' = [task EXCEPT ![t] = r]
  BY DEF RenameReplace, MayRename, OpenDir
<1>2. MemTypes /\ MemTree /\ CachedOk /\ RenameOk /\ RenamesApart /\ LinkOk
  BY <1>1, Parts
<1>3. /\ r.op = "rename" /\ r.key = from /\ r.to = to /\ r.ino = i
      /\ r = [op |-> "rename", key |-> r.key, to |-> r.to, ino |-> r.ino, old |-> r.old]
  OBVIOUS
<1>4. DirHeld(from[1]) /\ DirHeld(to[1]) /\ from # to
  BY <1>1, KeyFacts DEF OpenDir, DirHeld
<1> HIDE DEF i, h, r
<1>5. /\ up' = up /\ com' = com /\ commits' = commits /\ bits' = bits
      /\ cached' = cached /\ dirs' = dirs /\ hard' \subseteq cached'
      /\ ilink' \in [Ino -> 0 .. LinkMax] /\ isz' \in [Dirs -> Nat]
      /\ ikey' \in [Ino -> AllKey \cup {NoKey}]
      /\ h \in Ino /\ cat[to] # NoRec /\ ~Busy(h) /\ ~Busy(to[1])
      /\ cat'[to] = NoRec /\ \A l \in Key : l # to => cat'[l] = cat[l]
      /\ \A j \in Ino : j # h => ilink'[j] = ilink[j] /\ ikey'[j] = ikey[j] /\ (j \in hard' <=> j \in hard)
      /\ ilink'[h] # 0 => h \in hard'
      /\ MemTree' /\ CachedOk'
  BY <1>1, UnlinkStep
<1>6. from[1] # h /\ to[1] # h
  BY <1>1, <1>2, <1>5, NothingInside
<1>7. /\ \A u \in Task : task'[u] = IF u = t THEN r ELSE task[u]
      /\ task' = [u \in Task |-> task'[u]]
  BY <1>1, <1>2 DEF MemTypes
<1>8. /\ \A u \in Task : u # t /\ Renames(u)' => task'[u] = task[u] /\ Renames(u)
      /\ \A u \in Task : Links(u)' => task'[u] = task[u]
  BY <1>3, <1>7 DEF Renames, Links
<1>9. MemTypes'
  BY <1>1, <1>2, <1>3, <1>5, <1>7 DEF MemTypes
<1>10. LinkOk'
  BY <1>2, <1>5, <1>8, LinksKeep
<1>11. ASSUME NEW u \in Task PROVE RenameGood(u)'
  <2>1. CASE u = t
    <3> DEFINE H(d) == d \in Dirs /\ (d # Root => d \in dirs' \cap cached' /\ ilink'[d] # 0)
    <3>1. \A d \in Dirs : DirHeld(d) /\ d # h => H(d)
      BY <1>5 DEF DirHeld, Dirs
    <3>2. H(from[1]) /\ H(to[1])
      BY <3>1, <1>4, <1>6, KeyFacts
    <3>3. task'[u] = r
      BY <2>1, <1>7
    <3>4. cat'[from] # NoRec /\ cat'[from].ino = i /\ cat'[to] = NoRec /\ i \in cached'
      BY <1>1, <1>4, <1>5
    <3> QED BY <1>3, <3>2, <3>3, <3>4 DEF RenameGood, DirHeld
  <2>2. CASE u # t
    <3>1. Renames(u) => \A j \in Locked(u) : Busy(j)
      BY DEF Renames, Locked, Busy
    <3>2. Renames(u) => \A l \in Key : l[1] \in Locked(u) => cat'[l] = cat[l]
      BY <3>1, <1>5
    <3>3. Renames(u) => \A j \in Ino : j \in Locked(u) => ilink'[j] = ilink[j]
      BY <3>1, <1>5
    <3>4. Renames(u)' => task'[u] = task[u]
      BY <2>2, <1>8
    <3> QED BY <1>2, <1>5, <3>2, <3>3, <3>4, RenameKept
  <2> QED BY <2>1, <2>2
<1>12. RenamesApart'
  <2>1. Locked(t)' = {from[1], to[1], i}
    BY <1>3, <1>7 DEF Locked
  <2>2. ASSUME NEW u \in Task, u # t, Renames(u)'
        PROVE  Renames(u) /\ Locked(u)' = Locked(u) /\ \A j \in Locked(u) : Busy(j)
    BY <2>2, <1>8 DEF Renames, Locked, Busy
  <2>3. \A u \in Task : u # t /\ Renames(u)' => Locked(u)' \cap Locked(t)' = {}
    BY <2>1, <2>2, <1>1
  <2>4. \A u, v \in Task : u # t /\ v # t /\ u # v /\ Renames(u)' /\ Renames(v)'
                             => Locked(u)' \cap Locked(v)' = {}
    BY <2>2, <1>2 DEF RenamesApart
  <2> QED BY <2>3, <2>4 DEF RenamesApart
<1> QED BY <1>5, <1>9, <1>10, <1>11, <1>12, Together, ComKept DEF RenameOk

--------------------------------------------------------------------------
LEMMA NextOk == NamesInv /\ [Next]_vars => NamesInv'
<1> SUFFICES ASSUME NamesInv, [Next]_vars PROVE NamesInv'
  OBVIOUS
<1>1. CASE Mount \/ MountEnd \/ PowerOff \/ Commit
  BY <1>1, MountOk, MountEndOk, PowerOffOk, CommitOk
<1>2. CASE \E k \in Key : Lookup(k) \/ Unlink(k) \/ UnlinkNoSpace(k)
  BY <1>2, LookupOk, UnlinkOk, UnlinkNoSpaceOk
<1>3. CASE \E d \in Dirs, n \in Name, i \in Ino :
             \/ CreateFails(d, n, i)
             \/ \E isdir \in BOOLEAN, a \in SUBSET Attr : Create(d, n, i, isdir, a)
  BY <1>3, CreateFailsOk, CreateOk
<1>4. CASE \E from, to \in Key : Rename(from, to) \/ \E t \in Task : RenameReplace(t, from, to)
  BY <1>4, RenameOkStep, RenameReplaceOk
<1>5. CASE \E t \in Task, k \in Key :
             \/ LinkLookup(t, k) \/ Link(t, k) \/ LinkNoSpace(t, k) \/ LinkNoMemory(t, k)
             \/ LinkStale(t, k)
  BY <1>5, LinkLookupOk, LinkOkStep, LinkNoSpaceOk, LinkNoMemoryOk, LinkStaleOk
<1>6. CASE \E t \in Task : LinkRefused(t) \/ RenameMove(t) \/ RenameNoSpace(t)
  BY <1>6, RefusedOk, RenameMoveOk
<1>7. CASE \E i \in Ino :
             \/ WriteInode(i) \/ Evict(i) \/ EvictGivesUp(i) \/ KillOrphan(i)
             \/ \E a \in Attr : SetXattr(i, a) \/ RemoveXattr(i, a) \/ DropXattr(i, a)
  BY <1>7, WriteInodeOk, EvictOk, KillOrphanOk, XattrOk
<1>8. CASE UNCHANGED vars
  <2>1. /\ up' = up /\ UNCHANGED trees /\ UNCHANGED cache /\ task' = task
        /\ com' = com /\ commits' = commits
    BY <1>8 DEF vars
  <2>2. UNCHANGED <<up, cat, hl, bits, rlink, rsz, dirs, xa, cached, ilink, isz, hard, ikey,
                    task, com, commits>>
    BY <2>1 DEF trees, cache
  <2>3. TypesOk'
    BY <2>2 DEF NamesInv, TypesOk, TypeOK, MemTypes
  <2>4. TreeOk(com)'
    BY <2>2, ComKept
  <2>5. ASSUME up' # "broken"
        PROVE  TreeOk(Trees)' /\ CachedOk' /\ RenameOk' /\ RenamesApart' /\ LinkOk'
    <3>1. /\ MemTree /\ CachedOk /\ RenameOk /\ RenamesApart /\ LinkOk
      BY <2>2, <2>5, Parts
    <3>2. TreeOk(Trees)'
      BY <2>1, <3>1, MemTreeKept, MemTreeDef
    <3>3. CachedOk' /\ LinkOk' /\ RenamesApart'
      BY <2>2, <3>1 DEF CachedOk, LinkOk, Links, RenamesApart, Renames, Locked
    <3>4. RenameOk'
      BY <2>2, <3>1 DEF RenameOk, RenameGood, Renames, DirHeld
    <3> QED BY <3>2, <3>3, <3>4
  <2> QED BY <2>3, <2>4, <2>5 DEF NamesInv, InMemory
<1> QED BY <1>1, <1>2, <1>3, <1>4, <1>5, <1>6, <1>7, <1>8 DEF Next

(* The inductive invariant holds of every behaviour. *)
LEMMA NamesAlwaysHold == Spec => []NamesInv
BY InitOk, NextOk, PTL DEF Spec

(* Every variable keeps its type: no operation of the catalog, vdfs2_link()*)
(* and vdfs2_unlink() with their checks of i_nlink above all, takes a link *)
(* count below zero or beyond VDFS2_LINK_MAX.                              *)
THEOREM TypesHold == Spec => []TypeOK
<1>1. NamesInv => TypeOK
  BY DEF NamesInv, TypesOk
<1> QED BY <1>1, NamesAlwaysHold, PTL

(* Through vdfs2_link(), vdfs2_unlink(), vdfs2_rename(), their failures,   *)
(* eviction and power failures, the metadata of every inode number in use  *)
(* is in one place and an hlink record leads to the hard link tree, in     *)
(* memory and in every committed snapshot.                                 *)
THEOREM MetadataHasOneHome == Spec => []OneHome
BY InvOneHome, NamesAlwaysHold, PTL

(* links_count and total_items_count are the numbers of names and of       *)
(* entries, whatever order vdfs2_link(), vdfs2_unlink() and vdfs2_rename() *)
(* run in and wherever they fail, and no entry is in a directory without a *)
(* name.                                                                   *)
THEOREM CountsStayExact == Spec => []CountsExact
BY InvCountsExact, NamesAlwaysHold, PTL

(* Only an inode number in use has extended attributes:                    *)
(* vdfs2_xattrtree_remove_all() takes them away with the inode.            *)
THEOREM AttributesAreOwned == Spec => []XattrOwned
BY InvXattrOwned, NamesAlwaysHold, PTL

(* vdfs2_write_inode() finds the record of every inode in memory: a rename *)
(* in two steps, a link or an unlink never leaves an inode with the key of *)
(* a record that has moved.                                                *)
THEOREM InodesFindTheirRecord == Spec => []InodeFindsRecord
BY InvFindsRecord, NamesAlwaysHold, PTL
=============================================================================
