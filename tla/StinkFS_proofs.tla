--------------------------- MODULE StinkFS_proofs ---------------------------
(***************************************************************************)
(* Proofs about StinkFS, for disks, directories, sectors and files of any  *)
(* size and any number of processes.  The directory stays sound where only *)
(* readers are preempted (Preemptible \subseteq {"read"}); the contents of *)
(* the files, and that they are what Files promises, need calls that come  *)
(* one after the other (Preemptible = {}).                                 *)
(***************************************************************************)
EXTENDS StinkFS, SequenceTheorems, WellFoundedInduction, TLAPS

-----------------------------------------------------------------------------
(* Arithmetic of sizes and runs. *)

LEMMA Sizes ==
  /\ SectorSize \in Nat /\ SectorSize > 0 /\ DataEnd \in Nat /\ MaxFiles \in Nat /\ MaxFiles > 0
  /\ FirstEntries \in Nat /\ FirstEntries <= MaxFiles /\ MaxSize \in Nat
  BY SizesAssumption

LEMMA NeedNat == \A n \in Nat : need_sectors(n) \in Nat
  BY Sizes DEF need_sectors

LEMMA NeedNone == need_sectors(0) = 0
  BY Sizes DEF need_sectors

LEMMA LeastOf ==
  ASSUME NEW S \in SUBSET Nat, S # {}
  PROVE  Min(S) \in S /\ \A j \in S : Min(S) <= j
  <1>1. PICK i \in S : \A j \in S : ~(<<j, i>> \in OpToRel(<, Nat))
    BY NatLessThanWellFounded, WFMin
  <1>2. \A j \in S : ~(j < i)
    BY <1>1, Zenon DEF OpToRel
  <1>3. \A j \in S : i <= j
    BY <1>2
  <1>4. QED
    BY <1>3 DEF Min

LEMMA MinPair ==
  ASSUME NEW a \in Nat, NEW b \in Nat
  PROVE  Min({a, b}) = IF a <= b THEN a ELSE b
  <1>1. Min({a, b}) \in {a, b} /\ Min({a, b}) <= a /\ Min({a, b}) <= b
    BY LeastOf
  <1>2. QED
    BY <1>1

LEMMA MaxPair ==
  ASSUME NEW a \in Nat, NEW b \in Nat
  PROVE  Max({a, b}) = IF a <= b THEN b ELSE a
  <1>1. \E x \in {a, b} : \A y \in {a, b} : x >= y
    OBVIOUS
  <1>2. Max({a, b}) \in {a, b} /\ Max({a, b}) >= a /\ Max({a, b}) >= b
    BY <1>1 DEF Max
  <1>3. QED
    BY <1>2

LEMMA RunWithin ==
  ASSUME NEW a \in Int, NEW m \in Nat, NEW e \in Int
  PROVE  (a .. a + m - 1) \subseteq (0 .. e - 1) <=> m = 0 \/ (0 <= a /\ a + m <= e)
  <1>1. CASE m = 0
    BY <1>1
  <1>2. CASE m # 0
    <2>1. a \in a .. a + m - 1 /\ a + m - 1 \in a .. a + m - 1
      BY <1>2
    <2>2. QED
      BY <1>2, <2>1
  <1>3. QED
    BY <1>1, <1>2

LEMMA RunsApart ==
  ASSUME NEW a \in Int, NEW m \in Nat, NEW b \in Int, NEW n \in Nat
  PROVE  (a .. a + m - 1) \cap (b .. b + n - 1) = {} <=> m = 0 \/ n = 0 \/ a + m <= b \/ b + n <= a
  <1>1. ASSUME m # 0, n # 0, a + m > b, b + n > a
        PROVE  (a .. a + m - 1) \cap (b .. b + n - 1) # {}
    <2>1. CASE a <= b
      <3>1. b \in (a .. a + m - 1) \cap (b .. b + n - 1)
        BY <1>1, <2>1
      <3>2. QED
        BY <3>1
    <2>2. CASE b < a
      <3>1. a \in (a .. a + m - 1) \cap (b .. b + n - 1)
        BY <1>1, <2>2
      <3>2. QED
        BY <3>1
    <2>3. QED
      BY <2>1, <2>2
  <1>2. QED
    BY <1>1

-----------------------------------------------------------------------------
(* The inductive invariant. *)

Byte == 0 .. 255
Block == [Offsets -> Byte]
File == [name : AnyName, start : Int, size : Nat]
Directory == [magic : BOOLEAN, count : 0 .. MaxFiles, next_free : 0 .. DataEnd, files : [Entries -> File]]

Kinds == {"none", "write", "append", "write_at", "delete", "read"}
Places == {"idle", "read", "fill", "out", "save", "save_rest", "copy_in", "copy_out", "get", "put",
           "slide_in", "slide_out"}
Call == [op : Kinds, pc : Places, n : AnyName, i : 0 .. MaxFiles, buf : Seq(Byte), pos : Nat,
         left : Nat, new : Nat, start : Int, to : Int, s : Int, cnt : Int]

Typed ==
  /\ disk \in [Sectors -> Block] /\ io_buf \in Block
  /\ dir \in Directory /\ ondisk \in Directory
  /\ calls \in [Procs -> Call]
  /\ unsafe \subseteq Names

(* Only a reader is ever interrupted, so one call at a time changes things.  *)
OneChanger == \A p, q \in Procs : Changing(p) /\ Changing(q) => p = q

(* The files that are listed have names. *)
Named(d) == \A j \in 1 .. d.count : d.files[j].name \in Names

(* A sound directory of named files. *)
Good(d) == d \in Directory /\ Sound(d) /\ Named(d)

(* m sectors from the start of entry i of d on are free for it.              *)
Reserved(d, i, m) ==
  LET a == d.files[i].start IN
  /\ m = 0 \/ (0 <= a /\ a + m <= d.next_free)
  /\ \A k \in 1 .. d.count \ {i} :
       LET b == d.files[k].start n == need_sectors(d.files[k].size) IN
       m = 0 \/ n = 0 \/ a + m <= b \/ b + n <= a

(* What the rest of call c takes for granted of the directory. *)
CallOn(d, c) ==
  /\ c.pc = "idle" <=> c.op = "none"
  /\ c.pc = "read" <=> c.op = "read"
  /\ c.pc # "idle" => c.n \in Names
  /\ c.pc \in {"copy_in", "copy_out", "get", "put", "slide_in", "slide_out"} => c.i \in 1 .. d.count
  /\ c.pc \in {"get", "put"} /\ c.op = "append" => Reserved(d, c.i, need_sectors(c.new))
  /\ c.pc \in {"copy_in", "copy_out"} =>
       /\ c.to = d.next_free /\ c.to + need_sectors(c.new) <= DataEnd /\ c.op \in {"append", "write_at"}
       /\ need_sectors(d.files[c.i].size) <= need_sectors(c.new)
  /\ c.pc \in {"slide_in", "slide_out"} =>
       c.op = "delete" /\ c.start = d.files[c.i].start /\ c.cnt = need_sectors(d.files[c.i].size)

DirInv ==
  /\ Typed /\ OneChanger
  /\ dir.magic /\ Good(dir)
  /\ ondisk.magic => Good(ondisk)
  /\ \A p \in Procs : CallOn(dir, calls[p])

-----------------------------------------------------------------------------
(* What a directory must satisfy, in numbers; and what the operations on     *)
(* directories make of a sound one.                                          *)

Distinct(d) == \A j, k \in 1 .. d.count : j # k => d.files[j].name # d.files[k].name

LEMMA Fields ==
  ASSUME NEW d \in Directory
  PROVE  /\ d.count \in Nat /\ d.count <= MaxFiles /\ d.next_free \in Nat /\ d.next_free <= DataEnd
         /\ d.magic \in BOOLEAN /\ d.files \in [Entries -> File]
         /\ \A j \in Entries : /\ d.files[j].start \in Int /\ d.files[j].size \in Nat
                              /\ d.files[j].name \in AnyName /\ need_sectors(d.files[j].size) \in Nat
         /\ \A j \in 1 .. d.count : j \in Entries
  <1>1. /\ d.count \in 0 .. MaxFiles /\ d.next_free \in 0 .. DataEnd
        /\ d.magic \in BOOLEAN /\ d.files \in [Entries -> File]
    BY DEF Directory
  <1>2. /\ d.count \in Nat /\ d.count <= MaxFiles /\ d.next_free \in Nat /\ d.next_free <= DataEnd
        /\ \A j \in 1 .. d.count : j \in Entries
    BY <1>1, Sizes DEF Entries
  <1>3. \A j \in Entries : /\ d.files[j].start \in Int /\ d.files[j].size \in Nat
                           /\ d.files[j].name \in AnyName
    BY <1>1 DEF File
  <1>4. QED
    BY <1>1, <1>2, <1>3, NeedNat

LEMMA GoodIs ==
  ASSUME NEW d \in Directory
  PROVE  Good(d) <=> /\ \A j \in 1 .. d.count : Reserved(d, j, need_sectors(d.files[j].size))
                     /\ Distinct(d) /\ Named(d)
  <1>1. \A j \in 1 .. d.count : /\ d.files[j].start \in Int
                                /\ need_sectors(d.files[j].size) \in Nat
    BY Fields
  <1>2. d.next_free \in Int
    BY Fields
  <1>3. \A j, k \in 1 .. d.count :
          Run(d, j) \cap Run(d, k) = {} <=>
            \/ need_sectors(d.files[j].size) = 0 \/ need_sectors(d.files[k].size) = 0
            \/ d.files[j].start + need_sectors(d.files[j].size) <= d.files[k].start
            \/ d.files[k].start + need_sectors(d.files[k].size) <= d.files[j].start
    BY <1>1, RunsApart DEF Run
  <1>4. \A j \in 1 .. d.count :
          Run(d, j) \subseteq 0 .. d.next_free - 1 <=>
            \/ need_sectors(d.files[j].size) = 0
            \/ 0 <= d.files[j].start /\ d.files[j].start + need_sectors(d.files[j].size) <= d.next_free
    BY <1>1, <1>2, RunWithin DEF Run
  <1>5. Named(d) => \A j \in 1 .. d.count : d.files[j].name # NoName
    BY SizesAssumption DEF Named
  <1>6. QED
    BY <1>3, <1>4, <1>5 DEF Good, Sound, Distinct, Reserved

LEMMA GoodTaken ==
  ASSUME NEW d, Good(d), NEW m \in Nat, d.next_free + m <= DataEnd
  PROVE  Good([d EXCEPT !.next_free = @ + m])
  <1> DEFINE e == [d EXCEPT !.next_free = @ + m]
  <1>1. d \in Directory /\ e \in Directory /\ e.files = d.files /\ e.count = d.count /\ e.next_free = d.next_free + m
    BY Sizes DEF Directory, Good
  <1>2. \A j \in 1 .. d.count : Reserved(e, j, need_sectors(e.files[j].size))
    BY <1>1, GoodIs, Fields DEF Reserved
  <1>3. QED
    BY <1>1, <1>2, GoodIs DEF Distinct, Named

LEMMA GoodResized ==
  ASSUME NEW d, Good(d), NEW i \in 1 .. d.count, NEW m \in Nat, Reserved(d, i, need_sectors(m))
  PROVE  Good([d EXCEPT !.files[i].size = m])
  <1> DEFINE e == [d EXCEPT !.files[i].size = m]
  <1>1. /\ d \in Directory /\ e \in Directory /\ e.count = d.count /\ e.next_free = d.next_free
        /\ \A j \in Entries : /\ e.files[j].name = d.files[j].name /\ e.files[j].start = d.files[j].start
                              /\ e.files[j].size = IF j = i THEN m ELSE d.files[j].size
    BY DEF Directory, File, Good
  <1> SUFFICES Good(e)
    OBVIOUS
  <1> HIDE DEF e
  <1>2. 1 .. d.count \subseteq Entries
    BY <1>1, Fields
  <1>3. ASSUME NEW j \in 1 .. d.count
        PROVE  Reserved(e, j, need_sectors(e.files[j].size))
    BY <1>1, <1>2, <1>3, GoodIs, Fields DEF Reserved
  <1>4. Distinct(d) /\ Named(d)
    BY <1>1, GoodIs
  <1>5. Distinct(e) /\ Named(e)
    BY <1>1, <1>2, <1>4 DEF Distinct, Named
  <1>6. QED
    BY <1>1, <1>3, <1>5, GoodIs

(* A run at the end: for a new entry, or for another content of an old one.  *)
LEMMA GoodPlaced ==
  ASSUME NEW d, Good(d), NEW k \in 1 .. d.count + 1, k <= MaxFiles, NEW n \in Names, NEW m \in Nat,
         d.next_free + need_sectors(m) <= DataEnd,
         \A j \in 1 .. d.count \ {k} : d.files[j].name # n
  PROVE  Good([d EXCEPT !.count = Max({@, k}), !.next_free = @ + need_sectors(m),
                        !.files[k] = [name |-> n, start |-> d.next_free, size |-> m]])
  <1> DEFINE f == [name |-> n, start |-> d.next_free, size |-> m]
             e == [d EXCEPT !.count = Max({@, k}), !.next_free = @ + need_sectors(m), !.files[k] = f]
  <1> SUFFICES Good(e)
    OBVIOUS
  <1>1. d \in Directory /\ d.count \in Nat /\ k \in Nat /\ need_sectors(m) \in Nat
    BY NeedNat, Fields DEF Good
  <1>2. Max({d.count, k}) = IF k = d.count + 1 THEN d.count + 1 ELSE d.count
    BY <1>1, MaxPair
  <1>3. f \in File
    BY <1>1, Fields DEF File, AnyName
  <1>4. /\ e \in Directory /\ e.count \in {d.count, k} /\ d.count <= e.count /\ k <= e.count
        /\ e.next_free = d.next_free + need_sectors(m)
        /\ e.files = [d.files EXCEPT ![k] = f]
    <2>1. e.count = Max({d.count, k}) /\ e.next_free = d.next_free + need_sectors(m) /\ e.magic = d.magic
          /\ e.files = [d.files EXCEPT ![k] = f]
      BY <1>1 DEF Directory
    <2> HIDE DEF f
    <2>2. e.files \in [Entries -> File]
      <3> HIDE DEF e
      <3>1. QED
        BY <1>1, <1>3, <2>1, Fields
    <2>3. e.count \in 0 .. MaxFiles /\ e.next_free \in 0 .. DataEnd
      BY <1>1, <1>2, <2>1, Fields, Sizes
    <2>4. e \in Directory
      BY <1>1, <2>1, <2>2, <2>3 DEF Directory
    <2>5. QED
      BY <1>1, <1>2, <2>1, <2>4
  <1>9. f.start = d.next_free /\ f.size = m /\ f.name = n
    OBVIOUS
  <1> HIDE DEF e, f
  <1>5. /\ \A j \in 1 .. e.count : j \in Entries /\ (j = k \/ j \in 1 .. d.count)
        /\ \A j \in Entries : e.files[j] = IF j = k THEN f ELSE d.files[j]
    <2>1. \A j \in Entries : e.files[j] = IF j = k THEN f ELSE d.files[j]
      BY <1>4, Fields
    <2>2. \A j \in 1 .. e.count : j = k \/ j \in 1 .. d.count
      BY <1>1, <1>4
    <2>3. \A j \in 1 .. e.count : j \in Entries
      BY <1>4, Fields
    <2>4. QED
      BY <2>1, <2>2, <2>3
  <1>6. ASSUME NEW j \in 1 .. e.count
        PROVE  Reserved(e, j, need_sectors(e.files[j].size))
    <2>1. CASE j = k
      BY <1>1, <1>4, <1>5, <1>9, <2>1, GoodIs, Fields DEF Reserved
    <2>2. CASE j # k
      BY <1>1, <1>4, <1>5, <1>9, <2>2, GoodIs, Fields DEF Reserved
    <2>3. QED
      BY <2>1, <2>2
  <1>7. Distinct(e) /\ Named(e)
    <2>1. Distinct(d) /\ Named(d)
      BY <1>1, GoodIs
    <2>2. QED
      BY <1>1, <1>4, <1>5, <1>9, <2>1 DEF Distinct, Named
  <1>8. QED
    BY <1>4, <1>6, <1>7, GoodIs

(* The last run grows in its place. *)
LEMMA GoodExtended ==
  ASSUME NEW d, Good(d), NEW i \in 1 .. d.count, NEW m \in Nat,
         d.files[i].start + need_sectors(d.files[i].size) = d.next_free,
         need_sectors(d.files[i].size) < m, d.files[i].start + m <= DataEnd
  PROVE  LET e == [d EXCEPT !.next_free = d.files[i].start + m] IN Good(e) /\ Reserved(e, i, m)
  <1> DEFINE e == [d EXCEPT !.next_free = d.files[i].start + m]
  <1> SUFFICES Good(e) /\ Reserved(e, i, m)
    OBVIOUS
  <1>1. /\ d \in Directory /\ Distinct(d) /\ Named(d)
        /\ \A j \in 1 .. d.count : Reserved(d, j, need_sectors(d.files[j].size))
    BY GoodIs DEF Good
  <1>2. 0 <= d.files[i].start
    BY <1>1, Fields DEF Reserved
  <1>3. e \in Directory /\ e.files = d.files /\ e.count = d.count /\ e.next_free = d.files[i].start + m
    <2>1. d.files[i].start + m \in 0 .. DataEnd
      BY <1>1, <1>2, Fields, Sizes
    <2>2. QED
      BY <1>1, <2>1 DEF Directory
  <1> HIDE DEF e
  <1>4. \A k \in 1 .. d.count \ {i} :
          need_sectors(d.files[k].size) = 0 \/ d.files[k].start + need_sectors(d.files[k].size) <= d.files[i].start
    BY <1>1, <1>2, Fields DEF Reserved
  <1>5. Reserved(e, i, m)
    BY <1>1, <1>2, <1>3, <1>4, Fields DEF Reserved
  <1>6. ASSUME NEW j \in 1 .. d.count PROVE Reserved(e, j, need_sectors(e.files[j].size))
    BY <1>1, <1>3, Fields DEF Reserved
  <1>7. Distinct(e) /\ Named(e)
    BY <1>1, <1>3 DEF Distinct, Named
  <1>8. QED
    BY <1>3, <1>5, <1>6, <1>7, GoodIs

(* A run moves behind all others. *)
LEMMA GoodMoved ==
  ASSUME NEW d, Good(d), NEW i \in 1 .. d.count, NEW m \in Nat,
         need_sectors(d.files[i].size) <= m, d.next_free + m <= DataEnd
  PROVE  LET e == [d EXCEPT !.next_free = @ + m, !.files[i].start = d.next_free]
         IN  Good(e) /\ Reserved(e, i, m)
  <1> DEFINE e == [d EXCEPT !.next_free = @ + m, !.files[i].start = d.next_free]
  <1> SUFFICES Good(e) /\ Reserved(e, i, m)
    OBVIOUS
  <1>1. /\ d \in Directory /\ Distinct(d) /\ Named(d)
        /\ \A j \in 1 .. d.count : Reserved(d, j, need_sectors(d.files[j].size))
    BY GoodIs DEF Good
  <1>2. d.next_free \in Int /\ d.next_free + m \in 0 .. DataEnd
    BY <1>1, Fields, Sizes
  <1>3. /\ e \in Directory /\ e.count = d.count /\ e.next_free = d.next_free + m
        /\ \A j \in Entries : /\ e.files[j].name = d.files[j].name /\ e.files[j].size = d.files[j].size
                              /\ e.files[j].start = IF j = i THEN d.next_free ELSE d.files[j].start
    BY <1>1, <1>2 DEF Directory, File
  <1> HIDE DEF e
  <1>4. Reserved(e, i, m)
    BY <1>1, <1>3, Fields DEF Reserved
  <1>5. ASSUME NEW j \in 1 .. d.count PROVE Reserved(e, j, need_sectors(e.files[j].size))
    BY <1>1, <1>3, Fields DEF Reserved
  <1>6. Distinct(e) /\ Named(e)
    BY <1>1, <1>3, Fields DEF Distinct, Named
  <1>7. QED
    BY <1>3, <1>4, <1>5, <1>6, GoodIs

(* A file is taken out and what lies behind it moves down by its length.     *)
LEMMA GoodSlid ==
  ASSUME Good(dir), NEW i \in 1 .. dir.count
  PROVE  Good(Slid(i, dir.files[i].start, need_sectors(dir.files[i].size)))
  <1> DEFINE hole == dir.files[i].start
             freed == need_sectors(dir.files[i].size)
             e == Slid(i, hole, freed)
             o(j) == IF i <= j THEN j + 1 ELSE j
             moved(f) == IF f.start > hole THEN [f EXCEPT !.start = @ - freed] ELSE f
             used(k) == IF k <= dir.count THEN moved(dir.files[k]) ELSE dir.files[k]
             files == [k \in Entries |-> IF i <= k /\ k < dir.count THEN used(k + 1) ELSE used(k)]
  <1> SUFFICES Good(e)
    OBVIOUS
  <1>1. /\ dir \in Directory /\ Distinct(dir) /\ Named(dir)
        /\ \A j \in 1 .. dir.count : Reserved(dir, j, need_sectors(dir.files[j].size))
    BY GoodIs DEF Good
  <1>2. /\ hole \in Int /\ freed \in Nat /\ i \in Nat /\ i <= dir.count
        /\ freed = 0 \/ (0 <= hole /\ hole + freed <= dir.next_free)
    BY <1>1, Fields DEF Reserved
  <1>3. e = [dir EXCEPT !.count = dir.count - 1, !.next_free = dir.next_free - freed, !.files = files]
    BY <1>1 DEF Slid, Directory
  <1>4. \A k \in Entries : /\ moved(dir.files[k]) \in File
                           /\ moved(dir.files[k]).name = dir.files[k].name
                           /\ moved(dir.files[k]).size = dir.files[k].size
                           /\ moved(dir.files[k]).start = IF dir.files[k].start > hole THEN dir.files[k].start - freed
                                                          ELSE dir.files[k].start
    BY <1>1, <1>2 DEF Directory, File
  <1> HIDE DEF hole, freed, moved
  <1>5. files \in [Entries -> File]
    BY <1>1, <1>2, <1>4, Fields, Sizes DEF Entries
  <1>6. \A j \in 1 .. dir.count - 1 : files[j] = moved(dir.files[o(j)]) /\ o(j) \in 1 .. dir.count /\ o(j) # i
    BY <1>1, <1>2, Fields, Sizes DEF Entries
  <1> HIDE DEF e, files
  <1>7. e \in Directory /\ e.count = dir.count - 1 /\ e.next_free = dir.next_free - freed /\ e.files = files
    <2>1. dir.count - 1 \in 0 .. MaxFiles /\ dir.next_free - freed \in 0 .. DataEnd
      BY <1>1, <1>2, Fields, Sizes
    <2>2. QED
      BY <1>1, <1>3, <1>5, <2>1 DEF Directory
  <1>8. \A k \in 1 .. dir.count \ {i} : /\ k \in Entries
          /\ LET m == need_sectors(dir.files[k].size) b == moved(dir.files[k]).start IN
             /\ m = need_sectors(moved(dir.files[k]).size)
             /\ m = 0 \/ (0 <= b /\ b + m <= dir.next_free - freed)
             /\ \A l \in 1 .. dir.count \ {i, k} :
                  LET n == need_sectors(dir.files[l].size) c == moved(dir.files[l]).start IN
                  m = 0 \/ n = 0 \/ b + m <= c \/ c + n <= b
    BY <1>1, <1>2, <1>4, Fields DEF Reserved, hole, freed
  <1> HIDE DEF o
  <1>9. \A j, k \in 1 .. dir.count - 1 : j # k => o(j) # o(k)
    BY <1>1, <1>2, Fields DEF o
  <1>10. ASSUME NEW j \in 1 .. e.count PROVE Reserved(e, j, need_sectors(e.files[j].size))
    BY <1>6, <1>7, <1>8, <1>9 DEF Reserved
  <1>11. Distinct(e) /\ Named(e)
    BY <1>1, <1>4, <1>6, <1>7, <1>8, <1>9 DEF Distinct, Named
  <1>12. QED
    BY <1>7, <1>10, <1>11, GoodIs

-----------------------------------------------------------------------------
(* Looking files and sectors up. *)

LEMMA FindIs ==
  ASSUME dir \in Directory, NEW n
  PROVE  /\ Find(n) \in 0 .. dir.count
         /\ Find(n) = 0 => \A j \in 1 .. dir.count : dir.files[j].name # n
         /\ Find(n) # 0 => dir.files[Find(n)].name = n
  <1> DEFINE found == {i \in 1 .. dir.count : dir.files[i].name = n}
  <1>1. dir.count \in Nat /\ found \in SUBSET Nat
    BY Fields
  <1>2. CASE found = {}
    BY <1>1, <1>2 DEF Find
  <1>3. CASE found # {}
    <2>1. Min(found) \in found
      BY <1>1, <1>3, LeastOf
    <2>2. Find(n) = Min(found)
      BY <1>3 DEF Find
    <2>3. QED
      BY <1>1, <2>1, <2>2
  <1>4. QED
    BY <1>2, <1>3

LEMMA SectorTyped ==
  ASSUME Typed, NEW s
  PROVE  Sector(s) \in Block
  <1>1. Blank \in Block
    BY DEF Blank, Block, Byte
  <1>2. QED
    BY <1>1 DEF Typed, Sector

LEMMA Offset ==
  ASSUME NEW x \in Nat
  PROVE  /\ x % SectorSize \in Offsets /\ x % SectorSize \in Nat /\ x % SectorSize < SectorSize
         /\ x \div SectorSize \in Nat
  BY Sizes DEF Offsets

LEMMA IdleCall == Idle \in Call
  <1>1. <<>> \in Seq(Byte)
    OBVIOUS
  <1>2. QED
    BY <1>1, Sizes DEF Idle, Call, Kinds, Places, AnyName

-----------------------------------------------------------------------------
(* A step of p comes when no other call is changing anything.                *)

LEMMA OwnStep ==
  ASSUME Preemptible \subseteq {"read"}, DirInv, NEW p \in Procs, May(p),
         NEW c \in Call, calls' = [calls EXCEPT ![p] = c], CallOn(dir, c)',
         dir'.magic, Good(dir)', ondisk' \in Directory, ondisk'.magic => Good(ondisk)',
         disk' \in [Sectors -> Block], io_buf' \in Block, unsafe' \subseteq Names
  PROVE  DirInv'
  <1>1. \A q \in Procs \ {p} : calls[q].pc \in {"idle", "read"} /\ calls'[q] = calls[q]
    BY DEF DirInv, Typed, May, CallOn
  <1>2. calls' \in [Procs -> Call] /\ calls'[p] = c
    BY DEF DirInv, Typed
  <1>3. Typed'
    BY <1>2 DEF Typed, Good
  <1>4. OneChanger'
    BY <1>1, <1>2 DEF OneChanger, Changing
  <1>5. \A q \in Procs : CallOn(dir, calls[q])'
    <2>1. \A q \in Procs \ {p} : CallOn(dir, calls[q])'
      BY <1>1 DEF DirInv, CallOn
    <2>2. QED
      BY <1>2, <2>1
  <1>6. QED
    BY <1>3, <1>4, <1>5 DEF DirInv

LEMMA Returned ==
  ASSUME Preemptible \subseteq {"read"}, DirInv, NEW p \in Procs, May(p),
         calls' = [calls EXCEPT ![p] = Idle],
         dir'.magic, Good(dir)', ondisk' \in Directory, ondisk'.magic => Good(ondisk)',
         disk' \in [Sectors -> Block], io_buf' \in Block, unsafe' \subseteq Names
  PROVE  DirInv'
  <1>1. CallOn(dir, Idle)'
    BY DEF CallOn, Idle
  <1>2. QED
    BY <1>1, IdleCall, OwnStep

LEMMA Answered ==
  ASSUME Preemptible \subseteq {"read"}, DirInv, NEW p \in Procs, May(p), NEW r, Answer(p, r), dir'.magic, Good(dir)'
  PROVE  DirInv'
  BY Returned DEF Answer, Return, DirInv, Typed

LEMMA WentOn ==
  ASSUME Preemptible \subseteq {"read"}, DirInv, NEW p \in Procs, May(p),
         NEW c \in Call, Goto(p, c), CallOn(dir, c)', dir'.magic, Good(dir)', UNCHANGED ondisk,
         disk' \in [Sectors -> Block], io_buf' \in Block
  PROVE  DirInv'
  BY OwnStep DEF Goto, DirInv, Typed

(* At these places a call relies on nothing in the directory. *)
LEMMA CallOnPlain ==
  ASSUME NEW d, NEW c, c.pc \in {"fill", "out", "save", "save_rest"}, c.op \notin {"none", "read"}, c.n \in Names
  PROVE  CallOn(d, c)
  BY DEF CallOn

(* One sector goes out from io_buf. *)
LEMMA Transferred ==
  ASSUME Typed, NEW s, Transfer(s, io_buf)
  PROVE  disk' \in [Sectors -> Block] /\ io_buf' \in Block /\ UNCHANGED ondisk
  BY DEF Typed, Transfer

-----------------------------------------------------------------------------
(* Writing a whole file. *)

LEMMA WritingStarts ==
  ASSUME Preemptible \subseteq {"read"}, DirInv, NEW p \in Procs, May(p),
         NEW op \in {"write", "append", "write_at"}, NEW n \in Names, NEW b \in Seq(Byte),
         NEW i \in 0 .. MaxFiles, NEW start \in Int,
         Writing(p, op, n, b, i, start), Good(dir)', dir'.magic, UNCHANGED <<disk, ondisk, io_buf>>
  PROVE  DirInv'
  <1> DEFINE c == [Idle EXCEPT !.op = op, !.pc = IF b = <<>> THEN "save" ELSE "fill",
                               !.n = n, !.i = i, !.buf = b, !.s = start]
  <1>1. c \in Call
    BY IdleCall DEF Call, Kinds, Places, AnyName
  <1>2. Goto(p, c)
    BY DEF Writing
  <1>3. CallOn(dir, c)'
    BY DEF CallOn, Idle
  <1>4. disk' \in [Sectors -> Block] /\ io_buf' \in Block
    BY DEF DirInv, Typed
  <1> HIDE DEF c
  <1>5. QED
    BY <1>1, <1>2, <1>3, <1>4, WentOn

LEMMA FileWriteKeeps ==
  ASSUME Preemptible \subseteq {"read"}, DirInv, NEW p \in Procs, May(p),
         NEW op \in {"write", "append", "write_at"}, NEW n \in Names, NEW b \in Seq(Byte),
         FileWrite(p, op, n, b)
  PROVE  DirInv'
  <1> DEFINE i == Find(n)
             need == need_sectors(Len(b))
             inPlace == i # 0 /\ need <= need_sectors(dir.files[i].size)
             room == dir.next_free + need <= DataEnd
  <1>1. /\ dir \in Directory /\ Good(dir) /\ dir.magic
        /\ Len(b) \in Nat /\ need \in Nat
        /\ \A j \in 1 .. dir.count : Reserved(dir, j, need_sectors(dir.files[j].size))
    BY LenProperties, NeedNat, GoodIs DEF DirInv, Typed
  <1>2. /\ i \in 0 .. dir.count
        /\ i = 0 => \A j \in 1 .. dir.count : dir.files[j].name # n
        /\ i # 0 => dir.files[i].name = n
    BY <1>1, FindIs
  <1>3. dir.count \in Nat /\ dir.count <= MaxFiles /\ \A j \in 1 .. dir.count : j \in Entries
    BY <1>1, Fields
  <1> HIDE DEF i, need
  <1>4. CASE /\ inPlace
             /\ dir' = [dir EXCEPT !.files[i].size = Len(b)]
             /\ Writing(p, op, n, b, i, dir.files[i].start)
             /\ UNCHANGED <<disk, ondisk, io_buf>>
    <2>1. i \in 1 .. dir.count /\ i \in 0 .. MaxFiles /\ dir.files[i].start \in Int
      BY <1>1, <1>2, <1>3, <1>4, Fields, Sizes
    <2>2. Reserved(dir, i, need)
      <3>1. need <= need_sectors(dir.files[i].size) /\ Reserved(dir, i, need_sectors(dir.files[i].size))
        BY <1>1, <1>4, <2>1
      <3>2. QED
        BY <1>1, <2>1, <3>1, Fields DEF Reserved
    <2>3. Good(dir')
      BY <1>1, <1>4, <2>1, <2>2, GoodResized DEF need
    <2>4. dir'.magic
      BY <1>1, <1>4 DEF Directory
    <2>5. QED
      BY <1>4, <2>1, <2>3, <2>4, WritingStarts
  <1>5. CASE /\ ~inPlace /\ room /\ (i # 0 \/ dir.count < MaxFiles)
             /\ LET k == IF i = 0 THEN dir.count + 1 ELSE i IN
                /\ dir' = [dir EXCEPT !.count = Max({@, k}), !.next_free = @ + need,
                     !.files[k] = [name |-> n, start |-> dir.next_free, size |-> Len(b)]]
                /\ Writing(p, op, n, b, k, dir.next_free)
             /\ UNCHANGED <<disk, ondisk, io_buf>>
    <2> DEFINE k == IF i = 0 THEN dir.count + 1 ELSE i
    <2>1. k \in 1 .. dir.count + 1 /\ k <= MaxFiles /\ k \in 0 .. MaxFiles /\ dir.next_free \in Int
      BY <1>1, <1>2, <1>3, <1>5, Fields, Sizes
    <2>2. \A j \in 1 .. dir.count \ {k} : dir.files[j].name # n
      BY <1>1, <1>2, <1>3, GoodIs DEF Distinct
    <2>3. /\ dir' = [dir EXCEPT !.count = Max({@, k}), !.next_free = @ + need,
                                !.files[k] = [name |-> n, start |-> dir.next_free, size |-> Len(b)]]
          /\ Writing(p, op, n, b, k, dir.next_free)
          /\ UNCHANGED <<disk, ondisk, io_buf>>
      BY <1>5
    <2> HIDE DEF k
    <2>4. Good(dir')
      <3>1. dir.next_free + need_sectors(Len(b)) <= DataEnd
        BY <1>5 DEF need
      <3>2. Good([dir EXCEPT !.count = Max({@, k}), !.next_free = @ + need_sectors(Len(b)),
                             !.files[k] = [name |-> n, start |-> dir.next_free, size |-> Len(b)]])
        BY <1>1, <2>1, <2>2, <3>1, GoodPlaced
      <3>3. QED
        BY <2>3, <3>2 DEF need
    <2>5. dir'.magic
      BY <1>1, <2>3 DEF Directory
    <2>6. QED
      BY <2>1, <2>3, <2>4, <2>5, WritingStarts
  <1>6. CASE /\ ~inPlace /\ room /\ i = 0 /\ dir.count >= MaxFiles
             /\ dir' = [dir EXCEPT !.next_free = @ + need]
             /\ Answer(p, Failed)
    <2>1. Good(dir')
      BY <1>1, <1>6, GoodTaken
    <2>2. dir'.magic
      BY <1>1, <1>6 DEF Directory
    <2>3. QED
      BY <1>6, <2>1, <2>2, Answered
  <1>7. CASE ~inPlace /\ ~room /\ Answer(p, Failed) /\ UNCHANGED dir
    BY <1>1, <1>7, Answered
  <1>8. QED
    BY <1>4, <1>5, <1>6, <1>7 DEF FileWrite, i, need

LEMMA FillKeeps ==
  ASSUME Preemptible \subseteq {"read"}, DirInv, NEW p \in Procs, Fill(p)
  PROVE  DirInv'
  <1> DEFINE c == calls[p]
             d == [c EXCEPT !.pc = "out"]
  <1>1. c \in Call /\ CallOn(dir, c) /\ c.pc = "fill" /\ May(p)
    BY DEF DirInv, Typed, Fill, At
  <1>2. d \in Call /\ CallOn(dir, d)
    BY <1>1 DEF Call, Places, CallOn
  <1>3. io_buf' \in Block
    <2>1. c.buf \in Seq(Byte)
      BY <1>1 DEF Call
    <2>2. \A k \in Offsets : (IF k < Len(c.buf) THEN c.buf[k + 1] ELSE 0) \in Byte
      <3>1. 0 \in Byte
        BY DEF Byte
      <3>2. ASSUME NEW k \in Offsets, k < Len(c.buf) PROVE c.buf[k + 1] \in Byte
        <4>1. k + 1 \in 1 .. Len(c.buf)
          BY <2>1, <3>2, Sizes, LenProperties DEF Offsets
        <4>2. QED
          BY <2>1, <4>1, ElementOfSeq
      <3>3. QED
        BY <3>1, <3>2
    <2>3. QED
      BY <2>2 DEF Fill, Load, Block
  <1>4. /\ Goto(p, d) /\ UNCHANGED <<dir, disk, ondisk>>
    BY DEF Fill, Load
  <1>5. Good(dir)' /\ dir'.magic /\ disk' \in [Sectors -> Block] /\ CallOn(dir', d)
    BY <1>2, <1>4 DEF DirInv, Typed
  <1> HIDE DEF d
  <1>6. QED
    BY <1>1, <1>2, <1>3, <1>4, <1>5, WentOn

LEMMA OutKeeps ==
  ASSUME Preemptible \subseteq {"read"}, DirInv, NEW p \in Procs, Out(p)
  PROVE  DirInv'
  <1> DEFINE c == calls[p]
             rest == SubSeq(c.buf, SectorSize + 1, Len(c.buf))
             next == IF rest = <<>> THEN "save" ELSE "fill"
             d == [c EXCEPT !.buf = rest, !.s = @ + 1, !.pc = next]
  <1>1. c \in Call /\ CallOn(dir, c) /\ c.pc = "out" /\ May(p)
    BY DEF DirInv, Typed, Out, At
  <1>2. d \in Call /\ CallOn(dir, d)
    <2>1. c.buf \in Seq(Byte)
      BY <1>1 DEF Call
    <2>2. rest \in Seq(Byte)
      BY <2>1, Sizes
    <2>5. next \in {"save", "fill"}
      OBVIOUS
    <2>7. c \in Call /\ c.s + 1 \in Int
      BY <1>1 DEF Call
    <2> HIDE DEF rest, next, c
    <2>3. d \in Call /\ d.op = c.op /\ d.n = c.n /\ d.pc \in {"save", "fill"}
      BY <2>2, <2>5, <2>7 DEF Call, Places
    <2> HIDE DEF d
    <2>4. CallOn(dir, d)
      BY <1>1, <2>3, CallOnPlain DEF CallOn
    <2>6. QED
      BY <2>3, <2>4
  <1>3. Goto(p, d) /\ UNCHANGED dir /\ Transfer(c.s, io_buf)
    BY DEF Out
  <1>4. Good(dir)' /\ dir'.magic /\ CallOn(dir', d)
    BY <1>2, <1>3 DEF DirInv, Typed
  <1> HIDE DEF d
  <1>5. QED
    BY <1>1, <1>2, <1>3, <1>4, WentOn, Transferred DEF DirInv

-----------------------------------------------------------------------------
(* Saving the directory.  While every listed file lies in the first sector   *)
(* of the directory, what is on disk between two sectors is sound, too.      *)

LEMMA GoodFirst ==
  ASSUME DirInv, dir.count <= FirstEntries
  PROVE  FirstSaved \in Directory /\ FirstSaved.magic /\ Good(FirstSaved)
  <1>1. dir \in Directory /\ ondisk \in Directory /\ Good(dir) /\ dir.magic
    BY DEF DirInv, Typed
  <1> DEFINE files == [k \in Entries |-> IF k <= FirstEntries THEN dir.files[k] ELSE ondisk.files[k]]
             e == [dir EXCEPT !.files = files]
  <1>2. files \in [Entries -> File]
    BY <1>1, Fields
  <1>3. \A k \in 1 .. dir.count : files[k] = dir.files[k]
    BY <1>1, Fields, Sizes
  <1> HIDE DEF files
  <1>4. /\ e \in Directory /\ e.magic /\ e.count = dir.count /\ e.next_free = dir.next_free
        /\ \A k \in 1 .. dir.count : e.files[k] = dir.files[k]
    BY <1>1, <1>2, <1>3 DEF Directory
  <1>5. e = FirstSaved
    BY DEF FirstSaved, files
  <1> HIDE DEF e
  <1>6. Good(e)
    BY <1>1, <1>4, GoodIs DEF Reserved, Distinct, Named
  <1>7. QED
    BY <1>4, <1>5, <1>6

LEMMA SaveFirstKeeps ==
  ASSUME Preemptible \subseteq {"read"}, DirInv, dir.count <= FirstEntries, NEW p \in Procs, SaveFirst(p)
  PROVE  DirInv'
  <1> DEFINE d == [calls[p] EXCEPT !.pc = "save_rest"]
  <1>1. calls[p] \in Call /\ CallOn(dir, calls[p]) /\ calls[p].pc = "save" /\ May(p)
    BY DEF DirInv, Typed, SaveFirst, At
  <1>2. d \in Call /\ CallOn(dir, d)
    BY <1>1 DEF Call, Places, CallOn
  <1>3. /\ Goto(p, d) /\ UNCHANGED <<disk, dir, io_buf>> /\ ondisk' = FirstSaved
    BY DEF SaveFirst
  <1>4. ondisk' \in Directory /\ Good(ondisk)'
    BY <1>3, GoodFirst
  <1>5. /\ Good(dir)' /\ dir'.magic /\ disk' \in [Sectors -> Block] /\ io_buf' \in Block /\ unsafe' \subseteq Names
        /\ CallOn(dir', d) /\ calls' = [calls EXCEPT ![p] = d]
    BY <1>2, <1>3 DEF DirInv, Typed, Goto
  <1> HIDE DEF d
  <1>6. QED
    BY <1>1, <1>2, <1>4, <1>5, OwnStep

LEMMA SaveRestKeeps ==
  ASSUME Preemptible \subseteq {"read"}, DirInv, NEW p \in Procs, SaveRest(p)
  PROVE  DirInv'
  <1>1. /\ May(p) /\ ondisk' = dir /\ calls' = [calls EXCEPT ![p] = Idle] /\ unsafe' = {}
        /\ UNCHANGED <<disk, dir, io_buf>>
    BY DEF SaveRest, Return
  <1>2. QED
    BY <1>1, Returned DEF DirInv, Typed

-----------------------------------------------------------------------------
(* Writing into a file. *)

(* The room is there: the size is set at once, or, by append, at the end.    *)
LEMMA GrownKeeps ==
  ASSUME Preemptible \subseteq {"read"}, DirInv, NEW p \in Procs, May(p),
         NEW c \in Call, NEW d, Good(d), d.magic, c.op \in {"append", "write_at"}, c.n \in Names,
         c.i \in 1 .. d.count, Reserved(d, c.i, need_sectors(c.new)),
         Grown(p, c, d), disk' \in [Sectors -> Block], io_buf' \in Block, UNCHANGED ondisk
  PROVE  DirInv'
  <1> DEFINE e == [c EXCEPT !.pc = "get", !.start = d.files[c.i].start]
  <1>1. d \in Directory /\ c.i \in Entries /\ d.files[c.i].start \in Int /\ c.new \in Nat
    BY Fields DEF Good, Call
  <1>2. e \in Call /\ e.pc = "get" /\ e.op = c.op /\ e.n = c.n /\ e.i = c.i /\ e.new = c.new
    BY <1>1 DEF Call, Places
  <1>3. Goto(p, e) /\ dir' = IF c.op = "write_at" THEN [d EXCEPT !.files[c.i].size = c.new] ELSE d
    BY DEF Grown
  <1> HIDE DEF e
  <1>4. CASE c.op = "write_at"
    <2>1. Good(dir')
      BY <1>1, <1>3, <1>4, GoodResized
    <2>2. dir'.magic /\ dir'.count = d.count
      BY <1>1, <1>3, <1>4 DEF Directory
    <2>3. CallOn(dir', e)
      BY <1>2, <1>4, <2>2 DEF CallOn
    <2>4. QED
      BY <1>2, <1>3, <2>1, <2>2, <2>3, WentOn
  <1>5. CASE c.op = "append"
    <2>1. dir' = d
      BY <1>3, <1>5
    <2>2. CallOn(d, e)
      BY <1>2, <1>5 DEF CallOn
    <2>3. QED
      BY <1>2, <1>3, <2>1, <2>2, WentOn
  <1>6. QED
    BY <1>4, <1>5

LEMMA GrowKeeps ==
  ASSUME Preemptible \subseteq {"read"}, DirInv, NEW p \in Procs, May(p),
         NEW c \in Call, c.op \in {"append", "write_at"}, c.n \in Names, c.i \in 1 .. dir.count, Grow(p, c)
  PROVE  DirInv'
  <1> DEFINE f == dir.files[c.i]
             old == need_sectors(f.size)
             new == need_sectors(c.new)
             last == f.start + old = dir.next_free
             room == IF last THEN f.start + new <= DataEnd ELSE dir.next_free + new <= DataEnd
             longer == [dir EXCEPT !.next_free = f.start + new]
             moved == [dir EXCEPT !.next_free = @ + new, !.files[c.i].start = dir.next_free]
  <1>1. /\ dir \in Directory /\ Good(dir) /\ dir.magic /\ disk \in [Sectors -> Block] /\ io_buf \in Block
        /\ Reserved(dir, c.i, old)
    BY GoodIs DEF DirInv, Typed
  <1>2. /\ c.i \in Entries /\ f.start \in Int /\ f.size \in Nat /\ old \in Nat /\ new \in Nat
        /\ dir.next_free \in Nat /\ dir.count \in Nat
    BY <1>1, Fields, NeedNat DEF Call
  <1>3. CASE new <= old /\ Grown(p, c, dir) /\ UNCHANGED <<disk, ondisk, io_buf>>
    <2>1. Reserved(dir, c.i, new)
      BY <1>1, <1>2, <1>3, Fields DEF Reserved
    <2>2. QED
      BY <1>1, <1>3, <2>1, GrownKeeps
  <1>4. CASE new > old /\ last /\ room /\ Grown(p, c, longer) /\ UNCHANGED <<disk, ondisk, io_buf>>
    <2>1. Good(longer) /\ Reserved(longer, c.i, new)
      BY <1>1, <1>2, <1>4, GoodExtended
    <2>2. longer.magic /\ longer.count = dir.count
      BY <1>1 DEF Directory
    <2> HIDE DEF longer
    <2>3. QED
      BY <1>1, <1>4, <2>1, <2>2, GrownKeeps
  <1>5. CASE new > old /\ ~last /\ room /\ old = 0 /\ Grown(p, c, moved) /\ UNCHANGED <<disk, ondisk, io_buf>>
    <2>1. Good(moved) /\ Reserved(moved, c.i, new)
      <3>1. old <= new /\ dir.next_free + new <= DataEnd
        BY <1>2, <1>5
      <3>2. QED
        BY <1>1, <1>2, <3>1, GoodMoved
    <2>2. moved.magic /\ moved.count = dir.count
      BY <1>1 DEF Directory
    <2> HIDE DEF moved
    <2>3. QED
      BY <1>1, <1>5, <2>1, <2>2, GrownKeeps
  <1>6. CASE /\ new > old /\ ~last /\ room /\ old > 0
             /\ Goto(p, [c EXCEPT !.pc = "copy_in", !.start = f.start, !.to = dir.next_free, !.cnt = old])
             /\ UNCHANGED <<dir, disk, ondisk, io_buf>>
    <2> DEFINE e == [c EXCEPT !.pc = "copy_in", !.start = f.start, !.to = dir.next_free, !.cnt = old]
    <2> HIDE DEF f, old
    <2>6. "copy_in" \in Places /\ dir.next_free \in Int /\ old \in Int
      BY <1>2 DEF Places
    <2>1. /\ e \in Call /\ e.pc = "copy_in" /\ e.to = dir.next_free /\ e.n = c.n /\ e.op = c.op /\ e.i = c.i
          /\ e.new = c.new
      BY <1>2, <2>6, Zenon DEF Call
    <2>2. new <= DataEnd - dir.next_free /\ old <= new
      BY <1>2, <1>6, Sizes
    <2>3. Goto(p, e)
      BY <1>6
    <2> HIDE DEF e
    <2>4. CallOn(dir, e)
      BY <1>2, <2>1, <2>2, Sizes DEF CallOn, f, old
    <2>5. QED
      BY <1>1, <1>6, <2>1, <2>3, <2>4, WentOn
  <1>7. CASE new > old /\ ~room /\ Answer(p, Failed) /\ UNCHANGED dir
    BY <1>1, <1>7, Answered
  <1>8. QED
    BY <1>3, <1>4, <1>5, <1>6, <1>7 DEF Grow

LEMMA CopyInKeeps ==
  ASSUME Preemptible \subseteq {"read"}, DirInv, NEW p \in Procs, CopyIn(p)
  PROVE  DirInv'
  <1> DEFINE c == calls[p]
             d == [c EXCEPT !.pc = "copy_out"]
  <1>1. c \in Call /\ CallOn(dir, c) /\ c.pc = "copy_in" /\ May(p)
    BY DEF DirInv, Typed, CopyIn, At
  <1>2. /\ Goto(p, d) /\ UNCHANGED <<dir, disk, ondisk>> /\ io_buf' = Sector(c.start + c.s)
    BY DEF CopyIn, Load
  <1> HIDE DEF c
  <1>3. d \in Call /\ CallOn(dir, d)
    BY <1>1 DEF Call, Places, CallOn
  <1>4. Good(dir)' /\ dir'.magic /\ disk' \in [Sectors -> Block] /\ io_buf' \in Block
    BY <1>2, SectorTyped DEF DirInv, Typed
  <1> HIDE DEF d
  <1>5. QED
    BY <1>1, <1>2, <1>3, <1>4, WentOn

LEMMA CopyOutKeeps ==
  ASSUME Preemptible \subseteq {"read"}, DirInv, NEW p \in Procs, CopyOut(p)
  PROVE  DirInv'
  <1> DEFINE c == calls[p]
             d == [c EXCEPT !.pc = "copy_in", !.s = @ + 1]
             e == [c EXCEPT !.to = 0, !.s = 0, !.cnt = 0]
             m == need_sectors(c.new)
             moved == [dir EXCEPT !.next_free = @ + m, !.files[c.i].start = c.to]
  <1>1. /\ c \in Call /\ CallOn(dir, c) /\ c.pc = "copy_out" /\ May(p) /\ Typed
        /\ Good(dir) /\ dir.magic /\ dir \in Directory
    BY DEF DirInv, Typed, CopyOut, At
  <1>2. disk' \in [Sectors -> Block] /\ io_buf' \in Block /\ UNCHANGED ondisk
    BY <1>1, Transferred DEF CopyOut
  <1>3. c.i \in 1 .. dir.count /\ c.op \in {"append", "write_at"} /\ c.n \in Names
    BY <1>1 DEF CallOn
  <1>4. CASE Goto(p, d) /\ UNCHANGED dir
    <2>1. c \in Call /\ c.s + 1 \in Int
      BY <1>1 DEF Call
    <2> HIDE DEF c
    <2>2. d \in Call /\ CallOn(dir, d)
      BY <1>1, <2>1 DEF Call, Places, CallOn
    <2> HIDE DEF d
    <2>3. QED
      BY <1>1, <1>2, <1>4, <2>2, WentOn
  <1>5. CASE Grown(p, e, moved)
    <2>1. m \in Nat /\ need_sectors(dir.files[c.i].size) <= m /\ c.to = dir.next_free /\ dir.next_free + m <= DataEnd
      BY <1>1, NeedNat DEF CallOn, Call
    <2>2. moved = [dir EXCEPT !.next_free = @ + m, !.files[c.i].start = dir.next_free]
      BY <2>1
    <2> HIDE DEF c, m
    <2>3. Good(moved) /\ Reserved(moved, c.i, m)
      BY <1>1, <1>3, <2>1, <2>2, GoodMoved
    <2>4. moved.magic /\ moved.count = dir.count
      BY <1>1 DEF Directory
    <2>7. 0 \in Int
      OBVIOUS
    <2>5. e \in Call /\ e.op = c.op /\ e.n = c.n /\ e.i = c.i /\ e.new = c.new
      BY <1>1, <2>7, Zenon DEF Call
    <2> HIDE DEF e, moved
    <2>6. QED
      BY <1>1, <1>2, <1>3, <1>5, <2>3, <2>4, <2>5, GrownKeeps DEF m
  <1>6. QED
    BY <1>4, <1>5 DEF CopyOut

LEMMA PutKeeps ==
  ASSUME Preemptible \subseteq {"read"}, DirInv, NEW p \in Procs, Put(p)
  PROVE  DirInv'
  <1> DEFINE c == calls[p]
             off == c.pos % SectorSize
             read == Sector(c.start + (c.pos \div SectorSize))
             d == [c EXCEPT !.pc = "put"]
  <1>1. c \in Call /\ CallOn(dir, c) /\ c.pc = "get" /\ May(p) /\ Typed
    BY DEF DirInv, Typed, Put, At
  <1>2. /\ Goto(p, d) /\ UNCHANGED <<dir, disk, ondisk>>
        /\ io_buf' = [k \in Offsets |-> IF off <= k /\ k - off < Len(c.buf) THEN c.buf[k - off + 1] ELSE read[k]]
    BY DEF Put, Load
  <1>3. c.buf \in Seq(Byte) /\ c.pos \in Nat
    BY <1>1 DEF Call
  <1>4. off \in Nat /\ read \in Block
    BY <1>1, <1>3, Offset, SectorTyped
  <1> HIDE DEF c, off, read
  <1>5. io_buf' \in Block
    <2>1. ASSUME NEW k \in Offsets, off <= k, k - off < Len(c.buf) PROVE c.buf[k - off + 1] \in Byte
      <3>1. k - off + 1 \in 1 .. Len(c.buf)
        BY <1>3, <1>4, <2>1, Sizes, LenProperties DEF Offsets
      <3>2. QED
        BY <1>3, <3>1, ElementOfSeq
    <2>2. QED
      BY <1>2, <1>4, <2>1 DEF Block
  <1>6. d \in Call /\ CallOn(dir, d)
    BY <1>1 DEF Call, Places, CallOn
  <1>7. Good(dir)' /\ dir'.magic /\ disk' \in [Sectors -> Block]
    BY <1>2 DEF DirInv, Typed
  <1> HIDE DEF d
  <1>8. QED
    BY <1>1, <1>2, <1>5, <1>6, <1>7, WentOn

LEMMA PutOutKeeps ==
  ASSUME Preemptible \subseteq {"read"}, DirInv, NEW p \in Procs, PutOut(p)
  PROVE  DirInv'
  <1> DEFINE c == calls[p]
             n == Min({SectorSize - (c.pos % SectorSize), Len(c.buf)})
             rest == SubSeq(c.buf, n + 1, Len(c.buf))
             next == IF rest = <<>> THEN "save" ELSE "get"
             d == [c EXCEPT !.pos = @ + n, !.buf = rest, !.pc = next]
  <1>1. /\ c \in Call /\ CallOn(dir, c) /\ c.pc = "put" /\ May(p) /\ Typed
        /\ Good(dir) /\ dir.magic /\ dir \in Directory
    BY DEF DirInv, Typed, PutOut, At
  <1>2. /\ Goto(p, d) /\ Transfer(c.start + (c.pos \div SectorSize), io_buf)
        /\ dir' = IF rest = <<>> /\ c.op = "append" THEN [dir EXCEPT !.files[c.i].size = c.new] ELSE dir
    BY DEF PutOut
  <1>3. disk' \in [Sectors -> Block] /\ io_buf' \in Block /\ UNCHANGED ondisk
    BY <1>1, <1>2, Transferred
  <1>4. c.buf \in Seq(Byte) /\ c.pos \in Nat /\ c.new \in Nat
    BY <1>1 DEF Call
  <1>5. n \in Nat
    <2>1. SectorSize - (c.pos % SectorSize) \in Nat /\ Len(c.buf) \in Nat
      BY <1>4, Offset, Sizes, LenProperties
    <2>2. QED
      BY <2>1, MinPair
  <1> HIDE DEF n
  <1>6. rest \in Seq(Byte) /\ c.pos + n \in Nat /\ next \in {"save", "get"} /\ (next = "save" <=> rest = <<>>)
    BY <1>4, <1>5
  <1> HIDE DEF rest, next, c
  <1>7. /\ d \in Call /\ d.pc = next /\ d.op = c.op /\ d.n = c.n /\ d.i = c.i /\ d.new = c.new
    BY <1>1, <1>6 DEF Call, Places
  <1> HIDE DEF d
  <1>8. c.i \in 1 .. dir.count /\ c.n \in Names /\ c.op \notin {"none", "read"}
    BY <1>1 DEF CallOn
  <1>9. CASE rest = <<>> /\ c.op = "append"
    <2>1. Good(dir') /\ dir'.magic
      <3>1. Reserved(dir, c.i, need_sectors(c.new))
        BY <1>1, <1>9 DEF CallOn
      <3>2. Good(dir')
        BY <1>1, <1>2, <1>4, <1>8, <1>9, <3>1, GoodResized
      <3>3. QED
        BY <1>1, <1>2, <1>9, <3>2 DEF Directory
    <2>2. CallOn(dir', d)
      BY <1>6, <1>7, <1>8, <1>9, CallOnPlain
    <2>3. QED
      BY <1>1, <1>2, <1>3, <1>7, <2>1, <2>2, WentOn
  <1>10. CASE ~(rest = <<>> /\ c.op = "append")
    <2>1. dir' = dir
      BY <1>2, <1>10
    <2>2. CallOn(dir, d)
      BY <1>1, <1>6, <1>7, <1>8 DEF CallOn
    <2>3. QED
      BY <1>1, <1>2, <1>3, <1>7, <2>1, <2>2, WentOn
  <1>11. QED
    BY <1>9, <1>10

(* The calls that write into a file start with this.                         *)
Into(c, op, n, b, o) ==
  c = [Idle EXCEPT !.op = op, !.n = n, !.i = Find(n), !.buf = b, !.pos = o, !.new = o + Len(b)]

LEMMA IntoFile ==
  ASSUME Typed, NEW n \in Names, Find(n) # 0, NEW op \in {"append", "write_at"}, NEW b \in Seq(Byte), NEW o \in Nat,
         NEW c, Into(c, op, n, b, o)
  PROVE  /\ c \in Call /\ c.op = op /\ c.n = n /\ c.i = Find(n) /\ Find(n) \in 1 .. dir.count
         /\ dir.files[Find(n)].size \in Nat /\ dir.files[Find(n)].start \in Int
  <1>1. /\ dir \in Directory /\ Find(n) \in 0 .. dir.count /\ dir.count \in Nat
        /\ \A j \in 1 .. dir.count : j \in 0 .. MaxFiles /\ j \in Entries
    BY FindIs, Fields, Sizes DEF Typed, Entries
  <1>2. Find(n) \in 1 .. dir.count /\ Find(n) \in 0 .. MaxFiles /\ Find(n) \in Entries
    BY <1>1
  <1>3. o + Len(b) \in Nat /\ op \in Kinds /\ n \in AnyName
    BY LenProperties DEF Kinds, AnyName
  <1>4. c \in Call /\ c.op = op /\ c.n = n /\ c.i = Find(n)
    BY <1>2, <1>3, IdleCall, Zenon DEF Call, Into
  <1>5. QED
    BY <1>1, <1>2, <1>4, Fields

LEMMA SysAppendKeeps ==
  ASSUME Preemptible \subseteq {"read"}, DirInv, NEW p \in Procs, NEW n \in Names, NEW b \in Seq(Byte),
         SysAppend(p, n, b)
  PROVE  DirInv'
  <1> DEFINE i == Find(n)
             size == dir.files[i].size
             c == [Idle EXCEPT !.op = "append", !.n = n, !.i = i, !.buf = b, !.pos = size, !.new = size + Len(b)]
  <1>1. Typed /\ Good(dir) /\ dir.magic /\ May(p)
    BY DEF DirInv, SysAppend, Calls
  <1>2. CASE i = 0 /\ FileWrite(p, "append", n, b)
    BY <1>1, <1>2, FileWriteKeeps
  <1>3. CASE i # 0 /\ b = <<>> /\ Answer(p, Done(<<>>)) /\ UNCHANGED dir
    BY <1>1, <1>3, Answered
  <1>4. CASE i # 0 /\ Grow(p, c)
    <2>1. size \in Nat
      BY <1>1, <1>4, Fields, FindIs DEF Typed
    <2>4. i = Find(n) /\ Into(c, "append", n, b, size) /\ "append" \in {"append", "write_at"}
      BY DEF Into
    <2> HIDE DEF c, i, size
    <2>2. c \in Call /\ c.op = "append" /\ c.n = n /\ c.i = i /\ i \in 1 .. dir.count
      BY <1>1, <1>4, <2>1, <2>4, IntoFile
    <2>3. QED
      BY <1>1, <1>4, <2>2, GrowKeeps
  <1>5. QED
    BY <1>2, <1>3, <1>4 DEF SysAppend

LEMMA SysWriteAtKeeps ==
  ASSUME Preemptible \subseteq {"read"}, DirInv, NEW p \in Procs, NEW n \in Names, NEW b \in Seq(Byte), NEW o \in Nat,
         SysWriteAt(p, n, b, o)
  PROVE  DirInv'
  <1> DEFINE i == Find(n)
             c == [Idle EXCEPT !.op = "write_at", !.n = n, !.i = i, !.buf = b, !.pos = o, !.new = o + Len(b)]
             d == [c EXCEPT !.pc = "get", !.start = dir.files[i].start]
  <1>1. Typed /\ Good(dir) /\ dir.magic /\ May(p)
    BY DEF DirInv, SysWriteAt, Calls
  <1>2. CASE Answer(p, Done(<<>>)) /\ UNCHANGED dir
    BY <1>1, <1>2, Answered
  <1>3. CASE FileWrite(p, "write_at", n, b)
    BY <1>1, <1>3, FileWriteKeeps
  <1>4. CASE Answer(p, Failed) /\ UNCHANGED dir
    BY <1>1, <1>4, Answered
  <1>5. CASE i # 0
    <2>6. i = Find(n) /\ Into(c, "write_at", n, b, o) /\ "write_at" \in {"append", "write_at"}
      BY DEF Into
    <2> HIDE DEF c, i
    <2>1. /\ c \in Call /\ c.op = "write_at" /\ c.n = n /\ c.i = i /\ i \in 1 .. dir.count
          /\ dir.files[i].start \in Int
      BY <1>1, <1>5, <2>6, IntoFile
    <2>2. CASE Grow(p, c)
      BY <1>1, <2>1, <2>2, GrowKeeps
    <2>3. CASE Goto(p, d) /\ UNCHANGED <<dir, disk, ondisk, io_buf>>
      <3>1. "get" \in Places
        BY DEF Places
      <3>2. d \in Call /\ d.pc = "get" /\ d.op = "write_at" /\ d.n = n /\ d.i = i
        BY <2>1, <3>1, Zenon DEF Call
      <3> HIDE DEF d
      <3>3. CallOn(dir, d)
        BY <2>1, <3>2 DEF CallOn
      <3>4. disk' \in [Sectors -> Block] /\ io_buf' \in Block
        BY <1>1, <2>3 DEF Typed
      <3>5. QED
        BY <1>1, <2>3, <3>2, <3>3, <3>4, WentOn
    <2>4. CASE ~Grow(p, c) /\ ~(Goto(p, d) /\ UNCHANGED <<dir, disk, ondisk, io_buf>>)
      BY <1>2, <1>3, <1>4, <2>4 DEF SysWriteAt, c, i
    <2>5. QED
      BY <2>2, <2>3, <2>4
  <1>6. CASE i = 0
    BY <1>2, <1>3, <1>4, <1>6 DEF SysWriteAt
  <1>7. QED
    BY <1>5, <1>6

-----------------------------------------------------------------------------
(* Deleting. *)

LEMMA SlidKeeps ==
  ASSUME Preemptible \subseteq {"read"}, DirInv, NEW p \in Procs, May(p), NEW i \in 1 .. dir.count, NEW c \in Call,
         c.pc = "save", c.op = "delete", c.n \in Names,
         dir' = Slid(i, dir.files[i].start, need_sectors(dir.files[i].size)),
         Goto(p, c), disk' \in [Sectors -> Block], io_buf' \in Block, UNCHANGED ondisk
  PROVE  DirInv'
  <1>1. Good(dir) /\ dir.magic /\ dir \in Directory
    BY DEF DirInv, Typed
  <1>2. Good(dir')
    BY <1>1, GoodSlid
  <1>3. dir'.magic
    BY <1>1 DEF Slid, Directory
  <1>4. CallOn(dir', c)
    BY CallOnPlain
  <1>5. QED
    BY <1>2, <1>3, <1>4, WentOn

LEMMA SysDeleteKeeps ==
  ASSUME Preemptible \subseteq {"read"}, DirInv, NEW p \in Procs, NEW n \in Names, SysDelete(p, n)
  PROVE  DirInv'
  <1> DEFINE i == Find(n)
             f == dir.files[i]
             freed == need_sectors(f.size)
             c == [Idle EXCEPT !.op = "delete", !.n = n, !.i = i, !.start = f.start, !.cnt = freed,
                               !.s = f.start + freed]
             d == [c EXCEPT !.pc = "slide_in"]
             e == [c EXCEPT !.pc = "save"]
  <1>1. /\ Typed /\ Good(dir) /\ dir.magic /\ May(p) /\ dir \in Directory
        /\ disk \in [Sectors -> Block] /\ io_buf \in Block
    BY DEF DirInv, SysDelete, Calls, Typed
  <1>2. CASE i = 0 /\ Answer(p, Failed) /\ UNCHANGED dir
    BY <1>1, <1>2, Answered
  <1>3. CASE /\ i # 0
             /\ IF f.start + freed < dir.next_free
                THEN Goto(p, d) /\ UNCHANGED dir
                ELSE Goto(p, e) /\ dir' = Slid(i, f.start, freed)
             /\ UNCHANGED <<disk, ondisk, io_buf>>
    <2>1. i \in 1 .. dir.count /\ i \in 0 .. MaxFiles /\ f.start \in Int /\ freed \in Int /\ f.start + freed \in Int
      <3>1. i \in 0 .. dir.count /\ dir.count \in Nat /\ dir.count <= MaxFiles
        BY <1>1, FindIs, Fields
      <3>2. i \in 1 .. dir.count /\ i \in 0 .. MaxFiles
        BY <1>3, <3>1, Sizes
      <3>3. QED
        BY <1>1, <3>2, Fields
    <2>2. {"slide_in", "save"} \subseteq Places /\ "delete" \in Kinds /\ n \in AnyName
      BY DEF Places, Kinds, AnyName
    <2>6. "slide_in" \in Places /\ "save" \in Places
      BY <2>2
    <2> HIDE DEF i, f, freed
    <2>3. /\ d \in Call /\ d.pc = "slide_in" /\ d.op = "delete" /\ d.n = n /\ d.i = i
          /\ d.start = f.start /\ d.cnt = freed
      BY <2>1, <2>2, <2>6, IdleCall, Zenon DEF Call
    <2>4. e \in Call /\ e.pc = "save" /\ e.op = "delete" /\ e.n = n
      BY <2>1, <2>2, <2>6, IdleCall, Zenon DEF Call
    <2> HIDE DEF d, e
    <2>5. CallOn(dir, d)
      BY <2>1, <2>3 DEF CallOn, f, freed
    <2>7. CASE Goto(p, d) /\ UNCHANGED dir
      BY <1>1, <1>3, <2>3, <2>5, <2>7, WentOn
    <2>8. CASE Goto(p, e) /\ dir' = Slid(i, f.start, freed)
      BY <1>1, <1>3, <2>1, <2>4, <2>8, SlidKeeps DEF f, freed
    <2>9. QED
      BY <1>3, <2>7, <2>8
  <1>4. QED
    BY <1>2, <1>3 DEF SysDelete

LEMMA SlideInKeeps ==
  ASSUME Preemptible \subseteq {"read"}, DirInv, NEW p \in Procs, SlideIn(p)
  PROVE  DirInv'
  <1> DEFINE c == calls[p]
             d == [c EXCEPT !.pc = "slide_out"]
  <1>1. c \in Call /\ CallOn(dir, c) /\ c.pc = "slide_in" /\ May(p)
    BY DEF DirInv, Typed, SlideIn, At
  <1>2. /\ Goto(p, d) /\ UNCHANGED <<dir, disk, ondisk>> /\ io_buf' = Sector(c.s)
    BY DEF SlideIn, Load
  <1> HIDE DEF c
  <1>3. d \in Call /\ CallOn(dir, d)
    BY <1>1 DEF Call, Places, CallOn
  <1>4. Good(dir)' /\ dir'.magic /\ disk' \in [Sectors -> Block] /\ io_buf' \in Block
    BY <1>2, SectorTyped DEF DirInv, Typed
  <1> HIDE DEF d
  <1>5. QED
    BY <1>1, <1>2, <1>3, <1>4, WentOn

LEMMA SlideOutKeeps ==
  ASSUME Preemptible \subseteq {"read"}, DirInv, NEW p \in Procs, SlideOut(p)
  PROVE  DirInv'
  <1> DEFINE c == calls[p]
             d == [c EXCEPT !.pc = "slide_in", !.s = @ + 1]
             e == [c EXCEPT !.pc = "save"]
  <1>1. /\ c \in Call /\ CallOn(dir, c) /\ c.pc = "slide_out" /\ May(p) /\ Typed
        /\ Good(dir) /\ dir.magic
    BY DEF DirInv, Typed, SlideOut, At
  <1>2. disk' \in [Sectors -> Block] /\ io_buf' \in Block /\ UNCHANGED ondisk
    BY <1>1, Transferred DEF SlideOut
  <1>3. /\ c.i \in 1 .. dir.count /\ c.n \in Names /\ c.op \notin {"none", "read"} /\ c.s + 1 \in Int
        /\ c.start = dir.files[c.i].start /\ c.cnt = need_sectors(dir.files[c.i].size) /\ c.op = "delete"
    BY <1>1 DEF CallOn, Call
  <1>6. "slide_in" \in Places /\ "save" \in Places
    BY DEF Places
  <1>4. CASE Goto(p, d) /\ UNCHANGED dir
    <2> HIDE DEF c
    <2>1. /\ d \in Call /\ d.pc = "slide_in" /\ d.op = c.op /\ d.n = c.n /\ d.i = c.i /\ d.start = c.start
          /\ d.cnt = c.cnt
      BY <1>1, <1>3, <1>6, Zenon DEF Call
    <2> HIDE DEF d
    <2>2. CallOn(dir, d)
      BY <1>3, <2>1 DEF CallOn
    <2>3. QED
      BY <1>1, <1>2, <1>4, <2>1, <2>2, WentOn
  <1>5. CASE Goto(p, e) /\ dir' = Slid(c.i, c.start, c.cnt)
    <2>1. e \in Call /\ e.pc = "save" /\ e.op = c.op /\ e.n = c.n
      BY <1>1, <1>6, Zenon DEF Call
    <2> HIDE DEF e
    <2>2. Good(dir') /\ dir'.magic
      <3>1. Good(dir')
        BY <1>1, <1>3, <1>5, GoodSlid
      <3>2. QED
        BY <1>1, <1>5, <3>1 DEF Slid, Directory, Good
    <2>3. CallOn(dir', e)
      BY <1>3, <2>1, CallOnPlain
    <2>4. QED
      BY <1>1, <1>2, <1>5, <2>1, <2>2, <2>3, WentOn
  <1>7. QED
    BY <1>4, <1>5 DEF SlideOut

-----------------------------------------------------------------------------
(* Reading. *)

LEMMA SysReadKeeps ==
  ASSUME Preemptible \subseteq {"read"}, DirInv, NEW p \in Procs, NEW n \in Names, NEW o \in Nat, NEW len \in Nat,
         SysRead(p, n, o, len)
  PROVE  DirInv'
  <1> DEFINE i == Find(n)
             size == dir.files[i].size
             left == Min({size - o, len})
             c == [Idle EXCEPT !.op = "read", !.pc = "read", !.n = n, !.i = i, !.pos = o, !.left = left]
  <1>1. /\ Typed /\ Good(dir) /\ dir.magic /\ May(p) /\ dir \in Directory
        /\ disk \in [Sectors -> Block] /\ io_buf \in Block /\ UNCHANGED dir
    BY DEF DirInv, SysRead, Calls, Typed
  <1>2. ASSUME NEW r, Answer(p, r) PROVE DirInv'
    BY <1>1, <1>2, Answered
  <1>3. CASE i # 0 /\ o < size /\ len > 0 /\ Goto(p, c) /\ UNCHANGED <<disk, ondisk, io_buf>>
    <2>1. i \in 0 .. MaxFiles /\ size \in Nat
      <3>1. i \in 0 .. dir.count /\ dir.count \in Nat /\ dir.count <= MaxFiles
        BY <1>1, FindIs, Fields
      <3>2. i \in 1 .. dir.count /\ i \in 0 .. MaxFiles
        BY <1>3, <3>1, Sizes
      <3>3. QED
        BY <1>1, <3>2, Fields
    <2>2. left \in Nat
      <3>1. size - o \in Nat
        BY <1>3, <2>1
      <3> HIDE DEF size
      <3>2. QED
        BY <3>1, MinPair
    <2>3. "read" \in Places /\ "read" \in Kinds /\ n \in AnyName
      BY DEF Places, Kinds, AnyName
    <2> HIDE DEF i, size, left
    <2>4. c \in Call /\ c.pc = "read" /\ c.op = "read" /\ c.n = n
      BY <2>1, <2>2, <2>3, IdleCall, Zenon DEF Call
    <2> HIDE DEF c
    <2>5. CallOn(dir', c)
      BY <2>4 DEF CallOn
    <2>6. QED
      BY <1>1, <1>3, <2>4, <2>5, WentOn
  <1>4. QED
    BY <1>2, <1>3 DEF SysRead

LEMMA ReadSectorKeeps ==
  ASSUME Preemptible \subseteq {"read"}, DirInv, NEW p \in Procs, ReadSector(p)
  PROVE  DirInv'
  <1> DEFINE c == calls[p]
             off == c.pos % SectorSize
             n == Min({SectorSize - off, c.left})
             sec == Sector(dir.files[c.i].start + (c.pos \div SectorSize))
             piece == [k \in 1 .. n |-> sec[off + k - 1]]
             data == c.buf \o piece
             d == [c EXCEPT !.buf = data, !.pos = @ + n, !.left = @ - n]
  <1>1. /\ c \in Call /\ CallOn(dir, c) /\ c.pc = "read" /\ May(p) /\ Typed
        /\ Good(dir) /\ dir.magic /\ UNCHANGED dir
    BY DEF DirInv, Typed, ReadSector, At
  <1>2. sec \in Block
    BY <1>1, SectorTyped
  <1>3. disk' \in [Sectors -> Block] /\ io_buf' \in Block /\ UNCHANGED ondisk
    BY <1>1, <1>2 DEF ReadSector, Load, Typed
  <1>4. off \in Nat /\ off < SectorSize /\ c.left \in Nat /\ c.pos \in Nat /\ c.buf \in Seq(Byte)
    BY <1>1, Offset DEF Call
  <1> HIDE DEF sec, off, c
  <1>5. n \in Nat /\ n <= SectorSize - off /\ n <= c.left
    BY <1>4, Sizes, MinPair
  <1> HIDE DEF n
  <1>6. piece \in Seq(Byte)
    <2>1. \A k \in 1 .. n : sec[off + k - 1] \in Byte
      BY <1>2, <1>4, <1>5, Sizes DEF Block, Offsets
    <2>2. QED
      BY <1>5, <2>1
  <1> HIDE DEF piece
  <1>7. data \in Seq(Byte)
    BY <1>4, <1>6
  <1> HIDE DEF data
  <1>8. CASE n < c.left /\ Goto(p, d)
    <2>1. c.pos + n \in Nat /\ c.left - n \in Nat
      BY <1>4, <1>5
    <2>2. d \in Call /\ d.pc = c.pc /\ d.op = c.op /\ d.n = c.n
      BY <1>1, <1>7, <2>1, Zenon DEF Call
    <2> HIDE DEF d
    <2>3. CallOn(dir', d)
      BY <1>1, <2>2 DEF CallOn
    <2>4. QED
      BY <1>1, <1>3, <1>8, <2>2, <2>3, WentOn
  <1>9. CASE Return(p, Done(data)) /\ UNCHANGED unsafe
    BY <1>1, <1>3, <1>9, Returned DEF Return, DirInv, Typed
  <1>10. QED
    BY <1>8, <1>9 DEF ReadSector, c, off, n, sec, piece, data

-----------------------------------------------------------------------------
(* Failures. *)

LEMMA IOFailsKeeps ==
  ASSUME Preemptible \subseteq {"read"}, DirInv, dir.count <= FirstEntries, NEW p \in Procs, IOFails(p)
  PROVE  DirInv'
  <1> DEFINE c == calls[p]
  <1>1. /\ May(p) /\ calls' = [calls EXCEPT ![p] = Idle] /\ UNCHANGED <<dir, io_buf>>
        /\ dir'.magic /\ Good(dir)' /\ io_buf' \in Block
    BY DEF IOFails, Return, DirInv, Typed
  <1>2. \/ UNCHANGED <<disk, ondisk>>
        \/ UNCHANGED ondisk /\ \E to \in Sectors : disk' = [disk EXCEPT ![to] = io_buf]
        \/ ondisk' = FirstSaved /\ UNCHANGED disk
        \/ ondisk' = dir /\ UNCHANGED disk
    BY Zenon DEF IOFails
  <1>3. disk' \in [Sectors -> Block]
    BY <1>2 DEF DirInv, Typed
  <1>4. ondisk' \in Directory /\ (ondisk'.magic => Good(ondisk)')
    BY <1>2, GoodFirst DEF DirInv, Typed
  <1>5. unsafe' \subseteq Names
    <2>1. Changing(p) => c.n \in Names
      BY DEF Changing, DirInv, CallOn
    <2>2. QED
      BY <2>1 DEF IOFails, DirInv, Typed
  <1>6. QED
    BY <1>1, <1>3, <1>4, <1>5, Returned

(* The empty directory. *)
LEMMA LoadedGood ==
  ASSUME ondisk \in Directory, ondisk.magic => Good(ondisk)
  PROVE  Loaded.magic /\ Good(Loaded)
  <1>1. CASE ondisk.magic
    BY <1>1 DEF Loaded
  <1>2. CASE ~ondisk.magic
    <2>3. 0 \in 0 .. MaxFiles /\ 0 \in 0 .. DataEnd
      BY Sizes
    <2>4. Loaded = [ondisk EXCEPT !.magic = TRUE, !.count = 0, !.next_free = 0]
      BY <1>2 DEF Loaded
    <2>1. Loaded \in Directory /\ Loaded.magic /\ Loaded.count = 0
      BY <2>3, <2>4, Zenon DEF Directory
    <2>2. QED
      BY <2>1 DEF Good, Sound, Named
  <1>3. QED
    BY <1>1, <1>2

LEMMA IdleCalls ==
  ASSUME NEW c, c = [p \in Procs |-> Idle], NEW d
  PROVE  c \in [Procs -> Call] /\ \A p \in Procs : c[p].pc = "idle" /\ CallOn(d, c[p])
  <1>1. \A p \in Procs : c[p] = Idle
    OBVIOUS
  <1>2. Idle.pc = "idle" /\ CallOn(d, Idle)
    BY DEF CallOn, Idle
  <1>3. QED
    BY <1>1, <1>2, IdleCall

LEMMA CrashKeeps ==
  ASSUME DirInv, Crash
  PROVE  DirInv'
  <1>1. /\ dir' = Loaded /\ io_buf' = Blank /\ calls' = [p \in Procs |-> Idle] /\ unsafe' = {}
        /\ UNCHANGED <<disk, ondisk>>
    BY DEF Crash
  <1>2. dir'.magic /\ Good(dir)'
    BY <1>1, LoadedGood DEF DirInv, Typed
  <1>3. (calls \in [Procs -> Call])' /\ OneChanger' /\ (\A p \in Procs : CallOn(dir, calls[p]))'
    <2>1. calls' \in [Procs -> Call] /\ \A p \in Procs : calls'[p].pc = "idle" /\ CallOn(dir', calls'[p])
      BY <1>1, IdleCalls
    <2>2. QED
      BY <2>1 DEF OneChanger, Changing
  <1>4. io_buf' \in Block
    BY <1>1 DEF Blank, Block, Byte
  <1>5. QED
    BY <1>1, <1>2, <1>3, <1>4 DEF DirInv, Typed, Good

-----------------------------------------------------------------------------
(* The invariant and its theorems. *)

LEMMA InitInv == Init => DirInv
  <1> SUFFICES ASSUME Init PROVE DirInv
    OBVIOUS
  <1>1. /\ disk = [s \in Sectors |-> Blank] /\ io_buf = Blank /\ dir = Loaded /\ unsafe = {}
        /\ calls = [p \in Procs |-> Idle]
        /\ ondisk = [magic |-> FALSE, count |-> 0, next_free |-> 0, files |-> [k \in Entries |-> NoEntry]]
    BY DEF Init
  <1>2. Blank \in Block
    BY DEF Blank, Block, Byte
  <1>3. ondisk \in Directory /\ ~ondisk.magic
    <2>1. NoEntry \in File
      BY DEF NoEntry, File, AnyName
    <2>2. 0 \in 0 .. MaxFiles /\ 0 \in 0 .. DataEnd
      BY Sizes
    <2>3. QED
      BY <1>1, <2>1, <2>2 DEF Directory
  <1>4. dir.magic /\ Good(dir)
    BY <1>1, <1>3, LoadedGood
  <1>5. calls \in [Procs -> Call] /\ \A p \in Procs : calls[p].pc = "idle" /\ CallOn(dir, calls[p])
    BY <1>1, IdleCalls
  <1>6. QED
    BY <1>1, <1>2, <1>3, <1>4, <1>5 DEF DirInv, Typed, OneChanger, Changing, Good

LEMMA StepInv ==
  ASSUME Preemptible \subseteq {"read"}, DirInv, dir.count <= FirstEntries, [Next]_vars
  PROVE  DirInv'
  <1>1. CASE UNCHANGED vars
    BY <1>1 DEF vars, DirInv, Typed, OneChanger, Changing, Good, Sound, Run, Named, CallOn, Reserved
  <1>2. ASSUME NEW p \in Procs, UserStep(p) PROVE DirInv'
    <2>1. PICK n \in Names :
            \/ SysDelete(p, n)
            \/ \E b \in Buffers[n] : \/ SysWrite(p, n, b) \/ SysAppend(p, n, b)
                                     \/ \E o \in 0 .. MaxSize : SysWriteAt(p, n, b, o)
            \/ \E o, len \in 0 .. MaxSize : SysRead(p, n, o, len)
      BY <1>2 DEF UserStep
    <2>2. Buffers[n] \subseteq Seq(Byte) /\ \A o \in 0 .. MaxSize : o \in Nat
      BY SizesAssumption DEF Byte
    <2>3. CASE SysDelete(p, n)
      BY <2>3, SysDeleteKeeps
    <2>4. ASSUME NEW b \in Seq(Byte), SysWrite(p, n, b) PROVE DirInv'
      BY <2>4, FileWriteKeeps DEF SysWrite, Calls
    <2>5. ASSUME NEW b \in Seq(Byte), SysAppend(p, n, b) PROVE DirInv'
      BY <2>5, SysAppendKeeps
    <2>6. ASSUME NEW b \in Seq(Byte), NEW o \in Nat, SysWriteAt(p, n, b, o) PROVE DirInv'
      BY <2>6, SysWriteAtKeeps
    <2>7. ASSUME NEW o \in Nat, NEW len \in Nat, SysRead(p, n, o, len) PROVE DirInv'
      BY <2>7, SysReadKeeps
    <2>8. QED
      BY <2>1, <2>2, <2>3, <2>4, <2>5, <2>6, <2>7
  <1>3. ASSUME NEW p \in Procs, KernelStep(p) PROVE DirInv'
    BY <1>3, FillKeeps, OutKeeps, SaveFirstKeeps, SaveRestKeeps, CopyInKeeps, CopyOutKeeps, PutKeeps, PutOutKeeps,
       SlideInKeeps, SlideOutKeeps, ReadSectorKeeps DEF KernelStep
  <1>4. ASSUME NEW p \in Procs, IOFails(p) PROVE DirInv'
    BY <1>4, IOFailsKeeps
  <1>5. CASE Crash
    BY <1>5, CrashKeeps
  <1>6. QED
    BY <1>1, <1>2, <1>3, <1>4, <1>5 DEF Next, Step

LEMMA DirInvTypeOK == DirInv => TypeOK
  <1> SUFFICES ASSUME DirInv PROVE TypeOK
    OBVIOUS
  <1>1. dir \in Directory /\ ondisk \in Directory /\ calls \in [Procs -> Call] /\ unsafe \subseteq Names
    BY DEF DirInv, Typed
  <1>2. \A d \in Directory : d.count \in 0 .. MaxFiles /\ d.next_free \in 0 .. DataEnd
    BY DEF Directory
  <1>3. \A k \in Entries : dir.files[k].name \in AnyName /\ dir.files[k].size \in Nat
    BY <1>1 DEF Directory, File
  <1>4. \A p \in Procs : calls[p].n \in AnyName /\ calls[p].i \in 0 .. MaxFiles
    BY <1>1 DEF Call
  <1>5. QED
    BY <1>1, <1>2, <1>3, <1>4 DEF TypeOK

(* Where only a reader is interrupted, and while the files that are listed   *)
(* have their entries in the directory's first sector, the directory keeps   *)
(* its shape: over every write, growth, delete and read, every transfer that *)
(* fails and every stop of the machine.                                      *)
THEOREM TypeOKHolds == Preemptible \subseteq {"read"} => (Spec /\ [](dir.count <= FirstEntries) => []TypeOK)
  <1> SUFFICES ASSUME Preemptible \subseteq {"read"} PROVE Spec /\ [](dir.count <= FirstEntries) => []TypeOK
    OBVIOUS
  <1>1. DirInv /\ dir.count <= FirstEntries /\ [Next]_vars => DirInv'
    BY StepInv
  <1>2. QED
    BY <1>1, InitInv, DirInvTypeOK, PTL DEF Spec

(* Under the same conditions no sector ever belongs to two files, every run  *)
(* ends below next_free and no name is listed twice, in memory and on disk.  *)
THEOREM DirSoundHolds == Preemptible \subseteq {"read"} => (Spec /\ [](dir.count <= FirstEntries) => []DirSound)
  <1> SUFFICES ASSUME Preemptible \subseteq {"read"} PROVE Spec /\ [](dir.count <= FirstEntries) => []DirSound
    OBVIOUS
  <1>1. DirInv /\ dir.count <= FirstEntries /\ [Next]_vars => DirInv'
    BY StepInv
  <1>2. DirInv => DirSound
    BY DEF DirInv, Good, DirSound
  <1>3. QED
    BY <1>1, <1>2, InitInv, PTL DEF Spec

(* A directory of one sector is always sound. *)
THEOREM OneSectorSound ==
  Preemptible \subseteq {"read"} /\ FirstEntries = MaxFiles => (Spec => [](TypeOK /\ DirSound))
  <1> SUFFICES ASSUME Preemptible \subseteq {"read"}, FirstEntries = MaxFiles PROVE Spec => [](TypeOK /\ DirSound)
    OBVIOUS
  <1>1. DirInv => dir.count <= FirstEntries
    BY Fields, Sizes DEF DirInv, Typed
  <1>2. DirInv /\ [Next]_vars => DirInv'
    BY <1>1, StepInv
  <1>3. DirInv => TypeOK /\ DirSound
    BY DirInvTypeOK DEF DirInv, Good, DirSound
  <1>4. QED
    BY <1>2, <1>3, InitInv, PTL DEF Spec

-----------------------------------------------------------------------------
(* Bytes and sectors.                                                        *)

LEMMA Split ==
  ASSUME NEW k \in Nat
  PROVE  k = SectorSize * (k \div SectorSize) + (k % SectorSize)
  BY Sizes

LEMMA Times == ASSUME NEW q \in Nat, NEW d \in Nat, q < d PROVE SectorSize * q + SectorSize <= SectorSize * d
  <1>1. SectorSize * (q + 1) <= SectorSize * d
    BY Sizes
  <1>2. QED
    BY <1>1, Sizes

LEMMA Joined ==
  ASSUME NEW q \in Nat, NEW r \in Offsets
  PROVE  LET k == SectorSize * q + r IN k \in Nat /\ k \div SectorSize = q /\ k % SectorSize = r
  <1> DEFINE k == SectorSize * q + r
  <1>1. k \in Nat /\ r \in Nat /\ r < SectorSize
    BY Sizes DEF Offsets
  <1>2. k \div SectorSize \in Nat /\ k % SectorSize \in Nat /\ k % SectorSize < SectorSize
    BY <1>1, Offset
  <1>3. k = SectorSize * (k \div SectorSize) + (k % SectorSize)
    BY <1>1, Split
  <1> DEFINE e == k \div SectorSize
             m == k % SectorSize
  <1>4. SectorSize * e + m = SectorSize * q + r
    BY <1>3
  <1> HIDE DEF e, m
  <1>5. e \in Nat /\ m \in Nat /\ m < SectorSize
    BY <1>2 DEF e, m
  <1>6. ~(e < q)
    <2>1. SUFFICES ASSUME e < q PROVE FALSE
      OBVIOUS
    <2>2. SectorSize * e + SectorSize <= SectorSize * q
      BY <1>5, <2>1, Times
    <2>3. QED
      BY <1>1, <1>4, <1>5, <2>2, Sizes
  <1>7. ~(q < e)
    <2>1. SUFFICES ASSUME q < e PROVE FALSE
      OBVIOUS
    <2>2. SectorSize * q + SectorSize <= SectorSize * e
      BY <1>5, <2>1, Times
    <2>3. QED
      BY <1>1, <1>4, <1>5, <2>2, Sizes
  <1>8. e = q
    BY <1>5, <1>6, <1>7
  <1>9. m = r
    BY <1>1, <1>4, <1>5, <1>8, Sizes
  <1>10. QED
    BY <1>1, <1>8, <1>9 DEF e, m

(* The bytes of one sector. *)
LEMMA OneSector ==
  ASSUME NEW k \in Nat, NEW pos \in Nat
  PROVE  k \div SectorSize = pos \div SectorSize <=>
           /\ pos - (pos % SectorSize) <= k
           /\ k < pos - (pos % SectorSize) + SectorSize
  <1> DEFINE e == k \div SectorSize
             m == k % SectorSize
             d == pos \div SectorSize
             o == pos % SectorSize
  <1>1. e \in Nat /\ m \in Nat /\ m < SectorSize /\ k = SectorSize * e + m
    BY Offset, Split
  <1>2. d \in Nat /\ o \in Nat /\ o < SectorSize /\ pos = SectorSize * d + o
    BY Offset, Split
  <1> SUFFICES e = d <=> pos - o <= k /\ k < pos - o + SectorSize
    OBVIOUS
  <1> HIDE DEF e, m, d, o
  <1>3. e < d => SectorSize * e + SectorSize <= SectorSize * d
    BY <1>1, <1>2, Times
  <1>4. d < e => SectorSize * d + SectorSize <= SectorSize * e
    BY <1>1, <1>2, Times
  <1>5. SectorSize * e \in Nat /\ SectorSize * d \in Nat
    BY <1>1, <1>2, Sizes
  <1> DEFINE x == SectorSize * e
             y == SectorSize * d
  <1>6. e = d => x = y
    OBVIOUS
  <1> HIDE DEF x, y
  <1>7. QED
    BY <1>1, <1>2, <1>3, <1>4, <1>5, <1>6, Sizes DEF x, y

(* Where a byte of that sector lies in it. *)
LEMMA InSector ==
  ASSUME NEW k \in Nat, NEW pos \in Nat, k \div SectorSize = pos \div SectorSize
  PROVE  k % SectorSize = k - (pos - (pos % SectorSize))
  <1> DEFINE e == k \div SectorSize
  <1>1. k = SectorSize * e + (k % SectorSize) /\ pos = SectorSize * e + (pos % SectorSize)
    BY Split
  <1>2. SectorSize * e \in Nat
    BY Offset, Sizes
  <1>3. k % SectorSize \in Nat /\ pos % SectorSize \in Nat
    BY Offset
  <1> HIDE DEF e
  <1>4. QED
    BY <1>1, <1>2, <1>3

LEMMA Needed ==
  ASSUME NEW m \in Nat, NEW k \in 0 .. m - 1
  PROVE  k \div SectorSize \in 0 .. need_sectors(m) - 1
  <1> DEFINE e == k \div SectorSize
             x == m + SectorSize - 1
             d == x \div SectorSize
  <1>1. k \in Nat /\ x \in Nat /\ k + SectorSize <= x
    BY Sizes
  <1>2. e \in Nat /\ k % SectorSize \in Nat /\ k = SectorSize * e + (k % SectorSize)
    BY <1>1, Offset, Split
  <1>3. d \in Nat /\ x % SectorSize \in Nat /\ x % SectorSize < SectorSize
        /\ x = SectorSize * d + (x % SectorSize)
    BY <1>1, Offset, Split
  <1>4. need_sectors(m) = d
    BY DEF need_sectors
  <1> HIDE DEF e, d, x
  <1>5. ~(d <= e)
    <2> SUFFICES ASSUME d <= e PROVE FALSE
      OBVIOUS
    <2>1. SectorSize * d <= SectorSize * e
      BY <1>2, <1>3, Sizes
    <2>2. QED
      BY <1>1, <1>2, <1>3, <2>1, Sizes
  <1>6. QED
    BY <1>2, <1>3, <1>4, <1>5 DEF e

(* Whole sectors come before a byte at the start of one. *)
LEMMA NextSector ==
  ASSUME NEW pos \in Nat, pos % SectorSize = 0
  PROVE  LET x == pos + SectorSize IN x % SectorSize = 0 /\ x \div SectorSize = (pos \div SectorSize) + 1
  <1> DEFINE d == pos \div SectorSize
  <1>1. d \in Nat /\ pos = SectorSize * d + 0 /\ 0 \in Offsets
    BY Offset, Split, Sizes DEF Offsets
  <1>2. pos + SectorSize = SectorSize * (d + 1) + 0
    <2> HIDE DEF d
    <2>1. QED
      BY <1>1, Sizes
  <1>3. QED
    BY <1>1, <1>2, Joined

-----------------------------------------------------------------------------
(* The contents of the files: the invariant that relates them to `seen'.     *)

(* Sector t of a disk; byte k of a run that starts at sector a. *)
SectorIn(dk, t) == IF t \in Sectors THEN dk[t] ELSE Blank
ByteAt(dk, a, k) == SectorIn(dk, a + (k \div SectorSize))[k % SectorSize]

Listed(d, n) == \E j \in 1 .. d.count : d.files[j].name = n

(* The directory in memory and the disk have file n as G says. *)
Shows(G, n) ==
  /\ n \in DOMAIN G <=> Listed(dir, n)
  /\ \A j \in 1 .. dir.count : dir.files[j].name = n =>
       /\ Len(G[n]) = dir.files[j].size
       /\ \A k \in 0 .. dir.files[j].size - 1 : ByteAt(disk, dir.files[j].start, k) = G[n][k + 1]

Same(n) == Shows(seen, n)

(* Two directories say the same of n. *)
Alike(d, e, n) ==
  /\ \A j \in 1 .. d.count : d.files[j].name = n => \E k \in 1 .. e.count : e.files[k] = d.files[j]
  /\ \A k \in 1 .. e.count : e.files[k].name = n => \E j \in 1 .. d.count : d.files[j] = e.files[k]

(* Started again, the machine would find n as it is now. *)
Saved(n) == Alike(dir, Loaded, n)

(* The contents that a call of op may give to n. *)
Results(op, n) ==
  LET old == Promise!Old(n) IN
  CASE op = "write" -> AllBuffers
    [] op = "append" -> {old \o b : b \in AllBuffers}
    [] op = "write_at" ->
         UNION {{Promise!Overlay(old, b, o) : o \in {x \in 0 .. MaxSize : x <= Len(old)}} : b \in AllBuffers}
    [] OTHER -> {}

(* How far call c is with making its file f. *)
Rest(c, f, pos) == \A k \in 1 .. Len(c.buf) : c.buf[k] = f[pos + k]

SaveOn(c, f) ==
  /\ dir.files[c.i].size = Len(f)
  /\ \A k \in 0 .. Len(f) - 1 : ByteAt(disk, dir.files[c.i].start, k) = f[k + 1]

FillOn(c, f) ==
  LET a == dir.files[c.i].start done == Len(f) - Len(c.buf) IN
  /\ dir.files[c.i].size = Len(f)
  /\ c.buf # <<>> /\ done >= 0 /\ done % SectorSize = 0 /\ c.s = a + (done \div SectorSize)
  /\ Rest(c, f, done)
  /\ \A k \in 0 .. done - 1 : ByteAt(disk, a, k) = f[k + 1]
  /\ c.pc = "out" => \A x \in Offsets : x < Len(c.buf) => io_buf[x] = c.buf[x + 1]

CopyOn(c, f) ==
  LET a == dir.files[c.i].start IN
  /\ c.start = a /\ c.cnt = need_sectors(dir.files[c.i].size) /\ c.s \in 0 .. c.cnt - 1
  /\ c.buf # <<>> /\ Len(f) = c.new /\ c.pos + Len(c.buf) = c.new /\ c.pos <= dir.files[c.i].size
  /\ Rest(c, f, c.pos)
  /\ \A k \in 0 .. c.pos - 1 : ByteAt(disk, a, k) = f[k + 1]
  /\ \A t \in 0 .. c.s - 1 : SectorIn(disk, c.to + t) = SectorIn(disk, a + t)
  /\ c.pc = "copy_out" => io_buf = SectorIn(disk, a + c.s)

PutOn(c, f) ==
  LET a == dir.files[c.i].start off == c.pos % SectorSize IN
  /\ c.start = a /\ Len(f) = IF c.op = "append" THEN c.new ELSE dir.files[c.i].size
  /\ c.buf # <<>> /\ c.pos + Len(c.buf) <= Len(f)
  /\ Rest(c, f, c.pos)
  /\ \A k \in 0 .. Len(f) - 1 : (c.pos <= k /\ k < c.pos + Len(c.buf)) \/ ByteAt(disk, a, k) = f[k + 1]
  /\ c.pc = "put" => \A x \in Offsets :
       io_buf[x] = IF off <= x /\ x - off < Len(c.buf) THEN c.buf[x - off + 1]
                   ELSE SectorIn(disk, a + (c.pos \div SectorSize))[x]

ChangeOn(c) ==
  /\ c.i \in 1 .. dir.count /\ dir.files[c.i].name = c.n
  /\ \A m \in Names \ {c.n} : Same(m)
  /\ \E f \in Results(c.op, c.n) :
       /\ c.pc \in {"save", "save_rest"} => SaveOn(c, f)
       /\ c.pc \in {"fill", "out"} => FillOn(c, f)
       /\ c.pc \in {"copy_in", "copy_out"} => CopyOn(c, f)
       /\ c.pc \in {"get", "put"} => PutOn(c, f)

(* Where sector t is to be found while what lies from c.s on has not slid.   *)
Now(c, t) == IF c.start < t /\ t < c.s THEN t - c.cnt ELSE t

SlideOn(c) ==
  /\ dir.files[c.i].name = c.n /\ c.n \in DOMAIN seen
  /\ c.start + c.cnt <= c.s /\ c.s < dir.next_free
  /\ \A m \in Names \ {c.n} : m \in DOMAIN seen <=> Listed(dir, m)
  /\ \A j \in (1 .. dir.count) \ {c.i} :
       LET n == dir.files[j].name IN
       /\ Len(seen[n]) = dir.files[j].size
       /\ \A k \in 0 .. dir.files[j].size - 1 :
            seen[n][k + 1] = SectorIn(disk, Now(c, dir.files[j].start + (k \div SectorSize)))[k % SectorSize]
  /\ c.pc = "slide_out" => io_buf = SectorIn(disk, c.s)

GoneOn(c) == c.n \in DOMAIN seen /\ ~Listed(dir, c.n) /\ \A m \in Names \ {c.n} : Same(m)

DeleteOn(c) ==
  /\ c.pc \in {"slide_in", "slide_out", "save", "save_rest"}
  /\ c.pc \in {"slide_in", "slide_out"} => SlideOn(c)
  /\ c.pc \in {"save", "save_rest"} => GoneOn(c)

(* A read has the bytes of its file from o on. *)
ReadOn(c) ==
  /\ c.i \in 1 .. dir.count /\ dir.files[c.i].name = c.n /\ c.left > 0
  /\ \E o, len \in 0 .. MaxSize :
       /\ o <= c.pos /\ c.pos + c.left = Min({o + len, dir.files[c.i].size})
       /\ Len(c.buf) = c.pos - o /\ Rest(c, seen[c.n], o)

AllSame == \A m \in Names : Same(m)

WorkOn(c) ==
  CASE c.pc = "idle" -> AllSame
    [] c.pc = "read" -> ReadOn(c) /\ AllSame
    [] c.pc \notin {"idle", "read"} /\ c.op = "delete" -> DeleteOn(c)
    [] OTHER -> ChangeOn(c)

(* Nobody else is in a call. *)
Only(p) == \A q \in Procs \ {p} : calls[q].pc = "idle"

SeenTyped ==
  /\ DOMAIN seen \subseteq Names /\ seen = [n \in DOMAIN seen |-> seen[n]]
  /\ \A n \in DOMAIN seen : seen[n] \in Seq(Byte)

Deleting == \E p \in Procs : calls[p].op = "delete"

FilesInv ==
  /\ SeenTyped
  /\ \A p, q \in Procs : calls[p].pc # "idle" /\ calls[q].pc # "idle" => p = q
  /\ \A p \in Procs : Only(p) => WorkOn(calls[p])
  /\ ~Deleting => \A m \in Names \ (unsafe \cup {Current}) : Saved(m)

-----------------------------------------------------------------------------
(* The steps of one call.                                                    *)

SeenStep == seen' = IF Busy' THEN seen ELSE View'

PromiseStep == [Promise!Next]_<<seen, Current, unsafe, ret>>

LEMMA CurrentIs ==
  ASSUME NEW p \in Procs
  PROVE  /\ Only(p) => /\ Busy <=> Changing(p)
                       /\ Current = IF Changing(p) THEN calls[p].n ELSE NoName
                       /\ Deleting => calls[p].op = "delete" \/ \E q \in Procs \ {p} : calls[q].op = "delete"
         /\ Only(p)' => /\ Busy' <=> Changing(p)'
                        /\ Current' = IF Changing(p)' THEN calls'[p].n ELSE NoName
  <1>1. Only(p) => (Busy <=> Changing(p)) /\ (Changing(p) => \A q \in Procs : Changing(q) => q = p)
    BY DEF Only, Busy, Changing
  <1>2. Only(p)' => (Busy' <=> Changing(p)') /\ (Changing(p)' => \A q \in Procs : Changing(q)' => q = p)
    BY DEF Only, Busy, Changing
  <1>3. Only(p) /\ Changing(p) => (CHOOSE q \in Procs : Changing(q)) = p
    BY <1>1
  <1>4. Only(p)' /\ Changing(p)' => (CHOOSE q \in Procs : Changing(q)') = p
    BY <1>2
  <1>5. QED
    BY <1>1, <1>2, <1>3, <1>4 DEF Current, Deleting

(* A call that goes on, or begins. *)
LEMMA Proceeds ==
  ASSUME Preemptible = {}, DirInv, FilesInv, NEW p \in Procs, May(p), Typed',
         NEW c \in Call, c.pc \notin {"idle", "read"}, c.n \in Names, Goto(p, c), SeenStep,
         calls[p].pc = "idle" \/ (Changing(p) /\ calls[p].n = c.n),
         seen' = seen => WorkOn(c)', c.op = "delete" \/ \A m \in Names \ (unsafe \cup {c.n}) : Saved(m)'
  PROVE  FilesInv' /\ PromiseStep
  <1>1. Only(p) /\ calls'[p] = c /\ \A q \in Procs \ {p} : calls'[q] = calls[q]
    BY DEF May, Only, Goto, DirInv, Typed
  <1>2. Only(p)' /\ Changing(p)' /\ UNCHANGED <<ret, unsafe>>
    BY <1>1 DEF Only, Changing, Goto
  <1>3. Busy' /\ Current' = c.n /\ Current = IF Changing(p) THEN calls[p].n ELSE NoName
    BY <1>1, <1>2, CurrentIs
  <1>4. seen' = seen
    BY <1>3 DEF SeenStep
  <1>5. FilesInv'
    <2>1. SeenTyped'
      BY <1>4 DEF SeenTyped, FilesInv
    <2>2. \A q, r \in Procs : calls'[q].pc # "idle" /\ calls'[r].pc # "idle" => q = r
      BY <1>2 DEF Only
    <2>3. ASSUME NEW q \in Procs, Only(q)' PROVE WorkOn(calls[q])'
      <3>1. q = p
        BY <1>2, <2>3 DEF Only, Changing
      <3>2. QED
        BY <1>1, <1>4, <3>1
    <2>4. ~Deleting' => \A m \in Names \ (unsafe' \cup {Current'}) : Saved(m)'
      BY <1>1, <1>2, <1>3 DEF Deleting
    <2>5. QED
      BY <2>1, <2>2, <2>3, <2>4 DEF FilesInv
  <1>6. CASE calls[p].pc = "idle"
    <2>1. Promise!Begin(c.n)
      BY <1>2, <1>3, <1>4, <1>6 DEF Promise!Begin, Changing, NoName, Promise!NoName
    <2>2. QED
      BY <1>5, <2>1 DEF PromiseStep, Promise!Next
  <1>7. CASE Changing(p) /\ calls[p].n = c.n
    BY <1>2, <1>3, <1>4, <1>5, <1>7 DEF PromiseStep
  <1>8. QED
    BY <1>6, <1>7

(* A name that is listed is found where it is listed. *)
Place(d, n) ==
  LET found == {i \in 1 .. d.count : d.files[i].name = n} IN
  IF found = {} THEN 0 ELSE Min(found)

LEMMA FoundAt ==
  ASSUME NEW d, Good(d), NEW j \in 1 .. d.count
  PROVE  Place(d, d.files[j].name) = j
  <1> DEFINE found == {i \in 1 .. d.count : d.files[i].name = d.files[j].name}
  <1>1. \A i \in found : i = j
    <2>1. Distinct(d)
      BY GoodIs DEF Good
    <2>2. QED
      BY <2>1 DEF Distinct
  <1>2. d.count \in Nat
    BY Fields DEF Good
  <1>3. found = {j} /\ {j} \in SUBSET Nat /\ {j} # {}
    BY <1>1, <1>2
  <1>4. Min({j}) = j
    BY <1>3, LeastOf
  <1>5. QED
    BY <1>3, <1>4 DEF Place

LEMMA FoundListed ==
  ASSUME DirInv
  PROVE  /\ \A j \in 1 .. dir.count : Find(dir.files[j].name) = j
         /\ \A n : Find(n) # 0 => Find(n) \in 1 .. dir.count /\ dir.files[Find(n)].name = n
         /\ \A n : Find(n) = 0 => ~Listed(dir, n)
  <1>1. dir \in Directory /\ dir.count \in Nat /\ Good(dir)
    BY Fields DEF Typed, DirInv
  <1>2. \A j \in 1 .. dir.count : Find(dir.files[j].name) = j
    BY <1>1, FoundAt DEF Place, Find
  <1>3. QED
    BY <1>1, <1>2, FindIs DEF Listed

LEMMA ViewIs ==
  ASSUME Typed', Good(dir)'
  PROVE  /\ DOMAIN View' \subseteq Names /\ View' = [n \in DOMAIN View' |-> View'[n]]
         /\ \A n \in Names : n \in DOMAIN View' <=> Listed(dir', n)
         /\ \A j \in 1 .. dir'.count : View'[dir'.files[j].name] = Content(j)'
         /\ \A j \in 1 .. dir'.count : dir'.files[j].name \in DOMAIN View'
  <1> DEFINE sec(t) == IF t \in Sectors THEN disk'[t] ELSE Blank
             of(i) == [b \in 1 .. dir'.files[i].size |->
                         sec(dir'.files[i].start + ((b - 1) \div SectorSize))[(b - 1) % SectorSize]]
  <1>2. View' = [n \in {dir'.files[i].name : i \in 1 .. dir'.count} \cap Names |-> of(Place(dir', n))]
    BY DEF View, Content, Sector, Find, Place
  <1>3. DOMAIN View' = {dir'.files[i].name : i \in 1 .. dir'.count} \cap Names
    BY <1>2
  <1>4. \A j \in 1 .. dir'.count : dir'.files[j].name \in Names
    BY DEF Good, Named
  <1>5. \A n \in Names : n \in DOMAIN View' <=> Listed(dir', n)
    BY <1>3 DEF Listed
  <1>6. ASSUME NEW j \in 1 .. dir'.count
        PROVE  dir'.files[j].name \in DOMAIN View' /\ View'[dir'.files[j].name] = Content(j)'
    <2>1. dir'.files[j].name \in DOMAIN View'
      BY <1>3, <1>4
    <2>2. \A n \in DOMAIN View' : View'[n] = of(Place(dir', n))
      BY <1>2, <1>3
    <2>3. Place(dir', dir'.files[j].name) = j
      BY FoundAt
    <2>4. Content(j)' = of(j)
      BY DEF Content, Sector
    <2>5. QED
      BY <2>1, <2>2, <2>3, <2>4
  <1>7. DOMAIN View' \subseteq Names /\ View' = [n \in DOMAIN View' |-> View'[n]]
    BY <1>2, <1>3
  <1>8. QED
    BY <1>5, <1>6, <1>7

(* What the directory says of a file, byte by byte. *)
LEMMA ContentIs ==
  ASSUME Typed', Good(dir)', NEW j \in 1 .. dir'.count
  PROVE  /\ Content(j)' \in Seq(Byte) /\ Len(Content(j)') = dir'.files[j].size
         /\ \A k \in 0 .. dir'.files[j].size - 1 : Content(j)'[k + 1] = ByteAt(disk', dir'.files[j].start, k)
  <1> DEFINE sec(t) == IF t \in Sectors THEN disk'[t] ELSE Blank
             a == dir'.files[j].start
             z == dir'.files[j].size
  <1>1. dir'.files[j].start \in Int /\ dir'.files[j].size \in Nat
    BY Fields DEF Typed
  <1>2. ASSUME NEW t PROVE sec(t) \in Block
    <2>1. Blank \in Block
      BY DEF Blank, Block, Byte
    <2>2. QED
      BY <2>1 DEF Typed
  <1>3. Content(j)' = [b \in 1 .. z |-> sec(a + ((b - 1) \div SectorSize))[(b - 1) % SectorSize]]
    BY DEF Content, Sector
  <1>4. \A b \in 1 .. z : sec(a + ((b - 1) \div SectorSize))[(b - 1) % SectorSize] \in Byte
    <2> SUFFICES ASSUME NEW b \in 1 .. z
                 PROVE  sec(a + ((b - 1) \div SectorSize))[(b - 1) % SectorSize] \in Byte
      OBVIOUS
    <2>1. b - 1 \in Nat
      BY <1>1
    <2>2. (b - 1) % SectorSize \in Offsets
      BY <2>1, Offset
    <2>3. QED
      BY <1>2, <2>2 DEF Block
  <1>5. Content(j)' \in Seq(Byte) /\ Len(Content(j)') = z
    BY <1>1, <1>3, <1>4
  <1>6. ASSUME NEW k \in 0 .. z - 1
        PROVE  Content(j)'[k + 1] = ByteAt(disk', dir'.files[j].start, k)
    <2>1. k + 1 \in 1 .. z /\ (k + 1) - 1 = k
      BY <1>1
    <2>2. QED
      BY <1>3, <2>1 DEF ByteAt, SectorIn
  <1>7. QED
    BY <1>5, <1>6

LEMMA ViewShows ==
  ASSUME Typed', Good(dir)'
  PROVE  /\ \A n \in DOMAIN View' : View'[n] \in Seq(Byte)
         /\ \A n \in Names : Shows(View, n)'
  <1>1. ASSUME NEW n \in DOMAIN View' PROVE View'[n] \in Seq(Byte)
    <2>1. PICK j \in 1 .. dir'.count : dir'.files[j].name = n
      BY ViewIs DEF Listed
    <2>2. QED
      BY <2>1, ViewIs, ContentIs
  <1>2. ASSUME NEW n \in Names PROVE Shows(View, n)'
    <2>1. n \in DOMAIN View' <=> Listed(dir', n)
      BY ViewIs
    <2>2. ASSUME NEW j \in 1 .. dir'.count, dir'.files[j].name = n
          PROVE  /\ Len(View'[n]) = dir'.files[j].size
                 /\ \A k \in 0 .. dir'.files[j].size - 1 : ByteAt(disk', dir'.files[j].start, k) = View'[n][k + 1]
      BY <2>2, ViewIs, ContentIs
    <2>3. QED
      BY <2>1, <2>2 DEF Shows
  <1>3. QED
    BY <1>1, <1>2

(* A sector that a step leaves as it is. *)
Stays(t) == SectorIn(disk', t) = SectorIn(disk, t)

(* The sectors of entry j. *)
Holds(j, t) == \E k \in 0 .. dir.files[j].size - 1 : t = dir.files[j].start + (k \div SectorSize)

(* A file whose entry and whose sectors stay is shown as before. *)
LEMMA StillShown ==
  ASSUME Typed, NEW G, NEW n, Shows(G, n), Alike(dir, dir', n),
         \A j \in 1 .. dir.count : dir.files[j].name = n => \A t \in Int : Holds(j, t) => Stays(t)
  PROVE  Shows(G, n)'
  <1>1. Listed(dir, n) <=> Listed(dir', n)
    BY DEF Listed, Alike
  <1>2. ASSUME NEW i \in 1 .. dir'.count, dir'.files[i].name = n
        PROVE  /\ Len(G[n]) = dir'.files[i].size
               /\ \A k \in 0 .. dir'.files[i].size - 1 :
                    SectorIn(disk', dir'.files[i].start + (k \div SectorSize))[k % SectorSize] = G[n][k + 1]
    <2>1. PICK j \in 1 .. dir.count : dir.files[j] = dir'.files[i]
      BY <1>2 DEF Alike
    <2>2. dir.files[j].start \in Int /\ dir.files[j].size \in Nat
      BY Fields DEF Typed
    <2>3. ASSUME NEW k \in 0 .. dir.files[j].size - 1
          PROVE  SectorIn(disk', dir.files[j].start + (k \div SectorSize))[k % SectorSize] = G[n][k + 1]
      <3>1. SectorIn(disk, dir.files[j].start + (k \div SectorSize))[k % SectorSize] = G[n][k + 1]
        BY <1>2, <2>1 DEF Shows, ByteAt
      <3>2. k \in Nat /\ dir.files[j].start + (k \div SectorSize) \in Int
        BY <2>2, Offset
      <3>3. Stays(dir.files[j].start + (k \div SectorSize))
        BY <1>2, <2>1, <3>2 DEF Holds
      <3>4. QED
        BY <3>1, <3>3 DEF Stays
    <2>4. Len(G[n]) = dir.files[j].size
      BY <1>2, <2>1 DEF Shows
    <2>5. QED
      BY <2>1, <2>3, <2>4
  <1>3. QED
    BY <1>1, <1>2 DEF Shows, ByteAt

LEMMA AlikeSelf == ASSUME NEW d, NEW n PROVE Alike(d, d, n)
  BY DEF Alike

LEMMA AlikeBoth ==
  ASSUME NEW d, NEW e, NEW f, NEW n, Alike(d, e, n), Alike(d, f, n)
  PROVE  Alike(e, f, n)
  BY DEF Alike

(* Nothing changes what `Loaded' would be but a write of the directory. *)
LEMMA StillSaved ==
  ASSUME NEW n, Saved(n), Alike(dir, dir', n), ondisk' = ondisk
  PROVE  Saved(n)'
  <1>1. Loaded' = Loaded
    BY DEF Loaded
  <1>2. Alike(dir', Loaded, n)
    BY AlikeBoth DEF Saved
  <1>3. QED
    BY <1>1, <1>2 DEF Saved

(* What shows a file is what the view has of it. *)
LEMMA ShownIs ==
  ASSUME Typed', Good(dir)', NEW G, NEW n \in Names, n \in DOMAIN G, G[n] \in Seq(Byte), Shows(G, n)'
  PROVE  View'[n] = G[n]
  <1>1. PICK j \in 1 .. dir'.count : dir'.files[j].name = n
    BY DEF Shows, Listed
  <1> DEFINE s == G[n]
             t == Content(j)'
             z == dir'.files[j].size
  <1>2. /\ View'[n] = t /\ t \in Seq(Byte) /\ Len(t) = z
        /\ \A k \in 0 .. z - 1 : t[k + 1] = ByteAt(disk', dir'.files[j].start, k)
    BY <1>1, ViewIs, ContentIs
  <1>3. Len(s) = z /\ \A k \in 0 .. z - 1 : ByteAt(disk', dir'.files[j].start, k) = s[k + 1]
    BY <1>1 DEF Shows
  <1>4. \A b \in 1 .. z : b - 1 \in 0 .. z - 1 /\ (b - 1) + 1 = b
    BY Fields DEF Typed
  <1>5. \A b \in 1 .. z : s[b] = t[b]
    BY <1>2, <1>3, <1>4
  <1>6. s \in Seq(Byte)
    OBVIOUS
  <1> HIDE DEF s, t
  <1>7. s = t
    BY <1>2, <1>3, <1>5, <1>6, SeqEqual
  <1>8. QED
    BY <1>2, <1>7 DEF s, t

(* The view is what shows every file. *)
LEMMA SeenIs ==
  ASSUME Typed', Good(dir)', NEW G, DOMAIN G \subseteq Names, G = [n \in DOMAIN G |-> G[n]],
         \A n \in DOMAIN G : G[n] \in Seq(Byte), \A n \in Names : Shows(G, n)'
  PROVE  View' = G
  <1>1. \A n \in Names : n \in DOMAIN G <=> n \in DOMAIN View'
    BY ViewIs DEF Shows
  <1>2. DOMAIN G = DOMAIN View'
    BY <1>1, ViewIs
  <1>3. \A n \in DOMAIN G : G[n] = View'[n]
    BY ShownIs
  <1>4. QED
    BY <1>2, <1>3, ViewIs

(* When no call is on, what is seen is what the directory says. *)
LEMMA Rests ==
  ASSUME Typed', Good(dir)', \A q \in Procs : calls'[q].pc = "idle" /\ calls'[q].op = "none", SeenStep,
         \A m \in Names \ unsafe' : Saved(m)'
  PROVE  FilesInv' /\ seen' = View' /\ Current' = NoName
  <1>1. ~Busy' /\ Current' = NoName
    BY DEF Busy, Changing, Current
  <1>2. seen' = View'
    BY <1>1 DEF SeenStep
  <1>3. SeenTyped'
    BY <1>2, ViewIs, ViewShows DEF SeenTyped
  <1>4. ASSUME NEW m \in Names PROVE Same(m)'
    <2>1. Shows(View, m)'
      BY ViewShows
    <2>2. QED
      BY <1>2, <2>1 DEF Shows, Same
  <1>5. QED
    BY <1>1, <1>2, <1>3, <1>4 DEF FilesInv, WorkOn, AllSame

(* Before the first step of a call, *)
LEMMA Quiet ==
  ASSUME Preemptible = {}, DirInv, FilesInv, NEW p \in Procs, May(p), calls[p].pc = "idle"
  PROVE  /\ AllSame /\ Current = NoName
         /\ \A m \in Names \ unsafe : Saved(m)
         /\ \A q \in Procs : calls[q].pc = "idle" /\ calls[q].op = "none"
  <1>1. \A q \in Procs : calls[q].pc = "idle" /\ calls[q].op = "none"
    BY DEF May, DirInv, CallOn
  <1>2. AllSame
    BY <1>1 DEF FilesInv, Only, WorkOn
  <1>3. Current = NoName
    BY <1>1 DEF Current, Busy, Changing
  <1>4. \A m \in Names \ unsafe : Saved(m)
    BY <1>1, <1>3, SizesAssumption DEF FilesInv, Deleting
  <1>5. QED
    BY <1>1, <1>2, <1>3, <1>4

(* in it, *)
LEMMA Inside ==
  ASSUME Preemptible = {}, DirInv, FilesInv, NEW p \in Procs, May(p), Changing(p)
  PROVE  /\ WorkOn(calls[p]) /\ Current = calls[p].n /\ calls[p].n \in Names
         /\ calls[p] \in Call /\ CallOn(dir, calls[p]) /\ calls[p].op \notin {"none", "read"}
         /\ calls[p].op # "delete" => \A m \in Names \ (unsafe \cup {calls[p].n}) : Saved(m)
  <1>1. \A q \in Procs \ {p} : calls[q].pc = "idle" /\ calls[q].op = "none"
    BY DEF May, DirInv, CallOn
  <1>2. Only(p)
    BY <1>1 DEF Only
  <1>3. Current = calls[p].n /\ WorkOn(calls[p])
    BY <1>2, CurrentIs DEF FilesInv
  <1>4. calls[p] \in Call /\ CallOn(dir, calls[p])
    BY DEF DirInv, Typed
  <1>5. calls[p].n \in Names /\ calls[p].op \notin {"none", "read"}
    BY <1>4 DEF CallOn, Changing
  <1>6. calls[p].op # "delete" => ~Deleting
    BY <1>1 DEF Deleting
  <1>7. QED
    BY <1>3, <1>4, <1>5, <1>6 DEF FilesInv

(* and when it returns. *)
LEMMA Over ==
  ASSUME Preemptible = {}, DirInv, NEW p \in Procs, May(p), calls' = [calls EXCEPT ![p] = Idle]
  PROVE  \A q \in Procs : calls'[q].pc = "idle" /\ calls'[q].op = "none"
  <1>1. \A q \in Procs \ {p} : calls[q].pc = "idle" /\ calls[q].op = "none"
    BY DEF May, DirInv, CallOn
  <1>2. QED
    BY <1>1 DEF DirInv, Typed, Idle

LEMMA AllStill ==
  ASSUME Typed, NEW G, NEW n, Shows(G, n), Alike(dir, dir', n), disk' = disk
  PROVE  Shows(G, n)'
  BY StillShown DEF Stays

(* A call that fails at once, or has nothing to write. *)
LEMMA Answers ==
  ASSUME Preemptible = {}, DirInv, FilesInv, NEW p \in Procs, May(p), calls[p].pc = "idle",
         Typed', Good(dir)', NEW r, r \in {Failed, Done(<<>>)}, Answer(p, r), SeenStep,
         \A n \in Names : Alike(dir, dir', n)
  PROVE  FilesInv' /\ PromiseStep
  <1>1. /\ calls' = [calls EXCEPT ![p] = Idle] /\ ret' = r
        /\ disk' = disk /\ ondisk' = ondisk /\ unsafe' = unsafe
    BY DEF Answer, Return
  <1>2. /\ AllSame /\ Current = NoName /\ \A m \in Names \ unsafe : Saved(m)
    BY Quiet
  <1>3. FilesInv' /\ seen' = View' /\ Current' = NoName
    <2>1. \A m \in Names \ unsafe' : Saved(m)'
      BY <1>1, <1>2, StillSaved
    <2>2. QED
      BY <1>1, <2>1, Over, Rests
  <1>4. PICK G : G = seen
    OBVIOUS
  <1>5. \A n \in Names : Shows(G, n)'
    <2>1. \A n \in Names : Shows(G, n)
      BY <1>2, <1>4 DEF AllSame, Same
    <2>2. QED
      BY <1>1, <2>1, AllStill DEF DirInv
  <1>6. View' = G
    BY <1>4, <1>5, SeenIs DEF FilesInv, SeenTyped
  <1>7. Promise!Fail \/ Promise!Nothing
    BY <1>1, <1>2, <1>3, <1>4, <1>6
       DEF Promise!Fail, Promise!Nothing, Promise!Failed, Promise!Done, Failed, Done, NoName, Promise!NoName
  <1>8. QED
    BY <1>3, <1>7 DEF PromiseStep, Promise!Next

(* What a call makes of its file is a sequence of bytes. *)
LEMMA ResultsTyped ==
  ASSUME SeenTyped, NEW n \in Names, NEW op, NEW f \in Results(op, n)
  PROVE  f \in Seq(Byte)
  <1> DEFINE old == Promise!Old(n)
  <1>1. AllBuffers \subseteq Seq(Byte)
    BY SizesAssumption DEF AllBuffers, Byte
  <1>2. old \in Seq(Byte)
    BY DEF Promise!Old, SeenTyped
  <1> HIDE DEF old
  <1>3. ASSUME NEW b \in Seq(Byte), NEW o \in Nat, o <= Len(old)
        PROVE  Promise!Overlay(old, b, o) \in Seq(Byte)
    <2>1. SubSeq(old, 1, o) \in Seq(Byte) /\ SubSeq(old, o + Len(b) + 1, Len(old)) \in Seq(Byte)
      BY <1>2, <1>3, LenProperties
    <2>2. QED
      BY <2>1 DEF Promise!Overlay
  <1>4. CASE op = "write"
    BY <1>1, <1>4 DEF Results
  <1>5. CASE op = "append"
    <2>1. PICK b \in AllBuffers : f = old \o b
      BY <1>5 DEF Results, old
    <2>2. QED
      BY <1>1, <1>2, <2>1
  <1>6. CASE op = "write_at"
    <2>1. PICK b \in AllBuffers, o \in {x \in 0 .. MaxSize : x <= Len(old)} : f = Promise!Overlay(old, b, o)
      BY <1>6 DEF Results, old
    <2>2. QED
      BY <1>1, <1>3, <2>1
  <1>7. op \in {"write", "append", "write_at"}
    BY DEF Results
  <1>8. QED
    BY <1>4, <1>5, <1>6, <1>7

(* A call that saves its file has taken effect. *)
LEMMA Changes ==
  ASSUME SeenTyped, NEW n \in Names, NEW op, NEW f \in Results(op, n), Current = n, Current' = NoName,
         seen' = [m \in DOMAIN seen \cup {n} |-> IF m = n THEN f ELSE seen[m]],
         unsafe' = {}, ret' = Done(<<>>)
  PROVE  PromiseStep
  <1> DEFINE old == Promise!Old(n)
  <1>1. Promise!Changes(n, f)
    BY DEF Promise!Changes, Promise!Done, Done, NoName, Promise!NoName
  <1>2. CASE op = "write"
    <2>1. f \in AllBuffers /\ Promise!Write(n, f)
      BY <1>1, <1>2 DEF Results, Promise!Write
    <2>2. QED
      BY <2>1 DEF PromiseStep, Promise!Next
  <1>3. CASE op = "append"
    <2>1. PICK b \in AllBuffers : f = old \o b
      BY <1>3 DEF Results
    <2>2. Promise!Appends(n, b)
      BY <1>1, <2>1 DEF Promise!Appends
    <2>3. QED
      BY <2>2 DEF PromiseStep, Promise!Next
  <1>4. CASE op = "write_at"
    <2>1. PICK b \in AllBuffers, o \in {x \in 0 .. MaxSize : x <= Len(old)} : f = Promise!Overlay(old, b, o)
      BY <1>4 DEF Results
    <2>2. Promise!WriteAt(n, b, o)
      BY <1>1, <2>1 DEF Promise!WriteAt
    <2>3. QED
      BY <2>1, <2>2 DEF PromiseStep, Promise!Next
  <1>5. op \in {"write", "append", "write_at"}
    BY DEF Results
  <1>6. QED
    BY <1>2, <1>3, <1>4, <1>5

(* Files that are shown as before are the same after a failure. *)
LEMMA Spared ==
  ASSUME Typed', Good(dir)', SeenTyped, seen' = View', NEW G, G = seen, NEW N,
         \A m \in Names \ N : Shows(G, m)'
  PROVE  Promise!SameBut(N)
  <1>1. ASSUME NEW m \in Names \ N
        PROVE  (m \in DOMAIN View' <=> m \in DOMAIN G) /\ (m \in DOMAIN G => View'[m] = G[m])
    <2>1. m \in DOMAIN G <=> m \in DOMAIN View'
      BY <1>1, ViewIs DEF Shows
    <2>2. m \in DOMAIN G => View'[m] = G[m]
      BY <1>1, ShownIs DEF SeenTyped
    <2>3. QED
      BY <2>1, <2>2
  <1>2. QED
    BY <1>1 DEF Promise!SameBut

(* A change of one entry. *)
LEMMA OneEntry ==
  ASSUME NEW d, NEW e, d.count \in Nat, NEW i \in Nat, NEW n, e.files[i].name = n,
         \/ i \in 1 .. d.count /\ e.count = d.count /\ d.files[i].name = n
         \/ i = d.count + 1 /\ e.count = i,
         \A k \in 1 .. d.count : k # i => e.files[k] = d.files[k]
  PROVE  \A m : m # n => Alike(d, e, m)
  BY DEF Alike

(* The sectors of a file are its own. *)
LEMMA InRun ==
  ASSUME Typed, Good(dir), NEW j \in 1 .. dir.count, NEW t \in Int, Holds(j, t)
  PROVE  /\ dir.files[j].start <= t /\ t < dir.files[j].start + need_sectors(dir.files[j].size)
         /\ 0 <= t /\ t < dir.next_free /\ t \in Sectors
  <1>1. /\ dir \in Directory /\ dir.files[j].start \in Int /\ dir.files[j].size \in Nat
        /\ need_sectors(dir.files[j].size) \in Nat /\ dir.next_free \in Nat /\ dir.next_free <= DataEnd
    BY Fields DEF Typed
  <1>2. PICK k \in 0 .. dir.files[j].size - 1 : t = dir.files[j].start + (k \div SectorSize)
    BY DEF Holds
  <1>3. k \div SectorSize \in 0 .. need_sectors(dir.files[j].size) - 1
    BY <1>1, Needed
  <1>4. Reserved(dir, j, need_sectors(dir.files[j].size))
    BY <1>1, GoodIs
  <1>5. dir.files[j].start <= t /\ t < dir.files[j].start + need_sectors(dir.files[j].size)
    BY <1>1, <1>2, <1>3
  <1>6. 0 <= dir.files[j].start /\ dir.files[j].start + need_sectors(dir.files[j].size) <= dir.next_free
    BY <1>1, <1>4, <1>5 DEF Reserved
  <1>7. QED
    BY <1>1, <1>5, <1>6, Sizes DEF Sectors

LEMMA Elsewhere ==
  ASSUME Typed, Good(dir), NEW i \in 1 .. dir.count, NEW j \in 1 .. dir.count, i # j,
         NEW m \in Nat, Reserved(dir, i, m), NEW t \in Int, Holds(j, t)
  PROVE  ~(dir.files[i].start <= t /\ t < dir.files[i].start + m)
  <1>1. dir.files[j].start <= t /\ t < dir.files[j].start + need_sectors(dir.files[j].size)
    BY InRun
  <1>2. dir.files[i].start \in Int /\ dir.files[j].start \in Int /\ need_sectors(dir.files[j].size) \in Nat
    BY Fields DEF Typed
  <1>3. QED
    BY <1>1, <1>2 DEF Reserved

LEMMA OneSectorOut ==
  ASSUME NEW s, NEW b, Transfer(s, b)
  PROVE  /\ \A t : t # s => Stays(t)
         /\ s \in Sectors => SectorIn(disk', s) = b
  BY DEF Transfer, Stays, SectorIn

(* A sector written in the room of entry i, or behind all files, is in no other file. *)
LEMMA OthersShown ==
  ASSUME Typed, Good(dir), NEW i \in 1 .. dir.count, NEW G, NEW m, m # dir.files[i].name, Shows(G, m),
         Alike(dir, dir', m), NEW s \in Int, \A t : t # s => Stays(t),
         \/ s >= dir.next_free
         \/ \E r \in Nat : Reserved(dir, i, r) /\ dir.files[i].start <= s /\ s < dir.files[i].start + r
  PROVE  Shows(G, m)'
  <1>1. ASSUME NEW j \in 1 .. dir.count, dir.files[j].name = m, NEW t \in Int, Holds(j, t)
        PROVE  Stays(t)
    <2>1. j # i
      BY <1>1
    <2>2. t < dir.next_free /\ dir.next_free \in Nat
      BY <1>1, InRun, Fields DEF Typed
    <2>3. t # s
      BY <1>1, <2>1, <2>2, Elsewhere
    <2>4. QED
      BY <2>3
  <1>2. QED
    BY <1>1, StillShown

-----------------------------------------------------------------------------
(* Writing a whole file. *)

LEMMA SameResults == ASSUME NEW op, NEW n, seen' = seen PROVE Results(op, n)' = Results(op, n)
  <1>1. Promise!Old(n)' = Promise!Old(n)
    BY DEF Promise!Old
  <1>2. QED
    BY <1>1 DEF Results, Promise!Overlay

LEMMA Starts ==
  ASSUME Preemptible = {}, DirInv, DirInv', FilesInv, SeenStep, NEW p \in Procs, May(p), calls[p].pc = "idle",
         NEW op \in {"write", "append", "write_at"}, NEW n \in Names, NEW b \in Seq(Byte), b \in Results(op, n),
         NEW i \in 1 .. dir'.count, dir'.files[i].name = n, dir'.files[i].size = Len(b),
         \A m \in Names \ {n} : Alike(dir, dir', m),
         Writing(p, op, n, b, i, dir'.files[i].start), UNCHANGED <<disk, ondisk, io_buf>>
  PROVE  FilesInv' /\ PromiseStep
  <1>0. PICK c : c = [Idle EXCEPT !.op = op, !.pc = IF b = <<>> THEN "save" ELSE "fill",
                                  !.n = n, !.i = i, !.buf = b, !.s = dir'.files[i].start]
    OBVIOUS
  <1>1. /\ c.pc = (IF b = <<>> THEN "save" ELSE "fill") /\ c.op = op /\ c.n = n /\ c.i = i
        /\ c.buf = b /\ c.s = dir'.files[i].start
    BY <1>0 DEF Idle
  <1>2. Goto(p, c) /\ calls'[p] = c
    BY <1>0 DEF Writing, Goto, DirInv, Typed
  <1>3. c \in Call
    BY <1>2 DEF DirInv, Typed
  <1>4. AllSame /\ \A m \in Names \ unsafe : Saved(m)
    BY Quiet
  <1>5. ASSUME seen' = seen
        PROVE  WorkOn(c)'
    <2>1. PICK G : G = seen
      OBVIOUS
    <2>2. \A m \in Names \ {n} : Shows(G, m)'
      BY <1>4, <2>1, AllStill DEF AllSame, Same, DirInv
    <2>3. \A m \in Names \ {n} : Same(m)'
      BY <1>5, <2>1, <2>2 DEF Same, Shows
    <2>4. b \in Results(c.op, c.n)'
      <3>1. b \in Results(c.op, c.n)
        BY <1>1
      <3>2. QED
        BY <1>5, <3>1, SameResults
    <2>5. Len(b) \in Nat /\ dir'.files[i].start \in Int
      BY Fields, LenProperties DEF DirInv, Typed
    <2>6. b = <<>> => SaveOn(c, b)'
      BY <1>1, <2>5 DEF SaveOn
    <2>7. b # <<>> => FillOn(c, b)'
      <3>1. 0 % SectorSize = 0 /\ 0 \div SectorSize = 0
        BY Sizes
      <3>2. QED
        BY <1>1, <2>5, <3>1 DEF FillOn, Rest
    <2>8. ChangeOn(c)'
      BY <1>1, <2>3, <2>4, <2>6, <2>7 DEF ChangeOn
    <2>9. QED
      BY <1>1, <2>8 DEF WorkOn
  <1>6. \A m \in Names \ (unsafe \cup {n}) : Saved(m)'
    BY <1>4, StillSaved
  <1>7. QED
    BY <1>1, <1>2, <1>3, <1>5, <1>6, Proceeds DEF DirInv

LEMMA FileWritten ==
  ASSUME Preemptible = {}, DirInv, DirInv', FilesInv, SeenStep, NEW p \in Procs, May(p), calls[p].pc = "idle",
         NEW op \in {"write", "append", "write_at"}, NEW n \in Names, NEW b \in Seq(Byte), b \in Results(op, n),
         FileWrite(p, op, n, b)
  PROVE  FilesInv' /\ PromiseStep
  <1>1. PICK i : i = Find(n)
    OBVIOUS
  <1> DEFINE need == need_sectors(Len(b))
             inPlace == i # 0 /\ need <= need_sectors(dir.files[i].size)
             room == dir.next_free + need <= DataEnd
             k == IF i = 0 THEN dir.count + 1 ELSE i
  <1>2. /\ dir \in Directory /\ dir.count \in Nat /\ Len(b) \in Nat /\ need \in Nat
        /\ \A j \in 1 .. dir.count : j \in Entries
    BY Fields, LenProperties, NeedNat DEF DirInv, Typed
  <1>3. /\ i = 0 => ~Listed(dir, n)
        /\ i # 0 => i \in 1 .. dir.count /\ dir.files[i].name = n
    BY <1>1, FoundListed
  <1>4. ASSUME Answer(p, Failed), dir'.files = dir.files, dir'.count = dir.count
        PROVE  FilesInv' /\ PromiseStep
    <2>1. \A m \in Names : Alike(dir, dir', m)
      BY <1>4 DEF Alike
    <2>2. QED
      BY <1>4, <2>1, Answers DEF DirInv
  <1> HIDE DEF need
  <1>5. CASE /\ inPlace
             /\ dir' = [dir EXCEPT !.files[i].size = Len(b)]
             /\ Writing(p, op, n, b, i, dir.files[i].start)
             /\ UNCHANGED <<disk, ondisk, io_buf>>
    <2>1. i \in 1 .. dir.count /\ i \in Entries /\ i \in Nat /\ dir.files[i].name = n
      BY <1>2, <1>3, <1>5
    <2>2. /\ dir'.count = dir.count
          /\ dir'.files[i].name = n /\ dir'.files[i].size = Len(b) /\ dir'.files[i].start = dir.files[i].start
          /\ \A j \in 1 .. dir.count : j # i => dir'.files[j] = dir.files[j]
      BY <1>2, <1>3, <1>5, <2>1 DEF Directory, File
    <2>3. \A m : m # n => Alike(dir, dir', m)
      BY <1>2, <2>1, <2>2, OneEntry
    <2>4. QED
      BY <1>5, <2>1, <2>2, <2>3, Starts
  <1>6. CASE /\ ~inPlace /\ room /\ (i # 0 \/ dir.count < MaxFiles)
             /\ dir' = [dir EXCEPT !.count = Max({@, k}), !.next_free = @ + need,
                  !.files[k] = [name |-> n, start |-> dir.next_free, size |-> Len(b)]]
             /\ Writing(p, op, n, b, k, dir.next_free)
             /\ UNCHANGED <<disk, ondisk, io_buf>>
    <2>1. PICK e : e = k
      OBVIOUS
    <2>2. e \in Nat /\ e \in Entries /\ e \in 1 .. dir.count + 1 /\ e = IF i = 0 THEN dir.count + 1 ELSE i
      BY <1>2, <1>3, <1>6, <2>1, Sizes DEF Entries
    <2> HIDE DEF k
    <2>3. Max({dir.count, e}) = IF e = dir.count + 1 THEN e ELSE dir.count
      BY <1>2, <2>2, MaxPair
    <2>4. /\ dir'.count = Max({dir.count, e})
          /\ dir'.files[e].name = n /\ dir'.files[e].size = Len(b) /\ dir'.files[e].start = dir.next_free
          /\ \A j \in 1 .. dir.count : j # e => dir'.files[j] = dir.files[j]
      BY <1>2, <1>6, <2>1, <2>2 DEF Directory
    <2>5. e \in 1 .. dir'.count
      BY <1>2, <2>2, <2>3, <2>4
    <2>6. \A m : m # n => Alike(dir, dir', m)
      BY <1>2, <1>3, <2>2, <2>3, <2>4, OneEntry
    <2>7. Writing(p, op, n, b, e, dir'.files[e].start) /\ UNCHANGED <<disk, ondisk, io_buf>>
      BY <1>6, <2>1, <2>4
    <2>8. QED
      BY <2>4, <2>5, <2>6, <2>7, Starts
  <1>7. CASE dir' = [dir EXCEPT !.next_free = @ + need] /\ Answer(p, Failed)
    BY <1>2, <1>4, <1>7 DEF Directory
  <1>8. CASE Answer(p, Failed) /\ UNCHANGED dir
    BY <1>4, <1>8
  <1>9. QED
    BY <1>1, <1>5, <1>6, <1>7, <1>8 DEF FileWrite, need, k

LEMMA SysWriteHolds ==
  ASSUME Preemptible = {}, DirInv, DirInv', FilesInv, SeenStep, NEW p \in Procs, NEW n \in Names, NEW b \in Buffers[n],
         SysWrite(p, n, b)
  PROVE  FilesInv' /\ PromiseStep
  <1>1. b \in Seq(Byte) /\ b \in AllBuffers
    BY SizesAssumption DEF AllBuffers, Byte
  <1>2. b \in Results("write", n)
    BY <1>1 DEF Results
  <1>3. QED
    BY <1>1, <1>2, FileWritten DEF SysWrite, Calls

(* Bytes a step leaves, and those it writes. *)
LEMMA ByteStays ==
  ASSUME NEW a, NEW k, Stays(a + (k \div SectorSize))
  PROVE  ByteAt(disk', a, k) = ByteAt(disk, a, k)
  BY DEF ByteAt, Stays

LEMMA FillHolds ==
  ASSUME Preemptible = {}, DirInv, DirInv', FilesInv, SeenStep, NEW p \in Procs, Fill(p)
  PROVE  FilesInv' /\ PromiseStep
  <1>1. PICK c : c = calls[p]
    OBVIOUS
  <1>2. /\ c.pc = "fill" /\ May(p) /\ Changing(p) /\ UNCHANGED <<dir, disk, ondisk>>
        /\ io_buf' = [k \in Offsets |-> IF k < Len(c.buf) THEN c.buf[k + 1] ELSE 0]
    BY <1>1 DEF Fill, At, Load, Changing
  <1>3. /\ WorkOn(c) /\ c.n \in Names /\ c \in Call /\ c.op \notin {"none", "read"}
        /\ c.op # "delete" => \A m \in Names \ (unsafe \cup {c.n}) : Saved(m)
    BY <1>1, <1>2, Inside
  <1>4. c.op # "delete" /\ ChangeOn(c)
    BY <1>2, <1>3 DEF WorkOn, DeleteOn
  <1>5. PICK d : d = [c EXCEPT !.pc = "out"]
    OBVIOUS
  <1>6. /\ Goto(p, d) /\ d \in Call /\ d.pc = "out" /\ d.n = c.n /\ d.i = c.i /\ d.op = c.op
        /\ d.buf = c.buf /\ d.s = c.s
    <2>1. "out" \in Places
      BY DEF Places
    <2>2. Goto(p, d)
      BY <1>1, <1>5 DEF Fill
    <2>3. QED
      BY <1>3, <1>5, <2>1, <2>2, Zenon DEF Call
  <1>7. ASSUME seen' = seen
        PROVE  WorkOn(d)'
    <2>1. PICK f \in Results(c.op, c.n) : FillOn(c, f)
      BY <1>2, <1>4 DEF ChangeOn
    <2>2. f \in Results(d.op, d.n)'
      BY <1>6, <1>7, <2>1, SameResults
    <2>3. FillOn(d, f)'
      <3>1. \A x \in Offsets : x < Len(c.buf) => io_buf'[x] = c.buf[x + 1]
        BY <1>2
      <3>2. QED
        BY <1>2, <1>6, <2>1, <3>1 DEF FillOn, Rest
    <2>4. d.i \in 1 .. dir'.count /\ dir'.files[d.i].name = d.n /\ \A m \in Names \ {d.n} : Same(m)'
      BY <1>2, <1>4, <1>6, <1>7 DEF ChangeOn, Same, Shows
    <2>5. ChangeOn(d)'
      BY <1>6, <2>2, <2>3, <2>4 DEF ChangeOn
    <2>6. QED
      BY <1>4, <1>6, <2>5 DEF WorkOn
  <1>8. \A m \in Names \ (unsafe \cup {c.n}) : Saved(m)'
    BY <1>2, <1>3, <1>4, AlikeSelf, StillSaved
  <1>9. QED
    BY <1>1, <1>2, <1>3, <1>6, <1>7, <1>8, Proceeds DEF DirInv

(* A step on the way to f. *)
StageOn(d, f) ==
  /\ d.pc \in {"save", "save_rest"} => SaveOn(d, f)
  /\ d.pc \in {"fill", "out"} => FillOn(d, f)
  /\ d.pc \in {"copy_in", "copy_out"} => CopyOn(d, f)
  /\ d.pc \in {"get", "put"} => PutOn(d, f)

LEMMA Continues ==
  ASSUME Preemptible = {}, DirInv, DirInv', FilesInv, SeenStep, NEW p \in Procs, May(p), Changing(p),
         NEW c, c = calls[p], c.op # "delete", ChangeOn(c),
         NEW d, Goto(p, d), d.pc \notin {"idle", "read"}, d.n = c.n, d.i = c.i, d.op = c.op,
         \A m : m # c.n => Alike(dir, dir', m), UNCHANGED ondisk,
         c.i \in 1 .. dir'.count, dir'.files[c.i].name = c.n,
         NEW s \in Int, \A t : t # s => Stays(t),
         \/ s >= dir.next_free
         \/ \E r \in Nat : Reserved(dir, c.i, r) /\ dir.files[c.i].start <= s /\ s < dir.files[c.i].start + r,
         NEW f \in Results(c.op, c.n), StageOn(d, f)'
  PROVE  FilesInv' /\ PromiseStep
  <1>1. calls'[p] = d /\ d \in Call
    BY DEF Goto, DirInv, Typed
  <1>2. c.n \in Names /\ \A m \in Names \ (unsafe \cup {c.n}) : Saved(m)
    BY Inside
  <1>3. Typed /\ Good(dir) /\ c.i \in 1 .. dir.count /\ dir.files[c.i].name = c.n
    BY DEF DirInv, ChangeOn
  <1>4. ASSUME seen' = seen
        PROVE  WorkOn(d)'
    <2>1. PICK G : G = seen
      OBVIOUS
    <2>2. \A m \in Names \ {c.n} : Shows(G, m)'
      <3>1. \A m \in Names \ {c.n} : Shows(G, m)
        BY <2>1 DEF ChangeOn, Same
      <3>2. QED
        BY <1>3, <3>1, OthersShown
    <2>3. \A m \in Names \ {d.n} : Same(m)'
      BY <1>4, <2>1, <2>2 DEF Same, Shows
    <2>4. f \in Results(d.op, d.n)'
      BY <1>4, SameResults
    <2>5. ChangeOn(d)'
      BY <2>3, <2>4 DEF ChangeOn, StageOn
    <2>6. QED
      BY <2>5 DEF WorkOn
  <1>5. \A m \in Names \ (unsafe \cup {d.n}) : Saved(m)'
    BY <1>2, StillSaved
  <1>6. QED
    BY <1>1, <1>2, <1>4, <1>5, Proceeds DEF DirInv

(* The state of a call that is changing its file. *)
LEMMA Changer ==
  ASSUME Preemptible = {}, DirInv, FilesInv, NEW p \in Procs, May(p), NEW c, c = calls[p],
         c.pc \in {"fill", "out", "copy_in", "copy_out", "get", "put"}
  PROVE  /\ Changing(p) /\ c.op # "delete" /\ ChangeOn(c) /\ c \in Call /\ CallOn(dir, c)
         /\ c.n \in Names /\ c.i \in 1 .. dir.count /\ c.i \in Nat /\ dir.files[c.i].name = c.n
         /\ dir.files[c.i].start \in Int /\ dir.files[c.i].size \in Nat /\ dir.next_free \in Nat
         /\ dir.count \in Nat /\ Typed /\ Good(dir) /\ Reserved(dir, c.i, need_sectors(dir.files[c.i].size))
         /\ need_sectors(dir.files[c.i].size) \in Nat
         /\ \E f \in Results(c.op, c.n) : StageOn(c, f) /\ f \in Seq(Byte)
  <1>1. Changing(p)
    BY DEF Changing
  <1>2. /\ WorkOn(c) /\ c.n \in Names /\ c \in Call /\ CallOn(dir, c)
    BY <1>1, Inside
  <1>3. c.op # "delete" /\ ChangeOn(c)
    BY <1>2 DEF WorkOn, DeleteOn
  <1>4. Typed /\ Good(dir) /\ c.i \in 1 .. dir.count /\ dir.files[c.i].name = c.n
    BY <1>3 DEF ChangeOn, DirInv
  <1>5. /\ dir.files[c.i].start \in Int /\ dir.files[c.i].size \in Nat /\ dir.next_free \in Nat /\ dir.count \in Nat
        /\ need_sectors(dir.files[c.i].size) \in Nat
    BY <1>4, Fields DEF Typed
  <1>6. Reserved(dir, c.i, need_sectors(dir.files[c.i].size))
    BY <1>4, GoodIs DEF Typed
  <1>7. c.i \in Nat
    BY <1>4, <1>5
  <1>8. PICK f \in Results(c.op, c.n) : StageOn(c, f)
    BY <1>3 DEF ChangeOn, StageOn
  <1>9. f \in Seq(Byte)
    BY <1>2, ResultsTyped DEF FilesInv
  <1>10. QED
    BY <1>1, <1>2, <1>3, <1>4, <1>5, <1>6, <1>7, <1>8, <1>9

(* What is left of a buffer behind its first m bytes. *)
Left(r, s, m) ==
  /\ Len(r) = IF m <= Len(s) THEN Len(s) - m ELSE 0
  /\ \A k \in 1 .. Len(r) : r[k] = s[m + k]
  /\ r = <<>> <=> Len(s) <= m
  /\ r \in Seq(Byte)

LEMMA LeftOf ==
  ASSUME NEW s \in Seq(Byte), NEW m \in Nat, NEW r, r = SubSeq(s, m + 1, Len(s))
  PROVE  Left(r, s, m)
  <1>1. PICK z : z = Len(s)
    OBVIOUS
  <1>2. z \in Nat /\ m + 1 \in Int
    BY <1>1, LenProperties
  <1>3. \A i \in (m + 1) .. z : i \in 1 .. Len(s)
    BY <1>1, <1>2
  <1>4. \A i \in (m + 1) .. z : s[i] \in Byte
    BY <1>3, ElementOfSeq
  <1>5. /\ r \in Seq(Byte) /\ Len(r) = (IF m + 1 <= z THEN z - (m + 1) + 1 ELSE 0)
        /\ \A i \in 1 .. z - (m + 1) + 1 : r[i] = s[(m + 1) + i - 1]
    BY <1>1, <1>2, <1>4, SubSeqProperties
  <1>6. Len(r) = IF m <= z THEN z - m ELSE 0
    BY <1>2, <1>5
  <1>7. ASSUME NEW k \in 1 .. Len(r) PROVE r[k] = s[m + k]
    <2>1. k \in 1 .. z - (m + 1) + 1 /\ (m + 1) + k - 1 = m + k
      BY <1>2, <1>6
    <2>2. r[k] = s[(m + 1) + k - 1]
      BY <1>5, <2>1
    <2>3. QED
      BY <2>1, <2>2
  <1>8. r = <<>> <=> Len(r) = 0
    BY <1>5, EmptySeq
  <1>9. r = <<>> <=> z <= m
    BY <1>2, <1>6, <1>8
  <1>10. QED
    BY <1>1, <1>5, <1>6, <1>7, <1>9 DEF Left

LEMMA OutHolds ==
  ASSUME Preemptible = {}, DirInv, DirInv', FilesInv, SeenStep, NEW p \in Procs, Out(p)
  PROVE  FilesInv' /\ PromiseStep
  <1>1. PICK c : c = calls[p]
    OBVIOUS
  <1>2. /\ c.pc = "out" /\ May(p) /\ UNCHANGED <<dir, ondisk>> /\ Transfer(c.s, io_buf)
    BY <1>1 DEF Out, At, Transfer
  <1>3. /\ Changing(p) /\ c.op # "delete" /\ ChangeOn(c) /\ c \in Call /\ Typed /\ Good(dir)
        /\ c.i \in 1 .. dir.count /\ dir.files[c.i].name = c.n
        /\ Reserved(dir, c.i, need_sectors(dir.files[c.i].size)) /\ need_sectors(dir.files[c.i].size) \in Nat
        /\ dir.files[c.i].start \in Int /\ dir.files[c.i].size \in Nat
    BY <1>1, <1>2, Changer
  <1>4. PICK f \in Results(c.op, c.n) : StageOn(c, f) /\ f \in Seq(Byte)
    BY <1>1, <1>2, Changer
  <1>5. PICK a, done, z : a = dir.files[c.i].start /\ done = Len(f) - Len(c.buf) /\ z = Len(c.buf)
    OBVIOUS
  <1>6. /\ dir.files[c.i].size = Len(f) /\ c.buf # <<>>
        /\ done >= 0 /\ done % SectorSize = 0 /\ c.s = a + (done \div SectorSize)
        /\ Rest(c, f, done)
        /\ \A k \in 0 .. done - 1 : ByteAt(disk, a, k) = f[k + 1]
        /\ \A x \in Offsets : x < z => io_buf[x] = c.buf[x + 1]
    BY <1>2, <1>4, <1>5 DEF StageOn, FillOn
  <1>7. /\ c.buf \in Seq(Byte) /\ Len(f) \in Nat /\ z \in Nat /\ z # 0 /\ done \in Nat /\ done < Len(f)
        /\ Len(f) = done + z /\ a \in Int
    BY <1>3, <1>4, <1>5, <1>6, LenProperties, EmptySeq DEF Call
  <1>8. /\ done \div SectorSize \in Nat /\ c.s \in Int /\ Holds(c.i, c.s)
    <2>1. done \div SectorSize \in Nat
      BY <1>7, Offset
    <2>2. done \in 0 .. dir.files[c.i].size - 1
      BY <1>6, <1>7
    <2>3. QED
      BY <1>5, <1>6, <1>7, <2>1, <2>2 DEF Holds
  <1>9. c.s \in Sectors /\ a <= c.s /\ c.s < a + need_sectors(dir.files[c.i].size)
    BY <1>3, <1>5, <1>8, InRun
  <1>10. /\ \A t : t # c.s => Stays(t)
         /\ SectorIn(disk', c.s) = io_buf
    BY <1>2, <1>9, OneSectorOut
  <1>11. ASSUME NEW k \in 0 .. Len(f) - 1, k < done + SectorSize
         PROVE  ByteAt(disk', a, k) = f[k + 1]
    <2>0. k \in Nat
      BY <1>7
    <2>1. k \in Nat /\ k \div SectorSize \in Nat
      BY <2>0, Offset
    <2>2. k \div SectorSize = done \div SectorSize <=> done <= k
      BY <1>6, <1>7, <1>11, <2>1, OneSector
    <2>3. CASE k < done
      <3>1. a + (k \div SectorSize) # c.s
        BY <1>6, <1>7, <1>8, <2>1, <2>2, <2>3
      <3>2. ByteAt(disk', a, k) = ByteAt(disk, a, k)
        BY <1>10, <3>1, ByteStays
      <3>3. QED
        BY <1>6, <1>7, <2>1, <2>3, <3>2
    <2>4. CASE done <= k
      <3>1. k % SectorSize = k - done
        BY <1>6, <1>7, <2>1, <2>2, <2>4, InSector
      <3>2. ByteAt(disk', a, k) = io_buf[k - done]
        BY <1>6, <1>10, <2>2, <2>4, <3>1 DEF ByteAt
      <3>3. k - done \in Offsets /\ k - done < z /\ (k - done) + 1 \in 1 .. z
            /\ done + ((k - done) + 1) = k + 1
        BY <1>7, <1>11, <2>1, <2>4, Sizes DEF Offsets
      <3>4. io_buf[k - done] = c.buf[(k - done) + 1] /\ c.buf[(k - done) + 1] = f[done + ((k - done) + 1)]
        BY <1>5, <1>6, <3>3 DEF Rest
      <3>5. QED
        BY <3>2, <3>3, <3>4
    <2>5. QED
      BY <1>7, <2>1, <2>3, <2>4
  <1>12. PICK rest : rest = SubSeq(c.buf, SectorSize + 1, Len(c.buf))
    OBVIOUS
  <1>13. /\ Len(rest) = IF SectorSize <= z THEN z - SectorSize ELSE 0
         /\ \A k \in 1 .. Len(rest) : rest[k] = c.buf[SectorSize + k]
         /\ rest = <<>> <=> z <= SectorSize
    <2>1. PICK s : s = c.buf
      OBVIOUS
    <2>2. PICK m : m = SectorSize
      OBVIOUS
    <2>3. s \in Seq(Byte) /\ m \in Nat /\ rest = SubSeq(s, m + 1, Len(s))
      BY <1>7, <1>12, <2>1, <2>2, Sizes
    <2>4. Left(rest, s, m)
      BY <2>3, LeftOf
    <2>5. QED
      BY <1>5, <2>1, <2>2, <2>4 DEF Left
  <1>14. PICK d : d = [c EXCEPT !.buf = rest, !.s = @ + 1, !.pc = IF rest = <<>> THEN "save" ELSE "fill"]
    OBVIOUS
  <1>15. /\ Goto(p, d) /\ d.pc = (IF rest = <<>> THEN "save" ELSE "fill") /\ d.n = c.n /\ d.i = c.i /\ d.op = c.op
         /\ d.buf = rest /\ d.s = c.s + 1
    <2>1. Goto(p, d)
      BY <1>1, <1>12, <1>14 DEF Out
    <2>2. QED
      BY <1>3, <1>14, <2>1 DEF Call
  <1>16. rest = <<>> => SaveOn(d, f)'
    <2>1. rest = <<>> => \A k \in 0 .. Len(f) - 1 : k < done + SectorSize
      BY <1>7, <1>13, Sizes
    <2>2. QED
      BY <1>2, <1>5, <1>6, <1>11, <1>15, <2>1 DEF SaveOn
  <1>17. rest # <<>> => FillOn(d, f)'
    <2> SUFFICES ASSUME rest # <<>> PROVE FillOn(d, f)'
      OBVIOUS
    <2>1. Len(rest) = z - SectorSize /\ Len(f) - Len(rest) = done + SectorSize /\ SectorSize < z
      BY <1>7, <1>13, Sizes
    <2>2. /\ (done + SectorSize) % SectorSize = 0
          /\ (done + SectorSize) \div SectorSize = (done \div SectorSize) + 1
      BY <1>6, <1>7, NextSector
    <2>3. d.s = a + ((done + SectorSize) \div SectorSize)
      BY <1>6, <1>7, <1>8, <1>15, <2>2
    <2>4. Rest(d, f, done + SectorSize)
      <3>1. ASSUME NEW k \in 1 .. Len(rest) PROVE rest[k] = f[(done + SectorSize) + k]
        <4>1. SectorSize + k \in 1 .. z /\ done + (SectorSize + k) = (done + SectorSize) + k
          BY <1>7, <2>1, <3>1, Sizes
        <4>2. QED
          BY <1>5, <1>6, <1>13, <3>1, <4>1 DEF Rest
      <3>2. QED
        BY <1>15, <3>1 DEF Rest
    <2>5. \A k \in 0 .. (done + SectorSize) - 1 : ByteAt(disk', a, k) = f[k + 1]
      BY <1>7, <1>11, <2>1, Sizes
    <2>6. done + SectorSize >= 0
      BY <1>7, Sizes
    <2>7. QED
      BY <1>2, <1>5, <1>6, <1>15, <2>1, <2>2, <2>3, <2>4, <2>5, <2>6 DEF FillOn, Rest
  <1>18. StageOn(d, f)'
    BY <1>15, <1>16, <1>17 DEF StageOn
  <1>19. \A m : m # c.n => Alike(dir, dir', m)
    BY <1>2, AlikeSelf
  <1>20. QED
    BY <1>1, <1>2, <1>3, <1>5, <1>8, <1>9, <1>10, <1>15, <1>18, <1>19, Continues

(* Saving the directory. *)

LEMMA FirstAlike ==
  ASSUME Typed, dir.magic, dir.count <= FirstEntries, ondisk' = FirstSaved, dir' = dir, NEW n
  PROVE  Saved(n)'
  <1>1. Loaded' = ondisk'
    BY DEF Loaded, FirstSaved, Typed, Directory
  <1>2. /\ ondisk'.count = dir.count /\ dir.count \in Nat /\ dir.count <= MaxFiles
        /\ ondisk'.files = [k \in Entries |-> IF k <= FirstEntries THEN dir.files[k] ELSE ondisk.files[k]]
    BY Fields DEF FirstSaved, Typed, Directory
  <1>3. \A k \in 1 .. dir.count : k \in Entries /\ ondisk'.files[k] = dir.files[k]
    BY <1>2, Sizes DEF Entries
  <1>4. Alike(dir, ondisk', n)
    BY <1>2, <1>3 DEF Alike
  <1>5. QED
    BY <1>1, <1>4 DEF Saved

LEMMA SaveFirstHolds ==
  ASSUME Preemptible = {}, DirInv, DirInv', FilesInv, SeenStep, dir.count <= FirstEntries,
         NEW p \in Procs, SaveFirst(p)
  PROVE  FilesInv' /\ PromiseStep
  <1>1. PICK c : c = calls[p]
    OBVIOUS
  <1>2. PICK d : d = [c EXCEPT !.pc = "save_rest"]
    OBVIOUS
  <1>3. /\ c.pc = "save" /\ May(p) /\ Changing(p) /\ UNCHANGED <<dir, disk, io_buf>> /\ ondisk' = FirstSaved /\ Goto(p, d)
    BY <1>1, <1>2 DEF SaveFirst, At, Changing
  <1>4. WorkOn(c) /\ c.n \in Names /\ c \in Call /\ Typed /\ dir.magic
    BY <1>1, <1>3, Inside DEF DirInv
  <1>5. d \in Call /\ d.pc = "save_rest" /\ d.n = c.n /\ d.i = c.i /\ d.op = c.op
    <2>1. "save_rest" \in Places
      BY DEF Places
    <2>2. QED
      BY <1>2, <1>4, <2>1, Zenon DEF Call
  <1>6. ASSUME seen' = seen PROVE WorkOn(d)'
    <2>1. \A m : Same(m) => Same(m)'
      BY <1>3, <1>6 DEF Same, Shows
    <2>2. CASE c.op = "delete"
      <3>1. GoneOn(c)
        BY <1>3, <1>4, <2>2 DEF WorkOn, DeleteOn
      <3>2. GoneOn(d)'
        BY <1>3, <1>5, <1>6, <2>1, <3>1 DEF GoneOn
      <3>3. QED
        BY <1>5, <2>2, <3>2 DEF WorkOn, DeleteOn
    <2>3. CASE c.op # "delete"
      <3>1. ChangeOn(c)
        BY <1>3, <1>4, <2>3 DEF WorkOn
      <3>2. PICK f \in Results(c.op, c.n) : SaveOn(c, f)
        BY <1>3, <3>1 DEF ChangeOn
      <3>3. f \in Results(d.op, d.n)' /\ SaveOn(d, f)'
        <4>1. Results(c.op, c.n)' = Results(c.op, c.n)
          BY <1>6, SameResults
        <4>2. SaveOn(d, f)'
          BY <1>3, <1>5, <3>2 DEF SaveOn
        <4>3. QED
          BY <1>5, <3>2, <4>1, <4>2
      <3>4. ChangeOn(d)'
        BY <1>3, <1>5, <2>1, <3>1, <3>3 DEF ChangeOn
      <3>5. QED
        BY <1>5, <2>3, <3>4 DEF WorkOn
    <2>4. QED
      BY <2>2, <2>3
  <1>7. \A m \in Names \ (unsafe \cup {d.n}) : Saved(m)'
    BY <1>3, <1>4, FirstAlike
  <1>8. QED
    BY <1>1, <1>3, <1>4, <1>5, <1>6, <1>7, Proceeds DEF DirInv

(* The file is there, as the call has made it. *)
LEMMA MadeShown ==
  ASSUME Typed, Good(dir), SeenTyped, NEW n \in Names, NEW f, NEW i \in 1 .. dir.count, dir.files[i].name = n,
         dir.files[i].size = Len(f),
         \A k \in 0 .. Len(f) - 1 : ByteAt(disk, dir.files[i].start, k) = f[k + 1],
         \A m \in Names \ {n} : Same(m),
         NEW G, G = [m \in DOMAIN seen \cup {n} |-> IF m = n THEN f ELSE seen[m]]
  PROVE  \A m \in Names : Shows(G, m)
  <1>1. ASSUME NEW m \in Names \ {n} PROVE Shows(G, m)
    <2>1. Shows(seen, m) /\ m # n
      BY DEF Same
    <2>2. (m \in DOMAIN G <=> m \in DOMAIN seen) /\ (m \in DOMAIN seen => G[m] = seen[m])
      BY <2>1
    <2>3. \A j \in 1 .. dir.count : dir.files[j].name = m => m \in DOMAIN seen
      BY <2>1 DEF Shows, Listed
    <2>4. QED
      BY <2>1, <2>2, <2>3 DEF Shows
  <1>2. \A j \in 1 .. dir.count : dir.files[j].name = n => j = i
    BY GoodIs DEF Distinct, Typed
  <1>3. Shows(G, n)
    <2>1. n \in DOMAIN G /\ G[n] = f /\ Listed(dir, n)
      BY DEF Listed
    <2>2. QED
      BY <1>2, <2>1 DEF Shows
  <1>4. QED
    BY <1>1, <1>3

LEMMA SaveRestHolds ==
  ASSUME Preemptible = {}, DirInv, DirInv', FilesInv, SeenStep, NEW p \in Procs, SaveRest(p)
  PROVE  FilesInv' /\ PromiseStep
  <1>1. PICK c : c = calls[p]
    OBVIOUS
  <1>2. /\ c.pc = "save_rest" /\ May(p) /\ Changing(p) /\ UNCHANGED <<dir, disk>> /\ ondisk' = dir
        /\ calls' = [calls EXCEPT ![p] = Idle] /\ ret' = Done(<<>>) /\ unsafe' = {}
    BY <1>1 DEF SaveRest, At, Changing, Return
  <1>3. WorkOn(c) /\ c.n \in Names /\ Current = c.n /\ Typed /\ Good(dir) /\ dir.magic /\ SeenTyped /\ Good(dir)' /\ Typed'
    BY <1>1, <1>2, Inside DEF DirInv, FilesInv
  <1>4. \A m : Saved(m)'
    <2>1. Loaded' = dir
      BY <1>2, <1>3 DEF Loaded
    <2>2. QED
      BY <1>2, <2>1, AlikeSelf DEF Saved
  <1>5. FilesInv' /\ seen' = View' /\ Current' = NoName
    BY <1>2, <1>3, <1>4, Over, Rests
  <1>6. CASE c.op = "delete"
    <2>1. GoneOn(c)
      BY <1>2, <1>3, <1>6 DEF WorkOn, DeleteOn
    <2>2. PICK G : G = [m \in DOMAIN seen \ {c.n} |-> seen[m]]
      OBVIOUS
    <2>3. \A m \in Names : Shows(G, m)
      BY <2>1, <2>2 DEF GoneOn, Same, Shows, Listed
    <2>4. \A m \in Names : Shows(G, m)'
      BY <1>2, <2>3 DEF Shows
    <2>5. DOMAIN G \subseteq Names /\ G = [n \in DOMAIN G |-> G[n]] /\ \A n \in DOMAIN G : G[n] \in Seq(Byte)
      BY <1>3, <2>2 DEF SeenTyped
    <2>6. seen' = G
      BY <1>3, <1>5, <2>4, <2>5, SeenIs
    <2>7. Promise!Delete(c.n)
      BY <1>2, <1>3, <1>5, <2>1, <2>2, <2>6 DEF GoneOn, Promise!Delete, Promise!Done, Done, NoName, Promise!NoName
    <2>8. QED
      BY <1>3, <1>5, <2>7 DEF PromiseStep, Promise!Next
  <1>7. CASE c.op # "delete"
    <2>1. ChangeOn(c)
      BY <1>2, <1>3, <1>7 DEF WorkOn
    <2>2. PICK f \in Results(c.op, c.n) : SaveOn(c, f)
      BY <1>2, <2>1 DEF ChangeOn
    <2>3. PICK G : G = [m \in DOMAIN seen \cup {c.n} |-> IF m = c.n THEN f ELSE seen[m]]
      OBVIOUS
    <2>4. \A m \in Names : Shows(G, m)
      BY <1>3, <2>1, <2>2, <2>3, MadeShown DEF ChangeOn, SaveOn
    <2>5. \A m \in Names : Shows(G, m)'
      BY <1>2, <2>4 DEF Shows
    <2>6. f \in Seq(Byte)
      BY <1>3, <2>2, ResultsTyped
    <2>7. DOMAIN G \subseteq Names /\ G = [n \in DOMAIN G |-> G[n]] /\ \A n \in DOMAIN G : G[n] \in Seq(Byte)
      BY <1>3, <2>3, <2>6 DEF SeenTyped
    <2>8. seen' = G
      BY <1>3, <1>5, <2>5, <2>7, SeenIs
    <2>9. PromiseStep
      BY <1>2, <1>3, <1>5, <2>2, <2>3, <2>8, Changes
    <2>10. QED
      BY <1>5, <2>9
  <1>8. QED
    BY <1>6, <1>7

(* A call that begins on a file that is there. *)
LEMMA Enters ==
  ASSUME Preemptible = {}, DirInv, DirInv', FilesInv, SeenStep, NEW p \in Procs, May(p), calls[p].pc = "idle",
         NEW d, Goto(p, d), d.pc \notin {"idle", "read"}, d.n \in Names, d.op \in {"append", "write_at"},
         d.i \in 1 .. dir'.count, dir'.files[d.i].name = d.n,
         \A m : m # d.n => Alike(dir, dir', m), UNCHANGED <<disk, ondisk>>,
         NEW f \in Results(d.op, d.n), StageOn(d, f)'
  PROVE  FilesInv' /\ PromiseStep
  <1>1. calls'[p] = d /\ d \in Call
    BY DEF Goto, DirInv, Typed
  <1>2. AllSame /\ \A m \in Names \ unsafe : Saved(m)
    BY Quiet
  <1>3. ASSUME seen' = seen
        PROVE  WorkOn(d)'
    <2>1. PICK G : G = seen
      OBVIOUS
    <2>2. \A m \in Names \ {d.n} : Shows(G, m)'
      BY <1>2, <2>1, AllStill DEF AllSame, Same, DirInv
    <2>3. \A m \in Names \ {d.n} : Same(m)'
      BY <1>3, <2>1, <2>2 DEF Same, Shows
    <2>4. f \in Results(d.op, d.n)'
      BY <1>3, SameResults
    <2>5. ChangeOn(d)'
      BY <2>3, <2>4 DEF ChangeOn, StageOn
    <2>6. QED
      BY <2>5 DEF WorkOn
  <1>4. \A m \in Names \ (unsafe \cup {d.n}) : Saved(m)'
    BY <1>2, StillSaved
  <1>5. QED
    BY <1>1, <1>3, <1>4, Proceeds DEF DirInv

-----------------------------------------------------------------------------
(* Writing into a file. *)

LEMMA OverlayIs ==
  ASSUME NEW old \in Seq(Byte), NEW b \in Seq(Byte), NEW o \in Nat, o <= Len(old),
         NEW f, f = Promise!Overlay(old, b, o)
  PROVE  /\ Len(f) = IF o + Len(b) <= Len(old) THEN Len(old) ELSE o + Len(b)
         /\ \A k \in 1 .. Len(b) : f[o + k] = b[k]
         /\ \A k \in 1 .. Len(f) : k <= o \/ o + Len(b) < k => f[k] = old[k]
  <1>1. PICK x, y, s, t : x = Len(old) /\ y = Len(b) /\ s = SubSeq(old, 1, o) /\ t = SubSeq(old, o + y + 1, x)
    OBVIOUS
  <1>2. x \in Nat /\ y \in Nat
    BY <1>1, LenProperties
  <1>3. \A i \in 1 .. o : old[i] \in Byte
    BY <1>1, <1>2, ElementOfSeq
  <1>4. s \in Seq(Byte) /\ Len(s) = o /\ \A i \in 1 .. o : s[i] = old[i]
    <2>1. /\ s \in Seq(Byte) /\ Len(s) = (IF 1 <= o THEN o - 1 + 1 ELSE 0)
          /\ \A i \in 1 .. o - 1 + 1 : s[i] = old[1 + i - 1]
      BY <1>1, <1>3, SubSeqProperties
    <2>2. \A i \in 1 .. o : i \in 1 .. o - 1 + 1 /\ 1 + i - 1 = i
      OBVIOUS
    <2>3. QED
      BY <2>1, <2>2
  <1>5. o + y \in Nat
    BY <1>2
  <1>6. Len(t) = IF o + y <= x THEN x - (o + y) ELSE 0
    BY <1>1, <1>5, LeftOf DEF Left
  <1>7. (\A k \in 1 .. Len(t) : t[k] = old[(o + y) + k]) /\ t \in Seq(Byte)
    BY <1>1, <1>5, LeftOf DEF Left
  <1>8. f = (s \o b) \o t
    BY <1>1 DEF Promise!Overlay
  <1>9. /\ s \o b \in Seq(Byte) /\ Len(s \o b) = o + y
        /\ \A i \in 1 .. o + y : (s \o b)[i] = IF i <= o THEN s[i] ELSE b[i - o]
    BY <1>1, <1>4, ConcatProperties
  <1>10. /\ Len(f) = (o + y) + Len(t)
         /\ \A i \in 1 .. (o + y) + Len(t) : f[i] = IF i <= o + y THEN (s \o b)[i] ELSE t[i - (o + y)]
    BY <1>7, <1>8, <1>9, ConcatProperties
  <1>11. Len(f) = IF o + y <= x THEN x ELSE o + y
    BY <1>2, <1>6, <1>10
  <1>12. ASSUME NEW k \in 1 .. y PROVE f[o + k] = b[k]
    <2>1. PICK i : i = o + k
      OBVIOUS
    <2>2. i \in 1 .. o + y /\ i \in 1 .. (o + y) + Len(t) /\ i <= o + y /\ ~(i <= o) /\ i - o = k
      BY <1>2, <1>6, <2>1
    <2>3. f[i] = (s \o b)[i]
      BY <1>10, <2>2
    <2>4. (s \o b)[i] = b[i - o]
      BY <1>9, <2>2
    <2>5. QED
      BY <2>1, <2>2, <2>3, <2>4
  <1>13. ASSUME NEW k \in 1 .. Len(f), k <= o \/ o + y < k PROVE f[k] = old[k]
    <2>1. k \in 1 .. (o + y) + Len(t) /\ k \in Nat
      BY <1>2, <1>6, <1>10
    <2>2. CASE k <= o
      <3>1. k \in 1 .. o /\ k \in 1 .. o + y /\ k <= o + y
        BY <1>2, <2>1, <2>2
      <3>2. QED
        BY <1>4, <1>9, <1>10, <2>1, <2>2, <3>1
    <2>3. CASE o + y < k
      <3>1. ~(k <= o + y) /\ k - (o + y) \in 1 .. Len(t) /\ (o + y) + (k - (o + y)) = k
        BY <1>2, <1>6, <2>1, <2>3
      <3>2. f[k] = t[k - (o + y)]
        BY <1>10, <2>1, <3>1
      <3>3. t[k - (o + y)] = old[(o + y) + (k - (o + y))]
        BY <1>7, <3>1
      <3>4. QED
        BY <3>1, <3>2, <3>3
    <2>4. QED
      BY <1>13, <2>2, <2>3
  <1>14. QED
    BY <1>1, <1>11, <1>12, <1>13

LEMMA AppendIs ==
  ASSUME NEW old \in Seq(Byte), NEW b \in Seq(Byte), NEW f, f = old \o b
  PROVE  /\ Len(f) = Len(old) + Len(b)
         /\ \A k \in 1 .. Len(b) : f[Len(old) + k] = b[k]
         /\ \A k \in 1 .. Len(old) : f[k] = old[k]
  <1>1. PICK x, y : x = Len(old) /\ y = Len(b)
    OBVIOUS
  <1>2. x \in Nat /\ y \in Nat
    BY <1>1, LenProperties
  <1>3. Len(f) = x + y /\ \A i \in 1 .. x + y : f[i] = IF i <= x THEN old[i] ELSE b[i - x]
    BY <1>1, ConcatProperties
  <1>4. \A k \in 1 .. y : x + k \in 1 .. x + y /\ ~(x + k <= x) /\ (x + k) - x = k
    BY <1>2
  <1>5. \A k \in 1 .. y : f[x + k] = b[k]
    BY <1>3, <1>4
  <1>6. \A k \in 1 .. x : k \in 1 .. x + y /\ k <= x
    BY <1>2
  <1>7. \A k \in 1 .. x : f[k] = old[k]
    BY <1>3, <1>6
  <1>8. QED
    BY <1>1, <1>3, <1>5, <1>7

(* What a call will have made of its file i, against what is on the disk: b  *)
(* from byte o on.                                                           *)
MadeOf(i, b, o, f) ==
  /\ Len(f) = IF o + Len(b) <= dir.files[i].size THEN dir.files[i].size ELSE o + Len(b)
  /\ \A k \in 1 .. Len(b) : b[k] = f[o + k]
  /\ \A k \in 0 .. dir.files[i].size - 1 :
       (o <= k /\ k < o + Len(b)) \/ ByteAt(disk, dir.files[i].start, k) = f[k + 1]

LEMMA Made ==
  ASSUME Typed, Good(dir), SeenTyped, NEW n \in Names, NEW i \in 1 .. dir.count, dir.files[i].name = n, Same(n),
         NEW b \in AllBuffers, NEW o \in 0 .. MaxSize, o <= dir.files[i].size,
         NEW op, op = "write_at" \/ (op = "append" /\ o = dir.files[i].size)
  PROVE  \E f \in Results(op, n) : MadeOf(i, b, o, f)
  <1>1. PICK z : z = dir.files[i].size
    OBVIOUS
  <1>2. z \in Nat /\ o \in Nat
    BY <1>1, Fields, Sizes DEF Typed
  <1>3. b \in Seq(Byte) /\ Len(b) \in Nat
    <2>1. b \in Seq(Byte)
      BY SizesAssumption DEF AllBuffers, Byte
    <2>2. QED
      BY <2>1, LenProperties
  <1>4. n \in DOMAIN seen /\ Len(seen[n]) = z /\ \A k \in 0 .. z - 1 : ByteAt(disk, dir.files[i].start, k) = seen[n][k + 1]
    BY <1>1 DEF Same, Shows, Listed
  <1>5. PICK old : old = seen[n] /\ old = Promise!Old(n) /\ old \in Seq(Byte) /\ Len(old) = z
    BY <1>4 DEF SeenTyped, Promise!Old
  <1>6. CASE op = "write_at"
    <2>1. PICK f : f = Promise!Overlay(old, b, o)
      OBVIOUS
    <2>2. f \in Results(op, n)
      BY <1>1, <1>5, <1>6, <2>1 DEF Results
    <2>3. Len(f) = IF o + Len(b) <= z THEN z ELSE o + Len(b)
      BY <1>1, <1>2, <1>3, <1>5, <2>1, OverlayIs
    <2>4. \A k \in 1 .. Len(b) : b[k] = f[o + k]
      BY <1>1, <1>2, <1>3, <1>5, <2>1, OverlayIs
    <2>5. \A k \in 1 .. Len(f) : k <= o \/ o + Len(b) < k => f[k] = old[k]
      BY <1>1, <1>2, <1>3, <1>5, <2>1, OverlayIs
    <2>6. ASSUME NEW k \in 0 .. z - 1
          PROVE  (o <= k /\ k < o + Len(b)) \/ ByteAt(disk, dir.files[i].start, k) = f[k + 1]
      <3>1. k + 1 \in 1 .. Len(f) /\ (k + 1 <= o \/ o + Len(b) < k + 1 \/ (o <= k /\ k < o + Len(b)))
        BY <1>2, <1>3, <2>3
      <3>2. QED
        BY <1>4, <1>5, <2>5, <3>1
    <2>7. QED
      BY <1>1, <2>2, <2>3, <2>4, <2>6 DEF MadeOf
  <1>7. CASE op = "append" /\ o = z
    <2>1. PICK f : f = old \o b
      OBVIOUS
    <2>2. f \in Results(op, n)
      BY <1>5, <1>7, <2>1 DEF Results
    <2>3. /\ Len(f) = z + Len(b)
          /\ \A k \in 1 .. Len(b) : f[z + k] = b[k]
          /\ \A k \in 1 .. z : f[k] = old[k]
      BY <1>3, <1>5, <2>1, AppendIs
    <2>4. Len(f) = IF o + Len(b) <= z THEN z ELSE o + Len(b)
      BY <1>2, <1>3, <1>7, <2>3
    <2>5. \A k \in 0 .. z - 1 : k + 1 \in 1 .. z
      BY <1>2
    <2>6. \A k \in 0 .. z - 1 : ByteAt(disk, dir.files[i].start, k) = f[k + 1]
      BY <1>4, <1>5, <2>3, <2>5
    <2>7. \A k \in 1 .. Len(b) : b[k] = f[o + k]
      BY <1>7, <2>3
    <2>8. QED
      BY <1>1, <2>2, <2>4, <2>6, <2>7 DEF MadeOf
  <1>8. QED
    BY <1>1, <1>6, <1>7

(* The room is there, and the first sector is to be read. *)
LEMMA Opens ==
  ASSUME Preemptible = {}, DirInv, DirInv', FilesInv, SeenStep, NEW p \in Procs, May(p), calls[p].pc = "idle",
         NEW n \in Names, NEW i \in 1 .. dir.count, dir.files[i].name = n,
         NEW b \in AllBuffers, b # <<>>, NEW o \in 0 .. MaxSize, o <= dir.files[i].size,
         NEW op, op = "write_at" \/ (op = "append" /\ o = dir.files[i].size),
         NEW d, d.op = op, d.pc = "get", d.n = n, d.i = i, d.buf = b, d.pos = o, d.new = o + Len(b),
         d.start = dir'.files[i].start, Goto(p, d), UNCHANGED <<disk, ondisk>>,
         dir'.count = dir.count, dir'.files[i].name = n,
         \A k \in 1 .. dir.count : k # i => dir'.files[k] = dir.files[k],
         dir'.files[i].start = dir.files[i].start \/ dir.files[i].size = 0,
         dir'.files[i].size = IF op = "append" \/ d.new <= dir.files[i].size THEN dir.files[i].size ELSE d.new
  PROVE  FilesInv' /\ PromiseStep
  <1>1. PICK z : z = dir.files[i].size
    OBVIOUS
  <1>2. z \in Nat /\ o \in Nat /\ i \in Nat /\ dir.count \in Nat
    BY <1>1, Fields, Sizes DEF Typed, DirInv
  <1>3. b \in Seq(Byte) /\ Len(b) \in Nat /\ Len(b) > 0
    <2>1. b \in Seq(Byte)
      BY SizesAssumption DEF AllBuffers, Byte
    <2>2. QED
      BY <2>1, LenProperties, EmptySeq
  <1>4. Same(n)
    BY Quiet DEF AllSame
  <1>5. PICK f \in Results(op, n) :
           /\ Len(f) = IF o + Len(b) <= z THEN z ELSE o + Len(b)
           /\ \A k \in 1 .. Len(b) : b[k] = f[o + k]
           /\ \A k \in 0 .. z - 1 : (o <= k /\ k < o + Len(b)) \/ ByteAt(disk, dir.files[i].start, k) = f[k + 1]
    <2>1. Typed /\ Good(dir) /\ SeenTyped
      BY DEF DirInv, FilesInv
    <2>2. PICK f \in Results(op, n) : MadeOf(i, b, o, f)
      BY <1>4, <2>1, Made
    <2>3. QED
      BY <1>1, <2>2 DEF MadeOf
  <1>6. PutOn(d, f)'
    <2>1. Len(f) = IF op = "append" THEN d.new ELSE dir'.files[i].size
      BY <1>1, <1>2, <1>3, <1>5
    <2>2. o + Len(b) <= Len(f)
      BY <1>2, <1>3, <1>5
    <2>3. Rest(d, f, o)
      BY <1>5 DEF Rest
    <2>4. ASSUME NEW k \in 0 .. Len(f) - 1
          PROVE  (o <= k /\ k < o + Len(b)) \/ ByteAt(disk', dir'.files[i].start, k) = f[k + 1]
      <3>1. CASE k \in 0 .. z - 1
        <4>1. dir'.files[i].start = dir.files[i].start
          BY <1>1, <1>2, <3>1
        <4>2. QED
          BY <1>5, <3>1, <4>1
      <3>2. CASE k \notin 0 .. z - 1
        BY <1>1, <1>2, <1>3, <1>5, <3>2
      <3>3. QED
        BY <3>1, <3>2
    <2>5. QED
      BY <2>1, <2>2, <2>3, <2>4 DEF PutOn, Rest
  <1>7. \A m : m # n => Alike(dir, dir', m)
    BY <1>2, OneEntry
  <1>8. StageOn(d, f)'
    BY <1>6 DEF StageOn
  <1>9. QED
    BY <1>5, <1>7, <1>8, Enters

LEMMA NeedsNone == ASSUME NEW m \in Nat, need_sectors(m) = 0 PROVE m = 0
  <1>1. SUFFICES ASSUME m > 0 PROVE FALSE
    OBVIOUS
  <1>2. 0 \in 0 .. m - 1
    BY <1>1
  <1>3. 0 \div SectorSize \in 0 .. need_sectors(m) - 1
    BY <1>2, Needed
  <1>4. QED
    BY <1>3

(* The file is to move first. *)
LEMMA Moves ==
  ASSUME Preemptible = {}, DirInv, DirInv', FilesInv, SeenStep, NEW p \in Procs, May(p), calls[p].pc = "idle",
         NEW n \in Names, NEW i \in 1 .. dir.count, dir.files[i].name = n,
         NEW b \in AllBuffers, b # <<>>, NEW o \in 0 .. MaxSize, o <= dir.files[i].size,
         o + Len(b) > dir.files[i].size, need_sectors(dir.files[i].size) > 0,
         NEW op, op = "write_at" \/ (op = "append" /\ o = dir.files[i].size),
         NEW d, d.op = op, d.pc = "copy_in", d.n = n, d.i = i, d.buf = b, d.pos = o, d.new = o + Len(b),
         d.start = dir.files[i].start, d.cnt = need_sectors(dir.files[i].size), d.s = 0, Goto(p, d),
         UNCHANGED <<disk, ondisk, dir>>
  PROVE  FilesInv' /\ PromiseStep
  <1>1. PICK z : z = dir.files[i].size
    OBVIOUS
  <1>2. z \in Nat /\ o \in Nat
    BY <1>1, Fields, Sizes DEF Typed, DirInv
  <1>3. b \in Seq(Byte) /\ Len(b) \in Nat
    <2>1. b \in Seq(Byte)
      BY SizesAssumption DEF AllBuffers, Byte
    <2>2. QED
      BY <2>1, LenProperties
  <1>4. Same(n)
    BY Quiet DEF AllSame
  <1>5. PICK f \in Results(op, n) :
           /\ Len(f) = IF o + Len(b) <= z THEN z ELSE o + Len(b)
           /\ \A k \in 1 .. Len(b) : b[k] = f[o + k]
           /\ \A k \in 0 .. z - 1 : (o <= k /\ k < o + Len(b)) \/ ByteAt(disk, dir.files[i].start, k) = f[k + 1]
    <2>1. Typed /\ Good(dir) /\ SeenTyped
      BY DEF DirInv, FilesInv
    <2>2. PICK f \in Results(op, n) : MadeOf(i, b, o, f)
      BY <1>4, <2>1, Made
    <2>3. QED
      BY <1>1, <2>2 DEF MadeOf
  <1>6. CopyOn(d, f)'
    <2>1. Len(f) = d.new /\ d.s \in 0 .. d.cnt - 1
      <3>1. d.cnt \in Nat /\ d.cnt > 0
        BY <1>1, <1>2, NeedNat
      <3>2. QED
        BY <1>1, <1>2, <1>3, <1>5, <3>1
    <2>2. Rest(d, f, o)
      BY <1>5 DEF Rest
    <2>3. ASSUME NEW k \in 0 .. o - 1 PROVE ByteAt(disk', dir'.files[i].start, k) = f[k + 1]
      <3>1. k \in 0 .. z - 1 /\ ~(o <= k)
        BY <1>1, <1>2
      <3>2. QED
        BY <1>5, <3>1
    <2>4. \A t \in 0 .. d.s - 1 : FALSE
      OBVIOUS
    <2>5. QED
      BY <1>1, <2>1, <2>2, <2>3, <2>4 DEF CopyOn, Rest
  <1>7. \A m : m # n => Alike(dir, dir', m)
    BY AlikeSelf
  <1>8. StageOn(d, f)'
    BY <1>6 DEF StageOn
  <1>9. QED
    BY <1>5, <1>7, <1>8, Enters

LEMMA Fails ==
  ASSUME Preemptible = {}, DirInv, DirInv', FilesInv, SeenStep, NEW p \in Procs, May(p), calls[p].pc = "idle",
         NEW r \in {Failed, Done(<<>>)}, Answer(p, r), UNCHANGED dir
  PROVE  FilesInv' /\ PromiseStep
  <1>1. \A n \in Names : Alike(dir, dir', n)
    BY AlikeSelf
  <1>2. QED
    BY <1>1, Answers DEF DirInv

LEMMA GrowHolds ==
  ASSUME Preemptible = {}, DirInv, DirInv', FilesInv, SeenStep, NEW p \in Procs, May(p), calls[p].pc = "idle",
         NEW n \in Names, NEW i \in 1 .. dir.count, dir.files[i].name = n,
         NEW b \in AllBuffers, b # <<>>, NEW o \in 0 .. MaxSize, o <= dir.files[i].size,
         o + Len(b) > dir.files[i].size,
         NEW op, op = "write_at" \/ (op = "append" /\ o = dir.files[i].size),
         NEW c, c = [Idle EXCEPT !.op = op, !.n = n, !.i = i, !.buf = b, !.pos = o, !.new = o + Len(b)],
         Grow(p, c)
  PROVE  FilesInv' /\ PromiseStep
  <1>1. PICK f, old, new : f = dir.files[i] /\ old = need_sectors(f.size) /\ new = need_sectors(o + Len(b))
    OBVIOUS
  <1>2. /\ c.op = op /\ c.n = n /\ c.i = i /\ c.buf = b /\ c.pos = o /\ c.new = o + Len(b) /\ c.s = 0
    BY DEF Idle
  <1>3. /\ dir \in Directory /\ dir.count \in Nat /\ i \in Entries /\ f.start \in Int /\ f.size \in Nat
        /\ dir.next_free \in Nat /\ old \in Nat
    BY <1>1, Fields, NeedNat DEF DirInv, Typed
  <1>4. b \in Seq(Byte) /\ Len(b) \in Nat /\ o \in Nat
    <2>1. b \in Seq(Byte)
      BY SizesAssumption DEF AllBuffers, Byte
    <2>2. QED
      BY <2>1, LenProperties, Sizes
  <1>5. ASSUME NEW e, e \in Directory, e.count = dir.count, e.files[i].name = n, e.files[i].size = f.size,
               \A k \in 1 .. dir.count : k # i => e.files[k] = dir.files[k],
               e.files[i].start = f.start \/ f.size = 0,
               Grown(p, c, e), UNCHANGED <<disk, ondisk, io_buf>>
        PROVE  FilesInv' /\ PromiseStep
    <2>1. PICK d : d = [c EXCEPT !.pc = "get", !.start = e.files[i].start]
      OBVIOUS
    <2>2. /\ d.op = op /\ d.pc = "get" /\ d.n = n /\ d.i = i /\ d.buf = b /\ d.pos = o /\ d.new = o + Len(b)
          /\ d.start = e.files[i].start
      BY <2>1 DEF Idle
    <2>3. Goto(p, d) /\ dir' = IF op = "write_at" THEN [e EXCEPT !.files[i].size = o + Len(b)] ELSE e
      BY <1>2, <1>5, <2>1 DEF Grown
    <2>4. /\ dir'.count = dir.count /\ dir'.files[i].name = n /\ dir'.files[i].start = e.files[i].start
          /\ \A k \in 1 .. dir.count : k # i => dir'.files[k] = dir.files[k]
      <3>1. CASE op = "write_at"
        BY <1>3, <1>5, <2>3, <3>1 DEF Directory, File
      <3>2. CASE op # "write_at"
        BY <1>5, <2>3, <3>2
      <3>3. QED
        BY <3>1, <3>2
    <2>5. dir'.files[i].size = IF op = "append" \/ d.new <= f.size THEN f.size ELSE d.new
      <3>1. CASE op = "write_at"
        BY <1>1, <1>3, <1>4, <1>5, <2>2, <2>3, <3>1 DEF Directory, File
      <3>2. CASE op = "append"
        BY <1>5, <2>3, <3>2
      <3>3. QED
        BY <3>1, <3>2
    <2>6. dir'.files[i].start = f.start \/ f.size = 0
      BY <1>5, <2>4
    <2>7. d.start = dir'.files[i].start
      BY <2>2, <2>4
    <2>8. /\ dir'.files[i].start = dir.files[i].start \/ dir.files[i].size = 0
          /\ dir'.files[i].size = IF op = "append" \/ d.new <= dir.files[i].size THEN dir.files[i].size ELSE d.new
      BY <1>1, <2>5, <2>6
    <2>9. UNCHANGED <<disk, ondisk>> /\ Goto(p, d)
      BY <1>5, <2>3
    <2>10. QED
      BY <2>2, <2>4, <2>7, <2>8, <2>9, Opens
  <1>6. CASE Grown(p, c, dir) /\ UNCHANGED <<disk, ondisk, io_buf>>
    <2>1. PICK e : e = dir
      OBVIOUS
    <2>2. /\ e \in Directory /\ e.count = dir.count /\ e.files[i].name = n /\ e.files[i].size = f.size
          /\ e.files[i].start = f.start /\ \A k \in 1 .. dir.count : k # i => e.files[k] = dir.files[k]
      BY <1>1, <1>3, <2>1
    <2>3. Grown(p, c, e)
      BY <1>6, <2>1
    <2>4. QED
      BY <1>5, <1>6, <2>2, <2>3
  <1>7. CASE Grown(p, c, [dir EXCEPT !.next_free = f.start + new]) /\ f.start + new \in 0 .. DataEnd /\ UNCHANGED <<disk, ondisk, io_buf>>
    <2>1. PICK e : e = [dir EXCEPT !.next_free = f.start + new]
      OBVIOUS
    <2>2. e \in Directory /\ e.count = dir.count /\ e.files = dir.files
      BY <1>3, <1>7, <2>1 DEF Directory
    <2>3. Grown(p, c, e)
      BY <1>7, <2>1
    <2>4. QED
      BY <1>1, <1>5, <1>7, <2>2, <2>3
  <1>8. CASE /\ Grown(p, c, [dir EXCEPT !.next_free = @ + new, !.files[i].start = dir.next_free])
             /\ dir.next_free + new \in 0 .. DataEnd /\ old = 0 /\ UNCHANGED <<disk, ondisk, io_buf>>
    <2>1. PICK e : e = [dir EXCEPT !.next_free = @ + new, !.files[i].start = dir.next_free]
      OBVIOUS
    <2>2. /\ e \in Directory /\ e.count = dir.count /\ e.files[i].name = n /\ e.files[i].size = f.size
          /\ \A k \in Entries : k # i => e.files[k] = dir.files[k]
      <3>1. PICK g : g = [f EXCEPT !.start = dir.next_free]
        OBVIOUS
      <3>2. f \in File /\ dir.files \in [Entries -> File] /\ dir.next_free \in Int
        BY <1>1, <1>3 DEF Directory
      <3>3. g \in File /\ g.name = f.name /\ g.size = f.size
        BY <3>1, <3>2 DEF File
      <3>4. e = [dir EXCEPT !.next_free = @ + new, !.files = [@ EXCEPT ![i] = g]]
        BY <1>1, <1>3, <2>1, <3>1 DEF Directory
      <3>5. e \in Directory /\ e.count = dir.count /\ e.files = [dir.files EXCEPT ![i] = g]
        BY <1>3, <1>8, <3>2, <3>3, <3>4 DEF Directory
      <3>6. QED
        BY <1>1, <1>3, <3>2, <3>3, <3>5
    <2>3. f.size = 0
      BY <1>1, <1>3, <1>8, NeedsNone
    <2>4. \A k \in 1 .. dir.count : k \in Entries
      BY <1>3, Fields, Sizes DEF Entries
    <2>5. Grown(p, c, e)
      BY <1>8, <2>1
    <2>6. QED
      BY <1>5, <1>8, <2>2, <2>3, <2>4, <2>5
  <1>9. CASE /\ Goto(p, [c EXCEPT !.pc = "copy_in", !.start = f.start, !.to = dir.next_free, !.cnt = old])
             /\ old > 0 /\ UNCHANGED <<dir, disk, ondisk, io_buf>>
    <2>1. PICK d : d = [c EXCEPT !.pc = "copy_in", !.start = f.start, !.to = dir.next_free, !.cnt = old]
      OBVIOUS
    <2>2. /\ d.op = op /\ d.pc = "copy_in" /\ d.n = n /\ d.i = i /\ d.buf = b /\ d.pos = o /\ d.new = o + Len(b)
          /\ d.start = f.start /\ d.cnt = old /\ d.s = 0
      BY <2>1 DEF Idle
    <2>3. Goto(p, d)
      BY <1>9, <2>1
    <2>4. /\ d.start = dir.files[i].start /\ d.cnt = need_sectors(dir.files[i].size)
          /\ need_sectors(dir.files[i].size) > 0 /\ UNCHANGED <<disk, ondisk, dir>>
      BY <1>1, <1>9, <2>2
    <2>5. QED
      BY <2>2, <2>3, <2>4, Moves
  <1>10. CASE Answer(p, Failed) /\ UNCHANGED dir
    BY <1>10, Fails
  <1>11. new \in Nat
    BY <1>1, <1>4, NeedNat
  <1>12. CASE new <= old
    <2>1. Grown(p, c, dir) /\ UNCHANGED <<disk, ondisk, io_buf>>
      BY <1>1, <1>2, <1>3, <1>11, <1>12 DEF Grow
    <2>2. QED
      BY <1>6, <2>1
  <1>13. CASE ~(new <= old) /\ f.start + old = dir.next_free
    <2>1. f.start + new <= DataEnd => f.start + new \in 0 .. DataEnd
      <3>1. PICK a : a = f.start
        OBVIOUS
      <3>2. a \in Int /\ a + old = dir.next_free /\ new > old
        BY <1>3, <1>11, <1>13, <3>1
      <3>3. a + new >= 0 /\ a + new \in Int
        BY <1>3, <1>11, <3>2
      <3>4. QED
        BY <3>1, <3>3, Sizes
    <2>2. \/ f.start + new <= DataEnd /\ Grown(p, c, [dir EXCEPT !.next_free = f.start + new])
             /\ UNCHANGED <<disk, ondisk, io_buf>>
          \/ Answer(p, Failed) /\ UNCHANGED dir
      BY <1>1, <1>2, <1>3, <1>11, <1>13 DEF Grow
    <2>3. QED
      BY <1>7, <1>10, <2>1, <2>2
  <1>14. CASE ~(new <= old) /\ f.start + old # dir.next_free
    <2>1. dir.next_free + new <= DataEnd => dir.next_free + new \in 0 .. DataEnd
      BY <1>3, <1>11, Sizes
    <2>2. \/ /\ dir.next_free + new <= DataEnd /\ old = 0
             /\ Grown(p, c, [dir EXCEPT !.next_free = @ + new, !.files[i].start = dir.next_free])
             /\ UNCHANGED <<disk, ondisk, io_buf>>
          \/ /\ old > 0
             /\ Goto(p, [c EXCEPT !.pc = "copy_in", !.start = f.start, !.to = dir.next_free, !.cnt = old])
             /\ UNCHANGED <<dir, disk, ondisk, io_buf>>
          \/ Answer(p, Failed) /\ UNCHANGED dir
      BY <1>1, <1>2, <1>3, <1>11, <1>14 DEF Grow
    <2>3. QED
      BY <1>8, <1>9, <1>10, <2>1, <2>2
  <1>15. QED
    BY <1>12, <1>13, <1>14

(* A file that is not there is made by a write. *)
LEMMA NewMade ==
  ASSUME NEW n, n \notin DOMAIN seen, NEW b \in AllBuffers
  PROVE  b \in Results("append", n) /\ b \in Results("write_at", n) /\ b \in Seq(Byte)
  <1>1. b \in Seq(Byte)
    BY SizesAssumption DEF AllBuffers, Byte
  <1>2. Promise!Old(n) = <<>> /\ <<>> \in Seq(Byte) /\ Len(<<>>) = 0
    BY EmptySeq DEF Promise!Old
  <1>3. <<>> \o b = b
    BY <1>1, ConcatEmptySeq
  <1>4. b \in Results("append", n)
    BY <1>2, <1>3 DEF Results
  <1>5. PICK f : f = Promise!Overlay(<<>>, b, 0)
    OBVIOUS
  <1>6. Len(b) \in Nat
    BY <1>1, LenProperties
  <1>7. f = b
    <2>1. SubSeq(<<>>, 1, 0) = <<>> /\ SubSeq(<<>>, 0 + Len(b) + 1, 0) = <<>>
      BY <1>6, SubSeqEmpty
    <2>2. f = (<<>> \o b) \o <<>>
      BY <1>2, <1>5, <2>1 DEF Promise!Overlay
    <2>3. QED
      BY <1>1, <1>3, <2>2, ConcatEmptySeq
  <1>8. 0 \in {x \in 0 .. MaxSize : x <= Len(<<>>)}
    BY <1>2, Sizes
  <1>9. b \in Results("write_at", n)
    BY <1>2, <1>5, <1>7, <1>8 DEF Results
  <1>10. QED
    BY <1>1, <1>4, <1>9

LEMMA SysAppendHolds ==
  ASSUME Preemptible = {}, DirInv, DirInv', FilesInv, SeenStep, NEW p \in Procs, NEW n \in Names, NEW b \in Buffers[n],
         SysAppend(p, n, b)
  PROVE  FilesInv' /\ PromiseStep
  <1>1. b \in AllBuffers /\ b \in Seq(Byte) /\ Len(b) \in Nat
    <2>1. b \in AllBuffers /\ b \in Seq(Byte)
      BY SizesAssumption DEF AllBuffers, Byte
    <2>2. QED
      BY <2>1, LenProperties
  <1>2. May(p) /\ calls[p].pc = "idle" /\ Same(n)
    BY Quiet DEF SysAppend, Calls, AllSame
  <1>3. PICK i, z : i = Find(n) /\ z = dir.files[i].size
    OBVIOUS
  <1>4. CASE i = 0 /\ FileWrite(p, "append", n, b)
    <2>1. n \notin DOMAIN seen
      BY <1>2, <1>3, <1>4, FoundListed DEF Same, Shows
    <2>2. b \in Results("append", n)
      BY <1>1, <2>1, NewMade
    <2>3. QED
      BY <1>1, <1>2, <1>4, <2>2, FileWritten
  <1>5. CASE i # 0 /\ b = <<>> /\ Answer(p, Done(<<>>)) /\ UNCHANGED dir
    BY <1>2, <1>5, Fails
  <1>6. CASE /\ i # 0 /\ b # <<>> /\ z + Len(b) <= MaxSize
             /\ Grow(p, [Idle EXCEPT !.op = "append", !.n = n, !.i = i, !.buf = b, !.pos = z, !.new = z + Len(b)])
    <2>1. i \in 1 .. dir.count /\ dir.files[i].name = n
      BY <1>3, <1>6, FoundListed
    <2>2. z \in Nat /\ Len(b) > 0
      <3>1. z \in Nat
        BY <1>3, <2>1, Fields DEF DirInv, Typed
      <3>2. QED
        BY <1>1, <1>6, <3>1, EmptySeq
    <2>3. PICK op, c : /\ op = "append"
                       /\ c = [Idle EXCEPT !.op = op, !.n = n, !.i = i, !.buf = b, !.pos = z, !.new = z + Len(b)]
      OBVIOUS
    <2>4. z \in 0 .. MaxSize /\ z <= z /\ z + Len(b) > z
      BY <1>1, <1>6, <2>2, Sizes
    <2>5. Grow(p, c)
      BY <1>6, <2>3
    <2>6. z <= dir.files[i].size /\ z + Len(b) > dir.files[i].size /\ (op = "append" /\ z = dir.files[i].size)
      BY <1>3, <2>3, <2>4
    <2>7. QED
      BY <1>1, <1>2, <1>6, <2>1, <2>3, <2>4, <2>5, <2>6, GrowHolds
  <1>7. QED
    BY <1>3, <1>4, <1>5, <1>6 DEF SysAppend

LEMMA SysWriteAtHolds ==
  ASSUME Preemptible = {}, DirInv, DirInv', FilesInv, SeenStep, NEW p \in Procs, NEW n \in Names, NEW b \in Buffers[n],
         NEW o \in 0 .. MaxSize, SysWriteAt(p, n, b, o)
  PROVE  FilesInv' /\ PromiseStep
  <1>1. b \in AllBuffers /\ b \in Seq(Byte) /\ Len(b) \in Nat /\ o \in Nat
    <2>1. b \in AllBuffers /\ b \in Seq(Byte)
      BY SizesAssumption DEF AllBuffers, Byte
    <2>2. QED
      BY <2>1, LenProperties, Sizes
  <1>2. May(p) /\ calls[p].pc = "idle" /\ Same(n)
    BY Quiet DEF SysWriteAt, Calls, AllSame
  <1>3. PICK i, z, op : i = Find(n) /\ z = dir.files[i].size /\ op = "write_at"
    OBVIOUS
  <1>4. PICK c : c = [Idle EXCEPT !.op = op, !.n = n, !.i = i, !.buf = b, !.pos = o, !.new = o + Len(b)]
    OBVIOUS
  <1>5. CASE i = 0 /\ FileWrite(p, "write_at", n, b)
    <2>1. n \notin DOMAIN seen
      BY <1>2, <1>3, <1>5, FoundListed DEF Same, Shows
    <2>2. b \in Results("write_at", n)
      BY <1>1, <2>1, NewMade
    <2>3. QED
      BY <1>1, <1>2, <1>5, <2>2, FileWritten
  <1>6. CASE (Answer(p, Done(<<>>)) \/ Answer(p, Failed)) /\ UNCHANGED dir
    BY <1>2, <1>6, Fails
  <1>7. i # 0 => i \in 1 .. dir.count /\ dir.files[i].name = n
    BY <1>3, FoundListed
  <1>8. CASE b # <<>> /\ i # 0 /\ o <= z /\ o + Len(b) > z /\ Grow(p, c)
    <2>1. o <= dir.files[i].size /\ o + Len(b) > dir.files[i].size
      BY <1>3, <1>8
    <2>2. QED
      BY <1>1, <1>2, <1>3, <1>4, <1>7, <1>8, <2>1, GrowHolds
  <1>9. CASE /\ b # <<>> /\ i # 0 /\ o <= z /\ o + Len(b) <= z
             /\ Goto(p, [c EXCEPT !.pc = "get", !.start = dir.files[i].start])
             /\ UNCHANGED <<dir, disk, ondisk, io_buf>>
    <2>1. PICK d : d = [c EXCEPT !.pc = "get", !.start = dir.files[i].start]
      OBVIOUS
    <2>2. /\ d.op = op /\ d.pc = "get" /\ d.n = n /\ d.i = i /\ d.buf = b /\ d.pos = o /\ d.new = o + Len(b)
          /\ d.start = dir.files[i].start
      BY <1>4, <2>1 DEF Idle
    <2>3. Goto(p, d) /\ UNCHANGED <<disk, ondisk>> /\ dir' = dir
      BY <1>9, <2>1
    <2>4. /\ d.start = dir'.files[i].start /\ dir'.count = dir.count /\ dir'.files[i].name = n
          /\ \A k \in 1 .. dir.count : k # i => dir'.files[k] = dir.files[k]
          /\ dir'.files[i].start = dir.files[i].start /\ d.new <= dir.files[i].size /\ o <= dir.files[i].size
          /\ dir'.files[i].size = dir.files[i].size
      BY <1>3, <1>7, <1>9, <2>2, <2>3
    <2>5. /\ dir'.files[i].start = dir.files[i].start \/ dir.files[i].size = 0
          /\ dir'.files[i].size = IF op = "append" \/ d.new <= dir.files[i].size THEN dir.files[i].size ELSE d.new
      BY <2>4
    <2>6. i \in 1 .. dir.count /\ dir.files[i].name = n /\ b # <<>> /\ op = "write_at"
      BY <1>3, <1>7, <1>9
    <2>7. QED
      BY <1>1, <1>2, <2>2, <2>3, <2>4, <2>5, <2>6, Opens
  <1>10. QED
    BY <1>3, <1>4, <1>5, <1>6, <1>8, <1>9 DEF SysWriteAt

(* Moving a file that grows. *)

(* A transfer out of what was read; nothing is written by one in. *)
LEMMA NothingOut ==
  ASSUME disk' = disk
  PROVE  /\ \A t : Stays(t)
         /\ \A a, k : ByteAt(disk', a, k) = ByteAt(disk, a, k)
  BY DEF Stays

LEMMA CopyInHolds ==
  ASSUME Preemptible = {}, DirInv, DirInv', FilesInv, SeenStep, NEW p \in Procs, CopyIn(p)
  PROVE  FilesInv' /\ PromiseStep
  <1>1. PICK c, d : c = calls[p] /\ d = [c EXCEPT !.pc = "copy_out"]
    OBVIOUS
  <1>2. /\ c.pc = "copy_in" /\ May(p) /\ UNCHANGED <<dir, ondisk, disk>> /\ io_buf' = Sector(c.start + c.s) /\ Goto(p, d)
    BY <1>1 DEF CopyIn, At, Load
  <1>3. /\ Changing(p) /\ c.op # "delete" /\ ChangeOn(c) /\ c \in Call /\ Typed
        /\ c.i \in 1 .. dir.count /\ dir.files[c.i].name = c.n /\ dir.next_free \in Nat
    BY <1>1, <1>2, Changer
  <1>4. PICK f \in Results(c.op, c.n) : StageOn(c, f)
    BY <1>1, <1>2, Changer
  <1>5. CopyOn(c, f)
    BY <1>2, <1>4 DEF StageOn
  <1>6. /\ d.pc = "copy_out" /\ d.n = c.n /\ d.i = c.i /\ d.op = c.op /\ d.buf = c.buf /\ d.pos = c.pos
        /\ d.new = c.new /\ d.start = c.start /\ d.to = c.to /\ d.s = c.s /\ d.cnt = c.cnt
    BY <1>1, <1>3 DEF Call
  <1>7. io_buf' = SectorIn(disk', c.start + c.s)
    BY <1>2 DEF Sector, SectorIn
  <1>8. CopyOn(d, f)'
    BY <1>2, <1>5, <1>6, <1>7 DEF CopyOn, Rest
  <1>9. StageOn(d, f)'
    BY <1>6, <1>8 DEF StageOn
  <1>10. \A m : m # c.n => Alike(dir, dir', m)
    BY <1>2, AlikeSelf
  <1>11. PICK s : s = dir.next_free
    OBVIOUS
  <1>12. s \in Int /\ (\A t : t # s => Stays(t)) /\ s >= dir.next_free
    BY <1>2, <1>3, <1>11, NothingOut
  <1>13. c.i \in 1 .. dir'.count /\ dir'.files[c.i].name = c.n /\ UNCHANGED ondisk /\ d.pc \notin {"idle", "read"}
    BY <1>2, <1>3, <1>6
  <1>14. QED
    BY <1>1, <1>2, <1>3, <1>6, <1>9, <1>10, <1>12, <1>13, Continues

LEMMA Copied ==
  ASSUME Preemptible = {}, DirInv, FilesInv, NEW p \in Procs, May(p), NEW c, c = calls[p], c.pc = "copy_out",
         NEW f, CopyOn(c, f), Transfer(c.to + c.s, io_buf)
  PROVE  /\ c.to + c.s \in Int /\ c.to + c.s >= dir.next_free /\ \A t : t # c.to + c.s => Stays(t)
         /\ \A k \in 0 .. c.pos - 1 : ByteAt(disk', c.start, k) = f[k + 1]
         /\ \A t \in 0 .. c.s : SectorIn(disk', c.to + t) = SectorIn(disk', c.start + t)
  <1>1. /\ c \in Call /\ CallOn(dir, c) /\ c.i \in 1 .. dir.count /\ Typed /\ Good(dir)
        /\ Reserved(dir, c.i, need_sectors(dir.files[c.i].size)) /\ need_sectors(dir.files[c.i].size) \in Nat
        /\ dir.files[c.i].size \in Nat /\ dir.next_free \in Nat
    BY Changer
  <1>2. PICK a, to, s, pos, cnt, z, m :
          /\ a = dir.files[c.i].start /\ to = c.to /\ s = c.s /\ pos = c.pos /\ cnt = c.cnt
          /\ z = dir.files[c.i].size /\ m = need_sectors(c.new)
    OBVIOUS
  <1>3. /\ c.start = a /\ cnt = need_sectors(z) /\ s \in 0 .. cnt - 1 /\ pos <= z
        /\ (\A k \in 0 .. pos - 1 : ByteAt(disk, a, k) = f[k + 1])
        /\ (\A t \in 0 .. s - 1 : SectorIn(disk, to + t) = SectorIn(disk, a + t))
        /\ io_buf = SectorIn(disk, a + s)
    BY <1>2 DEF CopyOn
  <1>4. to = dir.next_free /\ to + m <= DataEnd /\ cnt <= m
    BY <1>1, <1>2, <1>3 DEF CallOn
  <1>5. /\ a \in Int /\ to \in Nat /\ cnt \in Nat /\ z \in Nat /\ m \in Nat /\ s \in Nat /\ pos \in Nat
    <2>1. a \in Int
      BY <1>1, <1>2, Fields DEF Typed
    <2>2. c.new \in Nat /\ pos \in Nat
      BY <1>1, <1>2 DEF Call
    <2>3. m \in Nat
      BY <1>2, <2>2, NeedNat
    <2>4. cnt \in Nat /\ z \in Nat /\ to \in Nat
      BY <1>1, <1>2, <1>3, <1>4
    <2>5. s \in Nat
      BY <1>3, <2>4
    <2>6. QED
      BY <2>1, <2>2, <2>3, <2>4, <2>5
  <1>6. to + s \in Sectors
    BY <1>3, <1>4, <1>5, Sizes DEF Sectors
  <1>7. (\A t : t # to + s => Stays(t)) /\ SectorIn(disk', to + s) = io_buf
    BY <1>2, <1>6, OneSectorOut
  <1>8. \A t \in 0 .. cnt - 1 : a + t < to
    <2>1. cnt = 0 \/ (0 <= a /\ a + cnt <= dir.next_free)
      BY <1>1, <1>2, <1>3 DEF Reserved
    <2>2. QED
      BY <1>4, <1>5, <2>1
  <1>9. \A t \in 0 .. cnt - 1 : Stays(a + t)
    BY <1>5, <1>7, <1>8
  <1>10. ASSUME NEW k \in 0 .. pos - 1 PROVE ByteAt(disk', a, k) = f[k + 1]
    <2>1. k \in 0 .. z - 1
      BY <1>3, <1>5
    <2>2. k \div SectorSize \in 0 .. cnt - 1
      BY <1>3, <1>5, <2>1, Needed
    <2>3. ByteAt(disk', a, k) = ByteAt(disk, a, k)
      BY <1>9, <2>2, ByteStays
    <2>4. QED
      BY <1>3, <2>3
  <1>11. ASSUME NEW t \in 0 .. s PROVE SectorIn(disk', to + t) = SectorIn(disk', a + t)
    <2>1. Stays(a + t)
      BY <1>3, <1>5, <1>9
    <2>2. CASE t = s
      BY <1>3, <1>7, <2>1, <2>2 DEF Stays
    <2>3. CASE t # s
      <3>1. t \in 0 .. s - 1 /\ to + t # to + s
        BY <1>5, <2>3
      <3>2. Stays(to + t)
        BY <1>7, <3>1
      <3>3. QED
        BY <1>3, <2>1, <3>1, <3>2 DEF Stays
    <2>4. QED
      BY <2>2, <2>3
  <1>12. to + s \in Int /\ to + s >= dir.next_free
    BY <1>4, <1>5
  <1>13. QED
    BY <1>2, <1>3, <1>7, <1>10, <1>11, <1>12

LEMMA CopyOutHolds ==
  ASSUME Preemptible = {}, DirInv, DirInv', FilesInv, SeenStep, NEW p \in Procs, CopyOut(p)
  PROVE  FilesInv' /\ PromiseStep
  <1>1. PICK c, x : c = calls[p] /\ x = c.to + c.s
    OBVIOUS
  <1>2. c.pc = "copy_out" /\ May(p) /\ Transfer(c.to + c.s, io_buf) /\ UNCHANGED ondisk
    BY <1>1 DEF CopyOut, At, Transfer
  <1>3. /\ Changing(p) /\ c.op # "delete" /\ ChangeOn(c) /\ c \in Call /\ CallOn(dir, c) /\ Typed /\ Good(dir)
        /\ c.i \in 1 .. dir.count /\ c.i \in Nat /\ dir.files[c.i].name = c.n /\ dir.next_free \in Nat
        /\ dir.count \in Nat /\ dir.files[c.i].size \in Nat /\ need_sectors(dir.files[c.i].size) \in Nat
    BY <1>1, <1>2, Changer
  <1>4. PICK f \in Results(c.op, c.n) : StageOn(c, f) /\ f \in Seq(Byte)
    BY <1>1, <1>2, Changer
  <1>5. CopyOn(c, f)
    BY <1>2, <1>4 DEF StageOn
  <1>6. /\ x \in Int /\ x >= dir.next_free /\ \A t : t # x => Stays(t)
        /\ \A k \in 0 .. c.pos - 1 : ByteAt(disk', c.start, k) = f[k + 1]
        /\ \A t \in 0 .. c.s : SectorIn(disk', c.to + t) = SectorIn(disk', c.start + t)
    BY <1>1, <1>2, <1>5, Copied
  <1>7. CASE c.s + 1 < c.cnt
    <2>1. PICK d : d = [c EXCEPT !.pc = "copy_in", !.s = @ + 1]
      OBVIOUS
    <2>2. /\ d.pc = "copy_in" /\ d.n = c.n /\ d.i = c.i /\ d.op = c.op /\ d.buf = c.buf /\ d.pos = c.pos
          /\ d.new = c.new /\ d.start = c.start /\ d.to = c.to /\ d.s = c.s + 1 /\ d.cnt = c.cnt
      BY <1>3, <2>1 DEF Call
    <2>3. Goto(p, d) /\ dir' = dir
      BY <1>1, <1>7, <2>1 DEF CopyOut
    <2>4. d.s \in 0 .. d.cnt - 1
      BY <1>3, <1>5, <1>7, <2>2 DEF CopyOn, Call
    <2>5. \A t \in 0 .. d.s - 1 : t \in 0 .. c.s
      BY <1>3, <2>2 DEF Call
    <2>6. CopyOn(d, f)'
      BY <1>5, <1>6, <2>2, <2>3, <2>4, <2>5 DEF CopyOn, Rest
    <2>7. StageOn(d, f)'
      BY <2>2, <2>6 DEF StageOn
    <2>8. \A m : m # c.n => Alike(dir, dir', m)
      BY <2>3, AlikeSelf
    <2>9. c.i \in 1 .. dir'.count /\ dir'.files[c.i].name = c.n /\ d.pc \notin {"idle", "read"}
      BY <1>3, <2>2, <2>3
    <2>10. QED
      BY <1>1, <1>2, <1>3, <1>6, <2>2, <2>3, <2>7, <2>8, <2>9, Continues
  <1>8. CASE ~(c.s + 1 < c.cnt)
    <2>1. PICK e, d : /\ e = [dir EXCEPT !.next_free = @ + need_sectors(c.new), !.files[c.i].start = c.to]
                      /\ d = [c EXCEPT !.to = 0, !.s = 0, !.cnt = 0, !.pc = "get", !.start = e.files[c.i].start]
      OBVIOUS
    <2>2. c.i \in Entries /\ c.new \in Nat
      BY <1>3, Fields, Sizes DEF Typed, Entries, Call
    <2>3. /\ e.count = dir.count /\ e.files[c.i].name = c.n /\ e.files[c.i].start = c.to
          /\ e.files[c.i].size = dir.files[c.i].size
          /\ \A k \in Entries : k # c.i => e.files[k] = dir.files[k]
      BY <1>3, <2>1, <2>2 DEF Typed, Directory, File
    <2>4. /\ d.pc = "get" /\ d.n = c.n /\ d.i = c.i /\ d.op = c.op /\ d.buf = c.buf /\ d.pos = c.pos
          /\ d.new = c.new /\ d.start = c.to
      BY <1>3, <2>1, <2>3 DEF Call
    <2>5. Goto(p, d) /\ dir' = IF c.op = "write_at" THEN [e EXCEPT !.files[c.i].size = c.new] ELSE e
      <3>1. PICK g : g = [c EXCEPT !.to = 0, !.s = 0, !.cnt = 0]
        OBVIOUS
      <3>2. Grown(p, g, e)
        BY <1>1, <1>8, <2>1, <3>1 DEF CopyOut
      <3>3. d = [g EXCEPT !.pc = "get", !.start = e.files[c.i].start] /\ g.op = c.op /\ g.i = c.i /\ g.new = c.new
        BY <1>3, <2>1, <3>1 DEF Call
      <3>4. QED
        BY <3>2, <3>3 DEF Grown
    <2>6. /\ dir'.count = dir.count /\ dir'.files[c.i].name = c.n /\ dir'.files[c.i].start = c.to
          /\ c.op = "write_at" => dir'.files[c.i].size = c.new
          /\ \A k \in 1 .. dir.count : k # c.i => dir'.files[k] = dir.files[k]
      <3>1. \A k \in 1 .. dir.count : k \in Entries
        BY <1>3, Fields, Sizes DEF Typed, Entries
      <3>2. CASE c.op # "write_at"
        BY <2>3, <2>5, <3>1, <3>2
      <3>3. CASE c.op = "write_at"
        <4>1. e.files \in [Entries -> File] /\ e = [dir EXCEPT !.next_free = e.next_free, !.files = e.files]
          <5>1. c.to \in Int
            BY <1>3 DEF Call
          <5>2. QED
            BY <1>3, <2>1, <2>2, <5>1 DEF Typed, Directory, File
        <4>2. dir' = [e EXCEPT !.files = [e.files EXCEPT ![c.i] = [e.files[c.i] EXCEPT !.size = c.new]]]
          BY <2>5, <3>3
        <4>3. dir'.count = e.count /\ dir'.files = [e.files EXCEPT ![c.i] = [e.files[c.i] EXCEPT !.size = c.new]]
          BY <1>3, <4>1, <4>2 DEF Typed, Directory
        <4>4. QED
          BY <2>2, <2>3, <3>1, <4>1, <4>3 DEF File
      <3>4. QED
        BY <3>2, <3>3
    <2>7. c.op \in {"append", "write_at"}
      BY <1>2, <1>3 DEF CallOn
    <2>8. Len(f) = c.new /\ c.buf # <<>> /\ c.pos + Len(c.buf) = c.new /\ Rest(c, f, c.pos) /\ c.pos <= dir.files[c.i].size
          /\ c.cnt = need_sectors(dir.files[c.i].size) /\ c.s \in 0 .. c.cnt - 1
      BY <1>5 DEF CopyOn
    <2>9. c.pos \in Nat /\ Len(c.buf) \in Nat
      BY <1>3, LenProperties DEF Call
    <2>10. ASSUME NEW k \in 0 .. Len(f) - 1
           PROVE  (c.pos <= k /\ k < c.pos + Len(c.buf)) \/ ByteAt(disk', c.to, k) = f[k + 1]
      <3>1. CASE c.pos <= k
        BY <2>2, <2>8, <2>9, <3>1
      <3>2. CASE ~(c.pos <= k)
        <4>1. k \in 0 .. c.pos - 1 /\ k \in 0 .. dir.files[c.i].size - 1
          <5>1. k \in Nat /\ k < c.pos
            BY <2>2, <2>8, <2>9, <3>2
          <5>2. PICK u, z : u = c.pos /\ z = dir.files[c.i].size
            OBVIOUS
          <5>3. u \in Nat /\ z \in Nat /\ u <= z /\ k < u
            BY <1>3, <2>8, <2>9, <5>1, <5>2
          <5>4. k \in 0 .. u - 1 /\ k \in 0 .. z - 1
            BY <5>1, <5>3
          <5>5. QED
            BY <5>2, <5>4
        <4>2. k \div SectorSize \in 0 .. need_sectors(dir.files[c.i].size) - 1
          BY <1>3, <4>1, Needed
        <4>3. k \div SectorSize \in 0 .. c.s
          BY <1>3, <1>8, <2>8, <4>2
        <4>4. ByteAt(disk', c.to, k) = ByteAt(disk', c.start, k)
          BY <1>6, <4>3 DEF ByteAt
        <4>5. QED
          BY <1>6, <4>1, <4>4
      <3>3. QED
        BY <3>1, <3>2
    <2>11. PutOn(d, f)'
      <3>1. Len(f) = IF d.op = "append" THEN d.new ELSE dir'.files[c.i].size
        BY <2>4, <2>6, <2>7, <2>8
      <3>2. c.pos + Len(c.buf) <= Len(f)
        BY <2>2, <2>8, <2>9
      <3>3. QED
        BY <2>4, <2>6, <2>8, <2>10, <3>1, <3>2 DEF PutOn, Rest
    <2>12. StageOn(d, f)'
      BY <2>4, <2>11 DEF StageOn
    <2>13. \A m : m # c.n => Alike(dir, dir', m)
      BY <1>3, <2>6, OneEntry
    <2>14. c.i \in 1 .. dir'.count /\ d.pc \notin {"idle", "read"}
      BY <1>3, <2>4, <2>6
    <2>15. QED
      BY <1>1, <1>2, <1>3, <1>6, <2>4, <2>5, <2>6, <2>12, <2>13, <2>14, Continues
  <1>9. QED
    BY <1>7, <1>8

(* Putting bytes into a file. *)

LEMMA PutHolds ==
  ASSUME Preemptible = {}, DirInv, DirInv', FilesInv, SeenStep, NEW p \in Procs, Put(p)
  PROVE  FilesInv' /\ PromiseStep
  <1>1. PICK c, d : c = calls[p] /\ d = [c EXCEPT !.pc = "put"]
    OBVIOUS
  <1>2. /\ c.pc = "get" /\ May(p) /\ UNCHANGED <<dir, ondisk, disk>> /\ Goto(p, d)
        /\ io_buf' = [k \in Offsets |-> IF c.pos % SectorSize <= k /\ k - (c.pos % SectorSize) < Len(c.buf)
                                        THEN c.buf[k - (c.pos % SectorSize) + 1]
                                        ELSE SectorIn(disk, c.start + (c.pos \div SectorSize))[k]]
    BY <1>1 DEF Put, At, Load, Sector, SectorIn
  <1>3. /\ Changing(p) /\ c.op # "delete" /\ ChangeOn(c) /\ c \in Call /\ Typed
        /\ c.i \in 1 .. dir.count /\ dir.files[c.i].name = c.n /\ dir.next_free \in Nat
    BY <1>1, <1>2, Changer
  <1>4. PICK f \in Results(c.op, c.n) : StageOn(c, f)
    BY <1>1, <1>2, Changer
  <1>5. PutOn(c, f)
    BY <1>2, <1>4 DEF StageOn
  <1>6. /\ d.pc = "put" /\ d.n = c.n /\ d.i = c.i /\ d.op = c.op /\ d.buf = c.buf /\ d.pos = c.pos
        /\ d.new = c.new /\ d.start = c.start
    BY <1>1, <1>3 DEF Call
  <1>7. PutOn(d, f)'
    <2>1. c.start = dir.files[c.i].start
      BY <1>5 DEF PutOn
    <2>2. \A x \in Offsets :
            io_buf'[x] = IF c.pos % SectorSize <= x /\ x - (c.pos % SectorSize) < Len(c.buf)
                         THEN c.buf[x - (c.pos % SectorSize) + 1]
                         ELSE SectorIn(disk', dir'.files[c.i].start + (c.pos \div SectorSize))[x]
      BY <1>2, <2>1
    <2>3. QED
      BY <1>2, <1>5, <1>6, <2>2 DEF PutOn, Rest
  <1>8. StageOn(d, f)'
    BY <1>6, <1>7 DEF StageOn
  <1>9. \A m : m # c.n => Alike(dir, dir', m)
    BY <1>2, AlikeSelf
  <1>10. PICK s : s = dir.next_free
    OBVIOUS
  <1>11. s \in Int /\ (\A t : t # s => Stays(t)) /\ s >= dir.next_free
    BY <1>2, <1>3, <1>10, NothingOut
  <1>12. c.i \in 1 .. dir'.count /\ dir'.files[c.i].name = c.n /\ UNCHANGED ondisk /\ d.pc \notin {"idle", "read"}
    BY <1>2, <1>3, <1>6
  <1>13. QED
    BY <1>1, <1>2, <1>3, <1>6, <1>8, <1>9, <1>11, <1>12, Continues

(* The bytes of the sector that is written: those of the buffer, and around  *)
(* them what was there.                                                      *)
ByteRight(dk, a, f, k, lo, hi) == (lo <= k /\ k < hi) \/ ByteAt(dk, a, k) = f[k + 1]
InBuffer(a, pos, b) ==
  \A x \in Offsets :
    io_buf[x] = IF pos % SectorSize <= x /\ x - (pos % SectorSize) < Len(b)
                THEN b[x - (pos % SectorSize) + 1]
                ELSE SectorIn(disk, a + (pos \div SectorSize))[x]

LEMMA PutDone ==
  ASSUME NEW a \in Int, NEW pos \in Nat, NEW b \in Seq(Byte), NEW f \in Seq(Byte), pos + Len(b) <= Len(f),
         \A k \in 1 .. Len(b) : b[k] = f[pos + k],
         \A k \in 0 .. Len(f) - 1 : ByteRight(disk, a, f, k, pos, pos + Len(b)), InBuffer(a, pos, b),
         \A t : t # a + (pos \div SectorSize) => Stays(t),
         SectorIn(disk', a + (pos \div SectorSize)) = io_buf,
         NEW n, n = Min({SectorSize - (pos % SectorSize), Len(b)}), NEW k \in 0 .. Len(f) - 1
  PROVE  ByteRight(disk', a, f, k, pos + n, pos + Len(b))
  <1>1. PICK y, z, off, q : y = Len(b) /\ z = Len(f) /\ off = pos % SectorSize /\ q = pos \div SectorSize
    OBVIOUS
  <1>2. y \in Nat /\ z \in Nat /\ k \in Nat /\ k < z
    <2>1. y \in Nat /\ z \in Nat
      BY <1>1, LenProperties
    <2>2. QED
      BY <1>1, <2>1
  <1>3. off \in Offsets /\ q \in Nat /\ k \div SectorSize \in Nat /\ k % SectorSize \in Offsets
    BY <1>1, <1>2, Offset
  <1>4. off \in Nat /\ off < SectorSize /\ SectorSize \in Nat
    BY <1>3, Sizes DEF Offsets
  <1>5. n \in Nat /\ n <= SectorSize - off /\ n <= y
    <2>1. PICK w : w = SectorSize - off
      OBVIOUS
    <2>2. w \in Nat /\ n = Min({w, y})
      BY <1>1, <1>4, <2>1
    <2>3. Min({w, y}) = IF w <= y THEN w ELSE y
      BY <1>2, <2>2, MinPair
    <2>4. n <= w /\ n <= y /\ n \in Nat
      BY <1>2, <2>2, <2>3
    <2>5. QED
      BY <2>1, <2>4
  <1>6. k \div SectorSize = q <=> pos - off <= k /\ k < pos - off + SectorSize
    BY <1>1, <1>2, OneSector
  <1>7. CASE k \div SectorSize # q
    <2>1. Stays(a + (k \div SectorSize))
      BY <1>1, <1>3, <1>7
    <2>2. ByteAt(disk', a, k) = ByteAt(disk, a, k)
      BY <2>1, ByteStays
    <2>3. CASE pos <= k /\ k < pos + y
      <3>1. pos + n <= k
        BY <1>2, <1>4, <1>5, <1>6, <1>7, <2>3
      <3>2. QED
        BY <1>1, <2>3, <3>1 DEF ByteRight
    <2>4. QED
      BY <1>1, <2>2, <2>3 DEF ByteRight
  <1>8. CASE k \div SectorSize = q
    <2>1. PICK x : x = k % SectorSize
      OBVIOUS
    <2>2. x = k - (pos - off) /\ x \in Offsets
      BY <1>1, <1>2, <1>3, <1>8, <2>1, InSector
    <2>3. ByteAt(disk', a, k) = io_buf[x] /\ ByteAt(disk, a, k) = SectorIn(disk, a + q)[x]
      BY <1>1, <1>8, <2>1 DEF ByteAt
    <2>4. CASE off <= x /\ x - off < y
      <3>1. x - off + 1 \in 1 .. y /\ pos + (x - off + 1) = k + 1
        BY <1>2, <1>4, <2>2, <2>4
      <3>2. io_buf[x] = b[x - off + 1]
        BY <1>1, <2>2, <2>4 DEF InBuffer
      <3>3. b[x - off + 1] = f[pos + (x - off + 1)]
        BY <1>1, <3>1
      <3>4. QED
        BY <2>3, <3>1, <3>2, <3>3 DEF ByteRight
    <2>5. CASE ~(off <= x /\ x - off < y)
      <3>1. ~(pos <= k /\ k < pos + y)
        BY <1>2, <1>4, <2>2, <2>5
      <3>2. io_buf[x] = SectorIn(disk, a + q)[x]
        BY <1>1, <2>2, <2>5 DEF InBuffer
      <3>3. QED
        BY <1>1, <2>3, <3>1, <3>2 DEF ByteRight
    <2>6. QED
      BY <2>4, <2>5
  <1>9. QED
    BY <1>7, <1>8

LEMMA PutOutHolds ==
  ASSUME Preemptible = {}, DirInv, DirInv', FilesInv, SeenStep, NEW p \in Procs, PutOut(p)
  PROVE  FilesInv' /\ PromiseStep
  <1>1. PICK c : c = calls[p]
    OBVIOUS
  <1>2. PICK off, n, y, x, rest :
          /\ off = c.pos % SectorSize /\ y = Len(c.buf) /\ n = Min({SectorSize - off, y})
          /\ x = c.start + (c.pos \div SectorSize) /\ rest = SubSeq(c.buf, n + 1, y)
    OBVIOUS
  <1>3. c.pc = "put" /\ May(p) /\ Transfer(x, io_buf) /\ UNCHANGED ondisk
    BY <1>1, <1>2 DEF PutOut, At, Transfer
  <1>4. /\ Changing(p) /\ c.op # "delete" /\ ChangeOn(c) /\ c \in Call /\ CallOn(dir, c) /\ Typed /\ Good(dir)
        /\ c.i \in 1 .. dir.count /\ c.i \in Nat /\ dir.files[c.i].name = c.n /\ dir.next_free \in Nat
        /\ dir.count \in Nat /\ dir.files[c.i].size \in Nat /\ dir.files[c.i].start \in Int
        /\ Reserved(dir, c.i, need_sectors(dir.files[c.i].size))
    BY <1>1, <1>3, Changer
  <1>5. PICK f \in Results(c.op, c.n) : StageOn(c, f) /\ f \in Seq(Byte)
    BY <1>1, <1>3, Changer
  <1>6. PICK a : a = dir.files[c.i].start
    OBVIOUS
  <1>7. /\ c.start = a /\ Len(f) = (IF c.op = "append" THEN c.new ELSE dir.files[c.i].size)
        /\ c.buf # <<>> /\ c.pos + y <= Len(f)
        /\ \A k \in 1 .. y : c.buf[k] = f[c.pos + k]
        /\ \A k \in 0 .. Len(f) - 1 : (c.pos <= k /\ k < c.pos + y) \/ ByteAt(disk, a, k) = f[k + 1]
        /\ \A t \in Offsets : io_buf[t] = IF off <= t /\ t - off < y THEN c.buf[t - off + 1]
                                          ELSE SectorIn(disk, a + (c.pos \div SectorSize))[t]
    <2>1. PutOn(c, f)
      BY <1>3, <1>5 DEF StageOn
    <2>2. QED
      BY <1>2, <1>3, <1>6, <2>1 DEF PutOn, Rest
  <1>8. c.buf \in Seq(Byte) /\ y \in Nat /\ y > 0 /\ c.pos \in Nat /\ Len(f) \in Nat /\ c.pos < Len(f) /\ c.new \in Nat
    <2>1. c.buf \in Seq(Byte) /\ c.pos \in Nat /\ c.new \in Nat
      BY <1>4 DEF Call
    <2>2. y \in Nat /\ y > 0 /\ Len(f) \in Nat
      BY <1>2, <1>5, <1>7, <2>1, LenProperties, EmptySeq
    <2>3. QED
      BY <1>7, <2>1, <2>2
  <1>9. c.op \in {"write", "append", "write_at"} /\ \E r \in Nat : /\ r = need_sectors(Len(f)) /\ Reserved(dir, c.i, r)
    <2>1. c.op # "read" /\ c.op # "none" /\ c.op \in Kinds
      BY <1>3, <1>4 DEF CallOn, Call
    <2>2. CASE c.op = "append"
      BY <1>3, <1>4, <1>7, <1>8, <2>2, NeedNat DEF CallOn
    <2>3. CASE c.op # "append"
      BY <1>4, <1>7, <1>8, <2>1, <2>3, NeedNat DEF Kinds
    <2>4. QED
      BY <1>4, <2>1, <2>2, <2>3 DEF Kinds
  <1>10. PICK r \in Nat : r = need_sectors(Len(f)) /\ Reserved(dir, c.i, r)
    BY <1>9
  <1>11. x \in Sectors /\ x \in Int /\ a <= x /\ x < a + r /\ x = a + (c.pos \div SectorSize) /\ a \in Int
    <2>1. c.pos \in 0 .. Len(f) - 1
      BY <1>8
    <2>2. c.pos \div SectorSize \in 0 .. r - 1
      BY <1>8, <1>10, <2>1, Needed
    <2>3. 0 <= a /\ a + r <= dir.next_free
      BY <1>6, <1>10, <2>2 DEF Reserved
    <2>4. dir.next_free <= DataEnd
      BY <1>4, Fields DEF Typed
    <2>5. PICK q : q = c.pos \div SectorSize
      OBVIOUS
    <2>6. q \in 0 .. r - 1 /\ x = a + q /\ a \in Int
      BY <1>2, <1>4, <1>6, <1>7, <2>2, <2>5
    <2>7. x \in Int /\ a <= x /\ x < a + r /\ 0 <= x /\ x < DataEnd
      BY <1>4, <1>10, <2>3, <2>4, <2>6, Sizes
    <2>8. x \in Sectors
      BY <2>7, Sizes DEF Sectors
    <2>9. QED
      BY <2>5, <2>6, <2>7, <2>8
  <1>12. (\A t : t # x => Stays(t)) /\ SectorIn(disk', x) = io_buf
    BY <1>3, <1>11, OneSectorOut
  <1>13. ASSUME NEW k \in 0 .. Len(f) - 1
         PROVE  (c.pos + n <= k /\ k < c.pos + y) \/ ByteAt(disk', a, k) = f[k + 1]
    <2>1. PICK b, pos : b = c.buf /\ pos = c.pos
      OBVIOUS
    <2>2. /\ pos \in Nat /\ b \in Seq(Byte) /\ pos + Len(b) <= Len(f) /\ n = Min({SectorSize - (pos % SectorSize), Len(b)})
          /\ \A j \in 1 .. Len(b) : b[j] = f[pos + j]
          /\ \A j \in 0 .. Len(f) - 1 : ByteRight(disk, a, f, j, pos, pos + Len(b))
      BY <1>2, <1>7, <1>8, <2>1 DEF ByteRight
    <2>3. InBuffer(a, pos, b)
      BY <1>2, <1>7, <2>1 DEF InBuffer
    <2>4. /\ \A t : t # a + (pos \div SectorSize) => Stays(t)
          /\ SectorIn(disk', a + (pos \div SectorSize)) = io_buf
      BY <1>11, <1>12, <2>1
    <2>5. ByteRight(disk', a, f, k, pos + n, pos + Len(b))
      BY <1>5, <1>11, <2>2, <2>3, <2>4, PutDone
    <2>6. QED
      BY <1>2, <2>1, <2>5 DEF ByteRight
  <1>14. n \in Nat /\ n <= y
    <2>1. PICK w : w = SectorSize - off
      OBVIOUS
    <2>2. w \in Nat
      <3>1. off \in Offsets
        BY <1>2, <1>8, Offset
      <3>2. QED
        BY <2>1, <3>1, Sizes DEF Offsets
    <2>3. Min({w, y}) = IF w <= y THEN w ELSE y
      BY <1>8, <2>2, MinPair
    <2>4. n = Min({w, y})
      BY <1>2, <2>1
    <2>5. QED
      BY <1>8, <2>2, <2>3, <2>4
  <1>15. Len(rest) = y - n /\ (\A k \in 1 .. Len(rest) : rest[k] = c.buf[n + k]) /\ (rest = <<>> <=> y = n)
    <2>1. PICK b : b = c.buf
      OBVIOUS
    <2>2. b \in Seq(Byte) /\ n \in Nat /\ rest = SubSeq(b, n + 1, Len(b)) /\ Len(b) = y
      BY <1>2, <1>8, <1>14, <2>1
    <2>3. Left(rest, b, n)
      BY <2>2, LeftOf
    <2>4. QED
      BY <1>8, <1>14, <2>1, <2>2, <2>3 DEF Left
  <1>16. PICK d : d = [c EXCEPT !.pos = @ + n, !.buf = rest, !.pc = IF rest = <<>> THEN "save" ELSE "get"]
    OBVIOUS
  <1>17. /\ d.pc = (IF rest = <<>> THEN "save" ELSE "get") /\ d.n = c.n /\ d.i = c.i /\ d.op = c.op /\ d.buf = rest
         /\ d.pos = c.pos + n /\ d.new = c.new /\ d.start = c.start
    BY <1>4, <1>16 DEF Call
  <1>18. /\ Goto(p, d)
         /\ dir' = IF rest = <<>> /\ c.op = "append" THEN [dir EXCEPT !.files[c.i].size = c.new] ELSE dir
    BY <1>1, <1>2, <1>16 DEF PutOut
  <1>19. /\ dir'.count = dir.count /\ dir'.files[c.i].name = c.n /\ dir'.files[c.i].start = a
         /\ rest = <<>> => dir'.files[c.i].size = Len(f)
         /\ \A k \in 1 .. dir.count : k # c.i => dir'.files[k] = dir.files[k]
    <2>1. c.i \in Entries /\ \A k \in 1 .. dir.count : k \in Entries
      BY <1>4, Fields, Sizes DEF Typed, Entries
    <2>2. CASE rest = <<>> /\ c.op = "append"
      <3>1. dir' = [dir EXCEPT !.files = [dir.files EXCEPT ![c.i] = [dir.files[c.i] EXCEPT !.size = c.new]]]
        BY <1>18, <2>2
      <3>2. dir'.count = dir.count /\ dir'.files = [dir.files EXCEPT ![c.i] = [dir.files[c.i] EXCEPT !.size = c.new]]
        BY <1>4, <3>1 DEF Typed, Directory
      <3>3. dir.files \in [Entries -> File]
        BY <1>4 DEF Typed, Directory
      <3>4. QED
        BY <1>4, <1>6, <1>7, <2>1, <2>2, <3>2, <3>3 DEF File
    <2>3. CASE ~(rest = <<>> /\ c.op = "append")
      BY <1>4, <1>6, <1>7, <1>18, <2>3
    <2>4. QED
      BY <2>2, <2>3
  <1>20. rest = <<>> => SaveOn(d, f)'
    <2>1. rest = <<>> => \A k \in 0 .. Len(f) - 1 : ByteAt(disk', a, k) = f[k + 1]
      BY <1>8, <1>13, <1>14, <1>15
    <2>2. QED
      BY <1>17, <1>19, <2>1 DEF SaveOn
  <1>21. rest # <<>> => PutOn(d, f)'
    <2> SUFFICES ASSUME rest # <<>> PROVE PutOn(d, f)'
      OBVIOUS
    <2>1. dir' = dir /\ (c.pos + n) + Len(rest) = c.pos + y
      BY <1>8, <1>14, <1>15, <1>18
    <2>2. Rest(d, f, c.pos + n)
      <3>1. ASSUME NEW k \in 1 .. Len(rest) PROVE rest[k] = f[(c.pos + n) + k]
        <4>1. n + k \in 1 .. y /\ c.pos + (n + k) = (c.pos + n) + k
          BY <1>8, <1>14, <1>15
        <4>2. QED
          BY <1>7, <1>15, <4>1
      <3>2. QED
        BY <1>17, <3>1 DEF Rest
    <2>3. \A k \in 0 .. Len(f) - 1 : (c.pos + n <= k /\ k < (c.pos + n) + Len(rest)) \/ ByteAt(disk', a, k) = f[k + 1]
      BY <1>13, <2>1
    <2>4. QED
      BY <1>6, <1>7, <1>17, <2>1, <2>2, <2>3 DEF PutOn, Rest
  <1>22. StageOn(d, f)'
    BY <1>17, <1>20, <1>21 DEF StageOn
  <1>23. \A m : m # c.n => Alike(dir, dir', m)
    BY <1>4, <1>19, OneEntry
  <1>24. c.i \in 1 .. dir'.count /\ d.pc \notin {"idle", "read"}
    BY <1>4, <1>17, <1>19
  <1>25. \E e \in Nat : Reserved(dir, c.i, e) /\ dir.files[c.i].start <= x /\ x < dir.files[c.i].start + e
    BY <1>6, <1>10, <1>11
  <1>26. QED
    BY <1>1, <1>3, <1>4, <1>11, <1>12, <1>17, <1>18, <1>19, <1>22, <1>23, <1>24, <1>25, Continues

(* Deleting. *)

(* Entry g is entry f behind the hole, or before it, after the slide. *)
SlidTo(g, f, hole, freed) ==
  /\ g.name = f.name /\ g.size = f.size
  /\ g.start = IF f.start > hole THEN f.start - freed ELSE f.start

LEMMA SlidIs ==
  ASSUME Good(dir), NEW i \in 1 .. dir.count, NEW hole \in Int, NEW freed \in Nat, NEW e, e = Slid(i, hole, freed)
  PROVE  /\ \A j \in 1 .. e.count : \E k \in (1 .. dir.count) \ {i} : SlidTo(e.files[j], dir.files[k], hole, freed)
         /\ \A k \in (1 .. dir.count) \ {i} : \E j \in 1 .. e.count : SlidTo(e.files[j], dir.files[k], hole, freed)
  <1> DEFINE moved(f) == IF f.start > hole THEN [f EXCEPT !.start = @ - freed] ELSE f
             used(k) == IF k <= dir.count THEN moved(dir.files[k]) ELSE dir.files[k]
             files == [k \in Entries |-> IF i <= k /\ k < dir.count THEN used(k + 1) ELSE used(k)]
             o(j) == IF i <= j THEN j + 1 ELSE j
  <1>1. dir \in Directory
    BY DEF Good
  <1>2. dir.count \in Nat /\ dir.count <= MaxFiles /\ i \in Nat /\ i <= dir.count /\ i >= 1
        /\ \A j \in 1 .. dir.count : j \in Entries
    BY <1>1, Fields
  <1>3. e = [dir EXCEPT !.count = dir.count - 1, !.next_free = dir.next_free - freed, !.files = files]
    BY <1>1 DEF Slid, Directory
  <1>4. \A k \in 1 .. dir.count : SlidTo(moved(dir.files[k]), dir.files[k], hole, freed)
    BY <1>1, <1>2 DEF Directory, File, SlidTo
  <1> HIDE DEF moved
  <1>5. \A j \in 1 .. dir.count - 1 : files[j] = moved(dir.files[o(j)]) /\ o(j) \in (1 .. dir.count) \ {i}
    BY <1>2, Sizes DEF Entries
  <1> HIDE DEF files
  <1>6. e.count = dir.count - 1 /\ e.files = files
    BY <1>1, <1>3 DEF Directory
  <1>7. ASSUME NEW j \in 1 .. e.count
        PROVE  \E k \in (1 .. dir.count) \ {i} : SlidTo(e.files[j], dir.files[k], hole, freed)
    BY <1>4, <1>5, <1>6
  <1>8. ASSUME NEW k \in (1 .. dir.count) \ {i}
        PROVE  \E j \in 1 .. e.count : SlidTo(e.files[j], dir.files[k], hole, freed)
    <2>1. PICK j : j = IF i < k THEN k - 1 ELSE k
      OBVIOUS
    <2>2. j \in 1 .. dir.count - 1 /\ o(j) = k
      BY <1>2, <2>1
    <2>3. e.files[j] = moved(dir.files[k])
      BY <1>5, <1>6, <2>2
    <2>4. QED
      BY <1>4, <1>6, <2>2, <2>3
  <1>9. QED
    BY <1>7, <1>8

(* The bytes of file j of G are on disk dk, where c has slid them to. *)
Slides(dk, G, c, j) ==
  LET n == dir.files[j].name IN
  /\ Len(G[n]) = dir.files[j].size
  /\ \A k \in 0 .. dir.files[j].size - 1 :
       G[n][k + 1] = SectorIn(dk, Now(c, dir.files[j].start + (k \div SectorSize)))[k % SectorSize]

(* A sector of another file lies before the hole or behind it, and so does   *)
(* the file.                                                                 *)
LEMMA BesideHole ==
  ASSUME Typed, Good(dir), NEW i \in 1 .. dir.count, NEW j \in 1 .. dir.count, i # j, NEW t \in Int, Holds(j, t)
  PROVE  LET a == dir.files[i].start n == need_sectors(dir.files[i].size) IN
         /\ t < a \/ a + n <= t
         /\ n > 0 => (t > a <=> dir.files[j].start > a)
  <1>1. /\ dir.files[i].start \in Int /\ dir.files[j].start \in Int /\ dir \in Directory
        /\ need_sectors(dir.files[i].size) \in Nat
    BY Fields DEF Typed
  <1>2. Reserved(dir, i, need_sectors(dir.files[i].size))
    BY <1>1, GoodIs
  <1>3. /\ dir.files[j].start <= t /\ t < dir.files[j].start + need_sectors(dir.files[j].size)
        /\ need_sectors(dir.files[j].size) \in Nat
    <2>1. dir.files[j].start <= t /\ t < dir.files[j].start + need_sectors(dir.files[j].size)
      BY InRun
    <2>2. need_sectors(dir.files[j].size) \in Nat
      BY <1>1, Fields
    <2>3. QED
      BY <2>1, <2>2
  <1>4. PICK a, n, b, m : /\ a = dir.files[i].start /\ n = need_sectors(dir.files[i].size)
                          /\ b = dir.files[j].start /\ m = need_sectors(dir.files[j].size)
    OBVIOUS
  <1>5. n = 0 \/ m = 0 \/ a + n <= b \/ b + m <= a
    BY <1>2, <1>4 DEF Reserved
  <1>6. a \in Int /\ n \in Nat /\ b \in Int /\ m \in Nat /\ b <= t /\ t < b + m
    BY <1>1, <1>3, <1>4
  <1>7. (t < a \/ a + n <= t) /\ (n > 0 => (t > a <=> b > a))
    BY <1>5, <1>6
  <1>8. QED
    BY <1>4, <1>7

(* When all has slid, every other file is as it was. *)
LEMMA GoneAll ==
  ASSUME Typed, Good(dir), NEW G, NEW c, c.i \in 1 .. dir.count, c.start = dir.files[c.i].start,
         c.cnt = need_sectors(dir.files[c.i].size), c.s \in Int, c.s >= dir.next_free, c.n = dir.files[c.i].name,
         dir' = Slid(c.i, c.start, c.cnt),
         \A m \in Names \ {c.n} : m \in DOMAIN G <=> Listed(dir, m),
         \A j \in (1 .. dir.count) \ {c.i} : Slides(disk', G, c, j)
  PROVE  ~Listed(dir', c.n) /\ \A m \in Names \ {c.n} : Shows(G, m)'
  <1>1. c.start \in Int /\ c.cnt \in Nat /\ dir \in Directory
    BY Fields DEF Typed
  <1>2. PICK e : e = dir'
    OBVIOUS
  <1>3. /\ \A j \in 1 .. e.count : \E k \in (1 .. dir.count) \ {c.i} : SlidTo(e.files[j], dir.files[k], c.start, c.cnt)
        /\ \A k \in (1 .. dir.count) \ {c.i} : \E j \in 1 .. e.count : SlidTo(e.files[j], dir.files[k], c.start, c.cnt)
    BY <1>1, <1>2, SlidIs
  <1>4. Distinct(dir)
    BY <1>1, GoodIs
  <1>5. \A k \in (1 .. dir.count) \ {c.i} : dir.files[k].name # c.n
    BY <1>4 DEF Distinct
  <1>6. ~Listed(e, c.n)
    BY <1>3, <1>5 DEF Listed, SlidTo
  <1>7. ASSUME NEW m \in Names \ {c.n} PROVE Shows(G, m)'
    <2>1. Listed(e, m) <=> Listed(dir, m)
      <3>1. Listed(e, m) => Listed(dir, m)
        BY <1>3 DEF Listed, SlidTo
      <3>2. Listed(dir, m) => \E k \in (1 .. dir.count) \ {c.i} : dir.files[k].name = m
        BY DEF Listed
      <3>3. Listed(dir, m) => Listed(e, m)
        BY <1>3, <3>2 DEF Listed, SlidTo
      <3>4. QED
        BY <3>1, <3>3
    <2>2. ASSUME NEW j \in 1 .. e.count, e.files[j].name = m
          PROVE  /\ Len(G[m]) = e.files[j].size
                 /\ \A k \in 0 .. e.files[j].size - 1 : ByteAt(disk', e.files[j].start, k) = G[m][k + 1]
      <3>1. PICK l \in (1 .. dir.count) \ {c.i} : SlidTo(e.files[j], dir.files[l], c.start, c.cnt)
        BY <1>3
      <3>2. /\ dir.files[l].name = m /\ dir.files[l].size = e.files[j].size
            /\ e.files[j].start = IF dir.files[l].start > c.start THEN dir.files[l].start - c.cnt ELSE dir.files[l].start
        BY <2>2, <3>1 DEF SlidTo
      <3>3. /\ Len(G[m]) = dir.files[l].size
            /\ \A k \in 0 .. dir.files[l].size - 1 :
                 G[m][k + 1] = SectorIn(disk', Now(c, dir.files[l].start + (k \div SectorSize)))[k % SectorSize]
        BY <3>2 DEF Slides
      <3>4. dir.files[l].start \in Int /\ dir.files[l].size \in Nat /\ dir.next_free \in Nat
        BY <1>1, Fields
      <3>5. ASSUME NEW k \in 0 .. dir.files[l].size - 1
            PROVE  ByteAt(disk', e.files[j].start, k) = G[m][k + 1]
        <4>1. PICK q, t : q = k \div SectorSize /\ t = dir.files[l].start + q
          OBVIOUS
        <4>2. k \in Nat
          BY <3>4
        <4>3. q \in Nat /\ t \in Int
          BY <3>4, <4>1, <4>2, Offset
        <4>4. Holds(l, t)
          BY <4>1 DEF Holds
        <4>5. t < dir.next_free
          BY <4>3, <4>4, InRun
        <4>6. c.cnt > 0 => (t > c.start <=> dir.files[l].start > c.start)
          BY <4>3, <4>4, BesideHole
        <4>7. Now(c, t) = e.files[j].start + q
          BY <1>1, <3>2, <3>4, <4>1, <4>3, <4>5, <4>6 DEF Now
        <4>8. QED
          BY <3>3, <4>1, <4>7 DEF ByteAt
      <3>6. QED
        BY <3>2, <3>3, <3>5
    <2>3. m \in DOMAIN G <=> Listed(e, m)
      BY <2>1
    <2>4. QED
      BY <1>2, <2>2, <2>3 DEF Shows
  <1>8. QED
    BY <1>2, <1>6, <1>7

(* Before the slide everything is where it was. *)
LEMMA NotSlid ==
  ASSUME Typed, Good(dir), AllSame, NEW c, c.i \in 1 .. dir.count, c.start = dir.files[c.i].start,
         c.cnt = need_sectors(dir.files[c.i].size), c.s = c.start + c.cnt, NEW j \in (1 .. dir.count) \ {c.i}
  PROVE  Slides(disk, seen, c, j)
  <1>1. /\ c.start \in Int /\ c.cnt \in Nat /\ dir.files[j].start \in Int /\ dir.files[j].size \in Nat
        /\ dir.files[j].name \in Names
    BY Fields DEF Typed, Good, Named
  <1>2. /\ Len(seen[dir.files[j].name]) = dir.files[j].size
        /\ \A k \in 0 .. dir.files[j].size - 1 :
             ByteAt(disk, dir.files[j].start, k) = seen[dir.files[j].name][k + 1]
    BY <1>1 DEF AllSame, Same, Shows
  <1>3. ASSUME NEW k \in 0 .. dir.files[j].size - 1
        PROVE  Now(c, dir.files[j].start + (k \div SectorSize)) = dir.files[j].start + (k \div SectorSize)
    <2>1. PICK q, t : q = k \div SectorSize /\ t = dir.files[j].start + q
      OBVIOUS
    <2>2. k \in Nat
      BY <1>1
    <2>3. t \in Int /\ Holds(j, t)
      BY <1>1, <2>1, <2>2, Offset DEF Holds
    <2>4. t < c.start \/ c.start + c.cnt <= t
      BY <2>3, BesideHole
    <2>5. QED
      BY <1>1, <2>1, <2>3, <2>4 DEF Now
  <1>4. QED
    BY <1>2, <1>3 DEF Slides, ByteAt

(* A step of a delete. *)
LEMMA Deletes ==
  ASSUME Preemptible = {}, DirInv, DirInv', FilesInv, SeenStep, NEW p \in Procs, May(p),
         NEW d, Goto(p, d), d.op = "delete", d.pc \in {"slide_in", "slide_out", "save"}, d.n \in Names,
         calls[p].pc = "idle" \/ (Changing(p) /\ calls[p].n = d.n),
         seen' = seen => DeleteOn(d)'
  PROVE  FilesInv' /\ PromiseStep
  <1>1. calls'[p] = d /\ d \in Call
    BY DEF Goto, DirInv, Typed
  <1>2. seen' = seen => WorkOn(d)'
    BY DEF WorkOn
  <1>3. d.pc \notin {"idle", "read"}
    OBVIOUS
  <1>4. QED
    BY <1>1, <1>2, <1>3, Proceeds DEF DirInv

LEMMA SysDeleteHolds ==
  ASSUME Preemptible = {}, DirInv, DirInv', FilesInv, SeenStep, NEW p \in Procs, NEW n \in Names, SysDelete(p, n)
  PROVE  FilesInv' /\ PromiseStep
  <1>1. May(p) /\ calls[p].pc = "idle" /\ AllSame /\ Typed /\ Good(dir)
    BY Quiet DEF SysDelete, Calls, DirInv
  <1>2. PICK i, a, m : i = Find(n) /\ a = dir.files[i].start /\ m = need_sectors(dir.files[i].size)
    OBVIOUS
  <1>3. CASE i = 0 /\ Answer(p, Failed) /\ UNCHANGED dir
    BY <1>1, <1>3, Fails
  <1>4. CASE i # 0
    <2>1. i \in 1 .. dir.count /\ dir.files[i].name = n
      BY <1>2, <1>4, FoundListed
    <2>2. a \in Int /\ m \in Nat /\ dir.next_free \in Nat
      BY <1>1, <1>2, <2>1, Fields DEF Typed
    <2>3. n \in DOMAIN seen
      BY <1>1, <2>1 DEF AllSame, Same, Shows, Listed
    <2>4. PICK d : d = [Idle EXCEPT !.op = "delete", !.n = n, !.i = i, !.start = a, !.cnt = m, !.s = a + m,
                                    !.pc = IF a + m < dir.next_free THEN "slide_in" ELSE "save"]
      OBVIOUS
    <2>5. /\ d.op = "delete" /\ d.n = n /\ d.i = i /\ d.start = a /\ d.cnt = m /\ d.s = a + m
          /\ d.pc = IF a + m < dir.next_free THEN "slide_in" ELSE "save"
      BY <2>4 DEF Idle
    <2>6. /\ Goto(p, d) /\ disk' = disk
          /\ IF a + m < dir.next_free THEN dir' = dir ELSE dir' = Slid(i, a, m)
      BY <1>2, <1>4, <2>4 DEF SysDelete
    <2>7. \A j \in (1 .. dir.count) \ {i} : Slides(disk, seen, d, j)
      BY <1>1, <1>2, <2>1, <2>5, NotSlid
    <2>8. \A l \in Names : l \in DOMAIN seen <=> Listed(dir, l)
      BY <1>1 DEF AllSame, Same, Shows
    <2>9. CASE a + m < dir.next_free
      <3>1. ASSUME seen' = seen PROVE SlideOn(d)'
        BY <2>1, <2>2, <2>3, <2>5, <2>6, <2>7, <2>8, <2>9, <3>1 DEF SlideOn, Slides
      <3>2. seen' = seen => DeleteOn(d)'
        BY <2>5, <2>9, <3>1 DEF DeleteOn
      <3>3. QED
        BY <1>1, <2>5, <2>6, <2>9, <3>2, Deletes
    <2>10. CASE ~(a + m < dir.next_free)
      <3>1. PICK G : G = seen
        OBVIOUS
      <3>2. /\ d.start = dir.files[d.i].start /\ d.cnt = need_sectors(dir.files[d.i].size) /\ d.s \in Int
            /\ d.s >= dir.next_free /\ d.n = dir.files[d.i].name /\ d.i \in 1 .. dir.count
            /\ dir' = Slid(d.i, d.start, d.cnt)
        BY <1>2, <2>1, <2>2, <2>5, <2>6, <2>10
      <3>3. /\ \A l \in Names \ {d.n} : l \in DOMAIN G <=> Listed(dir, l)
            /\ \A j \in (1 .. dir.count) \ {d.i} : Slides(disk', G, d, j)
        BY <2>5, <2>6, <2>7, <2>8, <3>1
      <3>4. ~Listed(dir', d.n) /\ \A l \in Names \ {d.n} : Shows(G, l)'
        BY <1>1, <3>2, <3>3, GoneAll
      <3>5. ASSUME seen' = seen PROVE GoneOn(d)'
        BY <2>3, <2>5, <3>1, <3>4, <3>5 DEF GoneOn, Same, Shows
      <3>6. seen' = seen => DeleteOn(d)'
        BY <2>5, <2>10, <3>5 DEF DeleteOn
      <3>7. QED
        BY <1>1, <2>5, <2>6, <2>10, <3>6, Deletes
    <2>11. QED
      BY <2>9, <2>10
  <1>5. QED
    BY <1>2, <1>3, <1>4 DEF SysDelete

(* The state of a delete that is sliding. *)
LEMMA Slider ==
  ASSUME Preemptible = {}, DirInv, FilesInv, NEW p \in Procs, May(p), NEW c, c = calls[p],
         c.pc \in {"slide_in", "slide_out"}
  PROVE  /\ Changing(p) /\ c.op = "delete" /\ SlideOn(c) /\ c \in Call /\ c.n \in Names
         /\ c.i \in 1 .. dir.count /\ c.start = dir.files[c.i].start /\ c.cnt = need_sectors(dir.files[c.i].size)
         /\ Typed /\ Good(dir)
  <1>1. Changing(p)
    BY DEF Changing
  <1>2. WorkOn(c) /\ c.n \in Names /\ c \in Call /\ CallOn(dir, c)
    BY <1>1, Inside
  <1>3. /\ c.op = "delete" /\ c.i \in 1 .. dir.count
        /\ c.start = dir.files[c.i].start /\ c.cnt = need_sectors(dir.files[c.i].size)
    BY <1>2 DEF CallOn
  <1>4. SlideOn(c)
    BY <1>2, <1>3 DEF WorkOn, DeleteOn
  <1>5. QED
    BY <1>1, <1>2, <1>3, <1>4 DEF DirInv

LEMMA SlideInHolds ==
  ASSUME Preemptible = {}, DirInv, DirInv', FilesInv, SeenStep, NEW p \in Procs, SlideIn(p)
  PROVE  FilesInv' /\ PromiseStep
  <1>1. PICK c, d : c = calls[p] /\ d = [c EXCEPT !.pc = "slide_out"]
    OBVIOUS
  <1>2. /\ c.pc = "slide_in" /\ May(p) /\ UNCHANGED <<dir, disk>> /\ io_buf' = Sector(c.s) /\ Goto(p, d)
    BY <1>1 DEF SlideIn, At, Load
  <1>3. Changing(p) /\ c.op = "delete" /\ SlideOn(c) /\ c \in Call /\ c.n \in Names
    BY <1>1, <1>2, Slider
  <1>4. /\ d.pc = "slide_out" /\ d.n = c.n /\ d.i = c.i /\ d.op = c.op /\ d.start = c.start /\ d.s = c.s
        /\ d.cnt = c.cnt
    BY <1>1, <1>3 DEF Call
  <1>5. io_buf' = SectorIn(disk', c.s)
    BY <1>2 DEF Sector, SectorIn
  <1>6. \A t : Now(d, t) = Now(c, t)
    BY <1>4 DEF Now
  <1>7. ASSUME seen' = seen PROVE SlideOn(d)'
    BY <1>2, <1>3, <1>4, <1>5, <1>6, <1>7 DEF SlideOn
  <1>8. seen' = seen => DeleteOn(d)'
    BY <1>4, <1>7 DEF DeleteOn
  <1>9. QED
    BY <1>1, <1>2, <1>3, <1>4, <1>8, Deletes

(* One sector further, a sector of another file is where it has now slid to. *)
LEMMA SlidFurther ==
  ASSUME Typed, Good(dir), NEW c, c.i \in 1 .. dir.count, c.start = dir.files[c.i].start,
         c.cnt = need_sectors(dir.files[c.i].size), c.s \in Int, c.start + c.cnt <= c.s, c.s < dir.next_free,
         io_buf = SectorIn(disk, c.s), Transfer(c.s - c.cnt, io_buf),
         NEW e, e.start = c.start, e.cnt = c.cnt, e.s = c.s + 1,
         NEW j \in (1 .. dir.count) \ {c.i}, NEW t \in Int, Holds(j, t)
  PROVE  SectorIn(disk', Now(e, t)) = SectorIn(disk, Now(c, t))
  <1>1. PICK a, m, s, x : a = c.start /\ m = c.cnt /\ s = c.s /\ x = s - m
    OBVIOUS
  <1>2. /\ a \in Int /\ m \in Nat /\ s \in Int /\ x \in Int /\ a + m <= s /\ s < dir.next_free
        /\ dir.next_free \in Nat /\ dir.next_free <= DataEnd
    BY <1>1, Fields DEF Typed
  <1>3. /\ Now(c, t) = (IF a < t /\ t < s THEN t - m ELSE t)
        /\ Now(e, t) = (IF a < t /\ t < s + 1 THEN t - m ELSE t)
    BY <1>1 DEF Now
  <1>4. t < a \/ a + m <= t
    BY <1>1, BesideHole
  <1>5. (\A u : u # x => Stays(u)) /\ (x \in Sectors => SectorIn(disk', x) = io_buf)
    BY <1>1, OneSectorOut
  <1>6. CASE m = 0
    <2>1. x = s
      BY <1>1, <1>2, <1>6
    <2>2. \A u : SectorIn(disk', u) = SectorIn(disk, u)
      BY <1>1, <1>5, <2>1 DEF Stays, SectorIn, Transfer
    <2>3. Now(e, t) = t /\ Now(c, t) = t
      BY <1>2, <1>3, <1>6
    <2>4. QED
      BY <2>2, <2>3
  <1>7. CASE m > 0
    <2>1. 0 <= a
      <3>1. Reserved(dir, c.i, m)
        BY <1>1, GoodIs DEF Typed
      <3>2. QED
        BY <1>1, <1>2, <1>7, <3>1 DEF Reserved
    <2>2. x \in Sectors
      BY <1>1, <1>2, <2>1, Sizes DEF Sectors
    <2>3. CASE t = s
      <3>1. Now(c, t) = s /\ Now(e, t) = x
        BY <1>1, <1>2, <1>3, <1>7, <2>3
      <3>2. QED
        BY <1>1, <1>5, <2>2, <3>1
    <2>4. CASE t # s
      <3>1. Now(e, t) = Now(c, t)
        BY <1>2, <1>3, <2>4
      <3>2. Now(c, t) # x
        BY <1>1, <1>2, <1>3, <1>4, <1>7, <2>4
      <3>3. QED
        BY <1>5, <3>1, <3>2 DEF Stays
    <2>5. QED
      BY <2>3, <2>4
  <1>8. QED
    BY <1>2, <1>6, <1>7

LEMMA SlideOutHolds ==
  ASSUME Preemptible = {}, DirInv, DirInv', FilesInv, SeenStep, NEW p \in Procs, SlideOut(p)
  PROVE  FilesInv' /\ PromiseStep
  <1>1. PICK c : c = calls[p]
    OBVIOUS
  <1>2. c.pc = "slide_out" /\ May(p) /\ Transfer(c.s - c.cnt, io_buf)
    BY <1>1 DEF SlideOut, At
  <1>3. /\ Changing(p) /\ c.op = "delete" /\ SlideOn(c) /\ c \in Call /\ c.n \in Names
        /\ c.i \in 1 .. dir.count /\ c.start = dir.files[c.i].start /\ c.cnt = need_sectors(dir.files[c.i].size)
        /\ Typed /\ Good(dir)
    BY <1>1, <1>2, Slider
  <1>4. /\ c.s \in Int /\ c.start + c.cnt <= c.s /\ c.s < dir.next_free /\ io_buf = SectorIn(disk, c.s)
        /\ dir.files[c.i].name = c.n /\ c.n \in DOMAIN seen
        /\ \A m \in Names \ {c.n} : m \in DOMAIN seen <=> Listed(dir, m)
    BY <1>2, <1>3 DEF SlideOn, Call
  <1>5. \A j \in (1 .. dir.count) \ {c.i} : Slides(disk, seen, c, j)
    BY <1>3 DEF SlideOn, Slides
  <1>6. PICK d : d = IF c.s + 1 < dir.next_free THEN [c EXCEPT !.pc = "slide_in", !.s = @ + 1] ELSE [c EXCEPT !.pc = "save"]
    OBVIOUS
  <1>7. /\ d.pc = (IF c.s + 1 < dir.next_free THEN "slide_in" ELSE "save") /\ d.n = c.n /\ d.i = c.i /\ d.op = c.op
        /\ d.start = c.start /\ d.cnt = c.cnt /\ (c.s + 1 < dir.next_free => d.s = c.s + 1)
    <2>1. CASE c.s + 1 < dir.next_free
      BY <1>3, <1>6, <2>1 DEF Call
    <2>2. CASE ~(c.s + 1 < dir.next_free)
      BY <1>3, <1>6, <2>2 DEF Call
    <2>3. QED
      BY <2>1, <2>2
  <1>8. /\ Goto(p, d)
        /\ IF c.s + 1 < dir.next_free THEN dir' = dir ELSE dir' = Slid(c.i, c.start, c.cnt)
    BY <1>1, <1>6 DEF SlideOut
  <1>9. PICK e : e = [c EXCEPT !.s = @ + 1]
    OBVIOUS
  <1>10. e.start = c.start /\ e.cnt = c.cnt /\ e.s = c.s + 1 /\ e.i = c.i /\ e.n = c.n
    BY <1>3, <1>9 DEF Call
  <1>11. ASSUME NEW j \in (1 .. dir.count) \ {c.i} PROVE Slides(disk', seen, e, j)
    <2>1. dir.files[j].start \in Int /\ dir.files[j].size \in Nat
      BY <1>3, Fields DEF Typed
    <2>2. ASSUME NEW k \in 0 .. dir.files[j].size - 1
          PROVE  LET t == dir.files[j].start + (k \div SectorSize) IN
                 SectorIn(disk', Now(e, t)) = SectorIn(disk, Now(c, t))
      <3>1. PICK t : t = dir.files[j].start + (k \div SectorSize)
        OBVIOUS
      <3>2. k \in Nat
        BY <2>1
      <3>3. t \in Int /\ Holds(j, t)
        BY <2>1, <3>1, <3>2, Offset DEF Holds
      <3>4. SectorIn(disk', Now(e, t)) = SectorIn(disk, Now(c, t))
        BY <1>2, <1>3, <1>4, <1>10, <3>3, SlidFurther
      <3>5. QED
        BY <3>1, <3>4
    <2>3. Slides(disk, seen, c, j)
      BY <1>5
    <2>4. QED
      BY <2>2, <2>3 DEF Slides
  <1>12. CASE c.s + 1 < dir.next_free
    <2>1. \A t : Now(d, t) = Now(e, t)
      BY <1>7, <1>10, <1>12 DEF Now
    <2>2. \A j \in (1 .. dir.count) \ {c.i} : Slides(disk', seen, d, j)
      BY <1>11, <2>1 DEF Slides
    <2>3. d.start + d.cnt <= d.s /\ d.s < dir.next_free
      <3>1. c.start \in Int /\ c.cnt \in Int
        BY <1>3 DEF Call
      <3>2. QED
        BY <1>4, <1>7, <1>12, <3>1
    <2>4. ASSUME seen' = seen PROVE SlideOn(d)'
      BY <1>4, <1>7, <1>8, <1>12, <2>2, <2>3, <2>4 DEF SlideOn, Slides
    <2>5. seen' = seen => DeleteOn(d)'
      BY <1>7, <1>12, <2>4 DEF DeleteOn
    <2>6. QED
      BY <1>1, <1>2, <1>3, <1>7, <1>8, <1>12, <2>5, Deletes
  <1>13. CASE ~(c.s + 1 < dir.next_free)
    <2>1. PICK G : G = seen
      OBVIOUS
    <2>2. /\ e.start = dir.files[e.i].start /\ e.cnt = need_sectors(dir.files[e.i].size) /\ e.s \in Int
          /\ e.s >= dir.next_free /\ e.n = dir.files[e.i].name /\ e.i \in 1 .. dir.count
          /\ dir' = Slid(e.i, e.start, e.cnt)
      <3>1. dir.next_free \in Int
        BY <1>3, Fields DEF Typed
      <3>2. QED
        BY <1>3, <1>4, <1>8, <1>10, <1>13, <3>1
    <2>3. /\ \A l \in Names \ {e.n} : l \in DOMAIN G <=> Listed(dir, l)
          /\ \A j \in (1 .. dir.count) \ {e.i} : Slides(disk', G, e, j)
      BY <1>4, <1>10, <1>11, <2>1
    <2>4. ~Listed(dir', e.n) /\ \A l \in Names \ {e.n} : Shows(G, l)'
      BY <1>3, <2>2, <2>3, GoneAll
    <2>5. ASSUME seen' = seen PROVE GoneOn(d)'
      BY <1>4, <1>7, <1>10, <2>1, <2>4, <2>5 DEF GoneOn, Same, Shows
    <2>6. seen' = seen => DeleteOn(d)'
      BY <1>7, <1>13, <2>5 DEF DeleteOn
    <2>7. QED
      BY <1>1, <1>2, <1>3, <1>7, <1>8, <1>13, <2>6, Deletes
  <1>14. QED
    BY <1>12, <1>13

(* Reading. *)

LEMMA Reader ==
  ASSUME Preemptible = {}, DirInv, FilesInv, NEW p \in Procs, May(p), NEW c, c = calls[p], c.pc = "read"
  PROVE  /\ AllSame /\ ReadOn(c) /\ Current = NoName /\ c \in Call /\ c.op = "read" /\ c.n \in Names
         /\ \A m \in Names \ unsafe : Saved(m)
         /\ \A q \in Procs \ {p} : calls[q].pc = "idle" /\ calls[q].op = "none"
  <1>1. /\ \A q \in Procs \ {p} : calls[q].pc = "idle" /\ calls[q].op = "none"
        /\ c.op = "read" /\ c.n \in Names /\ c \in Call
    BY DEF May, DirInv, Typed, CallOn
  <1>2. WorkOn(c)
    BY <1>1 DEF FilesInv, Only
  <1>3. ReadOn(c) /\ AllSame
    BY <1>2 DEF WorkOn
  <1>4. Current = NoName
    BY <1>1 DEF Current, Busy, Changing
  <1>5. ~Deleting
    BY <1>1 DEF Deleting
  <1>6. \A m \in Names \ unsafe : Saved(m)
    BY <1>1, <1>4, <1>5, SizesAssumption DEF FilesInv
  <1>7. QED
    BY <1>1, <1>3, <1>4, <1>6

(* Nothing moves while nobody changes a file. *)
LEMMA Unmoved ==
  ASSUME DirInv, DirInv', FilesInv, AllSame, UNCHANGED <<dir, disk>>, SeenStep,
         \A q \in Procs : calls'[q].pc \in {"idle", "read"}
  PROVE  seen' = seen /\ AllSame' /\ Current' = NoName
  <1>1. ~Busy' /\ Current' = NoName
    BY DEF Busy, Changing, Current
  <1>2. seen' = View'
    BY <1>1 DEF SeenStep
  <1>3. PICK G : G = seen
    OBVIOUS
  <1>4. \A m \in Names : Shows(G, m)'
    <2>1. \A m \in Names : Shows(G, m)
      BY <1>3 DEF AllSame, Same
    <2>2. QED
      BY <2>1 DEF Shows
  <1>5. View' = G
    BY <1>3, <1>4, SeenIs DEF FilesInv, SeenTyped, DirInv
  <1>6. AllSame'
    BY <1>2, <1>4, <1>5 DEF AllSame, Same, Shows
  <1>7. QED
    BY <1>1, <1>2, <1>3, <1>5, <1>6

(* A read begins or goes on. *)
LEMMA Reads ==
  ASSUME Preemptible = {}, DirInv, DirInv', FilesInv, SeenStep, NEW p \in Procs, May(p), calls[p].pc \in {"idle", "read"},
         UNCHANGED <<dir, disk, ondisk>>, NEW d, Goto(p, d), d.pc = "read", d.op = "read", ReadOn(d)
  PROVE  FilesInv' /\ PromiseStep
  <1>1. /\ AllSame /\ Current = NoName /\ (\A m \in Names \ unsafe : Saved(m))
        /\ \A q \in Procs \ {p} : calls[q].pc = "idle" /\ calls[q].op = "none"
    BY Quiet, Reader
  <1>2. calls'[p] = d /\ (\A q \in Procs \ {p} : calls'[q] = calls[q]) /\ UNCHANGED <<ret, unsafe>>
    BY DEF Goto, DirInv, Typed
  <1>3. seen' = seen /\ AllSame' /\ Current' = NoName
    BY <1>1, <1>2, Unmoved
  <1>4. ReadOn(d)'
    BY <1>3 DEF ReadOn, Rest
  <1>5. \A m \in Names \ unsafe' : Saved(m)'
    BY <1>1, <1>2, AlikeSelf, StillSaved
  <1>6. FilesInv'
    <2>1. SeenTyped'
      BY <1>3 DEF SeenTyped, FilesInv
    <2>2. \A q, r \in Procs : calls'[q].pc # "idle" /\ calls'[r].pc # "idle" => q = r
      BY <1>1, <1>2
    <2>3. ASSUME NEW q \in Procs, Only(q)' PROVE WorkOn(calls[q])'
      <3>1. q = p
        BY <1>2, <2>3 DEF Only
      <3>2. QED
        BY <1>2, <1>3, <1>4, <3>1 DEF WorkOn
    <2>4. QED
      BY <1>3, <1>5, <2>1, <2>2, <2>3 DEF FilesInv
  <1>7. QED
    BY <1>1, <1>2, <1>3, <1>6 DEF PromiseStep

LEMMA SysReadHolds ==
  ASSUME Preemptible = {}, DirInv, DirInv', FilesInv, SeenStep, NEW p \in Procs, NEW n \in Names,
         NEW o \in 0 .. MaxSize, NEW len \in 0 .. MaxSize, SysRead(p, n, o, len)
  PROVE  FilesInv' /\ PromiseStep
  <1>1. May(p) /\ calls[p].pc = "idle" /\ dir' = dir
    BY DEF SysRead, Calls
  <1>2. PICK i, z : i = Find(n) /\ z = dir.files[i].size
    OBVIOUS
  <1>3. CASE Answer(p, Failed) \/ Answer(p, Done(<<>>))
    BY <1>1, <1>3, Fails
  <1>4. CASE /\ i # 0 /\ o < z /\ len > 0
             /\ Goto(p, [Idle EXCEPT !.op = "read", !.pc = "read", !.n = n, !.i = i, !.pos = o, !.left = Min({z - o, len})])
             /\ UNCHANGED <<disk, ondisk, io_buf>>
    <2>1. i \in 1 .. dir.count /\ dir.files[i].name = n
      BY <1>2, <1>4, FoundListed
    <2>2. z \in Nat /\ o \in Nat /\ len \in Nat
      BY <1>2, <2>1, Fields, Sizes DEF DirInv, Typed
    <2>3. PICK d : d = [Idle EXCEPT !.op = "read", !.pc = "read", !.n = n, !.i = i, !.pos = o, !.left = Min({z - o, len})]
      OBVIOUS
    <2>4. /\ d.op = "read" /\ d.pc = "read" /\ d.n = n /\ d.i = i /\ d.pos = o /\ d.left = Min({z - o, len}) /\ d.buf = <<>>
      BY <2>3 DEF Idle
    <2>5. d.left > 0 /\ o + d.left = Min({o + len, z})
      <3>1. PICK u, v : u = z - o /\ v = o + len
        OBVIOUS
      <3>2. u \in Nat /\ v \in Nat /\ u > 0
        BY <1>4, <2>2, <3>1
      <3>3. Min({u, len}) = IF u <= len THEN u ELSE len
        BY <2>2, <3>2, MinPair
      <3>4. Min({v, z}) = IF v <= z THEN v ELSE z
        BY <2>2, <3>2, MinPair
      <3>5. QED
        BY <1>4, <2>2, <2>4, <3>1, <3>2, <3>3, <3>4
    <2>6. Len(d.buf) = 0 /\ 0 = o - o /\ Rest(d, seen[n], o)
      BY <2>2, <2>4, EmptySeq DEF Rest
    <2>7. ReadOn(d)
      <3>1. /\ d.i \in 1 .. dir.count /\ dir.files[d.i].name = d.n /\ dir.files[d.i].size = z
            /\ d.pos = o /\ Len(d.buf) = d.pos - o /\ Rest(d, seen[d.n], o)
        BY <1>2, <2>1, <2>2, <2>4, <2>6
      <3>2. o <= d.pos /\ d.pos + d.left = Min({o + len, dir.files[d.i].size})
        BY <2>2, <2>5, <3>1
      <3>3. QED
        BY <2>5, <3>1, <3>2 DEF ReadOn
    <2>8. Goto(p, d) /\ UNCHANGED <<disk, ondisk>>
      BY <1>4, <2>3
    <2>9. QED
      BY <1>1, <2>4, <2>7, <2>8, Reads
  <1>5. QED
    BY <1>2, <1>3, <1>4 DEF SysRead

(* What one sector adds to a read. *)
PartOf(b, f, o) == \A k \in 1 .. Len(b) : b[k] = f[o + k]

LEMMA OneRead ==
  ASSUME Typed, Good(dir), AllSame, NEW c \in Call, c.i \in 1 .. dir.count, dir.files[c.i].name = c.n, c.n \in Names,
         NEW o \in Nat, o <= c.pos, c.pos + c.left <= dir.files[c.i].size, Len(c.buf) = c.pos - o, Rest(c, seen[c.n], o),
         NEW m \in Nat, m <= SectorSize - (c.pos % SectorSize), m <= c.left,
         NEW data, data = c.buf \o [k \in 1 .. m |->
           Sector(dir.files[c.i].start + (c.pos \div SectorSize))[(c.pos % SectorSize) + k - 1]]
  PROVE  /\ data \in Seq(Byte) /\ Len(data) = c.pos + m - o
         /\ PartOf(data, seen[c.n], o)
  <1>1. PICK b, pos, off, q, a, z, sec, add, f :
          /\ b = c.buf /\ pos = c.pos /\ off = pos % SectorSize /\ q = pos \div SectorSize
          /\ a = dir.files[c.i].start /\ z = dir.files[c.i].size /\ sec = SectorIn(disk, a + q)
          /\ add = [k \in 1 .. m |-> sec[off + k - 1]] /\ f = seen[c.n]
    OBVIOUS
  <1>2. /\ b \in Seq(Byte) /\ pos \in Nat /\ c.left \in Nat /\ z \in Nat /\ a \in Int /\ Len(b) \in Nat
    <2>1. b \in Seq(Byte) /\ pos \in Nat /\ c.left \in Nat
      BY <1>1 DEF Call
    <2>2. z \in Nat /\ a \in Int
      BY <1>1, Fields DEF Typed
    <2>3. QED
      BY <2>1, <2>2, LenProperties
  <1>3. off \in Nat /\ off < SectorSize /\ q \in Nat
    BY <1>1, <1>2, Offset, Sizes DEF Offsets
  <1>4. sec \in Block
    <2>1. Blank \in Block
      BY DEF Blank, Block, Byte
    <2>2. QED
      BY <1>1, <2>1 DEF SectorIn, Typed
  <1>5. \A k \in 1 .. m : off + k - 1 \in Offsets
    BY <1>1, <1>3, Sizes DEF Offsets
  <1>6. \A k \in 1 .. m : sec[off + k - 1] \in Byte
    BY <1>4, <1>5 DEF Block
  <1>7. add \in Seq(Byte) /\ Len(add) = m /\ \A k \in 1 .. m : add[k] = sec[off + k - 1]
    BY <1>1, <1>6
  <1>8. data = b \o add
    BY <1>1 DEF Sector, SectorIn
  <1>9. data \in Seq(Byte) /\ Len(data) = Len(b) + m
        /\ \A k \in 1 .. Len(b) + m : data[k] = IF k <= Len(b) THEN b[k] ELSE add[k - Len(b)]
    <2>1. b \o add \in Seq(Byte)
      BY <1>2, <1>7, ConcatProperties
    <2>2. Len(b \o add) = Len(b) + Len(add)
      BY <1>2, <1>7, ConcatProperties
    <2>3. \A k \in 1 .. Len(b) + Len(add) : (b \o add)[k] = IF k <= Len(b) THEN b[k] ELSE add[k - Len(b)]
      BY <1>2, <1>7, ConcatProperties
    <2>4. QED
      BY <1>7, <1>8, <2>1, <2>2, <2>3
  <1>10. Len(b) = pos - o /\ \A k \in 1 .. Len(b) : b[k] = f[o + k]
    BY <1>1 DEF Rest
  <1>11. \A k \in 0 .. z - 1 : ByteAt(disk, a, k) = f[k + 1]
    BY <1>1 DEF AllSame, Same, Shows
  <1>12. ASSUME NEW k \in 1 .. m PROVE add[k] = f[pos + k]
    <2>1. PICK t : t = pos + k - 1
      OBVIOUS
    <2>2. t \in Nat /\ t \in 0 .. z - 1 /\ pos - off <= t /\ t < pos - off + SectorSize /\ t + 1 = pos + k
      <3>1. k \in Nat /\ 1 <= k /\ k <= m /\ m <= c.left /\ m <= SectorSize - off /\ pos + c.left <= z
        BY <1>1
      <3>2. QED
        BY <1>2, <1>3, <2>1, <3>1, Sizes
    <2>3. t \div SectorSize = q /\ t % SectorSize = t - (pos - off)
      BY <1>1, <1>2, <2>2, OneSector, InSector
    <2>4. t - (pos - off) = off + k - 1
      BY <1>2, <1>3, <2>1
    <2>5. ByteAt(disk, a, t) = sec[off + k - 1]
      BY <1>1, <2>3, <2>4 DEF ByteAt
    <2>6. QED
      BY <1>7, <1>11, <2>2, <2>5
  <1>13. ASSUME NEW k \in 1 .. Len(data) PROVE data[k] = f[o + k]
    <2>1. CASE k <= Len(b)
      <3>1. k \in 1 .. Len(b) /\ k \in 1 .. Len(b) + m
        BY <1>2, <1>9, <2>1
      <3>2. QED
        BY <1>9, <1>10, <2>1, <3>1
    <2>2. CASE ~(k <= Len(b))
      <3>1. PICK j : j = k - Len(b)
        OBVIOUS
      <3>2. j \in 1 .. m /\ pos + j = o + k /\ k \in 1 .. Len(b) + m
        BY <1>2, <1>9, <1>10, <2>2, <3>1
      <3>3. data[k] = add[j]
        BY <1>9, <2>2, <3>1, <3>2
      <3>4. QED
        BY <1>12, <3>2, <3>3
    <2>3. QED
      BY <2>1, <2>2
  <1>14. Len(data) = pos + m - o
    BY <1>2, <1>9, <1>10
  <1>15. QED
    BY <1>1, <1>9, <1>13, <1>14 DEF PartOf

(* What a read returns is what the file has. *)
LEMMA PartIs ==
  ASSUME NEW s \in Seq(Byte), NEW o \in Nat, NEW e \in Nat, o <= e, e <= Len(s),
         NEW data \in Seq(Byte), Len(data) = e - o, \A k \in 1 .. Len(data) : data[k] = s[o + k]
  PROVE  data = SubSeq(s, o + 1, e)
  <1>1. PICK t : t = SubSeq(s, o + 1, e)
    OBVIOUS
  <1>2. o + 1 \in Int /\ Len(s) \in Nat /\ \A i \in (o + 1) .. e : i \in 1 .. Len(s)
    BY LenProperties
  <1>3. \A i \in (o + 1) .. e : s[i] \in Byte
    BY <1>2, ElementOfSeq
  <1>4. /\ t \in Seq(Byte) /\ Len(t) = (IF o + 1 <= e THEN e - (o + 1) + 1 ELSE 0)
        /\ \A i \in 1 .. e - (o + 1) + 1 : t[i] = s[(o + 1) + i - 1]
    BY <1>1, <1>2, <1>3, SubSeqProperties
  <1>5. Len(t) = Len(data)
    BY <1>4
  <1>6. ASSUME NEW k \in 1 .. Len(data) PROVE data[k] = t[k]
    <2>1. k \in 1 .. e - (o + 1) + 1 /\ (o + 1) + k - 1 = o + k
      BY <1>6
    <2>2. t[k] = s[(o + 1) + k - 1]
      BY <1>4, <2>1
    <2>3. QED
      BY <2>1, <2>2
  <1>7. data = t
    BY <1>4, <1>5, <1>6, SeqEqual
  <1>8. QED
    BY <1>1, <1>7

LEMMA ReadSectorHolds ==
  ASSUME Preemptible = {}, DirInv, DirInv', FilesInv, SeenStep, NEW p \in Procs, ReadSector(p)
  PROVE  FilesInv' /\ PromiseStep
  <1>1. PICK c, off, m, data :
          /\ c = calls[p] /\ off = c.pos % SectorSize /\ m = Min({SectorSize - off, c.left})
          /\ data = c.buf \o [k \in 1 .. m |->
               Sector(dir.files[c.i].start + (c.pos \div SectorSize))[off + k - 1]]
    OBVIOUS
  <1>2. /\ c.pc = "read" /\ May(p) /\ UNCHANGED <<dir, disk, ondisk>>
        /\ IF m < c.left
           THEN Goto(p, [c EXCEPT !.buf = data, !.pos = @ + m, !.left = @ - m])
           ELSE Return(p, Done(data)) /\ UNCHANGED unsafe
    BY <1>1 DEF ReadSector, At, Load
  <1>3. /\ AllSame /\ ReadOn(c) /\ Current = NoName /\ c \in Call /\ c.op = "read" /\ c.n \in Names
        /\ \A l \in Names \ unsafe : Saved(l)
    BY <1>1, <1>2, Reader
  <1>4. c.i \in 1 .. dir.count /\ dir.files[c.i].name = c.n /\ c.left > 0
    BY <1>3 DEF ReadOn
  <1>5. PICK o, len \in 0 .. MaxSize :
          /\ o <= c.pos /\ c.pos + c.left = Min({o + len, dir.files[c.i].size})
          /\ Len(c.buf) = c.pos - o /\ Rest(c, seen[c.n], o)
    BY <1>3 DEF ReadOn
  <1>6. PICK z, e : z = dir.files[c.i].size /\ e = c.pos + c.left
    OBVIOUS
  <1>7. /\ c.pos \in Nat /\ c.left \in Nat /\ o \in Nat /\ len \in Nat /\ z \in Nat /\ e \in Nat
        /\ off \in Nat /\ off < SectorSize
    <2>1. c.pos \in Nat /\ c.left \in Nat
      BY <1>3 DEF Call
    <2>2. z \in Nat
      BY <1>4, <1>6, Fields DEF DirInv, Typed
    <2>3. off \in Nat /\ off < SectorSize
      BY <1>1, <2>1, Offset
    <2>4. QED
      BY <1>5, <1>6, <2>1, <2>2, <2>3, Sizes
  <1>8. m \in Nat /\ m > 0 /\ m <= SectorSize - off /\ m <= c.left /\ (m < c.left \/ m = c.left)
    <2>1. PICK w, l : w = SectorSize - off /\ l = c.left
      OBVIOUS
    <2>2. w \in Nat /\ w > 0 /\ l \in Nat /\ l > 0
      BY <1>4, <1>7, <2>1, Sizes
    <2>3. Min({w, l}) = IF w <= l THEN w ELSE l
      BY <2>2, MinPair
    <2>4. m = Min({w, l})
      BY <1>1, <2>1
    <2>5. m \in Nat /\ m > 0 /\ m <= w /\ m <= l /\ (m < l \/ m = l)
      BY <2>2, <2>3, <2>4
    <2>6. QED
      BY <2>1, <2>5
  <1>9. e <= z
    <2>1. PICK v : v = o + len
      OBVIOUS
    <2>2. v \in Nat
      BY <1>7, <2>1
    <2>3. Min({v, z}) = IF v <= z THEN v ELSE z
      BY <1>7, <2>2, MinPair
    <2>4. e = Min({v, z})
      BY <1>5, <1>6, <2>1
    <2>5. QED
      BY <1>7, <2>2, <2>3, <2>4
  <1>10. /\ data \in Seq(Byte) /\ Len(data) = c.pos + m - o
         /\ \A k \in 1 .. Len(data) : data[k] = seen[c.n][o + k]
    <2>1. data = c.buf \o [k \in 1 .. m |->
            Sector(dir.files[c.i].start + (c.pos \div SectorSize))[(c.pos % SectorSize) + k - 1]]
      BY <1>1
    <2>2. m <= SectorSize - (c.pos % SectorSize) /\ c.pos + c.left <= dir.files[c.i].size
      BY <1>1, <1>6, <1>8, <1>9
    <2>3. Typed /\ Good(dir) /\ Len(c.buf) = c.pos - o /\ Rest(c, seen[c.n], o) /\ o <= c.pos
      BY <1>5 DEF DirInv
    <2>4. /\ AllSame /\ c \in Call /\ c.n \in Names /\ c.i \in 1 .. dir.count /\ dir.files[c.i].name = c.n
          /\ o \in Nat /\ m \in Nat /\ m <= c.left
      BY <1>3, <1>4, <1>7, <1>8
    <2>5. data \in Seq(Byte)
      BY <2>1, <2>2, <2>3, <2>4, OneRead
    <2>6. Len(data) = c.pos + m - o
      BY <2>1, <2>2, <2>3, <2>4, OneRead
    <2>7. PartOf(data, seen[c.n], o)
      BY <2>1, <2>2, <2>3, <2>4, OneRead
    <2>8. QED
      BY <2>5, <2>6, <2>7 DEF PartOf
  <1>11. CASE m < c.left
    <2>1. PICK d : d = [c EXCEPT !.buf = data, !.pos = @ + m, !.left = @ - m]
      OBVIOUS
    <2>2. /\ d.buf = data /\ d.pos = c.pos + m /\ d.left = c.left - m /\ d.n = c.n /\ d.i = c.i
          /\ d.op = "read" /\ d.pc = "read"
      BY <1>2, <1>3, <2>1 DEF Call
    <2>3. d.left > 0 /\ o <= d.pos /\ d.pos + d.left = e /\ Len(d.buf) = d.pos - o
      <3>1. Len(data) = c.pos + m - o /\ o <= c.pos /\ e = c.pos + c.left
        BY <1>5, <1>6, <1>10
      <3>2. PICK pos, left : pos = c.pos /\ left = c.left
        OBVIOUS
      <3>3. pos \in Nat /\ left \in Nat /\ m \in Nat /\ o \in Nat /\ m < left
        BY <1>7, <1>8, <1>11, <3>2
      <3>4. d.left = left - m /\ d.pos = pos + m /\ Len(d.buf) = pos + m - o /\ o <= pos /\ e = pos + left
        BY <2>2, <3>1, <3>2
      <3>5. left - m > 0 /\ o <= pos + m /\ (pos + m) + (left - m) = e
        BY <3>3, <3>4
      <3>6. QED
        BY <3>3, <3>4, <3>5
    <2>4. Rest(d, seen[d.n], o)
      BY <1>10, <2>2 DEF Rest
    <2>5. d.pos + d.left = Min({o + len, dir.files[d.i].size})
      BY <1>5, <1>6, <2>2, <2>3
    <2>6. ReadOn(d)
      BY <1>4, <2>2, <2>3, <2>4, <2>5 DEF ReadOn
    <2>7. Goto(p, d)
      BY <1>2, <1>11, <2>1
    <2>8. QED
      BY <1>1, <1>2, <2>2, <2>6, <2>7, Reads
  <1>12. CASE ~(m < c.left)
    <2>1. Return(p, Done(data)) /\ UNCHANGED unsafe
      BY <1>2, <1>12
    <2>2. \A q \in Procs : calls'[q].pc = "idle" /\ calls'[q].op = "none"
      BY <1>2, <2>1, Over DEF Return
    <2>3. seen' = seen /\ Current' = NoName
      BY <1>2, <1>3, <2>2, Unmoved
    <2>4. \A l \in Names \ unsafe' : Saved(l)'
      BY <1>2, <1>3, <2>1, AlikeSelf, StillSaved
    <2>5. FilesInv'
      BY <2>2, <2>4, Rests DEF DirInv
    <2>6. c.n \in DOMAIN seen /\ Len(seen[c.n]) = z /\ seen[c.n] \in Seq(Byte)
      BY <1>3, <1>4, <1>6 DEF AllSame, Same, Shows, Listed, FilesInv, SeenTyped
    <2>7. Len(data) = e - o /\ o <= e
      BY <1>5, <1>6, <1>7, <1>8, <1>10, <1>12
    <2>8. data = SubSeq(seen[c.n], o + 1, e)
      BY <1>7, <1>9, <1>10, <2>6, <2>7, PartIs
    <2>9. e = Promise!Min({o + len, Len(seen[c.n])})
      <3>1. \A S : Promise!Min(S) = Min(S)
        BY DEF Promise!Min, Min
      <3>2. QED
        BY <1>5, <1>6, <2>6, <3>1
    <2>10. Promise!Read(c.n, o, len)
      BY <1>3, <2>1, <2>3, <2>6, <2>8, <2>9 DEF Promise!Read, Promise!Done, Done, Return
    <2>11. QED
      BY <1>3, <2>5, <2>10 DEF PromiseStep, Promise!Next
  <1>13. QED
    BY <1>11, <1>12

-----------------------------------------------------------------------------
(* Failures. *)

(* The sector that a failing transfer may have written is in the file that   *)
(* the call is changing, or behind all files.                                *)
Target(c) ==
  CASE c.pc = "out" -> c.s
    [] c.pc = "put" -> c.start + (c.pos \div SectorSize)
    [] c.pc = "copy_out" -> c.to + c.s
    [] c.pc = "slide_out" -> c.s - c.cnt
    [] OTHER -> DataEnd

LEMMA OwnSector ==
  ASSUME Preemptible = {}, DirInv, FilesInv, NEW p \in Procs, May(p), NEW c, c = calls[p],
         c.pc \in {"out", "put", "copy_out"}
  PROVE  \/ Target(c) >= dir.next_free
         \/ \E r \in Nat : /\ Reserved(dir, c.i, r) /\ dir.files[c.i].start <= Target(c)
                           /\ Target(c) < dir.files[c.i].start + r
  <1>1. /\ c \in Call /\ CallOn(dir, c) /\ Typed /\ Good(dir) /\ c.i \in 1 .. dir.count
        /\ dir.files[c.i].start \in Int /\ dir.files[c.i].size \in Nat /\ dir.next_free \in Nat
        /\ Reserved(dir, c.i, need_sectors(dir.files[c.i].size)) /\ need_sectors(dir.files[c.i].size) \in Nat
    BY Changer
  <1>2. PICK f \in Results(c.op, c.n) : StageOn(c, f) /\ f \in Seq(Byte)
    BY Changer
  <1>3. PICK a, y, q, z : a = dir.files[c.i].start /\ y = Len(c.buf) /\ q = c.pos \div SectorSize /\ z = Len(f)
    OBVIOUS
  <1>4. c.buf \in Seq(Byte) /\ y \in Nat /\ c.pos \in Nat /\ c.new \in Nat /\ z \in Nat /\ q \in Nat
        /\ (c.buf # <<>> => y > 0)
    <2>1. c.buf \in Seq(Byte) /\ c.pos \in Nat /\ c.new \in Nat
      BY <1>1 DEF Call
    <2>2. q \in Nat
      BY <1>3, <2>1, Offset
    <2>3. QED
      BY <1>2, <1>3, <2>1, <2>2, LenProperties, EmptySeq
  <1>5. CASE c.pc = "out"
    <2>1. FillOn(c, f)
      BY <1>2, <1>5 DEF StageOn
    <2>2. PICK done : done = z - y
      OBVIOUS
    <2>3. /\ dir.files[c.i].size = z /\ c.buf # <<>> /\ done >= 0 /\ c.s = a + (done \div SectorSize)
      BY <1>3, <2>1, <2>2 DEF FillOn
    <2>4. done \in Nat /\ done \in 0 .. dir.files[c.i].size - 1
      BY <1>4, <2>2, <2>3
    <2>5. c.s \in Int /\ Holds(c.i, c.s)
      <3>1. done \div SectorSize \in Nat
        BY <2>4, Offset
      <3>2. QED
        BY <1>1, <1>3, <2>3, <2>4, <3>1 DEF Holds
    <2>6. dir.files[c.i].start <= c.s /\ c.s < dir.files[c.i].start + need_sectors(dir.files[c.i].size)
      BY <1>1, <2>5, InRun
    <2>7. Target(c) = c.s
      BY <1>5 DEF Target
    <2>8. QED
      BY <1>1, <2>6, <2>7
  <1>6. CASE c.pc = "put"
    <2>1. PutOn(c, f)
      BY <1>2, <1>6 DEF StageOn
    <2>2. /\ c.start = a /\ z = (IF c.op = "append" THEN c.new ELSE dir.files[c.i].size) /\ c.buf # <<>> /\ c.pos + y <= z
      BY <1>3, <2>1 DEF PutOn
    <2>3. c.pos \in 0 .. z - 1
      BY <1>4, <2>2
    <2>4. PICK r : r = need_sectors(z)
      OBVIOUS
    <2>5. r \in Nat /\ Reserved(dir, c.i, r)
      BY <1>1, <1>4, <1>6, <2>2, <2>4, NeedNat DEF CallOn
    <2>6. q \in 0 .. r - 1
      BY <1>3, <1>4, <2>3, <2>4, Needed
    <2>7. Target(c) = a + q
      BY <1>3, <1>6, <2>2 DEF Target
    <2>8. a <= a + q /\ a + q < a + r
      BY <1>1, <1>3, <2>5, <2>6
    <2>9. QED
      BY <1>3, <2>5, <2>7, <2>8
  <1>7. CASE c.pc = "copy_out"
    <2>1. CopyOn(c, f)
      BY <1>2, <1>7 DEF StageOn
    <2>2. c.to = dir.next_free /\ c.s >= 0 /\ c.s \in Int
      BY <1>1, <1>7, <2>1 DEF CallOn, CopyOn, Call
    <2>3. Target(c) = c.to + c.s
      BY <1>7 DEF Target
    <2>4. QED
      BY <1>1, <2>2, <2>3
  <1>8. QED
    BY <1>5, <1>6, <1>7

(* What a failing transfer leaves on the disk. *)
LEMMA FailedTransfer ==
  ASSUME DirInv, NEW p \in Procs, NEW c, c = calls[p], IOFails(p)
  PROVE  \/ UNCHANGED <<disk, ondisk>>
         \/ Target(c) \in Sectors /\ disk' = [disk EXCEPT ![Target(c)] = io_buf] /\ UNCHANGED ondisk
         \/ c.pc = "save" /\ ondisk' = FirstSaved /\ UNCHANGED disk
         \/ c.pc = "save_rest" /\ ondisk' = dir /\ UNCHANGED disk
  BY DEF IOFails, Target

(* A transfer of a read fails, *)
LEMMA ReadFails ==
  ASSUME Preemptible = {}, DirInv, DirInv', FilesInv, SeenStep, NEW p \in Procs, IOFails(p), ~Changing(p)
  PROVE  FilesInv' /\ PromiseStep
  <1>1. PICK c : c = calls[p]
    OBVIOUS
  <1>2. /\ c.pc = "read" /\ May(p) /\ UNCHANGED <<dir, unsafe>> /\ ret' = Failed
        /\ calls' = [calls EXCEPT ![p] = Idle]
    BY <1>1 DEF IOFails, Changing, Return
  <1>3. UNCHANGED <<disk, ondisk>>
    <2>1. Target(c) \notin Sectors
      BY <1>2, Sizes DEF Target, Sectors
    <2>2. QED
      BY <1>1, <1>2, <2>1, FailedTransfer
  <1>4. AllSame /\ Current = NoName /\ \A m \in Names \ unsafe : Saved(m)
    BY <1>1, <1>2, Reader
  <1>5. \A q \in Procs : calls'[q].pc = "idle" /\ calls'[q].op = "none"
    BY <1>2, Over
  <1>6. seen' = seen /\ Current' = NoName
    BY <1>2, <1>3, <1>4, <1>5, Unmoved
  <1>7. \A m \in Names \ unsafe' : Saved(m)'
    BY <1>2, <1>3, <1>4, AlikeSelf, StillSaved
  <1>8. FilesInv'
    BY <1>5, <1>7, Rests DEF DirInv
  <1>9. Promise!Fail
    BY <1>2, <1>4, <1>6 DEF Promise!Fail, Promise!Failed, Failed, NoName, Promise!NoName
  <1>10. QED
    BY <1>8, <1>9 DEF PromiseStep, Promise!Next

(* or of a call that changes its file. *)
LEMMA ChangeFails ==
  ASSUME Preemptible = {}, ~DeleteFaults, DirInv, DirInv', FilesInv, SeenStep, dir.count <= FirstEntries,
         NEW p \in Procs, IOFails(p), Changing(p)
  PROVE  FilesInv' /\ PromiseStep
  <1>1. PICK c, G : c = calls[p] /\ G = seen
    OBVIOUS
  <1>2. /\ May(p) /\ UNCHANGED dir /\ ret' = Failed /\ c.pc # "fill" /\ c.op # "delete"
        /\ unsafe' = unsafe \cup {c.n} /\ calls' = [calls EXCEPT ![p] = Idle]
    BY <1>1 DEF IOFails, MayFail, Return
  <1>3. /\ WorkOn(c) /\ Current = c.n /\ c.n \in Names /\ c \in Call /\ CallOn(dir, c)
        /\ \A m \in Names \ (unsafe \cup {c.n}) : Saved(m)
    BY <1>1, <1>2, Inside
  <1>4. ChangeOn(c)
    BY <1>1, <1>2, <1>3 DEF WorkOn, Changing
  <1>5. c.i \in 1 .. dir.count /\ dir.files[c.i].name = c.n /\ \A m \in Names \ {c.n} : Shows(G, m)
    BY <1>1, <1>4 DEF ChangeOn, Same
  <1>6. \A m : Alike(dir, dir', m)
    BY <1>2, AlikeSelf
  <1>7. \A m \in Names \ {c.n} : Shows(G, m)'
    <2>1. CASE disk' = disk
      BY <1>5, <1>6, <2>1, AllStill DEF DirInv
    <2>2. CASE Target(c) \in Sectors /\ disk' = [disk EXCEPT ![Target(c)] = io_buf]
      <3>1. PICK s : s = Target(c)
        OBVIOUS
      <3>2. s \in Sectors /\ s \in Int /\ disk' = [disk EXCEPT ![s] = io_buf]
        BY <2>2, <3>1 DEF Sectors
      <3>3. \A t : t # s => Stays(t)
        BY <3>2 DEF Stays, SectorIn, DirInv, Typed
      <3>4. c.pc \in {"out", "put", "copy_out"}
        <4>1. c.pc # "slide_out"
          BY <1>2, <1>3 DEF CallOn
        <4>2. DataEnd \notin Sectors
          BY Sizes DEF Sectors
        <4>3. QED
          BY <2>2, <4>1, <4>2 DEF Target
      <3>5. \/ s >= dir.next_free
            \/ \E r \in Nat : Reserved(dir, c.i, r) /\ dir.files[c.i].start <= s /\ s < dir.files[c.i].start + r
        BY <1>1, <1>2, <3>1, <3>4, OwnSector
      <3>6. QED
        BY <1>5, <1>6, <3>2, <3>3, <3>5, OthersShown DEF DirInv
    <2>3. QED
      BY <1>1, <2>1, <2>2, FailedTransfer
  <1>8. ASSUME NEW m \in Names \ unsafe' PROVE Saved(m)'
    <2>1. Saved(m)
      BY <1>2, <1>3
    <2>2. CASE ondisk' = ondisk
      BY <1>6, <2>1, <2>2, StillSaved
    <2>3. CASE ondisk' = FirstSaved
      BY <1>2, <2>3, FirstAlike DEF DirInv
    <2>4. CASE ondisk' = dir
      <3>1. Loaded' = dir
        BY <2>4 DEF Loaded, DirInv
      <3>2. QED
        BY <1>2, <3>1, AlikeSelf DEF Saved
    <2>5. QED
      BY <1>1, <2>2, <2>3, <2>4, FailedTransfer
  <1>9. \A q \in Procs : calls'[q].pc = "idle" /\ calls'[q].op = "none"
    BY <1>2, Over
  <1>10. FilesInv' /\ seen' = View' /\ Current' = NoName
    BY <1>8, <1>9, Rests DEF DirInv
  <1>11. Promise!SameBut({c.n})
    BY <1>1, <1>7, <1>10, Spared DEF DirInv, FilesInv
  <1>12. Promise!DiskFails
    BY <1>2, <1>3, <1>10, <1>11, SizesAssumption
       DEF Promise!DiskFails, Promise!Failed, Failed, NoName, Promise!NoName
  <1>13. QED
    BY <1>10, <1>12 DEF PromiseStep, Promise!Next

LEMMA IOFailsHolds ==
  ASSUME Preemptible = {}, ~DeleteFaults, DirInv, DirInv', FilesInv, SeenStep, dir.count <= FirstEntries,
         NEW p \in Procs, IOFails(p)
  PROVE  FilesInv' /\ PromiseStep
  BY ReadFails, ChangeFails

(* The machine stops and is started again. *)
LEMMA CrashHolds ==
  ASSUME Preemptible = {}, ~DeleteFaults, DirInv, DirInv', FilesInv, SeenStep, Crash
  PROVE  FilesInv' /\ PromiseStep
  <1>1. /\ dir' = Loaded /\ calls' = [q \in Procs |-> Idle] /\ ret' = Failed /\ unsafe' = {}
        /\ UNCHANGED <<disk, ondisk>> /\ \A q \in Procs : calls[q].op # "delete"
    BY DEF Crash, MayFail
  <1>2. PICK p \in Procs : Only(p)
    <2>1. CASE \E q \in Procs : calls[q].pc # "idle"
      BY <2>1 DEF FilesInv, Only
    <2>2. CASE \A q \in Procs : calls[q].pc = "idle"
      BY <2>2, SizesAssumption DEF Only
    <2>3. QED
      BY <2>1, <2>2
  <1>3. PICK c, G : c = calls[p] /\ G = seen
    OBVIOUS
  <1>4. WorkOn(c) /\ Current = (IF Changing(p) THEN c.n ELSE NoName) /\ ~Deleting /\ c.op # "delete"
    BY <1>1, <1>2, <1>3, CurrentIs DEF FilesInv, Deleting
  <1>5. \A m \in Names \ {Current} : Shows(G, m)
    <2>1. CASE Changing(p)
      <3>1. ChangeOn(c)
        BY <1>3, <1>4, <2>1 DEF WorkOn, Changing
      <3>2. QED
        BY <1>3, <1>4, <2>1, <3>1 DEF ChangeOn, Same
    <2>2. CASE ~Changing(p)
      <3>1. AllSame
        BY <1>3, <1>4, <2>2 DEF WorkOn, Changing
      <3>2. QED
        BY <1>3, <3>1 DEF AllSame, Same
    <2>3. QED
      BY <2>1, <2>2
  <1>6. \A m \in Names \ (unsafe \cup {Current}) : Saved(m)
    BY <1>4 DEF FilesInv
  <1>7. PICK N : N = unsafe \cup {Current}
    OBVIOUS
  <1>8. \A m \in Names \ N : Shows(G, m)'
    <2>1. \A m \in Names \ N : Shows(G, m) /\ Alike(dir, dir', m)
      BY <1>1, <1>5, <1>6, <1>7 DEF Saved
    <2>2. QED
      BY <1>1, <2>1, AllStill DEF DirInv
  <1>9. \A m : Saved(m)'
    <2>1. Loaded' = Loaded
      BY <1>1 DEF Loaded
    <2>2. Loaded' = dir'
      BY <1>1, <2>1
    <2>3. QED
      BY <2>2, AlikeSelf DEF Saved
  <1>10. \A q \in Procs : calls'[q].pc = "idle" /\ calls'[q].op = "none"
    BY <1>1 DEF Idle
  <1>11. FilesInv' /\ seen' = View' /\ Current' = NoName
    BY <1>9, <1>10, Rests DEF DirInv
  <1>12. Promise!SameBut(N)
    BY <1>3, <1>8, <1>11, Spared DEF DirInv, FilesInv
  <1>13. Promise!Crash
    BY <1>1, <1>7, <1>11, <1>12 DEF Promise!Crash, Promise!Failed, Failed, NoName, Promise!NoName
  <1>14. QED
    BY <1>11, <1>13 DEF PromiseStep, Promise!Next

-----------------------------------------------------------------------------
(* The refinement. *)

LEMMA InitFiles == Init => FilesInv /\ Promise!Init
  <1> SUFFICES ASSUME Init PROVE FilesInv /\ Promise!Init
    OBVIOUS
  <1>1. /\ dir = Loaded /\ calls = [q \in Procs |-> Idle] /\ ret = Failed /\ seen = View /\ unsafe = {}
        /\ ondisk = [magic |-> FALSE, count |-> 0, next_free |-> 0, files |-> [k \in Entries |-> NoEntry]]
    BY DEF Init
  <1>2. dir.count = 0
    BY <1>1 DEF Loaded
  <1>3. seen = <<>> /\ DOMAIN seen = {}
    <2>1. {dir.files[i].name : i \in 1 .. dir.count} \cap Names = {}
      BY <1>2
    <2>2. seen = [n \in {} |-> Content(Find(n))]
      BY <1>1, <2>1 DEF View
    <2>3. QED
      BY <2>2
  <1>4. \A q \in Procs : calls[q].pc = "idle" /\ calls[q].op = "none"
    BY <1>1 DEF Idle
  <1>5. Current = NoName
    BY <1>4 DEF Current, Busy, Changing
  <1>6. \A m : ~Listed(dir, m)
    BY <1>2 DEF Listed
  <1>7. AllSame
    BY <1>2, <1>3, <1>6 DEF AllSame, Same, Shows
  <1>8. \A m : Saved(m)
    BY <1>1, AlikeSelf DEF Saved
  <1>9. SeenTyped
    BY <1>3 DEF SeenTyped
  <1>10. FilesInv
    BY <1>4, <1>7, <1>8, <1>9 DEF FilesInv, WorkOn
  <1>11. Promise!Init
    BY <1>1, <1>3, <1>5 DEF Promise!Init, Promise!Failed, Failed, NoName, Promise!NoName
  <1>12. QED
    BY <1>10, <1>11

LEMMA StutterHolds ==
  ASSUME FilesInv, UNCHANGED vars
  PROVE  FilesInv' /\ PromiseStep
  <1>1. /\ disk' = disk /\ ondisk' = ondisk /\ dir' = dir /\ io_buf' = io_buf /\ calls' = calls /\ ret' = ret
        /\ seen' = seen /\ unsafe' = unsafe
    BY DEF vars
  <1>2. FilesInv'
    <2>1. \A m : Same(m)' <=> Same(m)
      BY <1>1 DEF Same, Shows
    <2>2. ASSUME NEW c PROVE /\ ReadOn(c) => ReadOn(c)'
                             /\ DeleteOn(c) => DeleteOn(c)'
      <3>1. ReadOn(c) => ReadOn(c)'
        BY <1>1 DEF ReadOn, Rest
      <3>2. SlideOn(c) => SlideOn(c)'
        BY <1>1 DEF SlideOn
      <3>3. GoneOn(c) => GoneOn(c)'
        BY <1>1, <2>1 DEF GoneOn
      <3>4. QED
        BY <3>1, <3>2, <3>3 DEF DeleteOn
    <2>3. ASSUME NEW c, ChangeOn(c) PROVE ChangeOn(c)'
      <3>1. PICK f \in Results(c.op, c.n) : StageOn(c, f)
        BY <2>3 DEF ChangeOn, StageOn
      <3>2. f \in Results(c.op, c.n)'
        BY <1>1, <3>1, SameResults
      <3>3. SaveOn(c, f) => SaveOn(c, f)'
        BY <1>1 DEF SaveOn
      <3>4. FillOn(c, f) => FillOn(c, f)'
        BY <1>1 DEF FillOn, Rest
      <3>5. CopyOn(c, f) => CopyOn(c, f)'
        BY <1>1 DEF CopyOn, Rest
      <3>6. PutOn(c, f) => PutOn(c, f)'
        BY <1>1 DEF PutOn, Rest
      <3>7. StageOn(c, f)'
        BY <3>1, <3>3, <3>4, <3>5, <3>6 DEF StageOn
      <3>8. \A m \in Names \ {c.n} : Same(m)'
        BY <2>1, <2>3 DEF ChangeOn
      <3>9. QED
        BY <1>1, <2>3, <3>2, <3>7, <3>8 DEF ChangeOn, StageOn
    <2>4. \A c : WorkOn(c) => WorkOn(c)'
      BY <2>1, <2>2, <2>3 DEF WorkOn, AllSame
    <2>5. \A m : Saved(m) => Saved(m)'
      BY <1>1 DEF Saved, Loaded
    <2>6. SeenTyped'
      BY <1>1 DEF FilesInv, SeenTyped
    <2>7. (Deleting' <=> Deleting) /\ Current' = Current /\ \A q \in Procs : Only(q)' <=> Only(q)
      BY <1>1 DEF Deleting, Current, Busy, Changing, Only
    <2>8. QED
      BY <1>1, <2>4, <2>5, <2>6, <2>7 DEF FilesInv
  <1>3. Current' = Current
    BY <1>1 DEF Current, Busy, Changing
  <1>4. QED
    BY <1>1, <1>2, <1>3 DEF PromiseStep

LEMMA StepHolds ==
  ASSUME Preemptible = {}, ~DeleteFaults, DirInv, FilesInv, dir.count <= FirstEntries, [Next]_vars
  PROVE  DirInv' /\ FilesInv' /\ PromiseStep
  <1>1. DirInv'
    BY StepInv
  <1>2. CASE UNCHANGED vars
    BY <1>1, <1>2, StutterHolds
  <1>3. CASE Next
    <2>1. SeenStep
      BY <1>3 DEF Next, SeenStep
    <2>2. ASSUME NEW p \in Procs, UserStep(p) PROVE FilesInv' /\ PromiseStep
      <3>1. PICK n \in Names :
              \/ SysDelete(p, n)
              \/ \E b \in Buffers[n] : \/ SysWrite(p, n, b) \/ SysAppend(p, n, b)
                                       \/ \E o \in 0 .. MaxSize : SysWriteAt(p, n, b, o)
              \/ \E o, len \in 0 .. MaxSize : SysRead(p, n, o, len)
        BY <2>2 DEF UserStep
      <3>2. CASE SysDelete(p, n)
        BY <1>1, <2>1, <3>2, SysDeleteHolds
      <3>3. ASSUME NEW b \in Buffers[n], SysWrite(p, n, b) PROVE FilesInv' /\ PromiseStep
        BY <1>1, <2>1, <3>3, SysWriteHolds
      <3>4. ASSUME NEW b \in Buffers[n], SysAppend(p, n, b) PROVE FilesInv' /\ PromiseStep
        BY <1>1, <2>1, <3>4, SysAppendHolds
      <3>5. ASSUME NEW b \in Buffers[n], NEW o \in 0 .. MaxSize, SysWriteAt(p, n, b, o) PROVE FilesInv' /\ PromiseStep
        BY <1>1, <2>1, <3>5, SysWriteAtHolds
      <3>6. ASSUME NEW o \in 0 .. MaxSize, NEW len \in 0 .. MaxSize, SysRead(p, n, o, len)
            PROVE  FilesInv' /\ PromiseStep
        BY <1>1, <2>1, <3>6, SysReadHolds
      <3>7. QED
        BY <3>1, <3>2, <3>3, <3>4, <3>5, <3>6
    <2>3. ASSUME NEW p \in Procs, KernelStep(p) PROVE FilesInv' /\ PromiseStep
      BY <1>1, <2>1, <2>3, FillHolds, OutHolds, SaveFirstHolds, SaveRestHolds, CopyInHolds, CopyOutHolds, PutHolds,
         PutOutHolds, SlideInHolds, SlideOutHolds, ReadSectorHolds DEF KernelStep
    <2>4. ASSUME NEW p \in Procs, IOFails(p) PROVE FilesInv' /\ PromiseStep
      BY <1>1, <2>1, <2>4, IOFailsHolds
    <2>5. CASE Crash
      BY <1>1, <2>1, <2>5, CrashHolds
    <2>6. QED
      BY <1>1, <1>3, <2>2, <2>3, <2>4, <2>5 DEF Next, Step
  <1>4. QED
    BY <1>2, <1>3

(* Where no call comes in between the transfers of another and no transfer   *)
(* fails during a delete, and while the files that are listed have their     *)
(* entries in the directory's first sector, the file system keeps what fs.h  *)
(* promises: every call does to the file it names what it says, or fails,    *)
(* and nothing to another; a failed transfer or a stop of the machine hurts  *)
(* only the file a call was changing and those whose last change had failed. *)
THEOREM FilesAreKept ==
  Preemptible = {} /\ ~DeleteFaults => (Spec /\ [](dir.count <= FirstEntries) => ImplementsFiles)
  <1> SUFFICES ASSUME Preemptible = {}, ~DeleteFaults PROVE Spec /\ [](dir.count <= FirstEntries) => ImplementsFiles
    OBVIOUS
  <1>1. Init => DirInv /\ FilesInv /\ Promise!Init
    BY InitInv, InitFiles
  <1>2. DirInv /\ FilesInv /\ dir.count <= FirstEntries /\ [Next]_vars
        => DirInv' /\ FilesInv' /\ [Promise!Next]_(Promise!filesVars)
    BY StepHolds DEF PromiseStep, Promise!filesVars
  <1>3. QED
    BY <1>1, <1>2, PTL DEF Spec, ImplementsFiles, Promise!Spec

(* With a directory of one sector it always does. *)
THEOREM OneSectorKept ==
  Preemptible = {} /\ ~DeleteFaults /\ FirstEntries = MaxFiles => (Spec => ImplementsFiles)
  <1> SUFFICES ASSUME Preemptible = {}, ~DeleteFaults, FirstEntries = MaxFiles PROVE Spec => ImplementsFiles
    OBVIOUS
  <1>1. Init => DirInv /\ FilesInv /\ Promise!Init
    BY InitInv, InitFiles
  <1>2. DirInv => dir.count <= FirstEntries
    BY Fields, Sizes DEF DirInv, Typed
  <1>3. DirInv /\ FilesInv /\ [Next]_vars => DirInv' /\ FilesInv' /\ [Promise!Next]_(Promise!filesVars)
    BY <1>2, StepHolds DEF PromiseStep, Promise!filesVars
  <1>4. QED
    BY <1>1, <1>3, PTL DEF Spec, ImplementsFiles, Promise!Spec
=============================================================================
