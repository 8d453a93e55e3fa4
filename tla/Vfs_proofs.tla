----------------------------- MODULE Vfs_proofs ------------------------------
(***************************************************************************)
(* Proofs about the descriptors, for any number of processes, names, slots *)
(* and files: while nobody deletes a file that is open (~DeleteOpen) and   *)
(* no other process comes into an open (Preempt = {}), a name does for the *)
(* file, and the calls of vfs.c implement OpenFiles.                       *)
(***************************************************************************)
EXTENDS Vfs, SequenceTheorems, TLAPS

Sheltered == ~DeleteOpen /\ Preempt = {}

-----------------------------------------------------------------------------
(* The inductive invariant. *)

Byte == 0 .. 255
Slot == [used : BOOLEAN, name : Names \cup {""}, off : Nat, gen : 0 .. MaxDeletes]
Opening == [at : {"idle", "create", "slot"}, name : Names \cup {""}]

Typed ==
  /\ DOMAIN files \subseteq Names
  /\ \A n \in DOMAIN files : files[n] \in Seq(Byte) /\ Len(files[n]) <= MaxSize
  /\ fd_table \in [Procs -> [Fds -> Slot]]
  /\ opening \in [Procs -> Opening]
  /\ Launcher \in live /\ live \subseteq Procs
  /\ gen \in [Names -> 0 .. MaxDeletes]

(* Who is not there has nothing; an open looks for a file there is, or is    *)
(* about to create one there is not.                                         *)
OpeningOk(p) ==
  /\ opening[p].at = "idle" => opening[p] = Idle
  /\ opening[p].at # "idle" => p \in live /\ opening[p].name \in Names
  /\ opening[p].at = "slot" => Exists(opening[p].name)
  /\ opening[p].at = "create" => ~Exists(opening[p].name)

(* A descriptor in use has a file, the one of its name today. *)
Current(f) == f.used => f.name \in Names /\ Exists(f.name) /\ f.gen = gen[f.name]

VfsInv ==
  /\ Typed
  /\ \A p \in Procs : OpeningOk(p) /\ (p \notin live => fd_table[p] = Cleared)
  /\ \A p \in Procs, fd \in Fds : Current(fd_table[p][fd])
  /\ \A p, q \in Procs : opening[p].at = "create" /\ opening[q].at = "create" => p = q

LEMMA Given ==
  /\ Launcher \in Procs /\ FdMax \in Nat \ {0} /\ MaxSize \in Nat /\ MaxDeletes \in Nat
  /\ Buffers \subseteq Seq(Byte) /\ Offsets \subseteq Int
  BY VfsAssumption DEF Byte

LEMMA FreeSlot == Free \in Slot /\ ~Free.used
  BY Given DEF Free, Slot

LEMMA PartLen ==
  ASSUME NEW s \in Seq(Byte), NEW o \in Nat, NEW k \in Nat
  PROVE  Part(s, o, k) \in Seq(Byte) /\ Len(Part(s, o, k)) \in Nat
  <1>1. Len(s) \in Nat
    BY LenProperties
  <1>2. Part(s, o, k) \in Seq(Byte)
    BY <1>1 DEF Part
  <1>3. QED
    BY <1>2, LenProperties

(* Writing within a file or across its end. *)
LEMMA OverlayLen ==
  ASSUME NEW old \in Seq(Byte), NEW b \in Seq(Byte), NEW o \in 0 .. Len(old)
  PROVE  /\ Overlay(old, b, o) \in Seq(Byte)
         /\ Len(Overlay(old, b, o)) = IF o + Len(b) <= Len(old) THEN Len(old) ELSE o + Len(b)
  <1>1. Len(old) \in Nat /\ Len(b) \in Nat /\ o \in Nat /\ o <= Len(old)
    <2>1. Len(old) \in Nat /\ Len(b) \in Nat
      BY LenProperties
    <2>2. QED
      BY <2>1
  <1> DEFINE front == SubSeq(old, 1, o)
             rest == SubSeq(old, o + Len(b) + 1, Len(old))
  <1>2. front \in Seq(Byte) /\ Len(front) = o
    BY <1>1
  <1>3. rest \in Seq(Byte) /\ Len(rest) = IF o + Len(b) <= Len(old) THEN Len(old) - o - Len(b) ELSE 0
    BY <1>1
  <1> HIDE DEF front, rest
  <1> DEFINE both == front \o b
  <1>4. both \in Seq(Byte) /\ Len(both) = o + Len(b)
    BY <1>1, <1>2
  <1> HIDE DEF both
  <1>5. both \o rest \in Seq(Byte) /\ Len(both \o rest) = Len(both) + Len(rest)
    BY <1>3, <1>4, ConcatProperties
  <1>6. Overlay(old, b, o) = both \o rest
    BY DEF Overlay, both, front, rest
  <1>7. Len(both) + Len(rest) = IF o + Len(b) <= Len(old) THEN Len(old) ELSE o + Len(b)
    <2>1. CASE o + Len(b) <= Len(old)
      BY <1>1, <1>3, <1>4, <2>1
    <2>2. CASE ~(o + Len(b) <= Len(old))
      BY <1>1, <1>3, <1>4, <2>2
    <2>3. QED
      BY <2>1, <2>2
  <1>8. QED
    BY <1>5, <1>6, <1>7

LEMMA InitInv == Init => VfsInv
  <1> SUFFICES ASSUME Init PROVE VfsInv
    OBVIOUS
  <1>1. /\ files = <<>> /\ fd_table = [p \in Procs |-> Cleared] /\ opening = [p \in Procs |-> Idle]
        /\ live = {Launcher} /\ gen = [n \in Names |-> 0]
    BY DEF Init
  <1>2. DOMAIN files = {}
    BY <1>1
  <1>3. Cleared \in [Fds -> Slot] /\ Idle \in Opening /\ \A fd \in Fds : ~Cleared[fd].used
    BY FreeSlot DEF Cleared, Idle, Opening
  <1>4. Typed
    BY <1>1, <1>2, <1>3, Given DEF Typed
  <1>5. QED
    BY <1>1, <1>2, <1>3, <1>4 DEF VfsInv, OpeningOk, Current, Idle

-----------------------------------------------------------------------------
(* Steps that change one part of the state. *)

(* One slot of a table. *)
LEMMA SlotKeeps ==
  ASSUME VfsInv, NEW p \in live, NEW fd \in Fds, NEW s \in Slot, Current(s),
         fd_table' = [fd_table EXCEPT ![p][fd] = s], UNCHANGED <<files, opening, live, gen>>
  PROVE  VfsInv'
  <1>1. Typed'
    BY DEF VfsInv, Typed
  <1>2. \A q \in Procs, i \in Fds : fd_table'[q][i] = IF q = p /\ i = fd THEN s ELSE fd_table[q][i]
    BY DEF VfsInv, Typed
  <1>3. \A q \in Procs : q \notin live => fd_table'[q] = fd_table[q]
    BY DEF VfsInv, Typed
  <1>4. \A q \in Procs, i \in Fds : Current(fd_table[q][i])'
    BY <1>2 DEF VfsInv, Current, Exists
  <1>5. \A q \in Procs : OpeningOk(q)'
    BY DEF VfsInv, OpeningOk, Exists
  <1>6. QED
    BY <1>1, <1>3, <1>4, <1>5 DEF VfsInv

(* What a process is opening. *)
LEMMA OpeningKeeps ==
  ASSUME VfsInv, NEW p \in live, NEW at \in {"idle", "create", "slot"}, NEW n \in Names \cup {""}, At(p, at, n),
         at = "idle" => n = "", at # "idle" => n \in Names,
         at = "slot" => Exists(n), at = "create" => ~Exists(n) /\ \A q \in Procs \ {p} : opening[q].at # "create",
         UNCHANGED <<files, fd_table, live, gen>>
  PROVE  VfsInv'
  <1>1. opening' = [opening EXCEPT ![p] = [at |-> at, name |-> n]] /\ p \in Procs
    BY DEF At, VfsInv, Typed
  <1>2. Typed'
    BY <1>1 DEF VfsInv, Typed, Opening
  <1>3. opening'[p].at = at /\ opening'[p].name = n /\ \A q \in Procs \ {p} : opening'[q] = opening[q]
    BY <1>1 DEF VfsInv, Typed
  <1>4. \A q \in Procs : OpeningOk(q)'
    <2>1. OpeningOk(p)'
      BY <1>1, <1>3 DEF VfsInv, Typed, OpeningOk, Exists, Idle
    <2>2. \A q \in Procs \ {p} : OpeningOk(q)'
      BY <1>3 DEF VfsInv, OpeningOk, Exists
    <2>3. QED
      BY <2>1, <2>2
  <1>5. \A q, r \in Procs : opening'[q].at = "create" /\ opening'[r].at = "create" => q = r
    BY <1>3 DEF VfsInv
  <1>6. QED
    BY <1>2, <1>4, <1>5 DEF VfsInv, Current, Exists

(* The bytes of a file there is. *)
LEMMA BytesKeep ==
  ASSUME VfsInv, NEW n \in DOMAIN files, NEW b \in Seq(Byte), Len(b) <= MaxSize,
         DOMAIN files' = DOMAIN files, files'[n] = b, \A m \in DOMAIN files \ {n} : files'[m] = files[m],
         UNCHANGED <<fd_table, opening, live, gen>>
  PROVE  VfsInv'
  <1>1. Typed'
    BY DEF VfsInv, Typed
  <1>2. \A m : Exists(m)' <=> Exists(m)
    BY DEF Exists
  <1>3. QED
    BY <1>1, <1>2 DEF VfsInv, OpeningOk, Current

-----------------------------------------------------------------------------
(* The steps of an open. *)

LEMMA NobodyElse ==
  ASSUME Preempt = {}, NEW p, Quiet(p)
  PROVE  \A q \in Procs \ {p} : opening[q].at # "create"
  BY DEF Quiet

LEMMA VfsOpenInv ==
  ASSUME Sheltered, VfsInv, NEW p \in Procs, NEW n \in Names, NEW create \in BOOLEAN, VfsOpen(p, n, create)
  PROVE  VfsInv'
  <1>1. p \in live /\ Quiet(p) /\ UNCHANGED <<files, fd_table, live, gen>>
    BY DEF VfsOpen
  <1>2. CASE Exists(n) /\ At(p, "slot", n)
    BY <1>1, <1>2, OpeningKeeps
  <1>3. CASE ~Exists(n) /\ At(p, "create", n)
    BY <1>1, <1>3, OpeningKeeps, NobodyElse DEF Sheltered
  <1>4. CASE UNCHANGED opening
    BY <1>1, <1>4 DEF VfsInv, Typed, OpeningOk, Current, Exists
  <1>5. QED
    BY <1>2, <1>3, <1>4 DEF VfsOpen

LEMMA OpenCreateInv ==
  ASSUME Sheltered, VfsInv, NEW p \in Procs, OpenCreate(p)
  PROVE  VfsInv'
  <1> DEFINE n == opening[p].name
  <1>1. /\ opening[p].at = "create" /\ p \in live /\ n \in Names /\ ~Exists(n)
        /\ \A q \in Procs \ {p} : opening[q].at # "create" /\ UNCHANGED <<fd_table, live, gen>>
    BY DEF OpenCreate, VfsInv, OpeningOk
  <1> HIDE DEF n
  <1>2. CASE At(p, "idle", "") /\ UNCHANGED files
    BY <1>1, <1>2, OpeningKeeps DEF OpenCreate
  <1>3. CASE files' = Bind(files, n, <<>>) /\ At(p, "slot", n)
    <2>1. /\ DOMAIN files' = DOMAIN files \cup {n} /\ files'[n] = <<>>
          /\ \A m \in DOMAIN files : files'[m] = files[m]
      BY <1>1, <1>3 DEF Bind, Exists
    <2>2. opening' = [opening EXCEPT ![p] = [at |-> "slot", name |-> n]] /\ UNCHANGED <<fd_table, live, gen>>
      BY <1>3 DEF At, OpenCreate
    <2>3. \A m : Exists(m)' <=> Exists(m) \/ m = n
      BY <2>1 DEF Exists
    <2>4. Typed'
      <3>1. <<>> \in Seq(Byte) /\ Len(<<>>) <= MaxSize
        BY Given
      <3>2. [at |-> "slot", name |-> n] \in Opening
        BY <1>1 DEF Opening
      <3>3. DOMAIN files' \subseteq Names /\ \A m \in DOMAIN files' : files'[m] \in Seq(Byte) /\ Len(files'[m]) <= MaxSize
        BY <1>1, <2>1, <3>1 DEF VfsInv, Typed
      <3>4. QED
        BY <2>2, <3>2, <3>3 DEF VfsInv, Typed
    <2>5. opening'[p] = [at |-> "slot", name |-> n] /\ \A q \in Procs \ {p} : opening'[q] = opening[q]
      BY <2>2 DEF VfsInv, Typed
    <2>6. \A q \in Procs : OpeningOk(q)'
      BY <1>1, <2>2, <2>3, <2>5 DEF VfsInv, OpeningOk
    <2>7. \A q \in Procs, fd \in Fds : Current(fd_table[q][fd])'
      BY <2>2, <2>3 DEF VfsInv, Current
    <2>8. QED
      BY <1>1, <2>2, <2>4, <2>5, <2>6, <2>7 DEF VfsInv
  <1>4. QED
    BY <1>2, <1>3 DEF OpenCreate, n

LEMMA OpenSlotInv ==
  ASSUME Sheltered, VfsInv, NEW p \in Procs, OpenSlot(p)
  PROVE  VfsInv'
  <1> DEFINE n == opening[p].name
             s == [used |-> TRUE, name |-> n, off |-> 0, gen |-> gen[n]]
  <1>1. opening[p].at = "slot" /\ p \in live /\ n \in Names /\ Exists(n)
    BY DEF OpenSlot, VfsInv, OpeningOk
  <1> HIDE DEF n
  <1>2. /\ opening' = [opening EXCEPT ![p] = Idle] /\ UNCHANGED <<files, live, gen>>
        /\ \/ UNCHANGED fd_table
           \/ \E i \in Fds : fd_table' = [fd_table EXCEPT ![p][i] = s]
    BY DEF OpenSlot, At, Idle, n
  <1>3. s \in Slot /\ Idle \in Opening /\ s.name = n /\ s.gen = gen[n]
    BY <1>1 DEF VfsInv, Typed, Slot, Idle, Opening
  <1> HIDE DEF s
  <1>4. Typed'
    <2>1. fd_table' \in [Procs -> [Fds -> Slot]]
      <3>1. fd_table \in [Procs -> [Fds -> Slot]]
        BY DEF VfsInv, Typed
      <3>2. ASSUME NEW i \in Fds, fd_table' = [fd_table EXCEPT ![p][i] = s] PROVE fd_table' \in [Procs -> [Fds -> Slot]]
        BY <1>3, <3>1, <3>2
      <3>3. QED
        BY <1>2, <3>1, <3>2
    <2>2. opening' \in [Procs -> Opening]
      BY <1>2, <1>3 DEF VfsInv, Typed
    <2>3. QED
      BY <1>2, <2>1, <2>2 DEF VfsInv, Typed
  <1>5. /\ opening'[p] = Idle /\ opening'[p].at = "idle"
        /\ \A q \in Procs \ {p} : opening'[q] = opening[q] /\ fd_table'[q] = fd_table[q]
    BY <1>2 DEF VfsInv, Typed, Idle
  <1>6. \A q \in Procs : OpeningOk(q)' /\ (q \notin live' => fd_table'[q] = Cleared)
    <2>1. OpeningOk(p)' /\ p \in live'
      BY <1>1, <1>2, <1>5 DEF OpeningOk
    <2>2. \A q \in Procs \ {p} : OpeningOk(q)' /\ (q \notin live' => fd_table'[q] = Cleared)
      BY <1>2, <1>5 DEF VfsInv, OpeningOk, Exists
    <2>3. QED
      BY <2>1, <2>2
  <1>7. \A q \in Procs, i \in Fds : Current(fd_table[q][i])'
    <2>1. \A i \in Fds : \/ fd_table'[p][i] = fd_table[p][i]
                         \/ fd_table'[p][i] = s
      BY <1>2 DEF VfsInv, Typed
    <2>2. \A i \in Fds : Current(fd_table[p][i])'
      BY <1>1, <1>2, <1>3, <2>1 DEF VfsInv, Current, Exists
    <2>3. QED
      BY <1>2, <1>5, <2>2 DEF VfsInv, Current, Exists
  <1>8. QED
    BY <1>4, <1>5, <1>6, <1>7 DEF VfsInv

-----------------------------------------------------------------------------
(* The calls with a descriptor. *)

LEMMA UsedIs ==
  ASSUME VfsInv, NEW p \in Procs, NEW fd \in Fds, Used(p, fd)
  PROVE  LET f == fd_table[p][fd] IN
         /\ p \in live /\ f \in Slot /\ f.off \in Nat /\ f.used /\ Current(f)
         /\ f.name \in Names /\ f.name \in DOMAIN files /\ f.gen = gen[f.name]
         /\ files[f.name] \in Seq(Byte) /\ Len(files[f.name]) \in Nat /\ Len(files[f.name]) <= MaxSize
  <1> DEFINE f == fd_table[p][fd]
  <1>1. p \in live /\ f \in Slot /\ f.off \in Nat /\ f.used /\ Current(f)
    BY DEF VfsInv, Typed, Used, Slot
  <1>2. f.name \in Names /\ f.name \in DOMAIN files /\ f.gen = gen[f.name]
    BY <1>1 DEF Current, Exists
  <1>3. files[f.name] \in Seq(Byte) /\ Len(files[f.name]) <= MaxSize
    BY <1>2 DEF VfsInv, Typed
  <1>4. QED
    BY <1>1, <1>2, <1>3, LenProperties

(* The cursor moves. *)
LEMMA CursorKeeps ==
  ASSUME VfsInv, NEW p \in Procs, NEW fd \in Fds, Used(p, fd), NEW o \in Nat,
         fd_table' = [fd_table EXCEPT ![p][fd].off = o], UNCHANGED <<files, opening, live, gen>>
  PROVE  VfsInv'
  <1> DEFINE s == [fd_table[p][fd] EXCEPT !.off = o]
  <1>1. p \in live /\ fd_table[p][fd] \in Slot /\ Current(fd_table[p][fd])
    BY UsedIs
  <1>2. s \in Slot /\ Current(s)
    BY <1>1 DEF Slot, Current
  <1>3. fd_table' = [fd_table EXCEPT ![p][fd] = s]
    BY DEF VfsInv, Typed
  <1> HIDE DEF s
  <1>4. QED
    BY <1>1, <1>2, <1>3, SlotKeeps

LEMMA VfsCloseInv ==
  ASSUME VfsInv, NEW p \in Procs, NEW fd \in Fds, VfsClose(p, fd)
  PROVE  VfsInv'
  <1>1. p \in live /\ Current(Free) /\ Free \in Slot
    BY FreeSlot DEF VfsClose, Used, Current
  <1>2. QED
    BY <1>1, SlotKeeps DEF VfsClose

LEMMA VfsReadInv ==
  ASSUME VfsInv, NEW p \in Procs, NEW fd \in Fds, NEW k \in Nat, VfsRead(p, fd, k)
  PROVE  VfsInv'
  <1> DEFINE f == fd_table[p][fd]
             got == Part(files[f.name], f.off, k)
             o == f.off + Len(got)
  <1>1. Used(p, fd) /\ f.off \in Nat /\ files[f.name] \in Seq(Byte) /\ Exists(f.name)
    BY UsedIs DEF VfsRead, Exists
  <1>2. o \in Nat
    BY <1>1, PartLen
  <1>3. fd_table' = [fd_table EXCEPT ![p][fd].off = o]
    BY <1>1 DEF VfsRead, VfsInv, Typed
  <1> HIDE DEF o
  <1>4. QED
    BY <1>1, <1>2, <1>3, CursorKeeps DEF VfsRead

LEMMA VfsWriteInv ==
  ASSUME VfsInv, NEW p \in Procs, NEW fd \in Fds, NEW b \in Seq(Byte), VfsWrite(p, fd, b)
  PROVE  VfsInv'
  <1> DEFINE f == fd_table[p][fd]
             n == f.name
             o == f.off + Len(b)
             new == Overlay(files[n], b, f.off)
             s == [f EXCEPT !.off = o]
  <1>1. /\ Used(p, fd) /\ p \in live /\ f \in Slot /\ f.off \in Nat /\ Current(f) /\ n \in DOMAIN files
        /\ files[n] \in Seq(Byte) /\ Len(files[n]) \in Nat /\ Len(files[n]) <= MaxSize
    BY UsedIs DEF VfsWrite
  <1>2. o \in Nat
    BY <1>1, LenProperties
  <1>3. UNCHANGED <<opening, live, gen>>
    BY DEF VfsWrite
  <1>4. CASE UNCHANGED <<files, fd_table>>
    BY <1>3, <1>4 DEF VfsInv, Typed, OpeningOk, Current, Exists
  <1>5. CASE /\ WriteAtOk(n, b, f.off)
             /\ files' = Bind(files, n, IF Exists(n) THEN Overlay(files[n], b, f.off) ELSE b)
             /\ fd_table' = [fd_table EXCEPT ![p][fd].off = Advanced(f, b)]
    <2>1. f.off \in 0 .. Len(files[n]) /\ o <= MaxSize
      BY <1>1, <1>5 DEF WriteAtOk, Exists, Size
    <2>2. new \in Seq(Byte) /\ Len(new) <= MaxSize
      BY <1>1, <2>1, OverlayLen
    <2>3. files' = Bind(files, n, new)
      BY <1>1, <1>5 DEF Exists
    <2> HIDE DEF new
    <2>4. /\ DOMAIN files' = DOMAIN files /\ files'[n] = new
          /\ \A m \in DOMAIN files \ {n} : files'[m] = files[m]
      BY <1>1, <2>3 DEF Bind
    <2>5. s \in Slot /\ s.used = f.used /\ s.name = f.name /\ s.gen = f.gen
      BY <1>1, <1>2 DEF Slot
    <2>6. fd_table' = [fd_table EXCEPT ![p][fd] = s]
      BY <1>5 DEF VfsInv, Typed, Advanced
    <2> HIDE DEF s, f
    <2>7. fd_table' \in [Procs -> [Fds -> Slot]]
      BY <2>5, <2>6 DEF VfsInv, Typed
    <2>8. Typed'
      BY <1>1, <1>3, <2>2, <2>4, <2>7 DEF VfsInv, Typed
    <2>9. \A m : Exists(m)' <=> Exists(m)
      BY <2>4 DEF Exists
    <2>10. \A q \in Procs, i \in Fds : fd_table'[q][i] = IF q = p /\ i = fd THEN s ELSE fd_table[q][i]
      BY <2>6 DEF VfsInv, Typed
    <2>11. \A q \in Procs, i \in Fds : Current(fd_table[q][i])'
      BY <1>1, <1>3, <2>5, <2>9, <2>10 DEF VfsInv, Current
    <2>12. \A q \in Procs : q \notin live => fd_table'[q] = fd_table[q]
      BY <1>1, <2>6 DEF VfsInv, Typed
    <2>13. QED
      BY <1>3, <2>8, <2>9, <2>11, <2>12 DEF VfsInv, OpeningOk
  <1>6. QED
    BY <1>4, <1>5 DEF VfsWrite

LEMMA VfsSeekInv ==
  ASSUME VfsInv, NEW p \in Procs, NEW fd \in Fds, NEW whence \in {"SET", "CUR", "END"}, NEW d \in Offsets,
         VfsSeek(p, fd, whence, d)
  PROVE  VfsInv'
  <1> DEFINE f == fd_table[p][fd]
             o == Base(f, whence) + d
  <1>1. /\ Used(p, fd) /\ f.off \in Nat /\ f.name \in DOMAIN files /\ Len(files[f.name]) \in Nat
        /\ UNCHANGED <<files, opening, live, gen>>
    BY UsedIs DEF VfsSeek
  <1>2. CASE UNCHANGED fd_table
    BY <1>1, <1>2 DEF VfsInv, Typed, OpeningOk, Current, Exists
  <1>3. CASE SeekOk(f, whence, d) /\ fd_table' = [fd_table EXCEPT ![p][fd].off = o]
    <2>1. Base(f, whence) \in Nat
      BY <1>1 DEF Base, Size, Exists
    <2>2. o \in Nat
      BY <1>3, <2>1, Given DEF SeekOk
    <2> HIDE DEF o
    <2>3. QED
      BY <1>1, <1>3, <2>2, CursorKeeps
  <1>4. QED
    BY <1>2, <1>3 DEF VfsSeek

-----------------------------------------------------------------------------
(* The calls with a path, and the processes. *)

LEMMA FileWriteInv ==
  ASSUME VfsInv, NEW p \in Procs, NEW n \in Names, NEW b \in Seq(Byte), FileWrite(p, n, b)
  PROVE  VfsInv'
  BY BytesKeep DEF FileWrite, Exists

LEMMA NotUsed ==
  ASSUME VfsInv, NEW n, ~InUse(n)
  PROVE  /\ \A q \in Procs : opening[q].at # "idle" => opening[q].name # n
         /\ \A q \in Procs, fd \in Fds : fd_table[q][fd].used => fd_table[q][fd].name # n
  <1>1. \A q \in live : opening[q].name # n /\ \A fd \in Fds : fd_table[q][fd].used => fd_table[q][fd].name # n
    BY DEF InUse
  <1>2. \A q \in Procs \ live : fd_table[q] = Cleared /\ opening[q].at = "idle"
    BY DEF VfsInv, OpeningOk, Idle, Typed, Opening
  <1>3. \A fd \in Fds : ~Cleared[fd].used
    BY FreeSlot DEF Cleared
  <1>4. QED
    BY <1>1, <1>2, <1>3

LEMMA FileDeleteInv ==
  ASSUME Sheltered, VfsInv, NEW p \in Procs, NEW n \in Names, FileDelete(p, n)
  PROVE  VfsInv'
  <1>1. /\ Quiet(p) /\ ~InUse(n) /\ gen[n] < MaxDeletes /\ n \in DOMAIN files
        /\ files' = [m \in DOMAIN files \ {n} |-> files[m]] /\ gen' = [gen EXCEPT ![n] = @ + 1]
        /\ UNCHANGED <<fd_table, opening, live>> /\ opening[p] = Idle
    BY DEF FileDelete, Sheltered, Exists
  <1>2. \A m : Exists(m)' <=> Exists(m) /\ m # n
    BY <1>1 DEF Exists
  <1>3. \A m \in Names : m # n => gen'[m] = gen[m]
    BY <1>1 DEF VfsInv, Typed
  <1>4. Typed'
    <2>1. gen[n] + 1 \in 0 .. MaxDeletes
      BY <1>1, Given DEF VfsInv, Typed
    <2>2. gen' \in [Names -> 0 .. MaxDeletes]
      BY <1>1, <2>1 DEF VfsInv, Typed
    <2>3. QED
      BY <1>1, <2>2 DEF VfsInv, Typed
  <1>5. \A q \in Procs : OpeningOk(q)'
    <2>1. \A q \in Procs : opening[q].at \in {"idle", "create", "slot"}
      BY DEF VfsInv, Typed, Opening
    <2>2. \A q \in Procs : opening[q].at # "idle" => opening[q].name # n
      BY <1>1, NotUsed
    <2>3. QED
      BY <1>1, <1>2, <2>1, <2>2 DEF VfsInv, OpeningOk
  <1>6. \A q \in Procs, fd \in Fds : Current(fd_table[q][fd])'
    BY <1>1, <1>2, <1>3, NotUsed DEF VfsInv, Current
  <1>7. QED
    BY <1>1, <1>4, <1>5, <1>6 DEF VfsInv

LEMMA ForkInv ==
  ASSUME VfsInv, NEW p \in Procs, NEW c \in Procs, Fork(p, c)
  PROVE  VfsInv'
  <1>1. /\ p \in live /\ c \notin live /\ live' = live \cup {c}
        /\ fd_table' = [fd_table EXCEPT ![c] = fd_table[p]] /\ UNCHANGED <<files, opening, gen>>
    BY DEF Fork
  <1>2. Typed'
    BY <1>1 DEF VfsInv, Typed
  <1>3. fd_table'[c] = fd_table[p] /\ \A q \in Procs \ {c} : fd_table'[q] = fd_table[q]
    BY <1>1 DEF VfsInv, Typed
  <1>4. \A q \in Procs : OpeningOk(q)' /\ (q \notin live' => fd_table'[q] = Cleared)
    BY <1>1, <1>3 DEF VfsInv, OpeningOk, Exists
  <1>5. \A q \in Procs, fd \in Fds : Current(fd_table[q][fd])'
    BY <1>1, <1>3 DEF VfsInv, Current, Exists
  <1>6. QED
    BY <1>1, <1>2, <1>4, <1>5 DEF VfsInv

LEMMA ReapInv ==
  ASSUME VfsInv, NEW p \in Procs, Reap(p)
  PROVE  VfsInv'
  <1>1. /\ p \in live /\ p # Launcher /\ live' = live \ {p}
        /\ fd_table' = [fd_table EXCEPT ![p] = Cleared] /\ opening' = [opening EXCEPT ![p] = Idle]
        /\ UNCHANGED <<files, gen>>
    BY DEF Reap, At, Idle
  <1>2. Cleared \in [Fds -> Slot] /\ Idle \in Opening /\ Idle.at = "idle" /\ \A fd \in Fds : ~Cleared[fd].used
    BY FreeSlot DEF Cleared, Idle, Opening
  <1>3. Typed'
    BY <1>1, <1>2 DEF VfsInv, Typed
  <1>4. /\ fd_table'[p] = Cleared /\ opening'[p] = Idle
        /\ \A q \in Procs \ {p} : fd_table'[q] = fd_table[q] /\ opening'[q] = opening[q]
    BY <1>1 DEF VfsInv, Typed
  <1>5. \A q \in Procs : OpeningOk(q)' /\ (q \notin live' => fd_table'[q] = Cleared)
    <2>1. OpeningOk(p)'
      BY <1>2, <1>4 DEF OpeningOk
    <2>2. \A q \in Procs \ {p} : OpeningOk(q)' /\ (q \notin live' => fd_table'[q] = Cleared)
      BY <1>1, <1>4 DEF VfsInv, OpeningOk, Exists
    <2>3. QED
      BY <1>4, <2>1, <2>2
  <1>6. \A q \in Procs, fd \in Fds : Current(fd_table[q][fd])'
    BY <1>1, <1>2, <1>4 DEF VfsInv, Current, Exists
  <1>7. \A q, r \in Procs : opening'[q].at = "create" /\ opening'[r].at = "create" => q = r
    BY <1>2, <1>4 DEF VfsInv
  <1>8. QED
    BY <1>1, <1>3, <1>5, <1>6, <1>7 DEF VfsInv

LEMMA StepInv ==
  ASSUME Sheltered, VfsInv, [Next]_vars
  PROVE  VfsInv'
  <1>1. CASE UNCHANGED <<files, fd_table, opening, live, gen>>
    BY <1>1 DEF VfsInv, Typed, OpeningOk, Current, Exists
  <1>2. ASSUME NEW p \in Procs, NEW n \in Names, Path(p, n) PROVE VfsInv'
    BY <1>2, VfsOpenInv, FileWriteInv, FileDeleteInv, Given DEF Path
  <1>3. ASSUME NEW p \in Procs, NEW fd \in Fds, Descriptor(p, fd) PROVE VfsInv'
    <2>1. \A k \in 1 .. 2 : k \in Nat
      OBVIOUS
    <2>2. QED
      BY <1>3, <2>1, VfsCloseInv, VfsReadInv, VfsWriteInv, VfsSeekInv, Given DEF Descriptor
  <1>4. ASSUME NEW p \in Procs, OpenCreate(p) \/ OpenSlot(p) \/ Reap(p) PROVE VfsInv'
    BY <1>4, OpenCreateInv, OpenSlotInv, ReapInv
  <1>5. ASSUME NEW p \in Procs, NEW c \in Procs, Fork(p, c) PROVE VfsInv'
    BY <1>5, ForkInv
  <1>6. CASE NextProgram
    BY <1>1, <1>6 DEF NextProgram
  <1>7. QED
    BY <1>1, <1>2, <1>3, <1>4, <1>5, <1>6 DEF Next, vars

LEMMA Invariance == Sheltered => (Spec => []VfsInv)
  <1> SUFFICES ASSUME Sheltered PROVE Spec => []VfsInv
    OBVIOUS
  <1>1. VfsInv /\ [Next]_vars => VfsInv'
    BY StepInv
  <1>2. QED
    BY <1>1, InitInv, PTL DEF Spec

-----------------------------------------------------------------------------
(* The files as objects. *)

TableOf(t) ==
  [fd \in {i \in Fds : t[i].used} |-> [id |-> <<t[fd].name, t[fd].gen>>, off |-> t[fd].off]]

Dir == [n \in DOMAIN files |-> Id(n)]
Contents == [id \in {Id(n) : n \in DOMAIN files} |-> files[id[1]]]
Open == [p \in Procs |-> [fd \in {i \in Fds : fd_table[p][i].used} |->
           [id |-> <<fd_table[p][fd].name, fd_table[p][fd].gen>>, off |-> fd_table[p][fd].off]]]

LEMMA Objects ==
  /\ DOMAIN Dir = DOMAIN files /\ \A n \in DOMAIN files : Dir[n] = Id(n)
  /\ DOMAIN Contents = {Id(n) : n \in DOMAIN files}
  /\ \A n \in DOMAIN files : Contents[Id(n)] = files[n]
  /\ Open = [p \in Procs |-> TableOf(fd_table[p])]
  BY DEF Dir, Contents, Open, Id, TableOf

LEMMA TableIs ==
  ASSUME NEW t
  PROVE  /\ DOMAIN TableOf(t) = {i \in Fds : t[i].used}
         /\ \A fd \in Fds : t[fd].used => TableOf(t)[fd] = [id |-> <<t[fd].name, t[fd].gen>>, off |-> t[fd].off]
  BY DEF TableOf

LEMMA OpenedAs ==
  ASSUME NEW q \in Procs, NEW fd \in DOMAIN Open[q]
  PROVE  fd \in Fds /\ fd_table[q][fd].used /\ Open[q][fd].id = <<fd_table[q][fd].name, fd_table[q][fd].gen>>
  <1>1. Open[q] = TableOf(fd_table[q])
    BY Objects
  <1>2. fd \in {i \in Fds : fd_table[q][i].used}
    BY <1>1, TableIs
  <1>3. fd \in Fds /\ fd_table[q][fd].used
    BY <1>2
  <1>4. Open[q][fd] = [id |-> <<fd_table[q][fd].name, fd_table[q][fd].gen>>, off |-> fd_table[q][fd].off]
    <2> DEFINE t == fd_table[q]
    <2> HIDE DEF t
    <2>1. t[fd].used => TableOf(t)[fd] = [id |-> <<t[fd].name, t[fd].gen>>, off |-> t[fd].off]
      BY <1>3, TableIs
    <2>2. QED
      BY <1>1, <1>3, <2>1 DEF t
  <1>5. QED
    BY <1>3, <1>4

LEMMA SameFiles ==
  ASSUME UNCHANGED <<files, gen>>
  PROVE  UNCHANGED <<Dir, Contents>>
  BY DEF Dir, Contents, Id

LEMMA SameTables ==
  ASSUME UNCHANGED fd_table
  PROVE  UNCHANGED Open
  BY DEF Open

(* The bytes of one file are others. *)
LEMMA OtherBytes ==
  ASSUME NEW n \in DOMAIN files, NEW b, UNCHANGED gen, DOMAIN files' = DOMAIN files, files'[n] = b,
         \A m \in DOMAIN files \ {n} : files'[m] = files[m]
  PROVE  Dir' = Dir /\ Contents' = [Contents EXCEPT ![Id(n)] = b]
  <1>1. Dir' = Dir
    BY DEF Dir, Id
  <1>2. Contents' = [id \in {Id(m) : m \in DOMAIN files} |-> files'[id[1]]]
    BY DEF Contents, Id
  <1>3. \A id \in {Id(m) : m \in DOMAIN files} : files'[id[1]] = IF id = Id(n) THEN b ELSE files[id[1]]
    BY DEF Id
  <1>4. QED
    BY <1>1, <1>2, <1>3 DEF Contents

LEMMA OneMore ==
  ASSUME NEW n, n \notin DOMAIN files, NEW b, files' = Bind(files, n, b), UNCHANGED gen
  PROVE  Dir' = Bind(Dir, n, Id(n)) /\ Contents' = Bind(Contents, Id(n), b)
  <1>1. /\ DOMAIN files' = DOMAIN files \cup {n} /\ files'[n] = b
        /\ \A m \in DOMAIN files : files'[m] = files[m]
    BY DEF Bind
  <1>2. Dir' = [m \in DOMAIN files \cup {n} |-> Id(m)]
    BY <1>1 DEF Dir, Id
  <1>3. Contents' = [id \in {Id(m) : m \in DOMAIN files \cup {n}} |-> files'[id[1]]]
    BY <1>1 DEF Contents, Id
  <1>4. {Id(m) : m \in DOMAIN files \cup {n}} = {Id(m) : m \in DOMAIN files} \cup {Id(n)}
    OBVIOUS
  <1>5. \A id \in {Id(m) : m \in DOMAIN files \cup {n}} :
          files'[id[1]] = IF id = Id(n) THEN b ELSE Contents[id]
    BY <1>1 DEF Id, Contents
  <1>6. Dir' = Bind(Dir, n, Id(n))
    BY <1>2 DEF Bind, Dir
  <1>7. Contents' = Bind(Contents, Id(n), b)
    <2>1. DOMAIN Contents = {Id(m) : m \in DOMAIN files}
      BY Objects
    <2>2. QED
      BY <1>3, <1>4, <1>5, <2>1 DEF Bind
  <1>8. QED
    BY <1>6, <1>7

LEMMA OneLess ==
  ASSUME Typed, NEW n \in DOMAIN files, files' = [m \in DOMAIN files \ {n} |-> files[m]], gen' = [gen EXCEPT ![n] = @ + 1]
  PROVE  Dir' = Abstract!Drop(Dir, n) /\ Contents' = Abstract!Drop(Contents, Id(n))
  <1>1. /\ DOMAIN files' = DOMAIN files \ {n} /\ \A m \in DOMAIN files \ {n} : files'[m] = files[m]
        /\ \A m \in DOMAIN files \ {n} : gen'[m] = gen[m]
    BY DEF Typed
  <1>2. \A m \in DOMAIN files \ {n} : Id(m)' = Id(m)
    BY <1>1 DEF Id
  <1>3. Dir' = [m \in DOMAIN files \ {n} |-> Id(m)]
    BY <1>1, <1>2 DEF Dir
  <1>4. {Id(m)' : m \in DOMAIN files'} = {Id(m) : m \in DOMAIN files} \ {Id(n)}
    BY <1>1, <1>2 DEF Id
  <1>5. Contents' = [id \in {Id(m) : m \in DOMAIN files} \ {Id(n)} |-> files'[id[1]]]
    BY <1>4 DEF Contents
  <1>6. \A id \in {Id(m) : m \in DOMAIN files} \ {Id(n)} : files'[id[1]] = Contents[id]
    BY <1>1 DEF Id, Contents
  <1>7. Contents' = Abstract!Drop(Contents, Id(n))
    <2>1. DOMAIN Contents = {Id(m) : m \in DOMAIN files}
      BY Objects
    <2>2. QED
      BY <1>5, <1>6, <2>1 DEF Abstract!Drop
  <1>8. Dir' = Abstract!Drop(Dir, n)
    BY <1>3 DEF Abstract!Drop, Dir
  <1>9. QED
    BY <1>7, <1>8

-----------------------------------------------------------------------------
(* Tables and slots. *)

LEMMA OtherTable ==
  ASSUME VfsInv, NEW p \in Procs, NEW t, fd_table' = [fd_table EXCEPT ![p] = t]
  PROVE  Open' = [Open EXCEPT ![p] = TableOf(t)]
  <1>1. Open = [q \in Procs |-> TableOf(fd_table[q])] /\ Open' = [q \in Procs |-> TableOf(fd_table'[q])]
    BY DEF Open, TableOf
  <1>2. \A q \in Procs : fd_table'[q] = IF q = p THEN t ELSE fd_table[q]
    BY DEF VfsInv, Typed
  <1>3. QED
    BY <1>1, <1>2

LEMMA SlotTaken ==
  ASSUME NEW t \in [Fds -> Slot], NEW fd \in Fds, NEW s \in Slot, s.used
  PROVE  TableOf([t EXCEPT ![fd] = s]) = Bind(TableOf(t), fd, [id |-> <<s.name, s.gen>>, off |-> s.off])
  <1> DEFINE u == [t EXCEPT ![fd] = s]
  <1>1. \A i \in Fds : u[i] = IF i = fd THEN s ELSE t[i]
    OBVIOUS
  <1> HIDE DEF u
  <1>2. {i \in Fds : u[i].used} = {i \in Fds : t[i].used} \cup {fd}
    BY <1>1
  <1>3. QED
    BY <1>1, <1>2 DEF TableOf, Bind, u

LEMMA SlotFreed ==
  ASSUME NEW t \in [Fds -> Slot], NEW fd \in Fds
  PROVE  TableOf([t EXCEPT ![fd] = Free]) = Abstract!Drop(TableOf(t), fd)
  <1> DEFINE u == [t EXCEPT ![fd] = Free]
  <1>1. \A i \in Fds : u[i] = IF i = fd THEN Free ELSE t[i]
    OBVIOUS
  <1> HIDE DEF u
  <1>2. {i \in Fds : u[i].used} = {i \in Fds : t[i].used} \ {fd}
    BY <1>1, FreeSlot
  <1>3. QED
    BY <1>1, <1>2 DEF TableOf, Abstract!Drop, u

MovesTo(p, fd, o) == fd_table' = [fd_table EXCEPT ![p][fd].off = o]

LEMMA CursorMoved ==
  ASSUME VfsInv, NEW p \in Procs, NEW fd \in Fds, fd_table[p][fd].used, NEW o, MovesTo(p, fd, o)
  PROVE  Open' = [Open EXCEPT ![p][fd].off = o]
  <1> DEFINE t == fd_table[p]
             u == [t EXCEPT ![fd].off = o]
  <1>1. fd_table' = [fd_table EXCEPT ![p] = u] /\ t \in [Fds -> Slot]
    BY DEF VfsInv, Typed, MovesTo
  <1>2. Open' = [Open EXCEPT ![p] = TableOf(u)] /\ Open[p] = TableOf(t)
    BY <1>1, OtherTable, Objects
  <1>3. /\ u[fd].used = t[fd].used /\ u[fd].name = t[fd].name /\ u[fd].gen = t[fd].gen /\ u[fd].off = o
        /\ \A i \in Fds \ {fd} : u[i] = t[i]
    BY <1>1 DEF Slot
  <1> HIDE DEF u, t
  <1>4. {i \in Fds : u[i].used} = {i \in Fds : t[i].used}
    BY <1>3
  <1>5. TableOf(u) = [TableOf(t) EXCEPT ![fd].off = o]
    BY <1>3, <1>4 DEF TableOf
  <1>6. QED
    BY <1>2, <1>5

-----------------------------------------------------------------------------
(* The steps of an open. *)

LEMMA SameCardinality ==
  ASSUME NEW S
  PROVE  Abstract!Cardinality(S) = Cardinality(S)
  BY DEF Abstract!Cardinality, Cardinality

LEMMA Failing ==
  ASSUME NEW p, Returns(p, Num(-1)), UNCHANGED <<files, fd_table, live, gen>>
  PROVE  Abstract!Fails(p)
  <1>1. UNCHANGED <<Dir, Contents, Open>>
    BY SameFiles, SameTables
  <1>2. QED
    BY <1>1 DEF Abstract!Fails, Abstract!Returns, Returns, Num, Abstract!Num, Dir, Contents, Open

LEMMA CreateIsMake ==
  ASSUME Sheltered, VfsInv, NEW p \in Procs, OpenCreate(p), NEW n, n = opening[p].name
  PROVE  Abstract!Make(n) \/ Abstract!OpenFails(p, n)
  <1>1. n \in Names /\ n \notin DOMAIN files /\ UNCHANGED <<fd_table, live, gen>>
    BY DEF OpenCreate, VfsInv, OpeningOk, Exists
  <1>2. CASE Returns(p, Num(-1)) /\ UNCHANGED files
    <2>1. Abstract!Fails(p)
      BY <1>1, <1>2, Failing
    <2>2. n \notin DOMAIN Dir
      BY <1>1, Objects
    <2>3. QED
      BY <2>1, <2>2 DEF Abstract!OpenFails, Dir
  <1>3. CASE Cardinality(DOMAIN files) < MaxFiles /\ files' = Bind(files, n, <<>>) /\ UNCHANGED ret
    <2>1. Dir' = Bind(Dir, n, Id(n)) /\ Contents' = Bind(Contents, Id(n), <<>>) /\ UNCHANGED Open
      BY <1>1, <1>3, OneMore, SameTables
    <2>2. n \notin DOMAIN Dir /\ Cardinality(DOMAIN Dir) < MaxFiles
      BY <1>1, <1>3, Objects
    <2>3. Id(n) \in (Names \X (0 .. MaxDeletes))
      BY <1>1 DEF Id, VfsInv, Typed
    <2>4. Id(n) \notin DOMAIN Contents
      BY <1>1, Objects DEF Id
    <2>5. \A q \in Procs : \A fd \in DOMAIN Open[q] : Open[q][fd].id # Id(n)
      <3>1. ASSUME NEW q \in Procs, NEW fd \in DOMAIN Open[q] PROVE Open[q][fd].id # Id(n)
        <4>1. fd \in Fds /\ fd_table[q][fd].used /\ Open[q][fd].id = <<fd_table[q][fd].name, fd_table[q][fd].gen>>
          BY <3>1, OpenedAs
        <4>2. fd_table[q][fd].name # n
          BY <1>1, <4>1 DEF VfsInv, Current, Exists
        <4>3. QED
          BY <4>1, <4>2 DEF Id
      <3>2. QED
        BY <3>1
    <2>6. Id(n) \notin Abstract!InUse
      <3>1. Abstract!InUse = DOMAIN Contents \cup UNION {{Open[q][fd].id : fd \in DOMAIN Open[q]} : q \in Procs}
        BY DEF Abstract!InUse, Contents, Open
      <3>2. QED
        BY <2>4, <2>5, <3>1
    <2>7. \E id \in (Names \X (0 .. MaxDeletes)) \ Abstract!InUse :
            Dir' = Abstract!Bind(Dir, n, id) /\ Contents' = Abstract!Bind(Contents, id, <<>>)
      BY <2>1, <2>3, <2>6 DEF Bind, Abstract!Bind
    <2>8. QED
      BY <1>1, <1>3, <2>1, <2>2, <2>7, SameCardinality DEF Abstract!Make, Dir, Contents, Open
  <1>4. QED
    BY <1>1, <1>2, <1>3 DEF OpenCreate, Exists

LEMMA SlotIsOpen ==
  ASSUME Sheltered, VfsInv, NEW p \in Procs, OpenSlot(p), NEW n, n = opening[p].name
  PROVE  Abstract!Opens(p, n) \/ Abstract!OpenFails(p, n)
  <1> DEFINE free == {i \in Fds : ~fd_table[p][i].used}
             s == [used |-> TRUE, name |-> n, off |-> 0, gen |-> gen[n]]
  <1>1. /\ opening[p].at = "slot" /\ n \in Names /\ n \in DOMAIN files /\ UNCHANGED <<files, live, gen>>
        /\ fd_table[p] \in [Fds -> Slot]
    BY DEF OpenSlot, VfsInv, OpeningOk, Exists, Typed
  <1>2. free = Fds \ DOMAIN Open[p]
    BY Objects, TableIs
  <1>3. CASE free = {} /\ Returns(p, Num(-1)) /\ UNCHANGED fd_table
    <2>1. Abstract!Fails(p)
      BY <1>1, <1>3, Failing
    <2>2. DOMAIN Open[p] = Fds
      BY <1>2, <1>3, Objects, TableIs
    <2>3. QED
      BY <2>1, <2>2 DEF Abstract!OpenFails, Abstract!NoFd, Open, Abstract!Fds, Fds
  <1>4. CASE \E i \in free : /\ \A j \in free : i <= j
                             /\ fd_table' = [fd_table EXCEPT ![p][i] = s]
                             /\ Returns(p, Num(i))
    <2>1. PICK i \in free : /\ \A j \in free : i <= j
                            /\ fd_table' = [fd_table EXCEPT ![p][i] = s]
                            /\ Returns(p, Num(i))
      BY <1>4
    <2>2. s \in Slot /\ s.used /\ [id |-> <<s.name, s.gen>>, off |-> s.off] = [id |-> Dir[n], off |-> 0]
      BY <1>1, Objects DEF VfsInv, Typed, Slot, Id
    <2> HIDE DEF s
    <2>3. fd_table' = [fd_table EXCEPT ![p] = [fd_table[p] EXCEPT ![i] = s]]
      BY <2>1 DEF VfsInv, Typed
    <2>4. TableOf([fd_table[p] EXCEPT ![i] = s]) = Bind(TableOf(fd_table[p]), i, [id |-> Dir[n], off |-> 0])
      BY <1>1, <2>2, SlotTaken
    <2>5. Open' = [Open EXCEPT ![p] = Bind(Open[p], i, [id |-> Dir[n], off |-> 0])]
      BY <2>3, <2>4, OtherTable, Objects
    <2>6. UNCHANGED <<Dir, Contents>> /\ n \in DOMAIN Dir
      BY <1>1, SameFiles, Objects
    <2>7. \E fd \in Fds \ DOMAIN Open[p] :
            /\ \A j \in Fds \ DOMAIN Open[p] : fd <= j
            /\ Open' = [Open EXCEPT ![p] = Abstract!Bind(@, fd, [id |-> Dir[n], off |-> 0])]
            /\ Abstract!Returns(p, Abstract!Num(fd))
      BY <1>2, <2>1, <2>5 DEF Bind, Abstract!Bind, Returns, Abstract!Returns, Num, Abstract!Num
    <2>8. QED
      BY <1>1, <2>6, <2>7 DEF Abstract!Opens, Dir, Contents, Open, Abstract!Fds, Fds
  <1>5. QED
    BY <1>3, <1>4 DEF OpenSlot

-----------------------------------------------------------------------------
(* The calls with a descriptor. *)

LEMMA DescriptorIs ==
  ASSUME VfsInv, NEW p \in Procs, NEW fd \in Fds, Used(p, fd)
  PROVE  LET f == fd_table[p][fd] IN
         /\ p \in live /\ fd \in DOMAIN Open[p]
         /\ Open[p][fd].id = Id(f.name) /\ Open[p][fd].off = f.off
         /\ Contents[Id(f.name)] = files[f.name]
  <1> DEFINE f == fd_table[p][fd]
  <1>1. p \in live /\ f.used /\ f.gen = gen[f.name] /\ f.name \in DOMAIN files
    BY UsedIs
  <1>2. fd \in DOMAIN Open[p] /\ Open[p][fd] = [id |-> <<f.name, f.gen>>, off |-> f.off]
    BY <1>1, Objects, TableIs
  <1>3. QED
    BY <1>1, <1>2, Objects DEF Id

LEMMA CloseIsClose ==
  ASSUME VfsInv, NEW p \in Procs, NEW fd \in Fds, VfsClose(p, fd)
  PROVE  Abstract!Closes(p, fd)
  <1>1. /\ fd_table' = [fd_table EXCEPT ![p] = [fd_table[p] EXCEPT ![fd] = Free]] /\ fd_table[p] \in [Fds -> Slot]
        /\ UNCHANGED <<files, live, gen>> /\ Returns(p, Num(0))
    BY DEF VfsClose, VfsInv, Typed
  <1>2. Open' = [Open EXCEPT ![p] = Abstract!Drop(Open[p], fd)]
    BY <1>1, SlotFreed, OtherTable, Objects
  <1>3. UNCHANGED <<Dir, Contents>>
    BY <1>1, SameFiles
  <1>4. QED
    BY <1>1, <1>2, <1>3 DEF Abstract!Closes, Dir, Contents, Open, Abstract!Returns, Returns, Abstract!Num, Num

LEMMA ReadIsRead ==
  ASSUME VfsInv, NEW p \in Procs, NEW fd \in Fds, NEW k \in 1 .. 2, VfsRead(p, fd, k)
  PROVE  Abstract!Reads(p, fd, k)
  <1> DEFINE f == fd_table[p][fd]
             got == Part(files[f.name], f.off, k)
  <1>1. /\ Used(p, fd) /\ f.used /\ f.name \in DOMAIN files /\ UNCHANGED <<files, live, gen>>
        /\ Open[p][fd].id = Id(f.name) /\ Open[p][fd].off = f.off /\ Contents[Id(f.name)] = files[f.name]
    BY UsedIs, DescriptorIs DEF VfsRead
  <1>2. MovesTo(p, fd, f.off + Len(got)) /\ Returns(p, Data(got))
    BY <1>1 DEF VfsRead, Exists, VfsInv, Typed, MovesTo
  <1>3. Open' = [Open EXCEPT ![p][fd].off = f.off + Len(got)] /\ UNCHANGED <<Dir, Contents>>
    BY <1>1, <1>2, CursorMoved, SameFiles
  <1>4. got = Abstract!Part(Contents[Open[p][fd].id], Open[p][fd].off, k)
    BY <1>1 DEF Part, Abstract!Part
  <1> HIDE DEF got
  <1>5. Open' = [Open EXCEPT ![p][fd].off = Open[p][fd].off + Len(got)] /\ Abstract!Returns(p, Abstract!Data(got))
    BY <1>1, <1>2, <1>3 DEF Abstract!Returns, Returns, Data, Abstract!Data
  <1>6. QED
    BY <1>1, <1>3, <1>4, <1>5 DEF Abstract!Reads, Abstract!Moves, Dir, Contents, Open

LEMMA WriteIsWrite ==
  ASSUME VfsInv, NEW p \in Procs, NEW fd \in Fds, NEW b \in Seq(Byte), VfsWrite(p, fd, b)
  PROVE  Abstract!Writes(p, fd, b) \/ Abstract!WriteFails(p, fd, b)
  <1> DEFINE f == fd_table[p][fd]
             n == f.name
             new == Overlay(files[n], b, f.off)
  <1>1. /\ Used(p, fd) /\ f.used /\ n \in DOMAIN files /\ UNCHANGED <<live, gen>> /\ f.off \in Nat
        /\ Len(files[n]) \in Nat /\ Len(files[n]) <= MaxSize /\ Len(b) \in Nat
        /\ Open[p][fd].id = Id(n) /\ Open[p][fd].off = f.off /\ Contents[Id(n)] = files[n]
    BY UsedIs, DescriptorIs, LenProperties DEF VfsWrite
  <1>2. CASE WriteAtOk(n, b, f.off)
    <2>1. /\ files' = Bind(files, n, new) /\ fd_table' = [fd_table EXCEPT ![p][fd].off = f.off + Len(b)]
          /\ Returns(p, Num(Len(b)))
      BY <1>1, <1>2 DEF VfsWrite, Exists, Advanced
    <2>2. f.off <= Len(Contents[Open[p][fd].id])
      BY <1>1, <1>2 DEF WriteAtOk, Exists, Size
    <2>3. new = Abstract!Overlay(Contents[Open[p][fd].id], b, Open[p][fd].off)
      BY <1>1 DEF Overlay, Abstract!Overlay
    <2> HIDE DEF new
    <2>4. /\ DOMAIN files' = DOMAIN files /\ files'[n] = new
          /\ \A m \in DOMAIN files \ {n} : files'[m] = files[m]
      BY <1>1, <2>1 DEF Bind
    <2>5. Dir' = Dir /\ Contents' = [Contents EXCEPT ![Id(n)] = new]
      BY <1>1, <2>4, OtherBytes
    <2>6. Open' = [Open EXCEPT ![p][fd].off = f.off + Len(b)]
      <3>1. MovesTo(p, fd, f.off + Len(b))
        BY <2>1 DEF MovesTo
      <3>2. QED
        BY <1>1, <3>1, CursorMoved
    <2>7. /\ Contents' = [Contents EXCEPT ![Open[p][fd].id] = Abstract!Overlay(@, b, Open[p][fd].off)]
          /\ Open' = [Open EXCEPT ![p][fd].off = Open[p][fd].off + Len(b)]
          /\ Abstract!Returns(p, Abstract!Num(Len(b)))
      BY <1>1, <2>1, <2>3, <2>5, <2>6 DEF Returns, Abstract!Returns, Num, Abstract!Num
    <2>8. QED
      BY <1>1, <2>2, <2>5, <2>7 DEF Abstract!Writes, Abstract!Moves, Dir, Contents, Open
  <1>3. CASE ~WriteAtOk(n, b, f.off)
    <2>1. Returns(p, Num(-1)) /\ UNCHANGED <<files, fd_table>>
      BY <1>3 DEF VfsWrite
    <2>2. Abstract!Fails(p)
      BY <1>1, <2>1, Failing
    <2>3. Open[p][fd].off + Len(b) > Len(Contents[Open[p][fd].id])
      BY <1>1, <1>3, Given DEF WriteAtOk, Exists, Size
    <2>4. QED
      BY <2>2, <2>3 DEF Abstract!WriteFails, Contents, Open
  <1>4. QED
    BY <1>2, <1>3

LEMMA SeekIsSeek ==
  ASSUME VfsInv, NEW p \in Procs, NEW fd \in Fds, NEW whence \in {"SET", "CUR", "END"}, NEW d \in Offsets,
         VfsSeek(p, fd, whence, d)
  PROVE  Abstract!Seeks(p, fd, whence, d)
  <1> DEFINE f == fd_table[p][fd]
             pos == Base(f, whence) + d
             to == d + CASE whence = "SET" -> 0 [] whence = "CUR" -> Open[p][fd].off
                         [] whence = "END" -> Len(Contents[Open[p][fd].id])
  <1>1. /\ Used(p, fd) /\ f.used /\ f.name \in DOMAIN files /\ UNCHANGED <<files, live, gen>> /\ f.off \in Nat
        /\ Len(files[f.name]) \in Nat /\ d \in Int
        /\ Open[p][fd].id = Id(f.name) /\ Open[p][fd].off = f.off /\ Contents[Id(f.name)] = files[f.name]
    BY UsedIs, DescriptorIs, Given DEF VfsSeek
  <1>2. pos = to /\ pos \in Int /\ (SeekOk(f, whence, d) <=> pos >= 0)
    <2>1. Exists(f.name) /\ Size(f.name) = Len(files[f.name])
      BY <1>1 DEF Exists, Size
    <2>2. CASE whence = "SET"
      BY <1>1, <2>1, <2>2 DEF Base, SeekOk
    <2>3. CASE whence = "CUR"
      BY <1>1, <2>1, <2>3 DEF Base, SeekOk
    <2>4. CASE whence = "END"
      <3>1. Base(f, whence) = Len(files[f.name]) /\ to = d + Len(files[f.name])
        BY <1>1, <2>1, <2>4 DEF Base
      <3>2. QED
        BY <1>1, <2>1, <3>1 DEF SeekOk
    <2>5. QED
      BY <2>2, <2>3, <2>4
  <1> HIDE DEF pos
  <1>3. CASE SeekOk(f, whence, d)
    <2>1. MovesTo(p, fd, pos) /\ Returns(p, Num(pos))
      BY <1>3 DEF VfsSeek, pos, MovesTo
    <2>2. Open' = [Open EXCEPT ![p][fd].off = pos] /\ UNCHANGED <<Dir, Contents>>
      BY <1>1, <2>1, CursorMoved, SameFiles
    <2>3. ~(to < 0) /\ Open' = [Open EXCEPT ![p][fd].off = to] /\ Abstract!Returns(p, Abstract!Num(to))
      BY <1>2, <1>3, <2>1, <2>2 DEF Returns, Abstract!Returns, Num, Abstract!Num
    <2>4. QED
      BY <1>1, <2>2, <2>3 DEF Abstract!Seeks, Abstract!Moves, Dir, Contents, Open
  <1>4. CASE ~SeekOk(f, whence, d)
    <2>1. Returns(p, Num(-1)) /\ UNCHANGED fd_table
      BY <1>4 DEF VfsSeek
    <2>2. Abstract!Fails(p) /\ to < 0
      BY <1>1, <1>2, <1>4, <2>1, Failing
    <2>3. QED
      BY <2>2 DEF Abstract!Seeks, Contents, Open
  <1>5. QED
    BY <1>3, <1>4

-----------------------------------------------------------------------------
(* The calls with a path, and the processes. *)

LEMMA WriteIsReplace ==
  ASSUME NEW p \in Procs, NEW n \in Names, NEW b, FileWrite(p, n, b)
  PROVE  Abstract!Replaces(n, b)
  <1>1. /\ n \in DOMAIN files /\ files' = [files EXCEPT ![n] = b] /\ UNCHANGED <<fd_table, live, ret, gen>>
    BY DEF FileWrite, Exists
  <1>2. Dir' = Dir /\ Contents' = [Contents EXCEPT ![Id(n)] = b] /\ UNCHANGED Open
    BY <1>1, OtherBytes, SameTables
  <1>3. n \in DOMAIN Dir /\ Dir[n] = Id(n)
    BY <1>1, Objects
  <1>4. Contents' = [Contents EXCEPT ![Dir[n]] = b]
    BY <1>2, <1>3
  <1>5. QED
    BY <1>1, <1>2, <1>3, <1>4 DEF Abstract!Replaces, Dir, Contents, Open

LEMMA DeleteIsDelete ==
  ASSUME Sheltered, VfsInv, NEW p \in Procs, NEW n \in Names, FileDelete(p, n)
  PROVE  Abstract!Deletes(n)
  <1>1. /\ n \in DOMAIN files /\ ~InUse(n) /\ UNCHANGED <<fd_table, live, ret>>
        /\ files' = [m \in DOMAIN files \ {n} |-> files[m]] /\ gen' = [gen EXCEPT ![n] = @ + 1]
    BY DEF FileDelete, Exists, Sheltered
  <1>2. Dir' = Abstract!Drop(Dir, n) /\ Contents' = Abstract!Drop(Contents, Id(n)) /\ UNCHANGED Open
    BY <1>1, OneLess, SameTables DEF VfsInv
  <1>3. n \in DOMAIN Dir /\ Dir[n] = Id(n)
    BY <1>1, Objects
  <1>4. ~\E q \in Procs : \E fd \in DOMAIN Open[q] : Open[q][fd].id = Dir[n]
    <2>1. ASSUME NEW q \in Procs, NEW fd \in DOMAIN Open[q] PROVE Open[q][fd].id # Id(n)
      <3>2. fd \in Fds /\ fd_table[q][fd].used /\ Open[q][fd].id = <<fd_table[q][fd].name, fd_table[q][fd].gen>>
        BY <2>1, OpenedAs
      <3>4. fd_table[q][fd].name # n
        BY <1>1, <3>2, NotUsed
      <3>5. QED
        BY <3>2, <3>4 DEF Id
    <2>2. QED
      BY <1>3, <2>1
  <1>5. Contents' = IF \E q \in Procs : \E fd \in DOMAIN Open[q] : Open[q][fd].id = Dir[n]
                    THEN Contents ELSE Abstract!Drop(Contents, Dir[n])
    BY <1>2, <1>3, <1>4
  <1>6. QED
    BY <1>1, <1>2, <1>3, <1>5 DEF Abstract!Deletes, Dir, Contents, Open

LEMMA ForkIsFork ==
  ASSUME VfsInv, NEW p \in Procs, NEW c \in Procs, Fork(p, c)
  PROVE  Abstract!Forks(p, c)
  <1>1. /\ c \notin live /\ live' = live \cup {c} /\ fd_table' = [fd_table EXCEPT ![c] = fd_table[p]]
        /\ ret' = [ret EXCEPT ![c] = Num(0)] /\ UNCHANGED <<files, gen>>
    BY DEF Fork
  <1>2. Open' = [Open EXCEPT ![c] = Open[p]] /\ UNCHANGED <<Dir, Contents>>
    BY <1>1, OtherTable, Objects, SameFiles
  <1>3. QED
    BY <1>1, <1>2 DEF Abstract!Forks, Dir, Contents, Open, Num, Abstract!Num

LEMMA ReapIsEnd ==
  ASSUME VfsInv, NEW p \in Procs, Reap(p)
  PROVE  Abstract!Ends(p)
  <1>1. /\ live' = live \ {p} /\ fd_table' = [fd_table EXCEPT ![p] = Cleared] /\ Returns(p, Num(0))
        /\ UNCHANGED <<files, gen>>
    BY DEF Reap
  <1>2. TableOf(Cleared) = <<>>
    <2>1. {i \in Fds : Cleared[i].used} = {}
      BY FreeSlot DEF Cleared
    <2>2. QED
      BY <2>1 DEF TableOf
  <1>3. Open' = [Open EXCEPT ![p] = <<>>] /\ UNCHANGED <<Dir, Contents>>
    BY <1>1, <1>2, OtherTable, SameFiles
  <1>4. QED
    BY <1>1, <1>3 DEF Abstract!Ends, Dir, Contents, Open, Returns, Abstract!Returns, Num, Abstract!Num

-----------------------------------------------------------------------------
(* The refinement. *)

LEMMA InitImplements ==
  ASSUME Init
  PROVE  Abstract!Init
  <1>1. /\ files = <<>> /\ fd_table = [p \in Procs |-> Cleared] /\ live = {Launcher} /\ ret = [p \in Procs |-> Num(0)]
    BY DEF Init
  <1>2. Dir = <<>> /\ Contents = <<>>
    <2>1. DOMAIN files = {}
      BY <1>1
    <2>2. QED
      BY <2>1 DEF Dir, Contents
  <1>3. Open = [p \in Procs |-> <<>>]
    <2>1. \A p \in Procs : {i \in Fds : fd_table[p][i].used} = {}
      BY <1>1, FreeSlot DEF Cleared
    <2>2. \A p \in Procs : TableOf(fd_table[p]) = <<>>
      BY <2>1 DEF TableOf
    <2>3. QED
      BY <2>2, Objects
  <1>4. live \in {{p} : p \in Procs}
    BY <1>1, Given
  <1>5. QED
    BY <1>1, <1>2, <1>3, <1>4 DEF Abstract!Init, Dir, Contents, Open, Num, Abstract!Num

LEMMA StepImplements ==
  ASSUME Sheltered, VfsInv, [Next]_vars
  PROVE  [Abstract!Next]_<<Dir, Contents, Open, live, ret>>
  <1>1. ASSUME UNCHANGED <<files, fd_table, live, ret, gen>> PROVE UNCHANGED <<Dir, Contents, Open, live, ret>>
    BY <1>1, SameFiles, SameTables
  <1>2. ASSUME NEW p \in Procs, NEW n \in Names, NEW create \in BOOLEAN, VfsOpen(p, n, create)
        PROVE  UNCHANGED <<files, fd_table, live, ret, gen>> \/ Abstract!Next
    <2>1. CASE ~Exists(n) /\ Returns(p, Num(-1))
      <3>1. Abstract!Fails(p) /\ p \in live
        BY <1>2, <2>1, Failing DEF VfsOpen
      <3>2. n \notin DOMAIN Dir
        BY <2>1, Objects DEF Exists
      <3>3. Abstract!OpenFails(p, n)
        BY <3>1, <3>2 DEF Abstract!OpenFails, Dir
      <3>4. QED
        BY <3>1, <3>3 DEF Abstract!Next
    <2>2. QED
      BY <1>2, <2>1 DEF VfsOpen
  <1>3. ASSUME NEW p \in Procs, NEW n \in Names, Path(p, n)
        PROVE  UNCHANGED <<files, fd_table, live, ret, gen>> \/ Abstract!Next
    BY <1>2, <1>3, WriteIsReplace, DeleteIsDelete DEF Path, Abstract!Next
  <1>4. ASSUME NEW p \in Procs, NEW fd \in Fds, Descriptor(p, fd) PROVE Abstract!Next
    <2>1. Used(p, fd)
      BY <1>4 DEF Descriptor, VfsClose, VfsRead, VfsWrite, VfsSeek
    <2>2. p \in live /\ fd \in DOMAIN Open[p]
      BY <2>1, DescriptorIs
    <2>3. \/ Abstract!Closes(p, fd)
          \/ \E k \in 1 .. 2 : Abstract!Reads(p, fd, k)
          \/ \E b \in Buffers : Abstract!Writes(p, fd, b) \/ Abstract!WriteFails(p, fd, b)
          \/ \E d \in Offsets, whence \in {"SET", "CUR", "END"} : Abstract!Seeks(p, fd, whence, d)
      <3>1. \A b \in Buffers : b \in Seq(Byte)
        BY Given
      <3>2. QED
        BY <1>4, <3>1, CloseIsClose, ReadIsRead, WriteIsWrite, SeekIsSeek DEF Descriptor
    <2>4. QED
      BY <2>2, <2>3 DEF Abstract!Next, Open
  <1>5. ASSUME NEW p \in Procs, OpenCreate(p) \/ OpenSlot(p) PROVE Abstract!Next
    <2>1. PICK n \in Names : n = opening[p].name /\ p \in live
      BY <1>5 DEF VfsInv, OpeningOk, OpenCreate, OpenSlot
    <2>2. Abstract!Make(n) \/ Abstract!Opens(p, n) \/ Abstract!OpenFails(p, n)
      <3>1. CASE OpenCreate(p)
        BY <2>1, <3>1, CreateIsMake
      <3>2. CASE OpenSlot(p)
        BY <2>1, <3>2, SlotIsOpen
      <3>3. QED
        BY <1>5, <3>1, <3>2
    <2>3. CASE Abstract!Make(n)
      BY <2>3 DEF Abstract!Next
    <2>4. CASE Abstract!Opens(p, n) \/ Abstract!OpenFails(p, n)
      BY <2>1, <2>4 DEF Abstract!Next
    <2>5. QED
      BY <2>2, <2>3, <2>4
  <1>6. ASSUME NEW p \in Procs, Reap(p) \/ \E c \in Procs : Fork(p, c) PROVE Abstract!Next
    <2>1. p \in live
      BY <1>6 DEF Reap, Fork
    <2>2. QED
      BY <1>6, <2>1, ForkIsFork, ReapIsEnd DEF Abstract!Next
  <1>7. ASSUME NextProgram PROVE Abstract!Next
    <2>1. Returns(Launcher, Num(0)) /\ UNCHANGED <<files, fd_table, live, gen>>
      BY <1>7 DEF NextProgram
    <2>2. UNCHANGED <<Dir, Contents, Open>>
      BY <2>1, SameFiles, SameTables
    <2>3. Abstract!Restarts(Launcher)
      BY <2>1, <2>2 DEF Abstract!Restarts, Dir, Contents, Open, Returns, Abstract!Returns, Num, Abstract!Num
    <2>4. QED
      BY <2>3 DEF Abstract!Next, VfsInv, Typed
  <1>8. CASE UNCHANGED vars
    BY <1>1, <1>8 DEF vars
  <1>9. QED
    BY <1>1, <1>3, <1>4, <1>5, <1>6, <1>7, <1>8 DEF Next

(* While nobody deletes a file that is open and nobody comes into an open,   *)
(* what a program does through a descriptor happens to the file that was     *)
(* opened, at the descriptor's own cursor: in the process that opened it, in *)
(* its children, and across every close, fork, exit and delete of others.    *)
THEOREM DescriptorsAreFiles == ~DeleteOpen /\ Preempt = {} => (Spec => ImplementsOpenFiles)
  <1> SUFFICES ASSUME Sheltered PROVE Spec => ImplementsOpenFiles
    BY DEF Sheltered
  <1>1. Init => Abstract!Init
    BY InitImplements
  <1>2. VfsInv /\ [Next]_vars => [Abstract!Next]_<<Dir, Contents, Open, live, ret>>
    BY StepImplements
  <1>3. Spec => []VfsInv
    BY Invariance
  <1>4. QED
    BY <1>1, <1>2, <1>3, PTL DEF Spec, ImplementsOpenFiles, Abstract!Spec, Abstract!openVars, Dir, Contents, Open
=============================================================================
