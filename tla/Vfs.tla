--------------------------------- MODULE Vfs ---------------------------------
(***************************************************************************)
(* kernel/fs/vfs.c: the descriptor tables of the processes over the file   *)
(* system.  A descriptor keeps a name and a cursor; every call looks the   *)
(* file up by that name again.  The calls of fs.c that vfs.c makes are one *)
(* step each here (module StinkFS has their sectors); a descriptor table   *)
(* belongs to one process, so a vfs call is one step too, but for open:    *)
(* it looks for the file, creates it, and takes a slot.                    *)
(*                                                                         *)
(* gen counts the deletions of a name and a descriptor remembers the count *)
(* of its open: history, which no step reads.                              *)
(***************************************************************************)
EXTENDS Integers, Sequences, FiniteSets

CONSTANTS
  Procs, Launcher,   (* processes; the one that runs one program after another *)
  Names,
  FdMax,             (* VFS_FD_MAX                                             *)
  MaxFiles,          (* FS_MAX_FILES                                           *)
  Buffers,           (* what programs write                                    *)
  Offsets,           (* what they pass to seek                                 *)
  MaxSize,           (* room for a file; bound: no seek goes further           *)
  MaxDeletes,        (* bound: deletions of one name                           *)
  DeleteOpen,        (* does anybody delete a file that is open?               *)
  Preempt            (* {}, or {"open"}: between open's look and its create    *)

ASSUME VfsAssumption ==
  /\ Launcher \in Procs /\ FdMax \in Nat \ {0} /\ MaxFiles \in Nat
  /\ Offsets \subseteq Int /\ {MaxSize, MaxDeletes} \subseteq Nat
  /\ Buffers \subseteq Seq(0 .. 255)
  /\ DeleteOpen \in BOOLEAN /\ Preempt \subseteq {"open"}

VARIABLES
  files,     (* what is on the disk: name |-> bytes          *)
  fd_table,  (* per process and slot                         *)
  opening,   (* the vfs_open a process is in                 *)
  live,      (* processes that are not UNUSED                *)
  ret,       (* what the last call of each process returned  *)
  gen

vars == <<files, fd_table, opening, live, ret, gen>>

Fds == 0 .. FdMax - 1
Free == [used |-> FALSE, name |-> "", off |-> 0, gen |-> 0]
Cleared == [i \in Fds |-> Free]                       \* vfs_fd_table_clear()
Idle == [at |-> "idle", name |-> ""]
Num(k) == [num |-> k, data |-> <<>>]
Data(s) == [num |-> Len(s), data |-> s]
Bind(f, x, v) == [y \in DOMAIN f \cup {x} |-> IF y = x THEN v ELSE f[y]]
Part(s, o, k) == SubSeq(s, o + 1, IF o + k < Len(s) THEN o + k ELSE Len(s))

Exists(n) == n \in DOMAIN files
Size(n) == IF Exists(n) THEN Len(files[n]) ELSE -1   \* fs_file_size()
Used(p, fd) == p \in live /\ opening[p] = Idle /\ fd_table[p][fd].used

(* No other process is between the look and the create of an open. *)
Quiet(p) == "open" \in Preempt \/ \A q \in Procs \ {p} : opening[q].at # "create"

Returns(p, r) == ret' = [ret EXCEPT ![p] = r]
At(p, at, n) == opening' = [opening EXCEPT ![p] = [at |-> at, name |-> n]]

(* vfs_open(): look for the file. *)
VfsOpen(p, n, create) ==
  /\ p \in live /\ opening[p] = Idle /\ Quiet(p)
  /\ IF Exists(n) THEN At(p, "slot", n) /\ UNCHANGED ret
     ELSE IF create THEN At(p, "create", n) /\ UNCHANGED ret
     ELSE Returns(p, Num(-1)) /\ UNCHANGED opening
  /\ UNCHANGED <<files, fd_table, live, gen>>

(* fs_file_write() of nothing: an empty file, whatever the name had before;  *)
(* or there is no directory entry left.                                      *)
OpenCreate(p) ==
  LET n == opening[p].name IN
  /\ opening[p].at = "create"
  /\ IF Exists(n) \/ Cardinality(DOMAIN files) < MaxFiles
     THEN files' = Bind(files, n, <<>>) /\ At(p, "slot", n) /\ UNCHANGED ret
     ELSE Returns(p, Num(-1)) /\ At(p, "idle", "") /\ UNCHANGED files
  /\ UNCHANGED <<fd_table, live, gen>>

(* The first slot that is not used; the file stays if there is none. *)
OpenSlot(p) ==
  LET n == opening[p].name
      free == {i \in Fds : ~fd_table[p][i].used}
  IN
  /\ opening[p].at = "slot" /\ Quiet(p)
  /\ IF free = {} THEN Returns(p, Num(-1)) /\ UNCHANGED fd_table
     ELSE \E i \in free :
            /\ \A j \in free : i <= j
            /\ fd_table' = [fd_table EXCEPT ![p][i] =
                              [used |-> TRUE, name |-> n, off |-> 0, gen |-> gen[n]]]
            /\ Returns(p, Num(i))
  /\ At(p, "idle", "")
  /\ UNCHANGED <<files, live, gen>>

VfsClose(p, fd) ==
  /\ Used(p, fd) /\ Quiet(p)
  /\ fd_table' = [fd_table EXCEPT ![p][fd] = Free]
  /\ Returns(p, Num(0))
  /\ UNCHANGED <<files, opening, live, gen>>

(* vfs_read() of k bytes: fs_file_read_at(), and the cursor by what it read. *)
VfsRead(p, fd, k) ==
  LET f == fd_table[p][fd]
      got == Part(files[f.name], f.off, k)
  IN
  /\ Used(p, fd) /\ Quiet(p)
  /\ IF ~Exists(f.name) THEN Returns(p, Num(-1)) /\ UNCHANGED fd_table
     ELSE /\ fd_table' = [fd_table EXCEPT ![p][fd].off = @ + Len(got)]
          /\ Returns(p, Data(got))
  /\ UNCHANGED <<files, opening, live, gen>>

Overlay(old, b, o) == SubSeq(old, 1, o) \o b \o SubSeq(old, o + Len(b) + 1, Len(old))

(* fs_file_write_at(): a missing file is created by a write at 0, no write   *)
(* starts behind the end, and a file that has to grow may not find the room. *)
WriteAtOk(n, b, o) ==
  IF Exists(n) THEN o <= Size(n) /\ o + Len(b) <= MaxSize
  ELSE o = 0 /\ Cardinality(DOMAIN files) < MaxFiles

(* Mutant: the cursor stays where it was. *)
AdvancedNot(f, b) == f.off
Advanced(f, b) == f.off + Len(b)

VfsWrite(p, fd, b) ==
  LET f == fd_table[p][fd] IN
  /\ Used(p, fd) /\ Quiet(p)
  /\ IF WriteAtOk(f.name, b, f.off)
     THEN /\ files' = Bind(files, f.name,
                            IF Exists(f.name) THEN Overlay(files[f.name], b, f.off) ELSE b)
          /\ fd_table' = [fd_table EXCEPT ![p][fd].off = Advanced(f, b)]
          /\ Returns(p, Num(Len(b)))
     ELSE Returns(p, Num(-1)) /\ UNCHANGED <<files, fd_table>>
  /\ UNCHANGED <<opening, live, gen>>

Base(f, whence) == CASE whence = "SET" -> 0 [] whence = "CUR" -> f.off
                     [] whence = "END" -> Size(f.name)

SeekOk(f, whence, d) == ~(whence = "END" /\ ~Exists(f.name)) /\ Base(f, whence) + d >= 0

VfsSeek(p, fd, whence, d) ==
  LET f == fd_table[p][fd]
      pos == Base(f, whence) + d
  IN
  /\ Used(p, fd) /\ Quiet(p) /\ pos <= MaxSize
  /\ IF SeekOk(f, whence, d)
     THEN fd_table' = [fd_table EXCEPT ![p][fd].off = pos] /\ Returns(p, Num(pos))
     ELSE Returns(p, Num(-1)) /\ UNCHANGED fd_table
  /\ UNCHANGED <<files, opening, live, gen>>

(* The calls by path: fs_file_write() of an existing file, fs_file_delete(). *)
FileWrite(p, n, b) ==
  /\ p \in live /\ opening[p] = Idle /\ Quiet(p)
  /\ Exists(n) /\ Len(b) <= MaxSize
  /\ files' = [files EXCEPT ![n] = b]
  /\ UNCHANGED <<fd_table, opening, live, ret, gen>>

InUse(n) ==
  \E q \in live : opening[q].name = n \/ \E fd \in Fds : fd_table[q][fd].used /\ fd_table[q][fd].name = n

FileDelete(p, n) ==
  /\ p \in live /\ opening[p] = Idle /\ Quiet(p)
  /\ Exists(n) /\ gen[n] < MaxDeletes /\ (DeleteOpen \/ ~InUse(n))
  /\ files' = [m \in DOMAIN files \ {n} |-> files[m]]
  /\ gen' = [gen EXCEPT ![n] = @ + 1]
  /\ UNCHANGED <<fd_table, opening, live, ret>>

(* SYS_FORK: the child gets the table as it is. *)
Fork(p, c) ==
  /\ p \in live /\ opening[p] = Idle /\ Quiet(p) /\ c \notin live
  /\ live' = live \cup {c}
  /\ fd_table' = [fd_table EXCEPT ![c] = fd_table[p]]
  /\ ret' = [ret EXCEPT ![c] = Num(0)]
  /\ UNCHANGED <<files, opening, gen>>

(* A process ends or is killed and is collected: zero_proc() clears its PCB. *)
Reap(p) ==
  /\ p \in live /\ p # Launcher /\ Quiet(p)
  /\ live' = live \ {p}
  /\ fd_table' = [fd_table EXCEPT ![p] = Cleared]
  /\ At(p, "idle", "")
  /\ Returns(p, Num(0))
  /\ UNCHANGED <<files, gen>>

(* The menu's program ends and the next one starts in the same process. *)
NextProgram ==
  /\ opening[Launcher] = Idle /\ Quiet(Launcher)
  /\ Returns(Launcher, Num(0))
  /\ UNCHANGED <<files, fd_table, opening, live, gen>>

Init ==
  /\ files = <<>>
  /\ fd_table = [p \in Procs |-> Cleared]
  /\ opening = [p \in Procs |-> Idle]
  /\ live = {Launcher}
  /\ ret = [p \in Procs |-> Num(0)]
  /\ gen = [n \in Names |-> 0]

Descriptor(p, fd) ==
  \/ VfsClose(p, fd)
  \/ \E k \in 1 .. 2 : VfsRead(p, fd, k)
  \/ \E b \in Buffers : VfsWrite(p, fd, b)
  \/ \E whence \in {"SET", "CUR", "END"}, d \in Offsets : VfsSeek(p, fd, whence, d)

Path(p, n) ==
  \/ \E create \in BOOLEAN : VfsOpen(p, n, create)
  \/ \E b \in Buffers : FileWrite(p, n, b)
  \/ FileDelete(p, n)

Next ==
  \/ \E p \in Procs :
       \/ \E n \in Names : Path(p, n)
       \/ \E fd \in Fds : Descriptor(p, fd)
       \/ OpenCreate(p) \/ OpenSlot(p) \/ Reap(p)
       \/ \E c \in Procs : Fork(p, c)
  \/ NextProgram

Spec == Init /\ [][Next]_vars

-----------------------------------------------------------------------------
(* Properties. *)

(* The files as objects: one for each name and generation. *)
Id(n) == <<n, gen[n]>>
Abstract ==
  INSTANCE OpenFiles WITH
    Ids <- Names \X (0 .. MaxDeletes),
    dir <- [n \in DOMAIN files |-> Id(n)],
    contents <- [id \in {Id(n) : n \in DOMAIN files} |-> files[id[1]]],
    open <- [p \in Procs |-> [fd \in {i \in Fds : fd_table[p][i].used} |->
               [id |-> <<fd_table[p][fd].name, fd_table[p][fd].gen>>, off |-> fd_table[p][fd].off]]]

(* As long as nobody deletes a file that is open, the name in a descriptor   *)
(* does for the file: reads, writes and seeks through it, in the process     *)
(* that opened it and in its children, act on that file at its own cursor,   *)
(* and opening a file changes none.                                          *)
ImplementsOpenFiles == Abstract!Spec

(* vfs_open() with O_CREATE changes no file that is there. *)
OpenKeepsData ==
  [][\A p \in Procs : OpenCreate(p) => ~Exists(opening[p].name)]_vars

(* A program starts without open descriptors. *)
FreshTable == [][NextProgram => fd_table[Launcher] = Cleared]_vars
=============================================================================
