------------------------------ MODULE StinkFS -------------------------------
(***************************************************************************)
(* StinkFS (src/kernel/fs/fs.c): one mount, its directory in memory and on *)
(* disk, its data sectors, and the calls that change them, one transfer of *)
(* a sector per step.  Every file is one run of sectors; runs are taken at *)
(* next_free, and a delete slides what lies behind its file down.          *)
(*                                                                         *)
(* Sectors are numbered from data_lba.  Between two transfers the machine  *)
(* may stop ("crash"), a transfer may fail ("io"), and another process may *)
(* enter the file system, which nothing locks (Preemptible).               *)
(***************************************************************************)
EXTENDS Integers, Sequences, FiniteSets, FiniteSetsExt

CONSTANTS
  Procs, Names,
  Buffers,       (* Buffers[n]: what is written to file n *)
  Ops,           (* the calls that are made *)
  SectorSize,    (* 512 *)
  DataEnd,       (* data_end - data_lba *)
  MaxFiles,      (* FS_MAX_FILES *)
  FirstEntries,  (* entries that lie in the directory's first sector *)
  MaxSize,       (* bound on the size of a file, and on the offset and *)
                 (* the length of a read or a write_at *)
  Faults,        (* which of "io" and "crash" may happen, *)
  MaxUnsafe,     (* bound on the calls that fail between two that succeed *)
  DeleteFaults,  (* and whether during a delete, too *)
  Preemptible,   (* calls another process's call may come in between *)
  Deletable,     (* the files that programs delete, *)
  Readable,      (* those they read, *)
  Growing        (* and those they append to and write into *)

NoName == "none"

ASSUME SizesAssumption ==
  /\ SectorSize \in Nat \ {0} /\ DataEnd \in Nat /\ MaxFiles \in Nat \ {0}
  /\ FirstEntries \in 0 .. MaxFiles /\ MaxSize \in Nat /\ MaxUnsafe \in Nat
  /\ Procs # {} /\ NoName \notin Names /\ Faults \subseteq {"io", "crash"}
  /\ DeleteFaults \in BOOLEAN /\ Preemptible \subseteq Ops
  /\ Deletable \subseteq Names /\ Readable \subseteq Names /\ Growing \subseteq Names
  /\ \A n \in Names : Buffers[n] \subseteq Seq(0 .. 255)

VARIABLES
  disk,    (* the data sectors *)
  ondisk,  (* the directory's sectors *)
  dir,     (* dir_buf *)
  io_buf,
  calls,   (* what each process's call is about to do *)
  ret,     (* what the last call returned *)
  seen,    (* history: the files as they were when no call was changing one *)
  unsafe   (* history: files a failed call has left unsaved *)

vars == <<disk, ondisk, dir, io_buf, calls, ret, seen, unsafe>>

Sectors == 0 .. DataEnd - 1
Offsets == 0 .. SectorSize - 1
Blank == [k \in Offsets |-> 0]

NoEntry == [name |-> NoName, start |-> 0, size |-> 0]
Entries == 1 .. MaxFiles

Idle == [op |-> "none", pc |-> "idle", n |-> NoName, i |-> 0, buf |-> <<>>,
         pos |-> 0, left |-> 0, new |-> 0, start |-> 0, to |-> 0, s |-> 0, cnt |-> 0]

Failed == [ok |-> FALSE, data |-> <<>>]
Done(data) == [ok |-> TRUE, data |-> data]

need_sectors(size) == (size + SectorSize - 1) \div SectorSize

(* stinkfs_find(): 0 stands for -1. *)
Find(n) ==
  LET found == {i \in 1 .. dir.count : dir.files[i].name = n} IN
  IF found = {} THEN 0 ELSE Min(found)

(* The run of an empty file may have slid below data_lba; a delete of the    *)
(* file reads and rewrites what is there.                                    *)
Sector(s) == IF s \in Sectors THEN disk[s] ELSE Blank

Changing(p) == calls[p].pc \notin {"idle", "read"}

-----------------------------------------------------------------------------
(* The state between two transfers. *)

May(p) == \A q \in Procs \ {p} : calls[q].pc = "idle" \/ calls[q].op \in Preemptible
Calls(p, op) == op \in Ops /\ calls[p].pc = "idle" /\ May(p)
At(p, pc) == calls[p].pc = pc

Return(p, result) ==
  /\ calls' = [calls EXCEPT ![p] = Idle]
  /\ ret' = result

Goto(p, c) ==
  /\ calls' = [calls EXCEPT ![p] = c]
  /\ UNCHANGED <<ret, unsafe>>

(* A call that does without the disk. *)
Answer(p, result) == Return(p, result) /\ UNCHANGED <<disk, ondisk, io_buf, unsafe>>

(* ata_drive_read() and ata_drive_write() of one sector through io_buf. *)
Transfer(s, d) ==
  /\ disk' = [x \in Sectors |-> IF x = s THEN d ELSE disk[x]]
  /\ UNCHANGED <<ondisk, io_buf>>

Load(d) == io_buf' = d /\ UNCHANGED <<disk, ondisk>>

-----------------------------------------------------------------------------
(* Writing a whole file. *)

Chunk(n) == Min({n, SectorSize})

Writing(p, op, n, b, i, start) ==
  Goto(p, [Idle EXCEPT !.op = op, !.pc = IF b = <<>> THEN "save" ELSE "fill",
                       !.n = n, !.i = i, !.buf = b, !.s = start])

(* stinkfs_file_write(), up to its first transfer. *)
FileWrite(p, op, n, b) ==
  LET i == Find(n)
      need == need_sectors(Len(b))
      inPlace == i # 0 /\ need <= need_sectors(dir.files[i].size)
      room == dir.next_free + need <= DataEnd
  IN
  \/ /\ inPlace
     /\ dir' = [dir EXCEPT !.files[i].size = Len(b)]
     /\ Writing(p, op, n, b, i, dir.files[i].start)
     /\ UNCHANGED <<disk, ondisk, io_buf>>
  \/ /\ ~inPlace /\ room /\ (i # 0 \/ dir.count < MaxFiles)
     /\ LET k == IF i = 0 THEN dir.count + 1 ELSE i IN
        /\ dir' = [dir EXCEPT !.count = Max({@, k}), !.next_free = @ + need,
             !.files[k] = [name |-> n, start |-> dir.next_free, size |-> Len(b)]]
        /\ Writing(p, op, n, b, k, dir.next_free)
     /\ UNCHANGED <<disk, ondisk, io_buf>>
  (* The directory is full: the sectors stay taken. *)
  \/ /\ ~inPlace /\ room /\ i = 0 /\ dir.count >= MaxFiles
     /\ dir' = [dir EXCEPT !.next_free = @ + need]
     /\ Answer(p, Failed)
  \/ /\ ~inPlace /\ ~room
     /\ Answer(p, Failed) /\ UNCHANGED dir

SysWrite(p, n, b) == Calls(p, "write") /\ FileWrite(p, "write", n, b)

Fill(p) ==
  LET c == calls[p] IN
  /\ At(p, "fill") /\ May(p)
  /\ Load([k \in Offsets |-> IF k < Len(c.buf) THEN c.buf[k + 1] ELSE 0])
  /\ Goto(p, [c EXCEPT !.pc = "out"])
  /\ UNCHANGED dir

(* Mutant: the directory is not saved behind the data. *)
OutUnsaved(p) ==
  LET c == calls[p]
      rest == SubSeq(c.buf, SectorSize + 1, Len(c.buf))
  IN
  /\ At(p, "out") /\ May(p)
  /\ Transfer(c.s, io_buf)
  /\ IF rest = <<>>
     THEN Return(p, Done(<<>>)) /\ unsafe' = {}
     ELSE Goto(p, [c EXCEPT !.buf = rest, !.s = @ + 1, !.pc = "fill"])
  /\ UNCHANGED dir

Out(p) ==
  LET c == calls[p]
      rest == SubSeq(c.buf, SectorSize + 1, Len(c.buf))
  IN
  /\ At(p, "out") /\ May(p)
  /\ Transfer(c.s, io_buf)
  /\ Goto(p, [c EXCEPT !.buf = rest, !.s = @ + 1, !.pc = IF rest = <<>> THEN "save" ELSE "fill"])
  /\ UNCHANGED dir

-----------------------------------------------------------------------------
(* stinkfs_dir_save(): the sectors of the directory go out in order. *)

FirstSaved == [dir EXCEPT !.files = [k \in Entries |-> IF k <= FirstEntries THEN dir.files[k] ELSE ondisk.files[k]]]

SaveFirst(p) ==
  /\ At(p, "save") /\ May(p)
  /\ ondisk' = FirstSaved
  /\ Goto(p, [calls[p] EXCEPT !.pc = "save_rest"])
  /\ UNCHANGED <<disk, dir, io_buf>>

SaveRest(p) ==
  /\ At(p, "save_rest") /\ May(p)
  /\ ondisk' = dir
  /\ Return(p, Done(<<>>)) /\ unsafe' = {}
  /\ UNCHANGED <<disk, dir, io_buf>>

-----------------------------------------------------------------------------
(* Writing into a file. *)

(* stinkfs_grow() has made room in d; write_at sets the size before the data. *)
Grown(p, c, d) ==
  /\ dir' = IF c.op = "write_at" THEN [d EXCEPT !.files[c.i].size = c.new] ELSE d
  /\ Goto(p, [c EXCEPT !.pc = "get", !.start = d.files[c.i].start])

(* stinkfs_grow(), up to its first transfer. *)
Grow(p, c) ==
  LET f == dir.files[c.i]
      old == need_sectors(f.size)
      new == need_sectors(c.new)
      last == f.start + old = dir.next_free
      room == IF last THEN f.start + new <= DataEnd ELSE dir.next_free + new <= DataEnd
      moved == [dir EXCEPT !.next_free = @ + new, !.files[c.i].start = dir.next_free]
  IN
  \/ new <= old /\ Grown(p, c, dir) /\ UNCHANGED <<disk, ondisk, io_buf>>
  \/ /\ new > old /\ last /\ room
     /\ Grown(p, c, [dir EXCEPT !.next_free = f.start + new])
     /\ UNCHANGED <<disk, ondisk, io_buf>>
  \/ new > old /\ ~last /\ room /\ old = 0 /\ Grown(p, c, moved) /\ UNCHANGED <<disk, ondisk, io_buf>>
  \/ /\ new > old /\ ~last /\ room /\ old > 0
     /\ Goto(p, [c EXCEPT !.pc = "copy_in", !.start = f.start, !.to = dir.next_free, !.cnt = old])
     /\ UNCHANGED <<dir, disk, ondisk, io_buf>>
  \/ new > old /\ ~room /\ Answer(p, Failed) /\ UNCHANGED dir

CopyIn(p) ==
  LET c == calls[p] IN
  /\ At(p, "copy_in") /\ May(p)
  /\ Load(Sector(c.start + c.s))
  /\ Goto(p, [c EXCEPT !.pc = "copy_out"])
  /\ UNCHANGED dir

CopyOut(p) ==
  LET c == calls[p] IN
  /\ At(p, "copy_out") /\ May(p)
  /\ Transfer(c.to + c.s, io_buf)
  /\ IF c.s + 1 < c.cnt
     THEN Goto(p, [c EXCEPT !.pc = "copy_in", !.s = @ + 1]) /\ UNCHANGED dir
     ELSE Grown(p, [c EXCEPT !.to = 0, !.s = 0, !.cnt = 0],
                [dir EXCEPT !.next_free = @ + need_sectors(c.new), !.files[c.i].start = c.to])

(* Mutant: the rest of the sector is not read back. *)
PutBlank(p) ==
  LET c == calls[p]
      off == c.pos % SectorSize
  IN
  /\ At(p, "get") /\ May(p)
  /\ Load([k \in Offsets |-> IF off <= k /\ k - off < Len(c.buf) THEN c.buf[k - off + 1] ELSE 0])
  /\ Goto(p, [c EXCEPT !.pc = "put"])
  /\ UNCHANGED dir

(* stinkfs_put(): each sector is read, changed and written. *)
Put(p) ==
  LET c == calls[p]
      off == c.pos % SectorSize
      read == Sector(c.start + (c.pos \div SectorSize))
  IN
  /\ At(p, "get") /\ May(p)
  /\ Load([k \in Offsets |-> IF off <= k /\ k - off < Len(c.buf) THEN c.buf[k - off + 1] ELSE read[k]])
  /\ Goto(p, [c EXCEPT !.pc = "put"])
  /\ UNCHANGED dir

PutOut(p) ==
  LET c == calls[p]
      n == Min({SectorSize - (c.pos % SectorSize), Len(c.buf)})
      rest == SubSeq(c.buf, n + 1, Len(c.buf))
  IN
  /\ At(p, "put") /\ May(p)
  /\ Transfer(c.start + (c.pos \div SectorSize), io_buf)
  /\ Goto(p, [c EXCEPT !.pos = @ + n, !.buf = rest, !.pc = IF rest = <<>> THEN "save" ELSE "get"])
  /\ dir' = IF rest = <<>> /\ c.op = "append" THEN [dir EXCEPT !.files[c.i].size = c.new] ELSE dir

(* stinkfs_file_append() *)
SysAppend(p, n, b) ==
  LET i == Find(n)
      size == dir.files[i].size
  IN
  /\ Calls(p, "append")
  /\ \/ i = 0 /\ FileWrite(p, "append", n, b)
     \/ i # 0 /\ b = <<>> /\ Answer(p, Done(<<>>)) /\ UNCHANGED dir
     \/ /\ i # 0 /\ b # <<>> /\ size + Len(b) <= MaxSize
        /\ Grow(p, [Idle EXCEPT !.op = "append", !.n = n, !.i = i, !.buf = b,
                                !.pos = size, !.new = size + Len(b)])

(* stinkfs_file_write_at() *)
SysWriteAt(p, n, b, o) ==
  LET i == Find(n)
      size == dir.files[i].size
      c == [Idle EXCEPT !.op = "write_at", !.n = n, !.i = i, !.buf = b, !.pos = o, !.new = o + Len(b)]
  IN
  /\ Calls(p, "write_at")
  /\ \/ b = <<>> /\ Answer(p, Done(<<>>)) /\ UNCHANGED dir
     \/ b # <<>> /\ i = 0 /\ o = 0 /\ FileWrite(p, "write_at", n, b)
     \/ b # <<>> /\ i = 0 /\ o # 0 /\ Answer(p, Failed) /\ UNCHANGED dir
     \/ b # <<>> /\ i # 0 /\ o > size /\ Answer(p, Failed) /\ UNCHANGED dir
     \/ /\ b # <<>> /\ i # 0 /\ o <= size /\ o + Len(b) > size /\ o + Len(b) <= MaxSize
        /\ Grow(p, c)
     \/ /\ b # <<>> /\ i # 0 /\ o <= size /\ o + Len(b) <= size
        /\ Goto(p, [c EXCEPT !.pc = "get", !.start = dir.files[i].start])
        /\ UNCHANGED <<dir, disk, ondisk, io_buf>>

-----------------------------------------------------------------------------
(* stinkfs_file_delete(): what lies behind the file slides down over it. *)

(* Mutants: the files that slid keep their old starts; next_free goes down   *)
(* with every file that slid.                                                *)
SlidKeepsStarts(i, hole, freed) ==
  [dir EXCEPT !.count = @ - 1, !.next_free = @ - freed,
              !.files = [k \in Entries |-> dir.files[IF i <= k /\ k < dir.count THEN k + 1 ELSE k]]]

SlidEach(i, hole, freed) ==
  LET later == {k \in 1 .. dir.count : dir.files[k].start > hole}
      moved(f) == IF f.start > hole THEN [f EXCEPT !.start = @ - freed] ELSE f
  IN [dir EXCEPT !.count = @ - 1, !.next_free = @ - freed * (1 + Cardinality(later)),
                 !.files = [k \in Entries |-> moved(dir.files[IF i <= k /\ k < dir.count THEN k + 1 ELSE k])]]

Slid(i, hole, freed) ==
  LET moved(f) == IF f.start > hole THEN [f EXCEPT !.start = @ - freed] ELSE f
      used(k) == IF k <= dir.count THEN moved(dir.files[k]) ELSE dir.files[k]
  IN [dir EXCEPT !.count = @ - 1, !.next_free = @ - freed,
                 !.files = [k \in Entries |-> IF i <= k /\ k < dir.count THEN used(k + 1) ELSE used(k)]]

SysDelete(p, n) ==
  LET i == Find(n)
      f == dir.files[i]
      freed == need_sectors(f.size)
      c == [Idle EXCEPT !.op = "delete", !.n = n, !.i = i, !.start = f.start, !.cnt = freed,
                        !.s = f.start + freed]
  IN
  /\ Calls(p, "delete")
  /\ \/ i = 0 /\ Answer(p, Failed) /\ UNCHANGED dir
     \/ /\ i # 0
        /\ IF f.start + freed < dir.next_free
           THEN Goto(p, [c EXCEPT !.pc = "slide_in"]) /\ UNCHANGED dir
           ELSE Goto(p, [c EXCEPT !.pc = "save"]) /\ dir' = Slid(i, f.start, freed)
        /\ UNCHANGED <<disk, ondisk, io_buf>>

SlideIn(p) ==
  LET c == calls[p] IN
  /\ At(p, "slide_in") /\ May(p)
  /\ Load(Sector(c.s))
  /\ Goto(p, [c EXCEPT !.pc = "slide_out"])
  /\ UNCHANGED dir

SlideOut(p) ==
  LET c == calls[p] IN
  /\ At(p, "slide_out") /\ May(p)
  /\ Transfer(c.s - c.cnt, io_buf)
  /\ IF c.s + 1 < dir.next_free
     THEN Goto(p, [c EXCEPT !.pc = "slide_in", !.s = @ + 1]) /\ UNCHANGED dir
     ELSE Goto(p, [c EXCEPT !.pc = "save"]) /\ dir' = Slid(c.i, c.start, c.cnt)

-----------------------------------------------------------------------------
(* stinkfs_file_read_at() *)
SysRead(p, n, o, len) ==
  LET i == Find(n)
      size == dir.files[i].size
  IN
  /\ Calls(p, "read")
  /\ \/ i = 0 /\ Answer(p, Failed)
     \/ i # 0 /\ (o >= size \/ len = 0) /\ Answer(p, Done(<<>>))
     \/ /\ i # 0 /\ o < size /\ len > 0
        /\ Goto(p, [Idle EXCEPT !.op = "read", !.pc = "read", !.n = n, !.i = i,
                                !.pos = o, !.left = Min({size - o, len})])
        /\ UNCHANGED <<disk, ondisk, io_buf>>
  /\ UNCHANGED dir

ReadSector(p) ==
  LET c == calls[p]
      off == c.pos % SectorSize
      n == Min({SectorSize - off, c.left})
      sec == Sector(dir.files[c.i].start + (c.pos \div SectorSize))
      data == c.buf \o [k \in 1 .. n |-> sec[off + k - 1]]
  IN
  /\ At(p, "read") /\ May(p)
  /\ Load(sec)
  /\ IF n < c.left
     THEN Goto(p, [c EXCEPT !.buf = data, !.pos = @ + n, !.left = @ - n])
     ELSE Return(p, Done(data)) /\ UNCHANGED unsafe
  /\ UNCHANGED dir

-----------------------------------------------------------------------------
(* Failures. *)

MayFail(p) == calls[p].op = "delete" => DeleteFaults

(* A transfer of p fails; a write may have reached the disk all the same. *)
IOFails(p) ==
  LET c == calls[p]
      to == CASE c.pc = "out" -> c.s
              [] c.pc = "put" -> c.start + (c.pos \div SectorSize)
              [] c.pc = "copy_out" -> c.to + c.s
              [] c.pc = "slide_out" -> c.s - c.cnt
              [] OTHER -> DataEnd
  IN
  /\ "io" \in Faults /\ (Changing(p) => Cardinality(unsafe) < MaxUnsafe)
  /\ c.pc \notin {"idle", "fill"} /\ MayFail(p) /\ May(p)
  /\ \/ UNCHANGED <<disk, ondisk>>
     \/ to \in Sectors /\ disk' = [disk EXCEPT ![to] = io_buf] /\ UNCHANGED ondisk
     \/ c.pc = "save" /\ ondisk' = FirstSaved /\ UNCHANGED disk
     \/ c.pc = "save_rest" /\ ondisk' = dir /\ UNCHANGED disk
  /\ Return(p, Failed)
  /\ unsafe' = IF Changing(p) THEN unsafe \cup {c.n} ELSE unsafe
  /\ UNCHANGED <<dir, io_buf>>

(* Mutant: the next free sector is not taken from the disk. *)
LoadedRewinds == [ondisk EXCEPT !.magic = TRUE, !.count = IF ondisk.magic THEN @ ELSE 0, !.next_free = 0]

(* stinkfs_dir_load(): without the magic number the directory is empty. *)
Loaded == IF ondisk.magic THEN ondisk ELSE [ondisk EXCEPT !.magic = TRUE, !.count = 0, !.next_free = 0]

(* The machine stops and is started again: fs_init(). *)
Crash ==
  /\ "crash" \in Faults /\ \A p \in Procs : MayFail(p)
  /\ dir' = Loaded
  /\ io_buf' = Blank
  /\ calls' = [p \in Procs |-> Idle]
  /\ ret' = Failed /\ unsafe' = {}
  /\ UNCHANGED <<disk, ondisk>>

-----------------------------------------------------------------------------
(* What the directory says of each file, and the sectors of its run. *)
Content(i) ==
  [b \in 1 .. dir.files[i].size |->
     Sector(dir.files[i].start + ((b - 1) \div SectorSize))[(b - 1) % SectorSize]]

View == [n \in {dir.files[i].name : i \in 1 .. dir.count} \cap Names |-> Content(Find(n))]

Busy == \E p \in Procs : Changing(p)

Init ==
  /\ disk = [s \in Sectors |-> Blank]
  /\ ondisk = [magic |-> FALSE, count |-> 0, next_free |-> 0, files |-> [k \in Entries |-> NoEntry]]
  /\ dir = Loaded
  /\ io_buf = Blank
  /\ calls = [p \in Procs |-> Idle]
  /\ ret = Failed
  /\ seen = View
  /\ unsafe = {}

UserStep(p) ==
  \E n \in Names :
    \/ n \in Deletable /\ SysDelete(p, n)
    \/ \E b \in Buffers[n] :
         \/ SysWrite(p, n, b)
         \/ n \in Growing /\ (SysAppend(p, n, b) \/ \E o \in 0 .. MaxSize : SysWriteAt(p, n, b, o))
    \/ n \in Readable /\ \E o, len \in 0 .. MaxSize : SysRead(p, n, o, len)

KernelStep(p) ==
  \/ Fill(p) \/ Out(p) \/ SaveFirst(p) \/ SaveRest(p) \/ CopyIn(p) \/ CopyOut(p)
  \/ Put(p) \/ PutOut(p) \/ SlideIn(p) \/ SlideOut(p) \/ ReadSector(p)

Step == (\E p \in Procs : UserStep(p) \/ KernelStep(p) \/ IOFails(p)) \/ Crash

Next == Step /\ seen' = IF Busy' THEN seen ELSE View'

Spec == Init /\ [][Next]_vars

-----------------------------------------------------------------------------
AnyName == Names \cup {NoName}

TypeOK ==
  /\ dir.count \in 0 .. MaxFiles /\ dir.next_free \in 0 .. DataEnd
  /\ \A k \in Entries : dir.files[k].name \in AnyName /\ dir.files[k].size \in Nat
  /\ ondisk.next_free \in 0 .. DataEnd /\ ondisk.count \in 0 .. MaxFiles
  /\ unsafe \subseteq Names
  /\ \A p \in Procs : calls[p].n \in AnyName /\ calls[p].i \in 0 .. MaxFiles

Run(d, k) == d.files[k].start .. d.files[k].start + need_sectors(d.files[k].size) - 1

(* Two files never share a sector, every run ends below next_free, and no    *)
(* name is listed twice: in memory, and on disk for the next start.          *)
Sound(d) ==
  \A j \in 1 .. d.count :
    /\ Run(d, j) \subseteq 0 .. d.next_free - 1
    /\ \A k \in 1 .. d.count \ {j} :
         /\ Run(d, j) \cap Run(d, k) = {}
         /\ d.files[j].name = d.files[k].name => d.files[j].name = NoName

DirSound == Sound(dir) /\ (ondisk.magic => Sound(ondisk))

(* The file that a call is changing, and what is written to any file. *)
Current == IF Busy THEN calls[CHOOSE p \in Procs : Changing(p)].n ELSE NoName
AllBuffers == UNION {Buffers[n] : n \in Names}

Promise == INSTANCE Files WITH
  files <- seen,
  busy <- Current,
  Buffers <- AllBuffers,
  MaxOffset <- MaxSize

(* fs.h: every call does to the file it names what it says, or fails, and    *)
(* nothing to another; disk errors and crashes hurt only the file a call was *)
(* changing and those whose last change had failed.                          *)
ImplementsFiles == Promise!Spec

(* STINKFS.md: fs_file_delete "removes the directory entry only": however a   *)
(* delete ends, by a crash too, the other files have the bytes they had.     *)
DeleteSparesOthers ==
  [][\A p \in Procs : calls[p].op = "delete" /\ calls'[p].op # "delete" =>
       \A m \in DOMAIN seen \ {calls[p].n} : m \in DOMAIN View' /\ View'[m] = seen[m]]_vars

Of(n) == UNION {{b[k] : k \in 1 .. Len(b)} : b \in Buffers[n]}

(* vfs.c: descriptors "stay valid even if the directory is compacted by a    *)
(* delete elsewhere": a read of a file that nobody deletes returns bytes     *)
(* that were written to this file.                                           *)
ReadsItsFile ==
  [][\A p \in Procs :
       (calls[p].op = "read" /\ calls'[p].pc = "idle" /\ ret'.ok /\ calls[p].n \notin Deletable) =>
         \A k \in 1 .. Len(ret'.data) : ret'.data[k] \in Of(calls[p].n)]_vars
=============================================================================
