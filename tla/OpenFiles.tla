------------------------------ MODULE OpenFiles -----------------------------
(***************************************************************************)
(* What open descriptors promise: a descriptor stands for the file that    *)
(* was opened, not for its name, and has a cursor of its own; the calls    *)
(* take effect at once.  A file is an object of its own (an id): when its  *)
(* name is deleted the descriptors keep it.                                *)
(***************************************************************************)
EXTENDS Integers, Sequences, FiniteSets

CONSTANTS
  Procs, Names, Ids, FdMax, MaxFiles,
  Buffers,   (* what is written       *)
  Offsets    (* arguments of a seek   *)

VARIABLES
  dir,       (* the names there are: name |-> id             *)
  contents,  (* the bytes of each file: id |-> sequence      *)
  open,      (* per process: fd |-> [id, off]                *)
  live,      (* the processes there are                      *)
  ret        (* per process: what its last call returned     *)

openVars == <<dir, contents, open, live, ret>>

Fds == 0 .. FdMax - 1
Num(k) == [num |-> k, data |-> <<>>]
Data(s) == [num |-> Len(s), data |-> s]
Part(s, o, k) == SubSeq(s, o + 1, IF o + k < Len(s) THEN o + k ELSE Len(s))

Init ==
  /\ dir = <<>> /\ contents = <<>>
  /\ open = [p \in Procs |-> <<>>]
  /\ live \in {{p} : p \in Procs}
  /\ ret = [p \in Procs |-> Num(0)]

Returns(p, r) == ret' = [ret EXCEPT ![p] = r]
Bind(f, x, v) == [y \in DOMAIN f \cup {x} |-> IF y = x THEN v ELSE f[y]]
Drop(f, x) == [y \in DOMAIN f \ {x} |-> f[y]]
InUse == DOMAIN contents \cup UNION {{open[p][fd].id : fd \in DOMAIN open[p]} : p \in Procs}
NoFd(p) == DOMAIN open[p] = Fds

(* A name comes into being, with an empty file. *)
Make(n) ==
  /\ n \notin DOMAIN dir /\ Cardinality(DOMAIN dir) < MaxFiles
  /\ \E id \in Ids \ InUse : dir' = Bind(dir, n, id) /\ contents' = Bind(contents, id, <<>>)
  /\ UNCHANGED <<open, live, ret>>

Opens(p, n) ==
  /\ n \in DOMAIN dir
  /\ \E fd \in Fds \ DOMAIN open[p] :
       /\ \A i \in Fds \ DOMAIN open[p] : fd <= i
       /\ open' = [open EXCEPT ![p] = Bind(@, fd, [id |-> dir[n], off |-> 0])]
       /\ Returns(p, Num(fd))
  /\ UNCHANGED <<dir, contents, live>>

Fails(p) == Returns(p, Num(-1)) /\ UNCHANGED <<dir, contents, open, live>>
OpenFails(p, n) == (n \notin DOMAIN dir \/ NoFd(p)) /\ Fails(p)

Closes(p, fd) ==
  /\ open' = [open EXCEPT ![p] = Drop(@, fd)]
  /\ Returns(p, Num(0))
  /\ UNCHANGED <<dir, contents, live>>

Moves(p, fd, off, r) ==
  /\ open' = [open EXCEPT ![p][fd].off = off]
  /\ Returns(p, r)
  /\ UNCHANGED <<dir, live>>

Reads(p, fd, k) ==
  LET f == open[p][fd]
      got == Part(contents[f.id], f.off, k)
  IN Moves(p, fd, f.off + Len(got), Data(got)) /\ UNCHANGED contents

Overlay(old, b, o) == SubSeq(old, 1, o) \o b \o SubSeq(old, o + Len(b) + 1, Len(old))

Writes(p, fd, b) ==
  LET f == open[p][fd] IN
  /\ f.off <= Len(contents[f.id])
  /\ contents' = [contents EXCEPT ![f.id] = Overlay(@, b, f.off)]
  /\ Moves(p, fd, f.off + Len(b), Num(Len(b)))

(* Behind the end, or no room on the disk to grow. *)
WriteFails(p, fd, b) ==
  open[p][fd].off + Len(b) > Len(contents[open[p][fd].id]) /\ Fails(p)

(* No cursor is put before the first byte. *)
Seeks(p, fd, whence, d) ==
  LET f == open[p][fd]
      pos == d + CASE whence = "SET" -> 0 [] whence = "CUR" -> f.off
                   [] whence = "END" -> Len(contents[f.id])
  IN IF pos < 0 THEN Fails(p) ELSE Moves(p, fd, pos, Num(pos)) /\ UNCHANGED contents

Replaces(n, b) ==
  /\ n \in DOMAIN dir
  /\ contents' = [contents EXCEPT ![dir[n]] = b]
  /\ UNCHANGED <<dir, open, live, ret>>

(* The bytes stay for as long as a descriptor has the file. *)
Deletes(n) ==
  /\ n \in DOMAIN dir
  /\ dir' = Drop(dir, n)
  /\ contents' = IF \E p \in Procs : \E fd \in DOMAIN open[p] : open[p][fd].id = dir[n]
                 THEN contents ELSE Drop(contents, dir[n])
  /\ UNCHANGED <<open, live, ret>>

Forks(p, c) ==
  /\ c \notin live
  /\ live' = live \cup {c}
  /\ open' = [open EXCEPT ![c] = open[p]]
  /\ ret' = [ret EXCEPT ![c] = Num(0)]
  /\ UNCHANGED <<dir, contents>>

Ends(p) ==
  /\ live' = live \ {p}
  /\ open' = [open EXCEPT ![p] = <<>>]
  /\ Returns(p, Num(0))
  /\ UNCHANGED <<dir, contents>>

(* Another program in the same process: it has the descriptors of the last. *)
Restarts(p) == Returns(p, Num(0)) /\ UNCHANGED <<dir, contents, open, live>>

Next ==
  \/ \E n \in Names : Make(n) \/ Deletes(n) \/ \E b \in Buffers : Replaces(n, b)
  \/ \E p \in live :
       \/ \E n \in Names : Opens(p, n) \/ OpenFails(p, n)
       \/ \E fd \in DOMAIN open[p] :
            \/ Closes(p, fd)
            \/ \E k \in 1 .. 2 : Reads(p, fd, k)
            \/ \E b \in Buffers : Writes(p, fd, b) \/ WriteFails(p, fd, b)
            \/ \E d \in Offsets, whence \in {"SET", "CUR", "END"} : Seeks(p, fd, whence, d)
       \/ \E c \in Procs : Forks(p, c)
       \/ Ends(p) \/ Restarts(p)

Spec == Init /\ [][Next]_openVars
=============================================================================
