------------------------------ MODULE MCStinkFS -----------------------------
(***************************************************************************)
(* Model-checking instances of StinkFS.                                    *)
(***************************************************************************)
EXTENDS StinkFS, TLC

(* What is written: less than a sector of two bytes, more than one, a whole   *)
(* one, and nothing at all.                                                   *)
SomeBuffers == ("a" :> {<<1>>, <<2, 1, 1>>}) @@ ("b" :> {<<1, 2>>}) @@ ("c" :> {<<>>})

(* One buffer for each file, none like another. *)
OwnBuffers == ("a" :> {<<1>>}) @@ ("b" :> {<<2, 2>>}) @@ ("c" :> {<<3>>})

(* The state without what no step reads (the result of the last call; io_buf *)
(* but between the two transfers it connects) and without the bytes that      *)
(* belong to no file, in memory or on disk, and that no call is moving.  No   *)
(* step branches on a byte.  A file gets such bytes only by a change that     *)
(* fails or is cut off, which may leave anything in that file; which of them  *)
(* it gets is left to the state that TLC finds first.                         *)
Bytes(d) ==
  [k \in 1 .. d.count |-> [b \in 1 .. d.files[k].size |->
     Sector(d.files[k].start + ((b - 1) \div SectorSize))[(b - 1) % SectorSize]]]

Moved ==
  UNION {LET c == calls[p] IN
         CASE c.op = "delete" -> Sectors
           [] c.pc \in {"copy_in", "copy_out"} -> c.to .. c.to + c.s
           [] c.pc \in {"get", "put"} -> c.start .. c.start + (c.pos \div SectorSize)
           [] OTHER -> {}
         : p \in Procs}

Canon ==
  << Bytes(dir), Bytes(ondisk), [s \in Moved \cap Sectors |-> disk[s]],
     ondisk, dir, calls, seen, unsafe,
     IF \E p \in Procs : calls[p].pc \in {"out", "put", "copy_out", "slide_out"} THEN io_buf ELSE Blank >>
=============================================================================
