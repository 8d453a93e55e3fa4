------------------------------- MODULE Files --------------------------------
(***************************************************************************)
(* What the file system of StinkOS promises (src/kernel/fs/fs.h): named    *)
(* files, each a sequence of bytes, and calls that take effect as a whole  *)
(* when they return 0 and on no other file than the one they name.         *)
(*                                                                         *)
(* What it promises when the disk fails or the machine stops: a call that  *)
(* the disk fails leaves any other file as it was; a crash leaves every    *)
(* file as it was but the one a call was changing and those whose last     *)
(* change had failed since the directory was last saved (`unsafe').        *)
(***************************************************************************)
EXTENDS Integers, Sequences, FiniteSetsExt

CONSTANTS Names, Buffers, MaxOffset

NoName == "none"

VARIABLES
  files,   (* the files there are: name |-> bytes *)
  busy,    (* the file a call is changing, or NoName *)
  unsafe,  (* the files that a crash may still change *)
  ret      (* what the last call returned *)

filesVars == <<files, busy, unsafe, ret>>

Failed == [ok |-> FALSE, data |-> <<>>]
Done(data) == [ok |-> TRUE, data |-> data]

Init ==
  /\ files = <<>>
  /\ busy = NoName
  /\ unsafe = {}
  /\ ret = Failed

Old(n) == IF n \in DOMAIN files THEN files[n] ELSE <<>>

(* `old' with `b' written over it from offset o, which is not behind its end. *)
Overlay(old, b, o) ==
  SubSeq(old, 1, o) \o b \o SubSeq(old, o + Len(b) + 1, Len(old))

Begin(n) ==
  /\ busy = NoName
  /\ busy' = n
  /\ UNCHANGED <<files, unsafe, ret>>

(* A call that changes its file and saves the directory. *)
Changes(n, b) ==
  /\ busy = n
  /\ files' = [m \in DOMAIN files \cup {n} |-> IF m = n THEN b ELSE files[m]]
  /\ busy' = NoName /\ unsafe' = {} /\ ret' = Done(<<>>)

Write(n, b) == Changes(n, b)
Appends(n, b) == Changes(n, Old(n) \o b)
WriteAt(n, b, o) == o <= Len(Old(n)) /\ Changes(n, Overlay(Old(n), b, o))

Delete(n) ==
  /\ busy = n /\ n \in DOMAIN files
  /\ files' = [m \in DOMAIN files \ {n} |-> files[m]]
  /\ busy' = NoName /\ unsafe' = {} /\ ret' = Done(<<>>)

(* Reading, and the calls that have nothing to write. *)
Read(n, o, len) ==
  /\ n \in DOMAIN files
  /\ ret' = Done(SubSeq(files[n], o + 1, Min({o + len, Len(files[n])})))
  /\ UNCHANGED <<files, busy, unsafe>>

Nothing == ret' = Done(<<>>) /\ UNCHANGED <<files, busy, unsafe>>

(* No such file, no room, no entry, no answer to a read. *)
Fail == busy = NoName /\ ret' = Failed /\ UNCHANGED <<files, busy, unsafe>>

SameBut(N) ==
  \A m \in Names \ N :
    /\ m \in DOMAIN files' <=> m \in DOMAIN files
    /\ m \in DOMAIN files => files'[m] = files[m]

DiskFails ==
  /\ busy # NoName
  /\ SameBut({busy})
  /\ unsafe' = unsafe \cup {busy}
  /\ busy' = NoName /\ ret' = Failed

Crash ==
  /\ SameBut(unsafe \cup {busy})
  /\ unsafe' = {} /\ busy' = NoName /\ ret' = Failed

Next ==
  \/ \E n \in Names : Begin(n)
  \/ \E n \in Names \cap {busy} :
       \/ Delete(n)
       \/ \E b \in Buffers :
            Write(n, b) \/ Appends(n, b) \/ \E o \in 0 .. MaxOffset : WriteAt(n, b, o)
  \/ \E n \in Names, o, len \in 0 .. MaxOffset : Read(n, o, len)
  \/ Nothing \/ Fail \/ DiskFails \/ Crash

Spec == Init /\ [][Next]_filesVars
=============================================================================
