------------------------------ MODULE Channels ------------------------------
(***************************************************************************)
(* What the pipes of StinkOS promise: each is a bounded first-in first-out *)
(* channel with two ends.  A send appends bytes, a receive takes a prefix, *)
(* nothing is lost, repeated or reordered in between, and a channel that   *)
(* is opened starts empty.  Sends end with the read end; the end of file   *)
(* comes after the last byte, when the write end is closed.  Pipe shows    *)
(* that kernel/sys/pipe.c implements this module with its ring buffers.    *)
(***************************************************************************)
EXTENDS Integers, Sequences

CONSTANTS
  Chans,      (* the channels                                              *)
  Readers,    (* who receives                                              *)
  Bytes,      (* what is sent                                              *)
  Capacity    (* bytes a channel holds at most                             *)

VARIABLES
  queue,      (* queue[i]: the bytes on their way in channel i             *)
  got,        (* got[p]: the bytes p received last                         *)
  open        (* open[i]: the open ends of channel i                       *)

Chunks == UNION {[1 .. n -> Bytes] : n \in 1 .. Capacity}

Init ==
  /\ queue = [i \in Chans |-> <<>>]
  /\ got = [p \in Readers |-> <<>>]
  /\ open = [i \in Chans |-> {}]

Open(i) ==
  /\ open[i] = {}
  /\ open' = [open EXCEPT ![i] = {"read", "write"}]
  /\ queue' = [queue EXCEPT ![i] = <<>>]
  /\ UNCHANGED got

Close(i, end) ==
  /\ open' = [open EXCEPT ![i] = @ \ {end}]
  /\ UNCHANGED <<queue, got>>

Send(i, chunk) ==
  /\ "read" \in open[i]
  /\ Len(queue[i]) + Len(chunk) <= Capacity
  /\ queue' = [queue EXCEPT ![i] = @ \o chunk]
  /\ UNCHANGED <<got, open>>

Receive(p, i, n) ==
  /\ n \in 1 .. Len(queue[i])
  /\ got' = [got EXCEPT ![p] = SubSeq(queue[i], 1, n)]
  /\ queue' = [queue EXCEPT ![i] = SubSeq(@, n + 1, Len(@))]
  /\ UNCHANGED open

EndOfFile(p, i) ==
  /\ "write" \notin open[i] /\ queue[i] = <<>>
  /\ got' = [got EXCEPT ![p] = <<>>]
  /\ UNCHANGED <<queue, open>>

Next ==
  \E i \in Chans :
    \/ Open(i)
    \/ \E end \in {"read", "write"} : Close(i, end)
    \/ \E chunk \in Chunks : Send(i, chunk)
    \/ \E p \in Readers : EndOfFile(p, i)
    \/ \E p \in Readers, n \in 1 .. Capacity : Receive(p, i, n)

Spec == Init /\ [][Next]_<<queue, got, open>>
=============================================================================
