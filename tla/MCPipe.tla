------------------------------- MODULE MCPipe -------------------------------
(***************************************************************************)
(* Model-checking instances of Pipe.                                       *)
(***************************************************************************)
EXTENDS Pipe

(* The state without what no step reads: the bytes of the ring outside the   *)
(* stretch that is buffered or being written, and what reads returned.       *)
(* TypeOK, first, makes TLC evaluate every function before it stores it.     *)
Written(i) ==
  LET writing == {p \in Procs : at[p].pc = "write_count" /\ at[p].i = i} IN
  IF writing = {} THEN 0 ELSE at[CHOOSE p \in writing : TRUE].n

Live == [i \in Slots |->
  [k \in 1 .. count[i] + Written(i) |-> buf[i][(Start(i) + k - 1) % BufSize]]]

Canon == <<TypeOK, Live, head, tail, count, table, running, alive, at, holds>>
=============================================================================
