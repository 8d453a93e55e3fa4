-------------------------------- MODULE Pipe --------------------------------
(***************************************************************************)
(* The anonymous pipes of StinkOS, kernel/sys/pipe.c, and the system calls *)
(* on them.  Processes hold handles; fork gives the child the handles of   *)
(* its parent, and neither fork nor the end of a process tells the pipes.  *)
(*                                                                         *)
(* A call starts with interrupts enabled, so the tick may take the CPU     *)
(* away between two of its steps, until it blocks for the first time:      *)
(* from then on interrupts are off except in hlt (field cli).              *)
(***************************************************************************)
EXTENDS Integers, Sequences, FiniteSets

CONSTANTS
  NProcs,       (* processes                                               *)
  NPipes,       (* PIPE_MAX                                                *)
  BufSize,      (* PIPE_BUFSZ                                              *)
  Wrap,         (* the number of values of an unsigned int                 *)
  Bytes,        (* what programs write                                     *)
  MaxLen,       (* bytes of a call at most                                 *)
  MaxGen,       (* bound: times a slot of the pool is used                 *)
  TickIn        (* places of Windows in which the tick may strike          *)

Procs == 1 .. NProcs
Slots == 1 .. NPipes
Ends == {"read", "write"}
Data == UNION {[1 .. n -> Bytes] : n \in 1 .. MaxLen}

(* Places where a tick shows the others a pipe half-changed. *)
Windows == {"alloc", "copy"}

ASSUME PipeAssumption ==
  /\ NProcs \in Nat \ {0} /\ NPipes \in Nat \ {0} /\ BufSize \in Nat \ {0}
  /\ Wrap \in Nat /\ BufSize < Wrap
  /\ MaxLen \in Nat \ {0} /\ MaxGen \in Nat \ {0}
  /\ TickIn \subseteq Windows

VARIABLES
  buf,      (* buf[i]: the ring buffer of slot i, positions from 0          *)
  head,     (* next position to write                                       *)
  tail,     (* next position to read                                        *)
  count,    (* bytes buffered                                               *)
  open,     (* open[i]: the ends of slot i that are open (readers, writers) *)
  used,     (* the slots in use                                             *)
  running,  (* the process on the CPU                                       *)
  alive,    (* the processes that exist                                     *)
  at,       (* what each process does in a pipe call                        *)
  got,      (* the bytes the last read of each process returned             *)
  gen,      (* history: how often each slot has been allocated              *)
  holds     (* history: the handles of each process: slot, end, generation  *)

ring == <<buf, head, tail, count>>
table == <<open, used, gen>>
vars == <<ring, table, running, alive, at, got, holds>>

(* i: the slot; g: its generation when the handle was given; n: bytes asked  *)
(* for or taken; data: bytes of the call; done: bytes written; seen: a copy  *)
(* of count; cli: interrupts are off.                                        *)
User == [pc |-> "user", i |-> 0, g |-> 0, n |-> 0, data |-> <<>>, done |-> 0, seen |-> 0,
         cli |-> FALSE]

Goto(p, a) == at' = [at EXCEPT ![p] = a]
Runs(p, pc) == running = p /\ at[p].pc = pc
Least(a, b) == IF a < b THEN a ELSE b

-----------------------------------------------------------------------------
(* pipe_alloc(): the first free slot is found, *)
SysPipe(p) ==
  /\ Runs(p, "user")
  /\ \E i \in Slots \ used :
       /\ \A j \in Slots \ used : i <= j
       /\ gen[i] < MaxGen
       /\ Goto(p, [User EXCEPT !.pc = "alloc", !.i = i])
  /\ UNCHANGED <<ring, table, running, alive, got, holds>>

(* Mutant: the count of the last user stays. *)
AllocTakeStale(p) ==
  LET i == at[p].i IN
  /\ Runs(p, "alloc")
  /\ head' = [head EXCEPT ![i] = 0]
  /\ tail' = [tail EXCEPT ![i] = 0]
  /\ open' = [open EXCEPT ![i] = Ends]
  /\ used' = used \cup {i}
  /\ gen' = [gen EXCEPT ![i] = @ + 1]
  /\ holds' = [holds EXCEPT ![p] = @ \cup {<<i, e, gen[i] + 1>> : e \in Ends}]
  /\ Goto(p, User)
  /\ UNCHANGED <<buf, count, running, alive, got>>

(* then taken. *)
AllocTake(p) ==
  LET i == at[p].i IN
  /\ Runs(p, "alloc")
  /\ head' = [head EXCEPT ![i] = 0]
  /\ tail' = [tail EXCEPT ![i] = 0]
  /\ count' = [count EXCEPT ![i] = 0]
  /\ open' = [open EXCEPT ![i] = Ends]
  /\ used' = used \cup {i}
  /\ gen' = [gen EXCEPT ![i] = @ + 1]
  /\ holds' = [holds EXCEPT ![p] = @ \cup {<<i, e, gen[i] + 1>> : e \in Ends}]
  /\ Goto(p, User)
  /\ UNCHANGED <<buf, running, alive, got>>

(* Mutant: the slot is released with its first end. *)
CloseEither(p, h) ==
  LET left == open[h[1]] \ {h[2]} IN
  /\ Runs(p, "user") /\ h \in holds[p]
  /\ holds' = [holds EXCEPT ![p] = @ \ {h}]
  /\ open' = [open EXCEPT ![h[1]] = IF h[1] \in used THEN left ELSE @]
  /\ used' = used \ {h[1]}
  /\ UNCHANGED <<ring, gen, running, alive, at, got>>

(* pipe_close(): an end is open or it is not, however many processes hold    *)
(* it; with the second end the slot is released.                             *)
SysClose(p, h) ==
  LET left == open[h[1]] \ {h[2]} IN
  /\ Runs(p, "user") /\ h \in holds[p]
  /\ holds' = [holds EXCEPT ![p] = @ \ {h}]
  /\ open' = [open EXCEPT ![h[1]] = IF h[1] \in used THEN left ELSE @]
  /\ used' = IF left = {} THEN used \ {h[1]} ELSE used
  /\ UNCHANGED <<ring, gen, running, alive, at, got>>

-----------------------------------------------------------------------------
(* pipe_read(): get_pipe(), *)
SysRead(p, h, n) ==
  /\ Runs(p, "user") /\ h \in holds[p]
  /\ h[2] = "read" /\ h[1] \in used
  /\ Goto(p, [User EXCEPT !.pc = "read", !.i = h[1], !.g = h[3], !.n = n])
  /\ UNCHANGED <<ring, table, running, alive, got, holds>>

(* the loop: block while the pipe is empty and its write end open, *)
ReadBlock(p) ==
  /\ Runs(p, "read")
  /\ count[at[p].i] = 0 /\ "write" \in open[at[p].i]
  /\ Goto(p, [at[p] EXCEPT !.pc = "read_halt"])
  /\ UNCHANGED <<ring, table, running, alive, got, holds>>

ReadEof(p) ==
  /\ Runs(p, "read")
  /\ count[at[p].i] = 0 /\ "write" \notin open[at[p].i]
  /\ got' = [got EXCEPT ![p] = <<>>]
  /\ Goto(p, User)
  /\ UNCHANGED <<ring, table, running, alive, holds>>

(* Mutant: the position runs past the end of the buffer's last byte. *)
ReadCopyLast(p) ==
  LET i == at[p].i
      take == Least(at[p].n, count[i]) IN
  /\ Runs(p, "read") /\ count[i] > 0
  /\ Goto(p, [at[p] EXCEPT !.pc = "read_count", !.n = take,
                           !.data = [k \in 1 .. take |-> buf[i][(tail[i] + k - 1) % BufSize]]])
  /\ tail' = [tail EXCEPT ![i] = (@ + take) % (BufSize + 1)]
  /\ UNCHANGED <<buf, head, count, table, running, alive, got, holds>>

(* take bytes, and the tail moves behind them; *)
ReadCopy(p) ==
  LET i == at[p].i
      take == Least(at[p].n, count[i]) IN
  /\ Runs(p, "read") /\ count[i] > 0
  /\ Goto(p, [at[p] EXCEPT !.pc = "read_count", !.n = take,
                           !.data = [k \in 1 .. take |-> buf[i][(tail[i] + k - 1) % BufSize]]])
  /\ tail' = [tail EXCEPT ![i] = (@ + take) % BufSize]
  /\ UNCHANGED <<buf, head, count, table, running, alive, got, holds>>

(* count -= take. *)
ReadCount(p) ==
  /\ Runs(p, "read_count")
  /\ count' = [count EXCEPT ![at[p].i] = (@ - at[p].n) % Wrap]
  /\ got' = [got EXCEPT ![p] = at[p].data]
  /\ Goto(p, User)
  /\ UNCHANGED <<buf, head, tail, table, running, alive, holds>>

-----------------------------------------------------------------------------
(* pipe_write(): get_pipe(), *)
SysWrite(p, h, data) ==
  /\ Runs(p, "user") /\ h \in holds[p]
  /\ h[2] = "write" /\ h[1] \in used
  /\ Goto(p, [User EXCEPT !.pc = "write", !.i = h[1], !.g = h[3], !.data = data])
  /\ UNCHANGED <<ring, table, running, alive, got, holds>>

(* block while the pipe is full and its read end open, *)
WriteBlock(p) ==
  /\ Runs(p, "write")
  /\ count[at[p].i] = BufSize /\ "read" \in open[at[p].i]
  /\ Goto(p, [at[p] EXCEPT !.pc = "write_halt"])
  /\ UNCHANGED <<ring, table, running, alive, got, holds>>

(* EPIPE: -1. *)
WriteFail(p) ==
  /\ Runs(p, "write")
  /\ "read" \notin open[at[p].i]
  /\ Goto(p, User)
  /\ UNCHANGED <<ring, table, running, alive, got, holds>>

(* Mutant: a full pipe is not waited for. *)
WriteCopyOver(p) ==
  LET i == at[p].i
      chunk == Len(at[p].data) - at[p].done
      place == [k \in 1 .. chunk |-> (head[i] + k - 1) % BufSize] IN
  /\ Runs(p, "write")
  /\ count[i] # BufSize /\ "read" \in open[i]
  /\ buf' = [buf EXCEPT ![i] = [x \in DOMAIN @ |->
       IF \E k \in 1 .. chunk : place[k] = x
       THEN at[p].data[at[p].done + (CHOOSE k \in 1 .. chunk : place[k] = x)] ELSE @[x]]]
  /\ head' = [head EXCEPT ![i] = (@ + chunk) % BufSize]
  /\ Goto(p, [at[p] EXCEPT !.pc = "write_count", !.n = chunk, !.seen = count[i]])
  /\ UNCHANGED <<tail, count, table, running, alive, got, holds>>

(* a chunk, as long as there is room for, and the head moves behind it;      *)
WriteCopy(p) ==
  LET i == at[p].i
      chunk == Least(Len(at[p].data) - at[p].done, (BufSize - count[i]) % Wrap)
      place == [k \in 1 .. chunk |-> (head[i] + k - 1) % BufSize] IN
  /\ Runs(p, "write")
  /\ count[i] # BufSize /\ "read" \in open[i]
  /\ buf' = [buf EXCEPT ![i] = [x \in DOMAIN @ |->
       IF \E k \in 1 .. chunk : place[k] = x
       THEN at[p].data[at[p].done + (CHOOSE k \in 1 .. chunk : place[k] = x)] ELSE @[x]]]
  /\ head' = [head EXCEPT ![i] = (@ + chunk) % BufSize]
  /\ Goto(p, [at[p] EXCEPT !.pc = "write_count", !.n = chunk, !.seen = count[i]])
  /\ UNCHANGED <<tail, count, table, running, alive, got, holds>>

(* count += chunk, count being the value the space was computed from.        *)
WriteCount(p) ==
  LET done == at[p].done + at[p].n IN
  /\ Runs(p, "write_count")
  /\ count' = [count EXCEPT ![at[p].i] = (at[p].seen + at[p].n) % Wrap]
  /\ Goto(p, IF done < Len(at[p].data) THEN [at[p] EXCEPT !.pc = "write", !.done = done] ELSE User)
  /\ UNCHANGED <<buf, head, tail, table, running, alive, got, holds>>

-----------------------------------------------------------------------------
(* SYS_FORK: the child knows the handles its parent knows. *)
Fork(p, q) ==
  /\ Runs(p, "user") /\ q \notin alive
  /\ alive' = alive \cup {q}
  /\ holds' = [holds EXCEPT ![q] = holds[p]]
  /\ UNCHANGED <<ring, table, running, at, got>>

(* The end of a process, by SYS_EXIT or, when another one has the CPU, by     *)
(* SYS_KILL: no pipe is told.                                                *)
End(p) ==
  /\ p \in alive \ {1}
  /\ p = running => at[p].pc = "user"
  /\ alive' = alive \ {p}
  /\ running' = IF p = running THEN 1 ELSE running
  /\ holds' = [holds EXCEPT ![p] = {}]
  /\ Goto(p, User)
  /\ UNCHANGED <<ring, table, got>>

InWindow(p) ==
  IF at[p].pc = "alloc" THEN "alloc" \notin TickIn
  ELSE at[p].pc \in {"read_count", "write_count"} /\ "copy" \notin TickIn

(* Mutant: the loop does not look again. *)
WokenStays(p) == at[p]

(* An interrupt ends a hlt; interrupts are off when the loop goes on. *)
Woken(p) ==
  CASE at[p].pc = "read_halt"  -> [at[p] EXCEPT !.pc = "read", !.cli = TRUE]
    [] at[p].pc = "write_halt" -> [at[p] EXCEPT !.pc = "write", !.cli = TRUE]
    [] OTHER -> at[p]

Halted(p) == at[p].pc \in {"read_halt", "write_halt"}

(* The PIT tick: a process gets the CPU, another one or the same. *)
Tick(q) ==
  /\ q \in alive
  /\ Halted(running) \/ (~at[running].cli /\ ~InWindow(running))
  /\ running' = q
  /\ Goto(running, Woken(running))
  /\ UNCHANGED <<ring, table, alive, got, holds>>

-----------------------------------------------------------------------------
Init ==
  /\ \E b \in Bytes : buf = [i \in Slots |-> [x \in 0 .. BufSize - 1 |-> b]]
  /\ head = [i \in Slots |-> 0] /\ tail = [i \in Slots |-> 0] /\ count = [i \in Slots |-> 0]
  /\ open = [i \in Slots |-> {}] /\ used = {} /\ gen = [i \in Slots |-> 0]
  /\ running = 1 /\ alive = {1}
  /\ at = [p \in Procs |-> User]
  /\ got = [p \in Procs |-> <<>>]
  /\ holds = [p \in Procs |-> {}]

Handles == Slots \X Ends \X (1 .. MaxGen)

UserStep(p) ==
  \/ SysPipe(p) \/ End(p)
  \/ \E q \in Procs : Fork(p, q)
  \/ \E h \in Handles : SysClose(p, h)
  \/ \E h \in Handles, n \in 1 .. MaxLen : SysRead(p, h, n)
  \/ \E h \in Handles, data \in Data : SysWrite(p, h, data)

KernelStep(p) ==
  \/ AllocTake(p)
  \/ ReadBlock(p) \/ ReadEof(p) \/ ReadCopy(p) \/ ReadCount(p)
  \/ WriteBlock(p) \/ WriteFail(p) \/ WriteCopy(p) \/ WriteCount(p)

Next == (\E p \in Procs : UserStep(p) \/ KernelStep(p)) \/ \E q \in Procs : Tick(q)

Spec == Init /\ [][Next]_vars

(* Every process gets the CPU again and again (ProcTable), and a time slice  *)
(* is longer than a step of the kernel.                                      *)
FairSpec ==
  /\ Spec
  /\ \A p \in Procs : SF_vars(KernelStep(p)) /\ SF_vars(Tick(p))

-----------------------------------------------------------------------------
Places == {"user", "alloc", "read", "read_halt", "read_count", "write", "write_halt", "write_count"}

TypeOK ==
  /\ buf \in [Slots -> [0 .. BufSize - 1 -> Bytes]]
  /\ head \in [Slots -> 0 .. BufSize - 1] /\ tail \in [Slots -> 0 .. BufSize - 1]
  /\ count \in [Slots -> 0 .. Wrap - 1]
  /\ open \in [Slots -> SUBSET Ends] /\ used \subseteq Slots /\ gen \in [Slots -> 0 .. MaxGen]
  /\ alive \subseteq Procs /\ running \in alive
  /\ \A p \in Procs :
       /\ at[p].pc \in Places /\ at[p].i \in 0 .. NPipes /\ at[p].cli \in BOOLEAN
       /\ at[p].n \in 0 .. MaxLen /\ at[p].done \in 0 .. MaxLen /\ at[p].seen \in 0 .. Wrap - 1
       /\ at[p].data \in Data \cup {<<>>} /\ got[p] \in Data \cup {<<>>}
       /\ holds[p] \subseteq Handles

(* A slot is in use as long as one of its ends is open, so a pipe whose ends *)
(* have both been closed can be allocated again.                             *)
UsedWhileOpen == \A i \in Slots : i \in used <=> open[i] # {}

(* The positions and the count of a pipe agree, except inside the copy of a  *)
(* read or a write.                                                          *)
RingSound ==
  \A i \in Slots :
    (\A p \in Procs : at[p].i = i => at[p].pc \notin {"read_count", "write_count"}) =>
       count[i] <= BufSize /\ head[i] = (tail[i] + count[i]) % BufSize

(* The bytes in pipe i; those a reader has copied leave it with its count.   *)
Start(i) ==
  LET taking == {p \in Procs : at[p].pc = "read_count" /\ at[p].i = i} IN
  IF taking = {} THEN tail[i] ELSE (tail[i] - at[CHOOSE p \in taking : TRUE].n) % BufSize

Buffered(i) == [k \in 1 .. count[i] |-> buf[i][(Start(i) + k - 1) % BufSize]]

(* What the program sees of a read: the bytes that came in, in their order.  *)
Queue == INSTANCE Channels
  WITH Chans <- Slots, Readers <- Procs, Capacity <- BufSize,
       queue <- [i \in Slots |-> Buffered(i)], got <- got, open <- open

(* Pipes implement channels: bytes are neither lost, repeated nor reordered. *)
ImplementsChannels == Queue!Spec

(* pipe.h: "Allocate a new pipe": no process gets a slot that is in use.     *)
NewPipeIsNew == [][\A i \in Slots : gen'[i] # gen[i] => i \notin used]_vars

(* libstink.h: "sys_pipe_write returns -1 on EPIPE (all readers closed)": a  *)
(* write fails only when no process holds the read end.                      *)
EpipeWhenNoReader ==
  [][\A p \in Procs :
       at[p].pc = "write" /\ at'[p].pc = "user" /\ at'[p] # at[p] =>
         \A q \in Procs : <<at[p].i, "read", at[p].g>> \notin holds[q]]_vars

(* pipe.h: "The pipe is fully released only after both ends are closed": a   *)
(* call works on the pipe its handle was given for.                          *)
WorksOnItsPipe ==
  \A p \in Procs : at[p].pc \in {"read_count", "write_count"} => at[p].g = gen[at[p].i]

Reading(p) == at[p].pc \in {"read", "read_halt"}
Readable(p) == count[at[p].i] > 0 \/ "write" \notin open[at[p].i]

(* pipe.h: "read on empty blocks until a writer pushes bytes or every write  *)
(* end is closed": a blocked reader comes back with the bytes or with the    *)
(* end of file, unless another reader takes the bytes first.                 *)
ReadReturns == \A p \in Procs : (Reading(p) /\ Readable(p)) ~> (~Reading(p) \/ ~Readable(p))

Writing(p) == at[p].pc \in {"write", "write_halt"}
Writable(p) == count[at[p].i] < BufSize \/ "read" \notin open[at[p].i]

(* pipe.h: "write on full blocks until a reader drains or every read end is  *)
(* closed": a blocked writer goes on, unless another one fills the room.     *)
WriteReturns == \A p \in Procs : (Writing(p) /\ Writable(p)) ~> (~Writing(p) \/ ~Writable(p))

(* No call waits for ever for what is there. *)
CallsReturn == ReadReturns /\ WriteReturns
=============================================================================
