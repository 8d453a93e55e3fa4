----------------------------- MODULE Pipe_proofs -----------------------------
(***************************************************************************)
(* Proofs about the pipes, for any number of processes and slots and rings *)
(* of any size, when no tick comes inside an allocation or a copy          *)
(* (TickIn = {}): the rings stay sound, and they implement Channels.       *)
(***************************************************************************)
EXTENDS Pipe, SequenceTheorems, TLAPS

-----------------------------------------------------------------------------
(* Arithmetic of positions: no sum reaches twice the size of the ring.       *)

LEMMA Sizes ==
  /\ BufSize \in Nat /\ BufSize > 0 /\ Wrap \in Nat /\ BufSize < Wrap
  /\ MaxLen \in Nat /\ MaxLen > 0 /\ MaxGen \in Nat
  BY PipeAssumption

LEMMA Around ==
  ASSUME NEW a \in Int, -BufSize <= a, a < 2 * BufSize
  PROVE  a % BufSize = IF a < 0 THEN a + BufSize ELSE IF a < BufSize THEN a ELSE a - BufSize
  BY Sizes

-----------------------------------------------------------------------------
(* The inductive invariant. *)

Calls == [pc : Places, i : 0 .. NPipes, g : 0 .. MaxGen, n : 0 .. MaxLen, data : Data \cup {<<>>},
          done : 0 .. MaxLen, seen : 0 .. Wrap - 1, cli : BOOLEAN]

Maps ==
  /\ at \in [Procs -> Calls] /\ got \in [Procs -> Data \cup {<<>>}]
  /\ holds \in [Procs -> SUBSET Handles]

Inside == {"alloc", "read_count", "write_count"}

(* Where the bytes of pipe i start, and how many a writer has put behind     *)
(* them that count does not know yet.                                        *)
From(i) ==
  IF at[running].pc = "read_count" /\ at[running].i = i
  THEN (tail[i] - at[running].n) % BufSize ELSE tail[i]

Coming(i) == IF at[running].pc = "write_count" /\ at[running].i = i THEN at[running].n ELSE 0

Cell(i, k) == buf[i][(From(i) + k - 1) % BufSize]

(* Only the running process is inside an allocation or a copy. *)
Alone == running \in Procs /\ 1 \in alive /\ \A p \in Procs : at[p].pc \in Inside => p = running

RingInv ==
  \A i \in Slots : /\ count[i] <= BufSize
                   /\ head[i] = (From(i) + count[i] + Coming(i)) % BufSize

(* What a call has in hand. *)
CallInv ==
  \A p \in Procs :
    /\ at[p].pc # "user" => at[p].i \in Slots
    /\ at[p].pc \in {"read", "read_halt", "read_count"} => at[p].n > 0
    /\ at[p].pc \in {"write", "write_halt", "write_count"} =>
         at[p].data \in Data /\ at[p].done < Len(at[p].data)

AllocInv ==
  at[running].pc = "alloc" => gen[at[running].i] < MaxGen /\ at[running].i \notin used

(* The bytes of a copy are those in the ring, before or behind the others.   *)
CopyInv ==
  LET a == at[running] IN
  /\ a.pc = "read_count" => /\ a.n <= count[a.i] /\ a.data \in [1 .. a.n -> Bytes]
                            /\ \A k \in 1 .. a.n : a.data[k] = Cell(a.i, k)
  /\ a.pc = "write_count" => /\ a.seen = count[a.i] /\ count[a.i] + a.n <= BufSize
                             /\ a.n > 0 /\ a.done + a.n <= Len(a.data)
                             /\ "read" \in open[a.i]
                             /\ \A k \in 1 .. a.n : Cell(a.i, count[a.i] + k) = a.data[a.done + k]

PipeInv == TypeOK /\ Maps /\ Alone /\ RingInv /\ CallInv /\ AllocInv /\ CopyInv /\ UsedWhileOpen

LEMMA InitInv == Init => PipeInv
  <1> SUFFICES ASSUME Init
               PROVE  PipeInv
    OBVIOUS
  <1>1. PICK b \in Bytes : buf = [i \in Slots |-> [x \in 0 .. BufSize - 1 |-> b]]
    BY DEF Init
  <1>2. 1 \in Procs
    BY PipeAssumption DEF Procs
  <1>3. Maps
    <2>1. User \in Calls
      BY Sizes, PipeAssumption DEF User, Calls, Places
    <2>2. QED
      BY <2>1 DEF Init, Maps
  <1>4. TypeOK
    <2>1. /\ buf \in [Slots -> [0 .. BufSize - 1 -> Bytes]] /\ count \in [Slots -> 0 .. Wrap - 1]
          /\ head \in [Slots -> 0 .. BufSize - 1] /\ tail \in [Slots -> 0 .. BufSize - 1]
          /\ gen \in [Slots -> 0 .. MaxGen]
      BY <1>1, Sizes DEF Init
    <2>2. QED
      BY <1>2, <1>3, <2>1 DEF Init, TypeOK, Maps, Calls
  <1>5. Alone /\ CallInv /\ AllocInv /\ CopyInv /\ UsedWhileOpen
    BY <1>2 DEF Init, User, Alone, CallInv, AllocInv, CopyInv, UsedWhileOpen, Inside
  <1>6. RingInv
    BY <1>2, Sizes DEF Init, RingInv, From, Coming, User
  <1>7. QED
    BY <1>3, <1>4, <1>5, <1>6 DEF PipeInv

-----------------------------------------------------------------------------
(* Steps that leave the rings alone. *)

LEMMA Typed ==
  ASSUME Maps', Alone', running' \in alive', alive' \subseteq Procs,
         buf' \in [Slots -> [0 .. BufSize - 1 -> Bytes]],
         head' \in [Slots -> 0 .. BufSize - 1], tail' \in [Slots -> 0 .. BufSize - 1],
         count' \in [Slots -> 0 .. Wrap - 1],
         open' \in [Slots -> SUBSET Ends], used' \subseteq Slots, gen' \in [Slots -> 0 .. MaxGen]
  PROVE  TypeOK'
  BY DEF TypeOK, Maps, Calls

(* Only calls outside of copies move, and what they move to is in order.     *)
LEMMA QuietStep ==
  ASSUME PipeInv, Maps', running' \in alive', 1 \in alive', alive' \subseteq Procs, UNCHANGED <<ring, gen>>,
         \A p \in Procs : at'[p] # at[p] => at[p].pc \notin {"read_count", "write_count"},
         \A p \in Procs : at'[p] # at[p] => /\ at'[p].pc \notin {"read_count", "write_count"}
                                            /\ at'[p].pc = "alloc" => p = running',
         running' # running => at[running].pc \notin Inside,
         at'[running'] # at[running'] => AllocInv',
         \A p \in Procs : at'[p] # at[p] =>
           /\ at'[p].pc # "user" => at'[p].i \in Slots
           /\ at'[p].pc \in {"read", "read_halt"} => at'[p].n > 0
           /\ at'[p].pc \in {"write", "write_halt"} => at'[p].data \in Data /\ at'[p].done < Len(at'[p].data),
         open' \in [Slots -> SUBSET Ends], used' \subseteq used, UsedWhileOpen',
         at[running].pc \in Inside => open' = open /\ used' = used
  PROVE  PipeInv'
  <1> USE DEF ring
  <1>1. Alone'
    BY DEF PipeInv, Alone, Inside, TypeOK
  <1>2. TypeOK'
    BY <1>1, Typed DEF PipeInv, TypeOK
  <1>3. CallInv'
    BY DEF PipeInv, CallInv
  <1>4. running \in Procs /\ running' \in Procs
    BY DEF PipeInv, Alone
  <1>5. at[running].pc \in {"read_count", "write_count"} \/ at'[running'].pc \in {"read_count", "write_count"} =>
          running' = running /\ at'[running] = at[running]
    BY <1>4 DEF PipeInv, Alone, Inside
  <1>6. RingInv' /\ CopyInv'
    <2>1. CASE running' = running /\ at'[running] = at[running]
      BY <2>1 DEF PipeInv, RingInv, CopyInv, From, Coming, Cell, Inside
    <2>2. CASE ~(running' = running /\ at'[running] = at[running])
      <3>1. at[running].pc \notin {"read_count", "write_count"} /\ at'[running'].pc \notin {"read_count", "write_count"}
        BY <1>5, <2>2
      <3>2. QED
        BY <3>1 DEF PipeInv, RingInv, CopyInv, From, Coming
    <2>3. QED
      BY <2>1, <2>2
  <1>7. AllocInv'
    <2>1. CASE at'[running'] # at[running']
      BY <2>1
    <2>2. CASE at'[running'] = at[running']
      BY <1>4, <2>2 DEF PipeInv, AllocInv, Alone, Inside
    <2>3. QED
      BY <2>1, <2>2
  <1>8. QED
    BY <1>1, <1>2, <1>3, <1>6, <1>7 DEF PipeInv

LEMMA UserMade == User \in Calls /\ User.pc = "user"
  BY Sizes, PipeAssumption DEF User, Calls, Places

(* What a step that only moves the running process from one place to another *)
(* leaves alone.                                                             *)
LEMMA Moves ==
  ASSUME PipeInv, NEW p \in Procs, running = p, NEW a \in Calls, at' = [at EXCEPT ![p] = a],
         at[p].pc \notin Inside, a.pc \notin {"read_count", "write_count"},
         a.pc = "alloc" => gen[a.i] < MaxGen /\ a.i \notin used,
         a.pc # "user" => a.i \in Slots,
         a.pc \in {"read", "read_halt"} => a.n > 0,
         a.pc \in {"write", "write_halt"} => a.data \in Data /\ a.done < Len(a.data),
         got' \in [Procs -> Data \cup {<<>>}],
         UNCHANGED <<ring, table, running, alive, holds>>
  PROVE  PipeInv'
  <1> USE DEF table
  <1>1. at'[p] = a /\ \A q \in Procs \ {p} : at'[q] = at[q]
    BY DEF PipeInv, Maps
  <1>2. Maps'
    BY DEF PipeInv, Maps
  <1>3. running' \in alive' /\ 1 \in alive' /\ alive' \subseteq Procs /\ UNCHANGED <<ring, gen>>
        /\ open' \in [Slots -> SUBSET Ends] /\ used' \subseteq used /\ UsedWhileOpen'
    BY DEF PipeInv, Alone, TypeOK, UsedWhileOpen
  <1>4. AllocInv'
    BY <1>1 DEF AllocInv
  <1>5. \A q \in Procs : at'[q] # at[q] => q = p /\ at'[q] = a
    BY <1>1
  <1>6. QED
    BY <1>2, <1>3, <1>4, <1>5, QuietStep DEF Inside

LEMMA CallSteps ==
  ASSUME PipeInv, NEW p \in Procs,
         \/ SysPipe(p) \/ ReadBlock(p) \/ ReadEof(p) \/ WriteBlock(p) \/ WriteFail(p)
         \/ \E h \in Handles, n \in 1 .. MaxLen : SysRead(p, h, n)
         \/ \E h \in Handles, data \in Data : SysWrite(p, h, data)
  PROVE  PipeInv'
  <1> USE DEF Runs, Goto
  <1>1. /\ at[p] \in Calls /\ running = p /\ at[p].pc \notin Inside /\ at[p].pc \in {"user", "read", "write"}
        /\ UNCHANGED <<ring, table, running, alive, holds>>
        /\ got \in [Procs -> Data \cup {<<>>}] /\ got' \in [Procs -> Data \cup {<<>>}]
    <2>1. at[p] \in Calls /\ got \in [Procs -> Data \cup {<<>>}]
      BY DEF PipeInv, Maps
    <2>2. /\ running = p /\ at[p].pc \notin Inside /\ at[p].pc \in {"user", "read", "write"}
          /\ UNCHANGED <<ring, table, running, alive, holds>> /\ (got' = got \/ got' = [got EXCEPT ![p] = <<>>])
      BY DEF Inside, SysPipe, ReadBlock, ReadEof, WriteBlock, WriteFail, SysRead, SysWrite
    <2>3. QED
      BY <2>1, <2>2
  <1>2. ASSUME at' = [at EXCEPT ![p] = User] PROVE PipeInv'
    BY <1>1, <1>2, UserMade, Moves
  <1>3. ASSUME NEW pc \in {"read_halt", "write_halt"}, at' = [at EXCEPT ![p] = [at[p] EXCEPT !.pc = pc]],
               pc = "read_halt" => at[p].pc = "read", pc = "write_halt" => at[p].pc = "write"
        PROVE  PipeInv'
    <2> DEFINE a == [at[p] EXCEPT !.pc = pc]
    <2>1. /\ a \in Calls /\ a.pc = pc
          /\ a.i = at[p].i /\ a.n = at[p].n /\ a.data = at[p].data /\ a.done = at[p].done
      BY <1>1, <1>3 DEF Places, Calls
    <2>2. at' = [at EXCEPT ![p] = a]
      BY <1>3
    <2> HIDE DEF a
    <2>3. QED
      BY <1>1, <1>3, <2>1, <2>2, Moves DEF PipeInv, CallInv
  <1>4. CASE SysPipe(p)
    <2>1. PICK i \in Slots \ used : gen[i] < MaxGen /\ at' = [at EXCEPT ![p] = [User EXCEPT !.pc = "alloc", !.i = i]]
      BY <1>4 DEF SysPipe
    <2> DEFINE a == [User EXCEPT !.pc = "alloc", !.i = i]
    <2>2. a \in Calls /\ a.pc = "alloc" /\ a.i = i
      <3>1. i \in 0 .. NPipes
        BY PipeAssumption DEF Slots
      <3>2. QED
        BY <3>1, UserMade DEF Calls, Places
    <2>3. at' = [at EXCEPT ![p] = a]
      BY <2>1
    <2> HIDE DEF a
    <2>4. QED
      BY <1>1, <2>1, <2>2, <2>3, Moves
  <1>5. ASSUME NEW h \in Handles, NEW n \in 1 .. MaxLen, SysRead(p, h, n) PROVE PipeInv'
    <2>1. h[1] \in Slots /\ h[1] \in 0 .. NPipes /\ h[3] \in 0 .. MaxGen /\ n \in 0 .. MaxLen /\ n > 0
      BY Sizes, PipeAssumption DEF Handles, Slots
    <2> DEFINE a == [User EXCEPT !.pc = "read", !.i = h[1], !.g = h[3], !.n = n]
    <2>2. a \in Calls /\ a.pc = "read" /\ a.i = h[1] /\ a.n = n
      BY <2>1, UserMade DEF Calls, Places
    <2>3. at' = [at EXCEPT ![p] = a]
      BY <1>5 DEF SysRead
    <2> HIDE DEF a
    <2>4. QED
      BY <1>1, <2>1, <2>2, <2>3, Moves
  <1>6. ASSUME NEW h \in Handles, NEW data \in Data, SysWrite(p, h, data) PROVE PipeInv'
    <2>1. h[1] \in Slots /\ h[1] \in 0 .. NPipes /\ h[3] \in 0 .. MaxGen
      BY Sizes, PipeAssumption DEF Handles, Slots
    <2>2. Len(data) > 0
      BY DEF Data
    <2> DEFINE a == [User EXCEPT !.pc = "write", !.i = h[1], !.g = h[3], !.data = data]
    <2>3. a \in Calls /\ a.pc = "write" /\ a.i = h[1] /\ a.data = data /\ a.done = 0
      <3>1. User.done = 0
        BY DEF User
      <3>2. QED
        BY <2>1, <3>1, UserMade DEF Calls, Places
    <2>4. at' = [at EXCEPT ![p] = a]
      BY <1>6 DEF SysWrite
    <2> HIDE DEF a
    <2>5. QED
      BY <1>1, <2>1, <2>2, <2>3, <2>4, Moves
  <1>7. CASE ReadBlock(p) \/ WriteBlock(p)
    BY <1>3, <1>7 DEF ReadBlock, WriteBlock
  <1>8. CASE ReadEof(p) \/ WriteFail(p)
    BY <1>2, <1>8 DEF ReadEof, WriteFail
  <1>9. QED
    BY <1>4, <1>5, <1>6, <1>7, <1>8

LEMMA OtherSteps ==
  ASSUME PipeInv, TickIn = {}, NEW p \in Procs,
         \/ End(p) \/ Tick(p)
         \/ \E q \in Procs : Fork(p, q)
         \/ \E h \in Handles : SysClose(p, h)
  PROVE  PipeInv'
  <1> USE DEF Runs, Goto, table
  <1>1. /\ at \in [Procs -> Calls] /\ holds \in [Procs -> SUBSET Handles] /\ running \in alive
        /\ alive \subseteq Procs /\ open \in [Slots -> SUBSET Ends] /\ running \in Procs /\ Maps
        /\ UNCHANGED <<ring, gen, got>> /\ 1 \in alive
    BY DEF PipeInv, Alone, TypeOK, Maps, End, Tick, Fork, SysClose
  <1>2. CASE End(p)
    <2>1. PICK a \in Calls : a = User /\ a.pc = "user" /\ at' = [at EXCEPT ![p] = a]
      BY <1>2, UserMade DEF End
    <2>2. \A q \in Procs : at'[q] # at[q] => q = p /\ at'[q] = a /\ at[q].pc \notin Inside
      BY <1>1, <1>2, <2>1 DEF End, PipeInv, Alone, Inside
    <2>3. Maps' /\ UsedWhileOpen' /\ UNCHANGED <<open, used>>
      BY <1>1, <1>2, <2>1 DEF Maps, End, PipeInv, UsedWhileOpen
    <2>4. /\ running' \in alive' /\ 1 \in alive' /\ alive' \subseteq Procs
          /\ running' # running => at[running].pc \notin Inside
      <3>1. 1 \in alive'
        BY <1>1, <1>2 DEF End, PipeInv, Alone
      <3>2. CASE p # running
        BY <1>1, <1>2, <3>2 DEF End
      <3>3. CASE p = running
        BY <1>1, <1>2, <3>1, <3>3 DEF End, Inside
      <3>4. QED
        BY <3>1, <3>2, <3>3
    <2>5. AllocInv' \/ at'[running'] = at[running']
      BY <1>1, <2>1, <2>2, <2>4 DEF AllocInv
    <2>6. QED
      BY <1>1, <2>1, <2>2, <2>3, <2>4, <2>5, QuietStep DEF Inside
  <1>3. CASE Tick(p)
    <2>1. at[running].pc \notin Inside /\ running' = p /\ p \in alive /\ UNCHANGED <<open, used, alive, holds>>
      BY <1>3 DEF Tick, InWindow, Halted, Inside
    <2> DEFINE a == Woken(running)
    <2>2. /\ a \in Calls
          /\ \/ a = at[running]
             \/ /\ at[running].pc = "read_halt" /\ a.pc = "read"
                /\ a.i = at[running].i /\ a.n = at[running].n
             \/ /\ at[running].pc = "write_halt" /\ a.pc = "write" /\ a.i = at[running].i
                /\ a.data = at[running].data /\ a.done = at[running].done
      <3>1. at[running] \in Calls
        BY <1>1
      <3>2. CASE at[running].pc = "read_halt"
        BY <3>1, <3>2 DEF Woken, Calls, Places
      <3>3. CASE at[running].pc = "write_halt"
        BY <3>1, <3>3 DEF Woken, Calls, Places
      <3>4. CASE at[running].pc \notin {"read_halt", "write_halt"}
        BY <3>1, <3>4 DEF Woken
      <3>5. QED
        BY <3>2, <3>3, <3>4
    <2>3. at' = [at EXCEPT ![running] = a]
      BY <1>3 DEF Tick
    <2> HIDE DEF a
    <2>4. \A q \in Procs : at'[q] # at[q] => q = running /\ at'[q] = a /\ a # at[running]
      BY <1>1, <2>2, <2>3
    <2>5. Maps' /\ UsedWhileOpen'
      BY <1>1, <2>1, <2>2, <2>3 DEF Maps, PipeInv, UsedWhileOpen
    <2>6. AllocInv' \/ at'[running'] = at[running']
      BY <1>1, <2>1, <2>2, <2>3, <2>4 DEF AllocInv
    <2>7. CallInv
      BY DEF PipeInv
    <2>8. QED
      BY <1>1, <2>1, <2>2, <2>3, <2>4, <2>5, <2>6, <2>7, QuietStep DEF Inside, CallInv
  <1>4. ASSUME NEW q \in Procs, Fork(p, q) PROVE PipeInv'
    <2>1. Maps' /\ UsedWhileOpen' /\ UNCHANGED <<open, used, at, running>>
      BY <1>1, <1>4 DEF Maps, Fork, PipeInv, UsedWhileOpen
    <2>2. running' \in alive' /\ 1 \in alive' /\ alive' \subseteq Procs
      BY <1>1, <1>4 DEF Fork
    <2>3. QED
      BY <1>1, <2>1, <2>2, QuietStep
  <1>5. ASSUME NEW h \in Handles, SysClose(p, h) PROVE PipeInv'
    <2>1. h[1] \in Slots /\ at[running].pc = "user" /\ UNCHANGED <<at, running, alive>>
      BY <1>5 DEF SysClose, Handles
    <2>2. /\ open' = [open EXCEPT ![h[1]] = IF h[1] \in used THEN open[h[1]] \ {h[2]} ELSE @]
          /\ used' = IF open[h[1]] \ {h[2]} = {} THEN used \ {h[1]} ELSE used
      BY <1>5 DEF SysClose
    <2>3. Maps'
      BY <1>1, <1>5 DEF Maps, SysClose
    <2>4. UsedWhileOpen' /\ open' \in [Slots -> SUBSET Ends] /\ used' \subseteq used
      BY <1>1, <2>1, <2>2 DEF PipeInv, UsedWhileOpen
    <2>5. QED
      BY <1>1, <2>1, <2>3, <2>4, QuietStep DEF Inside
  <1>6. QED
    BY <1>2, <1>3, <1>4, <1>5

-----------------------------------------------------------------------------
(* Allocations and copies. *)

(* The position a reader started from, and where the head is behind it.      *)
LEMMA Positions ==
  ASSUME NEW t \in 0 .. BufSize - 1, NEW c \in 0 .. BufSize, NEW n \in 0 .. c
  PROVE  /\ (t + n) % BufSize \in 0 .. BufSize - 1
         /\ (((t + n) % BufSize) - n) % BufSize = t
         /\ (t - n) % BufSize \in 0 .. BufSize - 1
         /\ (((t - n) % BufSize) + c) % BufSize = (t + (c - n)) % BufSize
         /\ (((t - n) % BufSize) + n) % BufSize = t
  <1>1. BufSize \in Nat \ {0}
    BY Sizes
  <1>2. (t + n) % BufSize = IF t + n < BufSize THEN t + n ELSE t + n - BufSize
    BY <1>1, Around
  <1>3. (t - n) % BufSize = IF t - n < 0 THEN t - n + BufSize ELSE t - n
    BY <1>1, Around
  <1>4. (((t + n) % BufSize) - n) % BufSize = t
    <2>1. /\ -BufSize <= ((t + n) % BufSize) - n /\ ((t + n) % BufSize) - n < 2 * BufSize
          /\ ((t + n) % BufSize) - n \in Int
      BY <1>1, <1>2
    <2>2. QED
      BY <1>1, <1>2, <2>1, Around
  <1>5. ASSUME NEW d \in n .. c PROVE (((t - n) % BufSize) + d) % BufSize = (t + (d - n)) % BufSize
    <2>1. ((t - n) % BufSize) + d \in Int /\ 0 <= ((t - n) % BufSize) + d /\ ((t - n) % BufSize) + d < 2 * BufSize
      BY <1>1, <1>3
    <2>2. t + (d - n) \in Int /\ 0 <= t + (d - n) /\ t + (d - n) < 2 * BufSize
      BY <1>1
    <2>3. QED
      BY <1>1, <1>3, <2>1, <2>2, Around
  <1>6. (t + (n - n)) % BufSize = t
    BY <1>1
  <1>7. QED
    BY <1>1, <1>2, <1>3, <1>4, <1>5, <1>6

(* The same, going forward: the second chunk lies behind the first.          *)
LEMMA Behind ==
  ASSUME NEW t \in 0 .. BufSize - 1, NEW c \in 0 .. BufSize, NEW n \in 0 .. BufSize - c
  PROVE  /\ (((t + c) % BufSize) + n) % BufSize = (t + c + n) % BufSize
         /\ \A k \in 1 .. n : (((t + c) % BufSize) + k - 1) % BufSize = (t + (c + k) - 1) % BufSize
  <1>1. BufSize \in Nat \ {0}
    BY Sizes
  <1>2. (t + c) % BufSize = IF t + c < BufSize THEN t + c ELSE t + c - BufSize
    BY <1>1, Around
  <1>3. ASSUME NEW d \in 0 .. n PROVE (((t + c) % BufSize) + d) % BufSize = (t + c + d) % BufSize
    <2>1. ((t + c) % BufSize) + d \in Int /\ 0 <= ((t + c) % BufSize) + d /\ ((t + c) % BufSize) + d < 2 * BufSize
      BY <1>1, <1>2
    <2>2. t + c + d \in Int /\ 0 <= t + c + d /\ t + c + d < 2 * BufSize
      BY <1>1
    <2>3. QED
      BY <1>1, <1>2, <2>1, <2>2, Around
  <1>4. ASSUME NEW k \in 1 .. n
        PROVE  (((t + c) % BufSize) + k - 1) % BufSize = (t + (c + k) - 1) % BufSize
    <2>1. k - 1 \in 0 .. n /\ (t + c) % BufSize \in Int
      BY <1>1, <1>2
    <2>2. (((t + c) % BufSize) + (k - 1)) % BufSize = (t + c + (k - 1)) % BufSize
      BY <1>3, <2>1
    <2>3. ((t + c) % BufSize) + (k - 1) = ((t + c) % BufSize) + k - 1 /\ t + c + (k - 1) = t + (c + k) - 1
      BY <2>1
    <2>4. QED
      BY <2>2, <2>3
  <1>5. QED
    BY <1>3, <1>4

(* Two positions less than a ring apart are not the same cell. *)
LEMMA Apart ==
  ASSUME NEW t \in 0 .. BufSize - 1, NEW k \in 1 .. BufSize, NEW l \in 1 .. BufSize,
         (t + k - 1) % BufSize = (t + l - 1) % BufSize
  PROVE  k = l
  <1>1. BufSize \in Nat \ {0}
    BY Sizes
  <1>2. ASSUME NEW m \in 1 .. BufSize
        PROVE  (t + m - 1) % BufSize = IF t + m - 1 < BufSize THEN t + m - 1 ELSE t + m - 1 - BufSize
    BY <1>1, Around
  <1>3. /\ (t + k - 1) % BufSize = IF t + k - 1 < BufSize THEN t + k - 1 ELSE t + k - 1 - BufSize
        /\ (t + l - 1) % BufSize = IF t + l - 1 < BufSize THEN t + l - 1 ELSE t + l - 1 - BufSize
    BY <1>2
  <1>4. QED
    BY <1>1, <1>3

LEMMA InRing ==
  ASSUME NEW t \in Int PROVE t % BufSize \in 0 .. BufSize - 1
  BY Sizes

(* What every step of a copy leaves in order. *)
LEMMA Frame ==
  ASSUME PipeInv, NEW p \in Procs, running = p, NEW a \in Calls, at' = [at EXCEPT ![p] = a],
         UNCHANGED <<running, alive>>, a.pc # "alloc",
         a.pc # "user" => a.i \in Slots,
         a.pc \in {"read", "read_halt", "read_count"} => a.n > 0,
         a.pc \in {"write", "write_halt", "write_count"} => a.data \in Data /\ a.done < Len(a.data),
         got' \in [Procs -> Data \cup {<<>>}], holds' \in [Procs -> SUBSET Handles]
  PROVE  /\ Maps' /\ Alone' /\ CallInv' /\ AllocInv'
         /\ at'[running'] = a /\ at'[p] = a /\ running' \in alive' /\ alive' \subseteq Procs
  <1>1. at'[p] = a /\ \A q \in Procs \ {p} : at'[q] = at[q]
    BY DEF PipeInv, Maps
  <1>2. Maps'
    BY DEF PipeInv, Maps
  <1>3. Alone'
    BY <1>1 DEF PipeInv, Alone
  <1>4. CallInv' /\ AllocInv'
    BY <1>1 DEF PipeInv, CallInv, AllocInv
  <1>5. QED
    BY <1>1, <1>2, <1>3, <1>4 DEF PipeInv, TypeOK

(* A copy out of the ring moves the tail; the bytes stay where they were.    *)
LEMMA ReadCopyStep ==
  ASSUME PipeInv, NEW p \in Procs, ReadCopy(p)
  PROVE  PipeInv' /\ \A j \in Slots : From(j)' = From(j)
  <1> USE DEF Runs, Goto
  <1>1. PICK i \in Slots : i = at[p].i
    BY DEF ReadCopy, PipeInv, CallInv
  <1>2. /\ running = p /\ at[p].pc = "read" /\ count[i] > 0 /\ at[p] \in Calls
        /\ UNCHANGED <<buf, head, count, table, running, alive, got, holds>>
        /\ at[p].n \in 1 .. MaxLen
    BY <1>1, Sizes DEF ReadCopy, PipeInv, Maps, CallInv, Calls
  <1>3. /\ count[i] \in 1 .. BufSize /\ tail[i] \in 0 .. BufSize - 1 /\ From(i) = tail[i]
        /\ buf[i] \in [0 .. BufSize - 1 -> Bytes]
    BY <1>2, Sizes DEF PipeInv, TypeOK, RingInv, From
  <1>4. PICK take \in 1 .. count[i] : take = Least(at[p].n, count[i])
    BY <1>2, <1>3, Sizes DEF Least
  <1>5. take \in 1 .. MaxLen
    BY <1>2, <1>3, <1>4, Sizes DEF Least
  <1> DEFINE bytes == [k \in 1 .. take |-> buf[i][(tail[i] + k - 1) % BufSize]]
             a == [at[p] EXCEPT !.pc = "read_count", !.n = take, !.data = bytes]
  <1>6. bytes \in [1 .. take -> Bytes] /\ bytes \in Data
    <2>1. ASSUME NEW k \in 1 .. take PROVE buf[i][(tail[i] + k - 1) % BufSize] \in Bytes
      <3>1. tail[i] + k - 1 \in Int
        BY <1>3, Sizes
      <3>2. QED
        BY <1>3, <3>1, InRing
    <2>2. bytes \in [1 .. take -> Bytes]
      BY <2>1
    <2>3. QED
      BY <1>5, <2>2 DEF Data
  <1>7. \A k \in 1 .. take : bytes[k] = buf[i][(tail[i] + k - 1) % BufSize]
    OBVIOUS
  <1>8. at' = [at EXCEPT ![p] = a] /\ tail' = [tail EXCEPT ![i] = (@ + take) % BufSize]
    BY <1>1, <1>4 DEF ReadCopy
  <1> HIDE DEF bytes
  <1>9. a \in Calls /\ a.pc = "read_count" /\ a.i = i /\ a.n = take /\ a.data = bytes
    <2>1. PICK c \in Calls : c = at[p] /\ c.i = i
      BY <1>1, <1>2
    <2>2. take \in 0 .. MaxLen /\ "read_count" \in Places
      BY <1>5 DEF Places
    <2>3. a = [c EXCEPT !.pc = "read_count", !.n = take, !.data = bytes]
      BY <2>1
    <2>4. QED
      BY <1>6, <2>1, <2>2, <2>3 DEF Calls
  <1> HIDE DEF a
  <1>10. /\ Maps' /\ Alone' /\ CallInv' /\ AllocInv'
         /\ at'[running'] = a /\ at'[p] = a /\ running' \in alive' /\ alive' \subseteq Procs
    <2>1. /\ got' \in [Procs -> Data \cup {<<>>}] /\ holds' \in [Procs -> SUBSET Handles]
          /\ UNCHANGED <<running, alive>> /\ take > 0
      BY <1>2, <1>5 DEF PipeInv, Maps
    <2>2. QED
      BY <1>2, <1>8, <1>9, <2>1, Frame
  <1>11. \A j \in Slots : From(j)' = From(j)
    <2>1. \A j \in Slots \ {i} : From(j)' = From(j)
      BY <1>2, <1>8, <1>9, <1>10 DEF From, PipeInv, TypeOK
    <2>2. From(i)' = (tail'[i] - take) % BufSize
      BY <1>9, <1>10 DEF From
    <2>3. tail'[i] = (tail[i] + take) % BufSize
      BY <1>8 DEF PipeInv, TypeOK
    <2>4. (((tail[i] + take) % BufSize) - take) % BufSize = tail[i]
      <3>1. count[i] \in 0 .. BufSize /\ take \in 0 .. count[i]
        BY <1>3
      <3>2. QED
        BY <1>3, <3>1, Positions
    <2>5. From(i)' = From(i)
      BY <1>3, <2>2, <2>3, <2>4
    <2>6. QED
      BY <2>1, <2>5
  <1>12. TypeOK'
    <2>1. (tail[i] + take) % BufSize \in 0 .. BufSize - 1
      <3>1. tail[i] + take \in Int
        BY <1>3
      <3>2. QED
        BY <3>1, InRing
    <2>2. tail' \in [Slots -> 0 .. BufSize - 1]
      BY <1>8, <2>1 DEF PipeInv, TypeOK
    <2>3. QED
      BY <1>2, <1>10, <2>2, Typed DEF PipeInv, TypeOK, table
  <1>13. RingInv'
    <2>1. \A j \in Slots : Coming(j)' = 0 /\ Coming(j) = 0
      BY <1>2, <1>9, <1>10 DEF Coming
    <2>2. QED
      BY <1>2, <1>11, <2>1 DEF PipeInv, RingInv
  <1>14. CopyInv' /\ UsedWhileOpen'
    <2>1. ASSUME NEW k \in 1 .. take PROVE Cell(i, k)' = bytes[k]
      <3>1. From(i)' = tail[i] /\ buf' = buf
        BY <1>2, <1>3, <1>11
      <3>2. QED
        BY <1>7, <3>1 DEF Cell
    <2>2. QED
      BY <1>2, <1>4, <1>6, <1>9, <1>10, <2>1 DEF CopyInv, PipeInv, UsedWhileOpen, table
  <1>15. QED
    BY <1>10, <1>11, <1>12, <1>13, <1>14 DEF PipeInv

(* With the count the bytes read leave the pipe: it starts behind them.      *)
LEMMA ReadCountStep ==
  ASSUME PipeInv, NEW p \in Procs, ReadCount(p), NEW i \in Slots, i = at[p].i
  PROVE  /\ PipeInv' /\ at[p].n \in 1 .. count[i]
         /\ count' = [count EXCEPT ![i] = @ - at[p].n]
         /\ \A j \in Slots \ {i} : From(j)' = From(j)
         /\ From(i)' = (From(i) + at[p].n) % BufSize
  <1> USE DEF Runs, Goto
  <1>1. /\ running = p /\ at[p].pc = "read_count" /\ at[p] \in Calls
        /\ UNCHANGED <<buf, head, tail, table, running, alive, holds>>
        /\ count' = [count EXCEPT ![i] = (@ - at[p].n) % Wrap]
        /\ got' = [got EXCEPT ![p] = at[p].data] /\ at' = [at EXCEPT ![p] = User]
    BY DEF ReadCount, PipeInv, Maps
  <1>2. at[p].n > 0 /\ at[p].n <= count[i] /\ at[p].n \in Int
    BY <1>1, Sizes DEF PipeInv, CallInv, CopyInv, Calls
  <1>3. /\ count[i] \in 0 .. BufSize /\ tail[i] \in 0 .. BufSize - 1
        /\ From(i) = (tail[i] - at[p].n) % BufSize
    BY <1>1, Sizes DEF PipeInv, TypeOK, RingInv, From
  <1>4. PICK n \in 1 .. count[i] : n = at[p].n
    BY <1>2, <1>3
  <1>5. count' = [count EXCEPT ![i] = @ - n]
    <2>1. (count[i] - n) % Wrap = count[i] - n
      BY <1>3, Sizes
    <2>2. QED
      BY <1>1, <1>4, <2>1
  <1>6. /\ Maps' /\ Alone' /\ CallInv' /\ AllocInv'
        /\ at'[running'] = User /\ running' \in alive' /\ alive' \subseteq Procs
    <2>1. User \in Calls /\ User.pc = "user"
      BY UserMade
    <2>2. got' \in [Procs -> Data \cup {<<>>}] /\ holds' \in [Procs -> SUBSET Handles]
      BY <1>1 DEF PipeInv, Maps, Calls
    <2>3. PICK a \in Calls : a = User /\ a.pc = "user"
      BY <2>1
    <2>4. at' = [at EXCEPT ![p] = a] /\ UNCHANGED <<running, alive>>
      BY <1>1, <2>3
    <2>5. QED
      BY <1>1, <2>2, <2>3, <2>4, Frame
  <1>7. \A j \in Slots : From(j)' = tail[j] /\ Coming(j)' = 0 /\ Coming(j) = 0
    BY <1>1, <1>6, UserMade DEF From, Coming
  <1>8. \A j \in Slots \ {i} : From(j)' = From(j)
    BY <1>1, <1>7 DEF From
  <1>9. /\ From(i)' = (From(i) + n) % BufSize
        /\ (((tail[i] - n) % BufSize) + count[i]) % BufSize = (tail[i] + (count[i] - n)) % BufSize
        /\ (tail[i] - n) % BufSize \in 0 .. BufSize - 1
    <2>1. n \in 0 .. count[i]
      BY <1>4
    <2>2. QED
      BY <1>3, <1>4, <1>7, <2>1, Positions
  <1>10. TypeOK'
    <2>1. count[i] - n \in 0 .. Wrap - 1
      BY <1>3, Sizes
    <2>2. count' \in [Slots -> 0 .. Wrap - 1]
      BY <1>1, <1>5, <2>1 DEF PipeInv, TypeOK
    <2>3. QED
      BY <1>1, <1>6, <2>2, Typed DEF PipeInv, TypeOK, table
  <1>11. RingInv'
    <2>1. head[i] = (((tail[i] - n) % BufSize) + count[i] + 0) % BufSize
      BY <1>1, <1>3, <1>4, <1>7 DEF PipeInv, RingInv
    <2>2. head[i] = (tail[i] + (count[i] - n) + 0) % BufSize
      BY <1>3, <1>9, <2>1, Sizes
    <2>3. count'[i] = count[i] - n /\ \A j \in Slots \ {i} : count'[j] = count[j]
      BY <1>1, <1>5 DEF PipeInv, TypeOK
    <2>4. count'[i] <= BufSize /\ head'[i] = (From(i)' + count'[i] + Coming(i)') % BufSize
      <3>1. From(i)' = tail[i] /\ Coming(i)' = 0 /\ head' = head
        BY <1>1, <1>7
      <3>2. count'[i] <= BufSize
        BY <1>3, <2>3, Sizes
      <3>3. QED
        BY <2>2, <2>3, <3>1, <3>2
    <2>5. ASSUME NEW j \in Slots \ {i}
          PROVE  count'[j] <= BufSize /\ head'[j] = (From(j)' + count'[j] + Coming(j)') % BufSize
      BY <1>1, <1>7, <1>8, <2>3 DEF PipeInv, RingInv
    <2>6. QED
      BY <2>4, <2>5 DEF RingInv
  <1>12. CopyInv' /\ UsedWhileOpen'
    BY <1>1, <1>6, UserMade DEF CopyInv, PipeInv, UsedWhileOpen, table
  <1>13. PipeInv'
    BY <1>6, <1>10, <1>11, <1>12 DEF PipeInv
  <1>14. QED
    BY <1>4, <1>5, <1>8, <1>9, <1>13

(* A copy into the ring goes behind the bytes that are in it.                *)
LEMMA WriteCopyStep ==
  ASSUME PipeInv, NEW p \in Procs, WriteCopy(p)
  PROVE  /\ PipeInv'
         /\ \A j \in Slots : From(j)' = From(j) /\ \A k \in 1 .. count[j] : Cell(j, k)' = Cell(j, k)
  <1> USE DEF Runs, Goto
  <1>1. PICK i \in Slots : i = at[p].i
    BY DEF WriteCopy, PipeInv, CallInv
  <1>2. /\ running = p /\ at[p].pc = "write" /\ count[i] # BufSize /\ at[p] \in Calls
        /\ UNCHANGED <<tail, count, table, running, alive, got, holds>> /\ "read" \in open[i]
        /\ at[p].data \in Data /\ at[p].done \in 0 .. MaxLen /\ at[p].done < Len(at[p].data)
    <2>1. /\ running = p /\ at[p].pc = "write" /\ count[i] # BufSize /\ "read" \in open[i]
          /\ UNCHANGED <<tail, count, table, running, alive, got, holds>>
      BY <1>1 DEF WriteCopy
    <2>2. at[p] \in Calls /\ at[p].data \in Data /\ at[p].done < Len(at[p].data)
      BY <2>1 DEF PipeInv, Maps, CallInv
    <2>3. QED
      BY <2>1, <2>2 DEF Calls
  <1>3. /\ count[i] \in 0 .. BufSize - 1 /\ tail[i] \in 0 .. BufSize - 1 /\ From(i) = tail[i]
        /\ buf[i] \in [0 .. BufSize - 1 -> Bytes] /\ head[i] = (tail[i] + count[i]) % BufSize
    <2>1. Coming(i) = 0 /\ From(i) = tail[i]
      BY <1>2 DEF Coming, From
    <2>2. /\ count[i] \in 0 .. BufSize - 1 /\ tail[i] \in 0 .. BufSize - 1
          /\ buf[i] \in [0 .. BufSize - 1 -> Bytes]
      BY <1>2, Sizes DEF PipeInv, TypeOK, RingInv
    <2>3. head[i] = (tail[i] + count[i] + 0) % BufSize
      BY <2>1 DEF PipeInv, RingInv
    <2>4. tail[i] + count[i] + 0 = tail[i] + count[i]
      BY <2>2
    <2>5. QED
      BY <2>1, <2>2, <2>3, <2>4
  <1>4. PICK c \in 0 .. BufSize - 1, t \in 0 .. BufSize - 1 : c = count[i] /\ t = tail[i]
    BY <1>3
  <1>5. PICK len \in 1 .. MaxLen : len = Len(at[p].data) /\ at[p].data \in [1 .. len -> Bytes]
    BY <1>2 DEF Data
  <1>6. (BufSize - c) % Wrap = BufSize - c
    BY Sizes
  <1>7. PICK chunk \in 1 .. BufSize - count[i] :
          chunk = Least(Len(at[p].data) - at[p].done, (BufSize - count[i]) % Wrap) /\ at[p].done + chunk <= len
    <2>1. PICK done \in Nat : done = at[p].done /\ done < len
      BY <1>2, <1>5, Sizes
    <2> DEFINE room == Least(len - done, BufSize - c)
    <2>2. room \in 1 .. BufSize - c /\ done + room <= len
      <3>1. len - done \in Nat \ {0} /\ BufSize - c \in Nat \ {0}
        BY <2>1, Sizes
      <3>2. QED
        BY <2>1, <3>1, Sizes DEF Least
    <2>3. QED
      BY <1>4, <1>5, <1>6, <2>1, <2>2
  <1>8. chunk \in 0 .. MaxLen /\ chunk \in 1 .. BufSize
    <2>1. at[p].done \in Nat /\ at[p].done + chunk <= len /\ chunk \in 1 .. BufSize - c
      BY <1>4, <1>2, <1>7, Sizes
    <2>2. QED
      BY <2>1, Sizes
  <1> DEFINE place == [k \in 1 .. chunk |-> (head[i] + k - 1) % BufSize]
             b == [x \in DOMAIN buf[i] |->
                     IF \E k \in 1 .. chunk : place[k] = x
                     THEN at[p].data[at[p].done + (CHOOSE k \in 1 .. chunk : place[k] = x)] ELSE buf[i][x]]
             a == [at[p] EXCEPT !.pc = "write_count", !.n = chunk, !.seen = count[i]]
  <1>9. /\ at' = [at EXCEPT ![p] = a] /\ head' = [head EXCEPT ![i] = (@ + chunk) % BufSize]
        /\ buf' = [buf EXCEPT ![i] = b]
    BY <1>1, <1>7 DEF WriteCopy
  <1>10. \A k \in 1 .. chunk : place[k] = (tail[i] + (count[i] + k) - 1) % BufSize
    <2>1. chunk \in 0 .. BufSize - count[i] /\ count[i] \in 0 .. BufSize
      BY <1>3, <1>7, Sizes
    <2>2. \A k \in 1 .. chunk : (((tail[i] + count[i]) % BufSize) + k - 1) % BufSize = (tail[i] + (count[i] + k) - 1) % BufSize
      BY <1>3, <2>1, Behind
    <2>3. QED
      BY <1>3, <2>2
  <1>11. \A k, l \in 1 .. chunk : place[k] = place[l] => k = l
    <2>1. ASSUME NEW k \in 1 .. chunk, NEW l \in 1 .. chunk, place[k] = place[l] PROVE k = l
      <3>1. count[i] + k \in 1 .. BufSize /\ count[i] + l \in 1 .. BufSize
        <4>1. chunk \in 1 .. BufSize - c
          BY <1>4, <1>7
        <4>2. c + k \in 1 .. BufSize /\ c + l \in 1 .. BufSize
          BY <4>1, Sizes
        <4>3. QED
          BY <1>4, <4>2
      <3>2. (tail[i] + (count[i] + k) - 1) % BufSize = (tail[i] + (count[i] + l) - 1) % BufSize
        BY <1>10, <2>1
      <3>3. count[i] + k = count[i] + l
        BY <1>3, <3>1, <3>2, Apart
      <3>4. QED
        BY <1>3, <3>3
    <2>2. QED
      BY <2>1
  <1>12. \A k \in 1 .. chunk : place[k] \in 0 .. BufSize - 1
    <2>1. ASSUME NEW k \in 1 .. chunk PROVE place[k] \in 0 .. BufSize - 1
      <3>1. tail[i] + (count[i] + k) - 1 \in Int
        BY <1>3
      <3>2. QED
        BY <1>10, <3>1, InRing
    <2>2. QED
      BY <2>1
  <1>13. \A x \in 0 .. BufSize - 1 : (\A k \in 1 .. chunk : place[k] # x) => b[x] = buf[i][x]
    BY <1>3
  <1> HIDE DEF place
  <1>14. \A k \in 1 .. chunk : b[place[k]] = at[p].data[at[p].done + k]
    <2>1. ASSUME NEW k \in 1 .. chunk PROVE b[place[k]] = at[p].data[at[p].done + k]
      <3>1. (CHOOSE l \in 1 .. chunk : place[l] = place[k]) = k
        BY <1>11
      <3>2. place[k] \in DOMAIN buf[i]
        BY <1>3, <1>12
      <3>3. b[place[k]] = at[p].data[at[p].done + (CHOOSE l \in 1 .. chunk : place[l] = place[k])]
        BY <3>2
      <3>4. QED
        BY <3>1, <3>3
    <2>2. QED
      BY <2>1
  <1>15. b \in [0 .. BufSize - 1 -> Bytes]
    <2>1. ASSUME NEW x \in 0 .. BufSize - 1 PROVE b[x] \in Bytes
      <3>1. CASE \A k \in 1 .. chunk : place[k] # x
        BY <1>3, <1>13, <3>1
      <3>2. ASSUME NEW k \in 1 .. chunk, place[k] = x PROVE b[x] \in Bytes
        <4>1. at[p].done + k \in 1 .. len
          <5>1. PICK done \in 0 .. MaxLen : done = at[p].done
            BY <1>2
          <5>2. done + chunk <= len
            BY <1>7, <5>1
          <5>3. done + k \in 1 .. len
            BY <5>2
          <5>4. QED
            BY <5>1, <5>3
        <4>2. QED
          <5>1. b[x] = at[p].data[at[p].done + k]
            BY <1>14, <3>2
          <5>2. QED
            BY <1>5, <4>1, <5>1
      <3>3. QED
        BY <3>1, <3>2
    <2>2. b = [x \in 0 .. BufSize - 1 |-> b[x]]
      BY <1>3
    <2> HIDE DEF b
    <2>3. QED
      BY <2>1, <2>2
  <1>16. /\ a \in Calls /\ a.pc = "write_count" /\ a.i = i /\ a.n = chunk /\ a.seen = count[i]
         /\ a.data = at[p].data /\ a.done = at[p].done
    <2>1. PICK call \in Calls : call = at[p] /\ call.i = i
      BY <1>1, <1>2
    <2>2. chunk \in 0 .. MaxLen /\ "write_count" \in Places /\ count[i] \in 0 .. Wrap - 1
      BY <1>3, <1>8, Sizes DEF Places
    <2>3. a = [call EXCEPT !.pc = "write_count", !.n = chunk, !.seen = count[i]]
      BY <2>1
    <2>4. QED
      BY <2>1, <2>2, <2>3 DEF Calls
  <1> HIDE DEF a, b
  <1>17. /\ Maps' /\ Alone' /\ CallInv' /\ AllocInv'
         /\ at'[running'] = a /\ at'[p] = a /\ running' \in alive' /\ alive' \subseteq Procs
    <2>1. /\ got' \in [Procs -> Data \cup {<<>>}] /\ holds' \in [Procs -> SUBSET Handles]
          /\ UNCHANGED <<running, alive>>
      BY <1>2 DEF PipeInv, Maps
    <2>2. QED
      BY <1>2, <1>9, <1>16, <2>1, Frame
  <1>18. \A j \in Slots : From(j)' = tail[j] /\ From(j) = tail[j] /\ Coming(j) = 0
    BY <1>2, <1>16, <1>17 DEF From, Coming
  <1>19. /\ buf'[i] = b /\ \A j \in Slots \ {i} : buf'[j] = buf[j] /\ head'[j] = head[j] /\ Coming(j)' = 0
         /\ Coming(i)' = chunk /\ head'[i] = (head[i] + chunk) % BufSize
    BY <1>9, <1>16, <1>17 DEF PipeInv, TypeOK, Coming
  <1>20. TypeOK'
    <2>1. (head[i] + chunk) % BufSize \in 0 .. BufSize - 1
      <3>1. head[i] + chunk \in Int
        BY <1>8 DEF PipeInv, TypeOK
      <3>2. QED
        BY <3>1, InRing
    <2>2. head' \in [Slots -> 0 .. BufSize - 1]
      BY <1>9, <2>1 DEF PipeInv, TypeOK
    <2>3. buf' \in [Slots -> [0 .. BufSize - 1 -> Bytes]]
      BY <1>9, <1>15 DEF PipeInv, TypeOK
    <2>4. QED
      BY <1>2, <1>17, <2>2, <2>3, Typed DEF PipeInv, TypeOK, table
  <1>21. RingInv'
    <2>1. head'[i] = (tail[i] + count[i] + chunk) % BufSize
      <3>1. chunk \in 0 .. BufSize - count[i] /\ count[i] \in 0 .. BufSize
        BY <1>3, <1>7, Sizes
      <3>2. QED
        BY <1>3, <1>19, <3>1, Behind
    <2>2. count'[i] <= BufSize /\ head'[i] = (From(i)' + count'[i] + Coming(i)') % BufSize
      <3>1. From(i)' = tail[i] /\ Coming(i)' = chunk /\ count' = count
        BY <1>2, <1>18, <1>19
      <3>2. count[i] <= BufSize
        BY <1>3, Sizes
      <3>3. QED
        BY <2>1, <3>1, <3>2
    <2>3. ASSUME NEW j \in Slots \ {i}
          PROVE  count'[j] <= BufSize /\ head'[j] = (From(j)' + count'[j] + Coming(j)') % BufSize
      <3>1. count[j] <= BufSize /\ head[j] = (From(j) + count[j] + Coming(j)) % BufSize
        BY DEF PipeInv, RingInv
      <3>2. From(j)' = From(j) /\ Coming(j)' = Coming(j) /\ count' = count /\ head'[j] = head[j]
        BY <1>2, <1>18, <1>19
      <3>3. QED
        BY <3>1, <3>2
    <2>4. QED
      BY <2>2, <2>3 DEF RingInv
  <1>22. ASSUME NEW k \in 1 .. chunk PROVE Cell(i, count[i] + k)' = at[p].data[at[p].done + k]
    <2>1. Cell(i, count[i] + k)' = b[(tail[i] + (count[i] + k) - 1) % BufSize]
      BY <1>2, <1>18, <1>19 DEF Cell
    <2>2. QED
      BY <1>10, <1>14, <2>1
  <1>23. ASSUME NEW j \in Slots, NEW k \in 1 .. count[j] PROVE Cell(j, k)' = Cell(j, k)
    <2>1. CASE j # i
      BY <1>18, <1>19, <2>1 DEF Cell
    <2>2. CASE j = i
      <3>1. k \in 1 .. BufSize /\ tail[i] + k - 1 \in Int
        <4>1. k \in 1 .. c
          BY <1>4, <2>2
        <4>2. k \in 1 .. BufSize /\ t + k - 1 \in Int
          BY <4>1, Sizes
        <4>3. QED
          BY <1>4, <4>2
      <3>2. ASSUME NEW l \in 1 .. chunk PROVE place[l] # (tail[i] + k - 1) % BufSize
        <4>1. count[i] + l \in 1 .. BufSize /\ count[i] + l # k
          <5>1. chunk \in 1 .. BufSize - c /\ k \in 1 .. c
            BY <1>4, <1>7, <2>2
          <5>2. c + l \in 1 .. BufSize /\ c + l # k
            BY <5>1, Sizes
          <5>3. QED
            BY <1>4, <5>2
        <4>2. QED
          BY <1>3, <1>10, <3>1, <4>1, Apart
      <3>3. b[(tail[i] + k - 1) % BufSize] = buf[i][(tail[i] + k - 1) % BufSize]
        BY <1>13, <3>1, <3>2, InRing
      <3>4. QED
        BY <1>18, <1>19, <2>2, <3>3 DEF Cell
    <2>3. QED
      BY <2>1, <2>2
  <1>24. CopyInv' /\ UsedWhileOpen'
    <2>1. UsedWhileOpen'
      BY <1>2 DEF PipeInv, UsedWhileOpen, table
    <2>2. /\ a.seen = count'[a.i] /\ count'[a.i] + a.n <= BufSize
          /\ a.n > 0 /\ a.done + a.n <= Len(a.data) /\ "read" \in open'[a.i]
      <3>1. chunk \in 1 .. BufSize - c
        BY <1>4, <1>7
      <3>2. c + chunk <= BufSize /\ chunk > 0
        BY <3>1, Sizes
      <3>3. at[p].done + chunk <= Len(at[p].data)
        BY <1>5, <1>7
      <3>4. count' = count /\ open' = open
        BY <1>2 DEF table
      <3>5. QED
        BY <1>4, <1>2, <1>16, <3>2, <3>3, <3>4
    <2>3. LET e == at'[running'] IN
          /\ e.pc = "write_count" /\ e.i = i /\ e.n = chunk /\ e.data = at[p].data /\ e.done = at[p].done
      BY <1>16, <1>17
    <2>4. \A k \in 1 .. chunk : buf'[i][(From(i)' + (count'[i] + k) - 1) % BufSize] = at[p].data[at[p].done + k]
      BY <1>2, <1>22 DEF Cell
    <2>5. CopyInv'
      BY <1>16, <1>17, <2>2, <2>3, <2>4 DEF CopyInv, Cell
    <2>6. QED
      BY <2>1, <2>5
  <1>25. QED
    BY <1>17, <1>18, <1>20, <1>21, <1>23, <1>24 DEF PipeInv

(* With the count the bytes written are in the pipe.                         *)
LEMMA WriteCountStep ==
  ASSUME PipeInv, NEW p \in Procs, WriteCount(p), NEW i \in Slots, i = at[p].i
  PROVE  /\ PipeInv' /\ at[p].n > 0 /\ count[i] + at[p].n <= BufSize
         /\ count' = [count EXCEPT ![i] = @ + at[p].n]
         /\ \A j \in Slots : From(j)' = From(j)
  <1> USE DEF Runs, Goto
  <1>1. /\ running = p /\ at[p].pc = "write_count" /\ at[p] \in Calls
        /\ UNCHANGED <<buf, head, tail, table, running, alive, got, holds>>
        /\ count' = [count EXCEPT ![i] = (at[p].seen + at[p].n) % Wrap]
    BY DEF WriteCount, PipeInv, Maps
  <1>2. /\ at[p].seen = count[i] /\ at[p].n > 0 /\ count[i] + at[p].n <= BufSize
        /\ at[p].data \in Data /\ at[p].done + at[p].n <= Len(at[p].data)
    BY <1>1 DEF PipeInv, CallInv, CopyInv
  <1>3. PICK c \in 0 .. BufSize, n \in 1 .. BufSize : c = count[i] /\ n = at[p].n /\ c + n <= BufSize
    <2>1. count[i] \in 0 .. Wrap - 1 /\ count[i] <= BufSize /\ at[p].n \in Int
      BY <1>1, Sizes DEF PipeInv, TypeOK, RingInv, Calls
    <2>2. QED
      BY <1>2, <2>1, Sizes
  <1>4. count' = [count EXCEPT ![i] = c + n]
    <2>1. (c + n) % Wrap = c + n
      BY <1>3, Sizes
    <2>2. QED
      BY <1>1, <1>2, <1>3, <2>1
  <1>5. PICK a \in Calls : /\ at' = [at EXCEPT ![p] = a] /\ a.pc \in {"user", "write"}
                           /\ a.pc = "write" => a.i = i /\ a.data = at[p].data /\ a.done < Len(a.data)
    <2>1. PICK done \in 0 .. MaxLen, len \in 1 .. MaxLen :
            done = at[p].done + at[p].n /\ len = Len(at[p].data) /\ done <= len
      <3>1. PICK len \in 1 .. MaxLen : len = Len(at[p].data)
        BY <1>2 DEF Data
      <3>2. PICK d \in 0 .. MaxLen : d = at[p].done
        BY <1>1 DEF Calls
      <3>3. d + n <= len
        BY <1>2, <1>3, <3>1, <3>2
      <3>4. d + n \in 0 .. MaxLen
        BY <3>3, Sizes
      <3>5. QED
        BY <1>3, <3>1, <3>2, <3>3, <3>4
    <2>2. CASE done < len
      <3> DEFINE a == [at[p] EXCEPT !.pc = "write", !.done = done]
      <3>1. at' = [at EXCEPT ![p] = a]
        BY <2>1, <2>2 DEF WriteCount
      <3>2. a \in Calls /\ a.pc = "write" /\ a.i = i /\ a.data = at[p].data /\ a.done = done
        <4>1. PICK b \in Calls : b = at[p] /\ b.i = i
          BY <1>1
        <4>2. a = [b EXCEPT !.pc = "write", !.done = done] /\ "write" \in Places
          BY <4>1 DEF Places
        <4>3. QED
          BY <4>1, <4>2 DEF Calls
      <3> HIDE DEF a
      <3>3. QED
        BY <2>1, <2>2, <3>1, <3>2
    <2>3. CASE ~(done < len)
      <3>1. at' = [at EXCEPT ![p] = User]
        BY <2>1, <2>3 DEF WriteCount
      <3>2. QED
        BY <3>1, UserMade
    <2>4. QED
      BY <2>2, <2>3
  <1>6. /\ Maps' /\ Alone' /\ CallInv' /\ AllocInv'
        /\ at'[running'] = a /\ running' \in alive' /\ alive' \subseteq Procs
    <2>1. got' \in [Procs -> Data \cup {<<>>}] /\ holds' \in [Procs -> SUBSET Handles]
      BY <1>1 DEF PipeInv, Maps
    <2>2. /\ a.pc # "alloc" /\ a.pc \notin {"read", "read_halt", "read_count"}
          /\ a.pc # "user" => a.i \in Slots
          /\ a.pc \in {"write", "write_halt", "write_count"} => a.data \in Data /\ a.done < Len(a.data)
      BY <1>2, <1>5
    <2>3. UNCHANGED <<running, alive>>
      BY <1>1
    <2>4. QED
      BY <1>1, <1>5, <2>1, <2>2, <2>3, Frame
  <1>7. \A j \in Slots : From(j)' = tail[j] /\ From(j) = tail[j] /\ Coming(j)' = 0
    BY <1>1, <1>5, <1>6 DEF From, Coming
  <1>8. Coming(i) = n /\ \A j \in Slots \ {i} : Coming(j) = 0
    BY <1>1, <1>3 DEF Coming
  <1>9. count'[i] = c + n /\ \A j \in Slots \ {i} : count'[j] = count[j]
    BY <1>4 DEF PipeInv, TypeOK
  <1>10. TypeOK'
    <2>1. c + n \in 0 .. Wrap - 1
      BY <1>3, Sizes
    <2>2. count' \in [Slots -> 0 .. Wrap - 1]
      BY <1>4, <2>1 DEF PipeInv, TypeOK
    <2>3. QED
      BY <1>1, <1>6, <2>2, Typed DEF PipeInv, TypeOK, table
  <1>11. RingInv'
    <2>1. count'[i] <= BufSize /\ head'[i] = (From(i)' + count'[i] + Coming(i)') % BufSize
      <3>1. PICK t \in 0 .. BufSize - 1 : t = tail[i]
        BY DEF PipeInv, TypeOK
      <3>2. head[i] = (t + c + n) % BufSize
        BY <1>3, <1>7, <1>8, <3>1 DEF PipeInv, RingInv
      <3>3. t + (c + n) + 0 = t + c + n
        OBVIOUS
      <3>4. head'[i] = head[i] /\ From(i)' = t /\ Coming(i)' = 0
        BY <1>1, <1>7, <3>1
      <3>5. QED
        BY <1>3, <1>9, <3>2, <3>3, <3>4
    <2>2. ASSUME NEW j \in Slots \ {i}
          PROVE  count'[j] <= BufSize /\ head'[j] = (From(j)' + count'[j] + Coming(j)') % BufSize
      <3>1. count[j] <= BufSize /\ head[j] = (From(j) + count[j] + Coming(j)) % BufSize
        BY DEF PipeInv, RingInv
      <3>2. From(j)' = From(j) /\ Coming(j)' = Coming(j) /\ count'[j] = count[j] /\ head' = head
        BY <1>1, <1>7, <1>8, <1>9
      <3>3. QED
        BY <3>1, <3>2
    <2>3. QED
      BY <2>1, <2>2 DEF RingInv
  <1>12. CopyInv' /\ UsedWhileOpen'
    BY <1>1, <1>5, <1>6 DEF CopyInv, PipeInv, UsedWhileOpen, table
  <1>13. PipeInv'
    BY <1>6, <1>10, <1>11, <1>12 DEF PipeInv
  <1>14. QED
    BY <1>3, <1>4, <1>7, <1>13

(* A slot that is taken starts empty. *)
LEMMA AllocTakeStep ==
  ASSUME PipeInv, NEW p \in Procs, AllocTake(p), NEW i \in Slots, i = at[p].i
  PROVE  /\ PipeInv' /\ open[i] = {}
         /\ \A j \in Slots \ {i} : From(j)' = From(j)
  <1> USE DEF Runs, Goto
  <1>1. /\ running = p /\ at[p].pc = "alloc" /\ at[p] \in Calls
        /\ UNCHANGED <<buf, running, alive, got>> /\ at' = [at EXCEPT ![p] = User]
        /\ head' = [head EXCEPT ![i] = 0] /\ tail' = [tail EXCEPT ![i] = 0]
        /\ count' = [count EXCEPT ![i] = 0] /\ open' = [open EXCEPT ![i] = Ends]
        /\ used' = used \cup {i} /\ gen' = [gen EXCEPT ![i] = @ + 1]
        /\ holds' = [holds EXCEPT ![p] = @ \cup {<<i, e, gen[i] + 1>> : e \in Ends}]
    BY DEF AllocTake, PipeInv, Maps
  <1>2. PICK g \in 0 .. MaxGen : g = gen[i] /\ g < MaxGen /\ i \notin used
    BY <1>1 DEF PipeInv, TypeOK, AllocInv
  <1>3. g + 1 \in 1 .. MaxGen
    BY <1>2, Sizes
  <1>4. holds' \in [Procs -> SUBSET Handles]
    <2>1. {<<i, e, g + 1>> : e \in Ends} \subseteq Handles
      BY <1>3 DEF Handles
    <2>2. QED
      BY <1>1, <1>2, <2>1 DEF PipeInv, Maps
  <1>5. /\ Maps' /\ Alone' /\ CallInv' /\ AllocInv'
        /\ at'[running'] = User /\ running' \in alive' /\ alive' \subseteq Procs
    <2>1. PICK a \in Calls : a = User /\ a.pc = "user"
      BY UserMade
    <2>2. at' = [at EXCEPT ![p] = a] /\ UNCHANGED <<running, alive>> /\ got' \in [Procs -> Data \cup {<<>>}]
      BY <1>1, <2>1 DEF PipeInv, Maps
    <2>3. QED
      BY <1>1, <1>4, <2>1, <2>2, Frame
  <1>6. \A j \in Slots : /\ From(j)' = tail'[j] /\ From(j) = tail[j]
                         /\ Coming(j)' = 0 /\ Coming(j) = 0
    BY <1>1, <1>5, UserMade DEF From, Coming
  <1>7. /\ head'[i] = 0 /\ tail'[i] = 0 /\ count'[i] = 0 /\ open'[i] = Ends
        /\ \A j \in Slots \ {i} : /\ head'[j] = head[j] /\ tail'[j] = tail[j] /\ count'[j] = count[j]
                                  /\ open'[j] = open[j]
    BY <1>1 DEF PipeInv, TypeOK
  <1>8. TypeOK'
    <2>1. /\ head' \in [Slots -> 0 .. BufSize - 1] /\ tail' \in [Slots -> 0 .. BufSize - 1]
          /\ count' \in [Slots -> 0 .. Wrap - 1] /\ buf' \in [Slots -> [0 .. BufSize - 1 -> Bytes]]
      BY <1>1, Sizes DEF PipeInv, TypeOK
    <2>2. gen' \in [Slots -> 0 .. MaxGen]
      BY <1>1, <1>2, <1>3 DEF PipeInv, TypeOK
    <2>3. open' \in [Slots -> SUBSET Ends] /\ used' \subseteq Slots
      BY <1>1 DEF PipeInv, TypeOK
    <2>4. QED
      BY <1>5, <2>1, <2>2, <2>3, Typed
  <1>9. RingInv'
    <2>1. count'[i] <= BufSize /\ head'[i] = (From(i)' + count'[i] + Coming(i)') % BufSize
      BY <1>6, <1>7, Sizes
    <2>2. ASSUME NEW j \in Slots \ {i}
          PROVE  count'[j] <= BufSize /\ head'[j] = (From(j)' + count'[j] + Coming(j)') % BufSize
      BY <1>6, <1>7 DEF PipeInv, RingInv
    <2>3. QED
      BY <2>1, <2>2 DEF RingInv
  <1>10. UsedWhileOpen' /\ open[i] = {}
    BY <1>1, <1>2, <1>7 DEF PipeInv, UsedWhileOpen, Ends
  <1>11. CopyInv'
    BY <1>5, UserMade DEF CopyInv
  <1>12. QED
    BY <1>5, <1>6, <1>7, <1>8, <1>9, <1>10, <1>11 DEF PipeInv

LEMMA NextKeeps == TickIn = {} /\ PipeInv /\ [Next]_vars => PipeInv'
  <1> SUFFICES ASSUME TickIn = {}, PipeInv, [Next]_vars
               PROVE  PipeInv'
    OBVIOUS
  <1>1. CASE UNCHANGED vars
    BY <1>1 DEF vars, ring, table, PipeInv, TypeOK, Maps, Alone, RingInv, From, Coming, Cell, CallInv,
                AllocInv, CopyInv, UsedWhileOpen
  <1>2. ASSUME NEW p \in Procs, UserStep(p) PROVE PipeInv'
    BY <1>2, CallSteps, OtherSteps DEF UserStep
  <1>3. ASSUME NEW p \in Procs, KernelStep(p) PROVE PipeInv'
    <2>1. ASSUME at[p].pc # "user" PROVE at[p].i \in Slots
      BY <2>1 DEF PipeInv, CallInv
    <2>2. CASE AllocTake(p)
      BY <2>1, <2>2, AllocTakeStep DEF AllocTake, Runs
    <2>3. CASE ReadCopy(p)
      BY <2>3, ReadCopyStep
    <2>4. CASE ReadCount(p)
      BY <2>1, <2>4, ReadCountStep DEF ReadCount, Runs
    <2>5. CASE WriteCopy(p)
      BY <2>5, WriteCopyStep
    <2>6. CASE WriteCount(p)
      BY <2>1, <2>6, WriteCountStep DEF WriteCount, Runs
    <2>7. CASE ReadBlock(p) \/ ReadEof(p) \/ WriteBlock(p) \/ WriteFail(p)
      BY <2>7, CallSteps
    <2>8. QED
      BY <1>3, <2>2, <2>3, <2>4, <2>5, <2>6, <2>7 DEF KernelStep
  <1>4. ASSUME NEW q \in Procs, Tick(q) PROVE PipeInv'
    BY <1>4, OtherSteps
  <1>5. QED
    BY <1>1, <1>2, <1>3, <1>4 DEF Next

LEMMA Invariance == TickIn = {} => (Spec => []PipeInv)
  <1> SUFFICES ASSUME TickIn = {}
               PROVE  Spec => []PipeInv
    OBVIOUS
  <1>1. PipeInv /\ [Next]_vars => PipeInv'
    BY NextKeeps
  <1>2. QED
    BY InitInv, <1>1, PTL DEF Spec

-----------------------------------------------------------------------------
(* The state of the rings and of the calls on them keeps its types.          *)
THEOREM RingsTyped == TickIn = {} => (Spec => []TypeOK)
  <1>1. PipeInv => TypeOK
    BY DEF PipeInv
  <1>2. QED
    BY <1>1, Invariance, PTL

(* A slot of the pool is in use exactly as long as an end of it is open.     *)
THEOREM UsedAreOpen == TickIn = {} => (Spec => []UsedWhileOpen)
  <1>1. PipeInv => UsedWhileOpen
    BY DEF PipeInv
  <1>2. QED
    BY <1>1, Invariance, PTL

(* The two positions of a ring and its count agree outside of copies: a pipe *)
(* never holds more than PIPE_BUFSZ bytes, and the head is where the next    *)
(* byte belongs.                                                             *)
THEOREM RingsAreSound == TickIn = {} => (Spec => []RingSound)
  <1>1. PipeInv => RingSound
    <2> SUFFICES ASSUME PipeInv, NEW i \in Slots,
                        \A p \in Procs : at[p].i = i => at[p].pc \notin {"read_count", "write_count"}
                 PROVE  count[i] <= BufSize /\ head[i] = (tail[i] + count[i]) % BufSize
      BY DEF RingSound
    <2>1. From(i) = tail[i] /\ Coming(i) = 0
      BY DEF From, Coming, PipeInv, Alone
    <2>2. PICK t \in 0 .. BufSize - 1, c \in 0 .. Wrap - 1 : t = tail[i] /\ c = count[i]
      BY DEF PipeInv, TypeOK
    <2>3. count[i] <= BufSize /\ head[i] = (t + c + 0) % BufSize
      BY <2>1, <2>2 DEF PipeInv, RingInv
    <2>4. t + c + 0 = t + c
      BY <2>2
    <2>5. QED
      BY <2>2, <2>3, <2>4
  <1>2. QED
    BY <1>1, Invariance, PTL

-----------------------------------------------------------------------------
(* The bytes of pipe i. *)
Held(i) == [k \in 1 .. count[i] |-> Cell(i, k)]

LEMMA TakerRuns ==
  ASSUME PipeInv, NEW i \in Slots
  PROVE  Start(i) = From(i)
  <1> DEFINE taking == {p \in Procs : at[p].pc = "read_count" /\ at[p].i = i}
  <1>1. running \in Procs /\ taking \subseteq {running}
    BY DEF PipeInv, Alone, Inside
  <1>2. CASE at[running].pc = "read_count" /\ at[running].i = i
    <2>1. taking = {running} /\ taking # {}
      BY <1>1, <1>2
    <2>2. (CHOOSE p \in taking : TRUE) = running
      BY <2>1
    <2>3. QED
      BY <1>2, <2>1, <2>2 DEF Start, From
  <1>3. CASE ~(at[running].pc = "read_count" /\ at[running].i = i)
    <2>1. taking = {}
      BY <1>1, <1>3
    <2>2. QED
      BY <1>3, <2>1 DEF Start, From
  <1>4. QED
    BY <1>2, <1>3

LEMMA TakerRunsNext ==
  ASSUME PipeInv', NEW i \in Slots
  PROVE  Start(i)' = From(i)'
  <1> DEFINE taking == {p \in Procs : at[p].pc = "read_count" /\ at[p].i = i}
  <1>1. running' \in Procs /\ taking' \subseteq {running'}
    BY DEF PipeInv, Alone, Inside
  <1>2. CASE at'[running'].pc = "read_count" /\ at'[running'].i = i
    <2>1. taking' = {running'} /\ taking' # {}
      BY <1>1, <1>2
    <2>2. (CHOOSE p \in taking' : TRUE) = running'
      BY <2>1
    <2>3. QED
      BY <1>2, <2>1, <2>2 DEF Start, From
  <1>3. CASE ~(at'[running'].pc = "read_count" /\ at'[running'].i = i)
    <2>1. taking' = {}
      BY <1>1, <1>3
    <2>2. QED
      BY <1>3, <2>1 DEF Start, From
  <1>4. QED
    BY <1>2, <1>3

LEMMA BufferedIsHeld ==
  ASSUME PipeInv
  PROVE  [i \in Slots |-> Buffered(i)] = [i \in Slots |-> Held(i)]
  BY TakerRuns DEF Buffered, Held, Cell

LEMMA BufferedIsHeldNext ==
  ASSUME PipeInv'
  PROVE  [i \in Slots |-> Buffered(i)]' = [i \in Slots |-> Held(i)']
  BY TakerRunsNext DEF Buffered, Held, Cell

LEMMA HeldIsSeq ==
  ASSUME PipeInv, NEW i \in Slots
  PROVE  /\ Held(i) \in Seq(Bytes) /\ Len(Held(i)) = count[i] /\ count[i] \in 0 .. BufSize
         /\ \A k \in 1 .. count[i] : Held(i)[k] = Cell(i, k)
  <1>1. count[i] \in 0 .. BufSize /\ From(i) \in Int
    <2>1. count[i] \in 0 .. BufSize /\ tail[i] \in Int /\ at[running].n \in Int
      BY Sizes DEF PipeInv, TypeOK, RingInv, Alone
    <2>2. (tail[i] - at[running].n) % BufSize \in Int
      BY <2>1, InRing
    <2>3. QED
      BY <2>1, <2>2 DEF From
  <1>2. ASSUME NEW k \in 1 .. count[i] PROVE Cell(i, k) \in Bytes
    <2>1. From(i) + k - 1 \in Int
      BY <1>1
    <2>2. QED
      BY <2>1, InRing DEF Cell, PipeInv, TypeOK
  <1>3. QED
    BY <1>1, <1>2 DEF Held

(* The bytes of a pipe stay the same where the count does and the ring is    *)
(* not written.                                                              *)
LEMMA HeldStays ==
  ASSUME NEW i \in Slots, count'[i] = count[i],
         \A k \in 1 .. count[i] : Cell(i, k)' = Cell(i, k)
  PROVE  Held(i)' = Held(i)
  BY DEF Held

LEMMA CellStays ==
  ASSUME NEW i \in Slots, buf'[i] = buf[i], From(i)' = From(i)
  PROVE  \A k : Cell(i, k)' = Cell(i, k)
  BY DEF Cell

-----------------------------------------------------------------------------
(* The steps that the channels see. *)

LEMMA WriteIsSend ==
  ASSUME PipeInv, PipeInv', NEW p \in Procs, WriteCount(p), NEW i \in Slots, i = at[p].i
  PROVE  \E chunk \in Queue!Chunks :
           /\ "read" \in open[i] /\ Len(Held(i)) + Len(chunk) <= BufSize
           /\ Held(i)' = Held(i) \o chunk
           /\ \A j \in Slots \ {i} : Held(j)' = Held(j)
           /\ UNCHANGED <<got, open>>
  <1>1. /\ at[p].n > 0 /\ count[i] + at[p].n <= BufSize /\ count' = [count EXCEPT ![i] = @ + at[p].n]
        /\ \A j \in Slots : From(j)' = From(j)
    BY WriteCountStep
  <1>2. /\ running = p /\ at[p].pc = "write_count" /\ at[p] \in Calls /\ UNCHANGED <<buf, got, open>>
    BY DEF WriteCount, Runs, PipeInv, Maps, table
  <1>3. /\ at[p].data \in Data /\ at[p].done + at[p].n <= Len(at[p].data) /\ "read" \in open[i]
        /\ \A k \in 1 .. at[p].n : Cell(i, count[i] + k) = at[p].data[at[p].done + k]
    BY <1>2 DEF PipeInv, CallInv, CopyInv
  <1>4. PICK c \in 0 .. BufSize, n \in 1 .. BufSize : c = count[i] /\ n = at[p].n /\ c + n <= BufSize
    <2>1. count[i] \in 0 .. BufSize /\ at[p].n \in Int
      BY <1>2, HeldIsSeq DEF Calls
    <2>2. QED
      BY <1>1, <2>1, Sizes
  <1> DEFINE chunk == [k \in 1 .. n |-> Cell(i, c + k)]
  <1>5. chunk \in [1 .. n -> Bytes] /\ chunk \in Seq(Bytes) /\ Len(chunk) = n /\ chunk \in Queue!Chunks
    <2>1. PICK len \in 1 .. MaxLen : len = Len(at[p].data) /\ at[p].data \in [1 .. len -> Bytes]
      BY <1>3 DEF Data
    <2>2. PICK d \in 0 .. MaxLen : d = at[p].done /\ d + n <= len
      BY <1>2, <1>3, <1>4, <2>1 DEF Calls
    <2>3. ASSUME NEW k \in 1 .. n PROVE Cell(i, c + k) \in Bytes
      <3>1. d + k \in 1 .. len
        BY <2>2
      <3>2. QED
        BY <1>3, <1>4, <2>1, <2>2, <3>1
    <2>4. chunk \in [1 .. n -> Bytes] /\ Len(chunk) = n
      BY <2>3
    <2>5. QED
      BY <1>4, <2>4 DEF Queue!Chunks
  <1>6. \A k \in 1 .. n : chunk[k] = Cell(i, c + k)
    OBVIOUS
  <1> HIDE DEF chunk
  <1>7. \A j \in Slots, k \in Int : Cell(j, k)' = Cell(j, k)
    BY <1>1, <1>2 DEF Cell
  <1>8. count'[i] = c + n /\ \A j \in Slots \ {i} : count'[j] = count[j]
    BY <1>1, <1>4 DEF PipeInv, TypeOK
  <1>9. \A j \in Slots \ {i} : Held(j)' = Held(j)
    BY <1>7, <1>8, HeldStays
  <1>10. Held(i)' = Held(i) \o chunk
    <2>1. /\ Held(i) \in Seq(Bytes) /\ Len(Held(i)) = c /\ \A k \in 1 .. c : Held(i)[k] = Cell(i, k)
      BY <1>4, HeldIsSeq
    <2>2. Held(i)' = [k \in 1 .. c + n |-> Cell(i, k)]
      BY <1>7, <1>8 DEF Held
    <2>3. ASSUME NEW k \in 1 .. c + n PROVE Cell(i, k) = (Held(i) \o chunk)[k]
      <3>1. (Held(i) \o chunk)[k] = IF k <= c THEN Held(i)[k] ELSE chunk[k - c]
        BY <1>5, <2>1, ConcatProperties
      <3>2. CASE k <= c
        BY <2>1, <3>1, <3>2
      <3>3. CASE k > c
        <4>1. k - c \in 1 .. n /\ c + (k - c) = k
          BY <3>3
        <4>2. QED
          BY <1>6, <3>1, <3>3, <4>1
      <3>4. k <= c \/ k > c
        OBVIOUS
      <3>5. QED
        BY <3>2, <3>3, <3>4
    <2>4. /\ Held(i) \o chunk \in Seq(Bytes) /\ Len(Held(i) \o chunk) = c + n
      BY <1>5, <2>1, ConcatProperties
    <2>5. Held(i) \o chunk = [k \in 1 .. c + n |-> (Held(i) \o chunk)[k]]
      BY <2>4
    <2>6. QED
      BY <2>2, <2>3, <2>5
  <1>11. Len(Held(i)) + Len(chunk) <= BufSize
    BY <1>4, <1>5, HeldIsSeq
  <1>12. QED
    BY <1>2, <1>3, <1>5, <1>9, <1>10, <1>11

LEMMA ReadIsReceive ==
  ASSUME PipeInv, PipeInv', NEW p \in Procs, ReadCount(p), NEW i \in Slots, i = at[p].i
  PROVE  \E n \in 1 .. BufSize :
           /\ n \in 1 .. Len(Held(i))
           /\ got' = [got EXCEPT ![p] = SubSeq(Held(i), 1, n)]
           /\ Held(i)' = SubSeq(Held(i), n + 1, Len(Held(i)))
           /\ \A j \in Slots \ {i} : Held(j)' = Held(j)
           /\ UNCHANGED open
  <1>1. /\ at[p].n \in 1 .. count[i] /\ count' = [count EXCEPT ![i] = @ - at[p].n]
        /\ \A j \in Slots \ {i} : From(j)' = From(j)
        /\ From(i)' = (From(i) + at[p].n) % BufSize
    BY ReadCountStep
  <1>2. /\ running = p /\ at[p].pc = "read_count" /\ at[p] \in Calls /\ UNCHANGED <<buf, open>>
        /\ got' = [got EXCEPT ![p] = at[p].data]
    BY DEF ReadCount, Runs, PipeInv, Maps, table
  <1>3. /\ Held(i) \in Seq(Bytes) /\ Len(Held(i)) = count[i] /\ count[i] \in 0 .. BufSize
        /\ \A k \in 1 .. count[i] : Held(i)[k] = Cell(i, k)
    BY HeldIsSeq
  <1>4. PICK c \in 1 .. BufSize, n \in 1 .. BufSize : c = count[i] /\ n = at[p].n /\ n <= c
    BY <1>1, <1>3, Sizes
  <1>5. /\ at[p].data \in [1 .. n -> Bytes] /\ \A k \in 1 .. n : at[p].data[k] = Cell(i, k)
    BY <1>2, <1>4 DEF PipeInv, CopyInv
  <1>6. From(i) \in 0 .. BufSize - 1
    <2>1. From(i) = (tail[i] - at[p].n) % BufSize /\ tail[i] - at[p].n \in Int
      BY <1>2, <1>4 DEF From, PipeInv, TypeOK
    <2>2. QED
      BY <2>1, InRing
  <1>7. at[p].data = SubSeq(Held(i), 1, n)
    <2>1. \A k \in 1 .. n : Held(i)[k] \in Bytes
      BY <1>3, <1>4
    <2>2. /\ SubSeq(Held(i), 1, n) \in Seq(Bytes) /\ Len(SubSeq(Held(i), 1, n)) = n
          /\ \A k \in 1 .. n : SubSeq(Held(i), 1, n)[k] = Held(i)[k]
      BY <2>1, SubSeqProperties
    <2>3. \A k \in 1 .. n : SubSeq(Held(i), 1, n)[k] = Cell(i, k)
      BY <1>3, <1>4, <2>2
    <2>4. SubSeq(Held(i), 1, n) = [k \in 1 .. n |-> SubSeq(Held(i), 1, n)[k]]
      BY <2>2
    <2>5. at[p].data = [k \in 1 .. n |-> at[p].data[k]]
      BY <1>5
    <2>6. QED
      BY <1>5, <2>3, <2>4, <2>5
  <1>8. count'[i] = c - n /\ \A j \in Slots \ {i} : count'[j] = count[j]
    BY <1>1, <1>4 DEF PipeInv, TypeOK
  <1>9. \A j \in Slots \ {i} : Held(j)' = Held(j)
    BY <1>1, <1>2, <1>8, HeldStays DEF Cell
  <1>10. Held(i)' = SubSeq(Held(i), n + 1, c)
    <2>1. ASSUME NEW k \in 1 .. c - n PROVE Cell(i, k)' = Held(i)[n + k]
      <3>1. n \in 0 .. BufSize /\ c - n \in 0 .. BufSize - n
        BY <1>4, Sizes
      <3>2. (((From(i) + n) % BufSize) + k - 1) % BufSize = (From(i) + (n + k) - 1) % BufSize
        BY <1>6, <3>1, Behind
      <3>3. n + k \in 1 .. c
        BY <1>4
      <3>4. Cell(i, k)' = Cell(i, n + k)
        BY <1>1, <1>2, <1>4, <3>2 DEF Cell
      <3>5. QED
        BY <1>3, <1>4, <3>3, <3>4
    <2>2. Held(i)' = [k \in 1 .. c - n |-> Held(i)[n + k]]
      BY <1>8, <2>1 DEF Held
    <2>3. \A k \in n + 1 .. c : Held(i)[k] \in Bytes
      BY <1>3, <1>4
    <2>4. /\ SubSeq(Held(i), n + 1, c) \in Seq(Bytes)
          /\ Len(SubSeq(Held(i), n + 1, c)) = c - n
          /\ \A k \in 1 .. c - n : SubSeq(Held(i), n + 1, c)[k] = Held(i)[n + k]
      <3>1. /\ SubSeq(Held(i), n + 1, c) \in Seq(Bytes)
            /\ Len(SubSeq(Held(i), n + 1, c)) = IF n + 1 <= c THEN c - (n + 1) + 1 ELSE 0
            /\ \A k \in 1 .. c - (n + 1) + 1 : SubSeq(Held(i), n + 1, c)[k] = Held(i)[n + 1 + k - 1]
        BY <2>3, SubSeqProperties
      <3>2. c - (n + 1) + 1 = c - n /\ \A k \in 1 .. c - n : n + 1 + k - 1 = n + k
        OBVIOUS
      <3>3. QED
        BY <1>4, <3>1, <3>2
    <2>5. SubSeq(Held(i), n + 1, c) = [k \in 1 .. c - n |-> SubSeq(Held(i), n + 1, c)[k]]
      BY <2>4
    <2>6. QED
      BY <2>2, <2>4, <2>5
  <1>11. /\ n \in 1 .. BufSize /\ n \in 1 .. Len(Held(i)) /\ Len(Held(i)) = c
         /\ got' = [got EXCEPT ![p] = SubSeq(Held(i), 1, n)]
    BY <1>2, <1>3, <1>4, <1>7
  <1>12. QED
    BY <1>2, <1>9, <1>10, <1>11

(* A step that touches no ring and no copy shows the channels no new bytes.  *)
LEMMA QuietHeld ==
  ASSUME UNCHANGED ring,
         \/ running' = running /\ at'[running] = at[running]
         \/ at[running].pc # "read_count" /\ at'[running'].pc # "read_count"
  PROVE  \A i \in Slots : Held(i)' = Held(i)
  <1>1. \A i \in Slots : From(i)' = From(i)
    BY DEF From, ring
  <1>2. QED
    BY <1>1, HeldStays, CellStays DEF ring

LEMMA QuietSteps ==
  ASSUME PipeInv, TickIn = {}, NEW p \in Procs,
         \/ SysPipe(p) \/ End(p) \/ Tick(p) \/ ReadBlock(p) \/ ReadEof(p) \/ WriteBlock(p) \/ WriteFail(p)
         \/ \E q \in Procs : Fork(p, q)
         \/ \E h \in Handles : SysClose(p, h)
         \/ \E h \in Handles, n \in 1 .. MaxLen : SysRead(p, h, n)
         \/ \E h \in Handles, data \in Data : SysWrite(p, h, data)
  PROVE  \A i \in Slots : Held(i)' = Held(i)
  <1> USE DEF Runs, Goto
  <1>1. at \in [Procs -> Calls] /\ running \in Procs /\ UNCHANGED ring
    BY DEF PipeInv, Maps, Alone, SysPipe, End, Tick, ReadBlock, ReadEof, WriteBlock, WriteFail, Fork,
           SysClose, SysRead, SysWrite
  <1>2. ASSUME running = p, running' = running, at[p].pc # "read_count", NEW a,
               at' = [at EXCEPT ![p] = a], a.pc # "read_count"
        PROVE  \A i \in Slots : Held(i)' = Held(i)
    BY <1>1, <1>2, QuietHeld
  <1>3. CASE SysPipe(p)
    <2>1. PICK i \in Slots : at' = [at EXCEPT ![p] = [User EXCEPT !.pc = "alloc", !.i = i]]
      BY <1>3 DEF SysPipe
    <2>2. [User EXCEPT !.pc = "alloc", !.i = i].pc # "read_count"
      BY DEF User
    <2>3. QED
      BY <1>2, <1>3, <2>1, <2>2 DEF SysPipe
  <1>4. CASE ReadBlock(p) \/ WriteBlock(p)
    <2>1. PICK pc \in {"read_halt", "write_halt"} : at' = [at EXCEPT ![p] = [at[p] EXCEPT !.pc = pc]]
      BY <1>4 DEF ReadBlock, WriteBlock
    <2>2. [at[p] EXCEPT !.pc = pc].pc # "read_count"
      BY <1>1 DEF Calls
    <2>3. QED
      BY <1>2, <1>4, <2>1, <2>2 DEF ReadBlock, WriteBlock
  <1>5. CASE ReadEof(p) \/ WriteFail(p)
    BY <1>2, <1>5, UserMade DEF ReadEof, WriteFail
  <1>6. ASSUME NEW h \in Handles, NEW n \in 1 .. MaxLen, SysRead(p, h, n)
        PROVE  \A i \in Slots : Held(i)' = Held(i)
    <2>1. [User EXCEPT !.pc = "read", !.i = h[1], !.g = h[3], !.n = n].pc # "read_count"
      BY DEF User
    <2>2. QED
      BY <1>2, <1>6, <2>1 DEF SysRead
  <1>7. ASSUME NEW h \in Handles, NEW data \in Data, SysWrite(p, h, data)
        PROVE  \A i \in Slots : Held(i)' = Held(i)
    <2>1. [User EXCEPT !.pc = "write", !.i = h[1], !.g = h[3], !.data = data].pc # "read_count"
      BY DEF User
    <2>2. QED
      BY <1>2, <1>7, <2>1 DEF SysWrite
  <1>8. ASSUME UNCHANGED <<at, running>> PROVE \A i \in Slots : Held(i)' = Held(i)
    BY <1>1, <1>8, QuietHeld
  <1>9. CASE End(p)
    <2>1. CASE p # running
      BY <1>1, <1>9, <2>1, QuietHeld DEF End
    <2>2. CASE p = running
      <3>1. at[running].pc # "read_count" /\ at' = [at EXCEPT ![p] = User] /\ running' = 1 /\ 1 # p
        BY <1>9, <2>2 DEF End
      <3>2. 1 \in Procs /\ at[1].pc # "read_count"
        BY <2>2, <3>1 DEF PipeInv, Alone, Inside, TypeOK
      <3>3. at'[running'].pc # "read_count"
        BY <1>1, <3>1, <3>2
      <3>4. QED
        BY <1>1, <3>1, <3>3, QuietHeld
    <2>3. QED
      BY <2>1, <2>2
  <1>10. CASE Tick(p)
    <2>1. at[running].pc \notin Inside /\ running' = p /\ at' = [at EXCEPT ![running] = Woken(running)]
      BY <1>10 DEF Tick, InWindow, Halted, Inside
    <2>2. at[running] \in Calls
      BY <1>1
    <2>3. Woken(running).pc # "read_count"
      <3>1. CASE at[running].pc = "read_halt"
        BY <2>2, <3>1 DEF Woken, Calls
      <3>2. CASE at[running].pc = "write_halt"
        BY <2>2, <3>2 DEF Woken, Calls
      <3>3. CASE at[running].pc \notin {"read_halt", "write_halt"}
        BY <2>1, <3>3 DEF Woken, Inside
      <3>4. QED
        BY <3>1, <3>2, <3>3
    <2>4. at'[running'].pc # "read_count"
      <3>1. CASE p = running
        BY <1>1, <2>1, <2>3, <3>1
      <3>2. CASE p # running
        BY <1>1, <2>1, <3>2 DEF PipeInv, Alone, Inside
      <3>3. QED
        BY <3>1, <3>2
    <2>5. QED
      BY <1>1, <2>1, <2>4, QuietHeld DEF Inside
  <1>11. QED
    BY <1>3, <1>4, <1>5, <1>6, <1>7, <1>8, <1>9, <1>10 DEF Fork, SysClose

(* Every step is a step of the channels, or changes nothing in them.         *)
LEMMA StepImplements ==
  ASSUME TickIn = {}, PipeInv, PipeInv', [Next]_vars
  PROVE  [Queue!Next]_<<[i \in Slots |-> Buffered(i)], got, open>>
  <1> DEFINE queue == [i \in Slots |-> Buffered(i)]
             after == [i \in Slots |-> Held(i)']
  <1>1. /\ queue = [i \in Slots |-> Held(i)] /\ queue' = after
        /\ \A i \in Slots : queue[i] = Held(i)
    BY BufferedIsHeld, BufferedIsHeldNext
  <1> HIDE DEF queue
  <1>2. ASSUME \A i \in Slots : Held(i)' = Held(i) PROVE queue' = queue
    BY <1>1, <1>2
  <1>3. ASSUME NEW i \in Slots, \A j \in Slots \ {i} : Held(j)' = Held(j)
        PROVE  queue' = [queue EXCEPT ![i] = Held(i)']
    BY <1>1, <1>3
  <1> SUFFICES Queue!Next \/ UNCHANGED <<queue, got, open>>
    BY DEF queue
  <1>4. ASSUME NEW p \in Procs,
               \/ SysPipe(p) \/ End(p) \/ Tick(p) \/ ReadBlock(p) \/ WriteBlock(p) \/ WriteFail(p)
               \/ \E q \in Procs : Fork(p, q)
               \/ \E h \in Handles, n \in 1 .. MaxLen : SysRead(p, h, n)
               \/ \E h \in Handles, data \in Data : SysWrite(p, h, data)
        PROVE  UNCHANGED <<queue, got, open>>
    <2>1. UNCHANGED <<got, open>>
      BY <1>4 DEF SysPipe, End, Tick, ReadBlock, WriteBlock, WriteFail, Fork, SysRead, SysWrite, table
    <2>2. \A i \in Slots : Held(i)' = Held(i)
      BY <1>4, QuietSteps
    <2>3. QED
      BY <1>2, <2>1, <2>2
  <1>5. ASSUME NEW p \in Procs, NEW h \in Handles, SysClose(p, h) PROVE Queue!Next
    <2>1. PICK i \in Slots, end \in Ends : i = h[1] /\ end = h[2]
      BY DEF Handles
    <2>2. open' = [open EXCEPT ![i] = @ \ {end}]
      BY <1>5, <2>1 DEF SysClose, PipeInv, UsedWhileOpen
    <2>3. queue' = queue /\ got' = got
      BY <1>2, <1>5, QuietSteps DEF SysClose
    <2>4. Queue!Close(i, end)
      BY <2>2, <2>3 DEF Queue!Close, queue
    <2>5. QED
      BY <2>1, <2>4 DEF Queue!Next, Ends
  <1>6. ASSUME NEW p \in Procs, ReadEof(p) PROVE Queue!Next
    <2>1. PICK i \in Slots : i = at[p].i
      BY <1>6 DEF ReadEof, Runs, PipeInv, CallInv
    <2>2. "write" \notin open[i] /\ got' = [got EXCEPT ![p] = <<>>] /\ open' = open /\ count[i] = 0
      BY <1>6, <2>1 DEF ReadEof, table
    <2>3. queue' = queue
      BY <1>2, <1>6, QuietSteps
    <2>4. queue[i] = <<>>
      <3>1. Held(i) = <<>>
        BY <2>2, HeldIsSeq
      <3>2. QED
        BY <1>1, <3>1
    <2>5. Queue!EndOfFile(p, i)
      BY <2>2, <2>3, <2>4 DEF Queue!EndOfFile, queue
    <2>6. QED
      BY <2>5 DEF Queue!Next
  <1>7. ASSUME NEW p \in Procs, AllocTake(p) PROVE Queue!Next
    <2>1. PICK i \in Slots : i = at[p].i
      BY <1>7 DEF AllocTake, Runs, PipeInv, CallInv
    <2>2. open[i] = {} /\ \A j \in Slots \ {i} : From(j)' = From(j)
      BY <1>7, <2>1, AllocTakeStep
    <2>3. /\ open' = [open EXCEPT ![i] = {"read", "write"}] /\ got' = got /\ buf' = buf
          /\ count'[i] = 0 /\ \A j \in Slots \ {i} : count'[j] = count[j]
      BY <1>7, <2>1 DEF AllocTake, Ends, PipeInv, TypeOK
    <2>4. \A j \in Slots \ {i} : Held(j)' = Held(j)
      BY <2>2, <2>3, CellStays, HeldStays
    <2>5. Held(i)' = <<>>
      BY <2>3 DEF Held
    <2>6. queue' = [queue EXCEPT ![i] = <<>>]
      BY <1>3, <2>4, <2>5
    <2>7. Queue!Open(i)
      BY <2>2, <2>3, <2>6 DEF Queue!Open, queue
    <2>8. QED
      BY <2>7 DEF Queue!Next
  <1>8. ASSUME NEW p \in Procs, WriteCount(p) PROVE Queue!Next
    <2>1. PICK i \in Slots : i = at[p].i
      BY <1>8 DEF WriteCount, Runs, PipeInv, CallInv
    <2>2. PICK chunk \in Queue!Chunks :
            /\ "read" \in open[i] /\ Len(Held(i)) + Len(chunk) <= BufSize
            /\ Held(i)' = Held(i) \o chunk
            /\ \A j \in Slots \ {i} : Held(j)' = Held(j)
            /\ UNCHANGED <<got, open>>
      BY <1>8, <2>1, WriteIsSend
    <2>3. queue' = [queue EXCEPT ![i] = Held(i) \o chunk]
      BY <1>3, <2>2
    <2>4. queue' = [queue EXCEPT ![i] = @ \o chunk] /\ Len(queue[i]) + Len(chunk) <= BufSize
      BY <1>1, <2>2, <2>3
    <2>5. Queue!Send(i, chunk)
      BY <2>2, <2>4 DEF Queue!Send, queue
    <2>6. QED
      BY <2>5 DEF Queue!Next
  <1>9. ASSUME NEW p \in Procs, ReadCount(p) PROVE Queue!Next
    <2>1. PICK i \in Slots : i = at[p].i
      BY <1>9 DEF ReadCount, Runs, PipeInv, CallInv
    <2>2. PICK n \in 1 .. BufSize :
            /\ n \in 1 .. Len(Held(i))
            /\ got' = [got EXCEPT ![p] = SubSeq(Held(i), 1, n)]
            /\ Held(i)' = SubSeq(Held(i), n + 1, Len(Held(i)))
            /\ \A j \in Slots \ {i} : Held(j)' = Held(j)
            /\ UNCHANGED open
      BY <1>9, <2>1, ReadIsReceive
    <2>3. queue' = [queue EXCEPT ![i] = SubSeq(Held(i), n + 1, Len(Held(i)))]
      BY <1>3, <2>2
    <2>4. /\ queue' = [queue EXCEPT ![i] = SubSeq(@, n + 1, Len(@))] /\ n \in 1 .. Len(queue[i])
          /\ got' = [got EXCEPT ![p] = SubSeq(queue[i], 1, n)]
      BY <1>1, <2>2, <2>3
    <2>5. Queue!Receive(p, i, n)
      BY <2>2, <2>4 DEF Queue!Receive, queue
    <2>6. QED
      BY <2>5 DEF Queue!Next
  <1>10. ASSUME NEW p \in Procs, ReadCopy(p) \/ WriteCopy(p) PROVE UNCHANGED <<queue, got, open>>
    <2>1. UNCHANGED <<got, open, count>>
      BY <1>10 DEF ReadCopy, WriteCopy, table
    <2>2. ASSUME ReadCopy(p) PROVE \A i \in Slots : Held(i)' = Held(i)
      BY <2>1, <2>2, ReadCopyStep, CellStays, HeldStays DEF ReadCopy
    <2>3. ASSUME WriteCopy(p) PROVE \A i \in Slots : Held(i)' = Held(i)
      BY <2>1, <2>3, WriteCopyStep, HeldStays
    <2>4. QED
      BY <1>2, <1>10, <2>1, <2>2, <2>3
  <1>11. CASE UNCHANGED vars
    <2>1. UNCHANGED <<ring, running, at, got, open>>
      BY <1>11 DEF vars, table
    <2>2. QED
      BY <1>2, <2>1, QuietHeld
  <1>12. QED
    BY <1>4, <1>5, <1>6, <1>7, <1>8, <1>9, <1>10, <1>11 DEF Next, UserStep, KernelStep

(* A pipe is a bounded first-in first-out channel: what its readers get is   *)
(* what its writers sent, in order, without a loss or a repetition, and the  *)
(* end of file comes behind the last byte.                                   *)
THEOREM PipesAreChannels == TickIn = {} => (Spec => ImplementsChannels)
  <1> SUFFICES ASSUME TickIn = {}
               PROVE  Spec => ImplementsChannels
    OBVIOUS
  <1>1. Init => Queue!Init
    <2> SUFFICES ASSUME Init
                 PROVE  Queue!Init
      OBVIOUS
    <2>1. \A i \in Slots : Buffered(i) = <<>>
      BY DEF Init, Buffered
    <2>2. QED
      BY <2>1 DEF Init, Queue!Init
  <1>2. PipeInv /\ PipeInv' /\ [Next]_vars => [Queue!Next]_<<[i \in Slots |-> Buffered(i)], got, open>>
    BY StepImplements
  <1>3. QED
    BY <1>1, <1>2, Invariance, PTL DEF Spec, ImplementsChannels, Queue!Spec
=============================================================================
