-------------------------- MODULE ProcTable_proofs --------------------------
(***************************************************************************)
(* Proofs about the process table and the scheduler, for any number of     *)
(* processes, exit codes and signals, under Closed: no tick in the windows *)
(* of ProcTable, nobody names an embryo, all have one priority.            *)
(***************************************************************************)
EXTENDS ProcTable, TLAPS

Closed == TickIn = {} /\ ~EmbryoTargets /\ "setprio" \notin Calls

-----------------------------------------------------------------------------
(* The inductive invariant. *)

Ended == {"yield", "yield_mark", "yield_switch", "dead"}

(* The CPU is on the stack of the current process, but in the middle of      *)
(* app_return's proc_yield: there running is already the next process.       *)
CpuInv ==
  /\ cpu \in Procs
  /\ IF at[cpu].pc = "yield_switch"
     THEN /\ at[cpu].pid = running /\ at[cpu].prev = cpu /\ running # cpu
          /\ state[running] = "running"
     ELSE cpu = running
  /\ at[cpu].pc = "yield_mark" =>
       at[cpu].pid \in Procs /\ state[at[cpu].pid] = "ready" /\ at[cpu].prev = cpu
  /\ at[cpu].pc \in {"alloc", "free"} => at[cpu].pid \in Procs /\ state[at[cpu].pid] = "unused"
  /\ \A p \in Procs : at[p].pc \in Windows => p = cpu

(* A process that is not on the CPU has left its context on its own stack.   *)
ContextInv ==
  \A p \in Procs \ {cpu} : state[p] \notin {"unused", "embryo"} => p \in saved /\ esp[p] = p

(* Process 1 never stops, and none is better: there is always another one to *)
(* switch to.                                                                *)
FirstInv ==
  /\ 1 \in Procs /\ state[1] = (IF running = 1 THEN "running" ELSE "ready")
  /\ \A p \in Procs : priority[p] = DefaultPrio

(* What the places of the calls say about the table. *)
TableInv ==
  /\ \A p \in Procs : parent[p] # p
  /\ \A p \in Procs : at[p].pc \in Ended => state[p] = "zombie"
  /\ \A p \in Procs : state[p] \in {"unused", "embryo"} => at[p].pc \in {"user", "embryo"}
  /\ \A p \in Procs : at[p].pc = "fork" => /\ at[p].pid \in Procs /\ state[at[p].pid] = "embryo"
                                           /\ parent[at[p].pid] = p

PInv == TypeOK /\ CpuInv /\ ContextInv /\ NobodyLost /\ FirstInv /\ TableInv

LEMMA InitInv == Init => PInv
  <1> SUFFICES ASSUME Init
               PROVE  PInv
    OBVIOUS
  <1>1. 1 \in Procs
    BY ProcAssumption DEF Procs
  <1>2. TypeOK
    BY <1>1, ProcAssumption DEF Init, TypeOK, User, Places, ExitCodes, Procs
  <1>3. CpuInv /\ ContextInv /\ NobodyLost
    BY <1>1 DEF Init, CpuInv, ContextInv, NobodyLost, User, Windows
  <1>4. FirstInv /\ TableInv
    BY <1>1 DEF Init, FirstInv, TableInv, User, Ended, Procs
  <1>5. QED
    BY <1>2, <1>3, <1>4 DEF PInv

(* next_ready() finds a process other than the current one. *)
LEMMA NextIsAnother ==
  ASSUME PInv, NEW n \in Procs, IsNext(n)
  PROVE  n # running /\ state[n] = "ready"
  <1>1. state[n] = "ready" /\ running \in Procs /\ NProcs \in Nat \ {0}
    BY ProcAssumption DEF IsNext, PInv, TypeOK
  <1>2. ASSUME n = running PROVE FALSE
    <2>1. n # 1 => state[1] = "ready"
      BY <1>2 DEF PInv, NobodyLost, FirstInv
    <2>2. CASE n = 1
      BY <1>1, <1>2, <2>2 DEF PInv, FirstInv
    <2>3. CASE n # 1
      <3>1. 1 \in Procs /\ priority[1] = DefaultPrio /\ priority[n] = DefaultPrio /\ DefaultPrio \in Int
        BY ProcAssumption DEF PInv, FirstInv
      <3>2. Dist(running, n) <= Dist(running, 1)
        BY <2>1, <2>3, <3>1 DEF IsNext
      <3>3. n > 1 /\ n \in Nat
        BY <2>3 DEF Procs
      <3>4. QED
        BY <1>1, <1>2, <3>2, <3>3 DEF Dist
    <2>4. QED
      BY <2>2, <2>3
  <1>3. QED
    BY <1>1, <1>2

-----------------------------------------------------------------------------
(* Types, spelt out. *)

Ats == [pc : Places, pid : 0 .. NProcs, prev : 0 .. NProcs, bits : SUBSET Sigs, cli : BOOLEAN]

LEMMA Types ==
  ASSUME PInv
  PROVE  /\ at \in [Procs -> Ats] /\ Procs \subseteq 0 .. NProcs /\ 1 \in Procs
         /\ cpu \in Procs /\ running \in Procs /\ at[cpu] \in Ats /\ 0 \in 0 .. NProcs
  <1>1. Procs \subseteq 0 .. NProcs /\ 0 \in 0 .. NProcs
    BY ProcAssumption DEF Procs
  <1>2. at \in [Procs -> Ats]
    BY DEF PInv, TypeOK, Ats
  <1>3. QED
    BY <1>1, <1>2 DEF PInv, TypeOK, CpuInv, FirstInv

LEMMA Made ==
  ASSUME NEW pc \in Places, NEW i \in 0 .. NProcs
  PROVE  At(pc, i) \in Ats /\ At(pc, i).pc = pc /\ At(pc, i).pid = i
  <1>1. 0 \in 0 .. NProcs /\ {} \in SUBSET Sigs
    BY ProcAssumption
  <1>2. QED
    BY <1>1 DEF Ats, At, User

LEMMA UserMade == User \in Ats /\ User.pc = "user"
  BY ProcAssumption DEF User, Ats, Places

(* Steps that change neither the states nor where the CPU is. *)
LEMMA PlainStep ==
  ASSUME PInv, NEW a \in Ats, at[cpu].pc # "yield_switch",
         UNCHANGED <<state, parent, running, cpu, saved, orphans>>,
         \A q \in Procs : state[q] # "unused" => esp'[q] = esp[q],
         \A q \in Procs : priority'[q] = DefaultPrio,
         at' = [at EXCEPT ![cpu] = a],
         a.pc \notin Ended \cup {"fork", "embryo"},
         a.pc \in {"alloc", "free"} => a.pid \in Procs /\ state[a.pid] = "unused",
         exit_code' \in [Procs -> ExitCodes], pending' \in [Procs -> SUBSET Sigs],
         esp' \in [Procs -> 0 .. NProcs], priority' \in [Procs -> Prios]
  PROVE  PInv'
  <1>1. at \in [Procs -> Ats] /\ cpu \in Procs /\ at' \in [Procs -> Ats]
    BY Types
  <1>2. TypeOK'
    BY <1>1 DEF PInv, TypeOK, Ats
  <1>3. at'[cpu] = a /\ \A q \in Procs \ {cpu} : at'[q] = at[q]
    BY <1>1
  <1>4. CpuInv'
    BY <1>1, <1>3 DEF PInv, CpuInv, Ended
  <1>5. ContextInv' /\ NobodyLost'
    BY DEF PInv, ContextInv, NobodyLost
  <1>6. FirstInv'
    BY DEF PInv, FirstInv
  <1>7. state[cpu] \notin {"unused", "embryo"}
    BY <1>1 DEF PInv, CpuInv, NobodyLost
  <1>8. TableInv'
    BY <1>1, <1>3, <1>7 DEF PInv, TableInv, Ended
  <1>9. QED
    BY <1>2, <1>4, <1>5, <1>6, <1>8 DEF PInv

(* The steps of that kind. *)
LEMMA PlainSteps ==
  ASSUME Closed, PInv, NEW p \in Procs,
         \/ SysFork(p) \/ FreeEnd(p) \/ ExecFails(p) \/ Launch(p) \/ WaitNone(p) \/ KillCode(p)
         \/ SysSigpoll(p) \/ SigpollStore(p) \/ Irq(p)
         \/ \E x \in Codes : SysExit(p, x)
         \/ \E t \in 0 .. NProcs : SysWait(p, t)
         \/ \E t \in Procs, s \in Sigs : SysRaise(p, t, s)
  PROVE  PInv'
  <1> USE DEF Runs, Goto, pcbVars
  <1> DEFINE Plain(a) ==
        /\ cpu = p /\ at[p].pc # "yield_switch" /\ UNCHANGED <<state, parent, running, cpu, saved, orphans>>
        /\ at' = [at EXCEPT ![p] = a] /\ a \in Ats
        /\ a.pc \notin Ended \cup {"fork", "embryo"}
        /\ a.pc \in {"alloc", "free"} => a.pid \in Procs /\ state[a.pid] = "unused"
  <1>0. /\ at[p] \in Ats /\ Procs \subseteq 0 .. NProcs /\ {at[p].pid, 0} \subseteq 0 .. NProcs
        /\ {User} \subseteq Ats
        /\ {"alloc", "menu", "user", "exit", "wait", "wait_none", "halt", "sigpoll"} \subseteq Places
    BY Types, UserMade DEF Ats, Places
  <1>00. /\ exit_code \in [Procs -> ExitCodes] /\ priority \in [Procs -> Prios]
         /\ pending \in [Procs -> SUBSET Sigs] /\ esp \in [Procs -> 0 .. NProcs]
         /\ \A q \in Procs : priority[q] = DefaultPrio
         /\ 0 \in ExitCodes /\ Killed \in ExitCodes
    BY DEF PInv, TypeOK, FirstInv, ExitCodes
  <1>000. ASSUME NEW c \in Procs, state[c] = "unused", Cleared(c)
          PROVE  /\ exit_code' \in [Procs -> ExitCodes] /\ priority' \in [Procs -> Prios]
                 /\ pending' \in [Procs -> SUBSET Sigs] /\ esp' \in [Procs -> 0 .. NProcs]
                 /\ \A q \in Procs : priority'[q] = DefaultPrio
                 /\ \A q \in Procs : state[q] # "unused" => esp'[q] = esp[q]
    <2>1. DefaultPrio \in Prios /\ 0 \in 0 .. NProcs
      BY ProcAssumption
    <2>2. QED
      BY <1>00, <1>000, <2>1 DEF Cleared
  <1>1. CASE SysFork(p)
    <2>1. PICK c \in Procs : /\ state[c] = "unused" /\ Cleared(c) /\ at' = [at EXCEPT ![p] = At("alloc", c)]
      BY <1>1 DEF SysFork
    <2>2. At("alloc", c) \in Ats /\ At("alloc", c).pc = "alloc" /\ At("alloc", c).pid = c
      BY <1>0, Made
    <2>3. Plain(At("alloc", c))
      BY <1>1, <2>1, <2>2 DEF SysFork, Ended
    <2>4. QED
      BY <1>000, <2>1, <2>3, PlainStep
  <1>2. CASE FreeEnd(p)
    <2>1. Plain(User) /\ at[p].pid \in Procs /\ state[at[p].pid] = "unused"
      BY <1>0, <1>2, UserMade DEF FreeEnd, Ended, PInv, CpuInv
    <2>2. QED
      BY <1>000, <1>2, <2>1, PlainStep DEF FreeEnd
  <1>3. CASE ExecFails(p) \/ Launch(p)
    <2>1. At("menu", 0) \in Ats /\ At("menu", 0).pc = "menu"
      BY <1>0, Made
    <2>2. Plain(At("menu", 0)) \/ Plain(User)
      BY <1>0, <1>3, <2>1, UserMade DEF ExecFails, Launch, Ended
    <2>3. QED
      BY <1>00, <1>3, <2>2, PlainStep DEF ExecFails, Launch
  <1>4. CASE WaitNone(p) \/ Irq(p)
    <2>1. \A pc \in Places, b \in BOOLEAN :
             /\ [at[p] EXCEPT !.pc = pc] \in Ats /\ [at[p] EXCEPT !.pc = pc, !.cli = b] \in Ats
             /\ [at[p] EXCEPT !.pc = pc].pc = pc /\ [at[p] EXCEPT !.pc = pc, !.cli = b].pc = pc
      BY <1>0 DEF Ats
    <2>2. WaitNone(p) => Plain([at[p] EXCEPT !.pc = "halt"]) \/ Plain(User)
      BY <1>0, <2>1, UserMade DEF WaitNone, Ended
    <2>3. Irq(p) => Plain([at[p] EXCEPT !.pc = "wait", !.cli = TRUE])
      BY <1>0, <2>1 DEF Irq, Woken, Ended
    <2>4. \E a : Plain(a)
      BY <1>4, <2>2, <2>3
    <2>5. QED
      BY <1>00, <1>4, <2>4, PlainStep DEF WaitNone, Irq
  <1>5. CASE KillCode(p)
    <2>1. Plain(User)
      BY <1>0, <1>5, UserMade DEF KillCode, Ended
    <2>2. QED
      BY <1>00, <1>5, <2>1, PlainStep DEF KillCode
  <1>6. CASE SysSigpoll(p)
    <2> DEFINE a == [At("sigpoll", running) EXCEPT !.bits = pending[running]]
    <2>1. running \in Procs /\ pending[running] \in SUBSET Sigs
      BY <1>00, Types
    <2>2. At("sigpoll", running) \in Ats /\ At("sigpoll", running).pc = "sigpoll"
      BY <1>0, <2>1, Made
    <2>3. a \in Ats /\ a.pc = "sigpoll"
      BY <2>1, <2>2 DEF Ats
    <2>4. Plain(a)
      BY <1>0, <1>6, <2>3 DEF SysSigpoll, Ended
    <2>5. QED
      BY <1>00, <1>6, <2>4, PlainStep DEF SysSigpoll
  <1>7. CASE SigpollStore(p)
    <2>1. Plain(User) /\ at[p].bits \in SUBSET Sigs
      BY <1>0, <1>7, UserMade DEF SigpollStore, Ended, Ats
    <2>2. pending' \in [Procs -> SUBSET Sigs]
      BY <1>00, <1>7, <2>1 DEF SigpollStore
    <2>3. QED
      BY <1>00, <1>7, <2>1, <2>2, PlainStep DEF SigpollStore
  <1>8. ASSUME NEW x \in Codes, SysExit(p, x) PROVE PInv'
    <2>1. At("exit", 0) \in Ats /\ At("exit", 0).pc = "exit" /\ x \in ExitCodes
      BY <1>0, Made DEF ExitCodes
    <2>2. Plain(At("exit", 0))
      BY <1>8, <2>1 DEF SysExit, Ended
    <2>3. QED
      BY <1>00, <1>8, <2>1, <2>2, PlainStep DEF SysExit
  <1>9. ASSUME NEW t \in 0 .. NProcs, SysWait(p, t) PROVE PInv'
    <2>1. Plain(At("wait", t))
      BY <1>0, <1>9, Made DEF SysWait, Ended
    <2>2. QED
      BY <1>00, <1>9, <2>1, PlainStep DEF SysWait
  <1>10. ASSUME NEW t \in Procs, NEW s \in Sigs, SysRaise(p, t, s) PROVE PInv'
    <2>1. Plain(at[p])
      BY <1>0, <1>10, Types DEF SysRaise, Ended
    <2>2. QED
      BY <1>00, <1>10, <2>1, PlainStep DEF SysRaise
  <1>11. QED
    BY <1>1, <1>2, <1>3, <1>4, <1>5, <1>6, <1>7, <1>8, <1>9, <1>10

(* The types of the PCB's fields, which every step below changes in part. *)
PcbTypes ==
  /\ state \in [Procs -> {"unused", "embryo", "ready", "running", "sleeping", "zombie"}]
  /\ parent \in [Procs -> 0 .. NProcs] /\ esp \in [Procs -> 0 .. NProcs]
  /\ running \in Procs /\ cpu \in 0 .. NProcs /\ saved \subseteq Procs /\ orphans \subseteq Procs

LEMMA TypedAgain ==
  ASSUME TypeOK, PcbTypes', at' \in [Procs -> Ats],
         UNCHANGED <<exit_code, priority, pending>>
  PROVE  TypeOK'
  BY DEF TypeOK, PcbTypes, Ats

(* fork: the child's slot is taken, and given up or made ready. *)
LEMMA ForkSteps ==
  ASSUME Closed, PInv, NEW p \in Procs, AllocTake(p) \/ ForkFail(p) \/ ForkDone(p)
  PROVE  PInv'
  <1> USE DEF Runs, Goto
  <1> DEFINE c == at[p].pid
  <1>1. /\ cpu = p /\ running = p /\ c \in Procs /\ c # p
        /\ state[c] = (IF at[p].pc = "alloc" THEN "unused" ELSE "embryo")
        /\ at[p].pc \in {"alloc", "fork"} /\ (at[p].pc = "fork" => parent[c] = p)
    <2>1. cpu = p /\ at[p].pc \in {"alloc", "fork"} /\ running = p
      BY DEF AllocTake, ForkFail, ForkDone, PInv, CpuInv
    <2>2. c \in Procs /\ state[c] = (IF at[p].pc = "alloc" THEN "unused" ELSE "embryo")
          /\ (at[p].pc = "fork" => parent[c] = p)
      BY <2>1 DEF PInv, CpuInv, TableInv
    <2>3. state[p] \notin {"unused", "embryo"}
      BY <2>1 DEF PInv, NobodyLost
    <2>4. QED
      BY <2>1, <2>2, <2>3
  <1>2. /\ at \in [Procs -> Ats] /\ c \in 0 .. NProcs /\ p \in 0 .. NProcs /\ 0 \in 0 .. NProcs
        /\ PcbTypes /\ at[p].pc \in Places
        /\ state[p] \notin {"unused", "embryo"} /\ c # 1 /\ c # 0 /\ at[c].pc \in {"user", "embryo"}
    <2>1. at \in [Procs -> Ats] /\ Procs \subseteq 0 .. NProcs /\ 0 \in 0 .. NProcs
      BY Types
    <2>2. state[p] \notin {"unused", "embryo"} /\ c # 1 /\ at[c].pc \in {"user", "embryo"}
      BY <1>1 DEF PInv, NobodyLost, FirstInv, TableInv
    <2>3. c # 0
      BY <1>1 DEF Procs
    <2>4. QED
      BY <1>1, <2>1, <2>2, <2>3 DEF PInv, TypeOK, PcbTypes, Ats
  <1>3. /\ At("embryo", 0) \in Ats /\ At("embryo", 0).pc = "embryo"
        /\ At("fork", c) \in Ats /\ At("fork", c).pc = "fork" /\ At("fork", c).pid = c
        /\ At("free", c) \in Ats /\ At("free", c).pc = "free" /\ At("free", c).pid = c
    BY <1>2, Made DEF Places
  <1>4. CASE AllocTake(p)
    <2>1. /\ UNCHANGED <<exit_code, priority, pending, esp, running, cpu, saved>>
          /\ state' = [state EXCEPT ![c] = "embryo"] /\ parent' = [parent EXCEPT ![c] = p]
          /\ at' = [at EXCEPT ![p] = At("fork", c), ![c] = At("embryo", 0)] /\ orphans' = orphans \ {c}
          /\ at[p].pc = "alloc"
      BY <1>1, <1>4 DEF AllocTake
    <2>2. /\ at' \in [Procs -> Ats] /\ at'[p] = At("fork", c) /\ at'[c] = At("embryo", 0)
          /\ \A q \in Procs \ {p, c} : at'[q] = at[q]
      BY <1>1, <1>2, <1>3, <2>1
    <2>3. TypeOK'
      BY <1>1, <1>2, <2>1, <2>2, TypedAgain DEF PcbTypes, PInv
    <2>4. CpuInv' /\ ContextInv' /\ NobodyLost' /\ FirstInv'
      BY <1>1, <1>2, <1>3, <2>1, <2>2 DEF PInv, CpuInv, ContextInv, NobodyLost, FirstInv, Windows, PcbTypes
    <2>5. TableInv'
      BY <1>1, <1>2, <1>3, <2>1, <2>2 DEF PInv, TableInv, Ended, PcbTypes
    <2>6. QED
      BY <2>3, <2>4, <2>5 DEF PInv
  <1>5. CASE ForkFail(p)
    <2>1. /\ UNCHANGED <<exit_code, priority, pending, esp, running, cpu>>
          /\ state' = [state EXCEPT ![c] = "unused"] /\ parent' = [parent EXCEPT ![c] = 0]
          /\ at' = [at EXCEPT ![p] = At("free", c)] /\ saved' = saved \ {c}
          /\ orphans' = (orphans \cup {o \in Procs : parent[o] = c}) \ {c} /\ at[p].pc = "fork"
      BY <1>1, <1>5 DEF ForkFail, Vacate
    <2>2. /\ at' \in [Procs -> Ats] /\ at'[p] = At("free", c)
          /\ \A q \in Procs \ {p} : at'[q] = at[q]
      BY <1>1, <1>2, <1>3, <2>1
    <2>3. TypeOK'
      BY <1>1, <1>2, <2>1, <2>2, TypedAgain DEF PcbTypes, PInv
    <2>4. CpuInv' /\ ContextInv' /\ NobodyLost' /\ FirstInv'
      BY <1>1, <1>2, <1>3, <2>1, <2>2 DEF PInv, CpuInv, ContextInv, NobodyLost, FirstInv, Windows, PcbTypes
    <2>5. TableInv'
      BY <1>1, <1>2, <1>3, <2>1, <2>2 DEF PInv, TableInv, Ended, PcbTypes
    <2>6. QED
      BY <2>3, <2>4, <2>5 DEF PInv
  <1>6. CASE ForkDone(p)
    <2>1. /\ UNCHANGED <<parent, exit_code, running, cpu, orphans>>
          /\ state' = [state EXCEPT ![c] = "ready"] /\ esp' = [esp EXCEPT ![c] = c]
          /\ pending' = [pending EXCEPT ![c] = {}] /\ priority' = [priority EXCEPT ![c] = priority[p]]
          /\ at' = [at EXCEPT ![p] = User, ![c] = User] /\ saved' = saved \cup {c} /\ at[p].pc = "fork"
      BY <1>1, <1>6 DEF ForkDone
    <2>2. /\ at' \in [Procs -> Ats] /\ at'[p] = User /\ at'[c] = User /\ User.pc = "user"
          /\ \A q \in Procs \ {p, c} : at'[q] = at[q]
      BY <1>1, <1>2, <2>1, UserMade
    <2>3. TypeOK'
      BY <1>1, <1>2, <2>1, <2>2 DEF PcbTypes, PInv, TypeOK, Ats
    <2>4. CpuInv' /\ ContextInv' /\ NobodyLost' /\ FirstInv'
      BY <1>1, <1>2, <2>1, <2>2 DEF PInv, CpuInv, ContextInv, NobodyLost, FirstInv, Windows, PcbTypes, TypeOK
    <2>5. TableInv'
      BY <1>1, <1>2, <2>1, <2>2 DEF PInv, TableInv, Ended, PcbTypes
    <2>6. QED
      BY <2>3, <2>4, <2>5 DEF PInv
  <1>7. QED
    BY <1>4, <1>5, <1>6

(* exit and faults: the zombie yields and is never switched to again. *)
LEMMA EndSteps ==
  ASSUME Closed, PInv, NEW p \in Procs,
         Zombify(p) \/ Fault(p) \/ YieldPick(p) \/ YieldMark(p) \/ YieldSwitch(p)
  PROVE  PInv'
  <1> USE DEF Runs, Goto, pcbVars
  <1>1. /\ at \in [Procs -> Ats] /\ PcbTypes /\ 1 \in Procs /\ cpu = p /\ at[p] \in Ats
        /\ UNCHANGED <<parent, exit_code, priority, pending, orphans>>
    <2>1. UNCHANGED <<parent, exit_code, priority, pending, orphans>> /\ cpu = p
      BY DEF Zombify, Fault, YieldPick, YieldMark, YieldSwitch
    <2>2. QED
      BY <2>1, Types DEF PInv, TypeOK, PcbTypes
  <1>2. ASSUME running > 1, cpu = running, state' = [state EXCEPT ![running] = "zombie"],
               UNCHANGED <<esp, running, cpu, saved>>, NEW a \in Ats, a.pc = "yield",
               at' = [at EXCEPT ![p] = a]
        PROVE  PInv'
    <2>1. at' \in [Procs -> Ats] /\ at'[p] = a /\ \A q \in Procs \ {p} : at'[q] = at[q]
      BY <1>1, <1>2
    <2>2. state'[p] = "zombie" /\ (\A q \in Procs \ {p} : state'[q] = state[q]) /\ p # 1
          /\ state[p] \notin {"unused", "embryo"} /\ state' \in [Procs -> {"unused", "embryo", "ready", "running", "sleeping", "zombie"}]
      BY <1>1, <1>2 DEF PcbTypes, PInv, NobodyLost
    <2>3. TypeOK'
      BY <1>1, <1>2, <2>1, <2>2, TypedAgain DEF PcbTypes, PInv
    <2>4. CpuInv'
      BY <1>1, <1>2, <2>1, <2>2 DEF PInv, CpuInv, Windows
    <2>5. ContextInv' /\ NobodyLost' /\ FirstInv'
      BY <1>1, <1>2, <2>1, <2>2 DEF PInv, CpuInv, ContextInv, NobodyLost, FirstInv
    <2>6. TableInv'
      BY <1>1, <1>2, <2>1, <2>2 DEF PInv, TableInv, Ended
    <2>7. QED
      BY <2>3, <2>4, <2>5, <2>6 DEF PInv
  <1>3. CASE Zombify(p)
    <2>1. cpu = running /\ running \in Procs
      BY <1>1, <1>3 DEF Zombify, PInv, CpuInv, PcbTypes
    <2>2. At("yield", 0) \in Ats /\ At("yield", 0).pc = "yield"
      BY Made, Types DEF Places
    <2>3. CASE running > 1
      BY <1>2, <1>3, <2>1, <2>2, <2>3 DEF Zombify
    <2>4. CASE ~(running > 1)
      BY <1>1, <1>3, <2>4, UserMade, PlainStep DEF Zombify, PInv, TypeOK, FirstInv, Ended
    <2>5. QED
      BY <2>3, <2>4
  <1>4. CASE Fault(p)
    <2> DEFINE a == [At("yield", 0) EXCEPT !.cli = TRUE]
    <2>1. At("yield", 0) \in Ats /\ At("yield", 0).pc = "yield"
      BY Made, Types DEF Places
    <2>2. a \in Ats /\ a.pc = "yield"
      BY <2>1 DEF Ats
    <2>3. cpu = running
      BY <1>1, <1>4 DEF Fault, PInv, CpuInv
    <2>4. QED
      BY <1>2, <1>4, <2>2, <2>3 DEF Fault
  <1>5. CASE YieldPick(p)
    <2>1. cpu = running /\ state[p] = "zombie" /\ at[p].pc = "yield" /\ UNCHANGED <<state, esp, running, cpu, saved>>
      BY <1>1, <1>5 DEF YieldPick, PInv, CpuInv, TableInv, Ended
    <2>2. ~NoneReady
      BY <1>1, <2>1 DEF NoneReady, PInv, FirstInv
    <2>3. PICK n \in Procs : IsNext(n) /\ at' = [at EXCEPT ![p] = [at[p] EXCEPT !.pc = "yield_mark", !.pid = n, !.prev = running]]
      BY <1>5, <2>2 DEF YieldPick
    <2>4. n # p /\ state[n] = "ready"
      BY <2>1, <2>3, NextIsAnother
    <2>5. PICK a \in Ats : a.pc = "yield_mark" /\ a.pid = n /\ a.prev = p /\ at' = [at EXCEPT ![p] = a]
      BY <1>1, <2>1, <2>3, Types DEF Ats, Places
    <2>6. at' \in [Procs -> Ats] /\ at'[p] = a /\ \A q \in Procs \ {p} : at'[q] = at[q]
      BY <1>1, <2>5
    <2>7. TypeOK'
      BY <1>1, <2>1, <2>6, TypedAgain DEF PcbTypes, PInv
    <2>8. CpuInv'
      BY <1>1, <2>1, <2>4, <2>5, <2>6 DEF PInv, CpuInv, Windows
    <2>9. ContextInv' /\ NobodyLost' /\ FirstInv'
      BY <1>1, <2>1 DEF PInv, ContextInv, NobodyLost, FirstInv
    <2>10. TableInv'
      BY <1>1, <2>1, <2>5, <2>6 DEF PInv, TableInv, Ended
    <2>11. QED
      BY <2>7, <2>8, <2>9, <2>10 DEF PInv
  <1>6. CASE YieldMark(p)
    <2> DEFINE n == at[p].pid
    <2>1. /\ cpu = running /\ state[p] = "zombie" /\ at[p].pc = "yield_mark" /\ at[p].prev = p
          /\ state[n] = "ready" /\ UNCHANGED <<esp, cpu, saved>> /\ running' = n /\ state' = Swapped(p, n)
          /\ at' = [at EXCEPT ![p] = [at[p] EXCEPT !.pc = "yield_switch"]]
      BY <1>1, <1>6 DEF YieldMark, PInv, CpuInv, TableInv, Ended
    <2>2. n \in Procs /\ n # p
      BY <1>1, <2>1 DEF PInv, CpuInv
    <2>3. PICK a \in Ats : a.pc = "yield_switch" /\ a.pid = n /\ a.prev = p /\ at' = [at EXCEPT ![p] = a]
      BY <1>1, <2>1 DEF Ats, Places
    <2>4. at' \in [Procs -> Ats] /\ at'[p] = a /\ \A q \in Procs \ {p} : at'[q] = at[q]
      BY <1>1, <2>1, <2>3
    <2>5. /\ state'[p] = "zombie" /\ state'[n] = "running" /\ \A q \in Procs \ {p, n} : state'[q] = state[q]
          /\ state' \in [Procs -> {"unused", "embryo", "ready", "running", "sleeping", "zombie"}]
      BY <1>1, <2>1, <2>2 DEF Swapped, PcbTypes
    <2>6. TypeOK'
      BY <1>1, <2>1, <2>2, <2>4, <2>5, TypedAgain DEF PcbTypes, PInv
    <2>7. CpuInv'
      BY <1>1, <2>1, <2>2, <2>3, <2>4, <2>5 DEF PInv, CpuInv, Windows
    <2> HIDE DEF n
    <2>8. /\ running = p /\ running' = n /\ cpu' = p /\ cpu = p /\ UNCHANGED <<esp, saved, priority>>
          /\ state[p] = "zombie" /\ state[n] = "ready" /\ 1 \in Procs
      BY <1>1, <2>1
    <2>9. ContextInv' /\ NobodyLost' /\ FirstInv'
      BY <2>2, <2>5, <2>8 DEF PInv, ContextInv, NobodyLost, FirstInv
    <2>10. TableInv'
      BY <1>1, <2>1, <2>2, <2>3, <2>4, <2>5 DEF PInv, TableInv, Ended, PcbTypes
    <2>11. QED
      BY <2>6, <2>7, <2>8, <2>9, <2>10 DEF PInv
  <1>7. CASE YieldSwitch(p)
    <2> DEFINE n == running
    <2>1. /\ at[p].pid = n /\ at[p].prev = p /\ n # p /\ n \in Procs /\ UNCHANGED <<state, running>>
          /\ ContextSwitch(p, n) /\ state[p] = "zombie" /\ at[p].pc = "yield_switch"
          /\ at' = [at EXCEPT ![p] = [at[p] EXCEPT !.pc = "dead"]] /\ state[n] = "running"
      BY <1>1, <1>7 DEF YieldSwitch, PInv, CpuInv, TableInv, Ended, PcbTypes
    <2>2. n \in saved /\ esp[n] = n
      BY <1>1, <2>1 DEF PInv, ContextInv, NobodyLost
    <2>3. cpu' = n /\ esp' = [esp EXCEPT ![p] = p] /\ saved' = (saved \cup {p}) \ {n}
      BY <1>1, <2>1, <2>2 DEF ContextSwitch
    <2>4. PICK a \in Ats : a.pc = "dead" /\ at' = [at EXCEPT ![p] = a]
      BY <1>1, <2>1 DEF Ats, Places
    <2>5. at' \in [Procs -> Ats] /\ at'[p] = a /\ \A q \in Procs \ {p} : at'[q] = at[q]
      BY <1>1, <2>1, <2>4
    <2>6. TypeOK'
      <3>1. Procs \subseteq 0 .. NProcs
        BY Types
      <3>2. QED
        BY <1>1, <2>1, <2>3, <2>5, <3>1, TypedAgain DEF PcbTypes, PInv
    <2>7. CpuInv'
      BY <1>1, <2>1, <2>3, <2>4, <2>5 DEF PInv, CpuInv, TableInv, NobodyLost, Windows, Ended
    <2>8. ContextInv' /\ NobodyLost' /\ FirstInv'
      BY <1>1, <2>1, <2>3 DEF PInv, ContextInv, NobodyLost, FirstInv, PcbTypes
    <2>9. TableInv'
      BY <1>1, <2>1, <2>4, <2>5 DEF PInv, TableInv, Ended
    <2>10. QED
      BY <2>6, <2>7, <2>8, <2>9 DEF PInv
  <1>8. QED
    BY <1>3, <1>4, <1>5, <1>6, <1>7

(* wait: a zombie of the caller's is collected, or none is found. *)
LEMMA WaitFindStep ==
  ASSUME Closed, PInv, NEW p \in Procs, WaitFind(p)
  PROVE  PInv'
  <1> USE DEF Runs, Goto
  <1>1. /\ at \in [Procs -> Ats] /\ PcbTypes /\ 1 \in Procs /\ cpu = p /\ at[p].pc = "wait" /\ running = p
        /\ UNCHANGED <<exit_code, priority, pending, esp, running, cpu>>
        /\ Procs \subseteq 0 .. NProcs /\ 0 \in 0 .. NProcs /\ at[p] \in Ats
    BY Types DEF WaitFind, PInv, TypeOK, PcbTypes, CpuInv
  <1>2. ASSUME NEW z \in Procs, state[z] = "zombie", parent[z] = p, Vacate(z),
               at' = [at EXCEPT ![p].pc = "free", ![p].pid = z, ![z] = User]
        PROVE  PInv'
    <2>1. z # p /\ z # 1 /\ z # 0
      <3>1. z # 0
        BY DEF Procs
      <3>2. QED
        BY <1>1, <1>2, <3>1 DEF PInv, TableInv, FirstInv
    <2>2. PICK a \in Ats : a.pc = "free" /\ a.pid = z /\ at'[p] = a
      <3> DEFINE a == [[at[p] EXCEPT !.pc = "free"] EXCEPT !.pid = z]
      <3>1. a \in Ats /\ a.pc = "free" /\ a.pid = z
        BY <1>1 DEF Ats, Places
      <3>2. at'[p] = a
        BY <1>1, <1>2, <2>1
      <3>3. QED
        BY <3>1, <3>2
    <2>3. at'[z] = User /\ User.pc = "user" /\ \A q \in Procs \ {p, z} : at'[q] = at[q]
      BY <1>1, <1>2, <2>1, UserMade
    <2>4. at' \in [Procs -> Ats]
      <3>1. \A q \in Procs : at'[q] \in Ats
        BY <1>1, <2>2, <2>3, UserMade
      <3>2. DOMAIN at' = Procs /\ at' = [q \in Procs |-> at'[q]]
        BY <1>1, <1>2
      <3>3. QED
        BY <3>1, <3>2
    <2>5. /\ state' = [state EXCEPT ![z] = "unused"] /\ parent' = [parent EXCEPT ![z] = 0]
          /\ saved' = saved \ {z} /\ orphans' \subseteq Procs
      BY <1>1, <1>2 DEF Vacate, PcbTypes
    <2>6. TypeOK'
      BY <1>1, <2>4, <2>5, TypedAgain DEF PcbTypes, PInv
    <2>7. CpuInv'
      BY <1>1, <1>2, <2>1, <2>2, <2>3, <2>5 DEF PInv, CpuInv, Windows, PcbTypes
    <2>8. ContextInv' /\ NobodyLost' /\ FirstInv'
      BY <1>1, <1>2, <2>1, <2>5 DEF PInv, ContextInv, NobodyLost, FirstInv, PcbTypes
    <2>9. TableInv'
      BY <1>1, <1>2, <2>1, <2>2, <2>3, <2>5 DEF PInv, TableInv, Ended, PcbTypes
    <2>10. QED
      BY <2>6, <2>7, <2>8, <2>9 DEF PInv
  <1>3. ASSUME at' = [at EXCEPT ![p].pc = "wait_none"], UNCHANGED <<state, parent, saved, orphans>>
        PROVE  PInv'
    <2> DEFINE a == [at[p] EXCEPT !.pc = "wait_none"]
    <2>1. a \in Ats /\ a.pc = "wait_none"
      BY <1>1 DEF Ats, Places
    <2>2. at' = [at EXCEPT ![cpu] = a]
      BY <1>1, <1>3
    <2>3. QED
      BY <1>1, <1>3, <2>1, <2>2, PlainStep DEF Ended, PInv, TypeOK, FirstInv
  <1>4. QED
    BY <1>1, <1>2, <1>3 DEF WaitFind, Wanted, Zombies

(* kill, suspend and resume: the state of another process, or of the caller. *)
LEMMA TargetSteps ==
  ASSUME Closed, PInv, NEW p \in Procs, NEW t \in Procs,
         SysKill(p, t) \/ SysSuspend(p, t) \/ SysResume(p, t)
  PROVE  PInv'
  <1> USE DEF Runs, Goto
  <1>1. /\ at \in [Procs -> Ats] /\ PcbTypes /\ cpu = p /\ at[p].pc = "user" /\ running = p
        /\ UNCHANGED <<parent, exit_code, priority, pending, esp, running, cpu, saved, orphans>>
        /\ Procs \subseteq 0 .. NProcs
    BY Types DEF SysKill, SysSuspend, SysResume, PInv, TypeOK, PcbTypes, CpuInv
  <1>2. /\ t # 1 /\ state[t] \notin {"unused", "embryo"}
        /\ \E s \in {"zombie", "sleeping", "ready"} : /\ state' = [state EXCEPT ![t] = s]
                                                      /\ state[t] = "zombie" => s = "zombie"
    BY DEF SysKill, SysSuspend, SysResume, Target, InUse, Closed, PInv, FirstInv
  <1>3. PICK s \in {"zombie", "sleeping", "ready"} : /\ state' = [state EXCEPT ![t] = s]
                                                     /\ state[t] = "zombie" => s = "zombie"
    BY <1>2
  <1>4. PICK a \in Ats : at' = [at EXCEPT ![p] = a] /\ a.pc \in {"user", "kill"}
    <2>1. At("kill", t) \in Ats /\ At("kill", t).pc = "kill"
      BY <1>1, Made DEF Places
    <2>2. at[p] \in Ats /\ at = [at EXCEPT ![p] = at[p]]
      BY <1>1
    <2>3. QED
      BY <1>1, <2>1, <2>2 DEF SysKill, SysSuspend, SysResume
  <1>5. at' \in [Procs -> Ats] /\ at'[p] = a /\ \A q \in Procs \ {p} : at'[q] = at[q]
    BY <1>1, <1>4
  <1>6. state'[t] = s /\ \A q \in Procs \ {t} : state'[q] = state[q]
    BY <1>1, <1>3 DEF PcbTypes
  <1>7. TypeOK'
    BY <1>1, <1>3, <1>5, TypedAgain DEF PcbTypes, PInv
  <1>8. CpuInv'
    BY <1>1, <1>2, <1>4, <1>5, <1>6 DEF PInv, CpuInv, Windows
  <1>9. ContextInv' /\ NobodyLost' /\ FirstInv'
    BY <1>1, <1>2, <1>6 DEF PInv, ContextInv, NobodyLost, FirstInv
  <1>10. TableInv'
    <2>1. \A q \in Procs : state[q] = "zombie" => state'[q] = "zombie"
      BY <1>3, <1>6
    <2>2. \A q \in Procs : (at'[q].pc = at[q].pc /\ at'[q].pid = at[q].pid) \/ at'[q].pc \in {"user", "kill"}
      BY <1>4, <1>5
    <2>3. \A q \in Procs : state'[q] \in {"unused", "embryo"} <=> state[q] \in {"unused", "embryo"}
      BY <1>2, <1>3, <1>6
    <2>4. \A q \in Procs : state[q] = "embryo" => state'[q] = "embryo"
      BY <1>2, <1>6
    <2>5. \A q \in Procs : state[q] \in {"unused", "embryo"} => at'[q] = at[q]
      BY <1>1, <1>5 DEF PInv, NobodyLost
    <2>6. \A q \in Procs : parent'[q] # q
      BY <1>1 DEF PInv, TableInv
    <2>7. \A q \in Procs : at'[q].pc \in Ended => state'[q] = "zombie"
      BY <2>1, <2>2 DEF PInv, TableInv, Ended
    <2>8. \A q \in Procs : state'[q] \in {"unused", "embryo"} => at'[q].pc \in {"user", "embryo"}
      BY <2>3, <2>5 DEF PInv, TableInv
    <2>9. ASSUME NEW q \in Procs, at'[q].pc = "fork"
          PROVE  at'[q].pid \in Procs /\ state'[at'[q].pid] = "embryo" /\ parent'[at'[q].pid] = q
      <3>1. at[q].pc = "fork" /\ at'[q].pid = at[q].pid
        BY <2>2, <2>9
      <3>2. QED
        BY <1>1, <2>4, <3>1 DEF PInv, TableInv
    <2>10. QED
      BY <2>6, <2>7, <2>8, <2>9 DEF TableInv
  <1>11. QED
    BY <1>7, <1>8, <1>9, <1>10 DEF PInv

(* The tick: the context of the current process goes onto its stack, that of *)
(* another READY one is popped.                                              *)
LEMMA TickStep ==
  ASSUME Closed, PInv, Tick
  PROVE  PInv'
  <1> DEFINE p == cpu
  <1>1. /\ at \in [Procs -> Ats] /\ PcbTypes /\ p \in Procs /\ Procs \subseteq 0 .. NProcs
        /\ UNCHANGED <<parent, exit_code, priority, pending, orphans>>
        /\ at[p].pc \notin Windows /\ running = p
    BY Types DEF Tick, Interruptible, Closed, PInv, TypeOK, PcbTypes, CpuInv, Windows
  <1>2. PICK a \in Ats : /\ at' = [at EXCEPT ![p] = a] /\ (a = at[p] \/ a.pc = "wait")
                         /\ at[p].pc = "halt" => a.pc = "wait"
    <2>1. at[p] \in Ats /\ [at[p] EXCEPT !.pc = "wait", !.cli = TRUE] \in Ats
          /\ [at[p] EXCEPT !.pc = "wait", !.cli = TRUE].pc = "wait"
      BY <1>1 DEF Ats, Places
    <2>2. at' = [at EXCEPT ![p] = Woken]
      BY DEF Tick, Goto
    <2>3. QED
      BY <2>1, <2>2 DEF Woken
  <1>3. at' \in [Procs -> Ats] /\ at'[p] = a /\ \A q \in Procs \ {p} : at'[q] = at[q]
    BY <1>1, <1>2
  <1>4. CASE UNCHANGED <<state, esp, running, cpu, saved>>
    <2>1. TypeOK'
      BY <1>1, <1>3, <1>4, TypedAgain DEF PcbTypes, PInv
    <2>2. CpuInv'
      BY <1>1, <1>2, <1>3, <1>4 DEF PInv, CpuInv, Windows
    <2>3. ContextInv' /\ NobodyLost' /\ FirstInv'
      BY <1>1, <1>4 DEF PInv, ContextInv, NobodyLost, FirstInv
    <2>4. state[p] \notin {"unused", "embryo"}
      BY <1>1 DEF PInv, NobodyLost
    <2>5. TableInv'
      BY <1>1, <1>2, <1>3, <1>4, <2>4 DEF PInv, TableInv, Ended
    <2>6. QED
      BY <2>1, <2>2, <2>3, <2>5 DEF PInv
  <1>5. ASSUME NEW n \in Procs, IsNext(n), state' = Swapped(p, n), running' = n, ContextSwitch(p, n)
        PROVE  PInv'
    <2>1. n # p /\ state[n] = "ready"
      BY <1>1, <1>5, NextIsAnother
    <2>2. n \in saved /\ esp[n] = n
      BY <2>1 DEF PInv, ContextInv
    <2>3. cpu' = n /\ esp' = [esp EXCEPT ![p] = p] /\ saved' = (saved \cup {p}) \ {n}
      BY <1>5, <2>2 DEF ContextSwitch
    <2>4. /\ state'[n] = "running" /\ (\A q \in Procs \ {p, n} : state'[q] = state[q])
          /\ state'[p] = (IF state[p] = "running" THEN "ready" ELSE state[p])
          /\ state' \in [Procs -> {"unused", "embryo", "ready", "running", "sleeping", "zombie"}]
      BY <1>1, <1>5, <2>1 DEF Swapped, PcbTypes
    <2>5. state[p] \notin {"unused", "embryo"}
      BY <1>1 DEF PInv, NobodyLost
    <2>6. TypeOK'
      BY <1>1, <1>3, <1>5, <2>3, <2>4, TypedAgain DEF PcbTypes, PInv
    <2>7. CpuInv'
      <3>1. at'[n] = at[n] /\ at[n].pc \notin Windows \cup Ended
        BY <1>3, <2>1 DEF PInv, CpuInv, TableInv
      <3>2. \A q \in Procs : at'[q].pc \notin Windows
        BY <1>1, <1>2, <1>3 DEF PInv, CpuInv, Windows
      <3>3. QED
        BY <1>5, <2>3, <3>1, <3>2 DEF CpuInv, Windows, Ended
    <2>8. ContextInv' /\ NobodyLost'
      BY <1>1, <1>5, <2>1, <2>3, <2>4, <2>5 DEF PInv, ContextInv, NobodyLost, PcbTypes
    <2>9. FirstInv'
      BY <1>1, <1>5, <2>1, <2>4 DEF PInv, FirstInv
    <2>10. TableInv'
      <3>1. \A q \in Procs : state[q] = "zombie" => state'[q] = "zombie"
        BY <2>1, <2>4
      <3>2. \A q \in Procs : at'[q] = at[q] \/ at'[q].pc = "wait"
        BY <1>2, <1>3
      <3>3. \A q \in Procs : state'[q] \in {"unused", "embryo"} \/ state[q] \in {"unused", "embryo"} =>
                                state'[q] = state[q] /\ at'[q] = at[q]
        BY <1>3, <2>1, <2>4, <2>5
      <3>4. /\ \A q \in Procs : parent'[q] # q
            /\ \A q \in Procs : at'[q].pc \in Ended => state'[q] = "zombie"
        BY <1>1, <3>1, <3>2 DEF PInv, TableInv, Ended
      <3>5. \A q \in Procs : state'[q] \in {"unused", "embryo"} => at'[q].pc \in {"user", "embryo"}
        BY <3>3 DEF PInv, TableInv
      <3>6. \A q \in Procs : at'[q].pc = "fork" =>
              /\ at'[q].pid \in Procs /\ state'[at'[q].pid] = "embryo" /\ parent'[at'[q].pid] = q
        <4>1. ASSUME NEW q \in Procs, at'[q].pc = "fork"
              PROVE  at'[q].pid \in Procs /\ state'[at'[q].pid] = "embryo" /\ parent'[at'[q].pid] = q
          <5>1. at'[q] = at[q]
            BY <3>2, <4>1
          <5>2. at[q].pid \in Procs /\ state[at[q].pid] = "embryo" /\ parent[at[q].pid] = q
            BY <4>1, <5>1 DEF PInv, TableInv
          <5>3. QED
            BY <1>1, <3>3, <5>1, <5>2
        <4>2. QED
          BY <4>1
      <3>7. QED
        BY <3>4, <3>5, <3>6 DEF TableInv
    <2>11. QED
      BY <2>6, <2>7, <2>8, <2>9, <2>10 DEF PInv
  <1>6. QED
    BY <1>1, <1>4, <1>5 DEF Tick

LEMMA NextKeeps == ASSUME Closed, PInv, [Next]_vars PROVE PInv'
  <1>1. CASE UNCHANGED vars
    BY <1>1 DEF vars, pcbVars, PInv, TypeOK, CpuInv, ContextInv, NobodyLost, FirstInv, TableInv
  <1>2. ASSUME NEW p \in Procs, KernelStep(p) PROVE PInv'
    BY <1>2, PlainSteps, ForkSteps, EndSteps, WaitFindStep DEF KernelStep
  <1>3. ASSUME NEW p \in Procs, UserStep(p) PROVE PInv'
    <2>1. Named \subseteq Procs
      BY ProcAssumption
    <2>2. ~\E t \in Named, x \in Prios : SysSetPrio(p, t, x)
      BY DEF Closed, SysSetPrio
    <2>3. CASE \E t \in Procs : SysKill(p, t) \/ SysSuspend(p, t) \/ SysResume(p, t)
      BY <2>3, TargetSteps
    <2>4. CASE Fault(p)
      BY <2>4, EndSteps
    <2>5. QED
      BY <1>3, <2>1, <2>2, <2>3, <2>4, PlainSteps DEF UserStep
  <1>4. ASSUME NEW p \in Procs, Irq(p) PROVE PInv'
    BY <1>4, PlainSteps
  <1>5. QED
    BY <1>1, <1>2, <1>3, <1>4, TickStep DEF Next

-----------------------------------------------------------------------------
(* The theorems. *)

LEMMA Invariance == Closed => (Spec => []PInv)
  <1> SUFFICES ASSUME Closed
               PROVE  Spec => []PInv
    OBVIOUS
  <1>1. PInv /\ [Next]_vars => PInv'
    BY NextKeeps
  <1>2. QED
    BY <1>1, InitInv, PTL DEF Spec

(* The fields of the table keep their types. *)
THEOREM TableTyped == Closed => (Spec => []TypeOK)
  <1>1. PInv => TypeOK
    BY DEF PInv
  <1>2. QED
    BY <1>1, Invariance, PTL

(* However ticks, yields, exits, kills and suspensions follow each other, the *)
(* CPU is on the stack of the process that the kernel takes for the current   *)
(* one, and no switch pops anything but a saved context.                      *)
THEOREM StacksMatch == Closed => (Spec => []OnOwnStack)
  <1>1. PInv => OnOwnStack
    <2> SUFFICES ASSUME PInv
                 PROVE  OnOwnStack
      OBVIOUS
    <2>1. cpu # 0
      BY DEF PInv, CpuInv, Procs
    <2>2. QED
      BY <2>1 DEF PInv, CpuInv, OnOwnStack
  <1>2. QED
    BY <1>1, Invariance, PTL

(* Every READY process can be switched to.                                    *)
THEOREM ReadyCanRun == Closed => (Spec => []ReadyResumable)
  <1>1. PInv => ReadyResumable
    <2> SUFFICES ASSUME PInv, NEW p \in Procs, state[p] = "ready", p # running
                 PROVE  esp[p] = p /\ p \in saved
      BY DEF ReadyResumable
    <2>1. p # cpu
      BY DEF PInv, CpuInv, TableInv, Ended
    <2>2. QED
      BY <2>1 DEF PInv, ContextInv
  <1>2. QED
    BY <1>1, Invariance, PTL

(* No process is left RUNNING behind the scheduler's back, and the current    *)
(* one is in use.                                                             *)
THEOREM OneRuns == Closed => (Spec => []NobodyLost)
  <1>1. PInv => NobodyLost
    BY DEF PInv
  <1>2. QED
    BY <1>1, Invariance, PTL

(* The slot that a fork fills stays its child's until the child is ready.     *)
THEOREM SlotsAreOwned == Closed => (Spec => []BuildsItsOwn)
  <1>1. PInv => BuildsItsOwn
    BY DEF PInv, TableInv, BuildsItsOwn, InUse
  <1>2. QED
    BY <1>1, Invariance, PTL

(* A zombie is never made anything but unused, and a stopped process is not   *)
(* made ready but by SYS_RESUME.                                              *)
THEOREM DownIsDown == Closed => (Spec => StaysDown)
  <1> SUFFICES ASSUME Closed
               PROVE  Spec => StaysDown
    OBVIOUS
  <1> DEFINE Kept(p) == /\ state[p] = "zombie" => state'[p] \in {"zombie", "unused"}
                        /\ state[p] = "sleeping" =>
                             state'[p] \in {"sleeping", "zombie"} \/ \E q \in Procs : SysResume(q, p)
  <1>1. ASSUME PInv, Next, NEW p \in Procs PROVE Kept(p)
    <2> USE DEF Runs, pcbVars
    <2>0. state \in [Procs -> {"unused", "embryo", "ready", "running", "sleeping", "zombie"}]
      BY <1>1 DEF PInv, TypeOK
    <2>1. CASE state' = state
      BY <2>1
    <2>2. CASE Tick
      <3>1. ASSUME NEW n \in Procs, IsNext(n), state' = Swapped(running, n) PROVE Kept(p)
        BY <2>0, <3>1 DEF Swapped, IsNext
      <3>2. QED
        BY <2>1, <2>2, <3>1 DEF Tick
    <2>3. ASSUME NEW r \in Procs, KernelStep(r) PROVE Kept(p)
      <3>1. ASSUME AllocTake(r) \/ ForkFail(r) \/ ForkDone(r) PROVE Kept(p)
        <4>1. /\ at[r].pid \in Procs /\ state[at[r].pid] \in {"unused", "embryo"}
              /\ \E s : state' = [state EXCEPT ![at[r].pid] = s]
          BY <1>1, <3>1 DEF AllocTake, ForkFail, ForkDone, Vacate, PInv, CpuInv, TableInv
        <4>2. QED
          BY <2>0, <4>1
      <3>2. ASSUME Zombify(r) PROVE Kept(p)
        BY <2>0, <2>1, <3>2 DEF Zombify
      <3>3. ASSUME YieldMark(r) PROVE Kept(p)
        <4>1. /\ state' = Swapped(at[r].prev, at[r].pid) /\ state[at[r].pid] = "ready"
          BY <1>1, <3>3 DEF YieldMark, PInv, CpuInv
        <4>2. QED
          BY <2>0, <4>1 DEF Swapped
      <3>4. ASSUME WaitFind(r) PROVE Kept(p)
        <4>1. state' = state \/ \E z \in Procs : state[z] = "zombie" /\ state' = [state EXCEPT ![z] = "unused"]
          BY <3>4 DEF WaitFind, Wanted, Zombies, Vacate
        <4>2. QED
          BY <2>0, <2>1, <4>1
      <3>5. QED
        BY <2>1, <2>3, <3>1, <3>2, <3>3, <3>4
           DEF KernelStep, FreeEnd, YieldPick, YieldSwitch, WaitNone, KillCode, SigpollStore
    <2>4. ASSUME NEW r \in Procs, UserStep(r) PROVE Kept(p)
      <3>1. ASSUME NEW t \in Procs, SysKill(r, t) \/ SysSuspend(r, t) PROVE Kept(p)
        BY <2>0, <3>1 DEF SysKill, SysSuspend
      <3>2. ASSUME NEW t \in Procs, SysResume(r, t) PROVE Kept(p)
        BY <2>0, <3>2 DEF SysResume
      <3>3. ASSUME Fault(r) PROVE Kept(p)
        BY <2>0, <3>3 DEF Fault
      <3>4. QED
        BY <2>1, <2>4, <3>1, <3>2, <3>3
           DEF UserStep, SysFork, ExecFails, Launch, SysSigpoll, SysExit, SysWait, SysSetPrio, SysRaise
    <2>5. ASSUME NEW r \in Procs, Irq(r) PROVE Kept(p)
      BY <2>1, <2>5 DEF Irq
    <2>6. QED
      BY <1>1, <2>2, <2>3, <2>4, <2>5 DEF Next
  <1>2. PInv /\ [Next]_vars => [\A p \in Procs : Kept(p)]_vars
    BY <1>1
  <1>3. Spec => []PInv
    BY Invariance
  <1>4. QED
    BY <1>2, <1>3, PTL DEF Spec, StaysDown

=============================================================================
