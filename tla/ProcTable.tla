----------------------------- MODULE ProcTable ------------------------------
(***************************************************************************)
(* The processes of StinkOS: the table and the scheduler of                *)
(* kernel/sys/proc.c, and the system calls of kernel/sys/syscall.c that    *)
(* create, end, stop and wait for processes.                               *)
(*                                                                         *)
(* There is one CPU.  cpu is the kernel stack it runs on (and user mode    *)
(* above it), running the PCB that proc_current() returns; proc_yield()    *)
(* changes both, one after the other.  A system call runs with interrupts  *)
(* enabled: it is a sequence of steps, at[k] being the place of the code   *)
(* that runs on stack k, and the PIT tick may come between two of them.    *)
(* Tick is the whole of proc_yield(), which the interrupt gate protects;   *)
(* app_return() calls proc_yield() as well, from a system call, and there  *)
(* it is a sequence of steps.                                              *)
(***************************************************************************)
EXTENDS Integers, FiniteSets

CONSTANTS
  NProcs,        (* PROC_MAX                                                *)
  Prios,         (* priorities; a lower value goes first                    *)
  DefaultPrio,   (* the priority zero_proc() gives                          *)
  Codes,         (* exit codes programs use                                 *)
  Sigs,          (* signal numbers                                          *)
  Calls,         (* the system calls programs make, of AllCalls             *)
  TickIn,        (* places of Windows in which the tick may strike          *)
  Named,         (* the processes setprio and raise name                    *)
  EmbryoTargets  (* may kill, suspend, resume and raise name an embryo?     *)

Procs == 1 .. NProcs

Killed == 137
ExitCodes == Codes \cup {0, Killed}

AllCalls == {"fork", "exit", "exec", "wait", "kill", "suspend", "setprio", "signal"}

(* Places where a tick lets another process see a table entry half-changed. *)
Windows == {"alloc", "free", "kill", "wait_none", "sigpoll", "yield_switch"}

ASSUME ProcAssumption ==
  /\ NProcs \in Nat \ {0}
  /\ Prios \subseteq 0 .. 31 /\ DefaultPrio \in Prios
  /\ Codes \subseteq Int
  /\ Sigs \subseteq 0 .. 31
  /\ Calls \subseteq AllCalls
  /\ TickIn \subseteq Windows
  /\ Named \subseteq Procs
  /\ EmbryoTargets \in BOOLEAN

VARIABLES
  state,      (* PCB: the states of enum proc_state                         *)
  parent,     (* PCB: parent_pid, 0 for none                                *)
  exit_code,  (* PCB                                                        *)
  priority,   (* PCB                                                        *)
  pending,    (* PCB: pending_signals                                       *)
  esp,        (* PCB: the stack the saved context is on, 0 for none         *)
  running,    (* the PCB proc_current() returns                             *)
  cpu,        (* the kernel stack the CPU is on; 0: it popped garbage       *)
  saved,      (* stacks whose top is a context context_switch() may pop     *)
  at,         (* what the code on each stack is doing                       *)
  orphans     (* history: processes whose forking process has been reaped   *)

pcbVars == <<state, parent, exit_code, priority, pending, esp>>
vars == <<pcbVars, running, cpu, saved, at, orphans>>

(* pid is the process a call works on or the next one of a yield, prev the   *)
(* one that yields, bits a copy of pending_signals; cli: interrupts are off. *)
User == [pc |-> "user", pid |-> 0, prev |-> 0, bits |-> {}, cli |-> FALSE]
At(pc, pid) == [User EXCEPT !.pc = pc, !.pid = pid]

Goto(p, a) == at' = [at EXCEPT ![p] = a]
Runs(p, pc) == cpu = p /\ at[p].pc = pc

InUse(p) == state[p] # "unused"
Zombies(q) == {z \in Procs : state[z] = "zombie" /\ parent[z] = q}
Living(q) == {c \in Procs : state[c] \notin {"unused", "zombie"} /\ parent[c] = q}

-----------------------------------------------------------------------------
(* The scheduler. *)

(* Steps of the scan of next_ready() from slot `from` to slot p: slot `from` *)
(* itself comes last.                                                        *)
Dist(from, p) == IF p > from THEN p - from ELSE p - from + NProcs

(* Mutant: a higher value goes first. *)
IsNextWorst(n) ==
  /\ state[n] = "ready"
  /\ \A q \in Procs : state[q] = "ready" =>
       \/ priority[n] > priority[q]
       \/ priority[n] = priority[q] /\ Dist(running, n) <= Dist(running, q)

(* next_ready() returns n: the first of the READY slots of best priority. *)
IsNext(n) ==
  /\ state[n] = "ready"
  /\ \A q \in Procs : state[q] = "ready" =>
       \/ priority[n] < priority[q]
       \/ priority[n] = priority[q] /\ Dist(running, n) <= Dist(running, q)

NoneReady == \A q \in Procs : state[q] # "ready"

(* Mutant: the context is saved in the PCB of the next process. *)
ContextSwitchSwapped(prev, next) ==
  /\ esp' = [esp EXCEPT ![next] = cpu]
  /\ saved' = (saved \cup {cpu}) \ {esp[next]}
  /\ cpu' = IF esp[next] \in saved THEN esp[next] ELSE 0

(* context_switch(&prev->esp, next->esp): next->esp is read before the call, *)
(* the context of this stack is saved, the other one is popped.              *)
ContextSwitch(prev, next) ==
  /\ esp' = [esp EXCEPT ![prev] = cpu]
  /\ saved' = (saved \cup {cpu}) \ {esp[next]}
  /\ cpu' = IF esp[next] \in saved THEN esp[next] ELSE 0

(* Mutant: the preempted process stays RUNNING. *)
SwappedKeepsPrev(prev, next) == [state EXCEPT ![next] = "running"]

(* Mutant: a process that was killed or suspended is preempted like another. *)
SwappedAlways(prev, next) ==
  [state EXCEPT ![prev] = "ready", ![next] = "running"]

(* prev->state and next->state of proc_yield(). *)
Swapped(prev, next) ==
  [state EXCEPT ![prev] = IF @ = "running" THEN "ready" ELSE @, ![next] = "running"]

(* Mutant: the loop does not look again. *)
WokenStays == at[cpu]

(* An interrupt wakes a hlt; its handler leaves the interrupt flag as it was.*)
Woken == IF at[cpu].pc = "halt" THEN [at[cpu] EXCEPT !.pc = "wait", !.cli = TRUE] ELSE at[cpu]

Interruptible ==
  /\ cpu # 0
  /\ \/ at[cpu].pc = "halt"
     \/ ~at[cpu].cli /\ (at[cpu].pc \in Windows => at[cpu].pc \in TickIn)

(* The PIT interrupt: irq_handler() and proc_yield(). *)
Tick ==
  /\ Interruptible
  /\ Goto(cpu, Woken)
  /\ \/ /\ NoneReady
        /\ UNCHANGED <<state, esp, running, cpu, saved>>
     \/ \E n \in Procs :
          /\ IsNext(n)
          /\ state' = Swapped(running, n)
          /\ running' = n
          /\ ContextSwitch(running, n)
  /\ UNCHANGED <<parent, exit_code, priority, pending, orphans>>

(* Any other interrupt wakes a hlt, too. *)
Irq(p) ==
  /\ Runs(p, "halt")
  /\ Goto(p, Woken)
  /\ UNCHANGED <<pcbVars, running, cpu, saved, orphans>>

-----------------------------------------------------------------------------
(* SYS_FORK. *)

(* Mutant: a priority out of range. *)
ClearedPrio(c) ==
  /\ exit_code' = [exit_code EXCEPT ![c] = 0]
  /\ priority' = [priority EXCEPT ![c] = 32]
  /\ pending' = [pending EXCEPT ![c] = {}]
  /\ esp' = [esp EXCEPT ![c] = 0]

(* zero_proc(), the fields after state. *)
Cleared(c) ==
  /\ exit_code' = [exit_code EXCEPT ![c] = 0]
  /\ priority' = [priority EXCEPT ![c] = DefaultPrio]
  /\ pending' = [pending EXCEPT ![c] = {}]
  /\ esp' = [esp EXCEPT ![c] = 0]

(* zero_proc(), the fields up to state, of a slot whose kernel stack is      *)
(* released; the processes it forked have lost their parent.                 *)
Vacate(c) ==
  /\ state' = [state EXCEPT ![c] = "unused"]
  /\ parent' = [parent EXCEPT ![c] = 0]
  /\ saved' = saved \ {c}
  /\ orphans' = (orphans \cup {o \in Procs : parent[o] = c}) \ {c}

(* proc_alloc(): the lowest unused slot is found and zeroed, *)
SysFork(p) ==
  /\ Runs(p, "user") /\ "fork" \in Calls
  /\ \E c \in Procs :
       /\ state[c] = "unused" /\ \A q \in 1 .. c - 1 : InUse(q)
       /\ Cleared(c)
       /\ Goto(p, At("alloc", c))
  /\ UNCHANGED <<state, parent, running, cpu, saved, orphans>>

(* Mutant: the slot is not marked. *)
AllocTakeUnmarked(p) ==
  LET c == at[p].pid IN
  /\ Runs(p, "alloc")
  /\ parent' = [parent EXCEPT ![c] = running]
  /\ orphans' = orphans \ {c}
  /\ at' = [at EXCEPT ![p] = At("fork", c), ![c] = At("embryo", 0)]
  /\ UNCHANGED <<state, exit_code, priority, pending, esp, running, cpu, saved>>

(* then taken. *)
AllocTake(p) ==
  LET c == at[p].pid IN
  /\ Runs(p, "alloc")
  /\ parent' = [parent EXCEPT ![c] = running]
  /\ state' = [state EXCEPT ![c] = "embryo"]
  /\ orphans' = orphans \ {c}
  /\ at' = [at EXCEPT ![p] = At("fork", c), ![c] = At("embryo", 0)]
  /\ UNCHANGED <<exit_code, priority, pending, esp, running, cpu, saved>>

(* Mutant: the scheduler may pick the child before it has a context. *)
ForkDoneEarly(p) ==
  LET c == at[p].pid IN
  /\ Runs(p, "fork")
  /\ pending' = [pending EXCEPT ![c] = {}]
  /\ priority' = [priority EXCEPT ![c] = priority[p]]
  /\ state' = [state EXCEPT ![c] = "ready"]
  /\ at' = [at EXCEPT ![p] = User, ![c] = User]
  /\ UNCHANGED <<parent, exit_code, esp, running, cpu, saved, orphans>>

(* No frame for the child's stack, directory or pages: proc_free(). *)
ForkFail(p) ==
  /\ Runs(p, "fork")
  /\ Vacate(at[p].pid)
  /\ Goto(p, At("free", at[p].pid))
  /\ UNCHANGED <<exit_code, priority, pending, esp, running, cpu>>

(* The memory is copied (CowMemory) and a context is built on the child's    *)
(* stack; then the child is READY, whatever became of it meanwhile.          *)
ForkDone(p) ==
  LET c == at[p].pid IN
  /\ Runs(p, "fork")
  /\ esp' = [esp EXCEPT ![c] = c]
  /\ saved' = saved \cup {c}
  /\ pending' = [pending EXCEPT ![c] = {}]
  /\ priority' = [priority EXCEPT ![c] = priority[p]]
  /\ state' = [state EXCEPT ![c] = "ready"]
  /\ at' = [at EXCEPT ![p] = User, ![c] = User]
  /\ UNCHANGED <<parent, exit_code, running, cpu, orphans>>

(* The end of zero_proc() in proc_free(). *)
FreeEnd(p) ==
  /\ Runs(p, "free")
  /\ Cleared(at[p].pid)
  /\ Goto(p, User)
  /\ UNCHANGED <<state, parent, running, cpu, saved, orphans>>

-----------------------------------------------------------------------------
(* The end of a process: SYS_EXIT, a fault, app_return(). *)

SysExit(p, x) ==
  /\ Runs(p, "user") /\ "exit" \in Calls
  /\ exit_code' = [exit_code EXCEPT ![running] = x]
  /\ Goto(p, At("exit", 0))
  /\ UNCHANGED <<state, parent, priority, pending, esp, running, cpu, saved, orphans>>

(* A fault no handler resolves: app_return() with interrupts off.  Process 1 *)
(* goes back to the shell or the menu, which the table does not show.        *)
Fault(p) ==
  /\ Runs(p, "user") /\ "exit" \in Calls
  /\ running > 1
  /\ state' = [state EXCEPT ![running] = "zombie"]
  /\ Goto(p, [At("yield", 0) EXCEPT !.cli = TRUE])
  /\ UNCHANGED <<parent, exit_code, priority, pending, esp, running, cpu, saved, orphans>>

(* app_return() after SYS_EXIT: the sockets are closed, then ... *)
Zombify(p) ==
  /\ Runs(p, "exit")
  /\ IF running > 1
     THEN state' = [state EXCEPT ![running] = "zombie"] /\ Goto(p, At("yield", 0))
     ELSE Goto(p, User) /\ UNCHANGED state
  /\ UNCHANGED <<parent, exit_code, priority, pending, esp, running, cpu, saved, orphans>>

(* proc_yield() of app_return(): next_ready(), *)
YieldPick(p) ==
  /\ Runs(p, "yield")
  /\ \/ NoneReady /\ Goto(p, [at[p] EXCEPT !.pc = "dead"])
     \/ \E n \in Procs :
          IsNext(n) /\ Goto(p, [at[p] EXCEPT !.pc = "yield_mark", !.pid = n, !.prev = running])
  /\ UNCHANGED <<pcbVars, running, cpu, saved, orphans>>

(* the states and running, *)
YieldMark(p) ==
  /\ Runs(p, "yield_mark")
  /\ state' = Swapped(at[p].prev, at[p].pid)
  /\ running' = at[p].pid
  /\ Goto(p, [at[p] EXCEPT !.pc = "yield_switch"])
  /\ UNCHANGED <<parent, exit_code, priority, pending, esp, cpu, saved, orphans>>

(* context_switch(); what is behind it halts for ever. *)
YieldSwitch(p) ==
  /\ Runs(p, "yield_switch")
  /\ ContextSwitch(at[p].prev, at[p].pid)
  /\ Goto(p, [at[p] EXCEPT !.pc = "dead"])
  /\ UNCHANGED <<state, parent, exit_code, priority, pending, running, orphans>>

(* SYS_EXEC of a bad image: menu_exit(), a longjmp into the menu.  What a      *)
(* process other than 1 does on the menu's stack is beyond this module.        *)
ExecFails(p) ==
  /\ Runs(p, "user") /\ "exec" \in Calls
  /\ Goto(p, At("menu", 0))
  /\ UNCHANGED <<pcbVars, running, cpu, saved, orphans>>

(* The menu launches the next application. *)
Launch(p) ==
  /\ Runs(p, "menu") /\ p = 1
  /\ Goto(p, User)
  /\ UNCHANGED <<pcbVars, running, cpu, saved, orphans>>

-----------------------------------------------------------------------------
(* SYS_WAIT (pid 0) and SYS_WAITPID. *)

SysWait(p, t) ==
  /\ Runs(p, "user") /\ "wait" \in Calls
  /\ Goto(p, At("wait", t))
  /\ UNCHANGED <<pcbVars, running, cpu, saved, orphans>>

Wanted(p) == {z \in Zombies(running) : at[p].pid \in {0, z}}

(* proc_find_zombie_child() and proc_reap(); FreeEnd follows. *)
WaitFind(p) ==
  /\ Runs(p, "wait")
  /\ \/ \E z \in Wanted(p) :
          /\ \A y \in Wanted(p) : z <= y
          /\ Vacate(z)
          /\ at' = [at EXCEPT ![p].pc = "free", ![p].pid = z, ![z] = User]
     \/ /\ Wanted(p) = {}
        /\ Goto(p, [at[p] EXCEPT !.pc = "wait_none"])
        /\ UNCHANGED <<state, parent, saved, orphans>>
  /\ UNCHANGED <<exit_code, priority, pending, esp, running, cpu>>

(* proc_has_living_child(), or the test on the one process asked for. *)
StillComing(p) ==
  IF at[p].pid = 0 THEN Living(running) # {}
  ELSE InUse(at[p].pid) /\ parent[at[p].pid] = running

(* Nothing to wait for: -1.  Otherwise sti; hlt; cli, and around again. *)
WaitNone(p) ==
  /\ Runs(p, "wait_none")
  /\ Goto(p, IF StillComing(p) THEN [at[p] EXCEPT !.pc = "halt"] ELSE User)
  /\ UNCHANGED <<pcbVars, running, cpu, saved, orphans>>

-----------------------------------------------------------------------------
(* Calls on another process. *)

(* proc_get(): any slot in use. *)
Target(t) == InUse(t) /\ (state[t] = "embryo" => EmbryoTargets)

(* SYS_KILL: the state first, *)
SysKill(p, t) ==
  /\ Runs(p, "user") /\ "kill" \in Calls
  /\ t > 1 /\ Target(t)
  /\ state' = [state EXCEPT ![t] = "zombie"]
  /\ Goto(p, At("kill", t))
  /\ UNCHANGED <<parent, exit_code, priority, pending, esp, running, cpu, saved, orphans>>

(* then the exit code. *)
KillCode(p) ==
  /\ Runs(p, "kill")
  /\ exit_code' = [exit_code EXCEPT ![at[p].pid] = Killed]
  /\ Goto(p, User)
  /\ UNCHANGED <<state, parent, priority, pending, esp, running, cpu, saved, orphans>>

SysSuspend(p, t) ==
  /\ Runs(p, "user") /\ "suspend" \in Calls
  /\ t > 1 /\ Target(t) /\ state[t] # "zombie"
  /\ state' = [state EXCEPT ![t] = "sleeping"]
  /\ UNCHANGED <<parent, exit_code, priority, pending, esp, running, cpu, saved, at, orphans>>

SysResume(p, t) ==
  /\ Runs(p, "user") /\ "suspend" \in Calls
  /\ state[t] = "sleeping"
  /\ state' = [state EXCEPT ![t] = "ready"]
  /\ UNCHANGED <<parent, exit_code, priority, pending, esp, running, cpu, saved, at, orphans>>

SysSetPrio(p, t, x) ==
  /\ Runs(p, "user") /\ "setprio" \in Calls
  /\ Target(t)
  /\ priority' = [priority EXCEPT ![t] = x]
  /\ UNCHANGED <<state, parent, exit_code, pending, esp, running, cpu, saved, at, orphans>>

SysRaise(p, t, s) ==
  /\ Runs(p, "user") /\ "signal" \in Calls
  /\ Target(t)
  /\ pending' = [pending EXCEPT ![t] = @ \cup {s}]
  /\ UNCHANGED <<state, parent, exit_code, priority, esp, running, cpu, saved, at, orphans>>

(* SYS_SIGPOLL reads the bitmap once, *)
SysSigpoll(p) ==
  /\ Runs(p, "user") /\ "signal" \in Calls
  /\ pending[running] # {}
  /\ Goto(p, [At("sigpoll", running) EXCEPT !.bits = pending[running]])
  /\ UNCHANGED <<pcbVars, running, cpu, saved, orphans>>

(* and stores it back without its lowest bit. *)
SigpollStore(p) ==
  /\ Runs(p, "sigpoll")
  /\ \E s \in at[p].bits :
       /\ \A x \in at[p].bits : s <= x
       /\ pending' = [pending EXCEPT ![at[p].pid] = at[p].bits \ {s}]
  /\ Goto(p, User)
  /\ UNCHANGED <<state, parent, exit_code, priority, esp, running, cpu, saved, orphans>>

-----------------------------------------------------------------------------
Init ==
  /\ state = [p \in Procs |-> IF p = 1 THEN "running" ELSE "unused"]
  /\ parent = [p \in Procs |-> 0]
  /\ exit_code = [p \in Procs |-> 0]
  /\ priority = [p \in Procs |-> DefaultPrio]
  /\ pending = [p \in Procs |-> {}]
  /\ esp = [p \in Procs |-> 0]
  /\ running = 1
  /\ cpu = 1
  /\ saved = {}
  /\ at = [p \in Procs |-> User]
  /\ orphans = {}

(* What the kernel does once a call has entered it. *)
KernelStep(p) ==
  \/ AllocTake(p) \/ ForkFail(p) \/ ForkDone(p) \/ FreeEnd(p)
  \/ Zombify(p) \/ YieldPick(p) \/ YieldMark(p) \/ YieldSwitch(p)
  \/ WaitFind(p) \/ WaitNone(p) \/ KillCode(p) \/ SigpollStore(p)

(* What programs ask for. *)
UserStep(p) ==
  \/ SysFork(p) \/ Fault(p) \/ ExecFails(p) \/ Launch(p) \/ SysSigpoll(p)
  \/ \E x \in Codes : SysExit(p, x)
  \/ \E t \in 0 .. NProcs : SysWait(p, t)
  \/ \E t \in Procs : SysKill(p, t) \/ SysSuspend(p, t) \/ SysResume(p, t)
  \/ \E t \in Named, x \in Prios : SysSetPrio(p, t, x)
  \/ \E t \in Named, s \in Sigs : SysRaise(p, t, s)

Next == Tick \/ \E p \in Procs : KernelStep(p) \/ UserStep(p) \/ Irq(p)

Spec == Init /\ [][Next]_vars

(* A process gets the CPU for 10 ms, more than a step of the kernel takes: one *)
(* that gets it again and again makes its steps.  A tick that finds interrupts *)
(* off stays pending in the PIC and comes as soon as they are on.              *)
FairSpec == Spec /\ SF_vars(Tick) /\ \A p \in Procs : SF_vars(KernelStep(p))

-----------------------------------------------------------------------------
Places == {"user", "embryo", "alloc", "fork", "free", "exit", "yield", "yield_mark",
           "yield_switch", "dead", "menu", "wait", "wait_none", "halt", "kill", "sigpoll"}

TypeOK ==
  /\ state \in [Procs -> {"unused", "embryo", "ready", "running", "sleeping", "zombie"}]
  /\ parent \in [Procs -> 0 .. NProcs]
  /\ exit_code \in [Procs -> ExitCodes]
  /\ priority \in [Procs -> Prios]
  /\ pending \in [Procs -> SUBSET Sigs]
  /\ esp \in [Procs -> 0 .. NProcs]
  /\ running \in Procs
  /\ cpu \in 0 .. NProcs
  /\ saved \subseteq Procs
  /\ at \in [Procs -> [pc : Places, pid : 0 .. NProcs, prev : 0 .. NProcs,
                       bits : SUBSET Sigs, cli : BOOLEAN]]
  /\ orphans \subseteq Procs

(* context_asm.s: "the caller resumes at the matching site in whichever code *)
(* last called context_switch on that stack": no switch pops anything else.  *)
ResumesSaved == cpu # 0

(* The CPU is on the kernel stack of the process the kernel takes for the    *)
(* current one, except between the two halves of app_return's proc_yield.    *)
OnOwnStack == cpu # 0 /\ (at[cpu].pc # "yield_switch" => cpu = running)

(* Every READY process that waits for the CPU has its context on its own     *)
(* stack, ready to be popped.                                                *)
ReadyResumable ==
  \A p \in Procs : state[p] = "ready" /\ p # running => esp[p] = p /\ p \in saved

(* No process is RUNNING but the current one (next_ready would never pick it *)
(* again), and the current one is in use.                                    *)
NobodyLost ==
  /\ \A p \in Procs : state[p] = "running" => p = running
  /\ state[running] \notin {"unused", "embryo"}

(* The slot a fork is filling is its own: no other fork, kill or wait takes  *)
(* it away before the child is made ready.                                   *)
BuildsItsOwn ==
  \A p \in Procs : at[p].pc = "fork" => InUse(at[p].pid) /\ parent[at[p].pid] = p

(* A zombie is never run again: it stays one until its slot is released.  And *)
(* a process that SYS_SUSPEND has stopped stays stopped until SYS_RESUME or   *)
(* its end, even when it was the current one and the tick switches it out.   *)
StaysDown ==
  [][\A p \in Procs :
       /\ state[p] = "zombie" => state'[p] \in {"zombie", "unused"}
       /\ state[p] = "sleeping" =>
            state'[p] \in {"sleeping", "zombie"} \/ \E q \in Procs : SysResume(q, p)]_vars

(* libstink.h, sys_wait: "Returns -1 if the caller has no children": a wait   *)
(* that gives up has no zombie to collect.                                   *)
WaitMissesNoZombie ==
  [][\A p \in Procs :
       Runs(p, "wait_none") /\ at'[p].pc = "user" => Wanted(p) = {}]_vars

Reaped(z) == state[z] = "zombie" /\ state'[z] = "unused"

(* libstink.h, sys_kill: "marks the target PROC_ZOMBIE with exit_code = 137": *)
(* nobody collects a killed process before it has that exit code.            *)
KillStatus ==
  [][\A z, p \in Procs : Reaped(z) => ~(at[p].pc = "kill" /\ at[p].pid = z)]_vars

(* proc.h: SYS_WAIT finds "a ZOMBIE child of the caller": a process collects *)
(* the children it forked, not those of an earlier process in its slot.      *)
ReapsItsOwn == [][\A z \in Procs : Reaped(z) => z \notin orphans]_vars

(* ARCHITECTURE.md: "sys_sigpoll() drains one bit": polling takes one of the *)
(* signals that are pending, and leaves the others.                          *)
PollDrainsOne ==
  [][\A p \in Procs : Runs(p, "sigpoll") /\ at'[p].pc = "user" =>
       \E s \in Sigs : pending'[running] = pending[running] \ {s}]_vars

(* syscall.c: a fork()ed child must not reach menu_exit, whose longjmp        *)
(* "would crash the scheduler".                                              *)
MenuForKernelProc == \A p \in Procs : at[p].pc = "menu" => p = 1

(* No process that could have the CPU is better. *)
Top(p) ==
  /\ state[p] = "ready" /\ p # running
  /\ \A q \in Procs : state[q] \in {"ready", "running"} => priority[p] <= priority[q]

(* libstink.h: "The scheduler always picks the lowest-priority-value          *)
(* PROC_READY slot; equal-priority procs round-robin fairly": every READY      *)
(* process that none is better than gets the CPU.                             *)
TopRuns == \A p \in Procs : Top(p) ~> ~Top(p)

Waiting(p) == at[p].pc \in {"wait", "wait_none", "halt"} /\ state[p] \in {"ready", "running"}

Collectable(p) == \E z \in Zombies(p) : at[p].pid \in {0, z}

(* A process blocked in SYS_WAIT or SYS_WAITPID that gets the CPU again and   *)
(* again returns once a child it waits for has ended.                         *)
WaitReturns ==
  \A p \in Procs : []<>(running = p) => ((Waiting(p) /\ Collectable(p)) ~> ~Waiting(p))
=============================================================================
