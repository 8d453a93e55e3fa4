----------------------------- MODULE CowMemory ------------------------------
(***************************************************************************)
(* The user address spaces of StinkOS: kernel/arch/paging.c over the frame *)
(* allocator of Pmm, driven by the system calls of kernel/sys/syscall.c    *)
(* that create, copy, grow, shrink and drop them, and by the page-fault    *)
(* path of kernel/sys/trap.c.                                              *)
(*                                                                         *)
(* System calls run with interrupts enabled (syscall_dispatch begins with  *)
(* sti), so the PIT tick may take the CPU away in the middle of one.  A    *)
(* call is therefore a sequence of steps, at[p] being the place process p  *)
(* has reached; each step allocates, shares or frees at most one frame,    *)
(* and Switch may come between any two of them.  The page-fault handler    *)
(* runs behind an interrupt gate without sti and is one step.              *)
(*                                                                         *)
(* An address space is the set of frames reachable from one page-directory *)
(* pointer table: <<p, g>> with p the process it was built for and g its   *)
(* generation.  cr3[p] names the generation the PCB points at; the other   *)
(* one is what exec builds before it commits.  The entries of a space are  *)
(* numbered: its page tables, its code and stack pages, its heap pages,    *)
(* its directory (PDPT and PD0 together), and for generation 0 also the    *)
(* kernel stack of the process.                                            *)
(***************************************************************************)
EXTENDS Pmm, FiniteSets

CONSTANTS
  NProcs,       (* PROC_MAX                                                *)
  NTables,      (* page tables of a user window                            *)
  NCode,        (* pages mapped from the start: code and stack             *)
  NHeap,        (* pages of the heap window                                *)
  TableOf,      (* the page table that holds the entry of each page        *)
  Values,       (* what a page may contain                                 *)
  Calls,        (* the system calls programs make, of AllCalls             *)
  TickInExec,   (* may the PIT tick strike while exec loads the image?     *)
  AnyBuffer     (* may a system call fill a buffer in a read-only page?    *)

Procs   == 1 .. NProcs
Gens    == {0, 1}
Spaces  == Procs \X Gens
Tables  == 0 .. NTables - 1
CodeLo  == NTables
HeapLo  == NTables + NCode
HeapHi  == NTables + NCode + NHeap
Dir     == HeapHi
KStack  == Dir + 1
Pages   == CodeLo .. HeapHi - 1
Entries == 0 .. KStack
MaybeFrame == 0 .. NFrames

NoPage == "no page"   \* in place of a value, where no page is mapped

(* Overshoot of user_heap_next past the heap window: two mmap calls that     *)
(* both passed the room check before either had mapped its pages.            *)
HeapBound == HeapHi + NProcs * NHeap

AllCalls == {"alloc", "brk", "mmap", "munmap", "fill", "fork", "exec", "exit", "kill"}

ASSUME CowAssumption ==
  /\ NProcs \in Nat \ {0}
  /\ NTables \in Nat /\ NCode \in Nat \ {0} /\ NHeap \in Nat
  /\ TableOf \in [Pages -> Tables]
  /\ Calls \subseteq AllCalls
  /\ TickInExec \in BOOLEAN /\ AnyBuffer \in BOOLEAN
  /\ Cardinality(Spaces) <= RefMax
  /\ HeapLo < NFrames
  /\ NoPage \notin Values

VARIABLES
  frame,          (* frame[s][e]: the frame entry e of space s holds, or 0  *)
  rw,             (* rw[s][e]: PG_RW of a page-table entry                  *)
  cow,            (* cow[s][e]: PG_COW of a page-table entry                *)
  mem,            (* contents of each frame that is somebody's page         *)
  state,          (* PCB: "unused", "embryo", "ready", "zombie"             *)
  parent,         (* PCB: parent_pid, 0 for none                            *)
  cr3,            (* PCB: the generation of the space the process runs in   *)
  running,        (* the process on the CPU                                 *)
  page_pdpt,      (* the space in CR3 and in paging.c's global of that name *)
  user_heap_next, (* paging.c's heap watermark: one for all processes       *)
  at              (* where each process is in the kernel                    *)

spaceVars == <<frame, rw, cow>>
procVars  == <<state, parent, cr3>>
cpuVars   == <<running, page_pdpt>>
vars == <<pmmVars, spaceVars, mem, procVars, cpuVars, user_heap_next, at>>

(* e and lim are the cursor and the limit of a loop over entries, base the   *)
(* start of an mmap, child the process that fork is building.                *)
User == [pc |-> "user", e |-> 0, lim |-> 0, base |-> 0, child |-> 0]
At(pc) == [User EXCEPT !.pc = pc]

Mine(p)   == <<p, cr3[p]>>          \* the space the PCB of p points at
Staged(p) == <<p, 1 - cr3[p]>>      \* the space exec builds for p

NoEntries == [e \in Entries |-> 0]
NoFlags   == [e \in Entries |-> FALSE]

(* Process 1 after its first launch: tables, code pages and directory mapped *)
(* writable, everything else free.                                           *)
BootEntries == (0 .. HeapLo - 1) \cup {Dir}
BootFrame(e) == IF e = Dir THEN HeapLo + 1 ELSE e + 1

-----------------------------------------------------------------------------
(* Elementary operations on a page-table entry. *)

Runs(p, pc) == running = p /\ at[p].pc = pc

Goto(p, a) == at' = [at EXCEPT ![p] = a]

(* map_user_page() and the stores of paging_init_user_pgdir(): entry e of    *)
(* space s now holds the fresh frame f; what it held before is overwritten.  *)
Install(s, e, f) ==
  /\ frame' = [frame EXCEPT ![s][e] = f]
  /\ rw' = [rw EXCEPT ![s][e] = e \in Pages]
  /\ cow' = [cow EXCEPT ![s][e] = FALSE]

(* The contents of a frame that becomes a page or is loaded: anything. *)
Holds(f) == \E x \in Values : mem' = [mem EXCEPT ![f] = x]

(* Mutant: the frame is freed and the entry stays. *)
DropStale(s, e) ==
  /\ PmmFree(frame[s][e])
  /\ UNCHANGED spaceVars

(* unmap_user_page(), and a round of the loops of paging_destroy_user_pgdir. *)
Drop(s, e) ==
  /\ PmmFree(frame[s][e])
  /\ frame' = [frame EXCEPT ![s][e] = 0]
  /\ rw' = [rw EXCEPT ![s][e] = FALSE]
  /\ cow' = [cow EXCEPT ![s][e] = FALSE]

(* Mutants: the parent keeps PG_RW; the new owner is not counted. *)
ShareParentWrites(s, d, e) ==
  /\ PmmRefInc(frame[s][e])
  /\ frame' = [frame EXCEPT ![d][e] = frame[s][e]]
  /\ rw' = [rw EXCEPT ![d][e] = FALSE]
  /\ cow' = [cow EXCEPT ![d][e] = cow[s][e] \/ rw[s][e]]

ShareUncounted(s, d, e) ==
  /\ UNCHANGED pmmVars
  /\ frame' = [frame EXCEPT ![d][e] = frame[s][e]]
  /\ rw' = [rw EXCEPT ![s][e] = FALSE, ![d][e] = FALSE]
  /\ cow' = [cow EXCEPT ![s][e] = cow[s][e] \/ rw[s][e],
                        ![d][e] = cow[s][e] \/ rw[s][e]]

(* One page-table entry of paging_copy_user_pgdir(): a writable page loses   *)
(* PG_RW and gains PG_COW on both sides, a read-only one is shared as it is. *)
Share(s, d, e) ==
  /\ PmmRefInc(frame[s][e])
  /\ frame' = [frame EXCEPT ![d][e] = frame[s][e]]
  /\ rw' = [rw EXCEPT ![s][e] = FALSE, ![d][e] = FALSE]
  /\ cow' = [cow EXCEPT ![s][e] = cow[s][e] \/ rw[s][e],
                        ![d][e] = cow[s][e] \/ rw[s][e]]

(* The PCB and every pointer to the spaces of q are gone; no frame is freed. *)
Forget(q) ==
  /\ frame' = [s \in Spaces |-> IF s[1] = q THEN NoEntries ELSE frame[s]]
  /\ rw' = [s \in Spaces |-> IF s[1] = q THEN NoFlags ELSE rw[s]]
  /\ cow' = [s \in Spaces |-> IF s[1] = q THEN NoFlags ELSE cow[s]]

NoChange == UNCHANGED <<mem, procVars, cpuVars, user_heap_next>>

-----------------------------------------------------------------------------
(* User mode: loads, stores and faults through the space in CR3. *)

(* A store to a writable page. *)
Store(p, e, x) ==
  /\ Runs(p, "user")
  /\ frame[page_pdpt][e] # 0 /\ rw[page_pdpt][e]
  /\ mem' = [mem EXCEPT ![frame[page_pdpt][e]] = x]
  /\ UNCHANGED <<pmmVars, spaceVars, procVars, cpuVars, user_heap_next, at>>

CowPage(e) == frame[page_pdpt][e] # 0 /\ cow[page_pdpt][e]

(* Mutant: the last-owner test is off by one. *)
CowLiftEarly(p, e) ==
  /\ Runs(p, "user") /\ CowPage(e)
  /\ refcount[frame[page_pdpt][e]] <= 2
  /\ rw' = [rw EXCEPT ![page_pdpt][e] = TRUE]
  /\ cow' = [cow EXCEPT ![page_pdpt][e] = FALSE]
  /\ UNCHANGED <<pmmVars, frame, at>> /\ NoChange

(* paging_handle_cow_fault(), last owner: the page becomes writable again.   *)
CowLift(p, e) ==
  /\ Runs(p, "user") /\ CowPage(e)
  /\ refcount[frame[page_pdpt][e]] <= 1
  /\ rw' = [rw EXCEPT ![page_pdpt][e] = TRUE]
  /\ cow' = [cow EXCEPT ![page_pdpt][e] = FALSE]
  /\ UNCHANGED <<pmmVars, frame, at>> /\ NoChange

(* Mutant: the 4 KiB of the shared page are not copied. *)
CowCopyBlank(p, e) ==
  LET old == frame[page_pdpt][e] IN
  /\ Runs(p, "user") /\ CowPage(e)
  /\ refcount[old] > 1
  /\ CanAlloc
  /\ Take
  /\ refcount' = [refcount EXCEPT ![old] = @ - 1, ![NextFree] = 1]
  /\ frame' = [frame EXCEPT ![page_pdpt][e] = NextFree]
  /\ rw' = [rw EXCEPT ![page_pdpt][e] = TRUE]
  /\ cow' = [cow EXCEPT ![page_pdpt][e] = FALSE]
  /\ UNCHANGED <<mem, procVars, cpuVars, user_heap_next, at>>

(* paging_handle_cow_fault(), other owners left: the page moves to a fresh   *)
(* frame with the same contents, and the shared frame loses one owner.       *)
CowCopy(p, e) ==
  LET old == frame[page_pdpt][e] IN
  /\ Runs(p, "user") /\ CowPage(e)
  /\ refcount[old] > 1
  /\ CanAlloc
  /\ Take
  /\ refcount' = [refcount EXCEPT ![old] = @ - 1, ![NextFree] = 1]
  /\ frame' = [frame EXCEPT ![page_pdpt][e] = NextFree]
  /\ rw' = [rw EXCEPT ![page_pdpt][e] = TRUE]
  /\ cow' = [cow EXCEPT ![page_pdpt][e] = FALSE]
  /\ mem' = [mem EXCEPT ![NextFree] = mem[old]]
  /\ UNCHANGED <<procVars, cpuVars, user_heap_next, at>>

(* app_return(): SYS_EXIT, or a fault no handler resolves (a store to a      *)
(* read-only or unmapped page, no frame left for a copy).  Process 1 loads   *)
(* the shell in place of the application; any other becomes a zombie that    *)
(* keeps the CPU until the next switch.                                      *)
Exit(p) ==
  /\ Runs(p, "user") /\ "exit" \in Calls
  /\ IF p = 1
     THEN Goto(p, At("exec_dir")) /\ UNCHANGED state
     ELSE Goto(p, At("dead")) /\ state' = [state EXCEPT ![p] = "zombie"]
  /\ UNCHANGED <<pmmVars, spaceVars, mem, parent, cr3, cpuVars, user_heap_next>>

(* paging_user_range_ok() for a buffer in the page of entry e. *)
RangeOk(e) == e \in CodeLo .. HeapLo - 1 \/ e \in HeapLo .. user_heap_next - 1

(* A system call fills a buffer of the caller (SYS_READ, SYS_FREAD, ...). The *)
(* kernel runs with CR0.WP clear, so its stores ignore PG_RW and never fault.*)
FillBuffer(p, e, x) ==
  /\ Runs(p, "user") /\ "fill" \in Calls
  /\ e \in Pages /\ RangeOk(e)
  /\ frame[page_pdpt][e] # 0
  /\ AnyBuffer \/ rw[page_pdpt][e]
  /\ mem' = [mem EXCEPT ![frame[page_pdpt][e]] = x]
  /\ UNCHANGED <<pmmVars, spaceVars, procVars, cpuVars, user_heap_next, at>>

-----------------------------------------------------------------------------
(* The heap: SYS_ALLOC, SYS_SBRK, SYS_MMAP, SYS_MUNMAP.  Every call works on *)
(* the active space and on the one watermark user_heap_next.                 *)

(* pmm_alloc(), map_user_page(user_heap_next), user_heap_next += 4096.  Past *)
(* the heap window the page lands outside every table the model tracks: the  *)
(* frame is taken and no entry of the window holds it.  Nobody clears the    *)
(* frame: the page starts with whatever the frame held.                      *)
MapNext ==
  \E f \in Frames :
    /\ PmmAlloc(f)
    /\ \/ /\ user_heap_next < HeapHi
          /\ Install(page_pdpt, user_heap_next, f)
          /\ Holds(f)
       \/ user_heap_next >= HeapHi /\ UNCHANGED <<spaceVars, mem>>
    /\ user_heap_next < HeapBound
    /\ user_heap_next' = user_heap_next + 1
    /\ UNCHANGED <<procVars, cpuVars>>

Unmap(e) ==
  IF e \in Pages THEN Drop(page_pdpt, e) ELSE UNCHANGED <<pmmVars, spaceVars>>

(* paging_user_alloc(). *)
SysAlloc(p) ==
  /\ Runs(p, "user") /\ "alloc" \in Calls
  /\ user_heap_next < HeapHi
  /\ MapNext
  /\ UNCHANGED at

(* paging_user_set_brk(target), its argument already clamped to the window.  *)
SysBrk(p, target) ==
  /\ Runs(p, "user") /\ "brk" \in Calls
  /\ Goto(p, [At("brk") EXCEPT !.lim = target])
  /\ UNCHANGED <<pmmVars, spaceVars>> /\ NoChange

BrkGrow(p) ==
  /\ Runs(p, "brk")
  /\ user_heap_next < at[p].lim
  /\ \/ MapNext /\ UNCHANGED at
     \/ ~CanAlloc /\ Goto(p, User) /\ UNCHANGED <<pmmVars, spaceVars>> /\ NoChange

BrkShrink(p) ==
  /\ Runs(p, "brk") \/ Runs(p, "brk_shrink")
  /\ user_heap_next > at[p].lim
  /\ user_heap_next' = user_heap_next - 1
  /\ Unmap(user_heap_next - 1)
  /\ Goto(p, [at[p] EXCEPT !.pc = "brk_shrink"])
  /\ UNCHANGED <<mem, procVars, cpuVars>>

BrkDone(p) ==
  /\ \/ Runs(p, "brk") /\ user_heap_next = at[p].lim
     \/ Runs(p, "brk_shrink") /\ user_heap_next <= at[p].lim
  /\ Goto(p, User)
  /\ UNCHANGED <<pmmVars, spaceVars>> /\ NoChange

(* paging_user_mmap(n pages): the room is checked once, the pages are then   *)
(* mapped one by one, and a failure unmaps from base and rewinds to base.    *)
SysMmap(p, n) ==
  /\ Runs(p, "user") /\ "mmap" \in Calls
  /\ user_heap_next + n <= HeapHi
  /\ Goto(p, [At("mmap") EXCEPT !.base = user_heap_next, !.lim = n])
  /\ UNCHANGED <<pmmVars, spaceVars>> /\ NoChange

MmapPage(p) ==
  /\ Runs(p, "mmap")
  /\ at[p].e < at[p].lim
  /\ \/ MapNext /\ Goto(p, [at[p] EXCEPT !.e = @ + 1])
     \/ /\ ~CanAlloc
        /\ Goto(p, [at[p] EXCEPT !.pc = "unwind", !.lim = at[p].e, !.e = 0])
        /\ UNCHANGED <<pmmVars, spaceVars>> /\ NoChange

MmapDone(p) ==
  /\ Runs(p, "mmap") /\ at[p].e = at[p].lim
  /\ Goto(p, User)
  /\ UNCHANGED <<pmmVars, spaceVars>> /\ NoChange

MmapUnwind(p) ==
  /\ Runs(p, "unwind")
  /\ IF at[p].e < at[p].lim
     THEN /\ Unmap(at[p].base + at[p].e)
          /\ Goto(p, [at[p] EXCEPT !.e = @ + 1])
          /\ UNCHANGED user_heap_next
     ELSE /\ user_heap_next' = at[p].base
          /\ Goto(p, User)
          /\ UNCHANGED <<pmmVars, spaceVars>>
  /\ UNCHANGED <<mem, procVars, cpuVars>>

(* paging_user_munmap(): n pages from e, inside the heap window. *)
SysMunmap(p, e, n) ==
  /\ Runs(p, "user") /\ "munmap" \in Calls
  /\ e \in HeapLo .. HeapHi - 1 /\ e + n <= HeapHi
  /\ Goto(p, [At("munmap") EXCEPT !.e = e, !.lim = e + n])
  /\ UNCHANGED <<pmmVars, spaceVars>> /\ NoChange

MunmapPage(p) ==
  /\ Runs(p, "munmap")
  /\ IF at[p].e < at[p].lim
     THEN Unmap(at[p].e) /\ Goto(p, [at[p] EXCEPT !.e = @ + 1])
     ELSE Goto(p, User) /\ UNCHANGED <<pmmVars, spaceVars>>
  /\ NoChange

-----------------------------------------------------------------------------
(* SYS_FORK: PCB slot, kernel stack, directory, the copy of the user window, *)
(* then the child is made ready.  The child stays an embryo until the end.   *)

Child(p) == <<at[p].child, 0>>

Unused == {q \in Procs : state[q] = "unused"}

(* Mutant: the scheduler may pick the slot before the child is built. *)
SysForkReady(p) ==
  /\ Runs(p, "user") /\ "fork" \in Calls
  /\ \E q \in Unused :
       /\ \A r \in Unused : q <= r
       /\ state' = [state EXCEPT ![q] = "ready"]
       /\ parent' = [parent EXCEPT ![q] = p]
       /\ cr3' = [cr3 EXCEPT ![q] = 0]
       /\ at' = [at EXCEPT ![q] = At("embryo"),
                           ![p] = [At("fork_stack") EXCEPT !.child = q]]
  /\ UNCHANGED <<pmmVars, spaceVars, mem, cpuVars, user_heap_next>>

(* proc_alloc(): the lowest unused slot. *)
SysFork(p) ==
  /\ Runs(p, "user") /\ "fork" \in Calls
  /\ \E q \in Unused :
       /\ \A r \in Unused : q <= r
       /\ state' = [state EXCEPT ![q] = "embryo"]
       /\ parent' = [parent EXCEPT ![q] = p]
       /\ cr3' = [cr3 EXCEPT ![q] = 0]
       /\ at' = [at EXCEPT ![q] = At("embryo"),
                           ![p] = [At("fork_stack") EXCEPT !.child = q]]
  /\ UNCHANGED <<pmmVars, spaceVars, mem, cpuVars, user_heap_next>>

(* The allocation of one frame of a space under construction. *)
Fill(s, e) == \E f \in Frames : PmmAlloc(f) /\ Install(s, e, f)

ForkStack(p) ==
  /\ Runs(p, "fork_stack")
  /\ \/ /\ Fill(Child(p), KStack)
        /\ Goto(p, [at[p] EXCEPT !.pc = "fork_dir"])
        /\ NoChange
     \/ /\ ~CanAlloc
        /\ state' = [state EXCEPT ![at[p].child] = "unused"]
        /\ Goto(p, User)
        /\ UNCHANGED <<pmmVars, spaceVars, mem, parent, cr3, cpuVars, user_heap_next>>

ForkDir(p) ==
  /\ Runs(p, "fork_dir")
  /\ \/ /\ Fill(Child(p), Dir)
        /\ Goto(p, [at[p] EXCEPT !.pc = "fork_copy", !.e = CodeLo])
     \/ /\ ~CanAlloc
        /\ Goto(p, [at[p] EXCEPT !.pc = "fork_undo", !.e = KStack])
        /\ UNCHANGED <<pmmVars, spaceVars>>
  /\ NoChange

(* One round of paging_copy_user_pgdir(): the table of the page first, then  *)
(* its entry.  Running out of frames for a table leaves the pages copied so  *)
(* far copy-on-write in the parent.                                          *)
ForkCopy(p) ==
  LET e == at[p].e
      table == TableOf[e]
      hasTable == frame[Child(p)][table] # 0
      next == [at[p] EXCEPT !.e = e + 1] IN
  /\ Runs(p, "fork_copy") /\ e < HeapHi
  /\ \/ ~hasTable /\ Fill(Child(p), table) /\ UNCHANGED at
     \/ /\ ~hasTable /\ ~CanAlloc
        /\ Goto(p, [at[p] EXCEPT !.pc = "fork_undo", !.e = 0])
        /\ UNCHANGED <<pmmVars, spaceVars>>
     \/ hasTable /\ frame[Mine(p)][e] # 0 /\ Share(Mine(p), Child(p), e) /\ Goto(p, next)
     \/ /\ hasTable /\ frame[Mine(p)][e] = 0
        /\ Goto(p, next)
        /\ UNCHANGED <<pmmVars, spaceVars>>
  /\ NoChange

ForkDone(p) ==
  /\ Runs(p, "fork_copy") /\ at[p].e = HeapHi
  /\ state' = [state EXCEPT ![at[p].child] = "ready"]
  /\ at' = [at EXCEPT ![at[p].child] = User, ![p] = User]
  /\ UNCHANGED <<pmmVars, spaceVars, mem, parent, cr3, cpuVars, user_heap_next>>

(* paging_destroy_user_pgdir(child), pmm_free(kernel stack), proc_free().    *)
ForkUndo(p) ==
  /\ Runs(p, "fork_undo")
  /\ IF at[p].e <= KStack
     THEN /\ Drop(Child(p), at[p].e)
          /\ Goto(p, [at[p] EXCEPT !.e = @ + 1])
          /\ UNCHANGED state
     ELSE /\ state' = [state EXCEPT ![at[p].child] = "unused"]
          /\ Goto(p, User)
          /\ UNCHANGED <<pmmVars, spaceVars>>
  /\ UNCHANGED <<mem, parent, cr3, cpuVars, user_heap_next>>

-----------------------------------------------------------------------------
(* exec_run_by_elf(), and launch() of the menu: a new space is staged and    *)
(* activated, the image is loaded through it, the old space is destroyed and *)
(* the PCB is switched to the new one last.                                  *)

SysExec(p) ==
  /\ Runs(p, "user") /\ "exec" \in Calls
  /\ Goto(p, At("exec_dir"))
  /\ UNCHANGED <<pmmVars, spaceVars>> /\ NoChange

ExecDir(p) ==
  /\ Runs(p, "exec_dir")
  /\ \/ Fill(Staged(p), Dir) /\ Goto(p, At("exec_init"))
     \/ ~CanAlloc /\ Goto(p, User) /\ UNCHANGED <<pmmVars, spaceVars>>
  /\ NoChange

(* paging_init_user_pgdir(): the tables, then the code and stack pages. *)
ExecInit(p) ==
  /\ Runs(p, "exec_init") /\ at[p].e < HeapLo
  /\ \/ Fill(Staged(p), at[p].e) /\ Goto(p, [at[p] EXCEPT !.e = @ + 1])
     \/ ~CanAlloc /\ Goto(p, At("exec_undo")) /\ UNCHANGED <<pmmVars, spaceVars>>
  /\ NoChange

(* paging_activate(new): CR3, page_pdpt and the one heap watermark. *)
ExecActivate(p) ==
  /\ Runs(p, "exec_init") /\ at[p].e = HeapLo
  /\ page_pdpt' = Staged(p)
  /\ user_heap_next' = HeapLo
  /\ Goto(p, [At("exec_load") EXCEPT !.e = CodeLo])
  /\ UNCHANGED <<pmmVars, spaceVars, mem, procVars, running>>

(* elf_load() on one page of the active space: a segment covers it, with its *)
(* bytes and its permissions (w for PF_W), or no segment does and the page   *)
(* keeps what its frame held.                                                *)
ExecLoad(p) ==
  LET e == at[p].e
      f == frame[page_pdpt][e] IN
  /\ Runs(p, "exec_load") /\ e < HeapLo
  /\ IF f # 0 THEN Holds(f) ELSE UNCHANGED mem
  /\ \/ /\ f # 0
        /\ \E w \in BOOLEAN : rw' = [rw EXCEPT ![page_pdpt][e] = w]
        /\ cow' = [cow EXCEPT ![page_pdpt][e] = FALSE]
     \/ UNCHANGED <<rw, cow>>
  /\ Goto(p, [at[p] EXCEPT !.e = @ + 1])
  /\ UNCHANGED <<pmmVars, frame, procVars, cpuVars, user_heap_next>>

(* elf_load() failed: back to the old space, the staged one is destroyed.    *)
ExecFail(p) ==
  /\ Runs(p, "exec_load")
  /\ page_pdpt' = Mine(p)
  /\ user_heap_next' = HeapLo
  /\ Goto(p, At("exec_undo"))
  /\ UNCHANGED <<pmmVars, spaceVars, mem, procVars, running>>

ExecUndo(p) ==
  /\ Runs(p, "exec_undo")
  /\ IF at[p].e <= Dir
     THEN Drop(Staged(p), at[p].e) /\ Goto(p, [at[p] EXCEPT !.e = @ + 1])
     ELSE Goto(p, User) /\ UNCHANGED <<pmmVars, spaceVars>>
  /\ NoChange

(* elf_load() succeeded: paging_destroy_user_pgdir(old), one entry a step. *)
ExecDrop(p) ==
  /\ \/ Runs(p, "exec_load") /\ at[p].e = HeapLo /\ Goto(p, At("exec_drop"))
        /\ UNCHANGED <<pmmVars, spaceVars>>
     \/ Runs(p, "exec_drop") /\ at[p].e <= Dir
        /\ Drop(Mine(p), at[p].e) /\ Goto(p, [at[p] EXCEPT !.e = @ + 1])
  /\ NoChange

(* Mutant: the PCB is switched before the old space is destroyed.            *)
ExecCommitEarly(p) ==
  /\ Runs(p, "exec_load") /\ at[p].e = HeapLo
  /\ cr3' = [cr3 EXCEPT ![p] = 1 - @]
  /\ Goto(p, User)
  /\ UNCHANGED <<pmmVars, spaceVars, mem, state, parent, cpuVars, user_heap_next>>

(* cur->cr3 = new_pgdir, and off to ring 3. *)
ExecCommit(p) ==
  /\ Runs(p, "exec_drop") /\ at[p].e = Dir + 1
  /\ cr3' = [cr3 EXCEPT ![p] = 1 - @]
  /\ Goto(p, User)
  /\ UNCHANGED <<pmmVars, spaceVars, mem, state, parent, cpuVars, user_heap_next>>

-----------------------------------------------------------------------------
(* The process table, as far as memory depends on it. *)

(* SYS_KILL: any slot in use but process 1, the caller's own included. *)
Kill(p, q) ==
  /\ Runs(p, "user") /\ "kill" \in Calls
  /\ q > 1 /\ state[q] # "unused"
  /\ state' = [state EXCEPT ![q] = "zombie"]
  /\ UNCHANGED <<pmmVars, spaceVars, mem, parent, cr3, cpuVars, user_heap_next, at>>

(* proc_reap() from SYS_WAIT: the kernel stack is freed and the PCB cleared; *)
(* nothing destroys the address space the PCB pointed at.                    *)
Reap(p, q) ==
  /\ Runs(p, "user") /\ q # p
  /\ state[q] = "zombie" /\ parent[q] = p
  /\ PmmFree(frame[<<q, 0>>][KStack])
  /\ Forget(q)
  /\ state' = [state EXCEPT ![q] = "unused"]
  /\ parent' = [parent EXCEPT ![q] = 0]
  /\ cr3' = [cr3 EXCEPT ![q] = 0]
  /\ Goto(q, User)
  /\ UNCHANGED <<mem, cpuVars, user_heap_next>>

InExec(p) == at[p].pc \in {"exec_load", "exec_drop"}

(* Mutant: the switch leaves CR3 alone. *)
SwitchKeepsCr3(q) ==
  /\ q # running /\ state[q] = "ready"
  /\ InExec(running) => TickInExec
  /\ running' = q
  /\ UNCHANGED <<pmmVars, spaceVars, mem, procVars, user_heap_next, at, page_pdpt>>

(* proc_yield() on the PIT tick: another ready process gets the CPU, and     *)
(* paging_switch() loads the space its PCB points at.                        *)
Switch(q) ==
  /\ q # running /\ state[q] = "ready"
  /\ InExec(running) => TickInExec
  /\ running' = q
  /\ page_pdpt' = Mine(q)
  /\ UNCHANGED <<pmmVars, spaceVars, mem, procVars, user_heap_next, at>>

-----------------------------------------------------------------------------
Init ==
  /\ PmmInit(HeapLo + 1)
  /\ frame = [s \in Spaces |->
                [e \in Entries |-> IF s = <<1, 0>> /\ e \in BootEntries THEN BootFrame(e) ELSE 0]]
  /\ rw = [s \in Spaces |-> [e \in Entries |-> s = <<1, 0>> /\ e \in CodeLo .. HeapLo - 1]]
  /\ cow = [s \in Spaces |-> NoFlags]
  /\ mem \in {[f \in Frames |-> x] : x \in Values}
  /\ state = [p \in Procs |-> IF p = 1 THEN "ready" ELSE "unused"]
  /\ parent = [p \in Procs |-> 0]
  /\ cr3 = [p \in Procs |-> 0]
  /\ running = 1
  /\ page_pdpt = <<1, 0>>
  /\ user_heap_next = HeapLo
  /\ at = [p \in Procs |-> User]

MemoryStep(p) ==
  \/ \E e \in Pages, x \in Values : Store(p, e, x) \/ FillBuffer(p, e, x)
  \/ \E e \in Pages : CowLift(p, e) \/ CowCopy(p, e)
  \/ SysAlloc(p)
  \/ \E e \in HeapLo .. HeapHi : SysBrk(p, e)
  \/ BrkGrow(p) \/ BrkShrink(p) \/ BrkDone(p)
  \/ \E n \in 1 .. NHeap : SysMmap(p, n)
  \/ MmapPage(p) \/ MmapDone(p) \/ MmapUnwind(p)
  \/ \E e \in Pages, n \in 1 .. NHeap : SysMunmap(p, e, n)
  \/ MunmapPage(p)

ForkStep(p) ==
  SysFork(p) \/ ForkStack(p) \/ ForkDir(p) \/ ForkCopy(p) \/ ForkDone(p) \/ ForkUndo(p)

ExecStep(p) ==
  \/ SysExec(p) \/ ExecDir(p) \/ ExecInit(p) \/ ExecActivate(p) \/ ExecLoad(p)
  \/ ExecFail(p) \/ ExecUndo(p) \/ ExecDrop(p) \/ ExecCommit(p)

LifeStep(p) ==
  Exit(p) \/ \E q \in Procs : Kill(p, q) \/ Reap(p, q) \/ Switch(q)

Next ==
  \E p \in Procs :
    running = p /\ (MemoryStep(p) \/ ForkStep(p) \/ ExecStep(p) \/ LifeStep(p))

Spec == Init /\ [][Next]_vars

-----------------------------------------------------------------------------
Places == {"user", "dead", "embryo", "brk", "brk_shrink", "mmap", "unwind", "munmap",
           "fork_stack", "fork_dir", "fork_copy", "fork_undo",
           "exec_dir", "exec_init", "exec_load", "exec_drop", "exec_undo"}

TypeOK ==
  /\ PmmTypeOK
  /\ frame \in [Spaces -> [Entries -> MaybeFrame]]
  /\ rw \in [Spaces -> [Entries -> BOOLEAN]]
  /\ cow \in [Spaces -> [Entries -> BOOLEAN]]
  /\ mem \in [Frames -> Values]
  /\ state \in [Procs -> {"unused", "embryo", "ready", "zombie"}]
  /\ parent \in [Procs -> 0 .. NProcs]
  /\ cr3 \in [Procs -> Gens]
  /\ running \in Procs
  /\ page_pdpt \in Spaces
  /\ user_heap_next \in HeapLo .. HeapBound
  /\ at \in [Procs -> [pc : Places, e : Nat, lim : Nat, base : Nat, child : 0 .. NProcs]]

Sharers(f) == {s \in Spaces : \E e \in Entries : frame[s][e] = f}

(* No page table ever points at a frame that has fewer owners on record than *)
(* it has holders: a page shared by fork is not recycled under a process     *)
(* that still maps it, whatever faults, unmappings, failures and exits its   *)
(* other holders go through (pmm_ref_inc, pmm_free and their callers).       *)
RefCovers == \A f \in Frames : Cardinality(Sharers(f)) <= refcount[f]

(* A frame serves one purpose: two entries that hold it are the same entry   *)
(* of two spaces, so a page table, a directory or a kernel stack is never    *)
(* also somebody's page, and no space maps a frame twice.                    *)
Aligned ==
  \A s, t \in Spaces, d, e \in Entries : frame[s][d] # 0 /\ frame[s][d] = frame[t][e] => d = e

(* A page that can be written without a fault is mapped by nobody else.      *)
SoleWriter ==
  \A s, t \in Spaces, e \in Pages :
    frame[s][e] # 0 /\ rw[s][e] /\ frame[t][e] = frame[s][e] => s = t

(* Page tables, directories and kernel stacks are never shared: fork copies  *)
(* them and shares pages only.                                               *)
KernelFramesPrivate ==
  \A s, t \in Spaces, e \in Entries \ Pages :
    frame[s][e] # 0 /\ frame[t][e] = frame[s][e] => s = t

(* The running process executes in the space its PCB points at, with its     *)
(* directory still allocated, except that exec works in the staged one.      *)
RunsInOwnSpace ==
  /\ page_pdpt = IF InExec(running) THEN Staged(running) ELSE Mine(running)
  /\ frame[page_pdpt][Dir] # 0

(* No page of space s is mapped by another space. *)
PagesPrivate(s) ==
  \A t \in Spaces, e \in Pages : frame[s][e] # 0 /\ frame[t][e] = frame[s][e] => s = t

(* The space that exec builds, fills and makes writable shares nothing.      *)
StagedPrivate == \A p \in Procs : PagesPrivate(Staged(p))

Forking(p) == at[p].pc \in {"fork_stack", "fork_dir", "fork_copy", "fork_undo"}

(* What the calls in progress rely on while other processes run: a forking   *)
(* process keeps the child it allocated, which does not run; exec keeps the  *)
(* CPU from paging_activate() to its end; a reused slot starts in its first  *)
(* generation; the cursors stay in the windows they walk.                    *)
CallsInProgress ==
  /\ state[running] # "unused"
  /\ \A p \in Procs : InExec(p) => p = running
  /\ at[running].pc = "exec_load" => page_pdpt = Staged(running)
  /\ \A p \in Procs, e \in Entries :
       at[p].pc = "exec_drop" /\ e < at[p].e => frame[Mine(p)][e] = 0
  /\ \A p \in Procs : Forking(p) =>
       /\ at[p].child \in Procs \ {p}
       /\ parent[at[p].child] = p /\ cr3[at[p].child] = 0
       /\ at[at[p].child].pc = "embryo" /\ state[at[p].child] \in {"embryo", "zombie"}
  /\ \A p \in Procs : at[p].pc = "embryo" => p # running /\ state[p] # "ready"
  /\ \A p \in Procs : state[p] = "unused" => cr3[p] = 0
  /\ \A p \in Procs : at[p].pc = "fork_copy" => at[p].e \in CodeLo .. HeapHi
  /\ \A p \in Procs : at[p].pc \in {"brk", "brk_shrink"} => at[p].lim \in HeapLo .. HeapHi
  /\ \A p \in Procs : at[p].pc \in {"mmap", "unwind"} => at[p].base \in HeapLo .. HeapHi

(* What each process sees: its pages through the space its PCB points at;    *)
(* through the staged one once exec has loaded the image and drops the old.  *)
Seen(p) == IF at[p].pc = "exec_drop" THEN Staged(p) ELSE Mine(p)

PageOf(s, e) == IF frame[s][e] = 0 THEN NoPage ELSE mem[frame[s][e]]

View ==
  [p \in Procs |-> [e \in Pages |->
     IF state[p] = "unused" \/ at[p].pc = "embryo" THEN NoPage ELSE PageOf(Seen(p), e)]]

(* Copy-on-write spaces implement private memories: at every step at most    *)
(* the memory of the process on the CPU changes, by one store or one page    *)
(* mapped or unmapped at its own request, and fork gives the child a copy of *)
(* it in one step (PrivateMemory).                                           *)
Private == INSTANCE PrivateMemory WITH memory <- View, CodePages <- CodeLo .. HeapLo - 1

PrivateMemory == Private!Spec

(* A copy-on-write fault changes nothing that any process can see: the       *)
(* faulting store finds the page as it was, and so does everybody else.      *)
FaultsInvisible ==
  [][(\E e \in Pages : CowLift(running, e) \/ CowCopy(running, e)) => View' = View]_vars

(* pmm.h: "Each pmm_ref_inc must be paired with a matching pmm_free from the *)
(* same owner"; ARCHITECTURE.md: every user frame is released at app exit.   *)
(* A frame has exactly as many owners on record as holders.                  *)
RefExact == \A f \in Frames : Cardinality(Sharers(f)) = refcount[f]

(* pmm.c: "with 8192 frames + max share count = process count, never close"  *)
(* to saturation: no frame is ever charged with more owners than processes.  *)
ShareCountBounded == \A f \in Frames : refcount[f] <= NProcs

(* ARCHITECTURE.md: "the bump pointer never rewinds inside a single app run".*)
NeverRewinds == [][user_heap_next' < user_heap_next => page_pdpt' # page_pdpt]_vars

(* libstink.h, sys_mmap: "fresh user memory ... independent of malloc/sbrk": *)
(* a heap page that is mapped is not mapped over.                            *)
MapsFreshPages ==
  [][\A e \in HeapLo .. HeapHi - 1 :
       user_heap_next' > user_heap_next /\ e = user_heap_next => frame[page_pdpt][e] = 0]_vars

(* syscall.c: a pointer that paging_user_range_ok accepts "sit[s] in the     *)
(* app's mapped region", so the kernel may dereference it.                   *)
RangeOkMapped ==
  at[running].pc = "user" => \A e \in Pages : RangeOk(e) => frame[page_pdpt][e] # 0
=============================================================================
