-------------------------- MODULE CowSpaces_proofs --------------------------
(***************************************************************************)
(* More proofs about CowMemory, from the invariant of CowMemory_proofs:    *)
(* the space in CR3, the frames that come back to the pool, and that every *)
(* process has a memory of its own (CowMemory implements PrivateMemory).   *)
(***************************************************************************)
EXTENDS CowMemory_proofs

-----------------------------------------------------------------------------
(* The space in CR3.  A process that may get the CPU has its directory; so   *)
(* have the space that exec is filling and the child that fork is copying.   *)

InCR3 == page_pdpt = IF InExec(running) THEN Staged(running) ELSE Mine(running)

HasOwn(p) ==
  (p = running \/ state[p] = "ready") /\ at[p].pc # "exec_drop" => frame[Mine(p)][Dir] # 0

HasStaged(p) == at[p].pc \in {"exec_init", "exec_load", "exec_drop"} => frame[Staged(p)][Dir] # 0

HasChild(p) == at[p].pc = "fork_copy" => frame[Child(p)][Dir] # 0

HasDirs(p) == HasOwn(p) /\ HasStaged(p) /\ HasChild(p)

DirInv == InCR3 /\ \A p \in Procs : HasDirs(p)

(* No space but those of X loses its directory. *)
DirsKept(X) == \A s \in Spaces \ X : frame[s][Dir] # 0 => frame'[s][Dir] # 0

(* The spaces of a process that a step does not move. *)
LEMMA OthersKeep ==
  ASSUME IInv, NEW q \in Procs, HasDirs(q), NEW X, DirsKept(X),
         at'[q] = at[q], cr3'[q] = cr3[q], running' = running,
         state'[q] = "ready" => state[q] = "ready",
         Mine(q) \notin X \/ (q # running /\ state'[q] # "ready"), Staged(q) \notin X,
         Forking(q) => Child(q) \notin X
  PROVE  HasDirs(q)'
  <1>1. Mine(q)' = Mine(q) /\ Staged(q)' = Staged(q) /\ Child(q)' = Child(q)
    BY DEF Mine, Staged, Child
  <1>2. Mine(q) \in Spaces /\ Staged(q) \in Spaces
    BY SpaceNames DEF IInv
  <1>3. HasOwn(q)'
    BY <1>1, <1>2 DEF HasDirs, HasOwn, DirsKept
  <1>4. HasStaged(q)'
    BY <1>1, <1>2 DEF HasDirs, HasStaged, DirsKept
  <1>5. HasChild(q)'
    BY <1>1, ChildSpace DEF HasDirs, HasChild, DirsKept, Forking
  <1>6. QED
    BY <1>3, <1>4, <1>5 DEF HasDirs

(* A step that moves the running process and takes no directory away from    *)
(* a space but those of X.                                                   *)
LEMMA RunnerMoves ==
  ASSUME IInv, DirInv, NEW p \in Procs, running = p, NEW X, DirsKept(X),
         \A q \in Procs \ {p} : at'[q] = at[q] /\ (state'[q] = "ready" => state[q] = "ready"),
         UNCHANGED <<cr3, running>>,
         \A q \in Procs \ {p} : Mine(q) \notin X \/ state'[q] # "ready",
         \A q \in Procs \ {p} : Staged(q) \notin X /\ (Forking(q) => Child(q) \notin X),
         InCR3', HasDirs(p)'
  PROVE  DirInv'
  <1>1. ASSUME NEW q \in Procs \ {p}
        PROVE  HasDirs(q)'
    BY <1>1, OthersKeep DEF DirInv
  <1>2. QED
    BY <1>1 DEF DirInv

(* What the operations on an entry leave of the directories. *)
LEMMA NoneLost == ASSUME frame' = frame PROVE DirsKept({})
  BY DEF DirsKept

(* An entry that is filled takes nothing from any directory. *)
LEMMA InstallNoneLost ==
  ASSUME EntryTypeOK, NEW s \in Spaces, NEW e \in Entries, NEW f \in Frames, Install(s, e, f)
  PROVE  DirsKept({}) /\ frame'[s][e] # 0
  BY DEF Install, DirsKept, EntryTypeOK, Frames

LEMMA FillNoneLost ==
  ASSUME EntryTypeOK, NEW s \in Spaces, NEW e \in Entries, Fill(s, e)
  PROVE  DirsKept({}) /\ frame'[s][e] # 0
  BY InstallNoneLost DEF Fill

(* Dropping an entry harms the directory of its own space at most. *)
LEMMA DropNoneLost ==
  ASSUME EntryTypeOK, NEW s \in Spaces, NEW e \in Entries, Drop(s, e)
  PROVE  DirsKept({s}) /\ (e # Dir => DirsKept({}))
  BY DEF Drop, DirsKept, EntryTypeOK

(* munmap and a shrinking break drop pages, never the directory. *)
LEMMA UnmapNoneLost ==
  ASSUME IInv, NEW e, Unmap(e)
  PROVE  DirsKept({})
  <1>1. EntryTypeOK /\ page_pdpt \in Spaces
    BY DEF IInv, FrameInv, ControlTypeOK
  <1>2. CASE e \in Pages
    <2>1. e \in Entries /\ e # Dir
      BY <1>2, EntryNumbers DEF Pages, Dir
    <2>2. QED
      BY <1>1, <1>2, <2>1, DropNoneLost DEF Unmap
  <1>3. CASE e \notin Pages
    BY <1>3, NoneLost DEF Unmap, spaceVars
  <1>4. QED
    BY <1>2, <1>3

(* Growing the heap fills entries and leaves processes and CR3 alone. *)
LEMMA MapNextNoneLost ==
  ASSUME IInv, MapNext
  PROVE  DirsKept({}) /\ UNCHANGED <<state, cr3, running, page_pdpt>>
  <1>1. EntryTypeOK /\ page_pdpt \in Spaces
    BY DEF IInv, FrameInv, ControlTypeOK
  <1>2. user_heap_next < HeapHi => user_heap_next \in Entries
    BY EntryNumbers DEF IInv, ControlTypeOK, Entries, KStack, Dir
  <1>3. QED
    BY <1>1, <1>2, InstallNoneLost, NoneLost DEF MapNext, spaceVars, procVars, cpuVars

(* A call that is not at one of these places promises nothing of its own.    *)
Plain(p) == at[p].pc \notin {"exec_init", "exec_load", "exec_drop", "fork_copy"}

(* So a step between two such places of the running process keeps DirInv. *)
LEMMA PlainMove ==
  ASSUME IInv, DirInv, NEW p \in Procs, running = p, DirsKept({}),
         UNCHANGED <<state, cr3, running, page_pdpt>>,
         \A q \in Procs \ {p} : at'[q] = at[q], Plain(p), Plain(p)'
  PROVE  DirInv'
  <1>1. Mine(p)' = Mine(p) /\ Mine(p) \in Spaces /\ page_pdpt = Mine(p) /\ frame[Mine(p)][Dir] # 0
    BY SpaceNames DEF Mine, DirInv, InCR3, HasDirs, HasOwn, Plain, InExec, IInv
  <1>2. InCR3' /\ HasDirs(p)'
    BY <1>1 DEF InCR3, InExec, Plain, HasDirs, HasOwn, HasStaged, HasChild, DirsKept
  <1>3. QED
    BY <1>2, RunnerMoves

(* Faults, stores and the heap calls. *)
LEMMA MemoryStepDirs ==
  ASSUME IInv, DirInv, NEW p \in Procs, running = p, MemoryStep(p)
  PROVE  DirInv'
  <1> USE DEF NoChange, procVars, cpuVars, spaceVars, Runs, Goto
  <1> DEFINE Same == UNCHANGED <<state, cr3, running, page_pdpt>>
             Moved == /\ \A q \in Procs \ {p} : at'[q] = at[q]
                      /\ at[p].pc \in Places \ {"exec_init", "exec_load", "exec_drop", "fork_copy"}
                      /\ at'[p].pc \in Places \ {"exec_init", "exec_load", "exec_drop", "fork_copy"}
  <1>0. /\ at \in [Procs -> [pc : Places, e : Nat, lim : Nat, base : Nat, child : 0 .. NProcs]]
        /\ page_pdpt \in Spaces /\ EntryTypeOK
    BY DEF IInv, ControlTypeOK, FrameInv
  <1>1. ASSUME NEW e \in Pages, NEW x \in Values, Store(p, e, x) \/ FillBuffer(p, e, x)
        PROVE  DirsKept({}) /\ Same /\ Moved
    BY <1>0, <1>1, NoneLost DEF Store, FillBuffer, Places
  <1>2. ASSUME NEW e \in Pages, CowLift(p, e)
        PROVE  DirsKept({}) /\ Same /\ Moved
    BY <1>0, <1>2, NoneLost DEF CowLift, Places
  <1>3. ASSUME NEW e \in Pages, CowCopy(p, e)
        PROVE  DirsKept({}) /\ Same /\ Moved
    <2>1. e \in Entries /\ e # Dir
      BY EntryNumbers DEF Pages, Dir
    <2>2. DirsKept({})
      BY <1>0, <1>3, <2>1 DEF CowCopy, DirsKept, EntryTypeOK
    <2>3. QED
      BY <1>0, <1>3, <2>2 DEF CowCopy, Places
  <1>4. ASSUME SysAlloc(p) PROVE DirsKept({}) /\ Same /\ Moved
    BY <1>0, <1>4, MapNextNoneLost DEF SysAlloc, Places
  <1>5. ASSUME NEW e, SysBrk(p, e) PROVE DirsKept({}) /\ Same /\ Moved
    BY <1>0, <1>5, NoneLost DEF SysBrk, Places, At
  <1>6. ASSUME BrkGrow(p) PROVE DirsKept({}) /\ Same /\ Moved
    BY <1>0, <1>6, NoneLost, MapNextNoneLost DEF BrkGrow, Places, User
  <1>7. ASSUME BrkShrink(p) PROVE DirsKept({}) /\ Same /\ Moved
    BY <1>0, <1>7, UnmapNoneLost DEF BrkShrink, Places
  <1>8. ASSUME BrkDone(p) PROVE DirsKept({}) /\ Same /\ Moved
    BY <1>0, <1>8, NoneLost DEF BrkDone, Places, User
  <1>9. ASSUME NEW n, SysMmap(p, n) PROVE DirsKept({}) /\ Same /\ Moved
    BY <1>0, <1>9, NoneLost DEF SysMmap, Places, At
  <1>10. ASSUME MmapPage(p) PROVE DirsKept({}) /\ Same /\ Moved
    BY <1>0, <1>10, NoneLost, MapNextNoneLost DEF MmapPage, Places
  <1>11. ASSUME MmapDone(p) PROVE DirsKept({}) /\ Same /\ Moved
    BY <1>0, <1>11, NoneLost DEF MmapDone, Places, User
  <1>12. ASSUME MmapUnwind(p) PROVE DirsKept({}) /\ Same /\ Moved
    BY <1>0, <1>12, NoneLost, UnmapNoneLost DEF MmapUnwind, Places, User
  <1>13. ASSUME NEW e, NEW n, SysMunmap(p, e, n) PROVE DirsKept({}) /\ Same /\ Moved
    BY <1>0, <1>13, NoneLost DEF SysMunmap, Places, At
  <1>14. ASSUME MunmapPage(p) PROVE DirsKept({}) /\ Same /\ Moved
    BY <1>0, <1>14, NoneLost, UnmapNoneLost DEF MunmapPage, Places, User
  <1>15. DirsKept({}) /\ Same /\ Moved
    BY <1>1, <1>2, <1>3, <1>4, <1>5, <1>6, <1>7, <1>8, <1>9, <1>10, <1>11, <1>12, <1>13, <1>14
       DEF MemoryStep
  <1>16. QED
    BY <1>15, PlainMove DEF Plain

(* fork: a child gets its directory before its pages, and keeps it until the
   undo, which promises nothing any more. *)
LEMMA ForkStepDirs ==
  ASSUME IInv, DirInv, NEW p \in Procs, running = p, ForkStep(p)
  PROVE  DirInv'
  <1> USE DEF NoChange, procVars, cpuVars, Runs, Goto
  <1>0. /\ at \in [Procs -> [pc : Places, e : Nat, lim : Nat, base : Nat, child : 0 .. NProcs]]
        /\ EntryTypeOK /\ state \in [Procs -> {"unused", "embryo", "ready", "zombie"}]
        /\ cr3 \in [Procs -> Gens]
        /\ \A q \in Procs : Mine(q) \in Spaces /\ Staged(q) \in Spaces
    BY SpaceNames DEF IInv, ControlTypeOK, FrameInv
  <1>1. ~InExec(p) => page_pdpt = Mine(p) /\ frame[Mine(p)][Dir] # 0
    BY DEF DirInv, InCR3, HasDirs, HasOwn, InExec
  <1>2. CASE SysFork(p)
    <2>1. PICK q \in Unused : /\ state' = [state EXCEPT ![q] = "embryo"]
                              /\ cr3' = [cr3 EXCEPT ![q] = 0]
                              /\ at' = [at EXCEPT ![q] = At("embryo"), ![p] = [At("fork_stack") EXCEPT !.child = q]]
                              /\ UNCHANGED <<spaceVars, running, page_pdpt>> /\ at[p].pc = "user"
      BY <1>2 DEF SysFork
    <2>2. q \in Procs /\ q # p /\ state[q] = "unused"
      BY <2>1 DEF Unused, IInv, CallsInProgress
    <2>3. /\ at'[q].pc = "embryo" /\ at'[p].pc = "fork_stack" /\ state'[q] = "embryo" /\ cr3'[p] = cr3[p]
          /\ \A r \in Procs \ {p, q} : at'[r] = at[r] /\ state'[r] = state[r] /\ cr3'[r] = cr3[r]
      BY <1>0, <2>1, <2>2 DEF At, User
    <2>4. frame' = frame /\ ~InExec(p) /\ ~InExec(p)' /\ Mine(p)' = Mine(p) /\ DirsKept({})
      BY <2>1, <2>3, NoneLost DEF spaceVars, InExec, Mine
    <2>5. InCR3' /\ HasDirs(p)' /\ HasDirs(q)'
      BY <1>1, <2>1, <2>2, <2>3, <2>4 DEF InCR3, HasDirs, HasOwn, HasStaged, HasChild
    <2>6. ASSUME NEW r \in Procs \ {p, q} PROVE HasDirs(r)'
      BY <2>1, <2>3, <2>4, <2>6, OthersKeep DEF DirInv
    <2>7. QED
      BY <2>5, <2>6 DEF DirInv
  <1>3. CASE ForkStack(p)
    <2>1. CASE Fill(Child(p), KStack) /\ Goto(p, [at[p] EXCEPT !.pc = "fork_dir"]) /\ NoChange
      <3>1. DirsKept({})
        BY <1>0, <1>3, <2>1, ChildSpace, EntryNumbers, FillNoneLost DEF ForkStack, Forking
      <3>2. QED
        BY <1>0, <1>3, <2>1, <3>1, PlainMove DEF ForkStack, Plain
    <2>2. CASE /\ state' = [state EXCEPT ![at[p].child] = "unused"]
               /\ Goto(p, User)
               /\ UNCHANGED <<pmmVars, spaceVars, mem, parent, cr3, cpuVars, user_heap_next>>
      <3>1. /\ frame' = frame /\ ~InExec(p) /\ ~InExec(p)' /\ Mine(p)' = Mine(p) /\ DirsKept({})
            /\ at'[p].pc = "user"
        BY <1>0, <1>3, <2>2, NoneLost DEF ForkStack, spaceVars, InExec, Mine, User
      <3>2. InCR3' /\ HasDirs(p)'
        BY <1>1, <2>2, <3>1 DEF InCR3, HasDirs, HasOwn, HasStaged, HasChild
      <3>3. QED
        BY <1>0, <2>2, <3>1, <3>2, RunnerMoves
    <2>3. QED
      BY <1>3, <2>1, <2>2 DEF ForkStack
  <1>4. ASSUME at[p].pc \in {"fork_dir", "fork_copy"}, DirsKept({}), UNCHANGED <<state, cr3, running, page_pdpt>>,
               \A q \in Procs \ {p} : at'[q] = at[q], at'[p].pc = "fork_copy", at'[p].child = at[p].child,
               frame'[Child(p)][Dir] # 0
        PROVE  DirInv'
    <2>1. ~InExec(p) /\ ~InExec(p)' /\ Mine(p)' = Mine(p) /\ Child(p)' = Child(p)
      BY <1>4 DEF InExec, Mine, Child
    <2>2. InCR3' /\ HasDirs(p)'
      BY <1>0, <1>1, <1>4, <2>1 DEF InCR3, HasDirs, HasOwn, HasStaged, HasChild, DirsKept
    <2>3. QED
      BY <1>4, <2>2, RunnerMoves
  <1>5. CASE ForkDir(p)
    <2>1. CASE Fill(Child(p), Dir) /\ Goto(p, [at[p] EXCEPT !.pc = "fork_copy", !.e = CodeLo])
      <3>1. DirsKept({}) /\ frame'[Child(p)][Dir] # 0
        BY <1>0, <1>5, <2>1, ChildSpace, EntryNumbers, FillNoneLost DEF ForkDir, Forking
      <3>2. /\ UNCHANGED <<state, cr3, running, page_pdpt>> /\ at[p].pc = "fork_dir"
            /\ at'[p].pc = "fork_copy" /\ at'[p].child = at[p].child
            /\ \A q \in Procs \ {p} : at'[q] = at[q]
        BY <1>0, <1>5, <2>1 DEF ForkDir
      <3>3. QED
        BY <1>4, <3>1, <3>2
    <2>2. CASE Goto(p, [at[p] EXCEPT !.pc = "fork_undo", !.e = KStack]) /\ UNCHANGED spaceVars
      BY <1>0, <1>5, <2>2, NoneLost, PlainMove DEF ForkDir, Plain, spaceVars
    <2>3. QED
      BY <1>5, <2>1, <2>2 DEF ForkDir
  <1>6. CASE ForkCopy(p)
    <2>1. /\ Forking(p) /\ at[p].e \in CodeLo .. HeapHi - 1 /\ at[p].pc = "fork_copy"
          /\ frame[Child(p)][Dir] # 0 /\ Child(p) \in Spaces
          /\ UNCHANGED <<state, cr3, running, page_pdpt>>
      BY <1>0, <1>6, EntryNumbers, ChildSpace DEF ForkCopy, Forking, IInv, CallsInProgress, DirInv, HasDirs, HasChild
    <2>2. at[p].e \in Pages /\ at[p].e \in Entries /\ at[p].e # Dir /\ TableOf[at[p].e] \in Entries
      <3>1. at[p].e \in Pages
        BY <2>1 DEF Pages
      <3>2. at[p].e \in Entries /\ at[p].e # Dir
        BY <2>1, <3>1, EntryNumbers DEF Dir
      <3>3. TableOf[at[p].e] \in Entries
        BY <3>1, CowAssumption, EntryNumbers
      <3>4. QED
        BY <3>1, <3>2, <3>3
    <2>3. CASE Fill(Child(p), TableOf[at[p].e]) /\ UNCHANGED at
      <3>1. DirsKept({}) /\ frame'[Child(p)][Dir] # 0
        BY <1>0, <2>1, <2>2, <2>3, FillNoneLost DEF DirsKept
      <3>2. QED
        BY <1>4, <2>1, <2>3, <3>1
    <2>4. CASE Goto(p, [at[p] EXCEPT !.pc = "fork_undo", !.e = 0]) /\ UNCHANGED spaceVars
      <3>1. Plain(p)' /\ \A q \in Procs \ {p} : at'[q] = at[q]
        BY <1>0, <2>4 DEF Plain
      <3>2. InCR3' /\ HasDirs(p)' /\ DirsKept({})
        BY <1>1, <2>1, <2>4, <3>1, NoneLost DEF InCR3, HasDirs, HasOwn, HasStaged, HasChild, Plain, spaceVars, InExec, Mine
      <3>3. QED
        BY <2>1, <3>1, <3>2, RunnerMoves
    <2>5. CASE /\ UNCHANGED spaceVars \/ Share(Mine(p), Child(p), at[p].e)
               /\ Goto(p, [at[p] EXCEPT !.e = at[p].e + 1])
      <3>1. \A t \in Spaces : frame'[t][Dir] = frame[t][Dir]
        <4>1. CASE UNCHANGED spaceVars
          BY <4>1 DEF spaceVars
        <4>2. CASE Share(Mine(p), Child(p), at[p].e)
          <5> DEFINE e == at[p].e
                     c == Child(p)
                     f == frame[Mine(p)][at[p].e]
          <5>1. frame' = [frame EXCEPT ![c][e] = f] /\ c \in Spaces /\ e # Dir
            BY <2>1, <2>2, <4>2 DEF Share
          <5> HIDE DEF e, c, f
          <5>2. QED
            BY <1>0, <5>1 DEF EntryTypeOK
        <4>3. QED
          BY <2>5, <4>1, <4>2
      <3>4. DirsKept({}) /\ frame'[Child(p)][Dir] # 0
        BY <2>1, <3>1 DEF DirsKept
      <3>2. at'[p].pc = "fork_copy" /\ at'[p].child = at[p].child /\ \A q \in Procs \ {p} : at'[q] = at[q]
        BY <1>0, <2>1, <2>5
      <3>3. QED
        BY <1>4, <2>1, <3>2, <3>4
    <2>6. QED
      BY <1>6, <2>3, <2>4, <2>5 DEF ForkCopy
  <1>7. CASE ForkDone(p)
    <2>1. /\ at[p].pc = "fork_copy" /\ Forking(p)
          /\ state' = [state EXCEPT ![at[p].child] = "ready"]
          /\ at' = [at EXCEPT ![at[p].child] = User, ![p] = User]
          /\ UNCHANGED <<spaceVars, cr3, running, page_pdpt>>
      BY <1>7 DEF ForkDone, Forking
    <2>2. PICK c \in Procs \ {p} : c = at[p].child
      BY <2>1, ChildSpace
    <2>3. /\ at'[p].pc = "user" /\ at'[c].pc = "user"
          /\ \A q \in Procs \ {p, c} : at'[q] = at[q] /\ state'[q] = state[q]
      BY <1>0, <2>1, <2>2 DEF User
    <2>4. Child(p) = Mine(c) /\ frame[Mine(c)][Dir] # 0
      BY <2>1, <2>2, ChildSpace DEF DirInv, HasDirs, HasChild
    <2>5. /\ frame' = frame /\ ~InExec(p) /\ ~InExec(p)' /\ DirsKept({})
          /\ Mine(p)' = Mine(p) /\ Mine(c)' = Mine(c)
      BY <2>1, <2>3, NoneLost DEF spaceVars, InExec, Mine
    <2>6. InCR3' /\ HasDirs(p)' /\ HasDirs(c)'
      BY <1>1, <2>1, <2>3, <2>4, <2>5 DEF InCR3, HasDirs, HasOwn, HasStaged, HasChild
    <2>7. ASSUME NEW r \in Procs \ {p, c} PROVE HasDirs(r)'
      BY <2>1, <2>3, <2>5, <2>7, OthersKeep DEF DirInv
    <2>8. QED
      BY <2>6, <2>7 DEF DirInv
  <1>8. CASE ForkUndo(p)
    <2>1. /\ at[p].pc = "fork_undo" /\ Forking(p) /\ UNCHANGED <<cr3, running, page_pdpt>>
          /\ Child(p) \in Spaces /\ Child(p) # Mine(p)
      BY <1>8, ChildSpace DEF ForkUndo, Forking
    <2>2. DirsKept({Child(p)})
      <3>1. at[p].e <= KStack => at[p].e \in Entries
        BY <1>0 DEF Entries
      <3>2. UNCHANGED spaceVars => DirsKept({Child(p)})
        BY DEF DirsKept, spaceVars
      <3>3. QED
        BY <1>0, <1>8, <2>1, <3>1, <3>2, DropNoneLost DEF ForkUndo
    <2>3. /\ \A q \in Procs \ {p} : at'[q] = at[q] /\ (state'[q] = "ready" => state[q] = "ready")
          /\ Plain(p)'
      BY <1>0, <1>8 DEF ForkUndo, Plain, User
    <2>4. ASSUME NEW q \in Procs \ {p}
          PROVE  /\ Mine(q) # Child(p) \/ state'[q] # "ready"
                 /\ Staged(q) # Child(p) /\ (Forking(q) => Child(q) # Child(p))
      <3>1. state[at[p].child] # "ready" /\ Staged(q) # Child(p)
        BY <2>1, ChildSpace DEF IInv, CallsInProgress
      <3>2. Mine(q) = Child(p) => q = at[p].child
        BY DEF Mine, Child
      <3>3. Forking(q) => Child(q) # Child(p)
        BY <2>1 DEF IInv, CallsInProgress, Child
      <3>4. QED
        BY <2>3, <3>1, <3>2, <3>3
    <2>5. InCR3' /\ HasDirs(p)'
      BY <1>0, <1>1, <2>1, <2>2, <2>3 DEF InCR3, HasDirs, HasOwn, HasStaged, HasChild, Plain, InExec, Mine, DirsKept
    <2>6. QED
      BY <2>1, <2>2, <2>3, <2>4, <2>5, RunnerMoves
  <1>9. QED
    BY <1>2, <1>3, <1>5, <1>6, <1>7, <1>8 DEF ForkStep

(* exec: the staged directory is there before CR3 takes it, and the old one is
   dropped only when CR3 and the PCB have left it. *)
LEMMA ExecStepDirs ==
  ASSUME IInv, DirInv, NEW p \in Procs, running = p, ExecStep(p)
  PROVE  DirInv'
  <1> USE DEF NoChange, procVars, cpuVars, Runs, Goto
  <1>0. /\ at \in [Procs -> [pc : Places, e : Nat, lim : Nat, base : Nat, child : 0 .. NProcs]]
        /\ EntryTypeOK /\ cr3 \in [Procs -> Gens]
        /\ \A q \in Procs : Mine(q) \in Spaces /\ Staged(q) \in Spaces /\ Mine(q) # Staged(q)
        /\ at[p].e <= Dir => at[p].e \in Entries
    <2>1. at[p].e \in Nat
      BY DEF IInv, ControlTypeOK
    <2>2. at[p].e <= Dir => at[p].e \in Entries
      BY <2>1, EntryNumbers DEF Entries, KStack
    <2>3. QED
      BY <2>2, SpaceNames DEF IInv, ControlTypeOK, FrameInv
  <1>1. ~InExec(p) => page_pdpt = Mine(p) /\ frame[Mine(p)][Dir] # 0
    BY DEF DirInv, InCR3, HasDirs, HasOwn, InExec
  (* A step that stays in exec, or ends it, with the same two spaces. *)
  <1>2. ASSUME DirsKept({}), UNCHANGED <<state, cr3, running>>, \A q \in Procs \ {p} : at'[q] = at[q],
               InCR3', at[p].pc # "exec_drop",
               at'[p].pc \in {"user", "exec_undo"}
                 \/ (at'[p].pc \in {"exec_init", "exec_load", "exec_drop"} /\ frame'[Staged(p)][Dir] # 0)
        PROVE  DirInv'
    <2>1. Mine(p)' = Mine(p) /\ Staged(p)' = Staged(p) /\ frame'[Mine(p)][Dir] # 0
      BY <1>0, <1>2 DEF Mine, Staged, DirInv, HasDirs, HasOwn, DirsKept
    <2>2. HasDirs(p)'
      BY <1>2, <2>1 DEF HasDirs, HasOwn, HasStaged, HasChild
    <2>3. QED
      BY <1>2, <2>2, RunnerMoves
  <1>3. CASE SysExec(p)
    BY <1>0, <1>3, NoneLost, PlainMove DEF SysExec, Plain, At, User, spaceVars
  <1>4. CASE ExecDir(p)
    <2>1. CASE Fill(Staged(p), Dir) /\ Goto(p, At("exec_init"))
      <3>1. DirsKept({}) /\ frame'[Staged(p)][Dir] # 0
        BY <1>0, <2>1, EntryNumbers, FillNoneLost
      <3>2. at'[p].pc = "exec_init" /\ \A q \in Procs \ {p} : at'[q] = at[q]
        BY <1>0, <2>1 DEF At, User
      <3>3. InCR3' /\ UNCHANGED <<state, cr3, running>> /\ at[p].pc = "exec_dir"
        BY <1>1, <1>4, <3>2 DEF ExecDir, InCR3, InExec, Mine
      <3>4. QED
        BY <1>2, <3>1, <3>2, <3>3
    <2>2. CASE Goto(p, User) /\ UNCHANGED spaceVars
      BY <1>0, <1>4, <2>2, NoneLost, PlainMove DEF ExecDir, Plain, User, spaceVars
    <2>3. QED
      BY <1>4, <2>1, <2>2 DEF ExecDir
  <1>5. CASE ExecInit(p)
    <2>1. /\ at[p].e \in Entries /\ at[p].pc = "exec_init" /\ frame[Staged(p)][Dir] # 0
          /\ UNCHANGED <<state, cr3, running, page_pdpt>>
      BY <1>0, <1>5, EntryNumbers DEF ExecInit, Dir, DirInv, HasDirs, HasStaged
    <2>2. CASE Fill(Staged(p), at[p].e) /\ Goto(p, [at[p] EXCEPT !.e = @ + 1])
      <3>1. DirsKept({}) /\ frame'[Staged(p)][Dir] # 0
        BY <1>0, <2>1, <2>2, FillNoneLost DEF DirsKept
      <3>2. at'[p].pc = "exec_init" /\ \A q \in Procs \ {p} : at'[q] = at[q]
        BY <1>0, <2>1, <2>2
      <3>3. InCR3'
        BY <1>1, <2>1, <3>2 DEF InCR3, InExec, Mine
      <3>4. QED
        BY <1>2, <2>1, <3>1, <3>2, <3>3
    <2>3. CASE Goto(p, At("exec_undo")) /\ UNCHANGED spaceVars
      <3>1. at'[p].pc = "exec_undo" /\ \A q \in Procs \ {p} : at'[q] = at[q]
        BY <1>0, <2>3 DEF At, User
      <3>2. InCR3' /\ DirsKept({})
        BY <1>1, <2>1, <2>3, <3>1, NoneLost DEF InCR3, InExec, Mine, spaceVars
      <3>3. QED
        BY <1>2, <2>1, <3>1, <3>2
    <2>4. QED
      BY <1>5, <2>2, <2>3 DEF ExecInit
  <1>6. CASE ExecActivate(p)
    <2>1. /\ at[p].pc = "exec_init" /\ frame'[Staged(p)][Dir] # 0 /\ frame' = frame
          /\ UNCHANGED <<state, cr3, running>> /\ page_pdpt' = Staged(p)
          /\ at'[p].pc = "exec_load" /\ \A q \in Procs \ {p} : at'[q] = at[q]
      BY <1>0, <1>6 DEF ExecActivate, spaceVars, DirInv, HasDirs, HasStaged, At, User
    <2>2. InCR3' /\ DirsKept({})
      BY <2>1, NoneLost DEF InCR3, InExec, Staged
    <2>3. QED
      BY <1>2, <2>1, <2>2
  <1>7. CASE ExecLoad(p)
    <2>1. /\ at[p].pc = "exec_load" /\ frame'[Staged(p)][Dir] # 0 /\ frame' = frame
          /\ UNCHANGED <<state, cr3, running, page_pdpt>>
          /\ at'[p].pc = "exec_load" /\ \A q \in Procs \ {p} : at'[q] = at[q]
      BY <1>0, <1>7 DEF ExecLoad, DirInv, HasDirs, HasStaged
    <2>2. InCR3' /\ DirsKept({})
      BY <2>1, NoneLost DEF DirInv, InCR3, InExec, Staged
    <2>3. QED
      BY <1>2, <2>1, <2>2
  <1>8. CASE ExecFail(p)
    <2>1. /\ at[p].pc = "exec_load" /\ frame' = frame
          /\ UNCHANGED <<state, cr3, running>> /\ page_pdpt' = Mine(p)
          /\ at'[p].pc = "exec_undo" /\ \A q \in Procs \ {p} : at'[q] = at[q]
      BY <1>0, <1>8 DEF ExecFail, spaceVars, At, User
    <2>2. InCR3' /\ DirsKept({})
      BY <2>1, NoneLost DEF InCR3, InExec, Mine
    <2>3. QED
      BY <1>2, <2>1, <2>2
  <1>9. CASE ExecUndo(p)
    <2>1. /\ at[p].pc = "exec_undo" /\ UNCHANGED <<state, cr3, running, page_pdpt>>
          /\ Plain(p)' /\ \A q \in Procs \ {p} : at'[q] = at[q]
      BY <1>0, <1>9 DEF ExecUndo, Plain, User
    <2>2. DirsKept({Staged(p)})
      <3>1. UNCHANGED spaceVars => DirsKept({Staged(p)})
        BY DEF DirsKept, spaceVars
      <3>2. QED
        BY <1>0, <1>9, <3>1, DropNoneLost DEF ExecUndo
    <2>3. \A q \in Procs \ {p} : Mine(q) # Staged(p) /\ Staged(q) # Staged(p) /\ (Forking(q) => Child(q) # Staged(p))
      BY ChildSpace DEF Mine, Staged
    <2>4. InCR3' /\ HasDirs(p)'
      BY <1>0, <1>1, <2>1, <2>2 DEF InCR3, HasDirs, HasOwn, HasStaged, HasChild, Plain, InExec, Mine, DirsKept
    <2>5. QED
      BY <2>1, <2>2, <2>3, <2>4, RunnerMoves
  <1>10. CASE ExecDrop(p)
    <2>1. /\ at[p].pc \in {"exec_load", "exec_drop"} /\ UNCHANGED <<state, cr3, running, page_pdpt>>
          /\ at'[p].pc = "exec_drop" /\ \A q \in Procs \ {p} : at'[q] = at[q]
          /\ frame[Staged(p)][Dir] # 0
      BY <1>0, <1>10 DEF ExecDrop, At, User, DirInv, HasDirs, HasStaged
    <2>2. DirsKept({Mine(p)})
      <3>1. UNCHANGED spaceVars => DirsKept({Mine(p)})
        BY DEF DirsKept, spaceVars
      <3>2. QED
        BY <1>0, <1>10, <3>1, DropNoneLost DEF ExecDrop
    <2>3. ASSUME NEW q \in Procs \ {p}
          PROVE  Mine(q) # Mine(p) /\ Staged(q) # Mine(p) /\ (Forking(q) => Child(q) # Mine(p))
      <3>1. Forking(q) => at[at[q].child].pc = "embryo" /\ at[q].child # p
        BY <2>1 DEF IInv, CallsInProgress
      <3>2. QED
        BY <3>1 DEF Mine, Staged, Child
    <2>4. InCR3' /\ HasDirs(p)'
      <3>1. Staged(p)' = Staged(p) /\ frame'[Staged(p)][Dir] # 0
        BY <1>0, <2>1, <2>2 DEF Staged, DirsKept
      <3>2. QED
        BY <2>1, <3>1 DEF DirInv, InCR3, InExec, HasDirs, HasOwn, HasStaged, HasChild
    <2>5. QED
      BY <2>1, <2>2, <2>3, <2>4, RunnerMoves
  <1>11. CASE ExecCommit(p)
    <2>1. /\ at[p].pc = "exec_drop" /\ UNCHANGED <<state, running, page_pdpt>> /\ frame' = frame
          /\ cr3' = [cr3 EXCEPT ![p] = 1 - @]
          /\ at'[p].pc = "user" /\ \A q \in Procs \ {p} : at'[q] = at[q] /\ cr3'[q] = cr3[q]
          /\ frame[Staged(p)][Dir] # 0
      BY <1>0, <1>11 DEF ExecCommit, User, spaceVars, DirInv, HasDirs, HasStaged
    <2>2. Mine(p)' = Staged(p) /\ DirsKept({})
      BY <1>0, <2>1, NoneLost DEF Mine, Staged
    <2>3. InCR3' /\ HasDirs(p)'
      BY <2>1, <2>2 DEF DirInv, InCR3, InExec, HasDirs, HasOwn, HasStaged, HasChild
    <2>4. ASSUME NEW q \in Procs \ {p} PROVE HasDirs(q)'
      BY <2>1, <2>2, <2>4, OthersKeep DEF DirInv
    <2>5. QED
      BY <2>3, <2>4 DEF DirInv
  <1>12. QED
    BY <1>3, <1>4, <1>5, <1>6, <1>7, <1>8, <1>9, <1>10, <1>11 DEF ExecStep

(* exit, kill, reap and the switch. *)
LEMMA LifeStepDirs ==
  ASSUME ~TickInExec, IInv, DirInv, NEW p \in Procs, running = p, LifeStep(p)
  PROVE  DirInv'
  <1> USE DEF procVars, cpuVars, Runs, Goto
  <1>0. /\ at \in [Procs -> [pc : Places, e : Nat, lim : Nat, base : Nat, child : 0 .. NProcs]]
        /\ state \in [Procs -> {"unused", "embryo", "ready", "zombie"}] /\ cr3 \in [Procs -> Gens]
        /\ EntryTypeOK /\ \A q \in Procs : Mine(q) \in Spaces /\ Staged(q) \in Spaces
    BY SpaceNames DEF IInv, ControlTypeOK, FrameInv
  <1>1. ~InExec(p) => page_pdpt = Mine(p) /\ frame[Mine(p)][Dir] # 0
    BY DEF DirInv, InCR3, HasDirs, HasOwn, InExec
  <1>2. CASE Exit(p)
    <2>1. /\ at[p].pc = "user" /\ frame' = frame /\ UNCHANGED <<cr3, running, page_pdpt>>
          /\ Plain(p)' /\ ~InExec(p) /\ ~InExec(p)'
          /\ \A q \in Procs \ {p} : at'[q] = at[q] /\ state'[q] = state[q]
      BY <1>0, <1>2 DEF Exit, spaceVars, Plain, At, User, InExec
    <2>2. InCR3' /\ HasDirs(p)' /\ DirsKept({})
      BY <1>1, <2>1, NoneLost DEF InCR3, HasDirs, HasOwn, HasStaged, HasChild, Plain, Mine
    <2>3. QED
      BY <2>1, <2>2, RunnerMoves
  <1>3. ASSUME NEW q \in Procs, Kill(p, q) PROVE DirInv'
    <2>1. /\ at' = at /\ frame' = frame /\ UNCHANGED <<cr3, running, page_pdpt>>
          /\ at[p].pc = "user" /\ ~InExec(p) /\ ~InExec(p)'
          /\ \A r \in Procs : state'[r] = "ready" => state[r] = "ready"
      BY <1>0, <1>3 DEF Kill, spaceVars, InExec
    <2>2. InCR3' /\ HasDirs(p)' /\ DirsKept({})
      BY <1>1, <2>1, NoneLost DEF InCR3, HasDirs, HasOwn, HasStaged, HasChild, Mine
    <2>3. QED
      BY <2>1, <2>2, RunnerMoves
  <1>4. ASSUME NEW q \in Procs, Reap(p, q) PROVE DirInv'
    <2> DEFINE X == {<<q, 0>>, <<q, 1>>}
    <2>1. /\ q # p /\ at[p].pc = "user" /\ parent[q] = p /\ Forget(q)
          /\ UNCHANGED <<running, page_pdpt>> /\ state'[q] = "unused" /\ at'[q].pc = "user"
          /\ \A r \in Procs \ {q} : at'[r] = at[r] /\ state'[r] = state[r] /\ cr3'[r] = cr3[r]
      BY <1>0, <1>4 DEF Reap, User
    <2>2. DirsKept(X)
      <3>1. \A s \in Spaces \ X : s[1] # q
        BY DEF Spaces, Gens
      <3>2. QED
        BY <2>1, <3>1 DEF Forget, DirsKept
    <2>3. HasDirs(q)'
      BY <2>1 DEF HasDirs, HasOwn, HasStaged, HasChild
    <2>4. ASSUME NEW r \in Procs \ {q} PROVE HasDirs(r)'
      <3>1. Forking(r) => parent[at[r].child] = r
        BY DEF IInv, CallsInProgress
      <3>2. ~Forking(p)
        BY <2>1 DEF Forking
      <3>3. Mine(r) \notin X /\ Staged(r) \notin X /\ (Forking(r) => Child(r) \notin X)
        BY <2>1, <3>1, <3>2 DEF Mine, Staged, Child
      <3>4. HasDirs(r)
        BY DEF DirInv
      <3>5. QED
        BY <2>1, <2>2, <3>3, <3>4, OthersKeep
    <2>5. InCR3'
      BY <2>1 DEF DirInv, InCR3, InExec, Mine, Staged
    <2>6. QED
      BY <2>3, <2>4, <2>5 DEF DirInv
  <1>5. ASSUME NEW q \in Procs, Switch(q) PROVE DirInv'
    <2>1. /\ q # running /\ state[q] = "ready" /\ running' = q /\ page_pdpt' = Mine(q)
          /\ UNCHANGED <<frame, state, cr3, at>>
      BY <1>5 DEF Switch, spaceVars
    <2>2. ~InExec(q)
      BY <2>1 DEF IInv, CallsInProgress
    <2>3. InCR3'
      BY <2>1, <2>2 DEF InCR3, InExec, Mine
    <2>4. ASSUME NEW r \in Procs PROVE HasDirs(r)'
      BY <2>1, <2>4 DEF DirInv, HasDirs, HasOwn, HasStaged, HasChild, Mine, Staged, Child
    <2>5. QED
      BY <2>3, <2>4 DEF DirInv
  <1>6. QED
    BY <1>2, <1>3, <1>4, <1>5 DEF LifeStep

(* DirInv holds throughout. *)
LEMMA OwnSpaces ==
  ASSUME ~TickInExec
  PROVE  Spec => []IInv /\ []DirInv
  <1>1. Init => DirInv
    <2> SUFFICES ASSUME Init
                 PROVE  DirInv
      OBVIOUS
    <2>1. 1 \in Procs /\ <<1, 0>> \in Spaces /\ Dir \in Entries
      BY CowAssumption, EntryNumbers DEF Procs, Spaces, Gens
    <2>2. Mine(1) = <<1, 0>> /\ frame[<<1, 0>>][Dir] = HeapLo + 1 /\ HeapLo + 1 # 0
      BY <2>1, EntryNumbers DEF Init, Mine, BootEntries, BootFrame
    <2>3. InCR3
      BY <2>1, <2>2 DEF Init, InCR3, InExec, User
    <2>4. ASSUME NEW p \in Procs PROVE HasDirs(p)
      BY <2>1, <2>2 DEF Init, HasDirs, HasOwn, HasStaged, HasChild, User
    <2>5. QED
      BY <2>3, <2>4 DEF DirInv
  <1>2. IInv /\ DirInv /\ [Next]_vars => DirInv'
    <2> SUFFICES ASSUME IInv, DirInv, [Next]_vars
                 PROVE  DirInv'
      OBVIOUS
    <2>1. CASE UNCHANGED vars
      BY <2>1 DEF vars, spaceVars, procVars, cpuVars, DirInv, InCR3, InExec, HasDirs, HasOwn,
                  HasStaged, HasChild, Mine, Staged, Child
    <2>2. CASE Next
      BY <2>2, MemoryStepDirs, ForkStepDirs, ExecStepDirs, LifeStepDirs DEF Next
    <2>3. QED
      BY <2>1, <2>2
  <1>3. Spec => []IInv
    BY Soundness
  <1>4. QED
    BY <1>1, <1>2, <1>3, PTL DEF Spec

(* paging_switch, exec and exit never leave the CPU in a space that the      *)
(* process on it does not own, nor in one whose directory has been freed.    *)
THEOREM RunsInItsSpace == ~TickInExec => (Spec => []RunsInOwnSpace)
  <1> SUFFICES ASSUME ~TickInExec
               PROVE  Spec => []RunsInOwnSpace
    OBVIOUS
  <1>1. IInv /\ DirInv => RunsInOwnSpace
    <2> SUFFICES ASSUME IInv, DirInv
                 PROVE  RunsInOwnSpace
      OBVIOUS
    <2>1. running \in Procs
      BY DEF IInv, ControlTypeOK
    <2>2. QED
      BY <2>1 DEF DirInv, InCR3, HasDirs, HasOwn, HasStaged, InExec, RunsInOwnSpace
  <1>2. Spec => []IInv /\ []DirInv
    BY OwnSpaces
  <1>3. QED
    BY <1>1, <1>2, PTL

-----------------------------------------------------------------------------
(* Frames that come back.  All that a step can do to the pool. *)
PoolStep ==
  \/ UNCHANGED pmmVars
  \/ \E f : PmmAlloc(f)
  \/ \E f \in MaybeFrame : PmmFree(f)
  \/ \E f \in Frames : PmmRefInc(f)
  \/ \E f \in Frames : /\ refcount[f] > 1 /\ CanAlloc /\ Take
                       /\ refcount' = [refcount EXCEPT ![f] = @ - 1, ![NextFree] = 1]

(* What munmap's page step does to the pool. *)
LEMMA UnmapPools == ASSUME IInv, NEW e, Unmap(e) PROVE PoolStep
  <1>1. page_pdpt \in Spaces /\ EntryTypeOK
    BY DEF IInv, ControlTypeOK, FrameInv
  <1>2. e \in Pages => frame[page_pdpt][e] \in MaybeFrame
    BY <1>1, EntryNumbers DEF EntryTypeOK
  <1>3. QED
    BY <1>2 DEF Unmap, Drop, PoolStep

(* Every step of every process is one of these. *)
LEMMA NextPools ==
  ASSUME IInv, Next
  PROVE  PoolStep
  <1>0. PICK p \in Procs : running = p /\ (MemoryStep(p) \/ ForkStep(p) \/ ExecStep(p) \/ LifeStep(p))
    BY DEF Next
  <1>1. /\ page_pdpt \in Spaces /\ EntryTypeOK /\ Mine(p) \in Spaces /\ Staged(p) \in Spaces
        /\ at[p].e \in Nat
    BY SpaceNames DEF IInv, ControlTypeOK, FrameInv
  <1>2. CASE MemoryStep(p)
    <2>1. ASSUME NEW e \in Pages, CowCopy(p, e) PROVE PoolStep
      <3>1. frame[page_pdpt][e] \in MaybeFrame /\ frame[page_pdpt][e] # 0
        BY <1>1, <2>1, EntryNumbers DEF EntryTypeOK, CowCopy, CowPage
      <3>2. frame[page_pdpt][e] \in Frames
        BY <3>1, PmmAssumption DEF MaybeFrame, Frames
      <3>3. QED
        BY <2>1, <3>2 DEF CowCopy, PoolStep
    <2>2. MapNext => PoolStep
      BY DEF MapNext, PoolStep
    <2>3. CASE BrkShrink(p) \/ MmapUnwind(p) \/ MunmapPage(p)
      BY <2>3, UnmapPools DEF BrkShrink, MmapUnwind, MunmapPage, PoolStep
    <2>4. CASE SysAlloc(p) \/ BrkGrow(p) \/ MmapPage(p)
      BY <2>2, <2>4 DEF SysAlloc, BrkGrow, MmapPage, PoolStep
    <2>5. QED
      BY <1>2, <2>1, <2>3, <2>4 DEF MemoryStep, Store, FillBuffer, CowLift, SysBrk, BrkDone, SysMmap,
                                   MmapDone, SysMunmap, PoolStep
  <1>3. CASE ForkStep(p)
    <2>1. \A s, e : Fill(s, e) => PoolStep
      BY DEF Fill, PoolStep
    <2>2. CASE ForkCopy(p)
      <3>1. CASE frame[Mine(p)][at[p].e] # 0 /\ Share(Mine(p), Child(p), at[p].e)
        <4>1. at[p].e \in Entries
          BY <1>1, <2>2, EntryNumbers DEF ForkCopy, Entries, KStack, Dir
        <4>2. frame[Mine(p)][at[p].e] \in Frames
          BY <1>1, <3>1, <4>1, PmmAssumption DEF EntryTypeOK, MaybeFrame, Frames
        <4>3. QED
          BY <3>1, <4>2 DEF Share, PoolStep
      <3>2. QED
        BY <2>1, <2>2, <3>1 DEF ForkCopy, PoolStep
    <2>3. CASE ForkUndo(p)
      <3>1. at[p].e <= KStack => at[p].e \in Entries
        BY <1>1 DEF Entries
      <3>2. Child(p) \in Spaces
        BY <2>3, ChildSpace DEF ForkUndo, Runs, Forking
      <3>3. at[p].e <= KStack => frame[Child(p)][at[p].e] \in MaybeFrame
        BY <1>1, <3>1, <3>2 DEF EntryTypeOK
      <3>4. QED
        BY <2>3, <3>3 DEF ForkUndo, Drop, PoolStep
    <2>4. QED
      BY <1>3, <2>1, <2>2, <2>3 DEF ForkStep, SysFork, ForkStack, ForkDir, ForkDone, PoolStep
  <1>4. CASE ExecStep(p)
    <2>1. \A s, e : Fill(s, e) => PoolStep
      BY DEF Fill, PoolStep
    <2>2. at[p].e <= Dir => at[p].e \in Entries
      BY <1>1, EntryNumbers DEF Entries, KStack
    <2>3. at[p].e <= Dir => frame[Mine(p)][at[p].e] \in MaybeFrame /\ frame[Staged(p)][at[p].e] \in MaybeFrame
      BY <1>1, <2>2 DEF EntryTypeOK
    <2>4. CASE ExecUndo(p) \/ ExecDrop(p)
      BY <2>3, <2>4 DEF ExecUndo, ExecDrop, Drop, PoolStep
    <2>5. QED
      BY <1>4, <2>1, <2>4 DEF ExecStep, SysExec, ExecDir, ExecInit, ExecActivate, ExecLoad, ExecFail,
                              ExecCommit, PoolStep
  <1>5. CASE LifeStep(p)
    <2>1. ASSUME NEW q \in Procs, Reap(p, q) PROVE PoolStep
      <3>1. <<q, 0>> \in Spaces /\ KStack \in Entries
        BY EntryNumbers DEF Spaces, Gens
      <3>2. frame[<<q, 0>>][KStack] \in MaybeFrame
        BY <1>1, <3>1 DEF EntryTypeOK
      <3>3. QED
        BY <2>1, <3>2 DEF Reap, PoolStep
    <2>2. QED
      BY <1>5, <2>1 DEF LifeStep, Exit, Kill, Switch, PoolStep
  <1>6. QED
    BY <1>0, <1>2, <1>3, <1>4, <1>5

(* A list without repetitions of frames other than f is shorter than the     *)
(* number of frames: free_list has room for f.                               *)
LEMMA RoomForOneMore ==
  ASSUME FreeMax >= NFrames, PmmTypeOK, PoolSound, NEW f \in Frames, ~Pooled(f)
  PROVE  Len(free_list) < FreeMax
  <1>1. /\ IsFiniteSet(Frames) /\ Cardinality(Frames) = NFrames /\ Len(free_list) \in Nat
    BY FS_Interval, PmmAssumption DEF Frames, PmmTypeOK
  <1>2. IsFiniteSet(Frames \ {f}) /\ Cardinality(Frames \ {f}) = NFrames - 1
    BY <1>1, FS_RemoveElement
  <1>3. \A i \in 1 .. Len(free_list) : free_list[i] \in Frames \ {f}
    BY DEF PmmTypeOK, Pooled
  <1> DEFINE g == [i \in 1 .. Len(free_list) |-> free_list[i]]
  <1>4. g \in Injection(1 .. Len(free_list), Frames \ {f})
    <2>1. g \in [1 .. Len(free_list) -> Frames \ {f}]
      BY <1>3
    <2>2. \A i, j \in DOMAIN g : g[i] = g[j] => i = j
      BY DEF PoolSound
    <2>3. QED
      BY <2>1, <2>2, Zenon DEF Injection, IsInjective
  <1>5. Cardinality(1 .. Len(free_list)) <= Cardinality(Frames \ {f})
    BY <1>2, <1>4, FS_Injection
  <1>6. Cardinality(1 .. Len(free_list)) = Len(free_list)
    <2>1. \A n \in Nat : Cardinality(1 .. n) = n
      BY FS_Interval
    <2>2. QED
      BY <1>1, <2>1
  <1>7. QED
    BY <1>1, <1>2, <1>5, <1>6, PmmAssumption

(* pmm.c loses a frame only when its free_list is full. *)
Lost(f) == refcount[f] = 0 /\ ~Free(f)

LostWhenFull == [][\A f \in Frames : Lost(f)' => Lost(f) \/ Len(free_list) >= FreeMax]_vars

(* Of these only a free into a full free_list loses a frame. *)
LEMMA StepLoses ==
  ASSUME IInv, PoolStep
  PROVE  \A f \in Frames : Lost(f)' => Lost(f) \/ (Len(free_list) >= FreeMax /\ ~Pooled(f))
  <1>0. PmmTypeOK /\ PoolSound
    BY DEF IInv, FrameInv
  <1>1. SUFFICES ASSUME NEW f \in Frames, Lost(f)', ~Lost(f)
                 PROVE  Len(free_list) >= FreeMax /\ ~Pooled(f)
    OBVIOUS
  <1>2. CASE UNCHANGED pmmVars
    BY <1>1, <1>2 DEF pmmVars, Lost, Free, Pooled
  <1>3. ASSUME NEW g, PmmAlloc(g) PROVE FALSE
    <2>1. \A h \in Frames : Free(h)' <=> Free(h) /\ h # g
      BY <1>0, <1>3, AllocFresh DEF PmmAlloc
    <2>2. refcount'[f] = IF f = g THEN 1 ELSE refcount[f]
      BY <1>0, <1>3 DEF PmmAlloc, PmmTypeOK
    <2>3. QED
      BY <1>1, <2>1, <2>2 DEF Lost
  <1>4. ASSUME NEW g \in Frames, PmmRefInc(g) PROVE FALSE
    <2>1. refcount'[f] = 0 => refcount[f] = 0
      BY <1>0, <1>4, PmmAssumption DEF PmmRefInc, RefAfterInc, PmmTypeOK
    <2>2. Free(f)' <=> Free(f)
      BY <1>4 DEF PmmRefInc, Free, Pooled
    <2>3. QED
      BY <1>1, <2>1, <2>2 DEF Lost
  <1>5. ASSUME NEW g \in Frames, refcount[g] > 1, CanAlloc, Take,
               refcount' = [refcount EXCEPT ![g] = @ - 1, ![NextFree] = 1]
        PROVE  FALSE
    <2>1. NextFree \in Frames /\ \A h \in Frames : Free(h)' <=> Free(h) /\ h # NextFree
      BY <1>0, <1>5, AllocFresh
    <2>2. refcount'[f] = 0 => refcount[f] = 0 /\ f # NextFree
      BY <1>0, <1>5, <2>1 DEF PmmTypeOK
    <2>3. QED
      BY <1>1, <2>1, <2>2 DEF Lost
  <1>6. ASSUME NEW g \in MaybeFrame, PmmFree(g)
        PROVE  Len(free_list) >= FreeMax /\ ~Pooled(f)
    <2>1. CASE g = 0 \/ refcount[g] = 0
      BY <1>1, <1>6, <2>1 DEF PmmFree, pmmVars, Lost, Free, Pooled
    <2>2. CASE ~(g = 0 \/ refcount[g] = 0)
      <3>1. /\ g \in Frames /\ next_frame' = next_frame
            /\ refcount' = [refcount EXCEPT ![g] = @ - 1]
            /\ free_list' = IF refcount[g] = 1 /\ Len(free_list) < FreeMax
                            THEN Append(free_list, g) ELSE free_list
        BY <1>6, <2>2, PmmAssumption DEF PmmFree, MaybeFrame, Frames
      <3>2. free_list \in Seq(Frames) /\ Len(free_list) \in Nat
        BY <1>0 DEF PmmTypeOK
      <3>3. ~Free(g)
        BY <1>0, <2>2, <3>1 DEF PoolSound
      <3>4. Free(f) => Free(f)'
        <4>1. Pooled(f) => Pooled(f)'
          <5>1. CASE free_list' = free_list
            BY <5>1 DEF Pooled
          <5>2. CASE free_list' = Append(free_list, g)
            BY <3>1, <3>2, <5>2 DEF Pooled
          <5>3. QED
            BY <3>1, <5>1, <5>2
        <4>2. QED
          BY <3>1, <4>1 DEF Free
      <3>5. f = g
        BY <1>0, <1>1, <3>1, <3>4 DEF Lost, PmmTypeOK
      <3>6. refcount[g] = 1
        BY <1>0, <1>1, <2>2, <3>1, <3>5 DEF Lost, PmmTypeOK
      <3>7. ~(Len(free_list) < FreeMax)
        <4>1. ASSUME free_list' = Append(free_list, g) PROVE FALSE
          <5>1. Len(free_list') = Len(free_list) + 1 /\ free_list'[Len(free_list) + 1] = g
            BY <3>1, <3>2, <4>1
          <5>2. Pooled(g)'
            BY <3>2, <5>1 DEF Pooled
          <5>3. QED
            BY <1>1, <3>5, <5>2 DEF Lost, Free
        <4>2. QED
          BY <3>1, <3>6, <4>1
      <3>8. QED
        BY <3>2, <3>3, <3>5, <3>7, PmmAssumption DEF Free
    <2>3. QED
      BY <2>1, <2>2
  <1>7. QED
    BY <1>2, <1>3, <1>4, <1>5, <1>6 DEF PoolStep

(* What pmm_alloc took comes back: a frame whose last owner is gone is lost  *)
(* only if pmm_free found free_list full.                                    *)
THEOREM LostOnlyWhenFull == ~TickInExec => (Spec => LostWhenFull)
  <1> SUFFICES ASSUME ~TickInExec
               PROVE  Spec => LostWhenFull
    OBVIOUS
  <1>1. IInv /\ [Next]_vars => [\A f \in Frames : Lost(f)' => Lost(f) \/ Len(free_list) >= FreeMax]_vars
    BY NextPools, StepLoses
  <1>2. Spec => []IInv
    BY Soundness
  <1>3. QED
    BY <1>1, <1>2, PTL DEF Spec, LostWhenFull

(* With a free_list that has room for every frame no frame is ever lost,     *)
(* whatever faults, forks, failures and exits do.                            *)
THEOREM FramesComeBack == ~TickInExec /\ FreeMax >= NFrames => (Spec => []NoFrameLost)
  <1> SUFFICES ASSUME ~TickInExec, FreeMax >= NFrames
               PROVE  Spec => []NoFrameLost
    OBVIOUS
  <1>1. Init => NoFrameLost
    BY CowAssumption, PmmAssumption, EntryNumbers DEF Init, PmmInit, NoFrameLost, Free, Frames
  <1>2. IInv /\ NoFrameLost /\ [Next]_vars => NoFrameLost'
    <2> SUFFICES ASSUME IInv, NoFrameLost, [Next]_vars
                 PROVE  NoFrameLost'
      OBVIOUS
    <2>1. CASE UNCHANGED vars
      BY <2>1 DEF vars, pmmVars, NoFrameLost, Free, Pooled
    <2>2. CASE Next
      <3>1. PmmTypeOK /\ PoolSound
        BY DEF IInv, FrameInv
      <3>2. ASSUME NEW f \in Frames, Lost(f)' PROVE FALSE
        <4>1. Len(free_list) >= FreeMax /\ ~Pooled(f)
          BY <2>2, <3>2, NextPools, StepLoses DEF Lost, NoFrameLost
        <4>2. Len(free_list) < FreeMax
          BY <3>1, <4>1, RoomForOneMore
        <4>3. Len(free_list) \in Nat /\ FreeMax \in Nat
          BY <3>1, PmmAssumption DEF PmmTypeOK
        <4>4. QED
          BY <4>1, <4>2, <4>3
      <3>3. QED
        BY <3>2 DEF NoFrameLost, Lost
    <2>3. QED
      BY <2>1, <2>2
  <1>3. Spec => []IInv
    BY Soundness
  <1>4. QED
    BY <1>1, <1>2, <1>3, PTL DEF Spec
-----------------------------------------------------------------------------
(* Every process a memory of its own: CowMemory implements PrivateMemory.    *)
(*                                                                           *)
(* First what is in a space that exec or fork is building.  The staged space *)
(* fills from below and has no page outside an exec; a child has, up to the  *)
(* cursor of fork, the frames of its parent.                                 *)

Absent(s) == \A e \in Pages : frame[s][e] = 0

StagedShape(p) ==
  /\ at[p].pc = "exec_init" => \A e \in Pages : frame[Staged(p)][e] # 0 <=> e < at[p].e
  /\ at[p].pc = "exec_load" => \A e \in Pages : frame[Staged(p)][e] # 0 <=> e < HeapLo
  /\ at[p].pc = "exec_undo" => \A e \in Pages : e < at[p].e => frame[Staged(p)][e] = 0
  /\ at[p].pc \notin {"exec_init", "exec_load", "exec_drop", "exec_undo"} => Absent(Staged(p))

ChildShape(p) ==
  /\ at[p].pc \in {"fork_stack", "fork_dir"} => Absent(Child(p))
  /\ at[p].pc = "fork_copy" =>
       \A e \in Pages : frame[Child(p)][e] = IF e < at[p].e THEN frame[Mine(p)][e] ELSE 0
  /\ at[p].pc = "fork_undo" => \A e \in Pages : e < at[p].e => frame[Child(p)][e] = 0

Vacant(p) == Absent(Mine(p)) /\ Absent(Staged(p))

ShapeOf(p) == StagedShape(p) /\ ChildShape(p) /\ (state[p] = "unused" => Vacant(p))

ShapeInv == \A p \in Procs : ShapeOf(p)

(* The spaces a step of p can touch, and the pages it leaves alone. *)
Workspace(p) == {Mine(p), Staged(p)} \cup {c \in {Child(p)} : Forking(p)}

PagesKept(X) == \A s \in Spaces \ X, e \in Pages : frame'[s][e] = frame[s][e]

(* The slots without a memory that anybody sees, of CowMemory's View. *)
Blank(p) == state[p] = "unused" \/ at[p].pc = "embryo"

(* No other process builds, copies or sees a space that p works on. *)
LEMMA Apart ==
  ASSUME IInv, NEW p \in Procs, running = p, NEW q \in Procs, q # p
  PROVE  /\ Staged(q) \notin Workspace(p)
         /\ Forking(q) => Child(q) \notin Workspace(p) /\ Mine(q) \notin Workspace(p)
         /\ state[q] = "unused" => Mine(q) \notin Workspace(p)
         /\ ~Blank(q) => Seen(q) \notin Workspace(p)
  <1>1. Staged(q) \notin {Mine(p), Staged(p)} /\ Mine(q) \notin {Mine(p), Staged(p)}
    BY DEF Mine, Staged
  <1>2. Forking(p) => Staged(q) # Child(p)
    BY ChildSpace
  <1>3. ASSUME Forking(p), Mine(q) = Child(p)
        PROVE  at[q].pc = "embryo" /\ state[q] # "unused" /\ ~Forking(q)
    <2>1. q = at[p].child
      BY <1>3 DEF Mine, Child
    <2>2. QED
      BY <1>3, <2>1 DEF IInv, CallsInProgress, Forking
  <1>4. ASSUME Forking(q)
        PROVE  Child(q) \notin Workspace(p)
    <2>1. at[q].child # p /\ parent[at[q].child] = q
      BY <1>4 DEF IInv, CallsInProgress
    <2>2. Forking(p) => parent[at[p].child] = p
      BY DEF IInv, CallsInProgress
    <2>3. QED
      BY <2>1, <2>2 DEF Workspace, Child, Mine, Staged
  <1>5. Seen(q) = Mine(q) \/ Seen(q) = Staged(q)
    BY DEF Seen
  <1>6. QED
    BY <1>1, <1>2, <1>3, <1>4, <1>5 DEF Workspace, Blank

(* A step of the running process leaves the shape of the others. *)
LEMMA OthersShape ==
  ASSUME IInv, NEW p \in Procs, running = p, NEW q \in Procs, q # p, ShapeOf(q),
         PagesKept(Workspace(p)), at'[q] = at[q], cr3'[q] = cr3[q],
         state'[q] = "unused" => state[q] = "unused" \/ Vacant(q)'
  PROVE  ShapeOf(q)'
  <1>1. Mine(q)' = Mine(q) /\ Staged(q)' = Staged(q) /\ Child(q)' = Child(q)
    BY DEF Mine, Staged, Child
  <1>2. Mine(q) \in Spaces /\ Staged(q) \in Spaces
    BY SpaceNames DEF IInv
  <1>3. \A e \in Pages : frame'[Staged(q)][e] = frame[Staged(q)][e]
    BY <1>2, Apart DEF PagesKept
  <1>4. Forking(q) => \A e \in Pages : /\ frame'[Child(q)][e] = frame[Child(q)][e]
                                       /\ frame'[Mine(q)][e] = frame[Mine(q)][e]
    BY <1>2, Apart, ChildSpace DEF PagesKept
  <1>5. StagedShape(q)'
    BY <1>1, <1>3 DEF ShapeOf, StagedShape, Absent
  <1>6. ChildShape(q)'
    BY <1>1, <1>4 DEF ShapeOf, ChildShape, Absent, Forking
  <1>7. state'[q] = "unused" => Vacant(q)'
    <2>1. state[q] = "unused" => \A e \in Pages : frame'[Mine(q)][e] = frame[Mine(q)][e]
      BY <1>2, Apart DEF PagesKept
    <2>2. state[q] = "unused" => Vacant(q)'
      BY <1>1, <1>3, <2>1 DEF ShapeOf, Vacant, Absent
    <2>3. QED
      BY <2>2
  <1>8. QED
    BY <1>5, <1>6, <1>7 DEF ShapeOf

(* So only its own has to be looked at, *)
LEMMA RunnerShapes ==
  ASSUME IInv, ShapeInv, NEW p \in Procs, running = p, PagesKept(Workspace(p)),
         running' = running,
         \A q \in Procs \ {p} : /\ at'[q] = at[q] /\ cr3'[q] = cr3[q]
                                /\ state'[q] = "unused" => state[q] = "unused" \/ Vacant(q)',
         state'[p] # "unused", StagedShape(p)', ChildShape(p)'
  PROVE  ShapeInv'
  <1>1. ASSUME NEW q \in Procs, q # p PROVE ShapeOf(q)'
    BY <1>1, OthersShape DEF ShapeInv
  <1>2. ShapeOf(p)'
    BY DEF ShapeOf
  <1>3. QED
    BY <1>1, <1>2 DEF ShapeInv

(* and not even that in a call that builds nothing. *)
Building == {"exec_init", "exec_load", "exec_drop", "exec_undo",
             "fork_stack", "fork_dir", "fork_copy", "fork_undo"}

LEMMA QuietShape ==
  ASSUME IInv, ShapeInv, NEW p \in Procs, running = p, PagesKept({Mine(p)}),
         UNCHANGED <<cr3, running, state>>, \A q \in Procs \ {p} : at'[q] = at[q],
         at[p].pc \notin Building, at'[p].pc \notin Building
  PROVE  ShapeInv'
  <1>1. Staged(p)' = Staged(p) /\ Staged(p) \in Spaces /\ Staged(p) # Mine(p)
    BY SpaceNames DEF IInv, Staged
  <1>2. \A e \in Pages : frame'[Staged(p)][e] = frame[Staged(p)][e]
    BY <1>1 DEF PagesKept
  <1>3. StagedShape(p)
    BY DEF ShapeInv, ShapeOf
  <1>4. StagedShape(p)'
    BY <1>1, <1>2, <1>3 DEF StagedShape, Building, Absent
  <1>5. ChildShape(p)'
    BY DEF ChildShape, Building
  <1>6. PagesKept(Workspace(p)) /\ state[p] # "unused"
    BY DEF PagesKept, Workspace, IInv, CallsInProgress
  <1>7. QED
    BY <1>4, <1>5, <1>6, RunnerShapes
-----------------------------------------------------------------------------
(* What the elementary operations do to the contents of pages.               *)

OnlyPage(s, e) == \A t \in Spaces, d \in Pages : t # s \/ d # e => PageOf(t, d)' = PageOf(t, d)

AllPages == \A t \in Spaces, d \in Pages : PageOf(t, d)' = PageOf(t, d)

(* A space whose entries stay, and none of whose frames is written. *)
LEMMA PageStays ==
  ASSUME NEW t, NEW d, frame'[t][d] = frame[t][d],
         frame[t][d] # 0 => mem'[frame[t][d]] = mem[frame[t][d]]
  PROVE  PageOf(t, d)' = PageOf(t, d)
  BY DEF PageOf

LEMMA SameMemory ==
  ASSUME NEW X, NEW t \in Spaces \ X, NEW d \in Pages, PagesKept(X), mem' = mem
  PROVE  PageOf(t, d)' = PageOf(t, d)
  BY PageStays DEF PagesKept

(* A page that is present has a value. *)
LEMMA PageValue ==
  ASSUME IInv, NEW s \in Spaces, NEW e \in Entries
  PROVE  IF frame[s][e] = 0 THEN PageOf(s, e) = NoPage
                            ELSE PageOf(s, e) \in Values /\ PageOf(s, e) # NoPage
  <1>1. frame[s][e] \in MaybeFrame /\ mem \in [Frames -> Values]
    BY DEF IInv, FrameInv, EntryTypeOK, ControlTypeOK
  <1>2. frame[s][e] # 0 => mem[frame[s][e]] \in Values
    BY <1>1, PmmAssumption DEF MaybeFrame, Frames
  <1>3. QED
    BY <1>2, CowAssumption DEF PageOf

(* A fresh frame is nobody's page: whatever it is loaded with, only the      *)
(* entry it is installed in changes.                                         *)
LEMMA InstallPages ==
  ASSUME IInv, NEW s \in Spaces, NEW e \in Entries, NEW f, PmmAlloc(f), Install(s, e, f),
         mem' \in [Frames -> Values], \A g \in Frames : g # f => mem'[g] = mem[g]
  PROVE  /\ OnlyPage(s, e) /\ PagesKept({s}) /\ (e \notin Pages => PagesKept({}))
         /\ \A t \in Spaces, d \in Entries : frame'[t][d] = IF t = s /\ d = e THEN f ELSE frame[t][d]
         /\ PageOf(s, e)' \in Values /\ f # 0
  <1>1. FrameInv /\ f \in Frames /\ refcount[f] = 0 /\ Pages \subseteq Entries
    BY AllocSound, EntryNumbers DEF IInv, FrameInv
  <1>2. \A t \in Spaces, d \in Entries : frame[t][d] # f /\ frame[t][d] \in MaybeFrame
    BY <1>1, FreshUnheld DEF FrameInv, EntryTypeOK
  <1>3. \A t \in Spaces, d \in Entries : frame'[t][d] = IF t = s /\ d = e THEN f ELSE frame[t][d]
    BY <1>1 DEF Install, FrameInv, EntryTypeOK
  <1>4. ASSUME NEW t \in Spaces, NEW d \in Pages, t # s \/ d # e
        PROVE  PageOf(t, d)' = PageOf(t, d)
    <2>1. frame'[t][d] = frame[t][d] /\ frame[t][d] # f /\ frame[t][d] \in MaybeFrame
      BY <1>1, <1>2, <1>3, <1>4
    <2>2. frame[t][d] # 0 => frame[t][d] \in Frames
      BY <2>1, PmmAssumption DEF MaybeFrame, Frames
    <2>3. QED
      BY <2>1, <2>2, PageStays
  <1>5. PageOf(s, e)' \in Values /\ f # 0
    BY <1>1, <1>3 DEF PageOf, Frames
  <1>6. PagesKept({s}) /\ (e \notin Pages => PagesKept({}))
    BY <1>1, <1>3 DEF PagesKept
  <1>7. QED
    BY <1>3, <1>4, <1>5, <1>6 DEF OnlyPage

LEMMA FillPages ==
  ASSUME IInv, NEW s \in Spaces, NEW e \in Entries, Fill(s, e), mem' = mem
  PROVE  /\ OnlyPage(s, e) /\ PagesKept({s}) /\ (e \notin Pages => PagesKept({}))
         /\ \A d \in Entries : d # e => frame'[s][d] = frame[s][d]
         /\ frame'[s][e] # 0
  <1>1. PICK f \in Frames : PmmAlloc(f) /\ Install(s, e, f)
    BY DEF Fill
  <1>2. mem' \in [Frames -> Values] /\ \A g \in Frames : g # f => mem'[g] = mem[g]
    BY DEF IInv, ControlTypeOK
  <1>3. QED
    BY <1>1, <1>2, InstallPages

LEMMA DropPages ==
  ASSUME IInv, NEW s \in Spaces, NEW e \in Entries, Drop(s, e), mem' = mem
  PROVE  /\ OnlyPage(s, e) /\ PagesKept({s}) /\ (e \notin Pages => PagesKept({}))
         /\ \A t \in Spaces, d \in Entries : frame'[t][d] = IF t = s /\ d = e THEN 0 ELSE frame[t][d]
         /\ PageOf(s, e)' = NoPage
  <1>1. \A t \in Spaces, d \in Entries : frame'[t][d] = IF t = s /\ d = e THEN 0 ELSE frame[t][d]
    BY DEF Drop, IInv, FrameInv, EntryTypeOK
  <1>2. Pages \subseteq Entries
    BY EntryNumbers
  <1>3. OnlyPage(s, e)
    BY <1>1, <1>2, PageStays DEF OnlyPage
  <1>4. PageOf(s, e)' = NoPage
    BY <1>1 DEF PageOf
  <1>5. QED
    BY <1>1, <1>2, <1>3, <1>4 DEF PagesKept

(* A frame that one space alone maps is one page: a store through a writable *)
(* entry, and a load into a space that shares nothing, change no other.      *)
LEMMA WritePages ==
  ASSUME IInv, NEW s \in Spaces, NEW e \in Entries, frame[s][e] # 0, rw[s][e] \/ PagesPrivate(s),
         frame' = frame, NEW x \in Values, mem' = [mem EXCEPT ![frame[s][e]] = x]
  PROVE  OnlyPage(s, e) /\ PageOf(s, e)' = x
  <1>1. Pages \subseteq Entries /\ SoleWriter /\ Aligned /\ EntryTypeOK
    BY EntryNumbers DEF IInv, FrameInv
  <1>2. frame[s][e] \in Frames /\ mem \in [Frames -> Values]
    BY <1>1, PmmAssumption DEF EntryTypeOK, MaybeFrame, Frames, IInv, ControlTypeOK
  <1>3. ASSUME NEW t \in Spaces, NEW d \in Pages, t # s \/ d # e
        PROVE  PageOf(t, d)' = PageOf(t, d)
    <2>1. ASSUME frame[t][d] = frame[s][e] PROVE FALSE
      <3>1. d = e
        BY <1>1, <2>1 DEF Aligned
      <3>2. t = s
        BY <1>1, <2>1, <3>1 DEF SoleWriter, PagesPrivate
      <3>3. QED
        BY <1>3, <3>1, <3>2
    <2>2. frame[t][d] # 0 => frame[t][d] \in Frames
      BY <1>1, PmmAssumption DEF EntryTypeOK, MaybeFrame, Frames
    <2>3. QED
      BY <1>2, <2>1, <2>2, PageStays
  <1>4. PageOf(s, e)' = x
    BY <1>2 DEF PageOf
  <1>5. QED
    BY <1>3, <1>4 DEF OnlyPage

(* The copy of a shared page has its contents, in a frame of nobody else.    *)
LEMMA CopyPages ==
  ASSUME IInv, NEW p, NEW e \in Pages, CowCopy(p, e)
  PROVE  AllPages /\ PagesKept({page_pdpt})
  <1> USE DEF CowCopy, CowPage
  <1>0. page_pdpt \in Spaces /\ e \in Entries /\ Pages \subseteq Entries /\ FrameInv
        /\ EntryTypeOK /\ mem \in [Frames -> Values]
    BY EntryNumbers DEF IInv, ControlTypeOK, FrameInv
  <1>1. NextFree \in Frames /\ refcount[NextFree] = 0
    BY <1>0, AllocFresh DEF FrameInv
  <1>2. \A t \in Spaces, d \in Entries : frame[t][d] # NextFree
    BY <1>0, <1>1, FreshUnheld
  <1>3. \A t \in Spaces, d \in Entries :
           frame'[t][d] = IF t = page_pdpt /\ d = e THEN NextFree ELSE frame[t][d]
    BY <1>0, <1>1 DEF EntryTypeOK
  <1>4. \A t \in Spaces, d \in Entries : frame[t][d] # 0 => frame[t][d] \in Frames
    BY <1>0, PmmAssumption DEF EntryTypeOK, MaybeFrame, Frames
  <1>5. \A g \in Frames : mem'[g] = IF g = NextFree THEN mem[frame[page_pdpt][e]] ELSE mem[g]
    BY <1>0, <1>1
  <1>6. ASSUME NEW t \in Spaces, NEW d \in Pages
        PROVE  PageOf(t, d)' = PageOf(t, d)
    <2>1. CASE t = page_pdpt /\ d = e
      <3>1. frame'[t][d] = NextFree /\ mem'[NextFree] = mem[frame[t][d]] /\ frame[t][d] # 0 /\ NextFree # 0
        BY <1>0, <1>1, <1>3, <1>5, <2>1 DEF Frames
      <3>2. QED
        BY <3>1 DEF PageOf
    <2>2. CASE ~(t = page_pdpt /\ d = e)
      <3>1. frame'[t][d] = frame[t][d] /\ (frame[t][d] # 0 => mem'[frame[t][d]] = mem[frame[t][d]])
        BY <1>0, <1>2, <1>3, <1>4, <1>5, <2>2
      <3>2. QED
        BY <3>1, PageStays
    <2>3. QED
      BY <2>1, <2>2
  <1>7. QED
    BY <1>0, <1>3, <1>6 DEF AllPages, PagesKept
-----------------------------------------------------------------------------
(* Faults, stores and the heap calls change at most one page of the space in *)
(* CR3: it appears or goes, or it has a new value.                           *)

PageEffect(s) ==
  \/ AllPages
  \/ \E e \in Pages :
       /\ OnlyPage(s, e)
       /\ \/ PageOf(s, e)' = NoPage
          \/ /\ PageOf(s, e)' \in Values
             /\ e \notin CodeLo .. HeapLo - 1 \/ PageOf(s, e) # NoPage

HeapPlaces == {"user", "brk", "brk_shrink", "mmap", "unwind", "munmap"}

(* A step of user mode or of a heap call, in the space s.                    *)
OwnPages(p, s) ==
  /\ PagesKept({s}) /\ PageEffect(s)
  /\ UNCHANGED <<state, cr3, running, page_pdpt>>
  /\ \A q \in Procs \ {p} : at'[q] = at[q]
  /\ at[p].pc \in HeapPlaces /\ at'[p].pc \in HeapPlaces

LEMMA IdlePages ==
  ASSUME NEW s, UNCHANGED <<frame, mem>>
  PROVE  PagesKept({s}) /\ PageEffect(s) /\ AllPages
  BY PageStays DEF PagesKept, PageEffect, AllPages

LEMMA MapNextPages ==
  ASSUME IInv, NEW s \in Spaces, s = page_pdpt, MapNext
  PROVE  PagesKept({s}) /\ PageEffect(s) /\ UNCHANGED <<state, cr3, running, page_pdpt>>
  <1>1. user_heap_next \in HeapLo .. HeapBound /\ mem \in [Frames -> Values]
    BY DEF IInv, ControlTypeOK
  <1>2. PICK f \in Frames :
          /\ PmmAlloc(f)
          /\ \/ user_heap_next < HeapHi /\ Install(s, user_heap_next, f) /\ Holds(f)
             \/ UNCHANGED <<spaceVars, mem>>
          /\ UNCHANGED <<procVars, cpuVars>>
    BY DEF MapNext
  <1>3. CASE user_heap_next < HeapHi /\ Install(s, user_heap_next, f) /\ Holds(f)
    <2> DEFINE e == user_heap_next
    <2>1. e \in Pages /\ e \in Entries /\ e \notin CodeLo .. HeapLo - 1
      BY <1>1, <1>3, EntryNumbers DEF Pages
    <2>2. mem' \in [Frames -> Values] /\ \A g \in Frames : g # f => mem'[g] = mem[g]
      BY <1>1, <1>3 DEF Holds
    <2>3. PICK d \in Pages : d = e
      BY <2>1
    <2>4. OnlyPage(s, d) /\ PagesKept({s}) /\ PageOf(s, d)' \in Values
      BY <1>2, <1>3, <2>1, <2>2, <2>3, InstallPages
    <2>5. PageEffect(s)
      BY <2>1, <2>3, <2>4 DEF PageEffect
    <2>6. QED
      BY <1>2, <2>4, <2>5 DEF procVars, cpuVars
  <1>4. CASE UNCHANGED <<spaceVars, mem>>
    BY <1>2, <1>4, IdlePages DEF procVars, cpuVars, spaceVars
  <1>5. QED
    BY <1>2, <1>3, <1>4

LEMMA UnmapPages ==
  ASSUME IInv, NEW s \in Spaces, s = page_pdpt, NEW e, Unmap(e), mem' = mem
  PROVE  PagesKept({s}) /\ PageEffect(s)
  <1>1. CASE e \in Pages
    <2>1. e \in Entries /\ Drop(s, e)
      BY <1>1, EntryNumbers DEF Unmap
    <2>2. OnlyPage(s, e) /\ PagesKept({s}) /\ PageOf(s, e)' = NoPage
      BY <2>1, DropPages
    <2>3. QED
      BY <1>1, <2>2 DEF PageEffect
  <1>2. CASE e \notin Pages
    BY <1>2, IdlePages DEF Unmap, spaceVars
  <1>3. QED
    BY <1>1, <1>2

LEMMA MemoryStepPages ==
  ASSUME ~AnyBuffer, IInv, NEW p \in Procs, running = p, MemoryStep(p),
         NEW s \in Spaces, s = page_pdpt
  PROVE  OwnPages(p, s)
  <1> USE DEF NoChange, procVars, cpuVars, spaceVars, Runs, Goto
  <1> DEFINE Same == UNCHANGED <<state, cr3, running, page_pdpt>>
             Moved == /\ \A q \in Procs \ {p} : at'[q] = at[q]
                      /\ at[p].pc \in HeapPlaces /\ at'[p].pc \in HeapPlaces
             Effect == PagesKept({s}) /\ PageEffect(s)
  <1>0. /\ at \in [Procs -> [pc : Places, e : Nat, lim : Nat, base : Nat, child : 0 .. NProcs]]
        /\ Pages \subseteq Entries /\ frame[s] \in [Entries -> MaybeFrame]
    BY EntryNumbers DEF IInv, ControlTypeOK, FrameInv, EntryTypeOK
  <1>1. ASSUME NEW e \in Pages, NEW x \in Values, Store(p, e, x) \/ FillBuffer(p, e, x)
        PROVE  Effect /\ Same /\ Moved
    <2>1. /\ frame[s][e] # 0 /\ rw[s][e] /\ frame' = frame
          /\ mem' = [mem EXCEPT ![frame[s][e]] = x]
      BY <1>1 DEF Store, FillBuffer
    <2>2. OnlyPage(s, e) /\ PageOf(s, e)' = x
      BY <1>0, <2>1, WritePages
    <2>3. PageOf(s, e) # NoPage
      BY <1>0, <2>1, PageValue
    <2>4. Effect
      BY <2>1, <2>2, <2>3 DEF PageEffect, PagesKept
    <2>5. QED
      BY <1>0, <1>1, <2>4 DEF Store, FillBuffer, HeapPlaces
  <1>2. ASSUME NEW e \in Pages, CowLift(p, e)
        PROVE  Effect /\ Same /\ Moved
    BY <1>0, <1>2, IdlePages DEF CowLift, HeapPlaces
  <1>3. ASSUME NEW e \in Pages, CowCopy(p, e)
        PROVE  Effect /\ Same /\ Moved
    <2>1. AllPages /\ PagesKept({s})
      BY <1>3, CopyPages
    <2>2. QED
      BY <1>0, <1>3, <2>1 DEF CowCopy, HeapPlaces, PageEffect
  <1>4. ASSUME SysAlloc(p) PROVE Effect /\ Same /\ Moved
    BY <1>0, <1>4, MapNextPages DEF SysAlloc, HeapPlaces
  <1>5. ASSUME NEW e, SysBrk(p, e) PROVE Effect /\ Same /\ Moved
    BY <1>0, <1>5, IdlePages DEF SysBrk, HeapPlaces, At, User
  <1>6. ASSUME BrkGrow(p) PROVE Effect /\ Same /\ Moved
    <2>1. Moved /\ (MapNext \/ (Same /\ UNCHANGED <<frame, mem>>))
      BY <1>0, <1>6 DEF BrkGrow, HeapPlaces, User
    <2>2. QED
      BY <2>1, IdlePages, MapNextPages
  <1>7. ASSUME BrkShrink(p) PROVE Effect /\ Same /\ Moved
    BY <1>0, <1>7, UnmapPages DEF BrkShrink, HeapPlaces
  <1>8. ASSUME BrkDone(p) PROVE Effect /\ Same /\ Moved
    BY <1>0, <1>8, IdlePages DEF BrkDone, HeapPlaces, User
  <1>9. ASSUME NEW n, SysMmap(p, n) PROVE Effect /\ Same /\ Moved
    BY <1>0, <1>9, IdlePages DEF SysMmap, HeapPlaces, At, User
  <1>10. ASSUME MmapPage(p) PROVE Effect /\ Same /\ Moved
    BY <1>0, <1>10, IdlePages, MapNextPages DEF MmapPage, HeapPlaces
  <1>11. ASSUME MmapDone(p) PROVE Effect /\ Same /\ Moved
    BY <1>0, <1>11, IdlePages DEF MmapDone, HeapPlaces, User
  <1>12. ASSUME MmapUnwind(p) PROVE Effect /\ Same /\ Moved
    <2>1. Same /\ Moved
      BY <1>0, <1>12 DEF MmapUnwind, HeapPlaces, User
    <2>2. mem' = mem /\ (Unmap(at[p].base + at[p].e) \/ frame' = frame)
      BY <1>12 DEF MmapUnwind
    <2>3. QED
      BY <2>1, <2>2, IdlePages, UnmapPages
  <1>13. ASSUME NEW e, NEW n, SysMunmap(p, e, n) PROVE Effect /\ Same /\ Moved
    BY <1>0, <1>13, IdlePages DEF SysMunmap, HeapPlaces, At, User
  <1>14. ASSUME MunmapPage(p) PROVE Effect /\ Same /\ Moved
    <2>1. Same /\ Moved
      BY <1>0, <1>14 DEF MunmapPage, HeapPlaces, User
    <2>2. mem' = mem /\ (Unmap(at[p].e) \/ frame' = frame)
      BY <1>14 DEF MunmapPage
    <2>3. QED
      BY <2>1, <2>2, IdlePages, UnmapPages
  <1>15. Effect /\ Same /\ Moved
    BY <1>1, <1>2, <1>3, <1>4, <1>5, <1>6, <1>7, <1>8, <1>9, <1>10, <1>11, <1>12, <1>13, <1>14
       DEF MemoryStep
  <1>16. QED
    BY <1>15 DEF OwnPages
-----------------------------------------------------------------------------
(* The memories of PrivateMemory, one step of the kernel later.              *)

PrivateStep == [Private!Next]_<<View, running>>

LEMMA ViewPages ==
  /\ View = [q \in Procs |-> [e \in Pages |-> View[q][e]]]
  /\ View' = [q \in Procs |-> [e \in Pages |-> View'[q][e]]]
  /\ \A q \in Procs : View[q] = [e \in Pages |-> View[q][e]] /\ View'[q] = [e \in Pages |-> View'[q][e]]
  BY DEF View, PageOf, Seen, Mine, Staged

LEMMA BlankView ==
  ASSUME NEW q \in Procs
  PROVE  /\ Blank(q) => View[q] = Private!Empty
         /\ Blank(q)' => View'[q] = Private!Empty
  BY DEF View, PageOf, Seen, Mine, Staged, Blank, Private!Empty

LEMMA SeenView ==
  ASSUME NEW q \in Procs, NEW s
  PROVE  /\ ~Blank(q) /\ s = Seen(q) => \A e \in Pages : View[q][e] = PageOf(s, e)
         /\ ~Blank(q)' /\ s = Seen(q)' => \A e \in Pages : View'[q][e] = PageOf(s, e)'
  BY DEF View, PageOf, Seen, Mine, Staged, Blank

LEMMA SeenSpace ==
  ASSUME IInv, NEW q \in Procs
  PROVE  Seen(q) \in Spaces
  BY SpaceNames DEF IInv, Seen

(* One memory changes. *)
LEMMA BecomesView ==
  ASSUME NEW p \in Procs, NEW m, View'[p] = m, \A q \in Procs \ {p} : View'[q] = View[q]
  PROVE  View' = [View EXCEPT ![p] = m]
  <1> DEFINE W == View'
             V == View
  <1>1. V = [q \in Procs |-> V[q]] /\ W = [q \in Procs |-> W[q]]
    BY ViewPages
  <1>2. W[p] = m /\ \A q \in Procs \ {p} : W[q] = V[q]
    OBVIOUS
  <1> HIDE DEF W, V
  <1>3. W = [V EXCEPT ![p] = m]
    BY <1>1, <1>2
  <1>4. QED
    BY <1>3 DEF W, V

LEMMA SameView ==
  ASSUME \A q \in Procs : View'[q] = View[q]
  PROVE  View' = View
  BY ViewPages, Zenon

(* What another process sees stays, and so does, in most steps, what the     *)
(* running one sees: PrivateMemory stutters.                                 *)
SeesTheSame(p) ==
  /\ state'[p] # "unused" /\ at'[p].pc # "embryo"
  /\ \E s \in Spaces : /\ s = Seen(p) /\ s = Seen(p)'
                       /\ \A d \in Pages : PageOf(s, d)' = PageOf(s, d)

OutsideKept(p) == \A t \in Spaces \ Workspace(p), d \in Pages : PageOf(t, d)' = PageOf(t, d)

LEMMA OthersSee ==
  ASSUME IInv, NEW p \in Procs, running = p, NEW q \in Procs, q # p, OutsideKept(p),
         at'[q] = at[q], cr3'[q] = cr3[q], Blank(q)' <=> Blank(q)
  PROVE  View'[q] = View[q]
  <1>1. CASE Blank(q)
    BY <1>1, BlankView
  <1>2. CASE ~Blank(q)
    <2>1. PICK s \in Spaces : s = Seen(q)
      BY SeenSpace
    <2>2. s = Seen(q)' /\ s \notin Workspace(p)
      BY <1>2, <2>1, Apart DEF Seen, Mine, Staged
    <2>3. \A e \in Pages : View'[q][e] = View[q][e]
      <3>1. ~Blank(q)'
        BY <1>2
      <3>2. \A e \in Pages : View[q][e] = PageOf(s, e) /\ View'[q][e] = PageOf(s, e)'
        BY <1>2, <2>1, <2>2, <3>1, SeenView
      <3>3. \A e \in Pages : PageOf(s, e)' = PageOf(s, e)
        BY <2>2 DEF OutsideKept
      <3>4. QED
        BY <3>2, <3>3
    <2>4. QED
      BY <2>3, ViewPages, Zenon
  <1>3. QED
    BY <1>1, <1>2

LEMMA RunnerSees ==
  ASSUME IInv, NEW p \in Procs, running = p, SeesTheSame(p)
  PROVE  View'[p] = View[p]
  <1>1. ~Blank(p) /\ ~Blank(p)'
    BY DEF IInv, CallsInProgress, Blank, SeesTheSame
  <1>2. \A e \in Pages : View'[p][e] = View[p][e]
    BY <1>1, SeenView DEF SeesTheSame
  <1>3. QED
    BY <1>2, ViewPages, Zenon

LEMMA Stutters ==
  ASSUME IInv, NEW p \in Procs, running = p, running' = running, OutsideKept(p), SeesTheSame(p),
         \A q \in Procs \ {p} : at'[q] = at[q] /\ cr3'[q] = cr3[q] /\ (Blank(q)' <=> Blank(q))
  PROVE  View' = View /\ PrivateStep
  <1>1. ASSUME NEW q \in Procs PROVE View'[q] = View[q]
    BY <1>1, OthersSee, RunnerSees
  <1>2. View' = View
    BY <1>1, SameView
  <1>3. QED
    BY <1>2 DEF PrivateStep

(* A step that changes one page of the running process is one of its own.    *)
LEMMA OwnStep ==
  ASSUME IInv, DirInv, NEW p \in Procs, running = p, NEW s \in Spaces, s = page_pdpt, OwnPages(p, s)
  PROVE  PrivateStep
  <1>1. s = Mine(p) /\ s = Seen(p) /\ s = Seen(p)' /\ s \in Workspace(p)
    BY DEF OwnPages, HeapPlaces, DirInv, InCR3, InExec, Seen, Mine, Workspace
  <1>2. /\ ~Blank(p) /\ ~Blank(p)' /\ at'[p].pc # "embryo" /\ state'[p] # "unused"
        /\ running' = p
        /\ \A q \in Procs \ {p} : at'[q] = at[q] /\ cr3'[q] = cr3[q] /\ (Blank(q)' <=> Blank(q))
    BY DEF OwnPages, HeapPlaces, Blank, IInv, CallsInProgress
  <1>3. CASE AllPages
    <2>1. OutsideKept(p) /\ SeesTheSame(p)
      BY <1>1, <1>2, <1>3 DEF AllPages, OutsideKept, SeesTheSame
    <2>2. QED
      BY <1>2, <2>1, Stutters
  <1>4. ASSUME NEW e \in Pages, OnlyPage(s, e),
               \/ PageOf(s, e)' = NoPage
               \/ /\ PageOf(s, e)' \in Values
                  /\ e \notin CodeLo .. HeapLo - 1 \/ PageOf(s, e) # NoPage
        PROVE  PrivateStep
    <2> DEFINE x == PageOf(s, e)'
    <2>1. OutsideKept(p)
      BY <1>1, <1>4 DEF OnlyPage, OutsideKept
    <2>2. \A q \in Procs \ {p} : View'[q] = View[q]
      BY <1>2, <2>1, OthersSee
    <2>3. \A d \in Pages : View[p][d] = PageOf(s, d) /\ View'[p][d] = PageOf(s, d)'
      BY <1>1, <1>2, SeenView
    <2>4. View'[p] = [View[p] EXCEPT ![e] = x]
      <3>1. \A d \in Pages : View'[p][d] = IF d = e THEN x ELSE View[p][d]
        BY <1>4, <2>3 DEF OnlyPage
      <3>2. View[p] = [d \in Pages |-> View[p][d]] /\ View'[p] = [d \in Pages |-> View'[p][d]]
        BY ViewPages
      <3> DEFINE m == View[p]
                 n == View'[p]
      <3> HIDE DEF m, n, x
      <3>3. m = [d \in Pages |-> m[d]] /\ n = [d \in Pages |-> n[d]]
            /\ \A d \in Pages : n[d] = IF d = e THEN x ELSE m[d]
        BY <3>1, <3>2 DEF m, n
      <3>4. n = [m EXCEPT ![e] = x]
        BY <3>3
      <3>5. QED
        BY <3>4 DEF m, n
    <2>5. Private!Becomes(p, [View[p] EXCEPT ![e] = x])
      BY <1>2, <2>2, <2>4, BecomesView DEF Private!Becomes
    <2>6. CASE x = NoPage
      <3>1. Private!Unmap(p, e)
        BY <2>5, <2>6 DEF Private!Unmap
      <3>2. QED
        BY <3>1 DEF PrivateStep, Private!Next, Private!Step
    <2>7. CASE x \in Values /\ e \notin CodeLo .. HeapLo - 1
      <3>1. Private!Map(p, e, x)
        BY <2>5, <2>7 DEF Private!Map
      <3>2. QED
        BY <2>7, <3>1 DEF PrivateStep, Private!Next, Private!Step
    <2>8. CASE x \in Values /\ PageOf(s, e) # NoPage
      <3>1. Private!Write(p, e, x)
        BY <2>3, <2>5, <2>8 DEF Private!Write
      <3>2. QED
        BY <2>8, <3>1 DEF PrivateStep, Private!Next, Private!Step
    <2>9. QED
      BY <1>4, <2>6, <2>7, <2>8
  <1>5. QED
    BY <1>3, <1>4 DEF OwnPages, PageEffect
-----------------------------------------------------------------------------
(* fork and exec build spaces that nobody sees yet.                          *)

(* Tables, directory and kernel stack lie outside the pages.                 *)
LEMMA PageNumbers ==
  /\ Dir \notin Pages /\ KStack \notin Pages /\ \A e \in Pages : TableOf[e] \in Entries \ Pages
  /\ Pages \subseteq Entries
  /\ \A e \in Pages : e \in Nat /\ CodeLo <= e /\ e < HeapHi /\ e < Dir /\ e < KStack
  /\ HeapLo \in Nat /\ CodeLo \in Nat /\ HeapHi \in Nat /\ Dir \in Nat /\ KStack \in Nat
  /\ HeapHi = Dir /\ KStack = Dir + 1 /\ HeapLo <= HeapHi /\ CodeLo <= HeapHi
  BY EntryNumbers, CowAssumption DEF Pages, Dir, KStack, Tables, CodeLo, HeapLo, HeapHi, Entries

(* The others keep their places and their slots. *)
OthersRest(p) ==
  \A q \in Procs \ {p} : at'[q] = at[q] /\ cr3'[q] = cr3[q] /\ (Blank(q)' <=> Blank(q))

(* A step on a space of its own that the running process does not see. *)
LEMMA Builds ==
  ASSUME IInv, NEW p \in Procs, running = p, running' = running, OthersRest(p),
         NEW c \in Workspace(p), c # Seen(p), Seen(p)' = Seen(p),
         \A t \in Spaces \ {c}, d \in Pages : PageOf(t, d)' = PageOf(t, d),
         state'[p] # "unused", at'[p].pc # "embryo"
  PROVE  View' = View /\ PrivateStep
  <1>1. OutsideKept(p)
    BY DEF OutsideKept
  <1>2. PICK s \in Spaces : s = Seen(p)
    BY SeenSpace
  <1>3. SeesTheSame(p)
    BY <1>2 DEF SeesTheSame
  <1>4. QED
    BY <1>1, <1>3, Stutters DEF OthersRest

(* A step of fork on the space of the child. *)
LEMMA BuildsChild ==
  ASSUME IInv, ShapeInv, NEW p \in Procs, running = p, running' = running, OthersRest(p), Forking(p),
         PagesKept({Child(p)}), mem' = mem, cr3' = cr3, state'[p] # "unused",
         at'[p].pc \in {"user", "fork_dir", "fork_copy", "fork_undo"},
         \A q \in Procs \ {p} : state'[q] = "unused" => state[q] = "unused" \/ Vacant(q)',
         ChildShape(p)'
  PROVE  ShapeInv' /\ PrivateStep
  <1>1. Child(p) \in Workspace(p) /\ Child(p) # Staged(p) /\ Child(p) # Mine(p)
    BY ChildSpace DEF Workspace
  <1>2. Seen(p) = Mine(p) /\ Seen(p)' = Seen(p) /\ Staged(p)' = Staged(p) /\ Staged(p) \in Spaces
    BY SpaceNames DEF Seen, Forking, Mine, Staged, IInv
  <1>3. PICK c \in Workspace(p) : c = Child(p)
    BY <1>1
  <1>4. \A t \in Spaces \ {c}, d \in Pages : PageOf(t, d)' = PageOf(t, d)
    BY <1>3, SameMemory
  <1>5. PrivateStep
    BY <1>1, <1>2, <1>3, <1>4, Builds
  <1>6. PagesKept(Workspace(p)) /\ \A e \in Pages : frame'[Staged(p)][e] = frame[Staged(p)][e]
    BY <1>1, <1>2 DEF PagesKept
  <1>7. StagedShape(p)'
    <2>1. Absent(Staged(p))
      BY DEF ShapeInv, ShapeOf, StagedShape, Forking
    <2>2. QED
      BY <1>2, <1>6, <2>1 DEF StagedShape, Absent
  <1>8. ShapeInv'
    BY <1>6, <1>7, RunnerShapes DEF OthersRest
  <1>9. QED
    BY <1>5, <1>8

(* The slot of a child that is given up has two empty spaces. *)
LEMMA GivenUp ==
  ASSUME IInv, ShapeInv, NEW p \in Procs, running = p, Forking(p), Absent(Child(p)), frame' = frame,
         cr3' = cr3, at' = [at EXCEPT ![p] = User], state' = [state EXCEPT ![at[p].child] = "unused"]
  PROVE  /\ \A q \in Procs \ {p} : state'[q] = "unused" => state[q] = "unused" \/ Vacant(q)'
         /\ OthersRest(p) /\ state'[p] # "unused" /\ at'[p].pc = "user" /\ PagesKept({Child(p)})
         /\ ChildShape(p)'
  <1>1. PICK q \in Procs : q = at[p].child
    BY ChildSpace
  <1>2. q # p /\ at[q].pc = "embryo" /\ Mine(q) = Child(p) /\ state[p] # "unused"
    BY <1>1, ChildSpace DEF IInv, CallsInProgress
  <1>3. Absent(Staged(q)) /\ Absent(Mine(q))
    BY <1>2 DEF ShapeInv, ShapeOf, StagedShape
  <1>4. Vacant(q)'
    BY <1>3 DEF Vacant, Absent, Mine, Staged
  <1>5. /\ state'[q] = "unused" /\ \A r \in Procs \ {q} : state'[r] = state[r]
        /\ at'[p].pc = "user" /\ \A r \in Procs \ {p} : at'[r] = at[r]
    BY <1>1 DEF IInv, ControlTypeOK, User
  <1>6. OthersRest(p)
    BY <1>2, <1>5 DEF OthersRest, Blank
  <1>7. PagesKept({Child(p)}) /\ ChildShape(p)'
    BY <1>5 DEF PagesKept, ChildShape
  <1>8. QED
    BY <1>2, <1>4, <1>5, <1>6, <1>7

(* The new slot is empty when proc_alloc hands it out. *)
LEMMA SysForkPrivate ==
  ASSUME IInv, ShapeInv, NEW p \in Procs, running = p, SysFork(p)
  PROVE  ShapeInv' /\ PrivateStep
  <1> USE DEF Runs
  <1>1. PICK q \in Unused : /\ state' = [state EXCEPT ![q] = "embryo"]
                            /\ cr3' = [cr3 EXCEPT ![q] = 0]
                            /\ at' = [at EXCEPT ![q] = At("embryo"), ![p] = [At("fork_stack") EXCEPT !.child = q]]
                            /\ UNCHANGED <<spaceVars, mem, running>> /\ at[p].pc = "user"
    BY DEF SysFork, cpuVars
  <1>2. q \in Procs /\ q # p /\ state[q] = "unused" /\ cr3[q] = 0 /\ state[p] # "unused"
    BY <1>1 DEF Unused, IInv, CallsInProgress
  <1>3. /\ at'[q].pc = "embryo" /\ at'[p].pc = "fork_stack" /\ at'[p].child = q
        /\ state'[q] = "embryo" /\ state'[p] # "unused" /\ cr3' = cr3
        /\ \A r \in Procs \ {p, q} : at'[r] = at[r] /\ state'[r] = state[r]
    <2>1. /\ at \in [Procs -> [pc : Places, e : Nat, lim : Nat, base : Nat, child : 0 .. NProcs]]
          /\ state \in [Procs -> {"unused", "embryo", "ready", "zombie"}] /\ cr3 \in [Procs -> Gens]
      BY DEF IInv, ControlTypeOK
    <2>2. cr3' = cr3
      BY <1>1, <1>2, <2>1
    <2>3. QED
      BY <1>1, <1>2, <2>1, <2>2 DEF At, User
  <1>4. frame' = frame /\ mem' = mem
    BY <1>1 DEF spaceVars
  <1>5. OutsideKept(p) /\ PagesKept(Workspace(p)) /\ AllPages
    BY <1>4, PageStays DEF OutsideKept, PagesKept, AllPages
  <1>6. SeesTheSame(p)
    <2>1. PICK s \in Spaces : s = Seen(p)
      BY SeenSpace
    <2>2. s = Seen(p)'
      BY <1>1, <1>3, <2>1 DEF Seen, Mine
    <2>3. QED
      BY <1>3, <1>5, <2>1, <2>2 DEF SeesTheSame, AllPages
  <1>7. ASSUME NEW r \in Procs PROVE View'[r] = View[r]
    <2>1. CASE r = q
      <3>1. Blank(q) /\ Blank(q)'
        BY <1>2, <1>3 DEF Blank
      <3>2. QED
        BY <2>1, <3>1, BlankView
    <2>2. CASE r = p
      BY <1>6, <2>2, RunnerSees
    <2>3. CASE r # p /\ r # q
      <3>1. (Blank(r)' <=> Blank(r)) /\ at'[r] = at[r] /\ cr3'[r] = cr3[r]
        BY <1>3, <2>3 DEF Blank
      <3>2. QED
        BY <1>5, <2>3, <3>1, OthersSee
    <2>4. QED
      BY <2>1, <2>2, <2>3
  <1>8. PrivateStep
    BY <1>1, <1>7, SameView DEF PrivateStep
  <1>9. Vacant(q) /\ Mine(q) = <<q, 0>> /\ Absent(Staged(p))
    BY <1>1, <1>2 DEF ShapeInv, ShapeOf, StagedShape, Mine
  <1>10. ShapeOf(p)'
    <2>1. Staged(p)' = Staged(p) /\ Child(p)' = <<q, 0>>
      BY <1>3 DEF Staged, Child
    <2>2. QED
      BY <1>3, <1>4, <1>9, <2>1 DEF ShapeOf, StagedShape, ChildShape, Absent, Vacant
  <1>11. ShapeOf(q)'
    <2>1. Staged(q)' = Staged(q)
      BY <1>3 DEF Staged
    <2>2. QED
      BY <1>3, <1>4, <1>9, <2>1 DEF ShapeOf, StagedShape, ChildShape, Absent, Vacant
  <1>12. ASSUME NEW r \in Procs, r # p, r # q PROVE ShapeOf(r)'
    BY <1>3, <1>5, <1>12, OthersShape DEF ShapeInv
  <1>13. QED
    BY <1>8, <1>10, <1>11, <1>12 DEF ShapeInv
(* Filling the child, undoing it, and the last step, in which it appears. *)
LEMMA ForkStepPrivate ==
  ASSUME IInv, DirInv, ShapeInv, NEW p \in Procs, running = p, ForkStep(p)
  PROVE  ShapeInv' /\ PrivateStep
  <1> USE DEF NoChange, procVars, cpuVars, Runs, Goto
  <1>0. /\ at \in [Procs -> [pc : Places, e : Nat, lim : Nat, base : Nat, child : 0 .. NProcs]]
        /\ state \in [Procs -> {"unused", "embryo", "ready", "zombie"}] /\ state[p] # "unused"
        /\ EntryTypeOK
        /\ Mine(p) \in Spaces
    BY SpaceNames DEF IInv, ControlTypeOK, FrameInv, CallsInProgress
  <1>1. Forking(p) => Child(p) \in Spaces /\ Child(p) # Mine(p)
    BY ChildSpace
  (* A step that leaves the slots alone and keeps the child.                 *)
  <1>2. ASSUME Forking(p), UNCHANGED <<mem, state, cr3, running>>, \A q \in Procs \ {p} : at'[q] = at[q],
               at'[p].pc \in {"fork_dir", "fork_copy", "fork_undo"},
               PagesKept({Child(p)}), ChildShape(p)'
        PROVE  ShapeInv' /\ PrivateStep
    <2>1. OthersRest(p)
      BY <1>2 DEF OthersRest, Blank
    <2>2. QED
      BY <1>0, <1>2, <2>1, BuildsChild
  <1>3. CASE SysFork(p)
    BY <1>3, SysForkPrivate
  <1>4. ASSUME Forking(p), Absent(Child(p)), UNCHANGED <<frame, mem, cr3, running>>, at' = [at EXCEPT ![p] = User],
               state' = [state EXCEPT ![at[p].child] = "unused"]
        PROVE  ShapeInv' /\ PrivateStep
    BY <1>4, GivenUp, BuildsChild
  <1>5. CASE ForkStack(p)
    <2>1. Forking(p) /\ Absent(Child(p)) /\ at[p].pc = "fork_stack"
      BY <1>5 DEF ForkStack, Forking, ShapeInv, ShapeOf, ChildShape
    <2>2. CASE Fill(Child(p), KStack) /\ Goto(p, [at[p] EXCEPT !.pc = "fork_dir"]) /\ NoChange
      <3>1. PagesKept({}) /\ PagesKept({Child(p)})
        BY <1>1, <2>1, <2>2, FillPages, EntryNumbers, PageNumbers DEF PagesKept
      <3>2. at'[p].pc = "fork_dir" /\ at'[p].child = at[p].child /\ \A q \in Procs \ {p} : at'[q] = at[q]
        BY <1>0, <2>2
      <3>3. ChildShape(p)'
        <4>1. \A e \in Pages : frame'[Child(p)][e] = 0
          BY <1>1, <2>1, <3>1 DEF PagesKept, Absent
        <4>2. Child(p)' = Child(p)
          BY <3>2 DEF Child
        <4>3. QED
          BY <3>2, <4>1, <4>2 DEF ChildShape, Absent
      <3>4. QED
        BY <1>2, <2>1, <2>2, <3>1, <3>2, <3>3
    <2>3. CASE /\ state' = [state EXCEPT ![at[p].child] = "unused"]
               /\ Goto(p, User)
               /\ UNCHANGED <<pmmVars, spaceVars, mem, parent, cr3, cpuVars, user_heap_next>>
      BY <1>4, <2>1, <2>3 DEF spaceVars
    <2>4. QED
      BY <1>5, <2>2, <2>3 DEF ForkStack
  <1>6. CASE ForkDir(p)
    <2>1. /\ Forking(p) /\ Absent(Child(p)) /\ at[p].pc = "fork_dir"
          /\ UNCHANGED <<mem, state, cr3, running>>
      BY <1>6 DEF ForkDir, Forking, ShapeInv, ShapeOf, ChildShape
    <2>2. CASE Fill(Child(p), Dir) /\ Goto(p, [at[p] EXCEPT !.pc = "fork_copy", !.e = CodeLo])
      <3>1. PagesKept({}) /\ PagesKept({Child(p)})
        BY <1>1, <2>1, <2>2, FillPages, EntryNumbers, PageNumbers DEF PagesKept
      <3>2. /\ at'[p].pc = "fork_copy" /\ at'[p].child = at[p].child /\ at'[p].e = CodeLo
            /\ \A q \in Procs \ {p} : at'[q] = at[q]
        BY <1>0, <2>2
      <3>3. ChildShape(p)'
        <4>1. \A e \in Pages : frame'[Child(p)][e] = 0 /\ ~(e < CodeLo)
          BY <1>1, <2>1, <3>1, PageNumbers DEF PagesKept, Absent
        <4>2. Child(p)' = Child(p)
          BY <3>2 DEF Child
        <4>3. QED
          BY <3>2, <4>1, <4>2 DEF ChildShape
      <3>4. QED
        BY <1>2, <2>1, <3>1, <3>2, <3>3
    <2>3. CASE Goto(p, [at[p] EXCEPT !.pc = "fork_undo", !.e = KStack]) /\ UNCHANGED spaceVars
      <3>1. /\ at'[p].pc = "fork_undo" /\ at'[p].child = at[p].child /\ frame' = frame
            /\ \A q \in Procs \ {p} : at'[q] = at[q]
        BY <1>0, <2>3 DEF spaceVars
      <3>2. ChildShape(p)' /\ PagesKept({Child(p)})
        BY <2>1, <3>1 DEF ChildShape, Absent, PagesKept, Child
      <3>3. QED
        BY <1>2, <2>1, <3>1, <3>2
    <2>4. QED
      BY <1>6, <2>2, <2>3 DEF ForkDir
  <1>7. CASE ForkCopy(p)
    <2>1. /\ Forking(p) /\ at[p].pc = "fork_copy" /\ UNCHANGED <<mem, state, cr3, running>>
          /\ at[p].e \in CodeLo .. HeapHi - 1
      BY <1>0, <1>7, EntryNumbers DEF ForkCopy, Forking, IInv, CallsInProgress
    <2>2. PICK e \in Pages : e = at[p].e
      BY <2>1 DEF Pages
    <2>3. PICK c \in Spaces : c = Child(p)
      BY <1>1, <2>1
    <2>4. PICK m \in Spaces : m = Mine(p)
      BY <1>0
    <2>5. /\ c # m /\ e \in Entries /\ TableOf[e] \in Entries \ Pages /\ e \in Int /\ Pages \subseteq Entries
          /\ \A d \in Pages : d \in Nat
          /\ \A d \in Pages : frame[c][d] = IF d < e THEN frame[m][d] ELSE 0
      BY <1>1, <2>1, <2>2, <2>3, <2>4, PageNumbers DEF ShapeInv, ShapeOf, ChildShape
    <2>6. CASE Fill(c, TableOf[e]) /\ UNCHANGED at
      <3>1. PagesKept({}) /\ PagesKept({Child(p)})
        BY <2>1, <2>5, <2>6, FillPages DEF PagesKept
      <3>2. ChildShape(p)'
        <4>1. Child(p)' = Child(p) /\ Mine(p)' = Mine(p)
          BY <2>1, <2>6 DEF Child, Mine
        <4>2. \A d \in Pages : frame'[c][d] = frame[c][d] /\ frame'[m][d] = frame[m][d]
          BY <3>1 DEF PagesKept
        <4>3. QED
          BY <2>1, <2>2, <2>3, <2>4, <2>5, <2>6, <4>1, <4>2 DEF ChildShape
      <3>3. QED
        BY <1>2, <2>1, <2>6, <3>1, <3>2
    <2>7. CASE Goto(p, [at[p] EXCEPT !.pc = "fork_undo", !.e = 0]) /\ UNCHANGED spaceVars
      <3>1. /\ at'[p].pc = "fork_undo" /\ at'[p].e = 0 /\ frame' = frame
            /\ \A q \in Procs \ {p} : at'[q] = at[q]
        BY <1>0, <2>7 DEF spaceVars
      <3>2. \A d \in Pages : ~(d < 0)
        BY <2>5
      <3>3. ChildShape(p)' /\ PagesKept({Child(p)})
        BY <3>1, <3>2 DEF ChildShape, PagesKept
      <3>4. QED
        BY <1>2, <2>1, <3>1, <3>3
    <2>8. CASE /\ \/ Share(m, c, e)
                  \/ frame[m][e] = 0 /\ UNCHANGED spaceVars
               /\ Goto(p, [at[p] EXCEPT !.e = e + 1])
      <3>1. \A t \in Spaces, d \in Pages : frame'[t][d] = IF t = c /\ d = e THEN frame[m][e] ELSE frame[t][d]
        <4>1. CASE Share(m, c, e)
          BY <1>0, <2>5, <4>1 DEF Share, EntryTypeOK
        <4>2. CASE frame[m][e] = 0 /\ UNCHANGED spaceVars
          BY <2>5, <4>2 DEF spaceVars
        <4>3. QED
          BY <2>8, <4>1, <4>2
      <3>2. /\ at'[p].pc = "fork_copy" /\ at'[p].child = at[p].child /\ at'[p].e = e + 1
            /\ \A q \in Procs \ {p} : at'[q] = at[q]
        BY <1>0, <2>1, <2>8
      <3>3. PagesKept({Child(p)})
        BY <2>3, <3>1 DEF PagesKept
      <3>4. ChildShape(p)'
        <4>1. Child(p)' = Child(p) /\ Mine(p)' = Mine(p)
          BY <2>1, <3>2 DEF Child, Mine
        <4>2. \A d \in Pages : frame'[c][d] = IF d < e + 1 THEN frame'[m][d] ELSE 0
          <5>1. \A d \in Pages : d < e + 1 <=> d < e \/ d = e
            BY <2>5
          <5>2. \A d \in Pages : frame'[m][d] = frame[m][d]
            BY <2>5, <3>1
          <5>3. QED
            BY <2>5, <3>1, <5>1, <5>2
        <4>3. QED
          BY <2>3, <2>4, <3>2, <4>1, <4>2 DEF ChildShape
      <3>5. QED
        BY <1>2, <2>1, <3>2, <3>3, <3>4
    <2>9. QED
      BY <1>7, <2>2, <2>3, <2>4, <2>6, <2>7, <2>8 DEF ForkCopy
  <1>8. CASE ForkDone(p)
    <2>1. /\ Forking(p) /\ at[p].pc = "fork_copy" /\ at[p].e = HeapHi
          /\ UNCHANGED <<frame, mem, cr3, running>>
          /\ state' = [state EXCEPT ![at[p].child] = "ready"]
          /\ at' = [at EXCEPT ![at[p].child] = User, ![p] = User]
      BY <1>8 DEF ForkDone, Forking, spaceVars
    <2>2. PICK q \in Procs : q = at[p].child
      BY <2>1, ChildSpace
    <2>3. q # p /\ at[q].pc = "embryo" /\ Mine(q) = Child(p)
      BY <2>1, <2>2, ChildSpace DEF IInv, CallsInProgress
    <2>4. /\ at'[p].pc = "user" /\ at'[q].pc = "user" /\ state'[q] = "ready" /\ state'[p] # "unused"
          /\ \A r \in Procs \ {p, q} : at'[r] = at[r] /\ state'[r] = state[r]
      BY <1>0, <2>1, <2>2, <2>3 DEF User
    <2>5. OutsideKept(p) /\ PagesKept(Workspace(p)) /\ AllPages
      BY <2>1, PageStays DEF OutsideKept, PagesKept, AllPages
    <2>6. PICK c \in Spaces : c = Child(p)
      BY <1>1, <2>1
    <2>7. PICK m \in Spaces : m = Mine(p)
      BY <1>0
    <2>8. m = Seen(p) /\ m = Seen(p)' /\ c = Seen(q)'
      BY <2>1, <2>3, <2>4, <2>6, <2>7 DEF Seen, Mine
    <2>9. View'[p] = View[p]
      BY <2>4, <2>5, <2>7, <2>8, RunnerSees DEF SeesTheSame, AllPages
    <2>10. \A r \in Procs \ {q} : View'[r] = View[r]
      <3>1. ASSUME NEW r \in Procs, r # p, r # q PROVE View'[r] = View[r]
        <4>1. (Blank(r)' <=> Blank(r)) /\ at'[r] = at[r] /\ cr3'[r] = cr3[r]
          BY <2>1, <2>4, <3>1 DEF Blank
        <4>2. QED
          BY <2>5, <3>1, <4>1, OthersSee
      <3>2. QED
        BY <2>9, <3>1
    <2>11. View'[q] = View[p]
      <3>1. ~Blank(p) /\ ~Blank(q)'
        BY <1>0, <2>1, <2>4 DEF Blank
      <3>2. \A d \in Pages : View[p][d] = PageOf(m, d) /\ View'[q][d] = PageOf(c, d)'
        BY <2>8, <3>1, SeenView
      <3>3. \A d \in Pages : frame[c][d] = frame[m][d]
        BY <2>1, <2>6, <2>7, PageNumbers DEF ShapeInv, ShapeOf, ChildShape
      <3>4. \A d \in Pages : PageOf(c, d)' = PageOf(m, d)
        BY <2>1, <3>3 DEF PageOf
      <3>5. \A d \in Pages : View'[q][d] = View[p][d]
        BY <3>2, <3>4
      <3>6. QED
        BY <3>5, ViewPages, Zenon
    <2>12. Private!Fork(p, q)
      <3>1. View[q] = Private!Empty
        BY <2>3, BlankView DEF Blank
      <3>2. View' = [View EXCEPT ![q] = View[p]]
        BY <2>10, <2>11, BecomesView
      <3>3. QED
        BY <2>1, <3>1, <3>2 DEF Private!Fork, Private!Becomes
    <2>13. PrivateStep
      BY <2>12 DEF PrivateStep, Private!Next, Private!Step
    <2>14. ShapeOf(p)'
      <3>1. Staged(p)' = Staged(p) /\ Absent(Staged(p))
        BY <2>1 DEF Staged, ShapeInv, ShapeOf, StagedShape
      <3>2. QED
        BY <2>1, <2>4, <3>1 DEF ShapeOf, StagedShape, ChildShape, Absent
    <2>15. ShapeOf(q)'
      <3>1. Staged(q)' = Staged(q) /\ Absent(Staged(q))
        BY <2>1, <2>3 DEF Staged, ShapeInv, ShapeOf, StagedShape
      <3>2. QED
        BY <2>1, <2>4, <3>1 DEF ShapeOf, StagedShape, ChildShape, Absent
    <2>16. ASSUME NEW r \in Procs, r # p, r # q PROVE ShapeOf(r)'
      BY <2>1, <2>4, <2>5, <2>16, OthersShape DEF ShapeInv
    <2>17. QED
      BY <2>13, <2>14, <2>15, <2>16 DEF ShapeInv
  <1>9. CASE ForkUndo(p)
    <2>1. /\ Forking(p) /\ at[p].pc = "fork_undo" /\ UNCHANGED <<mem, cr3, running>> /\ at[p].e \in Nat
      BY <1>0, <1>9 DEF ForkUndo, Forking
    <2>2. PICK c \in Spaces : c = Child(p)
      BY <1>1, <2>1
    <2>3. \A d \in Pages : d < at[p].e => frame[c][d] = 0
      BY <2>1, <2>2 DEF ShapeInv, ShapeOf, ChildShape
    <2>4. CASE at[p].e <= KStack
      <3>1. PICK e \in Entries : e = at[p].e
        BY <2>1, <2>4, PageNumbers DEF Entries
      <3>2. /\ Drop(c, e) /\ state' = state /\ at' = [at EXCEPT ![p] = [at[p] EXCEPT !.e = e + 1]]
        BY <1>9, <2>2, <2>4, <3>1 DEF ForkUndo
      <3>3. /\ PagesKept({Child(p)})
            /\ \A t \in Spaces, d \in Entries : frame'[t][d] = IF t = c /\ d = e THEN 0 ELSE frame[t][d]
        BY <2>1, <2>2, <3>2, DropPages
      <3>4. /\ at'[p].pc = "fork_undo" /\ at'[p].child = at[p].child /\ at'[p].e = e + 1
            /\ \A q \in Procs \ {p} : at'[q] = at[q]
        BY <1>0, <2>1, <3>2
      <3>5. ChildShape(p)'
        <4>1. Child(p)' = c
          BY <2>2, <3>4 DEF Child
        <4>2. \A d \in Pages : d < e + 1 <=> d < e \/ d = e
          BY <2>1, <3>1, PageNumbers
        <4>3. \A d \in Pages : d < e + 1 => frame'[c][d] = 0
          BY <2>3, <3>1, <3>3, <4>2, PageNumbers
        <4>4. QED
          BY <3>4, <4>1, <4>3 DEF ChildShape
      <3>6. QED
        BY <1>2, <2>1, <3>2, <3>3, <3>4, <3>5
    <2>5. CASE ~(at[p].e <= KStack)
      <3>1. /\ state' = [state EXCEPT ![at[p].child] = "unused"] /\ at' = [at EXCEPT ![p] = User] /\ frame' = frame
        BY <1>9, <2>5 DEF ForkUndo, spaceVars
      <3>2. Absent(Child(p))
        <4>1. \A d \in Pages : d < at[p].e
          BY <2>1, <2>5, PageNumbers
        <4>2. QED
          BY <2>2, <2>3, <4>1 DEF Absent
      <3>3. QED
        BY <1>4, <2>1, <3>1, <3>2
    <2>6. QED
      BY <2>4, <2>5
  <1>10. QED
    BY <1>3, <1>5, <1>6, <1>7, <1>8, <1>9 DEF ForkStep
(* exec stages a space; the process sees it from the moment it is loaded. *)
LEMMA ExecStepPrivate ==
  ASSUME IInv, DirInv, ShapeInv, NEW p \in Procs, running = p, ExecStep(p)
  PROVE  ShapeInv' /\ PrivateStep
  <1> USE DEF NoChange, procVars, cpuVars, Runs, Goto
  <1>0. /\ at \in [Procs -> [pc : Places, e : Nat, lim : Nat, base : Nat, child : 0 .. NProcs]]
        /\ cr3 \in [Procs -> Gens] /\ state[p] # "unused" /\ at[p].e \in Nat
    BY DEF IInv, ControlTypeOK, CallsInProgress
  <1>1. PICK m \in Spaces : m = Mine(p)
    BY SpaceNames DEF IInv
  <1>2. PICK c \in Spaces : c = Staged(p)
    BY SpaceNames DEF IInv
  <1>3. c # m /\ c \in Workspace(p) /\ m \in Workspace(p) /\ StagedShape(p)
    BY <1>1, <1>2, SpaceNames DEF IInv, Workspace, ShapeInv, ShapeOf
  (* A step outside fork keeps the shape of all but the staged space.        *)
  <1>4. ASSUME PagesKept({c}) \/ PagesKept({m}), UNCHANGED <<state, cr3, running>>,
               \A q \in Procs \ {p} : at'[q] = at[q],
               at'[p].pc \in {"user", "exec_dir", "exec_init", "exec_load", "exec_drop", "exec_undo"},
               StagedShape(p)'
        PROVE  ShapeInv'
    <2>1. PagesKept(Workspace(p)) /\ ChildShape(p)'
      BY <1>3, <1>4 DEF PagesKept, ChildShape
    <2>2. QED
      BY <1>0, <1>4, <2>1, RunnerShapes
  (* Before the old space is dropped only the staged one changes.            *)
  <1>5. ASSUME at[p].pc # "exec_drop", at'[p].pc \in {"user", "exec_dir", "exec_init", "exec_load", "exec_undo"},
               UNCHANGED <<state, cr3, running>>, \A q \in Procs \ {p} : at'[q] = at[q],
               \A t \in Spaces \ {c}, d \in Pages : PageOf(t, d)' = PageOf(t, d)
        PROVE  PrivateStep
    <2>1. Seen(p) = m /\ Seen(p)' = m
      BY <1>1, <1>5 DEF Seen, Mine
    <2>2. OthersRest(p)
      BY <1>5 DEF OthersRest, Blank
    <2>3. QED
      BY <1>0, <1>3, <1>5, <2>1, <2>2, Builds
  (* What the shape of the staged space is after such a step.                *)
  <1>6. ASSUME cr3' = cr3 PROVE Staged(p)' = c /\ Mine(p)' = m
    BY <1>1, <1>2, <1>6 DEF Staged, Mine
  <1>7. ASSUME UNCHANGED <<frame, mem>>
        PROVE  /\ PagesKept({c}) /\ PagesKept({m})
               /\ \A t \in Spaces \ {c}, d \in Pages : PageOf(t, d)' = PageOf(t, d)
    BY <1>7, IdlePages DEF AllPages
  <1>8. CASE SysExec(p)
    <2>1. /\ at[p].pc = "user" /\ at'[p].pc = "exec_dir" /\ \A q \in Procs \ {p} : at'[q] = at[q]
          /\ UNCHANGED <<frame, mem, state, cr3, running>>
      BY <1>0, <1>8 DEF SysExec, At, User, spaceVars
    <2>2. StagedShape(p)'
      BY <1>2, <1>3, <1>6, <2>1 DEF StagedShape, Absent
    <2>3. QED
      BY <1>4, <1>5, <1>7, <2>1, <2>2
  <1>9. CASE ExecDir(p)
    <2>1. at[p].pc = "exec_dir" /\ UNCHANGED <<mem, state, cr3, running>>
      BY <1>9 DEF ExecDir
    <2>2. \A d \in Pages : frame[c][d] = 0
      BY <1>2, <1>3, <2>1 DEF StagedShape, Absent
    <2>3. CASE Fill(c, Dir) /\ Goto(p, At("exec_init"))
      <3>1. PagesKept({}) /\ PagesKept({c})
        BY <2>1, <2>3, FillPages, EntryNumbers, PageNumbers
      <3>2. at'[p].pc = "exec_init" /\ at'[p].e = 0 /\ \A q \in Procs \ {p} : at'[q] = at[q]
        BY <1>0, <2>3 DEF At, User
      <3>3. StagedShape(p)'
        <4>1. \A d \in Pages : frame'[c][d] = 0 /\ ~(d < 0)
          BY <2>2, <3>1, PageNumbers DEF PagesKept
        <4>2. QED
          BY <1>6, <2>1, <3>2, <4>1 DEF StagedShape
      <3>4. \A t \in Spaces \ {c}, d \in Pages : PageOf(t, d)' = PageOf(t, d)
        BY <2>1, <3>1, SameMemory
      <3>5. QED
        BY <1>4, <1>5, <2>1, <3>1, <3>2, <3>3, <3>4
    <2>4. CASE Goto(p, User) /\ UNCHANGED spaceVars
      <3>1. at'[p].pc = "user" /\ \A q \in Procs \ {p} : at'[q] = at[q]
        BY <1>0, <2>4 DEF User
      <3>2. frame' = frame
        BY <2>4 DEF spaceVars
      <3>3. StagedShape(p)'
        BY <1>6, <2>1, <2>2, <3>1, <3>2 DEF StagedShape, Absent
      <3>4. QED
        BY <1>4, <1>5, <1>7, <2>1, <3>1, <3>2, <3>3
    <2>5. QED
      BY <1>2, <1>9, <2>3, <2>4 DEF ExecDir
  <1>10. CASE ExecInit(p)
    <2>1. at[p].pc = "exec_init" /\ at[p].e < HeapLo /\ UNCHANGED <<mem, state, cr3, running>>
      BY <1>10 DEF ExecInit
    <2>2. PICK e \in Entries : e = at[p].e
      BY <1>0, <2>1, PageNumbers DEF Entries
    <2>3. \A d \in Pages : frame[c][d] # 0 <=> d < e
      BY <1>2, <1>3, <2>1, <2>2 DEF StagedShape
    <2>4. CASE Fill(c, e) /\ Goto(p, [at[p] EXCEPT !.e = e + 1])
      <3>1. /\ PagesKept({c}) /\ \A d \in Entries : d # e => frame'[c][d] = frame[c][d]
            /\ frame'[c][e] # 0
        BY <2>1, <2>4, FillPages
      <3>2. at'[p].pc = "exec_init" /\ at'[p].e = e + 1 /\ \A q \in Procs \ {p} : at'[q] = at[q]
        BY <1>0, <2>1, <2>4
      <3>3. StagedShape(p)'
        <4>1. \A d \in Pages : d < e + 1 <=> d < e \/ d = e
          BY <1>0, <2>2, PageNumbers
        <4>2. \A d \in Pages : frame'[c][d] # 0 <=> d < e + 1
          BY <2>3, <3>1, <4>1, PageNumbers
        <4>3. QED
          BY <1>6, <2>1, <3>2, <4>2 DEF StagedShape
      <3>4. \A t \in Spaces \ {c}, d \in Pages : PageOf(t, d)' = PageOf(t, d)
        BY <2>1, <3>1, SameMemory
      <3>5. QED
        BY <1>4, <1>5, <2>1, <3>1, <3>2, <3>3, <3>4
    <2>5. CASE Goto(p, At("exec_undo")) /\ UNCHANGED spaceVars
      <3>1. at'[p].pc = "exec_undo" /\ at'[p].e = 0 /\ \A q \in Procs \ {p} : at'[q] = at[q]
        BY <1>0, <2>5 DEF At, User
      <3>2. frame' = frame /\ \A d \in Pages : ~(d < 0)
        BY <2>5, PageNumbers DEF spaceVars
      <3>3. StagedShape(p)'
        BY <3>1, <3>2 DEF StagedShape
      <3>4. QED
        BY <1>4, <1>5, <1>7, <2>1, <3>1, <3>2, <3>3
    <2>6. QED
      BY <1>2, <1>10, <2>2, <2>4, <2>5 DEF ExecInit
  <1>11. CASE ExecActivate(p)
    <2>1. /\ at[p].pc = "exec_init" /\ at[p].e = HeapLo /\ UNCHANGED <<frame, mem, state, cr3, running>>
          /\ at'[p].pc = "exec_load" /\ \A q \in Procs \ {p} : at'[q] = at[q]
      BY <1>0, <1>11 DEF ExecActivate, spaceVars, At, User
    <2>2. StagedShape(p)'
      BY <1>2, <1>3, <1>6, <2>1 DEF StagedShape
    <2>3. QED
      BY <1>4, <1>5, <1>7, <2>1, <2>2
  <1>12. CASE ExecLoad(p)
    <2>1. /\ at[p].pc = "exec_load" /\ at[p].e < HeapLo /\ UNCHANGED <<frame, state, cr3, running>>
          /\ at'[p].pc = "exec_load" /\ \A q \in Procs \ {p} : at'[q] = at[q]
      BY <1>0, <1>12 DEF ExecLoad
    <2>2. PICK e \in Entries : e = at[p].e
      BY <1>0, <2>1, PageNumbers DEF Entries
    <2>3. page_pdpt = c /\ PagesPrivate(c)
      BY <1>2, <2>1 DEF IInv, CallsInProgress, StagedPrivate
    <2>4. \A t \in Spaces \ {c}, d \in Pages : PageOf(t, d)' = PageOf(t, d)
      <3>1. CASE frame[c][e] # 0
        <4>1. PICK x \in Values : mem' = [mem EXCEPT ![frame[c][e]] = x]
          BY <1>12, <2>2, <2>3, <3>1 DEF ExecLoad, Holds
        <4>2. OnlyPage(c, e)
          BY <2>1, <2>3, <3>1, <4>1, WritePages
        <4>3. QED
          BY <4>2 DEF OnlyPage
      <3>2. CASE frame[c][e] = 0
        <4>1. mem' = mem
          BY <1>12, <2>2, <2>3, <3>2 DEF ExecLoad
        <4>2. QED
          BY <1>7, <2>1, <4>1
      <3>3. QED
        BY <3>1, <3>2
    <2>5. StagedShape(p)'
      BY <1>2, <1>3, <1>6, <2>1 DEF StagedShape
    <2>6. PagesKept({c})
      BY <2>1 DEF PagesKept
    <2>7. QED
      BY <1>4, <1>5, <2>1, <2>4, <2>5, <2>6
  <1>13. CASE ExecFail(p)
    <2>1. /\ at[p].pc = "exec_load" /\ UNCHANGED <<frame, mem, state, cr3, running>>
          /\ at'[p].pc = "exec_undo" /\ at'[p].e = 0 /\ \A q \in Procs \ {p} : at'[q] = at[q]
      BY <1>0, <1>13 DEF ExecFail, spaceVars, At, User
    <2>2. \A d \in Pages : ~(d < 0)
      BY PageNumbers
    <2>3. StagedShape(p)'
      BY <2>1, <2>2 DEF StagedShape
    <2>4. QED
      BY <1>4, <1>5, <1>7, <2>1, <2>3
  <1>14. CASE ExecUndo(p)
    <2>1. at[p].pc = "exec_undo" /\ UNCHANGED <<mem, state, cr3, running>>
      BY <1>14 DEF ExecUndo
    <2>2. \A d \in Pages : d < at[p].e => frame[c][d] = 0
      BY <1>2, <1>3, <2>1 DEF StagedShape
    <2>3. CASE at[p].e <= Dir
      <3>1. PICK e \in Entries : e = at[p].e
        BY <1>0, <2>3, PageNumbers DEF Entries
      <3>2. Drop(c, e) /\ Goto(p, [at[p] EXCEPT !.e = e + 1])
        BY <1>2, <1>14, <2>3, <3>1 DEF ExecUndo
      <3>3. /\ PagesKept({c})
            /\ \A t \in Spaces, d \in Entries : frame'[t][d] = IF t = c /\ d = e THEN 0 ELSE frame[t][d]
        BY <2>1, <3>2, DropPages
      <3>4. at'[p].pc = "exec_undo" /\ at'[p].e = e + 1 /\ \A q \in Procs \ {p} : at'[q] = at[q]
        BY <1>0, <2>1, <3>2
      <3>5. StagedShape(p)'
        <4>1. \A d \in Pages : d < e + 1 => d < e \/ d = e
          BY <1>0, <3>1, PageNumbers
        <4>2. \A d \in Pages : d < e + 1 => frame'[c][d] = 0
          BY <2>2, <3>1, <3>3, <4>1, PageNumbers
        <4>3. QED
          BY <1>6, <2>1, <3>4, <4>2 DEF StagedShape
      <3>6. \A t \in Spaces \ {c}, d \in Pages : PageOf(t, d)' = PageOf(t, d)
        BY <2>1, <3>3, SameMemory
      <3>7. QED
        BY <1>4, <1>5, <2>1, <3>3, <3>4, <3>5, <3>6
    <2>4. CASE ~(at[p].e <= Dir)
      <3>1. /\ at'[p].pc = "user" /\ frame' = frame /\ \A q \in Procs \ {p} : at'[q] = at[q]
        BY <1>0, <1>14, <2>4 DEF ExecUndo, User, spaceVars
      <3>2. \A d \in Pages : d < at[p].e
        BY <1>0, <2>4, PageNumbers
      <3>3. StagedShape(p)'
        BY <1>6, <2>1, <2>2, <3>1, <3>2 DEF StagedShape, Absent
      <3>4. QED
        BY <1>4, <1>5, <1>7, <2>1, <3>1, <3>3
    <2>5. QED
      BY <2>3, <2>4
  <1>15. CASE ExecDrop(p)
    <2>1. UNCHANGED <<mem, state, cr3, running>>
      BY <1>15 DEF ExecDrop
    <2>2. CASE Runs(p, "exec_load") /\ Goto(p, At("exec_drop")) /\ UNCHANGED spaceVars
      <3>1. /\ at[p].pc = "exec_load" /\ at'[p].pc = "exec_drop" /\ frame' = frame
            /\ \A q \in Procs \ {p} : at'[q] = at[q]
        BY <1>0, <2>2 DEF At, User, spaceVars
      <3>2. StagedShape(p)'
        BY <3>1 DEF StagedShape
      <3>3. ShapeInv'
        BY <1>4, <1>7, <2>1, <3>1, <3>2
      <3>4. OutsideKept(p)
        BY <2>1, <3>1, IdlePages DEF OutsideKept, AllPages
      <3>5. \A q \in Procs \ {p} : View'[q] = View[q]
        BY <2>1, <3>1, <3>4, OthersSee DEF Blank
      <3>6. c = Seen(p)' /\ ~Blank(p)'
        BY <1>0, <1>6, <2>1, <3>1 DEF Seen, Blank
      <3>7. \A d \in Pages : View'[p][d] = PageOf(c, d)
        <4>1. \A d \in Pages : View'[p][d] = PageOf(c, d)'
          BY <3>6, SeenView
        <4>2. \A d \in Pages : PageOf(c, d)' = PageOf(c, d)
          BY <2>1, <3>1, IdlePages DEF AllPages
        <4>3. QED
          BY <4>1, <4>2
      <3>8. \A d \in Pages : IF d \in CodeLo .. HeapLo - 1 THEN View'[p][d] \in Values ELSE View'[p][d] = NoPage
        <4>1. \A d \in Pages : d \in Entries /\ (d \in CodeLo .. HeapLo - 1 <=> d < HeapLo)
          BY PageNumbers
        <4>2. \A d \in Pages : frame[c][d] # 0 <=> d < HeapLo
          BY <1>2, <1>3, <3>1 DEF StagedShape
        <4>3. QED
          BY <3>7, <4>1, <4>2, PageValue
      <3>9. View' = [View EXCEPT ![p] = View'[p]]
        BY <3>5, BecomesView
      <3>10. Private!Exec(p)
        BY <2>1, <3>8, <3>9 DEF Private!Exec, Private!Image, Private!Becomes
      <3>11. QED
        BY <3>3, <3>10 DEF PrivateStep, Private!Next, Private!Step
    <2>3. CASE Runs(p, "exec_drop") /\ at[p].e <= Dir /\ Drop(Mine(p), at[p].e) /\ Goto(p, [at[p] EXCEPT !.e = @ + 1])
      <3>1. PICK e \in Entries : e = at[p].e
        BY <1>0, <2>3, PageNumbers DEF Entries
      <3>2. Drop(m, e) /\ PagesKept({m})
        BY <1>1, <2>1, <2>3, <3>1, DropPages
      <3>3. at[p].pc = "exec_drop" /\ at'[p].pc = "exec_drop" /\ \A q \in Procs \ {p} : at'[q] = at[q]
        BY <1>0, <2>3
      <3>4. ShapeInv'
        BY <1>4, <2>1, <3>2, <3>3 DEF StagedShape
      <3>5. Seen(p) = c /\ Seen(p)' = Seen(p)
        BY <1>2, <1>6, <2>1, <3>3 DEF Seen
      <3>6. OthersRest(p)
        BY <2>1, <3>3 DEF OthersRest, Blank
      <3>7. \A t \in Spaces \ {m}, d \in Pages : PageOf(t, d)' = PageOf(t, d)
        BY <2>1, <3>2, SameMemory
      <3>8. QED
        BY <1>0, <1>3, <2>1, <3>3, <3>4, <3>5, <3>6, <3>7, Builds
    <2>4. QED
      BY <1>15, <2>2, <2>3 DEF ExecDrop
  <1>16. CASE ExecCommit(p)
    <2>1. /\ at[p].pc = "exec_drop" /\ at[p].e = Dir + 1 /\ UNCHANGED <<frame, mem, state, running>>
          /\ cr3' = [cr3 EXCEPT ![p] = 1 - @] /\ at'[p].pc = "user"
          /\ \A q \in Procs \ {p} : at'[q] = at[q] /\ cr3'[q] = cr3[q]
      BY <1>0, <1>16 DEF ExecCommit, User, spaceVars
    <2>2. Mine(p)' = c /\ Staged(p)' = m /\ Seen(p) = c /\ Seen(p)' = c
      BY <1>0, <1>1, <1>2, <2>1 DEF Mine, Staged, Seen, Gens
    <2>3. \A d \in Pages : frame[m][d] = 0
      <3>1. \A d \in Pages : d \in Entries /\ d < at[p].e
        BY <2>1, PageNumbers
      <3>2. \A d \in Entries : d < at[p].e => frame[m][d] = 0
        BY <1>1, <2>1 DEF IInv, CallsInProgress
      <3>3. QED
        BY <3>1, <3>2
    <2>4. StagedShape(p)' /\ ChildShape(p)'
      BY <2>1, <2>2, <2>3 DEF StagedShape, ChildShape, Absent
    <2>5. OthersRest(p) /\ PagesKept(Workspace(p))
      BY <2>1 DEF OthersRest, Blank, PagesKept
    <2>6. ShapeInv'
      BY <1>0, <2>1, <2>4, <2>5, RunnerShapes
    <2>7. \A t \in Spaces, d \in Pages : PageOf(t, d)' = PageOf(t, d)
      BY <2>1, IdlePages DEF AllPages
    <2>8. PrivateStep
      BY <1>0, <1>3, <2>1, <2>2, <2>5, <2>7, Builds
    <2>9. QED
      BY <2>6, <2>8
  <1>17. QED
    BY <1>8, <1>9, <1>10, <1>11, <1>12, <1>13, <1>14, <1>15, <1>16 DEF ExecStep
(* Nothing but the frames, the slots and the places makes the shape. *)
LEMMA ShapeStays ==
  ASSUME ShapeInv, UNCHANGED <<frame, state, cr3, at>>
  PROVE  ShapeInv'
  <1>1. ASSUME NEW q \in Procs PROVE ShapeOf(q)'
    <2>1. Mine(q)' = Mine(q) /\ Staged(q)' = Staged(q) /\ Child(q)' = Child(q) /\ ShapeOf(q)
      BY DEF Mine, Staged, Child, ShapeInv
    <2>2. StagedShape(q)'
      BY <2>1 DEF ShapeOf, StagedShape, Absent
    <2>3. ChildShape(q)'
      BY <2>1 DEF ShapeOf, ChildShape, Absent
    <2>4. QED
      BY <2>1, <2>2, <2>3 DEF ShapeOf, Vacant, Absent
  <1>2. QED
    BY <1>1 DEF ShapeInv

(* exit, kill and the switch change no memory; reap takes one away. *)
LEMMA LifeStepPrivate ==
  ASSUME IInv, DirInv, ShapeInv, NEW p \in Procs, running = p, LifeStep(p)
  PROVE  ShapeInv' /\ PrivateStep
  <1> USE DEF procVars, cpuVars, Runs, Goto
  <1>0. /\ at \in [Procs -> [pc : Places, e : Nat, lim : Nat, base : Nat, child : 0 .. NProcs]]
        /\ state \in [Procs -> {"unused", "embryo", "ready", "zombie"}] /\ state[p] # "unused"
        /\ cr3 \in [Procs -> Gens] /\ parent \in [Procs -> 0 .. NProcs]
    BY DEF IInv, ControlTypeOK, CallsInProgress
  (* The running process leaves user mode or stays; somebody may die.        *)
  <1>1. ASSUME UNCHANGED <<frame, mem, cr3, running>>, at[p].pc = "user", at'[p].pc \in {"user", "dead", "exec_dir"},
               \A q \in Procs \ {p} : at'[q] = at[q],
               \A q \in Procs : state'[q] = "unused" <=> state[q] = "unused"
        PROVE  ShapeInv' /\ PrivateStep
    <2>1. Seen(p)' = Seen(p) /\ Staged(p)' = Staged(p)
      BY <1>1 DEF Seen, Mine, Staged
    <2>2. PICK s \in Spaces : s = Seen(p)
      BY SeenSpace
    <2>3. OthersRest(p) /\ OutsideKept(p) /\ SeesTheSame(p) /\ PagesKept(Workspace(p))
      BY <1>0, <1>1, <2>1, <2>2, IdlePages DEF OthersRest, Blank, OutsideKept, SeesTheSame, PagesKept, AllPages
    <2>4. StagedShape(p)' /\ ChildShape(p)'
      BY <1>1, <2>1 DEF ShapeInv, ShapeOf, StagedShape, ChildShape, Absent
    <2>5. ShapeInv'
      BY <1>0, <1>1, <2>3, <2>4, RunnerShapes
    <2>6. QED
      BY <1>1, <2>3, <2>5, Stutters DEF OthersRest
  <1>2. CASE Exit(p)
    <2>1. /\ UNCHANGED <<frame, mem, cr3, running>> /\ at[p].pc = "user" /\ at'[p].pc \in {"dead", "exec_dir"}
          /\ \A q \in Procs \ {p} : at'[q] = at[q]
      BY <1>0, <1>2 DEF Exit, At, User, spaceVars
    <2>2. \A q \in Procs : state'[q] = "unused" <=> state[q] = "unused"
      BY <1>0, <1>2 DEF Exit
    <2>3. QED
      BY <1>1, <2>1, <2>2
  <1>3. ASSUME NEW q \in Procs, Kill(p, q) PROVE ShapeInv' /\ PrivateStep
    <2>1. /\ UNCHANGED <<frame, mem, cr3, running>> /\ at[p].pc = "user" /\ at' = at
          /\ \A r \in Procs : state'[r] = "unused" <=> state[r] = "unused"
      BY <1>0, <1>3 DEF Kill, spaceVars
    <2>2. QED
      BY <1>1, <2>1
  <1>4. ASSUME NEW q \in Procs, Reap(p, q) PROVE ShapeInv' /\ PrivateStep
    <2>1. /\ q # p /\ at[p].pc = "user" /\ parent[q] = p /\ Forget(q)
          /\ UNCHANGED <<mem, running>> /\ state'[q] = "unused" /\ at'[q].pc = "user"
          /\ \A r \in Procs \ {q} : at'[r] = at[r] /\ state'[r] = state[r] /\ cr3'[r] = cr3[r]
      BY <1>0, <1>4 DEF Reap, User
    <2>2. /\ \A s \in Spaces : s[1] = q => \A d \in Pages : frame'[s][d] = 0
          /\ \A s \in Spaces : s[1] # q => frame'[s] = frame[s]
      BY <2>1, PageNumbers DEF Forget, NoEntries
    <2>3. ShapeOf(q)'
      <3>1. cr3'[q] \in Gens
        BY <1>0, <1>4 DEF Reap, Gens
      <3>2. \A d \in Pages : frame'[<<q, cr3'[q]>>][d] = 0 /\ frame'[<<q, 1 - cr3'[q]>>][d] = 0
        BY <2>2, <3>1 DEF Spaces, Gens
      <3>3. QED
        BY <2>1, <3>2 DEF ShapeOf, StagedShape, ChildShape, Vacant, Absent, Mine, Staged
    <2>4. ASSUME NEW r \in Procs, r # q
          PROVE  /\ frame'[Mine(r)] = frame[Mine(r)] /\ frame'[Staged(r)] = frame[Staged(r)]
                 /\ Forking(r) => frame'[Child(r)] = frame[Child(r)]
                 /\ Mine(r)' = Mine(r) /\ Staged(r)' = Staged(r) /\ Child(r)' = Child(r)
                 /\ Seen(r)' = Seen(r) /\ frame'[Seen(r)] = frame[Seen(r)]
      <3>1. Mine(r) \in Spaces /\ Staged(r) \in Spaces
        BY SpaceNames DEF IInv
      <3>2. frame'[Mine(r)] = frame[Mine(r)] /\ frame'[Staged(r)] = frame[Staged(r)]
        BY <2>2, <2>4, <3>1 DEF Mine, Staged
      <3>3. Forking(r) => at[r].child # q
        BY <2>1 DEF IInv, CallsInProgress, Forking
      <3>4. Forking(r) => frame'[Child(r)] = frame[Child(r)]
        BY <2>2, <3>3, ChildSpace DEF Child
      <3>5. Mine(r)' = Mine(r) /\ Staged(r)' = Staged(r) /\ Child(r)' = Child(r)
        BY <2>1, <2>4 DEF Mine, Staged, Child
      <3>6. Seen(r)' = Seen(r) /\ frame'[Seen(r)] = frame[Seen(r)]
        BY <2>1, <2>4, <3>2, <3>5 DEF Seen
      <3>7. QED
        BY <3>2, <3>4, <3>5, <3>6
    <2>5. ASSUME NEW r \in Procs, r # q PROVE ShapeOf(r)'
      <3>1. StagedShape(r)'
        BY <2>1, <2>4, <2>5 DEF ShapeInv, ShapeOf, StagedShape, Absent
      <3>2. ChildShape(r)'
        BY <2>1, <2>4, <2>5 DEF ShapeInv, ShapeOf, ChildShape, Absent, Forking
      <3>3. state'[r] = "unused" => Vacant(r)'
        BY <2>1, <2>4, <2>5 DEF ShapeInv, ShapeOf, Vacant, Absent
      <3>4. QED
        BY <3>1, <3>2, <3>3 DEF ShapeOf
    <2>6. ASSUME NEW r \in Procs, r # q PROVE View'[r] = View[r]
      <3>1. CASE Blank(r)
        <4>1. Blank(r)'
          BY <2>1, <2>6, <3>1 DEF Blank
        <4>2. QED
          BY <3>1, <4>1, BlankView
      <3>2. CASE ~Blank(r)
        <4>1. ~Blank(r)'
          BY <2>1, <2>6, <3>2 DEF Blank
        <4>2. PICK s \in Spaces : s = Seen(r)
          BY SeenSpace
        <4>3. s = Seen(r)' /\ frame'[s] = frame[s]
          BY <2>4, <2>6, <4>2
        <4>4. \A d \in Pages : View[r][d] = PageOf(s, d) /\ View'[r][d] = PageOf(s, d)'
          BY <3>2, <4>1, <4>2, <4>3, SeenView
        <4>5. \A d \in Pages : PageOf(s, d)' = PageOf(s, d)
          BY <2>1, <4>3, PageStays
        <4>6. \A d \in Pages : View'[r][d] = View[r][d]
          BY <4>4, <4>5
        <4>7. QED
          BY <4>6, ViewPages, Zenon
      <3>3. QED
        BY <3>1, <3>2
    <2>7. View'[q] = Private!Empty
      <3>1. Blank(q)'
        BY <2>1 DEF Blank
      <3>2. QED
        BY <3>1, BlankView
    <2>8. Private!Reap(p, q)
      <3>1. View' = [View EXCEPT ![q] = Private!Empty]
        BY <2>6, <2>7, BecomesView
      <3>2. QED
        BY <2>1, <3>1 DEF Private!Reap, Private!Becomes
    <2>9. PrivateStep
      BY <2>8 DEF PrivateStep, Private!Next, Private!Step
    <2>10. QED
      BY <2>3, <2>5, <2>9 DEF ShapeInv
  <1>5. ASSUME NEW q \in Procs, Switch(q) PROVE ShapeInv' /\ PrivateStep
    <2>1. running' = q /\ UNCHANGED <<frame, mem, state, cr3, at>>
      BY <1>5 DEF Switch, spaceVars
    <2>2. View' = View
      BY <2>1 DEF View, PageOf, Seen, Mine, Staged
    <2>3. Private!Switch(q)
      BY <2>1, <2>2 DEF Private!Switch
    <2>4. PrivateStep
      BY <2>3 DEF PrivateStep, Private!Next, Private!Step
    <2>5. ShapeInv'
      BY <2>1, ShapeStays
    <2>6. QED
      BY <2>4, <2>5
  <1>6. QED
    BY <1>2, <1>3, <1>4, <1>5 DEF LifeStep

LEMMA MemoryStepPrivate ==
  ASSUME ~AnyBuffer, IInv, DirInv, ShapeInv, NEW p \in Procs, running = p, MemoryStep(p)
  PROVE  ShapeInv' /\ PrivateStep
  <1>1. PICK s \in Spaces : s = page_pdpt
    BY DEF IInv, ControlTypeOK
  <1>2. OwnPages(p, s)
    BY <1>1, MemoryStepPages
  <1>3. s = Mine(p) /\ at[p].pc \notin Building /\ at'[p].pc \notin Building
    BY <1>1, <1>2 DEF OwnPages, HeapPlaces, Building, DirInv, InCR3, InExec
  <1>4. PrivateStep
    BY <1>1, <1>2, OwnStep
  <1>5. QED
    BY <1>2, <1>3, <1>4, QuietShape DEF OwnPages

LEMMA InitPrivate ==
  ASSUME Init
  PROVE  ShapeInv /\ Private!Init
  <1>1. /\ 1 \in Procs /\ running = 1 /\ \A p \in Procs : at[p].pc = "user" /\ cr3[p] = 0
        /\ state[1] = "ready" /\ \A p \in Procs \ {1} : state[p] = "unused"
        /\ mem \in [Frames -> Values]
    BY CowAssumption DEF Init, Procs, User
  <1>2. \A s \in Spaces : s # <<1, 0>> => Absent(s)
    BY PageNumbers DEF Init, Absent
  <1>3. \A p \in Procs : /\ Mine(p) = <<p, 0>> /\ Staged(p) = <<p, 1>>
                         /\ Mine(p) \in Spaces /\ Staged(p) \in Spaces
    BY <1>1 DEF Mine, Staged, Spaces, Gens
  <1>4. ASSUME NEW p \in Procs PROVE ShapeOf(p)
    <2>1. Absent(Staged(p)) /\ (p # 1 => Absent(Mine(p)))
      BY <1>2, <1>3
    <2>2. QED
      BY <1>1, <2>1 DEF ShapeOf, StagedShape, ChildShape, Vacant
  <1>5. \A p \in Procs \ {1} : View[p] = Private!Empty
    BY <1>1, BlankView DEF Blank
  <1>6. ASSUME NEW e \in Pages
        PROVE  IF e \in CodeLo .. HeapLo - 1 THEN View[1][e] \in Values ELSE View[1][e] = NoPage
    <2>1. PICK s \in Spaces : s = <<1, 0>>
      BY <1>1, <1>3
    <2>2. s = Seen(1) /\ ~Blank(1)
      BY <1>1, <1>3, <2>1 DEF Seen, Blank
    <2>3. View[1][e] = PageOf(s, e)
      BY <1>1, <2>2, SeenView
    <2>4. frame[s][e] = IF e < HeapLo THEN e + 1 ELSE 0
      BY <2>1, PageNumbers DEF Init, BootEntries, BootFrame
    <2>5. e < HeapLo => e + 1 \in Frames
      BY PageNumbers, CowAssumption, PmmAssumption DEF Frames
    <2>6. CASE e < HeapLo
      <3>1. frame[s][e] \in Frames /\ frame[s][e] # 0
        BY <2>4, <2>5, <2>6, PageNumbers
      <3>2. PageOf(s, e) \in Values
        BY <1>1, <3>1 DEF PageOf
      <3>3. QED
        BY <2>3, <2>6, <3>2, PageNumbers
    <2>7. CASE ~(e < HeapLo)
      BY <2>3, <2>4, <2>7, PageNumbers DEF PageOf
    <2>8. QED
      BY <2>6, <2>7
  <1>7. Private!Init
    BY <1>1, <1>5, <1>6 DEF Private!Init, Private!Image
  <1>8. QED
    BY <1>4, <1>7 DEF ShapeInv

(* Where preemption cannot strike exec and no buffer in a read-only page is  *)
(* filled, page tables, counts and copy-on-write give every process, for any *)
(* number of processes, pages and frames, a memory that no other process can *)
(* change, and fork copies it in one step whatever ticks, kills and failures *)
(* come in between.                                                          *)
THEOREM MemoriesArePrivate == ~TickInExec /\ ~AnyBuffer => (Spec => PrivateMemory)
  <1> SUFFICES ASSUME ~TickInExec, ~AnyBuffer
               PROVE  Spec => PrivateMemory
    OBVIOUS
  <1>1. Init => ShapeInv /\ Private!Init
    BY InitPrivate
  <1>2. IInv /\ DirInv /\ ShapeInv /\ [Next]_vars => ShapeInv' /\ [Private!Next]_<<View, running>>
    <2> SUFFICES ASSUME IInv, DirInv, ShapeInv, [Next]_vars
                 PROVE  ShapeInv' /\ PrivateStep
      BY DEF PrivateStep
    <2>1. CASE UNCHANGED vars
      <3>1. UNCHANGED <<frame, mem, state, cr3, running, at>>
        BY <2>1 DEF vars, spaceVars, procVars, cpuVars
      <3>2. View' = View
        BY <3>1 DEF View, PageOf, Seen, Mine, Staged
      <3>3. ShapeInv'
        BY <3>1, ShapeStays
      <3>4. QED
        BY <3>1, <3>2, <3>3 DEF PrivateStep
    <2>2. CASE Next
      BY <2>2, MemoryStepPrivate, ForkStepPrivate, ExecStepPrivate, LifeStepPrivate DEF Next
    <2>3. QED
      BY <2>1, <2>2
  <1>3. Spec => []IInv /\ []DirInv
    BY OwnSpaces
  <1>4. QED
    BY <1>1, <1>2, <1>3, PTL DEF Spec, PrivateMemory, Private!Spec

(* A copy-on-write fault is invisible: the process that takes it finds the   *)
(* page as it was, and so does every process that shared it.                 *)
THEOREM FaultsStayInvisible == ~TickInExec => (Spec => FaultsInvisible)
  <1> SUFFICES ASSUME ~TickInExec
               PROVE  Spec => FaultsInvisible
    OBVIOUS
  <1>1. IInv /\ [Next]_vars => [(\E e \in Pages : CowLift(running, e) \/ CowCopy(running, e)) => View' = View]_vars
    <2> SUFFICES ASSUME IInv, NEW e \in Pages, CowLift(running, e) \/ CowCopy(running, e)
                 PROVE  View' = View
      OBVIOUS
    <2>1. AllPages
      <3>1. CASE CowCopy(running, e)
        BY <3>1, CopyPages
      <3>2. CASE CowLift(running, e)
        BY <3>2, IdlePages DEF CowLift, NoChange
      <3>3. QED
        BY <3>1, <3>2
    <2>2. UNCHANGED <<state, cr3, running, at>>
      BY DEF CowLift, CowCopy, NoChange, procVars, cpuVars
    <2>3. ASSUME NEW q \in Procs PROVE View'[q] = View[q]
      <3>1. CASE Blank(q)
        <4>1. Blank(q)'
          BY <2>2, <3>1 DEF Blank
        <4>2. QED
          BY <3>1, <4>1, BlankView
      <3>2. CASE ~Blank(q)
        <4>1. PICK s \in Spaces : s = Seen(q)
          BY SeenSpace
        <4>2. s = Seen(q)' /\ ~Blank(q)'
          BY <2>2, <3>2, <4>1 DEF Seen, Mine, Staged, Blank
        <4>3. \A d \in Pages : View[q][d] = PageOf(s, d) /\ View'[q][d] = PageOf(s, d)'
          BY <3>2, <4>1, <4>2, SeenView
        <4>4. \A d \in Pages : View'[q][d] = View[q][d]
          BY <2>1, <4>3 DEF AllPages
        <4>5. QED
          BY <4>4, ViewPages, Zenon
      <3>3. QED
        BY <3>1, <3>2
    <2>4. QED
      BY <2>3, SameView
  <1>2. Spec => []IInv
    BY Soundness
  <1>3. QED
    BY <1>1, <1>2, PTL DEF Spec, FaultsInvisible
=============================================================================
