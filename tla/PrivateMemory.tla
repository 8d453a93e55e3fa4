--------------------------- MODULE PrivateMemory ----------------------------
(***************************************************************************)
(* What the address spaces of StinkOS promise to its programs: every       *)
(* process has a memory of its own.  A page is absent or has a value; the  *)
(* process on the CPU changes its own memory only; fork gives the child a  *)
(* copy of its parent's memory, exec a new image.  No frame, page table,   *)
(* reference count or copy-on-write fault appears here: CowMemory shows    *)
(* that kernel/arch/paging.c implements this module with them.             *)
(***************************************************************************)
CONSTANTS
  Procs,      (* process slots                                             *)
  Pages,      (* pages of the user window                                  *)
  CodePages,  (* those a fresh image has mapped: code and stack            *)
  Values,     (* what a page may contain                                   *)
  NoPage      (* an absent page                                            *)

VARIABLES
  memory,     (* memory[p][e]                                              *)
  running     (* the process on the CPU                                    *)

Empty == [e \in Pages |-> NoPage]

(* Images a process may start from: code and stack mapped, the heap empty. *)
Image(m) == \A e \in Pages : IF e \in CodePages THEN m[e] \in Values ELSE m[e] = NoPage

Init ==
  /\ running \in Procs
  /\ Image(memory[running])
  /\ \A p \in Procs \ {running} : memory[p] = Empty

(* The memory of p, and no other, becomes m. *)
Becomes(p, m) ==
  /\ memory' = [memory EXCEPT ![p] = m]
  /\ UNCHANGED running

Write(p, e, x) ==
  /\ memory[p][e] # NoPage
  /\ Becomes(p, [memory[p] EXCEPT ![e] = x])

Map(p, e, x) ==
  /\ e \notin CodePages
  /\ Becomes(p, [memory[p] EXCEPT ![e] = x])

Unmap(p, e) == Becomes(p, [memory[p] EXCEPT ![e] = NoPage])

Exec(p) == Image(memory'[p]) /\ Becomes(p, memory'[p])

(* The child appears with a copy of its parent's memory, in one step. *)
Fork(p, q) ==
  /\ memory[q] = Empty
  /\ Becomes(q, memory[p])

(* A slot is cleared: the process in it is gone. *)
Reap(p, q) ==
  /\ q # p
  /\ Becomes(q, Empty)

Switch(q) ==
  /\ running' = q
  /\ UNCHANGED memory

Step(p) ==
  \/ \E e \in Pages, x \in Values : Write(p, e, x) \/ Map(p, e, x)
  \/ \E e \in Pages : Unmap(p, e)
  \/ Exec(p)
  \/ \E q \in Procs : Fork(p, q) \/ Reap(p, q) \/ Switch(q)

Next == Step(running)

Spec == Init /\ [][Next]_<<memory, running>>
=============================================================================
