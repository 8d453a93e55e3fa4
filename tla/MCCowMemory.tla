---------------------------- MODULE MCCowMemory -----------------------------
(***************************************************************************)
(* Model-checking instances of CowMemory.                                  *)
(***************************************************************************)
EXTENDS CowMemory

(* Page tables: one for every page, or one for the whole window. *)
OnePagePerTable == [e \in Pages |-> e - CodeLo]
OneTable == [e \in Pages |-> 0]

-----------------------------------------------------------------------------
(* Frames are interchangeable: no action looks at a frame number but to      *)
(* compare it.  Canon is the state up to a renaming of the frames: a held    *)
(* frame is named after the first entry that holds it; of the pool only the  *)
(* size matters; a frame without a holder that is not in the pool can only   *)
(* be counted.  The contents of a frame matter while a process sees it: a    *)
(* frame that becomes a page may hold anything (Holds).  TypeOK, first,      *)
(* makes TLC evaluate every function before it stores the state.             *)
Num(s, e) == ((s[1] * 2) + s[2]) * (KStack + 1) + e

Name(f) ==
  LET H == UNION {{Num(s, e) : e \in {e \in Entries : frame[s][e] = f}} : s \in Spaces} IN
  IF H = {} THEN 0 ELSE Min(H)

InSight ==
  UNION {{frame[Seen(p)][e] : e \in Pages} : p \in Procs} \cup
  UNION {{frame[Staged(p)][e] : e \in {e \in Pages : e < at[p].e}} :
           p \in {p \in Procs : at[p].pc = "exec_load"}}

Canon ==
  LET name == [f \in Frames |-> Name(f)]
      held == {f \in Frames : name[f] # 0}
      leaked == {f \in Frames \ held : refcount[f] # 0}
  IN << TypeOK,
        [s \in Spaces |-> [e \in Entries |-> IF frame[s][e] = 0 THEN 0 ELSE name[frame[s][e]]]],
        {<<name[f], refcount[f]>> : f \in held},
        {<<name[f], mem[f]>> : f \in InSight \cap Frames},
        [n \in {refcount[f] : f \in leaked} |-> Cardinality({f \in leaked : refcount[f] = n})],
        [i \in 1 .. Len(free_list) |-> name[free_list[i]]],
        next_frame, rw, cow, procVars, cpuVars, user_heap_next, at >>
=============================================================================
