-------------------------------- MODULE Pmm ---------------------------------
(***************************************************************************)
(* The physical memory manager, kernel/arch/pmm.c: a watermark over the    *)
(* managed range, a small LIFO list of released frames, and one reference  *)
(* count per frame for the pages that copy-on-write fork shares.           *)
(*                                                                         *)
(* The module holds the allocator's state and its operations; CowMemory    *)
(* composes it with the page tables that own the frames.  Frame number 0   *)
(* is the "no frame" that pmm_alloc returns when memory is exhausted.      *)
(***************************************************************************)
EXTENDS Integers, Sequences, SequencesExt

CONSTANTS
  NFrames,   (* frames between start_frame and end_frame                   *)
  FreeMax,   (* FREE_MAX: capacity of free_list                            *)
  RefMax     (* largest value of the unsigned char reference count, 255    *)

ASSUME PmmAssumption ==
  /\ NFrames \in Nat \ {0}
  /\ FreeMax \in Nat
  /\ RefMax \in Nat \ {0}

VARIABLES
  next_frame,  (* first frame the watermark has not handed out yet         *)
  free_list,   (* released frames, the top of the stack at the end         *)
  refcount     (* number of owners of each frame                           *)

pmmVars == <<next_frame, free_list, refcount>>

Frames == 1 .. NFrames

(* pmm_init() and then n allocations, one owner each. *)
PmmInit(n) ==
  /\ next_frame = n + 1
  /\ free_list = <<>>
  /\ refcount = [f \in Frames |-> IF f <= n THEN 1 ELSE 0]

-----------------------------------------------------------------------------
CanAlloc == free_list # <<>> \/ next_frame \in Frames

NextFree == IF free_list # <<>> THEN Last(free_list) ELSE next_frame

(* Mutant: the watermark moves with a frame of free_list, too. *)
TakeBoth ==
  /\ free_list' = IF free_list # <<>> THEN Front(free_list) ELSE free_list
  /\ next_frame' = next_frame + 1

(* Take NextFree out of the pool: the released frames first, then the tail. *)
Take ==
  IF free_list # <<>>
  THEN free_list' = Front(free_list) /\ UNCHANGED next_frame
  ELSE next_frame' = next_frame + 1 /\ UNCHANGED free_list

(* pmm_alloc() returning the frame f. *)
PmmAlloc(f) ==
  /\ CanAlloc
  /\ f = NextFree
  /\ Take
  /\ refcount' = [refcount EXCEPT ![f] = 1]

(* Mutant: the frame goes back to the pool with every owner it loses. *)
PmmFreeEveryOwner(f) ==
  IF f = 0 \/ refcount[f] = 0
  THEN UNCHANGED pmmVars
  ELSE /\ refcount' = [refcount EXCEPT ![f] = @ - 1]
       /\ free_list' = IF Len(free_list) < FreeMax THEN Append(free_list, f) ELSE free_list
       /\ UNCHANGED next_frame

(* Mutant: the last owner is recognised by the count before the decrement. *)
PmmFreeStaleCount(f) ==
  IF f = 0 \/ refcount[f] = 0
  THEN UNCHANGED pmmVars
  ELSE /\ refcount' = [refcount EXCEPT ![f] = @ - 1]
       /\ free_list' = IF refcount[f] = 0 /\ Len(free_list) < FreeMax
                       THEN Append(free_list, f) ELSE free_list
       /\ UNCHANGED next_frame

(* pmm_free(f): null and already free frames are ignored; the frame returns  *)
(* to the pool with its last owner, and is lost when free_list is full.      *)
PmmFree(f) ==
  IF f = 0 \/ refcount[f] = 0
  THEN UNCHANGED pmmVars
  ELSE /\ refcount' = [refcount EXCEPT ![f] = @ - 1]
       /\ free_list' = IF refcount[f] = 1 /\ Len(free_list) < FreeMax
                       THEN Append(free_list, f) ELSE free_list
       /\ UNCHANGED next_frame

RefAfterInc(n) == IF n < RefMax THEN n + 1 ELSE n

(* pmm_ref_inc(f): the count saturates instead of wrapping. *)
PmmRefInc(f) ==
  /\ refcount' = [refcount EXCEPT ![f] = RefAfterInc(@)]
  /\ UNCHANGED <<next_frame, free_list>>

-----------------------------------------------------------------------------
Pooled(f) == \E i \in 1 .. Len(free_list) : free_list[i] = f

(* Frames that pmm_alloc may hand out. *)
Free(f) == f >= next_frame \/ Pooled(f)

PmmTypeOK ==
  /\ next_frame \in 1 .. NFrames + 1
  /\ free_list \in Seq(Frames)
  /\ refcount \in [Frames -> 0 .. RefMax]

(* The pool never holds a frame twice, nor one above the watermark, and a    *)
(* frame in it has no owner: pmm_alloc's "refcount must be 0 here".          *)
PoolSound ==
  /\ \A i, j \in 1 .. Len(free_list) : free_list[i] = free_list[j] => i = j
  /\ \A i \in 1 .. Len(free_list) : free_list[i] < next_frame
  /\ \A f \in Frames : Free(f) => refcount[f] = 0

(* Every frame without an owner can be handed out again: pmm_free gives back *)
(* what pmm_alloc took.                                                      *)
NoFrameLost == \A f \in Frames : refcount[f] = 0 => Free(f)
=============================================================================
