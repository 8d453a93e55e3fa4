-------------------------- MODULE CowMemory_proofs --------------------------
(***************************************************************************)
(* Proofs about CowMemory, for every number of processes, frames and pages *)
(* and every value of its other constants that CowAssumption allows.       *)
(***************************************************************************)
EXTENDS CowMemory, TLAPS, FiniteSetTheorems, SequenceTheorems

-----------------------------------------------------------------------------
(* The frame allocator (Pmm). *)

LEMMA FrontProperties ==
  ASSUME NEW S, NEW q \in Seq(S), q # <<>>
  PROVE  /\ Front(q) \in Seq(S)
         /\ Len(Front(q)) = Len(q) - 1
         /\ \A i \in 1 .. Len(q) - 1 : Front(q)[i] = q[i]
         /\ Last(q) = q[Len(q)]
         /\ Len(q) \in Nat \ {0}
  <1>1. PICK n \in Nat : Len(q) = n + 1
    <2>1. Len(q) \in Nat \ {0}
      BY EmptySeq
    <2>2. Len(q) = (Len(q) - 1) + 1 /\ Len(q) - 1 \in Nat
      BY <2>1
    <2>3. QED
      BY <2>2
  <1>2. \A i \in 1 .. n : q[i] \in S
    BY <1>1
  <1>3. Front(q) = SubSeq(q, 1, n)
    BY <1>1 DEF Front
  <1>4. /\ SubSeq(q, 1, n) \in Seq(S)
        /\ Len(SubSeq(q, 1, n)) = IF 1 <= n THEN n - 1 + 1 ELSE 0
        /\ \A i \in 1 .. n - 1 + 1 : SubSeq(q, 1, n)[i] = q[1 + i - 1]
    BY <1>2, SubSeqProperties
  <1>5. (IF 1 <= n THEN n - 1 + 1 ELSE 0) = n /\ n - 1 + 1 = n /\ Len(q) - 1 = n
    BY <1>1
  <1>6. \A i \in 1 .. n : SubSeq(q, 1, n)[i] = q[i]
    BY <1>4, <1>5
  <1>7. QED
    BY <1>1, <1>3, <1>4, <1>5, <1>6 DEF Last

(* Popping a stack without repetitions removes its top and nothing else. *)
LEMMA PopFreeList ==
  ASSUME PmmTypeOK, PoolSound, free_list # <<>>
  PROVE  /\ Front(free_list) \in Seq(Frames)
         /\ Last(free_list) \in Frames /\ \E i \in 1 .. Len(free_list) : free_list[i] = Last(free_list)
         /\ \A i \in 1 .. Len(Front(free_list)) : i \in 1 .. Len(free_list) /\ Front(free_list)[i] = free_list[i]
         /\ \A i, j \in 1 .. Len(Front(free_list)) : Front(free_list)[i] = Front(free_list)[j] => i = j
         /\ \A x : (\E i \in 1 .. Len(Front(free_list)) : Front(free_list)[i] = x)
                  <=> (\E i \in 1 .. Len(free_list) : free_list[i] = x) /\ x # Last(free_list)
  <1>1. /\ Front(free_list) \in Seq(Frames)
        /\ Len(Front(free_list)) = Len(free_list) - 1
        /\ \A i \in 1 .. Len(free_list) - 1 : Front(free_list)[i] = free_list[i]
        /\ Last(free_list) = free_list[Len(free_list)]
        /\ Len(free_list) \in Nat \ {0}
    BY FrontProperties DEF PmmTypeOK
  <1>2. PICK n \in Nat : Len(free_list) = n + 1 /\ Len(Front(free_list)) = n
    BY <1>1
  <1>3. /\ \A i \in 1 .. n : Front(free_list)[i] = free_list[i] /\ i \in 1 .. n + 1
        /\ Last(free_list) = free_list[n + 1] /\ n + 1 \in 1 .. n + 1
    BY <1>1, <1>2
  <1>4. \A i, j \in 1 .. n + 1 : free_list[i] = free_list[j] => i = j
    BY <1>2 DEF PoolSound
  <1>5. Last(free_list) \in Frames
    BY <1>2, <1>3 DEF PmmTypeOK
  <1>6. ASSUME NEW x PROVE (\E i \in 1 .. n : Front(free_list)[i] = x)
                             <=> (\E i \in 1 .. n + 1 : free_list[i] = x) /\ x # Last(free_list)
    <2>1. \A i \in 1 .. n : i # n + 1
      OBVIOUS
    <2>2. \A i \in 1 .. n + 1 : i \in 1 .. n \/ i = n + 1
      OBVIOUS
    <2>3. QED
      BY <1>3, <1>4, <2>1, <2>2
  <1>7. QED
    BY <1>1, <1>2, <1>3, <1>4, <1>5, <1>6

(* The frame pmm_alloc is about to return has no owner, is a frame, and is  *)
(* no longer in the pool afterwards.                                        *)
LEMMA AllocFresh ==
  ASSUME PmmTypeOK, PoolSound, CanAlloc, Take, NEW f, f = NextFree
  PROVE  /\ f \in Frames
         /\ refcount[f] = 0
         /\ next_frame' \in 1 .. NFrames + 1
         /\ free_list' \in Seq(Frames)
         /\ \A g \in Frames : Free(g)' <=> Free(g) /\ g # f
         /\ \A i, j \in 1 .. Len(free_list') : free_list'[i] = free_list'[j] => i = j
         /\ \A i \in 1 .. Len(free_list') : free_list'[i] < next_frame'
  <1> USE PmmAssumption DEF Frames, PmmTypeOK, PoolSound, Free, Pooled
  <1>1. CASE free_list # <<>>
    <2>1. /\ Front(free_list) \in Seq(Frames)
          /\ Last(free_list) \in Frames
          /\ \E i \in 1 .. Len(free_list) : free_list[i] = Last(free_list)
          /\ \A i \in 1 .. Len(Front(free_list)) :
               i \in 1 .. Len(free_list) /\ Front(free_list)[i] = free_list[i]
          /\ \A i, j \in 1 .. Len(Front(free_list)) :
               Front(free_list)[i] = Front(free_list)[j] => i = j
          /\ \A x : (\E i \in 1 .. Len(Front(free_list)) : Front(free_list)[i] = x)
                   <=> (\E i \in 1 .. Len(free_list) : free_list[i] = x) /\ x # Last(free_list)
      BY <1>1, PopFreeList
    <2>2. free_list' = Front(free_list) /\ next_frame' = next_frame /\ f = Last(free_list)
      BY <1>1 DEF Take, NextFree
    <2>3. f \in Frames /\ Pooled(f) /\ f < next_frame
      BY <2>1, <2>2
    <2>4. \A g \in Frames : Pooled(g)' <=> Pooled(g) /\ g # f
      BY <2>1, <2>2
    <2>5. \A g \in Frames : Free(g)' <=> Free(g) /\ g # f
      <3>1. next_frame' = next_frame /\ f < next_frame /\ next_frame \in Int
        BY <2>2, <2>3
      <3>2. \A g \in Frames : g >= next_frame => g # f
        BY <2>3, <3>1
      <3> HIDE DEF Frames, PmmTypeOK, PoolSound, Pooled
      <3>3. QED
        BY <2>3, <2>4, <3>1, <3>2
    <2>6. refcount[f] = 0
      BY <2>3
    <2>7. \A i \in 1 .. Len(free_list') : free_list'[i] < next_frame'
      BY <2>1, <2>2
    <2>8. QED
      BY <2>1, <2>2, <2>3, <2>5, <2>6, <2>7
  <1>2. CASE free_list = <<>>
    <2>1. free_list' = <<>> /\ next_frame' = next_frame + 1 /\ f = next_frame /\ f \in Frames
      BY <1>2 DEF Take, NextFree, CanAlloc
    <2>2. Len(free_list) = 0 /\ Len(free_list') = 0
      BY <1>2, <2>1, EmptySeq
    <2>3. QED
      BY <1>2, <2>1, <2>2
  <1>3. QED
    BY <1>1, <1>2

(* pmm_alloc keeps the allocator sound. *)
LEMMA AllocSound ==
  ASSUME PmmTypeOK, PoolSound, NEW f, PmmAlloc(f)
  PROVE  /\ PmmTypeOK' /\ PoolSound'
         /\ f \in Frames /\ refcount[f] = 0
         /\ refcount' = [refcount EXCEPT ![f] = 1]
  <1>1. /\ CanAlloc /\ Take /\ f = NextFree /\ refcount' = [refcount EXCEPT ![f] = 1]
    BY DEF PmmAlloc
  <1>2. /\ f \in Frames
        /\ refcount[f] = 0
        /\ next_frame' \in 1 .. NFrames + 1
        /\ free_list' \in Seq(Frames)
        /\ \A g \in Frames : Free(g)' <=> Free(g) /\ g # f
        /\ \A i, j \in 1 .. Len(free_list') : free_list'[i] = free_list'[j] => i = j
        /\ \A i \in 1 .. Len(free_list') : free_list'[i] < next_frame'
    BY <1>1, AllocFresh
  <1>3. refcount' \in [Frames -> 0 .. RefMax]
    BY <1>1, <1>2, PmmAssumption DEF PmmTypeOK
  <1>4. \A g \in Frames : Free(g)' => refcount'[g] = 0
    BY <1>1, <1>2 DEF PmmTypeOK, PoolSound
  <1>5. QED
    BY <1>1, <1>2, <1>3, <1>4 DEF PmmTypeOK, PoolSound

(* pmm_free keeps the allocator sound and takes one owner off the frame. *)
LEMMA FreeSound ==
  ASSUME PmmTypeOK, PoolSound, NEW f \in MaybeFrame, PmmFree(f)
  PROVE  /\ PmmTypeOK' /\ PoolSound'
         /\ \A g \in Frames : refcount'[g] = IF g = f /\ refcount[g] # 0
                                             THEN refcount[g] - 1 ELSE refcount[g]
  <1> USE PmmAssumption DEF Frames, MaybeFrame
  <1>1. CASE f = 0 \/ refcount[f] = 0
    BY <1>1 DEF PmmFree, pmmVars, PmmTypeOK, PoolSound, Free, Pooled
  <1>2. CASE ~(f = 0 \/ refcount[f] = 0)
    <2>1. /\ f \in Frames
          /\ refcount' = [refcount EXCEPT ![f] = @ - 1]
          /\ next_frame' = next_frame
          /\ free_list' = IF refcount[f] = 1 /\ Len(free_list) < FreeMax
                          THEN Append(free_list, f) ELSE free_list
      BY <1>2 DEF PmmFree
    <2>2. refcount' \in [Frames -> 0 .. RefMax]
      BY <1>2, <2>1, SMTT(60) DEF PmmTypeOK
    <2>3. ~Free(f)
      BY <1>2, <2>1 DEF PoolSound
    <2>4. CASE free_list' = free_list
      <3>1. \A g \in Frames : Free(g)' <=> Free(g)
        BY <2>1, <2>4 DEF Free, Pooled
      <3>2. \A g \in Frames : Free(g)' => refcount'[g] = 0
        BY <2>1, <2>3, <3>1 DEF PoolSound, PmmTypeOK
      <3>3. \A g \in Frames : refcount'[g] = IF g = f /\ refcount[g] # 0
                                             THEN refcount[g] - 1 ELSE refcount[g]
        BY <1>2, <2>1 DEF PmmTypeOK
      <3>4. PoolSound'
        BY <2>1, <2>4, <3>2 DEF PoolSound
      <3>5. QED
        BY <2>1, <2>2, <2>4, <3>3, <3>4 DEF PmmTypeOK
    <2>5. CASE refcount[f] = 1 /\ free_list' = Append(free_list, f)
      <3>1. /\ free_list' \in Seq(Frames)
            /\ Len(free_list') = Len(free_list) + 1
            /\ Len(free_list) \in Nat
            /\ \A i \in 1 .. Len(free_list) : free_list'[i] = free_list[i]
            /\ free_list'[Len(free_list) + 1] = f
        <4>1. free_list \in Seq(Frames) /\ f \in Frames
          BY <2>1 DEF PmmTypeOK
        <4>2. /\ Append(free_list, f) \in Seq(Frames)
              /\ Len(Append(free_list, f)) = Len(free_list) + 1
              /\ \A i \in 1 .. Len(free_list) : Append(free_list, f)[i] = free_list[i]
              /\ Append(free_list, f)[Len(free_list) + 1] = f
          BY <4>1, AppendProperties
        <4>3. QED
          BY <4>1, <4>2, <2>5, LenProperties
      <3>2. \A i \in 1 .. Len(free_list) : free_list[i] # f
        BY <2>3 DEF Free, Pooled
      <3>3. f < next_frame
        BY <2>1, <2>3 DEF Free, PmmTypeOK
      <3>4. \A g \in Frames : Free(g)' => Free(g) \/ g = f
        BY <2>1, <3>1 DEF Free, Pooled
      <3>5. \A i, j \in 1 .. Len(free_list') : free_list'[i] = free_list'[j] => i = j
        BY <3>1, <3>2 DEF PoolSound
      <3>6. \A i \in 1 .. Len(free_list') : free_list'[i] < next_frame'
        BY <2>1, <3>1, <3>3 DEF PoolSound
      <3>7. \A g \in Frames : Free(g)' => refcount'[g] = 0
        BY <2>1, <2>5, <3>4 DEF PoolSound, PmmTypeOK
      <3>8. \A g \in Frames : refcount'[g] = IF g = f /\ refcount[g] # 0
                                             THEN refcount[g] - 1 ELSE refcount[g]
        BY <1>2, <2>1 DEF PmmTypeOK
      <3>9. PoolSound'
        BY <3>5, <3>6, <3>7 DEF PoolSound
      <3>10. QED
        BY <2>1, <2>2, <3>1, <3>8, <3>9 DEF PmmTypeOK
    <2>6. QED
      BY <2>1, <2>4, <2>5 DEF PmmTypeOK
  <1>3. QED
    BY <1>1, <1>2
-----------------------------------------------------------------------------
(* The entries of the spaces.  FrameInv says all that the elementary        *)
(* operations need of one another: counts cover holders, a frame serves one *)
(* entry, and only pages that are not writable are shared.                  *)

EntryTypeOK ==
  /\ frame \in [Spaces -> [Entries -> MaybeFrame]]
  /\ rw \in [Spaces -> [Entries -> BOOLEAN]]
  /\ cow \in [Spaces -> [Entries -> BOOLEAN]]

FrameInv ==
  /\ PmmTypeOK /\ PoolSound
  /\ EntryTypeOK
  /\ RefCovers /\ Aligned /\ SoleWriter /\ KernelFramesPrivate

(* What every elementary operation guarantees. *)
KeepsPrivate == \A s \in Spaces : PagesPrivate(s) => PagesPrivate(s)'

(* There are finitely many spaces, so holders can be counted; no frame can  *)
(* have more holders than a count can record (CowAssumption).               *)
LEMMA SpacesFinite ==
  /\ IsFiniteSet(Spaces)
  /\ Cardinality(Spaces) \in Nat
  /\ \A f : /\ Sharers(f) \subseteq Spaces
            /\ IsFiniteSet(Sharers(f))
            /\ Cardinality(Sharers(f)) \in Nat
            /\ Cardinality(Sharers(f)) <= RefMax
  <1>1. IsFiniteSet(Procs) /\ IsFiniteSet(Gens)
    <2>1. IsFiniteSet(1 .. NProcs)
      BY FS_Interval, CowAssumption
    <2>2. IsFiniteSet({0} \cup {1})
      BY FS_Singleton, FS_AddElement
    <2>3. {0, 1} = {0} \cup {1}
      OBVIOUS
    <2>4. QED
      BY <2>1, <2>2, <2>3 DEF Procs, Gens
  <1>2. IsFiniteSet(Spaces)
    BY <1>1, FS_Product DEF Spaces
  <1>3. ASSUME NEW f PROVE Sharers(f) \subseteq Spaces
    BY DEF Sharers
  <1>4. Cardinality(Spaces) \in Nat
    BY <1>2, FS_CardinalityType
  <1>5. ASSUME NEW f
        PROVE  /\ IsFiniteSet(Sharers(f))
               /\ Cardinality(Sharers(f)) \in Nat
               /\ Cardinality(Sharers(f)) <= Cardinality(Spaces)
    BY <1>2, <1>3, FS_Subset, FS_CardinalityType
  <1>6. QED
    BY <1>2, <1>3, <1>4, <1>5, CowAssumption, PmmAssumption

(* The numbering of entries: tables below pages below directory and kernel  *)
(* stack.                                                                   *)
LEMMA EntryNumbers ==
  /\ Pages \subseteq Entries /\ Tables \subseteq Entries
  /\ Dir \in Entries /\ KStack \in Entries
  /\ Entries \subseteq Int
  /\ NTables \in Nat /\ CodeLo \in Nat /\ HeapLo \in Nat /\ HeapHi \in Nat
  /\ 1 <= HeapLo /\ CodeLo < HeapLo /\ HeapLo <= HeapHi
  /\ HeapHi <= HeapBound /\ HeapBound \in Nat
  BY CowAssumption DEF Entries, Pages, Tables, Dir, KStack, CodeLo, HeapLo, HeapHi, HeapBound

(* A frame with no owner has no holder. *)
LEMMA FreshUnheld ==
  ASSUME FrameInv, NEW f \in Frames, refcount[f] = 0
  PROVE  \A s \in Spaces, e \in Entries : frame[s][e] # f
  <1>1. Cardinality(Sharers(f)) = 0
    BY SpacesFinite DEF FrameInv, RefCovers
  <1>2. Sharers(f) = {}
    BY <1>1, SpacesFinite, FS_EmptySet
  <1>3. QED
    BY <1>2 DEF Sharers

(* Sharers lose a space, gain one, or only shrink. *)
LEMMA CardShrinks ==
  ASSUME NEW A, NEW B, IsFiniteSet(B), A \subseteq B
  PROVE  Cardinality(A) <= Cardinality(B) /\ Cardinality(A) \in Nat /\ Cardinality(B) \in Nat
  BY FS_Subset, FS_CardinalityType

(* A holder that leaves lowers the number of holders by one. *)
LEMMA CardLoses ==
  ASSUME NEW A, NEW B, IsFiniteSet(B), NEW x \in B, A \subseteq B \ {x}
  PROVE  Cardinality(A) <= Cardinality(B) - 1
  <1>1. IsFiniteSet(B \ {x}) /\ Cardinality(B \ {x}) = Cardinality(B) - 1
    BY FS_RemoveElement
  <1>2. QED
    BY <1>1, CardShrinks

(* A new holder raises the number of holders by at most one. *)
LEMMA CardGains ==
  ASSUME NEW A, NEW B, IsFiniteSet(B), NEW x, A \subseteq B \cup {x}
  PROVE  Cardinality(A) <= Cardinality(B) + 1
  <1>1. IsFiniteSet(B \cup {x}) /\ Cardinality(B \cup {x}) <= Cardinality(B) + 1
    <2>1. Cardinality(B) \in Nat
      BY FS_CardinalityType
    <2>2. /\ IsFiniteSet(B \cup {x})
          /\ Cardinality(B \cup {x}) = IF x \in B THEN Cardinality(B) ELSE Cardinality(B) + 1
      BY FS_AddElement
    <2>3. QED
      BY <2>1, <2>2
  <1>2. QED
    BY <1>1, CardShrinks, FS_CardinalityType

-----------------------------------------------------------------------------
(* A step that allocates, frees and maps nothing. *)
LEMMA IdleKeeps ==
  ASSUME FrameInv, UNCHANGED <<pmmVars, spaceVars>>
  PROVE  FrameInv' /\ KeepsPrivate
  BY DEF FrameInv, PmmTypeOK, PoolSound, Free, Pooled, EntryTypeOK, RefCovers, Sharers, Aligned,
         SoleWriter, KernelFramesPrivate, KeepsPrivate, PagesPrivate, pmmVars, spaceVars

(* A fresh frame is mapped: it has one owner and one holder. *)
LEMMA InstallKeeps ==
  ASSUME FrameInv, NEW s \in Spaces, NEW e \in Entries, NEW f, PmmAlloc(f), Install(s, e, f)
  PROVE  FrameInv' /\ KeepsPrivate
  <1>1. /\ PmmTypeOK' /\ PoolSound'
        /\ f \in Frames /\ refcount[f] = 0
        /\ refcount' = [refcount EXCEPT ![f] = 1]
    BY AllocSound DEF FrameInv
  <1>2. \A t \in Spaces, d \in Entries : frame[t][d] # f
    BY <1>1, FreshUnheld
  <1>3. /\ \A t \in Spaces, d \in Entries :
             /\ frame'[t][d] = IF t = s /\ d = e THEN f ELSE frame[t][d]
             /\ rw'[t][d] = IF t = s /\ d = e THEN e \in Pages ELSE rw[t][d]
        /\ EntryTypeOK'
    BY <1>1 DEF Install, FrameInv, EntryTypeOK, MaybeFrame, Frames
  <1>4. f # 0
    BY <1>1 DEF Frames
  <1>5. RefCovers'
    <2>1. Sharers(f)' \subseteq {s}
      BY <1>2, <1>3 DEF Sharers
    <2>2. Cardinality(Sharers(f)') <= 1
      <3>1. IsFiniteSet({s}) /\ Cardinality({s}) = 1
        BY FS_Singleton
      <3>2. QED
        BY <2>1, <3>1, CardShrinks
    <2>3. ASSUME NEW g \in Frames, g # f
          PROVE  Cardinality(Sharers(g)') <= refcount'[g]
      <3>1. Sharers(g)' \subseteq Sharers(g)
        BY <1>3, <2>3 DEF Sharers
      <3>2. Cardinality(Sharers(g)') <= Cardinality(Sharers(g))
            /\ Cardinality(Sharers(g)') \in Nat /\ Cardinality(Sharers(g)) \in Nat
        BY <3>1, SpacesFinite, CardShrinks
      <3>3. refcount'[g] = refcount[g] /\ refcount[g] \in Nat /\ Cardinality(Sharers(g)) <= refcount[g]
        BY <1>1, <2>3 DEF FrameInv, PmmTypeOK, RefCovers
      <3>4. QED
        BY <3>2, <3>3
    <2>4. refcount'[f] = 1
      BY <1>1 DEF FrameInv, PmmTypeOK
    <2>5. QED
      BY <2>2, <2>3, <2>4 DEF RefCovers
  <1>6. Aligned'
    BY <1>2, <1>3, <1>4 DEF FrameInv, Aligned
  <1>7. SoleWriter'
    <2>1. SUFFICES ASSUME NEW t \in Spaces, NEW u \in Spaces, NEW d \in Pages,
                          frame'[t][d] # 0, rw'[t][d], frame'[u][d] = frame'[t][d]
                   PROVE  t = u
      BY DEF SoleWriter
    <2>2. d \in Entries
      BY EntryNumbers
    <2>3. CASE t = s /\ d = e
      BY <1>2, <1>3, <2>1, <2>2, <2>3
    <2>4. CASE ~(t = s /\ d = e)
      BY <1>2, <1>3, <2>1, <2>2, <2>4 DEF FrameInv, SoleWriter
    <2>5. QED
      BY <2>3, <2>4
  <1>8. KernelFramesPrivate'
    BY <1>2, <1>3, <1>4 DEF FrameInv, KernelFramesPrivate
  <1>9. KeepsPrivate
    BY <1>2, <1>3, <1>4, EntryNumbers DEF KeepsPrivate, PagesPrivate
  <1>10. QED
    BY <1>1, <1>3, <1>5, <1>6, <1>7, <1>8, <1>9 DEF FrameInv

(* A frame is taken that no entry holds: mmap past the heap window. *)
LEMMA TakenKeeps ==
  ASSUME FrameInv, NEW f, PmmAlloc(f), UNCHANGED spaceVars
  PROVE  FrameInv' /\ KeepsPrivate
  <1>1. /\ PmmTypeOK' /\ PoolSound'
        /\ f \in Frames /\ refcount[f] = 0
        /\ refcount' = [refcount EXCEPT ![f] = 1]
    BY AllocSound DEF FrameInv
  <1>2. \A g : Sharers(g)' = Sharers(g)
    BY DEF Sharers, spaceVars
  <1>3. RefCovers'
    <2>1. ASSUME NEW g \in Frames PROVE refcount[g] \in Nat /\ refcount'[g] >= refcount[g]
      BY <1>1 DEF FrameInv, PmmTypeOK
    <2>2. QED
      BY <1>2, <2>1, SpacesFinite, <1>1 DEF FrameInv, RefCovers, PmmTypeOK
  <1>4. QED
    BY <1>1, <1>3 DEF FrameInv, EntryTypeOK, Aligned, SoleWriter, KernelFramesPrivate,
                      KeepsPrivate, PagesPrivate, spaceVars

(* An entry is cleared and its frame loses an owner. *)
LEMMA DropKeeps ==
  ASSUME FrameInv, NEW s \in Spaces, NEW e \in Entries, Drop(s, e)
  PROVE  FrameInv' /\ KeepsPrivate
  <1> DEFINE f == frame[s][e]
  <1>1. f \in MaybeFrame /\ PmmFree(f)
    BY DEF Drop, FrameInv, EntryTypeOK
  <1>2. /\ PmmTypeOK' /\ PoolSound'
        /\ \A g \in Frames : refcount'[g] = IF g = f /\ refcount[g] # 0
                                            THEN refcount[g] - 1 ELSE refcount[g]
    BY <1>1, FreeSound DEF FrameInv
  <1>3. /\ EntryTypeOK'
        /\ frame'[s][e] = 0 /\ rw'[s][e] = FALSE
        /\ \A t \in Spaces, d \in Entries :
             ~(t = s /\ d = e) => frame'[t][d] = frame[t][d] /\ rw'[t][d] = rw[t][d]
    <2>1. /\ frame' = [frame EXCEPT ![s] = [frame[s] EXCEPT ![e] = 0]]
          /\ rw' = [rw EXCEPT ![s] = [rw[s] EXCEPT ![e] = FALSE]]
          /\ cow' = [cow EXCEPT ![s] = [cow[s] EXCEPT ![e] = FALSE]]
      BY DEF Drop
    <2>2. 0 \in MaybeFrame
      BY PmmAssumption DEF MaybeFrame
    <2>3. EntryTypeOK'
      BY <2>1, <2>2 DEF FrameInv, EntryTypeOK
    <2>4. QED
      BY <2>1, <2>3 DEF FrameInv, EntryTypeOK
  <1>4. RefCovers'
    <2>1. SUFFICES ASSUME NEW g \in Frames PROVE Cardinality(Sharers(g)') <= refcount'[g]
      BY DEF RefCovers
    <2>2. g # 0 /\ refcount[g] \in Nat /\ Cardinality(Sharers(g)) <= refcount[g]
      BY DEF Frames, FrameInv, PmmTypeOK, RefCovers
    <2>3. Sharers(g)' \subseteq Sharers(g)
      BY <1>3, <2>2 DEF Sharers
    <2>4. CASE g = f
      <3>1. s \in Sharers(g) /\ s \notin Sharers(g)'
        <4>1. frame[s][e] = g
          BY <2>4
        <4>2. \A d \in Entries : d # e => frame[s][d] # g
          BY <2>2, <4>1 DEF FrameInv, Aligned
        <4>3. \A d \in Entries : frame'[s][d] # g
          BY <1>3, <2>2, <4>2
        <4>4. QED
          BY <4>1, <4>3 DEF Sharers
      <3>2. Cardinality(Sharers(g)') <= Cardinality(Sharers(g)) - 1
        BY <2>3, <3>1, SpacesFinite, CardLoses
      <3>3. Cardinality(Sharers(g)') \in Nat /\ Cardinality(Sharers(g)) \in Nat
        BY <2>3, SpacesFinite, CardShrinks
      <3>4. refcount[g] # 0
        BY <2>2, <3>2, <3>3
      <3>5. refcount'[g] = refcount[g] - 1
        BY <1>2, <2>4, <3>4
      <3> HIDE DEF f
      <3>6. QED
        BY <2>2, <3>2, <3>3, <3>5
    <2>5. CASE g # f
      <3>1. Cardinality(Sharers(g)') <= Cardinality(Sharers(g))
            /\ Cardinality(Sharers(g)') \in Nat /\ Cardinality(Sharers(g)) \in Nat
        BY <2>3, SpacesFinite, CardShrinks
      <3>2. refcount'[g] = refcount[g]
        BY <1>2, <2>5
      <3> HIDE DEF f
      <3>3. QED
        BY <2>2, <3>1, <3>2
    <2>6. QED
      BY <2>4, <2>5
  <1>10. \A t \in Spaces, d \in Entries :
           /\ frame'[t][d] # 0 => frame'[t][d] = frame[t][d] /\ frame[t][d] # 0
           /\ rw'[t][d] => rw[t][d]
    BY <1>3
  <1>5. Aligned'
    BY <1>10 DEF FrameInv, Aligned
  <1>6. SoleWriter'
    BY <1>10, EntryNumbers DEF FrameInv, SoleWriter
  <1>7. KernelFramesPrivate'
    BY <1>10 DEF FrameInv, KernelFramesPrivate
  <1>8. KeepsPrivate
    <2>1. SUFFICES ASSUME NEW x \in Spaces, PagesPrivate(x), NEW u \in Spaces, NEW c \in Pages,
                          frame'[x][c] # 0, frame'[u][c] = frame'[x][c]
                   PROVE  x = u
      BY DEF KeepsPrivate, PagesPrivate
    <2>2. c \in Entries
      BY EntryNumbers
    <2>3. frame[x][c] # 0 /\ frame[u][c] = frame[x][c]
      BY <1>10, <2>1, <2>2
    <2>4. QED
      BY <2>1, <2>3 DEF PagesPrivate
  <1>9. QED
    BY <1>2, <1>3, <1>4, <1>5, <1>6, <1>7, <1>8 DEF FrameInv

(* fork shares a page: both sides lose PG_RW and the count goes up, so that *)
(* neither can write without a fault that sees the other.                   *)
LEMMA ShareKeeps ==
  ASSUME FrameInv, NEW s \in Spaces, NEW d \in Spaces, s # d, NEW e \in Pages,
         frame[s][e] # 0, Share(s, d, e)
  PROVE  /\ FrameInv'
         /\ \A x \in Spaces : x # s /\ x # d /\ PagesPrivate(x) => PagesPrivate(x)'
  <1> DEFINE f == frame[s][e]
  <1>1. f \in Frames /\ e \in Entries
    BY EntryNumbers DEF FrameInv, EntryTypeOK, MaybeFrame, Frames
  <1>2. /\ refcount' = [refcount EXCEPT ![f] = RefAfterInc(@)]
        /\ next_frame' = next_frame /\ free_list' = free_list
    BY DEF Share, PmmRefInc
  <1>3. /\ refcount' \in [Frames -> 0 .. RefMax]
        /\ refcount[f] \in 0 .. RefMax
        /\ refcount'[f] = IF refcount[f] < RefMax THEN refcount[f] + 1 ELSE refcount[f]
        /\ \A g \in Frames : g # f => refcount'[g] = refcount[g]
    BY <1>1, <1>2, PmmAssumption DEF FrameInv, PmmTypeOK, RefAfterInc
  <1>4. /\ EntryTypeOK'
        /\ frame'[d][e] = f /\ rw'[d][e] = FALSE /\ rw'[s][e] = FALSE
        /\ \A t \in Spaces, c \in Entries :
             /\ ~(t = d /\ c = e) => frame'[t][c] = frame[t][c]
             /\ rw'[t][c] => rw[t][c] /\ ~(t = s /\ c = e) /\ ~(t = d /\ c = e)
    <2>1. /\ frame' = [frame EXCEPT ![d] = [frame[d] EXCEPT ![e] = f]]
          /\ rw' = [rw EXCEPT ![s] = [rw[s] EXCEPT ![e] = FALSE],
                              ![d] = [rw[d] EXCEPT ![e] = FALSE]]
      BY DEF Share
    <2>2. cow' \in [Spaces -> [Entries -> BOOLEAN]]
      BY <1>1 DEF Share, FrameInv, EntryTypeOK
    <2>3. EntryTypeOK'
      <3>1. f \in MaybeFrame
        BY <1>1 DEF FrameInv, EntryTypeOK
      <3>2. frame' \in [Spaces -> [Entries -> MaybeFrame]]
        BY <1>1, <2>1, <3>1 DEF FrameInv, EntryTypeOK
      <3>3. rw' \in [Spaces -> [Entries -> BOOLEAN]]
        BY <1>1, <2>1 DEF FrameInv, EntryTypeOK
      <3>4. QED
        BY <2>2, <3>2, <3>3 DEF EntryTypeOK
    <2>4. QED
      BY <1>1, <2>1, <2>3 DEF FrameInv, EntryTypeOK
  <1> HIDE DEF f
  <1>5. f # 0 /\ frame[s][e] = f
    BY <1>1 DEF Frames, f
  <1>6. Cardinality(Sharers(f)) \in Nat /\ Cardinality(Sharers(f)) >= 1
    <2>1. s \in Sharers(f)
      BY <1>1, <1>5 DEF Sharers
    <2>2. Cardinality(Sharers(f)) # 0
      BY <2>1, SpacesFinite, FS_EmptySet
    <2>3. QED
      BY <2>2, SpacesFinite
  <1>7. PmmTypeOK' /\ PoolSound'
    <2>1. \A g \in Frames : Free(g)' <=> Free(g)
      BY <1>2 DEF Free, Pooled
    <2>2. refcount[f] # 0
      BY <1>1, <1>3, <1>6 DEF FrameInv, RefCovers
    <2>3. \A g \in Frames : Free(g)' => refcount'[g] = 0
      BY <1>1, <1>3, <2>1, <2>2 DEF FrameInv, PoolSound
    <2>4. QED
      BY <1>2, <1>3, <2>3 DEF FrameInv, PmmTypeOK, PoolSound
  <1>8. RefCovers'
    <2>1. SUFFICES ASSUME NEW g \in Frames PROVE Cardinality(Sharers(g)') <= refcount'[g]
      BY DEF RefCovers
    <2>2. Cardinality(Sharers(g)) <= refcount[g] /\ Cardinality(Sharers(g)) \in Nat
          /\ refcount[g] \in Nat /\ RefMax \in Nat
      BY SpacesFinite, PmmAssumption DEF FrameInv, RefCovers, PmmTypeOK
    <2>3. CASE g = f
      <3>1. Sharers(g)' \subseteq Sharers(g) \cup {d}
        BY <1>4, <2>3 DEF Sharers
      <3>2. Cardinality(Sharers(g)') <= Cardinality(Sharers(g)) + 1
        BY <3>1, SpacesFinite, CardGains
      <3>3. Sharers(g)' \subseteq Spaces
        BY DEF Sharers
      <3>4. /\ Cardinality(Sharers(g)') <= Cardinality(Spaces)
            /\ Cardinality(Sharers(g)') \in Nat /\ Cardinality(Spaces) \in Nat
        BY <3>3, SpacesFinite, CardShrinks
      <3>5. Cardinality(Sharers(g)') <= RefMax
        BY <2>2, <3>4, CowAssumption
      <3>6. QED
        BY <1>3, <2>2, <2>3, <3>2, <3>4, <3>5
    <2>4. CASE g # f
      <3>1. Sharers(g)' \subseteq Sharers(g)
        BY <1>4, <2>4 DEF Sharers
      <3>2. Cardinality(Sharers(g)') <= Cardinality(Sharers(g)) /\ Cardinality(Sharers(g)') \in Nat
        BY <3>1, SpacesFinite, CardShrinks
      <3>3. refcount'[g] = refcount[g]
        BY <1>3, <2>4
      <3>4. QED
        BY <2>2, <3>2, <3>3
    <2>5. QED
      BY <2>3, <2>4
  <1>9. Aligned'
    BY <1>1, <1>4, <1>5 DEF FrameInv, Aligned
  <1>10. SoleWriter'
    <2>1. SUFFICES ASSUME NEW t \in Spaces, NEW u \in Spaces, NEW c \in Pages,
                          frame'[t][c] # 0, rw'[t][c], frame'[u][c] = frame'[t][c]
                   PROVE  t = u
      BY DEF SoleWriter
    <2>2. c \in Entries
      BY EntryNumbers
    <2>3. rw[t][c] /\ ~(t = s /\ c = e) /\ ~(t = d /\ c = e) /\ frame'[t][c] = frame[t][c]
      BY <1>4, <2>1, <2>2
    <2>4. CASE u = d /\ c = e
      BY <1>4, <1>5, <2>1, <2>3, <2>4 DEF FrameInv, SoleWriter
    <2>5. CASE ~(u = d /\ c = e)
      BY <1>4, <2>1, <2>2, <2>3, <2>5 DEF FrameInv, SoleWriter
    <2>6. QED
      BY <2>4, <2>5
  <1>11. KernelFramesPrivate'
    BY <1>1, <1>4 DEF FrameInv, KernelFramesPrivate
  <1>12. ASSUME NEW x \in Spaces, x # s, x # d, PagesPrivate(x)
         PROVE  PagesPrivate(x)'
    <2>1. SUFFICES ASSUME NEW u \in Spaces, NEW c \in Pages,
                          frame'[x][c] # 0, frame'[u][c] = frame'[x][c]
                   PROVE  x = u
      BY DEF PagesPrivate
    <2>2. c \in Entries /\ frame'[x][c] = frame[x][c]
      BY <1>4, <1>12, EntryNumbers
    <2>3. CASE u = d /\ c = e
      BY <1>4, <1>5, <1>12, <2>1, <2>2, <2>3 DEF PagesPrivate
    <2>4. CASE ~(u = d /\ c = e)
      BY <1>4, <1>12, <2>1, <2>2, <2>4 DEF PagesPrivate
    <2>5. QED
      BY <2>3, <2>4
  <1>13. QED
    BY <1>4, <1>7, <1>8, <1>9, <1>10, <1>11, <1>12 DEF FrameInv

(* Page permissions change on pages that nobody else maps. *)
LEMMA PermissionKeeps ==
  ASSUME FrameInv, UNCHANGED <<pmmVars, frame>>, NEW s \in Spaces, NEW e \in Entries, NEW w \in BOOLEAN,
         \A t \in Spaces : e \in Pages /\ frame[t][e] = frame[s][e] /\ frame[s][e] # 0 => t = s,
         rw' = [rw EXCEPT ![s][e] = w], cow' = [cow EXCEPT ![s][e] = FALSE]
  PROVE  FrameInv' /\ KeepsPrivate
  <1>1. /\ EntryTypeOK'
        /\ \A t \in Spaces, c \in Entries : ~(t = s /\ c = e) => rw'[t][c] = rw[t][c]
    BY DEF FrameInv, EntryTypeOK
  <1>2. PmmTypeOK' /\ PoolSound' /\ RefCovers' /\ Aligned' /\ KernelFramesPrivate'
    BY DEF FrameInv, PmmTypeOK, PoolSound, Free, Pooled, RefCovers, Sharers, Aligned,
           KernelFramesPrivate, pmmVars
  <1>3. SoleWriter'
    <2>1. SUFFICES ASSUME NEW t \in Spaces, NEW u \in Spaces, NEW c \in Pages,
                          frame[t][c] # 0, rw'[t][c], frame[u][c] = frame[t][c]
                   PROVE  t = u
      BY DEF SoleWriter
    <2>2. c \in Entries
      BY EntryNumbers
    <2>3. CASE t = s /\ c = e
      BY <2>1, <2>3
    <2>4. CASE ~(t = s /\ c = e)
      BY <1>1, <2>1, <2>2, <2>4 DEF FrameInv, SoleWriter
    <2>5. QED
      BY <2>3, <2>4
  <1>4. KeepsPrivate
    BY DEF KeepsPrivate, PagesPrivate
  <1>5. QED
    BY <1>1, <1>2, <1>3, <1>4 DEF FrameInv

(* The reasoning of paging_handle_cow_fault(): a frame with one owner on    *)
(* record has no other holder.                                              *)
LEMMA LastOwnerIsAlone ==
  ASSUME FrameInv, NEW s \in Spaces, NEW t \in Spaces, NEW d \in Entries, NEW e \in Entries,
         NEW f \in Frames, frame[s][d] = f, frame[t][e] = f, refcount[f] <= 1
  PROVE  t = s
  <1>1. SUFFICES ASSUME t # s PROVE FALSE
    OBVIOUS
  <1>2. s \in Sharers(f) /\ {t} \subseteq Sharers(f) \ {s}
    BY <1>1 DEF Sharers
  <1>3. Cardinality({t}) <= Cardinality(Sharers(f)) - 1
    BY <1>2, SpacesFinite, CardLoses
  <1>4. Cardinality({t}) = 1
    BY FS_Singleton
  <1>5. Cardinality(Sharers(f)) <= refcount[f] /\ refcount[f] \in Nat /\ Cardinality(Sharers(f)) \in Nat
    BY SpacesFinite DEF FrameInv, RefCovers, PmmTypeOK
  <1>6. QED
    BY <1>3, <1>4, <1>5

(* paging_handle_cow_fault, last owner: PG_RW comes back to a page nobody   *)
(* else maps.                                                               *)
LEMMA LiftKeeps ==
  ASSUME FrameInv, page_pdpt \in Spaces, NEW p, NEW e \in Pages, CowLift(p, e)
  PROVE  FrameInv' /\ KeepsPrivate
  <1> DEFINE s == page_pdpt
             f == frame[s][e]
  <1>1. /\ f \in Frames /\ refcount[f] <= 1 /\ e \in Entries
        /\ rw' = [rw EXCEPT ![s][e] = TRUE] /\ cow' = [cow EXCEPT ![s][e] = FALSE]
        /\ UNCHANGED <<pmmVars, frame>>
    BY EntryNumbers DEF CowLift, CowPage, FrameInv, EntryTypeOK, MaybeFrame, Frames
  <1>2. \A t \in Spaces : frame[t][e] = frame[s][e] => t = s
    BY <1>1, LastOwnerIsAlone
  <1>3. QED
    BY <1>1, <1>2, PermissionKeeps

(* paging_handle_cow_fault, other owners left: the page moves to a fresh    *)
(* frame.                                                                   *)
LEMMA CopyKeeps ==
  ASSUME FrameInv, page_pdpt \in Spaces, NEW p, NEW e \in Pages, CowCopy(p, e)
  PROVE  FrameInv' /\ KeepsPrivate /\ NextFree \in Frames /\ frame[page_pdpt][e] \in Frames
  <1> DEFINE s == page_pdpt
             old == frame[s][e]
             f == NextFree
  <1>1. /\ old \in Frames /\ refcount[old] > 1 /\ e \in Entries
        /\ CanAlloc /\ Take
        /\ refcount' = [refcount EXCEPT ![old] = @ - 1, ![f] = 1]
        /\ frame' = [frame EXCEPT ![s] = [frame[s] EXCEPT ![e] = f]]
        /\ rw' = [rw EXCEPT ![s] = [rw[s] EXCEPT ![e] = TRUE]]
        /\ cow' = [cow EXCEPT ![s] = [cow[s] EXCEPT ![e] = FALSE]]
    BY EntryNumbers DEF CowCopy, CowPage, FrameInv, EntryTypeOK, MaybeFrame, Frames
  <1>2. /\ f \in Frames
        /\ refcount[f] = 0
        /\ next_frame' \in 1 .. NFrames + 1
        /\ free_list' \in Seq(Frames)
        /\ \A g \in Frames : Free(g)' <=> Free(g) /\ g # f
        /\ \A i, j \in 1 .. Len(free_list') : free_list'[i] = free_list'[j] => i = j
        /\ \A i \in 1 .. Len(free_list') : free_list'[i] < next_frame'
    BY <1>1, AllocFresh DEF FrameInv
  <1>3. /\ refcount' \in [Frames -> 0 .. RefMax]
        /\ refcount'[f] = 1
        /\ refcount'[old] = refcount[old] - 1
        /\ \A g \in Frames : g # f /\ g # old => refcount'[g] = refcount[g]
    <2>1. /\ refcount \in [Frames -> 0 .. RefMax] /\ RefMax \in Nat \ {0}
          /\ refcount[old] \in 0 .. RefMax
      BY <1>1, PmmAssumption DEF FrameInv, PmmTypeOK
    <2>2. old # f /\ refcount[old] - 1 \in 0 .. RefMax /\ 1 \in 0 .. RefMax
      BY <1>1, <1>2, <2>1
    <2> HIDE DEF old, f
    <2>3. QED
      BY <1>1, <1>2, <2>1, <2>2
  <1>4. PmmTypeOK' /\ PoolSound'
    <2>1. ~Free(old)
      BY <1>1 DEF FrameInv, PoolSound
    <2>2. \A g \in Frames : Free(g)' => refcount'[g] = 0
      BY <1>2, <1>3, <2>1 DEF FrameInv, PoolSound
    <2>3. QED
      BY <1>2, <1>3, <2>2 DEF PmmTypeOK, PoolSound
  <1>5. \A t \in Spaces, d \in Entries : frame[t][d] # f
    BY <1>2, FreshUnheld
  <1>6. /\ EntryTypeOK'
        /\ frame'[s][e] = f
        /\ \A t \in Spaces, d \in Entries :
             ~(t = s /\ d = e) => frame'[t][d] = frame[t][d] /\ rw'[t][d] = rw[t][d]
    <2>1. f \in MaybeFrame
      BY <1>2 DEF MaybeFrame, Frames
    <2>2. EntryTypeOK'
      BY <1>1, <2>1 DEF FrameInv, EntryTypeOK
    <2>3. QED
      BY <1>1, <2>2 DEF FrameInv, EntryTypeOK
  <1>7. f # 0 /\ old # 0 /\ frame[s][e] = old
    BY <1>1, <1>2 DEF Frames
  <1> HIDE DEF old, f, s
  <1>8. RefCovers'
    <2>1. SUFFICES ASSUME NEW g \in Frames PROVE Cardinality(Sharers(g)') <= refcount'[g]
      BY DEF RefCovers
    <2>2. Cardinality(Sharers(g)) <= refcount[g] /\ Cardinality(Sharers(g)) \in Nat /\ refcount[g] \in Nat
      BY SpacesFinite DEF FrameInv, RefCovers, PmmTypeOK
    <2>3. CASE g = f
      <3>1. Sharers(g)' \subseteq {s}
        BY <1>5, <1>6, <2>3 DEF Sharers
      <3>2. IsFiniteSet({s}) /\ Cardinality({s}) = 1
        BY FS_Singleton
      <3>3. Cardinality(Sharers(g)') <= 1
        BY <3>1, <3>2, CardShrinks
      <3>4. QED
        BY <1>3, <2>3, <3>3
    <2>4. CASE g = old
      <3>1. s \in Sharers(g) /\ s \in Spaces
        BY <1>1, <1>7, <2>4 DEF Sharers, s
      <3>2. \A d \in Entries : d # e => frame[s][d] # g
        BY <1>1, <1>7, <2>4, <3>1 DEF FrameInv, Aligned
      <3>3. g # f
        BY <1>5, <1>1, <1>7, <2>4, <3>1
      <3>4. Sharers(g)' \subseteq Sharers(g) \ {s}
        BY <1>6, <3>2, <3>3 DEF Sharers
      <3>5. Cardinality(Sharers(g)') <= Cardinality(Sharers(g)) - 1
        BY <3>1, <3>4, SpacesFinite, CardLoses
      <3>6. Cardinality(Sharers(g)') \in Nat
        BY <3>4, SpacesFinite, CardShrinks
      <3>7. QED
        BY <1>3, <2>2, <2>4, <3>5, <3>6
    <2>5. CASE g # f /\ g # old
      <3>1. Sharers(g)' \subseteq Sharers(g)
        BY <1>6, <2>5 DEF Sharers
      <3>2. Cardinality(Sharers(g)') <= Cardinality(Sharers(g)) /\ Cardinality(Sharers(g)') \in Nat
        BY <3>1, SpacesFinite, CardShrinks
      <3>3. QED
        BY <1>3, <2>2, <2>5, <3>2
    <2>6. QED
      BY <2>3, <2>4, <2>5
  <1>9. Aligned'
    BY <1>5, <1>6, <1>7 DEF FrameInv, Aligned
  <1>10. SoleWriter'
    <2>1. SUFFICES ASSUME NEW t \in Spaces, NEW u \in Spaces, NEW c \in Pages,
                          frame'[t][c] # 0, rw'[t][c], frame'[u][c] = frame'[t][c]
                   PROVE  t = u
      BY DEF SoleWriter
    <2>2. c \in Entries
      BY EntryNumbers
    <2>3. CASE t = s /\ c = e
      BY <1>5, <1>6, <2>1, <2>2, <2>3
    <2>4. CASE ~(t = s /\ c = e)
      BY <1>5, <1>6, <2>1, <2>2, <2>4 DEF FrameInv, SoleWriter
    <2>5. QED
      BY <2>3, <2>4
  <1>11. KernelFramesPrivate'
    BY <1>5, <1>6, <1>7 DEF FrameInv, KernelFramesPrivate
  <1>12. KeepsPrivate
    BY <1>5, <1>6, <1>7, EntryNumbers DEF KeepsPrivate, PagesPrivate
  <1>13. QED
    BY <1>1, <1>2, <1>4, <1>6, <1>8, <1>9, <1>10, <1>11, <1>12 DEF FrameInv, f, old, s

(* The spaces of a reaped process are forgotten and its kernel stack freed. *)
LEMMA ForgetKeeps ==
  ASSUME FrameInv, NEW q \in Procs, PmmFree(frame[<<q, 0>>][KStack]), Forget(q)
  PROVE  FrameInv' /\ KeepsPrivate
  <1> DEFINE s == <<q, 0>>
             f == frame[s][KStack]
  <1>1. s \in Spaces /\ KStack \in Entries
    BY EntryNumbers DEF Spaces, Gens
  <1>2. f \in MaybeFrame
    BY <1>1 DEF FrameInv, EntryTypeOK
  <1>3. /\ PmmTypeOK' /\ PoolSound'
        /\ \A g \in Frames : refcount'[g] = IF g = f /\ refcount[g] # 0
                                            THEN refcount[g] - 1 ELSE refcount[g]
    BY <1>2, FreeSound DEF FrameInv
  <1>4. 0 \in MaybeFrame
    BY PmmAssumption DEF MaybeFrame
  <1>5. EntryTypeOK'
    BY <1>4 DEF Forget, FrameInv, EntryTypeOK, NoEntries, NoFlags
  <1>6. \A t \in Spaces, d \in Entries :
          /\ frame'[t][d] # 0 => frame'[t][d] = frame[t][d] /\ frame[t][d] # 0 /\ t # s
          /\ rw'[t][d] => rw[t][d]
    BY DEF Forget, NoEntries, NoFlags
  <1>7. frame[s][KStack] = f
    OBVIOUS
  <1> HIDE DEF s, f
  <1>8. RefCovers'
    <2>1. SUFFICES ASSUME NEW g \in Frames PROVE Cardinality(Sharers(g)') <= refcount'[g]
      BY DEF RefCovers
    <2>2. /\ Cardinality(Sharers(g)) <= refcount[g] /\ Cardinality(Sharers(g)) \in Nat
          /\ refcount[g] \in Nat /\ g # 0
      BY SpacesFinite DEF FrameInv, RefCovers, PmmTypeOK, Frames
    <2>3. Sharers(g)' \subseteq Sharers(g) \ {s}
      BY <1>6, <2>2 DEF Sharers
    <2>4. Cardinality(Sharers(g)') <= Cardinality(Sharers(g)) /\ Cardinality(Sharers(g)') \in Nat
      <3>1. Sharers(g)' \subseteq Sharers(g)
        BY <2>3
      <3>2. QED
        BY <3>1, SpacesFinite, CardShrinks
    <2>5. CASE g = f
      <3>1. s \in Sharers(g)
        BY <1>1, <1>7, <2>5 DEF Sharers
      <3>2. Cardinality(Sharers(g)') <= Cardinality(Sharers(g)) - 1
        BY <2>3, <3>1, SpacesFinite, CardLoses
      <3>3. QED
        BY <1>3, <2>2, <2>4, <2>5, <3>2
    <2>6. CASE g # f
      BY <1>3, <2>2, <2>4, <2>6
    <2>7. QED
      BY <2>5, <2>6
  <1>9. Aligned'
    BY <1>6 DEF FrameInv, Aligned
  <1>10. SoleWriter'
    BY <1>6, EntryNumbers DEF FrameInv, SoleWriter
  <1>11. KernelFramesPrivate'
    BY <1>6 DEF FrameInv, KernelFramesPrivate
  <1>12. KeepsPrivate
    BY <1>6, EntryNumbers DEF KeepsPrivate, PagesPrivate
  <1>13. QED
    BY <1>3, <1>5, <1>8, <1>9, <1>10, <1>11, <1>12 DEF FrameInv

-----------------------------------------------------------------------------
(* The inductive invariant. *)

ControlTypeOK ==
  /\ mem \in [Frames -> Values]
  /\ state \in [Procs -> {"unused", "embryo", "ready", "zombie"}]
  /\ parent \in [Procs -> 0 .. NProcs]
  /\ cr3 \in [Procs -> Gens]
  /\ running \in Procs
  /\ page_pdpt \in Spaces
  /\ user_heap_next \in HeapLo .. HeapBound
  /\ at \in [Procs -> [pc : Places, e : Nat, lim : Nat, base : Nat, child : 0 .. NProcs]]

IInv == FrameInv /\ ControlTypeOK /\ StagedPrivate /\ CallsInProgress

(* A process has two spaces: the one it runs in and the one exec builds. *)
LEMMA SpaceNames ==
  ASSUME ControlTypeOK, NEW p \in Procs
  PROVE  Mine(p) \in Spaces /\ Staged(p) \in Spaces /\ Mine(p) # Staged(p)
  BY DEF ControlTypeOK, Mine, Staged, Spaces, Gens

(* Steps that leave the PCBs' cr3 alone keep the staged spaces private. *)
LEMMA KeepsStaged ==
  ASSUME ControlTypeOK, StagedPrivate, KeepsPrivate, cr3' = cr3
  PROVE  StagedPrivate'
  BY SpaceNames DEF StagedPrivate, KeepsPrivate, Staged

(* MapNext, Unmap and Fill, the steps that several calls share. *)
LEMMA MapNextKeeps ==
  ASSUME IInv, MapNext
  PROVE  FrameInv' /\ StagedPrivate'
  <1>1. PICK f \in Frames :
          /\ PmmAlloc(f)
          /\ \/ user_heap_next < HeapHi /\ Install(page_pdpt, user_heap_next, f)
             \/ user_heap_next >= HeapHi /\ UNCHANGED spaceVars
          /\ cr3' = cr3
    BY DEF MapNext, procVars
  <1>2. FrameInv /\ ControlTypeOK /\ StagedPrivate /\ page_pdpt \in Spaces
    BY DEF IInv, ControlTypeOK
  <1>3. FrameInv' /\ KeepsPrivate
    <2>1. CASE user_heap_next < HeapHi
      <3>1. user_heap_next \in Entries
        BY <1>2, <2>1, EntryNumbers DEF ControlTypeOK, Entries, HeapLo, HeapHi, KStack, Dir
      <3>2. ~(user_heap_next >= HeapHi)
        BY <1>2, <2>1, EntryNumbers DEF ControlTypeOK, HeapLo, HeapHi, HeapBound
      <3>3. PmmAlloc(f) /\ Install(page_pdpt, user_heap_next, f)
        BY <1>1, <3>2
      <3>4. QED
        BY <1>2, <3>1, <3>3, InstallKeeps
    <2>2. CASE ~(user_heap_next < HeapHi)
      BY <1>1, <1>2, <2>2, TakenKeeps
    <2>3. QED
      BY <2>1, <2>2
  <1>4. QED
    BY <1>1, <1>2, <1>3, KeepsStaged

(* The frames part of the invariant under a step that touches no entry, *)
LEMMA IdleStep ==
  ASSUME IInv, UNCHANGED <<pmmVars, spaceVars>>, cr3' = cr3
  PROVE  FrameInv' /\ StagedPrivate'
  BY IdleKeeps, KeepsStaged DEF IInv

(* under a step that drops one entry, *)
LEMMA DropStep ==
  ASSUME IInv, NEW s \in Spaces, NEW e \in Entries, Drop(s, e), cr3' = cr3
  PROVE  FrameInv' /\ StagedPrivate'
  BY DropKeeps, KeepsStaged DEF IInv

(* under the unmapping of a heap page, *)
LEMMA UnmapKeeps ==
  ASSUME IInv, NEW e, Unmap(e), cr3' = cr3
  PROVE  FrameInv' /\ StagedPrivate'
  <1>1. page_pdpt \in Spaces
    BY DEF IInv, ControlTypeOK
  <1>2. CASE e \in Pages
    BY <1>1, <1>2, DropStep, EntryNumbers DEF Unmap
  <1>3. CASE e \notin Pages
    BY <1>3, IdleStep DEF Unmap
  <1>4. QED
    BY <1>2, <1>3

(* and under the allocation of one entry. *)
LEMMA FillKeeps ==
  ASSUME IInv, NEW s \in Spaces, NEW e \in Entries, Fill(s, e), cr3' = cr3
  PROVE  FrameInv' /\ StagedPrivate'
  <1>1. PICK f \in Frames : PmmAlloc(f) /\ Install(s, e, f)
    BY DEF Fill
  <1>2. FrameInv' /\ KeepsPrivate
    BY <1>1, InstallKeeps DEF IInv
  <1>3. QED
    BY <1>2, KeepsStaged DEF IInv

-----------------------------------------------------------------------------
(* Every step of user mode and of the heap calls keeps the frames sound. *)
LEMMA MemoryStepFrames ==
  ASSUME IInv, NEW p \in Procs, MemoryStep(p)
  PROVE  FrameInv' /\ StagedPrivate'
  <1> USE DEF NoChange, procVars
  <1>0. page_pdpt \in Spaces /\ FrameInv /\ ControlTypeOK /\ StagedPrivate
    BY DEF IInv, ControlTypeOK
  <1>1. ASSUME NEW e \in Pages, NEW x \in Values, Store(p, e, x) \/ FillBuffer(p, e, x)
        PROVE  FrameInv' /\ StagedPrivate'
    BY <1>1, IdleStep DEF Store, FillBuffer
  <1>2. ASSUME NEW e \in Pages, CowLift(p, e) PROVE FrameInv' /\ StagedPrivate'
    BY <1>0, <1>2, LiftKeeps, KeepsStaged DEF CowLift
  <1>3. ASSUME NEW e \in Pages, CowCopy(p, e) PROVE FrameInv' /\ StagedPrivate'
    BY <1>0, <1>3, CopyKeeps, KeepsStaged DEF CowCopy
  <1>4. CASE SysAlloc(p)
    BY <1>4, MapNextKeeps DEF SysAlloc
  <1>5. ASSUME NEW e, SysBrk(p, e) PROVE FrameInv' /\ StagedPrivate'
    BY <1>5, IdleStep DEF SysBrk
  <1>6. CASE BrkGrow(p)
    BY <1>6, MapNextKeeps, IdleStep DEF BrkGrow
  <1>7. CASE BrkShrink(p)
    BY <1>7, UnmapKeeps DEF BrkShrink
  <1>8. CASE BrkDone(p)
    BY <1>8, IdleStep DEF BrkDone
  <1>9. ASSUME NEW n, SysMmap(p, n) PROVE FrameInv' /\ StagedPrivate'
    BY <1>9, IdleStep DEF SysMmap
  <1>10. CASE MmapPage(p)
    BY <1>10, MapNextKeeps, IdleStep DEF MmapPage
  <1>11. CASE MmapDone(p)
    BY <1>11, IdleStep DEF MmapDone
  <1>12. CASE MmapUnwind(p)
    BY <1>12, UnmapKeeps, IdleStep DEF MmapUnwind
  <1>13. ASSUME NEW e, NEW n, SysMunmap(p, e, n) PROVE FrameInv' /\ StagedPrivate'
    BY <1>13, IdleStep DEF SysMunmap
  <1>14. CASE MunmapPage(p)
    BY <1>14, UnmapKeeps, IdleStep DEF MunmapPage
  <1>15. QED
    BY <1>1, <1>2, <1>3, <1>4, <1>5, <1>6, <1>7, <1>8, <1>9, <1>10, <1>11, <1>12, <1>13, <1>14
       DEF MemoryStep

(* The space fork builds is a space of another process. *)
LEMMA ChildSpace ==
  ASSUME IInv, NEW p \in Procs, Forking(p)
  PROVE  /\ at[p].child \in Procs /\ at[p].child # p
         /\ Child(p) \in Spaces /\ Child(p) = Mine(at[p].child)
         /\ \A q \in Procs : Child(p) # Staged(q)
         /\ Child(p) # Mine(p)
  BY DEF IInv, CallsInProgress, Child, Mine, Staged, Spaces, Gens, ControlTypeOK

(* No step of fork breaks the frames part. *)
LEMMA ForkStepFrames ==
  ASSUME IInv, NEW p \in Procs, ForkStep(p)
  PROVE  FrameInv' /\ StagedPrivate'
  <1> USE DEF NoChange, procVars
  <1>0. /\ FrameInv /\ ControlTypeOK /\ StagedPrivate
        /\ at[p].e \in Nat /\ KStack \in Entries /\ Dir \in Entries
    BY EntryNumbers DEF IInv, ControlTypeOK
  <1>1. CASE SysFork(p)
    <2>1. PICK q \in Unused : cr3' = [cr3 EXCEPT ![q] = 0] /\ UNCHANGED <<pmmVars, spaceVars>>
      BY <1>1 DEF SysFork
    <2>2. q \in Procs /\ cr3[q] = 0
      BY <2>1 DEF Unused, IInv, CallsInProgress
    <2>3. cr3' = cr3
      BY <1>0, <2>1, <2>2 DEF ControlTypeOK
    <2>4. QED
      BY <2>1, <2>3, IdleStep
  <1>2. CASE ForkStack(p)
    BY <1>0, <1>2, ChildSpace, FillKeeps, IdleStep DEF ForkStack, Runs, Forking
  <1>3. CASE ForkDir(p)
    BY <1>0, <1>3, ChildSpace, FillKeeps, IdleStep DEF ForkDir, Runs, Forking
  <1>4. CASE ForkCopy(p)
    <2>1. /\ Forking(p) /\ at[p].e \in CodeLo .. HeapHi - 1 /\ cr3' = cr3
      BY <1>0, <1>4, EntryNumbers DEF ForkCopy, Runs, Forking, IInv, CallsInProgress
    <2>2. at[p].e \in Pages
      BY <2>1 DEF Pages
    <2>3. TableOf[at[p].e] \in Entries
      BY <2>2, CowAssumption, EntryNumbers
    <2>4. /\ Child(p) \in Spaces /\ Child(p) # Mine(p) /\ \A q \in Procs : Child(p) # Staged(q)
          /\ Mine(p) \in Spaces
      BY <1>0, <2>1, ChildSpace, SpaceNames
    <2>5. CASE Fill(Child(p), TableOf[at[p].e])
      BY <2>1, <2>3, <2>4, <2>5, FillKeeps
    <2>6. CASE UNCHANGED <<pmmVars, spaceVars>>
      BY <2>1, <2>6, IdleStep
    <2>7. CASE frame[Mine(p)][at[p].e] # 0 /\ Share(Mine(p), Child(p), at[p].e)
      <3>1. /\ FrameInv'
            /\ \A x \in Spaces : x # Mine(p) /\ x # Child(p) /\ PagesPrivate(x) => PagesPrivate(x)'
        BY <1>0, <2>2, <2>4, <2>7, ShareKeeps
      <3>2. \A q \in Procs : PagesPrivate(Staged(q))'
        <4>1. SUFFICES ASSUME NEW q \in Procs PROVE PagesPrivate(Staged(q))'
          OBVIOUS
        <4>2. CASE Staged(q) = Mine(p)
          <5>1. FALSE
            <6>1. q = p
              BY <4>2 DEF Staged, Mine
            <6>2. QED
              BY <1>0, <4>2, <6>1, SpaceNames
          <5>2. QED
            BY <5>1
        <4>3. CASE Staged(q) # Mine(p)
          <5>1. Staged(q) \in Spaces /\ Staged(q) # Child(p) /\ PagesPrivate(Staged(q))
            BY <1>0, <2>4, SpaceNames DEF StagedPrivate
          <5>2. \A x \in Spaces : x = Staged(q) => PagesPrivate(x)'
            BY <3>1, <4>3, <5>1
          <5>3. Staged(q)' = Staged(q)
            BY <2>1 DEF Staged
          <5>4. QED
            BY <5>1, <5>2, <5>3
        <4>4. QED
          BY <4>2, <4>3
      <3>3. QED
        BY <3>1, <3>2 DEF StagedPrivate
    <2>8. QED
      BY <1>4, <2>5, <2>6, <2>7 DEF ForkCopy
  <1>5. CASE ForkDone(p)
    BY <1>5, IdleStep DEF ForkDone
  <1>6. CASE ForkUndo(p)
    <2>1. at[p].e <= KStack => at[p].e \in Entries
      BY <1>0 DEF Entries
    <2>2. Child(p) \in Spaces
      BY <1>6, ChildSpace DEF ForkUndo, Runs, Forking
    <2>3. QED
      BY <1>6, <2>1, <2>2, DropStep, IdleStep DEF ForkUndo
  <1>7. QED
    BY <1>1, <1>2, <1>3, <1>4, <1>5, <1>6 DEF ForkStep

(* No step of exec breaks the frames part. *)
LEMMA ExecStepFrames ==
  ASSUME IInv, ~TickInExec, NEW p \in Procs, ExecStep(p)
  PROVE  FrameInv' /\ StagedPrivate'
  <1> USE DEF NoChange, procVars
  <1>0. /\ FrameInv /\ ControlTypeOK /\ StagedPrivate
        /\ Mine(p) \in Spaces /\ Staged(p) \in Spaces /\ at[p].e \in Nat
        /\ at[p].e <= Dir => at[p].e \in Entries
    <2>1. at[p].e \in Nat
      BY DEF IInv, ControlTypeOK
    <2>2. at[p].e <= Dir => at[p].e \in Entries
      BY <2>1, EntryNumbers DEF Entries, KStack
    <2>3. QED
      BY <2>1, <2>2, SpaceNames DEF IInv
  <1>1. CASE SysExec(p)
    BY <1>1, IdleStep DEF SysExec
  <1>2. CASE ExecDir(p)
    BY <1>0, <1>2, EntryNumbers, FillKeeps, IdleStep DEF ExecDir
  <1>3. CASE ExecInit(p)
    <2>1. at[p].e < HeapLo
      BY <1>3 DEF ExecInit
    <2>2. at[p].e \in Entries
      BY <1>0, <2>1, EntryNumbers DEF Dir
    <2>3. QED
      BY <1>0, <1>3, <2>2, FillKeeps, IdleStep DEF ExecInit
  <1>4. CASE ExecActivate(p)
    BY <1>4, IdleStep DEF ExecActivate
  <1>5. CASE ExecLoad(p)
    <2>1. /\ UNCHANGED <<pmmVars, frame>> /\ cr3' = cr3 /\ at[p].e < HeapLo
          /\ running = p /\ at[p].pc = "exec_load"
      BY <1>5 DEF ExecLoad, Runs
    <2>2. page_pdpt = Staged(p)
      BY <2>1 DEF IInv, CallsInProgress
    <2>3. at[p].e \in Entries
      BY <1>0, <2>1, EntryNumbers DEF Dir
    <2>4. CASE UNCHANGED <<rw, cow>>
      BY <2>1, <2>4, IdleStep DEF spaceVars
    <2>5. CASE /\ frame[page_pdpt][at[p].e] # 0
               /\ \E w \in BOOLEAN : rw' = [rw EXCEPT ![page_pdpt][at[p].e] = w]
               /\ cow' = [cow EXCEPT ![page_pdpt][at[p].e] = FALSE]
      <3>1. PICK w \in BOOLEAN : rw' = [rw EXCEPT ![page_pdpt][at[p].e] = w]
        BY <2>5
      <3>2. \A t \in Spaces :
              at[p].e \in Pages /\ frame[t][at[p].e] = frame[page_pdpt][at[p].e]
                /\ frame[page_pdpt][at[p].e] # 0 => t = page_pdpt
        <4>1. PagesPrivate(page_pdpt)
          BY <1>0, <2>2 DEF StagedPrivate
        <4>2. SUFFICES ASSUME NEW t \in Spaces, at[p].e \in Pages,
                              frame[t][at[p].e] = frame[page_pdpt][at[p].e],
                              frame[page_pdpt][at[p].e] # 0
                       PROVE  t = page_pdpt
          OBVIOUS
        <4>3. QED
          BY <4>1, <4>2 DEF PagesPrivate
      <3>3. FrameInv' /\ KeepsPrivate
        <4> DEFINE s == page_pdpt
                   e == at[p].e
        <4>1. /\ FrameInv /\ UNCHANGED <<pmmVars, frame>> /\ s \in Spaces /\ e \in Entries
              /\ \A t \in Spaces : e \in Pages /\ frame[t][e] = frame[s][e] /\ frame[s][e] # 0 => t = s
              /\ rw' = [rw EXCEPT ![s][e] = w] /\ cow' = [cow EXCEPT ![s][e] = FALSE]
          BY <1>0, <2>1, <2>2, <2>3, <2>5, <3>1, <3>2
        <4> HIDE DEF s, e
        <4>2. QED
          BY <4>1, PermissionKeeps
      <3>4. QED
        BY <1>0, <2>1, <3>3, KeepsStaged
    <2>6. QED
      BY <1>5, <2>4, <2>5 DEF ExecLoad
  <1>6. CASE ExecFail(p)
    BY <1>6, IdleStep DEF ExecFail
  <1>7. CASE ExecUndo(p)
    BY <1>0, <1>7, DropStep, IdleStep DEF ExecUndo
  <1>8. CASE ExecDrop(p)
    BY <1>0, <1>8, DropStep, IdleStep DEF ExecDrop
  <1>9. CASE ExecCommit(p)
    <2>1. /\ UNCHANGED <<pmmVars, spaceVars>> /\ cr3' = [cr3 EXCEPT ![p] = 1 - @]
          /\ at[p].pc = "exec_drop" /\ at[p].e = Dir + 1
      BY <1>9 DEF ExecCommit, Runs
    <2>2. FrameInv' /\ KeepsPrivate
      BY <1>0, <2>1, IdleKeeps
    <2>3. \A e \in Pages : frame[Mine(p)][e] = 0
      <3>1. \A e \in Pages : e \in Entries /\ e < Dir + 1
        BY EntryNumbers DEF Pages, Dir
      <3>2. QED
        BY <2>1, <3>1 DEF IInv, CallsInProgress
    <2>4. Staged(p)' = Mine(p) /\ \A q \in Procs \ {p} : Staged(q)' = Staged(q)
      BY <1>0, <2>1 DEF Staged, Mine, ControlTypeOK, Gens
    <2>6. ASSUME NEW q \in Procs PROVE PagesPrivate(Staged(q))'
      <3>1. \A x \in Spaces : PagesPrivate(x) => PagesPrivate(x)'
        BY <2>2 DEF KeepsPrivate
      <3>2. Mine(p) = Staged(p)'
        BY <2>4
      <3>3. \A x \in Spaces : (\A e \in Pages : frame[x][e] = 0) => PagesPrivate(x)
        BY DEF PagesPrivate
      <3>4. \E x \in Spaces : Staged(q)' = x /\ PagesPrivate(x)
        BY <1>0, <2>3, <2>4, <3>3, SpaceNames DEF StagedPrivate
      <3>5. QED
        BY <3>1, <3>4
    <2>7. QED
      BY <2>2, <2>6 DEF StagedPrivate
  <1>10. QED
    BY <1>1, <1>2, <1>3, <1>4, <1>5, <1>6, <1>7, <1>8, <1>9 DEF ExecStep

(* No exit, kill, reap or switch breaks the frames part. *)
LEMMA LifeStepFrames ==
  ASSUME IInv, NEW p \in Procs, LifeStep(p)
  PROVE  FrameInv' /\ StagedPrivate'
  <1> USE DEF NoChange, procVars
  <1>0. FrameInv /\ ControlTypeOK /\ StagedPrivate
    BY DEF IInv
  <1>1. CASE Exit(p)
    BY <1>1, IdleStep DEF Exit
  <1>2. ASSUME NEW q \in Procs, Kill(p, q) PROVE FrameInv' /\ StagedPrivate'
    BY <1>2, IdleStep DEF Kill
  <1>3. ASSUME NEW q \in Procs, Switch(q) PROVE FrameInv' /\ StagedPrivate'
    BY <1>3, IdleStep DEF Switch
  <1>4. ASSUME NEW q \in Procs, Reap(p, q) PROVE FrameInv' /\ StagedPrivate'
    <2>1. /\ PmmFree(frame[<<q, 0>>][KStack]) /\ Forget(q)
          /\ cr3' = [cr3 EXCEPT ![q] = 0]
      BY <1>4 DEF Reap
    <2>2. FrameInv' /\ KeepsPrivate
      BY <1>0, <2>1, ForgetKeeps
    <2>3. ASSUME NEW r \in Procs PROVE PagesPrivate(Staged(r))'
      <3>1. CASE r = q
        <4>1. \A e \in Pages : frame'[<<q, 1>>][e] = 0
          BY <2>1, EntryNumbers DEF Forget, NoEntries, Spaces, Gens
        <4>2. Staged(r)' = <<q, 1>>
          BY <1>0, <2>1, <3>1 DEF Staged, ControlTypeOK
        <4>3. QED
          BY <4>1, <4>2 DEF PagesPrivate
      <3>2. CASE r # q
        <4>1. Staged(r)' = Staged(r) /\ Staged(r) \in Spaces /\ PagesPrivate(Staged(r))
          BY <1>0, <2>1, <3>2, SpaceNames DEF Staged, ControlTypeOK, StagedPrivate
        <4>2. \A x \in Spaces : PagesPrivate(x) => PagesPrivate(x)'
          BY <2>2 DEF KeepsPrivate
        <4>3. \E x \in Spaces : Staged(r)' = x /\ PagesPrivate(x)
          BY <4>1
        <4>4. QED
          BY <4>2, <4>3
      <3>3. QED
        BY <3>1, <3>2
    <2>4. QED
      BY <2>2, <2>3 DEF StagedPrivate
  <1>5. QED
    BY <1>1, <1>2, <1>3, <1>4 DEF LifeStep

-----------------------------------------------------------------------------
(* The control part of the invariant. *)

AtType == [pc : Places, e : Nat, lim : Nat, base : Nat, child : 0 .. NProcs]

(* Moving a place: what each form of EXCEPT that the actions use changes. *)
LEMMA PcMoves ==
  ASSUME NEW a \in AtType, NEW x \in Places
  PROVE  /\ [a EXCEPT !.pc = x] \in AtType
         /\ [a EXCEPT !.pc = x].pc = x
  BY DEF AtType

LEMMA CursorMoves ==
  ASSUME NEW a \in AtType, NEW x \in Places, NEW n \in Nat
  PROVE  /\ [a EXCEPT !.pc = x, !.e = n] \in AtType
         /\ [a EXCEPT !.pc = x, !.e = n].pc = x
  BY DEF AtType

LEMMA UnwindMoves ==
  ASSUME NEW a \in AtType, NEW x \in Places, NEW m \in Nat
  PROVE  /\ [a EXCEPT !.pc = x, !.lim = m, !.e = 0] \in AtType
         /\ [a EXCEPT !.pc = x, !.lim = m, !.e = 0].pc = x
  BY DEF AtType

LEMMA LimitMoves ==
  ASSUME NEW a \in AtType, NEW m \in Nat
  PROVE  /\ [a EXCEPT !.lim = m] \in AtType
         /\ [a EXCEPT !.lim = m].pc = a.pc
         /\ [a EXCEPT !.lim = m].lim = m
  BY DEF AtType

LEMMA BaseMoves ==
  ASSUME NEW a \in AtType, NEW n \in Nat, NEW m \in Nat
  PROVE  /\ [a EXCEPT !.base = n, !.lim = m] \in AtType
         /\ [a EXCEPT !.base = n, !.lim = m].pc = a.pc
  BY DEF AtType

LEMMA RangeMoves ==
  ASSUME NEW a \in AtType, NEW n \in Nat, NEW m \in Nat
  PROVE  /\ [a EXCEPT !.e = n, !.lim = m] \in AtType
         /\ [a EXCEPT !.e = n, !.lim = m].pc = a.pc
  BY DEF AtType

LEMMA ChildMoves ==
  ASSUME NEW a \in AtType, NEW c \in 0 .. NProcs
  PROVE  /\ [a EXCEPT !.child = c] \in AtType
         /\ [a EXCEPT !.child = c].pc = a.pc
         /\ [a EXCEPT !.child = c].child = c
  BY DEF AtType

(* The start of a call is a place. *)
LEMMA AtPlace ==
  ASSUME NEW x \in Places
  PROVE  At(x) \in AtType /\ At(x).pc = x
  <1>1. User \in AtType
    BY CowAssumption DEF AtType, User, Places
  <1>2. 0 \in Nat /\ 0 \in 0 .. NProcs
    BY CowAssumption
  <1>3. QED
    BY <1>1, <1>2, PcMoves DEF At

(* Places a process may move to without touching anybody else's call. *)
SafePlace(p, a) ==
  /\ a \in AtType
  /\ a.pc \notin {"embryo", "exec_load", "exec_drop"}
  /\ a.pc \in {"fork_stack", "fork_dir", "fork_copy", "fork_undo"} =>
       Forking(p) /\ a.child = at[p].child
  /\ a.pc = "fork_copy" => a.e \in CodeLo .. HeapHi
  /\ a.pc \in {"brk", "brk_shrink"} => a.lim \in HeapLo .. HeapHi
  /\ a.pc \in {"mmap", "unwind"} => a.base \in HeapLo .. HeapHi

(* What the type invariant says of the place of one process. *)
LEMMA AtTyped ==
  ASSUME ControlTypeOK
  PROVE  /\ at \in [Procs -> AtType]
         /\ \A p \in Procs : /\ at[p] \in AtType /\ at[p].pc \in Places
                             /\ at[p].e \in Nat /\ at[p].lim \in Nat /\ at[p].base \in Nat
                             /\ at[p].child \in 0 .. NProcs
         /\ User \in AtType
  BY CowAssumption DEF ControlTypeOK, AtType, User, Places

(* A step that moves only the running process's own place. *)
LEMMA LocalStep ==
  ASSUME ControlTypeOK, CallsInProgress, NEW p \in Procs, running = p, NEW a, SafePlace(p, a),
         Goto(p, a), UNCHANGED <<state, parent, cr3, running>>
  PROVE  CallsInProgress' /\ at' \in [Procs -> AtType]
  <1>1. /\ at' \in [Procs -> AtType]
        /\ at'[p] = a
        /\ \A q \in Procs : q # p => at'[q] = at[q]
    BY AtTyped DEF Goto, SafePlace
  <1>2. state[running]' # "unused"
    BY DEF CallsInProgress
  <1>3. \A q \in Procs : ~InExec(q)'
    BY <1>1 DEF CallsInProgress, InExec, SafePlace
  <1>4. \A q \in Procs : at'[q].pc # "exec_load" /\ at'[q].pc # "exec_drop"
    BY <1>3 DEF InExec
  <1>5. ASSUME NEW q \in Procs, Forking(q)'
        PROVE  /\ at'[q].child \in Procs \ {q}
               /\ parent'[at'[q].child] = q /\ cr3'[at'[q].child] = 0
               /\ at'[at'[q].child].pc = "embryo" /\ state'[at'[q].child] \in {"embryo", "zombie"}
    <2>1. Forking(q) /\ at'[q].child = at[q].child
      BY <1>1, <1>5 DEF Forking, SafePlace
    <2>2. /\ at[q].child \in Procs \ {q}
          /\ parent[at[q].child] = q /\ cr3[at[q].child] = 0
          /\ at[at[q].child].pc = "embryo" /\ state[at[q].child] \in {"embryo", "zombie"}
      BY <2>1 DEF CallsInProgress
    <2>3. at[q].child # p
      BY <2>2 DEF CallsInProgress
    <2>4. QED
      BY <1>1, <2>1, <2>2, <2>3
  <1>6. \A q \in Procs : at'[q].pc = "embryo" => q # running' /\ state'[q] # "ready"
    BY <1>1 DEF CallsInProgress, SafePlace
  <1>7. \A q \in Procs : state'[q] = "unused" => cr3'[q] = 0
    BY DEF CallsInProgress
  <1>8. \A q \in Procs : at'[q].pc = "fork_copy" => at'[q].e \in CodeLo .. HeapHi
    BY <1>1 DEF CallsInProgress, SafePlace
  <1>9. \A q \in Procs : at'[q].pc \in {"brk", "brk_shrink"} => at'[q].lim \in HeapLo .. HeapHi
    BY <1>1 DEF CallsInProgress, SafePlace
  <1>10. \A q \in Procs : at'[q].pc \in {"mmap", "unwind"} => at'[q].base \in HeapLo .. HeapHi
    BY <1>1 DEF CallsInProgress, SafePlace
  <1>11. running' \in Procs
    OBVIOUS
  <1>12. QED
    BY <1>1, <1>2, <1>3, <1>4, <1>5, <1>6, <1>7, <1>8, <1>9, <1>10, <1>11 DEF CallsInProgress

(* Going back to user mode is safe, and so is staying. *)
LEMMA PlacesSafe ==
  ASSUME ControlTypeOK, CallsInProgress, NEW p \in Procs, running = p
  PROVE  /\ SafePlace(p, User)
         /\ at[p].pc \notin {"exec_load", "exec_drop"} => SafePlace(p, at[p])
         /\ at' = at => Goto(p, at[p])
  <1>1. SafePlace(p, User)
    BY AtTyped DEF SafePlace, User
  <1>2. at[p].pc \notin {"exec_load", "exec_drop"} => SafePlace(p, at[p])
    BY AtTyped DEF SafePlace, CallsInProgress, Forking
  <1>3. at' = at => Goto(p, at[p])
    BY AtTyped DEF Goto
  <1>4. QED
    BY <1>1, <1>2, <1>3

(* What a step of user mode or of a heap call does to the control state. *)
HeapStep(p) ==
  /\ UNCHANGED <<state, parent, cr3, running, page_pdpt>>
  /\ mem' \in [Frames -> Values]
  /\ user_heap_next' \in HeapLo .. HeapBound
  /\ \E a \in AtType : SafePlace(p, a) /\ Goto(p, a)

(* A HeapStep keeps the control part of the invariant. *)
LEMMA HeapStepControl ==
  ASSUME ControlTypeOK, CallsInProgress, NEW p \in Procs, running = p, HeapStep(p)
  PROVE  ControlTypeOK' /\ CallsInProgress'
  <1>1. PICK a : SafePlace(p, a) /\ Goto(p, a)
    BY DEF HeapStep
  <1>2. CallsInProgress' /\ at' \in [Procs -> AtType]
    BY <1>1, LocalStep DEF HeapStep
  <1>3. QED
    BY <1>2 DEF HeapStep, ControlTypeOK, AtType

(* Whatever a frame comes to hold is a value. *)
LEMMA LoadedTyped ==
  ASSUME ControlTypeOK, NEW f \in Frames, Holds(f) \/ mem' = mem
  PROVE  mem' \in [Frames -> Values]
  BY DEF Holds, ControlTypeOK

(* Mapping a heap page keeps the watermark within HeapBound. *)
LEMMA MapNextControl ==
  ASSUME ControlTypeOK, MapNext
  PROVE  /\ UNCHANGED <<state, parent, cr3, running, page_pdpt>>
         /\ mem' \in [Frames -> Values]
         /\ user_heap_next' \in HeapLo .. HeapBound
  <1>1. UNCHANGED <<state, parent, cr3, running, page_pdpt>>
    BY DEF MapNext, procVars, cpuVars
  <1>2. user_heap_next' \in HeapLo .. HeapBound
    BY EntryNumbers DEF MapNext, ControlTypeOK
  <1>3. PICK f \in Frames : Holds(f) \/ mem' = mem
    BY DEF MapNext
  <1>4. mem' \in [Frames -> Values]
    BY <1>3, LoadedTyped
  <1>5. QED
    BY <1>1, <1>2, <1>4

(* Every step of user mode and of the heap calls is a HeapStep. *)
LEMMA MemoryStepControl ==
  ASSUME IInv, NEW p \in Procs, running = p, MemoryStep(p)
  PROVE  ControlTypeOK' /\ CallsInProgress'
  <1>0. /\ ControlTypeOK /\ CallsInProgress /\ FrameInv /\ page_pdpt \in Spaces
        /\ mem \in [Frames -> Values] /\ user_heap_next \in HeapLo .. HeapBound
        /\ SafePlace(p, User) /\ User \in AtType /\ at[p] \in AtType
        /\ at[p].e \in Nat /\ at[p].lim \in Nat /\ at[p].base \in Nat /\ at[p].child \in 0 .. NProcs
        /\ at[p].pc \notin {"exec_load", "exec_drop"} => SafePlace(p, at[p])
        /\ at' = at => Goto(p, at[p])
    BY PlacesSafe, AtTyped DEF IInv, ControlTypeOK
  <1>1. SUFFICES HeapStep(p)
    BY <1>0, HeapStepControl
  <1> USE DEF NoChange, procVars, cpuVars, Runs
  <1>2. ASSUME NEW e \in Pages, NEW x \in Values, Store(p, e, x) \/ FillBuffer(p, e, x)
        PROVE  HeapStep(p)
    BY <1>0, <1>2 DEF Store, FillBuffer, HeapStep
  <1>3. ASSUME NEW e \in Pages, CowLift(p, e) PROVE HeapStep(p)
    BY <1>0, <1>3 DEF CowLift, HeapStep
  <1>4. ASSUME NEW e \in Pages, CowCopy(p, e) PROVE HeapStep(p)
    <2>1. NextFree \in Frames /\ frame[page_pdpt][e] \in Frames
      BY <1>0, <1>4, CopyKeeps
    <2>2. mem' \in [Frames -> Values]
      BY <1>0, <1>4, <2>1 DEF CowCopy
    <2>3. QED
      BY <1>0, <1>4, <2>2 DEF CowCopy, HeapStep
  <1>5. CASE SysAlloc(p)
    BY <1>0, <1>5, MapNextControl DEF SysAlloc, HeapStep
  <1>6. ASSUME NEW e \in HeapLo .. HeapHi, SysBrk(p, e) PROVE HeapStep(p)
    <2>1. SafePlace(p, [At("brk") EXCEPT !.lim = e]) /\ [At("brk") EXCEPT !.lim = e] \in AtType
      <3>1. "brk" \in Places /\ e \in Nat /\ 0 \in 0 .. NProcs
        BY CowAssumption, EntryNumbers DEF Places
      <3>2. At("brk") \in AtType /\ At("brk").pc = "brk"
        BY <3>1, AtPlace
      <3> DEFINE a == [At("brk") EXCEPT !.lim = e]
      <3>3. a \in AtType /\ a.pc = "brk" /\ a.lim = e
        BY <3>1, <3>2, LimitMoves
      <3> HIDE DEF a
      <3>4. SafePlace(p, a)
        BY <3>3 DEF SafePlace
      <3>5. QED
        BY <3>3, <3>4 DEF a
    <2>2. QED
      BY <1>0, <1>6, <2>1 DEF SysBrk, HeapStep
  <1>7. CASE BrkGrow(p)
    BY <1>0, <1>7, MapNextControl DEF BrkGrow, HeapStep
  <1>8. CASE BrkShrink(p)
    <2>1. at[p].pc \in {"brk", "brk_shrink"} /\ at[p].lim \in HeapLo .. HeapHi
          /\ user_heap_next > at[p].lim
      BY <1>0, <1>8 DEF BrkShrink, CallsInProgress
    <2>2. user_heap_next - 1 \in HeapLo .. HeapBound
      BY <1>0, <2>1, EntryNumbers
    <2>3. SafePlace(p, [at[p] EXCEPT !.pc = "brk_shrink"]) /\ [at[p] EXCEPT !.pc = "brk_shrink"] \in AtType
      BY <1>0, <2>1 DEF SafePlace, AtType, Places
    <2>4. QED
      BY <1>0, <1>8, <2>2, <2>3 DEF BrkShrink, HeapStep
  <1>9. CASE BrkDone(p)
    BY <1>0, <1>9 DEF BrkDone, HeapStep
  <1>10. ASSUME NEW n \in 1 .. NHeap, SysMmap(p, n) PROVE HeapStep(p)
    <2> DEFINE a == [At("mmap") EXCEPT !.base = user_heap_next, !.lim = n]
    <2>1. user_heap_next \in HeapLo .. HeapHi
      BY <1>0, <1>10, EntryNumbers DEF SysMmap
    <2>2. user_heap_next \in Nat /\ n \in Nat
      BY <2>1, EntryNumbers
    <2>3. SafePlace(p, a) /\ a \in AtType
      <3>1. "mmap" \in Places /\ 0 \in 0 .. NProcs
        BY CowAssumption DEF Places
      <3>2. At("mmap") \in AtType /\ At("mmap").pc = "mmap"
        BY <3>1, AtPlace
      <3>3. a \in AtType /\ a.pc = "mmap"
        BY <2>2, <3>1, <3>2, BaseMoves
      <3>5. a.base = user_heap_next
        BY <3>2 DEF AtType
      <3> HIDE DEF a
      <3>4. QED
        BY <2>1, <3>3, <3>5 DEF SafePlace
    <2>4. QED
      BY <1>0, <1>10, <2>3 DEF SysMmap, HeapStep
  <1>11. CASE MmapPage(p)
    <2>1. at[p].base \in HeapLo .. HeapHi /\ at[p].pc = "mmap"
      BY <1>0, <1>11 DEF MmapPage, CallsInProgress
    <2>2. SafePlace(p, [at[p] EXCEPT !.e = @ + 1])
      BY <1>0, <2>1 DEF SafePlace, AtType, Places
    <2>4. SafePlace(p, [at[p] EXCEPT !.pc = "unwind", !.lim = at[p].e, !.e = 0])
      <3> DEFINE a == [at[p] EXCEPT !.pc = "unwind", !.lim = at[p].e, !.e = 0]
      <3>1. "unwind" \in Places /\ 0 \in Nat
        BY DEF Places
      <3>2. a \in AtType /\ a.pc = "unwind"
        <4> DEFINE b == at[p]
                   m == at[p].e
        <4>1. b \in AtType /\ m \in Nat /\ a = [b EXCEPT !.pc = "unwind", !.lim = m, !.e = 0]
          BY <1>0
        <4> HIDE DEF a, b, m
        <4>2. QED
          BY <3>1, <4>1, UnwindMoves
      <3>5. a.base = at[p].base
        BY <1>0 DEF AtType
      <3> HIDE DEF a
      <3>3. SafePlace(p, a)
        BY <2>1, <3>2, <3>5 DEF SafePlace
      <3>4. QED
        BY <3>3 DEF a
    <2>3. QED
      BY <1>0, <1>11, <2>2, <2>4, MapNextControl DEF MmapPage, HeapStep, SafePlace
  <1>12. CASE MmapDone(p)
    BY <1>0, <1>12 DEF MmapDone, HeapStep
  <1>13. CASE MmapUnwind(p)
    <2>1. at[p].base \in HeapLo .. HeapHi /\ at[p].pc = "unwind"
      BY <1>0, <1>13 DEF MmapUnwind, CallsInProgress
    <2>2. at[p].base \in HeapLo .. HeapBound
      BY <2>1, EntryNumbers
    <2>3. SafePlace(p, [at[p] EXCEPT !.e = @ + 1])
      BY <1>0, <2>1 DEF SafePlace, AtType, Places
    <2>4. QED
      BY <1>0, <1>13, <2>2, <2>3 DEF MmapUnwind, HeapStep, SafePlace
  <1>14. ASSUME NEW e \in Pages, NEW n \in 1 .. NHeap, SysMunmap(p, e, n) PROVE HeapStep(p)
    <2> DEFINE a == [At("munmap") EXCEPT !.e = e, !.lim = e + n]
    <2>1. e \in Nat /\ e + n \in Nat
      BY EntryNumbers DEF Pages
    <2>2. SafePlace(p, a) /\ a \in AtType
      <3>1. "munmap" \in Places /\ 0 \in 0 .. NProcs
        BY CowAssumption DEF Places
      <3>2. At("munmap") \in AtType /\ At("munmap").pc = "munmap"
        BY <3>1, AtPlace
      <3>3. a \in AtType /\ a.pc = "munmap"
        BY <2>1, <3>1, <3>2, RangeMoves
      <3> HIDE DEF a
      <3>4. QED
        BY <3>3 DEF SafePlace
    <2>3. QED
      BY <1>0, <1>14, <2>2 DEF SysMunmap, HeapStep
  <1>15. CASE MunmapPage(p)
    <2>1. at[p].pc = "munmap"
      BY <1>15 DEF MunmapPage
    <2>2. SafePlace(p, [at[p] EXCEPT !.e = @ + 1])
      BY <1>0, <2>1 DEF SafePlace, AtType, Places
    <2>3. QED
      BY <1>0, <1>15, <2>2 DEF MunmapPage, HeapStep, SafePlace
  <1>16. QED
    BY <1>2, <1>3, <1>4, <1>5, <1>6, <1>7, <1>8, <1>9, <1>10, <1>11, <1>12, <1>13, <1>14, <1>15
       DEF MemoryStep

(* A step of fork that moves the parent alone is a local step too. *)
LEMMA ForkMoveControl ==
  ASSUME ControlTypeOK, CallsInProgress, NEW p \in Procs, running = p, NEW a, SafePlace(p, a),
         Goto(p, a), UNCHANGED <<mem, procVars, cpuVars, user_heap_next>>
  PROVE  ControlTypeOK' /\ CallsInProgress'
  <1>1. CallsInProgress' /\ at' \in [Procs -> AtType]
    BY LocalStep DEF procVars, cpuVars
  <1>2. QED
    BY <1>1 DEF ControlTypeOK, AtType, procVars, cpuVars

(* No step of fork breaks the control part. *)
LEMMA ForkStepControl ==
  ASSUME IInv, NEW p \in Procs, running = p, ForkStep(p)
  PROVE  ControlTypeOK' /\ CallsInProgress'
  <1>0. /\ ControlTypeOK /\ CallsInProgress
        /\ SafePlace(p, User) /\ User \in AtType /\ at[p] \in AtType
        /\ at[p].e \in Nat /\ at[p].child \in 0 .. NProcs
        /\ at[p].pc \notin {"exec_load", "exec_drop"} => SafePlace(p, at[p])
        /\ at' = at => Goto(p, at[p])
        /\ at \in [Procs -> AtType]
    BY PlacesSafe, AtTyped DEF IInv
  <1> USE DEF Runs
  <1>1. CASE SysFork(p)
    <2>1. PICK q \in Unused :
            /\ state' = [state EXCEPT ![q] = "embryo"]
            /\ parent' = [parent EXCEPT ![q] = p]
            /\ cr3' = [cr3 EXCEPT ![q] = 0]
            /\ at' = [at EXCEPT ![q] = At("embryo"),
                                ![p] = [At("fork_stack") EXCEPT !.child = q]]
      BY <1>1 DEF SysFork
    <2>2. /\ q \in Procs /\ state[q] = "unused" /\ q # p
          /\ at[p].pc = "user" /\ UNCHANGED <<mem, running, page_pdpt, user_heap_next>>
      BY <1>0, <1>1, <2>1 DEF SysFork, Unused, CallsInProgress, cpuVars
    <2> DEFINE a == [At("fork_stack") EXCEPT !.child = q]
    <2>3. /\ At("embryo") \in AtType /\ At("embryo").pc = "embryo"
          /\ a \in AtType /\ a.pc = "fork_stack" /\ a.child = q
      <3>1. "embryo" \in Places /\ "fork_stack" \in Places /\ q \in 0 .. NProcs /\ 0 \in Nat
        BY <2>2, CowAssumption DEF Places, Procs
      <3>2. /\ At("embryo") \in AtType /\ At("embryo").pc = "embryo"
            /\ At("fork_stack") \in AtType /\ At("fork_stack").pc = "fork_stack"
        BY <3>1, AtPlace
      <3>3. QED
        BY <3>1, <3>2, ChildMoves
    <2> HIDE DEF a
    <2>4. /\ at' \in [Procs -> AtType]
          /\ at'[p] = a /\ at'[q] = At("embryo")
          /\ \A r \in Procs : r # p /\ r # q => at'[r] = at[r]
      BY <1>0, <2>1, <2>2, <2>3 DEF a
    <2>5. /\ state'[q] = "embryo" /\ parent'[q] = p /\ cr3'[q] = 0
          /\ \A r \in Procs : r # q =>
               state'[r] = state[r] /\ parent'[r] = parent[r] /\ cr3'[r] = cr3[r]
      BY <1>0, <2>1, <2>2 DEF ControlTypeOK
    <2>6. ControlTypeOK'
      <3>1. /\ state' \in [Procs -> {"unused", "embryo", "ready", "zombie"}]
            /\ parent' \in [Procs -> 0 .. NProcs]
            /\ cr3' \in [Procs -> Gens]
        BY <1>0, <2>1, <2>2 DEF ControlTypeOK, Procs, Gens
      <3>2. QED
        BY <1>0, <2>2, <2>4, <3>1 DEF ControlTypeOK, AtType
    <2>7. \A r \in Procs : at'[r].pc # "exec_load" /\ at'[r].pc # "exec_drop"
      BY <1>0, <2>2, <2>3, <2>4 DEF CallsInProgress, InExec
    <2>8. ASSUME NEW r \in Procs, Forking(r)'
          PROVE  /\ at'[r].child \in Procs \ {r}
                 /\ parent'[at'[r].child] = r /\ cr3'[at'[r].child] = 0
                 /\ at'[at'[r].child].pc = "embryo" /\ state'[at'[r].child] \in {"embryo", "zombie"}
      <3>1. CASE r = p
        BY <2>2, <2>3, <2>4, <2>5, <3>1
      <3>2. CASE r = q
        BY <2>3, <2>4, <2>8, <3>2 DEF Forking
      <3>3. CASE r # p /\ r # q
        <4>1. Forking(r) /\ at'[r].child = at[r].child
          BY <2>4, <2>8, <3>3 DEF Forking
        <4>2. /\ at[r].child \in Procs \ {r}
              /\ parent[at[r].child] = r /\ cr3[at[r].child] = 0
              /\ at[at[r].child].pc = "embryo" /\ state[at[r].child] \in {"embryo", "zombie"}
          BY <1>0, <4>1 DEF CallsInProgress
        <4>3. at[r].child # p /\ at[r].child # q
          BY <1>0, <2>2, <4>2 DEF CallsInProgress
        <4>4. QED
          BY <2>4, <2>5, <4>1, <4>2, <4>3
      <3>4. QED
        BY <3>1, <3>2, <3>3
    <2>9. \A r \in Procs : at'[r].pc = "embryo" => r # running' /\ state'[r] # "ready"
      BY <1>0, <2>2, <2>3, <2>4, <2>5 DEF CallsInProgress
    <2>10. /\ state'[running'] # "unused"
           /\ \A r \in Procs : state'[r] = "unused" => cr3'[r] = 0
      BY <1>0, <2>2, <2>5 DEF CallsInProgress
    <2>11. /\ \A r \in Procs : at'[r].pc = "fork_copy" => at'[r].e \in CodeLo .. HeapHi
           /\ \A r \in Procs : at'[r].pc \in {"brk", "brk_shrink"} => at'[r].lim \in HeapLo .. HeapHi
           /\ \A r \in Procs : at'[r].pc \in {"mmap", "unwind"} => at'[r].base \in HeapLo .. HeapHi
      BY <1>0, <2>3, <2>4 DEF CallsInProgress
    <2>12. running' \in Procs
      BY <2>2
    <2>13. QED
      BY <2>6, <2>7, <2>8, <2>9, <2>10, <2>11, <2>12 DEF CallsInProgress, InExec
  <1>2. CASE at[p].pc \in {"fork_stack", "fork_dir", "fork_copy", "fork_undo"} /\
             UNCHANGED <<mem, procVars, cpuVars, user_heap_next>> /\ ForkStep(p) /\ ~ForkDone(p)
    <2>1. \E a : SafePlace(p, a) /\ Goto(p, a)
      <3>1. Forking(p)
        BY <1>2 DEF Forking
      <3>2. CASE ForkStack(p)
        <4>1. SafePlace(p, [at[p] EXCEPT !.pc = "fork_dir"])
          BY <1>0, <3>1 DEF SafePlace, AtType, Places
        <4>2. QED
          BY <1>0, <3>2, <4>1 DEF ForkStack
      <3>3. CASE ForkDir(p)
        <4>1. /\ SafePlace(p, [at[p] EXCEPT !.pc = "fork_copy", !.e = CodeLo])
              /\ SafePlace(p, [at[p] EXCEPT !.pc = "fork_undo", !.e = KStack])
          <5> DEFINE a == [at[p] EXCEPT !.pc = "fork_copy", !.e = CodeLo]
                     b == [at[p] EXCEPT !.pc = "fork_undo", !.e = KStack]
          <5>1. /\ "fork_copy" \in Places /\ "fork_undo" \in Places
                /\ CodeLo \in Nat /\ KStack \in Nat /\ CodeLo \in CodeLo .. HeapHi
            BY EntryNumbers DEF Places, KStack, Dir
          <5>2. /\ a \in AtType /\ a.pc = "fork_copy"
                /\ b \in AtType /\ b.pc = "fork_undo"
            BY <1>0, <5>1, CursorMoves
          <5>5. a.e = CodeLo /\ a.child = at[p].child /\ b.child = at[p].child
            BY <1>0 DEF AtType
          <5> HIDE DEF a, b
          <5>3. SafePlace(p, a) /\ SafePlace(p, b)
            BY <3>1, <5>1, <5>2, <5>5 DEF SafePlace
          <5>4. QED
            BY <5>3 DEF a, b
        <4>2. QED
          BY <3>3, <4>1 DEF ForkDir
      <3>4. CASE ForkCopy(p)
        <4>1. at[p].pc = "fork_copy" /\ at[p].e \in CodeLo .. HeapHi /\ at[p].e < HeapHi
          BY <1>0, <3>4 DEF ForkCopy, CallsInProgress
        <4>2. /\ SafePlace(p, [at[p] EXCEPT !.e = at[p].e + 1])
              /\ SafePlace(p, [at[p] EXCEPT !.pc = "fork_undo", !.e = 0])
          <5> DEFINE a == [at[p] EXCEPT !.e = at[p].e + 1]
                     b == [at[p] EXCEPT !.pc = "fork_undo", !.e = 0]
          <5>1. /\ "fork_undo" \in Places /\ 0 \in Nat
                /\ at[p].e + 1 \in Nat /\ at[p].e + 1 \in CodeLo .. HeapHi
            BY <1>0, <4>1, EntryNumbers DEF Places
          <5>2. b \in AtType /\ b.pc = "fork_undo"
            BY <1>0, <5>1, CursorMoves
          <5>6. b.child = at[p].child
            BY <1>0 DEF AtType
          <5>3. /\ a \in AtType /\ a.pc = "fork_copy" /\ a.e = at[p].e + 1
                /\ a.child = at[p].child
            BY <1>0, <4>1, <5>1 DEF AtType
          <5> HIDE DEF a, b
          <5>4. SafePlace(p, a) /\ SafePlace(p, b)
            BY <3>1, <5>1, <5>2, <5>3, <5>6 DEF SafePlace
          <5>5. QED
            BY <5>4 DEF a, b
        <4>3. QED
          BY <1>0, <3>4, <4>1, <4>2 DEF ForkCopy
      <3>5. CASE ForkUndo(p)
        <4>1. at[p].pc = "fork_undo"
          BY <3>5 DEF ForkUndo
        <4>2. SafePlace(p, [at[p] EXCEPT !.e = at[p].e + 1])
          BY <1>0, <3>1, <4>1 DEF SafePlace, AtType, Places
        <4>3. QED
          BY <1>0, <3>5, <4>2 DEF ForkUndo
      <3>6. CASE SysFork(p)
        BY <1>2, <3>6 DEF SysFork
      <3>7. QED
        BY <1>2, <3>2, <3>3, <3>4, <3>5, <3>6 DEF ForkStep
    <2>2. QED
      BY <1>0, <1>2, <2>1, ForkMoveControl
  <1>3. ASSUME Forking(p), Goto(p, User) \/ at' = [at EXCEPT ![at[p].child] = User, ![p] = User],
               \E x \in {"unused", "ready"} :
                 /\ state' = [state EXCEPT ![at[p].child] = x]
                 /\ x = "ready" <=> ~Goto(p, User),
               UNCHANGED <<mem, parent, cr3, cpuVars, user_heap_next>>
        PROVE  ControlTypeOK' /\ CallsInProgress'
    <2> DEFINE c == at[p].child
    <2>1. /\ c \in Procs /\ c # p /\ parent[c] = p /\ cr3[c] = 0 /\ at[c].pc = "embryo"
          /\ c # running
      BY <1>0, <1>3 DEF CallsInProgress
    <2>2. PICK x \in {"unused", "ready"} :
            state' = [state EXCEPT ![c] = x] /\ (x = "ready" <=> ~Goto(p, User))
      BY <1>3
    <2> HIDE DEF c
    <2>3. /\ at' \in [Procs -> AtType] /\ at'[p] = User
          /\ at'[c] = IF x = "ready" THEN User ELSE at[c]
          /\ \A r \in Procs : r # p /\ r # c => at'[r] = at[r]
      BY <1>0, <1>3, <2>1, <2>2 DEF Goto, c
    <2>4. state'[c] = x /\ \A r \in Procs : r # c => state'[r] = state[r]
      BY <1>0, <2>1, <2>2 DEF ControlTypeOK
    <2>5. UNCHANGED <<mem, parent, cr3, running, page_pdpt, user_heap_next>>
      BY <1>3 DEF cpuVars
    <2>6. ControlTypeOK'
      <3>1. state' \in [Procs -> {"unused", "embryo", "ready", "zombie"}]
        BY <1>0, <2>1, <2>2 DEF ControlTypeOK
      <3>2. QED
        BY <1>0, <2>3, <2>5, <3>1 DEF ControlTypeOK, AtType
    <2>7. User.pc = "user"
      BY DEF User
    <2>8. \A r \in Procs : at'[r].pc # "exec_load" /\ at'[r].pc # "exec_drop"
      BY <1>0, <2>1, <2>3, <2>7 DEF CallsInProgress, InExec
    <2>9. ASSUME NEW r \in Procs, Forking(r)'
          PROVE  /\ at'[r].child \in Procs \ {r}
                 /\ parent'[at'[r].child] = r /\ cr3'[at'[r].child] = 0
                 /\ at'[at'[r].child].pc = "embryo" /\ state'[at'[r].child] \in {"embryo", "zombie"}
      <3>1. r # p /\ r # c /\ Forking(r) /\ at'[r] = at[r]
        BY <2>1, <2>3, <2>7, <2>9 DEF Forking
      <3>2. /\ at[r].child \in Procs \ {r}
            /\ parent[at[r].child] = r /\ cr3[at[r].child] = 0
            /\ at[at[r].child].pc = "embryo" /\ state[at[r].child] \in {"embryo", "zombie"}
        BY <1>0, <3>1 DEF CallsInProgress
      <3>3. at[r].child # p /\ at[r].child # c
        BY <1>0, <2>1, <3>1, <3>2 DEF CallsInProgress
      <3>4. QED
        BY <2>3, <2>4, <2>5, <3>1, <3>2, <3>3
    <2>10. \A r \in Procs : at'[r].pc = "embryo" => r # running' /\ state'[r] # "ready"
      BY <1>0, <2>1, <2>2, <2>3, <2>4, <2>5, <2>7 DEF CallsInProgress
    <2>11. /\ state'[running'] # "unused"
           /\ \A r \in Procs : state'[r] = "unused" => cr3'[r] = 0
      BY <1>0, <2>1, <2>4, <2>5 DEF CallsInProgress
    <2>12. /\ \A r \in Procs : at'[r].pc = "fork_copy" => at'[r].e \in CodeLo .. HeapHi
           /\ \A r \in Procs : at'[r].pc \in {"brk", "brk_shrink"} => at'[r].lim \in HeapLo .. HeapHi
           /\ \A r \in Procs : at'[r].pc \in {"mmap", "unwind"} => at'[r].base \in HeapLo .. HeapHi
      BY <1>0, <2>1, <2>3, <2>7 DEF CallsInProgress
    <2>13. running' \in Procs
      BY <2>5
    <2>14. QED
      BY <2>6, <2>8, <2>9, <2>10, <2>11, <2>12, <2>13 DEF CallsInProgress, InExec
  <1>4. CASE ForkDone(p)
    <2>1. Forking(p) /\ at[at[p].child].pc = "embryo" /\ at[p].child \in Procs /\ at[p].child # p
      BY <1>0, <1>4 DEF ForkDone, Forking, CallsInProgress
    <2>2. ~Goto(p, User)
      <3>1. at' = [at EXCEPT ![at[p].child] = User, ![p] = User]
        BY <1>4 DEF ForkDone
      <3>2. at'[at[p].child] = User
        BY <1>0, <2>1, <3>1
      <3>3. User.pc = "user"
        BY DEF User
      <3>4. QED
        BY <1>0, <2>1, <3>2, <3>3 DEF Goto
    <2>3. QED
      BY <1>3, <1>4, <2>1, <2>2 DEF ForkDone
  <1>5. CASE /\ Goto(p, User) /\ Forking(p)
             /\ state' = [state EXCEPT ![at[p].child] = "unused"]
             /\ UNCHANGED <<mem, parent, cr3, cpuVars, user_heap_next>>
    BY <1>3, <1>5
  <1>6. QED
    <2>1. CASE ForkStack(p)
      BY <1>2, <1>5, <2>1 DEF ForkStack, ForkDone, NoChange, Forking, ForkStep
    <2>2. CASE ForkDir(p)
      BY <1>2, <2>2 DEF ForkDir, ForkDone, NoChange, ForkStep
    <2>3. CASE ForkCopy(p)
      BY <1>0, <1>2, <2>3, EntryNumbers DEF ForkCopy, ForkDone, NoChange, ForkStep
    <2>4. CASE ForkUndo(p)
      BY <1>2, <1>5, <2>4 DEF ForkUndo, ForkDone, NoChange, Forking, ForkStep, procVars
    <2>5. QED
      BY <1>1, <1>4, <2>1, <2>2, <2>3, <2>4 DEF ForkStep

(* A step inside the window in which exec may not lose the CPU. *)
LEMMA ExecMoveControl ==
  ASSUME ControlTypeOK, CallsInProgress, NEW p \in Procs, running = p,
         NEW a \in AtType, a.pc \in {"exec_load", "exec_drop"}, Goto(p, a),
         UNCHANGED <<state, parent, cr3, running>>,
         a.pc = "exec_load" => page_pdpt' = Staged(p),
         a.pc = "exec_drop" => \A e \in Entries : e < a.e => frame'[Mine(p)][e] = 0
  PROVE  CallsInProgress' /\ at' \in [Procs -> AtType]
  <1>1. /\ at' \in [Procs -> AtType]
        /\ at'[p] = a
        /\ \A q \in Procs : q # p => at'[q] = at[q]
    BY AtTyped DEF Goto
  <1>2. /\ state'[running'] # "unused" /\ running' = p
        /\ Staged(p)' = Staged(p) /\ Mine(p)' = Mine(p)
    BY DEF CallsInProgress, Staged, Mine
  <1>3. \A q \in Procs : InExec(q)' => q = p
    BY <1>1 DEF CallsInProgress, InExec
  <1>4. \A q \in Procs : at'[q].pc = "exec_load" \/ at'[q].pc = "exec_drop" => q = p
    BY <1>3 DEF InExec
  <1>5. at'[running'].pc = "exec_load" => page_pdpt' = Staged(running)'
    BY <1>1, <1>2
  <1>6. \A q \in Procs, e \in Entries :
          at'[q].pc = "exec_drop" /\ e < at'[q].e => frame'[Mine(q)'][e] = 0
    BY <1>1, <1>2, <1>4
  <1>7. ASSUME NEW q \in Procs, Forking(q)'
        PROVE  /\ at'[q].child \in Procs \ {q}
               /\ parent'[at'[q].child] = q /\ cr3'[at'[q].child] = 0
               /\ at'[at'[q].child].pc = "embryo" /\ state'[at'[q].child] \in {"embryo", "zombie"}
    <2>1. q # p /\ Forking(q) /\ at'[q].child = at[q].child
      BY <1>1, <1>7 DEF Forking
    <2>2. /\ at[q].child \in Procs \ {q}
          /\ parent[at[q].child] = q /\ cr3[at[q].child] = 0
          /\ at[at[q].child].pc = "embryo" /\ state[at[q].child] \in {"embryo", "zombie"}
      BY <2>1 DEF CallsInProgress
    <2>3. at[q].child # p
      BY <2>2 DEF CallsInProgress
    <2>4. QED
      BY <1>1, <2>1, <2>2, <2>3
  <1>8. \A q \in Procs : at'[q].pc = "embryo" => q # running' /\ state'[q] # "ready"
    BY <1>1 DEF CallsInProgress
  <1>9. \A q \in Procs : state'[q] = "unused" => cr3'[q] = 0
    BY DEF CallsInProgress
  <1>10. /\ \A q \in Procs : at'[q].pc = "fork_copy" => at'[q].e \in CodeLo .. HeapHi
         /\ \A q \in Procs : at'[q].pc \in {"brk", "brk_shrink"} => at'[q].lim \in HeapLo .. HeapHi
         /\ \A q \in Procs : at'[q].pc \in {"mmap", "unwind"} => at'[q].base \in HeapLo .. HeapHi
    BY <1>1 DEF CallsInProgress
  <1>11. QED
    BY <1>1, <1>2, <1>3, <1>5, <1>6, <1>7, <1>8, <1>9, <1>10 DEF CallsInProgress

(* Every step of exec keeps the control part of the invariant. *)
LEMMA ExecStepControl ==
  ASSUME IInv, NEW p \in Procs, running = p, ExecStep(p)
  PROVE  ControlTypeOK' /\ CallsInProgress'
  <1>0. /\ ControlTypeOK /\ CallsInProgress /\ FrameInv
        /\ SafePlace(p, User) /\ User \in AtType /\ at[p] \in AtType
        /\ at[p].e \in Nat
        /\ at[p].pc \notin {"exec_load", "exec_drop"} => SafePlace(p, at[p])
        /\ Mine(p) \in Spaces /\ Staged(p) \in Spaces
    BY PlacesSafe, AtTyped, SpaceNames DEF IInv
  <1> USE DEF Runs
  <1>a. ASSUME NEW x \in {"exec_dir", "exec_init", "exec_undo"}
        PROVE  SafePlace(p, At(x)) /\ x \in Places
    <2>1. At(x) \in AtType /\ At(x).pc = x /\ x \in Places
      BY AtPlace DEF Places
    <2>2. QED
      BY <2>1 DEF SafePlace
  <1>b. at[p].pc \in {"exec_dir", "exec_init", "exec_undo"} =>
          SafePlace(p, [at[p] EXCEPT !.e = at[p].e + 1])
    BY <1>0 DEF SafePlace, AtType
  <1>c. /\ [at[p] EXCEPT !.e = at[p].e + 1] \in AtType
        /\ [at[p] EXCEPT !.e = at[p].e + 1].pc = at[p].pc
        /\ [at[p] EXCEPT !.e = at[p].e + 1].e = at[p].e + 1
    BY <1>0 DEF AtType
  <1>1. ASSUME NEW b, SafePlace(p, b), Goto(p, b), NoChange
        PROVE  ControlTypeOK' /\ CallsInProgress'
    BY <1>0, <1>1, ForkMoveControl DEF NoChange
  <1>2. CASE SysExec(p)
    BY <1>a, <1>1, <1>2 DEF SysExec
  <1>3. CASE ExecDir(p)
    BY <1>0, <1>a, <1>1, <1>3 DEF ExecDir
  <1>4. CASE ExecInit(p)
    BY <1>0, <1>a, <1>b, <1>1, <1>4 DEF ExecInit
  <1>5. CASE ExecUndo(p)
    BY <1>0, <1>b, <1>1, <1>5 DEF ExecUndo
  <1>6. CASE ExecActivate(p)
    <2> DEFINE a == [At("exec_load") EXCEPT !.e = CodeLo]
    <2>1. a \in AtType /\ a.pc = "exec_load"
      <3>1. At("exec_load") \in AtType /\ At("exec_load").pc = "exec_load"
        BY AtPlace DEF Places
      <3>2. QED
        BY <3>1, EntryNumbers DEF AtType
    <2> HIDE DEF a
    <2>2. /\ page_pdpt' = Staged(p) /\ user_heap_next' = HeapLo
          /\ UNCHANGED <<mem, state, parent, cr3, running>> /\ Goto(p, a)
      BY <1>6 DEF ExecActivate, procVars, a
    <2>3. CallsInProgress' /\ at' \in [Procs -> AtType]
      BY <1>0, <2>1, <2>2, ExecMoveControl
    <2>4. QED
      BY <1>0, <2>2, <2>3, EntryNumbers DEF ControlTypeOK, AtType
  <1>7. CASE ExecLoad(p)
    <2> DEFINE a == [at[p] EXCEPT !.e = @ + 1]
    <2>1. a \in AtType /\ a.pc = "exec_load" /\ page_pdpt = Staged(p)
      BY <1>0, <1>7, <1>c DEF ExecLoad, CallsInProgress
    <2> HIDE DEF a
    <2>2. UNCHANGED <<state, parent, cr3, running, page_pdpt, user_heap_next>> /\ Goto(p, a)
      BY <1>7 DEF ExecLoad, procVars, cpuVars, a
    <2>3. CallsInProgress' /\ at' \in [Procs -> AtType]
      BY <1>0, <2>1, <2>2, ExecMoveControl
    <2>4. mem' \in [Frames -> Values]
      <3>1. at[p].e \in Entries
        <4>1. at[p].e < HeapLo
          BY <1>7 DEF ExecLoad
        <4>2. QED
          BY <1>0, <4>1, EntryNumbers DEF Entries, KStack, Dir
      <3>2. frame[page_pdpt][at[p].e] \in MaybeFrame
        BY <1>0, <2>1, <3>1 DEF FrameInv, EntryTypeOK
      <3>3. frame[page_pdpt][at[p].e] # 0 => frame[page_pdpt][at[p].e] \in Frames
        BY <3>2, PmmAssumption DEF MaybeFrame, Frames
      <3>4. CASE frame[page_pdpt][at[p].e] # 0
        BY <1>0, <1>7, <3>3, <3>4, LoadedTyped DEF ExecLoad
      <3>5. CASE frame[page_pdpt][at[p].e] = 0
        BY <1>0, <1>7, <3>5 DEF ExecLoad, ControlTypeOK
      <3>6. QED
        BY <3>4, <3>5
    <2>5. QED
      BY <1>0, <2>2, <2>3, <2>4 DEF ControlTypeOK, AtType
  <1>8. CASE ExecFail(p)
    <2>1. SafePlace(p, At("exec_undo"))
      BY <1>a
    <2>2. /\ page_pdpt' = Mine(p) /\ user_heap_next' = HeapLo
          /\ UNCHANGED <<mem, state, parent, cr3, running>> /\ Goto(p, At("exec_undo"))
      BY <1>8 DEF ExecFail, procVars
    <2>3. CallsInProgress' /\ at' \in [Procs -> AtType]
      BY <1>0, <2>1, <2>2, LocalStep
    <2>4. QED
      BY <1>0, <2>2, <2>3, EntryNumbers DEF ControlTypeOK, AtType
  <1>9. CASE ExecDrop(p)
    <2>1. UNCHANGED <<mem, state, parent, cr3, running, page_pdpt, user_heap_next>>
      BY <1>9 DEF ExecDrop, NoChange, procVars, cpuVars
    <2>2. CallsInProgress' /\ at' \in [Procs -> AtType]
      <3>1. CASE at[p].pc = "exec_load" /\ Goto(p, At("exec_drop"))
        <4>1. At("exec_drop") \in AtType /\ At("exec_drop").pc = "exec_drop"
          BY AtPlace DEF Places
        <4>2. At("exec_drop").e = 0 /\ \A e \in Entries : ~(e < 0)
          BY DEF At, User, Entries
        <4>3. QED
          BY <1>0, <2>1, <3>1, <4>1, <4>2, ExecMoveControl
      <3>2. CASE /\ at[p].pc = "exec_drop" /\ Drop(Mine(p), at[p].e) /\ at[p].e <= Dir
                 /\ Goto(p, [at[p] EXCEPT !.e = @ + 1])
        <4> DEFINE a == [at[p] EXCEPT !.e = @ + 1]
        <4>1. a \in AtType /\ a.pc = "exec_drop" /\ a.e = at[p].e + 1
          BY <1>0, <1>c, <3>2
        <4> HIDE DEF a
        <4>2. Goto(p, a)
          BY <3>2 DEF a
        <4>3. \A e \in Entries : e < at[p].e => frame[Mine(p)][e] = 0
          BY <1>0, <3>2 DEF CallsInProgress
        <4>4. ASSUME NEW e \in Entries, e < a.e PROVE frame'[Mine(p)][e] = 0
          <5>1. frame' = [frame EXCEPT ![Mine(p)][at[p].e] = 0]
            BY <3>2 DEF Drop
          <5>2. e = at[p].e \/ e < at[p].e
            BY <1>0, <4>1, <4>4, EntryNumbers
          <5>3. QED
            BY <1>0, <4>3, <5>1, <5>2 DEF FrameInv, EntryTypeOK
        <4>5. QED
          BY <1>0, <2>1, <4>1, <4>2, <4>4, ExecMoveControl
      <3>3. QED
        BY <1>9, <3>1, <3>2 DEF ExecDrop
    <2>3. QED
      BY <1>0, <2>1, <2>2 DEF ControlTypeOK, AtType
  <1>10. CASE ExecCommit(p)
    <2>1. /\ cr3' = [cr3 EXCEPT ![p] = 1 - @] /\ Goto(p, User) /\ at[p].pc = "exec_drop"
          /\ UNCHANGED <<mem, state, parent, running, page_pdpt, user_heap_next>>
      BY <1>10 DEF ExecCommit, cpuVars
    <2>2. /\ at' \in [Procs -> AtType] /\ at'[p] = User /\ User.pc = "user"
          /\ \A q \in Procs : q # p => at'[q] = at[q]
      BY <1>0, <2>1, AtTyped DEF Goto, User
    <2>3. /\ cr3' \in [Procs -> Gens] /\ \A q \in Procs : q # p => cr3'[q] = cr3[q]
      BY <1>0, <2>1 DEF ControlTypeOK, Gens
    <2>4. \A q \in Procs : at'[q].pc # "exec_load" /\ at'[q].pc # "exec_drop"
      BY <1>0, <2>2 DEF CallsInProgress, InExec
    <2>5. ASSUME NEW q \in Procs, Forking(q)'
          PROVE  /\ at'[q].child \in Procs \ {q}
                 /\ parent'[at'[q].child] = q /\ cr3'[at'[q].child] = 0
                 /\ at'[at'[q].child].pc = "embryo" /\ state'[at'[q].child] \in {"embryo", "zombie"}
      <3>1. q # p /\ Forking(q) /\ at'[q].child = at[q].child
        BY <2>2, <2>5 DEF Forking
      <3>2. /\ at[q].child \in Procs \ {q}
            /\ parent[at[q].child] = q /\ cr3[at[q].child] = 0
            /\ at[at[q].child].pc = "embryo" /\ state[at[q].child] \in {"embryo", "zombie"}
        BY <1>0, <3>1 DEF CallsInProgress
      <3>3. at[q].child # p
        BY <2>1, <3>2
      <3>4. QED
        BY <2>1, <2>2, <2>3, <3>1, <3>2, <3>3
    <2>6. \A q \in Procs : at'[q].pc = "embryo" => q # running' /\ state'[q] # "ready"
      BY <1>0, <2>1, <2>2 DEF CallsInProgress
    <2>7. /\ state'[running'] # "unused"
          /\ \A q \in Procs : state'[q] = "unused" => cr3'[q] = 0
      BY <1>0, <2>1, <2>3 DEF CallsInProgress
    <2>8. /\ \A q \in Procs : at'[q].pc = "fork_copy" => at'[q].e \in CodeLo .. HeapHi
          /\ \A q \in Procs : at'[q].pc \in {"brk", "brk_shrink"} => at'[q].lim \in HeapLo .. HeapHi
          /\ \A q \in Procs : at'[q].pc \in {"mmap", "unwind"} => at'[q].base \in HeapLo .. HeapHi
      BY <1>0, <2>2 DEF CallsInProgress
    <2>9. running' \in Procs
      BY <2>1
    <2>10. CallsInProgress'
      BY <2>4, <2>5, <2>6, <2>7, <2>8, <2>9 DEF CallsInProgress, InExec
    <2>11. QED
      BY <1>0, <2>1, <2>2, <2>3, <2>10 DEF ControlTypeOK, AtType
  <1>11. QED
    BY <1>2, <1>3, <1>4, <1>5, <1>6, <1>7, <1>8, <1>9, <1>10 DEF ExecStep

(* Outside exec's window a step preserves CallsInProgress when no place     *)
(* moves except to "user", "dead" or a place the mover may go to, and no    *)
(* forking process loses its child.                                         *)
LEMMA QuietStep ==
  ASSUME CallsInProgress, state'[running'] # "unused", running' \in Procs,
         \A r \in Procs : at'[r] = at[r] \/ at'[r].pc \in {"user", "dead"},
         \A r \in Procs : at'[r].pc # "exec_load" /\ at'[r].pc # "exec_drop",
         \A r \in Procs : at'[r].pc = "embryo" => r # running' /\ state'[r] # "ready",
         \A r \in Procs : state'[r] = "unused" => cr3'[r] = 0,
         \A r, c \in Procs :
           Forking(r) /\ at[r].child = c /\ at'[r] = at[r] =>
             /\ parent'[c] = r /\ cr3'[c] = 0
             /\ at'[c].pc = "embryo" /\ state'[c] \in {"embryo", "zombie"}
  PROVE  CallsInProgress'
  <1>1. ASSUME NEW r \in Procs, Forking(r)'
        PROVE  /\ at'[r].child \in Procs \ {r}
               /\ parent'[at'[r].child] = r /\ cr3'[at'[r].child] = 0
               /\ at'[at'[r].child].pc = "embryo" /\ state'[at'[r].child] \in {"embryo", "zombie"}
    <2>1. at'[r] = at[r] /\ Forking(r)
      BY <1>1 DEF Forking
    <2>2. at[r].child \in Procs \ {r}
      BY <2>1 DEF CallsInProgress
    <2>3. QED
      BY <2>1, <2>2
  <1>2. /\ \A r \in Procs : at'[r].pc = "fork_copy" => at'[r].e \in CodeLo .. HeapHi
        /\ \A r \in Procs : at'[r].pc \in {"brk", "brk_shrink"} => at'[r].lim \in HeapLo .. HeapHi
        /\ \A r \in Procs : at'[r].pc \in {"mmap", "unwind"} => at'[r].base \in HeapLo .. HeapHi
    BY DEF CallsInProgress
  <1>3. QED
    BY <1>1, <1>2 DEF CallsInProgress, InExec

(* Exit, kill, reap and the scheduler keep the control part too, as long as *)
(* the tick does not strike inside exec's window.                           *)
LEMMA LifeStepControl ==
  ASSUME IInv, ~TickInExec, NEW p \in Procs, running = p, LifeStep(p)
  PROVE  ControlTypeOK' /\ CallsInProgress'
  <1>0. /\ ControlTypeOK /\ CallsInProgress /\ FrameInv
        /\ User \in AtType /\ User.pc = "user" /\ at \in [Procs -> AtType]
    BY AtTyped DEF IInv, User
  <1>f. \A r \in Procs : Forking(r) =>
          /\ at[r].child \in Procs \ {r}
          /\ parent[at[r].child] = r /\ cr3[at[r].child] = 0
          /\ at[at[r].child].pc = "embryo" /\ state[at[r].child] \in {"embryo", "zombie"}
    BY <1>0 DEF CallsInProgress
  <1>g. at[p].pc = "user" => \A r \in Procs : at[r].pc # "exec_load" /\ at[r].pc # "exec_drop"
    BY <1>0 DEF CallsInProgress, InExec
  <1> USE DEF Runs
  <1>1. CASE Exit(p)
    <2>1. at[p].pc = "user" /\ UNCHANGED <<mem, parent, cr3, running, page_pdpt, user_heap_next>>
      BY <1>1 DEF Exit, cpuVars
    <2>2. CASE p = 1
      <3>1. Goto(p, At("exec_dir")) /\ state' = state
        BY <1>1, <2>2 DEF Exit
      <3>2. SafePlace(p, At("exec_dir"))
        <4>1. At("exec_dir") \in AtType /\ At("exec_dir").pc = "exec_dir"
          BY AtPlace DEF Places
        <4>2. QED
          BY <4>1 DEF SafePlace
      <3>3. QED
        BY <1>0, <2>1, <3>1, <3>2, ForkMoveControl DEF procVars, cpuVars
    <2>3. CASE p # 1
      <3>1. Goto(p, At("dead")) /\ state' = [state EXCEPT ![p] = "zombie"]
        BY <1>1, <2>3 DEF Exit
      <3>2. At("dead") \in AtType /\ At("dead").pc = "dead"
        BY AtPlace DEF Places
      <3>3. /\ at' \in [Procs -> AtType] /\ at'[p].pc = "dead"
            /\ \A r \in Procs : r # p => at'[r] = at[r]
        BY <1>0, <3>1, <3>2 DEF Goto
      <3>4. /\ state' \in [Procs -> {"unused", "embryo", "ready", "zombie"}]
            /\ state'[p] = "zombie" /\ \A r \in Procs : r # p => state'[r] = state[r]
        BY <1>0, <3>1 DEF ControlTypeOK
      <3>5. state'[running'] # "unused" /\ running' \in Procs
        BY <2>1, <3>4
      <3>6. \A r \in Procs : /\ at'[r] = at[r] \/ at'[r].pc \in {"user", "dead"}
                             /\ at'[r].pc # "exec_load" /\ at'[r].pc # "exec_drop"
        BY <1>g, <2>1, <3>3
      <3>7. \A r \in Procs : at'[r].pc = "embryo" => r # running' /\ state'[r] # "ready"
        BY <1>0, <2>1, <3>3, <3>4 DEF CallsInProgress
      <3>8. \A r \in Procs : state'[r] = "unused" => cr3'[r] = 0
        BY <1>0, <2>1, <3>4 DEF CallsInProgress
      <3>9. \A r, c \in Procs :
              Forking(r) /\ at[r].child = c /\ at'[r] = at[r] =>
                /\ parent'[c] = r /\ cr3'[c] = 0
                /\ at'[c].pc = "embryo" /\ state'[c] \in {"embryo", "zombie"}
        <4>1. ASSUME NEW r \in Procs, NEW c \in Procs, Forking(r), at[r].child = c
              PROVE  c # p /\ parent[c] = r /\ cr3[c] = 0 /\ at[c].pc = "embryo"
                     /\ state[c] \in {"embryo", "zombie"}
          BY <1>f, <2>1, <4>1
        <4>2. QED
          BY <2>1, <3>3, <3>4, <4>1
      <3>10. CallsInProgress'
        BY <1>0, <3>5, <3>6, <3>7, <3>8, <3>9, QuietStep
      <3>11. QED
        BY <1>0, <2>1, <3>3, <3>4, <3>10 DEF ControlTypeOK, AtType
    <2>4. QED
      BY <2>2, <2>3
  <1>2. ASSUME NEW q \in Procs, Kill(p, q) PROVE ControlTypeOK' /\ CallsInProgress'
    <2>1. /\ at[p].pc = "user" /\ state[q] # "unused"
          /\ UNCHANGED <<mem, parent, cr3, running, page_pdpt, user_heap_next, at>>
      BY <1>2 DEF Kill, cpuVars
    <2>2. /\ state' \in [Procs -> {"unused", "embryo", "ready", "zombie"}]
          /\ state'[q] = "zombie" /\ \A r \in Procs : r # q => state'[r] = state[r]
      BY <1>0, <1>2 DEF ControlTypeOK, Kill
    <2>3. state'[running'] # "unused" /\ running' \in Procs
      BY <1>0, <2>1, <2>2 DEF CallsInProgress
    <2>4. \A r \in Procs : at'[r].pc # "exec_load" /\ at'[r].pc # "exec_drop"
      BY <1>g, <2>1
    <2>5. \A r \in Procs : at'[r].pc = "embryo" => r # running' /\ state'[r] # "ready"
      BY <1>0, <2>1, <2>2 DEF CallsInProgress
    <2>6. \A r \in Procs : state'[r] = "unused" => cr3'[r] = 0
      BY <1>0, <2>1, <2>2 DEF CallsInProgress
    <2>7. \A r, c \in Procs :
            Forking(r) /\ at[r].child = c /\ at'[r] = at[r] =>
              /\ parent'[c] = r /\ cr3'[c] = 0
              /\ at'[c].pc = "embryo" /\ state'[c] \in {"embryo", "zombie"}
      BY <1>f, <2>1, <2>2
    <2>8. \A r \in Procs : at'[r] = at[r]
      BY <2>1
    <2>9. CallsInProgress'
      BY <1>0, <2>3, <2>4, <2>5, <2>6, <2>7, <2>8, QuietStep
    <2>10. QED
      BY <1>0, <2>1, <2>2, <2>9 DEF ControlTypeOK
  <1>3. ASSUME NEW q \in Procs, Reap(p, q) PROVE ControlTypeOK' /\ CallsInProgress'
    <2>1. /\ at[p].pc = "user" /\ q # p /\ state[q] = "zombie" /\ parent[q] = p
          /\ UNCHANGED <<mem, running, page_pdpt, user_heap_next>> /\ Goto(q, User)
          /\ state' = [state EXCEPT ![q] = "unused"]
          /\ parent' = [parent EXCEPT ![q] = 0]
          /\ cr3' = [cr3 EXCEPT ![q] = 0]
      BY <1>3 DEF Reap, cpuVars
    <2>2. /\ at' \in [Procs -> AtType] /\ at'[q].pc = "user"
          /\ \A r \in Procs : r # q => at'[r] = at[r]
      BY <1>0, <2>1 DEF Goto
    <2>3. /\ state' \in [Procs -> {"unused", "embryo", "ready", "zombie"}]
          /\ parent' \in [Procs -> 0 .. NProcs] /\ cr3' \in [Procs -> Gens]
          /\ cr3'[q] = 0
          /\ \A r \in Procs : r # q =>
               state'[r] = state[r] /\ parent'[r] = parent[r] /\ cr3'[r] = cr3[r]
      BY <1>0, <2>1, CowAssumption DEF ControlTypeOK, Gens
    <2>4. state'[running'] # "unused" /\ running' \in Procs
      BY <1>0, <2>1, <2>3 DEF CallsInProgress
    <2>5. \A r \in Procs : /\ at'[r] = at[r] \/ at'[r].pc \in {"user", "dead"}
                           /\ at'[r].pc # "exec_load" /\ at'[r].pc # "exec_drop"
      BY <1>g, <2>1, <2>2
    <2>6. \A r \in Procs : at'[r].pc = "embryo" => r # running' /\ state'[r] # "ready"
      BY <1>0, <2>1, <2>2, <2>3 DEF CallsInProgress
    <2>7. \A r \in Procs : state'[r] = "unused" => cr3'[r] = 0
      BY <1>0, <2>3 DEF CallsInProgress
    <2>8. \A r, c \in Procs :
            Forking(r) /\ at[r].child = c /\ at'[r] = at[r] =>
              /\ parent'[c] = r /\ cr3'[c] = 0
              /\ at'[c].pc = "embryo" /\ state'[c] \in {"embryo", "zombie"}
      <3>1. ASSUME NEW r \in Procs, NEW c \in Procs, Forking(r), at[r].child = c
            PROVE  /\ c # q /\ parent[c] = r /\ cr3[c] = 0 /\ at[c].pc = "embryo"
                   /\ state[c] \in {"embryo", "zombie"}
        <4>1. r # p
          BY <2>1, <3>1 DEF Forking
        <4>2. QED
          BY <1>f, <2>1, <3>1, <4>1
      <3>2. QED
        BY <2>2, <2>3, <3>1
    <2>9. CallsInProgress'
      BY <1>0, <2>4, <2>5, <2>6, <2>7, <2>8, QuietStep
    <2>10. QED
      BY <1>0, <2>1, <2>2, <2>3, <2>9 DEF ControlTypeOK, AtType
  <1>4. ASSUME NEW q \in Procs, Switch(q) PROVE ControlTypeOK' /\ CallsInProgress'
    <2>1. /\ state[q] = "ready" /\ ~InExec(p) /\ running' = q /\ page_pdpt' = Mine(q)
          /\ UNCHANGED <<mem, state, parent, cr3, user_heap_next, at>>
      BY <1>4 DEF Switch, procVars
    <2>2. state'[running'] # "unused" /\ running' \in Procs
      BY <2>1
    <2>3. \A r \in Procs : at'[r].pc # "exec_load" /\ at'[r].pc # "exec_drop"
      BY <1>0, <2>1 DEF CallsInProgress, InExec
    <2>4. \A r \in Procs : at'[r].pc = "embryo" => r # running' /\ state'[r] # "ready"
      BY <1>0, <2>1 DEF CallsInProgress
    <2>5. \A r \in Procs : state'[r] = "unused" => cr3'[r] = 0
      BY <1>0, <2>1 DEF CallsInProgress
    <2>6. \A r, c \in Procs :
            Forking(r) /\ at[r].child = c /\ at'[r] = at[r] =>
              /\ parent'[c] = r /\ cr3'[c] = 0
              /\ at'[c].pc = "embryo" /\ state'[c] \in {"embryo", "zombie"}
      BY <1>f, <2>1
    <2>7. \A r \in Procs : at'[r] = at[r]
      BY <2>1
    <2>8. CallsInProgress'
      BY <1>0, <2>2, <2>3, <2>4, <2>5, <2>6, <2>7, QuietStep
    <2>9. QED
      BY <1>0, <2>1, <2>8, SpaceNames DEF ControlTypeOK
  <1>5. QED
    BY <1>1, <1>2, <1>3, <1>4 DEF LifeStep

-----------------------------------------------------------------------------
(* The theorems. *)

LEMMA InitSound == Init => IInv
  <1> SUFFICES ASSUME Init PROVE IInv
    OBVIOUS
  <1>1. /\ 1 \in Procs /\ 0 \in Gens /\ <<1, 0>> \in Spaces
        /\ HeapLo \in Nat /\ HeapLo + 1 \in Nat /\ HeapLo + 1 <= NFrames /\ 1 <= HeapLo
        /\ RefMax >= 1 /\ NFrames \in Nat
    BY CowAssumption, PmmAssumption, EntryNumbers DEF Procs, Gens, Spaces
  <1>2. /\ next_frame = HeapLo + 2 /\ free_list = <<>>
        /\ refcount = [f \in Frames |-> IF f <= HeapLo + 1 THEN 1 ELSE 0]
    BY <1>1 DEF Init, PmmInit
  <1>3. PmmTypeOK /\ PoolSound
    <2>1. PmmTypeOK
      BY <1>1, <1>2, EmptySeq, PmmAssumption DEF PmmTypeOK, Frames
    <2>2. Len(free_list) = 0
      BY <1>2
    <2>3. 1 .. Len(free_list) = {}
      BY <2>2
    <2>4. \A f \in Frames : Free(f) => refcount[f] = 0
      BY <1>1, <1>2, <2>3 DEF Free, Pooled, Frames
    <2>5. QED
      BY <2>1, <2>3, <2>4 DEF PoolSound
  <1>4. \A e \in BootEntries : /\ e \in Entries /\ BootFrame(e) \in 1 .. HeapLo + 1
                               /\ BootFrame(e) \in Frames
                               /\ \A d \in BootEntries : BootFrame(d) = BootFrame(e) => d = e
    <2>1. \A e \in BootEntries : e \in 0 .. HeapLo - 1 \/ e = Dir
      BY DEF BootEntries
    <2>2. Dir >= HeapLo /\ Dir \in Int
      BY EntryNumbers DEF Dir
    <2>3. \A e \in BootEntries : e \in Entries
      BY <1>1, <2>1, <2>2, EntryNumbers DEF Entries, KStack
    <2>4. \A e \in BootEntries : BootFrame(e) \in 1 .. HeapLo + 1
      BY <1>1, <2>1, <2>2 DEF BootFrame
    <2>5. \A e \in BootEntries : BootFrame(e) \in Frames
      BY <1>1, <2>4 DEF Frames
    <2>6. \A e, d \in BootEntries : BootFrame(d) = BootFrame(e) => d = e
      BY <1>1, <2>1, <2>2 DEF BootFrame
    <2>7. QED
      BY <2>3, <2>4, <2>5, <2>6
  <1>5. \A s \in Spaces, e \in Entries :
          frame[s][e] = IF s = <<1, 0>> /\ e \in BootEntries THEN BootFrame(e) ELSE 0
    BY DEF Init
  <1>6. EntryTypeOK
    <2>1. \A s \in Spaces, e \in Entries :
            (IF s = <<1, 0>> /\ e \in BootEntries THEN BootFrame(e) ELSE 0) \in MaybeFrame
      BY <1>1, <1>4 DEF MaybeFrame, Frames
    <2>2. frame \in [Spaces -> [Entries -> MaybeFrame]]
      BY <2>1 DEF Init
    <2>3. /\ rw \in [Spaces -> [Entries -> BOOLEAN]]
          /\ cow \in [Spaces -> [Entries -> BOOLEAN]]
      BY DEF Init, NoFlags
    <2>4. QED
      BY <2>2, <2>3 DEF EntryTypeOK
  <1>7. \A s, t \in Spaces, d, e \in Entries :
          frame[s][d] # 0 /\ frame[s][d] = frame[t][e] => s = t /\ d = e
    <2>1. SUFFICES ASSUME NEW s \in Spaces, NEW t \in Spaces, NEW d \in Entries, NEW e \in Entries,
                          frame[s][d] # 0, frame[s][d] = frame[t][e]
                   PROVE  s = t /\ d = e
      OBVIOUS
    <2>2. s = <<1, 0>> /\ d \in BootEntries /\ frame[s][d] = BootFrame(d)
      BY <1>5, <2>1
    <2>3. t = <<1, 0>> /\ e \in BootEntries /\ frame[t][e] = BootFrame(e)
      BY <1>5, <2>1
    <2>4. QED
      BY <1>4, <2>1, <2>2, <2>3
  <1>8. Aligned /\ SoleWriter /\ KernelFramesPrivate /\ StagedPrivate
    <2>1. Pages \subseteq Entries
      BY EntryNumbers
    <2>2. Aligned
      BY <1>7 DEF Aligned
    <2>3. SoleWriter
      BY <1>7, <2>1 DEF SoleWriter
    <2>4. KernelFramesPrivate
      BY <1>7 DEF KernelFramesPrivate
    <2>5. \A s \in Spaces : PagesPrivate(s)
      BY <1>7, <2>1 DEF PagesPrivate
    <2>6. \A p \in Procs : Staged(p) \in Spaces
      BY <1>1 DEF Staged, Spaces, Gens, Init
    <2>7. QED
      BY <2>2, <2>3, <2>4, <2>5, <2>6 DEF StagedPrivate
  <1>9. RefCovers
    <2>1. ASSUME NEW f \in Frames PROVE Cardinality(Sharers(f)) <= refcount[f]
      <3>1. CASE Sharers(f) = {}
        <4>1. Cardinality(Sharers(f)) = 0
          BY <3>1, FS_EmptySet
        <4>2. QED
          BY <1>1, <1>2, <4>1
      <3>2. CASE Sharers(f) # {}
        <4>1. PICK s \in Spaces, e \in Entries : frame[s][e] = f
          BY <3>2 DEF Sharers
        <4>2. f # 0 /\ f \in Nat
          BY DEF Frames
        <4>3. s = <<1, 0>> /\ e \in BootEntries /\ f = BootFrame(e)
          BY <1>5, <4>1, <4>2
        <4>4. refcount[f] = 1
          BY <1>2, <1>4, <4>3, EntryNumbers
        <4>5. Sharers(f) \subseteq {<<1, 0>>}
          BY <1>5, <4>2 DEF Sharers
        <4>6. Sharers(f) = {<<1, 0>>}
          BY <3>2, <4>5
        <4>7. Cardinality({<<1, 0>>}) = 1
          BY FS_Singleton
        <4>8. QED
          BY <4>4, <4>6, <4>7
      <3>3. QED
        BY <3>1, <3>2
    <2>2. QED
      BY <2>1 DEF RefCovers
  <1>10. ControlTypeOK
    <2>1. User \in AtType
      BY CowAssumption DEF AtType, User, Places
    <2>2. /\ mem \in [Frames -> Values]
          /\ state \in [Procs -> {"unused", "embryo", "ready", "zombie"}]
          /\ parent \in [Procs -> 0 .. NProcs] /\ cr3 \in [Procs -> Gens]
          /\ at \in [Procs -> AtType]
      BY <1>1, <2>1, CowAssumption DEF Init
    <2>3. QED
      BY <1>1, <2>2, EntryNumbers DEF ControlTypeOK, AtType, Init
  <1>11. CallsInProgress
    BY <1>1 DEF CallsInProgress, Init, User, InExec, Forking
  <1>12. QED
    BY <1>3, <1>6, <1>8, <1>9, <1>10, <1>11 DEF IInv, FrameInv

(* Stuttering keeps the invariant. *)
LEMMA IdleIsQuiet == IInv /\ UNCHANGED vars => IInv'
  <1> SUFFICES ASSUME IInv, UNCHANGED vars PROVE IInv'
    OBVIOUS
  <1>1. /\ UNCHANGED <<pmmVars, spaceVars>>
        /\ UNCHANGED <<mem, state, parent, cr3, running, page_pdpt, user_heap_next, at, frame>>
    BY DEF vars, procVars, cpuVars, spaceVars
  <1>2. FrameInv' /\ StagedPrivate'
    BY <1>1, IdleStep
  <1>3. ControlTypeOK'
    BY <1>1 DEF IInv, ControlTypeOK
  <1>4. CallsInProgress'
    BY <1>1 DEF IInv, CallsInProgress, InExec, Forking, Mine, Staged
  <1>5. QED
    BY <1>2, <1>3, <1>4 DEF IInv

(* IInv is inductive: no step of user mode, of a system call, of the fault  *)
(* handler or of the scheduler breaks it, unless the tick strikes while     *)
(* exec works in the space it is building.                                  *)
LEMMA StepSound == ~TickInExec /\ IInv /\ [Next]_vars => IInv'
  <1> SUFFICES ASSUME ~TickInExec, IInv, [Next]_vars PROVE IInv'
    OBVIOUS
  <1>1. CASE UNCHANGED vars
    BY <1>1, IdleIsQuiet
  <1>2. ASSUME NEW p \in Procs, running = p,
               MemoryStep(p) \/ ForkStep(p) \/ ExecStep(p) \/ LifeStep(p)
        PROVE  IInv'
    <2>1. CASE MemoryStep(p)
      BY <1>2, <2>1, MemoryStepFrames, MemoryStepControl DEF IInv
    <2>2. CASE ForkStep(p)
      BY <1>2, <2>2, ForkStepFrames, ForkStepControl DEF IInv
    <2>3. CASE ExecStep(p)
      BY <1>2, <2>3, ExecStepFrames, ExecStepControl DEF IInv
    <2>4. CASE LifeStep(p)
      BY <1>2, <2>4, LifeStepFrames, LifeStepControl DEF IInv
    <2>5. QED
      BY <1>2, <2>1, <2>2, <2>3, <2>4
  <1>3. QED
    BY <1>1, <1>2 DEF Next

(* The invariant of the whole specification. *)
THEOREM Soundness == ~TickInExec => (Spec => []IInv)
  <1>1. ASSUME ~TickInExec PROVE Spec => []IInv
    <2>1. IInv /\ [Next]_vars => IInv'
      BY <1>1, StepSound
    <2>2. QED
      BY <2>1, InitSound, PTL DEF Spec
  <1>2. QED
    BY <1>1

(* Every variable of the model keeps its type: frames stay in the pool's    *)
(* range, entries hold frames or nothing, every process is at a known place *)
(* of a known call.                                                         *)
THEOREM TypeCorrect == ~TickInExec => (Spec => []TypeOK)
  <1>1. IInv => TypeOK
    BY DEF IInv, FrameInv, EntryTypeOK, ControlTypeOK, TypeOK
  <1>2. QED
    BY <1>1, Soundness, PTL

(* pmm.c never pools a frame twice, nor one above the watermark, nor one    *)
(* that has an owner, whatever faults, forks, exits and failed calls do.    *)
THEOREM PoolStaysSound == ~TickInExec => (Spec => []PoolSound)
  <1>1. IInv => PoolSound
    BY DEF IInv, FrameInv
  <1>2. QED
    BY <1>1, Soundness, PTL

(* pmm.c's count of a frame is never below the number of spaces that map    *)
(* it: no frame is handed out while a page table still points at it.        *)
THEOREM CountsCover == ~TickInExec => (Spec => []RefCovers)
  <1>1. IInv => RefCovers
    BY DEF IInv, FrameInv
  <1>2. QED
    BY <1>1, Soundness, PTL

(* paging_copy_user_pgdir and paging_handle_cow_fault never leave a page    *)
(* writable in one space while another space maps the same frame.           *)
THEOREM WritersAreAlone == ~TickInExec => (Spec => []SoleWriter)
  <1>1. IInv => SoleWriter
    BY DEF IInv, FrameInv
  <1>2. QED
    BY <1>1, Soundness, PTL

(* A frame in use as table, directory, page or kernel stack is never in use *)
(* as anything else.                                                        *)
THEOREM FramesKeepTheirUse == ~TickInExec => (Spec => []Aligned)
  <1>1. IInv => Aligned
    BY DEF IInv, FrameInv
  <1>2. QED
    BY <1>1, Soundness, PTL

(* Page tables, directories and kernel stacks are never shared between two  *)
(* spaces.                                                                  *)
THEOREM KernelFramesStayPrivate == ~TickInExec => (Spec => []KernelFramesPrivate)
  <1>1. IInv => KernelFramesPrivate
    BY DEF IInv, FrameInv
  <1>2. QED
    BY <1>1, Soundness, PTL

(* The space exec builds shares no page with any other, so elf_load, which  *)
(* writes through it and makes its pages writable, touches nobody else's    *)
(* memory.                                                                  *)
THEOREM StagedSpaceIsPrivate == ~TickInExec => (Spec => []StagedPrivate)
  <1>1. IInv => StagedPrivate
    BY DEF IInv
  <1>2. QED
    BY <1>1, Soundness, PTL

(* The bookkeeping of the calls in progress survives every interleaving: a  *)
(* fork keeps its child, exec keeps the CPU, loop cursors keep to their     *)
(* windows.                                                                 *)
THEOREM CallsStayConsistent == ~TickInExec => (Spec => []CallsInProgress)
  <1>1. IInv => CallsInProgress
    BY DEF IInv
  <1>2. QED
    BY <1>1, Soundness, PTL
=============================================================================
