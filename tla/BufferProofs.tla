---------------------------- MODULE BufferProofs ----------------------------
(***************************************************************************)
(* Proofs about Buffer, for any number of threads, pointers and blocks.    *)
(*                                                                         *)
(* The properties follow from BufferInv.  Its heart is CountsExact and the *)
(* first conjunct of PoolExact: a refcount is the number of pointers that  *)
(* lead to the block, and the pool's refcount is the number of parties that *)
(* still need the pool, those between two steps of a call included.  The   *)
(* other conjuncts say, for each step a call can stop at, what its thread  *)
(* relies on.                                                              *)
(*                                                                         *)
(* First come the lemmas on counting, then one lemma per action for the    *)
(* blocks (BlocksInv), then those for the pool (PoolExact).                *)
(***************************************************************************)
EXTENDS Buffer, FiniteSetTheorems, TLAPS

(* Only finitely many pointers lead to a block, so that they can be        *)
(* counted.                                                                *)
LEMMA HoldersFinite ==
  ASSUME NEW d
  PROVE  IsFiniteSet(Holders(d)) /\ Cardinality(Holders(d)) \in Nat
<1>1. IsFiniteSet(Refs)
  BY BufferSetsAssumption, FS_Union DEF Refs
<1>2. Holders(d) \in SUBSET Refs
  BY DEF Holders
<1> QED
  BY <1>1, <1>2, FS_Subset, FS_CardinalityType

(* A null pointer is set: av_buffer_ref() and av_buffer_create() add       *)
(* exactly one holder to one block.                                        *)
LEMMA HoldersAdd ==
  ASSUME TypeOK, NEW x \in Refs, NEW d \in Blocks, ref[x] = None,
         ref' = [ref EXCEPT ![x] = d]
  PROVE  /\ Holders(d)' = Holders(d) \union {x}
         /\ Cardinality(Holders(d)') = Cardinality(Holders(d)) + 1
         /\ \A e \in Blocks : e # d => Holders(e)' = Holders(e)
<1>1. Holders(d)' = Holders(d) \union {x}
  BY DEF Holders, TypeOK
<1>2. x \notin Holders(d)
  BY BufferSetsAssumption DEF Holders
<1>3. \A e \in Blocks : e # d => Holders(e)' = Holders(e)
  BY BufferSetsAssumption DEF Holders, TypeOK
<1> QED
  BY <1>1, <1>2, <1>3, HoldersFinite, FS_AddElement

(* A pointer is reset: av_buffer_unref() takes exactly one holder from one *)
(* block.                                                                  *)
LEMMA HoldersDrop ==
  ASSUME TypeOK, NEW x \in Refs, NEW d \in Blocks, ref[x] = d,
         ref' = [ref EXCEPT ![x] = None]
  PROVE  /\ Holders(d)' = Holders(d) \ {x}
         /\ Cardinality(Holders(d)') = Cardinality(Holders(d)) - 1
         /\ \A e \in Blocks : e # d => Holders(e)' = Holders(e)
<1>1. Holders(d)' = Holders(d) \ {x}
  BY BufferSetsAssumption DEF Holders, TypeOK
<1>2. x \in Holders(d)
  BY DEF Holders
<1>3. \A e \in Blocks : e # d => Holders(e)' = Holders(e)
  BY BufferSetsAssumption DEF Holders, TypeOK
<1> QED
  BY <1>1, <1>2, <1>3, HoldersFinite, FS_RemoveElement

(* refcount = 1 means that there is no other reference, and > 1 that there *)
(* is one.                                                                 *)
LEMMA SoleRef ==
  ASSUME TypeOK, CountsExact, NEW r \in Refs, ref[r] # None
  PROVE  /\ refcount[ref[r]] >= 1
         /\ refcount[ref[r]] = 1 <=> \A q \in Refs : ref[q] = ref[r] => q = r
<1> DEFINE H == Holders(ref[r])
<1>1. r \in H /\ IsFiniteSet(H) /\ ref[r] \in Blocks /\ refcount[ref[r]] = Cardinality(H)
  BY HoldersFinite DEF Holders, CountsExact, TypeOK
<1>2. Cardinality(H) \in Nat /\ Cardinality(H) # 0
  BY <1>1, FS_EmptySet, FS_CardinalityType
<1>3. Cardinality(H) = 1 <=> \E x : H = {x}
  BY <1>1, FS_Singleton
<1>4. (\E x : H = {x}) <=> \A q \in Refs : ref[q] = ref[r] => q = r
  <2>1. (\E x : H = {x}) <=> H = {r}
    BY <1>1
  <2>2. H = {r} <=> \A q \in H : q = r
    BY <1>1
  <2> QED
    BY <2>1, <2>2 DEF Holders
<1> QED
  BY <1>1, <1>2, <1>3, <1>4

(* A thread that begins a call on r interferes with nobody inside one. *)
LEMMA OthersBuffers ==
  ASSUME BlocksInv, NEW t \in Threads, NEW r \in Slots, Calls(t, r), ref[r] # None
  PROVE  \A u \in Threads :
           /\ pc[u] \in Exclusive => ref[slot[u]] # ref[r]
           /\ pc[u] \in InCall => slot[u] # r
  BY DEF BlocksInv, CallsExact, OwnPointer, SoleHolder, InCall, Exclusive, Calls, Refs

(* av_buffer_ref() keeps the counts exact, and finds nobody writing. *)
LEMMA RefStep ==
  ASSUME BlocksInv, NEW t \in Threads, NEW r \in Slots, NEW q \in Slots, Ref(t, r, q)
  PROVE  BlocksInv'
<1> USE DEF BlocksInv
<1>1. PICK d \in Blocks : ref[r] = d
  BY DEF Ref, TypeOK, Refs
<1>2. /\ d # None /\ r \in Refs /\ q \in Refs /\ q \notin Threads /\ r # q /\ ref[q] = None
      /\ ref' = [ref EXCEPT ![q] = d]
  BY <1>1, BufferSetsAssumption DEF Ref, Calls, TypeOK, Refs
<1>3. /\ Cardinality(Holders(d)') = Cardinality(Holders(d)) + 1
      /\ \A e \in Blocks : e # d => Holders(e)' = Holders(e)
  BY <1>1, <1>2, HoldersAdd
<1>4. \A u \in Threads : /\ pc[u] \in Exclusive => ref[slot[u]] # d
                         /\ pc[u] \in InCall => slot[u] # r
  BY <1>1, OthersBuffers DEF Ref
<1>5. TypeOK'
  BY <1>1, <1>2 DEF Ref, CountAfterRef, TypeOK, poolVars
<1>6. CountsExact'
  BY <1>1, <1>2, <1>3 DEF Ref, CountAfterRef, CountsExact, TypeOK
<1>7. RefsValid' /\ ContentStable' /\ PoolListExact'
  BY <1>1, <1>2 DEF Ref, RefsValid, ContentStable, PoolListExact, TypeOK, poolVars
<1>8. NoOrphan' /\ FreeingExact'
  <2>1. NoOrphan'
    <3> SUFFICES ASSUME NEW e \in Blocks, mem'[e] # "none", e \notin pool',
                        \A x \in Refs : ref'[x] # e
                 PROVE  \E u \in Threads : pc'[u] = "free" /\ blk'[u] = e
      BY DEF NoOrphan
    <3>1. e # d /\ \A x \in Refs : ref[x] # e
      BY <1>1, <1>2, BufferSetsAssumption DEF TypeOK
    <3> QED
      BY <3>1 DEF Ref, NoOrphan, poolVars
  <2>2. FreeingExact'
    BY <1>1, <1>2 DEF Ref, FreeingExact, TypeOK, poolVars
  <2> QED
    BY <2>1, <2>2
<1>9. CallsExact'
  BY <1>1, <1>2, <1>4 DEF Ref, CallsExact, OwnPointer, SoleHolder, NewbufExact, GotExact,
     InCall, Exclusive, TypeOK, poolVars
<1> QED
  BY <1>5, <1>6, <1>7, <1>8, <1>9

(* Alloc and PoolGet give pointer r a block d that nobody refers to. *)
LEMMA FreshBlock ==
  ASSUME BlocksInv, NEW d \in Blocks, mem[d] = "none" \/ d \in pool
  PROVE  /\ \A x \in Refs : ref[x] # d
         /\ \A u \in Threads : pc[u] = "free" => blk[u] # d
         /\ Holders(d) = {} /\ Cardinality(Holders(d)) = 0
<1>1. \A x \in Refs : ref[x] # d
  BY BufferSetsAssumption DEF BlocksInv, RefsValid
<1>2. \A u \in Threads : pc[u] = "free" => blk[u] # d
  BY DEF BlocksInv, FreeingExact
<1>3. Holders(d) = {}
  BY <1>1 DEF Holders
<1> QED
  BY <1>1, <1>2, <1>3, FS_EmptySet

(* av_buffer_alloc() takes memory that nobody refers to or is freeing. *)
LEMMA AllocStep ==
  ASSUME BlocksInv, NEW t \in Threads, NEW r \in Slots, Alloc(t, r)
  PROVE  BlocksInv'
<1> USE DEF BlocksInv
<1>1. PICK d \in Blocks, ro \in BOOLEAN, re \in BOOLEAN :
        /\ mem[d] = "none"
        /\ mem' = [mem EXCEPT ![d] = "heap"]
        /\ Create(d, r, ro, re)
        /\ seen' = [seen EXCEPT ![r] = content[d]]
  BY DEF Alloc
<1>2. /\ d # None /\ r \in Refs /\ r \notin Threads /\ ref[r] = None
      /\ ref' = [ref EXCEPT ![r] = d]
      /\ Calls(t, r)
  BY <1>1, BufferSetsAssumption DEF Alloc, Create, Calls, Refs
<1>3. /\ \A x \in Refs : ref[x] # d
      /\ \A u \in Threads : pc[u] = "free" => blk[u] # d
      /\ Cardinality(Holders(d)) = 0
  BY <1>1, FreshBlock
<1>4. /\ Cardinality(Holders(d)') = Cardinality(Holders(d)) + 1
      /\ \A e \in Blocks : e # d => Holders(e)' = Holders(e)
  BY <1>2, HoldersAdd
<1>5. TypeOK'
  BY <1>1, <1>2 DEF Alloc, Create, FirstCount, TypeOK, poolVars
<1>6. CountsExact'
  BY <1>1, <1>3, <1>4 DEF Create, FirstCount, CountsExact, TypeOK
<1>7. RefsValid' /\ ContentStable' /\ PoolListExact'
  BY <1>1, <1>2 DEF Alloc, RefsValid, ContentStable, PoolListExact, TypeOK, poolVars
<1>8. NoOrphan'
  <2> SUFFICES ASSUME NEW e \in Blocks, mem'[e] # "none", e \notin pool',
                      \A x \in Refs : ref'[x] # e
               PROVE  \E u \in Threads : pc'[u] = "free" /\ blk'[u] = e
    BY DEF NoOrphan
  <2>1. e # d /\ \A x \in Refs : ref[x] # e
    BY <1>1, <1>2, BufferSetsAssumption DEF TypeOK
  <2> QED
    BY <1>1, <2>1 DEF Alloc, NoOrphan, TypeOK, poolVars
<1>9. FreeingExact'
  BY <1>1, <1>2, <1>3 DEF Alloc, FreeingExact, TypeOK, poolVars
<1>10. CallsExact'
  BY <1>1, <1>2, <1>3 DEF Alloc, CallsExact, OwnPointer, SoleHolder, NewbufExact, GotExact,
     InCall, Exclusive, TypeOK, poolVars, Refs
<1> QED
  BY <1>5, <1>6, <1>7, <1>8, <1>9, <1>10

(* av_buffer_pool_get() takes an entry that nobody refers to, from the     *)
(* list or new.                                                            *)
LEMMA PoolGetStep ==
  ASSUME BlocksInv, NEW t \in Threads, NEW r \in Slots, PoolGet(t, r)
  PROVE  BlocksInv'
<1> USE DEF BlocksInv
<1>1. PICK d \in Blocks :
        /\ mem[d] = "none" \/ d \in pool
        /\ pool' = pool \ {d}
        /\ mem' = [mem EXCEPT ![d] = "pooled"]
        /\ Create(d, r, FALSE, FALSE)
        /\ seen' = [seen EXCEPT ![r] = content[d]]
  BY DEF PoolGet, Taken
<1>2. /\ d # None /\ r \in Refs /\ r \notin Threads /\ ref[r] = None
      /\ ref' = [ref EXCEPT ![r] = d]
      /\ Calls(t, r)
  BY <1>1, BufferSetsAssumption DEF PoolGet, Create, Calls, Refs
<1>3. /\ \A x \in Refs : ref[x] # d
      /\ \A u \in Threads : pc[u] = "free" => blk[u] # d
      /\ Cardinality(Holders(d)) = 0
  BY <1>1, FreshBlock
<1>4. /\ Cardinality(Holders(d)') = Cardinality(Holders(d)) + 1
      /\ \A e \in Blocks : e # d => Holders(e)' = Holders(e)
  BY <1>2, HoldersAdd
<1>5. TypeOK'
  BY <1>1, <1>2 DEF PoolGet, Create, FirstCount, TypeOK, Goto, Keep, ThreadSteps
<1>6. CountsExact'
  BY <1>1, <1>3, <1>4 DEF Create, FirstCount, CountsExact, TypeOK
<1>7. RefsValid' /\ ContentStable' /\ PoolListExact'
  BY <1>1, <1>2, <1>3 DEF PoolGet, RefsValid, ContentStable, PoolListExact, TypeOK, Goto
<1>8. NoOrphan'
  <2> SUFFICES ASSUME NEW e \in Blocks, mem'[e] # "none", e \notin pool',
                      \A x \in Refs : ref'[x] # e
               PROVE  \E u \in Threads : pc'[u] = "free" /\ blk'[u] = e
    BY DEF NoOrphan
  <2>1. e # d /\ \A x \in Refs : ref[x] # e
    BY <1>1, <1>2, BufferSetsAssumption DEF TypeOK
  <2> QED
    BY <1>1, <1>2, <2>1 DEF PoolGet, NoOrphan, TypeOK, Goto, Calls
<1>9. FreeingExact'
  BY <1>1, <1>2, <1>3 DEF PoolGet, FreeingExact, TypeOK, Goto
<1>10. CallsExact'
  BY <1>1, <1>2, <1>3 DEF PoolGet, CallsExact, OwnPointer, SoleHolder, NewbufExact, GotExact,
     InCall, Exclusive, TypeOK, Refs, Goto, Keep, Calls
<1> QED
  BY <1>5, <1>6, <1>7, <1>8, <1>9, <1>10

(* av_buffer_make_writable() and av_buffer_realloc() copy what the old     *)
(* buffer shows.                                                           *)
LEMMA CopyNewStep ==
  ASSUME BlocksInv, NEW t \in Threads, CopyNew(t)
  PROVE  BlocksInv'
<1> USE DEF BlocksInv
<1>1. PICK d \in Blocks :
        /\ mem[d] = "none"
        /\ mem' = [mem EXCEPT ![d] = "heap"]
        /\ Create(d, t, FALSE, pc[t] = "recopy")
        /\ content' = [content EXCEPT ![d] = content[ref[slot[t]]]]
        /\ seen' = [seen EXCEPT ![t] = content[ref[slot[t]]]]
  BY DEF CopyNew
<1>2. /\ slot[t] \in Slots /\ slot[t] \in Refs /\ ref[slot[t]] \in Blocks /\ ref[slot[t]] # None
      /\ content[ref[slot[t]]] = seen[slot[t]]
  BY DEF CopyNew, CallsExact, OwnPointer, InCall, TypeOK, Refs, ContentStable
<1>3. /\ d # None /\ t \in Refs /\ t \notin Slots /\ ref[t] = None
      /\ ref' = [ref EXCEPT ![t] = d]
  BY <1>1, BufferSetsAssumption DEF CopyNew, Create, Refs, CallsExact, NewbufExact
<1>4. /\ \A x \in Refs : ref[x] # d
      /\ \A u \in Threads : pc[u] = "free" => blk[u] # d
      /\ Cardinality(Holders(d)) = 0
  BY <1>1, FreshBlock
<1>5. /\ Cardinality(Holders(d)') = Cardinality(Holders(d)) + 1
      /\ \A e \in Blocks : e # d => Holders(e)' = Holders(e)
  BY <1>3, HoldersAdd
<1>6. TypeOK'
  BY <1>1, <1>2, <1>3 DEF CopyNew, Create, FirstCount, TypeOK, Goto, ThreadSteps, poolVars
<1>7. CountsExact'
  BY <1>1, <1>4, <1>5 DEF Create, FirstCount, CountsExact, TypeOK
<1>8. RefsValid' /\ ContentStable' /\ PoolListExact'
  BY <1>1, <1>2, <1>3, <1>4 DEF CopyNew, RefsValid, ContentStable, PoolListExact, TypeOK,
     Goto, poolVars
<1>9. NoOrphan'
  <2> SUFFICES ASSUME NEW e \in Blocks, mem'[e] # "none", e \notin pool',
                      \A x \in Refs : ref'[x] # e
               PROVE  \E u \in Threads : pc'[u] = "free" /\ blk'[u] = e
    BY DEF NoOrphan
  <2>1. e # d /\ \A x \in Refs : ref[x] # e
    BY <1>3, BufferSetsAssumption DEF TypeOK
  <2> QED
    BY <1>1, <2>1 DEF CopyNew, NoOrphan, TypeOK, Goto, poolVars
<1>10. FreeingExact'
  BY <1>1, <1>3, <1>4 DEF CopyNew, FreeingExact, TypeOK, Goto, poolVars
<1>11. CallsExact'
  <2>1. OwnPointer' /\ SoleHolder' /\ GotExact'
    BY <1>1, <1>3, <1>4 DEF CopyNew, CallsExact, OwnPointer, SoleHolder, GotExact,
       InCall, Exclusive, TypeOK, Refs, Goto, poolVars
  <2>2. NewbufExact'
    BY <1>1, <1>2, <1>3, <1>4 DEF CopyNew, CallsExact, OwnPointer, NewbufExact, InCall,
       TypeOK, Refs, Goto
  <2> QED
    BY <2>1, <2>2 DEF CallsExact
<1> QED
  BY <1>6, <1>7, <1>8, <1>9, <1>10, <1>11

(* av_buffer_unref() leaves the block either to its other holders or to    *)
(* the one thread that frees it.                                           *)
LEMMA UnrefStep ==
  ASSUME BlocksInv, NEW t \in Threads, NEW r \in Slots, Unref(t, r)
  PROVE  BlocksInv'
<1> USE DEF BlocksInv
<1>1. PICK d \in Blocks : ref[r] = d
  BY DEF Unref, TypeOK, Refs
<1>2. /\ d # None /\ r \in Refs /\ r \notin Threads /\ pc[t] = "idle"
      /\ ref' = [ref EXCEPT ![r] = None]
  BY <1>1, BufferSetsAssumption DEF Unref, Calls, Refs
<1>3. /\ Cardinality(Holders(d)') = Cardinality(Holders(d)) - 1
      /\ \A e \in Blocks : e # d => Holders(e)' = Holders(e)
  BY <1>1, <1>2, HoldersDrop
<1>4. \A u \in Threads : /\ pc[u] \in Exclusive => ref[slot[u]] # d
                         /\ pc[u] \in InCall => slot[u] # r
  BY <1>1, OthersBuffers DEF Unref
<1>5. /\ refcount[d] >= 1
      /\ refcount[d] = 1 <=> \A q \in Refs : ref[q] = d => q = r
  BY <1>1, <1>2, SoleRef
<1>6. mem[d] # "none" /\ d \notin pool /\ \A u \in Threads : pc[u] = "free" => blk[u] # d
  BY <1>1, <1>2 DEF RefsValid, FreeingExact
<1>7. TypeOK'
  BY <1>1, <1>2, <1>5 DEF Unref, FreeIfLast, Goto, ThreadSteps, TypeOK, poolVars
<1>8. CountsExact'
  BY <1>1, <1>3 DEF Unref, CountsExact, TypeOK
<1>9. RefsValid' /\ ContentStable' /\ PoolListExact'
  BY <1>1, <1>2, <1>6 DEF Unref, FreeIfLast, Goto, RefsValid, ContentStable, PoolListExact,
     TypeOK, poolVars
<1>10. NoOrphan'
  <2> SUFFICES ASSUME NEW e \in Blocks, mem'[e] # "none", e \notin pool',
                      \A x \in Refs : ref'[x] # e
               PROVE  \E u \in Threads : pc'[u] = "free" /\ blk'[u] = e
    BY DEF NoOrphan
  <2>1. CASE e = d
    <3>1. \A q \in Refs : ref[q] = d => q = r
      BY <2>1, <1>1, <1>2 DEF TypeOK
    <3> QED
      BY <3>1, <2>1, <1>1, <1>5 DEF Unref, FreeIfLast, LastRef, Goto, TypeOK
  <2>2. CASE e # d
    <3>1. \A x \in Refs : ref[x] # e
      BY <2>2, <1>1, <1>2 DEF TypeOK
    <3>2. PICK u \in Threads : pc[u] = "free" /\ blk[u] = e
      BY <3>1 DEF NoOrphan, Unref, poolVars
    <3> QED
      BY <3>2, <1>2 DEF Unref, FreeIfLast, Goto, TypeOK
  <2> QED
    BY <2>1, <2>2
<1>11. FreeingExact'
  BY <1>1, <1>2, <1>5, <1>6, BufferSetsAssumption
     DEF Unref, FreeIfLast, LastRef, Goto, FreeingExact, TypeOK, poolVars
<1>12. CallsExact'
  <2>1. OwnPointer' /\ SoleHolder'
    BY <1>1, <1>2, <1>4, BufferSetsAssumption DEF Unref, FreeIfLast, Goto, CallsExact,
       OwnPointer, SoleHolder, InCall, Exclusive, TypeOK, Refs
  <2>2. NewbufExact' /\ GotExact'
    BY <1>1, <1>2, <1>4 DEF Unref, FreeIfLast, Goto, CallsExact, OwnPointer, NewbufExact,
       GotExact, InCall, TypeOK, Refs, poolVars
  <2> QED
    BY <2>1, <2>2 DEF CallsExact
<1> QED
  BY <1>7, <1>8, <1>9, <1>10, <1>11, <1>12

(* An element of a finite set is exchanged for another. *)
LEMMA Exchange ==
  ASSUME NEW S, IsFiniteSet(S), NEW x \in S, NEW y, y \notin S
  PROVE  Cardinality((S \ {x}) \union {y}) = Cardinality(S)
<1> DEFINE T == S \ {x}
<1>1. IsFiniteSet(T) /\ Cardinality(T) = Cardinality(S) - 1 /\ Cardinality(S) \in Nat
  BY FS_RemoveElement, FS_CardinalityType
<1>2. y \notin T
  OBVIOUS
<1> HIDE DEF T
<1>3. Cardinality(T \union {y}) = Cardinality(T) + 1
  BY <1>1, <1>2, FS_AddElement
<1> QED
  BY <1>1, <1>3 DEF T

(* A reference moves from x to y. *)
LEMMA HoldersMove ==
  ASSUME TypeOK, NEW x \in Refs, NEW y \in Refs, NEW d \in Blocks,
         ref[x] = d, ref[y] = None, ref' = [ref EXCEPT ![y] = d, ![x] = None]
  PROVE  /\ Cardinality(Holders(d)') = Cardinality(Holders(d))
         /\ \A e \in Blocks : e # d => Holders(e)' = Holders(e)
<1>1. Holders(d)' = (Holders(d) \ {x}) \union {y} /\ x \in Holders(d) /\ y \notin Holders(d)
  BY BufferSetsAssumption DEF Holders, TypeOK
<1>2. Cardinality((Holders(d) \ {x}) \union {y}) = Cardinality(Holders(d))
  BY <1>1, HoldersFinite, Exchange
<1>3. \A e \in Blocks : e # d => Holders(e)' = Holders(e)
  BY BufferSetsAssumption DEF Holders, TypeOK
<1> QED
  BY <1>1, <1>2, <1>3

(* Handing a pointer on keeps the counts. *)
LEMMA HandStep ==
  ASSUME BlocksInv, NEW t \in Threads, NEW r \in Slots, NEW q \in Slots, Hand(t, r, q)
  PROVE  BlocksInv'
<1> USE DEF BlocksInv
<1>1. PICK d \in Blocks : ref[r] = d
  BY DEF Hand, TypeOK, Refs
<1>2. /\ d # None /\ r \in Refs /\ q \in Refs /\ q \notin Threads /\ r \notin Threads
      /\ r # q /\ ref[q] = None /\ pc[t] = "idle" /\ Owner[r] = t
      /\ ref' = [ref EXCEPT ![q] = d, ![r] = None]
  BY <1>1, BufferSetsAssumption DEF Hand, Calls, TypeOK, Refs
<1>3. /\ Cardinality(Holders(d)') = Cardinality(Holders(d))
      /\ \A e \in Blocks : e # d => Holders(e)' = Holders(e)
  BY <1>1, <1>2, HoldersMove
<1>4. \A u \in Threads : /\ pc[u] \in Exclusive => ref[slot[u]] # d
                         /\ pc[u] \in InCall => slot[u] # r
  BY <1>1, OthersBuffers DEF Hand
<1>5. TypeOK'
  BY <1>1, <1>2 DEF Hand, TypeOK, poolVars
<1>6. CountsExact'
  BY <1>1, <1>3 DEF Hand, CountsExact, TypeOK
<1>7. RefsValid' /\ ContentStable' /\ PoolListExact'
  BY <1>1, <1>2 DEF Hand, RefsValid, ContentStable, PoolListExact, TypeOK, poolVars
<1>8. NoOrphan'
  <2> SUFFICES ASSUME NEW e \in Blocks, mem'[e] # "none", e \notin pool',
                      \A x \in Refs : ref'[x] # e
               PROVE  \E u \in Threads : pc'[u] = "free" /\ blk'[u] = e
    BY DEF NoOrphan
  <2>1. \A x \in Refs : ref[x] # e
    BY <1>1, <1>2, BufferSetsAssumption DEF TypeOK
  <2> QED
    BY <2>1 DEF Hand, NoOrphan, poolVars
<1>9. FreeingExact'
  BY <1>1, <1>2, BufferSetsAssumption DEF Hand, FreeingExact, TypeOK, poolVars
<1>10. CallsExact'
  <2>1. OwnPointer' /\ SoleHolder'
    BY <1>1, <1>2, <1>4, BufferSetsAssumption DEF Hand, CallsExact, OwnPointer, SoleHolder,
       InCall, Exclusive, TypeOK, Refs
  <2>2. NewbufExact' /\ GotExact'
    BY <1>1, <1>2, <1>4 DEF Hand, CallsExact, OwnPointer, NewbufExact, GotExact, InCall,
       TypeOK, Refs, poolVars
  <2> QED
    BY <2>1, <2>2 DEF CallsExact
<1> QED
  BY <1>5, <1>6, <1>7, <1>8, <1>9, <1>10

(* The old buffer is unreferenced and *pbuf shows the same data as before. *)
LEMMA SwapStep ==
  ASSUME BlocksInv, NEW t \in Threads, Swap(t)
  PROVE  BlocksInv'
<1> USE DEF BlocksInv
<1>1. /\ slot[t] \in Slots /\ Owner[slot[t]] = t /\ ref[slot[t]] # None
      /\ ref[t] # None /\ ref[t] # ref[slot[t]] /\ seen[t] = seen[slot[t]]
  BY DEF Swap, CallsExact, OwnPointer, NewbufExact, InCall
<1>2. PICK s \in Slots, d \in Blocks, n \in Blocks :
        slot[t] = s /\ ref[s] = d /\ ref[t] = n
  BY <1>1 DEF TypeOK, Refs
<1>3. /\ d # None /\ n # None /\ d # n /\ s \in Refs /\ t \in Refs /\ s \notin Threads /\ t \notin Slots
      /\ Owner[s] = t /\ pc[t] = "swap" /\ seen[t] = seen[s]
      /\ ref' = [ref EXCEPT ![s] = n, ![t] = None]
      /\ refcount' = [refcount EXCEPT ![d] = @ - 1]
      /\ slot' = [slot EXCEPT ![t] = None]
  BY <1>1, <1>2, BufferSetsAssumption DEF Swap, Refs, Keep
<1>4. /\ Cardinality(Holders(d)') = Cardinality(Holders(d)) - 1
      /\ Cardinality(Holders(n)') = Cardinality(Holders(n))
      /\ \A e \in Blocks : e # d /\ e # n => Holders(e)' = Holders(e)
  <2>1. Holders(d)' = Holders(d) \ {s} /\ s \in Holders(d)
    BY <1>2, <1>3, BufferSetsAssumption DEF Holders, TypeOK
  <2>2. Holders(n)' = (Holders(n) \ {t}) \union {s} /\ t \in Holders(n) /\ s \notin Holders(n)
    BY <1>2, <1>3, BufferSetsAssumption DEF Holders, TypeOK
  <2>3. Cardinality(Holders(d)') = Cardinality(Holders(d)) - 1
    BY <2>1, HoldersFinite, FS_RemoveElement
  <2>4. Cardinality((Holders(n) \ {t}) \union {s}) = Cardinality(Holders(n))
    BY <2>2, HoldersFinite, Exchange
  <2>5. \A e \in Blocks : e # d /\ e # n => Holders(e)' = Holders(e)
    BY <1>2, <1>3, BufferSetsAssumption DEF Holders, TypeOK
  <2> QED
    BY <2>2, <2>3, <2>4, <2>5
<1>5. \A u \in Threads : /\ pc[u] \in Exclusive => ref[slot[u]] # d /\ ref[slot[u]] # n
                         /\ pc[u] \in InCall /\ u # t => slot[u] # s /\ slot[u] # t
  BY <1>2, <1>3 DEF CallsExact, OwnPointer, SoleHolder, InCall, Exclusive
<1>6. /\ refcount[d] >= 1
      /\ refcount[d] = 1 <=> \A q \in Refs : ref[q] = d => q = s
  BY <1>2, <1>3, SoleRef
<1>7. /\ mem[d] # "none" /\ d \notin pool /\ mem[n] # "none" /\ n \notin pool
      /\ \A u \in Threads : pc[u] = "free" => blk[u] # d /\ blk[u] # n
  BY <1>2, <1>3 DEF RefsValid, FreeingExact
<1>8. /\ pc' = [pc EXCEPT ![t] = IF refcount[d] = 1 THEN "free" ELSE "idle"]
      /\ blk' = [blk EXCEPT ![t] = IF refcount[d] = 1 THEN d ELSE @]
  BY <1>2 DEF Swap, FreeIfLast, LastRef, Goto, TypeOK
<1>9. TypeOK'
  BY <1>2, <1>3, <1>6, <1>8 DEF Swap, ThreadSteps, TypeOK, poolVars
<1>10. CountsExact'
  BY <1>2, <1>3, <1>4 DEF Swap, CountsExact, TypeOK
<1>11. RefsValid' /\ ContentStable' /\ PoolListExact'
  BY <1>2, <1>3, <1>7, <1>8 DEF Swap, RefsValid, ContentStable, PoolListExact, TypeOK, poolVars
<1>12. NoOrphan'
  <2> SUFFICES ASSUME NEW e \in Blocks, mem'[e] # "none", e \notin pool',
                      \A x \in Refs : ref'[x] # e
               PROVE  \E u \in Threads : pc'[u] = "free" /\ blk'[u] = e
    BY DEF NoOrphan
  <2>1. CASE e = d
    <3>1. \A q \in Refs : ref[q] = d => q = s
      BY <2>1, <1>2, <1>3 DEF TypeOK
    <3> QED
      BY <3>1, <2>1, <1>6, <1>8 DEF TypeOK
  <2>2. CASE e # d
    <3>1. \A x \in Refs : ref[x] # e
      BY <2>2, <1>2, <1>3 DEF TypeOK
    <3>2. PICK u \in Threads : pc[u] = "free" /\ blk[u] = e
      BY <3>1 DEF NoOrphan, Swap, poolVars
    <3> QED
      BY <3>2, <1>3, <1>8 DEF TypeOK
  <2> QED
    BY <2>1, <2>2
<1>13. FreeingExact'
  BY <1>2, <1>3, <1>6, <1>7, <1>8, BufferSetsAssumption
     DEF Swap, FreeingExact, TypeOK, poolVars
<1>14. CallsExact'
  <2>1. OwnPointer' /\ SoleHolder'
    BY <1>2, <1>3, <1>5, <1>8, BufferSetsAssumption DEF CallsExact,
       OwnPointer, SoleHolder, InCall, Exclusive, TypeOK, Refs
  <2>2. NewbufExact' /\ GotExact'
    BY <1>2, <1>3, <1>5, <1>8 DEF Swap, CallsExact, OwnPointer, NewbufExact,
       GotExact, InCall, TypeOK, Refs, poolVars
  <2> QED
    BY <2>1, <2>2 DEF CallsExact
<1> QED
  BY <1>9, <1>10, <1>11, <1>12, <1>13, <1>14

(* A write disturbs no other pointer, because the writer is alone. *)
LEMMA WriteStep ==
  ASSUME BlocksInv, NEW t \in Threads, Write(t)
  PROVE  BlocksInv'
<1> USE DEF BlocksInv
<1>1. PICK s \in Slots, d \in Blocks : slot[t] = s /\ ref[s] = d
  BY DEF Write, CallsExact, OwnPointer, InCall, TypeOK, Refs
<1>2. /\ s \in Refs /\ s \notin Threads /\ Owner[s] = t /\ d # None
      /\ \A x \in Refs : ref[x] = d => x = s
  BY <1>1, BufferSetsAssumption DEF Write, CallsExact, OwnPointer, SoleHolder, InCall,
     Exclusive, Refs
<1>3. /\ pc[t] = "write"
      /\ content' = [content EXCEPT ![d] = 1 - @]
      /\ seen' = [seen EXCEPT ![s] = 1 - content[d]]
      /\ pc' = [pc EXCEPT ![t] = "idle"] /\ slot' = [slot EXCEPT ![t] = None]
      /\ UNCHANGED <<memVars, poolVars, blk>>
  BY <1>1 DEF Write, Goto, Keep
<1>4. TypeOK'
  BY <1>1, <1>2, <1>3 DEF TypeOK, ThreadSteps, memVars, poolVars
<1>5. CountsExact' /\ RefsValid' /\ PoolListExact'
  BY <1>3 DEF CountsExact, Holders, RefsValid, PoolListExact, TypeOK, memVars, poolVars
<1>6. ContentStable'
  BY <1>1, <1>2, <1>3 DEF ContentStable, TypeOK, memVars
<1>7. NoOrphan'
  BY <1>3 DEF NoOrphan, TypeOK, memVars, poolVars
<1>8. FreeingExact'
  BY <1>3 DEF FreeingExact, TypeOK, memVars, poolVars
<1>9. CallsExact'
  BY <1>1, <1>2, <1>3 DEF CallsExact, OwnPointer, SoleHolder, NewbufExact, GotExact, InCall,
     Exclusive, TypeOK, Refs, memVars, poolVars
<1> QED
  BY <1>4, <1>5, <1>6, <1>7, <1>8, <1>9

(* Steps that move one thread and change neither buffers nor the list. *)
LEMMA QuietStep ==
  ASSUME BlocksInv, NEW t \in Threads, NEW l \in ThreadSteps \ {"free", "got", "swap"},
         NEW s \in Slots \union {None},
         pc[t] \notin {"free", "swap"},
         pc' = [pc EXCEPT ![t] = l], slot' = [slot EXCEPT ![t] = s],
         l \in InCall => s \in Slots /\ Owner[s] = t /\ ref[s] # None,
         l \in Exclusive => \A x \in Refs : ref[x] = ref[s] => x = s,
         UNCHANGED <<memVars, dataVars, pool, blk>>,
         pool_refcount' \in Nat, pool_ptr' \in BOOLEAN, UNCHANGED pool_mem,
         \A u \in Threads : pc'[u] = "got" => pool_ptr'
  PROVE  BlocksInv'
<1> USE DEF BlocksInv
<1>1. TypeOK'
  BY DEF TypeOK, memVars, dataVars
<1>2. CountsExact' /\ RefsValid' /\ ContentStable' /\ PoolListExact'
  BY DEF CountsExact, Holders, RefsValid, ContentStable, PoolListExact, TypeOK, memVars, dataVars
<1>3. NoOrphan'
  BY DEF NoOrphan, TypeOK, memVars
<1>4. FreeingExact'
  BY DEF FreeingExact, TypeOK, memVars
<1>5. OwnPointer' /\ SoleHolder'
  BY DEF CallsExact, OwnPointer, SoleHolder, InCall, Exclusive, TypeOK, memVars
<1>6. NewbufExact' /\ GotExact'
  BY BufferSetsAssumption DEF CallsExact, NewbufExact, GotExact, TypeOK, memVars, dataVars
<1> QED
  BY <1>1, <1>2, <1>3, <1>4, <1>5, <1>6 DEF CallsExact

(* Calls that test av_buffer_is_writable(): a positive answer means that   *)
(* the caller is alone.                                                    *)
LEMMA CheckSteps ==
  ASSUME BlocksInv, NEW t \in Threads, NEW r \in Slots,
         BeginWrite(t, r) \/ MakeWritable(t, r) \/ Realloc(t, r)
  PROVE  BlocksInv'
<1>1. /\ pc[t] = "idle" /\ Owner[r] = t /\ ref[r] # None /\ r \in Refs
      /\ slot' = [slot EXCEPT ![t] = r]
      /\ UNCHANGED <<memVars, dataVars, poolVars, blk>>
  BY DEF BeginWrite, MakeWritable, Realloc, Calls, Keep, Refs
<1>2. refcount[ref[r]] = 1 => \A x \in Refs : ref[x] = ref[r] => x = r
  BY <1>1, SoleRef DEF BlocksInv
<1>3. PICK l \in {"write", "realloc", "copy", "recopy"} :
        pc' = [pc EXCEPT ![t] = l] /\ (l \in Exclusive => refcount[ref[r]] = 1)
  BY DEF BeginWrite, MakeWritable, Realloc, InPlace, IsWritable, Goto, Exclusive
<1>4. \A u \in Threads : pc'[u] = "got" => pool_ptr'
  BY <1>1, <1>3 DEF BlocksInv, CallsExact, GotExact, TypeOK, poolVars
<1>5. pool_refcount' \in Nat /\ pool_ptr' \in BOOLEAN /\ UNCHANGED <<pool, pool_mem>>
  BY <1>1 DEF BlocksInv, TypeOK, poolVars
<1> QED
  BY <1>1, <1>2, <1>3, <1>4, <1>5, QuietStep DEF ThreadSteps

(* Calls that return without another change to the buffers. *)
LEMMA ReturnSteps ==
  ASSUME BlocksInv, NEW t \in Threads, ReallocDone(t) \/ CopyFails(t) \/ PoolGot(t)
  PROVE  BlocksInv'
<1>1. /\ pc[t] \in {"realloc", "copy", "recopy", "got"}
      /\ pc' = [pc EXCEPT ![t] = "idle"] /\ slot' = [slot EXCEPT ![t] = None]
      /\ UNCHANGED <<memVars, dataVars, pool, pool_ptr, pool_mem, blk>>
      /\ pool_refcount' \in Nat /\ pool_ptr' \in BOOLEAN
  BY DEF ReallocDone, CopyFails, PoolGot, GetCount, Goto, Keep, poolVars, BlocksInv, TypeOK
<1>2. \A u \in Threads : pc'[u] = "got" => pool_ptr'
  BY <1>1 DEF BlocksInv, CallsExact, GotExact, TypeOK
<1> QED
  BY <1>1, <1>2, QuietStep DEF ThreadSteps, InCall, Exclusive

(* Freeing a block that nobody reaches. *)
LEMMA DefaultFreeStep ==
  ASSUME BlocksInv, NEW t \in Threads, DefaultFree(t)
  PROVE  BlocksInv'
<1> USE DEF BlocksInv
<1>1. PICK d \in Blocks : blk[t] = d
  BY DEF DefaultFree, FreeingExact
<1>2. /\ pc[t] = "free" /\ mem[d] = "heap" /\ d \notin pool
      /\ \A x \in Refs : ref[x] # d
      /\ mem' = [mem EXCEPT ![d] = "none"] /\ content' = [content EXCEPT ![d] = 0]
      /\ blk' = [blk EXCEPT ![t] = None] /\ pc' = [pc EXCEPT ![t] = "idle"]
      /\ UNCHANGED <<ref, refcount, seen, poolVars, slot>>
  BY <1>1 DEF DefaultFree, FreeingExact, Goto
<1>3. TypeOK'
  BY <1>1, <1>2 DEF DefaultFree, TypeOK, ThreadSteps, poolVars
<1>4. CountsExact' /\ RefsValid' /\ ContentStable' /\ PoolListExact'
  BY <1>1, <1>2 DEF CountsExact, Holders, RefsValid, ContentStable, PoolListExact, TypeOK,
     poolVars
<1>5. NoOrphan'
  <2> SUFFICES ASSUME NEW e \in Blocks, mem'[e] # "none", e \notin pool',
                      \A x \in Refs : ref'[x] # e
               PROVE  \E u \in Threads : pc'[u] = "free" /\ blk'[u] = e
    BY DEF NoOrphan
  <2>1. e # d /\ mem[e] # "none"
    BY <1>2 DEF TypeOK
  <2>2. PICK u \in Threads : pc[u] = "free" /\ blk[u] = e
    BY <1>2, <2>1 DEF NoOrphan, poolVars
  <2> QED
    BY <1>1, <1>2, <2>1, <2>2 DEF TypeOK
<1>6. FreeingExact'
  BY <1>1, <1>2 DEF FreeingExact, RefsValid, TypeOK, poolVars
<1>7. OwnPointer' /\ SoleHolder'
  BY <1>2 DEF CallsExact, OwnPointer, SoleHolder, InCall, Exclusive, TypeOK
<1>8. NewbufExact' /\ GotExact'
  BY <1>2 DEF CallsExact, OwnPointer, NewbufExact, GotExact, InCall, TypeOK, Refs, poolVars
<1> QED
  BY <1>3, <1>4, <1>5, <1>6, <1>7, <1>8 DEF CallsExact

(* pool_release_buffer() puts back a block that nobody reaches. *)
LEMMA PoolReleaseStep ==
  ASSUME BlocksInv, NEW t \in Threads, PoolRelease(t)
  PROVE  BlocksInv'
<1> USE DEF BlocksInv
<1>1. PICK d \in Blocks : blk[t] = d
  BY DEF PoolRelease, FreeingExact
<1>2. /\ pc[t] = "free" /\ mem[d] = "pooled" /\ d \notin pool
      /\ \A x \in Refs : ref[x] # d
      /\ \A u \in Threads : pc[u] = "free" /\ u # t => blk[u] # d
      /\ pool' = pool \union {d}
      /\ blk' = [blk EXCEPT ![t] = None] /\ pc' = [pc EXCEPT ![t] = "released"]
      /\ UNCHANGED <<memVars, dataVars, pool_refcount, pool_ptr, pool_mem, slot>>
  BY <1>1 DEF PoolRelease, FreeingExact, RefsValid, Goto
<1>3. TypeOK'
  BY <1>1, <1>2 DEF TypeOK, ThreadSteps, memVars, dataVars
<1>4. CountsExact' /\ RefsValid' /\ ContentStable' /\ PoolListExact'
  BY <1>1, <1>2 DEF CountsExact, Holders, RefsValid, ContentStable, PoolListExact, TypeOK,
     memVars, dataVars
<1>5. NoOrphan'
  <2> SUFFICES ASSUME NEW e \in Blocks, mem'[e] # "none", e \notin pool',
                      \A x \in Refs : ref'[x] # e
               PROVE  \E u \in Threads : pc'[u] = "free" /\ blk'[u] = e
    BY DEF NoOrphan
  <2>1. e # d
    BY <1>2
  <2>2. PICK u \in Threads : pc[u] = "free" /\ blk[u] = e
    BY <1>2, <2>1 DEF NoOrphan, memVars
  <2> QED
    BY <1>1, <1>2, <2>1, <2>2 DEF TypeOK
<1>6. FreeingExact'
  BY <1>1, <1>2 DEF FreeingExact, TypeOK, memVars
<1>7. OwnPointer' /\ SoleHolder'
  BY <1>2 DEF CallsExact, OwnPointer, SoleHolder, InCall, Exclusive, TypeOK, memVars
<1>8. NewbufExact' /\ GotExact'
  BY <1>2 DEF CallsExact, NewbufExact, GotExact, TypeOK, memVars, dataVars
<1> QED
  BY <1>3, <1>4, <1>5, <1>6, <1>7, <1>8 DEF CallsExact

(* buffer_pool_free() frees only blocks in the list, which nobody reaches. *)
LEMMA PoolFreeStep ==
  ASSUME BlocksInv, NEW t \in Threads, PoolFree(t)
  PROVE  BlocksInv'
<1> USE DEF BlocksInv
<1>1. /\ pc[t] = "poolfree" /\ pc' = [pc EXCEPT ![t] = "idle"]
      /\ mem' = [d \in Blocks |-> IF d \in pool THEN "none" ELSE mem[d]]
      /\ content' = [d \in Blocks |-> IF d \in pool THEN 0 ELSE content[d]]
      /\ pool' = {} /\ pool_mem' = "freed"
      /\ UNCHANGED <<ref, refcount, readonly, reallocatable, seen, pool_refcount, pool_ptr,
                     slot, blk>>
  BY DEF PoolFree, Goto
<1>2. TypeOK'
  BY <1>1 DEF TypeOK, ThreadSteps
<1>3. CountsExact' /\ RefsValid' /\ ContentStable' /\ PoolListExact'
  BY <1>1 DEF CountsExact, Holders, RefsValid, ContentStable, PoolListExact, TypeOK
<1>4. NoOrphan'
  BY <1>1 DEF NoOrphan, TypeOK
<1>5. FreeingExact'
  BY <1>1 DEF FreeingExact, TypeOK
<1>6. OwnPointer' /\ SoleHolder'
  BY <1>1 DEF CallsExact, OwnPointer, SoleHolder, InCall, Exclusive, TypeOK
<1>7. NewbufExact' /\ GotExact'
  <2>1. \A u \in Threads : pc[u] = "got" => ref[slot[u]] \in Blocks /\ ref[slot[u]] \notin pool
    BY DEF CallsExact, OwnPointer, InCall, RefsValid, TypeOK, Refs
  <2> QED
    BY <1>1, <2>1 DEF CallsExact, NewbufExact, GotExact, TypeOK
<1> QED
  BY <1>2, <1>3, <1>4, <1>5, <1>6, <1>7 DEF CallsExact

(***************************************************************************)
(* The references to the pool.                                             *)
(***************************************************************************)

(* Finitely many parties need the pool. *)
LEMMA PoolHoldersFinite ==
  IsFiniteSet(PoolHolders) /\ Cardinality(PoolHolders) \in Nat
<1>1. IsFiniteSet({None} \union Blocks \union Threads)
  BY BufferSetsAssumption, FS_Union, FS_Singleton
<1>2. PoolHolders \in SUBSET ({None} \union Blocks \union Threads)
  BY DEF PoolHolders
<1> QED
  BY <1>1, <1>2, FS_Subset, FS_CardinalityType

(* A step that only exchanges blocks that are not of the pool. *)
LEMMA PoolQuiet ==
  ASSUME TypeOK, PoolExact,
         UNCHANGED poolVars,
         \A d \in Blocks : mem'[d] = "pooled" <=> mem[d] = "pooled",
         \A u \in Threads :
           /\ pc'[u] = "got" <=> pc[u] = "got"
           /\ pc'[u] = "released" <=> pc[u] = "released"
           /\ pc'[u] = "poolfree" <=> pc[u] = "poolfree"
           /\ pc[u] = "got" => ref'[slot'[u]] = ref[slot[u]]
  PROVE  PoolExact'
<1>1. \A d \in Blocks : Counted(d)' <=> Counted(d)
  BY DEF Counted, poolVars
<1>2. PoolHolders' = PoolHolders
  BY <1>1 DEF PoolHolders, poolVars
<1> QED
  BY <1>2 DEF PoolExact, poolVars

(* An entry on its way out of the list is not yet counted. *)
LEMMA PoolGetPool ==
  ASSUME BufferInv, NEW t \in Threads, NEW r \in Slots, PoolGet(t, r)
  PROVE  PoolExact'
<1> USE DEF BufferInv, BlocksInv
<1>1. PICK d \in Blocks :
        /\ mem[d] = "none" \/ d \in pool
        /\ pool' = pool \ {d}
        /\ mem' = [mem EXCEPT ![d] = "pooled"]
        /\ ref' = [ref EXCEPT ![r] = d]
  BY DEF PoolGet, Create, Taken
<1>2. /\ pc[t] = "idle" /\ Owner[r] = t /\ r \in Refs /\ ref[r] = None /\ pool_ptr
      /\ pc' = [pc EXCEPT ![t] = "got"] /\ slot' = [slot EXCEPT ![t] = r]
      /\ UNCHANGED <<pool_refcount, pool_ptr, pool_mem>>
  BY DEF PoolGet, Calls, Goto, Keep, Refs
<1>3. ref'[slot'[t]] = d
  BY <1>1, <1>2 DEF TypeOK
<1>4. \A u \in Threads : u # t /\ pc[u] = "got" => ref'[slot'[u]] = ref[slot[u]] /\ slot[u] # r
  BY <1>1, <1>2 DEF CallsExact, OwnPointer, InCall, TypeOK, Refs
<1>5. ~Counted(d)' /\ ~Counted(d)
  BY <1>1, <1>2, <1>3 DEF Counted, TypeOK
<1>6. \A e \in Blocks : e # d => (Counted(e)' <=> Counted(e))
  BY <1>1, <1>2, <1>3, <1>4 DEF Counted, TypeOK
<1>7. PoolHolders' = PoolHolders
  <2>1. \A u \in Threads : pc'[u] = "released" <=> pc[u] = "released"
    BY <1>2 DEF TypeOK
  <2> QED
    BY <1>2, <1>5, <1>6, <2>1 DEF PoolHolders
<1>8. None \in PoolHolders
  BY <1>2 DEF PoolHolders
<1>9. \A u \in Threads : pc'[u] = "poolfree" <=> pc[u] = "poolfree"
  BY <1>2 DEF TypeOK
<1> QED
  BY <1>2, <1>7, <1>8, <1>9 DEF PoolExact, TypeOK

(* av_buffer_pool_get() counts the buffer after the unlock; the caller's   *)
(* own reference keeps the pool alive until then.                          *)
LEMMA PoolGotPool ==
  ASSUME BufferInv, NEW t \in Threads, PoolGot(t)
  PROVE  PoolExact'
<1> USE DEF BufferInv, BlocksInv
<1>1. PICK d \in Blocks : ref[slot[t]] = d
  BY DEF PoolGot, CallsExact, OwnPointer, InCall, TypeOK, Refs
<1>2. /\ pc[t] = "got" /\ pool_ptr /\ mem[d] = "pooled" /\ d \notin pool
      /\ pool_refcount' = pool_refcount + 1
      /\ pc' = [pc EXCEPT ![t] = "idle"] /\ slot' = [slot EXCEPT ![t] = None]
      /\ UNCHANGED <<memVars, pool, pool_ptr, pool_mem>>
  BY <1>1, BufferSetsAssumption DEF PoolGot, GetCount, Goto, Keep, CallsExact, OwnPointer,
     GotExact, InCall, RefsValid, Refs
<1>3. \A u \in Threads : pc[u] = "got" /\ u # t => ref[slot[u]] # d
  BY <1>1, <1>2 DEF CallsExact, OwnPointer, SoleHolder, InCall, Exclusive, Refs
<1>4. Counted(d)' /\ ~Counted(d)
  BY <1>1, <1>2, <1>3 DEF Counted, TypeOK, memVars
<1>5. \A e \in Blocks : e # d => (Counted(e)' <=> Counted(e))
  BY <1>1, <1>2 DEF Counted, TypeOK, memVars
<1>6. PoolHolders' = PoolHolders \union {d}
  <2>1. \A u \in Threads : pc'[u] = "released" <=> pc[u] = "released"
    BY <1>2 DEF TypeOK
  <2> QED
    BY <1>2, <1>4, <1>5, <2>1 DEF PoolHolders
<1>7. d \notin PoolHolders /\ None \in PoolHolders
  BY <1>2, <1>4, BufferSetsAssumption DEF PoolHolders
<1>8. Cardinality(PoolHolders') = Cardinality(PoolHolders) + 1
  BY <1>6, <1>7, PoolHoldersFinite, FS_AddElement
<1>9. \A u \in Threads : pc'[u] = "poolfree" <=> pc[u] = "poolfree"
  BY <1>2 DEF TypeOK
<1> QED
  BY <1>2, <1>6, <1>7, <1>8, <1>9 DEF PoolExact, TypeOK, memVars

(* In pool_release_buffer(), the count passes from the block to the        *)
(* thread.                                                                 *)
LEMMA PoolReleasePool ==
  ASSUME BufferInv, NEW t \in Threads, PoolRelease(t)
  PROVE  PoolExact'
<1> USE DEF BufferInv, BlocksInv
<1>1. PICK d \in Blocks : blk[t] = d
  BY DEF PoolRelease, FreeingExact
<1>2. /\ pc[t] = "free" /\ mem[d] = "pooled" /\ d \notin pool
      /\ \A x \in Refs : ref[x] # d
      /\ pool' = pool \union {d} /\ pc' = [pc EXCEPT ![t] = "released"]
      /\ UNCHANGED <<memVars, pool_refcount, pool_ptr, pool_mem, slot>>
  BY <1>1 DEF PoolRelease, FreeingExact, Goto
<1>3. Counted(d) /\ ~Counted(d)'
  BY <1>1, <1>2 DEF Counted, CallsExact, OwnPointer, InCall, Refs
<1>4. \A e \in Blocks : e # d => (Counted(e)' <=> Counted(e))
  BY <1>1, <1>2 DEF Counted, TypeOK, memVars
<1>5. PoolHolders' = (PoolHolders \ {d}) \union {t}
  <2>1. \A u \in Threads : pc'[u] = "released" <=> pc[u] = "released" \/ u = t
    BY <1>2 DEF TypeOK
  <2> QED
    BY <1>2, <1>3, <1>4, <2>1, BufferSetsAssumption DEF PoolHolders
<1>6. d \in PoolHolders /\ t \notin PoolHolders
  BY <1>2, <1>3, BufferSetsAssumption DEF PoolHolders
<1>7. Cardinality((PoolHolders \ {d}) \union {t}) = Cardinality(PoolHolders)
  BY <1>6, PoolHoldersFinite, Exchange
<1>8. \A u \in Threads : pc'[u] = "poolfree" <=> pc[u] = "poolfree"
  BY <1>2 DEF TypeOK
<1> QED
  BY <1>2, <1>5, <1>6, <1>7, <1>8 DEF PoolExact, TypeOK, memVars

(* A reference x to the pool is given up by PoolUnref. *)
LEMMA PoolUnrefPool ==
  ASSUME BufferInv, NEW t \in Threads, NEW x \in PoolHolders, PoolUnref(t),
         PoolHolders' = PoolHolders \ {x}, UNCHANGED <<memVars, pool_mem>>,
         pc[t] # "poolfree"
  PROVE  PoolExact' /\ pool_refcount' \in Nat
<1> USE DEF BufferInv, BlocksInv
<1>1. /\ Cardinality(PoolHolders') = Cardinality(PoolHolders) - 1
      /\ Cardinality(PoolHolders) \in Nat /\ Cardinality(PoolHolders') \in Nat
  BY PoolHoldersFinite, FS_RemoveElement, FS_CardinalityType
<1>2. pool_refcount' = Cardinality(PoolHolders')
  BY <1>1 DEF PoolExact, PoolUnref
<1>3. pool_refcount = 1 <=> PoolHolders' = {}
  <2>1. IsFiniteSet(PoolHolders')
    BY PoolHoldersFinite, FS_RemoveElement
  <2> QED
    BY <1>1, <2>1, FS_EmptySet DEF PoolExact
<1>4. /\ pool_mem = "live" /\ \A u \in Threads : pc[u] # "poolfree"
      /\ pc' = [pc EXCEPT ![t] = IF pool_refcount = 1 THEN "poolfree" ELSE "idle"]
  BY DEF PoolExact, PoolUnref, PoolLast, Goto
<1>5. \A u \in Threads : pc'[u] = "poolfree" <=> u = t /\ pool_refcount = 1
  BY <1>4 DEF TypeOK
<1> QED
  BY <1>1, <1>2, <1>3, <1>4, <1>5 DEF PoolExact, memVars

(* pool_release_buffer() gives up the block's reference to the pool. *)
LEMMA PoolReleasedStep ==
  ASSUME BufferInv, NEW t \in Threads, PoolReleased(t)
  PROVE  BufferInv'
<1> USE DEF BufferInv
<1>1. /\ pc[t] = "released" /\ PoolUnref(t)
      /\ UNCHANGED <<memVars, dataVars, pool, pool_ptr, pool_mem, slot, blk>>
  BY DEF PoolReleased
<1>2. PICK l \in {"poolfree", "idle"} : pc' = [pc EXCEPT ![t] = l]
  BY <1>1 DEF PoolUnref, Goto
<1>3. \A e \in Blocks : Counted(e)' <=> Counted(e)
  BY <1>1, <1>2 DEF Counted, BlocksInv, TypeOK, memVars
<1>4. \A u \in Threads : pc'[u] = "released" <=> pc[u] = "released" /\ u # t
  BY <1>1, <1>2 DEF BlocksInv, TypeOK
<1>5. PoolHolders' = PoolHolders \ {t} /\ t \in PoolHolders
  BY <1>1, <1>3, <1>4, BufferSetsAssumption DEF PoolHolders
<1>6. PoolExact' /\ pool_refcount' \in Nat
  BY <1>1, <1>5, PoolUnrefPool
<1>7. \A u \in Threads : pc'[u] = "got" => pool_ptr'
  BY <1>1, <1>2 DEF BlocksInv, CallsExact, GotExact, TypeOK
<1>8. pool_ptr' \in BOOLEAN /\ slot[t] \in Slots \union {None} /\ slot' = [slot EXCEPT ![t] = slot[t]]
  BY <1>1 DEF BlocksInv, TypeOK
<1>9. BlocksInv'
  BY <1>1, <1>2, <1>6, <1>7, <1>8, QuietStep DEF ThreadSteps, InCall, Exclusive
<1> QED
  BY <1>6, <1>9

(* av_buffer_pool_uninit() gives up the caller's reference to the pool. *)
LEMMA PoolUninitStep ==
  ASSUME BufferInv, NEW t \in Threads, PoolUninit(t)
  PROVE  BufferInv'
<1> USE DEF BufferInv
<1>1. /\ pc[t] = "idle" /\ PoolUnref(t) /\ pool_ptr /\ pool_ptr' = FALSE
      /\ \A u \in Threads : pc[u] # "got"
      /\ UNCHANGED <<memVars, dataVars, pool, pool_mem, slot, blk>>
  BY DEF PoolUninit
<1>2. PICK l \in {"poolfree", "idle"} : pc' = [pc EXCEPT ![t] = l]
  BY <1>1 DEF PoolUnref, Goto
<1>3. \A e \in Blocks : Counted(e)' <=> Counted(e)
  BY <1>1, <1>2 DEF Counted, BlocksInv, TypeOK, memVars
<1>4. \A u \in Threads : pc'[u] = "released" <=> pc[u] = "released"
  BY <1>1, <1>2 DEF BlocksInv, TypeOK
<1>5. PoolHolders' = PoolHolders \ {None} /\ None \in PoolHolders
  BY <1>1, <1>3, <1>4, BufferSetsAssumption DEF PoolHolders
<1>6. PoolExact' /\ pool_refcount' \in Nat
  BY <1>1, <1>5, PoolUnrefPool
<1>7. \A u \in Threads : pc'[u] = "got" => pool_ptr'
  BY <1>1, <1>2 DEF BlocksInv, TypeOK
<1>8. pool_ptr' \in BOOLEAN /\ slot[t] \in Slots \union {None} /\ slot' = [slot EXCEPT ![t] = slot[t]]
  BY <1>1 DEF BlocksInv, TypeOK
<1>9. BlocksInv'
  BY <1>1, <1>2, <1>6, <1>7, <1>8, QuietStep DEF ThreadSteps, InCall, Exclusive
<1> QED
  BY <1>6, <1>9

(* buffer_pool_free() runs when nobody needs the pool, and leaves none of  *)
(* its blocks behind.                                                      *)
LEMMA PoolFreePool ==
  ASSUME BufferInv, NEW t \in Threads, PoolFree(t)
  PROVE  PoolExact'
<1> USE DEF BufferInv, BlocksInv
<1>1. /\ pc[t] = "poolfree" /\ pc' = [pc EXCEPT ![t] = "idle"]
      /\ mem' = [d \in Blocks |-> IF d \in pool THEN "none" ELSE mem[d]]
      /\ pool' = {} /\ pool_mem' = "freed"
      /\ UNCHANGED <<ref, pool_refcount, pool_ptr, slot>>
  BY DEF PoolFree, Goto
<1>2. PoolHolders = {} /\ ~pool_ptr
  BY <1>1 DEF PoolExact, PoolHolders
<1>3. \A u \in Threads : pc[u] # "got" /\ pc[u] # "released"
  BY <1>2 DEF PoolHolders, CallsExact, GotExact
<1>4. \A d \in Blocks : mem[d] = "pooled" => d \in pool
  BY <1>2, <1>3 DEF PoolHolders, Counted
<1>5. \A d \in Blocks : mem'[d] # "pooled"
  BY <1>1, <1>4
<1>6. PoolHolders' = {}
  BY <1>1, <1>2, <1>3, <1>5 DEF PoolHolders, Counted, TypeOK
<1>7. \A u \in Threads : pc'[u] # "poolfree"
  BY <1>1 DEF PoolExact, TypeOK
<1> QED
  BY <1>1, <1>2, <1>5, <1>6, <1>7 DEF PoolExact

(* The buffer functions leave the pool alone: a block of the pool stays    *)
(* one, and a thread in av_buffer_pool_get() keeps its buffer.             *)
LEMMA BufferCallsPool ==
  ASSUME BufferInv, NEW t \in Threads, NEW r \in Slots, NEW q \in Slots,
         \/ Alloc(t, r) \/ Ref(t, r, q) \/ Unref(t, r) \/ Hand(t, r, q)
         \/ BeginWrite(t, r) \/ MakeWritable(t, r) \/ Realloc(t, r)
  PROVE  PoolExact'
<1> USE DEF BufferInv, BlocksInv
<1>1. /\ pc[t] = "idle" /\ Owner[r] = t /\ r \in Refs /\ q \in Refs /\ UNCHANGED poolVars
      /\ slot' = [slot EXCEPT ![t] = slot'[t]]
  BY DEF Alloc, Ref, Unref, Hand, BeginWrite, MakeWritable, Realloc, Calls, Refs, Keep, TypeOK
<1>2. PICK l \in {"idle", "free", "write", "copy", "recopy", "realloc"} :
        pc' = [pc EXCEPT ![t] = l]
  <2>1. CASE Alloc(t, r) \/ Ref(t, r, q) \/ Hand(t, r, q)
    BY <2>1, <1>1 DEF Alloc, Ref, Hand, TypeOK
  <2>2. CASE Unref(t, r)
    BY <2>2 DEF Unref, FreeIfLast, Goto
  <2>3. CASE BeginWrite(t, r) \/ MakeWritable(t, r) \/ Realloc(t, r)
    BY <2>3 DEF BeginWrite, MakeWritable, Realloc, Goto
  <2> QED
    BY <2>1, <2>2, <2>3
<1>3. \A u \in Threads : pc[u] = "got" => u # t /\ slot[u] # r /\ slot[u] \in Refs
                                          /\ ref[slot[u]] # None /\ slot'[u] = slot[u]
  BY <1>1 DEF CallsExact, OwnPointer, InCall, Refs, TypeOK
<1>4. \A x \in Refs : x # r /\ ref[x] # None => ref'[x] = ref[x]
  BY <1>1 DEF Alloc, Create, Ref, Unref, Hand, BeginWrite, MakeWritable, Realloc, TypeOK, memVars
<1>5. \A d \in Blocks : mem'[d] = "pooled" <=> mem[d] = "pooled"
  BY DEF Alloc, Ref, Unref, Hand, BeginWrite, MakeWritable, Realloc, TypeOK, memVars
<1>6. \A u \in Threads :
         /\ pc'[u] = "got" <=> pc[u] = "got"
         /\ pc'[u] = "released" <=> pc[u] = "released"
         /\ pc'[u] = "poolfree" <=> pc[u] = "poolfree"
         /\ pc[u] = "got" => ref'[slot'[u]] = ref[slot[u]]
  BY <1>1, <1>2, <1>3, <1>4 DEF TypeOK
<1> QED
  BY <1>1, <1>5, <1>6, PoolQuiet

(* Nor do the later steps of those functions touch it. *)
LEMMA BufferStepsPool ==
  ASSUME BufferInv, NEW t \in Threads,
         \/ DefaultFree(t) \/ Write(t) \/ ReallocDone(t) \/ CopyNew(t) \/ CopyFails(t)
         \/ Swap(t)
  PROVE  PoolExact'
<1> USE DEF BufferInv, BlocksInv
<1>1. /\ pc[t] \in {"free", "write", "realloc", "copy", "recopy", "swap"}
      /\ UNCHANGED poolVars
  BY DEF DefaultFree, Write, ReallocDone, CopyNew, CopyFails, Swap
<1>2. PICK l \in {"idle", "free", "swap"} : pc' = [pc EXCEPT ![t] = l]
  <2>1. CASE Swap(t)
    BY <2>1 DEF Swap, FreeIfLast, Goto
  <2> QED
    BY <2>1 DEF DefaultFree, Write, ReallocDone, CopyNew, CopyFails, Goto
<1>3. \A u \in Threads : pc[u] = "got" =>
         /\ u # t /\ slot'[u] = slot[u] /\ slot[u] \in Refs /\ slot[u] # t
         /\ pc[t] \in InCall => slot[u] # slot[t]
  <2>1. \A u \in Threads : u # t => slot'[u] = slot[u]
    BY DEF DefaultFree, Write, ReallocDone, CopyNew, CopyFails, Swap, Keep, TypeOK
  <2> QED
    BY <2>1, <1>1, BufferSetsAssumption DEF CallsExact, OwnPointer, InCall, Refs
<1>4. \A x \in Refs : x # t /\ (pc[t] \in InCall => x # slot[t]) => ref'[x] = ref[x]
  BY DEF DefaultFree, Write, ReallocDone, CopyNew, Create, CopyFails, Swap, TypeOK, memVars,
     InCall
<1>5. \A d \in Blocks : mem'[d] = "pooled" <=> mem[d] = "pooled"
  <2>1. CASE DefaultFree(t)
    BY <2>1 DEF DefaultFree, FreeingExact, TypeOK
  <2>2. CASE CopyNew(t)
    BY <2>2 DEF CopyNew, TypeOK
  <2> QED
    BY <2>1, <2>2 DEF Write, ReallocDone, CopyFails, Swap, memVars
<1>6. \A u \in Threads :
         /\ pc'[u] = "got" <=> pc[u] = "got"
         /\ pc'[u] = "released" <=> pc[u] = "released"
         /\ pc'[u] = "poolfree" <=> pc[u] = "poolfree"
         /\ pc[u] = "got" => ref'[slot'[u]] = ref[slot[u]]
  BY <1>1, <1>2, <1>3, <1>4 DEF TypeOK
<1> QED
  BY <1>1, <1>5, <1>6, PoolQuiet

---------------------------------------------------------------------------
(* The invariant holds after av_buffer_pool_init(). *)
LEMMA BufferInvInit == Init => BufferInv
<1> SUFFICES ASSUME Init PROVE BufferInv
  OBVIOUS
<1>1. TypeOK /\ RefsValid /\ ContentStable /\ NoOrphan /\ FreeingExact /\ PoolListExact
  BY DEF Init, TypeOK, RefsValid, ContentStable, NoOrphan, FreeingExact, PoolListExact,
     ThreadSteps, Refs
<1>2. CallsExact
  BY DEF Init, CallsExact, OwnPointer, SoleHolder, NewbufExact, GotExact, InCall, Exclusive, Refs
<1>3. CountsExact
  <2>1. \A d \in Blocks : Holders(d) = {}
    BY BufferSetsAssumption DEF Init, Holders
  <2> QED
    BY <2>1, FS_EmptySet DEF Init, CountsExact
<1>4. PoolExact
  <2>1. PoolHolders = {None}
    BY DEF Init, PoolHolders, Counted
  <2> QED
    BY <2>1, FS_Singleton DEF Init, PoolExact
<1> QED
  BY <1>1, <1>2, <1>3, <1>4 DEF BufferInv, BlocksInv

(* Every step of every thread preserves it. *)
LEMMA BufferInvStep == BufferInv /\ [Next]_vars => BufferInv'
<1> SUFFICES ASSUME BufferInv, [Next]_vars PROVE BufferInv'
  OBVIOUS
<1> USE DEF BufferInv
<1>1. CASE UNCHANGED vars
  <2>1. BlocksInv'
    BY <1>1 DEF BlocksInv, TypeOK, RefsValid, ContentStable, CountsExact, Holders, NoOrphan,
       FreeingExact, CallsExact, OwnPointer, SoleHolder, NewbufExact, GotExact, PoolListExact,
       vars, memVars, dataVars, poolVars
  <2>2. PoolExact'
    BY <1>1 DEF PoolExact, PoolHolders, Counted, vars, memVars, poolVars
  <2> QED
    BY <2>1, <2>2
<1>2. ASSUME NEW t \in Threads, NEW r \in Slots, NEW q \in Slots,
             \/ Alloc(t, r) \/ Ref(t, r, q) \/ Unref(t, r) \/ Hand(t, r, q)
             \/ BeginWrite(t, r) \/ MakeWritable(t, r) \/ Realloc(t, r)
      PROVE  BufferInv'
  BY <1>2, AllocStep, RefStep, UnrefStep, HandStep, CheckSteps, BufferCallsPool
<1>3. ASSUME NEW t \in Threads,
             \/ DefaultFree(t) \/ Write(t) \/ ReallocDone(t) \/ CopyNew(t) \/ CopyFails(t)
             \/ Swap(t)
      PROVE  BufferInv'
  BY <1>3, DefaultFreeStep, WriteStep, ReturnSteps, CopyNewStep, SwapStep, BufferStepsPool
<1>4. ASSUME NEW t \in Threads, NEW r \in Slots, PoolGet(t, r)
      PROVE  BufferInv'
  BY <1>4, PoolGetStep, PoolGetPool
<1>5. ASSUME NEW t \in Threads, PoolGot(t)
      PROVE  BufferInv'
  BY <1>5, ReturnSteps, PoolGotPool
<1>6. ASSUME NEW t \in Threads, PoolRelease(t)
      PROVE  BufferInv'
  BY <1>6, PoolReleaseStep, PoolReleasePool
<1>7. ASSUME NEW t \in Threads, PoolReleased(t) \/ PoolUninit(t)
      PROVE  BufferInv'
  BY <1>7, PoolReleasedStep, PoolUninitStep
<1>8. ASSUME NEW t \in Threads, PoolFree(t)
      PROVE  BufferInv'
  BY <1>8, PoolFreeStep, PoolFreePool
<1>9. CASE Next
  <2>1. PICK t \in Threads : Thread(t)
    BY <1>9 DEF Next
  <2>2. CASE \E r \in Slots :
               \/ Alloc(t, r) \/ Unref(t, r) \/ BeginWrite(t, r)
               \/ MakeWritable(t, r) \/ Realloc(t, r) \/ PoolGet(t, r)
               \/ \E q \in Slots : Ref(t, r, q) \/ Hand(t, r, q)
    BY <2>2, <1>2, <1>4
  <2> QED
    BY <2>1, <2>2, <1>3, <1>5, <1>6, <1>7, <1>8 DEF Thread
<1> QED
  BY <1>1, <1>9

(* The inductive invariant holds in every reachable state: at every step   *)
(* of buffer.c, each refcount is the exact number of its holders.          *)
THEOREM BufferInvariant == Spec => []BufferInv
  BY BufferInvInit, BufferInvStep, PTL DEF Spec

(* The types hold; in particular no refcount of av_buffer_unref(),         *)
(* pool_release_buffer() or av_buffer_pool_uninit() is decremented below   *)
(* 0.                                                                      *)
THEOREM BufferTypes == Spec => []TypeOK
  BY BufferInvariant, PTL DEF BufferInv, BlocksInv

(* av_buffer_unref() frees a block, or gives it back to the pool, only     *)
(* when no pointer leads to it any more, and only one thread does so.      *)
THEOREM NoUseAfterFree == Spec => []RefsValid
  BY BufferInvariant, PTL DEF BufferInv, BlocksInv

(* With av_buffer_make_writable() and av_buffer_is_writable() as the only  *)
(* way to write, no thread changes the data another reference shows.       *)
THEOREM CopyOnWrite == Spec => []ContentStable
  BY BufferInvariant, PTL DEF BufferInv, BlocksInv

(* The answer of av_buffer_is_writable() stays true for as long as the     *)
(* caller relies on it, although the refcount is read without a lock.      *)
THEOREM WritersAlone == Spec => []WriteExclusive
<1>1. BufferInv => WriteExclusive
  BY DEF BufferInv, BlocksInv, CallsExact, SoleHolder, Exclusive, WriteExclusive
<1> QED
  BY <1>1, BufferInvariant, PTL

(* buffer_pool_free() runs once, after av_buffer_pool_uninit() and after   *)
(* the last pool_release_buffer(); nobody touches the pool afterwards.     *)
THEOREM PoolOutlivesUsers == Spec => []PoolSafe
<1>1. BufferInv => PoolSafe
  <2> SUFFICES ASSUME BufferInv PROVE PoolSafe
    OBVIOUS
  <2> USE DEF BufferInv, BlocksInv
  <2>1. \A t \in Threads : /\ pc[t] = "got" => None \in PoolHolders
                           /\ pc[t] = "released" => t \in PoolHolders
    BY DEF CallsExact, GotExact, PoolHolders
  <2>2. ASSUME PoolHolders = {}
        PROVE  /\ ~pool_ptr
               /\ \A d \in Blocks : mem[d] = "pooled" => d \in pool
    BY <2>2, <2>1 DEF PoolHolders, Counted
  <2>3. pool_mem = "freed" \/ (\E t \in Threads : pc[t] = "poolfree") => PoolHolders = {}
    BY DEF PoolExact
  <2>4. \A u \in Threads : pc[u] = "free" => mem[blk[u]] \in {"heap", "pooled"} /\ blk[u] \in Blocks /\ blk[u] \notin pool
    BY DEF FreeingExact, TypeOK
  <2>5. \A r \in Refs : ref[r] # None => mem[ref[r]] \in {"heap", "pooled"} /\ ref[r] \in Blocks /\ ref[r] \notin pool
    BY DEF RefsValid, TypeOK
  <2>6. \A t \in Threads : pc[t] \in {"got", "released", "poolfree"} => pool_mem = "live"
    BY <2>1 DEF PoolExact, TypeOK
  <2>7. \A t, u \in Threads :
          pc[t] = "poolfree" /\ pc[u] \in {"got", "released", "poolfree"} => t = u
    BY <2>1 DEF PoolExact
  <2> QED
    BY <2>2, <2>3, <2>4, <2>5, <2>6, <2>7 DEF PoolSafe
<1> QED
  BY <1>1, BufferInvariant, PTL

(* When the pool has been uninited and all references are gone, whatever   *)
(* the order, buffer_pool_free() has run and all memory is free.           *)
THEOREM NothingLeaks == Spec => []NoLeak
<1>1. BufferInv => NoLeak
  <2> SUFFICES ASSUME BufferInv, ~pool_ptr, \A r \in Refs : ref[r] = None,
                      \A t \in Threads : pc[t] = "idle"
               PROVE  pool_mem = "freed" /\ \A d \in Blocks : mem[d] = "none"
    BY DEF NoLeak
  <2> USE DEF BufferInv, BlocksInv
  <2>1. \A d \in Blocks : mem[d] = "none" \/ d \in pool
    BY BufferSetsAssumption DEF NoOrphan
  <2>2. PoolHolders = {}
    BY <2>1 DEF PoolHolders, Counted
  <2>3. pool_mem = "freed"
    BY <2>2 DEF PoolExact, TypeOK
  <2>4. pool = {}
    BY <2>3 DEF PoolExact, PoolListExact, TypeOK
  <2> QED
    BY <2>1, <2>3, <2>4
<1> QED
  BY <1>1, BufferInvariant, PTL
=============================================================================
