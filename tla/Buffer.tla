------------------------------- MODULE Buffer -------------------------------
(***************************************************************************)
(* The reference-counted buffers of libavutil/buffer.c and the pool that   *)
(* recycles them, used by several threads at once.                         *)
(*                                                                         *)
(* A block is the memory a buffer describes, together with the AVBuffer    *)
(* around it and, for a pooled block, its BufferPoolEntry.  An AVBufferRef *)
(* belongs to the thread that owns the pointer to it; a pointer may be     *)
(* handed to another thread.  Every atomic operation on a refcount and     *)
(* every section under pool->mutex is one action.                          *)
(*                                                                         *)
(* One pool is followed from av_buffer_pool_init() to its end.             *)
(***************************************************************************)
EXTENDS Integers, FiniteSets

CONSTANTS
  Threads,
  Slots,     \* the AVBufferRef pointers of the program
  Owner,     \* the thread each of them belongs to
  Blocks,    \* bound: blocks that may exist at a time
  None       \* a null pointer

ASSUME BufferSetsAssumption ==
  /\ IsFiniteSet(Threads) /\ IsFiniteSet(Slots) /\ IsFiniteSet(Blocks)
  /\ Owner \in [Slots -> Threads]
  /\ Slots \cap Threads = {} /\ Blocks \cap Threads = {}
  /\ None \notin Slots \union Threads \union Blocks

(* The AVBufferRef pointers: the program's, and for each thread the local  *)
(* variable newbuf (new) of av_buffer_make_writable (av_buffer_realloc).   *)
Refs == Slots \union Threads

VARIABLES
  ref,            \* the block an AVBufferRef pointer leads to, or None
  refcount,       \* AVBuffer.refcount of each block
  readonly, reallocatable,      \* AVBuffer.flags
  mem,            \* "none" (not allocated), "heap", or "pooled": a block of
                  \* the pool, whose free callback is pool_release_buffer
  content,        \* the data, as one bit that every write inverts
  pool,           \* AVBufferPool.pool: entries in the pool's list
  pool_refcount,  \* AVBufferPool.refcount
  pool_ptr,       \* the caller's pointer to the pool is not NULL
  pool_mem,       \* "live" or "freed"
  pc, slot, blk,  \* per thread: step, *pbuf, and the block being freed
  seen            \* history: the data each pointer was last known to show

memVars  == <<ref, refcount, readonly, reallocatable, mem>>
dataVars == <<content, seen>>
poolVars == <<pool, pool_refcount, pool_ptr, pool_mem>>
vars     == <<memVars, dataVars, poolVars, pc, slot, blk>>

Holders(d) == {r \in Refs : ref[r] = d}

(* av_buffer_pool_init(): the caller's pointer is the first reference. *)
Init ==
  /\ ref = [r \in Refs |-> None]
  /\ refcount = [d \in Blocks |-> 0]
  /\ readonly = [d \in Blocks |-> FALSE]
  /\ reallocatable = [d \in Blocks |-> FALSE]
  /\ mem = [d \in Blocks |-> "none"]
  /\ content = [d \in Blocks |-> 0]
  /\ pool = {} /\ pool_refcount = 1 /\ pool_ptr = TRUE /\ pool_mem = "live"
  /\ pc = [t \in Threads |-> "idle"]
  /\ slot = [t \in Threads |-> None]
  /\ blk = [t \in Threads |-> None]
  /\ seen = [r \in Refs |-> 0]

(* Thread t is between two calls, and r is one of its pointers. *)
Calls(t, r) == pc[t] = "idle" /\ r \in Slots /\ Owner[r] = t
Goto(t, l) == pc' = [pc EXCEPT ![t] = l]

(* A call keeps its *pbuf until it returns. *)
Keep(t, r) == slot' = [slot EXCEPT ![t] = r]

---------------------------------------------------------------------------
(***************************************************************************)
(* Buffers.                                                                *)
(***************************************************************************)

(* av_buffer_create() around block d, for pointer r. *)
FirstCount == 1
Create(d, r, ro, re) ==
  /\ refcount' = [refcount EXCEPT ![d] = FirstCount]
  /\ readonly' = [readonly EXCEPT ![d] = ro]
  /\ reallocatable' = [reallocatable EXCEPT ![d] = re]
  /\ ref' = [ref EXCEPT ![r] = d]

(* av_buffer_alloc(), av_buffer_create() with AV_BUFFER_FLAG_READONLY, or  *)
(* av_buffer_realloc() of a null pointer; failing leaves no trace.         *)
Alloc(t, r) ==
  /\ Calls(t, r) /\ ref[r] = None
  /\ \E d \in Blocks, ro \in BOOLEAN, re \in BOOLEAN :
       /\ mem[d] = "none" /\ ~(ro /\ re)
       /\ mem' = [mem EXCEPT ![d] = "heap"]
       /\ Create(d, r, ro, re)
       /\ seen' = [seen EXCEPT ![r] = content[d]]
  /\ UNCHANGED <<content, poolVars, pc, slot, blk>>

(* av_buffer_ref(). *)
CountAfterRef(d) == refcount[d] + 1

Ref(t, r, q) ==
  /\ Calls(t, r) /\ ref[r] # None
  /\ q \in Slots /\ Owner[q] = t /\ ref[q] = None
  /\ ref' = [ref EXCEPT ![q] = ref[r]]
  /\ refcount' = [refcount EXCEPT ![ref[r]] = CountAfterRef(ref[r])]
  /\ seen' = [seen EXCEPT ![q] = seen[r]]
  /\ UNCHANGED <<readonly, reallocatable, mem, content, poolVars, pc, slot, blk>>

(* The last reference is gone: call the buffer's free callback. *)
LastRef_AtZero(n) == n = 0
LastRef(n) == n = 1

FreeIfLast(t, d) ==
  IF LastRef(refcount[d])
  THEN Goto(t, "free") /\ blk' = [blk EXCEPT ![t] = d]
  ELSE Goto(t, "idle") /\ UNCHANGED blk

(* av_buffer_unref(). *)
Unref(t, r) ==
  /\ Calls(t, r) /\ ref[r] # None
  /\ ref' = [ref EXCEPT ![r] = None]
  /\ refcount' = [refcount EXCEPT ![ref[r]] = @ - 1]
  /\ FreeIfLast(t, ref[r])
  /\ seen' = [seen EXCEPT ![r] = 0]
  /\ UNCHANGED <<readonly, reallocatable, mem, content, poolVars, slot>>

(* av_buffer_default_free(); the AVBuffer is freed, too. *)
DefaultFree(t) ==
  /\ pc[t] = "free" /\ mem[blk[t]] = "heap"
  /\ mem' = [mem EXCEPT ![blk[t]] = "none"]
  /\ content' = [content EXCEPT ![blk[t]] = 0]
  /\ readonly' = [readonly EXCEPT ![blk[t]] = FALSE]
  /\ reallocatable' = [reallocatable EXCEPT ![blk[t]] = FALSE]
  /\ blk' = [blk EXCEPT ![t] = None]
  /\ Goto(t, "idle")
  /\ UNCHANGED <<ref, refcount, seen, poolVars, slot>>

(* The pointer itself is handed to another thread. *)
Hand(t, r, q) ==
  /\ Calls(t, r) /\ ref[r] # None
  /\ q \in Slots /\ Owner[q] # t /\ ref[q] = None
  /\ pc[Owner[q]] = "idle"
  /\ ref' = [ref EXCEPT ![q] = ref[r], ![r] = None]
  /\ seen' = [seen EXCEPT ![q] = seen[r], ![r] = 0]
  /\ UNCHANGED <<refcount, readonly, reallocatable, mem, content, poolVars, pc, slot, blk>>

(* av_buffer_is_writable(). *)
IsWritable_SharedOk(d) == ~readonly[d]
IsWritable(d) == ~readonly[d] /\ refcount[d] = 1

(* The caller asks av_buffer_is_writable() and, if so, writes. *)
BeginWrite(t, r) ==
  /\ Calls(t, r) /\ ref[r] # None /\ IsWritable(ref[r])
  /\ Goto(t, "write") /\ Keep(t, r)
  /\ UNCHANGED <<memVars, dataVars, poolVars, blk>>

Write(t) ==
  /\ pc[t] = "write"
  /\ content' = [content EXCEPT ![ref[slot[t]]] = 1 - @]
  /\ seen' = [seen EXCEPT ![slot[t]] = 1 - content[ref[slot[t]]]]
  /\ Goto(t, "idle") /\ Keep(t, None)
  /\ UNCHANGED <<memVars, poolVars, blk>>

(* av_buffer_make_writable(): nothing to do, or copy. *)
MakeWritable(t, r) ==
  /\ Calls(t, r) /\ ref[r] # None
  /\ Goto(t, IF IsWritable(ref[r]) THEN "write" ELSE "copy")
  /\ Keep(t, r)
  /\ UNCHANGED <<memVars, dataVars, poolVars, blk>>

(* av_buffer_realloc() to another size: in place, or copy.  `shifted' is   *)
(* buf->data != buf->buffer->data.                                         *)
InPlace_Shared(d, shifted) == reallocatable[d] /\ ~shifted
InPlace(d, shifted) == reallocatable[d] /\ IsWritable(d) /\ ~shifted

Realloc(t, r) ==
  /\ Calls(t, r) /\ ref[r] # None
  /\ \E shifted \in BOOLEAN :
       Goto(t, IF InPlace(ref[r], shifted) THEN "realloc" ELSE "recopy")
  /\ Keep(t, r)
  /\ UNCHANGED <<memVars, dataVars, poolVars, blk>>

(* av_realloc() has moved the data, or failed and left it. *)
ReallocDone(t) ==
  /\ pc[t] = "realloc"
  /\ Goto(t, "idle") /\ Keep(t, None)
  /\ UNCHANGED <<memVars, dataVars, poolVars, blk>>

(* Allocate newbuf and copy into it ... *)
CopyNew(t) ==
  /\ pc[t] \in {"copy", "recopy"}
  /\ \E d \in Blocks :
       /\ mem[d] = "none"
       /\ mem' = [mem EXCEPT ![d] = "heap"]
       /\ Create(d, t, FALSE, pc[t] = "recopy")
       /\ content' = [content EXCEPT ![d] = content[ref[slot[t]]]]
       /\ seen' = [seen EXCEPT ![t] = content[ref[slot[t]]]]
  /\ Goto(t, "swap")
  /\ UNCHANGED <<poolVars, slot, blk>>

(* ... or return ENOMEM. *)
CopyFails(t) ==
  /\ pc[t] \in {"copy", "recopy"}
  /\ Goto(t, "idle") /\ Keep(t, None)
  /\ UNCHANGED <<memVars, dataVars, poolVars, blk>>

(* av_buffer_unref(pbuf); *pbuf = newbuf. *)
Swap(t) ==
  /\ pc[t] = "swap"
  /\ LET old == ref[slot[t]] IN
     /\ refcount' = [refcount EXCEPT ![old] = @ - 1]
     /\ FreeIfLast(t, old)
  /\ ref' = [ref EXCEPT ![slot[t]] = ref[t], ![t] = None]
  /\ seen' = [seen EXCEPT ![t] = 0]
  /\ Keep(t, None)
  /\ UNCHANGED <<readonly, reallocatable, mem, content, poolVars>>

---------------------------------------------------------------------------
(***************************************************************************)
(* The pool.  pool->pool is a list from which the newest entry is taken;   *)
(* nothing depends on which, so it is a set.                               *)
(***************************************************************************)

(* The part of av_buffer_pool_get() under the mutex: an entry of the list, *)
(* or pool_alloc_buffer().  The caller has a pool and does not uninit it   *)
(* meanwhile.                                                              *)
Taken_Stays(d) == pool
Taken(d) == pool \ {d}

PoolGet(t, r) ==
  /\ Calls(t, r) /\ ref[r] = None /\ pool_ptr
  /\ \E d \in Blocks :
       /\ IF pool # {} THEN d \in pool ELSE mem[d] = "none"
       /\ pool' = Taken(d)
       /\ mem' = [mem EXCEPT ![d] = "pooled"]
       /\ Create(d, r, FALSE, FALSE)
       /\ seen' = [seen EXCEPT ![r] = content[d]]
  /\ Goto(t, "got") /\ Keep(t, r)
  /\ UNCHANGED <<content, pool_refcount, pool_ptr, pool_mem, blk>>

(* The rest of it, after the unlock. *)
GetCount_None == pool_refcount
GetCount == pool_refcount + 1

PoolGot(t) ==
  /\ pc[t] = "got"
  /\ pool_refcount' = GetCount
  /\ Goto(t, "idle") /\ Keep(t, None)
  /\ UNCHANGED <<memVars, dataVars, pool, pool_ptr, pool_mem, blk>>

(* pool_release_buffer(): the entry goes back to the list ... *)
PoolRelease(t) ==
  /\ pc[t] = "free" /\ mem[blk[t]] = "pooled"
  /\ pool' = pool \union {blk[t]}
  /\ blk' = [blk EXCEPT ![t] = None]
  /\ Goto(t, "released")
  /\ UNCHANGED <<memVars, dataVars, pool_refcount, pool_ptr, pool_mem, slot>>

(* Give up one reference to the pool, and free it with the last one. *)
PoolLast_Never(n) == FALSE
PoolLast(n) == n = 1

PoolUnref(t) ==
  /\ pool_refcount' = pool_refcount - 1
  /\ Goto(t, IF PoolLast(pool_refcount) THEN "poolfree" ELSE "idle")

(* ... and then its reference to the pool is given up. *)
PoolReleased(t) ==
  /\ pc[t] = "released"
  /\ PoolUnref(t)
  /\ UNCHANGED <<memVars, dataVars, pool, pool_ptr, pool_mem, slot, blk>>

(* av_buffer_pool_uninit(), while no other thread is using the pointer. *)
PoolUninit(t) ==
  /\ pc[t] = "idle" /\ pool_ptr
  /\ \A u \in Threads : pc[u] # "got"
  /\ pool_ptr' = FALSE
  /\ PoolUnref(t)
  /\ UNCHANGED <<memVars, dataVars, pool, pool_mem, slot, blk>>

(* buffer_pool_free(). *)
PoolFree(t) ==
  /\ pc[t] = "poolfree"
  /\ mem' = [d \in Blocks |-> IF d \in pool THEN "none" ELSE mem[d]]
  /\ content' = [d \in Blocks |-> IF d \in pool THEN 0 ELSE content[d]]
  /\ pool' = {}
  /\ pool_mem' = "freed"
  /\ Goto(t, "idle")
  /\ UNCHANGED <<ref, refcount, readonly, reallocatable, seen, pool_refcount,
                 pool_ptr, slot, blk>>

---------------------------------------------------------------------------
Thread(t) ==
  \/ \E r \in Slots :
       \/ Alloc(t, r) \/ Unref(t, r) \/ BeginWrite(t, r)
       \/ MakeWritable(t, r) \/ Realloc(t, r) \/ PoolGet(t, r)
       \/ \E q \in Slots : Ref(t, r, q) \/ Hand(t, r, q)
  \/ DefaultFree(t) \/ Write(t) \/ ReallocDone(t) \/ CopyNew(t) \/ CopyFails(t) \/ Swap(t)
  \/ PoolGot(t) \/ PoolRelease(t) \/ PoolReleased(t) \/ PoolUninit(t) \/ PoolFree(t)

Next == \E t \in Threads : Thread(t)

Spec == Init /\ [][Next]_vars

---------------------------------------------------------------------------
(***************************************************************************)
(* Properties.                                                             *)
(***************************************************************************)
ThreadSteps == {"idle", "free", "write", "realloc", "copy", "recopy", "swap",
                "got", "released", "poolfree"}

(* Type invariant; the refcounts, which are unsigned, never wrap below 0. *)
TypeOK ==
  /\ ref \in [Refs -> Blocks \union {None}]
  /\ refcount \in [Blocks -> Nat]
  /\ readonly \in [Blocks -> BOOLEAN] /\ reallocatable \in [Blocks -> BOOLEAN]
  /\ mem \in [Blocks -> {"none", "heap", "pooled"}]
  /\ content \in [Blocks -> {0, 1}]
  /\ pool \in SUBSET Blocks
  /\ pool_refcount \in Nat
  /\ pool_ptr \in BOOLEAN /\ pool_mem \in {"live", "freed"}
  /\ pc \in [Threads -> ThreadSteps]
  /\ slot \in [Threads -> Slots \union {None}]
  /\ blk \in [Threads -> Blocks \union {None}]
  /\ seen \in [Refs -> {0, 1}]

(* No pointer leads to memory that has been freed or given back to the     *)
(* pool (where another thread may get it), and no two threads free the     *)
(* same block.                                                             *)
RefsValid ==
  /\ \A r \in Refs : ref[r] # None => mem[ref[r]] # "none" /\ ref[r] \notin pool
  /\ \A t, u \in Threads :
       pc[t] = "free" /\ pc[u] = "free" /\ blk[t] = blk[u] => t = u

(* While av_buffer_is_writable() is relied on (a write, or a realloc in    *)
(* place), nobody else has a reference to the buffer, and nobody gets one. *)
WriteExclusive ==
  \A t \in Threads : pc[t] \in {"write", "realloc"} =>
    \A r \in Refs : ref[r] = ref[slot[t]] => r = slot[t]

(* Data seen through one reference changes only by writes through that     *)
(* reference: writers get a buffer of their own.                           *)
ContentStable == \A r \in Refs : ref[r] # None => content[ref[r]] = seen[r]

(* "refcount reaches zero when the buffer has been uninited AND all the    *)
(* buffers have been released, then it's safe to free the pool": nobody    *)
(* works on a pool that is being freed or gone.                            *)
PoolSafe ==
  /\ \A t \in Threads : pc[t] \in {"got", "released", "poolfree"} => pool_mem = "live"
  /\ \A t, u \in Threads :
       /\ pc[t] = "poolfree" /\ pc[u] \in {"got", "released", "poolfree"} => t = u
       /\ pc[t] = "poolfree" \/ pool_mem = "freed" =>
            /\ ~pool_ptr
            /\ pc[u] = "free" => mem[blk[u]] = "heap"
            /\ \A r \in Refs : ref[r] # None => mem[ref[r]] = "heap"

(* Once the pool has been uninited, every pointer is null and no call is   *)
(* running, all memory has been freed.                                     *)
NoLeak ==
  ~pool_ptr /\ (\A r \in Refs : ref[r] = None) /\ (\A t \in Threads : pc[t] = "idle")
    => pool_mem = "freed" /\ \A d \in Blocks : mem[d] = "none"

---------------------------------------------------------------------------
(***************************************************************************)
(* The inductive invariant.                                                *)
(***************************************************************************)

(* Every refcount is the number of references. *)
CountsExact == \A d \in Blocks : refcount[d] = Cardinality(Holders(d))

(* A block without references is free, in the pool, or some thread is in   *)
(* its free callback.                                                      *)
NoOrphan ==
  \A d \in Blocks :
    mem[d] # "none" /\ d \notin pool /\ (\A r \in Refs : ref[r] # d)
      => \E t \in Threads : pc[t] = "free" /\ blk[t] = d

(* A block being freed is out of everybody's reach. *)
FreeingExact ==
  \A t \in Threads : pc[t] = "free" =>
    /\ blk[t] \in Blocks /\ mem[blk[t]] # "none" /\ blk[t] \notin pool
    /\ \A r \in Refs : ref[r] # blk[t]

(* A thread inside a call works on a pointer of its own. *)
InCall == {"write", "realloc", "copy", "recopy", "swap", "got"}
OwnPointer ==
  \A t \in Threads : pc[t] \in InCall =>
    slot[t] \in Slots /\ Owner[slot[t]] = t /\ ref[slot[t]] # None

(* ... which is the only one to its buffer where the code relies on that. *)
Exclusive == {"write", "realloc", "got"}
SoleHolder ==
  \A t \in Threads : pc[t] \in Exclusive =>
    \A r \in Refs : ref[r] = ref[slot[t]] => r = slot[t]

(* newbuf is set between the copy and the swap; it is another buffer than  *)
(* the old one, and shows the same data.                                   *)
NewbufExact ==
  \A t \in Threads :
    /\ (pc[t] = "swap") <=> (ref[t] # None)
    /\ pc[t] = "swap" => ref[t] # ref[slot[t]] /\ seen[t] = seen[slot[t]]

(* A buffer on its way out of the pool. *)
GotExact ==
  \A t \in Threads : pc[t] = "got" => mem[ref[slot[t]]] = "pooled" /\ pool_ptr

CallsExact == OwnPointer /\ SoleHolder /\ NewbufExact /\ GotExact

(* What holds the pool: the caller's pointer (None stands for it), every   *)
(* block that is out of the pool and has been counted, and every thread    *)
(* that has put one back and not yet counted it.                           *)
Counted(d) ==
  /\ mem[d] = "pooled" /\ d \notin pool
  /\ \A t \in Threads : pc[t] = "got" => ref[slot[t]] # d
PoolHolders ==
  (IF pool_ptr THEN {None} ELSE {}) \union {d \in Blocks : Counted(d)}
    \union {t \in Threads : pc[t] = "released"}

PoolExact ==
  /\ pool_refcount = Cardinality(PoolHolders)
  /\ \A t, u \in Threads : pc[t] = "poolfree" /\ pc[u] = "poolfree" => t = u
  /\ (pool_mem = "live") <=> (PoolHolders # {} \/ \E t \in Threads : pc[t] = "poolfree")
  /\ \A t \in Threads : pc[t] = "poolfree" => PoolHolders = {}
  /\ pool_mem = "freed" => \A d \in Blocks : mem[d] # "pooled"

(* The half of it that concerns the blocks, and all of it. *)
PoolListExact == \A d \in pool : mem[d] = "pooled"

BlocksInv ==
  /\ TypeOK /\ RefsValid /\ ContentStable
  /\ CountsExact /\ NoOrphan /\ FreeingExact /\ CallsExact /\ PoolListExact

BufferInv == BlocksInv /\ PoolExact
=============================================================================
