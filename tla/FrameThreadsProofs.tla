-------------------------- MODULE FrameThreadsProofs --------------------------
(***************************************************************************)
(* Proofs about FrameThreads, for every decoder in Setups: any number of   *)
(* threads, packets and flushes, with and without a setup phase, with      *)
(* get_buffer on either side, and with every kind of hwaccel.              *)
(*                                                                         *)
(* The invariant rests on four ideas.                                      *)
(*  - The ring.  Back(t) counts how many packets ago thread t had its turn; *)
(*    a thread that still has a packet or a frame has the one submitted    *)
(*    Back(t) packets ago, and no such thread is further back than         *)
(*    next_finished.  So frames leave in the order of their packets, and   *)
(*    the thread at next_decoding is empty when a packet is submitted.     *)
(*  - The context.  Only a thread past its setup, or idle after it, is     *)
(*    copied from, and it is the thread of the packet submitted last: a    *)
(*    context that a thread starts with reflects the packet before.        *)
(*  - hwaccel_mutex.  A thread that runs with a hwaccel past its setup     *)
(*    holds the mutex, except one that drains before any packet was sent   *)
(*    (its context had no hwaccel when it locked): that one works alone.   *)
(*  - async_mutex is the user's whenever the user is outside the library.  *)
(*                                                                         *)
(* One lemma per action shows that the invariant is kept.  A step of a     *)
(* worker touches its own thread only (WorkerStep), and most steps of the  *)
(* user's thread touch no thread at all (StillStep).                       *)
(*                                                                         *)
(* From the invariant the ring of threads is shown to implement DelayLine: *)
(* LatencyInv adds that a full ring stays full until it is drained.        *)
(***************************************************************************)
EXTENDS FrameThreads, FiniteSetTheorems, TLAPS

---------------------------------------------------------------------------
(***************************************************************************)
(* The inductive invariant.                                                *)
(***************************************************************************)
States == {"INPUT_READY", "SETTING_UP", "GET_BUFFER", "SETUP_FINISHED"}
FinishingSetup == {"fs_hw", "fs_async", "fs_set"}
Idle == {"top", "lock_in", "wait_in", "signal", "exit"}
BeforeSetup == Idle \union {"start", "lock", "lock_hw", "setup"}
Places == BeforeSetup \union {"getbuf", "gb_signal", "gb_wait", "gb_done", "gb_out", "decode",
                              "await", "report", "output", "return", "finish", "ready"}
InCall == Submitting \union Submitted \union Collecting \union {"delay"}
Freeing == {"kill", "join", "freed"}
MainPlaces == InCall \union Freeing \union {"user", "return", "park", "park_wait", "flush", "free"}

FctxType == [prev_thread : Int, next_decoding : Nat, next_finished : Nat, delaying : BOOLEAN]
LockType == [buffer : Int, hwaccel : Int, async : Int]
SlotType == [state : States, pkt : Nat, size : BOOLEAN, frame : Nat, got_frame : BOOLEAN,
             result : {0, -1}, released : BOOLEAN, die : BOOLEAN,
             hwaccel_serializing : BOOLEAN, async_serializing : BOOLEAN]
CtxType == [seen : Nat, hw : BOOLEAN, frame : Nat, owner : Nat]
LocalsType == [cont : Places, ref : Nat, owner : Nat, gb_err : BOOLEAN]
MainType == [cur : Nat, size : BOOLEAN, finished : Nat, got_picture : BOOLEAN,
             freeing : BOOLEAN, uctx : Nat, draining : BOOLEAN, eof : BOOLEAN, setup : Setups]
HistoryType == [sub : Nat, progress : SUBSET Nat, out : Seq(Nat), produced : SUBSET Nat,
                sub_failed : BOOLEAN, flushes : Nat]

FrameTypeOK ==
  /\ fctx \in FctxType
  /\ lock \in LockType
  /\ slot \in [Threads -> SlotType]
  /\ ctx \in [Threads -> CtxType]
  /\ progress_wait \in [Threads -> SUBSET Nat]
  /\ wpc \in [Threads -> Places \union FinishingSetup]
  /\ wloc \in [Threads -> LocalsType]
  /\ mpc \in MainPlaces
  /\ m \in MainType /\ m.cur \in Threads /\ m.finished \in Threads
  /\ h \in HistoryType

(* Where the worker is, or will be after ff_thread_finish_setup(). *)
At(t) == IF wpc[t] \in FinishingSetup THEN wloc[t].cont ELSE wpc[t]
PastSetup(t) == At(t) \notin BeforeSetup

(* The setup ends before the codec is called. *)
Early == ~m.setup.update /\ m.setup.thread_safe

(* The thread has a packet or a frame of one. *)
Busy(t) == slot[t].state # "INPUT_READY"
Loaded(t) == Busy(t) \/ slot[t].got_frame

(* The thread of the packet submitted last, if any since the last flush. *)
Latest == IF mpc \in Submitted THEN m.cur ELSE fctx.prev_thread

WorkerOK(t) ==
  /\ wpc[t] \in FinishingSetup => /\ wloc[t].cont \in {"lock", "gb_out", "decode", "finish"}
                                  /\ wloc[t].cont = "lock" => Early
  /\ At(t) \notin Idle => Busy(t)
  /\ ~Early /\ ~PastSetup(t) => slot[t].state \in {"INPUT_READY", "SETTING_UP"}
  /\ slot[t].got_frame => /\ At(t) \in Idle \union {"return", "finish", "ready"}
                          /\ At(t) \in Idle => ~Busy(t)
                          /\ mpc \notin Freeing => slot[t].frame = slot[t].pkt

(* Whose context it is. *)
ContextOK(t) ==
  /\ \/ PastSetup(t)
     \/ At(t) \in Idle /\ ~Busy(t) /\ mpc \notin Freeing /\ (t = Latest \/ slot[t].got_frame)
     => ctx[t].seen = slot[t].pkt /\ ctx[t].hw = (m.setup.hwaccel # "none")
  /\ ~Early /\ ~PastSetup(t) /\ Busy(t) => ctx[t].seen = slot[t].pkt - 1
  /\ ctx[t].hw => m.setup.hwaccel # "none"

(* How many packets ago the thread had its turn; how far it is from the    *)
(* one to be collected first.                                              *)
NextSlot == fctx.next_decoding + IF mpc \in Submitted THEN 1 ELSE 0
Back(t) == NextSlot - 1 - t + IF t < NextSlot THEN 0 ELSE ThreadCount
Fwd(t) == t - fctx.next_finished + IF t >= fctx.next_finished THEN 0 ELSE ThreadCount

RingInv ==
  /\ fctx.next_decoding <= ThreadCount /\ fctx.next_finished \in Threads
  /\ mpc \notin Collecting \union {"delay"} => fctx.next_decoding \in Threads
  /\ mpc \in Submitting \union Submitted => m.cur = fctx.next_decoding
  /\ mpc \in Submitting \union Submitted \union {"delay"} => m.finished = fctx.next_finished
  /\ \A t \in Threads : Loaded(t) =>
       /\ Back(t) <= Back(fctx.next_finished)
       /\ slot[t].pkt = h.sub - Back(t)
       /\ mpc \notin Submitted \union Collecting \union {"delay"} =>
            fctx.next_finished # fctx.next_decoding
       /\ mpc \in Collecting => Fwd(t) >= Fwd(m.finished)

DelayInv ==
  /\ fctx.delaying => fctx.next_decoding <= ThreadCount - IF mpc = "delay" THEN 1 ELSE 2
  /\ fctx.delaying /\ ~m.draining => fctx.next_finished = 0
  /\ mpc \in InCall => m.draining = ~m.size /\ ~m.eof
  /\ mpc \in Collecting /\ m.size => ~fctx.delaying
  /\ mpc \in Collecting \union {"delay"} /\ m.size => fctx.prev_thread # None
  /\ mpc = "delay" /\ m.size => fctx.next_decoding >= 1

LatestInv ==
  IF Latest = None
  THEN /\ fctx.next_decoding = 0 /\ fctx.next_finished = 0
       /\ \A t \in Threads : ~Loaded(t)
       /\ ctx[0].seen = h.sub
  ELSE Latest \in Threads /\ slot[Latest].pkt = h.sub

ParkInv ==
  /\ mpc \in {"park", "park_wait"} => \A t \in Threads : t < m.cur => ~Busy(t)
  /\ mpc \in Freeing \union {"flush", "free"} => \A t \in Threads : ~Busy(t)

Outs == {h.out[i] : i \in DOMAIN h.out}

OutInv ==
  /\ \A i, j \in DOMAIN h.out : i < j => h.out[i] < h.out[j]
  /\ \A i \in DOMAIN h.out : /\ h.out[i] <= h.sub
                             /\ \A t \in Threads : Loaded(t) => h.out[i] < slot[t].pkt
  /\ h.produced = Outs \union {slot[t].pkt : t \in {u \in Threads : slot[u].got_frame}}
  /\ m.got_picture => h.out # <<>> /\ m.uctx = h.out[Len(h.out)]
  /\ ~h.sub_failed /\ (m.eof \/ (mpc = "return" /\ m.draining /\ ~m.got_picture)) =>
       \A t \in Threads : ~Loaded(t)

(* The thread works alone: it drains the codec before any packet was sent. *)
Alone(t) ==
  /\ \A u \in Threads : u # t => ~Busy(u)
  /\ mpc \in Submitted \union Collecting \union {"delay"} /\ ~m.size /\ m.finished = t

AsyncInv == mpc \in Freeing \union {"user"} => lock.async = Main

HwOK(t) ==
  /\ slot[t].async_serializing /\ wpc[t] # "fs_async" => lock.async = t
  /\ slot[t].hwaccel_serializing => lock.hwaccel = t
  /\ ctx[t].hw /\ wpc[t] \in {"fs_async", "fs_set", "decode", "await"} =>
       slot[t].hwaccel_serializing
  /\ ~PastSetup(t) \/ At(t) = "ready" =>
       slot[t].hwaccel_serializing = (wpc[t] = "setup" /\ ctx[t].hw)
  /\ wpc[t] \in {"fs_hw", "fs_async"} => ctx[t].hw
  /\ m.setup.hwaccel # "none" /\ ~slot[t].hwaccel_serializing =>
       /\ wpc[t] \in {"report", "output"} => ~slot[t].size /\ Alone(t)
       /\ ~PastSetup(t) /\ Busy(t) /\ ~slot[t].size /\ ~ctx[t].hw => Alone(t)

ThreadOK(t) == WorkerOK(t) /\ ContextOK(t) /\ HwOK(t)

FrameInv ==
  /\ FrameTypeOK /\ RingInv /\ DelayInv /\ LatestInv /\ ParkInv /\ OutInv /\ AsyncInv
  /\ \A t \in Threads : ThreadOK(t)

---------------------------------------------------------------------------
(***************************************************************************)
(* Types, and what never changes.                                          *)
(***************************************************************************)
LEMMA SetupFacts ==
  ASSUME FrameTypeOK
  PROVE  /\ m.setup \in Setups /\ ThreadCount \in Nat /\ ThreadCount >= 2
         /\ ThreadCount <= MaxThreads /\ MaxThreads \in Nat
         /\ Threads = 0..(ThreadCount - 1) /\ 0 \in Threads
         /\ Main \notin Threads /\ None \notin Threads /\ Main # None
         /\ \A t \in Threads : t \in Nat
         /\ m.setup.update \in BOOLEAN /\ m.setup.thread_safe \in BOOLEAN
         /\ m.setup.hwaccel # "none" => m.setup.update /\ ~Early
<1>1. m.setup \in Setups
  BY DEF FrameTypeOK, MainType
<1>2. m.setup \in SetupType /\ (m.setup.hwaccel # "none" => m.setup.update)
  BY <1>1, SetupsAssumption
<1>3. /\ m.setup.thread_count \in 2..MaxThreads
      /\ m.setup.update \in BOOLEAN /\ m.setup.thread_safe \in BOOLEAN
  BY <1>2 DEF SetupType
<1>4. ThreadCount \in Nat /\ ThreadCount >= 2 /\ ThreadCount <= MaxThreads /\ MaxThreads \in Nat
  BY <1>3, ThreadsAssumption DEF ThreadCount
<1> QED
  BY <1>1, <1>2, <1>3, <1>4 DEF Threads, Main, None, Early

LEMMA SetupQuiet ==
  ASSUME m'.setup = m.setup
  PROVE  /\ ThreadCount' = ThreadCount /\ Threads' = Threads /\ Early' = Early
         /\ MainCallsGetBuffer' = MainCallsGetBuffer
  BY DEF ThreadCount, Threads, Early, MainCallsGetBuffer

LEMMA MainFields ==
  ASSUME NEW g \in MainType
  PROVE  /\ g.cur \in Nat /\ g.size \in BOOLEAN /\ g.finished \in Nat /\ g.got_picture \in BOOLEAN
         /\ g.freeing \in BOOLEAN /\ g.uctx \in Nat /\ g.draining \in BOOLEAN
         /\ g.eof \in BOOLEAN /\ g.setup \in Setups
  BY DEF MainType

LEMMA HistoryFields ==
  ASSUME NEW g \in HistoryType
  PROVE  /\ g.sub \in Nat /\ g.progress \in SUBSET Nat /\ g.out \in Seq(Nat)
         /\ g.produced \in SUBSET Nat /\ g.sub_failed \in BOOLEAN /\ g.flushes \in Nat
  BY DEF HistoryType

LEMMA FctxFields ==
  ASSUME NEW g \in FctxType
  PROVE  /\ g.prev_thread \in Int /\ g.next_decoding \in Nat /\ g.next_finished \in Nat
         /\ g.delaying \in BOOLEAN
  BY DEF FctxType

LEMMA SlotFields ==
  ASSUME NEW s \in SlotType
  PROVE  /\ s.state \in States /\ s.pkt \in Nat /\ s.size \in BOOLEAN /\ s.frame \in Nat
         /\ s.got_frame \in BOOLEAN /\ s.result \in {0, -1} /\ s.released \in BOOLEAN
         /\ s.die \in BOOLEAN /\ s.hwaccel_serializing \in BOOLEAN
         /\ s.async_serializing \in BOOLEAN
  BY DEF SlotType

LEMMA CtxFields ==
  ASSUME NEW c \in CtxType
  PROVE  c.seen \in Nat /\ c.hw \in BOOLEAN /\ c.frame \in Nat /\ c.owner \in Nat
  BY DEF CtxType

LEMMA ThreadFields ==
  ASSUME FrameTypeOK, NEW t \in Threads
  PROVE  /\ slot[t] \in SlotType /\ ctx[t] \in CtxType /\ wloc[t] \in LocalsType
         /\ wpc[t] \in Places \union FinishingSetup /\ At(t) \in Places
         /\ slot[t].pkt \in Nat /\ ctx[t].seen \in Nat /\ ctx[t].hw \in BOOLEAN
         /\ slot[t].hwaccel_serializing \in BOOLEAN /\ slot[t].async_serializing \in BOOLEAN
         /\ slot[t].state \in States /\ slot[t].size \in BOOLEAN /\ slot[t].got_frame \in BOOLEAN
<1>1. /\ slot[t] \in SlotType /\ ctx[t] \in CtxType /\ wloc[t] \in LocalsType
      /\ wpc[t] \in Places \union FinishingSetup
  BY DEF FrameTypeOK
<1>2. wloc[t].cont \in Places
  BY <1>1 DEF LocalsType
<1> QED
  BY <1>1, <1>2, SlotFields, CtxFields DEF At

(* The positions on the ring. *)
LEMMA BackFacts ==
  ASSUME FrameTypeOK, RingInv
  PROVE  /\ NextSlot \in 0..ThreadCount
         /\ \A t \in Threads : Back(t) \in 0..(ThreadCount - 1) /\ Fwd(t) \in 0..(ThreadCount - 1)
         /\ \A t, u \in Threads : Back(t) = Back(u) => t = u
<1>1. fctx.next_decoding \in Nat /\ fctx.next_finished \in Nat
  BY FctxFields DEF FrameTypeOK
<1>2. NextSlot \in 0..ThreadCount
  <2>1. CASE mpc \in Submitted
    <3>1. mpc \notin Collecting \union {"delay"}
      BY <2>1 DEF Submitted, Collecting
    <3> QED
      BY <1>1, <2>1, <3>1, SetupFacts DEF NextSlot, RingInv
  <2>2. CASE mpc \notin Submitted
    BY <1>1, <2>2, SetupFacts DEF NextSlot, RingInv
  <2> QED
    BY <2>1, <2>2
<1>3. \A t \in Threads : Back(t) \in 0..(ThreadCount - 1)
  BY <1>2, SetupFacts DEF Back
<1>4. \A t \in Threads : Fwd(t) \in 0..(ThreadCount - 1)
  BY <1>1, SetupFacts DEF Fwd, RingInv
<1>5. \A t, u \in Threads : Back(t) = Back(u) => t = u
  BY <1>2, SetupFacts DEF Back
<1> QED
  BY <1>2, <1>3, <1>4, <1>5

---------------------------------------------------------------------------
(***************************************************************************)
(* A step of a worker.                                                     *)
(***************************************************************************)

(* The user's thread stays in the same phase of its call. *)
MainQuiet ==
  /\ mpc' \in MainPlaces
  /\ mpc' \in Submitting <=> mpc \in Submitting
  /\ mpc' \in Submitted <=> mpc \in Submitted
  /\ mpc' \in Collecting <=> mpc \in Collecting
  /\ mpc' \in InCall <=> mpc \in InCall
  /\ mpc' \in Freeing <=> mpc \in Freeing
  /\ mpc' \in {"park", "park_wait"} <=> mpc \in {"park", "park_wait"}
  /\ \A x \in {"user", "return", "delay", "flush", "free"} : mpc' = x <=> mpc = x

LEMMA MainStays ==
  ASSUME \/ mpc \in MainPlaces /\ mpc' = mpc
         \/ \E S \in {Submitting, Submitted, Collecting, Freeing, {"park", "park_wait"}} :
               mpc \in S /\ mpc' \in S
  PROVE  MainQuiet
<1> USE DEF Submitting, Submitted, Collecting, InCall, Freeing, MainPlaces, MainQuiet
<1>1. CASE mpc \in MainPlaces /\ mpc' = mpc
  BY <1>1
<1>2. CASE mpc \in Submitting /\ mpc' \in Submitting
  BY <1>2
<1>3. CASE mpc \in Submitted /\ mpc' \in Submitted
  BY <1>3
<1>4. CASE mpc \in Collecting /\ mpc' \in Collecting
  BY <1>4
<1>5. CASE mpc \in Freeing /\ mpc' \in Freeing
  BY <1>5
<1>6. CASE mpc \in {"park", "park_wait"} /\ mpc' \in {"park", "park_wait"}
  BY <1>6
<1> HIDE DEF Submitting, Submitted, Collecting, InCall, Freeing, MainPlaces, MainQuiet
<1> QED
  BY <1>1, <1>2, <1>3, <1>4, <1>5, <1>6

(* What thread t does is seen by the others and by the user's thread only  *)
(* through its state, its frame and the shared mutexes.                    *)
LEMMA WorkerStep ==
  ASSUME FrameInv, FrameTypeOK', NEW t \in Threads, UNCHANGED <<fctx, m>>, MainQuiet,
         \A u \in Threads : u # t =>
           /\ slot'[u] = slot[u] /\ ctx'[u] = ctx[u] /\ wpc'[u] = wpc[u] /\ wloc'[u] = wloc[u]
           /\ lock.hwaccel = u => lock'.hwaccel = u
           /\ lock.async = u => lock'.async = u,
         lock.async = Main => lock'.async = Main,
         slot'[t].pkt = slot[t].pkt, slot'[t].size = slot[t].size,
         Busy(t)' => Busy(t), ~Busy(t) => ctx'[t] = ctx[t],
         h'.sub = h.sub, h'.out = h.out, h'.sub_failed = h.sub_failed,
         \/ slot'[t].got_frame = slot[t].got_frame /\ h'.produced = h.produced
         \/ slot'[t].got_frame /\ Busy(t) /\ h'.produced = h.produced \union {slot[t].pkt},
         ThreadOK(t)'
  PROVE  FrameInv'
<1> USE DEF FrameInv
<1>1. /\ ThreadCount' = ThreadCount /\ Threads' = Threads /\ Early' = Early /\ m' = m
      /\ fctx' = fctx /\ 0 \in Threads /\ Main \notin Threads /\ None \notin Threads
  BY SetupQuiet, SetupFacts
<1>2. /\ \A u \in Threads : Loaded(u)' => Loaded(u)
      /\ \A u \in Threads : Busy(u)' => Busy(u)
      /\ \A u \in Threads : slot'[u].pkt = slot[u].pkt
      /\ \A u \in Threads : u # t => /\ Busy(u)' = Busy(u) /\ At(u)' = At(u)
                                     /\ PastSetup(u)' = PastSetup(u)
                                     /\ Loaded(u)' = Loaded(u)
  BY DEF Loaded, Busy, At, PastSetup
<1>3. /\ NextSlot' = NextSlot /\ Latest' = Latest
      /\ \A u \in Threads : Back(u)' = Back(u) /\ Fwd(u)' = Fwd(u)
  <2>1. mpc' \in Submitted <=> mpc \in Submitted
    BY DEF MainQuiet
  <2>2. NextSlot' = NextSlot /\ Latest' = Latest
    BY <1>1, <2>1 DEF NextSlot, Latest
  <2> QED
    BY <1>1, <2>2 DEF Back, Fwd
<1>4. RingInv'
  <2>1. /\ mpc' \in Submitting <=> mpc \in Submitting
        /\ mpc' \in Submitted <=> mpc \in Submitted
        /\ mpc' \in Collecting <=> mpc \in Collecting
        /\ mpc' = "delay" <=> mpc = "delay"
    BY DEF MainQuiet
  <2>2. fctx.next_finished \in Threads /\ m.finished \in Threads
    BY DEF RingInv, FrameTypeOK
  <2>3. Back(fctx.next_finished)' = Back(fctx.next_finished) /\ Fwd(m.finished)' = Fwd(m.finished)
    BY <1>1, <1>3, <2>2 DEF Back, Fwd
  <2>4. ASSUME NEW u \in Threads, Loaded(u)'
        PROVE  /\ Back(u)' <= Back(fctx.next_finished)'
               /\ slot'[u].pkt = h'.sub - Back(u)'
               /\ mpc' \notin Submitted \union Collecting \union {"delay"} =>
                    fctx'.next_finished # fctx'.next_decoding
               /\ mpc' \in Collecting => Fwd(u)' >= Fwd(m.finished)'
    BY <1>1, <1>2, <1>3, <2>1, <2>3, <2>4 DEF RingInv
  <2> QED
    BY <1>1, <2>1, <2>4 DEF RingInv
<1>5. DelayInv'
  <2>1. /\ mpc' \in InCall <=> mpc \in InCall
        /\ mpc' \in Collecting <=> mpc \in Collecting
        /\ mpc' = "delay" <=> mpc = "delay"
    BY DEF MainQuiet
  <2> QED
    BY <1>1, <2>1 DEF DelayInv
<1>6. LatestInv'
  <2>1. CASE Latest = None
    <3>1. ~Busy(t)
      BY <2>1 DEF LatestInv, Loaded
    <3>2. ctx'[0].seen = ctx[0].seen
      BY <1>1, <3>1
    <3> QED
      BY <1>1, <1>2, <1>3, <2>1, <3>2 DEF LatestInv
  <2>2. CASE Latest # None
    BY <1>1, <1>2, <1>3, <2>2 DEF LatestInv
  <2> QED
    BY <2>1, <2>2
<1>7. ParkInv'
  <2>1. /\ mpc' \in Freeing <=> mpc \in Freeing
        /\ mpc' = "flush" <=> mpc = "flush"
        /\ mpc' = "free" <=> mpc = "free"
        /\ mpc' \in {"park", "park_wait"} <=> mpc \in {"park", "park_wait"}
    BY DEF MainQuiet
  <2> QED
    BY <1>1, <1>2, <2>1 DEF ParkInv
<1>8. OutInv'
  <2>1. mpc' = "return" <=> mpc = "return"
    BY DEF MainQuiet
  <2>2. Outs' = Outs
    BY DEF Outs
  <2>3. h'.produced = Outs' \union {slot'[u].pkt : u \in {v \in Threads : slot'[v].got_frame}}
    <3>1. CASE slot'[t].got_frame = slot[t].got_frame /\ h'.produced = h.produced
      <4>1. \A u \in Threads : slot'[u].got_frame = slot[u].got_frame
        BY <3>1
      <4> QED
        BY <1>2, <2>2, <3>1, <4>1 DEF OutInv
    <3>2. CASE slot'[t].got_frame /\ h'.produced = h.produced \union {slot[t].pkt}
      <4>1. \A u \in Threads : u # t => slot'[u].got_frame = slot[u].got_frame
        BY <3>2
      <4>2. {slot'[u].pkt : u \in {v \in Threads : slot'[v].got_frame}}
             = {slot[u].pkt : u \in {v \in Threads : slot[v].got_frame}} \union {slot[t].pkt}
        BY <1>2, <3>2, <4>1
      <4> QED
        BY <2>2, <3>2, <4>2 DEF OutInv
    <3> QED
      BY <3>1, <3>2
  <2>4. \A i \in DOMAIN h'.out : /\ h'.out[i] <= h'.sub
                                 /\ \A u \in Threads : Loaded(u)' => h'.out[i] < slot'[u].pkt
    BY <1>2 DEF OutInv
  <2> QED
    BY <1>1, <1>2, <2>1, <2>3, <2>4 DEF OutInv
<1>9. AsyncInv'
  <2>1. /\ mpc' = "user" <=> mpc = "user"
        /\ mpc' \in Freeing <=> mpc \in Freeing
    BY DEF MainQuiet
  <2> QED
    BY <1>1, <2>1 DEF AsyncInv, Main
<1>10. ASSUME NEW u \in Threads, u # t PROVE ThreadOK(u)'
  <2>1. /\ mpc' \in Freeing <=> mpc \in Freeing
        /\ mpc' \in Submitted <=> mpc \in Submitted
        /\ mpc' \in Collecting <=> mpc \in Collecting
        /\ mpc' = "delay" <=> mpc = "delay"
    BY DEF MainQuiet
  <2>2. /\ slot'[u] = slot[u] /\ ctx'[u] = ctx[u] /\ wpc'[u] = wpc[u] /\ wloc'[u] = wloc[u]
        /\ Busy(u)' = Busy(u) /\ At(u)' = At(u) /\ PastSetup(u)' = PastSetup(u)
    BY <1>2, <1>10
  <2>3. WorkerOK(u) /\ ContextOK(u) /\ HwOK(u)
    BY DEF ThreadOK
  <2>4. WorkerOK(u)'
    BY <1>1, <2>1, <2>2, <2>3 DEF WorkerOK
  <2>5. ContextOK(u)'
    BY <1>1, <1>3, <2>1, <2>2, <2>3 DEF ContextOK
  <2>6. Alone(u) => Alone(u)'
    BY <1>1, <1>2, <2>1 DEF Alone
  <2>7. HwOK(u)'
    BY <1>1, <1>10, <2>2, <2>3, <2>6 DEF HwOK
  <2> QED
    BY <2>4, <2>5, <2>7 DEF ThreadOK
<1> QED
  BY <1>1, <1>4, <1>5, <1>6, <1>7, <1>8, <1>9, <1>10

LEMMA SelfQuiet ==
  ASSUME UNCHANGED <<fctx, m>>, MainQuiet,
         \A u \in Threads : Busy(u)' => Busy(u)
  PROVE  /\ Latest' = Latest
         /\ \A t \in Threads : Alone(t) => Alone(t)'
<1>1. /\ mpc' \in Submitted <=> mpc \in Submitted
      /\ mpc' \in Collecting <=> mpc \in Collecting
      /\ mpc' = "delay" <=> mpc = "delay"
  BY DEF MainQuiet
<1>2. Threads' = Threads
  BY SetupQuiet
<1> QED
  BY <1>1, <1>2 DEF Latest, Alone

LEMMA Goes ==
  ASSUME FrameTypeOK, NEW t \in Threads, NEW to \in Places \union FinishingSetup,
         WorkerGoes(t, to)
  PROVE  /\ wpc' \in [Threads -> Places \union FinishingSetup] /\ wpc'[t] = to
         /\ \A u \in Threads : u # t => wpc'[u] = wpc[u]
  BY DEF FrameTypeOK, WorkerGoes

LEMMA FinishesSetup ==
  ASSUME FrameTypeOK, NEW t \in Threads, NEW to \in {"lock", "gb_out", "decode", "finish"},
         FinishSetup(t, to)
  PROVE  /\ wpc' \in [Threads -> Places \union FinishingSetup]
         /\ wpc'[t] = IF ctx[t].hw THEN "fs_hw" ELSE "fs_set"
         /\ wloc' \in [Threads -> LocalsType] /\ wloc'[t].cont = to
         /\ \A u \in Threads : u # t => wpc'[u] = wpc[u] /\ wloc'[u] = wloc[u]
<1>1. WorkerGoes(t, IF ctx[t].hw THEN "fs_hw" ELSE "fs_set")
  BY DEF FinishSetup
<1>2. (IF ctx[t].hw THEN "fs_hw" ELSE "fs_set") \in Places \union FinishingSetup
  BY DEF FinishingSetup
<1>3. /\ wpc' \in [Threads -> Places \union FinishingSetup]
      /\ wpc'[t] = IF ctx[t].hw THEN "fs_hw" ELSE "fs_set"
      /\ \A u \in Threads : u # t => wpc'[u] = wpc[u]
  BY <1>1, <1>2, Goes
<1>4. wloc' = [wloc EXCEPT ![t].cont = to] /\ wloc \in [Threads -> LocalsType] /\ to \in Places
  BY DEF FinishSetup, FrameTypeOK, Places, BeforeSetup
<1>5. /\ wloc' \in [Threads -> LocalsType] /\ wloc'[t].cont = to
      /\ \A u \in Threads : u # t => wloc'[u] = wloc[u]
  BY <1>4 DEF LocalsType
<1> QED
  BY <1>3, <1>5

(* What the user's thread and the history keep. *)
Quiet ==
  /\ MainQuiet
  /\ h' \in HistoryType /\ h'.sub = h.sub /\ h'.out = h.out /\ h'.produced = h.produced
  /\ h'.sub_failed = h.sub_failed

LEMMA Still ==
  ASSUME FrameTypeOK, UNCHANGED <<mpc, h>>
  PROVE  Quiet
  BY MainStays DEF Quiet, FrameTypeOK

LEMMA Reports ==
  ASSUME FrameTypeOK, UNCHANGED mpc, NEW p \in Nat, h' = [h EXCEPT !.progress = @ \union {p}]
  PROVE  Quiet
<1>1. h' \in HistoryType /\ h'.sub = h.sub /\ h'.out = h.out /\ h'.produced = h.produced
      /\ h'.sub_failed = h.sub_failed
  BY DEF FrameTypeOK, HistoryType
<1> QED
  BY <1>1, MainStays DEF Quiet, FrameTypeOK

(* A step to another place, with nothing shared changed but who waits. *)
LEMMA WorkerMoves ==
  ASSUME FrameInv, NEW t \in Threads, UNCHANGED <<fctx, lock, slot, ctx, m>>, Quiet,
         wpc' \in [Threads -> Places \union FinishingSetup], wloc' \in [Threads -> LocalsType],
         progress_wait' \in [Threads -> SUBSET Nat],
         \A u \in Threads : u # t => wpc'[u] = wpc[u] /\ wloc'[u] = wloc[u],
         wpc'[t] \in FinishingSetup =>
           /\ wloc'[t].cont \in {"lock", "gb_out", "decode", "finish"}
           /\ wloc'[t].cont = "lock" => Early,
         PastSetup(t)' = PastSetup(t), At(t)' \notin Idle => Busy(t),
         At(t)' \in Idle /\ ~Busy(t) => At(t) \in Idle,
         slot[t].got_frame => /\ At(t)' \in Idle \union {"return", "finish", "ready"}
                              /\ At(t)' \in Idle => ~Busy(t),
         wpc[t] # "fs_async", wpc[t] # "setup", wpc'[t] # "setup", At(t)' # "ready",
         wpc'[t] \in {"fs_hw", "fs_async"} => ctx[t].hw,
         ctx[t].hw /\ wpc'[t] \in {"fs_async", "fs_set", "decode", "await"} =>
           slot[t].hwaccel_serializing,
         m.setup.hwaccel # "none" /\ ~slot[t].hwaccel_serializing /\ wpc'[t] \in {"report", "output"}
           => ~slot[t].size /\ Alone(t)
  PROVE  FrameInv'
<1> USE DEF FrameInv
<1>1. /\ ThreadCount' = ThreadCount /\ Threads' = Threads /\ Early' = Early /\ MainQuiet
      /\ m' = m /\ slot' = slot /\ ctx' = ctx /\ lock' = lock
      /\ mpc' \in Freeing <=> mpc \in Freeing
  BY SetupQuiet DEF Quiet, MainQuiet
<1>2. FrameTypeOK'
  <2>1. mpc' \in MainPlaces
    BY DEF MainQuiet, Quiet, FrameTypeOK
  <2> QED
    BY <1>1, <2>1 DEF FrameTypeOK, Quiet
<1>3. \A u \in Threads : Busy(u)' = Busy(u)
  BY <1>1 DEF Busy
<1>4. Latest' = Latest /\ (Alone(t) => Alone(t)')
  BY <1>1, <1>3, SelfQuiet
<1>5. WorkerOK(t) /\ ContextOK(t) /\ HwOK(t)
  BY DEF ThreadOK
<1>6. WorkerOK(t)'
  BY <1>1, <1>3, <1>5 DEF WorkerOK
<1>7. ContextOK(t)'
  BY <1>1, <1>3, <1>4, <1>5 DEF ContextOK
<1>8. HwOK(t)'
  BY <1>1, <1>3, <1>4, <1>5 DEF HwOK
<1>9. ThreadOK(t)'
  BY <1>6, <1>7, <1>8 DEF ThreadOK
<1> QED
  BY <1>1, <1>2, <1>3, <1>9, WorkerStep DEF Quiet

LEMMA WorkerTopStep ==
  ASSUME FrameInv, NEW t \in Threads, WorkerTop(t) \/ WorkerInput(t) \/ WorkerLock(t)
  PROVE  FrameInv'
<1> USE DEF FrameInv
<1>1. PICK to \in {"lock_in", "start", "exit", "wait_in", "lock_hw"} :
        /\ WorkerGoes(t, to) /\ (to = "start" => Busy(t))
        /\ to = "lock_hw" <=> wpc[t] = "lock"
        /\ to # "lock_hw" => wpc[t] \in {"top", "lock_in"}
  BY DEF WorkerTop, WorkerInput, WorkerLock, Busy
<1>2. UNCHANGED <<fctx, lock, slot, ctx, progress_wait, wloc, mpc, m, h>>
  BY DEF WorkerTop, WorkerInput, WorkerLock
<1>3. to \in Places
  BY DEF Places, BeforeSetup, Idle
<1>4. /\ wpc' \in [Threads -> Places \union FinishingSetup] /\ wpc'[t] = to
      /\ \A u \in Threads : u # t => wpc'[u] = wpc[u]
  BY <1>1, <1>3, Goes
<1>5. At(t)' = to /\ At(t) = wpc[t] /\ WorkerOK(t)
  BY <1>1, <1>4 DEF At, FinishingSetup, ThreadOK
<1>6. ~PastSetup(t) /\ ~PastSetup(t)'
  BY <1>1, <1>5 DEF PastSetup, BeforeSetup, Idle
<1>7. /\ At(t)' \notin Idle => Busy(t)
      /\ At(t)' \in Idle => At(t) \in Idle
      /\ slot[t].got_frame => At(t)' \in Idle /\ ~Busy(t)
  BY <1>1, <1>5 DEF WorkerOK, Idle
<1>8. wloc' \in [Threads -> LocalsType] /\ progress_wait' \in [Threads -> SUBSET Nat]
  BY <1>2 DEF FrameTypeOK
<1>9. wpc[t] # "fs_async" /\ wpc'[t] \notin FinishingSetup \union {"setup", "decode", "await", "report", "output"}
  BY <1>1, <1>4 DEF FinishingSetup
<1>10. /\ wpc'[t] \notin FinishingSetup /\ wpc'[t] # "setup" /\ wpc[t] # "fs_async"
       /\ wpc[t] # "setup" /\ At(t)' # "ready" /\ wpc'[t] \notin {"fs_hw", "fs_async"}
       /\ wpc'[t] \notin {"fs_async", "fs_set", "decode", "await"}
       /\ wpc'[t] \notin {"report", "output"}
  BY <1>1, <1>5, <1>9 DEF FinishingSetup
<1>11. PastSetup(t)' = PastSetup(t)
  BY <1>6 DEF PastSetup
<1>12. \A u \in Threads : u # t => wpc'[u] = wpc[u] /\ wloc'[u] = wloc[u]
  BY <1>2, <1>4
<1> QED
  BY <1>2, <1>4, <1>7, <1>8, <1>10, <1>11, <1>12, Still, WorkerMoves

(* A call of ff_thread_finish_setup(), or none. *)
LEMMA FinishSetupStep ==
  ASSUME FrameInv, NEW t \in Threads, NEW to \in {"lock", "gb_out", "finish"},
         UNCHANGED <<fctx, lock, slot, ctx, progress_wait, mpc, m, h>>,
         SkipFinishSetup(t, to) \/ (FinishSetup(t, to) /\ (to = "lock" => Early)),
         to = "lock" <=> wpc[t] = "start", to = "finish" <=> wpc[t] = "return",
         to = "gb_out" <=> wpc[t] = "gb_done"
  PROVE  FrameInv'
<1> USE DEF FrameInv
<1>1. /\ wpc' \in [Threads -> Places \union FinishingSetup]
      /\ wloc' \in [Threads -> LocalsType]
      /\ \A u \in Threads : u # t => wpc'[u] = wpc[u] /\ wloc'[u] = wloc[u]
      /\ \/ wpc'[t] = to
         \/ wpc'[t] = (IF ctx[t].hw THEN "fs_hw" ELSE "fs_set") /\ wloc'[t].cont = to /\ (to = "lock" => Early)
  <2>1. CASE SkipFinishSetup(t, to)
    <3>1. to \in Places
      BY DEF Places, BeforeSetup
    <3> QED
      BY <2>1, <3>1, Goes DEF SkipFinishSetup, FrameTypeOK
  <2>2. CASE FinishSetup(t, to) /\ (to = "lock" => Early)
    BY <2>2, FinishesSetup
  <2> QED
    BY <2>1, <2>2
<1>2. /\ At(t)' = to /\ At(t) = wpc[t] /\ WorkerOK(t)
      /\ wpc[t] \in {"start", "return", "gb_done"}
  BY <1>1 DEF At, FinishingSetup, ThreadOK
<1>3. PastSetup(t)' = PastSetup(t)
  BY <1>2 DEF PastSetup, BeforeSetup, Idle
<1>4. /\ At(t) \notin Idle /\ Busy(t) /\ At(t)' \notin Idle
      /\ slot[t].got_frame => At(t)' = "finish"
  BY <1>2 DEF WorkerOK, Idle
<1>5. progress_wait' \in [Threads -> SUBSET Nat]
  BY DEF FrameTypeOK
<1>6. /\ wpc[t] # "fs_async" /\ wpc[t] # "setup" /\ At(t)' # "ready"
      /\ wpc'[t] \in {"fs_hw", "fs_async"} => ctx[t].hw
      /\ wpc'[t] \notin {"setup", "decode", "await", "report", "output", "fs_async"}
      /\ wpc'[t] = "fs_set" => ~ctx[t].hw
      /\ wpc'[t] \in FinishingSetup => wloc'[t].cont = to /\ (to = "lock" => Early)
  BY <1>1, <1>2 DEF FinishingSetup
<1> QED
  BY <1>1, <1>3, <1>4, <1>5, <1>6, Still, WorkerMoves

LEMMA WorkerStartStep ==
  ASSUME FrameInv, NEW t \in Threads, WorkerStart(t) \/ GetBufferDone(t) \/ Return(t)
  PROVE  FrameInv'
<1>1. UNCHANGED <<fctx, lock, slot, ctx, progress_wait, mpc, m, h>>
  BY DEF WorkerStart, GetBufferDone, Return
<1>2. CASE WorkerStart(t)
  <2>1. /\ wpc[t] = "start"
        /\ SkipFinishSetup(t, "lock") \/ (FinishSetup(t, "lock") /\ Early)
    BY <1>2 DEF WorkerStart, Early
  <2> QED
    BY <1>1, <2>1, FinishSetupStep
<1>3. CASE GetBufferDone(t)
  <2>1. wpc[t] = "gb_done" /\ (SkipFinishSetup(t, "gb_out") \/ FinishSetup(t, "gb_out"))
    BY <1>3 DEF GetBufferDone
  <2> QED
    BY <1>1, <2>1, FinishSetupStep
<1>4. CASE Return(t)
  <2>1. wpc[t] = "return" /\ (SkipFinishSetup(t, "finish") \/ FinishSetup(t, "finish"))
    BY <1>4 DEF Return
  <2> QED
    BY <1>1, <2>1, FinishSetupStep
<1> QED
  BY <1>2, <1>3, <1>4
---------------------------------------------------------------------------
(***************************************************************************)
(* The worker: waiting, and reporting progress.                            *)
(***************************************************************************)

(* A step within the codec, where a hwaccel is held if the context has one. *)
LEMMA CodecMoves ==
  ASSUME FrameInv, NEW t \in Threads, UNCHANGED <<fctx, lock, slot, ctx, m>>, Quiet,
         NEW to \in {"gb_wait", "gb_done", "await", "report", "output"}, WorkerGoes(t, to),
         wloc' \in [Threads -> LocalsType], \A u \in Threads : u # t => wloc'[u] = wloc[u],
         progress_wait' \in [Threads -> SUBSET Nat],
         wpc[t] \in {"gb_signal", "gb_wait", "decode", "await", "report"},
         to \in {"await", "report"} => wpc[t] \in {"decode", "await"},
         to = "output" => wpc[t] = "report"
  PROVE  FrameInv'
<1> USE DEF FrameInv
<1>1. to \in Places /\ to \notin FinishingSetup /\ wpc[t] \notin FinishingSetup
  BY DEF Places, BeforeSetup, FinishingSetup
<1>2. /\ wpc' \in [Threads -> Places \union FinishingSetup] /\ wpc'[t] = to
      /\ \A u \in Threads : u # t => wpc'[u] = wpc[u]
  BY <1>1, Goes
<1>3. At(t)' = to /\ At(t) = wpc[t] /\ WorkerOK(t) /\ ContextOK(t) /\ HwOK(t)
  BY <1>1, <1>2 DEF At, ThreadOK
<1>4. PastSetup(t) /\ PastSetup(t)' /\ At(t) \notin Idle /\ At(t)' \notin Idle /\ Busy(t)
  BY <1>3 DEF PastSetup, BeforeSetup, Idle, WorkerOK
<1>5. PastSetup(t)' = PastSetup(t)
  BY <1>4 DEF PastSetup
<1>6. ~slot[t].got_frame
  BY <1>3, <1>4 DEF WorkerOK
<1>7. ctx[t].hw /\ to \in {"fs_async", "fs_set", "decode", "await"} => slot[t].hwaccel_serializing
  BY <1>3 DEF HwOK
<1>8. m.setup.hwaccel # "none" /\ ~slot[t].hwaccel_serializing /\ to \in {"report", "output"}
        => ~slot[t].size /\ Alone(t)
  <2>1. ctx[t].hw = (m.setup.hwaccel # "none")
    BY <1>3, <1>4 DEF ContextOK
  <2>2. CASE to = "report"
    BY <1>3, <2>1, <2>2 DEF HwOK
  <2>3. CASE to = "output"
    BY <1>3, <2>3 DEF HwOK
  <2> QED
    BY <2>2, <2>3
<1>9. /\ wpc[t] # "fs_async" /\ wpc[t] # "setup" /\ wpc'[t] # "setup"
      /\ wpc'[t] \notin FinishingSetup /\ wpc'[t] \notin {"fs_hw", "fs_async"} /\ At(t)' # "ready"
  BY <1>1, <1>2, <1>3
<1> QED
  BY <1>2, <1>4, <1>5, <1>6, <1>7, <1>8, <1>9, WorkerMoves

LEMMA AnswerStep ==
  ASSUME FrameInv, NEW t \in Threads, GetBufferSignal(t) \/ GetBufferWake(t)
  PROVE  FrameInv'
<1> USE DEF FrameInv
<1>1. UNCHANGED <<fctx, lock, slot, ctx, mpc, m, h>> /\ wpc[t] \in {"gb_signal", "gb_wait"}
  BY DEF GetBufferSignal, GetBufferWake
<1>2. PICK others \in SUBSET Nat : AwaitAnswer(t, others)
  BY DEF GetBufferSignal, GetBufferWake, AfterSignal, FrameTypeOK
<1>3. t \in Nat /\ Quiet
  BY <1>1, SetupFacts, Still
<1>4. PICK to \in {"gb_wait", "gb_done"} : WorkerGoes(t, to)
  BY <1>2 DEF AwaitAnswer
<1>5. progress_wait' \in [Threads -> SUBSET Nat]
  BY <1>2, <1>3 DEF AwaitAnswer, FrameTypeOK
<1>6. wloc' \in [Threads -> LocalsType] /\ \A u \in Threads : u # t => wloc'[u] = wloc[u]
  <2>1. CASE UNCHANGED wloc
    BY <2>1 DEF FrameTypeOK
  <2>2. CASE wloc' = [wloc EXCEPT ![t].gb_err = slot[t].result < 0]
    <3> DEFINE e == slot[t].result < 0
    <3>1. e \in BOOLEAN
      BY ThreadFields, SlotFields
    <3>2. wloc' = [wloc EXCEPT ![t].gb_err = e]
      BY <2>2
    <3> HIDE DEF e
    <3> QED
      BY <3>1, <3>2 DEF FrameTypeOK, LocalsType
  <2> QED
    BY <1>2, <2>1, <2>2 DEF AwaitAnswer
<1> QED
  BY <1>1, <1>3, <1>4, <1>5, <1>6, CodecMoves

LEMMA ProgressStep ==
  ASSUME FrameInv, NEW t \in Threads, AwaitProgress(t) \/ ReportProgress(t)
  PROVE  FrameInv'
<1> USE DEF FrameInv
<1>1. UNCHANGED <<fctx, lock, slot, ctx, wloc, mpc, m>>
  BY DEF AwaitProgress, ReportProgress
<1>2. wloc' \in [Threads -> LocalsType] /\ \A u \in Threads : u # t => wloc'[u] = wloc[u]
  BY <1>1 DEF FrameTypeOK
<1>3. t \in Nat /\ slot[t].pkt \in Nat
  BY SetupFacts, ThreadFields
<1>4. CASE AwaitProgress(t)
  <2>1. Quiet
    BY <1>1, <1>4, Still DEF AwaitProgress
  <2>2. PICK to \in {"await", "report"} : WorkerGoes(t, to)
    BY <1>4 DEF AwaitProgress
  <2>3. wpc[t] \in {"decode", "await"}
    BY <1>4 DEF AwaitProgress
  <2>4. progress_wait' \in [Threads -> SUBSET Nat]
    BY <1>3, <1>4 DEF AwaitProgress, FrameTypeOK
  <2> QED
    BY <1>1, <1>2, <2>1, <2>2, <2>3, <2>4, CodecMoves
<1>5. CASE ReportProgress(t)
  <2>1. Quiet
    BY <1>1, <1>3, <1>5, Still, Reports DEF ReportProgress
  <2>2. wpc[t] = "report" /\ WorkerGoes(t, "output")
    BY <1>5 DEF ReportProgress
  <2>3. progress_wait' \in [Threads -> SUBSET Nat]
    BY <1>5 DEF ReportProgress, Broadcast, FrameTypeOK
  <2> QED
    BY <1>1, <1>2, <2>1, <2>2, <2>3, CodecMoves
<1> QED
  BY <1>4, <1>5

LEMMA SignalStep ==
  ASSUME FrameInv, NEW t \in Threads, Signal(t)
  PROVE  FrameInv'
<1> USE DEF FrameInv
<1>1. /\ UNCHANGED <<fctx, lock, slot, ctx, progress_wait, wloc, m, h>>
      /\ wpc[t] = "signal" /\ WorkerGoes(t, "top")
  BY DEF Signal
<1>2. Quiet
  <2>1. \/ mpc' = mpc
        \/ mpc \in Collecting /\ mpc' \in Collecting
        \/ mpc \in {"park", "park_wait"} /\ mpc' \in {"park", "park_wait"}
    BY DEF Signal, WakeOutput, Collecting
  <2>2. MainQuiet
    BY <2>1, MainStays DEF FrameTypeOK
  <2> QED
    BY <1>1, <2>2 DEF Quiet, FrameTypeOK
<1>3. "top" \in Places \union FinishingSetup
  BY DEF Places, BeforeSetup, Idle
<1>4. /\ wpc' \in [Threads -> Places \union FinishingSetup] /\ wpc'[t] = "top"
      /\ \A u \in Threads : u # t => wpc'[u] = wpc[u]
  BY <1>1, <1>3, Goes
<1>5. At(t)' = "top" /\ At(t) = "signal" /\ WorkerOK(t)
  BY <1>1, <1>4 DEF At, FinishingSetup, ThreadOK
<1>6. At(t)' \in Idle /\ At(t) \in Idle /\ (slot[t].got_frame => ~Busy(t))
  BY <1>5 DEF WorkerOK, Idle
<1>7. PastSetup(t)' = PastSetup(t)
  BY <1>5 DEF PastSetup, BeforeSetup, Idle
<1>8. wloc' \in [Threads -> LocalsType] /\ progress_wait' \in [Threads -> SUBSET Nat]
  BY <1>1 DEF FrameTypeOK
<1>9. /\ wpc[t] # "fs_async" /\ wpc[t] # "setup" /\ At(t)' # "ready"
      /\ wpc'[t] \notin FinishingSetup /\ wpc'[t] \notin {"fs_hw", "fs_async"}
  BY <1>1, <1>4, <1>5 DEF FinishingSetup
<1> QED
  BY <1>1, <1>2, <1>4, <1>6, <1>7, <1>8, <1>9, WorkerMoves
---------------------------------------------------------------------------
(***************************************************************************)
(* The worker: actions that change what it shares.                         *)
(***************************************************************************)
LEMMA SlotChanges ==
  ASSUME FrameTypeOK, NEW t \in Threads, NEW s \in SlotType, slot' = [slot EXCEPT ![t] = s]
  PROVE  /\ slot' \in [Threads -> SlotType] /\ slot'[t] = s
         /\ \A u \in Threads : u # t => slot'[u] = slot[u]
  BY DEF FrameTypeOK

LEMMA CtxChanges ==
  ASSUME FrameTypeOK, NEW t \in Threads, NEW c \in CtxType, ctx' = [ctx EXCEPT ![t] = c]
  PROVE  /\ ctx' \in [Threads -> CtxType] /\ ctx'[t] = c
         /\ \A u \in Threads : u # t => ctx'[u] = ctx[u]
  BY DEF FrameTypeOK

LEMMA LocalsChange ==
  ASSUME FrameTypeOK, NEW t \in Threads, NEW l \in LocalsType, wloc' = [wloc EXCEPT ![t] = l]
  PROVE  /\ wloc' \in [Threads -> LocalsType] /\ wloc'[t] = l
         /\ \A u \in Threads : u # t => wloc'[u] = wloc[u]
  BY DEF FrameTypeOK

LEMMA Unassigned ==
  ASSUME FrameTypeOK
  PROVE  /\ UNCHANGED slot => slot' \in [Threads -> SlotType]
         /\ UNCHANGED ctx => ctx' \in [Threads -> CtxType]
         /\ UNCHANGED wloc => wloc' \in [Threads -> LocalsType]
         /\ UNCHANGED wpc => wpc' \in [Threads -> Places \union FinishingSetup]
         /\ UNCHANGED progress_wait => progress_wait' \in [Threads -> SUBSET Nat]
         /\ \A t \in Threads : Broadcast(t) => progress_wait' \in [Threads -> SUBSET Nat]
         /\ UNCHANGED h => h' \in HistoryType
         /\ UNCHANGED lock => lock' \in LockType
  BY DEF FrameTypeOK, Broadcast

LEMMA TypesKept ==
  ASSUME FrameTypeOK, UNCHANGED <<fctx, mpc, m>>,
         slot' \in [Threads -> SlotType], ctx' \in [Threads -> CtxType],
         wloc' \in [Threads -> LocalsType], wpc' \in [Threads -> Places \union FinishingSetup],
         progress_wait' \in [Threads -> SUBSET Nat], lock' \in LockType, h' \in HistoryType
  PROVE  FrameTypeOK' /\ MainQuiet /\ Threads' = Threads /\ Early' = Early
<1>1. Threads' = Threads /\ Early' = Early
  BY SetupQuiet
<1>2. MainQuiet
  BY MainStays DEF FrameTypeOK
<1> QED
  BY <1>1, <1>2 DEF FrameTypeOK

LEMMA WorkerHwStep ==
  ASSUME FrameInv, NEW t \in Threads, WorkerHw(t)
  PROVE  FrameInv'
<1> USE DEF FrameInv
<1> DEFINE s == [slot[t] EXCEPT !.hwaccel_serializing = ctx[t].hw, !.frame = NoFrame, !.got_frame = FALSE]
<1>1. UNCHANGED <<fctx, ctx, progress_wait, wloc, mpc, m, h>> /\ WorkerGoes(t, "setup") /\ wpc[t] = "lock_hw"
  BY DEF WorkerHw
<1>2. slot' = [slot EXCEPT ![t] = s]
  BY DEF WorkerHw, FrameTypeOK
<1>3. /\ s \in SlotType /\ s.hwaccel_serializing = ctx[t].hw /\ s.got_frame = FALSE
      /\ s.state = slot[t].state /\ s.pkt = slot[t].pkt /\ s.size = slot[t].size
      /\ s.async_serializing = slot[t].async_serializing
  BY ThreadFields DEF SlotType, NoFrame
<1>4. /\ lock' \in LockType /\ lock'.async = lock.async
      /\ ctx[t].hw => lock'.hwaccel = t /\ lock.hwaccel = None
      /\ ~ctx[t].hw => lock'.hwaccel = lock.hwaccel
  <2>1. t \in Int /\ lock \in LockType
    BY SetupFacts DEF FrameTypeOK
  <2> QED
    BY <2>1 DEF WorkerHw, HwaccelFree, LockType
<1>5. "setup" \in Places \union FinishingSetup
  BY DEF Places, BeforeSetup
<1> HIDE DEF s
<1>0. ctx[t].hw \in BOOLEAN /\ slot[t].got_frame \in BOOLEAN
  BY ThreadFields
<1>6. /\ FrameTypeOK' /\ MainQuiet /\ Threads' = Threads /\ Early' = Early
      /\ slot'[t] = s /\ ctx'[t] = ctx[t] /\ wloc'[t] = wloc[t] /\ wpc'[t] = "setup"
      /\ \A u \in Threads : u # t => /\ slot'[u] = slot[u] /\ ctx'[u] = ctx[u]
                                     /\ wpc'[u] = wpc[u] /\ wloc'[u] = wloc[u]
  <2>1. /\ slot' \in [Threads -> SlotType] /\ slot'[t] = s
        /\ \A u \in Threads : u # t => slot'[u] = slot[u]
    BY <1>2, <1>3, SlotChanges
  <2>2. /\ wpc' \in [Threads -> Places \union FinishingSetup] /\ wpc'[t] = "setup"
        /\ \A u \in Threads : u # t => wpc'[u] = wpc[u]
    BY <1>1, <1>5, Goes
  <2>3. FrameTypeOK' /\ MainQuiet /\ Threads' = Threads /\ Early' = Early
    BY <1>1, <1>4, <2>1, <2>2, Unassigned, TypesKept
  <2> QED
    BY <1>1, <2>1, <2>2, <2>3
<1>7. /\ At(t) = "lock_hw" /\ At(t)' = "setup" /\ WorkerOK(t) /\ ContextOK(t) /\ HwOK(t)
      /\ ~PastSetup(t) /\ ~PastSetup(t)' /\ At(t) \notin Idle /\ At(t)' \notin Idle
  BY <1>1, <1>6 DEF At, FinishingSetup, PastSetup, BeforeSetup, Idle, ThreadOK
<1>8. Busy(t) /\ Busy(t)' /\ ~slot[t].got_frame
  BY <1>3, <1>6, <1>7 DEF WorkerOK, Busy
<1>9. Latest' = Latest /\ (Alone(t) => Alone(t)') /\ m' = m /\ mpc' = mpc
  <2>1. \A u \in Threads : Busy(u)' => Busy(u)
    BY <1>6, <1>8 DEF Busy
  <2> QED
    BY <1>1, <1>6, <2>1, SelfQuiet
<1>10. WorkerOK(t)'
  BY <1>3, <1>6, <1>7, <1>8 DEF WorkerOK, FinishingSetup
<1>11. ContextOK(t)'
  BY <1>3, <1>6, <1>7, <1>8, <1>9 DEF ContextOK
<1>12. HwOK(t)'
  <2>1. ~slot[t].hwaccel_serializing
    BY <1>1, <1>7 DEF HwOK
  <2> QED
    BY <1>0, <1>1, <1>3, <1>4, <1>6, <1>7, <1>8, <1>9, <2>1 DEF HwOK
<1>13. /\ \A u \in Threads : u # t /\ lock.hwaccel = u => lock'.hwaccel = u
       /\ \A u \in Threads : lock.async = u => lock'.async = u
       /\ lock.async = Main => lock'.async = Main
  BY <1>4, SetupFacts
<1> QED
  BY <1>0, <1>1, <1>3, <1>6, <1>8, <1>10, <1>11, <1>12, <1>13, WorkerStep DEF ThreadOK
(* A step of the codec, with the same mutexes held. *)
LEMMA CodecStep ==
  ASSUME FrameInv, FrameTypeOK', NEW t \in Threads, UNCHANGED <<fctx, m>>, Quiet,
         \A u \in Threads : u # t => /\ slot'[u] = slot[u] /\ ctx'[u] = ctx[u]
                                     /\ wpc'[u] = wpc[u] /\ wloc'[u] = wloc[u],
         lock'.hwaccel = lock.hwaccel, lock'.async = lock.async,
         slot'[t].pkt = slot[t].pkt, slot'[t].size = slot[t].size,
         slot'[t].got_frame = slot[t].got_frame,
         slot'[t].hwaccel_serializing = slot[t].hwaccel_serializing,
         slot'[t].async_serializing = slot[t].async_serializing, Busy(t)',
         wpc[t] \in {"setup", "getbuf", "decode", "gb_out", "output"},
         ctx'[t].seen = slot[t].pkt, ctx'[t].hw = (m.setup.hwaccel # "none"),
         PastSetup(t)', At(t)' # "ready",
         wpc'[t] \in FinishingSetup => wloc'[t].cont = "decode",
         wpc'[t] # "fs_async", wpc'[t] = "fs_hw" => ctx'[t].hw,
         ctx'[t].hw => wpc'[t] \notin {"fs_set", "decode", "await"},
         wpc'[t] \in {"report", "output"} => wpc[t] = "setup" /\ ~slot[t].size
  PROVE  FrameInv'
<1> USE DEF FrameInv
<1>1. Threads' = Threads /\ Early' = Early /\ m' = m /\ MainQuiet
  BY SetupQuiet DEF Quiet
<1>2. WorkerOK(t) /\ ContextOK(t) /\ HwOK(t) /\ slot[t].got_frame \in BOOLEAN
  BY ThreadFields DEF ThreadOK
<1>3. At(t) = wpc[t] /\ At(t) \notin Idle /\ wpc[t] # "fs_async"
  BY DEF At, FinishingSetup, Idle
<1>4. Busy(t) /\ ~slot[t].got_frame
  BY <1>2, <1>3 DEF WorkerOK
<1>5. Latest' = Latest /\ (Alone(t) => Alone(t)')
  <2>1. \A u \in Threads : Busy(u)' => Busy(u)
    BY <1>4 DEF Busy
  <2> QED
    BY <1>1, <2>1, SelfQuiet
<1>6. WorkerOK(t)'
  BY <1>4 DEF WorkerOK
<1>7. ContextOK(t)'
  BY <1>1 DEF ContextOK
<1>8. HwOK(t)'
  <2>1. wpc[t] = "setup" => ~PastSetup(t) /\ (slot[t].hwaccel_serializing <=> ctx[t].hw)
    BY <1>2, <1>3 DEF HwOK, PastSetup, BeforeSetup
  <2>2. m.setup.hwaccel # "none" /\ ~slot[t].hwaccel_serializing /\ wpc'[t] \in {"report", "output"}
          => ~slot[t].size /\ Alone(t)
    BY <1>2, <1>4, <2>1 DEF HwOK
  <2> QED
    BY <1>1, <1>2, <1>3, <1>5, <2>2 DEF HwOK
<1> QED
  BY <1>1, <1>4, <1>6, <1>7, <1>8, SetupFacts, WorkerStep DEF ThreadOK, Quiet

LEMMA Fails ==
  ASSUME FrameTypeOK, NEW t \in Threads, CodecFails(t)
  PROVE  /\ slot' \in [Threads -> SlotType] /\ wpc' \in [Threads -> Places \union FinishingSetup]
         /\ \A u \in Threads : u # t => slot'[u] = slot[u] /\ wpc'[u] = wpc[u]
         /\ wpc'[t] = "return" /\ slot'[t].state = slot[t].state
         /\ slot'[t].pkt = slot[t].pkt /\ slot'[t].size = slot[t].size
         /\ slot'[t].got_frame = slot[t].got_frame
         /\ slot'[t].hwaccel_serializing = slot[t].hwaccel_serializing
         /\ slot'[t].async_serializing = slot[t].async_serializing
<1> DEFINE s == [slot[t] EXCEPT !.result = -1]
<1>1. slot' = [slot EXCEPT ![t] = s] /\ WorkerGoes(t, "return")
  BY DEF CodecFails, FrameTypeOK
<1>2. /\ s \in SlotType /\ s.state = slot[t].state /\ s.pkt = slot[t].pkt /\ s.size = slot[t].size
      /\ s.got_frame = slot[t].got_frame /\ s.hwaccel_serializing = slot[t].hwaccel_serializing
      /\ s.async_serializing = slot[t].async_serializing
  BY ThreadFields DEF SlotType
<1>3. "return" \in Places \union FinishingSetup
  BY DEF Places
<1> HIDE DEF s
<1>4. slot' \in [Threads -> SlotType] /\ slot'[t] = s /\ \A u \in Threads : u # t => slot'[u] = slot[u]
  BY <1>1, <1>2, SlotChanges
<1>5. /\ wpc' \in [Threads -> Places \union FinishingSetup] /\ wpc'[t] = "return"
      /\ \A u \in Threads : u # t => wpc'[u] = wpc[u]
  BY <1>1, <1>3, Goes
<1> QED
  BY <1>2, <1>4, <1>5

LEMMA SetupStep ==
  ASSUME FrameInv, NEW t \in Threads, Setup(t)
  PROVE  FrameInv'
<1> USE DEF FrameInv
<1> DEFINE c == [ctx[t] EXCEPT !.seen = slot[t].pkt, !.hw = m.setup.hwaccel # "none"]
           l == [wloc[t] EXCEPT !.ref = ctx[t].frame, !.owner = ctx[t].owner]
<1>1. UNCHANGED <<fctx, lock, progress_wait, mpc, m, h>> /\ wpc[t] = "setup" /\ Quiet
  BY Still DEF Setup
<1>2. ctx' = [ctx EXCEPT ![t] = c] /\ wloc' = [wloc EXCEPT ![t] = l]
  BY DEF Setup, FrameTypeOK
<1>3. c \in CtxType /\ c.seen = slot[t].pkt /\ c.hw = (m.setup.hwaccel # "none")
  BY ThreadFields DEF CtxType
<1>4. l \in LocalsType
  BY ThreadFields DEF CtxType, LocalsType
<1> HIDE DEF c, l
<1>5. /\ ctx' \in [Threads -> CtxType] /\ ctx'[t] = c
      /\ \A u \in Threads : u # t => ctx'[u] = ctx[u]
  BY <1>2, <1>3, CtxChanges
<1>6. /\ wloc' \in [Threads -> LocalsType] /\ \A u \in Threads : u # t => wloc'[u] = wloc[u]
  BY <1>2, <1>4, LocalsChange
<1>7. /\ slot' \in [Threads -> SlotType] /\ wpc' \in [Threads -> Places \union FinishingSetup]
      /\ \A u \in Threads : u # t => slot'[u] = slot[u] /\ wpc'[u] = wpc[u]
      /\ wpc'[t] \in {"getbuf", "report", "return"} /\ (wpc'[t] = "report" => ~slot[t].size)
      /\ slot'[t].state = slot[t].state
      /\ slot'[t].pkt = slot[t].pkt /\ slot'[t].size = slot[t].size
      /\ slot'[t].got_frame = slot[t].got_frame
      /\ slot'[t].hwaccel_serializing = slot[t].hwaccel_serializing
      /\ slot'[t].async_serializing = slot[t].async_serializing
  <2>1. CASE UNCHANGED slot /\ WorkerGoes(t, IF slot[t].size THEN "getbuf" ELSE "report")
    <3>1. PICK to \in {"getbuf", "report"} : WorkerGoes(t, to) /\ (to = "report" => ~slot[t].size)
      BY <2>1
    <3>2. to \in Places \union FinishingSetup
      BY DEF Places
    <3> QED
      BY <2>1, <3>1, <3>2, Goes DEF FrameTypeOK
  <2>2. CASE CodecFails(t)
    BY <2>2, Fails
  <2> QED
    BY <2>1, <2>2 DEF Setup
<1>8. FrameTypeOK'
  BY <1>1, <1>5, <1>6, <1>7, Unassigned, TypesKept
<1>9. /\ wpc'[t] \notin FinishingSetup /\ PastSetup(t)' /\ At(t)' # "ready"
      /\ wpc'[t] \notin {"fs_async", "fs_hw", "fs_set", "decode", "await"}
  BY <1>7 DEF FinishingSetup, At, PastSetup, BeforeSetup, Idle
<1>10. Busy(t) /\ Busy(t)'
  BY <1>1, <1>7 DEF Busy, WorkerOK, ThreadOK, At, FinishingSetup, Idle
<1> QED
  BY <1>1, <1>3, <1>5, <1>6, <1>7, <1>8, <1>9, <1>10, CodecStep
LEMMA GetBufferStep ==
  ASSUME FrameInv, NEW t \in Threads, GetBuffer(t)
  PROVE  FrameInv'
<1> USE DEF FrameInv
<1>1. /\ UNCHANGED <<fctx, ctx, progress_wait, mpc, m, h>> /\ wpc[t] \in {"getbuf", "decode"}
      /\ Quiet
  BY Still DEF GetBuffer, AtGetBuffer
<1>2. lock' \in LockType /\ lock'.hwaccel = lock.hwaccel /\ lock'.async = lock.async
  <2>1. t \in Int /\ lock \in LockType /\ lock' = [lock EXCEPT !.buffer = t]
    BY SetupFacts DEF FrameTypeOK, GetBuffer
  <2> QED
    BY <2>1 DEF LockType
<1>3. /\ slot' \in [Threads -> SlotType] /\ \A u \in Threads : u # t => slot'[u] = slot[u]
      /\ slot'[t].state = slot[t].state \/ slot'[t].state = "GET_BUFFER"
      /\ slot'[t].pkt = slot[t].pkt /\ slot'[t].size = slot[t].size
      /\ slot'[t].got_frame = slot[t].got_frame
      /\ slot'[t].hwaccel_serializing = slot[t].hwaccel_serializing
      /\ slot'[t].async_serializing = slot[t].async_serializing
  <2>1. CASE UNCHANGED slot
    BY <2>1 DEF FrameTypeOK
  <2>2. CASE slot' = [slot EXCEPT ![t].state = "GET_BUFFER"]
    <3> DEFINE s == [slot[t] EXCEPT !.state = "GET_BUFFER"]
    <3>1. slot' = [slot EXCEPT ![t] = s]
      BY <2>2 DEF FrameTypeOK
    <3>2. /\ s \in SlotType /\ s.state = "GET_BUFFER" /\ s.pkt = slot[t].pkt
          /\ s.size = slot[t].size /\ s.got_frame = slot[t].got_frame
          /\ s.hwaccel_serializing = slot[t].hwaccel_serializing
          /\ s.async_serializing = slot[t].async_serializing
      BY ThreadFields DEF SlotType, States
    <3> HIDE DEF s
    <3> QED
      BY <3>1, <3>2, SlotChanges
  <2> QED
    BY <2>1, <2>2 DEF GetBuffer
<1>4. wloc' \in [Threads -> LocalsType] /\ \A u \in Threads : u # t => wloc'[u] = wloc[u]
  <2>1. CASE UNCHANGED wloc
    BY <2>1 DEF FrameTypeOK
  <2>2. CASE \E e \in BOOLEAN : wloc' = [wloc EXCEPT ![t].gb_err = e]
    <3>1. PICK e \in BOOLEAN : wloc' = [wloc EXCEPT ![t].gb_err = e]
      BY <2>2
    <3> QED
      BY <3>1 DEF FrameTypeOK, LocalsType
  <2> QED
    BY <2>1, <2>2 DEF GetBuffer
<1>5. PICK to \in {"gb_signal", "gb_done"} : WorkerGoes(t, to)
  BY DEF GetBuffer
<1>6. to \in Places \union FinishingSetup
  BY DEF Places
<1>7. /\ wpc' \in [Threads -> Places \union FinishingSetup] /\ wpc'[t] = to
      /\ \A u \in Threads : u # t => wpc'[u] = wpc[u]
  BY <1>5, <1>6, Goes
<1>8. FrameTypeOK'
  BY <1>1, <1>2, <1>3, <1>4, <1>7, Unassigned, TypesKept
<1>9. /\ wpc'[t] \notin FinishingSetup /\ PastSetup(t)' /\ At(t)' # "ready"
      /\ wpc'[t] \notin {"fs_async", "fs_hw", "fs_set", "decode", "await", "report", "output"}
      /\ At(t) = wpc[t] /\ PastSetup(t)
  BY <1>1, <1>7 DEF FinishingSetup, At, PastSetup, BeforeSetup, Idle
<1>10. Busy(t)'
  BY <1>1, <1>3, <1>9 DEF Busy, WorkerOK, ThreadOK, Idle
<1>11. ctx'[t] = ctx[t] /\ ctx[t].seen = slot[t].pkt /\ ctx[t].hw = (m.setup.hwaccel # "none")
  BY <1>1, <1>9 DEF ContextOK, ThreadOK
<1> QED
  BY <1>1, <1>2, <1>3, <1>4, <1>7, <1>8, <1>9, <1>10, <1>11, CodecStep

LEMMA RefusedStep ==
  ASSUME FrameInv, NEW t \in Threads, GetBufferRefused(t)
  PROVE  FrameInv'
<1> USE DEF FrameInv
<1>1. /\ UNCHANGED <<fctx, lock, ctx, wloc, mpc, m>> /\ wpc[t] \in {"getbuf", "decode"}
      /\ Broadcast(t) /\ CodecFails(t)
  BY DEF GetBufferRefused, AtGetBuffer
<1>2. slot[t].pkt \in Nat /\ h' = [h EXCEPT !.progress = @ \union {slot[t].pkt}]
  BY ThreadFields DEF GetBufferRefused
<1>3. Quiet
  BY <1>1, <1>2, Reports
<1>4. /\ slot' \in [Threads -> SlotType] /\ wpc' \in [Threads -> Places \union FinishingSetup]
      /\ \A u \in Threads : u # t => slot'[u] = slot[u] /\ wpc'[u] = wpc[u]
      /\ wpc'[t] = "return" /\ slot'[t].state = slot[t].state
      /\ slot'[t].pkt = slot[t].pkt /\ slot'[t].size = slot[t].size
      /\ slot'[t].got_frame = slot[t].got_frame
      /\ slot'[t].hwaccel_serializing = slot[t].hwaccel_serializing
      /\ slot'[t].async_serializing = slot[t].async_serializing
  BY <1>1, Fails
<1>5. FrameTypeOK'
  BY <1>1, <1>3, <1>4, Unassigned, TypesKept DEF Quiet
<1>6. /\ wpc'[t] \notin FinishingSetup /\ PastSetup(t)' /\ At(t)' # "ready"
      /\ wpc'[t] \notin {"fs_async", "fs_hw", "fs_set", "decode", "await", "report", "output"}
      /\ At(t) = wpc[t] /\ PastSetup(t)
  BY <1>1, <1>4 DEF FinishingSetup, At, PastSetup, BeforeSetup, Idle
<1>7. Busy(t)'
  BY <1>1, <1>4, <1>6 DEF Busy, WorkerOK, ThreadOK, Idle
<1>8. ctx'[t] = ctx[t] /\ ctx[t].seen = slot[t].pkt /\ ctx[t].hw = (m.setup.hwaccel # "none")
  BY <1>1, <1>6 DEF ContextOK, ThreadOK
<1> QED
  BY <1>1, <1>3, <1>4, <1>5, <1>6, <1>7, <1>8, CodecStep

LEMMA GetBufferOutStep ==
  ASSUME FrameInv, NEW t \in Threads, GetBufferOut(t)
  PROVE  FrameInv'
<1> USE DEF FrameInv
<1>1. UNCHANGED <<fctx, progress_wait, mpc, m, h>> /\ wpc[t] = "gb_out" /\ Quiet
  BY Still DEF GetBufferOut
<1>2. lock' \in LockType /\ lock'.hwaccel = lock.hwaccel /\ lock'.async = lock.async
  <2>1. None \in Int /\ lock \in LockType /\ lock' = [lock EXCEPT !.buffer = None]
    BY DEF FrameTypeOK, GetBufferOut, None
  <2> QED
    BY <2>1 DEF LockType
<1>3. At(t) = "gb_out" /\ PastSetup(t) /\ At(t) \notin Idle
  BY <1>1 DEF FinishingSetup, At, PastSetup, BeforeSetup, Idle
<1>4. /\ Busy(t) /\ ctx[t].seen = slot[t].pkt /\ ctx[t].hw = (m.setup.hwaccel # "none")
      /\ ctx[t].hw => m.setup.update
  BY <1>3, SetupFacts DEF WorkerOK, ContextOK, ThreadOK
<1>5. CASE CodecFails(t) /\ UNCHANGED <<ctx, wloc>>
  <2>1. /\ slot' \in [Threads -> SlotType] /\ wpc' \in [Threads -> Places \union FinishingSetup]
        /\ \A u \in Threads : u # t => slot'[u] = slot[u] /\ wpc'[u] = wpc[u]
        /\ wpc'[t] = "return" /\ slot'[t].state = slot[t].state
        /\ slot'[t].pkt = slot[t].pkt /\ slot'[t].size = slot[t].size
        /\ slot'[t].got_frame = slot[t].got_frame
        /\ slot'[t].hwaccel_serializing = slot[t].hwaccel_serializing
        /\ slot'[t].async_serializing = slot[t].async_serializing
    BY <1>5, Fails
  <2>2. FrameTypeOK'
    BY <1>1, <1>2, <1>5, <2>1, Unassigned, TypesKept
  <2>3. /\ wpc'[t] \notin FinishingSetup /\ PastSetup(t)' /\ At(t)' # "ready"
        /\ wpc'[t] \notin {"fs_async", "fs_hw", "fs_set", "decode", "await", "report", "output"}
    BY <2>1 DEF FinishingSetup, At, PastSetup, BeforeSetup, Idle
  <2>4. Busy(t)' /\ ctx'[t] = ctx[t] /\ (\A u \in Threads : ctx'[u] = ctx[u] /\ wloc'[u] = wloc[u])
    BY <1>4, <1>5, <2>1 DEF Busy
  <2> QED
    BY <1>1, <1>2, <1>4, <2>1, <2>2, <2>3, <2>4, CodecStep
<1>6. CASE /\ ctx' = [ctx EXCEPT ![t].frame = slot[t].pkt, ![t].owner = t]
           /\ IF m.setup.update THEN FinishSetup(t, "decode") ELSE SkipFinishSetup(t, "decode")
           /\ UNCHANGED slot
  <2> DEFINE c == [ctx[t] EXCEPT !.frame = slot[t].pkt, !.owner = t]
  <2>1. ctx' = [ctx EXCEPT ![t] = c]
    BY <1>6 DEF FrameTypeOK
  <2>2. c \in CtxType /\ c.seen = ctx[t].seen /\ c.hw = ctx[t].hw
    <3>1. t \in Nat /\ slot[t].pkt \in Nat /\ ctx[t] \in CtxType
      BY SetupFacts, ThreadFields
    <3> QED
      BY <3>1 DEF CtxType
  <2> HIDE DEF c
  <2>3. /\ ctx' \in [Threads -> CtxType] /\ ctx'[t] = c
        /\ \A u \in Threads : u # t => ctx'[u] = ctx[u]
    BY <2>1, <2>2, CtxChanges
  <2>4. /\ wpc' \in [Threads -> Places \union FinishingSetup]
        /\ wloc' \in [Threads -> LocalsType]
        /\ \A u \in Threads : u # t => wpc'[u] = wpc[u] /\ wloc'[u] = wloc[u]
        /\ \/ wpc'[t] = "decode" /\ ~ctx[t].hw
           \/ wpc'[t] = (IF ctx[t].hw THEN "fs_hw" ELSE "fs_set") /\ wloc'[t].cont = "decode"
    <3>1. CASE m.setup.update
      BY <1>6, <3>1, FinishesSetup
    <3>2. CASE ~m.setup.update
      <4>1. "decode" \in Places /\ SkipFinishSetup(t, "decode")
        BY <1>6, <3>2 DEF Places
      <4> QED
        BY <1>4, <3>2, <4>1, Goes DEF SkipFinishSetup, FrameTypeOK
    <3> QED
      BY <3>1, <3>2
  <2>5. FrameTypeOK'
    BY <1>1, <1>2, <1>6, <2>3, <2>4, Unassigned, TypesKept
  <2>6. At(t)' = "decode" /\ PastSetup(t)' /\ At(t)' # "ready"
    BY <2>4 DEF FinishingSetup, At, PastSetup, BeforeSetup, Idle
  <2>7. /\ wpc'[t] \in FinishingSetup => wloc'[t].cont = "decode"
        /\ wpc'[t] # "fs_async" /\ wpc'[t] \notin {"report", "output"}
        /\ wpc'[t] = "fs_hw" => ctx[t].hw
        /\ ctx[t].hw => wpc'[t] \notin {"fs_set", "decode", "await"}
    BY <2>4 DEF FinishingSetup
  <2>8. Busy(t)' /\ slot'[t] = slot[t] /\ \A u \in Threads : slot'[u] = slot[u]
    BY <1>4, <1>6 DEF Busy
  <2> QED
    BY <1>1, <1>2, <1>4, <2>2, <2>3, <2>4, <2>5, <2>6, <2>7, <2>8, CodecStep
<1> QED
  BY <1>5, <1>6 DEF GetBufferOut
LEMMA DecodeReturnsStep ==
  ASSUME FrameInv, NEW t \in Threads, DecodeReturns(t)
  PROVE  FrameInv'
<1> USE DEF FrameInv
<1>1. /\ UNCHANGED <<fctx, lock, ctx, progress_wait, wloc, mpc, m>> /\ wpc[t] = "output"
      /\ WorkerGoes(t, "return")
  BY DEF DecodeReturns, CodecFails
<1>2. /\ slot' \in [Threads -> SlotType] /\ \A u \in Threads : u # t => slot'[u] = slot[u]
      /\ slot'[t].state = slot[t].state
      /\ slot'[t].pkt = slot[t].pkt /\ slot'[t].size = slot[t].size
      /\ slot'[t].hwaccel_serializing = slot[t].hwaccel_serializing
      /\ slot'[t].async_serializing = slot[t].async_serializing
      /\ \/ slot'[t].got_frame = slot[t].got_frame /\ UNCHANGED h
         \/ /\ slot'[t].got_frame /\ slot'[t].frame = slot[t].pkt
            /\ h' = [h EXCEPT !.produced = @ \union {slot[t].pkt}]
  <2>1. CASE /\ slot' = [slot EXCEPT ![t].result = 0, ![t].frame = slot[t].pkt, ![t].got_frame = TRUE]
             /\ h' = [h EXCEPT !.produced = @ \union {slot[t].pkt}]
    <3> DEFINE s == [slot[t] EXCEPT !.result = 0, !.frame = slot[t].pkt, !.got_frame = TRUE]
    <3>1. slot' = [slot EXCEPT ![t] = s]
      BY <2>1 DEF FrameTypeOK
    <3>2. /\ s \in SlotType /\ s.state = slot[t].state /\ s.pkt = slot[t].pkt
          /\ s.size = slot[t].size /\ s.got_frame /\ s.frame = slot[t].pkt
          /\ s.hwaccel_serializing = slot[t].hwaccel_serializing
          /\ s.async_serializing = slot[t].async_serializing
      BY ThreadFields DEF SlotType
    <3> HIDE DEF s
    <3>3. slot' \in [Threads -> SlotType] /\ slot'[t] = s /\ \A u \in Threads : u # t => slot'[u] = slot[u]
      BY <3>1, <3>2, SlotChanges
    <3> QED
      BY <2>1, <3>2, <3>3
  <2>2. CASE slot' = [slot EXCEPT ![t].result = 0] /\ UNCHANGED h
    <3> DEFINE s == [slot[t] EXCEPT !.result = 0]
    <3>1. slot' = [slot EXCEPT ![t] = s]
      BY <2>2 DEF FrameTypeOK
    <3>2. /\ s \in SlotType /\ s.state = slot[t].state /\ s.pkt = slot[t].pkt
          /\ s.size = slot[t].size /\ s.got_frame = slot[t].got_frame
          /\ s.hwaccel_serializing = slot[t].hwaccel_serializing
          /\ s.async_serializing = slot[t].async_serializing
      BY ThreadFields DEF SlotType
    <3> HIDE DEF s
    <3>3. slot' \in [Threads -> SlotType] /\ slot'[t] = s /\ \A u \in Threads : u # t => slot'[u] = slot[u]
      BY <3>1, <3>2, SlotChanges
    <3> QED
      BY <2>2, <3>2, <3>3
  <2>3. CASE CodecFails(t) /\ UNCHANGED h
    BY <2>3, Fails
  <2> QED
    BY <2>1, <2>2, <2>3 DEF DecodeReturns
<1>3. "return" \in Places \union FinishingSetup
  BY DEF Places
<1>4. /\ wpc' \in [Threads -> Places \union FinishingSetup] /\ wpc'[t] = "return"
      /\ \A u \in Threads : u # t => wpc'[u] = wpc[u]
  BY <1>1, <1>3, Goes
<1>5. /\ h' \in HistoryType /\ h'.sub = h.sub /\ h'.out = h.out /\ h'.sub_failed = h.sub_failed
      /\ \/ slot'[t].got_frame = slot[t].got_frame /\ h'.produced = h.produced
         \/ slot'[t].got_frame /\ h'.produced = h.produced \union {slot[t].pkt}
  <2>1. h \in HistoryType /\ slot[t].pkt \in Nat
    BY ThreadFields DEF FrameTypeOK
  <2>2. CASE h' = [h EXCEPT !.produced = @ \union {slot[t].pkt}] /\ slot'[t].got_frame
    <3>1. /\ h' \in HistoryType /\ h'.sub = h.sub /\ h'.out = h.out /\ h'.sub_failed = h.sub_failed
          /\ h'.produced = h.produced \union {slot[t].pkt}
      BY <2>1, <2>2 DEF HistoryType
    <3> QED
      BY <2>2, <3>1
  <2> QED
    BY <1>2, <2>1, <2>2
<1>6. FrameTypeOK' /\ MainQuiet /\ Threads' = Threads /\ Early' = Early
  BY <1>1, <1>2, <1>4, <1>5, Unassigned, TypesKept
<1>7. /\ WorkerOK(t) /\ ContextOK(t) /\ HwOK(t)
      /\ At(t) = "output" /\ PastSetup(t) /\ At(t) \notin Idle
      /\ At(t)' = "return" /\ PastSetup(t)' /\ At(t)' \notin Idle
  BY <1>1, <1>4 DEF FinishingSetup, At, PastSetup, BeforeSetup, Idle, ThreadOK
<1>8. Busy(t) /\ Busy(t)' /\ ~slot[t].got_frame /\ slot[t].got_frame \in BOOLEAN
  BY <1>2, <1>7, ThreadFields DEF WorkerOK, Busy
<1>9. WorkerOK(t)'
  BY <1>2, <1>4, <1>7, <1>8 DEF WorkerOK, FinishingSetup
<1>10. ContextOK(t)'
  BY <1>1, <1>2, <1>7 DEF ContextOK
<1>11. HwOK(t)'
  BY <1>1, <1>2, <1>4, <1>7 DEF HwOK
<1>12. \A u \in Threads : u # t => /\ slot'[u] = slot[u] /\ ctx'[u] = ctx[u]
                                   /\ wpc'[u] = wpc[u] /\ wloc'[u] = wloc[u]
  BY <1>1, <1>2, <1>4
<1> QED
  BY <1>1, <1>2, <1>5, <1>6, <1>8, <1>9, <1>10, <1>11, <1>12, WorkerStep DEF ThreadOK

(* The lock of the hwaccel is taken before the setup ends. *)
LEMMA FinishSetupHwStep ==
  ASSUME FrameInv, NEW t \in Threads, FinishSetupHw(t)
  PROVE  FrameInv'
<1> USE DEF FrameInv
<1> DEFINE s == [slot[t] EXCEPT !.hwaccel_serializing = TRUE,
                                !.async_serializing = m.setup.hwaccel = "unsafe"]
<1>1. UNCHANGED <<fctx, ctx, progress_wait, wloc, mpc, m, h>> /\ wpc[t] = "fs_hw"
  BY DEF FinishSetupHw
<1>2. slot' = [slot EXCEPT ![t] = s]
  BY DEF FinishSetupHw, FrameTypeOK
<1>3. /\ s \in SlotType /\ s.hwaccel_serializing = TRUE
      /\ s.async_serializing = (m.setup.hwaccel = "unsafe")
      /\ s.state = slot[t].state /\ s.pkt = slot[t].pkt /\ s.size = slot[t].size
      /\ s.got_frame = slot[t].got_frame /\ s.frame = slot[t].frame
  BY ThreadFields DEF SlotType
<1>4. WorkerOK(t) /\ ContextOK(t) /\ HwOK(t)
  BY DEF ThreadOK
<1>5. /\ lock' \in LockType /\ lock'.async = lock.async /\ lock'.hwaccel = t
      /\ lock.hwaccel \in {None, t}
  <2>1. t \in Int /\ lock \in LockType /\ lock' = [lock EXCEPT !.hwaccel = t]
    BY SetupFacts DEF FrameTypeOK, FinishSetupHw
  <2> QED
    BY <1>4, <2>1 DEF FinishSetupHw, HwaccelFree, LockType, HwOK
<1>6. PICK to \in {"fs_async", "fs_set"} : WorkerGoes(t, to) /\ (to = "fs_set" => m.setup.hwaccel # "unsafe")
  BY DEF FinishSetupHw
<1>7. to \in Places \union FinishingSetup
  BY DEF FinishingSetup
<1> HIDE DEF s
<1>8. slot' \in [Threads -> SlotType] /\ slot'[t] = s /\ \A u \in Threads : u # t => slot'[u] = slot[u]
  BY <1>2, <1>3, SlotChanges
<1>9. /\ wpc' \in [Threads -> Places \union FinishingSetup] /\ wpc'[t] = to
      /\ \A u \in Threads : u # t => wpc'[u] = wpc[u]
  BY <1>6, <1>7, Goes
<1>10. FrameTypeOK' /\ MainQuiet /\ Threads' = Threads /\ Early' = Early
  BY <1>1, <1>5, <1>8, <1>9, Unassigned, TypesKept
<1>11. /\ ctx[t].hw /\ ctx' = ctx /\ m' = m /\ mpc' = mpc /\ wloc'[t] = wloc[t]
       /\ At(t) = wloc[t].cont /\ At(t)' = wloc[t].cont /\ PastSetup(t)' = PastSetup(t)
  BY <1>1, <1>4, <1>9 DEF HwOK, At, FinishingSetup, PastSetup
<1>12. PastSetup(t) /\ wloc[t].cont \in {"gb_out", "decode", "finish"}
  <2>1. wloc[t].cont \in {"lock", "gb_out", "decode", "finish"} /\ (wloc[t].cont = "lock" => Early)
    BY <1>1, <1>4 DEF WorkerOK, FinishingSetup
  <2>2. ~Early
    BY <1>4, <1>11, SetupFacts DEF ContextOK
  <2> QED
    BY <1>11, <2>1, <2>2 DEF PastSetup, BeforeSetup, Idle
<1>13. Busy(t) /\ Busy(t)'
  BY <1>3, <1>4, <1>8, <1>11, <1>12 DEF WorkerOK, Busy, Idle
<1>14. WorkerOK(t)'
  BY <1>1, <1>3, <1>4, <1>8, <1>9, <1>10, <1>11, <1>12, <1>13 DEF WorkerOK, FinishingSetup
<1>15. ContextOK(t)'
  BY <1>3, <1>4, <1>8, <1>11, <1>12 DEF ContextOK
<1>16. HwOK(t)'
  BY <1>3, <1>5, <1>6, <1>8, <1>9, <1>11, <1>12 DEF HwOK
<1>17. /\ \A u \in Threads : u # t /\ lock.hwaccel = u => lock'.hwaccel = u
       /\ \A u \in Threads : lock.async = u => lock'.async = u
       /\ lock.async = Main => lock'.async = Main
  BY <1>5, SetupFacts
<1> QED
  BY <1>1, <1>3, <1>8, <1>9, <1>10, <1>13, <1>14, <1>15, <1>16, <1>17, WorkerStep DEF ThreadOK

LEMMA FinishSetupAsyncStep ==
  ASSUME FrameInv, NEW t \in Threads, FinishSetupAsync(t)
  PROVE  FrameInv'
<1> USE DEF FrameInv
<1>1. /\ UNCHANGED <<fctx, slot, ctx, progress_wait, wloc, mpc, m, h>> /\ wpc[t] = "fs_async"
      /\ WorkerGoes(t, "fs_set") /\ lock.async = None
  BY DEF FinishSetupAsync
<1>2. lock' \in LockType /\ lock'.async = t /\ lock'.hwaccel = lock.hwaccel
  <2>1. t \in Int /\ lock \in LockType /\ lock' = [lock EXCEPT !.async = t]
    BY SetupFacts DEF FrameTypeOK, FinishSetupAsync
  <2> QED
    BY <2>1 DEF LockType
<1>3. "fs_set" \in Places \union FinishingSetup
  BY DEF FinishingSetup
<1>4. /\ wpc' \in [Threads -> Places \union FinishingSetup] /\ wpc'[t] = "fs_set"
      /\ \A u \in Threads : u # t => wpc'[u] = wpc[u]
  BY <1>1, <1>3, Goes
<1>5. FrameTypeOK' /\ MainQuiet /\ Threads' = Threads /\ Early' = Early
  BY <1>1, <1>2, <1>4, Unassigned, TypesKept
<1>6. /\ At(t) = wloc[t].cont /\ At(t)' = wloc[t].cont /\ PastSetup(t)' = PastSetup(t)
      /\ WorkerOK(t) /\ ContextOK(t) /\ HwOK(t) /\ slot' = slot /\ ctx' = ctx /\ m' = m
      /\ mpc' = mpc /\ wloc' = wloc /\ Busy(t)' = Busy(t)
  BY <1>1, <1>4 DEF At, FinishingSetup, PastSetup, ThreadOK, Busy
<1>7. Latest' = Latest /\ (Alone(t) => Alone(t)')
  <2>1. \A u \in Threads : Busy(u)' => Busy(u)
    BY <1>1 DEF Busy
  <2> QED
    BY <1>1, <1>5, <2>1, SelfQuiet
<1>8. WorkerOK(t)'
  BY <1>1, <1>4, <1>5, <1>6 DEF WorkerOK, FinishingSetup
<1>9. ContextOK(t)'
  BY <1>5, <1>6, <1>7 DEF ContextOK
<1>10. HwOK(t)'
  BY <1>1, <1>2, <1>4, <1>6, <1>7 DEF HwOK
<1>11. /\ \A u \in Threads : u # t /\ lock.hwaccel = u => lock'.hwaccel = u
       /\ \A u \in Threads : lock.async # u
       /\ lock.async # Main
  BY <1>1, <1>2, SetupFacts
<1> QED
  BY <1>1, <1>4, <1>5, <1>6, <1>8, <1>9, <1>10, <1>11, WorkerStep DEF ThreadOK
LEMMA FinishSetupSetStep ==
  ASSUME FrameInv, NEW t \in Threads, FinishSetupSet(t)
  PROVE  FrameInv'
<1> USE DEF FrameInv
<1> DEFINE s == [slot[t] EXCEPT !.state = "SETUP_FINISHED"]
           to == wloc[t].cont
<1>1. /\ UNCHANGED <<fctx, lock, ctx, wloc, mpc, m, h>> /\ wpc[t] = "fs_set"
      /\ WorkerGoes(t, to) /\ Broadcast(t)
  BY DEF FinishSetupSet
<1>2. slot' = [slot EXCEPT ![t] = s]
  BY DEF FinishSetupSet, FrameTypeOK
<1>3. /\ s \in SlotType /\ s.state = "SETUP_FINISHED" /\ s.pkt = slot[t].pkt
      /\ s.hwaccel_serializing = slot[t].hwaccel_serializing
      /\ s.async_serializing = slot[t].async_serializing /\ s.size = slot[t].size
      /\ s.got_frame = slot[t].got_frame /\ s.frame = slot[t].frame
  BY ThreadFields DEF SlotType, States
<1>4. WorkerOK(t) /\ ContextOK(t) /\ HwOK(t)
  BY DEF ThreadOK
<1>5. to \in {"lock", "gb_out", "decode", "finish"} /\ (to = "lock" => Early)
  BY <1>1, <1>4 DEF WorkerOK, FinishingSetup
<1>6. to \in Places \union FinishingSetup /\ to \notin FinishingSetup
  BY <1>5 DEF Places, BeforeSetup, FinishingSetup
<1>7. At(t) = to
  BY <1>1 DEF At, FinishingSetup
<1> HIDE DEF s, to
<1>8. slot' \in [Threads -> SlotType] /\ slot'[t] = s /\ \A u \in Threads : u # t => slot'[u] = slot[u]
  BY <1>2, <1>3, SlotChanges
<1>9. /\ wpc' \in [Threads -> Places \union FinishingSetup] /\ wpc'[t] = to
      /\ \A u \in Threads : u # t => wpc'[u] = wpc[u]
  BY <1>1, <1>6, Goes
<1>10. FrameTypeOK' /\ MainQuiet /\ Threads' = Threads /\ Early' = Early
  BY <1>1, <1>8, <1>9, Unassigned, TypesKept
<1>11. /\ At(t)' = to /\ PastSetup(t)' = PastSetup(t)
       /\ ctx' = ctx /\ m' = m /\ mpc' = mpc /\ lock' = lock
  BY <1>1, <1>6, <1>7, <1>9 DEF At, PastSetup
<1>12. Busy(t) /\ Busy(t)' /\ to \notin Idle
  <2>1. to \notin Idle
    BY <1>5 DEF Idle
  <2> QED
    BY <1>3, <1>4, <1>7, <1>8, <2>1 DEF WorkerOK, Busy
<1>13. ~Early => PastSetup(t)
  BY <1>5, <1>7 DEF PastSetup, BeforeSetup, Idle
<1>14. Latest' = Latest /\ (Alone(t) => Alone(t)')
  <2>1. \A u \in Threads : Busy(u)' => Busy(u)
    BY <1>8, <1>12 DEF Busy
  <2> QED
    BY <1>1, <1>10, <2>1, SelfQuiet
<1>15. WorkerOK(t)'
  BY <1>3, <1>4, <1>6, <1>7, <1>8, <1>9, <1>10, <1>11, <1>12, <1>13 DEF WorkerOK
<1>16. ContextOK(t)'
  BY <1>3, <1>4, <1>7, <1>8, <1>10, <1>11, <1>12 DEF ContextOK
<1>17. HwOK(t)'
  BY <1>1, <1>3, <1>4, <1>5, <1>7, <1>8, <1>9, <1>11, <1>12, <1>14 DEF HwOK
<1> QED
  BY <1>1, <1>3, <1>8, <1>9, <1>10, <1>12, <1>15, <1>16, <1>17, WorkerStep DEF ThreadOK

LEMMA FinishStep ==
  ASSUME FrameInv, NEW t \in Threads, Finish(t)
  PROVE  FrameInv'
<1> USE DEF FrameInv
<1> DEFINE s == [slot[t] EXCEPT !.hwaccel_serializing = FALSE, !.async_serializing = FALSE]
<1>1. /\ UNCHANGED <<fctx, ctx, progress_wait, wloc, mpc, m, h>> /\ wpc[t] = "finish"
      /\ WorkerGoes(t, "ready")
  BY DEF Finish
<1>2. slot' = [slot EXCEPT ![t] = s]
  BY DEF Finish, FrameTypeOK
<1>3. /\ s \in SlotType /\ s.state = slot[t].state /\ s.pkt = slot[t].pkt
      /\ s.hwaccel_serializing = FALSE /\ s.async_serializing = FALSE /\ s.size = slot[t].size
      /\ s.got_frame = slot[t].got_frame /\ s.frame = slot[t].frame
  BY ThreadFields DEF SlotType
<1>4. WorkerOK(t) /\ ContextOK(t) /\ HwOK(t)
  BY DEF ThreadOK
<1>5. /\ lock' \in LockType
      /\ lock'.hwaccel = lock.hwaccel \/ lock.hwaccel = t
      /\ lock'.async = lock.async \/ lock.async = t
  <2>1. /\ slot[t].hwaccel_serializing => lock.hwaccel = t
        /\ slot[t].async_serializing => lock.async = t
    BY <1>1, <1>4 DEF HwOK
  <2> DEFINE i == IF slot[t].hwaccel_serializing THEN None ELSE lock.hwaccel
             j == IF slot[t].async_serializing THEN None ELSE lock.async
  <2>2. i \in Int /\ (i = lock.hwaccel \/ lock.hwaccel = t)
    BY <2>1 DEF FrameTypeOK, LockType, None
  <2>3. j \in Int /\ (j = lock.async \/ lock.async = t)
    BY <2>1 DEF FrameTypeOK, LockType, None
  <2>4. lock' = [lock EXCEPT !.hwaccel = i, !.async = j]
    BY DEF Finish
  <2> HIDE DEF i, j
  <2> QED
    BY <2>2, <2>3, <2>4 DEF FrameTypeOK, LockType
<1>6. "ready" \in Places \union FinishingSetup
  BY DEF Places
<1> HIDE DEF s
<1>7. slot' \in [Threads -> SlotType] /\ slot'[t] = s /\ \A u \in Threads : u # t => slot'[u] = slot[u]
  BY <1>2, <1>3, SlotChanges
<1>8. /\ wpc' \in [Threads -> Places \union FinishingSetup] /\ wpc'[t] = "ready"
      /\ \A u \in Threads : u # t => wpc'[u] = wpc[u]
  BY <1>1, <1>6, Goes
<1>9. FrameTypeOK' /\ MainQuiet /\ Threads' = Threads /\ Early' = Early
  BY <1>1, <1>5, <1>7, <1>8, Unassigned, TypesKept
<1>10. /\ At(t) = "finish" /\ At(t)' = "ready" /\ PastSetup(t) /\ PastSetup(t)'
       /\ At(t) \notin Idle /\ At(t)' \notin Idle /\ wpc'[t] \notin FinishingSetup
       /\ ctx' = ctx /\ m' = m /\ mpc' = mpc
  BY <1>1, <1>8 DEF At, PastSetup, BeforeSetup, Idle, FinishingSetup
<1>11. Busy(t) /\ Busy(t)'
  BY <1>3, <1>4, <1>7, <1>10 DEF WorkerOK, Busy
<1>12. WorkerOK(t)'
  BY <1>3, <1>4, <1>7, <1>8, <1>10, <1>11 DEF WorkerOK
<1>13. ContextOK(t)'
  BY <1>3, <1>4, <1>7, <1>10 DEF ContextOK
<1>14. HwOK(t)'
  BY <1>3, <1>4, <1>7, <1>8, <1>10 DEF HwOK
<1>15. /\ \A u \in Threads : u # t => /\ lock.hwaccel = u => lock'.hwaccel = u
                                      /\ lock.async = u => lock'.async = u
       /\ lock.async = Main => lock'.async = Main
  BY <1>5, SetupFacts
<1> QED
  BY <1>1, <1>3, <1>7, <1>8, <1>9, <1>11, <1>12, <1>13, <1>14, <1>15, WorkerStep DEF ThreadOK

LEMMA ReadyStep ==
  ASSUME FrameInv, NEW t \in Threads, Ready(t)
  PROVE  FrameInv'
<1> USE DEF FrameInv
<1> DEFINE s == [slot[t] EXCEPT !.state = "INPUT_READY"]
<1>1. /\ UNCHANGED <<fctx, lock, ctx, progress_wait, mpc, m, h>> /\ wpc[t] = "ready"
      /\ WorkerGoes(t, "signal") /\ wloc' = [wloc EXCEPT ![t] = NoLocals]
  BY DEF Ready
<1>2. slot' = [slot EXCEPT ![t] = s]
  BY DEF Ready, FrameTypeOK
<1>3. /\ s \in SlotType /\ s.state = "INPUT_READY" /\ s.pkt = slot[t].pkt
      /\ s.hwaccel_serializing = slot[t].hwaccel_serializing
      /\ s.async_serializing = slot[t].async_serializing /\ s.size = slot[t].size
      /\ s.got_frame = slot[t].got_frame /\ s.frame = slot[t].frame
  BY ThreadFields DEF SlotType, States
<1>4. WorkerOK(t) /\ ContextOK(t) /\ HwOK(t)
  BY DEF ThreadOK
<1>5. "signal" \in Places \union FinishingSetup /\ NoLocals \in LocalsType
  BY DEF Places, BeforeSetup, Idle, NoLocals, NoFrame, LocalsType
<1> HIDE DEF s
<1>6. slot' \in [Threads -> SlotType] /\ slot'[t] = s /\ \A u \in Threads : u # t => slot'[u] = slot[u]
  BY <1>2, <1>3, SlotChanges
<1>7. /\ wpc' \in [Threads -> Places \union FinishingSetup] /\ wpc'[t] = "signal"
      /\ \A u \in Threads : u # t => wpc'[u] = wpc[u]
  BY <1>1, <1>5, Goes
<1>8. wloc' \in [Threads -> LocalsType] /\ \A u \in Threads : u # t => wloc'[u] = wloc[u]
  BY <1>1, <1>5, LocalsChange
<1>9. FrameTypeOK' /\ MainQuiet /\ Threads' = Threads /\ Early' = Early
  BY <1>1, <1>6, <1>7, <1>8, Unassigned, TypesKept
<1>10. /\ At(t) = "ready" /\ At(t)' = "signal" /\ PastSetup(t) /\ ~PastSetup(t)'
       /\ At(t)' \in Idle /\ At(t) \notin Idle /\ wpc'[t] \notin FinishingSetup
       /\ ctx' = ctx /\ m' = m /\ mpc' = mpc /\ lock' = lock
  BY <1>1, <1>7 DEF At, PastSetup, BeforeSetup, Idle, FinishingSetup
<1>11. Busy(t) /\ ~Busy(t)'
  BY <1>3, <1>4, <1>6, <1>10 DEF WorkerOK, Busy
<1>12. WorkerOK(t)'
  BY <1>3, <1>4, <1>6, <1>7, <1>10, <1>11 DEF WorkerOK
<1>13. ContextOK(t)'
  BY <1>3, <1>4, <1>6, <1>10, <1>11 DEF ContextOK
<1>14. HwOK(t)'
  BY <1>1, <1>3, <1>4, <1>6, <1>7, <1>10, <1>11 DEF HwOK
<1> QED
  BY <1>1, <1>3, <1>6, <1>7, <1>8, <1>9, <1>11, <1>12, <1>13, <1>14, WorkerStep DEF ThreadOK

(* A step that the invariant does not see: a buffer to release, a waiter,  *)
(* an answered request, a thread told to exit.                             *)
LEMMA Touched ==
  ASSUME FrameInv, NEW t \in Threads, UNCHANGED <<fctx, lock, ctx, wloc, m, h>>, MainQuiet,
         slot' \in [Threads -> SlotType], \A u \in Threads : u # t => slot'[u] = slot[u],
         slot'[t].state = slot[t].state \/ (Busy(t) /\ slot'[t].state = "SETTING_UP"),
         slot'[t].pkt = slot[t].pkt, slot'[t].size = slot[t].size,
         slot'[t].got_frame = slot[t].got_frame, slot'[t].frame = slot[t].frame,
         slot'[t].hwaccel_serializing = slot[t].hwaccel_serializing,
         slot'[t].async_serializing = slot[t].async_serializing,
         UNCHANGED wpc \/ WakeInput(t), progress_wait' \in [Threads -> SUBSET Nat]
  PROVE  FrameInv'
<1> USE DEF FrameInv
<1>1. /\ wpc' \in [Threads -> Places \union FinishingSetup]
      /\ \A u \in Threads : u # t => wpc'[u] = wpc[u]
      /\ wpc'[t] = wpc[t] \/ (wpc[t] = "wait_in" /\ wpc'[t] = "lock_in")
  BY DEF FrameTypeOK, WakeInput, Places, BeforeSetup, Idle
<1>2. /\ FrameTypeOK' /\ Threads' = Threads /\ Early' = Early /\ ctx' = ctx /\ m' = m
      /\ lock' = lock /\ wloc' = wloc
  <2>1. Threads' = Threads /\ Early' = Early /\ mpc' \in MainPlaces
    BY SetupQuiet DEF MainQuiet
  <2> QED
    BY <1>1, <2>1 DEF FrameTypeOK
<1>3. /\ PastSetup(t)' = PastSetup(t)
      /\ At(t)' \in Idle <=> At(t) \in Idle
      /\ At(t)' # At(t) => At(t)' \in Idle /\ At(t) \in Idle
  BY <1>1, <1>2 DEF At, PastSetup, FinishingSetup, BeforeSetup, Idle
<1>4. Busy(t)' = Busy(t) /\ WorkerOK(t) /\ ContextOK(t) /\ HwOK(t)
  BY DEF Busy, ThreadOK
<1>5. Latest' = Latest /\ (Alone(t) => Alone(t)')
  <2>1. \A u \in Threads : Busy(u)' => Busy(u)
    BY <1>4 DEF Busy
  <2> QED
    BY <2>1, SelfQuiet
<1>6. mpc' \in Freeing <=> mpc \in Freeing
  BY DEF MainQuiet
<1>7. WorkerOK(t)'
  <2>1. wpc'[t] \in FinishingSetup => wpc[t] \in FinishingSetup
    BY <1>1 DEF FinishingSetup
  <2>2. slot'[t].got_frame => /\ At(t)' \in Idle \union {"return", "finish", "ready"}
                              /\ At(t)' \in Idle => ~Busy(t)'
                              /\ mpc' \notin Freeing => slot'[t].frame = slot'[t].pkt
    BY <1>3, <1>4, <1>6 DEF WorkerOK
  <2> QED
    BY <1>2, <1>3, <1>4, <2>1, <2>2 DEF WorkerOK
<1>8. ContextOK(t)'
  BY <1>2, <1>3, <1>4, <1>5, <1>6 DEF ContextOK
<1>9. HwOK(t)'
  <2>1. At(t)' = "ready" <=> At(t) = "ready"
    BY <1>3 DEF Idle
  <2>2. \A x : x \notin Idle => (wpc'[t] = x <=> wpc[t] = x)
    BY <1>1 DEF Idle
  <2>3. \A x \in {"fs_async", "fs_hw", "fs_set", "decode", "await", "setup", "report", "output"} :
          wpc'[t] = x <=> wpc[t] = x
    BY <2>2 DEF Idle
  <2> QED
    BY <1>2, <1>3, <1>4, <1>5, <2>1, <2>3 DEF HwOK
<1> QED
  BY <1>1, <1>2, <1>4, <1>7, <1>8, <1>9, WorkerStep DEF ThreadOK

LEMMA ReleaseStep ==
  ASSUME FrameInv, NEW t \in Threads, ReleaseBuffer(t)
  PROVE  FrameInv'
<1> USE DEF FrameInv
<1> DEFINE s == [slot[t] EXCEPT !.released = TRUE]
<1>1. UNCHANGED <<fctx, lock, ctx, progress_wait, wpc, wloc, mpc, m, h>>
  BY DEF ReleaseBuffer
<1>2. slot' = [slot EXCEPT ![t] = s]
  BY DEF ReleaseBuffer, FrameTypeOK
<1>3. /\ s \in SlotType /\ s.state = slot[t].state /\ s.pkt = slot[t].pkt
      /\ s.hwaccel_serializing = slot[t].hwaccel_serializing
      /\ s.async_serializing = slot[t].async_serializing /\ s.size = slot[t].size
      /\ s.got_frame = slot[t].got_frame /\ s.frame = slot[t].frame
  BY ThreadFields DEF SlotType
<1> HIDE DEF s
<1>4. slot' \in [Threads -> SlotType] /\ slot'[t] = s /\ \A u \in Threads : u # t => slot'[u] = slot[u]
  BY <1>2, <1>3, SlotChanges
<1>5. MainQuiet /\ progress_wait' \in [Threads -> SUBSET Nat]
  BY <1>1, MainStays DEF FrameTypeOK
<1> QED
  BY <1>1, <1>3, <1>4, <1>5, Touched

LEMMA WorkerSteps ==
  ASSUME FrameInv, NEW t \in Threads, Worker(t) \/ ReleaseBuffer(t)
  PROVE  FrameInv'
  BY WorkerTopStep, WorkerStartStep, WorkerHwStep, SetupStep, GetBufferStep, RefusedStep,
     AnswerStep, GetBufferOutStep, FinishSetupHwStep, FinishSetupAsyncStep, FinishSetupSetStep,
     ProgressStep, DecodeReturnsStep, FinishStep, ReadyStep, SignalStep, ReleaseStep
     DEF Worker
---------------------------------------------------------------------------
(***************************************************************************)
(* The user's thread: waiting and being woken.                             *)
(***************************************************************************)
LEMMA MainThread ==
  ASSUME FrameTypeOK
  PROVE  m.cur \in Threads /\ m.finished \in Threads /\ Main \in Nat /\ mpc \in MainPlaces
  BY SetupFacts DEF FrameTypeOK, Main

LEMMA WaitStep ==
  ASSUME FrameInv, WaitPrev \/ ServiceDone \/ ServiceWait \/ ServiceWake
  PROVE  FrameInv'
<1> USE DEF FrameInv
<1>1. UNCHANGED <<fctx, lock, slot, ctx, wpc, wloc, m, h>>
  BY DEF WaitPrev, ServiceDone, ServiceWait, ServiceWake
<1>2. \/ mpc \in Submitting /\ mpc' \in Submitting
      \/ mpc \in Submitted /\ mpc' \in Submitted
  BY DEF WaitPrev, ServiceDone, ServiceWait, ServiceWake, AtPrev, Submitting, Submitted
<1>3. progress_wait' \in [Threads -> SUBSET Nat]
  BY MainThread DEF WaitPrev, ServiceDone, ServiceWait, ServiceWake, FrameTypeOK
<1>4. MainQuiet
  BY <1>2, MainStays
<1> QED
  BY <1>1, <1>3, <1>4, MainThread, Unassigned, Touched

LEMMA WakeStep ==
  ASSUME FrameInv, SpuriousWakeup
  PROVE  FrameInv'
<1> USE DEF FrameInv
<1>1. UNCHANGED <<fctx, lock, slot, ctx, wloc, m, h>>
  BY DEF SpuriousWakeup
<1>2. CASE \E t \in Threads : \E x \in progress_wait[t] :
             /\ progress_wait' = [progress_wait EXCEPT ![t] = @ \ {x}]
             /\ UNCHANGED <<fctx, lock, slot, ctx, wpc, wloc, mpc, m, h>>
  <2>1. progress_wait' \in [Threads -> SUBSET Nat] /\ UNCHANGED <<wpc, mpc>>
    BY <1>2 DEF FrameTypeOK
  <2>2. MainQuiet
    BY <2>1, MainThread, MainStays
  <2> QED
    BY <1>1, <2>1, <2>2, MainThread, Unassigned, Touched
<1>3. CASE \E t \in Threads :
             /\ wpc[t] = "wait_in"
             /\ WakeInput(t)
             /\ UNCHANGED <<fctx, lock, slot, ctx, progress_wait, wloc, mpc, m, h>>
  <2>1. PICK t \in Threads : WakeInput(t) /\ UNCHANGED <<progress_wait, mpc>>
    BY <1>3
  <2>2. MainQuiet
    BY <2>1, MainThread, MainStays
  <2> QED
    BY <1>1, <2>1, <2>2, Unassigned, Touched
<1>4. CASE /\ mpc \in {"wait_out", "park_wait"}
           /\ mpc' = IF mpc = "wait_out" THEN "collect" ELSE "park"
           /\ UNCHANGED <<fctx, lock, slot, ctx, progress_wait, wpc, wloc, m, h>>
  <2>1. \/ mpc \in Collecting /\ mpc' \in Collecting
        \/ mpc \in {"park", "park_wait"} /\ mpc' \in {"park", "park_wait"}
    BY <1>4 DEF Collecting
  <2>2. MainQuiet
    BY <2>1, MainStays
  <2> QED
    BY <1>1, <1>4, <2>2, MainThread, Unassigned, Touched
<1> QED
  BY <1>2, <1>3, <1>4 DEF SpuriousWakeup

LEMMA ServiceGetBufferStep ==
  ASSUME FrameInv, ServiceGetBuffer
  PROVE  FrameInv'
<1> USE DEF FrameInv
<1>1. /\ UNCHANGED <<fctx, lock, ctx, wpc, wloc, mpc, m, h>>
      /\ slot[m.cur].state = "GET_BUFFER"
  BY DEF ServiceGetBuffer
<1>2. PICK r \in {0, -1} : slot' = [slot EXCEPT ![m.cur].result = r, ![m.cur].state = "SETTING_UP"]
  BY DEF ServiceGetBuffer
<1>3. m.cur \in Threads
  BY MainThread
<1> DEFINE t == m.cur
           s == [slot[t] EXCEPT !.result = r, !.state = "SETTING_UP"]
<1>4. slot' = [slot EXCEPT ![t] = s]
  BY <1>2, <1>3 DEF FrameTypeOK
<1>5. /\ s \in SlotType /\ s.state = "SETTING_UP" /\ s.pkt = slot[t].pkt
      /\ s.hwaccel_serializing = slot[t].hwaccel_serializing
      /\ s.async_serializing = slot[t].async_serializing /\ s.size = slot[t].size
      /\ s.got_frame = slot[t].got_frame /\ s.frame = slot[t].frame
  <2>1. slot[t] \in SlotType
    BY <1>3, ThreadFields
  <2> QED
    BY <2>1 DEF SlotType, States
<1>6. progress_wait' \in [Threads -> SUBSET Nat]
  BY <1>3 DEF ServiceGetBuffer, AfterSignal, FrameTypeOK
<1>7. MainQuiet /\ Busy(t)
  BY <1>1, MainThread, MainStays DEF Busy
<1>8. t \in Threads
  BY <1>3
<1> HIDE DEF s, t
<1>9. slot' \in [Threads -> SlotType] /\ slot'[t] = s /\ \A u \in Threads : u # t => slot'[u] = slot[u]
  BY <1>4, <1>5, <1>8, SlotChanges
<1> QED
  BY <1>1, <1>5, <1>6, <1>7, <1>8, <1>9, Touched

(* A field of the slot of m.cur that the invariant does not mention. *)
LEMMA KillStep ==
  ASSUME FrameInv, Kill \/ (SubmitLock /\ mpc' = "submit_prev")
  PROVE  FrameInv'
<1> USE DEF FrameInv
<1> DEFINE t == m.cur
<1>1. UNCHANGED <<fctx, lock, ctx, progress_wait, wloc, m, h>> /\ (UNCHANGED wpc \/ WakeInput(t))
  BY DEF Kill, SubmitLock
<1>2. \/ mpc \in Freeing /\ mpc' \in Freeing
      \/ mpc \in Submitting /\ mpc' \in Submitting
  BY DEF Kill, SubmitLock, Freeing, Submitting
<1>3. MainQuiet /\ t \in Threads
  BY <1>2, MainStays, MainThread
<1>4. PICK s \in SlotType :
        /\ slot' = [slot EXCEPT ![t] = s]
        /\ s.state = slot[t].state /\ s.pkt = slot[t].pkt
        /\ s.hwaccel_serializing = slot[t].hwaccel_serializing
        /\ s.async_serializing = slot[t].async_serializing /\ s.size = slot[t].size
        /\ s.got_frame = slot[t].got_frame /\ s.frame = slot[t].frame
  <2>1. CASE Kill
    <3> DEFINE s == [slot[t] EXCEPT !.die = TRUE]
    <3>1. slot' = [slot EXCEPT ![t] = s]
      BY <1>3, <2>1 DEF Kill, FrameTypeOK
    <3>2. /\ s \in SlotType /\ s.state = slot[t].state /\ s.pkt = slot[t].pkt
          /\ s.hwaccel_serializing = slot[t].hwaccel_serializing
          /\ s.async_serializing = slot[t].async_serializing /\ s.size = slot[t].size
          /\ s.got_frame = slot[t].got_frame /\ s.frame = slot[t].frame
      BY <1>3, ThreadFields DEF SlotType
    <3> HIDE DEF s
    <3> QED
      BY <3>1, <3>2
  <2>2. CASE SubmitLock /\ mpc' = "submit_prev"
    <3> DEFINE s == [slot[t] EXCEPT !.released = FALSE]
    <3>1. slot' = [slot EXCEPT ![t] = s]
      BY <1>3, <2>2 DEF SubmitLock, FrameTypeOK
    <3>2. /\ s \in SlotType /\ s.state = slot[t].state /\ s.pkt = slot[t].pkt
          /\ s.hwaccel_serializing = slot[t].hwaccel_serializing
          /\ s.async_serializing = slot[t].async_serializing /\ s.size = slot[t].size
          /\ s.got_frame = slot[t].got_frame /\ s.frame = slot[t].frame
      BY <1>3, ThreadFields DEF SlotType
    <3> HIDE DEF s
    <3> QED
      BY <3>1, <3>2
  <2> QED
    BY <2>1, <2>2
<1> HIDE DEF t
<1>5. slot' \in [Threads -> SlotType] /\ slot'[t] = s /\ \A u \in Threads : u # t => slot'[u] = slot[u]
  BY <1>3, <1>4, SlotChanges
<1>6. progress_wait' \in [Threads -> SUBSET Nat]
  BY <1>1, Unassigned
<1> QED
  BY <1>1, <1>3, <1>4, <1>5, <1>6, Touched
---------------------------------------------------------------------------
(***************************************************************************)
(* The user's thread: steps that leave the workers alone.                  *)
(***************************************************************************)
LEMMA ThreadStill ==
  ASSUME FrameInv, NEW t \in Threads, slot'[t] = slot[t], ctx'[t] = ctx[t], wpc'[t] = wpc[t],
         wloc'[t] = wloc[t], m'.setup = m.setup, lock.hwaccel = t => lock'.hwaccel = t,
         lock.async = t => lock'.async = t, Latest' = t => Latest = t,
         mpc \in Freeing => mpc' \in Freeing, Busy(t) /\ Alone(t) => Alone(t)'
  PROVE  ThreadOK(t)' /\ Busy(t)' = Busy(t) /\ Loaded(t)' = Loaded(t)
<1> USE DEF FrameInv
<1>1. Early' = Early
  BY SetupQuiet
<1>2. /\ Busy(t)' = Busy(t) /\ At(t)' = At(t) /\ PastSetup(t)' = PastSetup(t)
      /\ Loaded(t)' = Loaded(t) /\ WorkerOK(t) /\ ContextOK(t) /\ HwOK(t)
  BY DEF Busy, At, PastSetup, Loaded, ThreadOK
<1>3. WorkerOK(t)'
  BY <1>1, <1>2 DEF WorkerOK
<1>4. ContextOK(t)'
  BY <1>1, <1>2 DEF ContextOK
<1>5. wpc[t] \in {"report", "output"} => Busy(t)
  BY <1>2 DEF WorkerOK, At, FinishingSetup, Idle
<1>6. HwOK(t)'
  BY <1>1, <1>2, <1>5 DEF HwOK
<1> QED
  BY <1>2, <1>3, <1>4, <1>6 DEF ThreadOK

LEMMA WorkersStill ==
  ASSUME FrameInv, UNCHANGED <<slot, ctx, wpc, wloc>>, m'.setup = m.setup,
         lock'.hwaccel = lock.hwaccel, \A u \in Threads : lock.async = u => lock'.async = u,
         Latest' = Latest, mpc \in Freeing => mpc' \in Freeing,
         \A t \in Threads : Busy(t) /\ Alone(t) => Alone(t)'
  PROVE  /\ Threads' = Threads /\ ThreadCount' = ThreadCount
         /\ \A t \in Threads : ThreadOK(t)' /\ Busy(t)' = Busy(t) /\ Loaded(t)' = Loaded(t)
<1>1. Threads' = Threads /\ ThreadCount' = ThreadCount
  BY SetupQuiet
<1>2. ASSUME NEW t \in Threads
      PROVE  ThreadOK(t)' /\ Busy(t)' = Busy(t) /\ Loaded(t)' = Loaded(t)
  BY ThreadStill
<1> QED
  BY <1>1, <1>2

(* The ring does not move. *)
LEMMA RingStill ==
  ASSUME ThreadCount' = ThreadCount, fctx'.next_decoding = fctx.next_decoding,
         fctx'.next_finished = fctx.next_finished,
         mpc' \in Submitted <=> mpc \in Submitted
  PROVE  \A t \in Threads : Back(t)' = Back(t) /\ Fwd(t)' = Fwd(t)
  BY DEF NextSlot, Back, Fwd

(* Not alone outside of the part of a call in which a packet is decoded.   *)
LEMMA NotAlone ==
  ASSUME mpc \in {"user", "return", "park", "park_wait"} \union Submitting
  PROVE  \A t \in Threads : ~Alone(t)
  BY DEF Alone, Submitting, Submitted, Collecting

LEMMA DecodeFrameStep ==
  ASSUME FrameInv, NEW sz \in BOOLEAN, DecodeFrame(sz)
  PROVE  FrameInv'
<1> USE DEF FrameInv
<1> DEFINE d == ~sz
<1>1. /\ UNCHANGED <<fctx, slot, ctx, progress_wait, wpc, wloc, h>> /\ mpc = "user"
      /\ mpc' = "submit" /\ ~m.eof /\ (sz => ~m.draining)
  BY DEF DecodeFrame
<1>2. /\ d \in BOOLEAN /\ d = ~sz
      /\ m' = [m EXCEPT !.size = sz, !.draining = d, !.cur = fctx.next_decoding,
                        !.finished = fctx.next_finished, !.got_picture = FALSE]
  BY DEF DecodeFrame
<1>3. mpc \notin InCall \union Freeing /\ mpc' \in InCall /\ mpc' \in Submitting /\ mpc' \in MainPlaces
  BY <1>1 DEF InCall, Freeing, Submitting, Submitted, Collecting, MainPlaces
<1>4. /\ mpc \notin Submitted /\ mpc' \notin Submitted /\ mpc \notin Collecting
      /\ mpc' \notin Collecting /\ mpc' \notin Freeing
      /\ mpc \notin Submitting
  BY <1>1 DEF InCall, Freeing, Submitting, Submitted, Collecting
<1>5. /\ fctx.next_decoding \in Threads /\ fctx.next_finished \in Threads
      /\ fctx.next_decoding \in Nat /\ fctx.next_finished \in Nat
  BY <1>1, <1>4, SetupFacts DEF RingInv
<1> HIDE DEF d
<1>6. /\ m' \in MainType /\ m'.setup = m.setup /\ m'.cur = fctx.next_decoding
      /\ m'.finished = fctx.next_finished /\ m'.size = sz /\ m'.draining = d
      /\ m'.got_picture = FALSE /\ m'.eof = m.eof /\ m'.uctx = m.uctx
  BY <1>2, <1>5 DEF FrameTypeOK, MainType
<1>7. lock' \in LockType /\ lock'.hwaccel = lock.hwaccel
  <2>1. lock \in LockType /\ lock' = [lock EXCEPT !.async = None] /\ None \in Int
    BY DEF DecodeFrame, FrameTypeOK, None
  <2> QED
    BY <2>1 DEF LockType
<1>8. \A u \in Threads : lock.async # u
  BY <1>1, SetupFacts DEF AsyncInv
<1>9. Latest' = Latest
  BY <1>1, <1>4 DEF Latest
<1>10. /\ Threads' = Threads /\ ThreadCount' = ThreadCount
       /\ \A t \in Threads : ThreadOK(t)' /\ Busy(t)' = Busy(t) /\ Loaded(t)' = Loaded(t)
  <2>1. \A t \in Threads : ~Alone(t)
    BY <1>1, NotAlone
  <2> QED
    BY <1>1, <1>3, <1>4, <1>6, <1>7, <1>8, <1>9, <2>1, WorkersStill
<1>11. \A t \in Threads : Back(t)' = Back(t) /\ Fwd(t)' = Fwd(t)
  BY <1>1, <1>4, <1>10, RingStill
<1>12. FrameTypeOK'
  BY <1>1, <1>3, <1>5, <1>6, <1>7, <1>10 DEF FrameTypeOK
<1>13. RingInv'
  <2>1. Back(fctx.next_finished)' = Back(fctx.next_finished)
    BY <1>1, <1>4, <1>10 DEF Back, NextSlot
  <2>2. ASSUME NEW t \in Threads, Loaded(t)'
        PROVE  /\ Back(t)' <= Back(fctx.next_finished)'
               /\ slot'[t].pkt = h'.sub - Back(t)'
               /\ fctx'.next_finished # fctx'.next_decoding
    <3>1. Loaded(t) /\ mpc \notin Submitted \union Collecting \union {"delay"}
      BY <1>1, <1>4, <1>10, <2>2
    <3> QED
      BY <1>1, <1>11, <2>1, <3>1 DEF RingInv
  <2> QED
    BY <1>1, <1>4, <1>5, <1>6, <1>10, <2>2, SetupFacts DEF RingInv
<1>14. DelayInv'
  <2>1. fctx'.delaying => fctx'.next_decoding <= ThreadCount' - 2
    BY <1>1, <1>10 DEF DelayInv
  <2>2. fctx'.delaying /\ ~m'.draining => fctx'.next_finished = 0
    BY <1>1, <1>2, <1>6 DEF DelayInv
  <2>3. m'.draining = ~m'.size /\ ~m'.eof
    BY <1>1, <1>2, <1>6
  <2> QED
    BY <1>1, <1>4, <2>1, <2>2, <2>3 DEF DelayInv
<1>15. LatestInv'
  BY <1>1, <1>9, <1>10 DEF LatestInv
<1>16. ParkInv'
  BY <1>1, <1>4 DEF ParkInv
<1>17. OutInv'
  <2>1. Outs' = Outs
    BY <1>1 DEF Outs
  <2> QED
    BY <1>1, <1>6, <1>10, <2>1 DEF OutInv
<1>18. AsyncInv'
  BY <1>1, <1>4 DEF AsyncInv
<1> QED
  BY <1>10, <1>12, <1>13, <1>14, <1>15, <1>16, <1>17, <1>18
(* Only the user's thread and its mutex change. *)
LEMMA StillStep ==
  ASSUME FrameInv, UNCHANGED <<slot, ctx, progress_wait, wpc, wloc, h>>,
         fctx' \in FctxType, fctx'.prev_thread = fctx.prev_thread,
         fctx'.next_decoding = fctx.next_decoding, fctx'.next_finished = fctx.next_finished,
         lock' \in LockType, lock'.hwaccel = lock.hwaccel,
         \A u \in Threads : lock.async = u => lock'.async = u,
         m' \in MainType, m'.setup = m.setup, m'.cur \in Threads, m'.finished \in Threads,
         mpc' \in MainPlaces, mpc \notin Submitted, mpc' \notin Submitted \union Submitting,
         mpc \in Freeing => mpc' \in Freeing,
         \A t \in Threads : Busy(t) /\ Alone(t) => Alone(t)',
         mpc \in Collecting \union {"delay"} => \/ mpc' \in Collecting \union {"delay"}
                                              \/ /\ fctx.next_decoding \in Threads
                                                 /\ fctx.next_decoding # fctx.next_finished,
         mpc' \in Collecting => \/ mpc \in Collecting /\ m'.finished = m.finished
                               \/ m'.finished = fctx.next_finished,
         mpc' = "delay" => m'.finished = fctx.next_finished,
         DelayInv', ParkInv', AsyncInv', m'.got_picture => m.got_picture /\ m'.uctx = m.uctx,
         ~h.sub_failed /\ (m'.eof \/ (mpc' = "return" /\ m'.draining /\ ~m'.got_picture)) =>
           \A t \in Threads : ~Loaded(t)
  PROVE  FrameInv'
<1> USE DEF FrameInv
<1>1. Latest' = Latest
  BY DEF Latest
<1>2. /\ Threads' = Threads /\ ThreadCount' = ThreadCount
      /\ \A t \in Threads : ThreadOK(t)' /\ Busy(t)' = Busy(t) /\ Loaded(t)' = Loaded(t)
  BY <1>1, WorkersStill
<1>3. /\ \A t \in Threads : Back(t)' = Back(t) /\ Fwd(t)' = Fwd(t)
      /\ Back(fctx.next_finished)' = Back(fctx.next_finished)
  BY <1>1, <1>2, RingStill DEF RingInv, Back, NextSlot
<1>4. FrameTypeOK'
  BY <1>2 DEF FrameTypeOK
<1>5. RingInv'
  <2>1. ASSUME NEW t \in Threads, Loaded(t)'
        PROVE  /\ Back(t)' <= Back(fctx.next_finished)'
               /\ slot'[t].pkt = h'.sub - Back(t)'
               /\ mpc' \notin Submitted \union Collecting \union {"delay"} =>
                    fctx'.next_finished # fctx'.next_decoding
               /\ mpc' \in Collecting => Fwd(t)' >= Fwd(m.finished)'
    <3>1. Loaded(t)
      BY <1>2, <2>1
    <3>2. mpc' \in Collecting => Fwd(t)' >= Fwd(m.finished)'
      <4>1. CASE mpc \in Collecting /\ m'.finished = m.finished
        <5>1. Fwd(m.finished)' = Fwd(m.finished)
          BY <1>2, <4>1 DEF Fwd
        <5> QED
          BY <1>3, <3>1, <4>1, <5>1 DEF RingInv
      <4>2. CASE m'.finished = fctx.next_finished
        <5>1. Fwd(m.finished)' = 0 /\ Fwd(t) \in Nat
          <6>1. fctx.next_finished \in Nat
            BY FctxFields DEF FrameTypeOK
          <6> QED
            BY <1>2, <4>2, <6>1, BackFacts DEF Fwd
        <5> QED
          BY <1>3, <5>1
      <4> QED
        BY <4>1, <4>2
    <3> QED
      BY <1>1, <1>3, <3>1, <3>2 DEF RingInv
  <2> QED
    BY <1>1, <1>2, <2>1 DEF RingInv
<1>6. LatestInv'
  BY <1>1, <1>2 DEF LatestInv
<1>7. OutInv'
  <2>1. Outs' = Outs
    BY DEF Outs
  <2> QED
    BY <1>2, <2>1 DEF OutInv
<1> QED
  BY <1>2, <1>4, <1>5, <1>6, <1>7

LEMMA FctxStill ==
  ASSUME FrameTypeOK, UNCHANGED fctx
  PROVE  /\ fctx' \in FctxType /\ fctx'.prev_thread = fctx.prev_thread
         /\ fctx'.next_decoding = fctx.next_decoding /\ fctx'.next_finished = fctx.next_finished
  BY DEF FrameTypeOK

LEMMA LockAsync ==
  ASSUME FrameTypeOK, NEW x \in {None, Main}, lock' = [lock EXCEPT !.async = x]
  PROVE  lock' \in LockType /\ lock'.hwaccel = lock.hwaccel /\ lock'.async = x
<1>1. x \in Int /\ lock \in LockType
  BY MainThread DEF None, FrameTypeOK
<1> QED
  BY <1>1 DEF LockType

LEMMA DecodeFrameReturnStep ==
  ASSUME FrameInv, DecodeFrameReturn
  PROVE  FrameInv'
<1> USE DEF FrameInv
<1> DEFINE e == m.draining /\ ~m.got_picture
<1>1. /\ UNCHANGED <<fctx, slot, ctx, progress_wait, wpc, wloc, h>> /\ mpc = "return"
      /\ mpc' = "user" /\ lock.async = None /\ lock' = [lock EXCEPT !.async = Main]
  BY DEF DecodeFrameReturn
<1>2. m' = [m EXCEPT !.eof = e] /\ e \in BOOLEAN
  BY DEF DecodeFrameReturn
<1>3. e <=> m.draining /\ ~m.got_picture
  OBVIOUS
<1> HIDE DEF e
<1>4. /\ m' \in MainType /\ m'.setup = m.setup /\ m'.cur = m.cur /\ m'.finished = m.finished
      /\ m'.eof = e /\ m'.got_picture = m.got_picture /\ m'.uctx = m.uctx
      /\ m'.draining = m.draining
  BY <1>2 DEF FrameTypeOK, MainType
<1>5. lock' \in LockType /\ lock'.hwaccel = lock.hwaccel /\ lock'.async = Main
  BY <1>1, LockAsync
<1>6. /\ mpc \notin Submitted /\ mpc' \notin Submitted \union Submitting /\ mpc' \in MainPlaces
      /\ mpc \notin Freeing /\ mpc \notin Collecting \union {"delay"} /\ mpc' \notin Collecting
      /\ mpc' \notin Freeing /\ mpc' \notin InCall
  BY <1>1 DEF Submitted, Submitting, Freeing, Collecting, InCall, MainPlaces
<1>7. \A t \in Threads : ~Alone(t) /\ lock.async # t
  BY <1>1, NotAlone, SetupFacts
<1>8. DelayInv'
  <2>1. ThreadCount' = ThreadCount
    BY <1>4, SetupQuiet
  <2> QED
    BY <1>1, <1>4, <1>6, <2>1 DEF DelayInv
<1>9. ParkInv' /\ AsyncInv'
  <2>1. Main' = Main
    BY DEF Main
  <2> QED
    BY <1>1, <1>5, <1>6, <2>1 DEF ParkInv, AsyncInv
<1>10. ~h.sub_failed /\ m'.eof => \A t \in Threads : ~Loaded(t)
  BY <1>1, <1>3, <1>4 DEF OutInv
<1> QED
  BY <1>1, <1>4, <1>5, <1>6, <1>7, <1>8, <1>9, <1>10, MainThread, FctxStill, StillStep

LEMMA ParkBeginStep ==
  ASSUME FrameInv, NEW freeing \in BOOLEAN, ParkBegin(freeing)
  PROVE  FrameInv'
<1> USE DEF FrameInv
<1>1. /\ UNCHANGED <<fctx, slot, ctx, progress_wait, wpc, wloc, h>> /\ mpc = "user"
      /\ mpc' = "park" /\ lock' = [lock EXCEPT !.async = None]
      /\ m' = [m EXCEPT !.cur = 0, !.freeing = freeing]
  BY DEF ParkBegin
<1>2. /\ m' \in MainType /\ m'.setup = m.setup /\ m'.cur = 0 /\ m'.finished = m.finished
      /\ m'.eof = m.eof /\ m'.got_picture = m.got_picture /\ m'.uctx = m.uctx
      /\ m'.draining = m.draining
  BY <1>1 DEF FrameTypeOK, MainType
<1>3. lock' \in LockType /\ lock'.hwaccel = lock.hwaccel
  BY <1>1, LockAsync
<1>4. /\ mpc \notin Submitted /\ mpc' \notin Submitted \union Submitting /\ mpc' \in MainPlaces
      /\ mpc \notin Freeing /\ mpc \notin Collecting \union {"delay"} /\ mpc' \notin Collecting
      /\ mpc' \notin Freeing /\ mpc' \notin InCall
  BY <1>1 DEF Submitted, Submitting, Freeing, Collecting, InCall, MainPlaces
<1>5. \A t \in Threads : ~Alone(t) /\ lock.async # t
  BY <1>1, NotAlone, SetupFacts DEF AsyncInv
<1>6. ThreadCount' = ThreadCount /\ Threads' = Threads
  BY <1>2, SetupQuiet
<1>7. DelayInv'
  BY <1>1, <1>2, <1>4, <1>6 DEF DelayInv
<1>8. ParkInv' /\ AsyncInv'
  BY <1>1, <1>2, <1>4, <1>6, SetupFacts DEF ParkInv, AsyncInv
<1>9. ~h.sub_failed /\ m'.eof => \A t \in Threads : ~Loaded(t)
  BY <1>2 DEF OutInv
<1> QED
  BY <1>1, <1>2, <1>3, <1>4, <1>5, <1>7, <1>8, <1>9, MainThread, SetupFacts, FctxStill, StillStep

LEMMA ParkStep ==
  ASSUME FrameInv, Park
  PROVE  FrameInv'
<1> USE DEF FrameInv
<1>1. UNCHANGED <<fctx, lock, slot, ctx, progress_wait, wpc, wloc, h>> /\ mpc = "park"
  BY DEF Park
<1>2. PICK c \in Threads :
        /\ m' = [m EXCEPT !.cur = c]
        /\ \/ mpc' = "park_wait" /\ c = m.cur
           \/ mpc' = "park" /\ c = m.cur + 1 /\ ~Busy(m.cur)
           \/ mpc' \in {"free", "flush"} /\ m.cur = ThreadCount - 1 /\ ~Busy(m.cur)
  <2>1. m.cur \in Threads /\ m.cur \in Nat
    BY MainThread, SetupFacts
  <2>2. CASE slot[m.cur].state # "INPUT_READY"
    <3>1. mpc' = "park_wait" /\ m' = m
      BY <2>2 DEF Park
    <3>2. m' = [m EXCEPT !.cur = m.cur]
      BY <3>1 DEF FrameTypeOK, MainType
    <3> QED
      BY <2>1, <3>1, <3>2
  <2>3. CASE slot[m.cur].state = "INPUT_READY" /\ m.cur < ThreadCount - 1
    <3>1. mpc' = "park" /\ m' = [m EXCEPT !.cur = m.cur + 1]
      BY <1>1, <2>3 DEF Park
    <3>2. m.cur + 1 \in Threads
      BY <2>1, <2>3, SetupFacts
    <3> QED
      BY <2>1, <2>3, <3>1, <3>2 DEF Busy
  <2>4. CASE slot[m.cur].state = "INPUT_READY" /\ ~(m.cur < ThreadCount - 1)
    <3>1. mpc' \in {"free", "flush"} /\ m' = [m EXCEPT !.cur = 0]
      BY <2>4 DEF Park
    <3>2. m.cur = ThreadCount - 1 /\ 0 \in Threads
      BY <2>1, <2>4, SetupFacts
    <3> QED
      BY <2>4, <3>1, <3>2 DEF Busy
  <2> QED
    BY <2>2, <2>3, <2>4
<1>3. c \in Nat /\ m.cur \in Nat
  BY SetupFacts, MainThread
<1>4. /\ m' \in MainType /\ m'.setup = m.setup /\ m'.cur = c /\ m'.finished = m.finished
      /\ m'.eof = m.eof /\ m'.got_picture = m.got_picture /\ m'.uctx = m.uctx
      /\ m'.draining = m.draining
  BY <1>2, <1>3 DEF FrameTypeOK, MainType
<1>5. lock' \in LockType /\ lock' = lock
  BY <1>1 DEF FrameTypeOK
<1>6. /\ mpc \notin Submitted /\ mpc' \notin Submitted \union Submitting /\ mpc' \in MainPlaces
      /\ mpc \notin Freeing /\ mpc \notin Collecting \union {"delay"} /\ mpc' \notin Collecting
      /\ mpc' \notin Freeing /\ mpc' \notin InCall /\ mpc' \notin {"delay", "return", "user"}
  BY <1>1, <1>2 DEF Submitted, Submitting, Freeing, Collecting, InCall, MainPlaces
<1>7. \A t \in Threads : ~Alone(t)
  BY <1>1, NotAlone
<1>8. ThreadCount' = ThreadCount /\ Threads' = Threads /\ \A t \in Threads : Busy(t)' = Busy(t)
  BY <1>1, <1>4, SetupQuiet DEF Busy
<1>9. DelayInv'
  BY <1>1, <1>4, <1>6, <1>8 DEF DelayInv
<1>10. ParkInv'
  <2>1. \A t \in Threads : t < m.cur => ~Busy(t)
    BY <1>1 DEF ParkInv
  <2>2. ASSUME mpc' \in {"park", "park_wait"}, NEW t \in Threads, t < c
        PROVE  ~Busy(t)
    <3>1. t < m.cur \/ (t = m.cur /\ ~Busy(m.cur))
      BY <1>2, <1>3, <2>2, SetupFacts
    <3> QED
      BY <2>1, <3>1
  <2>3. ASSUME mpc' \in {"free", "flush"}, NEW t \in Threads
        PROVE  ~Busy(t)
    <3>1. t < m.cur \/ t = m.cur
      BY <1>2, <1>3, <2>3, SetupFacts
    <3> QED
      BY <1>2, <2>1, <2>3, <3>1
  <2> QED
    BY <1>4, <1>6, <1>8, <2>2, <2>3 DEF ParkInv
<1>11. AsyncInv'
  BY <1>6 DEF AsyncInv
<1>12. ~h.sub_failed /\ m'.eof => \A t \in Threads : ~Loaded(t)
  BY <1>4 DEF OutInv
<1> QED
  BY <1>1, <1>2, <1>4, <1>5, <1>6, <1>7, <1>9, <1>10, <1>11, <1>12, MainThread, FctxStill, StillStep
LEMMA DrainSkipsStep ==
  ASSUME FrameInv, SubmitLock, mpc' # "submit_prev"
  PROVE  FrameInv'
<1> USE DEF FrameInv
<1>1. /\ UNCHANGED <<fctx, lock, slot, ctx, progress_wait, wpc, wloc, m, h>> /\ mpc = "submit"
      /\ mpc' = "delay" /\ ~m.size
  BY DEF SubmitLock
<1>2. /\ mpc \notin Submitted /\ mpc' \notin Submitted \union Submitting /\ mpc' \in MainPlaces
      /\ mpc \notin Freeing /\ mpc \notin Collecting \union {"delay"} /\ mpc' \notin Collecting
      /\ mpc' \notin Freeing /\ mpc \in InCall /\ mpc \in Submitting
  BY <1>1 DEF Submitted, Submitting, Freeing, Collecting, InCall, MainPlaces
<1>3. \A t \in Threads : ~Alone(t)
  BY <1>2, NotAlone
<1>4. ThreadCount' = ThreadCount /\ Threads' = Threads /\ m' = m /\ fctx' = fctx
  BY <1>1, SetupQuiet
<1>5. m.finished = fctx.next_finished /\ fctx.next_decoding \in Nat
  BY <1>2, FctxFields DEF RingInv, FrameTypeOK
<1>6. DelayInv'
  <2>1. fctx.delaying => fctx.next_decoding <= ThreadCount - 1
    BY <1>1, <1>5, SetupFacts DEF DelayInv
  <2> QED
    BY <1>1, <1>2, <1>4, <2>1 DEF DelayInv
<1>7. ParkInv' /\ AsyncInv'
  BY <1>1, <1>2 DEF ParkInv, AsyncInv
<1>8. ~h.sub_failed /\ m.eof => \A t \in Threads : ~Loaded(t)
  BY DEF OutInv
<1>9. lock' \in LockType /\ lock' = lock /\ m' \in MainType /\ m'.cur \in Threads /\ m'.finished \in Threads
  BY <1>1 DEF FrameTypeOK
<1> QED
  BY <1>1, <1>2, <1>3, <1>4, <1>5, <1>6, <1>7, <1>8, <1>9, FctxStill, StillStep

LEMMA CollectWaitStep ==
  ASSUME FrameInv, CollectWait
  PROVE  FrameInv'
<1> USE DEF FrameInv
<1>1. /\ UNCHANGED <<fctx, lock, slot, ctx, progress_wait, wpc, wloc, h>> /\ mpc = "collect"
      /\ mpc' = "wait_out" /\ m' = [m EXCEPT !.cur = m.finished]
  BY DEF CollectWait
<1>2. /\ mpc \notin Submitted /\ mpc' \notin Submitted \union Submitting /\ mpc' \in MainPlaces
      /\ mpc \notin Freeing /\ mpc \in Collecting /\ mpc' \in Collecting
      /\ mpc' \notin Freeing /\ mpc \in InCall
  BY <1>1 DEF Submitted, Submitting, Freeing, Collecting, InCall, MainPlaces
<1>3. /\ m' \in MainType /\ m'.setup = m.setup /\ m'.cur = m.finished /\ m'.finished = m.finished
      /\ m'.eof = m.eof /\ m'.got_picture = m.got_picture /\ m'.uctx = m.uctx
      /\ m'.draining = m.draining /\ m'.size = m.size
  BY <1>1 DEF FrameTypeOK, MainType
<1>4. ThreadCount' = ThreadCount /\ Threads' = Threads /\ fctx' = fctx
  BY <1>1, <1>3, SetupQuiet
<1>5. \A t \in Threads : Alone(t) => Alone(t)'
  <2>1. \A u \in Threads : Busy(u)' = Busy(u)
    BY <1>1 DEF Busy
  <2> QED
    BY <1>2, <1>3, <1>4, <2>1 DEF Alone
<1>6. DelayInv'
  BY <1>1, <1>2, <1>3, <1>4 DEF DelayInv
<1>7. ParkInv' /\ AsyncInv'
  BY <1>1, <1>2 DEF ParkInv, AsyncInv
<1>8. ~h.sub_failed /\ m.eof => \A t \in Threads : ~Loaded(t)
  BY DEF OutInv
<1>9. lock' \in LockType /\ lock' = lock
  BY <1>1 DEF FrameTypeOK
<1> QED
  BY <1>1, <1>2, <1>3, <1>5, <1>6, <1>7, <1>8, <1>9, MainThread, FctxStill, StillStep

LEMMA DelayCheckStep ==
  ASSUME FrameInv, DelayCheck
  PROVE  FrameInv'
<1> USE DEF FrameInv
<1> DEFINE b == fctx.delaying /\ ~PipeFull
<1>1. /\ UNCHANGED <<lock, slot, ctx, progress_wait, wpc, wloc, m, h>> /\ mpc = "delay"
      /\ fctx' = [fctx EXCEPT !.delaying = b]
  BY DEF DelayCheck
<1>2. /\ b \in BOOLEAN
      /\ b => fctx.delaying /\ fctx.next_decoding <= ThreadCount - 2
  <2>1. fctx.next_decoding \in Nat
    BY FctxFields DEF FrameTypeOK
  <2> QED
    BY <2>1, SetupFacts DEF PipeFull
<1>3. /\ fctx.delaying /\ m.size => mpc' = "return"
      /\ ~(fctx.delaying /\ m.size) => mpc' = "collect"
  BY DEF DelayCheck
<1> HIDE DEF b
<1>4. /\ fctx' \in FctxType /\ fctx'.prev_thread = fctx.prev_thread
      /\ fctx'.next_decoding = fctx.next_decoding /\ fctx'.next_finished = fctx.next_finished
      /\ fctx'.delaying = b
  BY <1>1, <1>2 DEF FrameTypeOK, FctxType
<1>5. /\ mpc \notin Submitted /\ mpc' \notin Submitted \union Submitting /\ mpc' \in MainPlaces
      /\ mpc \notin Freeing /\ mpc \in InCall /\ mpc' \notin Freeing
      /\ mpc' \in Collecting <=> mpc' = "collect"
      /\ mpc' \in InCall <=> mpc' = "collect"
  BY <1>1, <1>3 DEF Submitted, Submitting, Freeing, Collecting, InCall, MainPlaces
<1>6. ThreadCount' = ThreadCount /\ Threads' = Threads /\ m' = m
  BY <1>1, SetupQuiet
<1>7. /\ m.draining = ~m.size /\ ~m.eof /\ m.finished = fctx.next_finished
      /\ m.size \in BOOLEAN /\ fctx.next_decoding \in Nat
  BY <1>1, <1>5, MainFields, FctxFields DEF DelayInv, RingInv, FrameTypeOK
<1>8. ASSUME mpc' = "return"
      PROVE  /\ fctx.next_decoding \in Threads /\ fctx.next_decoding # fctx.next_finished
             /\ ~m.draining
  <2>1. fctx.delaying /\ m.size
    BY <1>3, <1>8
  <2>2. /\ fctx.next_finished = 0 /\ fctx.next_decoding >= 1
        /\ fctx.next_decoding <= ThreadCount - 1
    BY <1>1, <1>7, <2>1 DEF DelayInv
  <2>3. ~m.draining
    BY <1>7, <2>1
  <2>4. fctx.next_decoding \in Threads
    BY <1>7, <2>2, SetupFacts
  <2> QED
    BY <2>2, <2>3, <2>4
<1>9. \A t \in Threads : Alone(t) => Alone(t)'
  <2>1. \A u \in Threads : Busy(u)' = Busy(u)
    BY <1>1 DEF Busy
  <2> QED
    BY <1>3, <1>5, <1>6, <2>1 DEF Alone
<1>10. DelayInv'
  <2>1. mpc' # "delay"
    BY <1>3
  <2>2. b => fctx.next_decoding <= ThreadCount - 2
    BY <1>2
  <2>3. b /\ ~m.draining => fctx.next_finished = 0
    BY <1>2 DEF DelayInv
  <2>4. mpc' \in Collecting /\ m.size => ~b /\ fctx.prev_thread # None
    BY <1>1, <1>2, <1>3, <1>5 DEF DelayInv
  <2>5. mpc' \in InCall => m.draining = ~m.size /\ ~m.eof
    BY <1>7
  <2> QED
    BY <1>4, <1>6, <2>1, <2>2, <2>3, <2>4, <2>5 DEF DelayInv
<1>11. ParkInv' /\ AsyncInv'
  <2>1. mpc' \notin {"user", "park", "park_wait", "flush", "free"}
    BY <1>3
  <2> QED
    BY <1>5, <2>1 DEF ParkInv, AsyncInv
<1>12. lock' \in LockType /\ lock' = lock /\ m' \in MainType
  BY <1>1 DEF FrameTypeOK
<1>13. /\ mpc' # "delay"
       /\ mpc' \in Collecting \/ mpc' = "return"
  BY <1>3, <1>5
<1> QED
  BY <1>1, <1>4, <1>5, <1>6, <1>7, <1>8, <1>9, <1>10, <1>11, <1>12, <1>13, MainThread, StillStep

LEMMA AdvanceStep ==
  ASSUME FrameInv, Advance
  PROVE  FrameInv'
<1> USE DEF FrameInv
<1>1. /\ UNCHANGED <<lock, slot, ctx, progress_wait, wpc, wloc, m, h>> /\ mpc = "advance"
      /\ mpc' = "delay"
      /\ fctx' = [fctx EXCEPT !.prev_thread = m.cur, !.next_decoding = fctx.next_decoding + 1]
  BY DEF Advance
<1>2. /\ mpc \in Submitted /\ mpc' \notin Submitted \union Submitting /\ mpc' \in MainPlaces
      /\ mpc \notin Freeing /\ mpc \in InCall /\ mpc' \notin Freeing
      /\ mpc' \notin Collecting /\ mpc \notin Collecting \union {"delay"}
  BY <1>1 DEF Submitted, Submitting, Freeing, Collecting, InCall, MainPlaces
<1>3. /\ fctx.next_decoding \in Nat /\ fctx.next_decoding \in Threads /\ m.cur \in Nat /\ m.cur \in Threads
      /\ m.finished = fctx.next_finished
  BY <1>2, FctxFields, MainThread, SetupFacts DEF FrameTypeOK, RingInv
<1>4. /\ fctx' \in FctxType /\ fctx'.prev_thread = m.cur
      /\ fctx'.next_decoding = fctx.next_decoding + 1 /\ fctx'.next_finished = fctx.next_finished
      /\ fctx'.delaying = fctx.delaying
  <2> DEFINE n == fctx.next_decoding + 1
             c == m.cur
  <2>1. n \in Nat /\ c \in Int /\ fctx' = [fctx EXCEPT !.prev_thread = c, !.next_decoding = n]
    BY <1>1, <1>3
  <2> HIDE DEF n, c
  <2>2. /\ fctx' \in FctxType /\ fctx'.prev_thread = c /\ fctx'.next_decoding = n
        /\ fctx'.next_finished = fctx.next_finished /\ fctx'.delaying = fctx.delaying
    BY <2>1 DEF FrameTypeOK, FctxType
  <2> QED
    BY <2>2 DEF n, c
<1>5. Latest' = Latest /\ Latest = m.cur
  BY <1>1, <1>2, <1>4 DEF Latest
<1>6. \A t \in Threads : Alone(t) => Alone(t)'
  <2>1. Threads' = Threads /\ \A u \in Threads : Busy(u)' = Busy(u)
    BY <1>1, SetupQuiet DEF Busy
  <2> QED
    BY <1>1, <2>1 DEF Alone
<1>7. /\ Threads' = Threads /\ ThreadCount' = ThreadCount
      /\ \A t \in Threads : ThreadOK(t)' /\ Busy(t)' = Busy(t) /\ Loaded(t)' = Loaded(t)
  <2>1. /\ m'.setup = m.setup /\ lock'.hwaccel = lock.hwaccel
        /\ \A u \in Threads : lock.async = u => lock'.async = u
    BY <1>1
  <2> QED
    BY <1>1, <1>2, <1>5, <1>6, <2>1, WorkersStill
<1>8. \A t \in Threads : Back(t)' = Back(t)
  <2>1. NextSlot' = NextSlot
    BY <1>2, <1>4, <1>3 DEF NextSlot
  <2> QED
    BY <1>7, <2>1 DEF Back
<1>9. FrameTypeOK'
  BY <1>1, <1>2, <1>4, <1>7 DEF FrameTypeOK
<1>10. RingInv'
  <2>1. fctx.next_finished \in Threads
    BY DEF RingInv
  <2>2. Back(fctx.next_finished)' = Back(fctx.next_finished)
    <3>1. NextSlot' = NextSlot
      BY <1>2, <1>3, <1>4 DEF NextSlot
    <3> QED
      BY <1>4, <1>7, <3>1 DEF Back
  <2>3. ASSUME NEW t \in Threads, Loaded(t)'
        PROVE  Back(t)' <= Back(fctx.next_finished)' /\ slot'[t].pkt = h'.sub - Back(t)'
    BY <1>1, <1>7, <1>8, <2>2, <2>3 DEF RingInv
  <2> QED
    BY <1>1, <1>2, <1>3, <1>4, <1>7, <2>1, <2>3, SetupFacts DEF RingInv
<1>11. DelayInv'
  <2>1. fctx.delaying => fctx.next_decoding + 1 <= ThreadCount - 1
    BY <1>1, <1>3, SetupFacts DEF DelayInv
  <2>2. m.cur # None /\ fctx.next_decoding + 1 >= 1
    BY <1>3, SetupFacts
  <2> QED
    BY <1>1, <1>2, <1>4, <1>7, <2>1, <2>2 DEF DelayInv, None
<1>12. LatestInv'
  BY <1>1, <1>3, <1>5, <1>7, SetupFacts DEF LatestInv, None
<1>13. ParkInv' /\ AsyncInv'
  BY <1>1, <1>2 DEF ParkInv, AsyncInv
<1>14. OutInv'
  <2>1. Outs' = Outs
    BY <1>1 DEF Outs
  <2> QED
    BY <1>1, <1>7, <2>1 DEF OutInv
<1> QED
  BY <1>7, <1>9, <1>10, <1>11, <1>12, <1>13, <1>14
---------------------------------------------------------------------------
(***************************************************************************)
(* The user's thread: submitting a packet.                                 *)
(***************************************************************************)

(* The thread whose turn it is has nothing to do and nothing to collect:   *)
(* it is ThreadCount - 1 packets behind, and only the thread to be         *)
(* collected next could be.                                                *)
LEMMA NextFree ==
  ASSUME FrameInv, mpc \notin Submitted \union Collecting \union {"delay"}
  PROVE  /\ fctx.next_decoding \in Threads /\ ~Loaded(fctx.next_decoding)
         /\ ~Busy(fctx.next_decoding) /\ ~slot[fctx.next_decoding].got_frame
         /\ At(fctx.next_decoding) \in Idle /\ wpc[fctx.next_decoding] \in Idle
<1> USE DEF FrameInv
<1> DEFINE n == fctx.next_decoding
<1>1. n \in Threads /\ n \in Nat
  BY SetupFacts DEF RingInv
<1>2. Back(n) = ThreadCount - 1
  BY <1>1, SetupFacts DEF Back, NextSlot
<1>3. ~Loaded(n)
  <2>1. SUFFICES ASSUME Loaded(n) PROVE FALSE
    OBVIOUS
  <2>2. Back(n) <= Back(fctx.next_finished) /\ fctx.next_finished # n /\ fctx.next_finished \in Threads
    BY <1>1, <2>1 DEF RingInv
  <2>3. Back(fctx.next_finished) \in 0..(ThreadCount - 1)
    BY <2>2, BackFacts
  <2>4. Back(fctx.next_finished) = Back(n)
    BY <1>2, <2>2, <2>3, SetupFacts
  <2> QED
    BY <1>1, <2>2, <2>4, BackFacts
<1>4. ~Busy(n) /\ ~slot[n].got_frame
  BY <1>3 DEF Loaded
<1>5. At(n) \in Idle
  BY <1>1, <1>4 DEF WorkerOK, ThreadOK
<1>6. wpc[n] \in Idle
  <2>1. wpc[n] \in FinishingSetup => wloc[n].cont \in {"lock", "gb_out", "decode", "finish"}
    BY <1>1 DEF WorkerOK, ThreadOK
  <2>2. wpc[n] \notin FinishingSetup
    BY <1>5, <2>1 DEF At, Idle
  <2> QED
    BY <1>5, <2>2 DEF At
<1> QED
  BY <1>1, <1>3, <1>4, <1>5, <1>6

(* The context of the previous packet after its setup. *)
LEMMA PrevSetUp ==
  ASSUME FrameInv, mpc \in Submitting, ~PrevInSetup, fctx.prev_thread # None
  PROVE  /\ fctx.prev_thread \in Threads /\ Latest = fctx.prev_thread
         /\ ctx[fctx.prev_thread].hw => m.setup.hwaccel # "none"
         /\ ~Early => /\ ctx[fctx.prev_thread].seen = h.sub
                      /\ ctx[fctx.prev_thread].hw = (m.setup.hwaccel # "none")
<1> USE DEF FrameInv
<1> DEFINE p == fctx.prev_thread
<1>1. Latest = p /\ mpc \notin Freeing
  BY DEF Latest, Submitting, Submitted, Freeing
<1>2. p \in Threads /\ slot[p].pkt = h.sub
  BY <1>1 DEF LatestInv
<1>3. WorkerOK(p) /\ ContextOK(p)
  BY <1>2 DEF ThreadOK
<1>4. slot[p].state # "SETTING_UP"
  BY DEF PrevInSetup
<1>5. ~Early => PastSetup(p) \/ (~Busy(p) /\ At(p) \in Idle)
  BY <1>3, <1>4 DEF WorkerOK, Busy
<1> QED
  BY <1>1, <1>2, <1>3, <1>5 DEF ContextOK

LEMMA UpdateFailsStep ==
  ASSUME FrameInv, UpdateFails
  PROVE  FrameInv'
<1> USE DEF FrameInv
<1>1. /\ UNCHANGED <<fctx, lock, slot, progress_wait, wpc, wloc, m>>
      /\ mpc' = "return" /\ h' = [h EXCEPT !.sub_failed = TRUE]
  BY DEF UpdateFails
<1>2. /\ h' \in HistoryType /\ h'.sub = h.sub /\ h'.out = h.out /\ h'.produced = h.produced
      /\ h'.sub_failed
  BY <1>1 DEF FrameTypeOK, HistoryType
<1>3. mpc \in Submitting
  BY DEF UpdateFails, AtPrev, Submitting
<1>4. /\ mpc \notin Submitted /\ mpc' \notin Submitted \union Submitting /\ mpc' \in MainPlaces
      /\ mpc \notin Freeing /\ mpc \notin Collecting \union {"delay"} /\ mpc' \notin Collecting
      /\ mpc' \notin Freeing /\ mpc' \notin InCall
  BY <1>1, <1>3 DEF Submitted, Submitting, Freeing, Collecting, InCall, MainPlaces
<1>5. /\ m.cur \in Threads /\ ~Busy(m.cur) /\ ~slot[m.cur].got_frame
      /\ At(m.cur) \in Idle /\ wpc[m.cur] \in Idle
  BY <1>3, <1>4, NextFree DEF RingInv
<1>6. Latest' = Latest /\ Threads' = Threads /\ ThreadCount' = ThreadCount /\ Early' = Early
      /\ fctx' = fctx /\ m' = m /\ slot' = slot /\ lock' = lock /\ wpc' = wpc /\ wloc' = wloc
  BY <1>1, <1>4, SetupQuiet DEF Latest
<1>7. /\ ctx' \in [Threads -> CtxType]
      /\ \A u \in Threads : u # m.cur => ctx'[u] = ctx[u]
      /\ ctx'[m.cur].seen = ctx[m.cur].seen
      /\ ctx'[m.cur].hw => m.setup.hwaccel # "none"
      /\ m.cur = Latest => ctx'[m.cur].hw = ctx[m.cur].hw
  <2>1. CASE UNCHANGED ctx
    <3>1. ctx[m.cur].hw => m.setup.hwaccel # "none"
      BY <1>5 DEF ContextOK, ThreadOK
    <3> QED
      BY <2>1, <3>1 DEF FrameTypeOK
  <2>2. CASE /\ AtPrev /\ ~PrevInSetup /\ fctx.prev_thread # None
             /\ ctx' = [ctx EXCEPT ![m.cur].hw = ctx[fctx.prev_thread].hw]
    <3> DEFINE c == [ctx[m.cur] EXCEPT !.hw = ctx[fctx.prev_thread].hw]
    <3>1. /\ fctx.prev_thread \in Threads /\ Latest = fctx.prev_thread
          /\ ctx[fctx.prev_thread].hw => m.setup.hwaccel # "none"
      BY <1>3, <2>2, PrevSetUp
    <3>2. ctx' = [ctx EXCEPT ![m.cur] = c]
      BY <1>5, <2>2 DEF FrameTypeOK
    <3>3. ctx[m.cur] \in CtxType /\ ctx[fctx.prev_thread].hw \in BOOLEAN
      BY <1>5, <3>1, ThreadFields
    <3>4. c \in CtxType /\ c.seen = ctx[m.cur].seen /\ c.hw = ctx[fctx.prev_thread].hw
      BY <3>3 DEF CtxType
    <3> HIDE DEF c
    <3>5. /\ ctx' \in [Threads -> CtxType] /\ ctx'[m.cur] = c
          /\ \A u \in Threads : u # m.cur => ctx'[u] = ctx[u]
      BY <1>5, <3>2, <3>4, CtxChanges
    <3> QED
      BY <3>1, <3>4, <3>5
  <2> QED
    BY <2>1, <2>2 DEF UpdateFails
<1>8. \A t \in Threads : ~Alone(t)
  BY <1>3, NotAlone
<1>9. \A t \in Threads : t # m.cur => ThreadOK(t)'
  <2>1. ASSUME NEW t \in Threads, t # m.cur PROVE ThreadOK(t)'
    BY <1>1, <1>4, <1>6, <1>7, <1>8, <2>1, ThreadStill
  <2> QED
    BY <2>1
<1>10. \A t \in Threads : /\ Busy(t)' = Busy(t) /\ Loaded(t)' = Loaded(t) /\ At(t)' = At(t)
                          /\ PastSetup(t)' = PastSetup(t)
  BY <1>6 DEF Busy, Loaded, At, PastSetup
<1>11. ThreadOK(m.cur)'
  <2>1. WorkerOK(m.cur) /\ ContextOK(m.cur) /\ HwOK(m.cur) /\ ~PastSetup(m.cur) /\ m'.cur = m.cur
    BY <1>5, <1>6 DEF ThreadOK, PastSetup, BeforeSetup
  <2>2. WorkerOK(m.cur)'
    BY <1>4, <1>5, <1>6, <1>10, <2>1 DEF WorkerOK
  <2>3. ContextOK(m.cur)'
    BY <1>4, <1>5, <1>6, <1>7, <1>10, <2>1 DEF ContextOK
  <2>4. wpc[m.cur] \notin {"fs_hw", "fs_async", "fs_set", "decode", "await", "setup", "report", "output"}
    BY <1>5 DEF Idle
  <2>5. HwOK(m.cur)'
    BY <1>5, <1>6, <1>7, <1>10, <2>1, <2>4 DEF HwOK
  <2> QED
    BY <2>2, <2>3, <2>5 DEF ThreadOK
<1>12. FrameTypeOK'
  BY <1>1, <1>2, <1>4, <1>6, <1>7 DEF FrameTypeOK
<1>13. RingInv'
  <2>1. /\ \A t \in Threads : Back(t)' = Back(t)
        /\ Back(fctx.next_finished)' = Back(fctx.next_finished)
    BY <1>4, <1>6 DEF Back, NextSlot
  <2>2. ASSUME NEW t \in Threads, Loaded(t)'
        PROVE  /\ Back(t)' <= Back(fctx.next_finished)'
               /\ slot'[t].pkt = h'.sub - Back(t)'
               /\ fctx'.next_finished # fctx'.next_decoding
    BY <1>2, <1>4, <1>6, <1>10, <2>1, <2>2 DEF RingInv
  <2> QED
    BY <1>1, <1>4, <1>6, <2>2 DEF RingInv
<1>14. DelayInv'
  BY <1>1, <1>3, <1>4, <1>6 DEF DelayInv, Submitting
<1>15. LatestInv'
  <2>1. 0 \in Threads /\ ctx'[0].seen = ctx[0].seen
    BY <1>7, SetupFacts
  <2> QED
    BY <1>2, <1>6, <1>10, <2>1 DEF LatestInv
<1>16. ParkInv' /\ AsyncInv'
  BY <1>1, <1>4 DEF ParkInv, AsyncInv
<1>17. OutInv'
  <2>1. Outs' = Outs
    BY <1>2 DEF Outs
  <2> QED
    BY <1>2, <1>6, <1>10, <2>1 DEF OutInv
<1> QED
  BY <1>6, <1>9, <1>11, <1>12, <1>13, <1>14, <1>15, <1>16, <1>17
LEMMA SubmitPacketStep ==
  ASSUME FrameInv, SubmitPacket
  PROVE  FrameInv'
<1> USE DEF FrameInv
<1> DEFINE t == m.cur
           p == fctx.prev_thread
           n == h.sub + 1
           s == [slot[t] EXCEPT !.pkt = n, !.size = m.size, !.state = "SETTING_UP"]
<1>1. UNCHANGED <<fctx, lock, progress_wait, wloc, m>> /\ ~PrevInSetup /\ WakeInput(t)
  BY DEF SubmitPacket
<1>2. mpc \in Submitting /\ mpc' \in Submitted
  BY DEF SubmitPacket, AtPrev, Submitting, Submitted
<1>3. /\ mpc \notin Submitted /\ mpc' \notin Submitting /\ mpc' \in MainPlaces
      /\ mpc \notin Freeing /\ mpc \notin Collecting \union {"delay"}
      /\ mpc' \notin Collecting \union {"delay"} /\ mpc \in InCall /\ mpc' \in InCall
      /\ mpc' \notin Freeing /\ mpc' \notin {"user", "return", "park", "park_wait", "flush", "free"}
  BY <1>2 DEF Submitted, Submitting, Freeing, Collecting, InCall, MainPlaces
<1>4. /\ t \in Threads /\ ~Busy(t) /\ ~slot[t].got_frame /\ ~Loaded(t)
      /\ At(t) \in Idle /\ wpc[t] \in Idle /\ t = fctx.next_decoding /\ m.finished = fctx.next_finished
  BY <1>2, <1>3, NextFree DEF RingInv
<1>5. h.sub \in Nat /\ n \in Nat /\ m.size \in BOOLEAN /\ fctx.next_decoding \in Nat
  BY HistoryFields, MainFields, FctxFields DEF FrameTypeOK
<1>6. /\ h' \in HistoryType /\ h'.sub = n /\ h'.out = h.out /\ h'.produced = h.produced
      /\ h'.sub_failed = h.sub_failed
  <2>1. h' = [h EXCEPT !.sub = n]
    BY DEF SubmitPacket
  <2> HIDE DEF n
  <2> QED
    BY <1>5, <2>1 DEF FrameTypeOK, HistoryType
<1>7. slot' = [slot EXCEPT ![t] = s]
  BY <1>4 DEF SubmitPacket, FrameTypeOK
<1>8. /\ s \in SlotType /\ s.state = "SETTING_UP" /\ s.pkt = n /\ s.size = m.size
      /\ s.got_frame = slot[t].got_frame
      /\ s.hwaccel_serializing = slot[t].hwaccel_serializing
      /\ s.async_serializing = slot[t].async_serializing
  <2> HIDE DEF n
  <2>1. slot[t] \in SlotType /\ n \in Nat /\ m.size \in BOOLEAN
    BY <1>4, <1>5, ThreadFields
  <2> QED
    BY <2>1 DEF SlotType, States
<1> HIDE DEF s
<1>9. slot' \in [Threads -> SlotType] /\ slot'[t] = s /\ \A u \in Threads : u # t => slot'[u] = slot[u]
  BY <1>4, <1>7, <1>8, SlotChanges
<1>10. /\ wpc' \in [Threads -> Places \union FinishingSetup]
       /\ \A u \in Threads : u # t => wpc'[u] = wpc[u]
       /\ wpc'[t] \in Idle
  BY <1>1, <1>4 DEF FrameTypeOK, WakeInput, Places, BeforeSetup, Idle
<1>11. /\ Threads' = Threads /\ ThreadCount' = ThreadCount /\ Early' = Early /\ Latest' = t
       /\ fctx' = fctx /\ m' = m /\ lock' = lock /\ wloc' = wloc
  BY <1>1, <1>2, SetupQuiet DEF Latest
<1>12. /\ ctx' \in [Threads -> CtxType] /\ \A u \in Threads : u # t => ctx'[u] = ctx[u]
       /\ ~Early => ctx'[t].seen = h.sub
       /\ ctx'[t].hw => m.setup.hwaccel # "none"
       /\ m.setup.hwaccel # "none" /\ ~ctx'[t].hw => p = None
  <2>1. CASE p = None
    <3>1. Latest = None
      BY <1>3, <2>1 DEF Latest
    <3>2. t = 0 /\ ctx[0].seen = h.sub
      BY <1>4, <3>1 DEF LatestInv
    <3>3. ctx' = ctx
      BY <2>1 DEF SubmitPacket
    <3>4. ctx[t].hw => m.setup.hwaccel # "none"
      BY <1>4 DEF ContextOK, ThreadOK
    <3> QED
      BY <2>1, <3>2, <3>3, <3>4 DEF FrameTypeOK
  <2>2. CASE p # None
    <3> DEFINE c == UpdateContextFromThread(t, p)
    <3>1. /\ p \in Threads /\ (ctx[p].hw => m.setup.hwaccel # "none")
          /\ ~Early => ctx[p].seen = h.sub /\ ctx[p].hw = (m.setup.hwaccel # "none")
      BY <1>1, <1>2, <2>2, PrevSetUp
    <3>2. ctx' = [ctx EXCEPT ![t] = c]
      BY <2>2 DEF SubmitPacket
    <3>3. c \in CtxType /\ c.seen = ctx[p].seen /\ c.hw = ctx[p].hw
      <4>1. ctx[t] \in CtxType /\ ctx[p] \in CtxType
        BY <1>4, <3>1, ThreadFields
      <4> QED
        BY <4>1 DEF UpdateContextFromThread, CtxType
    <3> HIDE DEF c
    <3>4. ctx' \in [Threads -> CtxType] /\ ctx'[t] = c /\ \A u \in Threads : u # t => ctx'[u] = ctx[u]
      BY <1>4, <3>2, <3>3, CtxChanges
    <3>5. m.setup.hwaccel # "none" => ctx[p].hw
      BY <3>1, SetupFacts
    <3> QED
      BY <3>1, <3>3, <3>4, <3>5
  <2> QED
    BY <2>1, <2>2
<1>13. FrameTypeOK'
  BY <1>1, <1>3, <1>6, <1>9, <1>10, <1>11, <1>12 DEF FrameTypeOK
<1>14. \A u \in Threads : ~Alone(u)
  BY <1>2, NotAlone
<1>15. ASSUME NEW u \in Threads, u # t
       PROVE  ThreadOK(u)' /\ Busy(u)' = Busy(u) /\ Loaded(u)' = Loaded(u)
  BY <1>3, <1>9, <1>10, <1>11, <1>12, <1>14, <1>15, ThreadStill
<1>16. ThreadOK(t)'
  <2>1. WorkerOK(t) /\ HwOK(t) /\ t' = t
    BY <1>4, <1>11 DEF ThreadOK
  <2>2. /\ At(t)' = wpc'[t] /\ ~PastSetup(t)' /\ ~PastSetup(t) /\ At(t)' \in Idle
        /\ At(t)' # "ready" /\ At(t) # "ready" /\ wpc'[t] \notin FinishingSetup
        /\ wpc'[t] \notin {"fs_hw", "fs_async", "fs_set", "decode", "await", "setup", "report", "output"}
        /\ wpc[t] \notin {"setup", "fs_async"}
    BY <1>4, <1>10, <2>1 DEF At, PastSetup, BeforeSetup, Idle, FinishingSetup
  <2>3. Busy(t)'
    BY <1>8, <1>9, <2>1 DEF Busy
  <2>4. WorkerOK(t)'
    BY <1>4, <1>8, <1>9, <2>1, <2>2, <2>3 DEF WorkerOK
  <2>5. ContextOK(t)'
    <3>1. ~Early' => ctx'[t].seen = slot'[t].pkt - 1
      BY <1>5, <1>8, <1>9, <1>11, <1>12
    <3> QED
      BY <1>11, <1>12, <2>1, <2>2, <2>3, <3>1 DEF ContextOK
  <2>6. m.setup.hwaccel # "none" /\ ~ctx'[t].hw /\ ~slot'[t].size => Alone(t)'
    <3>1. SUFFICES ASSUME m.setup.hwaccel # "none", ~ctx'[t].hw, ~slot'[t].size PROVE Alone(t)'
      OBVIOUS
    <3>2. Latest = None
      BY <1>3, <1>12, <3>1 DEF Latest
    <3>3. \A u \in Threads : u # t => ~Busy(u)
      BY <3>2 DEF LatestInv, Loaded
    <3>4. t = m.finished
      BY <1>4, <3>2 DEF LatestInv
    <3> QED
      BY <1>2, <1>8, <1>9, <1>11, <1>15, <2>1, <3>1, <3>3, <3>4 DEF Alone
  <2>7. HwOK(t)'
    BY <1>8, <1>9, <1>11, <1>12, <2>1, <2>2, <2>3, <2>6 DEF HwOK
  <2> QED
    BY <2>4, <2>5, <2>7 DEF ThreadOK
<1>17. RingInv'
  <2>1. \A u \in Threads : Back(u)' = IF u = t THEN 0 ELSE Back(u) + 1
    <3>1. NextSlot = t /\ NextSlot' = t + 1 /\ t \in Nat
      BY <1>2, <1>3, <1>4, <1>5, <1>11 DEF NextSlot
    <3>2. ThreadCount \in Nat /\ \A u \in Threads : u \in Nat
      BY SetupFacts
    <3> HIDE DEF t
    <3>3. ASSUME NEW u \in Threads PROVE Back(u)' = IF u = t THEN 0 ELSE Back(u) + 1
      <4>1. u \in Nat
        BY <3>2
      <4> QED
        BY <1>11, <3>1, <3>2, <4>1 DEF Back
    <3> QED
      BY <3>3
  <2>2. fctx.next_finished \in Threads
    BY DEF RingInv
  <2>3. \A u \in Threads : Back(u)' \in 0..ThreadCount /\ Back(u) \in 0..ThreadCount
    <3>1. \A u \in Threads : Back(u) \in 0..(ThreadCount - 1)
      BY BackFacts
    <3>2. ThreadCount \in Nat /\ ThreadCount >= 2
      BY SetupFacts
    <3> QED
      BY <2>1, <3>1, <3>2
  <2>4. Back(fctx.next_finished)' >= 0
    BY <1>11, <2>2, <2>3, SetupFacts
  <2>5. ASSUME NEW u \in Threads, Loaded(u)'
        PROVE  Back(u)' <= Back(fctx.next_finished)' /\ slot'[u].pkt = h'.sub - Back(u)'
    <3>1. CASE u = t
      <4>1. Back(u)' = 0 /\ slot'[u].pkt = n
        BY <1>8, <1>9, <2>1, <3>1
      <4> QED
        BY <1>5, <1>6, <2>4, <4>1
    <3>2. CASE u # t
      <4>1. Loaded(u)
        BY <1>15, <2>5, <3>2
      <4>2. Back(u) <= Back(fctx.next_finished) /\ slot[u].pkt = h.sub - Back(u) /\ fctx.next_finished # t
        BY <1>3, <1>4, <4>1 DEF RingInv
      <4>3. Back(fctx.next_finished)' = Back(fctx.next_finished) + 1
        BY <1>11, <2>1, <2>2, <4>2
      <4>4. Back(u)' = Back(u) + 1 /\ slot'[u] = slot[u]
        BY <1>9, <2>1, <3>2
      <4> QED
        <5>1. Back(u) \in Int /\ Back(fctx.next_finished) \in Int
          BY <2>2, <2>3
        <5>2. h'.sub = h.sub + 1
          BY <1>6
        <5> QED
          BY <1>5, <4>2, <4>3, <4>4, <5>1, <5>2
    <3> QED
      BY <3>1, <3>2
  <2> QED
    BY <1>2, <1>3, <1>4, <1>11, <2>2, <2>5, SetupFacts DEF RingInv
<1>18. DelayInv'
  BY <1>3, <1>11 DEF DelayInv
<1>19. LatestInv'
  BY <1>4, <1>6, <1>8, <1>9, <1>11, SetupFacts DEF LatestInv
<1>20. ParkInv' /\ AsyncInv'
  BY <1>3 DEF ParkInv, AsyncInv
<1>21. OutInv'
  <2>1. Outs' = Outs /\ m.eof = m'.eof /\ ~m.eof
    BY <1>3, <1>6, <1>11 DEF Outs, DelayInv
  <2>2. {u \in Threads : slot'[u].got_frame} = {u \in Threads : slot[u].got_frame}
    BY <1>4, <1>8, <1>9
  <2>3. {slot'[u].pkt : u \in {v \in Threads : slot'[v].got_frame}}
          = {slot[u].pkt : u \in {v \in Threads : slot[v].got_frame}}
    BY <1>4, <1>9, <2>2
  <2>4. \A i \in DOMAIN h.out : h.out[i] \in Nat
    BY HistoryFields DEF FrameTypeOK
  <2>5. ASSUME NEW i \in DOMAIN h.out
        PROVE  h.out[i] <= n /\ \A u \in Threads : Loaded(u)' => h.out[i] < slot'[u].pkt
    <3>1. h.out[i] <= h.sub /\ \A u \in Threads : Loaded(u) => h.out[i] < slot[u].pkt
      BY DEF OutInv
    <3>2. h.out[i] < n
      BY <1>5, <2>4, <3>1
    <3> QED
      BY <1>5, <1>8, <1>9, <1>15, <2>4, <3>1, <3>2
  <2> QED
    BY <1>3, <1>6, <1>11, <2>1, <2>3, <2>5 DEF OutInv
<1> QED
  BY <1>11, <1>13, <1>15, <1>16, <1>17, <1>18, <1>19, <1>20, <1>21
---------------------------------------------------------------------------
(***************************************************************************)
(* The user's thread: collecting frames.                                   *)
(***************************************************************************)

(* Going forward from the thread to be collected first means going back to *)
(* newer packets.                                                          *)
LEMMA RingOrder ==
  ASSUME FrameTypeOK, RingInv
  PROVE  /\ \A t \in Threads : Back(t) <= Back(fctx.next_finished) =>
              Fwd(t) = Back(fctx.next_finished) - Back(t)
         /\ \A t \in Threads : Fwd(t) <= Back(fctx.next_finished) =>
              Back(t) = Back(fctx.next_finished) - Fwd(t)
         /\ \A t, u \in Threads : Fwd(t) = Fwd(u) => t = u
         /\ \A t \in Threads :
              /\ Wrapped(t + 1) \in Threads
              /\ Wrapped(t + 1) = fctx.next_finished => Fwd(t) = ThreadCount - 1
              /\ Wrapped(t + 1) # fctx.next_finished => Fwd(Wrapped(t + 1)) = Fwd(t) + 1
<1> DEFINE T == ThreadCount
           f == fctx.next_finished
           n == NextSlot
<1>1. T \in Nat /\ T >= 2 /\ Threads = 0..(T - 1) /\ f \in Threads /\ n \in 0..T
  BY SetupFacts, BackFacts DEF RingInv
<1>2. \A t : Back(t) = n - 1 - t + IF t < n THEN 0 ELSE T
  BY DEF Back
<1>3. \A t : Fwd(t) = t - f + IF t >= f THEN 0 ELSE T
  BY DEF Fwd
<1>4. \A t : Wrapped(t) = IF t >= T THEN 0 ELSE t
  BY DEF Wrapped
<1> HIDE DEF T, f, n
<1>5. ASSUME NEW t \in Threads
      PROVE  /\ Back(t) <= Back(f) => Fwd(t) = Back(f) - Back(t)
             /\ Fwd(t) <= Back(f) => Back(t) = Back(f) - Fwd(t)
             /\ Wrapped(t + 1) \in Threads
             /\ Wrapped(t + 1) = f => Fwd(t) = T - 1
             /\ Wrapped(t + 1) # f => Fwd(Wrapped(t + 1)) = Fwd(t) + 1
  <2>1. Back(t) <= Back(f) => Fwd(t) = Back(f) - Back(t)
    BY <1>1, <1>2, <1>3
  <2>2. Fwd(t) <= Back(f) => Back(t) = Back(f) - Fwd(t)
    BY <1>1, <1>2, <1>3
  <2>3. Wrapped(t + 1) = IF t = T - 1 THEN 0 ELSE t + 1
    BY <1>1, <1>4
  <2>4. /\ Wrapped(t + 1) \in Threads
        /\ Wrapped(t + 1) = f => Fwd(t) = T - 1
        /\ Wrapped(t + 1) # f => Fwd(Wrapped(t + 1)) = Fwd(t) + 1
    BY <1>1, <1>3, <2>3
  <2> QED
    BY <2>1, <2>2, <2>4
<1>6. ASSUME NEW t \in Threads, NEW u \in Threads, Fwd(t) = Fwd(u) PROVE t = u
  BY <1>1, <1>3, <1>6
<1> QED
  BY <1>5, <1>6 DEF T, f

(* What is left to collect comes after the thread just collected, and its  *)
(* packets are newer.                                                      *)
LEMMA CollectOrder ==
  ASSUME FrameInv, mpc \in Collecting
  PROVE  /\ Wrapped(m.finished + 1) \in Threads
         /\ \A u \in Threads : Loaded(u) /\ u # m.finished =>
              /\ Fwd(u) >= Fwd(m.finished) + 1
              /\ Wrapped(m.finished + 1) # fctx.next_finished
              /\ Fwd(Wrapped(m.finished + 1)) = Fwd(m.finished) + 1
              /\ Back(u) <= Back(Wrapped(m.finished + 1))
              /\ Back(Wrapped(m.finished + 1)) < ThreadCount - 1
              /\ Loaded(m.finished) => slot[m.finished].pkt < slot[u].pkt
<1> USE DEF FrameInv
<1> DEFINE f == m.finished
           g == Wrapped(f + 1)
           B == Back(fctx.next_finished)
<1>1. f \in Threads /\ fctx.next_finished \in Threads
  BY MainThread DEF RingInv
<1>2. g \in Threads
  BY <1>1, RingOrder
<1>3. ThreadCount \in Nat /\ h.sub \in Nat
  BY SetupFacts, HistoryFields DEF FrameTypeOK
<1>4. \A u \in Threads : Back(u) \in 0..(ThreadCount - 1) /\ Fwd(u) \in 0..(ThreadCount - 1)
  BY BackFacts
<1>5. B \in 0..(ThreadCount - 1)
  BY <1>1, <1>4
<1> HIDE DEF f, g, B
<1>6. ASSUME NEW u \in Threads, Loaded(u), u # f
      PROVE  /\ Fwd(u) >= Fwd(f) + 1
             /\ g # fctx.next_finished
             /\ Fwd(g) = Fwd(f) + 1
             /\ Back(u) <= Back(g)
             /\ Back(g) < ThreadCount - 1
             /\ Loaded(f) => slot[f].pkt < slot[u].pkt
  <2>1. Back(u) <= B /\ Fwd(u) >= Fwd(f) /\ slot[u].pkt = h.sub - Back(u)
    BY <1>6 DEF RingInv, f, B
  <2>2. Fwd(u) # Fwd(f)
    BY <1>1, <1>6, RingOrder
  <2>3. Fwd(u) >= Fwd(f) + 1
    BY <1>1, <1>4, <2>1, <2>2
  <2>4. g # fctx.next_finished
    <3>1. g = fctx.next_finished => Fwd(f) = ThreadCount - 1
      BY <1>1, RingOrder DEF g
    <3> QED
      BY <1>3, <1>4, <2>3, <3>1
  <2>5. Fwd(g) = Fwd(f) + 1
    BY <1>1, <2>4, RingOrder DEF g
  <2>6. Fwd(u) = B - Back(u)
    BY <2>1, RingOrder DEF B
  <2>7. Fwd(g) <= B
    BY <1>1, <1>2, <1>3, <1>4, <1>5, <2>3, <2>5, <2>6
  <2>8. Back(g) = B - Fwd(g)
    BY <1>2, <2>7, RingOrder DEF B
  <2>9. Back(u) <= Back(g) /\ Back(g) < ThreadCount - 1
    BY <1>1, <1>2, <1>3, <1>4, <1>5, <2>3, <2>5, <2>6, <2>8
  <2>10. Loaded(f) => slot[f].pkt < slot[u].pkt
    <3>1. Loaded(f) => Back(f) <= B /\ slot[f].pkt = h.sub - Back(f)
      BY <1>1 DEF RingInv, B
    <3>2. Back(f) <= B => Fwd(f) = B - Back(f)
      BY <1>1, RingOrder DEF B
    <3> QED
      BY <1>1, <1>3, <1>4, <1>5, <2>1, <2>3, <2>6, <3>1, <3>2
  <2> QED
    BY <2>3, <2>4, <2>5, <2>9, <2>10
<1> QED
  BY <1>2, <1>6 DEF f, g
(* The slot of the thread collected, in both cases. *)
LEMMA CollectSlot ==
  ASSUME FrameInv, Collect
  PROVE  /\ mpc = "collect" /\ m.finished \in Threads /\ ~Busy(m.finished)
         /\ wpc[m.finished] \in Idle /\ At(m.finished) \in Idle
         /\ slot' \in [Threads -> SlotType]
         /\ \A u \in Threads : u # m.finished => slot'[u] = slot[u]
         /\ slot'[m.finished].got_frame = FALSE
         /\ slot'[m.finished].state = slot[m.finished].state
         /\ slot'[m.finished].pkt = slot[m.finished].pkt
         /\ slot'[m.finished].size = slot[m.finished].size
         /\ slot'[m.finished].hwaccel_serializing = slot[m.finished].hwaccel_serializing
         /\ slot'[m.finished].async_serializing = slot[m.finished].async_serializing
<1> USE DEF FrameInv
<1> DEFINE f == m.finished
           s == [slot[f] EXCEPT !.frame = NoFrame, !.got_frame = FALSE]
<1>1. mpc = "collect" /\ f \in Threads /\ ~Busy(f)
  BY MainThread DEF Collect, OutputReady, Busy
<1>2. At(f) \in Idle
  BY <1>1 DEF WorkerOK, ThreadOK
<1>3. wpc[f] \in Idle
  <2>1. wpc[f] \in FinishingSetup => wloc[f].cont \in {"lock", "gb_out", "decode", "finish"}
    BY <1>1 DEF WorkerOK, ThreadOK
  <2>2. wpc[f] \notin FinishingSetup
    BY <1>2, <2>1 DEF At, Idle
  <2> QED
    BY <1>2, <2>2 DEF At
<1>4. slot' = [slot EXCEPT ![f] = s]
  BY <1>1 DEF Collect, TakenGotFrame, FrameTypeOK
<1>5. /\ s \in SlotType /\ s.state = slot[f].state /\ s.pkt = slot[f].pkt /\ s.size = slot[f].size
      /\ s.got_frame = FALSE /\ s.hwaccel_serializing = slot[f].hwaccel_serializing
      /\ s.async_serializing = slot[f].async_serializing
  <2>1. slot[f] \in SlotType
    BY <1>1, ThreadFields
  <2> QED
    BY <2>1 DEF SlotType, NoFrame
<1> HIDE DEF s
<1>6. slot' \in [Threads -> SlotType] /\ slot'[f] = s /\ \A u \in Threads : u # f => slot'[u] = slot[u]
  BY <1>1, <1>4, <1>5, SlotChanges
<1> QED
  BY <1>1, <1>2, <1>3, <1>5, <1>6

LEMMA CollectThreads ==
  ASSUME FrameInv, Collect, m'.setup = m.setup, Latest' = Latest
  PROVE  \A u \in Threads : /\ ThreadOK(u)' /\ Busy(u)' = Busy(u)
                            /\ Loaded(u)' <=> (Loaded(u) /\ u # m.finished)
<1> USE DEF FrameInv
<1>0. PICK f \in Threads : f = m.finished
  BY MainThread
<1>1. /\ mpc = "collect" /\ ~Busy(f) /\ wpc[f] \in Idle /\ At(f) \in Idle
      /\ \A u \in Threads : u # f => slot'[u] = slot[u]
      /\ slot'[f].got_frame = FALSE /\ slot'[f].state = slot[f].state
      /\ slot'[f].pkt = slot[f].pkt /\ slot'[f].size = slot[f].size
      /\ slot'[f].hwaccel_serializing = slot[f].hwaccel_serializing
      /\ slot'[f].async_serializing = slot[f].async_serializing
  BY <1>0, CollectSlot
<1>2. lock' = lock /\ ctx' = ctx /\ wpc' = wpc /\ wloc' = wloc /\ Early' = Early
  BY SetupQuiet DEF Collect
<1>3. mpc \notin Freeing /\ mpc' \notin Freeing
  BY <1>1 DEF Collect, Freeing
<1>4. ASSUME NEW u \in Threads, u # f
      PROVE  ThreadOK(u)' /\ Busy(u)' = Busy(u) /\ Loaded(u)' = Loaded(u)
  <2>1. ~Alone(u)
    BY <1>0, <1>4 DEF Alone
  <2> QED
    BY <1>1, <1>2, <1>3, <1>4, <2>1, ThreadStill
<1>5. /\ ~Busy(f)' /\ Busy(f)' = Busy(f) /\ ~Loaded(f)' /\ WorkerOK(f) /\ ContextOK(f) /\ HwOK(f)
      /\ At(f)' = At(f) /\ ~PastSetup(f) /\ ~PastSetup(f)'
  BY <1>1, <1>2 DEF Busy, Loaded, At, PastSetup, BeforeSetup, ThreadOK
<1>6. WorkerOK(f)'
  BY <1>1, <1>2, <1>5 DEF WorkerOK
<1>7. ContextOK(f)'
  BY <1>1, <1>2, <1>3, <1>5 DEF ContextOK
<1>8. HwOK(f)'
  <2>1. wpc[f] \notin {"fs_hw", "fs_async", "fs_set", "decode", "await", "setup", "report", "output"}
    BY <1>1 DEF Idle
  <2>2. m'.setup = m.setup
    OBVIOUS
  <2> QED
    BY <1>1, <1>2, <1>5, <2>1, <2>2 DEF HwOK
<1> QED
  BY <1>0, <1>4, <1>5, <1>6, <1>7, <1>8 DEF ThreadOK

LEMMA CollectStep ==
  ASSUME FrameInv, Collect
  PROVE  FrameInv'
<1> USE DEF FrameInv
<1>0. PICK f \in Threads : f = m.finished
  BY MainThread
<1>1. PICK g \in Threads : g = Wrapped(f + 1)
  BY <1>0, RingOrder
<1>2. /\ mpc = "collect" /\ ~Busy(f) /\ At(f) \in Idle
      /\ slot' \in [Threads -> SlotType] /\ \A u \in Threads : u # f => slot'[u] = slot[u]
      /\ slot'[f].got_frame = FALSE /\ slot'[f].pkt = slot[f].pkt
  BY <1>0, CollectSlot
<1>3. /\ mpc \in Collecting /\ mpc \in InCall /\ mpc \notin Submitted \union Submitting \union Freeing
  BY <1>2 DEF Collecting, InCall, Submitted, Submitting, Freeing
<1>4. m.draining = ~m.size /\ ~m.eof /\ m.size \in BOOLEAN /\ g \in Nat
  BY <1>3, MainFields, SetupFacts DEF DelayInv, FrameTypeOK
<1>5. \A u \in Threads : Loaded(u) /\ u # f =>
        /\ Fwd(u) >= Fwd(f) + 1 /\ g # fctx.next_finished /\ Fwd(g) = Fwd(f) + 1
        /\ Back(u) <= Back(g) /\ Back(g) < ThreadCount - 1
        /\ Loaded(f) => slot[f].pkt < slot[u].pkt
  BY <1>0, <1>1, <1>3, CollectOrder
<1>6. UNCHANGED <<lock, ctx, progress_wait, wpc, wloc>>
  BY DEF Collect
<1>7. \A u \in Threads : slot'[u].pkt = slot[u].pkt
  BY <1>2
<1>8. h.sub \in Nat /\ h.out \in Seq(Nat) /\ \A i \in DOMAIN h.out : h.out[i] \in Nat
  BY HistoryFields DEF FrameTypeOK
<1>9. CASE KeepLooking(f)
  <2>1. UNCHANGED <<mpc, fctx, h>> /\ m' = [m EXCEPT !.finished = g]
    BY <1>0, <1>1, <1>9 DEF Collect
  <2>2. /\ m' \in MainType /\ m'.setup = m.setup /\ m'.cur = m.cur /\ m'.finished = g
        /\ m'.eof = m.eof /\ m'.got_picture = m.got_picture /\ m'.uctx = m.uctx
        /\ m'.draining = m.draining /\ m'.size = m.size
    BY <1>4, <2>1 DEF FrameTypeOK, MainType
  <2>3. Threads' = Threads /\ ThreadCount' = ThreadCount
    BY <2>2, SetupQuiet
  <2>4. Latest' = Latest
    BY <1>3, <2>1 DEF Latest
  <2>5. \A u \in Threads : /\ ThreadOK(u)' /\ Busy(u)' = Busy(u)
                           /\ Loaded(u)' <=> (Loaded(u) /\ u # f)
    BY <1>0, <2>2, <2>4, CollectThreads
  <2>6. FrameTypeOK'
    BY <1>2, <1>6, <2>1, <2>2, <2>3 DEF FrameTypeOK
  <2>7. RingInv'
    <3>1. /\ \A u \in Threads : Back(u)' = Back(u) /\ Fwd(u)' = Fwd(u)
          /\ Back(fctx.next_finished)' = Back(fctx.next_finished) /\ Fwd(m.finished)' = Fwd(g)
      BY <2>1, <2>2, <2>3 DEF Back, Fwd, NextSlot
    <3>2. ASSUME NEW u \in Threads, Loaded(u)'
          PROVE  /\ Back(u)' <= Back(fctx.next_finished)'
                 /\ slot'[u].pkt = h'.sub - Back(u)'
                 /\ Fwd(u)' >= Fwd(m.finished)'
      <4>1. Loaded(u) /\ u # f
        BY <2>5, <3>2
      <4>2. Fwd(u) >= Fwd(g)
        BY <1>5, <4>1
      <4>3. Back(u) <= Back(fctx.next_finished) /\ slot[u].pkt = h.sub - Back(u)
        BY <4>1 DEF RingInv
      <4> QED
        BY <1>7, <2>1, <3>1, <4>2, <4>3
    <3> QED
      BY <1>2, <1>3, <2>1, <2>3, <3>2 DEF RingInv
  <2>8. DelayInv'
    BY <2>1, <2>2, <2>3 DEF DelayInv
  <2>9. LatestInv'
    BY <1>6, <1>7, <2>1, <2>3, <2>4, <2>5 DEF LatestInv
  <2>10. ParkInv' /\ AsyncInv'
    BY <1>2, <1>3, <2>1 DEF ParkInv, AsyncInv
  <2>11. OutInv'
    <3>1. Outs' = Outs
      BY <2>1 DEF Outs
    <3>2. ~slot[f].got_frame /\ slot[f].got_frame \in BOOLEAN
      BY <1>9, ThreadFields DEF KeepLooking
    <3>3. \A u \in Threads : slot'[u].got_frame = slot[u].got_frame
      BY <1>2, <3>2
    <3>4. {slot'[u].pkt : u \in {v \in Threads : slot'[v].got_frame}}
            = {slot[u].pkt : u \in {v \in Threads : slot[v].got_frame}}
      BY <1>7, <3>3
    <3> QED
      BY <1>2, <1>7, <2>1, <2>2, <2>3, <2>5, <3>1, <3>4 DEF OutInv
  <2> QED
    BY <2>3, <2>5, <2>6, <2>7, <2>8, <2>9, <2>10, <2>11
<1>10. CASE ~KeepLooking(f)
  <2> DEFINE n == Wrapped(fctx.next_decoding)
             b == slot[f].got_frame
             c == ctx[f].seen
             o == IF b THEN Append(h.out, slot[f].frame) ELSE h.out
  <2>1. /\ m' = [m EXCEPT !.finished = g, !.uctx = c, !.got_picture = b]
        /\ fctx' = [fctx EXCEPT !.next_decoding = n, !.next_finished = g]
        /\ h' = [h EXCEPT !.out = o] /\ mpc' = "return"
    BY <1>0, <1>1, <1>10 DEF Collect, ReturnedCtx
  <2>2. b \in BOOLEAN /\ c \in Nat /\ slot[f].frame \in Nat /\ slot[f].pkt \in Nat
    BY ThreadFields, SlotFields
  <2>3. b => Loaded(f) /\ slot[f].frame = slot[f].pkt /\ c = slot[f].pkt
    <3>1. WorkerOK(f) /\ ContextOK(f)
      BY DEF ThreadOK
    <3> QED
      BY <1>2, <1>3, <3>1 DEF WorkerOK, ContextOK, Loaded
  <2>4. n \in Threads /\ n \in Nat /\ o \in Seq(Nat)
    <3>1. fctx.next_decoding \in Nat /\ fctx.next_decoding <= ThreadCount
      BY FctxFields DEF FrameTypeOK, RingInv
    <3> QED
      BY <1>8, <2>2, <3>1, SetupFacts DEF Wrapped
  <2> HIDE DEF n, b, c, o
  <2>5. /\ m' \in MainType /\ m'.setup = m.setup /\ m'.cur = m.cur /\ m'.finished = g
        /\ m'.eof = m.eof /\ m'.got_picture = b /\ m'.uctx = c
        /\ m'.draining = m.draining /\ m'.size = m.size
    BY <1>4, <2>1, <2>2 DEF FrameTypeOK, MainType
  <2>6. /\ fctx' \in FctxType /\ fctx'.next_decoding = n /\ fctx'.next_finished = g
        /\ fctx'.prev_thread = fctx.prev_thread /\ fctx'.delaying = fctx.delaying
    BY <1>4, <2>1, <2>4 DEF FrameTypeOK, FctxType
  <2>7. /\ h' \in HistoryType /\ h'.sub = h.sub /\ h'.out = o /\ h'.produced = h.produced
        /\ h'.sub_failed = h.sub_failed
    BY <2>1, <2>4 DEF FrameTypeOK, HistoryType
  <2>8. Threads' = Threads /\ ThreadCount' = ThreadCount
    BY <2>5, SetupQuiet
  <2>9. /\ mpc' \in MainPlaces
        /\ mpc' \notin Submitted \union Submitting \union Collecting \union Freeing \union InCall
    BY <2>1 DEF Submitted, Submitting, Collecting, Freeing, InCall, MainPlaces
  <2>10. Latest' = Latest
    BY <1>3, <2>6, <2>9 DEF Latest
  <2>11. \A u \in Threads : /\ ThreadOK(u)' /\ Busy(u)' = Busy(u)
                            /\ Loaded(u)' <=> (Loaded(u) /\ u # f)
    BY <1>0, <2>5, <2>10, CollectThreads
  <2>12. FrameTypeOK'
    BY <1>2, <1>6, <2>5, <2>6, <2>7, <2>8, <2>9 DEF FrameTypeOK
  <2>13. /\ \A u \in Threads : Back(u)' = Back(u)
         /\ Back(n) = ThreadCount - 1
    <3>1. NextSlot = fctx.next_decoding /\ NextSlot' = n /\ NextSlot \in Nat /\ NextSlot <= ThreadCount
      BY <1>3, <2>6, <2>9, BackFacts, FctxFields DEF NextSlot, FrameTypeOK, RingInv
    <3>2. n = IF fctx.next_decoding = ThreadCount THEN 0 ELSE fctx.next_decoding
      BY <3>1, SetupFacts DEF n, Wrapped
    <3>3. ThreadCount \in Nat /\ Threads = 0..(ThreadCount - 1)
      BY SetupFacts
    <3>4. \A u \in Threads : Back(u)' = Back(u)
      BY <2>4, <2>8, <3>1, <3>2, <3>3 DEF Back
    <3>5. Back(n) = ThreadCount - 1
      BY <2>4, <3>1, <3>2, <3>3 DEF Back
    <3> QED
      BY <3>4, <3>5
  <2>14. RingInv'
    <3>1. Back(fctx.next_finished)' = Back(g)
      BY <2>6, <2>8, <2>13 DEF Back
    <3>2. ASSUME NEW u \in Threads, Loaded(u)'
          PROVE  /\ Back(u)' <= Back(fctx.next_finished)'
                 /\ slot'[u].pkt = h'.sub - Back(u)'
                 /\ fctx'.next_finished # fctx'.next_decoding
      <4>1. Loaded(u) /\ u # f
        BY <2>11, <3>2
      <4>2. Back(u) <= Back(g) /\ Back(g) < ThreadCount - 1
        BY <1>5, <4>1
      <4>3. slot[u].pkt = h.sub - Back(u)
        BY <4>1 DEF RingInv
      <4>4. g # n
        BY <2>13, <4>2, SetupFacts
      <4> QED
        BY <1>7, <2>6, <2>7, <2>13, <3>1, <4>2, <4>3, <4>4
    <3> QED
      BY <2>1, <2>4, <2>6, <2>8, <2>9, <3>2, SetupFacts DEF RingInv
  <2>15. DelayInv'
    <3>1. fctx.delaying => fctx.next_decoding <= ThreadCount - 2
      BY <1>2 DEF DelayInv
    <3>2. fctx.delaying => n = fctx.next_decoding
      <4>1. fctx.next_decoding \in Nat
        BY FctxFields DEF FrameTypeOK
      <4> QED
        BY <3>1, <4>1, SetupFacts DEF n, Wrapped
    <3>3. fctx.delaying => m.draining
      BY <1>3, <1>4 DEF DelayInv
    <3> QED
      BY <2>1, <2>5, <2>6, <2>8, <2>9, <3>1, <3>2, <3>3 DEF DelayInv
  <2>16. LatestInv'
    <3>1. CASE Latest = None
      <4>1. fctx.next_decoding = 0 /\ fctx.next_finished = 0
        BY <3>1 DEF LatestInv
      <4>2. ~m.size
        BY <1>3, <3>1 DEF DelayInv, Latest
      <4>3. g = fctx.next_finished
        BY <1>1, <1>10, <3>1, <4>2 DEF KeepLooking, LatestInv, Loaded
      <4>4. n = 0
        BY <4>1, SetupFacts DEF n, Wrapped
      <4> QED
        BY <1>6, <2>6, <2>7, <2>8, <2>10, <2>11, <3>1, <4>1, <4>3, <4>4 DEF LatestInv
    <3>2. CASE Latest # None
      BY <1>7, <2>7, <2>8, <2>10, <3>2 DEF LatestInv
    <3> QED
      BY <3>1, <3>2
  <2>17. ParkInv' /\ AsyncInv'
    BY <2>1, <2>9 DEF ParkInv, AsyncInv
  <2>18. OutInv'
    <3>1. /\ \A i, j \in DOMAIN h.out : i < j => h.out[i] < h.out[j]
          /\ \A i \in DOMAIN h.out : /\ h.out[i] <= h.sub
                                     /\ \A u \in Threads : Loaded(u) => h.out[i] < slot[u].pkt
          /\ h.produced = Outs \union {slot[u].pkt : u \in {v \in Threads : slot[v].got_frame}}
      BY DEF OutInv
    <3>2. b => slot[f].pkt <= h.sub
      <4>1. Loaded(f) => slot[f].pkt = h.sub - Back(f) /\ Back(f) \in Nat
        BY BackFacts DEF RingInv
      <4> QED
        BY <1>8, <2>3, <4>1
    <3>3. CASE b
      <4>1. o = Append(h.out, slot[f].pkt) /\ Loaded(f)
        BY <2>3, <3>3 DEF o
      <4>2. /\ DOMAIN h.out = 1..Len(h.out) /\ Len(h.out) \in Nat
            /\ DOMAIN o = 1..(Len(h.out) + 1) /\ Len(o) = Len(h.out) + 1
            /\ \A i \in 1..Len(h.out) : o[i] = h.out[i]
            /\ o[Len(h.out) + 1] = slot[f].pkt
        BY <1>8, <2>2, <4>1
      <4>3. \A i, j \in DOMAIN o : i < j => o[i] < o[j]
        BY <3>1, <4>1, <4>2
      <4>4. ASSUME NEW i \in DOMAIN o
            PROVE  o[i] <= h.sub /\ \A u \in Threads : Loaded(u)' => o[i] < slot'[u].pkt
        <5>1. CASE i \in DOMAIN h.out
          BY <1>7, <2>11, <3>1, <4>2, <5>1
        <5>2. CASE i = Len(h.out) + 1
          BY <1>5, <1>7, <2>11, <3>2, <3>3, <4>1, <4>2, <5>2
        <5> QED
          BY <4>2, <4>4, <5>1, <5>2
      <4>5. Outs' = Outs \union {slot[f].pkt}
        <5>1. {o[i] : i \in DOMAIN o} = {h.out[i] : i \in DOMAIN h.out} \union {slot[f].pkt}
          BY <4>2
        <5> QED
          BY <2>7, <5>1 DEF Outs
      <4>6. {slot[u].pkt : u \in {v \in Threads : slot[v].got_frame}}
             = {slot'[u].pkt : u \in {v \in Threads : slot'[v].got_frame}} \union {slot[f].pkt}
        BY <1>2, <1>7, <3>3 DEF b
      <4>7. h'.produced = Outs' \union {slot'[u].pkt : u \in {v \in Threads : slot'[v].got_frame}}
        BY <2>7, <3>1, <4>5, <4>6
      <4>8. o # <<>> /\ m'.uctx = o[Len(o)]
        BY <2>3, <2>5, <3>3, <4>2
      <4> QED
        BY <1>4, <2>5, <2>7, <2>8, <3>3, <4>3, <4>4, <4>7, <4>8 DEF OutInv
    <3>4. CASE ~b
      <4>1. o = h.out
        BY <3>4 DEF o
      <4>2. Outs' = Outs
        BY <2>7, <4>1 DEF Outs
      <4>3. \A u \in Threads : slot'[u].got_frame = slot[u].got_frame
        BY <1>2, <2>2, <3>4 DEF b
      <4>4. h'.produced = Outs' \union {slot'[u].pkt : u \in {v \in Threads : slot'[v].got_frame}}
        BY <1>7, <2>7, <3>1, <4>2, <4>3
      <4>5. m.draining => \A u \in Threads : ~Loaded(u)'
        <5>1. SUFFICES ASSUME m.draining, NEW u \in Threads, Loaded(u) /\ u # f PROVE FALSE
          BY <2>11
        <5>2. g = fctx.next_finished
          BY <1>1, <1>4, <1>10, <3>4, <5>1 DEF KeepLooking, b
        <5> QED
          BY <1>5, <5>1, <5>2
      <4>6. \A i \in DOMAIN o : o[i] <= h.sub /\ \A u \in Threads : Loaded(u)' => o[i] < slot'[u].pkt
        BY <1>7, <2>11, <3>1, <4>1
      <4> QED
        BY <1>4, <2>5, <2>7, <2>8, <3>1, <3>4, <4>1, <4>4, <4>5, <4>6 DEF OutInv
    <3> QED
      BY <3>3, <3>4
  <2> QED
    BY <2>8, <2>11, <2>12, <2>14, <2>15, <2>16, <2>17, <2>18
<1> QED
  BY <1>9, <1>10
---------------------------------------------------------------------------
(***************************************************************************)
(* ff_thread_flush() and ff_frame_thread_free() once the threads are       *)
(* parked.                                                                 *)
(***************************************************************************)

(* A parked thread holds no lock and its context may be replaced. *)
LEMMA ParkedThread ==
  ASSUME FrameInv, FrameTypeOK', NEW t \in Threads, ~Busy(t), lock.async # t,
         wpc'[t] = wpc[t], wloc'[t] = wloc[t], m'.setup = m.setup,
         slot'[t].state = slot[t].state,
         slot'[t].hwaccel_serializing = slot[t].hwaccel_serializing,
         slot'[t].async_serializing = slot[t].async_serializing,
         ctx'[t].hw => m.setup.hwaccel # "none",
         \/ mpc' \in Freeing
         \/ ~slot'[t].got_frame /\ t # Latest'
  PROVE  ThreadOK(t)' /\ ~Busy(t)'
<1> USE DEF FrameInv
<1>1. At(t) \in Idle /\ At(t)' = At(t) /\ ~Busy(t)' /\ WorkerOK(t) /\ HwOK(t)
  BY DEF ThreadOK, WorkerOK, At, Busy
<1>2. wpc[t] \in Idle /\ wpc[t] = At(t)
  BY <1>1 DEF WorkerOK, At, Idle, FinishingSetup
<1>3. ~PastSetup(t) /\ ~PastSetup(t)'
  BY <1>1 DEF PastSetup, BeforeSetup
<1>4. wpc[t] \notin FinishingSetup /\ wpc[t] \notin {"decode", "await", "report", "output", "setup"}
  BY <1>2 DEF Idle, FinishingSetup
<1>5. slot[t].async_serializing = FALSE /\ slot[t].hwaccel_serializing = FALSE
  <2>1. wpc[t] # "fs_async" /\ wpc[t] # "setup"
    BY <1>4 DEF FinishingSetup
  <2> QED
    BY <1>1, <1>3, <2>1, ThreadFields DEF HwOK
<1>6. WorkerOK(t)'
  BY <1>1, <1>4 DEF WorkerOK, Busy
<1>7. ContextOK(t)'
  BY <1>1, <1>3 DEF ContextOK
<1>8. HwOK(t)'
  <2>1. wpc'[t] \notin {"fs_hw", "fs_async", "fs_set", "decode", "await", "report", "output"}
    BY <1>4 DEF FinishingSetup
  <2>2. At(t)' # "ready" /\ wpc'[t] # "setup"
    BY <1>1, <1>4 DEF Idle
  <2>3. slot'[t].async_serializing = FALSE /\ slot'[t].hwaccel_serializing = FALSE /\ ~Busy(t)'
    BY <1>1, <1>5
  <2> QED
    BY <2>1, <2>2, <2>3 DEF HwOK
<1> QED
  BY <1>1, <1>6, <1>7, <1>8 DEF ThreadOK

(* update_context_from_thread() from the thread submitted to last. *)
LEMMA LatestCopied ==
  ASSUME FrameInv, mpc \in {"flush", "free"}
  PROVE  /\ LatestCtx \in [Threads -> CtxType]
         /\ \A t \in Threads : LatestCtx[t].hw => m.setup.hwaccel # "none"
         /\ LatestCtx[0].seen = h.sub
         /\ Latest = None => LatestCtx = ctx
<1> USE DEF FrameInv
<1>1. /\ ctx \in [Threads -> CtxType] /\ 0 \in Threads /\ Latest = fctx.prev_thread
      /\ mpc \notin Submitted /\ mpc \notin Freeing
  BY SetupFacts DEF FrameTypeOK, Latest, Submitted, Freeing
<1>2. \A t \in Threads : ctx[t].hw => m.setup.hwaccel # "none"
  BY DEF ThreadOK, ContextOK
<1>3. CASE fctx.prev_thread = None
  BY <1>1, <1>2, <1>3 DEF LatestCtx, LatestInv
<1>4. CASE fctx.prev_thread # None
  <2> DEFINE p == fctx.prev_thread
  <2>1. p \in Threads /\ slot[p].pkt = h.sub /\ ~Busy(p)
    BY <1>1, <1>4 DEF LatestInv, ParkInv
  <2>2. At(p) \in Idle
    BY <2>1 DEF ThreadOK, WorkerOK
  <2>3. ctx[p].seen = h.sub
    BY <1>1, <2>1, <2>2 DEF ThreadOK, ContextOK
  <2>4. CASE p = 0
    BY <1>1, <1>2, <1>4, <2>3, <2>4 DEF LatestCtx
  <2>5. CASE p # 0
    <3> DEFINE c == UpdateContextFromThread(0, p)
    <3>1. LatestCtx = [ctx EXCEPT ![0] = c]
      BY <1>4, <2>5 DEF LatestCtx
    <3>2. c \in CtxType /\ c.seen = ctx[p].seen /\ c.hw = ctx[p].hw
      <4>1. ctx[p] \in CtxType /\ ctx[0] \in CtxType
        BY <1>1, <2>1
      <4> QED
        BY <4>1 DEF UpdateContextFromThread, CtxType
    <3> HIDE DEF c
    <3> QED
      BY <1>1, <1>2, <1>4, <2>1, <2>3, <3>1, <3>2
  <2> QED
    BY <2>4, <2>5
<1> QED
  BY <1>3, <1>4

LEMMA FlushStep ==
  ASSUME FrameInv, Flush
  PROVE  FrameInv'
<1> USE DEF FrameInv
<1>1. /\ mpc = "flush" /\ lock.async = None /\ lock' = [lock EXCEPT !.async = Main]
      /\ fctx' = [prev_thread |-> None, next_decoding |-> 0, next_finished |-> 0,
                  delaying |-> TRUE]
      /\ mpc' = "user" /\ UNCHANGED <<progress_wait, wpc, wloc>>
      /\ m' = [m EXCEPT !.draining = FALSE, !.eof = FALSE, !.got_picture = FALSE]
      /\ h' = [h EXCEPT !.out = <<>>, !.produced = {}, !.sub_failed = FALSE, !.flushes = @ + 1]
      /\ ctx' = [t \in Threads |-> [LatestCtx[t] EXCEPT !.frame = NoFrame, !.owner = 0]]
      /\ slot' = [t \in Threads |-> [slot[t] EXCEPT !.got_frame = FALSE, !.frame = NoFrame,
                                                    !.released = FALSE]]
  BY DEF Flush
<1>2. /\ m' \in MainType /\ m'.setup = m.setup /\ m'.cur = m.cur /\ m'.finished = m.finished
      /\ m'.eof = FALSE /\ m'.got_picture = FALSE /\ m'.draining = FALSE
  BY <1>1 DEF FrameTypeOK, MainType
<1>3. h' \in HistoryType /\ h'.out = <<>> /\ h'.produced = {} /\ h'.sub = h.sub
  <2> DEFINE n == h.flushes + 1
  <2>1. h \in HistoryType /\ n \in Nat /\ <<>> \in Seq(Nat)
    BY HistoryFields DEF FrameTypeOK
  <2>2. h' = [h EXCEPT !.out = <<>>, !.produced = {}, !.sub_failed = FALSE, !.flushes = n]
    BY <1>1
  <2> HIDE DEF n
  <2> QED
    BY <2>1, <2>2 DEF HistoryType
<1>4. lock' \in LockType /\ lock'.hwaccel = lock.hwaccel /\ lock'.async = Main
  BY <1>1, LockAsync
<1>5. /\ fctx' \in FctxType /\ fctx'.prev_thread = None /\ fctx'.next_decoding = 0
      /\ fctx'.next_finished = 0
  <2>1. None \in Int
    BY DEF None
  <2> QED
    BY <1>1, <2>1 DEF FctxType
<1>6. Threads' = Threads /\ ThreadCount' = ThreadCount
  BY <1>2, SetupQuiet
<1>7. /\ slot' \in [Threads -> SlotType]
      /\ \A t \in Threads : /\ slot'[t].state = slot[t].state /\ slot'[t].got_frame = FALSE
                            /\ slot'[t].hwaccel_serializing = slot[t].hwaccel_serializing
                            /\ slot'[t].async_serializing = slot[t].async_serializing
  <2>1. \A t \in Threads : slot[t] \in SlotType
    BY ThreadFields
  <2> QED
    BY <1>1, <2>1 DEF SlotType, NoFrame
<1>8. /\ ctx' \in [Threads -> CtxType]
      /\ \A t \in Threads : ctx'[t].seen = LatestCtx[t].seen /\ ctx'[t].hw = LatestCtx[t].hw
  <2>1. \A t \in Threads : LatestCtx[t] \in CtxType
    BY <1>1, LatestCopied
  <2> QED
    BY <1>1, <2>1 DEF CtxType, NoFrame
<1>9. FrameTypeOK'
  <2>1. mpc' \in MainPlaces /\ m'.cur \in Threads /\ m'.finished \in Threads
    BY <1>1, <1>2, MainThread DEF MainPlaces
  <2>2. /\ progress_wait' \in [Threads -> SUBSET Nat] /\ wloc' \in [Threads -> LocalsType]
        /\ wpc' \in [Threads -> Places \union FinishingSetup]
    BY <1>1, Unassigned
  <2> QED
    BY <1>2, <1>3, <1>4, <1>5, <1>6, <1>7, <1>8, <2>1, <2>2 DEF FrameTypeOK
<1>10. /\ mpc' \notin Submitted /\ mpc' \notin Submitting /\ mpc' \notin Collecting
       /\ mpc' \notin InCall /\ mpc' \notin Freeing /\ mpc' # "delay" /\ Latest' = None
  BY <1>1, <1>5 DEF Submitted, Submitting, Collecting, InCall, Freeing, Latest, None
<1>11. \A t \in Threads : ThreadOK(t)' /\ ~Busy(t)'
  <2>1. SUFFICES ASSUME NEW t \in Threads PROVE ThreadOK(t)' /\ ~Busy(t)'
    OBVIOUS
  <2>2. ~Busy(t) /\ lock.async # t /\ t # Latest'
    BY <1>1, <1>10, SetupFacts DEF ParkInv
  <2>3. ctx'[t].hw => m.setup.hwaccel # "none"
    BY <1>1, <1>8, LatestCopied
  <2>4. wpc'[t] = wpc[t] /\ wloc'[t] = wloc[t]
    BY <1>1
  <2> QED
    BY <1>2, <1>7, <1>9, <2>2, <2>3, <2>4, ParkedThread
<1>12. \A t \in Threads : ~Loaded(t)'
  BY <1>7, <1>11 DEF Loaded
<1>13. RingInv'
  <2>1. 0 <= ThreadCount /\ 0 \in Threads
    BY SetupFacts
  <2> QED
    BY <1>5, <1>6, <1>10, <1>12, <2>1 DEF RingInv
<1>14. DelayInv'
  <2>1. 0 <= ThreadCount - 2
    BY SetupFacts
  <2> QED
    BY <1>2, <1>5, <1>6, <1>10, <2>1 DEF DelayInv
<1>15. LatestInv'
  BY <1>1, <1>3, <1>5, <1>6, <1>8, <1>10, <1>12, LatestCopied, SetupFacts DEF LatestInv
<1>16. ParkInv' /\ AsyncInv'
  <2>1. Main' = Main
    BY DEF Main
  <2> QED
    BY <1>1, <1>4, <1>10, <2>1 DEF ParkInv, AsyncInv
<1>17. OutInv'
  <2>1. DOMAIN h'.out = {} /\ Outs' = {}
    BY <1>3 DEF Outs
  <2>2. {slot'[t].pkt : t \in {u \in Threads : slot'[u].got_frame}} = {}
    BY <1>7
  <2> QED
    BY <1>2, <1>3, <1>6, <1>12, <2>1, <2>2 DEF OutInv
<1> QED
  BY <1>6, <1>9, <1>11, <1>13, <1>14, <1>15, <1>16, <1>17

(* While the threads are ended nothing else goes on. *)
LEMMA FreeingStep ==
  ASSUME FrameInv, mpc \in {"free", "join"}, mpc' \in Freeing,
         UNCHANGED <<fctx, progress_wait, wpc, wloc, h>>,
         slot' \in [Threads -> SlotType], ctx' \in [Threads -> CtxType], lock' \in LockType,
         \A t \in Threads :
           /\ slot'[t].state = slot[t].state /\ slot'[t].got_frame = slot[t].got_frame
           /\ slot'[t].pkt = slot[t].pkt
           /\ slot'[t].hwaccel_serializing = slot[t].hwaccel_serializing
           /\ slot'[t].async_serializing = slot[t].async_serializing
           /\ ctx'[t].hw => m.setup.hwaccel # "none"
           /\ lock.async # t,
         Latest = None => ctx' = ctx, lock'.hwaccel = lock.hwaccel, lock'.async = Main,
         NEW c \in Threads, m' = [m EXCEPT !.cur = c]
  PROVE  FrameInv'
<1> USE DEF FrameInv
<1>1. /\ m' \in MainType /\ m'.setup = m.setup /\ m'.cur = c /\ m'.finished = m.finished
      /\ m'.eof = m.eof /\ m'.got_picture = m.got_picture /\ m'.uctx = m.uctx
      /\ m'.draining = m.draining
  <2>1. c \in Nat
    BY SetupFacts
  <2> QED
    BY <2>1 DEF FrameTypeOK, MainType
<1>2. Threads' = Threads /\ ThreadCount' = ThreadCount
  BY <1>1, SetupQuiet
<1>3. /\ mpc \notin Submitted \union Submitting /\ mpc' \notin Submitted \union Submitting
      /\ mpc \notin Collecting \union {"delay"} /\ mpc' \notin Collecting \union {"delay"}
      /\ mpc' \notin {"park", "park_wait", "flush", "free", "return", "user"}
      /\ mpc \notin InCall /\ mpc' \notin InCall /\ mpc' \in MainPlaces
  BY DEF Submitted, Submitting, Collecting, InCall, Freeing, MainPlaces
<1>4. FrameTypeOK'
  BY <1>1, <1>2, <1>3, MainThread DEF FrameTypeOK
<1>5. \A t \in Threads : ~Busy(t)
  BY DEF ParkInv, Freeing
<1>6. \A t \in Threads : ThreadOK(t)' /\ ~Busy(t)'
  <2>1. SUFFICES ASSUME NEW t \in Threads PROVE ThreadOK(t)' /\ ~Busy(t)'
    OBVIOUS
  <2> QED
    BY <1>1, <1>4, <1>5, ParkedThread
<1>7. Latest' = Latest /\ \A t \in Threads : Loaded(t)' = Loaded(t)
  BY <1>3 DEF Latest, Loaded, Busy
<1>8. /\ \A t \in Threads : Back(t)' = Back(t)
      /\ Back(fctx.next_finished)' = Back(fctx.next_finished)
  BY <1>2, <1>3 DEF Back, NextSlot
<1>9. RingInv'
  BY <1>2, <1>3, <1>7, <1>8 DEF RingInv
<1>10. DelayInv'
  BY <1>1, <1>2, <1>3 DEF DelayInv
<1>11. LatestInv'
  BY <1>2, <1>7 DEF LatestInv
<1>12. ParkInv'
  BY <1>2, <1>3, <1>6 DEF ParkInv
<1>13. AsyncInv'
  <2>1. Main' = Main
    BY DEF Main
  <2> QED
    BY <2>1 DEF AsyncInv
<1>14. OutInv'
  <2>1. Outs' = Outs
    BY DEF Outs
  <2>2. {slot'[t].pkt : t \in {u \in Threads : slot'[u].got_frame}}
         = {slot[t].pkt : t \in {u \in Threads : slot[u].got_frame}}
    OBVIOUS
  <2>3. h'.produced = Outs' \union {slot'[t].pkt : t \in {u \in Threads : slot'[u].got_frame}}
    BY <2>1, <2>2 DEF OutInv
  <2> QED
    BY <1>1, <1>2, <1>3, <1>7, <2>3 DEF OutInv
<1> QED
  BY <1>2, <1>4, <1>6, <1>9, <1>10, <1>11, <1>12, <1>13, <1>14

LEMMA FreeBeginStep ==
  ASSUME FrameInv, FreeBegin
  PROVE  FrameInv'
<1>1. /\ mpc = "free" /\ mpc' = "kill" /\ lock.async = None /\ ctx' = LatestCtx
      /\ lock' = [lock EXCEPT !.async = Main]
      /\ UNCHANGED <<fctx, slot, progress_wait, wpc, wloc, m, h>>
  BY DEF FreeBegin
<1>2. FrameTypeOK
  BY DEF FrameInv
<1>3. lock' \in LockType /\ lock'.hwaccel = lock.hwaccel /\ lock'.async = Main
  BY <1>1, <1>2, LockAsync
<1>4. m' = [m EXCEPT !.cur = m.cur] /\ m.cur \in Threads
  BY <1>1, <1>2 DEF FrameTypeOK, MainType
<1>5. \A t \in Threads : lock.async # t
  BY <1>1, <1>2, SetupFacts
<1>6. slot' \in [Threads -> SlotType]
  BY <1>1, <1>2 DEF FrameTypeOK
<1> QED
  BY <1>1, <1>3, <1>4, <1>5, <1>6, LatestCopied, FreeingStep DEF Freeing

LEMMA JoinStep ==
  ASSUME FrameInv, Join
  PROVE  FrameInv'
<1> DEFINE s == [slot[m.cur] EXCEPT !.released = FALSE, !.frame = NoFrame]
<1>1. /\ mpc = "join" /\ mpc' \in Freeing
      /\ UNCHANGED <<fctx, lock, ctx, progress_wait, wpc, wloc, h>>
  BY DEF Join, Freeing
<1>2. FrameTypeOK /\ m.cur \in Threads
  BY MainThread DEF FrameInv
<1>3. slot[m.cur] \in SlotType
  BY <1>2, ThreadFields
<1>4. slot' = [slot EXCEPT ![m.cur] = s]
  BY <1>2, <1>3 DEF Join, SlotType, FrameTypeOK
<1>5. /\ s \in SlotType /\ s.state = slot[m.cur].state /\ s.got_frame = slot[m.cur].got_frame
      /\ s.pkt = slot[m.cur].pkt /\ s.hwaccel_serializing = slot[m.cur].hwaccel_serializing
      /\ s.async_serializing = slot[m.cur].async_serializing
  BY <1>3 DEF SlotType, NoFrame
<1> HIDE DEF s
<1>6. slot' \in [Threads -> SlotType] /\ slot'[m.cur] = s /\ \A u \in Threads : u # m.cur => slot'[u] = slot[u]
  BY <1>2, <1>4, <1>5, SlotChanges
<1>7. \A t \in Threads :
           /\ slot'[t].state = slot[t].state /\ slot'[t].got_frame = slot[t].got_frame
           /\ slot'[t].pkt = slot[t].pkt
           /\ slot'[t].hwaccel_serializing = slot[t].hwaccel_serializing
           /\ slot'[t].async_serializing = slot[t].async_serializing
  BY <1>5, <1>6
<1>8. PICK c \in Threads : m' = [m EXCEPT !.cur = c]
  <2>1. CASE m.cur < ThreadCount - 1
    <3>1. m.cur + 1 \in Threads
      BY <1>2, <2>1, SetupFacts
    <3> QED
      BY <2>1, <3>1 DEF Join
  <2>2. CASE ~(m.cur < ThreadCount - 1)
    <3>1. m' = [m EXCEPT !.cur = m.cur]
      BY <1>2, <2>2 DEF Join, FrameTypeOK, MainType
    <3> QED
      BY <1>2, <3>1
  <2> QED
    BY <2>1, <2>2
<1>9. lock.async = Main
  BY <1>1 DEF FrameInv, AsyncInv, Freeing
<1>10. lock' \in LockType /\ lock'.hwaccel = lock.hwaccel /\ lock'.async = Main
       /\ ctx' \in [Threads -> CtxType] /\ ctx' = ctx
  BY <1>1, <1>2, <1>9 DEF FrameTypeOK
<1>11. \A t \in Threads : (ctx'[t].hw => m.setup.hwaccel # "none") /\ lock.async # t
  <2>1. \A t \in Threads : ctx[t].hw => m.setup.hwaccel # "none"
    BY DEF FrameInv, ThreadOK, ContextOK
  <2> QED
    BY <1>2, <1>9, <1>10, <2>1, SetupFacts
<1> QED
  BY <1>1, <1>6, <1>7, <1>8, <1>10, <1>11, FreeingStep

---------------------------------------------------------------------------
(***************************************************************************)
(* The theorems.                                                           *)
(***************************************************************************)
LEMMA InitInv ==
  ASSUME Init
  PROVE  FrameInv
<1>1. /\ m.setup \in Setups /\ m.cur = 0 /\ m.finished = 0 /\ m.got_picture = FALSE
      /\ m.draining = FALSE /\ m.eof = FALSE /\ m \in MainType /\ mpc = "user"
      /\ lock = [buffer |-> None, hwaccel |-> None, async |-> Main]
  <2>1. m \in [cur : {0}, size : {FALSE}, finished : {0}, got_picture : {FALSE},
               freeing : {FALSE}, uctx : {0}, draining : {FALSE}, eof : {FALSE}, setup : Setups]
    BY DEF Init
  <2>2. /\ m.setup \in Setups /\ m.cur = 0 /\ m.finished = 0 /\ m.got_picture = FALSE
        /\ m.draining = FALSE /\ m.eof = FALSE
    BY <2>1
  <2>3. m \in MainType
    <3>1. PICK d \in Setups :
            m = [cur |-> 0, size |-> FALSE, finished |-> 0, got_picture |-> FALSE,
                 freeing |-> FALSE, uctx |-> 0, draining |-> FALSE, eof |-> FALSE, setup |-> d]
      BY <2>1
    <3>2. 0 \in Nat
      OBVIOUS
    <3> QED
      BY <3>1, <3>2 DEF MainType
  <2> QED
    BY <2>2, <2>3 DEF Init
<1>2. ThreadCount \in Nat /\ ThreadCount >= 2 /\ MaxThreads \in Nat
  BY <1>1, SetupsAssumption, ThreadsAssumption DEF SetupType, ThreadCount
<1>3. 0 \in Threads /\ Threads = 0..(ThreadCount - 1)
  BY <1>2 DEF Threads
<1>4. /\ slot \in [Threads -> SlotType] /\ ctx \in [Threads -> CtxType]
      /\ \A t \in Threads : /\ slot[t].state = "INPUT_READY" /\ slot[t].got_frame = FALSE
                            /\ slot[t].hwaccel_serializing = FALSE
                            /\ slot[t].async_serializing = FALSE
                            /\ ctx[t].seen = 0 /\ ctx[t].hw = FALSE
  <2>1. ctx \in [Threads -> CtxType] /\ \A t \in Threads : ctx[t].seen = 0 /\ ctx[t].hw = FALSE
    BY DEF Init, FreshCtx, CtxType, NoFrame
  <2>2. /\ slot \in [Threads -> SlotType]
        /\ \A t \in Threads : /\ slot[t].state = "INPUT_READY" /\ slot[t].got_frame = FALSE
                              /\ slot[t].hwaccel_serializing = FALSE
                              /\ slot[t].async_serializing = FALSE
    BY DEF Init, SlotType, NoFrame, States
  <2> QED
    BY <2>1, <2>2
<1>5. /\ wpc \in [Threads -> Places \union FinishingSetup]
      /\ progress_wait \in [Threads -> SUBSET Nat]
      /\ \A t \in Threads : wpc[t] = "top"
  BY DEF Init, Places, BeforeSetup, Idle
<1>6. wloc \in [Threads -> LocalsType]
  <2>1. NoLocals \in LocalsType
    BY DEF NoLocals, LocalsType, Places, BeforeSetup, NoFrame
  <2> QED
    BY <2>1 DEF Init
<1>7. /\ fctx \in FctxType /\ fctx.prev_thread = None /\ fctx.next_decoding = 0
      /\ fctx.next_finished = 0
  <2>1. None \in Int
    BY DEF None
  <2> QED
    BY <2>1 DEF Init, FctxType
<1>8. h \in HistoryType /\ h.sub = 0 /\ h.out = <<>> /\ h.produced = {}
  <2>1. <<>> \in Seq(Nat)
    OBVIOUS
  <2> QED
    BY <2>1 DEF Init, HistoryType
<1>9. lock \in LockType /\ lock.async = Main
  <2>1. None \in Int /\ Main \in Int
    BY <1>2 DEF None, Main
  <2> QED
    BY <1>1, <2>1 DEF LockType
<1>10. FrameTypeOK
  <2>1. mpc \in MainPlaces
    BY <1>1 DEF MainPlaces
  <2> QED
    BY <1>1, <1>3, <1>4, <1>5, <1>6, <1>7, <1>8, <1>9, <2>1 DEF FrameTypeOK
<1>11. /\ mpc \notin Submitted /\ mpc \notin Submitting /\ mpc \notin Collecting
       /\ mpc \notin InCall /\ mpc \notin Freeing /\ mpc # "delay" /\ Latest = None
  BY <1>1, <1>7 DEF Submitted, Submitting, Collecting, InCall, Freeing, Latest
<1>12. \A t \in Threads : ~Busy(t) /\ ~Loaded(t)
  BY <1>4 DEF Loaded, Busy
<1>13. RingInv
  <2>1. 0 <= ThreadCount
    BY <1>2
  <2> QED
    BY <1>3, <1>7, <1>11, <1>12, <2>1 DEF RingInv
<1>14. DelayInv
  <2>1. 0 <= ThreadCount - 2
    BY <1>2
  <2> QED
    BY <1>1, <1>7, <1>11, <2>1 DEF DelayInv
<1>15. LatestInv
  BY <1>3, <1>4, <1>7, <1>8, <1>11, <1>12 DEF LatestInv
<1>16. ParkInv /\ AsyncInv
  BY <1>1, <1>9, <1>11 DEF ParkInv, AsyncInv
<1>17. OutInv
  <2>1. DOMAIN h.out = {} /\ Outs = {}
    BY <1>8 DEF Outs
  <2>2. {slot[t].pkt : t \in {u \in Threads : slot[u].got_frame}} = {}
    BY <1>4
  <2> QED
    BY <1>1, <1>8, <1>12, <2>1, <2>2 DEF OutInv
<1>18. ASSUME NEW t \in Threads PROVE ThreadOK(t)
  <2>1. /\ At(t) = "top" /\ At(t) \in Idle /\ ~PastSetup(t) /\ wpc[t] = "top"
        /\ wpc[t] \notin FinishingSetup
    BY <1>5 DEF At, PastSetup, FinishingSetup, BeforeSetup, Idle
  <2>2. t # None
    BY <1>10, SetupFacts
  <2>3. WorkerOK(t)
    BY <1>4, <2>1 DEF WorkerOK, Busy
  <2>4. ContextOK(t)
    BY <1>4, <1>11, <1>12, <2>1, <2>2 DEF ContextOK
  <2>5. HwOK(t)
    BY <1>4, <1>12, <2>1 DEF HwOK
  <2> QED
    BY <2>3, <2>4, <2>5 DEF ThreadOK
<1> QED
  BY <1>10, <1>13, <1>14, <1>15, <1>16, <1>17, <1>18 DEF FrameInv

LEMMA NextInv ==
  ASSUME FrameInv, [Next]_vars
  PROVE  FrameInv'
<1>1. CASE UNCHANGED vars
  <2>1. UNCHANGED <<fctx, lock, slot, ctx, progress_wait, wpc, wloc, mpc, m, h>>
    BY <1>1 DEF vars
  <2>2. /\ UNCHANGED <<Threads, ThreadCount, Early, Latest, NextSlot, Outs, Main>>
        /\ \A t : UNCHANGED <<At(t), PastSetup(t), Busy(t), Loaded(t)>>
    BY <2>1 DEF Threads, ThreadCount, Early, Latest, NextSlot, Outs, Main, At, PastSetup, Busy, Loaded
  <2>3. \A t : UNCHANGED <<Back(t), Fwd(t), Alone(t)>>
    BY <2>1, <2>2 DEF Back, Fwd, Alone
  <2>4. FrameTypeOK' /\ DelayInv' /\ LatestInv' /\ ParkInv' /\ AsyncInv'
    BY <2>1, <2>2 DEF FrameInv, FrameTypeOK, DelayInv, LatestInv, ParkInv, AsyncInv
  <2>5. RingInv' /\ OutInv'
    BY <2>1, <2>2, <2>3 DEF FrameInv, RingInv, OutInv
  <2>6. \A t \in Threads : ThreadOK(t)'
    BY <2>1, <2>2, <2>3 DEF FrameInv, ThreadOK, WorkerOK, ContextOK, HwOK
  <2> QED
    BY <2>2, <2>4, <2>5, <2>6 DEF FrameInv
<1>2. CASE User
  BY <1>2, DecodeFrameStep, ParkBeginStep DEF User
<1>3. CASE SubmitLock
  <2>1. CASE mpc' = "submit_prev"
    BY <1>3, <2>1, KillStep
  <2>2. CASE mpc' # "submit_prev"
    BY <1>3, <2>2, DrainSkipsStep
  <2> QED
    BY <2>1, <2>2
<1>4. CASE MainStep
  BY <1>3, <1>4, WaitStep, SubmitPacketStep, ServiceGetBufferStep, AdvanceStep, DelayCheckStep,
     CollectWaitStep, CollectStep, DecodeFrameReturnStep, ParkStep, FlushStep, FreeBeginStep,
     KillStep, JoinStep DEF MainStep
<1>5. CASE \E t \in Threads : Worker(t) \/ ReleaseBuffer(t)
  BY <1>5, WorkerSteps
<1> QED
  BY <1>1, <1>2, <1>4, <1>5, UpdateFailsStep, WakeStep DEF Next, Freed

(***************************************************************************)
(* The invariant holds in every state the threads of pthread_frame.c and   *)
(* the user of ff_thread_decode_frame(), ff_thread_flush() and             *)
(* ff_frame_thread_free() can reach.                                       *)
(***************************************************************************)
THEOREM FrameInvariant == Spec => []FrameInv
<1>1. Init => FrameInv
  BY InitInv
<1>2. FrameInv /\ [Next]_vars => FrameInv'
  BY NextInv
<1> QED
  BY <1>1, <1>2, PTL DEF Spec

(***************************************************************************)
(* ff_thread_decode_frame() returns frames in the order of their packets,  *)
(* none twice, and a drain call that returns no frame has left none behind *)
(* in the threads.                                                         *)
(***************************************************************************)
THEOREM FramesInOrder == Spec => []OutputComplete
<1>1. FrameInv => OutputComplete
  <2> SUFFICES ASSUME FrameInv PROVE OutputComplete
    OBVIOUS
  <2>1. OutInv
    BY DEF FrameInv
  <2>2. ASSUME m.eof /\ ~h.sub_failed PROVE h.produced = {h.out[i] : i \in DOMAIN h.out}
    <3>1. \A t \in Threads : ~slot[t].got_frame
      BY <2>1, <2>2 DEF OutInv, Loaded
    <3>2. {slot[t].pkt : t \in {u \in Threads : slot[u].got_frame}} = {}
      BY <3>1
    <3> QED
      BY <2>1, <3>2 DEF OutInv, Outs
  <2> QED
    BY <2>1, <2>2 DEF OutputComplete, OutInv
<1> QED
  BY <1>1, FrameInvariant, PTL

(***************************************************************************)
(* A worker that calls codec->decode() has the context that the packet     *)
(* before left after its setup: submit_packet() never copies the context   *)
(* of a thread that is still setting it up, and copies the one of the      *)
(* thread that was submitted to last.                                      *)
(***************************************************************************)
THEOREM ContextHandedOn == Spec => []ContextChain
<1>1. FrameInv => ContextChain
  <2> SUFFICES ASSUME FrameInv, m.setup.update \/ ~m.setup.thread_safe,
                      NEW t \in Threads, wpc[t] = "setup"
               PROVE  ctx[t].seen = slot[t].pkt - 1
    BY DEF ContextChain
  <2>1. At(t) = "setup"
    BY DEF At, FinishingSetup
  <2>2. ~PastSetup(t) /\ At(t) \notin Idle
    BY <2>1 DEF PastSetup, BeforeSetup, Idle
  <2>3. ContextOK(t) /\ Busy(t)
    BY <2>2 DEF FrameInv, ThreadOK, WorkerOK
  <2> QED
    BY <2>2, <2>3 DEF ContextOK, Early
<1> QED
  BY <1>1, FrameInvariant, PTL

(***************************************************************************)
(* After a call that returned a frame the user's AVCodecContext is the one *)
(* of that frame's packet.                                                 *)
(***************************************************************************)
THEOREM UserSeesItsContext == Spec => []UserContext
<1>1. FrameInv => UserContext
  BY DEF FrameInv, OutInv, UserContext
<1> QED
  BY <1>1, FrameInvariant, PTL

(***************************************************************************)
(* hwaccel_mutex keeps hwaccel threads apart from the end of their setup   *)
(* on, and async_mutex keeps one that is not async safe inside             *)
(* ff_thread_decode_frame().                                               *)
(***************************************************************************)
THEOREM HwaccelAlone == Spec => []HwaccelExclusion
<1>1. FrameInv => HwaccelExclusion
  <2> SUFFICES ASSUME FrameInv PROVE HwaccelExclusion
    OBVIOUS
  <2> DEFINE Runs(t) == ctx[t].hw /\ wpc[t] \in {"decode", "await", "report", "output"}
  <2>1. ASSUME NEW t \in Threads, Runs(t)
        PROVE  Busy(t) /\ (lock.hwaccel = t \/ Alone(t)) /\ (slot[t].hwaccel_serializing \/ Alone(t))
    <3>1. WorkerOK(t) /\ ContextOK(t) /\ HwOK(t)
      BY DEF FrameInv, ThreadOK
    <3>2. At(t) = wpc[t] /\ At(t) \notin Idle
      BY <2>1 DEF At, FinishingSetup, Idle
    <3> QED
      BY <2>1, <3>1, <3>2 DEF WorkerOK, ContextOK, HwOK
  <2>2. ASSUME NEW t \in Threads, NEW u \in Threads, Runs(t), Runs(u) PROVE t = u
    BY <2>1, <2>2 DEF Alone
  <2>3. ASSUME mpc = "user", NEW t \in Threads, slot[t].async_serializing
        PROVE  wpc[t] \in {"fs_async", "fs_hw"}
    <3>1. lock.async = Main /\ Main # t
      BY <2>3, SetupFacts DEF FrameInv, AsyncInv
    <3> QED
      BY <2>3, <3>1 DEF FrameInv, ThreadOK, HwOK
  <2> QED
    BY <2>2, <2>3 DEF HwaccelExclusion
<1> QED
  BY <1>1, FrameInvariant, PTL

(***************************************************************************)
(* Between two calls at most thread_count - 1 packets are inside the       *)
(* decoder: ff_thread_decode_frame() leaves the thread it will submit to   *)
(* next empty.                                                             *)
(***************************************************************************)
THEOREM DelayBounded == Spec => []BoundedDelay
<1>1. FrameInv => BoundedDelay
  <2> SUFFICES ASSUME FrameInv, mpc = "user"
               PROVE  Cardinality({t \in Threads : \/ slot[t].state # "INPUT_READY"
                                                   \/ slot[t].got_frame}) < ThreadCount
    BY DEF BoundedDelay
  <2> DEFINE L == {t \in Threads : slot[t].state # "INPUT_READY" \/ slot[t].got_frame}
  <2>1. PICK n \in Threads : n \notin L
    <3>1. fctx.next_decoding \in Threads /\ ~Loaded(fctx.next_decoding)
      <4>1. mpc \notin Submitted \union Collecting \union {"delay"}
        BY DEF Submitted, Collecting
      <4> QED
        BY <4>1, NextFree DEF FrameInv, RingInv
    <3> QED
      BY <3>1 DEF Loaded, Busy
  <2>2. ThreadCount \in Nat /\ Threads = 0..(ThreadCount - 1)
    BY SetupFacts DEF FrameInv
  <2>3. IsFiniteSet(Threads) /\ Cardinality(Threads) = ThreadCount
    BY <2>2, FS_Interval
  <2>4. L \subseteq Threads /\ L # Threads
    BY <2>1
  <2> HIDE DEF L
  <2>5. Cardinality(L) < Cardinality(Threads)
    <3>1. IsFiniteSet(L) /\ Cardinality(L) <= Cardinality(Threads) /\ Cardinality(L) # Cardinality(Threads)
      BY <2>3, <2>4, FS_Subset
    <3>2. Cardinality(L) \in Nat /\ Cardinality(Threads) \in Nat
      BY <2>3, <3>1, FS_CardinalityType
    <3> QED
      BY <3>1, <3>2
  <2> QED
    BY <2>3, <2>5 DEF L
<1> QED
  BY <1>1, FrameInvariant, PTL

---------------------------------------------------------------------------
(***************************************************************************)
(* The ring is a delay line.                                               *)
(***************************************************************************)

(* Once the ring is full, and until the end is drained, the thread to be   *)
(* collected is the one submitted to longest ago.                          *)
Shifted == mpc \in Submitted \union Collecting \union {"delay"}
Supplied == Submitted \union {"submit_prev", "wait_prev"}
LatencyInv ==
  /\ ~fctx.delaying /\ ~m.draining =>
       Back(fctx.next_finished) = ThreadCount - IF Shifted THEN 1 ELSE 2
  /\ mpc \in Collecting /\ m.size => m.finished = fctx.next_finished
  /\ mpc \in Supplied => m.size \/ m.setup.delay

LEMMA LatencyInit == Init => LatencyInv
<1> SUFFICES ASSUME Init PROVE LatencyInv
  OBVIOUS
<1>1. mpc = "user" /\ fctx.delaying
  BY DEF Init
<1> QED
  BY <1>1 DEF LatencyInv, Collecting, Supplied, Submitted

(* Steps that leave the ring and the call as they are. *)
LEMMA LatencyStill ==
  ASSUME LatencyInv, fctx' = fctx, m'.setup = m.setup, m'.size = m.size, m'.draining = m.draining,
         mpc' \in Submitted <=> mpc \in Submitted,
         mpc' \in Collecting <=> mpc \in Collecting,
         mpc' = "delay" <=> mpc = "delay",
         mpc \in Collecting => m'.finished = m.finished,
         mpc' \in Supplied => mpc \in Supplied \/ m.size \/ m.setup.delay
  PROVE  LatencyInv'
<1>1. ThreadCount' = ThreadCount /\ Shifted' = Shifted
  BY SetupQuiet DEF Shifted
<1>2. NextSlot' = NextSlot
  BY DEF NextSlot
<1>3. Back(fctx.next_finished)' = Back(fctx.next_finished)
  BY <1>1, <1>2 DEF Back
<1> QED
  BY <1>1, <1>3 DEF LatencyInv

(* A worker moves neither the ring nor the call. *)
LEMMA WorkerLatency ==
  ASSUME FrameInv, LatencyInv, NEW t \in Threads, Worker(t) \/ ReleaseBuffer(t)
  PROVE  LatencyInv'
<1>1. UNCHANGED <<fctx, m>>
  BY DEF Worker, WorkerTop, WorkerInput, WorkerStart, WorkerLock, WorkerHw, Setup,
         GetBuffer, GetBufferRefused, GetBufferSignal, GetBufferWake, GetBufferDone, GetBufferOut,
         FinishSetupHw, FinishSetupAsync, FinishSetupSet, AwaitProgress, ReportProgress,
         DecodeReturns, Return, Finish, Ready, Signal, ReleaseBuffer
<1>2. \/ mpc' = mpc
      \/ mpc \in Collecting /\ mpc' \in Collecting
      \/ mpc \in {"park", "park_wait"} /\ mpc' \in {"park", "park_wait"}
  BY DEF Worker, WorkerTop, WorkerInput, WorkerStart, WorkerLock, WorkerHw, Setup,
         GetBuffer, GetBufferRefused, GetBufferSignal, GetBufferWake, GetBufferDone, GetBufferOut,
         FinishSetupHw, FinishSetupAsync, FinishSetupSet, AwaitProgress, ReportProgress,
         DecodeReturns, Return, Finish, Ready, Signal, WakeOutput, ReleaseBuffer, Collecting
<1> QED
  BY <1>1, <1>2, LatencyStill DEF Submitted, Collecting, Supplied

(* Steps of the user's thread outside ff_thread_decode_frame(), its waits  *)
(* and its returns.                                                        *)
LEMMA MainLatency ==
  ASSUME FrameInv, LatencyInv,
         \/ WaitPrev \/ ServiceDone \/ ServiceWait \/ ServiceWake \/ ServiceGetBuffer
         \/ CollectWait \/ DecodeFrameReturn \/ UpdateFails \/ SpuriousWakeup
         \/ (\E freeing \in BOOLEAN : ParkBegin(freeing)) \/ Park \/ FreeBegin \/ Kill \/ Join
  PROVE  LatencyInv'
<1>1. fctx' = fctx
  BY DEF WaitPrev, ServiceDone, ServiceWait, ServiceWake, ServiceGetBuffer, CollectWait,
         DecodeFrameReturn, UpdateFails, SpuriousWakeup, ParkBegin, Park, FreeBegin, Kill, Join
<1>2. /\ m'.setup = m.setup /\ m'.size = m.size /\ m'.draining = m.draining
      /\ m'.finished = m.finished
  <2>1. \/ m' = m \/ \E x : \/ m' = [m EXCEPT !.cur = x]
                            \/ m' = [m EXCEPT !.eof = x]
                            \/ \E y : m' = [m EXCEPT !.cur = x, !.freeing = y]
    BY DEF WaitPrev, ServiceDone, ServiceWait, ServiceWake, ServiceGetBuffer, CollectWait,
           DecodeFrameReturn, UpdateFails, SpuriousWakeup, ParkBegin, Park, FreeBegin, Kill, Join
  <2> QED
    BY <2>1 DEF FrameInv, FrameTypeOK, MainType
<1>3. /\ mpc' \in Submitted <=> mpc \in Submitted
      /\ mpc' \in Collecting <=> mpc \in Collecting
      /\ mpc' = "delay" <=> mpc = "delay"
      /\ mpc' \in Supplied => mpc \in Supplied
  BY DEF WaitPrev, AtPrev, ServiceDone, ServiceWait, ServiceWake, ServiceGetBuffer, CollectWait,
         DecodeFrameReturn, UpdateFails, SpuriousWakeup, ParkBegin, Park, FreeBegin, Kill, Join,
         Submitted, Collecting, Supplied
<1> QED
  BY <1>1, <1>2, <1>3, LatencyStill

(* A call starts; nothing is submitted to drain a codec without delay. *)
LEMMA SubmitLatency ==
  ASSUME FrameInv, LatencyInv, (\E sz \in BOOLEAN : DecodeFrame(sz)) \/ SubmitLock
  PROVE  LatencyInv'
<1>1. CASE \E sz \in BOOLEAN : DecodeFrame(sz)
  <2>1. PICK sz \in BOOLEAN : DecodeFrame(sz)
    BY <1>1
  <2>2. /\ fctx' = fctx /\ mpc = "user" /\ mpc' = "submit" /\ (sz => ~m.draining)
        /\ m'.setup = m.setup /\ m'.draining = ~sz
    BY <2>1 DEF DecodeFrame, FrameInv, FrameTypeOK, MainType
  <2>3. ThreadCount' = ThreadCount /\ NextSlot' = NextSlot /\ ~Shifted /\ ~Shifted'
    BY <2>2, SetupQuiet DEF NextSlot, Shifted, Submitted, Collecting
  <2>4. Back(fctx.next_finished)' = Back(fctx.next_finished)
    BY <2>2, <2>3 DEF Back
  <2> QED
    BY <2>2, <2>3, <2>4 DEF LatencyInv, Collecting, Supplied, Submitted
<1>2. CASE SubmitLock
  <2>1. UNCHANGED <<fctx, m>> /\ mpc = "submit"
    BY <1>2 DEF SubmitLock
  <2>2. CASE mpc' = "submit_prev" /\ (m.size \/ m.setup.delay)
    BY <2>1, <2>2, LatencyStill DEF Submitted, Collecting, Supplied
  <2>3. CASE mpc' = "delay" /\ ~m.size
    <3>1. m.draining
      BY <2>1, <2>3 DEF FrameInv, DelayInv, InCall, Submitting
    <3> QED
      BY <2>1, <2>3, <3>1 DEF LatencyInv, Collecting, Supplied, Submitted
  <2> QED
    BY <1>2, <2>2, <2>3 DEF SubmitLock
<1> QED
  BY <1>1, <1>2

(* A packet is submitted, and the ring moves on by one. *)
LEMMA ShiftLatency ==
  ASSUME FrameInv, LatencyInv, SubmitPacket \/ Advance
  PROVE  LatencyInv'
<1>1. /\ ThreadCount \in Nat /\ ThreadCount >= 2 /\ Threads = 0..(ThreadCount - 1)
      /\ fctx.next_finished \in Threads /\ fctx.next_decoding \in Nat
  BY SetupFacts, FctxFields DEF FrameInv, FrameTypeOK, RingInv
<1>2. CASE SubmitPacket
  <2>1. UNCHANGED <<fctx, m>> /\ mpc \in {"submit_prev", "wait_prev"} /\ mpc' \in Submitted
    BY <1>2 DEF SubmitPacket, AtPrev, Submitted
  <2>2. /\ mpc \notin Submitted /\ mpc \notin Collecting \union {"delay"} /\ mpc' \notin Collecting
        /\ ~Shifted /\ Shifted' /\ mpc \in Supplied
    BY <2>1 DEF Submitted, Collecting, Shifted, Supplied
  <2>3. NextSlot = fctx.next_decoding /\ NextSlot' = fctx.next_decoding + 1
    BY <1>1, <2>1, <2>2 DEF NextSlot
  <2>4. fctx.next_decoding \in Threads
    BY <2>2 DEF FrameInv, RingInv
  <2>5. ThreadCount' = ThreadCount
    BY <2>1, SetupQuiet
  <2>6. Back(fctx.next_finished) = ThreadCount - 2 => Back(fctx.next_finished)' = ThreadCount - 1
    <3>1. PICK d, f, T \in Nat : d = fctx.next_decoding /\ f = fctx.next_finished /\ T = ThreadCount
      BY <1>1
    <3>2. d \in 0..(T - 1) /\ f \in 0..(T - 1)
      BY <1>1, <2>4, <3>1
    <3>3. Back(fctx.next_finished) = d - 1 - f + IF f < d THEN 0 ELSE T
      BY <2>3, <3>1 DEF Back
    <3>4. Back(fctx.next_finished)' = d + 1 - 1 - f + IF f < d + 1 THEN 0 ELSE T
      BY <2>1, <2>3, <2>5, <3>1 DEF Back
    <3>5. d - 1 - f + (IF f < d THEN 0 ELSE T) = T - 2 =>
            d + 1 - 1 - f + (IF f < d + 1 THEN 0 ELSE T) = T - 1
      BY <3>2
    <3> QED
      BY <2>5, <3>1, <3>3, <3>4, <3>5
  <2> QED
    BY <2>1, <2>2, <2>5, <2>6 DEF LatencyInv
<1>3. CASE Advance
  <2>1. /\ mpc = "advance" /\ mpc' = "delay" /\ m' = m
        /\ fctx'.next_finished = fctx.next_finished /\ fctx'.delaying = fctx.delaying
        /\ fctx'.next_decoding = fctx.next_decoding + 1
    BY <1>3 DEF Advance, FrameInv, FrameTypeOK, FctxType
  <2>2. ThreadCount' = ThreadCount /\ NextSlot' = NextSlot /\ Shifted /\ Shifted'
    BY <1>1, <2>1, SetupQuiet DEF NextSlot, Submitted, Shifted
  <2>3. Back(fctx.next_finished)' = Back(fctx.next_finished)
    BY <2>1, <2>2 DEF Back
  <2> QED
    BY <2>1, <2>2, <2>3 DEF LatencyInv, Collecting, Supplied, Submitted
<1> QED
  BY <1>2, <1>3

(* The ring is full. *)
LEMMA DelayCheckLatency ==
  ASSUME FrameInv, LatencyInv, DelayCheck
  PROVE  LatencyInv'
<1>1. /\ ThreadCount \in Nat /\ ThreadCount >= 2 /\ Threads = 0..(ThreadCount - 1)
      /\ fctx.next_finished \in Threads /\ fctx.next_decoding \in Nat
  BY SetupFacts, FctxFields DEF FrameInv, FrameTypeOK, RingInv
<1>2. /\ mpc = "delay" /\ m' = m /\ m.draining = ~m.size /\ m.finished = fctx.next_finished
      /\ fctx'.next_finished = fctx.next_finished /\ fctx'.next_decoding = fctx.next_decoding
      /\ fctx'.delaying = (fctx.delaying /\ ~PipeFull)
      /\ mpc' = IF fctx.delaying /\ m.size THEN "return" ELSE "collect"
  BY DEF DelayCheck, FrameInv, FrameTypeOK, FctxType, DelayInv, InCall, RingInv
<1>3. ThreadCount' = ThreadCount /\ NextSlot' = fctx.next_decoding /\ NextSlot = fctx.next_decoding
  BY <1>1, <1>2, SetupQuiet DEF NextSlot, Submitted
<1>4. Back(fctx.next_finished)' = Back(fctx.next_finished)
  BY <1>2, <1>3 DEF Back
<1>5. mpc' \notin Supplied /\ Shifted /\ (Shifted' <=> mpc' = "collect")
  BY <1>2 DEF Supplied, Submitted, Collecting, Shifted
<1>6. CASE mpc' = "collect"
  BY <1>2, <1>3, <1>4, <1>5, <1>6 DEF LatencyInv
<1>7. CASE mpc' = "return"
  <2>1. mpc' \notin Collecting /\ fctx.delaying /\ ~m.draining
    BY <1>2, <1>7 DEF Collecting
  <2>2. fctx.next_finished = 0 /\ fctx.next_decoding <= ThreadCount - 1
    BY <1>2, <2>1 DEF FrameInv, DelayInv
  <2>3. ~fctx'.delaying => fctx.next_decoding = ThreadCount - 1
    <3>1. ~fctx'.delaying => fctx.next_decoding >= ThreadCount - 1
      BY <1>2, <2>1 DEF PipeFull
    <3> QED
      BY <1>1, <2>2, <3>1
  <2>4. ~fctx'.delaying => Back(fctx.next_finished) = ThreadCount - 2
    BY <1>1, <1>3, <2>2, <2>3 DEF Back
  <2> QED
    BY <1>2, <1>3, <1>4, <1>5, <1>7, <2>1, <2>4 DEF LatencyInv
<1> QED
  BY <1>2, <1>6, <1>7

(* A frame is collected, and the thread behind becomes the oldest. *)
LEMMA CollectLatency ==
  ASSUME FrameInv, LatencyInv, Collect
  PROVE  LatencyInv'
<1>1. /\ mpc = "collect" /\ m.draining = ~m.size /\ mpc \notin Supplied /\ mpc \in Collecting
      /\ m'.setup = m.setup /\ m'.size = m.size /\ m'.draining = m.draining /\ m.finished \in Threads
  BY MainThread DEF Collect, FrameInv, FrameTypeOK, MainType, DelayInv, InCall, Collecting, Supplied, Submitted
<1>2. CASE KeepLooking(m.finished)
  <2>1. UNCHANGED <<mpc, fctx>> /\ ~m.size
    BY <1>2 DEF Collect, KeepLooking
  <2> QED
    BY <1>1, <2>1 DEF LatencyInv
<1>3. CASE ~KeepLooking(m.finished)
  <2>0. PICK g \in Threads : g = Wrapped(m.finished + 1)
    BY <1>1, RingOrder DEF FrameInv
  <2>1. /\ mpc' = "return" /\ fctx'.next_decoding = Wrapped(fctx.next_decoding)
        /\ fctx'.next_finished = g /\ fctx'.delaying = fctx.delaying
    BY <1>3, <2>0 DEF Collect, FrameInv, FrameTypeOK, FctxType
  <2>2. mpc' \notin Collecting /\ mpc' \notin Supplied /\ ~Shifted' /\ Shifted
    BY <1>1, <2>1 DEF Collecting, Supplied, Submitted, Shifted
  <2>3. SUFFICES ASSUME ~m.draining, ~fctx.delaying
                 PROVE  Back(fctx.next_finished)' = ThreadCount - 2
    BY <1>1, <2>1, <2>2, SetupQuiet DEF LatencyInv
  <2>4. m.finished = fctx.next_finished /\ Back(fctx.next_finished) = ThreadCount - 1
    BY <1>1, <2>2, <2>3 DEF LatencyInv
  <2>5. /\ ThreadCount \in Nat /\ ThreadCount >= 2 /\ Threads = 0..(ThreadCount - 1)
        /\ fctx.next_decoding \in 0..ThreadCount
    BY SetupFacts, FctxFields DEF FrameInv, FrameTypeOK, RingInv
  <2>6. Fwd(fctx.next_finished) = 0
    BY <1>1, <2>4, <2>5 DEF Fwd
  <2>7. Fwd(g) = 1
    <3>1. /\ g = fctx.next_finished => Fwd(m.finished) = ThreadCount - 1
          /\ g # fctx.next_finished => Fwd(g) = Fwd(m.finished) + 1
      BY <1>1, <2>0, RingOrder DEF FrameInv
    <3> QED
      BY <2>4, <2>5, <2>6, <3>1
  <2>8. Back(g) = ThreadCount - 2
    <3>1. Fwd(g) <= Back(fctx.next_finished) => Back(g) = Back(fctx.next_finished) - Fwd(g)
      BY RingOrder DEF FrameInv
    <3> QED
      BY <2>4, <2>5, <2>7, <3>1
  <2>9. ThreadCount' = ThreadCount /\ NextSlot' = Wrapped(fctx.next_decoding)
    BY <1>1, <2>1, <2>5, SetupQuiet DEF NextSlot, Submitted, Wrapped
  <2>10. NextSlot = fctx.next_decoding
    BY <1>1, <2>5 DEF NextSlot, Submitted
  <2>11. Back(g)' = Back(g)
    <3>1. Wrapped(fctx.next_decoding) = IF fctx.next_decoding = ThreadCount THEN 0 ELSE fctx.next_decoding
      BY <2>5 DEF Wrapped
    <3> QED
      BY <2>5, <2>9, <2>10, <3>1 DEF Back
  <2> QED
    <3>1. Back(fctx.next_finished)' = Back(g)'
      BY <2>1 DEF Back
    <3> QED
      BY <2>8, <2>11, <3>1
<1> QED
  BY <1>2, <1>3

LEMMA LatencyNext ==
  ASSUME FrameInv, LatencyInv, [Next]_vars
  PROVE  LatencyInv'
<1>1. CASE UNCHANGED vars
  BY <1>1, LatencyStill DEF vars
<1>2. CASE Flush
  <2>1. mpc' = "user" /\ fctx'.delaying
    BY <1>2 DEF Flush
  <2> QED
    BY <2>1 DEF LatencyInv, Collecting, Supplied, Submitted
<1>3. CASE User
  BY <1>3, SubmitLatency, MainLatency DEF User
<1>4. CASE MainStep
  BY <1>2, <1>4, SubmitLatency, MainLatency, ShiftLatency, DelayCheckLatency, CollectLatency
     DEF MainStep
<1>5. CASE \E t \in Threads : Worker(t) \/ ReleaseBuffer(t)
  BY <1>5, WorkerLatency
<1> QED
  BY <1>1, <1>3, <1>4, <1>5, MainLatency DEF Next, Freed

---------------------------------------------------------------------------
(***************************************************************************)
(* The delay line: steps of the workers.                                   *)
(***************************************************************************)
(* The line does not move while the user's thread stays in its phase of    *)
(* the call and no thread gets or loses a packet or a frame.               *)
LEMMA PhaseQuiet ==
  ASSUME MainQuiet, m'.setup = m.setup, m'.size = m.size
  PROVE  CallPhase' = CallPhase
  BY DEF CallPhase, MainQuiet

LEMMA LineStill ==
  ASSUME FrameInv, m'.setup = m.setup, m'.size = m.size, CallPhase' = CallPhase,
         h'.sub = h.sub, h'.out = h.out, h'.sub_failed = h.sub_failed,
         \A t \in Threads : /\ slot'[t].pkt = slot[t].pkt
                            /\ slot'[t].got_frame = slot[t].got_frame
                            /\ Busy(t)' <=> Busy(t)
  PROVE  UNCHANGED Line!vars
<1>1. Threads' = Threads /\ ThreadCount' = ThreadCount
  BY SetupQuiet
<1>2. PacketsInside' = PacketsInside
  BY <1>1 DEF PacketsInside, Busy
<1>3. FramesInside' = FramesInside
  BY <1>1 DEF FramesInside
<1> QED
  BY <1>1, <1>2, <1>3 DEF Line!vars

(* What is inside, by thread. *)
LEMMA InsideIs ==
  /\ PacketsInside = {slot[t].pkt : t \in {u \in Threads : Loaded(u)}}
  /\ \A n : n \in PacketsInside <=> \E t \in Threads : Loaded(t) /\ n = slot[t].pkt
  /\ \A n : n \in FramesInside <=> \E t \in Threads : slot[t].got_frame /\ n = slot[t].pkt
  /\ \A t \in Threads : Loaded(t) => slot[t].pkt \in PacketsInside
  /\ \A t \in Threads : slot[t].got_frame => Loaded(t) /\ slot[t].pkt \in FramesInside
  BY DEF PacketsInside, FramesInside, Loaded, Busy

(* No two threads have the same packet. *)
LEMMA PacketsDistinct ==
  ASSUME FrameInv, NEW t \in Threads, NEW u \in Threads, Loaded(t), Loaded(u),
         slot[t].pkt = slot[u].pkt
  PROVE  t = u
<1>1. slot[t].pkt = h.sub - Back(t) /\ slot[u].pkt = h.sub - Back(u)
  BY DEF FrameInv, RingInv
<1>2. Back(t) \in Int /\ Back(u) \in Int /\ h.sub \in Int
  BY BackFacts, HistoryFields DEF FrameInv, FrameTypeOK
<1>3. \A a, b, c \in Int : c - a = c - b => a = b
  OBVIOUS
<1>4. Back(t) = Back(u)
  BY <1>1, <1>2, <1>3
<1> QED
  BY <1>4, BackFacts DEF FrameInv

(* A worker whose fields other than pkt and got_frame change, and which    *)
(* stays busy or idle.                                                     *)
LEMMA WorkerStill ==
  ASSUME FrameInv, NEW t \in Threads, UNCHANGED <<fctx, mpc, m>>,
         h'.sub = h.sub, h'.out = h.out, h'.sub_failed = h.sub_failed,
         NEW s \in SlotType, slot' = [slot EXCEPT ![t] = s],
         s.pkt = slot[t].pkt, s.got_frame = slot[t].got_frame,
         s.state = "INPUT_READY" <=> slot[t].state = "INPUT_READY"
  PROVE  UNCHANGED Line!vars
<1>1. slot'[t] = s /\ \A u \in Threads : u # t => slot'[u] = slot[u]
  BY SlotChanges DEF FrameInv
<1>2. CallPhase' = CallPhase
  BY DEF CallPhase
<1>3. \A u \in Threads : /\ slot'[u].pkt = slot[u].pkt
                         /\ slot'[u].got_frame = slot[u].got_frame
                         /\ Busy(u)' <=> Busy(u)
  BY <1>1 DEF Busy
<1> QED
  BY <1>2, <1>3, LineStill

(* The history a worker does not touch. *)
LEMMA WorkerHistory ==
  ASSUME FrameInv, NEW p, NEW q,
         \/ UNCHANGED h
         \/ h' = [h EXCEPT !.progress = p]
         \/ h' = [h EXCEPT !.produced = q]
  PROVE  h'.sub = h.sub /\ h'.out = h.out /\ h'.sub_failed = h.sub_failed
  BY DEF FrameInv, FrameTypeOK, HistoryType

(* The steps of a worker that leave its PerThreadContext alone. *)
LEMMA WorkerQuietLine ==
  ASSUME FrameInv, NEW t \in Threads,
         \/ WorkerTop(t) \/ WorkerInput(t) \/ WorkerStart(t) \/ WorkerLock(t)
         \/ GetBufferSignal(t) \/ GetBufferWake(t) \/ GetBufferDone(t)
         \/ FinishSetupAsync(t) \/ AwaitProgress(t) \/ ReportProgress(t) \/ Return(t) \/ Signal(t)
  PROVE  UNCHANGED Line!vars
<1>1. UNCHANGED <<fctx, slot, m>>
  BY DEF WorkerTop, WorkerInput, WorkerStart, WorkerLock, GetBufferSignal, GetBufferWake,
         GetBufferDone, FinishSetupAsync, AwaitProgress, ReportProgress, Return, Signal
<1>2. h'.sub = h.sub /\ h'.out = h.out /\ h'.sub_failed = h.sub_failed
  <2>1. \/ UNCHANGED h
        \/ h' = [h EXCEPT !.progress = h.progress \union {slot[t].pkt}]
    BY DEF WorkerTop, WorkerInput, WorkerStart, WorkerLock, GetBufferSignal, GetBufferWake,
           GetBufferDone, FinishSetupAsync, AwaitProgress, ReportProgress, Return, Signal
  <2> QED
    BY <2>1, WorkerHistory
<1>3. MainQuiet
  <2>1. CASE UNCHANGED mpc
    BY <2>1, MainStays DEF FrameInv, FrameTypeOK
  <2>2. CASE Signal(t)
    <3>1. \/ mpc' = mpc
          \/ mpc \in Collecting /\ mpc' \in Collecting
          \/ mpc \in {"park", "park_wait"} /\ mpc' \in {"park", "park_wait"}
      BY <2>2 DEF Signal, WakeOutput, Collecting
    <3> QED
      BY <3>1, MainStays DEF FrameInv, FrameTypeOK
  <2> QED
    BY <2>1, <2>2 DEF WorkerTop, WorkerInput, WorkerStart, WorkerLock, GetBufferSignal,
         GetBufferWake, GetBufferDone, FinishSetupAsync, AwaitProgress, ReportProgress, Return
<1>4. CallPhase' = CallPhase
  BY <1>1, <1>3, PhaseQuiet
<1> QED
  BY <1>1, <1>2, <1>4, LineStill DEF Busy

(* The steps of a worker that change other fields of it. *)
LEMMA WorkerFieldsLine ==
  ASSUME FrameInv, NEW t \in Threads,
         \/ Setup(t) \/ GetBufferRefused(t) \/ GetBufferOut(t) \/ ReleaseBuffer(t)
         \/ FinishSetupHw(t) \/ Finish(t)
  PROVE  UNCHANGED Line!vars
<1> DEFINE fail == [slot[t] EXCEPT !.result = -1]
           release == [slot[t] EXCEPT !.released = TRUE]
           serialize == [slot[t] EXCEPT !.hwaccel_serializing = TRUE,
                                        !.async_serializing = m.setup.hwaccel = "unsafe"]
           finish == [slot[t] EXCEPT !.hwaccel_serializing = FALSE, !.async_serializing = FALSE]
<1>1. UNCHANGED <<fctx, mpc, m>>
  BY DEF Setup, GetBufferRefused, GetBufferOut, ReleaseBuffer, FinishSetupHw, Finish
<1>2. h'.sub = h.sub /\ h'.out = h.out /\ h'.sub_failed = h.sub_failed
  <2>1. \/ UNCHANGED h
        \/ h' = [h EXCEPT !.progress = h.progress \union {slot[t].pkt}]
    BY DEF Setup, GetBufferRefused, GetBufferOut, ReleaseBuffer, FinishSetupHw, Finish
  <2> QED
    BY <2>1, WorkerHistory
<1>3. slot \in [Threads -> SlotType] /\ slot[t] \in SlotType
  BY DEF FrameInv, FrameTypeOK
<1>4. \/ slot' = [slot EXCEPT ![t] = slot[t]] \/ slot' = [slot EXCEPT ![t] = fail]
      \/ slot' = [slot EXCEPT ![t] = release] \/ slot' = [slot EXCEPT ![t] = serialize]
      \/ slot' = [slot EXCEPT ![t] = finish]
  <2>1. CASE Setup(t) \/ GetBufferRefused(t) \/ GetBufferOut(t)
    <3>1. slot' = slot \/ slot' = [slot EXCEPT ![t].result = -1]
      BY <2>1 DEF Setup, GetBufferRefused, GetBufferOut, CodecFails
    <3> QED
      BY <1>3, <3>1
  <2>2. CASE ReleaseBuffer(t)
    BY <1>3, <2>2 DEF ReleaseBuffer
  <2>3. CASE FinishSetupHw(t)
    BY <1>3, <2>3 DEF FinishSetupHw
  <2>4. CASE Finish(t)
    BY <1>3, <2>4 DEF Finish
  <2> QED
    BY <2>1, <2>2, <2>3, <2>4
<1> DEFINE Same(s) == /\ s \in SlotType /\ s.pkt = slot[t].pkt /\ s.got_frame = slot[t].got_frame
                      /\ s.state = slot[t].state
<1>5. \A s \in {slot[t], fail, release, serialize, finish} : Same(s)
  <2>1. Same(slot[t]) /\ Same(fail)
    BY <1>3 DEF SlotType
  <2>2. Same(release)
    BY <1>3 DEF SlotType
  <2>3. Same(serialize)
    BY <1>3 DEF SlotType
  <2>4. Same(finish)
    BY <1>3 DEF SlotType
  <2> HIDE DEF Same, fail, release, serialize, finish
  <2> QED
    BY <2>1, <2>2, <2>3, <2>4
<1> HIDE DEF fail, release, serialize, finish
<1>6. PICK s \in {slot[t], fail, release, serialize, finish} : slot' = [slot EXCEPT ![t] = s]
  BY <1>4
<1> QED
  BY <1>1, <1>2, <1>5, <1>6, WorkerStill

(* The steps of a worker with a packet that keep it busy. *)
LEMMA WorkerBusyLine ==
  ASSUME FrameInv, NEW t \in Threads, WorkerHw(t) \/ GetBuffer(t) \/ FinishSetupSet(t)
  PROVE  UNCHANGED Line!vars
<1> DEFINE hw == [slot[t] EXCEPT !.hwaccel_serializing = ctx[t].hw,
                                 !.frame = NoFrame, !.got_frame = FALSE]
           ask == [slot[t] EXCEPT !.state = "GET_BUFFER"]
           set == [slot[t] EXCEPT !.state = "SETUP_FINISHED"]
<1>1. UNCHANGED <<fctx, mpc, m, h>>
  BY DEF WorkerHw, GetBuffer, FinishSetupSet
<1>2. slot \in [Threads -> SlotType] /\ slot[t] \in SlotType /\ ctx[t].hw \in BOOLEAN
  BY ThreadFields DEF FrameInv, FrameTypeOK
<1>3. WorkerOK(t)
  BY DEF FrameInv, ThreadOK
<1>4. slot[t].state # "INPUT_READY"
  <2>1. CASE WorkerHw(t) \/ GetBuffer(t)
    <3>1. At(t) = wpc[t] /\ wpc[t] \in {"lock_hw", "getbuf", "decode"}
      BY <2>1 DEF WorkerHw, GetBuffer, AtGetBuffer, At, FinishingSetup
    <3> QED
      BY <1>3, <3>1 DEF WorkerOK, Idle, Busy
  <2>2. CASE FinishSetupSet(t)
    <3>1. At(t) \in {"lock", "gb_out", "decode", "finish"}
      BY <1>3, <2>2 DEF FinishSetupSet, WorkerOK, At, FinishingSetup
    <3> QED
      BY <1>3, <3>1 DEF WorkerOK, Idle, Busy
  <2> QED
    BY <2>1, <2>2
<1>5. WorkerHw(t) => slot[t].got_frame = FALSE
  <2>1. WorkerHw(t) => At(t) = "lock_hw"
    BY DEF WorkerHw, At, FinishingSetup
  <2>2. WorkerHw(t) => ~slot[t].got_frame
    BY <1>3, <2>1 DEF WorkerOK, Idle
  <2> QED
    BY <1>2, <2>2 DEF SlotType
<1>6. \/ slot' = [slot EXCEPT ![t] = slot[t]]
      \/ slot' = [slot EXCEPT ![t] = hw] /\ slot[t].got_frame = FALSE
      \/ slot' = [slot EXCEPT ![t] = ask] \/ slot' = [slot EXCEPT ![t] = set]
  <2>1. CASE WorkerHw(t)
    BY <1>2, <1>5, <2>1 DEF WorkerHw
  <2>2. CASE GetBuffer(t)
    <3>1. slot' = slot \/ slot' = [slot EXCEPT ![t].state = "GET_BUFFER"]
      BY <2>2 DEF GetBuffer
    <3> QED
      BY <1>2, <3>1
  <2>3. CASE FinishSetupSet(t)
    BY <1>2, <2>3 DEF FinishSetupSet
  <2> QED
    BY <2>1, <2>2, <2>3
<1>7. /\ hw \in SlotType /\ hw.pkt = slot[t].pkt /\ hw.state = slot[t].state /\ hw.got_frame = FALSE
      /\ ask \in SlotType /\ ask.pkt = slot[t].pkt /\ ask.got_frame = slot[t].got_frame
      /\ ask.state = "GET_BUFFER"
      /\ set \in SlotType /\ set.pkt = slot[t].pkt /\ set.got_frame = slot[t].got_frame
      /\ set.state = "SETUP_FINISHED"
  BY <1>2 DEF SlotType, States, NoFrame
<1> HIDE DEF hw, ask, set
<1>8. PICK s \in {slot[t], hw, ask, set} :
        /\ slot' = [slot EXCEPT ![t] = s]
        /\ s.got_frame = slot[t].got_frame
  BY <1>6, <1>7
<1>9. s \in SlotType /\ s.pkt = slot[t].pkt /\ s.state # "INPUT_READY"
  BY <1>2, <1>4, <1>7, <1>8
<1> QED
  BY <1>1, <1>4, <1>8, <1>9, WorkerStill

(* A packet has been decoded: with a frame ... *)
LEMMA DecodeReturnsLine ==
  ASSUME FrameInv, NEW t \in Threads, DecodeReturns(t)
  PROVE  Line!Next \/ UNCHANGED Line!vars
<1> DEFINE frame == [slot[t] EXCEPT !.result = 0, !.frame = slot[t].pkt, !.got_frame = TRUE]
           none == [slot[t] EXCEPT !.result = 0]
           fail == [slot[t] EXCEPT !.result = -1]
<1>1. UNCHANGED <<fctx, mpc, m>>
  BY DEF DecodeReturns
<1>2. slot \in [Threads -> SlotType] /\ slot[t] \in SlotType
  BY DEF FrameInv, FrameTypeOK
<1>3. Busy(t) /\ ~slot[t].got_frame
  <2>1. WorkerOK(t) /\ At(t) = "output"
    BY DEF FrameInv, ThreadOK, DecodeReturns, At, FinishingSetup
  <2> QED
    BY <2>1 DEF WorkerOK, Idle
<1>4. h'.sub = h.sub /\ h'.out = h.out /\ h'.sub_failed = h.sub_failed
  <2>1. UNCHANGED h \/ h' = [h EXCEPT !.produced = h.produced \union {slot[t].pkt}]
    BY DEF DecodeReturns
  <2> QED
    BY <2>1, WorkerHistory
<1>5. \/ slot' = [slot EXCEPT ![t] = frame]
      \/ slot' = [slot EXCEPT ![t] = none] \/ slot' = [slot EXCEPT ![t] = fail]
  BY <1>2 DEF DecodeReturns, CodecFails
<1>6. /\ frame \in SlotType /\ frame.pkt = slot[t].pkt /\ frame.state = slot[t].state /\ frame.got_frame
      /\ \A s \in {none, fail} : /\ s \in SlotType /\ s.pkt = slot[t].pkt
                                 /\ s.state = slot[t].state /\ s.got_frame = slot[t].got_frame
  BY <1>2 DEF SlotType
<1> HIDE DEF frame, none, fail
<1>7. CASE slot' = [slot EXCEPT ![t] = frame]
  <2>1. slot'[t] = frame /\ \A u \in Threads : u # t => slot'[u] = slot[u]
    BY <1>6, <1>7, SlotChanges DEF FrameInv
  <2>2. Threads' = Threads /\ ThreadCount' = ThreadCount /\ CallPhase' = CallPhase
    BY <1>1, SetupQuiet DEF CallPhase
  <2>3. PacketsInside' = PacketsInside
    <3>1. \A u \in Threads : slot'[u].pkt = slot[u].pkt
      BY <1>6, <2>1
    <3>2. \A u \in Threads : (slot'[u].state # "INPUT_READY" \/ slot'[u].got_frame)
                               <=> (slot[u].state # "INPUT_READY" \/ slot[u].got_frame)
      BY <1>3, <1>6, <2>1 DEF Busy
    <3> QED
      BY <2>2, <3>1, <3>2 DEF PacketsInside
  <2>4. FramesInside' = FramesInside \union {slot[t].pkt}
    BY <1>6, <2>1, <2>2 DEF FramesInside
  <2>5. slot[t].pkt \in PacketsInside
    BY <1>3, InsideIs DEF Loaded
  <2>6. slot[t].pkt \notin FramesInside
    <3>1. SUFFICES ASSUME NEW u \in Threads, slot[u].got_frame, slot[t].pkt = slot[u].pkt
                   PROVE  FALSE
      BY InsideIs
    <3>2. t = u
      BY <1>3, <3>1, PacketsDistinct DEF Loaded
    <3> QED
      BY <1>3, <3>1, <3>2
  <2>7. Line!Decode(slot[t].pkt)
    BY <1>1, <1>4, <2>2, <2>3, <2>4 DEF Line!Decode
  <2> QED
    BY <2>5, <2>6, <2>7 DEF Line!Next
<1>8. CASE slot' = [slot EXCEPT ![t] = none] \/ slot' = [slot EXCEPT ![t] = fail]
  BY <1>1, <1>4, <1>6, <1>8, WorkerStill
<1> QED
  BY <1>5, <1>7, <1>8

(* ... or without one, when the worker goes back to wait for input. *)
LEMMA ReadyLine ==
  ASSUME FrameInv, NEW t \in Threads, Ready(t)
  PROVE  Line!Next \/ UNCHANGED Line!vars
<1> DEFINE s == [slot[t] EXCEPT !.state = "INPUT_READY"]
<1>1. UNCHANGED <<fctx, mpc, m, h>>
  BY DEF Ready
<1>2. slot \in [Threads -> SlotType] /\ slot[t] \in SlotType
  BY DEF FrameInv, FrameTypeOK
<1>3. Busy(t)
  <2>1. WorkerOK(t) /\ At(t) = "ready"
    BY DEF FrameInv, ThreadOK, Ready, At, FinishingSetup
  <2> QED
    BY <2>1 DEF WorkerOK, Idle
<1>4. slot' = [slot EXCEPT ![t] = s]
  BY <1>2 DEF Ready
<1>5. /\ s \in SlotType /\ s.pkt = slot[t].pkt /\ s.got_frame = slot[t].got_frame
      /\ s.state = "INPUT_READY"
  BY <1>2 DEF SlotType, States
<1> HIDE DEF s
<1>6. slot'[t] = s /\ \A u \in Threads : u # t => slot'[u] = slot[u]
  BY <1>4, <1>5, SlotChanges DEF FrameInv
<1>7. Threads' = Threads /\ ThreadCount' = ThreadCount /\ CallPhase' = CallPhase
  BY <1>1, SetupQuiet DEF CallPhase
<1>8. /\ \A u \in Threads : slot'[u].pkt = slot[u].pkt /\ slot'[u].got_frame = slot[u].got_frame
      /\ \A u \in Threads : u # t => slot'[u].state = slot[u].state
  BY <1>5, <1>6
<1>9. FramesInside' = FramesInside
  BY <1>7, <1>8 DEF FramesInside
<1>10. CASE slot[t].got_frame
  <2>1. \A u \in Threads : (slot'[u].state # "INPUT_READY" \/ slot'[u].got_frame)
                             <=> (slot[u].state # "INPUT_READY" \/ slot[u].got_frame)
    BY <1>8, <1>10
  <2>2. PacketsInside' = PacketsInside
    BY <1>7, <1>8, <2>1 DEF PacketsInside
  <2> QED
    BY <1>1, <1>7, <1>9, <2>2 DEF Line!vars
<1>11. CASE ~slot[t].got_frame
  <2>1. slot[t].pkt \in PacketsInside
    BY <1>3, InsideIs DEF Loaded
  <2>2. \A u \in Threads : Loaded(u) /\ u # t => slot[u].pkt # slot[t].pkt
    BY <1>3, PacketsDistinct DEF Loaded
  <2>3. \A u \in Threads : Loaded(u)' <=> Loaded(u) /\ u # t
    BY <1>5, <1>6, <1>8, <1>11 DEF Loaded, Busy
  <2>4. PacketsInside' = PacketsInside \ {slot[t].pkt}
    <3>1. PacketsInside' = {slot'[u].pkt : u \in {v \in Threads : Loaded(v)'}}
      BY <1>7, InsideIs DEF PacketsInside, Loaded, Busy
    <3>2. PacketsInside = {slot[u].pkt : u \in {v \in Threads : Loaded(v)}}
      BY InsideIs
    <3> QED
      BY <1>8, <2>2, <2>3, <3>1, <3>2
  <2>5. slot[t].pkt \notin FramesInside
    <3>1. SUFFICES ASSUME NEW u \in Threads, slot[u].got_frame, slot[t].pkt = slot[u].pkt
                   PROVE  FALSE
      BY InsideIs
    <3> QED
      BY <1>11, <2>2, <3>1, InsideIs
  <2>6. Line!Decode(slot[t].pkt)
    BY <1>1, <1>7, <1>9, <2>4 DEF Line!Decode
  <2> QED
    BY <2>1, <2>5, <2>6 DEF Line!Next
<1> QED
  BY <1>10, <1>11

(* So every step of a worker decodes a packet of the line or leaves it. *)
LEMMA WorkerLine ==
  ASSUME FrameInv, NEW t \in Threads, Worker(t) \/ ReleaseBuffer(t)
  PROVE  Line!Next \/ UNCHANGED Line!vars
  BY WorkerQuietLine, WorkerFieldsLine, WorkerBusyLine, DecodeReturnsLine, ReadyLine DEF Worker

---------------------------------------------------------------------------
(***************************************************************************)
(* The delay line: steps of the user's thread.                             *)
(***************************************************************************)
(* The steps of the user's thread that leave the threads' packets alone    *)
(* and stay in their phase of the call: its waits, its work outside        *)
(* ff_thread_decode_frame() and the moves of the ring.                     *)
LEMMA MainQuietLine ==
  ASSUME FrameInv, LatencyInv,
         \/ WaitPrev \/ ServiceDone \/ ServiceWait \/ ServiceWake \/ Advance \/ CollectWait
         \/ SpuriousWakeup \/ (\E freeing \in BOOLEAN : ParkBegin(freeing)) \/ Park \/ FreeBegin
         \/ (DelayCheck /\ mpc' = "collect") \/ Freed
  PROVE  UNCHANGED Line!vars
<1>1. UNCHANGED <<slot, h>>
  BY DEF WaitPrev, ServiceDone, ServiceWait, ServiceWake, Advance, CollectWait, SpuriousWakeup,
         ParkBegin, Park, FreeBegin, DelayCheck, Freed, vars
<1>2. m'.setup = m.setup /\ m'.size = m.size
  <2>1. \/ m' = m \/ \E x : \/ m' = [m EXCEPT !.cur = x]
                            \/ \E y : m' = [m EXCEPT !.cur = x, !.freeing = y]
    BY DEF WaitPrev, ServiceDone, ServiceWait, ServiceWake, Advance, CollectWait, SpuriousWakeup,
           ParkBegin, Park, FreeBegin, DelayCheck, Freed, vars
  <2> QED
    BY <2>1 DEF FrameInv, FrameTypeOK, MainType
<1>3. CallPhase' = CallPhase
  <2>1. CASE mpc' = mpc
    <3>1. MainQuiet
      BY <2>1, MainStays DEF FrameInv, FrameTypeOK
    <3> QED
      BY <1>2, <3>1, PhaseQuiet
  <2>2. CASE mpc \in Submitting /\ mpc' \in Submitting
    <3>1. MainQuiet
      BY <2>2, MainStays
    <3> QED
      BY <1>2, <3>1, PhaseQuiet
  <2>3. CASE mpc \in Submitted /\ mpc' \in Submitted
    <3>1. MainQuiet
      BY <2>3, MainStays
    <3> QED
      BY <1>2, <3>1, PhaseQuiet
  <2>4. CASE mpc \in Collecting \union {"delay"} /\ mpc' \in Collecting \union {"delay"}
    BY <1>2, <2>4 DEF CallPhase, Submitting, Submitted, Collecting
  <2>5. CASE mpc = "advance" /\ mpc' = "delay"
    <3>1. m.size \/ m.setup.delay
      BY <2>5 DEF LatencyInv, Supplied, Submitted
    <3> QED
      BY <1>2, <2>5, <3>1 DEF CallPhase, Submitting, Submitted, Collecting
  <2>6. CASE /\ mpc \in {"user", "park", "park_wait", "flush", "free", "kill", "join", "freed"}
             /\ mpc' \in {"user", "park", "park_wait", "flush", "free", "kill", "join", "freed"}
    BY <2>6 DEF CallPhase, Submitting, Submitted, Collecting
  <2> QED
    BY <2>1, <2>2, <2>3, <2>4, <2>5, <2>6
       DEF WaitPrev, AtPrev, ServiceDone, ServiceWait, ServiceWake, Advance, CollectWait,
           SpuriousWakeup, ParkBegin, Park, FreeBegin, DelayCheck, Freed, vars,
           Submitting, Submitted, Collecting
<1> QED
  BY <1>1, <1>2, <1>3, LineStill DEF Busy

(* The steps of the user's thread that change other fields of a thread. *)
LEMMA MainFieldsLine ==
  ASSUME FrameInv, ServiceGetBuffer \/ Kill \/ Join \/ SubmitLock
  PROVE  UNCHANGED Line!vars
<1>1. FrameTypeOK /\ m.cur \in Threads /\ slot[m.cur] \in SlotType
  BY MainThread, ThreadFields DEF FrameInv
<1>2. h' = h /\ m'.setup = m.setup /\ m'.size = m.size
  <2>1. h' = h /\ (m' = m \/ \E x : m' = [m EXCEPT !.cur = x])
    BY DEF ServiceGetBuffer, Kill, Join, SubmitLock
  <2> QED
    BY <1>1, <2>1 DEF FrameTypeOK, MainType
<1>3. CallPhase' = CallPhase
  <2>1. CASE ServiceGetBuffer
    BY <1>2, <2>1 DEF ServiceGetBuffer, CallPhase
  <2>2. CASE Kill \/ Join
    BY <2>2 DEF Kill, Join, CallPhase, Submitting, Submitted, Collecting
  <2>3. CASE SubmitLock
    <3>1. \/ mpc \in Submitting /\ mpc' = "submit_prev"
          \/ mpc \in Submitting /\ mpc' = "delay" /\ ~m.size /\ ~m.setup.delay
      BY <2>3 DEF SubmitLock, Submitting
    <3> QED
      BY <1>2, <3>1 DEF CallPhase, Submitting, Submitted, Collecting
  <2> QED
    BY <2>1, <2>2, <2>3
<1>4. PICK s \in SlotType : /\ slot' = [slot EXCEPT ![m.cur] = s]
                            /\ s.pkt = slot[m.cur].pkt /\ s.got_frame = slot[m.cur].got_frame
                            /\ s.state = "INPUT_READY" <=> slot[m.cur].state = "INPUT_READY"
  <2>1. CASE ServiceGetBuffer
    <3>1. PICK r \in {0, -1} :
            slot' = [slot EXCEPT ![m.cur].result = r, ![m.cur].state = "SETTING_UP"]
      BY <2>1 DEF ServiceGetBuffer
    <3> DEFINE s == [slot[m.cur] EXCEPT !.result = r, !.state = "SETTING_UP"]
    <3>2. slot' = [slot EXCEPT ![m.cur] = s] /\ slot[m.cur].state = "GET_BUFFER"
      BY <1>1, <2>1, <3>1 DEF FrameTypeOK, ServiceGetBuffer
    <3>3. /\ s \in SlotType /\ s.pkt = slot[m.cur].pkt /\ s.got_frame = slot[m.cur].got_frame
          /\ s.state = "SETTING_UP"
      BY <1>1 DEF SlotType, States
    <3> QED
      BY <3>2, <3>3
  <2>2. CASE Kill
    <3> DEFINE s == [slot[m.cur] EXCEPT !.die = TRUE]
    <3>1. slot' = [slot EXCEPT ![m.cur] = s]
      BY <1>1, <2>2 DEF FrameTypeOK, Kill
    <3>2. /\ s \in SlotType /\ s.pkt = slot[m.cur].pkt /\ s.got_frame = slot[m.cur].got_frame
          /\ s.state = slot[m.cur].state
      BY <1>1 DEF SlotType
    <3> QED
      BY <3>1, <3>2
  <2>3. CASE Join
    <3> DEFINE s == [slot[m.cur] EXCEPT !.released = FALSE, !.frame = NoFrame]
    <3>1. slot' = [slot EXCEPT ![m.cur] = s]
      BY <1>1, <2>3 DEF FrameTypeOK, Join
    <3>2. /\ s \in SlotType /\ s.pkt = slot[m.cur].pkt /\ s.got_frame = slot[m.cur].got_frame
          /\ s.state = slot[m.cur].state
      BY <1>1 DEF SlotType, NoFrame
    <3> QED
      BY <3>1, <3>2
  <2>4. CASE SubmitLock /\ ~UNCHANGED slot
    <3> DEFINE s == [slot[m.cur] EXCEPT !.released = FALSE]
    <3>1. slot' = [slot EXCEPT ![m.cur] = s]
      BY <1>1, <2>4 DEF FrameTypeOK, SubmitLock
    <3>2. /\ s \in SlotType /\ s.pkt = slot[m.cur].pkt /\ s.got_frame = slot[m.cur].got_frame
          /\ s.state = slot[m.cur].state
      BY <1>1 DEF SlotType
    <3> QED
      BY <3>1, <3>2
  <2>5. CASE UNCHANGED slot
    <3>1. slot' = [slot EXCEPT ![m.cur] = slot[m.cur]]
      BY <1>1, <2>5 DEF FrameTypeOK
    <3> QED
      BY <1>1, <3>1
  <2> QED
    BY <2>1, <2>2, <2>3, <2>4, <2>5
<1>5. slot'[m.cur] = s /\ \A u \in Threads : u # m.cur => slot'[u] = slot[u]
  BY <1>1, <1>4, SlotChanges
<1>6. \A u \in Threads : /\ slot'[u].pkt = slot[u].pkt
                         /\ slot'[u].got_frame = slot[u].got_frame
                         /\ Busy(u)' <=> Busy(u)
  BY <1>4, <1>5 DEF Busy
<1> QED
  BY <1>2, <1>3, <1>6, LineStill

(* A call starts; a packet is refused; a call with a packet ends while the *)
(* pipe is being filled.                                                   *)
LEMMA CallLine ==
  ASSUME FrameInv,
         \/ \E sz \in BOOLEAN : DecodeFrame(sz)
         \/ UpdateFails
         \/ DelayCheck /\ mpc' # "collect"
  PROVE  Line!Begin \/ Line!Refuse \/ Line!Pass
<1>1. m'.setup = m.setup /\ m.size \in BOOLEAN /\ m'.size \in BOOLEAN
  <2>1. m \in MainType
    BY DEF FrameInv, FrameTypeOK
  <2>2. CASE \E sz \in BOOLEAN : DecodeFrame(sz)
    <3>1. PICK sz \in BOOLEAN : DecodeFrame(sz)
      BY <2>2
    <3> QED
      BY <2>1, <3>1 DEF DecodeFrame, MainType
  <2>3. CASE UpdateFails \/ DelayCheck
    BY <2>1, <2>3 DEF UpdateFails, DelayCheck, MainType
  <2> QED
    BY <2>2, <2>3
<1>2. Threads' = Threads /\ ThreadCount' = ThreadCount
  BY <1>1, SetupQuiet
<1>3. slot' = slot
  BY DEF DecodeFrame, UpdateFails, DelayCheck
<1>4. PacketsInside' = PacketsInside /\ FramesInside' = FramesInside
  BY <1>2, <1>3 DEF PacketsInside, FramesInside
<1>5. CASE \E sz \in BOOLEAN : DecodeFrame(sz)
  <2>1. mpc = "user" /\ mpc' = "submit" /\ h' = h
    BY <1>5 DEF DecodeFrame
  <2>2. CallPhase = "none" /\ CallPhase' = "entered"
    BY <2>1 DEF CallPhase, Submitting, Submitted, Collecting
  <2> QED
    BY <1>1, <1>2, <1>4, <2>1, <2>2 DEF Line!Begin
<1>6. CASE UpdateFails
  <2>1. mpc \in Submitting /\ mpc' = "return" /\ m' = m
    BY <1>6 DEF UpdateFails, AtPrev, Submitting
  <2>2. CallPhase = "entered" /\ CallPhase' = "returning"
    BY <2>1 DEF CallPhase, Submitting, Submitted, Collecting
  <2>3. h'.sub = h.sub /\ h'.out = h.out /\ h'.sub_failed = TRUE
    BY <1>6 DEF UpdateFails, FrameInv, FrameTypeOK, HistoryType
  <2> QED
    BY <1>2, <1>4, <2>1, <2>2, <2>3 DEF Line!Refuse
<1>7. CASE DelayCheck /\ mpc' # "collect"
  <2>1. mpc = "delay" /\ mpc' = "return" /\ m.size /\ m' = m /\ h' = h
    BY <1>7 DEF DelayCheck
  <2>2. CallPhase = "accepted" /\ CallPhase' = "returning"
    BY <2>1 DEF CallPhase, Submitting, Submitted, Collecting
  <2> QED
    BY <1>2, <1>4, <2>1, <2>2 DEF Line!Pass
<1> QED
  BY <1>5, <1>6, <1>7

(* A packet is put in: the thread whose turn it is was empty. *)
LEMMA SubmitLine ==
  ASSUME FrameInv, SubmitPacket
  PROVE  Line!Accept
<1>0. PICK t \in Threads : t = m.cur
  BY MainThread DEF FrameInv
<1>1. PICK n \in Nat : n = h.sub + 1
  BY HistoryFields DEF FrameInv, FrameTypeOK
<1>2. mpc \in {"submit_prev", "wait_prev"} /\ mpc' \in {"service", "advance"} /\ m' = m
  BY DEF SubmitPacket, AtPrev
<1>3. CallPhase = "entered" /\ CallPhase' = "accepted"
  BY <1>2 DEF CallPhase, Submitting, Submitted, Collecting
<1>4. ~Loaded(t)
  <2>1. mpc \in Submitting \union Submitted /\ mpc \notin Submitted \union Collecting \union {"delay"}
    BY <1>2 DEF Submitting, Submitted, Collecting
  <2>2. m.cur = fctx.next_decoding
    BY <2>1 DEF FrameInv, RingInv
  <2> QED
    BY <1>0, <2>1, <2>2, NextFree
<1>5. h'.sub = n /\ h'.out = h.out /\ h'.sub_failed = h.sub_failed
  <2>1. h' = [h EXCEPT !.sub = n]
    BY <1>1 DEF SubmitPacket
  <2> QED
    BY <2>1 DEF FrameInv, FrameTypeOK, HistoryType
<1>6. slot[t] \in SlotType /\ m.size \in BOOLEAN
  BY ThreadFields, MainFields DEF FrameInv, FrameTypeOK
<1> DEFINE s == [slot[t] EXCEPT !.pkt = n, !.size = m.size, !.state = "SETTING_UP"]
<1>7. slot' = [slot EXCEPT ![t] = s]
  BY <1>0, <1>1 DEF SubmitPacket, FrameInv, FrameTypeOK
<1>8. s \in SlotType /\ s.pkt = n /\ s.got_frame = slot[t].got_frame /\ s.state # "INPUT_READY"
  BY <1>6 DEF SlotType, States
<1> HIDE DEF s
<1>9. slot'[t] = s /\ \A u \in Threads : u # t => slot'[u] = slot[u]
  BY <1>7, <1>8, SlotChanges DEF FrameInv
<1>10. Threads' = Threads /\ ThreadCount' = ThreadCount
  BY <1>2, SetupQuiet
<1>11. PacketsInside' = PacketsInside \union {n}
  <2>1. PacketsInside = {slot[u].pkt : u \in {v \in Threads : Loaded(v)}}
    BY InsideIs
  <2>2. PacketsInside' = {slot'[u].pkt : u \in {v \in Threads : Loaded(v)'}}
    BY <1>10 DEF PacketsInside, Loaded, Busy
  <2>3. /\ \A u \in Threads : u # t => slot'[u].pkt = slot[u].pkt /\ (Loaded(u)' <=> Loaded(u))
        /\ slot'[t].pkt = n /\ Loaded(t)'
    BY <1>8, <1>9 DEF Loaded, Busy
  <2> QED
    BY <1>4, <2>1, <2>2, <2>3
<1>12. FramesInside' = FramesInside
  <2>1. ~slot[t].got_frame /\ ~slot'[t].got_frame
    BY <1>4, <1>8, <1>9 DEF Loaded
  <2> QED
    BY <1>9, <1>10, <2>1 DEF FramesInside
<1> QED
  BY <1>1, <1>2, <1>3, <1>5, <1>10, <1>11, <1>12 DEF Line!Accept

(* A call returns with at most the last ThreadCount - 1 packets inside. *)
LEMMA ReturnLine ==
  ASSUME FrameInv, DecodeFrameReturn
  PROVE  Line!End
<1>1. mpc = "return" /\ mpc' = "user" /\ UNCHANGED <<slot, h>>
  BY DEF DecodeFrameReturn
<1>2. m'.setup = m.setup /\ m'.size = m.size
  BY DEF DecodeFrameReturn, FrameInv, FrameTypeOK, MainType
<1>3. CallPhase = "returning" /\ CallPhase' = "none"
  BY <1>1 DEF CallPhase, Submitting, Submitted, Collecting
<1>4. Threads' = Threads /\ ThreadCount' = ThreadCount
  BY <1>2, SetupQuiet
<1>5. PacketsInside' = PacketsInside /\ FramesInside' = FramesInside
  BY <1>1, <1>4 DEF PacketsInside, FramesInside
<1>6. Line!Within(ThreadCount - 1)
  <2>1. SUFFICES ASSUME NEW t \in Threads, Loaded(t)
                 PROVE  h.sub - slot[t].pkt < ThreadCount - 1
    BY InsideIs DEF Line!Within
  <2>2. mpc \notin Submitted \union Collecting \union {"delay"}
    BY <1>1 DEF Submitted, Collecting
  <2>3. fctx.next_decoding \in Threads /\ ~Loaded(fctx.next_decoding)
    BY <2>2, NextFree
  <2>4. /\ ThreadCount \in Nat /\ Back(t) \in 0..(ThreadCount - 1) /\ h.sub \in Nat
        /\ slot[t].pkt = h.sub - Back(t)
    BY <2>1, SetupFacts, BackFacts, HistoryFields DEF FrameInv, FrameTypeOK, RingInv
  <2>5. Back(fctx.next_decoding) = ThreadCount - 1
    <3>1. NextSlot = fctx.next_decoding
      BY <2>2, <2>3, SetupFacts DEF NextSlot, FrameInv
    <3> QED
      BY <2>3, <2>4, <3>1, SetupFacts DEF Back, FrameInv
  <2>6. Back(t) # Back(fctx.next_decoding)
    BY <2>1, <2>3, BackFacts DEF FrameInv
  <2> QED
    BY <2>4, <2>5, <2>6
<1> QED
  BY <1>1, <1>2, <1>3, <1>4, <1>5, <1>6 DEF Line!End

(* A flush finds every thread idle. *)
LEMMA FlushLine ==
  ASSUME FrameInv, Flush
  PROVE  Line!Flush
<1>1. mpc = "flush" /\ mpc' = "user"
  BY DEF Flush
<1>2. m'.setup = m.setup /\ m'.size = m.size
  BY DEF Flush, FrameInv, FrameTypeOK, MainType
<1>3. CallPhase = "none" /\ CallPhase' = "none"
  BY <1>1 DEF CallPhase, Submitting, Submitted, Collecting
<1>4. Threads' = Threads /\ ThreadCount' = ThreadCount
  BY <1>2, SetupQuiet
<1>5. \A t \in Threads : ~Busy(t)
  BY <1>1 DEF FrameInv, ParkInv
<1>6. PacketsInside = FramesInside
  BY <1>5 DEF PacketsInside, FramesInside, Busy
<1>7. \A t \in Threads : slot'[t].got_frame = FALSE /\ slot'[t].state = slot[t].state
  <2>1. ASSUME NEW t \in Threads PROVE slot'[t].got_frame = FALSE /\ slot'[t].state = slot[t].state
    <3>1. slot'[t] = [slot[t] EXCEPT !.got_frame = FALSE, !.frame = NoFrame, !.released = FALSE]
      BY DEF Flush
    <3>2. slot[t] \in SlotType
      BY ThreadFields DEF FrameInv
    <3> QED
      BY <3>1, <3>2 DEF SlotType
  <2> QED
    BY <2>1
<1>8. PacketsInside' = {} /\ FramesInside' = {}
  BY <1>4, <1>5, <1>7 DEF PacketsInside, FramesInside, Busy
<1>9. h'.sub = h.sub /\ h'.out = <<>> /\ h'.sub_failed = FALSE
  BY DEF Flush, FrameInv, FrameTypeOK, HistoryType
<1> QED
  BY <1>2, <1>3, <1>4, <1>6, <1>8, <1>9 DEF Line!Flush

(* The thread that is collected has the oldest packet inside, and with a   *)
(* packet submitted in this call the one ThreadCount - 1 before it; while  *)
(* draining, the search for a frame ends without one only if none is left. *)
LEMMA CollectLine ==
  ASSUME FrameInv, LatencyInv, Collect
  PROVE  Line!Next \/ UNCHANGED Line!vars
<1>0. PICK f \in Threads : f = m.finished
  BY MainThread DEF FrameInv
<1>1. /\ mpc = "collect" /\ ~Busy(f)
      /\ \A u \in Threads : u # f => slot'[u] = slot[u]
      /\ slot'[f].got_frame = FALSE /\ slot'[f].state = slot[f].state
      /\ slot'[f].pkt = slot[f].pkt
  BY <1>0, CollectSlot
<1>2. mpc \in Collecting /\ slot[f].got_frame \in BOOLEAN /\ m.size \in BOOLEAN
  BY <1>1, ThreadFields, MainFields DEF Collecting, FrameInv, FrameTypeOK
<1>3. m'.setup = m.setup /\ m'.size = m.size
  BY DEF Collect, FrameInv, FrameTypeOK, MainType
<1>4. Threads' = Threads /\ ThreadCount' = ThreadCount
  BY <1>3, SetupQuiet
<1>5. \A u \in Threads : slot'[u].pkt = slot[u].pkt /\ (Busy(u)' <=> Busy(u))
  BY <1>1 DEF Busy
<1>6. ~slot[f].got_frame => \A u \in Threads : slot'[u].got_frame = slot[u].got_frame
  BY <1>1, <1>2
<1>7. CASE KeepLooking(f)
  <2>1. UNCHANGED <<mpc, h>> /\ ~slot[f].got_frame
    BY <1>0, <1>7 DEF Collect, KeepLooking
  <2>2. CallPhase' = CallPhase
    BY <1>3, <2>1 DEF CallPhase
  <2> QED
    BY <1>3, <1>5, <1>6, <2>1, <2>2, LineStill
<1>8. CASE ~KeepLooking(f)
  <2>1. mpc' = "return"
    BY <1>0, <1>8 DEF Collect
  <2>2. /\ CallPhase = "accepted" \/ (CallPhase = "entered" /\ ~m.size)
        /\ CallPhase' = "returning"
    BY <1>1, <2>1 DEF CallPhase, Submitting, Submitted, Collecting
  <2>3. CASE ~slot[f].got_frame
    <3>1. h'.sub = h.sub /\ h'.out = h.out /\ h'.sub_failed = h.sub_failed
      BY <1>0, <1>8, <2>3 DEF Collect, FrameInv, FrameTypeOK, HistoryType
    <3>2. PacketsInside' = PacketsInside
      BY <1>4, <1>5, <1>6, <2>3 DEF PacketsInside, Busy
    <3>3. FramesInside' = FramesInside
      BY <1>4, <1>5, <1>6, <2>3 DEF FramesInside
    <3>4. ~m.size => PacketsInside = {}
      <4>1. SUFFICES ASSUME ~m.size, NEW u \in Threads, Loaded(u) PROVE FALSE
        BY InsideIs
      <4>2. u # f
        BY <1>1, <2>3, <4>1 DEF Loaded
      <4>3. Wrapped(f + 1) # fctx.next_finished
        BY <1>0, <1>2, <4>1, <4>2, CollectOrder
      <4> QED
        BY <1>8, <2>3, <4>1, <4>3 DEF KeepLooking
    <3>5. Line!Pass
      BY <1>3, <1>4, <2>2, <3>1, <3>2, <3>3, <3>4 DEF Line!Pass
    <3> QED
      BY <3>5 DEF Line!Next
  <2>4. CASE slot[f].got_frame
    <3>0. PICK n \in Nat : n = slot[f].pkt
      BY ThreadFields DEF FrameInv
    <3>1. Loaded(f) /\ slot[f].frame = n
      <4>1. WorkerOK(f) /\ mpc \notin Freeing
        BY <1>1 DEF FrameInv, ThreadOK, Freeing
      <4> QED
        BY <2>4, <3>0, <4>1 DEF WorkerOK, Loaded
    <3>2. h'.sub = h.sub /\ h'.out = Append(h.out, n) /\ h'.sub_failed = h.sub_failed
      <4>1. h' = [h EXCEPT !.out = Append(h.out, n)]
        BY <1>0, <1>8, <2>4, <3>1 DEF Collect
      <4> QED
        BY <4>1 DEF FrameInv, FrameTypeOK, HistoryType
    <3>3. \A u \in Threads : Loaded(u) /\ u # f => n < slot[u].pkt
      BY <1>0, <1>2, <3>0, <3>1, CollectOrder
    <3>4. \A u \in Threads : slot[u].pkt \in Nat
      BY ThreadFields DEF FrameInv
    <3>5. Line!Oldest(n)
      <4>1. n \in PacketsInside
        BY <3>0, <3>1, InsideIs
      <4>2. ASSUME NEW i \in PacketsInside PROVE n <= i
        <5>1. PICK u \in Threads : Loaded(u) /\ i = slot[u].pkt
          BY <4>2, InsideIs
        <5> QED
          BY <3>0, <3>3, <3>4, <5>1
      <4> QED
        BY <4>1, <4>2 DEF Line!Oldest
    <3>6. m.size => n = h.sub - (ThreadCount - 1)
      <4>1. SUFFICES ASSUME m.size PROVE n = h.sub - (ThreadCount - 1)
        OBVIOUS
      <4>2. ~fctx.delaying /\ ~m.draining
        BY <1>2, <4>1 DEF FrameInv, DelayInv, InCall
      <4>3. Back(fctx.next_finished) = ThreadCount - 1 /\ f = fctx.next_finished
        BY <1>0, <1>2, <4>1, <4>2 DEF LatencyInv, Shifted
      <4> QED
        BY <3>0, <3>1, <4>3 DEF FrameInv, RingInv
    <3>7. PacketsInside' = PacketsInside \ {n}
      <4>1. PacketsInside = {slot[u].pkt : u \in {v \in Threads : Loaded(v)}}
        BY InsideIs
      <4>2. PacketsInside' = {slot'[u].pkt : u \in {v \in Threads : Loaded(v)'}}
        BY <1>4 DEF PacketsInside, Loaded, Busy
      <4>3. \A u \in Threads : Loaded(u)' <=> Loaded(u) /\ u # f
        BY <1>1, <1>5 DEF Loaded, Busy
      <4>4. \A u \in Threads : Loaded(u) /\ u # f => slot[u].pkt # n
        BY <3>3, <3>4
      <4> QED
        BY <1>5, <3>0, <4>1, <4>2, <4>3, <4>4
    <3>8. FramesInside' = FramesInside \ {n}
      <4>1. \A u \in Threads : slot'[u].got_frame <=> slot[u].got_frame /\ u # f
        BY <1>1
      <4>2. \A u \in Threads : slot[u].got_frame /\ u # f => slot[u].pkt # n
        BY <3>3, <3>4, InsideIs
      <4> QED
        BY <1>4, <1>5, <3>0, <4>1, <4>2 DEF FramesInside
    <3>9. n \in FramesInside
      BY <2>4, <3>0, InsideIs
    <3>10. Line!Take(n)
      BY <1>3, <1>4, <2>2, <3>2, <3>5, <3>6, <3>7, <3>8 DEF Line!Take
    <3> QED
      BY <3>9, <3>10 DEF Line!Next
  <2> QED
    BY <2>3, <2>4
<1> QED
  BY <1>7, <1>8

LEMMA LineInit ==
  ASSUME Init
  PROVE  Line!Init
<1>1. FrameInv
  BY InitInv
<1>2. ThreadCount \in Nat \ {0, 1} /\ m.size \in BOOLEAN
  BY <1>1, SetupFacts, MainFields DEF FrameInv, FrameTypeOK
<1>3. mpc = "user" /\ h.sub = 0 /\ h.out = <<>> /\ h.sub_failed = FALSE
  BY DEF Init
<1>4. \A t \in Threads : slot[t].state = "INPUT_READY" /\ slot[t].got_frame = FALSE
  BY DEF Init
<1>5. PacketsInside = {} /\ FramesInside = {}
  BY <1>4 DEF PacketsInside, FramesInside
<1>6. CallPhase = "none"
  BY <1>3 DEF CallPhase, Submitting, Submitted, Collecting
<1> QED
  BY <1>2, <1>3, <1>5, <1>6 DEF Line!Init

LEMMA LineNext ==
  ASSUME FrameInv, LatencyInv, [Next]_vars
  PROVE  [Line!Next]_(Line!vars)
<1>1. CASE UNCHANGED vars
  <2>1. CallPhase' = CallPhase
    BY <1>1 DEF vars, CallPhase
  <2>2. /\ m'.setup = m.setup /\ m'.size = m.size /\ h' = h
        /\ \A t \in Threads : slot'[t] = slot[t]
    BY <1>1 DEF vars
  <2>3. UNCHANGED Line!vars
    BY <2>1, <2>2, LineStill DEF Busy
  <2> QED
    BY <2>3
<1>2. CASE User
  BY <1>2, CallLine, MainQuietLine DEF User, Line!Next
<1>3. CASE MainStep
  <2>1. CASE DelayCheck
    BY <2>1, CallLine, MainQuietLine DEF Line!Next
  <2> QED
    BY <1>3, <2>1, MainQuietLine, MainFieldsLine, SubmitLine, ReturnLine, FlushLine, CollectLine
       DEF MainStep, Line!Next
<1>4. CASE UpdateFails
  BY <1>4, CallLine DEF Line!Next
<1>5. CASE \E t \in Threads : Worker(t) \/ ReleaseBuffer(t)
  BY <1>5, WorkerLine
<1>6. CASE SpuriousWakeup \/ Freed
  BY <1>6, MainQuietLine
<1> QED
  BY <1>1, <1>2, <1>3, <1>4, <1>5, <1>6 DEF Next

(***************************************************************************)
(* The threads of pthread_frame.c and the user's thread that drives them   *)
(* in ff_thread_decode_frame() and ff_thread_flush() implement a delay     *)
(* line of thread_count - 1 packets.                                       *)
(***************************************************************************)
THEOREM RingIsDelayLine == Spec => KeepsDelayLine
<1>1. Init => Line!Init
  BY LineInit
<1>2. FrameInv /\ LatencyInv /\ [Next]_vars => [Line!Next]_(Line!vars)
  BY LineNext
<1>3. Init => LatencyInv
  BY LatencyInit
<1>4. FrameInv /\ LatencyInv /\ [Next]_vars => LatencyInv'
  BY LatencyNext
<1> QED
  BY <1>1, <1>2, <1>3, <1>4, FrameInvariant, PTL DEF Spec, KeepsDelayLine, Line!Spec
=============================================================================
