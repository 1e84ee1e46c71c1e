---------------------------- MODULE FrameThreads ----------------------------
(***************************************************************************)
(* Frame-level multithreaded decoding: libavcodec/pthread_frame.c.         *)
(*                                                                         *)
(* The user's thread hands packets to a ring of decoding threads with      *)
(* ff_thread_decode_frame() and gets frames back in the order of the       *)
(* packets, ThreadCount - 1 packets late.  Threads are 0..ThreadCount-1.   *)
(*                                                                         *)
(* Atomicity: an action is a critical section of progress_mutex, or a      *)
(* stretch of code between two accesses to state shared with another       *)
(* thread.  p->mutex is held by a worker from WorkerLock to Signal and by  *)
(* the user thread while it submits; buffer_mutex, hwaccel_mutex and       *)
(* async_mutex are the fields of `lock', holding their owner.              *)
(*                                                                         *)
(* The codec is external: it follows doc/multithreading.txt (sets up its   *)
(* context, calls get_buffer at most once, finishes its setup, waits for   *)
(* the progress of its reference, reports its own) and may fail anywhere.  *)
(***************************************************************************)
EXTENDS Integers, Sequences, FiniteSets

CONSTANTS
  MaxThreads,   \* bound: threads
  Setups        \* the decoders to run: records of the type SetupType

SetupType ==
  [ thread_count : 2..MaxThreads,   \* avctx->thread_count
    update : BOOLEAN,        \* codec->update_thread_context is set
    thread_safe : BOOLEAN,   \* avctx->thread_safe_callbacks
    custom : BOOLEAN,        \* avctx->get_buffer2 is the user's own
    delay : BOOLEAN,         \* AV_CODEC_CAP_DELAY
    hwaccel : {"none", "async_safe", "unsafe"},   \* what get_format picks
    submits : Nat,           \* bound: packets submitted to the threads
    flushes : Nat ]          \* bound: calls to ff_thread_flush()

ASSUME ThreadsAssumption == MaxThreads \in Nat \ {0, 1}
ASSUME SetupsAssumption ==
  /\ Setups \subseteq SetupType
  /\ \A s \in Setups : s.hwaccel # "none" => s.update

VARIABLES
  fctx,           \* FrameThreadContext: the ring
  lock,           \* FrameThreadContext: owners of the three shared mutexes
  slot,           \* PerThreadContext of each thread
  ctx,            \* AVCodecContext of each thread
  progress_wait,  \* per thread, who waits on its progress_cond
  wpc, wloc,      \* workers: location and local variables
  mpc, m,         \* user's thread: location and local variables
  h               \* history

vars == <<fctx, lock, slot, ctx, progress_wait, wpc, wloc, mpc, m, h>>

ThreadCount == m.setup.thread_count
Threads == 0..(ThreadCount - 1)
Main == MaxThreads    \* the user's thread, as owner of a mutex or waiter
None == -1            \* NULL, or nobody

(***************************************************************************)
(* The part of AVCodecContext that is handed from thread to thread: the    *)
(* last packet whose setup it reflects, whether a hwaccel was chosen, and  *)
(* in codecs with update_thread_context the reference frame with its       *)
(* owner (ThreadFrame.owner).  Frames are named by their packet.           *)
(***************************************************************************)
NoFrame == 0
NoLocals == [cont |-> "lock", ref |-> NoFrame, owner |-> 0, gb_err |-> FALSE]
FreshCtx == [seen |-> 0, hw |-> FALSE, frame |-> NoFrame, owner |-> 0]

Init ==
  \* p, avpkt->size # 0, finished and *got_picture_ptr of
  \* ff_thread_decode_frame(); the caller of park_frame_worker_threads();
  \* the packet the user's context reflects; draining and draining_done of
  \* the caller in decode.c; the decoder
  /\ m \in [cur : {0}, size : {FALSE}, finished : {0}, got_picture : {FALSE},
            freeing : {FALSE}, uctx : {0}, draining : {FALSE}, eof : {FALSE},
            setup : Setups]
  /\ fctx = [prev_thread |-> None, next_decoding |-> 0, next_finished |-> 0,
             delaying |-> TRUE]
  /\ lock = [buffer |-> None, hwaccel |-> None, async |-> Main]
  /\ slot = [t \in Threads |->
               [state |-> "INPUT_READY", pkt |-> 0, size |-> FALSE, frame |-> NoFrame,
                got_frame |-> FALSE, result |-> 0, released |-> FALSE, die |-> FALSE,
                hwaccel_serializing |-> FALSE, async_serializing |-> FALSE]]
  /\ ctx = [t \in Threads |-> FreshCtx]
  /\ progress_wait = [t \in Threads |-> {}]
  /\ wpc = [t \in Threads |-> "top"]
  \* where ff_thread_finish_setup() returns to, the reference of the
  \* current packet, and the error of get_buffer
  /\ wloc = [t \in Threads |-> NoLocals]
  /\ mpc = "user"
  \* packets submitted, frames with full progress; since the last flush:
  \* frames returned, frames produced, whether submitting failed; flushes made
  /\ h = [sub |-> 0, progress |-> {}, out |-> <<>>, produced |-> {},
          sub_failed |-> FALSE, flushes |-> 0]

(***************************************************************************)
(* Mutexes and condition variables.                                        *)
(***************************************************************************)

(* p->mutex: the worker decodes with it, the user thread submits with it.  *)
WorkerHolds(t) ==
  \/ wpc[t] \in {"lock_hw", "setup", "getbuf", "gb_signal", "gb_wait", "gb_done",
                 "gb_out", "decode", "await", "report", "return", "finish",
                 "output", "ready", "signal"}
  \/ wpc[t] \in {"fs_hw", "fs_async", "fs_set"} /\ wloc[t].cont # "lock"
MainHolds(t) == mpc \in {"submit_prev", "wait_prev"} /\ m.cur = t

(* pthread_cond_broadcast() on a progress_cond. *)
Broadcast(t) == progress_wait' = [progress_wait EXCEPT ![t] = {}]

(* The waiters left after a pthread_cond_signal() on t's progress_cond,    *)
(* which wakes any one of them.                                            *)
AfterSignal(t) ==
  IF progress_wait[t] = {} THEN {{}}
  ELSE {progress_wait[t] \ {x} : x \in progress_wait[t]}

(* pthread_cond_signal(&p->input_cond): only the worker waits there. *)
WakeInput(t) == wpc' = [wpc EXCEPT ![t] = IF @ = "wait_in" THEN "lock_in" ELSE @]

(* pthread_mutex_lock(&p->parent->hwaccel_mutex). *)
HwaccelFree == lock.hwaccel = None

(* A get_buffer2 that is not thread safe: the decoding threads ask the     *)
(* user's thread to call it.                                               *)
MainCallsGetBuffer == ~m.setup.thread_safe /\ m.setup.custom

WorkerGoes(t, to) == wpc' = [wpc EXCEPT ![t] = to]

---------------------------------------------------------------------------
(***************************************************************************)
(* ff_thread_finish_setup(), called from four places of the worker; `to'   *)
(* is where it returns.                                                    *)
(***************************************************************************)
FinishSetup(t, to) ==
  /\ wloc' = [wloc EXCEPT ![t].cont = to]
  /\ WorkerGoes(t, IF ctx[t].hw THEN "fs_hw" ELSE "fs_set")

SkipFinishSetup(t, to) == WorkerGoes(t, to) /\ UNCHANGED wloc

(* Serialize with the other hwaccel threads, unless that was done before   *)
(* decoding started.                                                       *)
FinishSetupHw(t) ==
  /\ wpc[t] = "fs_hw"
  /\ slot[t].hwaccel_serializing \/ HwaccelFree
  /\ lock' = [lock EXCEPT !.hwaccel = t]
  /\ slot' = [slot EXCEPT ![t].hwaccel_serializing = TRUE,
                          ![t].async_serializing = m.setup.hwaccel = "unsafe"]
  /\ WorkerGoes(t, IF m.setup.hwaccel = "unsafe" THEN "fs_async" ELSE "fs_set")
  /\ UNCHANGED <<fctx, ctx, progress_wait, wloc, mpc, m, h>>

(* A hwaccel that is not async safe runs only while the user is inside     *)
(* ff_thread_decode_frame(), which gives async_mutex away.                 *)
FinishSetupAsync_NoLock(t) ==
  /\ wpc[t] = "fs_async"
  /\ WorkerGoes(t, "fs_set")
  /\ UNCHANGED <<fctx, lock, slot, ctx, progress_wait, wloc, mpc, m, h>>
FinishSetupAsync(t) ==
  /\ wpc[t] = "fs_async" /\ lock.async = None
  /\ lock' = [lock EXCEPT !.async = t]
  /\ WorkerGoes(t, "fs_set")
  /\ UNCHANGED <<fctx, slot, ctx, progress_wait, wloc, mpc, m, h>>

FinishSetupSet(t) ==
  /\ wpc[t] = "fs_set"
  /\ slot' = [slot EXCEPT ![t].state = "SETUP_FINISHED"]
  /\ Broadcast(t)
  /\ WorkerGoes(t, wloc[t].cont)
  /\ UNCHANGED <<fctx, lock, ctx, wloc, mpc, m, h>>

---------------------------------------------------------------------------
(***************************************************************************)
(* frame_worker_thread().                                                  *)
(***************************************************************************)

(* The unlocked test of p->state at the top of the loop. *)
WorkerTop(t) ==
  /\ wpc[t] = "top"
  /\ WorkerGoes(t, IF slot[t].state = "INPUT_READY" THEN "lock_in" ELSE "start")
  /\ UNCHANGED <<fctx, lock, slot, ctx, progress_wait, wloc, mpc, m, h>>

(* With p->mutex: wait on input_cond until there is a packet, or exit. *)
WorkerInput(t) ==
  /\ wpc[t] = "lock_in" /\ ~MainHolds(t)
  /\ WorkerGoes(t, IF slot[t].state # "INPUT_READY" THEN "start"
                   ELSE IF slot[t].die THEN "exit" ELSE "wait_in")
  /\ UNCHANGED <<fctx, lock, slot, ctx, progress_wait, wloc, mpc, m, h>>

(* A codec without update_thread_context and with thread-safe callbacks    *)
(* lets the next packet start before it has looked at this one.            *)
WorkerStart(t) ==
  /\ wpc[t] = "start"
  /\ IF ~m.setup.update /\ m.setup.thread_safe THEN FinishSetup(t, "lock") ELSE SkipFinishSetup(t, "lock")
  /\ UNCHANGED <<fctx, lock, slot, ctx, progress_wait, mpc, m, h>>

WorkerLock(t) ==
  /\ wpc[t] = "lock" /\ ~MainHolds(t)
  /\ WorkerGoes(t, "lock_hw")
  /\ UNCHANGED <<fctx, lock, slot, ctx, progress_wait, wloc, mpc, m, h>>

(* Take hwaccel_mutex if the context came with a hwaccel; clear the frame. *)
WorkerHw(t) ==
  /\ wpc[t] = "lock_hw"
  /\ ctx[t].hw => HwaccelFree
  /\ lock' = [lock EXCEPT !.hwaccel = IF ctx[t].hw THEN t ELSE @]
  /\ slot' = [slot EXCEPT ![t].hwaccel_serializing = ctx[t].hw,
                          ![t].frame = NoFrame, ![t].got_frame = FALSE]
  /\ WorkerGoes(t, "setup")
  /\ UNCHANGED <<fctx, ctx, progress_wait, wloc, mpc, m, h>>

(* codec->decode() returns an error. *)
CodecFails(t) ==
  /\ slot' = [slot EXCEPT ![t].result = -1]
  /\ WorkerGoes(t, "return")

(* codec->decode(), before ff_thread_finish_setup(): the headers are       *)
(* parsed, the context updated and a hwaccel possibly chosen; the frame of *)
(* the context becomes the reference.  A drain packet needs no buffer.     *)
Setup(t) ==
  /\ wpc[t] = "setup"
  /\ wloc' = [wloc EXCEPT ![t].ref = ctx[t].frame, ![t].owner = ctx[t].owner]
  /\ ctx' = [ctx EXCEPT ![t].seen = slot[t].pkt, ![t].hw = m.setup.hwaccel # "none"]
  /\ \/ /\ WorkerGoes(t, IF slot[t].size THEN "getbuf" ELSE "report")
        /\ UNCHANGED slot
     \/ CodecFails(t)
  /\ UNCHANGED <<fctx, lock, progress_wait, mpc, m, h>>

(* ff_thread_release_buffer() on a frame the codec no longer needs and     *)
(* that only the user's thread may free.                                   *)
ReleaseBuffer(t) ==
  /\ wpc[t] = "setup" /\ MainCallsGetBuffer /\ slot[t].pkt > 1 /\ ~slot[t].released
  /\ lock.buffer = None
  /\ slot' = [slot EXCEPT ![t].released = TRUE]
  /\ UNCHANGED <<fctx, lock, ctx, progress_wait, wpc, wloc, mpc, m, h>>

(* ff_thread_get_buffer() fails after ff_thread_finish_setup(), as when    *)
(* the codec calls it a second time while decoding.  (A codec that gives   *)
(* up on a frame still reports its full progress.)                         *)
Refused_Never(t) == FALSE
Refused(t) == slot[t].state # "SETTING_UP" /\ (m.setup.update \/ ~m.setup.thread_safe)

AtGetBuffer(t) ==
  wpc[t] = "getbuf" \/ (wpc[t] = "decode" /\ (m.setup.update \/ ~m.setup.thread_safe))

GetBufferRefused(t) ==
  /\ AtGetBuffer(t) /\ Refused(t)
  /\ CodecFails(t)
  /\ h' = [h EXCEPT !.progress = @ \union {slot[t].pkt}]
  /\ Broadcast(t)
  /\ UNCHANGED <<fctx, lock, ctx, wloc, mpc, m>>

(* Under buffer_mutex, either call get_buffer2 here or ask the user's      *)
(* thread for it.                                                          *)
GetBuffer(t) ==
  /\ AtGetBuffer(t) /\ ~Refused(t) /\ lock.buffer = None
  /\ lock' = [lock EXCEPT !.buffer = t]
  /\ IF MainCallsGetBuffer
     THEN /\ slot' = [slot EXCEPT ![t].state = "GET_BUFFER"]
          /\ WorkerGoes(t, "gb_signal")
          /\ UNCHANGED wloc
     ELSE /\ \E e \in BOOLEAN : wloc' = [wloc EXCEPT ![t].gb_err = e]
          /\ WorkerGoes(t, "gb_done")
          /\ UNCHANGED slot
  /\ UNCHANGED <<fctx, ctx, progress_wait, mpc, m, h>>

(* Wait on one's own progress_cond, where `others' already wait, until the *)
(* user's thread has answered.                                             *)
AwaitAnswer(t, others) ==
  IF slot[t].state # "SETTING_UP"
  THEN /\ progress_wait' = [progress_wait EXCEPT ![t] = others \union {t}]
       /\ WorkerGoes(t, "gb_wait")
       /\ UNCHANGED wloc
  ELSE /\ progress_wait' = [progress_wait EXCEPT ![t] = others]
       /\ WorkerGoes(t, "gb_done")
       /\ wloc' = [wloc EXCEPT ![t].gb_err = slot[t].result < 0]

GetBufferSignal(t) ==
  /\ wpc[t] = "gb_signal"
  /\ \E others \in AfterSignal(t) : AwaitAnswer(t, others)
  /\ UNCHANGED <<fctx, lock, slot, ctx, mpc, m, h>>

GetBufferWake(t) ==
  /\ wpc[t] = "gb_wait" /\ t \notin progress_wait[t]
  /\ AwaitAnswer(t, progress_wait[t])
  /\ UNCHANGED <<fctx, lock, slot, ctx, mpc, m, h>>

(* The setup of a codec without update_thread_context ends with its first  *)
(* get_buffer, still under buffer_mutex.                                   *)
GetBufferDone(t) ==
  /\ wpc[t] = "gb_done"
  /\ IF ~m.setup.thread_safe /\ ~m.setup.update THEN FinishSetup(t, "gb_out")
     ELSE SkipFinishSetup(t, "gb_out")
  /\ UNCHANGED <<fctx, lock, slot, ctx, progress_wait, mpc, m, h>>

(* Back in the codec with or without a buffer; a codec with                *)
(* update_thread_context now finishes its setup.                           *)
GetBufferOut(t) ==
  /\ wpc[t] = "gb_out"
  /\ lock' = [lock EXCEPT !.buffer = None]
  /\ IF wloc[t].gb_err
     THEN CodecFails(t) /\ UNCHANGED <<ctx, wloc>>
     ELSE /\ ctx' = [ctx EXCEPT ![t].frame = slot[t].pkt, ![t].owner = t]
          /\ IF m.setup.update THEN FinishSetup(t, "decode") ELSE SkipFinishSetup(t, "decode")
          /\ UNCHANGED slot
  /\ UNCHANGED <<fctx, progress_wait, mpc, m, h>>

(* Does t have to wait for its reference frame?  Only codecs with          *)
(* update_thread_context have one.                                         *)
MustAwait(t) ==
  m.setup.update /\ wloc[t].ref # NoFrame /\ wloc[t].ref \notin h.progress

(* ff_thread_await_progress() on the reference frame. *)
AwaitProgress(t) ==
  /\ \/ wpc[t] = "decode"
     \/ wpc[t] = "await" /\ t \notin progress_wait[wloc[t].owner]
  /\ IF MustAwait(t)
     THEN /\ progress_wait' = [progress_wait EXCEPT ![wloc[t].owner] = @ \union {t}]
          /\ WorkerGoes(t, "await")
     ELSE /\ WorkerGoes(t, "report")
          /\ UNCHANGED progress_wait
  /\ UNCHANGED <<fctx, lock, slot, ctx, wloc, mpc, m, h>>

(* The picture is decoded: ff_thread_report_progress() of all rows ... *)
ReportProgress(t) ==
  /\ wpc[t] = "report"
  /\ IF slot[t].size
     THEN h' = [h EXCEPT !.progress = @ \union {slot[t].pkt}] /\ Broadcast(t)
     ELSE UNCHANGED <<h, progress_wait>>
  /\ WorkerGoes(t, "output")
  /\ UNCHANGED <<fctx, lock, slot, ctx, wloc, mpc, m>>

(* ... and the codec returns a frame, no frame, or an error.  A drain      *)
(* packet may return a frame the codec held back.                          *)
DecodeReturns(t) ==
  /\ wpc[t] = "output"
  /\ \/ /\ slot' = [slot EXCEPT ![t].result = 0, ![t].frame = slot[t].pkt,
                                ![t].got_frame = TRUE]
        /\ h' = [h EXCEPT !.produced = @ \union {slot[t].pkt}]
        /\ WorkerGoes(t, "return")
     \/ /\ slot' = [slot EXCEPT ![t].result = 0]
        /\ WorkerGoes(t, "return")
        /\ UNCHANGED h
     \/ CodecFails(t) /\ UNCHANGED h
  /\ UNCHANGED <<fctx, lock, ctx, progress_wait, wloc, mpc, m>>

(* After codec->decode(): end the setup if the codec did not. *)
Return(t) ==
  /\ wpc[t] = "return"
  /\ IF slot[t].state = "SETTING_UP" THEN FinishSetup(t, "finish")
     ELSE SkipFinishSetup(t, "finish")
  /\ UNCHANGED <<fctx, lock, slot, ctx, progress_wait, mpc, m, h>>

(* Release hwaccel_mutex and async_mutex. *)
Finish(t) ==
  /\ wpc[t] = "finish"
  /\ lock' = [lock EXCEPT !.hwaccel = IF slot[t].hwaccel_serializing THEN None ELSE @,
                          !.async = IF slot[t].async_serializing THEN None ELSE @]
  /\ slot' = [slot EXCEPT ![t].hwaccel_serializing = FALSE, ![t].async_serializing = FALSE]
  /\ WorkerGoes(t, "ready")
  /\ UNCHANGED <<fctx, ctx, progress_wait, wloc, mpc, m, h>>

Ready(t) ==
  /\ wpc[t] = "ready"
  /\ slot' = [slot EXCEPT ![t].state = "INPUT_READY"]
  /\ WorkerGoes(t, "signal")
  /\ wloc' = [wloc EXCEPT ![t] = NoLocals]
  /\ UNCHANGED <<fctx, lock, ctx, progress_wait, mpc, m, h>>

(* pthread_cond_signal(&p->output_cond): only the user's thread waits      *)
(* there, in ff_thread_decode_frame() or park_frame_worker_threads().      *)
WakeOutput(t) ==
  mpc' = IF m.cur # t THEN mpc
         ELSE IF mpc = "wait_out" THEN "collect"
         ELSE IF mpc = "park_wait" THEN "park" ELSE mpc

Signal(t) ==
  /\ wpc[t] = "signal"
  /\ WakeOutput(t)
  /\ WorkerGoes(t, "top")
  /\ UNCHANGED <<fctx, lock, slot, ctx, progress_wait, wloc, m, h>>

---------------------------------------------------------------------------
(***************************************************************************)
(* The user's thread: ff_thread_decode_frame() and submit_packet().        *)
(***************************************************************************)

(* decode_simple_internal() calls ff_thread_decode_frame() with a packet,  *)
(* or with an empty one (sz = FALSE) while draining, until a drain call    *)
(* returns no frame.  async_mutex is given away for the time of the call.  *)
DecodeFrame(sz) ==
  /\ mpc = "user" /\ ~m.eof /\ (sz => ~m.draining)
  /\ (sz \/ m.setup.delay) => h.sub < m.setup.submits
  /\ lock' = [lock EXCEPT !.async = None]
  /\ m' = [m EXCEPT !.size = sz, !.draining = ~sz, !.cur = fctx.next_decoding,
                    !.finished = fctx.next_finished, !.got_picture = FALSE]
  /\ mpc' = "submit"
  /\ UNCHANGED <<fctx, slot, ctx, progress_wait, wpc, wloc, h>>

(* submit_packet(): take p->mutex and free the buffers the thread was the  *)
(* last user of.  Nothing is submitted to drain a codec without delay.     *)
SubmitLock ==
  /\ mpc = "submit"
  /\ IF ~m.size /\ ~m.setup.delay
     THEN mpc' = "delay" /\ UNCHANGED slot
     ELSE /\ ~WorkerHolds(m.cur)
          /\ slot[m.cur].released => lock.buffer = None
          /\ slot' = [slot EXCEPT ![m.cur].released = FALSE]
          /\ mpc' = "submit_prev"
  /\ UNCHANGED <<fctx, lock, ctx, progress_wait, wpc, wloc, m, h>>

(* The previous thread has to finish its setup before its context can be   *)
(* copied; p->mutex is held meanwhile.                                     *)
PrevInSetup_Ignored == FALSE
PrevInSetup ==
  fctx.prev_thread # None /\ slot[fctx.prev_thread].state = "SETTING_UP"

AtPrev ==
  mpc = "submit_prev" \/ (mpc = "wait_prev" /\ Main \notin progress_wait[fctx.prev_thread])

WaitPrev ==
  /\ AtPrev /\ PrevInSetup
  /\ progress_wait' = [progress_wait EXCEPT ![fctx.prev_thread] = @ \union {Main}]
  /\ mpc' = "wait_prev"
  /\ UNCHANGED <<fctx, lock, slot, ctx, wpc, wloc, m, h>>

(* update_context_from_thread(dst, src, 0): the reference frame travels in *)
(* the codec's private context.                                            *)
UpdateContextFromThread(dst, src) ==
  IF m.setup.update THEN ctx[src]
  ELSE [ctx[dst] EXCEPT !.seen = ctx[src].seen, !.hw = ctx[src].hw]

(* codec->update_thread_context() fails after the common fields have been  *)
(* copied, and submit_packet() returns early; or, before that,             *)
(* update_context_from_user() fails.                                       *)
UpdateFails ==
  /\ \/ /\ AtPrev /\ ~PrevInSetup /\ fctx.prev_thread # None /\ m.setup.update
        /\ ctx' = [ctx EXCEPT ![m.cur].hw = ctx[fctx.prev_thread].hw]
     \/ mpc = "submit" /\ UNCHANGED ctx
  /\ h' = [h EXCEPT !.sub_failed = TRUE]
  /\ mpc' = "return"
  /\ UNCHANGED <<fctx, lock, slot, progress_wait, wpc, wloc, m>>

(* Copy the context, hand over the packet, wake the worker. *)
SubmitPacket ==
  /\ AtPrev /\ ~PrevInSetup
  /\ ctx' = IF fctx.prev_thread = None THEN ctx
            ELSE [ctx EXCEPT ![m.cur] = UpdateContextFromThread(m.cur, fctx.prev_thread)]
  /\ slot' = [slot EXCEPT ![m.cur].pkt = h.sub + 1, ![m.cur].size = m.size,
                          ![m.cur].state = "SETTING_UP"]
  /\ WakeInput(m.cur)
  /\ mpc' = IF MainCallsGetBuffer THEN "service" ELSE "advance"
  /\ h' = [h EXCEPT !.sub = @ + 1]
  /\ UNCHANGED <<fctx, lock, progress_wait, wloc, m>>

(* The loop of submit_packet() that serves get_buffer requests until the   *)
(* worker has finished its setup.                                          *)
ServiceDone ==
  /\ mpc = "service" /\ slot[m.cur].state \in {"SETUP_FINISHED", "INPUT_READY"}
  /\ mpc' = "advance"
  /\ UNCHANGED <<fctx, lock, slot, ctx, progress_wait, wpc, wloc, m, h>>

ServiceWait ==
  /\ mpc = "service" /\ slot[m.cur].state = "SETTING_UP"
  /\ progress_wait' = [progress_wait EXCEPT ![m.cur] = @ \union {Main}]
  /\ mpc' = "service_wait"
  /\ UNCHANGED <<fctx, lock, slot, ctx, wpc, wloc, m, h>>

ServiceWake ==
  /\ mpc = "service_wait" /\ Main \notin progress_wait[m.cur]
  /\ mpc' = "service"
  /\ UNCHANGED <<fctx, lock, slot, ctx, progress_wait, wpc, wloc, m, h>>

ServiceGetBuffer ==
  /\ mpc = "service" /\ slot[m.cur].state = "GET_BUFFER"
  /\ \E r \in {0, -1} :
       slot' = [slot EXCEPT ![m.cur].result = r, ![m.cur].state = "SETTING_UP"]
  /\ \E others \in AfterSignal(m.cur) :
       progress_wait' = [progress_wait EXCEPT ![m.cur] = others]
  /\ UNCHANGED <<fctx, lock, ctx, wpc, wloc, mpc, m, h>>

Advance ==
  /\ mpc = "advance"
  /\ fctx' = [fctx EXCEPT !.prev_thread = m.cur, !.next_decoding = @ + 1]
  /\ mpc' = "delay"
  /\ UNCHANGED <<lock, slot, ctx, progress_wait, wpc, wloc, m, h>>

(* The pipe is being filled until every thread but one has a packet. *)
PipeFull_AllThreads == fctx.next_decoding >= ThreadCount
PipeFull == fctx.next_decoding >= ThreadCount - 1

DelayCheck ==
  /\ mpc = "delay"
  /\ fctx' = [fctx EXCEPT !.delaying = @ /\ ~PipeFull]
  /\ mpc' = IF fctx.delaying /\ m.size THEN "return" ELSE "collect"
  /\ UNCHANGED <<lock, slot, ctx, progress_wait, wpc, wloc, m, h>>

(* Wait for the oldest thread on its output_cond ... *)
OutputReady(t) == slot[t].state = "INPUT_READY"

CollectWait ==
  /\ mpc = "collect" /\ ~OutputReady(m.finished)
  /\ m' = [m EXCEPT !.cur = m.finished]
  /\ mpc' = "wait_out"
  /\ UNCHANGED <<fctx, lock, slot, ctx, progress_wait, wpc, wloc, h>>

Wrapped(i) == IF i >= ThreadCount THEN 0 ELSE i

(* ... and take its frame.  While draining, threads without a frame are    *)
(* skipped: the loop ends with a frame or after one round.                 *)
KeepLooking_Never(t) == FALSE
KeepLooking(t) == ~m.size /\ ~slot[t].got_frame /\ Wrapped(t + 1) # fctx.next_finished

(* p->got_frame = 0 after the frame was taken. *)
TakenGotFrame(t) == FALSE

(* update_context_from_thread(avctx, p->avctx, 1). *)
ReturnedCtx_Newest(t) == ctx[IF fctx.prev_thread = None THEN t ELSE fctx.prev_thread].seen
ReturnedCtx(t) == ctx[t].seen

Collect ==
  /\ mpc = "collect" /\ OutputReady(m.finished)
  /\ LET t == m.finished IN
     /\ slot' = [slot EXCEPT ![t].frame = NoFrame, ![t].got_frame = TakenGotFrame(t)]
     /\ IF KeepLooking(t)
        THEN /\ m' = [m EXCEPT !.finished = Wrapped(t + 1)]
             /\ UNCHANGED <<mpc, fctx, h>>
        ELSE /\ m' = [m EXCEPT !.finished = Wrapped(t + 1), !.uctx = ReturnedCtx(t),
                               !.got_picture = slot[t].got_frame]
             /\ fctx' = [fctx EXCEPT !.next_decoding = Wrapped(@),
                                     !.next_finished = Wrapped(t + 1)]
             /\ h' = [h EXCEPT !.out = IF slot[t].got_frame THEN Append(@, slot[t].frame)
                                       ELSE @]
             /\ mpc' = "return"
  /\ UNCHANGED <<lock, ctx, progress_wait, wpc, wloc>>

(* The finish label: async_mutex is taken back, and decode.c notes that a  *)
(* drain call brought no frame.                                            *)
DecodeFrameReturn ==
  /\ mpc = "return" /\ lock.async = None
  /\ lock' = [lock EXCEPT !.async = Main]
  /\ m' = [m EXCEPT !.eof = m.draining /\ ~m.got_picture]
  /\ mpc' = "user"
  /\ UNCHANGED <<fctx, slot, ctx, progress_wait, wpc, wloc, h>>

---------------------------------------------------------------------------
(***************************************************************************)
(* ff_thread_flush() and ff_frame_thread_free().                           *)
(***************************************************************************)

(* Both start with park_frame_worker_threads(), which waits for every      *)
(* thread in turn with async_mutex given away.                             *)
ParkBegin(freeing) ==
  /\ mpc = "user" /\ (~freeing => h.flushes < m.setup.flushes)
  /\ lock' = [lock EXCEPT !.async = None]
  /\ m' = [m EXCEPT !.cur = 0, !.freeing = freeing]
  /\ mpc' = "park"
  /\ UNCHANGED <<fctx, slot, ctx, progress_wait, wpc, wloc, h>>

Park ==
  /\ mpc = "park"
  /\ IF slot[m.cur].state # "INPUT_READY" THEN mpc' = "park_wait" /\ UNCHANGED m
     ELSE IF m.cur < ThreadCount - 1 THEN m' = [m EXCEPT !.cur = @ + 1] /\ UNCHANGED mpc
     ELSE m' = [m EXCEPT !.cur = 0] /\ mpc' = IF m.freeing THEN "free" ELSE "flush"
  /\ UNCHANGED <<fctx, lock, slot, ctx, progress_wait, wpc, wloc, h>>

(* Before threads are flushed or freed thread 0 gets the newest context. *)
LatestCtx ==
  IF fctx.prev_thread \in {None, 0} THEN ctx
  ELSE [ctx EXCEPT ![0] = UpdateContextFromThread(0, fctx.prev_thread)]

(* The rest of ff_thread_flush(), with all threads idle; codec->flush()    *)
(* drops the reference, avcodec_flush_buffers() ends draining.             *)
Flush ==
  /\ mpc = "flush" /\ lock.async = None
  /\ lock' = [lock EXCEPT !.async = Main]
  /\ ctx' = [t \in Threads |-> [LatestCtx[t] EXCEPT !.frame = NoFrame, !.owner = 0]]
  /\ fctx' = [prev_thread |-> None, next_decoding |-> 0, next_finished |-> 0,
              delaying |-> TRUE]
  /\ slot' = [t \in Threads |-> [slot[t] EXCEPT !.got_frame = FALSE, !.frame = NoFrame,
                                                !.released = FALSE]]
  /\ m' = [m EXCEPT !.draining = FALSE, !.eof = FALSE, !.got_picture = FALSE]
  /\ h' = [h EXCEPT !.out = <<>>, !.produced = {}, !.sub_failed = FALSE,
                    !.flushes = @ + 1]
  /\ mpc' = "user"
  /\ UNCHANGED <<progress_wait, wpc, wloc>>

(* ff_frame_thread_free() after parking: async_mutex is taken back ... *)
FreeBegin ==
  /\ mpc = "free" /\ lock.async = None
  /\ lock' = [lock EXCEPT !.async = Main]
  /\ ctx' = LatestCtx
  /\ mpc' = "kill"
  /\ UNCHANGED <<fctx, slot, progress_wait, wpc, wloc, m, h>>

(* ... and the threads are told to exit, one at a time, and joined. *)
Kill ==
  /\ mpc = "kill" /\ ~WorkerHolds(m.cur)
  /\ slot' = [slot EXCEPT ![m.cur].die = TRUE]
  /\ WakeInput(m.cur)
  /\ mpc' = "join"
  /\ UNCHANGED <<fctx, lock, ctx, progress_wait, wloc, m, h>>

Join ==
  /\ mpc = "join" /\ wpc[m.cur] = "exit"
  /\ slot' = [slot EXCEPT ![m.cur].released = FALSE, ![m.cur].frame = NoFrame]
  /\ IF m.cur < ThreadCount - 1
     THEN m' = [m EXCEPT !.cur = @ + 1] /\ mpc' = "kill"
     ELSE mpc' = "freed" /\ UNCHANGED m
  /\ UNCHANGED <<fctx, lock, ctx, progress_wait, wpc, wloc, h>>

---------------------------------------------------------------------------
(* A condition wait may return without a signal. *)
SpuriousWakeup ==
  \/ \E t \in Threads : \E x \in progress_wait[t] :
       /\ progress_wait' = [progress_wait EXCEPT ![t] = @ \ {x}]
       /\ UNCHANGED <<fctx, lock, slot, ctx, wpc, wloc, mpc, m, h>>
  \/ \E t \in Threads :
       /\ wpc[t] = "wait_in"
       /\ WakeInput(t)
       /\ UNCHANGED <<fctx, lock, slot, ctx, progress_wait, wloc, mpc, m, h>>
  \/ /\ mpc \in {"wait_out", "park_wait"}
     /\ mpc' = IF mpc = "wait_out" THEN "collect" ELSE "park"
     /\ UNCHANGED <<fctx, lock, slot, ctx, progress_wait, wpc, wloc, m, h>>

Worker(t) ==
  \/ WorkerTop(t) \/ WorkerInput(t) \/ WorkerStart(t) \/ WorkerLock(t) \/ WorkerHw(t)
  \/ Setup(t)
  \/ GetBuffer(t) \/ GetBufferRefused(t) \/ GetBufferSignal(t) \/ GetBufferWake(t)
  \/ GetBufferDone(t) \/ GetBufferOut(t)
  \/ FinishSetupHw(t) \/ FinishSetupAsync(t) \/ FinishSetupSet(t)
  \/ AwaitProgress(t) \/ ReportProgress(t) \/ DecodeReturns(t)
  \/ Return(t) \/ Finish(t) \/ Ready(t) \/ Signal(t)

MainStep ==
  \/ SubmitLock \/ WaitPrev \/ SubmitPacket
  \/ ServiceDone \/ ServiceWait \/ ServiceWake \/ ServiceGetBuffer
  \/ Advance \/ DelayCheck \/ CollectWait \/ Collect \/ DecodeFrameReturn
  \/ Park \/ Flush \/ FreeBegin \/ Kill \/ Join

User ==
  \/ \E sz \in BOOLEAN : DecodeFrame(sz)
  \/ \E freeing \in BOOLEAN : ParkBegin(freeing)

Freed == mpc = "freed" /\ UNCHANGED vars

Next ==
  \/ User \/ MainStep \/ UpdateFails
  \/ \E t \in Threads : Worker(t) \/ ReleaseBuffer(t)
  \/ SpuriousWakeup
  \/ Freed

(***************************************************************************)
(* Every thread that can run is eventually run; the user need not call     *)
(* again, but finishes a call it has started.                              *)
(***************************************************************************)
Fairness ==
  /\ WF_vars(MainStep)
  /\ \A t \in 0..(MaxThreads - 1) : WF_vars(t \in Threads /\ Worker(t))

Spec == Init /\ [][Next]_vars
FairSpec == Spec /\ Fairness

---------------------------------------------------------------------------
(***************************************************************************)
(* Properties.                                                             *)
(***************************************************************************)
(* Frames come out in the order in which their packets went in, none       *)
(* twice, however the threads were scheduled; and when a drain call        *)
(* returns no frame, which decode.c takes for the end of the stream, every *)
(* frame the threads produced has been returned (unless the drain ended    *)
(* early because submitting failed).                                       *)
OutputComplete ==
  /\ \A i, j \in DOMAIN h.out : i < j => h.out[i] < h.out[j]
  /\ m.eof /\ ~h.sub_failed => h.produced = {h.out[i] : i \in DOMAIN h.out}

(* A thread that starts on a packet has the context the packet before left *)
(* after its setup (for codecs that have a setup phase at all).            *)
ContextChain ==
  m.setup.update \/ ~m.setup.thread_safe =>
    \A t \in Threads : wpc[t] = "setup" => ctx[t].seen = slot[t].pkt - 1

(* The user's own context is the one of the packet whose frame was         *)
(* returned last.                                                          *)
UserContext ==
  mpc = "user" /\ m.got_picture => m.uctx = h.out[Len(h.out)]

(* Hwaccel threads run one at a time, from before their setup ends, and    *)
(* one that is not async safe never runs while the user is outside the     *)
(* library.                                                                *)
HwaccelExclusion ==
  /\ \A t, u \in Threads :
       /\ ctx[t].hw /\ wpc[t] \in {"decode", "await", "report", "output"}
       /\ ctx[u].hw /\ wpc[u] \in {"decode", "await", "report", "output"}
       => t = u
  /\ mpc = "user" => \A t \in Threads :
       slot[t].async_serializing => wpc[t] \in {"fs_async", "fs_hw"}

(* At most ThreadCount - 1 packets are inside the decoder between calls:   *)
(* the delay doc/multithreading.txt promises.                              *)
BoundedDelay ==
  mpc = "user" => Cardinality({t \in Threads : \/ slot[t].state # "INPUT_READY"
                                               \/ slot[t].got_frame}) < ThreadCount

(* Where the user's thread is in a call of ff_thread_decode_frame(): the   *)
(* packet is in from SubmitPacket on, and nothing is submitted to drain a  *)
(* codec without delay.                                                    *)
Submitting == {"submit", "submit_prev", "wait_prev"}
Submitted == {"service", "service_wait", "advance"}
Collecting == {"collect", "wait_out"}

CallPhase ==
  CASE mpc \in Submitting -> "entered"
    [] mpc \in Submitted -> "accepted"
    [] mpc = "delay" \/ mpc \in Collecting ->
         IF m.size \/ m.setup.delay THEN "accepted" ELSE "entered"
    [] mpc = "return" -> "returning"
    [] OTHER -> "none"

(* The packets and the frames in the threads. *)
PacketsInside ==
  {slot[t].pkt : t \in {u \in Threads : slot[u].state # "INPUT_READY" \/ slot[u].got_frame}}
FramesInside == {slot[t].pkt : t \in {u \in Threads : slot[u].got_frame}}

Line == INSTANCE DelayLine WITH
  depth <- ThreadCount,
  sub <- h.sub,
  inside <- PacketsInside,
  ready <- FramesInside,
  out <- h.out,
  refused <- h.sub_failed,
  drain <- ~m.size,
  phase <- CallPhase

(* The ring of threads is a delay line: doc/multithreading.txt:10 "accepts *)
(* N future frames and delays decoded pictures by N-1 frames".  A call     *)
(* with a packet returns the frame of exactly the packet ThreadCount - 1   *)
(* before it, or none; a drain call returns the oldest frame, and none     *)
(* only if nothing is left in the threads; between calls only the last     *)
(* ThreadCount - 1 packets are inside; a flush drops finished frames only. *)
KeepsDelayLine == Line!Spec

(* Every call returns: the threads never wait for each other in a circle   *)
(* and no wake-up is lost.                                                 *)
CallReturns == (mpc # "user") ~> (mpc \in {"user", "freed"})
=============================================================================
