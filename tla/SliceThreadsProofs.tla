------------------------- MODULE SliceThreadsProofs -------------------------
(***************************************************************************)
(* Proofs about SliceThreads, for any number of workers, jobs and calls:   *)
(* callbacks that run at the same time have different thread numbers, and  *)
(* the pool implements ParallelFor.                                        *)
(*                                                                         *)
(* Both follow from PoolInv.  Its heart is the last conjunct of JobsInv:   *)
(* during a call current_job is the number of workers plus the number of   *)
(* jobs that have been run and whose tickets are handed back, so that the  *)
(* last ticket is drawn when, and only when, every job is finished.  The   *)
(* other conjuncts of JobsInv say that a job is called by its own worker,  *)
(* or by the worker that drew it, and by nobody else.                      *)
(***************************************************************************)
EXTENDS SliceThreads, FiniteSetTheorems, TLAPS

---------------------------------------------------------------------------
(***************************************************************************)
(* The inductive invariant.                                                *)
(***************************************************************************)

(* The workers that have taken their number. *)
Entered == {w \in Workers : wpc[w] \notin {"unborn", "start", "enter"}}

(* The user thread is inside thread_park_workers(). *)
Parked == mpc \in {"parked", "signalled"}

(* The callback of the call that is running. *)
CurrentCallback == IF func # 0 THEN <<"func", func>> ELSE <<"func2", func2>>

(* A worker that has been woken for this call and has not noticed yet. *)
Pending(w) == wpc[w] = "woken" /\ last_execute[w] # current_execute

(* The jobs that were called, have returned and handed back their ticket. *)
FinishedJobs == {j \in Jobs : calls[j] = 1 /\ \A w \in Workers : Busy(w) => our_job[w] # j}

(* What callee and the result arrays hold. *)
Callbacks == {"none", "func", "func2"} \X Nat
Results == {"none", "func", "func2"} \X Nat \X Nat

WorkerPcs == {"unborn", "start", "enter", "wait", "woken", "run", "call", "relock", "exit"}

PoolTypeOK ==
  /\ job_count \in 0..MaxJobs /\ current_job \in Nat /\ current_execute \in Nat
  /\ done \in BOOLEAN /\ user_ret \in BOOLEAN
  /\ func \in Nat /\ func2 \in Nat /\ thread_count \in Nat
  /\ mpc \in {"create", "parked", "signalled", "idle", "execute2", "free", "join", "freed"}
  /\ wpc \in [Workers -> WorkerPcs]
  /\ our_job \in [Workers -> Nat] /\ last_execute \in [Workers -> Nat]
  /\ self_id \in [Workers -> Nat]
  /\ callee \in [Workers -> Callbacks]
  /\ calls \in [0..(MaxJobs - 1) -> Nat]

(* The workers' numbers: until the first call current_job counts the       *)
(* workers that have taken theirs.                                         *)
NumbersInv ==
  /\ current_execute = 0 => job_count = 0 /\ current_job = Cardinality(Entered)
  /\ \A w \in Entered : self_id[w] < ThreadCount
  /\ \A w \in Entered : current_execute = 0 => self_id[w] < current_job
  /\ \A v, w \in Entered : self_id[v] = self_id[w] => v = w
  /\ \A w \in Workers : last_execute[w] <= current_execute

(* What the user thread relies on where it is. *)
UserInv ==
  /\ thread_count # ThreadCount => current_execute = 0 /\ mpc \in {"free", "join", "freed"}
  /\ mpc \in {"create", "free"} => current_execute = 0
  /\ mpc \in {"idle", "execute2"} => Entered = Workers
  /\ mpc = "execute2" => func2 = current_execute + 1
  /\ done <=> mpc \in {"join", "freed"}
  /\ current_execute > 0 =>
       /\ Entered = Workers /\ job_count > 0
       /\ Parked => func \in {0, current_execute} /\ (func = 0 => func2 = current_execute)
       /\ ~Parked => LastTicket(current_job, job_count)

(* The caller's result array. *)
RetsInv ==
  IF current_execute = 0 THEN ~user_ret
  ELSE user_ret => rets \in [0..(job_count - 1) -> Results]

(* What a worker relies on where it is. *)
WorkersInv ==
  \A w \in Workers :
    /\ wpc[w] = "wait" => ~done /\ last_execute[w] = current_execute
    /\ Busy(w) => /\ Parked /\ current_execute > 0
                  /\ last_execute[w] = current_execute
                  /\ our_job[w] < job_count /\ our_job[w] < current_job
    /\ wpc[w] = "call" => callee[w] = CurrentCallback

(* Who calls which job. *)
JobsInv ==
  current_execute > 0 =>
    /\ \A v, w \in Workers : Busy(v) /\ Busy(w) /\ our_job[v] = our_job[w] => v = w
    /\ \A w \in Workers : Busy(w) => calls[our_job[w]] = IF wpc[w] = "run" THEN 0 ELSE 1
    /\ \A j \in Jobs : j >= current_job => calls[j] = 0
    /\ \A w \in Workers : Pending(w) /\ self_id[w] \in Jobs =>
         /\ calls[self_id[w]] = 0
         /\ \A v \in Workers : Busy(v) => our_job[v] # self_id[w]
    /\ current_job = ThreadCount + Cardinality(FinishedJobs)

PoolInv == PoolTypeOK /\ NumbersInv /\ UserInv /\ RetsInv /\ WorkersInv /\ JobsInv

---------------------------------------------------------------------------
(***************************************************************************)
(* Counting.                                                               *)
(***************************************************************************)

(* There are finitely many workers, and at most all of them have entered. *)
LEMMA EnteredCount ==
  /\ ThreadCount \in Nat /\ ThreadCount >= 2
  /\ IsFiniteSet(Entered) /\ Cardinality(Entered) \in Nat
  /\ Cardinality(Entered) <= ThreadCount
  /\ Cardinality(Entered) = ThreadCount => Entered = Workers
<1>1. Entered \subseteq Workers
  BY DEF Entered
<1> QED
  BY <1>1, WorkersAssumption, FS_Subset, FS_CardinalityType DEF ThreadCount

(* A worker that enters draws a number below ThreadCount. *)
LEMMA EnterCount ==
  ASSUME NEW w \in Workers, w \notin Entered, Entered' = Entered \union {w}
  PROVE  /\ Cardinality(Entered') = Cardinality(Entered) + 1
         /\ Cardinality(Entered) < ThreadCount
<1>1. Entered' \subseteq Workers
  BY DEF Entered
<1>2. Cardinality(Entered') = Cardinality(Entered) + 1 /\ IsFiniteSet(Entered')
  BY EnteredCount, FS_AddElement
<1>3. Cardinality(Entered') <= ThreadCount
  BY <1>1, WorkersAssumption, FS_Subset DEF ThreadCount
<1> QED
  BY <1>2, <1>3, EnteredCount

(* At most all jobs are finished, and when job_count are, all are. *)
LEMMA FinishedCount ==
  ASSUME PoolTypeOK
  PROVE  /\ IsFiniteSet(FinishedJobs) /\ Cardinality(FinishedJobs) \in Nat
         /\ Cardinality(FinishedJobs) <= job_count
         /\ Cardinality(FinishedJobs) = job_count => FinishedJobs = Jobs
<1>1. FinishedJobs \subseteq Jobs
  BY DEF FinishedJobs
<1>2. job_count \in Nat
  BY BoundsAssumption DEF PoolTypeOK
<1>3. IsFiniteSet(Jobs) /\ Cardinality(Jobs) = job_count
  BY <1>2, FS_Interval DEF Jobs
<1> QED
  BY <1>1, <1>2, <1>3, FS_Subset, FS_CardinalityType

(* The last ticket is drawn: every job has been called and is finished,    *)
(* and no worker can start one.  This is what lets thread_park_workers()   *)
(* return.                                                                 *)
LEMMA LastTicketDone ==
  ASSUME PoolInv, current_execute > 0, LastTicket(current_job, job_count)
  PROVE  /\ \A j \in Jobs : calls[j] = 1
         /\ \A w \in Workers : ~Busy(w)
         /\ \A w \in Workers : Pending(w) => self_id[w] >= job_count
<1>1. thread_count = ThreadCount /\ ThreadCount \in Nat
  BY EnteredCount DEF PoolInv, UserInv, PoolTypeOK
<1>2. FinishedJobs = Jobs
  <2>1. current_job = ThreadCount + Cardinality(FinishedJobs) /\ job_count \in Nat
    BY BoundsAssumption DEF PoolInv, JobsInv, PoolTypeOK
  <2> QED
    BY <1>1, <2>1, FinishedCount DEF LastTicket, PoolInv
<1>3. \A j \in Jobs : calls[j] = 1 /\ \A w \in Workers : Busy(w) => our_job[w] # j
  BY <1>2 DEF FinishedJobs
<1>4. \A w \in Workers : ~Busy(w)
  <2> SUFFICES ASSUME NEW w \in Workers, Busy(w) PROVE FALSE
    OBVIOUS
  <2>1. our_job[w] < job_count /\ our_job[w] \in Nat /\ job_count \in Nat
    BY BoundsAssumption DEF PoolInv, WorkersInv, PoolTypeOK
  <2>2. our_job[w] \in Jobs
    BY <2>1 DEF Jobs
  <2> QED
    BY <1>3, <2>2
<1>5. \A w \in Workers : Pending(w) => self_id[w] >= job_count
  <2> SUFFICES ASSUME NEW w \in Workers, Pending(w), self_id[w] < job_count PROVE FALSE
    BY BoundsAssumption DEF PoolInv, PoolTypeOK
  <2>1. self_id[w] \in Jobs
    BY BoundsAssumption DEF PoolInv, PoolTypeOK, Jobs
  <2>2. calls[self_id[w]] = 0
    BY <2>1 DEF PoolInv, JobsInv
  <2> QED
    BY <1>3, <2>1, <2>2
<1> QED
  BY <1>3, <1>4, <1>5

---------------------------------------------------------------------------
(***************************************************************************)
(* One lemma per action, after the facts that several of them use.         *)
(***************************************************************************)

(* The invariant holds after ff_slice_thread_init() has zeroed the         *)
(* context.                                                                *)
LEMMA PoolInvInit == Init => PoolInv
<1> SUFFICES ASSUME Init PROVE PoolInv
  OBVIOUS
<1>1. Entered = {} /\ Cardinality(Entered) = 0
  BY FS_EmptySet DEF Init, Entered
<1>2. PoolTypeOK
  <2>1. callee \in [Workers -> Callbacks]
    BY DEF Init, NoCallee, Callbacks
  <2>2. calls \in [0..(MaxJobs - 1) -> Nat] /\ job_count \in 0..MaxJobs
    BY BoundsAssumption DEF Init
  <2> QED
    BY <2>1, <2>2, EnteredCount DEF Init, PoolTypeOK, WorkerPcs
<1>3. NumbersInv
  BY <1>1 DEF Init, NumbersInv
<1>4. UserInv /\ RetsInv
  BY DEF Init, UserInv, RetsInv
<1>5. WorkersInv
  BY DEF Init, WorkersInv, Busy
<1>6. JobsInv
  BY DEF Init, JobsInv
<1> QED
  BY <1>2, <1>3, <1>4, <1>5, <1>6 DEF PoolInv

(* A step that starts, draws and finishes no job leaves JobsInv alone. *)
LEMMA JobsInvFrame ==
  ASSUME PoolTypeOK, JobsInv,
         UNCHANGED <<job_count, current_job, current_execute, calls, self_id>>,
         \A v \in Workers : Busy(v)' <=> Busy(v),
         \A v \in Workers : Busy(v) => our_job'[v] = our_job[v] /\ wpc'[v] = wpc[v],
         \A v \in Workers : Pending(v)' => Pending(v)
  PROVE  JobsInv'
<1>1. FinishedJobs' = FinishedJobs
  BY DEF FinishedJobs, Jobs
<1>2. Jobs' = Jobs
  BY DEF Jobs
<1> QED
  BY <1>1, <1>2 DEF JobsInv

(* A worker is created, or reads job_count at the top of worker(). *)
LEMMA StartSteps ==
  ASSUME PoolInv, NEW w \in Workers, CreateWorker(w) \/ WorkerStart(w)
  PROVE  PoolInv'
<1> USE DEF PoolInv, CreateWorker, WorkerStart, ctxVars, mainVars
<1>1. Entered' = Entered /\ w \notin Entered
  BY DEF PoolTypeOK, Entered
<1>2. \A v \in Workers : (Busy(v)' <=> Busy(v)) /\ (Busy(v) => v # w)
  BY DEF PoolTypeOK, Busy
<1>3. PoolTypeOK'
  <2>1. job_count \in Nat
    BY BoundsAssumption DEF PoolTypeOK
  <2>2. CASE CreateWorker(w)
    BY <2>2 DEF PoolTypeOK, WorkerPcs
  <2>3. CASE WorkerStart(w)
    BY <2>1, <2>3 DEF PoolTypeOK, StartJob, WorkerPcs
  <2> QED
    BY <2>2, <2>3
<1>4. NumbersInv'
  BY <1>1 DEF NumbersInv
<1>5. UserInv' /\ RetsInv'
  BY <1>1 DEF UserInv, RetsInv, Parked, LastTicket
<1>6. WorkersInv'
  BY <1>2 DEF WorkersInv, PoolTypeOK, Parked, CurrentCallback
<1>7. JobsInv'
  BY <1>2, JobsInvFrame DEF PoolTypeOK, Pending
<1> QED
  BY <1>3, <1>4, <1>5, <1>6, <1>7

(* The user thread steps without touching the workers: a failed            *)
(* pthread_create(), the test of thread_park_workers(), the store of       *)
(* func2, an execute without jobs, the end.                                *)
LEMMA UserSteps ==
  ASSUME PoolInv,
         CreateFails \/ InitPark \/ ParkRecheck \/ SetFunc2 \/ ExecuteNothing \/ FreeJoin
  PROVE  PoolInv'
<1> USE DEF PoolInv
<1>1. /\ UNCHANGED <<wpc, our_job, last_execute, self_id, callee, calls, job_count, current_job,
                     current_execute, done, func, rets, user_ret>>
      /\ UNCHANGED func2 \/ SetFunc2
      /\ UNCHANGED thread_count \/ CreateFails
  BY DEF CreateFails, InitPark, ParkRecheck, SetFunc2, ExecuteNothing, FreeJoin, ctxVars,
         workerVars
<1>2. Entered' = Entered
  BY <1>1 DEF Entered
<1>3. \A v \in Workers : (Busy(v)' <=> Busy(v)) /\ (Pending(v)' <=> Pending(v))
  BY <1>1 DEF Busy, Pending
<1>4. /\ CreateFails => mpc = "create" /\ mpc' = "free" /\ thread_count' \in Nat
      /\ SetFunc2 => mpc = "idle" /\ mpc' = "execute2" /\ func2' = current_execute + 1
      /\ ExecuteNothing => mpc = "execute2" /\ mpc' = "idle"
      /\ FreeJoin => mpc = "join" /\ mpc' = "freed"
      /\ InitPark \/ ParkRecheck =>
           /\ mpc \in {"create", "signalled"}
           /\ mpc' = IF LastTicket(current_job, job_count) THEN "idle" ELSE "parked"
  <2>1. Cardinality(Born) \in Nat
    BY WorkersAssumption, FS_Subset, FS_CardinalityType DEF Born
  <2> QED
    BY <2>1 DEF CreateFails, InitPark, ParkRecheck, SetFunc2, ExecuteNothing, FreeJoin, ParkTest
<1>5. PoolTypeOK'
  BY <1>1, <1>4 DEF PoolTypeOK
<1>6. NumbersInv' /\ RetsInv'
  BY <1>1, <1>2 DEF NumbersInv, RetsInv
<1>7. (InitPark \/ ParkRecheck) /\ mpc' = "idle" => Entered = Workers
  BY <1>4, EnteredCount DEF LastTicket, UserInv, NumbersInv, PoolTypeOK
<1>8. UserInv'
  <2>1. CASE CreateFails
    BY <1>1, <1>2, <1>4, <2>1 DEF UserInv
  <2>2. CASE InitPark \/ ParkRecheck
    BY <1>1, <1>2, <1>4, <1>7, <2>2 DEF UserInv, LastTicket, Parked, CreateFails, InitPark, ParkRecheck, SetFunc2
  <2>3. CASE SetFunc2
    BY <1>1, <1>2, <1>4, <2>3 DEF UserInv, LastTicket, Parked
  <2>4. CASE ExecuteNothing
    BY <1>1, <1>2, <1>4, <2>4 DEF UserInv, LastTicket, Parked
  <2>5. CASE FreeJoin
    BY <1>1, <1>2, <1>4, <2>5 DEF UserInv, LastTicket, Parked
  <2> QED
    BY <2>1, <2>2, <2>3, <2>4, <2>5
<1>9. WorkersInv'
  <2>1. ASSUME NEW v \in Workers, Busy(v)
        PROVE  Parked' /\ UNCHANGED func2
    <3>1. Parked /\ current_execute > 0
      BY <2>1 DEF WorkersInv
    <3>2. ~LastTicket(current_job, job_count)
      BY <2>1, <3>1, LastTicketDone
    <3> QED
      BY <1>1, <1>4, <3>1, <3>2 DEF Parked
  <2>2. \A v \in Workers : wpc[v] = "call" => Busy(v)
    BY DEF Busy
  <2> QED
    BY <1>1, <1>3, <2>1, <2>2 DEF WorkersInv, CurrentCallback
<1>10. JobsInv'
  BY <1>1, <1>3, JobsInvFrame
<1> QED
  BY <1>5, <1>6, <1>8, <1>9, <1>10

(* Waiting workers are woken, by ff_slice_thread_free() or by nobody. *)
LEMMA WakeSteps ==
  ASSUME PoolInv, FreeBegin \/ SpuriousWakeup
  PROVE  PoolInv'
<1> USE DEF PoolInv
<1> DEFINE Effect ==
      /\ UNCHANGED <<our_job, last_execute, self_id, callee, calls, job_count, current_job,
                     current_execute, func, func2, rets, user_ret, thread_count>>
      /\ \/ mpc \in {"idle", "free"} /\ mpc' = "join" /\ done' = TRUE
         \/ mpc' = mpc /\ done' = done
         \/ mpc = "parked" /\ mpc' = "signalled" /\ done' = done
      /\ \A v \in Workers : wpc'[v] = wpc[v] \/ (wpc[v] = "wait" /\ wpc'[v] = "woken")
      /\ mpc' # "join" \/ mpc = "join" \/ \A v \in Workers : wpc'[v] # "wait"
<1>1. Effect
  <2>1. CASE FreeBegin
    BY <2>1 DEF FreeBegin, WakeAll
  <2>2. CASE mpc = "parked" /\ mpc' = "signalled"
             /\ UNCHANGED <<ctxVars, thread_count, user_ret, workerVars, calls>>
    BY <2>2 DEF ctxVars, workerVars
  <2>3. ASSUME NEW w \in Workers, wpc[w] = "wait", wpc' = [wpc EXCEPT ![w] = "woken"],
               UNCHANGED <<ctxVars, mainVars, our_job, last_execute, self_id, callee, calls>>
        PROVE  Effect
    BY <2>3 DEF ctxVars, mainVars, PoolTypeOK
  <2> QED
    BY <2>1, <2>2, <2>3 DEF SpuriousWakeup
<1>2. Entered' = Entered
  BY <1>1 DEF Entered
<1>3. \A v \in Workers : (Busy(v)' <=> Busy(v)) /\ (Busy(v) => wpc'[v] = wpc[v])
  BY <1>1 DEF Busy
<1>4. \A v \in Workers : Pending(v)' => Pending(v)
  BY <1>1 DEF Pending, WorkersInv
<1>5. PoolTypeOK'
  <2>1. wpc' \in [Workers -> WorkerPcs]
    BY DEF FreeBegin, SpuriousWakeup, WakeAll, workerVars, PoolTypeOK, WorkerPcs
  <2> QED
    BY <1>1, <2>1 DEF PoolTypeOK
<1>6. NumbersInv' /\ RetsInv'
  BY <1>1, <1>2 DEF NumbersInv, RetsInv
<1>7. UserInv'
  BY <1>1, <1>2 DEF UserInv, Parked, LastTicket
<1>8. Parked => Parked'
  BY <1>1 DEF Parked
<1>9. WorkersInv'
  BY <1>1, <1>3, <1>8 DEF WorkersInv, CurrentCallback, PoolTypeOK
<1>10. JobsInv'
  BY <1>1, <1>3, <1>4, JobsInvFrame
<1> QED
  BY <1>5, <1>6, <1>7, <1>9, <1>10

(* thread_execute() publishes a call: nobody is busy, every worker is      *)
(* woken or about to notice the new call, and no job is finished.          *)
LEMMA ThreadExecuteStep ==
  ASSUME PoolInv, NEW from \in {"idle", "execute2"}, NEW jobs \in 1..MaxJobs, NEW ret \in BOOLEAN,
         ThreadExecute(from, jobs, ret)
  PROVE  PoolInv'
<1> USE DEF PoolInv
<1>1. /\ UNCHANGED <<done, func2, thread_count, our_job, last_execute, self_id, callee>>
      /\ mpc \in {"idle", "execute2"} /\ job_count' = jobs /\ user_ret' = ret
      /\ current_execute' = current_execute + 1 /\ current_job' = thread_count
      /\ calls' = [j \in 0..(MaxJobs - 1) |-> 0]
      /\ func' = IF mpc = "idle" THEN current_execute + 1 ELSE 0
      /\ rets' = [i \in 0..(RetsCount(ret, jobs) - 1) |-> NoResult]
      /\ wpc' = [w \in Workers |-> IF wpc[w] = "wait" THEN "woken" ELSE wpc[w]]
  BY DEF ThreadExecute, FirstTicket, Func, WakeAll
<1>2. /\ thread_count = ThreadCount /\ ThreadCount \in Nat /\ jobs \in Nat /\ jobs > 0
      /\ ~done /\ Entered = Workers
  BY <1>1, EnteredCount, BoundsAssumption DEF UserInv
<1>3. mpc' = "parked"
  BY <1>2 DEF ThreadExecute, ParkTest, LastTicket, FirstTicket
<1>4. Entered' = Workers
  BY <1>1, <1>2 DEF Entered
<1>5. \A v \in Workers : ~Busy(v) /\ ~Busy(v)'
  <2>1. \A v \in Workers : ~Busy(v)
    BY <1>1 DEF WorkersInv, Parked
  <2> QED
    BY <1>1, <2>1 DEF Busy
<1>6. PoolTypeOK'
  BY <1>1, <1>2, <1>3, BoundsAssumption DEF PoolTypeOK, WorkerPcs
<1>7. NumbersInv'
  BY <1>1, <1>2, <1>4 DEF NumbersInv, PoolTypeOK
<1>8. UserInv'
  BY <1>1, <1>2, <1>3, <1>4 DEF UserInv, Parked, PoolTypeOK
<1>9. RetsInv'
  <2>1. NoResult \in Results
    BY DEF NoResult, Results
  <2> QED
    BY <1>1, <2>1 DEF RetsInv, RetsCount, PoolTypeOK
<1>10. WorkersInv'
  BY <1>1, <1>5 DEF WorkersInv, Busy, PoolTypeOK
<1>11. JobsInv'
  <2>1. Jobs' = 0..(jobs - 1) /\ \A j \in 0..(jobs - 1) : calls'[j] = 0
    BY <1>1, <1>2, BoundsAssumption DEF Jobs
  <2>2. \A j \in FinishedJobs' : j \in Jobs' /\ calls'[j] = 1
    BY DEF FinishedJobs
  <2>3. FinishedJobs' = {}
    BY <2>1, <2>2
  <2>4. Cardinality(FinishedJobs') = 0
    BY <2>3, FS_EmptySet
  <2>5. current_job' = ThreadCount + Cardinality(FinishedJobs')
    BY <1>1, <1>2, <2>4
  <2> QED
    BY <1>1, <1>2, <1>5, <2>1, <2>5 DEF JobsInv
<1> QED
  BY <1>6, <1>7, <1>8, <1>9, <1>10, <1>11

(* pthread_cond_signal(&c->last_job_cond) can only move the user thread    *)
(* from the condition variable to the lock queue.                          *)
LEMMA SignalLastStep ==
  ASSUME PoolInv, NEW cj, SignalLast(cj)
  PROVE  mpc' = mpc \/ (mpc = "parked" /\ mpc' = "signalled")
  BY DEF SignalLast

(* A worker takes its number and waits, or leaves because of done.  This   *)
(* happens before the first call only.                                     *)
LEMMA WorkerEnterStep ==
  ASSUME PoolInv, NEW w \in Workers, WorkerEnter(w)
  PROVE  PoolInv'
<1> USE DEF PoolInv
<1>1. w \notin Entered /\ current_execute = 0 /\ job_count = 0 /\ last_execute[w] = 0
  BY DEF WorkerEnter, Entered, UserInv, NumbersInv, PoolTypeOK
<1>2. our_job[w] >= job_count
  BY <1>1 DEF PoolTypeOK
<1>3. /\ UNCHANGED <<job_count, current_execute, done, func, func2, rets, thread_count, user_ret,
                     callee, calls>>
      /\ current_job' = current_job + 1 /\ self_id' = [self_id EXCEPT ![w] = current_job]
      /\ mpc' = mpc \/ (mpc = "parked" /\ mpc' = "signalled")
      /\ wpc' = [wpc EXCEPT ![w] = IF done THEN "exit" ELSE "wait"]
      /\ last_execute' = last_execute
      /\ our_job' \in [Workers -> Nat] /\ mpc # "create"
  BY <1>1, <1>2, SignalLastStep
     DEF WorkerEnter, AwaitExecute, JobAfterAwait, SelfId, PoolTypeOK, LockFree
<1>4. Entered' = Entered \union {w}
  BY <1>3 DEF Entered, PoolTypeOK
<1>5. /\ current_job = Cardinality(Entered) /\ current_job < ThreadCount
      /\ Cardinality(Entered') = current_job + 1 /\ ThreadCount \in Nat
  BY <1>1, <1>4, EnterCount, EnteredCount DEF NumbersInv
<1>6. \A v \in Workers : ~Busy(v) /\ ~Busy(v)'
  <2>1. \A v \in Workers : ~Busy(v)
    BY <1>1 DEF WorkersInv
  <2> QED
    BY <1>3, <2>1 DEF Busy, PoolTypeOK
<1>7. PoolTypeOK'
  BY <1>3 DEF PoolTypeOK, WorkerPcs
<1>8. NumbersInv'
  <2>1. \A v \in Entered : v # w /\ self_id'[v] = self_id[v] /\ self_id[v] < current_job
                          /\ self_id[v] \in Nat
    BY <1>1, <1>3 DEF NumbersInv, PoolTypeOK, Entered
  <2>2. self_id'[w] = current_job
    BY <1>3 DEF PoolTypeOK
  <2>3. \A v \in Entered' : self_id'[v] < current_job' /\ self_id'[v] < ThreadCount
    BY <1>3, <1>4, <1>5, <2>1, <2>2 DEF PoolTypeOK
  <2>4. \A v, u \in Entered' : self_id'[v] = self_id'[u] => v = u
    BY <1>4, <2>1, <2>2 DEF NumbersInv, PoolTypeOK
  <2> QED
    BY <1>1, <1>3, <1>5, <2>3, <2>4 DEF NumbersInv
<1>9. UserInv' /\ RetsInv'
  BY <1>1, <1>3, <1>4 DEF UserInv, RetsInv, Entered
<1>10. WorkersInv'
  BY <1>1, <1>3, <1>6 DEF WorkersInv, Busy, PoolTypeOK
<1>11. JobsInv'
  BY <1>1, <1>3 DEF JobsInv
<1> QED
  BY <1>7, <1>8, <1>9, <1>10, <1>11

(* A woken worker finds nothing to do: it waits again, has no job of its   *)
(* own in this call, or leaves because of done.                            *)
LEMMA WorkerWakeRests ==
  ASSUME PoolInv, NEW w \in Workers, WorkerWake(w), done \/ ~Pending(w) \/ self_id[w] >= job_count
  PROVE  PoolInv'
<1> USE DEF PoolInv
<1>1. /\ UNCHANGED <<job_count, current_job, current_execute, done, func, func2, rets,
                     thread_count, user_ret, self_id, callee, calls>>
      /\ mpc' = mpc \/ (mpc = "parked" /\ mpc' = "signalled")
      /\ wpc' = [wpc EXCEPT ![w] = IF done THEN "exit" ELSE "wait"]
      /\ last_execute' = [last_execute EXCEPT ![w] = current_execute]
      /\ our_job' \in [Workers -> Nat]
      /\ \A v \in Workers : v # w => our_job'[v] = our_job[v]
  <2>1. wpc[w] = "woken" /\ self_id[w] \in Nat /\ job_count \in Nat
    BY BoundsAssumption DEF WorkerWake, PoolTypeOK
  <2>2. CASE last_execute[w] = current_execute /\ ~done
    BY <2>1, <2>2 DEF WorkerWake, AwaitExecute, JobAfterAwait, PoolTypeOK, ctxVars
  <2>3. CASE ~(last_execute[w] = current_execute /\ ~done)
    <3>1. done \/ ~(self_id[w] < job_count)
      BY <2>1, <2>3 DEF Pending
    <3> QED
      BY <2>1, <2>3, <3>1, SignalLastStep
         DEF WorkerWake, AwaitExecute, JobAfterAwait, PoolTypeOK, ctxVars
  <2> QED
    BY <2>2, <2>3
<1>2. wpc[w] = "woken"
  BY DEF WorkerWake
<1>3. Entered' = Entered
  BY <1>1, <1>2 DEF Entered, PoolTypeOK
<1>4. \A v \in Workers : /\ Busy(v)' <=> Busy(v)
                         /\ Busy(v) => v # w /\ wpc'[v] = wpc[v]
  BY <1>1, <1>2 DEF Busy, PoolTypeOK
<1>5. \A v \in Workers : Pending(v)' => Pending(v)
  BY <1>1 DEF Pending, PoolTypeOK
<1>6. PoolTypeOK'
  BY <1>1 DEF PoolTypeOK, WorkerPcs
<1>7. NumbersInv' /\ RetsInv'
  BY <1>1, <1>3 DEF NumbersInv, RetsInv, PoolTypeOK
<1>8. UserInv'
  BY <1>1, <1>3 DEF UserInv, Parked, LastTicket
<1>9. WorkersInv'
  BY <1>1, <1>4 DEF WorkersInv, CurrentCallback, PoolTypeOK, Parked
<1>10. JobsInv'
  BY <1>1, <1>4, <1>5, JobsInvFrame
<1> QED
  BY <1>6, <1>7, <1>8, <1>9, <1>10

(* A woken worker starts the job of its own number. *)
LEMMA WorkerWakeRuns ==
  ASSUME PoolInv, NEW w \in Workers, WorkerWake(w), ~done, Pending(w), self_id[w] < job_count
  PROVE  PoolInv'
<1> USE DEF PoolInv
<1>1. /\ UNCHANGED <<job_count, current_job, current_execute, done, func, func2, rets, mpc,
                     thread_count, user_ret, self_id, callee, calls>>
      /\ wpc' = [wpc EXCEPT ![w] = "run"]
      /\ last_execute' = [last_execute EXCEPT ![w] = current_execute]
      /\ our_job' = [our_job EXCEPT ![w] = self_id[w]]
      /\ wpc[w] = "woken"
  BY BoundsAssumption
     DEF WorkerWake, Pending, AwaitExecute, JobAfterAwait, PoolTypeOK, ctxVars
<1>2. current_execute > 0 /\ Entered = Workers /\ thread_count = ThreadCount
  BY DEF Pending, NumbersInv, PoolTypeOK, UserInv
<1>3. self_id[w] \in Jobs /\ self_id[w] \in Nat
  BY BoundsAssumption DEF PoolTypeOK, Jobs
<1>4. Parked
  <2>1. ~LastTicket(current_job, job_count)
    BY <1>2, <1>3, LastTicketDone, BoundsAssumption DEF PoolTypeOK
  <2> QED
    BY <1>2, <2>1 DEF UserInv
<1>5. self_id[w] < current_job
  BY <1>2, <1>3, FinishedCount, EnteredCount DEF NumbersInv, JobsInv, PoolTypeOK
<1>6. Entered' = Entered
  BY <1>1 DEF Entered, PoolTypeOK
<1>7. \A v \in Workers : /\ Busy(v)' <=> (Busy(v) \/ v = w)
                         /\ v # w => wpc'[v] = wpc[v] /\ our_job'[v] = our_job[v]
  BY <1>1 DEF Busy, PoolTypeOK
<1>8. our_job'[w] = self_id[w] /\ wpc'[w] = "run" /\ ~Busy(w)
  BY <1>1 DEF PoolTypeOK, Busy
<1>9. PoolTypeOK'
  BY <1>1, <1>3 DEF PoolTypeOK, WorkerPcs
<1>10. NumbersInv' /\ RetsInv' /\ UserInv'
  BY <1>1, <1>6 DEF NumbersInv, RetsInv, UserInv, PoolTypeOK, Parked, LastTicket
<1>11. WorkersInv'
  BY <1>1, <1>2, <1>4, <1>5, <1>7, <1>8 DEF WorkersInv, CurrentCallback, PoolTypeOK, Parked
<1>12. JobsInv'
  <2>1. calls[self_id[w]] = 0 /\ \A v \in Workers : Busy(v) => our_job[v] # self_id[w]
    BY <1>2, <1>3 DEF JobsInv
  <2>2. FinishedJobs' = FinishedJobs
    BY <1>1, <1>7, <1>8, <2>1 DEF FinishedJobs, Jobs
  <2>3. \A v \in Workers : Pending(v)' => Pending(v) /\ v # w
    BY <1>1 DEF Pending, PoolTypeOK
  <2>4. \A v \in Workers : v # w => self_id[v] # self_id[w]
    BY <1>2 DEF NumbersInv
  <2>5. Jobs' = Jobs
    BY <1>1 DEF Jobs
  <2> QED
    BY <1>1, <1>2, <1>7, <1>8, <2>1, <2>2, <2>3, <2>4, <2>5 DEF JobsInv
<1> QED
  BY <1>9, <1>10, <1>11, <1>12

(* A worker calls the callback: func and func2 are read without the lock,  *)
(* but nobody changes them before this job's ticket is handed back.        *)
LEMMA JobCallStep ==
  ASSUME PoolInv, NEW w \in Workers, JobCall(w)
  PROVE  PoolInv'
<1> USE DEF PoolInv
<1>1. /\ UNCHANGED <<job_count, current_job, current_execute, done, func, func2, rets, mpc,
                     thread_count, user_ret, our_job, last_execute, self_id>>
      /\ wpc[w] = "run" /\ wpc' = [wpc EXCEPT ![w] = "call"]
      /\ callee' = [callee EXCEPT ![w] = CurrentCallback]
      /\ calls' = [calls EXCEPT ![our_job[w]] = @ + 1]
  BY DEF JobCall, CurrentCallback, ctxVars, mainVars
<1>2. Busy(w) /\ current_execute > 0 /\ our_job[w] \in Jobs /\ our_job[w] < current_job
  BY <1>1, BoundsAssumption DEF Busy, WorkersInv, PoolTypeOK, Jobs
<1>3. calls[our_job[w]] = 0 /\ our_job[w] \in 0..(MaxJobs - 1)
  BY <1>1, <1>2, BoundsAssumption DEF JobsInv, PoolTypeOK, Jobs
<1>4. /\ calls'[our_job[w]] = 1
      /\ \A j \in 0..(MaxJobs - 1) : j # our_job[w] => calls'[j] = calls[j]
      /\ Jobs \subseteq 0..(MaxJobs - 1) /\ Jobs' = Jobs
  BY <1>1, <1>3, BoundsAssumption DEF PoolTypeOK, Jobs
<1>5. Entered' = Entered
  BY <1>1 DEF Entered, PoolTypeOK
<1>6. \A v \in Workers : /\ Busy(v)' <=> Busy(v)
                         /\ v # w => wpc'[v] = wpc[v] /\ callee'[v] = callee[v]
  BY <1>1, <1>2 DEF Busy, PoolTypeOK
<1>7. PoolTypeOK'
  <2>1. CurrentCallback \in Callbacks
    BY DEF CurrentCallback, Callbacks, PoolTypeOK
  <2> QED
    BY <1>1, <1>3, <2>1 DEF PoolTypeOK, WorkerPcs
<1>8. NumbersInv' /\ RetsInv' /\ UserInv'
  BY <1>1, <1>5 DEF NumbersInv, RetsInv, UserInv, Parked, LastTicket
<1>9. WorkersInv'
  <2>1. CurrentCallback' = CurrentCallback /\ (Parked' <=> Parked)
    BY <1>1 DEF CurrentCallback, Parked
  <2>2. wpc'[w] = "call" /\ callee'[w] = CurrentCallback
    BY <1>1 DEF PoolTypeOK
  <2> QED
    BY <1>1, <1>6, <2>1, <2>2 DEF WorkersInv
<1>10. JobsInv'
  <2>1. \A j \in Jobs : j \in FinishedJobs' <=> j \in FinishedJobs
    BY <1>1, <1>2, <1>4, <1>6 DEF FinishedJobs
  <2>2. FinishedJobs' = FinishedJobs
    BY <1>4, <2>1 DEF FinishedJobs
  <2>3. \A v \in Workers : Pending(v)' <=> Pending(v)
    BY <1>1 DEF Pending, PoolTypeOK
  <2>4. \A v \in Workers : Busy(v) => our_job[v] \in Jobs
    BY BoundsAssumption DEF WorkersInv, PoolTypeOK, Jobs
  <2>5. \A v \in Workers : Busy(v) => calls'[our_job'[v]] = IF wpc'[v] = "run" THEN 0 ELSE 1
    BY <1>1, <1>2, <1>4, <1>6, <2>4 DEF JobsInv, PoolTypeOK
  <2>6. \A j \in Jobs : j >= current_job => calls'[j] = 0
    BY <1>2, <1>4 DEF JobsInv, PoolTypeOK, Jobs
  <2>7. \A v \in Workers : Pending(v) /\ self_id[v] \in Jobs =>
          calls'[self_id[v]] = 0
    BY <1>2, <1>4 DEF JobsInv
  <2> QED
    BY <1>1, <1>2, <1>4, <1>6, <2>2, <2>3, <2>5, <2>6, <2>7 DEF JobsInv
<1> QED
  BY <1>7, <1>8, <1>9, <1>10

(* A callback returns and its result is stored without the lock. *)
LEMMA JobReturnStep ==
  ASSUME PoolInv, NEW w \in Workers, JobReturn(w)
  PROVE  PoolInv'
<1> USE DEF PoolInv
<1>1. /\ UNCHANGED <<job_count, current_job, current_execute, done, func, func2, mpc,
                     thread_count, user_ret, our_job, last_execute, self_id, callee, calls>>
      /\ wpc[w] = "call" /\ wpc' = [wpc EXCEPT ![w] = "relock"]
  BY DEF JobReturn, mainVars
<1>2. Entered' = Entered
  BY <1>1 DEF Entered, PoolTypeOK
<1>3. \A v \in Workers : /\ Busy(v)' <=> Busy(v)
                         /\ (wpc'[v] = "run" <=> wpc[v] = "run")
                         /\ (Pending(v)' <=> Pending(v))
                         /\ (wpc'[v] = "call" => wpc[v] = "call")
                         /\ (wpc'[v] = "wait" => wpc[v] = "wait")
  BY <1>1 DEF Busy, Pending, PoolTypeOK
<1>4. RetsInv'
  <2>1. callee[w] \in Callbacks /\ our_job[w] \in Nat
    BY DEF PoolTypeOK
  <2>2. Result(callee[w], our_job[w]) \in Results
    BY <2>1 DEF Result, Results, Callbacks
  <2>3. rets' = [rets EXCEPT ![our_job[w] % Cardinality(DOMAIN rets)] =
                   Result(callee[w], our_job[w])]
    BY DEF JobReturn
  <2> QED
    BY <1>1, <2>2, <2>3 DEF RetsInv
<1>5. PoolTypeOK'
  BY <1>1 DEF PoolTypeOK, WorkerPcs
<1>6. NumbersInv' /\ UserInv'
  BY <1>1, <1>2 DEF NumbersInv, UserInv, Parked, LastTicket
<1>7. WorkersInv'
  BY <1>1, <1>3 DEF WorkersInv, CurrentCallback, Parked
<1>8. JobsInv'
  <2>1. FinishedJobs' = FinishedJobs /\ Jobs' = Jobs
    BY <1>1, <1>3 DEF FinishedJobs, Jobs
  <2> QED
    BY <1>1, <1>3, <2>1 DEF JobsInv
<1> QED
  BY <1>4, <1>5, <1>6, <1>7, <1>8

(* A worker hands back its ticket, which finishes its job, and draws the   *)
(* next one: a job nobody has, or none.                                    *)
LEMMA WorkerNextStep ==
  ASSUME PoolInv, NEW w \in Workers, WorkerNext(w)
  PROVE  PoolInv'
<1> USE DEF PoolInv
<1> DEFINE old == our_job[w]
           more == current_job < job_count
<1>1. /\ wpc[w] = "relock" /\ Busy(w) /\ Parked /\ current_execute > 0 /\ ~done
      /\ last_execute[w] = current_execute /\ old \in Jobs /\ old < current_job
      /\ current_job \in Nat /\ job_count \in Nat
  BY BoundsAssumption DEF WorkerNext, Busy, WorkersInv, PoolTypeOK, Jobs, UserInv, Parked
<1>2. /\ UNCHANGED <<job_count, current_execute, done, func, func2, rets, thread_count, user_ret,
                     last_execute, self_id, calls>>
      /\ current_job' = current_job + 1
      /\ callee' = [callee EXCEPT ![w] = NoCallee]
      /\ our_job' = [our_job EXCEPT ![w] = current_job]
      /\ wpc' = [wpc EXCEPT ![w] = IF more THEN "run" ELSE "wait"]
      /\ mpc' = mpc \/ (mpc = "parked" /\ mpc' = "signalled")
  BY <1>1, SignalLastStep DEF WorkerNext, AwaitExecute, JobAfterAwait
<1>3. Entered' = Entered
  BY <1>1, <1>2 DEF Entered, PoolTypeOK
<1>4. /\ \A v \in Workers : v # w => /\ Busy(v)' <=> Busy(v)
                                     /\ wpc'[v] = wpc[v] /\ our_job'[v] = our_job[v]
                                     /\ callee'[v] = callee[v]
      /\ Busy(w)' <=> more
      /\ our_job'[w] = current_job /\ wpc'[w] = IF more THEN "run" ELSE "wait"
  BY <1>1, <1>2 DEF Busy, PoolTypeOK
<1>5. \A v \in Workers : Pending(v)' => Pending(v)
  BY <1>1, <1>2 DEF Pending, PoolTypeOK
<1>6. PoolTypeOK'
  <2>1. NoCallee \in Callbacks
    BY DEF NoCallee, Callbacks
  <2> QED
    BY <1>2, <2>1 DEF PoolTypeOK, WorkerPcs
<1>7. Parked'
  BY <1>1, <1>2 DEF Parked
<1>8. NumbersInv' /\ RetsInv' /\ UserInv'
  BY <1>1, <1>2, <1>3, <1>7 DEF NumbersInv, RetsInv, UserInv, PoolTypeOK, Parked
<1>9. WorkersInv'
  <2>1. CurrentCallback' = CurrentCallback
    BY <1>2 DEF CurrentCallback
  <2>2. ASSUME NEW v \in Workers, v # w
        PROVE  /\ wpc'[v] = "wait" => ~done' /\ last_execute'[v] = current_execute'
               /\ Busy(v)' => /\ Parked' /\ current_execute' > 0
                              /\ last_execute'[v] = current_execute'
                              /\ our_job'[v] < job_count' /\ our_job'[v] < current_job'
               /\ wpc'[v] = "call" => callee'[v] = CurrentCallback'
    BY <1>2, <1>4, <1>7, <2>1, <2>2 DEF WorkersInv, PoolTypeOK
  <2>3. /\ wpc'[w] = "wait" => ~done' /\ last_execute'[w] = current_execute'
        /\ Busy(w)' => /\ Parked' /\ current_execute' > 0
                       /\ last_execute'[w] = current_execute'
                       /\ our_job'[w] < job_count' /\ our_job'[w] < current_job'
        /\ wpc'[w] # "call"
    BY <1>1, <1>2, <1>4, <1>7
  <2> QED
    BY <2>2, <2>3 DEF WorkersInv
<1>10. JobsInv'
  <2>1. Jobs' = Jobs
    BY <1>2 DEF Jobs
  <2>2. /\ calls[old] = 1
        /\ \A v \in Workers : Busy(v) /\ v # w => our_job[v] # old
    BY <1>1 DEF JobsInv
  <2>3. \A v \in Workers : Busy(v) => our_job[v] < current_job
    BY DEF WorkersInv
  <2>4. more => current_job \in Jobs /\ calls[current_job] = 0
    BY <1>1 DEF JobsInv, Jobs
  <2>5. old \notin FinishedJobs
    BY <1>1 DEF FinishedJobs
  <2>6. \A j \in Jobs : j \in FinishedJobs' <=> (j \in FinishedJobs \/ j = old)
    <3> SUFFICES ASSUME NEW j \in Jobs PROVE j \in FinishedJobs' <=> (j \in FinishedJobs \/ j = old)
      OBVIOUS
    <3>1. j \in FinishedJobs' <=> calls[j] = 1 /\ \A v \in Workers : Busy(v)' => our_job'[v] # j
      BY <1>2, <2>1 DEF FinishedJobs
    <3>2. j \in FinishedJobs <=> calls[j] = 1 /\ \A v \in Workers : Busy(v) => our_job[v] # j
      BY DEF FinishedJobs
    <3>3. CASE j = old
      BY <1>1, <1>4, <2>2, <2>4, <3>1, <3>3
    <3>4. CASE j # old
      BY <1>1, <1>4, <2>4, <3>1, <3>2, <3>4
    <3> QED
      BY <3>3, <3>4
  <2>7. FinishedJobs' = FinishedJobs \union {old}
    BY <1>1, <2>1, <2>6 DEF FinishedJobs
  <2>8. Cardinality(FinishedJobs') = Cardinality(FinishedJobs) + 1
    BY <2>5, <2>7, FinishedCount, FS_AddElement
  <2>9. current_job' = ThreadCount + Cardinality(FinishedJobs')
    BY <1>1, <1>2, <2>8, EnteredCount, FinishedCount DEF JobsInv
  <2>10. \A v, u \in Workers : Busy(v)' /\ Busy(u)' /\ our_job'[v] = our_job'[u] => v = u
    BY <1>1, <1>4, <2>3 DEF JobsInv, PoolTypeOK
  <2>11. \A v \in Workers : Busy(v)' => calls'[our_job'[v]] = IF wpc'[v] = "run" THEN 0 ELSE 1
    BY <1>1, <1>2, <1>4, <2>4 DEF JobsInv
  <2>12. \A j \in Jobs' : j >= current_job' => calls'[j] = 0
    BY <1>1, <1>2, <2>1 DEF JobsInv, Jobs
  <2>13. \A v \in Workers : self_id[v] # current_job
    <3>1. \A v \in Workers : self_id[v] < ThreadCount /\ self_id[v] \in Nat
      BY <1>1 DEF NumbersInv, UserInv, PoolTypeOK
    <3>2. current_job >= ThreadCount
      BY <1>1, EnteredCount, FinishedCount DEF JobsInv
    <3> QED
      BY <3>1, <3>2, <1>1, EnteredCount
  <2>14. \A v \in Workers : Pending(v)' /\ self_id'[v] \in Jobs' =>
           /\ calls'[self_id'[v]] = 0
           /\ \A u \in Workers : Busy(u)' => our_job'[u] # self_id'[v]
    BY <1>1, <1>2, <1>4, <1>5, <2>1, <2>13 DEF JobsInv
  <2> QED
    BY <2>9, <2>10, <2>11, <2>12, <2>14 DEF JobsInv
<1> QED
  BY <1>6, <1>8, <1>9, <1>10

(* Every step of worker(), thread_execute() and the rest preserves the     *)
(* invariant.                                                              *)
LEMMA PoolInvStep == PoolInv /\ [Next]_vars => PoolInv'
<1> SUFFICES ASSUME PoolInv, [Next]_vars PROVE PoolInv'
  OBVIOUS
<1>1. CASE UNCHANGED vars
  <2>1. /\ Entered' = Entered /\ FinishedJobs' = FinishedJobs
        /\ \A v \in Workers : (Busy(v)' <=> Busy(v)) /\ (Pending(v)' <=> Pending(v))
    BY <1>1 DEF vars, ctxVars, mainVars, workerVars, Entered, FinishedJobs, Busy, Pending, Jobs
  <2> QED
    BY <1>1, <2>1 DEF vars, ctxVars, mainVars, workerVars, PoolInv, PoolTypeOK, NumbersInv,
       UserInv, RetsInv, WorkersInv, JobsInv, Jobs, Parked, CurrentCallback, LastTicket
<1>2. CASE User
  BY <1>2, ThreadExecuteStep, UserSteps, WakeSteps DEF User
<1>3. CASE Main
  BY <1>3, StartSteps, UserSteps DEF Main
<1>4. ASSUME NEW w \in Workers, Worker(w) PROVE PoolInv'
  <2>1. CASE WorkerWake(w)
    <3>1. done \/ ~Pending(w) \/ self_id[w] >= job_count \/ self_id[w] < job_count
      BY BoundsAssumption DEF PoolInv, PoolTypeOK
    <3> QED
      BY <2>1, <3>1, WorkerWakeRests, WorkerWakeRuns
  <2> QED
    BY <1>4, <2>1, StartSteps, WorkerEnterStep, JobCallStep, JobReturnStep, WorkerNextStep
       DEF Worker
<1> QED
  BY <1>1, <1>2, <1>3, <1>4, UserSteps, WakeSteps DEF Next, Finished

(* The inductive invariant holds in every reachable state. *)
THEOREM PoolInvariant == Spec => []PoolInv
  BY PoolInvInit, PoolInvStep, PTL DEF Spec

(* Callbacks of execute2() that run at the same time have different        *)
(* threadnr, all below thread_count, also when a failed pthread_create()   *)
(* has cut thread_count.                                                   *)
THEOREM ThreadNumbers == Spec => []ThreadNrDistinct
<1>1. PoolInv => ThreadNrDistinct
  <2> SUFFICES ASSUME PoolInv, NEW v \in Workers, NEW w \in Workers, Busy(v), Busy(w)
               PROVE  /\ self_id[v] \in 0..(thread_count - 1)
                      /\ self_id[v] = self_id[w] => v = w
    BY DEF ThreadNrDistinct
  <2>1. current_execute > 0
    BY DEF PoolInv, WorkersInv
  <2>2. thread_count = ThreadCount /\ Entered = Workers
    BY <2>1 DEF PoolInv, UserInv
  <2> QED
    BY <2>2, EnteredCount DEF PoolInv, NumbersInv, PoolTypeOK
<1> QED
  BY <1>1, PoolInvariant, PTL

---------------------------------------------------------------------------
(***************************************************************************)
(* The refinement: the pool implements ParallelFor.                        *)
(***************************************************************************)

(* What Promise puts for callback, active and results. *)
AbsCallback == IF Phase # "call" THEN NoCallee ELSE CurrentCallback
AbsActive == {<<our_job[w], callee[w]>> : w \in {v \in Workers : wpc[v] = "call"}}
AbsResults == IF user_ret THEN rets ELSE <<>>

(* A zeroed context is an abstract pool that has not been opened. *)
LEMMA PromiseInit == Init => Promise!Init
<1> SUFFICES ASSUME Init PROVE Promise!Init
  OBVIOUS
<1>1. Phase = "init"
  BY DEF Init, Phase
<1>2. AbsActive = {}
  BY DEF Init, AbsActive
<1> QED
  BY <1>1, <1>2 DEF Init, Promise!Init, Promise!Idle, NoCallee, AbsActive

(* The caller cannot tell a step that changes nothing it can see. *)
LEMMA PromiseStutters ==
  ASSUME Phase' = Phase, UNCHANGED <<current_execute, calls, job_count, user_ret, rets>>,
         Phase = "call" => UNCHANGED <<func, func2>>,
         \A v \in Workers : wpc'[v] = "call" <=> wpc[v] = "call",
         \A v \in Workers : wpc[v] = "call" => our_job'[v] = our_job[v] /\ callee'[v] = callee[v]
  PROVE  UNCHANGED Promise!vars
<1>1. AbsActive' = AbsActive
  BY DEF AbsActive
<1>2. AbsCallback' = AbsCallback
  BY DEF AbsCallback, CurrentCallback
<1>3. AbsResults' = AbsResults
  BY DEF AbsResults
<1> QED
  BY <1>1, <1>2, <1>3 DEF Promise!vars, AbsActive, AbsCallback, AbsResults, CurrentCallback

(* A call that is running, in terms of mpc. *)
LEMMA PhaseCall ==
  ASSUME PoolInv
  PROVE  /\ Phase = "call" <=> Parked /\ current_execute > 0
         /\ Phase = "idle" <=> mpc \in {"idle", "execute2"}
         /\ Phase = "init" <=> current_execute = 0 /\ mpc \in {"create", "parked", "signalled"}
         /\ Phase = "closed" <=> mpc \in {"free", "join", "freed"}
<1>1. mpc = "create" => current_execute = 0
  BY DEF PoolInv, UserInv
<1> QED
  BY <1>1 DEF Phase, Parked, PoolInv, PoolTypeOK

(* Creating workers, giving them numbers, waking them and drawing tickets  *)
(* is not seen by the caller.                                              *)
LEMMA InternalSteps ==
  ASSUME PoolInv, PoolInv', NEW w \in Workers,
         CreateWorker(w) \/ WorkerStart(w) \/ WorkerEnter(w) \/ WorkerWake(w) \/ WorkerNext(w)
  PROVE  UNCHANGED Promise!vars
<1>1. /\ UNCHANGED <<current_execute, calls, job_count, user_ret, rets, func, func2>>
      /\ mpc' = mpc \/ (mpc = "parked" /\ mpc' = "signalled")
  BY SignalLastStep
     DEF CreateWorker, WorkerStart, WorkerEnter, WorkerWake, WorkerNext, ctxVars, mainVars
<1>2. /\ wpc[w] # "call" /\ wpc'[w] # "call"
      /\ \A v \in Workers : v # w => /\ wpc'[v] = wpc[v] /\ our_job'[v] = our_job[v]
                                     /\ callee'[v] = callee[v]
  BY ZenonT(60) DEF CreateWorker, WorkerStart, WorkerEnter, WorkerWake, WorkerNext, AwaitExecute,
         PoolInv, PoolTypeOK
<1>3. Phase' = Phase
  BY <1>1 DEF Phase
<1> QED
  BY <1>1, <1>2, <1>3, PromiseStutters

(* A job is called for the first time, and with the callback of this call. *)
LEMMA JobCallBegins ==
  ASSUME PoolInv, NEW w \in Workers, NEW j, j = our_job[w], JobCall(w)
  PROVE  Promise!Begin(j) /\ j \in 0..(MaxJobs - 1)
<1>1. /\ wpc[w] = "run" /\ Busy(w) /\ wpc' = [wpc EXCEPT ![w] = "call"]
      /\ callee' = [callee EXCEPT ![w] = CurrentCallback]
      /\ calls' = [calls EXCEPT ![our_job[w]] = @ + 1]
      /\ UNCHANGED <<job_count, current_execute, func, func2, rets, mpc, user_ret, our_job>>
  BY DEF JobCall, Busy, CurrentCallback, ctxVars, mainVars
<1>2. /\ current_execute > 0 /\ Parked /\ our_job[w] < job_count
      /\ our_job[w] \in 0..(MaxJobs - 1) /\ calls[our_job[w]] = 0
  BY <1>1, BoundsAssumption DEF PoolInv, WorkersInv, JobsInv, PoolTypeOK
<1>3. Phase = "call" /\ Phase' = Phase
  BY <1>1, <1>2, PhaseCall DEF Phase
<1>4. AbsCallback = CurrentCallback /\ AbsCallback' = AbsCallback /\ AbsResults' = AbsResults
  BY <1>1, <1>3 DEF AbsCallback, AbsResults, CurrentCallback
<1>5. AbsActive' = AbsActive \union {<<j, CurrentCallback>>}
  BY <1>1 DEF AbsActive, PoolInv, PoolTypeOK
<1>6. calls' = [calls EXCEPT ![j] = 1]
  BY <1>1, <1>2
<1> QED
  BY <1>1, <1>2, <1>3, <1>4, <1>5, <1>6
     DEF Promise!Begin, AbsActive, AbsCallback, AbsResults, CurrentCallback

(* A result is stored, and where the job belongs in the caller's array. *)
LEMMA JobReturnEnds ==
  ASSUME PoolInv, NEW w \in Workers, NEW j, j = our_job[w], JobReturn(w)
  PROVE  Promise!End(j) /\ j \in 0..(MaxJobs - 1)
<1> DEFINE res == <<CurrentCallback[1], CurrentCallback[2], j>>
<1>1. /\ wpc[w] = "call" /\ Busy(w) /\ wpc' = [wpc EXCEPT ![w] = "relock"]
      /\ rets' = [rets EXCEPT ![j % Cardinality(DOMAIN rets)] = Result(callee[w], j)]
      /\ UNCHANGED <<job_count, current_execute, func, func2, mpc, user_ret, our_job, callee, calls>>
  BY DEF JobReturn, Busy, mainVars
<1>2. /\ current_execute > 0 /\ Parked /\ j < job_count /\ j \in Nat /\ job_count \in Nat
      /\ j \in 0..(MaxJobs - 1) /\ callee[w] = CurrentCallback
  BY <1>1, BoundsAssumption DEF PoolInv, WorkersInv, PoolTypeOK
<1>3. Phase = "call" /\ Phase' = Phase
  BY <1>1, <1>2, PhaseCall DEF Phase
<1>4. AbsCallback = CurrentCallback /\ AbsCallback' = AbsCallback
  BY <1>1, <1>3 DEF AbsCallback, CurrentCallback
<1>5. /\ <<j, CurrentCallback>> \in AbsActive
      /\ AbsActive' = AbsActive \ {<<j, CurrentCallback>>}
  <2>1. <<j, CurrentCallback>> \in AbsActive
    BY <1>1, <1>2 DEF AbsActive
  <2>2. \A v \in Workers : v # w /\ wpc[v] = "call" => our_job[v] # j
    BY <1>1, <1>2 DEF PoolInv, JobsInv, Busy
  <2>3. /\ wpc'[w] = "relock"
        /\ \A v \in Workers : v # w => wpc'[v] = wpc[v]
    BY <1>1 DEF PoolInv, PoolTypeOK
  <2>4. AbsActive' = {<<our_job[v], callee[v]>> : v \in {u \in Workers : u # w /\ wpc[u] = "call"}}
    BY <1>1, <2>3 DEF AbsActive
  <2> QED
    BY <1>1, <1>2, <2>1, <2>2, <2>4 DEF AbsActive
<1>6. AbsResults' = IF AbsResults = <<>> THEN <<>> ELSE [AbsResults EXCEPT ![j] = res]
  <2>1. CASE ~user_ret
    BY <1>1, <2>1 DEF AbsResults
  <2>2. CASE user_ret
    <3>1. rets \in [0..(job_count - 1) -> Results]
      BY <1>2, <2>2 DEF PoolInv, RetsInv
    <3>2. Cardinality(DOMAIN rets) = job_count
      BY <1>2, <3>1, FS_Interval
    <3>3. j % job_count = j
      BY <1>2
    <3>4. rets # <<>>
      BY <1>2, <3>1
    <3>5. Result(callee[w], j) = res
      BY <1>2 DEF Result
    <3> QED
      BY <1>1, <2>2, <3>2, <3>3, <3>4, <3>5 DEF AbsResults
  <2> QED
    BY <2>1, <2>2 DEF PoolInv, PoolTypeOK
<1> QED
  BY <1>1, <1>2, <1>3, <1>4, <1>5, <1>6
     DEF Promise!End, Promise!ResultOf, AbsActive, AbsCallback, AbsResults, CurrentCallback

(* thread_execute() publishes the call the caller made. *)
LEMMA ThreadExecuteCalls ==
  ASSUME PoolInv, PoolInv', NEW from \in {"idle", "execute2"}, NEW jobs \in 1..MaxJobs,
         NEW ret \in BOOLEAN, ThreadExecute(from, jobs, ret)
  PROVE  Promise!Call(IF from = "idle" THEN "func" ELSE "func2", jobs, ret)
<1>1. /\ mpc = from /\ current_execute' = current_execute + 1 /\ job_count' = jobs
      /\ func' = IF from = "idle" THEN current_execute + 1 ELSE 0
      /\ func2' = func2 /\ user_ret' = ret /\ UNCHANGED <<our_job, callee>>
      /\ rets' = [i \in 0..((IF ret THEN jobs ELSE 1) - 1) |-> NoResult]
      /\ calls' = [i \in 0..(MaxJobs - 1) |-> 0]
      /\ wpc' = [w \in Workers |-> IF wpc[w] = "wait" THEN "woken" ELSE wpc[w]]
      /\ mpc' \in {"idle", "parked"}
  BY DEF ThreadExecute, Func, RetsCount, WakeAll, ParkTest
<1>2. current_execute \in Nat /\ (from = "execute2" => func2 = current_execute + 1)
  BY <1>1 DEF PoolInv, PoolTypeOK, UserInv
<1>3. Phase = "idle" /\ Phase' = "call"
  <2>1. mpc' = "parked"
    BY EnteredCount, BoundsAssumption
       DEF ThreadExecute, ParkTest, LastTicket, FirstTicket, PoolInv, PoolTypeOK
  <2> QED
    BY <1>1, <1>2, <2>1 DEF Phase
<1>4. AbsCallback' = <<IF from = "idle" THEN "func" ELSE "func2", current_execute + 1>>
  BY <1>1, <1>2, <1>3 DEF AbsCallback, CurrentCallback
<1>5. AbsActive' = AbsActive
  BY <1>1 DEF AbsActive
<1>6. AbsResults' = IF ret THEN [i \in 0..(jobs - 1) |-> NoResult] ELSE <<>>
  BY <1>1 DEF AbsResults
<1> QED
  BY <1>1, <1>3, <1>4, <1>5, <1>6
     DEF Promise!Call, AbsActive, AbsCallback, AbsResults, CurrentCallback

(* The steps of the user's thread: it opens the pool, returns from a call  *)
(* once every job is done and none is running, or closes the pool.         *)
LEMMA UserPromise ==
  ASSUME PoolInv, PoolInv',
         \/ CreateFails \/ InitPark \/ ParkRecheck \/ SetFunc2 \/ ExecuteNothing \/ FreeJoin
         \/ FreeBegin \/ SpuriousWakeup
  PROVE  Promise!Open \/ Promise!Return \/ Promise!Close \/ UNCHANGED Promise!vars
<1>1. /\ UNCHANGED <<current_execute, calls, job_count, user_ret, rets, our_job, callee, func>>
      /\ func2' = func2 \/ mpc = "idle"
      /\ \A v \in Workers : wpc'[v] = "call" <=> wpc[v] = "call"
  <2>1. CASE FreeBegin
    BY <2>1 DEF FreeBegin, WakeAll
  <2>2. CASE SpuriousWakeup
    BY <2>2 DEF SpuriousWakeup, ctxVars, mainVars, workerVars, PoolInv, PoolTypeOK
  <2>3. CASE ~FreeBegin /\ ~SpuriousWakeup
    BY <2>3 DEF CreateFails, InitPark, ParkRecheck, SetFunc2, ExecuteNothing, FreeJoin,
                ctxVars, workerVars
  <2> QED
    BY <2>1, <2>2, <2>3
<1>2. AbsActive' = AbsActive /\ AbsResults' = AbsResults
  BY <1>1 DEF AbsActive, AbsResults
<1>3. CASE Phase' = Phase
  BY <1>1, <1>3, PromiseStutters, PhaseCall DEF Parked
<1>4. CASE Phase' # Phase
  <2>1. \/ Phase = "init" /\ Phase' = "idle"
        \/ Phase = "call" /\ Phase' = "idle" /\ LastTicket(current_job, job_count)
        \/ Phase \in {"init", "idle"} /\ Phase' = "closed"
    <3>1. CASE InitPark \/ ParkRecheck
      BY <1>1, <1>4, <3>1 DEF InitPark, ParkRecheck, ParkTest, Phase
    <3>2. CASE CreateFails
      BY <1>1, <1>4, <3>2 DEF CreateFails, Phase, PoolInv, UserInv
    <3>3. CASE FreeBegin
      BY <1>1, <1>4, <3>3 DEF FreeBegin, Phase
    <3>4. CASE SetFunc2 \/ ExecuteNothing \/ FreeJoin \/ SpuriousWakeup
      BY <1>1, <1>4, <3>4 DEF SetFunc2, ExecuteNothing, FreeJoin, SpuriousWakeup, Phase, mainVars
    <3> QED
      BY <3>1, <3>2, <3>3, <3>4
  <2>2. CASE Phase # "call"
    <3>1. AbsCallback = NoCallee /\ AbsCallback' = NoCallee
      BY <2>1, <2>2 DEF AbsCallback
    <3> QED
      BY <1>1, <1>2, <2>1, <2>2, <3>1
         DEF Promise!Open, Promise!Close, AbsActive, AbsCallback, AbsResults, CurrentCallback
  <2>3. CASE Phase = "call"
    <3>1. Phase' = "idle" /\ LastTicket(current_job, job_count) /\ current_execute > 0
      BY <2>1, <2>3, PhaseCall
    <3>2. AbsActive = {}
      BY <3>1, LastTicketDone DEF AbsActive, Busy
    <3>3. \A j \in 0..(job_count - 1) : calls[j] = 1
      BY <3>1, LastTicketDone DEF Jobs
    <3>4. AbsCallback' = NoCallee
      BY <3>1 DEF AbsCallback
    <3> QED
      BY <1>1, <1>2, <2>3, <3>1, <3>2, <3>3, <3>4
         DEF Promise!Return, Promise!Idle, NoCallee, AbsActive, AbsCallback, AbsResults,
             CurrentCallback
  <2> QED
    BY <2>2, <2>3
<1> QED
  BY <1>3, <1>4

(* Every step of the pool is a step of ParallelFor, or unseen. *)
LEMMA PromiseStep == PoolInv /\ PoolInv' /\ [Next]_vars => [Promise!Next]_(Promise!vars)
<1> SUFFICES ASSUME PoolInv, PoolInv', [Next]_vars
             PROVE  Promise!Next \/ UNCHANGED Promise!vars
  OBVIOUS
<1>1. CASE UNCHANGED vars
  BY <1>1, PromiseStutters DEF vars, ctxVars, mainVars, workerVars, Phase
<1>2. CASE User
  <2>1. ASSUME NEW ret \in BOOLEAN, NEW jobs \in 1..MaxJobs, NEW from \in {"idle", "execute2"},
               ThreadExecute(from, jobs, ret)
        PROVE  Promise!Next
    <3>1. Promise!Call(IF from = "idle" THEN "func" ELSE "func2", jobs, ret)
      BY <2>1, ThreadExecuteCalls
    <3> QED
      BY <3>1 DEF Promise!Next
  <2> QED
    BY <1>2, <2>1, UserPromise DEF User, Promise!Next
<1>3. CASE Main
  BY <1>3, InternalSteps, UserPromise DEF Main, Promise!Next
<1>4. ASSUME NEW w \in Workers, Worker(w) PROVE Promise!Next \/ UNCHANGED Promise!vars
  <2>1. CASE JobCall(w)
    <3>1. \E j \in 0..(MaxJobs - 1) : Promise!Begin(j)
      BY <2>1, JobCallBegins
    <3> QED
      BY <3>1 DEF Promise!Next
  <2>2. CASE JobReturn(w)
    <3>1. \E j \in 0..(MaxJobs - 1) : Promise!End(j)
      BY <2>2, JobReturnEnds
    <3> QED
      BY <3>1 DEF Promise!Next
  <2> QED
    BY <1>4, <2>1, <2>2, InternalSteps DEF Worker
<1>5. CASE CreateFails \/ SpuriousWakeup
  BY <1>5, UserPromise DEF Promise!Next
<1> QED
  BY <1>1, <1>2, <1>3, <1>4, <1>5 DEF Next, Finished

(* The slice-threading pool implements ParallelFor: execute() and          *)
(* execute2() call each job of the call once and with the callback of this *)
(* call, and return when none is running and every result is stored.       *)
THEOREM PoolImplementsParallelFor == Spec => KeepsPromise
<1>1. Init => Promise!Init
  BY PromiseInit
<1>2. PoolInv /\ PoolInv' /\ [Next]_vars => [Promise!Next]_(Promise!vars)
  BY PromiseStep
<1> QED
  BY <1>1, <1>2, PoolInvariant, PTL DEF Spec, KeepsPromise, Promise!Spec
=============================================================================
