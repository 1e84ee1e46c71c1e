---------------------------- MODULE SliceThreads ----------------------------
(***************************************************************************)
(* The slice-threading worker pool of libavcodec/pthread_slice.c: one user *)
(* thread calls execute()/execute2(), a fixed set of workers runs the jobs *)
(* of the call, and the call returns when every job has been run.          *)
(*                                                                         *)
(* All fields of SliceThreadContext except the callback table are only     *)
(* touched with current_job_lock held, so each critical section (from      *)
(* taking the lock to the next unlock or condition wait) is one action.    *)
(* The job itself, and the reads of func, func2 and rets around it, happen *)
(* without the lock and are actions of their own.                          *)
(***************************************************************************)
EXTENDS Integers, FiniteSets

CONSTANTS
  Workers,      \* the worker threads, avctx->thread_count of them
  MaxJobs,      \* bound: most jobs in one execute() call
  MaxExecutes   \* bound: number of execute()/execute2() calls

ASSUME WorkersAssumption == IsFiniteSet(Workers) /\ Cardinality(Workers) >= 2
ASSUME BoundsAssumption == MaxJobs \in Nat \ {0} /\ MaxExecutes \in Nat

ThreadCount == Cardinality(Workers)

VARIABLES
  \* SliceThreadContext
  job_count, current_job, current_execute, done,
  func, func2,   \* the execute call that installed the callback; 0 is NULL
  rets,          \* the result array the current call writes to
  \* the user's thread
  mpc,           \* where it is
  thread_count,  \* avctx->thread_count
  user_ret,      \* did the current call pass a ret array (else &dummy_ret)
  \* the workers
  wpc, our_job, last_execute, self_id,
  callee,        \* the callback a worker is running: <<kind, installed by>>
  \* history: how often each job of the current execute() has been called
  calls

ctxVars    == <<job_count, current_job, current_execute, done, func, func2, rets>>
mainVars   == <<mpc, thread_count, user_ret>>
workerVars == <<wpc, our_job, last_execute, self_id, callee>>
vars       == <<ctxVars, mainVars, workerVars, calls>>

Jobs == 0..(job_count - 1)

NoCallee == <<"none", 0>>
NoResult == <<"none", 0, 0>>

(***************************************************************************)
(* The value a callback returns for a job, abstracted to who returned it.  *)
(***************************************************************************)
Result(callback, job) == <<callback[1], callback[2], job>>

(***************************************************************************)
(* ff_slice_thread_init() has allocated and zeroed the context and taken   *)
(* current_job_lock; no worker exists yet.                                 *)
(***************************************************************************)
Init ==
  /\ job_count = 0 /\ current_job = 0 /\ current_execute = 0 /\ done = FALSE
  /\ func = 0 /\ func2 = 0
  /\ rets = <<>>
  /\ mpc = "create"
  /\ thread_count = ThreadCount
  /\ user_ret = FALSE
  /\ wpc = [w \in Workers |-> "unborn"]
  /\ our_job = [w \in Workers |-> 0]
  /\ last_execute = [w \in Workers |-> 0]
  /\ self_id = [w \in Workers |-> 0]
  /\ callee = [w \in Workers |-> NoCallee]
  /\ calls = [j \in 0..(MaxJobs - 1) |-> 0]

(***************************************************************************)
(* current_job_lock is held across actions only while the user thread      *)
(* creates the workers.                                                    *)
(***************************************************************************)
LockFree == mpc # "create"

Born == {w \in Workers : wpc[w] # "unborn"}

(* pthread_cond_broadcast(&c->current_job_cond) moves every waiting worker *)
(* to the lock queue; WakeAll_Signal is pthread_cond_signal() instead.     *)
WakeAll_Signal ==
  IF \E w \in Workers : wpc[w] = "wait"
  THEN [wpc EXCEPT ![CHOOSE w \in Workers : wpc[w] = "wait"] = "woken"]
  ELSE wpc
WakeAll == [w \in Workers |-> IF wpc[w] = "wait" THEN "woken" ELSE wpc[w]]

(* current_job counts a ticket for every worker and every finished job:    *)
(* the call is over when the last ticket has been drawn.                   *)
LastTicket_Early(cj, jc) == cj >= thread_count + jc - 1
LastTicket_Never(cj, jc) == cj = thread_count + jc + 1
LastTicket(cj, jc) == cj = thread_count + jc

(* The first job handed out by current_job: the ones below it belong to    *)
(* the workers of that number.                                             *)
FirstTicket == thread_count

(* c->func: thread_execute2() passes NULL, so that func2 is called. *)
Func(from) == IF from = "idle" THEN current_execute + 1 ELSE 0

(* c->rets_count: without a ret array every result goes to &dummy_ret. *)
RetsCount(ret, jobs) == IF ret THEN jobs ELSE 1

(* The user thread in thread_park_workers(): wait, or return. *)
ParkTest(cj, jc) == mpc' = IF LastTicket(cj, jc) THEN "idle" ELSE "parked"

---------------------------------------------------------------------------
(***************************************************************************)
(* The user's thread.                                                      *)
(***************************************************************************)

(* pthread_create() of one more worker in the loop of init. *)
CreateWorker(w) ==
  /\ mpc = "create" /\ wpc[w] = "unborn"
  /\ wpc' = [wpc EXCEPT ![w] = "start"]
  /\ UNCHANGED <<ctxVars, mainVars, our_job, last_execute, self_id, callee, calls>>

(* pthread_create() fails: thread_count is cut to the workers that exist,  *)
(* the lock is released and ff_thread_free() is called.                    *)
CreateFails ==
  /\ mpc = "create" /\ Born # Workers
  /\ thread_count' = Cardinality(Born)
  /\ mpc' = "free"
  /\ UNCHANGED <<ctxVars, user_ret, workerVars, calls>>

(* The loop is over; thread_park_workers() waits, releasing the lock. *)
InitPark ==
  /\ mpc = "create" /\ Born = Workers
  /\ ParkTest(current_job, job_count)
  /\ UNCHANGED <<ctxVars, thread_count, user_ret, workerVars, calls>>

(* The user thread, woken in thread_park_workers(), has the lock again and *)
(* tests the loop condition.                                               *)
ParkRecheck ==
  /\ mpc = "signalled"
  /\ ParkTest(current_job, job_count)
  /\ UNCHANGED <<ctxVars, thread_count, user_ret, workerVars, calls>>

(* thread_execute2(): func2 is stored before, and without, the lock. *)
SetFunc2 ==
  /\ mpc = "idle" /\ current_execute < MaxExecutes
  /\ func2' = current_execute + 1
  /\ mpc' = "execute2"
  /\ UNCHANGED <<job_count, current_job, current_execute, done, func, rets,
                 thread_count, user_ret, workerVars, calls>>

(* thread_execute(): publish the call and wait for its jobs; `from' says   *)
(* whether it was reached directly or through thread_execute2(), which     *)
(* passes func = NULL.                                                     *)
ThreadExecute(from, jobs, ret) ==
  /\ mpc = from /\ current_execute < MaxExecutes
  /\ jobs > 0
  /\ current_job' = FirstTicket
  /\ job_count' = jobs
  /\ func' = Func(from)
  /\ rets' = [i \in 0..(RetsCount(ret, jobs) - 1) |-> NoResult]
  /\ user_ret' = ret
  /\ current_execute' = current_execute + 1
  /\ wpc' = WakeAll
  /\ ParkTest(FirstTicket, jobs)
  /\ calls' = [j \in 0..(MaxJobs - 1) |-> 0]
  /\ UNCHANGED <<done, func2, thread_count, our_job, last_execute, self_id, callee>>

(* thread_execute() with job_count <= 0 returns at once. *)
ExecuteNothing ==
  /\ mpc = "execute2"
  /\ mpc' = "idle"
  /\ UNCHANGED <<ctxVars, thread_count, user_ret, workerVars, calls>>

(* ff_slice_thread_free(): raise done and wake everyone ... *)
FreeBegin ==
  /\ mpc \in {"idle", "free"}
  /\ done' = TRUE
  /\ wpc' = WakeAll
  /\ mpc' = "join"
  /\ UNCHANGED <<job_count, current_job, current_execute, func, func2, rets,
                 thread_count, user_ret, our_job, last_execute, self_id, callee, calls>>

(* ... then join the workers and free the context. *)
FreeJoin ==
  /\ mpc = "join"
  /\ \A w \in Born : wpc[w] = "exit"
  /\ mpc' = "freed"
  /\ UNCHANGED <<ctxVars, thread_count, user_ret, workerVars, calls>>

---------------------------------------------------------------------------
(***************************************************************************)
(* The workers.                                                            *)
(***************************************************************************)

(* The top of worker(): our_job = c->job_count, read without the lock. *)
StartJob == job_count

WorkerStart(w) ==
  /\ wpc[w] = "start"
  /\ our_job' = [our_job EXCEPT ![w] = StartJob]
  /\ wpc' = [wpc EXCEPT ![w] = "enter"]
  /\ UNCHANGED <<ctxVars, mainVars, last_execute, self_id, callee, calls>>

(* pthread_cond_signal(&c->last_job_cond), when cj is the last ticket.     *)
(* (A worker compares with its own copy of thread_count, which differs     *)
(* from avctx->thread_count only after CreateFails, when nobody waits.)    *)
SignalLast(cj) ==
  mpc' = IF LastTicket(cj, job_count) /\ mpc = "parked" THEN "signalled" ELSE mpc

(* The rest of the body of `while (our_job >= c->job_count)' after the     *)
(* signal: wait for another execute, exit, or start with the worker's own  *)
(* job; a worker whose own job does not exist goes round the loop once     *)
(* more and then waits.                                                    *)
AwaitExecute(w, id) ==
  IF last_execute[w] = current_execute /\ ~done
  THEN /\ wpc' = [wpc EXCEPT ![w] = "wait"]
       /\ UNCHANGED last_execute
  ELSE /\ last_execute' = [last_execute EXCEPT ![w] = current_execute]
       /\ wpc' = [wpc EXCEPT ![w] = IF done THEN "exit"
                                    ELSE IF id < job_count THEN "run" ELSE "wait"]

(* our_job after AwaitExecute: unchanged by a wait, the worker's own       *)
(* number once it has seen a new execute or done.                          *)
JobAfterAwait(w, id, oj) ==
  IF last_execute[w] = current_execute /\ ~done THEN oj ELSE id

(* First acquisition of the lock: take a number (self_id =                 *)
(* c->current_job++) and go to the loop.                                   *)
SelfId_PreIncrement == current_job + 1
SelfId == current_job

WorkerEnter(w) ==
  /\ wpc[w] = "enter" /\ LockFree
  /\ current_job' = current_job + 1
  /\ self_id' = [self_id EXCEPT ![w] = SelfId]
  /\ IF our_job[w] >= job_count
     THEN /\ SignalLast(current_job + 1)
          /\ AwaitExecute(w, SelfId)
          /\ our_job' = [our_job EXCEPT ![w] = JobAfterAwait(w, SelfId, our_job[w])]
     ELSE /\ wpc' = [wpc EXCEPT ![w] = "run"]
          /\ UNCHANGED <<mpc, last_execute, our_job>>
  /\ UNCHANGED <<job_count, current_execute, done, func, func2, rets,
                 thread_count, user_ret, callee, calls>>

(* Return from pthread_cond_wait(&c->current_job_cond): the inner while    *)
(* tests its condition again.  A worker without a job of its own also      *)
(* passes the signal at the top of the outer loop once more.               *)
WorkerWake(w) ==
  /\ wpc[w] = "woken" /\ LockFree
  /\ AwaitExecute(w, self_id[w])
  /\ our_job' = [our_job EXCEPT ![w] = JobAfterAwait(w, self_id[w], our_job[w])]
  /\ IF last_execute[w] # current_execute /\ ~done /\ self_id[w] >= job_count
     THEN SignalLast(current_job)
     ELSE UNCHANGED mpc
  /\ UNCHANGED <<ctxVars, thread_count, user_ret, self_id, callee, calls>>

(* c->func ? c->func(...) : c->func2(...): the callback is chosen and      *)
(* called without the lock.                                                *)
JobCall(w) ==
  /\ wpc[w] = "run"
  /\ callee' = [callee EXCEPT ![w] = IF func # 0 THEN <<"func", func>>
                                     ELSE <<"func2", func2>>]
  /\ calls' = [calls EXCEPT ![our_job[w]] = @ + 1]
  /\ wpc' = [wpc EXCEPT ![w] = "call"]
  /\ UNCHANGED <<ctxVars, mainVars, our_job, last_execute, self_id>>

(* The callback returns and its result is stored, without the lock. *)
JobReturn(w) ==
  /\ wpc[w] = "call"
  /\ rets' = [rets EXCEPT ![our_job[w] % Cardinality(DOMAIN rets)] =
                Result(callee[w], our_job[w])]
  /\ wpc' = [wpc EXCEPT ![w] = "relock"]
  /\ UNCHANGED <<job_count, current_job, current_execute, done, func, func2,
                 mainVars, our_job, last_execute, self_id, callee, calls>>

(* The lock is taken again and the next job drawn from current_job. *)
WorkerNext(w) ==
  /\ wpc[w] = "relock" /\ LockFree
  /\ current_job' = current_job + 1
  /\ callee' = [callee EXCEPT ![w] = NoCallee]
  /\ IF current_job >= job_count
     THEN /\ SignalLast(current_job + 1)
          /\ AwaitExecute(w, self_id[w])
          /\ our_job' = [our_job EXCEPT ![w] = JobAfterAwait(w, self_id[w], current_job)]
     ELSE /\ our_job' = [our_job EXCEPT ![w] = current_job]
          /\ wpc' = [wpc EXCEPT ![w] = "run"]
          /\ UNCHANGED <<mpc, last_execute>>
  /\ UNCHANGED <<job_count, current_execute, done, func, func2, rets,
                 thread_count, user_ret, self_id, calls>>

---------------------------------------------------------------------------
(* A condition wait may return without a signal. *)
SpuriousWakeup ==
  \/ /\ mpc = "parked" /\ mpc' = "signalled"
     /\ UNCHANGED <<ctxVars, thread_count, user_ret, workerVars, calls>>
  \/ \E w \in Workers :
       /\ wpc[w] = "wait" /\ wpc' = [wpc EXCEPT ![w] = "woken"]
       /\ UNCHANGED <<ctxVars, mainVars, our_job, last_execute, self_id, callee, calls>>

User ==
  \/ \E ret \in BOOLEAN, jobs \in 1..MaxJobs, from \in {"idle", "execute2"} :
        ThreadExecute(from, jobs, ret)
  \/ SetFunc2
  \/ FreeBegin

Main ==
  \/ \E w \in Workers : CreateWorker(w)
  \/ InitPark
  \/ ParkRecheck
  \/ ExecuteNothing
  \/ FreeJoin

Worker(w) ==
  \/ WorkerStart(w)
  \/ WorkerEnter(w)
  \/ WorkerWake(w)
  \/ JobCall(w)
  \/ JobReturn(w)
  \/ WorkerNext(w)

(* After ff_slice_thread_free() nothing is left to do. *)
Finished == mpc = "freed" /\ UNCHANGED vars

Next ==
  \/ User \/ Main \/ CreateFails
  \/ \E w \in Workers : Worker(w)
  \/ SpuriousWakeup
  \/ Finished

(***************************************************************************)
(* Fairness: the scheduler runs every thread that can run.  The user may   *)
(* stop calling execute(), but a call that has begun is carried on.        *)
(***************************************************************************)
Fairness ==
  /\ WF_vars(Main)
  /\ WF_vars(mpc = "free" /\ FreeBegin)
  /\ \A w \in Workers : WF_vars(Worker(w))

Spec == Init /\ [][Next]_vars
FairSpec == Spec /\ Fairness

---------------------------------------------------------------------------
(***************************************************************************)
(* Properties.                                                             *)
(***************************************************************************)

(* A worker between taking a job and handing back its ticket. *)
Busy(w) == wpc[w] \in {"run", "call", "relock"}

(***************************************************************************)
(* The refinement: the pool is idle when the user's thread is outside      *)
(* execute() and init, a job is active while a worker is inside its        *)
(* callback, and the callback of the call is what func and func2 say.      *)
(***************************************************************************)
Phase ==
  CASE mpc \in {"idle", "execute2"} -> "idle"
    [] mpc \in {"free", "join", "freed"} -> "closed"
    [] OTHER -> IF current_execute = 0 THEN "init" ELSE "call"

Promise == INSTANCE ParallelFor WITH
  phase <- Phase,
  call <- current_execute,
  callback <- IF Phase # "call" THEN NoCallee
              ELSE IF func # 0 THEN <<"func", func>> ELSE <<"func2", func2>>,
  active <- {<<our_job[w], callee[w]>> : w \in {v \in Workers : wpc[v] = "call"}},
  njobs <- job_count,
  results <- IF user_ret THEN rets ELSE <<>>

(* execute() keeps its promise: each job of the call is called once and    *)
(* with the callback of this call, although func, func2 and rets are used  *)
(* without the lock; the workers' own numbers and the shared counter       *)
(* current_job partition the jobs; and when execute() returns no callback  *)
(* is running on the caller's stack data and ret[] is complete.            *)
KeepsPromise == Promise!Spec

(* execute2() passes threadnr so that callbacks can use per-thread         *)
(* scratch memory: callbacks running at the same time have different       *)
(* numbers, all below thread_count.                                        *)
ThreadNrDistinct ==
  \A v, w \in Workers :
    Busy(v) /\ Busy(w) =>
      /\ self_id[v] \in 0..(thread_count - 1)
      /\ (self_id[v] = self_id[w] => v = w)

(* A call to execute() returns (no wake-up is lost on either condition     *)
(* variable), and so does init.                                            *)
ExecuteReturns == (mpc = "parked") ~> (mpc = "idle")

(* ff_slice_thread_free() terminates: every worker that exists leaves.     *)
FreeTerminates == (mpc \in {"free", "join"}) ~> (mpc = "freed")
=============================================================================
