---------------------------- MODULE ParallelFor ----------------------------
(***************************************************************************)
(* What AVCodecContext.execute() and execute2() promise their caller       *)
(* (libavcodec/avcodec.h): the jobs of a call are run, once each and with  *)
(* the callback of that call, in any order and at the same time, and when  *)
(* the call returns none is running and every result has been stored.  It  *)
(* knows neither workers nor locks.  avcodec_default_execute() and         *)
(* avcodec_default_execute2() in libavcodec/utils.c are its sequential     *)
(* case; SliceThreads implements it with threads.                          *)
(***************************************************************************)
EXTENDS Integers

CONSTANTS
  MaxJobs,    \* most jobs in one call
  NoResult    \* the content of a result array before the call

VARIABLES
  phase,      \* "init", "idle", "call" or "closed"
  call,       \* the number of the last call
  callback,   \* the callback of the running call, <<kind, call>>
  calls,      \* calls[j]: how often job j of the last call has been called
  active,     \* the jobs being run, with their callbacks
  njobs,
  results     \* the caller's ret array; <<>> if there is none

vars == <<phase, call, callback, calls, active, njobs, results>>

Idle == <<"none", 0>>

(* The result of a job tells which callback returned it, and for which job. *)
ResultOf(cb, j) == <<cb[1], cb[2], j>>

Init ==
  /\ phase = "init" /\ call = 0 /\ callback = Idle
  /\ calls = [j \in 0..(MaxJobs - 1) |-> 0]
  /\ active = {} /\ njobs = 0 /\ results = <<>>

Open ==
  /\ phase = "init" /\ phase' = "idle"
  /\ UNCHANGED <<call, callback, calls, active, njobs, results>>

Call(kind, n, ret) ==
  /\ phase = "idle" /\ phase' = "call"
  /\ call' = call + 1
  /\ callback' = <<kind, call'>>
  /\ calls' = [j \in 0..(MaxJobs - 1) |-> 0]
  /\ njobs' = n
  /\ results' = IF ret THEN [j \in 0..(n - 1) |-> NoResult] ELSE <<>>
  /\ UNCHANGED active

Begin(j) ==
  /\ phase = "call" /\ j < njobs /\ calls[j] = 0
  /\ calls' = [calls EXCEPT ![j] = 1]
  /\ active' = active \cup {<<j, callback>>}
  /\ UNCHANGED <<phase, call, callback, njobs, results>>

End(j) ==
  /\ phase = "call" /\ <<j, callback>> \in active
  /\ active' = active \ {<<j, callback>>}
  /\ results' = IF results = <<>> THEN <<>>
                ELSE [results EXCEPT ![j] = ResultOf(callback, j)]
  /\ UNCHANGED <<phase, call, callback, calls, njobs>>

Return ==
  /\ phase = "call" /\ active = {} /\ \A j \in 0..(njobs - 1) : calls[j] = 1
  /\ phase' = "idle" /\ callback' = Idle
  /\ UNCHANGED <<call, calls, active, njobs, results>>

(* The end; a failed start ends there, too. *)
Close ==
  /\ phase \in {"init", "idle"} /\ phase' = "closed"
  /\ UNCHANGED <<call, callback, calls, active, njobs, results>>

Next ==
  \/ Open \/ Return \/ Close
  \/ \E kind \in {"func", "func2"}, n \in 1..MaxJobs, ret \in BOOLEAN : Call(kind, n, ret)
  \/ \E j \in 0..(MaxJobs - 1) : Begin(j) \/ End(j)

Spec == Init /\ [][Next]_vars
=============================================================================
