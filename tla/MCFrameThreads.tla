--------------------------- MODULE MCFrameThreads ---------------------------
(* Model-checking instances of FrameThreads. *)
EXTENDS FrameThreads

(* Two threads of an update_thread_context codec with delay, whose user    *)
(* has a get_buffer2 that only the user's thread may call.                 *)
Callbacks == [thread_count |-> 2, update |-> TRUE, thread_safe |-> FALSE, custom |-> TRUE,
              delay |-> TRUE, hwaccel |-> "none", submits |-> 3, flushes |-> 0]

(* The default get_buffer2, and a user who seeks. *)
Seeking == [Callbacks EXCEPT !.custom = FALSE, !.flushes = 1]

(* A codec that lets the next packet start at once. *)
Independent == [Callbacks EXCEPT !.update = FALSE, !.thread_safe = TRUE, !.custom = FALSE]

(* A ring of three, of a codec without delay. *)
Ring == [Callbacks EXCEPT !.thread_count = 3, !.thread_safe = TRUE, !.custom = FALSE,
                          !.delay = FALSE]

MCSetups == {Callbacks, Seeking, Independent, Ring}

(* A hwaccel that is not async safe. *)
Hwaccel(custom) ==
  [Callbacks EXCEPT !.custom = custom, !.hwaccel = "unsafe"]

HwaccelSetups == {Hwaccel(FALSE), Hwaccel(TRUE)}
=============================================================================
