----------------------------- MODULE DelayLine -----------------------------
(***************************************************************************)
(* What ff_thread_decode_frame() and ff_thread_flush() promise their       *)
(* caller (doc/multithreading.txt): decoding, `depth' packets at a time,   *)
(* that "delays decoded pictures by N-1 frames".  It knows neither the     *)
(* ring of threads nor their locks; FrameThreads implements it.            *)
(*                                                                         *)
(* A call puts at most one packet in and takes at most one frame out: the  *)
(* oldest one, with a packet exactly that of the packet depth - 1 before.  *)
(* Packets are decoded inside in any order and at any time, also between   *)
(* calls.  Packets are their numbers 1, 2, ...                             *)
(***************************************************************************)
EXTENDS Integers, Sequences

VARIABLES
  depth,     \* thread_count
  sub,       \* packets put in so far
  inside,    \* those being decoded, or decoded with a frame not yet returned
  ready,     \* those of them that have a frame
  out,       \* frames returned since the last flush
  refused,   \* since the last flush a packet was not put in because of an error
  drain,     \* the call has no packet: it asks for what is left
  phase      \* "none", or in a call "entered", "accepted" or "returning"

vars == <<depth, sub, inside, ready, out, refused, drain, phase>>

(* Nothing inside is older than the last k packets. *)
Within(k) == \A n \in inside : sub - n < k

Oldest(n) == n \in inside /\ \A i \in inside : n <= i

Init ==
  /\ depth \in Nat \ {0, 1}
  /\ sub = 0 /\ inside = {} /\ ready = {} /\ out = <<>>
  /\ refused = FALSE /\ drain \in BOOLEAN /\ phase = "none"

Begin ==
  /\ phase = "none" /\ phase' = "entered"
  /\ drain' \in BOOLEAN
  /\ UNCHANGED <<depth, sub, inside, ready, out, refused>>

(* The packet is put in, or an error ends the call. *)
Accept ==
  /\ phase = "entered" /\ phase' = "accepted"
  /\ sub' = sub + 1
  /\ inside' = inside \union {sub + 1}
  /\ UNCHANGED <<depth, ready, out, refused, drain>>

Refuse ==
  /\ phase = "entered" /\ phase' = "returning"
  /\ refused' = TRUE
  /\ UNCHANGED <<depth, sub, inside, ready, out, drain>>

(* A packet has been decoded, with a frame or without one. *)
Decode(n) ==
  /\ \/ ready' = ready \union {n} /\ UNCHANGED inside
     \/ inside' = inside \ {n} /\ UNCHANGED ready
  /\ UNCHANGED <<depth, sub, out, refused, drain, phase>>

(* The oldest frame is returned, with a packet after exactly depth - 1     *)
(* others.                                                                 *)
Take(n) ==
  /\ phase = "accepted" \/ (phase = "entered" /\ drain)
  /\ phase' = "returning"
  /\ Oldest(n)
  /\ ~drain => n = sub - (depth - 1)
  /\ inside' = inside \ {n} /\ ready' = ready \ {n}
  /\ out' = Append(out, n)
  /\ UNCHANGED <<depth, sub, refused, drain>>

(* No frame is returned: while draining, because nothing is left. *)
Pass ==
  /\ phase = "accepted" \/ (phase = "entered" /\ drain)
  /\ phase' = "returning"
  /\ drain => inside = {}
  /\ UNCHANGED <<depth, sub, inside, ready, out, refused, drain>>

(* Between calls at most the last depth - 1 packets are inside. *)
End ==
  /\ phase = "returning" /\ phase' = "none"
  /\ Within(depth - 1)
  /\ UNCHANGED <<depth, sub, inside, ready, out, refused, drain>>

(* What is being decoded is waited for, and all frames are dropped. *)
Flush ==
  /\ phase = "none" /\ inside = ready
  /\ inside' = {} /\ ready' = {} /\ out' = <<>> /\ refused' = FALSE
  /\ UNCHANGED <<depth, sub, drain, phase>>

Next ==
  \/ Begin \/ Accept \/ Refuse \/ Pass \/ End \/ Flush
  \/ \E n \in ready : Take(n)
  \/ \E n \in inside \ ready : Decode(n)

Spec == Init /\ [][Next]_vars
=============================================================================
