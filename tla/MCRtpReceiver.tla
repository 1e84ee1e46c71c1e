--------------------------- MODULE MCRtpReceiver ---------------------------
(* RTP reception over streams whose sequence numbers and timestamps wrap   *)
(* within the first packets.                                               *)
EXTENDS RtpReceiver

(* A stream over UDP, with losses and reordering; its variations.          *)
Plainly    == [queue_size |-> 3, seq0 |-> {10}, ts0 |-> 7, foreign |-> {},
               dups |-> 0, restarts |-> 0]
Duplicates == [Plainly EXCEPT !.dups = 1]
OtherType  == [Plainly EXCEPT !.foreign = {3}]
Restarts   == [Plainly EXCEPT !.seq0 = {10, 5}, !.restarts = 1]
NoQueue    == [Plainly EXCEPT !.queue_size = 0, !.dups = 1]

MCSetups == {Duplicates, OtherType, Restarts, NoQueue}
=============================================================================
