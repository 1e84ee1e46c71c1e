---------------------------- MODULE MCDecodeApi ----------------------------
(* Model-checking instances of DecodeApi. *)
EXTENDS DecodeApi

(* The recommended loop over an audio decoder that consumes packets in     *)
(* parts; any order of calls over a video decoder whose filters split      *)
(* superframes; the old audio API.                                         *)
LoopAudio == [bsfs |-> <<"null", "null">>, video |-> FALSE, delay |-> TRUE,
              api |-> "new", loop |-> TRUE, flush |-> TRUE, sent |-> 4]
AnyVideo == [bsfs |-> <<"null", "split">>, video |-> TRUE, delay |-> TRUE,
             api |-> "new", loop |-> FALSE, flush |-> TRUE, sent |-> 3]
CompatAudio == [bsfs |-> <<"null">>, video |-> FALSE, delay |-> TRUE,
                api |-> "compat", loop |-> FALSE, flush |-> FALSE, sent |-> 4]

AllSetups == {LoopAudio, AnyVideo, CompatAudio}
OneFilter == {[AnyVideo EXCEPT !.bsfs = <<"null">>, !.flush = FALSE]}
=============================================================================
