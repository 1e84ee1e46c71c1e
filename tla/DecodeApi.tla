----------------------------- MODULE DecodeApi -----------------------------
(***************************************************************************)
(* The decoding API of libavcodec/decode.c over the bitstream filter API   *)
(* of libavcodec/bsf.c: avcodec_send_packet(), avcodec_receive_frame(),    *)
(* avcodec_flush_buffers(), and the old avcodec_decode_video2() and        *)
(* avcodec_decode_audio4() that compat_decode() builds on them.            *)
(*                                                                         *)
(* The data of a packet is a sequence of units, numbered in the order in   *)
(* which the user sends them; the size of a packet is its length, and the  *)
(* empty sequence is a packet without data.  A frame is named by the last  *)
(* unit it was decoded from.  0 is an AVFrame without buffers.             *)
(*                                                                         *)
(* The codec is external: it has the decode() callback, consumes a packet  *)
(* (a video codec all of it, an audio codec at least one unit), keeps up   *)
(* to MaxHeld frames back if it has AV_CODEC_CAP_DELAY, and may fail.      *)
(***************************************************************************)
EXTENDS Integers, Sequences, SequencesExt

CONSTANTS
  Setups,           \* the decoders and users considered
  OutOfMemory,      \* allocations may fail
  MaxUnits,         \* bound: units in one packet
  MaxHeld,          \* bound: frames the codec keeps back
  MaxFlushes        \* bound: calls to avcodec_flush_buffers()

ASSUME SetupsAssumption ==
  \A s \in Setups :
    /\ s.bsfs \in Seq({"null", "split"}) /\ s.bsfs # <<>>
    /\ {s.video, s.delay, s.loop, s.flush} \subseteq BOOLEAN
    /\ s.api \in {"new", "compat"}
    /\ s.sent \in Nat
ASSUME DecodeBoundsAssumption ==
  OutOfMemory \in BOOLEAN /\ {MaxUnits, MaxHeld, MaxFlushes} \subseteq Nat

VARIABLES
  setup,          \* which decoder and user it is; never changes
  bsf,            \* AVBSFContext of each filter: eof, buffer_pkt, and the
                  \* frames a superframe still holds (VP9SFSplitContext)
  in_pkt,         \* DecodeSimpleContext.in_pkt
  buffer_frame, draining, draining_done,    \* AVCodecInternal
  consumed, partial_size,                   \* compat_decode_*
  held,           \* frames inside the codec
  pc, call,       \* where the library is, and the locals of the calls
  rest,           \* compat: what the user has left of its packet
  last,           \* the last two answers, older first
  h               \* history since the last flush

vars == <<setup, bsf, in_pkt, buffer_frame, draining, draining_done, consumed, partial_size,
          held, pc, call, rest, last, h>>

Bsfs == setup.bsfs     \* filters of the decoder, in order: "null" or "split"
Video == setup.video   \* avctx->codec->type == AVMEDIA_TYPE_VIDEO
Delay == setup.delay   \* AV_CODEC_CAP_DELAY, or frame threading
Api == setup.api       \* "new" (send/receive) or "compat" (decode_video2 ...)
Loop == setup.loop     \* the user sends only after receive returned EAGAIN
MaxSent == setup.sent  \* bound: units sent altogether

NbBsfs == Len(Bsfs)

(* avctx->codec->bsfs: a decoder that names no filter gets "null". *)
HasBsfs == Bsfs # <<"null">>

NoFrame == 0
NoPacket == <<>>

(* op: the API function that runs the decoder; idx of bsfs_poll(); pkt,    *)
(* frame and ret of the calls; got_frame of compat_decode(); whether a     *)
(* flush packet had been accepted before.                                  *)
NoCall == [op |-> "none", idx |-> 0, pkt |-> NoPacket, frame |-> NoFrame, ret |-> "OK",
           got |-> FALSE, eos |-> FALSE]
NoAnswer == [op |-> "none", ret |-> "OK", eos |-> FALSE, n |-> 0, size |-> 0, got |-> FALSE]
FreshBsf == [eof |-> FALSE, buffer_pkt |-> NoPacket, split |-> <<>>]

Init ==
  /\ setup \in Setups
  /\ bsf = [i \in 1..NbBsfs |-> FreshBsf]
  /\ in_pkt = NoPacket
  /\ buffer_frame = NoFrame /\ draining = FALSE /\ draining_done = FALSE
  /\ consumed = 0 /\ partial_size = 0
  /\ held = <<>>
  /\ pc = "idle" /\ call = NoCall
  /\ rest = NoPacket
  /\ last = <<NoAnswer, NoAnswer>>
  \* units sent before the last flush and altogether; units the codec was
  \* given, frames it made, frames the user got, each in order; what was lost
  \* with an error; a flush packet was accepted; drain calls of the codec
  \* that gave no frame; flushes made; compat_decode() answered an error
  /\ h = [base |-> 0, sent |-> 0, fed |-> <<>>, made |-> <<>>, out |-> <<>>, lost |-> {},
          eos |-> FALSE, drains |-> 0, flushes |-> 0, err |-> FALSE]

---------------------------------------------------------------------------
(***************************************************************************)
(* bsf.c.                                                                  *)
(***************************************************************************)

(* av_bsf_send_packet(): a packet without data is the end of the stream. *)
BsfSendRet(i, pkt) ==
  IF pkt = NoPacket THEN "OK"
  ELSE IF bsf[i].eof THEN "EINVAL"
  ELSE IF bsf[i].buffer_pkt # NoPacket THEN "EAGAIN"
  ELSE "OK"

BsfSent_Overwrite(i, pkt) == [bsf EXCEPT ![i].buffer_pkt = pkt]
BsfSent(i, pkt) ==
  IF pkt = NoPacket THEN [bsf EXCEPT ![i].eof = TRUE]
  ELSE [bsf EXCEPT ![i].buffer_pkt = pkt]

(* ff_bsf_get_packet(). *)
BsfGetRet(i) ==
  IF bsf[i].eof THEN "EOF"
  ELSE IF bsf[i].buffer_pkt = NoPacket THEN "EAGAIN"
  ELSE "OK"

(* av_bsf_receive_packet(): null_filter() and                              *)
(* vp9_superframe_split_filter(), which first empties the superframe it    *)
(* has begun.                                                              *)
FilterRet(i) == IF bsf[i].split # <<>> THEN "OK" ELSE BsfGetRet(i)
Filtered(i) ==
  LET src == IF bsf[i].split # <<>> THEN bsf[i].split ELSE bsf[i].buffer_pkt
  IN  IF Bsfs[i] = "split"
      THEN [out |-> <<Head(src)>>,
            bsf |-> [bsf EXCEPT ![i].split = Tail(src),
                                ![i].buffer_pkt =
                                   IF bsf[i].split # <<>> THEN @ ELSE NoPacket]]
      ELSE [out |-> src, bsf |-> [bsf EXCEPT ![i].buffer_pkt = NoPacket]]

(* What the filter loses when it rejects a superframe. *)
FilterDropped(i) == [bsf EXCEPT ![i].split = <<>>,
                                ![i].buffer_pkt = IF bsf[i].split # <<>> THEN @ ELSE NoPacket]

---------------------------------------------------------------------------
(***************************************************************************)
(* avcodec_send_packet().                                                  *)
(***************************************************************************)

(* av_packet_ref() fails, or the packet is not accepted. *)
SendRejected ==
  /\ pc = "send"
  /\ LET r == IF draining THEN "EOF" ELSE BsfSendRet(1, call.pkt) IN
     \/ r # "OK" /\ call' = [call EXCEPT !.ret = r]
     \/ OutOfMemory /\ r # "EOF" /\ call.pkt # NoPacket /\ call' = [call EXCEPT !.ret = "ERR"]
  /\ pc' = "sent"
  /\ UNCHANGED <<bsf, in_pkt, buffer_frame, draining, draining_done, consumed,
                 partial_size, held, rest, last, h>>

(* The first filter takes the packet; the decoder runs if there is room    *)
(* for its frame.                                                          *)
SendAccepted ==
  /\ pc = "send" /\ ~draining /\ BsfSendRet(1, call.pkt) = "OK"
  /\ bsf' = BsfSent(1, call.pkt)
  /\ h' = [h EXCEPT !.sent = @ + Len(call.pkt), !.eos = @ \/ call.pkt = NoPacket]
  /\ call' = [call EXCEPT !.op = "send", !.ret = "OK", !.frame = NoFrame]
  /\ pc' = IF buffer_frame = NoFrame THEN "simple" ELSE "sent"
  /\ UNCHANGED <<in_pkt, buffer_frame, draining, draining_done, consumed, partial_size,
                 held, rest, last>>

(***************************************************************************)
(* avcodec_receive_frame(): the frame that send decoded, or the decoder.   *)
(***************************************************************************)
TakenBufferFrame == NoFrame

ReceiveFrame ==
  /\ pc = "receive"
  /\ call' = [call EXCEPT !.op = "receive", !.ret = "OK", !.frame = buffer_frame]
  /\ buffer_frame' = TakenBufferFrame
  /\ pc' = IF buffer_frame = NoFrame THEN "simple" ELSE "crop"
  /\ UNCHANGED <<bsf, in_pkt, draining, draining_done, consumed, partial_size, held,
                 rest, last, h>>

(* apply_cropping() may fail. *)
Crop ==
  /\ pc = "crop"
  /\ \/ UNCHANGED <<call, h>>
     \/ /\ Video
        /\ call' = [call EXCEPT !.ret = "ERR", !.frame = NoFrame]
        /\ h' = [h EXCEPT !.lost = @ \union {call.frame}]
  /\ pc' = "received"
  /\ UNCHANGED <<bsf, in_pkt, buffer_frame, draining, draining_done, consumed,
                 partial_size, held, rest, last>>

---------------------------------------------------------------------------
(***************************************************************************)
(* decode_receive_frame_internal() and decode_simple_receive_frame():      *)
(* decode_simple_internal() until there is a frame or an error.            *)
(***************************************************************************)

(* decode_receive_frame_internal() is left with result r. *)
Leave(r) == pc' = "left" /\ call' = [call EXCEPT !.ret = r]

SimpleBegin ==
  /\ pc = "simple"
  /\ IF in_pkt = NoPacket /\ ~draining
     THEN pc' = "poll" /\ call' = [call EXCEPT !.idx = NbBsfs]
     ELSE pc' = "decode" /\ UNCHANGED call
  /\ UNCHANGED <<bsf, in_pkt, buffer_frame, draining, draining_done, consumed,
                 partial_size, held, rest, last, h>>

(* The ends of the chain in bsfs_poll(). *)
FirstFilter(i) == i = 1
LastFilter(i) == i = NbBsfs

(* bsfs_poll(): the filter has nothing, ask the one before it. *)
PollEmpty ==
  /\ pc = "poll" /\ FilterRet(call.idx) = "EAGAIN"
  /\ IF FirstFilter(call.idx) THEN Leave("EAGAIN")
     ELSE call' = [call EXCEPT !.idx = @ - 1] /\ UNCHANGED pc
  /\ UNCHANGED <<bsf, in_pkt, buffer_frame, draining, draining_done, consumed,
                 partial_size, held, rest, last, h>>

(* End of stream, for the next filter or for the decoder. *)
PollEof ==
  /\ pc = "poll" /\ FilterRet(call.idx) = "EOF"
  /\ IF LastFilter(call.idx)
     THEN draining' = TRUE /\ pc' = "decode" /\ UNCHANGED <<bsf, call>>
     ELSE /\ bsf' = BsfSent(call.idx + 1, NoPacket)
          /\ call' = [call EXCEPT !.idx = @ + 1]
          /\ UNCHANGED <<draining, pc>>
  /\ UNCHANGED <<in_pkt, buffer_frame, draining_done, consumed, partial_size, held,
                 rest, last, h>>

(* A packet, for the next filter or for the decoder. *)
PollPacket ==
  /\ pc = "poll" /\ FilterRet(call.idx) = "OK"
  /\ LET f == Filtered(call.idx) IN
     IF LastFilter(call.idx)
     THEN bsf' = f.bsf /\ in_pkt' = f.out /\ pc' = "decode" /\ UNCHANGED call
     ELSE IF BsfSendRet(call.idx + 1, f.out) = "OK"
     THEN /\ bsf' = [f.bsf EXCEPT ![call.idx + 1].buffer_pkt = f.out]
          /\ call' = [call EXCEPT !.idx = @ + 1]
          /\ UNCHANGED <<pc, in_pkt>>
     ELSE bsf' = f.bsf /\ Leave(BsfSendRet(call.idx + 1, f.out)) /\ UNCHANGED in_pkt
  /\ UNCHANGED <<buffer_frame, draining, draining_done, consumed, partial_size, held,
                 rest, last, h>>

(* ff_bsf_get_packet() is out of memory and leaves its packet; or a filter *)
(* fails on its input; or the last one's output is dropped by              *)
(* ff_decode_get_packet(), when extract_packet_props() or                  *)
(* apply_param_change() fails.                                             *)
PollFails ==
  /\ pc = "poll" /\ FilterRet(call.idx) = "OK"
  /\ \/ /\ OutOfMemory /\ bsf[call.idx].split = <<>>
        /\ UNCHANGED <<bsf, h>>
     \/ /\ Bsfs[call.idx] = "split"
        /\ bsf' = FilterDropped(call.idx)
        /\ h' = [h EXCEPT !.lost = @ \union ToSet(bsf[call.idx].split) \union
                   (IF bsf[call.idx].split # <<>> THEN {} ELSE ToSet(bsf[call.idx].buffer_pkt))]
     \/ /\ LastFilter(call.idx)
        /\ bsf' = Filtered(call.idx).bsf
        /\ h' = [h EXCEPT !.lost = @ \union ToSet(Filtered(call.idx).out)]
  /\ Leave("ERR")
  /\ UNCHANGED <<in_pkt, buffer_frame, draining, draining_done, consumed, partial_size,
                 held, rest, last>>

(* The codec is not called again once it is drained, and a codec without   *)
(* delay is not called to drain it.                                        *)
NoMoreDecoding_NoDelay == draining_done \/ in_pkt = NoPacket
NoMoreDecoding == draining_done \/ (in_pkt = NoPacket /\ ~Delay)

DecodeEof ==
  /\ pc = "decode" /\ NoMoreDecoding
  /\ Leave("EOF")
  /\ UNCHANGED <<bsf, in_pkt, buffer_frame, draining, draining_done, consumed,
                 partial_size, held, rest, last, h>>

(* codec->decode() on a packet takes k units and gives a frame or not; on  *)
(* an empty packet it gives the next frame it has kept back.               *)
Consumption == IF Video \/ in_pkt = NoPacket THEN {Len(in_pkt)} ELSE 1..Len(in_pkt)

(* The frames the codec has after making one, or none, of unit u. *)
Made(u) == IF u = 0 THEN {<<>>} ELSE {<<>>, <<u>>}

(* avci->draining_done after the call. *)
DrainedBy_Never(got) == draining_done
DrainedBy(got) == draining_done \/ (draining /\ ~got)

(* in_pkt after the call: pkt->data += consumed. *)
Remaining_OffByOne(k) == IF k = 0 THEN in_pkt ELSE SubSeq(in_pkt, k, Len(in_pkt))
Remaining(k) == SubSeq(in_pkt, k + 1, Len(in_pkt))

(* avci->compat_decode_consumed after the call.  Only compat_decode()      *)
(* resets it and reads it: under the new API it grows unused, and is left  *)
(* out.                                                                    *)
Consumed(k) == IF Api = "compat" THEN consumed + k ELSE consumed

(* The history counts at most two fruitless drain calls. *)
Drains == IF h.drains < 2 THEN h.drains + 1 ELSE h.drains

DecodeCall ==
  /\ pc = "decode" /\ ~NoMoreDecoding
  /\ \E k \in Consumption :
     \E new \in Made(IF k = 0 THEN 0 ELSE in_pkt[k]), got \in BOOLEAN :
       LET frames == held \o new IN
       /\ IF got THEN frames # <<>> ELSE in_pkt = NoPacket => frames = <<>>
       /\ held' = IF got THEN Tail(frames) ELSE frames
       /\ Len(held') <= IF Delay THEN MaxHeld ELSE 0
       /\ in_pkt' = Remaining(k)
       /\ draining_done' = DrainedBy(got)
       /\ consumed' = Consumed(k)
       /\ h' = [h EXCEPT !.fed = @ \o SubSeq(in_pkt, 1, k), !.made = @ \o new,
                         !.drains = IF in_pkt = NoPacket /\ ~got THEN Drains ELSE @]
       /\ IF got THEN pc' = "left" /\ call' = [call EXCEPT !.ret = "OK", !.frame = Head(frames)]
          ELSE pc' = "simple" /\ UNCHANGED call
  /\ UNCHANGED <<bsf, buffer_frame, draining, partial_size, rest, last>>

(* codec->decode() fails, with what it was given. *)
DecodeFails ==
  /\ pc = "decode" /\ ~NoMoreDecoding
  /\ in_pkt' = NoPacket
  /\ draining_done' = DrainedBy(FALSE)
  /\ h' = [h EXCEPT !.fed = @ \o in_pkt,
                    !.drains = IF in_pkt = NoPacket THEN Drains ELSE @,
                    !.lost = IF in_pkt = NoPacket THEN @ \union ToSet(held) ELSE @]
  /\ held' = IF in_pkt = NoPacket THEN <<>> ELSE held
  /\ Leave("ERR")
  /\ UNCHANGED <<bsf, buffer_frame, draining, consumed, partial_size, rest, last>>

(* The end of decode_receive_frame_internal(), where post_process() may    *)
(* fail, and of its caller.                                                *)
LeaveInternal ==
  /\ pc = "left"
  /\ draining_done' = (draining_done \/ call.ret = "EOF")
  /\ \E r \in IF call.ret = "OK" THEN {"OK", "ERR"} ELSE {call.ret} :
       LET f == IF r = "OK" THEN call.frame ELSE NoFrame IN
       /\ h' = [h EXCEPT !.lost = IF r # call.ret THEN @ \union {call.frame} ELSE @]
       /\ IF call.op = "send"
          THEN /\ buffer_frame' = f
               /\ call' = [call EXCEPT !.ret = IF r = "ERR" THEN r ELSE "OK", !.frame = NoFrame]
               /\ pc' = "sent"
          ELSE /\ call' = [call EXCEPT !.ret = r, !.frame = f]
               /\ pc' = IF r = "OK" THEN "crop" ELSE "received"
               /\ UNCHANGED buffer_frame
  /\ UNCHANGED <<bsf, in_pkt, draining, consumed, partial_size, held, rest, last>>

---------------------------------------------------------------------------
(***************************************************************************)
(* The user of the new API.                                                *)
(***************************************************************************)
NewUnits(n) == [i \in 1..n |-> h.base + h.sent + i]

(* "Repeat this call until it returns AVERROR(EAGAIN)": the recommended    *)
(* loop sends only then.                                                   *)
MaySend ==
  Loop => \/ last[2].op = "none"
          \/ last[2].op = "receive" /\ last[2].ret = "EAGAIN"

AvcodecSendPacket(n) ==
  /\ pc = "idle" /\ Api = "new" /\ MaySend /\ h.base + h.sent + n <= MaxSent
  /\ call' = [NoCall EXCEPT !.pkt = NewUnits(n), !.eos = h.eos]
  /\ pc' = "send"
  /\ UNCHANGED <<bsf, in_pkt, buffer_frame, draining, draining_done, consumed,
                 partial_size, held, rest, last, h>>

AvcodecReceiveFrame ==
  /\ pc = "idle" /\ Api = "new"
  /\ call' = [NoCall EXCEPT !.eos = h.eos]
  /\ pc' = "receive"
  /\ UNCHANGED <<bsf, in_pkt, buffer_frame, draining, draining_done, consumed,
                 partial_size, held, rest, last, h>>

(* The answer to the user: the result of op; compat: the size used of the  *)
(* packet, whether there is a frame.                                       *)
Answer(op, r, n, size, got) ==
  /\ last' = <<last[2], [op |-> op, ret |-> r, eos |-> call.eos, n |-> n, size |-> size,
                         got |-> got]>>
  /\ call' = NoCall
  /\ pc' = "idle"

ReturnToUser ==
  /\ Api = "new"
  /\ \/ /\ pc = "sent"
        /\ Answer("send", call.ret, 0, Len(call.pkt), FALSE)
        /\ UNCHANGED h
     \/ /\ pc = "received"
        /\ Answer("receive", call.ret, 0, 0, call.frame # NoFrame)
        /\ h' = [h EXCEPT !.out = IF call.frame # NoFrame THEN Append(@, call.frame) ELSE @]
  /\ UNCHANGED <<bsf, in_pkt, buffer_frame, draining, draining_done, consumed,
                 partial_size, held, rest>>

(* avcodec_flush_buffers(): everything is dropped, and decoding can start  *)
(* again.                                                                  *)
FlushedBsf_EofKept == [i \in 1..NbBsfs |-> [FreshBsf EXCEPT !.eof = bsf[i].eof]]
FlushedBsf == [i \in 1..NbBsfs |-> FreshBsf]

FlushBuffers ==
  /\ pc = "idle" /\ setup.flush /\ h.flushes < MaxFlushes
  /\ draining' = FALSE /\ draining_done' = FALSE
  /\ buffer_frame' = NoFrame
  /\ in_pkt' = NoPacket
  /\ held' = <<>>
  /\ bsf' = FlushedBsf
  /\ rest' = NoPacket
  /\ last' = <<NoAnswer, NoAnswer>>
  /\ h' = [h EXCEPT !.base = @ + h.sent, !.sent = 0, !.fed = <<>>, !.made = <<>>,
                    !.out = <<>>, !.lost = {}, !.eos = FALSE, !.drains = 0,
                    !.flushes = @ + 1, !.err = FALSE]
  /\ UNCHANGED <<consumed, partial_size, pc, call>>

---------------------------------------------------------------------------
(***************************************************************************)
(* compat_decode().  The user passes a new packet, the rest of one that    *)
(* was consumed in part, or an empty packet to drain.                      *)
(***************************************************************************)
CompatDecode(pkt) ==
  /\ pc = "idle" /\ Api = "compat"
  /\ call' = [NoCall EXCEPT !.pkt = pkt,
                !.ret = IF partial_size > 0 /\ partial_size # Len(pkt) THEN "EINVAL" ELSE "OK"]
  /\ pc' = IF partial_size > 0
           THEN IF partial_size # Len(pkt) THEN "finish" ELSE "receive"
           ELSE "send"
  /\ UNCHANGED <<bsf, in_pkt, buffer_frame, draining, draining_done, consumed,
                 partial_size, held, rest, last, h>>

(* No data is passed after the drain has begun; a user that gives up the   *)
(* rest of a packet for another of the same size cannot be told from one   *)
(* that passes the rest, and is left out.                                  *)
CompatNew(n) ==
  /\ h.base + h.sent + n <= MaxSent
  /\ h.eos => n = 0
  /\ rest = NoPacket \/ n # Len(rest)
  /\ CompatDecode(NewUnits(n))
CompatRest == rest # NoPacket /\ CompatDecode(rest)

(* After avcodec_send_packet(): EAGAIN "should not ever happen". *)
CompatSent ==
  /\ pc = "sent" /\ Api = "compat"
  /\ \/ /\ call.ret \in {"OK", "EOF"}
        /\ pc' = "receive" /\ UNCHANGED call
     \/ /\ call.ret \notin {"OK", "EOF"}
        /\ call' = [call EXCEPT !.ret = IF @ = "EAGAIN" THEN "BUG" ELSE @]
        /\ pc' = "finish"
  /\ UNCHANGED <<bsf, in_pkt, buffer_frame, draining, draining_done, consumed,
                 partial_size, held, rest, last, h>>

(* Stop with a frame as soon as the packet is not used up, or draining. *)
CompatBreak == draining \/ (~HasBsfs /\ consumed < Len(call.pkt))

(* After avcodec_receive_frame(): the first frame is the user's, the next  *)
(* ones are dropped with a warning; unrefcount_frame() may fail.           *)
CompatReceived ==
  /\ pc = "received" /\ Api = "compat"
  /\ \/ /\ call.ret \in {"EAGAIN", "EOF"}
        /\ call' = [call EXCEPT !.ret = "OK"]
        /\ pc' = "finish" /\ UNCHANGED h
     \/ /\ call.ret = "ERR"
        /\ pc' = "finish" /\ UNCHANGED <<call, h>>
     \/ /\ call.ret = "OK"
        /\ call' = [call EXCEPT !.got = TRUE]
        /\ h' = IF call.got THEN [h EXCEPT !.lost = @ \union {call.frame}]
                ELSE [h EXCEPT !.out = Append(@, call.frame)]
        /\ pc' = IF CompatBreak THEN "finish" ELSE "receive"
     \/ /\ call.ret = "OK" /\ ~call.got
        /\ call' = [call EXCEPT !.ret = "ERR"]
        /\ h' = [h EXCEPT !.lost = @ \union {call.frame}]
        /\ pc' = "finish"
  /\ UNCHANGED <<bsf, in_pkt, buffer_frame, draining, draining_done, consumed,
                 partial_size, held, rest, last>>

Smaller(a, b) == IF a < b THEN a ELSE b

(* The number of units compat_decode() says it used. *)
CompatUsed_Whole == Len(call.pkt)
CompatUsed == IF HasBsfs THEN Len(call.pkt) ELSE Smaller(consumed, Len(call.pkt))

CompatFinish ==
  /\ pc = "finish"
  /\ LET n == IF call.ret = "OK" THEN CompatUsed ELSE 0 IN
     /\ consumed' = 0
     /\ partial_size' = IF call.ret = "OK" THEN Len(call.pkt) - n ELSE 0
     /\ rest' = IF call.ret = "OK" THEN SubSeq(call.pkt, n + 1, Len(call.pkt)) ELSE NoPacket
     /\ Answer("compat", call.ret, n, Len(call.pkt), call.got)
     /\ h' = [h EXCEPT !.err = @ \/ call.ret # "OK"]
  /\ UNCHANGED <<bsf, in_pkt, buffer_frame, draining, draining_done, held>>

---------------------------------------------------------------------------
Library ==
  /\ \/ SendRejected \/ SendAccepted \/ ReceiveFrame \/ Crop
     \/ SimpleBegin \/ PollEmpty \/ PollEof \/ PollPacket \/ PollFails
     \/ DecodeEof \/ DecodeCall \/ DecodeFails \/ LeaveInternal
     \/ ReturnToUser \/ CompatSent \/ CompatReceived \/ CompatFinish
  /\ UNCHANGED setup

User ==
  /\ \/ \E n \in 0..MaxUnits : AvcodecSendPacket(n) \/ CompatNew(n)
     \/ AvcodecReceiveFrame \/ CompatRest \/ FlushBuffers
  /\ UNCHANGED setup

Next == Library \/ User

Spec == Init /\ [][Next]_vars

(* A call runs to its end; the user need not make another. *)
FairSpec == Spec /\ WF_vars(Library)

---------------------------------------------------------------------------
(***************************************************************************)
(* Properties.                                                             *)
(***************************************************************************)
Increasing(s) == \A i, j \in DOMAIN s : i < j => s[i] < s[j]

(* The codec gets the data in the order in which it was sent, nothing      *)
(* twice, through buffer_pkt, split superframes and in_pkt; the user gets  *)
(* the frames in the order in which the codec made them, none twice,       *)
(* whether send or receive ran the decoder.                                *)
InOrder == Increasing(h.fed) /\ Increasing(h.out)

(* When receive says EOF, everything that was sent has been decoded and    *)
(* every frame returned, or was lost with an error: "If the decoder still  *)
(* has frames buffered, it will return them after sending a flush packet". *)
DrainComplete ==
  last[2].op = "receive" /\ last[2].ret = "EOF" =>
    /\ (h.base + 1)..(h.base + h.sent) \subseteq ToSet(h.fed) \union h.lost
    /\ ToSet(h.made) \subseteq ToSet(h.out) \union h.lost

(* The same, for a user who receives until EAGAIN before each packet. *)
LoopDrainComplete == Loop => DrainComplete

(* After a flush packet was accepted "the functions will not return        *)
(* AVERROR(EAGAIN)"; and, as "some codecs will crash when feeding drain    *)
(* packets after EOF was signaled", the codec sees one fruitless drain     *)
(* packet at most, however often the user goes on calling.                 *)
DrainEndsOnce ==
  /\ last[2].op = "receive" /\ last[2].eos => last[2].ret # "EAGAIN"
  /\ h.drains <= 1

(* When receive has answered EAGAIN, and when the codec was just opened or *)
(* flushed, whatever state the flush met, the next packet is accepted.     *)
ReadyAccepts ==
  /\ last[2].op = "send"
  /\ last[1].op = "none" \/ (last[1].op = "receive" /\ last[1].ret = "EAGAIN")
  => last[2].ret \in {"OK", "ERR"}

(* Every call comes back: decode_simple_receive_frame() does not loop for  *)
(* ever on a codec that gives no frame.                                    *)
CallReturns == (pc # "idle") ~> (pc = "idle")

(* What compat_decode() told the user is left of the packet is what the    *)
(* decoder has left of it, as long as no call has failed: a failing call   *)
(* tells the user to go on with the next packet.  And as long as nothing   *)
(* was flushed: avcodec_flush_buffers() keeps compat_decode_partial_size.  *)
CompatInSync ==
  /\ pc = "idle" /\ last[2].op = "compat" /\ ~HasBsfs
  /\ ~h.err /\ h.flushes = 0
  => in_pkt = rest
=============================================================================
