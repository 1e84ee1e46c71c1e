----------------------------- MODULE EncodeApi -----------------------------
(***************************************************************************)
(* The encoding API of libavcodec/encode.c: avcodec_send_frame() and       *)
(* avcodec_receive_packet(), which the library emulates with one buffered  *)
(* packet over avcodec_encode_video2() and avcodec_encode_audio2().        *)
(*                                                                         *)
(* Frames are numbered in the order in which the user sends them; a packet *)
(* is named by the frame it encodes.  0 is no frame (a flush) or no        *)
(* packet.  A call runs in the user's thread from beginning to end and is  *)
(* one action.                                                             *)
(*                                                                         *)
(* The codec is external: it has the encode2() callback, keeps up to       *)
(* MaxHeld frames back if it has AV_CODEC_CAP_DELAY, and may fail.         *)
(***************************************************************************)
EXTENDS Integers, Sequences, SequencesExt

CONSTANTS
  Codecs,      \* the encoders considered
  MaxFrames,   \* bound: frames sent
  MaxHeld      \* bound: frames the codec keeps back

FrameSizes == {"fixed", "small_last", "variable"}

ASSUME CodecsAssumption ==
  Codecs \subseteq [video : BOOLEAN, delay : BOOLEAN, frame_size : FrameSizes]
ASSUME EncodeBoundsAssumption == {MaxFrames, MaxHeld} \subseteq Nat

VARIABLES
  codec,  \* avctx->codec; never changes
  buffer_pkt, buffer_pkt_valid, draining, last_audio_frame,   \* AVCodecInternal
  held,   \* frames inside the codec
  last,   \* the last two answers, older first
  h       \* history

vars == <<codec, buffer_pkt, buffer_pkt_valid, draining, last_audio_frame, held, last, h>>

Video == codec.video           \* avctx->codec_type == AVMEDIA_TYPE_VIDEO, else audio
Delay == codec.delay           \* AV_CODEC_CAP_DELAY
FrameSize == codec.frame_size  \* audio: AV_CODEC_CAP_SMALL_LAST_FRAME,
                               \* AV_CODEC_CAP_VARIABLE_FRAME_SIZE or neither

NoFrame == 0
NoPacket == 0
NoAnswer == [op |-> "none", ret |-> "OK", frame |-> NoFrame]

Init ==
  /\ codec \in Codecs
  /\ buffer_pkt = NoPacket /\ buffer_pkt_valid = FALSE
  /\ draining = FALSE /\ last_audio_frame = FALSE
  /\ held = <<>>
  /\ last = <<NoAnswer, NoAnswer>>
  \* frames the library took; packets the user got, in order; frames lost
  \* with an error or dropped by the codec; frames padded with silence
  /\ h = [sent |-> 0, out |-> <<>>, lost |-> {}, padded |-> {}]

---------------------------------------------------------------------------
(***************************************************************************)
(* avcodec_encode_video2() and avcodec_encode_audio2().                    *)
(***************************************************************************)

(* How many samples a frame has: frame_size, fewer or more. *)
Sizes == IF Video THEN {"full"} ELSE {"full", "small", "big"}

(* The frame size check of avcodec_encode_audio2(): "pad" is               *)
(* pad_last_frame(), which the first small frame gets.                     *)
SizeCheck_PadAgain(size) ==
  CASE FrameSize = "small_last" -> IF size = "big" THEN "EINVAL" ELSE "OK"
    [] FrameSize = "variable" -> "OK"
    [] FrameSize = "fixed" ->
         IF size = "small" THEN "pad" ELSE IF size = "full" THEN "OK" ELSE "EINVAL"
SizeCheck(size) ==
  CASE FrameSize = "small_last" -> IF size = "big" THEN "EINVAL" ELSE "OK"
    [] FrameSize = "variable" -> "OK"
    [] FrameSize = "fixed" ->
         IF size = "small" /\ ~last_audio_frame THEN "pad"
         ELSE IF size = "full" THEN "OK" ELSE "EINVAL"

(* What a call that fails leaves: the frame is lost. *)
Failed(ret, frame) ==
  [ret |-> ret, pkt |-> NoPacket, held |-> held, lost |-> {frame} \ {NoFrame}, pad |-> FALSE]

(* codec->encode2() fails, or takes the frame and gives the packet of the  *)
(* oldest frame it has, or gives none; av_buffer_realloc() of the packet   *)
(* may fail.  Without a frame, a codec with delay gives packets as long as *)
(* it has frames.                                                          *)
Encode2(frame, pad) ==
  LET frames == held \o (IF frame = NoFrame THEN <<>> ELSE <<frame>>)
      Outcome(ret, pkt, rest, lost) ==
        [ret |-> ret, pkt |-> pkt, held |-> rest, lost |-> lost, pad |-> pad]
  IN  {[Failed("ERR", frame) EXCEPT !.pad = pad]}
      \union
      (IF frames = <<>> THEN {}
       ELSE {Outcome("OK", Head(frames), Tail(frames), {}),
             Outcome("ERR", NoPacket, Tail(frames), {Head(frames)})})
      \union
      (IF frame = NoFrame /\ frames # <<>> THEN {}
       ELSE IF Delay THEN {Outcome("OK", NoPacket, frames, {})}
       ELSE {Outcome("OK", NoPacket, <<>>, ToSet(frames))})

(* A codec without delay is not called to flush it. *)
NothingToFlush_Always(frame) == frame = NoFrame
NothingToFlush(frame) == ~Delay /\ frame = NoFrame

(* Both reject frames that lack what they need: dimensions, extended_data. *)
EncodeVideo2(frame) ==
  IF NothingToFlush(frame)
  THEN {[Failed("OK", frame) EXCEPT !.lost = {}]}
  ELSE {Failed("EINVAL", frame)} \union Encode2(frame, FALSE)

EncodeAudio2(frame, size) ==
  IF NothingToFlush(frame)
  THEN {[Failed("OK", frame) EXCEPT !.lost = {}]}
  ELSE IF frame = NoFrame THEN Encode2(frame, FALSE)
  ELSE {Failed("EINVAL", frame)}
       \union (IF SizeCheck(size) = "OK" THEN Encode2(frame, FALSE) ELSE {})
       \union (IF SizeCheck(size) = "pad"
               THEN {Failed("ERR", frame)} \union Encode2(frame, TRUE) ELSE {})

(* The outcomes a codec that keeps at most MaxHeld frames can have. *)
Outcomes(frame, size) ==
  {o \in IF Video THEN EncodeVideo2(frame) ELSE EncodeAudio2(frame, size) :
     Len(o.held) <= IF Delay THEN MaxHeld ELSE 0}

(* do_encode() with outcome o: the packet goes to buffer_pkt. *)
BufferValid(o) == o.ret = "OK" /\ o.pkt # NoPacket

DoEncode(o, frame) ==
  /\ held' = o.held
  /\ last_audio_frame' = (last_audio_frame \/ o.pad)
  /\ h' = [h EXCEPT !.sent = IF frame # NoFrame THEN @ + 1 ELSE @,
                    !.lost = @ \union o.lost,
                    !.padded = IF o.pad THEN @ \union {frame} ELSE @]

---------------------------------------------------------------------------
Answer(op, ret, frame) ==
  last' = <<last[2], [op |-> op, ret |-> ret, frame |-> frame]>>

(* draining after a call with this frame. *)
DrainingBy(frame) == draining \/ frame = NoFrame

(* The buffered packet has not been received. *)
BufferFull_Busy == buffer_pkt_valid \/ held # <<>>
BufferFull == buffer_pkt_valid

(* avcodec_send_frame() that is refused, or flushes a codec that has       *)
(* nothing to flush.                                                       *)
SendFrameEnds(frame) ==
  /\ \/ draining /\ Answer("send", "EOF", frame)
     \/ ~draining /\ NothingToFlush(frame) /\ Answer("send", "OK", frame)
     \/ ~draining /\ ~NothingToFlush(frame) /\ BufferFull /\ Answer("send", "EAGAIN", frame)
  /\ draining' = DrainingBy(frame)
  /\ UNCHANGED <<buffer_pkt, buffer_pkt_valid, last_audio_frame, held, h>>

(* avcodec_send_frame() that encodes. *)
SendFrameEncodes(frame, size) ==
  /\ ~draining /\ ~NothingToFlush(frame) /\ ~BufferFull
  /\ draining' = DrainingBy(frame)
  /\ \E o \in Outcomes(frame, size) :
       /\ DoEncode(o, frame)
       /\ buffer_pkt' = o.pkt /\ buffer_pkt_valid' = BufferValid(o)
       /\ Answer("send", o.ret, frame)

SendFrame ==
  \E frame \in {NoFrame, h.sent + 1}, size \in Sizes :
    /\ frame <= MaxFrames
    /\ SendFrameEnds(frame) \/ SendFrameEncodes(frame, size)

(* avcodec_receive_packet(): the buffered packet ... *)
ValidAfterReceive_Kept == buffer_pkt_valid
ValidAfterReceive == FALSE

ReceiveBuffered ==
  /\ buffer_pkt_valid
  /\ h' = [h EXCEPT !.out = Append(@, buffer_pkt)]
  /\ buffer_pkt' = NoPacket /\ buffer_pkt_valid' = ValidAfterReceive
  /\ Answer("receive", "OK", NoFrame)
  /\ UNCHANGED <<draining, last_audio_frame, held>>

(* ... or nothing yet ... *)
ReceiveEagain ==
  /\ ~buffer_pkt_valid /\ ~draining
  /\ Answer("receive", "EAGAIN", NoFrame)
  /\ UNCHANGED <<buffer_pkt, buffer_pkt_valid, draining, last_audio_frame, held, h>>

(* ... or, when draining, whatever the codec still has. *)
ReceiveDrains ==
  /\ ~buffer_pkt_valid /\ draining
  /\ \E o \in Outcomes(NoFrame, "full") :
       /\ held' = o.held
       /\ h' = [h EXCEPT !.lost = @ \union o.lost,
                         !.out = IF o.pkt # NoPacket THEN Append(@, o.pkt) ELSE @]
       /\ Answer("receive", IF o.ret = "OK" /\ o.pkt = NoPacket THEN "EOF" ELSE o.ret, NoFrame)
  /\ UNCHANGED <<buffer_pkt, buffer_pkt_valid, draining, last_audio_frame>>

Next ==
  /\ SendFrame \/ ReceiveBuffered \/ ReceiveEagain \/ ReceiveDrains
  /\ UNCHANGED codec

Spec == Init /\ [][Next]_vars

---------------------------------------------------------------------------
(***************************************************************************)
(* Properties.                                                             *)
(***************************************************************************)

(* At every time a frame that was taken is a packet the user got, waits in *)
(* buffer_pkt or in the codec, or was lost with an error; and the packets, *)
(* received through the buffer or directly, are in the order of the frames *)
(* and none comes twice.                                                   *)
FramesAccounted ==
  /\ 1..h.sent = ToSet(h.out) \union ToSet(held) \union ({buffer_pkt} \ {NoPacket}) \union h.lost
  /\ \A i, j \in DOMAIN h.out : i < j => h.out[i] < h.out[j]

(* EOF from avcodec_receive_packet() is the end: "the encoder has been     *)
(* fully flushed, and there will be no more output packets".  Every frame  *)
(* has come out, or was lost with an error.                                *)
DrainComplete ==
  last[2].op = "receive" /\ last[2].ret = "EOF" => 1..h.sent = ToSet(h.out) \union h.lost

(* "an AVERROR(EAGAIN) return value on a send/receive call on one end      *)
(* implies that a receive/send call on the other end will succeed".        *)
EagainAlternates ==
  /\ last[1].op = "send" /\ last[1].ret = "EAGAIN" /\ last[2].op = "receive"
       => last[2].ret = "OK"
  /\ last[1].op = "receive" /\ last[1].ret = "EAGAIN" /\ last[2].op = "send"
       => last[2].ret \notin {"EAGAIN", "EOF"}

(* "The final frame may be smaller than avctx->frame_size": one frame is   *)
(* padded with silence, however many small ones are sent.                  *)
OnePaddedFrame == \A i, j \in h.padded : i = j
=============================================================================
