--------------------------- MODULE EncodeApiProofs ---------------------------
(***************************************************************************)
(* Proofs about EncodeApi, for every codec and any number of frames, of    *)
(* any length of the codec's queue.                                        *)
(*                                                                         *)
(* The properties follow from EncodeInv.  Its heart is OrderInv: the       *)
(* packets the user has, the buffered packet and the frames inside the     *)
(* codec are three pieces of one increasing sequence, so that whatever the *)
(* codec does with its oldest frame keeps the packets in order.            *)
(***************************************************************************)
EXTENDS EncodeApi, TLAPS

---------------------------------------------------------------------------
(***************************************************************************)
(* Increasing sequences of frames.                                         *)
(***************************************************************************)
Increasing(s) == \A i, j \in DOMAIN s : i < j => s[i] < s[j]

(* A frame or packet is added at the end. *)
LEMMA AppendFacts ==
  ASSUME NEW s \in Seq(Nat), NEW x \in Nat
  PROVE  /\ Append(s, x) \in Seq(Nat) /\ Append(s, x) # <<>>
         /\ s \o <<x>> = Append(s, x)
         /\ ToSet(Append(s, x)) = ToSet(s) \union {x}
         /\ Increasing(s) /\ (\A y \in ToSet(s) : y < x) => Increasing(Append(s, x))
<1>1. /\ Append(s, x) \in Seq(Nat) /\ Append(s, x) # <<>> /\ s \o <<x>> = Append(s, x)
      /\ DOMAIN s = 1..Len(s) /\ Len(s) \in Nat
      /\ DOMAIN Append(s, x) = 1..(Len(s) + 1)
      /\ Append(s, x)[Len(s) + 1] = x
      /\ \A i \in 1..Len(s) : Append(s, x)[i] = s[i]
  OBVIOUS
<1>2. ToSet(Append(s, x)) = ToSet(s) \union {x}
  BY <1>1 DEF ToSet
<1>3. ASSUME Increasing(s), \A y \in ToSet(s) : y < x
      PROVE  Increasing(Append(s, x))
  BY <1>1, <1>3 DEF Increasing, ToSet
<1> QED
  BY <1>1, <1>2, <1>3

(* The oldest frame is taken away. *)
LEMMA TailFacts ==
  ASSUME NEW s \in Seq(Nat), s # <<>>
  PROVE  /\ Head(s) \in ToSet(s) /\ Head(s) \in Nat /\ Tail(s) \in Seq(Nat)
         /\ ToSet(s) = {Head(s)} \union ToSet(Tail(s))
         /\ Increasing(s) => Increasing(Tail(s)) /\ \A y \in ToSet(Tail(s)) : Head(s) < y
<1>1. PICK n \in Nat, t \in Seq(Nat) :
        /\ n >= 1 /\ DOMAIN s = 1..n /\ t = Tail(s) /\ DOMAIN t = 1..(n - 1) /\ Head(s) = s[1]
        /\ \A i \in 1..(n - 1) : t[i] = s[i + 1]
  <2>1. /\ Len(s) \in Nat /\ Len(s) >= 1 /\ DOMAIN s = 1..Len(s)
        /\ Tail(s) \in Seq(Nat) /\ DOMAIN Tail(s) = 1..(Len(s) - 1) /\ Head(s) = s[1]
        /\ \A i \in 1..(Len(s) - 1) : Tail(s)[i] = s[i + 1]
    OBVIOUS
  <2> QED
    BY <2>1
<1>2. ToSet(s) = {s[1]} \union ToSet(t)
  <2>1. ASSUME NEW i \in 1..n PROVE s[i] = s[1] \/ s[i] \in ToSet(t)
    <3>1. CASE i = 1
      BY <3>1
    <3>2. CASE i # 1
      <4>1. i - 1 \in 1..(n - 1) /\ (i - 1) + 1 = i
        BY <1>1, <3>2
      <4>2. t[i - 1] = s[i]
        BY <1>1, <4>1
      <4> QED
        BY <1>1, <4>1, <4>2 DEF ToSet
    <3> QED
      BY <3>1, <3>2
  <2>2. ASSUME NEW i \in 1..(n - 1) PROVE t[i] \in ToSet(s)
    BY <1>1 DEF ToSet
  <2>3. s[1] \in ToSet(s)
    BY <1>1 DEF ToSet
  <2> QED
    BY <1>1, <2>1, <2>2, <2>3, ZenonT(60) DEF ToSet
<1>3. ASSUME Increasing(s)
      PROVE  Increasing(t) /\ \A y \in ToSet(t) : s[1] < y
  <2>1. Increasing(t)
    <3> SUFFICES ASSUME NEW i \in 1..(n - 1), NEW j \in 1..(n - 1), i < j PROVE t[i] < t[j]
      BY <1>1 DEF Increasing
    <3>1. i + 1 \in 1..n /\ j + 1 \in 1..n /\ i + 1 < j + 1
      BY <1>1
    <3> QED
      BY <1>1, <1>3, <3>1 DEF Increasing
  <2>2. ASSUME NEW i \in 1..(n - 1) PROVE s[1] < t[i]
    <3>1. 1 \in 1..n /\ i + 1 \in 1..n /\ 1 < i + 1
      BY <1>1
    <3> QED
      BY <1>1, <1>3, <3>1 DEF Increasing
  <2> QED
    BY <1>1, <2>1, <2>2 DEF ToSet
<1>4. Head(s) \in ToSet(s) /\ Head(s) \in Nat
  BY <1>1 DEF ToSet
<1> QED
  BY <1>1, <1>2, <1>3, <1>4

---------------------------------------------------------------------------
(***************************************************************************)
(* The inductive invariant.                                                *)
(***************************************************************************)
Answers == [op : {"none", "send", "receive"}, ret : {"OK", "EAGAIN", "EOF", "EINVAL", "ERR"},
            frame : Nat]

EncodeTypeOK ==
  /\ codec \in Codecs
  /\ buffer_pkt \in Nat /\ buffer_pkt_valid \in BOOLEAN
  /\ draining \in BOOLEAN /\ last_audio_frame \in BOOLEAN
  /\ held \in Seq(Nat)
  /\ last \in Answers \X Answers
  /\ h \in [sent : Nat, out : Seq(Nat), lost : SUBSET Nat, padded : SUBSET Nat]

(* Packets out, the buffered packet and the codec's frames, in order. *)
OrderInv ==
  /\ Increasing(h.out) /\ Increasing(held)
  /\ \A x \in ToSet(h.out), y \in ToSet(held) : x < y
  /\ buffer_pkt # NoPacket => /\ \A x \in ToSet(h.out) : x < buffer_pkt
                              /\ \A y \in ToSet(held) : buffer_pkt < y

(* What the last answer tells about the state. *)
LastInv ==
  LET a == last[2] IN
  /\ a.op = "send" /\ a.ret = "EAGAIN" => buffer_pkt_valid
  /\ a.op = "receive" /\ a.ret = "EAGAIN" => ~buffer_pkt_valid /\ ~draining
  /\ a.op = "receive" /\ a.ret = "EOF" => buffer_pkt = NoPacket /\ held = <<>>

EncodeInv ==
  /\ EncodeTypeOK /\ OrderInv /\ LastInv
  /\ buffer_pkt_valid <=> buffer_pkt # NoPacket
  /\ ~Delay => held = <<>>
  /\ h.padded # {} => last_audio_frame
  /\ FramesAccounted /\ EagainAlternates /\ OnePaddedFrame

---------------------------------------------------------------------------
(***************************************************************************)
(* What the codec can do.                                                  *)
(***************************************************************************)

(* The frames the codec has during a call. *)
Frames(frame) == IF frame = NoFrame THEN held ELSE Append(held, frame)

(* The shapes of an outcome o: the call fails and loses its frame, or has  *)
(* nothing to flush; the codec gives its oldest frame as a packet; it      *)
(* fails on its oldest frame; it takes the frame and gives nothing.        *)
Fails(o, frame) ==
  /\ o.pkt = NoPacket /\ o.held = held /\ o.lost = {frame} \ {NoFrame}
  /\ o.ret = "OK" => frame = NoFrame /\ ~Delay
Gives(o, frame) ==
  /\ Frames(frame) # <<>> /\ o.ret = "OK" /\ o.pkt = Head(Frames(frame))
  /\ o.held = Tail(Frames(frame)) /\ o.lost = {}
Drops(o, frame) ==
  /\ Frames(frame) # <<>> /\ o.ret = "ERR" /\ o.pkt = NoPacket
  /\ o.held = Tail(Frames(frame)) /\ o.lost = {Head(Frames(frame))}
Keeps(o, frame) ==
  /\ frame # NoFrame \/ Frames(frame) = <<>>
  /\ o.ret = "OK" /\ o.pkt = NoPacket
  /\ \/ o.held = Frames(frame) /\ o.lost = {}
     \/ o.held = <<>> /\ o.lost = ToSet(Frames(frame))

(* codec->encode2() has one of these shapes. *)
LEMMA Encode2Shapes ==
  ASSUME EncodeTypeOK, NEW frame \in Nat, NEW pad \in BOOLEAN, NEW o \in Encode2(frame, pad)
  PROVE  /\ Fails(o, frame) \/ Gives(o, frame) \/ Drops(o, frame) \/ Keeps(o, frame)
         /\ o.ret \in {"OK", "ERR"} /\ o.pad = pad
<1> DEFINE fs == held \o (IF frame = NoFrame THEN <<>> ELSE <<frame>>)
           Out(ret, pkt, rest, lost) ==
             [ret |-> ret, pkt |-> pkt, held |-> rest, lost |-> lost, pad |-> pad]
<1>1. fs = Frames(frame)
  BY AppendFacts DEF Frames, EncodeTypeOK
<1>2. \/ o = [Failed("ERR", frame) EXCEPT !.pad = pad]
      \/ fs # <<>> /\ o = Out("OK", Head(fs), Tail(fs), {})
      \/ fs # <<>> /\ o = Out("ERR", NoPacket, Tail(fs), {Head(fs)})
      \/ ~(frame = NoFrame /\ fs # <<>>) /\ o = Out("OK", NoPacket, fs, {})
      \/ ~(frame = NoFrame /\ fs # <<>>) /\ o = Out("OK", NoPacket, <<>>, ToSet(fs))
  BY DEF Encode2
<1> HIDE DEF fs
<1> QED
  BY <1>1, <1>2 DEF Failed, Fails, Gives, Drops, Keeps

(* So have avcodec_encode_video2() and avcodec_encode_audio2(); only the   *)
(* first small frame is padded, and a codec without delay keeps nothing.   *)
LEMMA OutcomeShapes ==
  ASSUME EncodeTypeOK, NEW frame \in Nat, NEW size, NEW o \in Outcomes(frame, size)
  PROVE  /\ Fails(o, frame) \/ Gives(o, frame) \/ Drops(o, frame) \/ Keeps(o, frame)
         /\ o.ret \in {"OK", "ERR", "EINVAL"} /\ o.pad \in BOOLEAN
         /\ o.pad => ~last_audio_frame /\ frame # NoFrame
         /\ ~Delay => Len(o.held) <= 0
<1>1. ~Delay => Len(o.held) <= 0
  BY DEF Outcomes
<1>2. \/ NothingToFlush(frame) /\ o = [Failed("OK", frame) EXCEPT !.lost = {}]
      \/ o = Failed("EINVAL", frame) /\ ~NothingToFlush(frame)
      \/ o = Failed("ERR", frame)
      \/ o \in Encode2(frame, FALSE)
      \/ SizeCheck(size) = "pad" /\ frame # NoFrame /\ o \in Encode2(frame, TRUE)
  BY DEF Outcomes, EncodeVideo2, EncodeAudio2
<1>3. SizeCheck(size) = "pad" => ~last_audio_frame
  <2>1. FrameSize \in FrameSizes
    BY CodecsAssumption DEF EncodeTypeOK, FrameSize
  <2> QED
    BY <2>1 DEF SizeCheck, FrameSizes
<1>4. CASE NothingToFlush(frame) /\ o = [Failed("OK", frame) EXCEPT !.lost = {}]
  <2>1. frame = NoFrame /\ ~Delay /\ {frame} \ {NoFrame} = {}
    BY <1>4 DEF NothingToFlush
  <2>2. /\ o.ret = "OK" /\ o.pkt = NoPacket /\ o.held = held /\ o.lost = {}
        /\ o.pad \in BOOLEAN /\ ~o.pad
    BY <1>4 DEF Failed
  <2>3. Fails(o, frame)
    BY <2>1, <2>2 DEF Fails
  <2> QED
    BY <1>1, <2>2, <2>3
<1>5. CASE o = Failed("EINVAL", frame) \/ o = Failed("ERR", frame)
  <2>1. /\ o.ret \in {"EINVAL", "ERR"} /\ o.pkt = NoPacket /\ o.held = held
        /\ o.lost = {frame} \ {NoFrame} /\ o.pad \in BOOLEAN /\ ~o.pad
    <3>1. CASE o = Failed("EINVAL", frame)
      BY <3>1 DEF Failed
    <3>2. CASE o = Failed("ERR", frame)
      BY <3>2 DEF Failed
    <3> QED
      BY <1>5, <3>1, <3>2
  <2>2. Fails(o, frame)
    BY <2>1 DEF Fails
  <2> QED
    BY <1>1, <2>1, <2>2
<1>6. CASE o \in Encode2(frame, FALSE)
  BY <1>1, <1>6, Encode2Shapes
<1>7. CASE SizeCheck(size) = "pad" /\ frame # NoFrame /\ o \in Encode2(frame, TRUE)
  BY <1>1, <1>3, <1>7, Encode2Shapes
<1> QED
  BY <1>2, <1>4, <1>5, <1>6, <1>7

(* The frame of a call comes after everything the codec has. *)
LEMMA FramesFacts ==
  ASSUME EncodeInv, NEW frame \in {NoFrame, h.sent + 1}
  PROVE  /\ Frames(frame) \in Seq(Nat) /\ Increasing(Frames(frame))
         /\ ToSet(Frames(frame)) = ToSet(held) \union ({frame} \ {NoFrame})
         /\ \A y \in ToSet(Frames(frame)) : y \in Nat \ {0} /\ \A x \in ToSet(h.out) : x < y
<1>1. /\ h.sent \in Nat /\ held \in Seq(Nat) /\ Increasing(held)
      /\ \A y \in ToSet(held) : y \in 1..h.sent /\ \A x \in ToSet(h.out) : x < y
      /\ \A x \in ToSet(h.out) : x \in 1..h.sent
  BY DEF EncodeInv, EncodeTypeOK, OrderInv, FramesAccounted
<1>2. CASE frame = NoFrame
  BY <1>1, <1>2 DEF Frames, NoFrame
<1>3. CASE frame = h.sent + 1
  <2>1. frame # NoFrame /\ frame \in Nat /\ Frames(frame) = Append(held, frame)
    BY <1>1, <1>3 DEF Frames, NoFrame
  <2>2. /\ Frames(frame) \in Seq(Nat) /\ Increasing(Frames(frame))
        /\ ToSet(Frames(frame)) = ToSet(held) \union {frame}
    <3>1. \A y \in ToSet(held) : y < frame
      BY <1>1, <1>3
    <3> QED
      BY <1>1, <2>1, <3>1, AppendFacts
  <2>3. ToSet(Frames(frame)) = ToSet(held) \union ({frame} \ {NoFrame})
    BY <2>1, <2>2
  <2>4. ASSUME NEW y \in ToSet(Frames(frame))
        PROVE  y \in Nat \ {0} /\ \A x \in ToSet(h.out) : x < y
    <3>1. CASE y \in ToSet(held)
      BY <1>1, <3>1
    <3>2. CASE y = frame
      BY <1>1, <1>3, <3>2
    <3> QED
      BY <2>2, <3>1, <3>2
  <2> QED
    BY <2>2, <2>3, <2>4
<1> QED
  BY <1>2, <1>3

(* Whatever the codec does, no frame disappears and the order is kept. *)
LEMMA OutcomeFacts ==
  ASSUME EncodeInv, NEW frame \in {NoFrame, h.sent + 1}, NEW size,
         NEW o \in Outcomes(frame, size)
  PROVE  /\ o.held \in Seq(Nat) /\ o.pkt \in Nat /\ o.lost \in SUBSET Nat
         /\ o.ret \in {"OK", "ERR", "EINVAL"} /\ o.pad \in BOOLEAN
         /\ o.pad => ~last_audio_frame /\ frame # NoFrame
         /\ ~Delay => o.held = <<>>
         /\ o.pkt # NoPacket => o.ret = "OK"
         /\ o.ret = "OK" /\ o.pkt = NoPacket /\ frame = NoFrame => o.held = <<>>
         /\ ({o.pkt} \ {NoPacket}) \union ToSet(o.held) \union o.lost =
              ToSet(held) \union ({frame} \ {NoFrame})
         /\ Increasing(o.held)
         /\ \A x \in ToSet(h.out) : /\ \A y \in ToSet(o.held) : x < y
                                    /\ o.pkt # NoPacket => x < o.pkt
         /\ o.pkt # NoPacket => \A y \in ToSet(o.held) : o.pkt < y
<1> DEFINE fs == Frames(frame)
           hd == Head(fs)
           tl == Tail(fs)
<1>1. EncodeTypeOK /\ frame \in Nat /\ held \in Seq(Nat) /\ (~Delay => held = <<>>)
  BY DEF EncodeInv, EncodeTypeOK, NoFrame
<1>2. /\ fs \in Seq(Nat) /\ Increasing(fs)
      /\ ToSet(fs) = ToSet(held) \union ({frame} \ {NoFrame})
      /\ \A y \in ToSet(fs) : y \in Nat \ {0} /\ \A x \in ToSet(h.out) : x < y
  BY FramesFacts
<1>3. /\ Fails(o, frame) \/ Gives(o, frame) \/ Drops(o, frame) \/ Keeps(o, frame)
      /\ o.ret \in {"OK", "ERR", "EINVAL"} /\ o.pad \in BOOLEAN
      /\ o.pad => ~last_audio_frame /\ frame # NoFrame
      /\ ~Delay => Len(o.held) <= 0
  BY <1>1, OutcomeShapes
<1>4. fs # <<>> => /\ hd \in ToSet(fs) /\ hd \in Nat /\ tl \in Seq(Nat)
                   /\ ToSet(fs) = {hd} \union ToSet(tl) /\ Increasing(tl)
                   /\ \A y \in ToSet(tl) : hd < y
  BY <1>2, TailFacts
<1>5. ToSet(<<>>) = {} /\ Increasing(<<>>) /\ <<>> \in Seq(Nat)
  BY DEF ToSet, Increasing
<1>6. \A s \in Seq(Nat) : Len(s) <= 0 => s = <<>>
  OBVIOUS
<1>7. \A s \in Seq(Nat) : ToSet(s) \subseteq Nat
  BY DEF ToSet
<1>8. Increasing(held) /\ \A x \in ToSet(h.out), y \in ToSet(held) : x < y
  BY DEF EncodeInv, OrderInv
<1>9. /\ Gives(o, frame) => fs # <<>> /\ o.ret = "OK" /\ o.pkt = hd /\ o.held = tl /\ o.lost = {}
      /\ Drops(o, frame) => fs # <<>> /\ o.ret = "ERR" /\ o.pkt = 0 /\ o.held = tl /\ o.lost = {hd}
      /\ Keeps(o, frame) => /\ frame # NoFrame \/ fs = <<>>
                            /\ o.ret = "OK" /\ o.pkt = 0
                            /\ \/ o.held = fs /\ o.lost = {}
                               \/ o.held = <<>> /\ o.lost = ToSet(fs)
  BY DEF Gives, Drops, Keeps, NoPacket
<1> HIDE DEF fs, hd, tl
<1>10. CASE Fails(o, frame)
  BY <1>1, <1>3, <1>6, <1>8, <1>10 DEF Fails, NoPacket, NoFrame
<1>11. CASE Gives(o, frame)
  <2>1. hd # 0 /\ {hd} \ {0} = {hd} /\ \A x \in ToSet(h.out) : x < hd
    BY <1>2, <1>4, <1>9, <1>11
  <2>2. \A x \in ToSet(h.out) : \A y \in ToSet(tl) : x < y
    BY <1>2, <1>4, <1>9, <1>11
  <2> QED
    BY <1>2, <1>3, <1>4, <1>6, <1>9, <1>11, <2>1, <2>2 DEF NoPacket
<1>12. CASE Drops(o, frame)
  <2>1. \A x \in ToSet(h.out) : \A y \in ToSet(tl) : x < y
    BY <1>2, <1>4, <1>9, <1>12
  <2> QED
    BY <1>2, <1>3, <1>4, <1>6, <1>9, <1>12, <2>1 DEF NoPacket
<1>13. CASE Keeps(o, frame)
  <2>1. {o.pkt} \ {NoPacket} = {} /\ o.pkt = NoPacket /\ o.pkt \in Nat
    BY <1>9, <1>13 DEF NoPacket
  <2>2. CASE o.held = fs /\ o.lost = {}
    BY <1>2, <1>3, <1>6, <1>9, <1>13, <2>1, <2>2
  <2>3. CASE o.held = <<>> /\ o.lost = ToSet(fs)
    <3>1. ToSet(o.held) = {} /\ Increasing(o.held) /\ o.held \in Seq(Nat) /\ o.lost \subseteq Nat
      BY <1>2, <1>5, <1>7, <2>3
    <3> QED
      BY <1>2, <1>3, <2>1, <2>3, <3>1
  <2> QED
    BY <1>9, <1>13, <2>2, <2>3
<1> QED
  BY <1>3, <1>10, <1>11, <1>12, <1>13

---------------------------------------------------------------------------
(***************************************************************************)
(* One lemma per action.                                                   *)
(***************************************************************************)

(* The invariant holds for a context that has just been opened. *)
LEMMA EncodeInvInit == Init => EncodeInv
<1> SUFFICES ASSUME Init PROVE EncodeInv
  OBVIOUS
<1>1. NoAnswer \in Answers
  BY DEF NoAnswer, Answers, NoFrame
<1>2. EncodeTypeOK
  <2>1. last \in Answers \X Answers
    BY <1>1 DEF Init
  <2>2. <<>> \in Seq(Nat) /\ {} \in SUBSET Nat /\ 0 \in Nat
    OBVIOUS
  <2>3. h \in [sent : Nat, out : Seq(Nat), lost : SUBSET Nat, padded : SUBSET Nat]
    BY <2>2 DEF Init
  <2> QED
    BY <2>1, <2>2, <2>3 DEF Init, EncodeTypeOK, NoPacket
<1>3. ToSet(h.out) = {} /\ ToSet(held) = {} /\ Increasing(h.out) /\ Increasing(held)
  BY DEF Init, ToSet, Increasing
<1>4. last[1].op = "none" /\ last[2].op = "none"
  BY DEF Init, NoAnswer
<1>5. OrderInv /\ LastInv /\ EagainAlternates
  BY <1>3, <1>4 DEF Init, OrderInv, LastInv, EagainAlternates
<1>6. FramesAccounted /\ OnePaddedFrame
  BY <1>3 DEF Init, FramesAccounted, OnePaddedFrame, Increasing, NoPacket
<1> QED
  BY <1>2, <1>5, <1>6 DEF Init, EncodeInv

(* The answers of the two functions. *)
LEMMA AnswerFacts ==
  ASSUME EncodeInv, NEW op \in {"send", "receive"},
         NEW ret \in {"OK", "EAGAIN", "EOF", "EINVAL", "ERR"}, NEW frame \in Nat,
         Answer(op, ret, frame)
  PROVE  /\ last' \in Answers \X Answers
         /\ last'[1] = last[2] /\ last'[2].op = op /\ last'[2].ret = ret
<1>1. [op |-> op, ret |-> ret, frame |-> frame] \in Answers
  BY DEF Answers
<1> QED
  BY <1>1 DEF Answer, EncodeInv, EncodeTypeOK

(* A call of avcodec_send_frame() that does not encode. *)
LEMMA SendFrameEndsStep ==
  ASSUME EncodeInv, NEW frame \in {NoFrame, h.sent + 1}, SendFrameEnds(frame), UNCHANGED codec
  PROVE  EncodeInv'
<1> USE DEF EncodeInv
<1>1. frame \in Nat
  BY DEF EncodeTypeOK, NoFrame
<1>2. UNCHANGED <<codec, buffer_pkt, buffer_pkt_valid, last_audio_frame, held, h>>
  BY DEF SendFrameEnds
<1>3. /\ last' \in Answers \X Answers /\ last'[1] = last[2] /\ last'[2].op = "send"
      /\ \/ last'[2].ret = "EOF" /\ draining
         \/ last'[2].ret = "OK"
         \/ last'[2].ret = "EAGAIN" /\ buffer_pkt_valid /\ ~draining
  BY <1>1, AnswerFacts DEF SendFrameEnds, BufferFull
<1>4. EncodeTypeOK'
  BY <1>2, <1>3 DEF EncodeTypeOK, SendFrameEnds, DrainingBy
<1>5. LastInv' /\ EagainAlternates'
  BY <1>2, <1>3 DEF LastInv, EagainAlternates
<1>6. OrderInv' /\ FramesAccounted' /\ OnePaddedFrame' /\ (Delay' <=> Delay)
  BY <1>2 DEF OrderInv, FramesAccounted, OnePaddedFrame, Delay
<1> QED
  BY <1>2, <1>4, <1>5, <1>6

(* A call of avcodec_send_frame() that encodes: the packet, if any, goes   *)
(* to buffer_pkt, which is empty.                                          *)
LEMMA SendFrameEncodesStep ==
  ASSUME EncodeInv, NEW frame \in {NoFrame, h.sent + 1}, NEW size,
         SendFrameEncodes(frame, size), UNCHANGED codec
  PROVE  EncodeInv'
<1> USE DEF EncodeInv
<1>1. PICK o \in Outcomes(frame, size) :
        /\ DoEncode(o, frame)
        /\ buffer_pkt' = o.pkt /\ buffer_pkt_valid' = BufferValid(o)
        /\ Answer("send", o.ret, frame)
  BY DEF SendFrameEncodes
<1>2. frame \in Nat /\ ~draining /\ ~buffer_pkt_valid /\ buffer_pkt = NoPacket
  BY DEF SendFrameEncodes, BufferFull, EncodeTypeOK, NoFrame
<1>3. /\ o.held \in Seq(Nat) /\ o.pkt \in Nat /\ o.lost \in SUBSET Nat
      /\ o.ret \in {"OK", "ERR", "EINVAL"} /\ o.pad \in BOOLEAN
      /\ o.pad => ~last_audio_frame /\ frame # NoFrame
      /\ ~Delay => o.held = <<>>
      /\ o.pkt # NoPacket => o.ret = "OK"
      /\ ({o.pkt} \ {NoPacket}) \union ToSet(o.held) \union o.lost =
           ToSet(held) \union ({frame} \ {NoFrame})
      /\ Increasing(o.held)
      /\ \A x \in ToSet(h.out) : /\ \A y \in ToSet(o.held) : x < y
                                 /\ o.pkt # NoPacket => x < o.pkt
      /\ o.pkt # NoPacket => \A y \in ToSet(o.held) : o.pkt < y
  BY OutcomeFacts
<1>4. /\ held' = o.held /\ (last_audio_frame' <=> (last_audio_frame \/ o.pad))
      /\ last_audio_frame' \in BOOLEAN
      /\ h'.sent = (IF frame # NoFrame THEN h.sent + 1 ELSE h.sent)
      /\ h'.out = h.out /\ h'.lost = h.lost \union o.lost
      /\ h'.padded = (IF o.pad THEN h.padded \union {frame} ELSE h.padded)
      /\ h' \in [sent : Nat, out : Seq(Nat), lost : SUBSET Nat, padded : SUBSET Nat]
  BY <1>1, <1>2, <1>3 DEF DoEncode, EncodeTypeOK
<1>5. /\ last' \in Answers \X Answers /\ last'[1] = last[2] /\ last'[2].op = "send"
      /\ last'[2].ret \in {"OK", "ERR", "EINVAL"}
  BY <1>1, <1>2, <1>3, AnswerFacts
<1>6. buffer_pkt_valid' \in BOOLEAN /\ (buffer_pkt_valid' <=> buffer_pkt' # NoPacket)
  BY <1>1, <1>3 DEF BufferValid
<1>7. EncodeTypeOK'
  BY <1>1, <1>3, <1>4, <1>5, <1>6 DEF EncodeTypeOK, SendFrameEncodes, DrainingBy
<1>8. OrderInv'
  BY <1>1, <1>3, <1>4 DEF OrderInv
<1>9. LastInv' /\ EagainAlternates'
  BY <1>5 DEF LastInv, EagainAlternates
<1>10. FramesAccounted'
  <2>1. 1..h'.sent = 1..h.sent \union ({frame} \ {NoFrame})
    BY <1>4 DEF EncodeTypeOK, NoFrame
  <2>2. 1..h.sent = ToSet(h.out) \union ToSet(held) \union h.lost
    BY <1>2 DEF FramesAccounted
  <2>3. 1..h'.sent = ToSet(h'.out) \union ToSet(held') \union ({buffer_pkt'} \ {NoPacket})
                     \union h'.lost
    BY <1>1, <1>3, <1>4, <2>1, <2>2
  <2> QED
    BY <1>4, <2>3 DEF FramesAccounted
<1>11. OnePaddedFrame' /\ (h'.padded # {} => last_audio_frame')
  BY <1>3, <1>4 DEF OnePaddedFrame, EncodeTypeOK
<1>12. ~Delay' => held' = <<>>
  BY <1>3, <1>4 DEF Delay
<1> QED
  BY <1>6, <1>7, <1>8, <1>9, <1>10, <1>11, <1>12

(* avcodec_receive_packet() hands out the buffered packet. *)
LEMMA ReceiveBufferedStep ==
  ASSUME EncodeInv, ReceiveBuffered, UNCHANGED codec
  PROVE  EncodeInv'
<1> USE DEF EncodeInv
<1>1. /\ buffer_pkt_valid /\ buffer_pkt # NoPacket /\ buffer_pkt \in Nat
      /\ UNCHANGED <<draining, last_audio_frame, held>> /\ h.out \in Seq(Nat)
      /\ buffer_pkt' = NoPacket /\ buffer_pkt_valid' = FALSE
  BY DEF ReceiveBuffered, ValidAfterReceive, EncodeTypeOK
<1>2. /\ h'.out = Append(h.out, buffer_pkt) /\ h'.sent = h.sent /\ h'.lost = h.lost
      /\ h'.padded = h.padded
      /\ h' \in [sent : Nat, out : Seq(Nat), lost : SUBSET Nat, padded : SUBSET Nat]
  BY <1>1, AppendFacts DEF ReceiveBuffered, EncodeTypeOK
<1>3. /\ last' \in Answers \X Answers /\ last'[1] = last[2] /\ last'[2].op = "receive"
      /\ last'[2].ret = "OK"
  BY AnswerFacts DEF ReceiveBuffered, NoFrame
<1>4. /\ ToSet(h'.out) = ToSet(h.out) \union {buffer_pkt}
      /\ Increasing(h'.out)
  BY <1>1, <1>2, AppendFacts DEF OrderInv
<1>5. EncodeTypeOK'
  BY <1>1, <1>2, <1>3 DEF EncodeTypeOK, NoPacket
<1>6. OrderInv'
  BY <1>1, <1>4 DEF OrderInv
<1>7. LastInv' /\ EagainAlternates'
  BY <1>1, <1>3 DEF LastInv, EagainAlternates
<1>8. FramesAccounted'
  <2>1. 1..h'.sent = ToSet(h'.out) \union ToSet(held') \union ({buffer_pkt'} \ {NoPacket})
                     \union h'.lost
    BY <1>1, <1>2, <1>4 DEF FramesAccounted
  <2> QED
    BY <1>4, <2>1 DEF FramesAccounted, Increasing
<1>9. OnePaddedFrame' /\ (h'.padded # {} => last_audio_frame') /\ (~Delay' => held' = <<>>)
  BY <1>1, <1>2 DEF OnePaddedFrame, Delay
<1> QED
  BY <1>1, <1>5, <1>6, <1>7, <1>8, <1>9

(* avcodec_receive_packet() has nothing yet. *)
LEMMA ReceiveEagainStep ==
  ASSUME EncodeInv, ReceiveEagain, UNCHANGED codec
  PROVE  EncodeInv'
<1> USE DEF EncodeInv
<1>1. /\ ~buffer_pkt_valid /\ ~draining
      /\ UNCHANGED <<codec, buffer_pkt, buffer_pkt_valid, draining, last_audio_frame, held, h>>
  BY DEF ReceiveEagain
<1>2. /\ last' \in Answers \X Answers /\ last'[1] = last[2] /\ last'[2].op = "receive"
      /\ last'[2].ret = "EAGAIN"
  BY AnswerFacts DEF ReceiveEagain, NoFrame
<1>3. EncodeTypeOK'
  BY <1>1, <1>2 DEF EncodeTypeOK
<1>4. LastInv' /\ EagainAlternates'
  BY <1>1, <1>2 DEF LastInv, EagainAlternates
<1>5. OrderInv' /\ FramesAccounted' /\ OnePaddedFrame' /\ (Delay' <=> Delay)
  BY <1>1 DEF OrderInv, FramesAccounted, OnePaddedFrame, Delay
<1> QED
  BY <1>1, <1>3, <1>4, <1>5

(* avcodec_receive_packet() drains the codec: the packet does not pass     *)
(* through buffer_pkt, and EOF means that the codec is empty.              *)
LEMMA ReceiveDrainsStep ==
  ASSUME EncodeInv, ReceiveDrains, UNCHANGED codec
  PROVE  EncodeInv'
<1> USE DEF EncodeInv
<1>1. PICK o \in Outcomes(NoFrame, "full") :
        /\ held' = o.held
        /\ h' = [h EXCEPT !.lost = @ \union o.lost,
                          !.out = IF o.pkt # NoPacket THEN Append(@, o.pkt) ELSE @]
        /\ Answer("receive", IF o.ret = "OK" /\ o.pkt = NoPacket THEN "EOF" ELSE o.ret, NoFrame)
  BY DEF ReceiveDrains
<1>2. /\ ~buffer_pkt_valid /\ buffer_pkt = NoPacket /\ draining
      /\ UNCHANGED <<buffer_pkt, buffer_pkt_valid, draining, last_audio_frame>>
  BY DEF ReceiveDrains
<1>3. /\ o.held \in Seq(Nat) /\ o.pkt \in Nat /\ o.lost \in SUBSET Nat
      /\ o.ret \in {"OK", "ERR", "EINVAL"}
      /\ ~Delay => o.held = <<>>
      /\ o.pkt # NoPacket => o.ret = "OK"
      /\ o.ret = "OK" /\ o.pkt = NoPacket => o.held = <<>>
      /\ ({o.pkt} \ {NoPacket}) \union ToSet(o.held) \union o.lost = ToSet(held)
      /\ Increasing(o.held)
      /\ \A x \in ToSet(h.out) : /\ \A y \in ToSet(o.held) : x < y
                                 /\ o.pkt # NoPacket => x < o.pkt
      /\ o.pkt # NoPacket => \A y \in ToSet(o.held) : o.pkt < y
  <2>1. NoFrame \in {NoFrame, h.sent + 1} /\ {NoFrame} \ {NoFrame} = {}
    OBVIOUS
  <2>2. ({o.pkt} \ {NoPacket}) \union ToSet(o.held) \union o.lost =
          ToSet(held) \union ({NoFrame} \ {NoFrame})
    BY <2>1, OutcomeFacts
  <2>3. ({o.pkt} \ {NoPacket}) \union ToSet(o.held) \union o.lost = ToSet(held)
    BY <2>1, <2>2
  <2> QED
    BY <2>1, <2>3, OutcomeFacts
<1>4. /\ h'.sent = h.sent /\ h'.lost = h.lost \union o.lost /\ h'.padded = h.padded
      /\ h'.out = (IF o.pkt # NoPacket THEN Append(h.out, o.pkt) ELSE h.out)
      /\ h.out \in Seq(Nat) /\ h'.out \in Seq(Nat)
      /\ h' \in [sent : Nat, out : Seq(Nat), lost : SUBSET Nat, padded : SUBSET Nat]
  BY <1>1, <1>3, AppendFacts DEF EncodeTypeOK
<1>5. /\ last' \in Answers \X Answers /\ last'[1] = last[2] /\ last'[2].op = "receive"
      /\ last'[2].ret # "EAGAIN"
      /\ last'[2].ret = "EOF" => o.ret = "OK" /\ o.pkt = NoPacket
  <2> DEFINE ret == IF o.ret = "OK" /\ o.pkt = NoPacket THEN "EOF" ELSE o.ret
  <2>1. ret \in {"OK", "EAGAIN", "EOF", "EINVAL", "ERR"} /\ ret # "EAGAIN" /\ NoFrame \in Nat
        /\ (ret = "EOF" => o.ret = "OK" /\ o.pkt = NoPacket) /\ Answer("receive", ret, NoFrame)
    BY <1>1, <1>3 DEF NoFrame
  <2> HIDE DEF ret
  <2> QED
    BY <2>1, AnswerFacts
<1>6. /\ ToSet(h'.out) = ToSet(h.out) \union ({o.pkt} \ {NoPacket})
      /\ Increasing(h'.out)
  <2>1. CASE o.pkt = NoPacket
    BY <1>4, <2>1 DEF OrderInv
  <2>2. CASE o.pkt # NoPacket
    BY <1>3, <1>4, <2>2, AppendFacts DEF OrderInv
  <2> QED
    BY <2>1, <2>2
<1>7. EncodeTypeOK'
  BY <1>1, <1>2, <1>3, <1>4, <1>5 DEF EncodeTypeOK
<1>8. OrderInv'
  BY <1>1, <1>2, <1>3, <1>6 DEF OrderInv
<1>9. LastInv'
  BY <1>1, <1>2, <1>3, <1>5 DEF LastInv
<1>10. EagainAlternates'
  BY <1>2, <1>5 DEF LastInv, EagainAlternates
<1>11. FramesAccounted'
  <2>1. 1..h'.sent = ToSet(h'.out) \union ToSet(held') \union ({buffer_pkt'} \ {NoPacket})
                     \union h'.lost
    BY <1>1, <1>2, <1>3, <1>4, <1>6 DEF FramesAccounted
  <2> QED
    BY <1>6, <2>1 DEF FramesAccounted, Increasing
<1>12. OnePaddedFrame' /\ (h'.padded # {} => last_audio_frame') /\ (~Delay' => held' = <<>>)
  BY <1>1, <1>2, <1>3, <1>4 DEF OnePaddedFrame, Delay
<1> QED
  BY <1>2, <1>7, <1>8, <1>9, <1>10, <1>11, <1>12

(* Every call preserves the invariant. *)
LEMMA EncodeInvStep == EncodeInv /\ [Next]_vars => EncodeInv'
<1> SUFFICES ASSUME EncodeInv, [Next]_vars PROVE EncodeInv'
  OBVIOUS
<1>1. CASE UNCHANGED vars
  BY <1>1 DEF vars, EncodeInv, EncodeTypeOK, OrderInv, LastInv, FramesAccounted,
     EagainAlternates, OnePaddedFrame, Delay
<1>2. CASE Next
  <2>1. CASE SendFrame
    <3>1. PICK frame \in {NoFrame, h.sent + 1}, size \in Sizes :
            SendFrameEnds(frame) \/ SendFrameEncodes(frame, size)
      BY <2>1 DEF SendFrame
    <3> QED
      BY <1>2, <3>1, SendFrameEndsStep, SendFrameEncodesStep DEF Next
  <2> QED
    BY <1>2, <2>1, ReceiveBufferedStep, ReceiveEagainStep, ReceiveDrainsStep DEF Next
<1> QED
  BY <1>1, <1>2

---------------------------------------------------------------------------
(* The inductive invariant holds in every reachable state. *)
THEOREM EncodeInvariant == Spec => []EncodeInv
  BY EncodeInvInit, EncodeInvStep, PTL DEF Spec

(* No frame disappears between avcodec_send_frame() and                    *)
(* avcodec_receive_packet() without an error, and the packets come in the  *)
(* order of the frames, whichever of the two paths they take.              *)
THEOREM NoFrameLost == Spec => []FramesAccounted
  BY EncodeInvariant, PTL DEF EncodeInv

(* EOF from avcodec_receive_packet() comes after every packet. *)
THEOREM EofIsTheEnd == Spec => []DrainComplete
<1>1. EncodeInv => DrainComplete
  <2> SUFFICES ASSUME EncodeInv, last[2].op = "receive", last[2].ret = "EOF"
               PROVE  1..h.sent = ToSet(h.out) \union h.lost
    BY DEF DrainComplete
  <2>1. buffer_pkt = NoPacket /\ held = <<>>
    BY DEF EncodeInv, LastInv
  <2>2. ToSet(held) = {} /\ {buffer_pkt} \ {NoPacket} = {}
    BY <2>1 DEF ToSet
  <2> QED
    BY <2>2 DEF EncodeInv, FramesAccounted
<1> QED
  BY <1>1, EncodeInvariant, PTL

(* AVERROR(EAGAIN) on one end of the API means that the other end makes    *)
(* progress.                                                               *)
THEOREM NoMutualEagain == Spec => []EagainAlternates
  BY EncodeInvariant, PTL DEF EncodeInv

(* pad_last_frame() runs for one frame only. *)
THEOREM PadsOneFrame == Spec => []OnePaddedFrame
  BY EncodeInvariant, PTL DEF EncodeInv
=============================================================================
