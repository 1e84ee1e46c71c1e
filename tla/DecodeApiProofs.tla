--------------------------- MODULE DecodeApiProofs ---------------------------
(***************************************************************************)
(* Proofs about DecodeApi, for every decoder and user in Setups: chains of *)
(* any number of filters, packets of any size, any number of frames kept   *)
(* back by the codec and any number of flushes.                            *)
(*                                                                         *)
(* The argument.  What the codec was given, in_pkt and the data of the     *)
(* filters, from the last one to the first, are one increasing sequence of *)
(* units, because bsfs_poll() asks a filter only while every filter behind *)
(* it is empty; the frames the user has, the one on its way and the ones   *)
(* inside the codec are another.  bsfs_poll() answers EAGAIN only when it  *)
(* has passed every filter, so that nothing at all is left and the next    *)
(* packet is taken.  The end of the stream may overtake data in a filter,  *)
(* but not for a user who sends only after EAGAIN: a filter that has seen  *)
(* the end is empty and so are the ones before it.  compat_decode()'s      *)
(* count of consumed units is where in_pkt begins in the user's packet.    *)
(***************************************************************************)
EXTENDS DecodeApi, SequenceTheorems, TLAPS

---------------------------------------------------------------------------
(***************************************************************************)
(* The inductive invariant.                                                *)
(***************************************************************************)
Unit == Nat \ {0}
Rets == {"OK", "ERR", "EAGAIN", "EOF", "EINVAL", "BUG"}
Locations == {"idle", "send", "sent", "receive", "crop", "received", "simple", "poll", "decode",
              "left", "finish"}
Bsf == [eof : BOOLEAN, buffer_pkt : Seq(Unit), split : Seq(Unit)]
Calls == [op : {"none", "send", "receive"}, idx : Nat, pkt : Seq(Unit), frame : Nat,
          ret : Rets, got : BOOLEAN, eos : BOOLEAN]
Answers == [op : {"none", "send", "receive", "compat"}, ret : Rets, eos : BOOLEAN, n : Nat,
            size : Nat, got : BOOLEAN]
Histories == [base : Nat, sent : Nat, fed : Seq(Unit), made : Seq(Unit), out : Seq(Unit),
              lost : SUBSET Nat, eos : BOOLEAN, drains : Nat, flushes : Nat, err : BOOLEAN]

DecodeTypeOK ==
  /\ setup \in Setups
  /\ bsf \in [1..NbBsfs -> Bsf]
  /\ in_pkt \in Seq(Unit) /\ buffer_frame \in Nat
  /\ draining \in BOOLEAN /\ draining_done \in BOOLEAN
  /\ consumed \in Nat /\ partial_size \in Nat
  /\ held \in Seq(Unit) /\ rest \in Seq(Unit)
  /\ pc \in Locations /\ call \in Calls
  /\ last \in Answers \X Answers
  /\ h \in Histories

(* The filters from i on have nothing; nothing at all is on its way to the *)
(* codec, and none of the filters has seen the end.                        *)
FreshFrom(i) == \A j \in 1..NbBsfs : j >= i => bsf[j] = FreshBsf
Ready == FreshFrom(1) /\ in_pkt = NoPacket /\ ~draining

InDecoder == {"simple", "poll", "decode", "left"}

(* The frame on its way to the caller. *)
Frame == IF pc \in {"left", "crop", "received"} THEN call.frame ELSE NoFrame

(* Where a call may be, and what it knows there. *)
CallInv ==
  /\ pc = "idle" => call = NoCall
  /\ pc \in InDecoder => call.op # "none"
  /\ pc \in {"crop", "received"} => call.op = "receive"
  /\ pc \in {"simple", "poll", "decode"} => call.frame = NoFrame
  /\ pc \in {"left", "crop", "received"} => (call.ret = "OK" <=> call.frame # NoFrame)
  /\ pc = "left" => call.ret \in {"OK", "ERR", "EAGAIN", "EOF"}
  /\ pc = "crop" => call.ret = "OK"
  /\ pc \in InDecoder \union {"crop", "received"} => buffer_frame = NoFrame
  /\ pc = "finish" /\ call.ret = "OK" => buffer_frame = NoFrame
  /\ pc = "poll" => /\ in_pkt = NoPacket /\ ~draining
                    /\ call.idx \in 1..NbBsfs /\ FreshFrom(call.idx + 1)
  /\ pc = "decode" => in_pkt # NoPacket \/ draining
  /\ call.eos => h.eos
  /\ rest # NoPacket => partial_size = Len(rest)

(* The end of the stream: what is behind it. *)
DrainInv ==
  /\ draining => in_pkt = NoPacket
  /\ draining => bsf[NbBsfs].eof
  /\ draining_done => draining /\ held = <<>>
  /\ ~Delay => held = <<>>
  /\ h.drains = 0 \/ (h.drains = 1 /\ draining_done)
  /\ \A i \in 1..NbBsfs : Bsfs[i] = "null" => bsf[i].split = <<>>
  /\ h.eos <=> bsf[1].eof
  /\ pc = "left" /\ call.ret = "EOF" => draining /\ held = <<>>

(* The last answer of the new API promises that the next packet is taken. *)
Asked == last[2].op = "none" \/ (last[2].op = "receive" /\ last[2].ret = "EAGAIN")

AnswerInv ==
  /\ pc \in {"left", "received"} /\ call.ret = "EAGAIN" => Ready
  /\ DrainEndsOnce /\ ReadyAccepts
  /\ Api = "compat" => last[1].op \in {"none", "compat"} /\ last[2].op \in {"none", "compat"}
  /\ Api = "new" =>
       /\ pc # "finish" /\ last[2].op # "compat"
       /\ pc \in {"idle", "send"} /\ Asked => Ready
       /\ pc = "sent" /\ Asked => call.ret \in {"OK", "ERR"}
       /\ Loop /\ (pc \in {"send", "sent"} \/ (pc \in InDecoder /\ call.op = "send")) => Asked

(* Units on their way to the codec. *)
Data(i) == ToSet(bsf[i].split) \union ToSet(bsf[i].buffer_pkt)
AllData == UNION {Data(i) : i \in 1..NbBsfs}
SentUnits == (h.base + 1)..(h.base + h.sent)
Before(A, B) == \A x \in A, y \in B : x < y

UnitOrder ==
  /\ Increasing(h.fed) /\ Increasing(in_pkt)
  /\ Before(ToSet(h.fed), ToSet(in_pkt))
  /\ \A i \in 1..NbBsfs :
       /\ Increasing(bsf[i].split) /\ Increasing(bsf[i].buffer_pkt)
       /\ Before(ToSet(bsf[i].split), ToSet(bsf[i].buffer_pkt))
       /\ Before(ToSet(h.fed) \union ToSet(in_pkt), Data(i))
       /\ Data(i) \subseteq SentUnits
       /\ \A j \in 1..NbBsfs : i < j => Before(Data(j), Data(i))
  /\ ToSet(h.fed) \union ToSet(in_pkt) \subseteq SentUnits
  /\ pc = "send" => /\ Increasing(call.pkt)
                    /\ ToSet(call.pkt) = (h.base + h.sent + 1)..(h.base + h.sent + Len(call.pkt))

UnitsAccounted == SentUnits \subseteq ToSet(h.fed) \union h.lost \union ToSet(in_pkt) \union AllData

(* Frames on their way to the user. *)
Pending == {Frame, buffer_frame} \ {NoFrame}

FrameOrder ==
  /\ Increasing(h.out) /\ Increasing(held)
  /\ Before(ToSet(h.out), Pending \union ToSet(held)) /\ Before(Pending, ToSet(held))
  /\ ToSet(h.out) \union Pending \union ToSet(held) \subseteq ToSet(h.fed)

FramesAccounted == ToSet(h.made) \subseteq ToSet(h.out) \union h.lost \union Pending \union ToSet(held)

(* The user of the recommended loop does not overtake data with the end. *)
NoData(i) == bsf[i].split = <<>> /\ bsf[i].buffer_pkt = NoPacket
Ended ==
  /\ draining_done /\ in_pkt = NoPacket /\ held = <<>> /\ Pending = {}
  /\ \A i \in 1..NbBsfs : NoData(i)

LoopInv ==
  Loop /\ Api = "new" =>
    /\ \A i, j \in 1..NbBsfs : bsf[i].eof /\ j <= i => NoData(j)
    /\ pc = "received" /\ call.ret = "EOF" => Ended
    /\ last[2].op = "receive" /\ last[2].ret = "EOF" => Ended

(* compat_decode() without filters, nothing flushed and no call failed. *)
Regular ==
  /\ Api = "compat" /\ ~HasBsfs /\ ~h.err /\ h.flushes = 0
  /\ pc \in {"left", "sent", "received", "finish"} => call.ret \in {"OK", "EAGAIN", "EOF"}

SyncInv ==
  Regular =>
    /\ pc \in {"simple", "poll"} \/ bsf[1].buffer_pkt = NoPacket
    /\ bsf[1].eof => call.pkt = NoPacket /\ rest = NoPacket /\ bsf[1].buffer_pkt = NoPacket
    /\ pc = "idle" => in_pkt = rest /\ consumed = 0 /\ buffer_frame = NoFrame /\ partial_size = Len(rest)
    /\ pc = "send" => in_pkt = NoPacket /\ consumed = 0 /\ buffer_frame = NoFrame /\ rest = NoPacket
    /\ pc \notin {"idle", "send"} =>
         /\ consumed <= Len(call.pkt)
         /\ IF bsf[1].buffer_pkt = NoPacket
            THEN in_pkt = SubSeq(call.pkt, consumed + 1, Len(call.pkt))
            ELSE bsf[1].buffer_pkt = call.pkt /\ in_pkt = NoPacket /\ consumed = 0

DecodeInv ==
  /\ DecodeTypeOK /\ CallInv /\ DrainInv /\ AnswerInv /\ UnitOrder /\ UnitsAccounted
  /\ FrameOrder /\ FramesAccounted /\ LoopInv /\ SyncInv

---------------------------------------------------------------------------
(***************************************************************************)
(* Records: what an assignment to some of their fields leaves alone.       *)
(***************************************************************************)

(* Something is lost with an error. *)
LEMMA HistoryLost ==
  ASSUME NEW g \in Histories, NEW L \in SUBSET Nat, NEW k, k = [g EXCEPT !.lost = L]
  PROVE  /\ k \in Histories /\ k.lost = L
         /\ k.base = g.base /\ k.sent = g.sent /\ k.fed = g.fed /\ k.made = g.made
         /\ k.out = g.out /\ k.eos = g.eos /\ k.drains = g.drains /\ k.flushes = g.flushes
         /\ k.err = g.err
  BY DEF Histories

LEMMA HistoryFields ==
  ASSUME NEW g \in Histories
  PROVE  /\ g.base \in Nat /\ g.sent \in Nat /\ g.drains \in Nat /\ g.flushes \in Nat
         /\ g.fed \in Seq(Unit) /\ g.made \in Seq(Unit) /\ g.out \in Seq(Unit)
         /\ g.lost \in SUBSET Nat /\ g.eos \in BOOLEAN /\ g.err \in BOOLEAN
  BY DEF Histories

LEMMA CallFields ==
  ASSUME NEW c \in Calls
  PROVE  /\ c.op \in {"none", "send", "receive"} /\ c.idx \in Nat /\ c.pkt \in Seq(Unit)
         /\ c.frame \in Nat /\ c.ret \in Rets /\ c.got \in BOOLEAN /\ c.eos \in BOOLEAN
  BY DEF Calls

(* A call gets its result. *)
LEMMA CallRet ==
  ASSUME NEW c \in Calls, NEW r \in Rets, NEW d, d = [c EXCEPT !.ret = r]
  PROVE  /\ d \in Calls /\ d.ret = r /\ d.op = c.op /\ d.idx = c.idx /\ d.pkt = c.pkt
         /\ d.frame = c.frame /\ d.got = c.got /\ d.eos = c.eos
  BY DEF Calls

LEMMA CallIdx ==
  ASSUME NEW c \in Calls, NEW i \in Nat, NEW d, d = [c EXCEPT !.idx = i]
  PROVE  /\ d \in Calls /\ d.idx = i /\ d.op = c.op /\ d.pkt = c.pkt /\ d.frame = c.frame
         /\ d.ret = c.ret /\ d.got = c.got /\ d.eos = c.eos
  BY DEF Calls

(* The fields of a filter. *)
LEMMA FilterFields ==
  ASSUME NEW m \in Nat, NEW b \in [1..m -> Bsf], NEW i \in 1..m
  PROVE  b[i].eof \in BOOLEAN /\ b[i].buffer_pkt \in Seq(Unit) /\ b[i].split \in Seq(Unit)
  BY DEF Bsf

(* A filter is the sum of its fields. *)
LEMMA FilterIsFresh ==
  ASSUME NEW b \in Bsf, ~b.eof, b.buffer_pkt = <<>>, b.split = <<>>
  PROVE  b = FreshBsf
  BY DEF Bsf, FreshBsf, NoPacket

LEMMA FreshFields ==
  /\ FreshBsf \in Bsf /\ FreshBsf.eof = FALSE
  /\ FreshBsf.buffer_pkt = <<>> /\ FreshBsf.split = <<>>
  BY DEF Bsf, FreshBsf, NoPacket

LEMMA NoCallFields ==
  /\ NoCall \in Calls /\ NoCall.op = "none" /\ NoCall.pkt = <<>> /\ NoCall.frame = 0
  /\ NoCall.ret = "OK" /\ NoCall.got = FALSE /\ NoCall.eos = FALSE
  BY DEF NoCall, Calls, NoPacket, NoFrame, Rets

LEMMA NbBsfsNat ==
  ASSUME DecodeTypeOK
  PROVE  /\ NbBsfs \in Nat /\ NbBsfs >= 1
         /\ \A i \in 1..NbBsfs : Bsfs[i] \in {"null", "split"}
         /\ Video \in BOOLEAN /\ Delay \in BOOLEAN /\ Loop \in BOOLEAN
  BY SetupsAssumption DEF DecodeTypeOK, NbBsfs, Bsfs, Video, Delay, Loop

---------------------------------------------------------------------------
(***************************************************************************)
(* Sequences of units.                                                     *)
(***************************************************************************)
LEMMA EmptyFacts ==
  /\ <<>> \in Seq(Unit) /\ ToSet(<<>>) = {} /\ Increasing(<<>>) /\ Len(<<>>) = 0
  BY DEF ToSet, Increasing

LEMMA ToSetFacts ==
  ASSUME NEW s \in Seq(Unit)
  PROVE  ToSet(s) \subseteq Unit /\ (ToSet(s) = {} <=> s = <<>>)
<1>1. /\ Len(s) \in Nat /\ DOMAIN s = 1..Len(s) /\ \A i \in 1..Len(s) : s[i] \in Unit
      /\ s = <<>> <=> Len(s) = 0
  OBVIOUS
<1>2. ASSUME s # <<>> PROVE ToSet(s) # {}
  <2>1. 1 \in DOMAIN s
    BY <1>1, <1>2
  <2> QED
    BY <2>1 DEF ToSet
<1> QED
  BY <1>1, <1>2, EmptyFacts DEF ToSet

(* Two sequences one after the other. *)
LEMMA ConcatFacts ==
  ASSUME NEW s \in Seq(Unit), NEW t \in Seq(Unit)
  PROVE  /\ s \o t \in Seq(Unit) /\ ToSet(s \o t) = ToSet(s) \union ToSet(t)
         /\ Increasing(s) /\ Increasing(t) /\ Before(ToSet(s), ToSet(t)) => Increasing(s \o t)
<1> DEFINE m == Len(s)  n == Len(t)  u == s \o t
<1>1. /\ m \in Nat /\ n \in Nat /\ DOMAIN s = 1..m /\ DOMAIN t = 1..n /\ DOMAIN u = 1..(m + n)
      /\ u \in Seq(Unit) /\ (\A i \in 1..m : s[i] \in Unit) /\ (\A i \in 1..n : t[i] \in Unit)
      /\ \A i \in 1..m : u[i] = s[i]
  OBVIOUS
<1>2. \A i \in 1..n : m + i \in 1..(m + n) /\ u[m + i] = t[i]
  OBVIOUS
<1>3. ASSUME NEW i \in 1..(m + n) PROVE i \in 1..m \/ (i - m \in 1..n /\ u[i] = t[i - m])
  <2>1. CASE i <= m
    BY <1>1, <2>1
  <2>2. CASE i > m
    <3>1. i - m \in 1..n /\ m + (i - m) = i
      BY <1>1, <2>2
    <3> QED
      BY <1>2, <3>1
  <2> QED
    BY <1>1, <2>1, <2>2
<1> HIDE DEF m, n, u
<1>4. ToSet(u) = ToSet(s) \union ToSet(t)
  <2>1. ASSUME NEW i \in 1..(m + n) PROVE u[i] \in ToSet(s) \union ToSet(t)
    BY <1>1, <1>3 DEF ToSet
  <2>2. ASSUME NEW i \in 1..m PROVE s[i] \in ToSet(u)
    <3>1. i \in 1..(m + n)
      BY <1>1
    <3> QED
      BY <1>1, <3>1 DEF ToSet
  <2>3. ASSUME NEW i \in 1..n PROVE t[i] \in ToSet(u)
    BY <1>1, <1>2 DEF ToSet
  <2> QED
    BY <1>1, <2>1, <2>2, <2>3 DEF ToSet
<1>5. ASSUME Increasing(s), Increasing(t), Before(ToSet(s), ToSet(t)),
             NEW i \in 1..(m + n), NEW j \in 1..(m + n), i < j
      PROVE  u[i] < u[j]
  <2>1. CASE i \in 1..m /\ j \in 1..m
    BY <1>1, <1>5, <2>1 DEF Increasing
  <2>2. CASE i \in 1..m /\ j \notin 1..m
    BY <1>1, <1>3, <1>5, <2>2 DEF Before, ToSet
  <2>3. CASE i \notin 1..m /\ j \in 1..m
    BY <1>1, <1>5, <2>3
  <2>4. CASE i \notin 1..m /\ j \notin 1..m
    <3>1. /\ i - m \in 1..n /\ j - m \in 1..n /\ i - m < j - m
          /\ u[i] = t[i - m] /\ u[j] = t[j - m]
      BY <1>1, <1>3, <1>5, <2>4
    <3> QED
      BY <1>1, <1>5, <3>1 DEF Increasing
  <2> QED
    BY <2>1, <2>2, <2>3, <2>4
<1> QED
  BY <1>1, <1>4, <1>5 DEF Increasing, u

(* A sequence cut after k elements. *)
LEMMA CutFacts ==
  ASSUME NEW s \in Seq(Unit), NEW k \in 0..Len(s)
  PROVE  /\ SubSeq(s, 1, k) \in Seq(Unit) /\ SubSeq(s, k + 1, Len(s)) \in Seq(Unit)
         /\ ToSet(s) = ToSet(SubSeq(s, 1, k)) \union ToSet(SubSeq(s, k + 1, Len(s)))
         /\ k >= 1 => s[k] \in Unit /\ s[k] \in ToSet(SubSeq(s, 1, k))
         /\ k = Len(s) => SubSeq(s, k + 1, Len(s)) = <<>>
         /\ Increasing(s) =>
              /\ Increasing(SubSeq(s, 1, k)) /\ Increasing(SubSeq(s, k + 1, Len(s)))
              /\ Before(ToSet(SubSeq(s, 1, k)), ToSet(SubSeq(s, k + 1, Len(s))))
<1> DEFINE n == Len(s)  p == SubSeq(s, 1, k)  q == SubSeq(s, k + 1, n)
<1>1. /\ n \in Nat /\ DOMAIN s = 1..n /\ \A i \in 1..n : s[i] \in Unit
      /\ p \in Seq(Unit) /\ Len(p) = k /\ DOMAIN p = 1..k
      /\ \A i \in 1..k : p[i] = s[i]
  OBVIOUS
<1>2. /\ q \in Seq(Unit) /\ Len(q) = n - k /\ DOMAIN q = 1..(n - k)
      /\ \A i \in 1..(n - k) : i + k \in 1..n /\ q[i] = s[i + k]
  OBVIOUS
<1>3. k = n => q = <<>>
  BY <1>2
<1> HIDE DEF n, p, q
<1>4. k \in Nat /\ k <= n
  BY <1>1 DEF n
<1>5. ASSUME NEW i \in 1..n PROVE s[i] \in ToSet(p) \union ToSet(q)
  <2>1. CASE i <= k
    BY <1>1, <1>4, <2>1 DEF ToSet
  <2>2. CASE i > k
    <3>1. i - k \in 1..(n - k) /\ (i - k) + k = i
      BY <1>1, <1>4, <2>2
    <3> QED
      BY <1>2, <3>1 DEF ToSet
  <2> QED
    BY <1>1, <1>4, <2>1, <2>2
<1>6. ToSet(s) = ToSet(p) \union ToSet(q)
  <2>1. ASSUME NEW i \in 1..k PROVE p[i] \in ToSet(s)
    <3>1. i \in 1..n
      BY <1>1, <1>4
    <3> QED
      BY <1>1, <3>1 DEF ToSet
  <2>2. ASSUME NEW i \in 1..(n - k) PROVE q[i] \in ToSet(s)
    BY <1>1, <1>2 DEF ToSet
  <2>3. ToSet(p) \subseteq ToSet(s) /\ ToSet(q) \subseteq ToSet(s)
    BY <1>1, <1>2, <2>1, <2>2 DEF ToSet
  <2>4. ToSet(s) \subseteq ToSet(p) \union ToSet(q)
    BY <1>1, <1>5 DEF ToSet
  <2> QED
    BY <2>3, <2>4
<1>7. ASSUME k >= 1 PROVE s[k] \in Unit /\ s[k] \in ToSet(p)
  <2>1. k \in 1..k /\ k \in 1..n
    BY <1>4, <1>7
  <2> QED
    BY <1>1, <2>1 DEF ToSet
<1>8. ASSUME Increasing(s)
      PROVE  Increasing(p) /\ Increasing(q) /\ Before(ToSet(p), ToSet(q))
  <2>1. ASSUME NEW i \in 1..k, NEW j \in 1..k, i < j PROVE p[i] < p[j]
    <3>1. i \in 1..n /\ j \in 1..n
      BY <1>1, <1>4
    <3> QED
      BY <1>1, <1>8, <2>1, <3>1 DEF Increasing
  <2>2. ASSUME NEW i \in 1..(n - k), NEW j \in 1..(n - k), i < j PROVE q[i] < q[j]
    <3>1. i + k < j + k
      BY <1>1, <1>4, <2>2
    <3> QED
      BY <1>1, <1>2, <1>8, <3>1 DEF Increasing
  <2>3. ASSUME NEW i \in 1..k, NEW j \in 1..(n - k) PROVE p[i] < q[j]
    <3>1. i \in 1..n /\ i < j + k
      BY <1>1, <1>4
    <3> QED
      BY <1>1, <1>2, <1>8, <3>1 DEF Increasing
  <2> QED
    BY <1>1, <1>2, <2>1, <2>2, <2>3 DEF Increasing, Before, ToSet
<1> QED
  BY <1>1, <1>2, <1>3, <1>6, <1>7, <1>8 DEF n, p, q

(* What is left of what is left. *)
LEMMA CutTwice ==
  ASSUME NEW s \in Seq(Unit), NEW c \in 0..Len(s), NEW t, t = SubSeq(s, c + 1, Len(s)),
         NEW k \in 0..Len(t)
  PROVE  /\ Len(t) = Len(s) - c /\ c + k \in 0..Len(s)
         /\ SubSeq(t, k + 1, Len(t)) = SubSeq(s, c + k + 1, Len(s))
<1>1. /\ t \in Seq(Unit) /\ Len(t) = Len(s) - c /\ Len(s) \in Nat
      /\ \A i \in 1..Len(t) : t[i] = s[i + c]
  OBVIOUS
<1>2. c + k \in 0..Len(s)
  BY <1>1
<1> DEFINE p == SubSeq(t, k + 1, Len(t))  q == SubSeq(s, c + k + 1, Len(s))
<1>3. p \in Seq(Unit) /\ Len(p) = Len(t) - k /\ \A i \in 1..Len(p) : p[i] = t[i + k]
  BY <1>1
<1>4. q \in Seq(Unit) /\ Len(q) = Len(s) - (c + k) /\ \A i \in 1..Len(q) : q[i] = s[i + (c + k)]
  BY <1>2
<1> HIDE DEF p, q
<1>5. Len(p) = Len(q)
  BY <1>1, <1>3, <1>4
<1>6. ASSUME NEW i \in 1..Len(p) PROVE p[i] = q[i]
  <2>1. i + k \in 1..Len(t) /\ (i + k) + c = i + (c + k)
    BY <1>1, <1>3
  <2> QED
    BY <1>1, <1>3, <1>4, <1>5, <2>1
<1>7. p = q
  BY <1>3, <1>4, <1>5, <1>6, SeqEqual
<1> QED
  BY <1>1, <1>2, <1>7 DEF p, q

(* A sequence without its first element. *)
LEMMA TailFacts ==
  ASSUME NEW s \in Seq(Unit), s # <<>>
  PROVE  /\ Head(s) \in Unit /\ Tail(s) \in Seq(Unit) /\ <<Head(s)>> \in Seq(Unit)
         /\ <<Head(s)>> # <<>> /\ ToSet(<<Head(s)>>) = {Head(s)} /\ Increasing(<<Head(s)>>)
         /\ ToSet(s) = {Head(s)} \union ToSet(Tail(s))
         /\ Increasing(s) => Increasing(Tail(s)) /\ Before({Head(s)}, ToSet(Tail(s)))
<1>1. /\ 1 \in 0..Len(s) /\ Tail(s) = SubSeq(s, 2, Len(s)) /\ Head(s) = s[1]
      /\ Head(s) \in Unit /\ Len(s) \in Nat /\ Len(s) >= 1
  OBVIOUS
<1>2. SubSeq(s, 1, 1) = <<Head(s)>>
  <2> DEFINE p == SubSeq(s, 1, 1)  q == <<Head(s)>>
  <2>1. p \in Seq(Unit) /\ Len(p) = 1 /\ p[1] = s[1]
    BY <1>1
  <2>2. q \in Seq(Unit) /\ Len(q) = 1 /\ q[1] = s[1]
    BY <1>1
  <2> HIDE DEF p, q
  <2>3. p = q
    BY <2>1, <2>2, SeqEqual
  <2> QED
    BY <2>3 DEF p, q
<1>3. /\ <<Head(s)>> \in Seq(Unit) /\ <<Head(s)>> # <<>> /\ ToSet(<<Head(s)>>) = {Head(s)}
      /\ Increasing(<<Head(s)>>)
  BY <1>1 DEF ToSet, Increasing
<1>4. SubSeq(s, 1 + 1, Len(s)) = Tail(s)
  BY <1>1
<1>5. /\ ToSet(s) = ToSet(<<Head(s)>>) \union ToSet(Tail(s)) /\ Tail(s) \in Seq(Unit)
      /\ Increasing(s) => Increasing(Tail(s)) /\ Before(ToSet(<<Head(s)>>), ToSet(Tail(s)))
  BY <1>1, <1>2, <1>4, CutFacts, ZenonT(60)
<1> QED
  BY <1>1, <1>3, <1>5

(* A frame is added at the end. *)
LEMMA AppendFacts ==
  ASSUME NEW s \in Seq(Unit), NEW x \in Unit
  PROVE  /\ Append(s, x) \in Seq(Unit) /\ Append(s, x) = s \o <<x>>
         /\ ToSet(Append(s, x)) = ToSet(s) \union {x}
         /\ Increasing(s) /\ Before(ToSet(s), {x}) => Increasing(Append(s, x))
<1>1. <<x>> \in Seq(Unit) /\ ToSet(<<x>>) = {x} /\ Increasing(<<x>>)
  BY DEF ToSet, Increasing
<1>2. Append(s, x) = s \o <<x>>
  OBVIOUS
<1> QED
  BY <1>1, <1>2, ConcatFacts

---------------------------------------------------------------------------
(***************************************************************************)
(* Steps that move no data: what they must keep.                           *)
(***************************************************************************)
LEMMA UnitsQuiet ==
  ASSUME UnitOrder, UnitsAccounted, UNCHANGED <<setup, bsf, in_pkt>>, pc' # "send",
         h'.fed = h.fed, h'.base = h.base, h'.sent = h.sent, h.lost \subseteq h'.lost
  PROVE  UnitOrder' /\ UnitsAccounted'
<1>1. NbBsfs' = NbBsfs /\ SentUnits' = SentUnits /\ AllData' = AllData
      /\ \A i \in 1..NbBsfs : Data(i)' = Data(i)
  BY DEF NbBsfs, Bsfs, SentUnits, AllData, Data
<1>2. UnitOrder'
  BY <1>1 DEF UnitOrder
<1>3. UnitsAccounted'
  BY <1>1 DEF UnitsAccounted
<1> QED
  BY <1>2, <1>3

(* A frame on its way may be lost. *)
LEMMA FramesQuiet ==
  ASSUME FrameOrder, FramesAccounted, h'.out = h.out, h'.made = h.made, held' = held,
         Pending' \subseteq Pending, Pending \subseteq Pending' \union h'.lost,
         ToSet(h.fed) \subseteq ToSet(h'.fed), h.lost \subseteq h'.lost
  PROVE  FrameOrder' /\ FramesAccounted'
<1>1. FrameOrder'
  <2> USE DEF FrameOrder
  <2>1. Increasing(h.out)' /\ Increasing(held)'
    BY DEF Increasing
  <2>2. Before(ToSet(h.out), Pending \union ToSet(held))' /\ Before(Pending, ToSet(held))'
    BY DEF Before
  <2>3. (ToSet(h.out) \union Pending \union ToSet(held) \subseteq ToSet(h.fed))'
    OBVIOUS
  <2> QED
    BY <2>1, <2>2, <2>3
<1>2. FramesAccounted'
  BY DEF FramesAccounted
<1> QED
  BY <1>1, <1>2

LEMMA SetupQuiet ==
  ASSUME DecodeTypeOK, UNCHANGED setup
  PROVE  /\ NbBsfs' = NbBsfs /\ Bsfs' = Bsfs /\ Video' = Video /\ Delay' = Delay /\ Api' = Api
         /\ Loop' = Loop /\ HasBsfs' = HasBsfs /\ MaxSent' = MaxSent
         /\ NbBsfs \in Nat /\ NbBsfs >= 1 /\ 1 \in 1..NbBsfs /\ NbBsfs \in 1..NbBsfs
         /\ HasBsfs \in BOOLEAN /\ (~HasBsfs => NbBsfs = 1 /\ Bsfs[1] = "null")
<1>1. ~HasBsfs => NbBsfs = 1 /\ Bsfs[1] = "null"
  BY DEF HasBsfs, NbBsfs
<1> QED
  BY <1>1, NbBsfsNat DEF NbBsfs, Bsfs, Video, Delay, Api, Loop, HasBsfs, MaxSent

(* FreshFrom and Ready look at the filters, in_pkt and draining only. *)
LEMMA ReadyQuiet ==
  ASSUME UNCHANGED <<setup, bsf, in_pkt, draining>>
  PROVE  Ready' = Ready /\ \A i \in Nat : FreshFrom(i)' = FreshFrom(i)
  BY DEF Ready, FreshFrom, NbBsfs, Bsfs

---------------------------------------------------------------------------
(***************************************************************************)
(* avcodec_send_packet() and avcodec_receive_frame().                      *)
(***************************************************************************)
LEMMA SendRejectedStep ==
  ASSUME DecodeInv, SendRejected, UNCHANGED setup
  PROVE  DecodeInv'
<1> USE DEF DecodeInv
<1>1. /\ pc = "send" /\ pc' = "sent" /\ call \in Calls /\ call' \in Calls
      /\ call'.op = call.op /\ call'.pkt = call.pkt /\ call'.frame = call.frame
      /\ call'.eos = call.eos /\ call'.got = call.got
      /\ call'.ret \in {"EOF", "EINVAL", "EAGAIN", "ERR"}
      /\ call'.ret = "EOF" => draining
      /\ call'.ret = "EINVAL" => ~draining /\ bsf[1].eof /\ call.pkt # NoPacket
      /\ call'.ret = "EAGAIN" => ~draining /\ ~bsf[1].eof /\ bsf[1].buffer_pkt # NoPacket
      /\ UNCHANGED <<setup, bsf, in_pkt, buffer_frame, draining, draining_done, consumed,
                     partial_size, held, rest, last, h>>
  <2> DEFINE r == IF draining THEN "EOF" ELSE BsfSendRet(1, call.pkt)
  <2>1. /\ r \in {"OK", "EOF", "EINVAL", "EAGAIN"} /\ (r = "EOF" => draining)
        /\ r = "EINVAL" => ~draining /\ bsf[1].eof /\ call.pkt # NoPacket
        /\ r = "EAGAIN" => ~draining /\ ~bsf[1].eof /\ bsf[1].buffer_pkt # NoPacket
    BY DEF BsfSendRet
  <2>2. PICK q \in {"EOF", "EINVAL", "EAGAIN", "ERR"} :
          call' = [call EXCEPT !.ret = q] /\ (q = r \/ q = "ERR")
    BY <2>1 DEF SendRejected
  <2>3. call \in Calls /\ q \in Rets
    BY DEF DecodeTypeOK, Rets
  <2> HIDE DEF r
  <2>4. /\ call' \in Calls /\ call'.ret = q /\ call'.op = call.op /\ call'.pkt = call.pkt
        /\ call'.frame = call.frame /\ call'.got = call.got /\ call'.eos = call.eos
    BY <2>2, <2>3, CallRet
  <2> QED
    BY <2>1, <2>2, <2>3, <2>4 DEF SendRejected
<1>2. DecodeTypeOK'
  BY <1>1, SetupQuiet DEF DecodeTypeOK, Locations
<1>3. CallInv'
  BY <1>1, ReadyQuiet DEF CallInv, InDecoder
<1>4. DrainInv'
  BY <1>1, SetupQuiet DEF DrainInv
<1>5. AnswerInv'
  <2>1. ASSUME Api = "new", Asked PROVE call'.ret = "ERR"
    <3>1. bsf[1] = FreshBsf /\ ~draining
      BY <1>1, <2>1, SetupQuiet DEF AnswerInv, Ready, FreshFrom
    <3> QED
      BY <1>1, <3>1, FreshFields DEF NoPacket
  <2> QED
    BY <1>1, <2>1, SetupQuiet, ReadyQuiet
    DEF AnswerInv, Asked, DrainEndsOnce, ReadyAccepts, InDecoder
<1>6. UnitOrder' /\ UnitsAccounted'
  BY <1>1, UnitsQuiet
<1>7. FrameOrder' /\ FramesAccounted'
  <2>1. Pending' = Pending
    BY <1>1 DEF Pending, Frame
  <2> QED
    BY <1>1, <2>1, FramesQuiet
<1>8. LoopInv'
  <2>1. Pending' = Pending
    BY <1>1 DEF Pending, Frame
  <2> QED
    BY <1>1, <2>1, SetupQuiet DEF LoopInv, NoData, Ended
<1>9. SyncInv'
  <2>1. SUFFICES ASSUME Regular' PROVE SyncInv'
    BY DEF SyncInv
  <2>2. Regular
    BY <1>1, <2>1, SetupQuiet DEF Regular
  <2>3. bsf[1].buffer_pkt = NoPacket /\ in_pkt = NoPacket /\ consumed = 0 /\ buffer_frame = NoFrame
    BY <1>1, <2>2 DEF SyncInv
  <2>4. call'.ret = "EOF" /\ bsf[1].eof
    BY <1>1, <2>1, <2>3, SetupQuiet DEF Regular, DrainInv
  <2>5. call.pkt = NoPacket /\ rest = NoPacket
    BY <2>2, <2>4 DEF SyncInv
  <2> QED
    BY <1>1, <2>3, <2>4, <2>5, EmptyFacts DEF SyncInv, NoPacket
<1> QED
  BY <1>2, <1>3, <1>4, <1>5, <1>6, <1>7, <1>8, <1>9

(* The packet enters the first filter, behind all that is on its way. *)
LEMMA SendAcceptedStep ==
  ASSUME DecodeInv, SendAccepted, UNCHANGED setup
  PROVE  DecodeInv'
<1> USE DEF DecodeInv
<1>1. /\ NbBsfs \in Nat /\ NbBsfs' = NbBsfs /\ 1 \in 1..NbBsfs /\ bsf \in [1..NbBsfs -> Bsf]
      /\ call \in Calls /\ h \in Histories /\ call.pkt \in Seq(Unit)
      /\ Len(call.pkt) \in Nat /\ h.sent \in Nat /\ h.base \in Nat
  BY SetupQuiet, CallFields, HistoryFields DEF DecodeTypeOK
<1>2. /\ pc = "send" /\ ~draining /\ BsfSendRet(1, call.pkt) = "OK"
      /\ pc' = IF buffer_frame = NoFrame THEN "simple" ELSE "sent"
      /\ UNCHANGED <<setup, in_pkt, buffer_frame, draining, draining_done, consumed,
                     partial_size, held, rest, last>>
  BY DEF SendAccepted
<1>3. /\ call' \in Calls /\ call'.op = "send" /\ call'.ret = "OK" /\ call'.frame = NoFrame
      /\ call'.pkt = call.pkt /\ call'.eos = call.eos /\ call'.got = call.got
  BY <1>1 DEF SendAccepted, NoFrame, Rets, Calls
<1>4. /\ h' \in Histories /\ h'.sent = h.sent + Len(call.pkt) /\ h'.base = h.base
      /\ h'.eos = (h.eos \/ call.pkt = NoPacket) /\ h'.fed = h.fed /\ h'.made = h.made
      /\ h'.out = h.out /\ h'.lost = h.lost /\ h'.drains = h.drains
      /\ h'.flushes = h.flushes /\ h'.err = h.err
  <2> DEFINE n == h.sent + Len(call.pkt)  b == h.eos \/ call.pkt = NoPacket
  <2>1. h' = [h EXCEPT !.sent = n, !.eos = b]
    BY DEF SendAccepted
  <2>2. n \in Nat /\ b \in BOOLEAN
    BY <1>1
  <2> HIDE DEF n, b
  <2>3. /\ h' \in Histories /\ h'.sent = n /\ h'.eos = b /\ h'.base = h.base /\ h'.fed = h.fed
        /\ h'.made = h.made /\ h'.out = h.out /\ h'.lost = h.lost /\ h'.drains = h.drains
        /\ h'.flushes = h.flushes /\ h'.err = h.err
    BY <1>1, <2>1, <2>2 DEF Histories
  <2> QED
    BY <2>3 DEF n, b
<1>5. /\ bsf' \in [1..NbBsfs -> Bsf] /\ \A j \in 1..NbBsfs : j # 1 => bsf'[j] = bsf[j]
      /\ bsf'[1].split = bsf[1].split
      /\ call.pkt = NoPacket => /\ bsf'[1].eof = TRUE
                                /\ bsf'[1].buffer_pkt = bsf[1].buffer_pkt
      /\ call.pkt # NoPacket => /\ bsf'[1].eof = bsf[1].eof /\ bsf[1].eof = FALSE
                                /\ bsf'[1].buffer_pkt = call.pkt /\ bsf[1].buffer_pkt = NoPacket
  <2>1. CASE call.pkt = NoPacket
    <3>1. bsf' = [bsf EXCEPT ![1].eof = TRUE]
      BY <2>1 DEF SendAccepted, BsfSent
    <3> QED
      BY <1>1, <2>1, <3>1 DEF Bsf
  <2>2. CASE call.pkt # NoPacket
    <3>1. bsf[1].eof = FALSE /\ bsf[1].buffer_pkt = NoPacket
      BY <1>1, <1>2, <2>2, FilterFields DEF BsfSendRet
    <3>2. bsf' = [bsf EXCEPT ![1].buffer_pkt = call.pkt]
      BY <2>2 DEF SendAccepted, BsfSent
    <3> QED
      BY <1>1, <2>2, <3>1, <3>2 DEF Bsf
  <2> QED
    BY <2>1, <2>2
<1>6. DecodeTypeOK'
  BY <1>1, <1>2, <1>3, <1>4, <1>5 DEF DecodeTypeOK, Locations
<1>7. CallInv'
  BY <1>2, <1>3, <1>4, <1>5 DEF CallInv, InDecoder
<1>8. DrainInv'
  <2>1. \A i \in 1..NbBsfs : bsf'[i].split = bsf[i].split
    BY <1>5
  <2>2. (h.eos <=> bsf[1].eof)'
    BY <1>4, <1>5 DEF DrainInv
  <2> QED
    BY <1>2, <1>3, <1>4, <2>1, <2>2, SetupQuiet DEF DrainInv
<1>9. AnswerInv'
  BY <1>2, <1>3, <1>4, SetupQuiet
  DEF AnswerInv, Asked, DrainEndsOnce, ReadyAccepts, InDecoder
<1>10. /\ Data(1)' = Data(1) \union ToSet(call.pkt)
       /\ \A i \in 1..NbBsfs : i # 1 => Data(i)' = Data(i)
       /\ ToSet(call.pkt) = (h.base + h.sent + 1)..(h.base + h.sent + Len(call.pkt))
       /\ SentUnits' = SentUnits \union ToSet(call.pkt) /\ SentUnits \subseteq Nat
       /\ Before(SentUnits, ToSet(call.pkt))
  <2>1. Data(1)' = Data(1) \union ToSet(call.pkt)
    BY <1>5, EmptyFacts DEF Data, NoPacket
  <2>2. \A i \in 1..NbBsfs : i # 1 => Data(i)' = Data(i)
    BY <1>5 DEF Data
  <2>3. ToSet(call.pkt) = (h.base + h.sent + 1)..(h.base + h.sent + Len(call.pkt))
    BY <1>2 DEF UnitOrder
  <2>4. SentUnits' = SentUnits \union ToSet(call.pkt) /\ SentUnits \subseteq Nat
        /\ Before(SentUnits, ToSet(call.pkt))
    BY <1>1, <1>4, <2>3 DEF SentUnits, Before
  <2> QED
    BY <2>1, <2>2, <2>3, <2>4
<1>11. UnitOrder'
  <2>1. Increasing(h'.fed) /\ Increasing(in_pkt') /\ Before(ToSet(h'.fed), ToSet(in_pkt'))
        /\ ToSet(h'.fed) \union ToSet(in_pkt') \subseteq SentUnits'
    BY <1>2, <1>4, <1>10 DEF UnitOrder
  <2>2. ASSUME NEW i \in 1..NbBsfs
        PROVE  /\ Increasing(bsf'[i].split) /\ Increasing(bsf'[i].buffer_pkt)
               /\ Before(ToSet(bsf'[i].split), ToSet(bsf'[i].buffer_pkt))
    <3>1. CASE i # 1
      BY <1>5, <3>1 DEF UnitOrder
    <3>2. CASE call.pkt = NoPacket
      BY <1>5, <3>1, <3>2 DEF UnitOrder
    <3>3. CASE i = 1 /\ call.pkt # NoPacket
      <4>1. Increasing(call.pkt) /\ ToSet(bsf[1].split) \subseteq SentUnits
        BY <1>1, <1>2 DEF UnitOrder, Data
      <4> QED
        BY <1>1, <1>5, <1>10, <3>3, <4>1 DEF UnitOrder, Before
    <3> QED
      BY <3>1, <3>2, <3>3
  <2>3. ASSUME NEW i \in 1..NbBsfs
        PROVE  /\ Before(ToSet(h'.fed) \union ToSet(in_pkt'), Data(i)')
               /\ Data(i)' \subseteq SentUnits'
    <3>1. /\ Before(ToSet(h.fed) \union ToSet(in_pkt), Data(i)) /\ Data(i) \subseteq SentUnits
          /\ ToSet(h.fed) \union ToSet(in_pkt) \subseteq SentUnits
      BY DEF UnitOrder
    <3>2. Data(i)' = Data(i) \/ Data(i)' = Data(i) \union ToSet(call.pkt)
      BY <1>10
    <3> QED
      BY <1>2, <1>4, <1>10, <3>1, <3>2 DEF Before
  <2>4. ASSUME NEW i \in 1..NbBsfs, NEW j \in 1..NbBsfs, i < j PROVE Before(Data(j), Data(i))'
    <3>1. Before(Data(j), Data(i)) /\ Data(j) \subseteq SentUnits
      BY <2>4 DEF UnitOrder
    <3>2. /\ Data(j)' = Data(j)
          /\ Data(i)' = Data(i) \/ Data(i)' = Data(i) \union ToSet(call.pkt)
      BY <1>1, <1>10, <2>4
    <3> QED
      BY <1>10, <3>1, <3>2 DEF Before
  <2>5. pc' # "send"
    BY <1>2
  <2> QED
    BY <1>1, <2>1, <2>2, <2>3, <2>4, <2>5 DEF UnitOrder
<1>12. UnitsAccounted'
  <2>1. AllData \union ToSet(call.pkt) \subseteq AllData'
    BY <1>1, <1>10 DEF AllData
  <2> QED
    BY <1>2, <1>4, <1>10, <2>1 DEF UnitsAccounted
<1>13. Pending' = Pending
  BY <1>2 DEF Pending, Frame
<1>14. FrameOrder' /\ FramesAccounted'
  BY <1>2, <1>4, <1>13, FramesQuiet
<1>15. LoopInv'
  <2>1. SUFFICES ASSUME Loop, Api = "new" PROVE LoopInv'
    BY SetupQuiet DEF LoopInv
  <2>2. Asked /\ Ready
    BY <1>2, <2>1 DEF AnswerInv
  <2>3. \A i \in 1..NbBsfs : bsf[i].eof = FALSE /\ NoData(i)
    BY <2>2, FreshFields DEF Ready, FreshFrom, NoData, NoPacket
  <2>4. ASSUME NEW i \in 1..NbBsfs, NEW j \in 1..NbBsfs, bsf'[i].eof, j <= i PROVE NoData(j)'
    <3>1. i = 1 /\ j = 1 /\ call.pkt = NoPacket
      BY <1>1, <1>5, <2>3, <2>4
    <3> QED
      BY <1>1, <1>5, <2>3, <3>1 DEF NoData
  <2>5. ~(last[2].op = "receive" /\ last[2].ret = "EOF")
    BY <2>2 DEF Asked
  <2> QED
    BY <1>1, <1>2, <2>4, <2>5 DEF LoopInv
<1>16. SyncInv'
  <2>1. SUFFICES ASSUME Regular' PROVE SyncInv'
    BY DEF SyncInv
  <2>2. Regular
    BY <1>2, <1>4, <2>1, SetupQuiet DEF Regular
  <2>3. bsf[1].buffer_pkt = NoPacket /\ in_pkt = NoPacket /\ consumed = 0 /\ buffer_frame = NoFrame
    BY <1>2, <2>2 DEF SyncInv
  <2>4. bsf'[1].buffer_pkt = call.pkt
    BY <1>5, <2>3
  <2>5. bsf'[1].eof => call.pkt = NoPacket /\ rest = NoPacket
    BY <1>2, <1>5, <2>2 DEF SyncInv
  <2>6. pc' = "simple"
    BY <1>2, <2>3
  <2> QED
    BY <1>1, <1>2, <1>3, <2>3, <2>4, <2>5, <2>6, EmptyFacts DEF SyncInv, NoPacket
<1> QED
  BY <1>6, <1>7, <1>8, <1>9, <1>11, <1>12, <1>14, <1>15, <1>16

LEMMA ReceiveFrameStep ==
  ASSUME DecodeInv, ReceiveFrame, UNCHANGED setup
  PROVE  DecodeInv'
<1> USE DEF DecodeInv
<1>1. /\ pc = "receive" /\ pc' = (IF buffer_frame = NoFrame THEN "simple" ELSE "crop")
      /\ call' \in Calls /\ call'.op = "receive" /\ call'.ret = "OK"
      /\ call'.frame = buffer_frame /\ call'.pkt = call.pkt /\ call'.eos = call.eos
      /\ buffer_frame' = NoFrame
      /\ UNCHANGED <<setup, bsf, in_pkt, draining, draining_done, consumed, partial_size, held,
                     rest, last, h>>
  <2>1. call \in Calls /\ buffer_frame \in Nat
    BY DEF DecodeTypeOK
  <2> QED
    BY <2>1 DEF ReceiveFrame, TakenBufferFrame, Rets, Calls
<1>2. DecodeTypeOK'
  BY <1>1, SetupQuiet DEF DecodeTypeOK, Locations, NoFrame
<1>3. CallInv'
  BY <1>1, ReadyQuiet DEF CallInv, InDecoder
<1>4. DrainInv'
  BY <1>1, SetupQuiet DEF DrainInv
<1>5. AnswerInv'
  BY <1>1, SetupQuiet, ReadyQuiet
  DEF AnswerInv, Asked, DrainEndsOnce, ReadyAccepts, InDecoder
<1>6. UnitOrder' /\ UnitsAccounted'
  BY <1>1, UnitsQuiet
<1>7. Pending' = Pending
  BY <1>1 DEF Pending, Frame
<1>8. FrameOrder' /\ FramesAccounted'
  BY <1>1, <1>7, FramesQuiet
<1>9. LoopInv'
  BY <1>1, <1>7, SetupQuiet DEF LoopInv, NoData, Ended
<1>10. SyncInv'
  BY <1>1, SetupQuiet DEF SyncInv, Regular
<1> QED
  BY <1>2, <1>3, <1>4, <1>5, <1>6, <1>8, <1>9, <1>10

LEMMA CropStep ==
  ASSUME DecodeInv, Crop, UNCHANGED setup
  PROVE  DecodeInv'
<1> USE DEF DecodeInv
<1>1. /\ pc = "crop" /\ pc' = "received" /\ call \in Calls /\ h \in Histories
      /\ call.ret = "OK" /\ call.frame \in Nat /\ call.frame # NoFrame
      /\ UNCHANGED <<setup, bsf, in_pkt, buffer_frame, draining, draining_done, consumed,
                     partial_size, held, rest, last>>
  BY CallFields DEF Crop, DecodeTypeOK, CallInv
<1>2. PICK L \in SUBSET Nat :
        /\ h.lost \subseteq L /\ (h' = h \/ h' = [h EXCEPT !.lost = L])
        /\ \/ UNCHANGED call
           \/ /\ call' = [call EXCEPT !.ret = "ERR", !.frame = NoFrame]
              /\ h' = [h EXCEPT !.lost = L] /\ call.frame \in L
  <2>1. h.lost \union {call.frame} \in SUBSET Nat
    BY <1>1, HistoryFields
  <2> QED
    BY <2>1 DEF Crop
<1>3. /\ h' \in Histories /\ h'.base = h.base /\ h'.sent = h.sent /\ h'.fed = h.fed
      /\ h'.made = h.made /\ h'.out = h.out /\ h'.eos = h.eos /\ h'.drains = h.drains
      /\ h'.flushes = h.flushes /\ h'.err = h.err /\ h.lost \subseteq h'.lost
      /\ h' # h => h'.lost = L
  BY <1>1, <1>2, HistoryLost, SMTT(30)
<1>3a. /\ call' \in Calls /\ call'.op = call.op /\ call'.pkt = call.pkt /\ call'.eos = call.eos
       /\ \/ UNCHANGED call
          \/ call'.ret = "ERR" /\ call'.frame = NoFrame /\ call.frame \in h'.lost
  <2>1. CASE UNCHANGED call
    BY <1>1, <2>1
  <2>2. CASE call' = [call EXCEPT !.ret = "ERR", !.frame = NoFrame] /\ h' = [h EXCEPT !.lost = L] /\ call.frame \in L
    <3>1. h'.lost = L
      BY <1>1, <2>2, HistoryLost
    <3> QED
      BY <1>1, <2>2, <3>1 DEF Calls, Rets, NoFrame
  <2> QED
    BY <1>2, <2>1, <2>2
<1>4. DecodeTypeOK'
  BY <1>1, <1>3, <1>3a, SetupQuiet DEF DecodeTypeOK, Locations
<1>5. CallInv'
  BY <1>1, <1>3, <1>3a, ReadyQuiet DEF CallInv, InDecoder
<1>6. DrainInv'
  BY <1>1, <1>3, SetupQuiet DEF DrainInv
<1>7. AnswerInv'
  BY <1>1, <1>3, <1>3a, SetupQuiet, ReadyQuiet
  DEF AnswerInv, Asked, DrainEndsOnce, ReadyAccepts, InDecoder
<1>8. UnitOrder' /\ UnitsAccounted'
  BY <1>1, <1>3, UnitsQuiet
<1>9. Pending' \subseteq Pending /\ Pending \subseteq Pending' \union h'.lost
  BY <1>1, <1>3a DEF Pending, Frame
<1>10. FrameOrder' /\ FramesAccounted'
  BY <1>1, <1>3, <1>9, FramesQuiet
<1>11. LoopInv'
  BY <1>1, <1>3a, <1>9, SetupQuiet DEF LoopInv, NoData, Ended
<1>12. SyncInv'
  BY <1>1, <1>3, <1>3a, SetupQuiet DEF SyncInv, Regular
<1> QED
  BY <1>4, <1>5, <1>6, <1>7, <1>8, <1>10, <1>11, <1>12

---------------------------------------------------------------------------
(***************************************************************************)
(* decode_simple_internal() and bsfs_poll().                               *)
(***************************************************************************)
LEMMA SimpleBeginStep ==
  ASSUME DecodeInv, SimpleBegin, UNCHANGED setup
  PROVE  DecodeInv'
<1> USE DEF DecodeInv
<1>1. /\ pc = "simple" /\ call \in Calls /\ call' \in Calls
      /\ call'.op = call.op /\ call'.pkt = call.pkt /\ call'.frame = call.frame
      /\ call'.ret = call.ret /\ call'.eos = call.eos /\ call'.got = call.got
      /\ \/ pc' = "poll" /\ in_pkt = NoPacket /\ ~draining /\ call'.idx = NbBsfs
         \/ pc' = "decode" /\ (in_pkt # NoPacket \/ draining)
      /\ UNCHANGED <<setup, bsf, in_pkt, buffer_frame, draining, draining_done, consumed,
                     partial_size, held, rest, last, h>>
  <2>1. call \in Calls /\ NbBsfs \in Nat
    BY SetupQuiet DEF DecodeTypeOK
  <2> QED
    BY <2>1, CallIdx DEF SimpleBegin
<1>2. DecodeTypeOK'
  BY <1>1, SetupQuiet DEF DecodeTypeOK, Locations
<1>3. CallInv'
  <2>1. FreshFrom(NbBsfs + 1)
    BY SetupQuiet DEF FreshFrom
  <2>2. pc' = "poll" => /\ in_pkt = NoPacket /\ ~draining
                        /\ call'.idx \in 1..NbBsfs /\ FreshFrom(call.idx + 1)'
    BY <1>1, <2>1, SetupQuiet DEF FreshFrom
  <2> QED
    BY <1>1, <2>2, SetupQuiet DEF CallInv, InDecoder
<1>4. DrainInv'
  BY <1>1, SetupQuiet DEF DrainInv
<1>5. AnswerInv'
  BY <1>1, SetupQuiet, ReadyQuiet
  DEF AnswerInv, Asked, DrainEndsOnce, ReadyAccepts, InDecoder
<1>6. UnitOrder' /\ UnitsAccounted'
  BY <1>1, UnitsQuiet
<1>7. Pending' = Pending
  BY <1>1 DEF Pending, Frame
<1>8. FrameOrder' /\ FramesAccounted'
  BY <1>1, <1>7, FramesQuiet
<1>9. LoopInv'
  BY <1>1, <1>7, SetupQuiet DEF LoopInv, NoData, Ended
<1>10. SyncInv'
  <2>1. SUFFICES ASSUME Regular' PROVE SyncInv'
    BY DEF SyncInv
  <2>2. Regular
    BY <1>1, <2>1, SetupQuiet DEF Regular
  <2>3. pc' = "decode" => bsf[1].buffer_pkt = NoPacket
    BY <1>1, <2>2, SetupQuiet DEF SyncInv, DrainInv, Regular
  <2> QED
    BY <1>1, <2>2, <2>3 DEF SyncInv
<1> QED
  BY <1>2, <1>3, <1>4, <1>5, <1>6, <1>8, <1>9, <1>10

(* The decoder is left with an error code while nothing else changes. *)
LEMMA LeftStep ==
  ASSUME DecodeInv, UNCHANGED setup, pc \in {"poll", "decode"}, pc' = "left",
         NEW r \in {"EAGAIN", "EOF"}, call' = [call EXCEPT !.ret = r],
         r = "EAGAIN" => Ready, r = "EOF" => draining /\ held = <<>>,
         r = "EOF" \/ pc = "poll",
         bsf[1].buffer_pkt = NoPacket \/ ~Regular,
         UNCHANGED <<bsf, in_pkt, buffer_frame, draining, draining_done, consumed,
                     partial_size, held, rest, last, h>>
  PROVE  DecodeInv'
<1> USE DEF DecodeInv
<1>1. /\ call \in Calls /\ call' \in Calls /\ call'.ret = r
      /\ call'.op = call.op /\ call'.pkt = call.pkt /\ call'.frame = call.frame
      /\ call'.eos = call.eos /\ call'.got = call.got
  BY CallRet DEF DecodeTypeOK, Rets
<1>2. DecodeTypeOK'
  BY <1>1, SetupQuiet DEF DecodeTypeOK, Locations
<1>3. CallInv'
  BY <1>1, ReadyQuiet DEF CallInv, InDecoder
<1>4. DrainInv'
  BY <1>1, SetupQuiet DEF DrainInv
<1>5. AnswerInv'
  BY <1>1, SetupQuiet, ReadyQuiet
  DEF AnswerInv, Asked, DrainEndsOnce, ReadyAccepts, InDecoder
<1>6. UnitOrder' /\ UnitsAccounted'
  BY <1>1, UnitsQuiet
<1>7. Pending' = Pending
  BY <1>1 DEF Pending, Frame, CallInv
<1>8. FrameOrder' /\ FramesAccounted'
  BY <1>1, <1>7, FramesQuiet
<1>9. LoopInv'
  BY <1>1, <1>7, SetupQuiet, ZenonT(60) DEF LoopInv, NoData, Ended
<1>10. SyncInv'
  <2>1. SUFFICES ASSUME Regular' PROVE SyncInv'
    BY DEF SyncInv
  <2>2. Regular
    BY <1>1, <2>1, SetupQuiet DEF Regular
  <2> QED
    BY <1>1, <2>2 DEF SyncInv, Regular
<1> QED
  BY <1>2, <1>3, <1>4, <1>5, <1>6, <1>8, <1>9, <1>10

(* A filter that says EAGAIN has nothing. *)
LEMMA EmptyFilter ==
  ASSUME DecodeInv, NEW i \in 1..NbBsfs, FilterRet(i) = "EAGAIN"
  PROVE  bsf[i] = FreshBsf
<1>1. bsf[i] \in Bsf /\ bsf[i].eof \in BOOLEAN
  BY DEF DecodeInv, DecodeTypeOK, Bsf
<1>2. ~bsf[i].eof /\ bsf[i].buffer_pkt = <<>> /\ bsf[i].split = <<>>
  BY DEF FilterRet, BsfGetRet, NoPacket
<1> QED
  BY <1>1, <1>2, FilterIsFresh

LEMMA PollEmptyStep ==
  ASSUME DecodeInv, PollEmpty, UNCHANGED setup
  PROVE  DecodeInv'
<1> USE DEF DecodeInv
<1> DEFINE i == call.idx
<1>1. /\ pc = "poll" /\ i \in 1..NbBsfs /\ NbBsfs \in Nat /\ FilterRet(i) = "EAGAIN"
      /\ FreshFrom(i + 1) /\ ~draining /\ in_pkt = NoPacket /\ call \in Calls
      /\ UNCHANGED <<setup, bsf, in_pkt, buffer_frame, draining, draining_done, consumed,
                     partial_size, held, rest, last, h>>
  BY SetupQuiet DEF PollEmpty, CallInv, DecodeTypeOK
<1>2. bsf[i] = FreshBsf
  BY <1>1, EmptyFilter
<1>3. FreshFrom(i)
  BY <1>1, <1>2 DEF FreshFrom
<1>4. CASE i = 1
  <2>1. pc' = "left" /\ call' = [call EXCEPT !.ret = "EAGAIN"]
    BY <1>4 DEF PollEmpty, FirstFilter, Leave
  <2>2. Ready
    BY <1>1, <1>3, <1>4 DEF Ready
  <2>3. bsf[1].buffer_pkt = NoPacket
    BY <1>2, <1>4, FreshFields DEF NoPacket
  <2> QED
    BY <1>1, <2>1, <2>2, <2>3, LeftStep
<1>5. CASE i # 1
  <2>1. PICK k \in Nat : k = i - 1 /\ k \in 1..NbBsfs /\ call' = [call EXCEPT !.idx = k]
    <3>1. call' = [call EXCEPT !.idx = i - 1] /\ i - 1 \in 1..NbBsfs
      BY <1>1, <1>5 DEF PollEmpty, FirstFilter
    <3> QED
      BY <1>1, <3>1
  <2>2. /\ call' \in Calls /\ call'.op = call.op /\ call'.pkt = call.pkt
        /\ call'.frame = call.frame /\ call'.ret = call.ret /\ call'.eos = call.eos
        /\ call'.got = call.got /\ call'.idx = k /\ k + 1 = i
    BY <1>1, <2>1, CallIdx
  <2>3. pc' = pc
    BY <1>5 DEF PollEmpty, FirstFilter
  <2> HIDE DEF i
  <2>4. DecodeTypeOK'
    BY <1>1, <2>2, <2>3, SetupQuiet DEF DecodeTypeOK
  <2>5. CallInv'
    <3>1. FreshFrom(call.idx + 1)'
      BY <1>1, <1>3, <2>2, SetupQuiet DEF FreshFrom
    <3> QED
      BY <1>1, <2>1, <2>2, <2>3, <3>1, SetupQuiet DEF CallInv, InDecoder
  <2>6. DrainInv'
    BY <1>1, <2>2, <2>3, SetupQuiet DEF DrainInv
  <2>7. AnswerInv'
    BY <1>1, <2>2, <2>3, SetupQuiet, ReadyQuiet
    DEF AnswerInv, Asked, DrainEndsOnce, ReadyAccepts, InDecoder
  <2>8. UnitOrder' /\ UnitsAccounted'
    BY <1>1, <2>3, UnitsQuiet
  <2>9. Pending' = Pending
    BY <1>1, <2>3 DEF Pending, Frame
  <2>10. FrameOrder' /\ FramesAccounted'
    BY <1>1, <2>9, FramesQuiet
  <2>11. LoopInv'
    BY <1>1, <2>3, <2>9, SetupQuiet DEF LoopInv, NoData, Ended
  <2>12. SyncInv'
    BY <1>1, <2>2, <2>3, SetupQuiet DEF SyncInv, Regular
  <2> QED
    BY <2>4, <2>5, <2>6, <2>7, <2>8, <2>10, <2>11, <2>12
<1> QED
  BY <1>4, <1>5

LEMMA DecodeEofStep ==
  ASSUME DecodeInv, DecodeEof, UNCHANGED setup
  PROVE  DecodeInv'
<1> USE DEF DecodeInv
<1>1. /\ pc = "decode" /\ pc' = "left" /\ call' = [call EXCEPT !.ret = "EOF"]
      /\ UNCHANGED <<setup, bsf, in_pkt, buffer_frame, draining, draining_done, consumed,
                     partial_size, held, rest, last, h>>
  BY DEF DecodeEof, Leave
<1>2. draining /\ held = <<>>
  BY <1>1 DEF DecodeEof, NoMoreDecoding, CallInv, DrainInv
<1>3. bsf[1].buffer_pkt = NoPacket \/ ~Regular
  BY <1>1 DEF SyncInv
<1> QED
  BY <1>1, <1>2, <1>3, LeftStep

(* Filters keep or lose what they have. *)
LEMMA UnitsShrink ==
  ASSUME DecodeTypeOK, UnitOrder, UnitsAccounted, UNCHANGED <<setup, in_pkt>>, pc' # "send",
         h'.fed = h.fed, h'.base = h.base, h'.sent = h.sent, h.lost \subseteq h'.lost,
         \A i \in 1..NbBsfs :
           /\ Increasing(bsf'[i].split) /\ Increasing(bsf'[i].buffer_pkt)
           /\ Before(ToSet(bsf'[i].split), ToSet(bsf'[i].buffer_pkt))
           /\ Data(i)' \subseteq Data(i) /\ Data(i) \subseteq Data(i)' \union h'.lost
  PROVE  UnitOrder' /\ UnitsAccounted'
<1>1. NbBsfs' = NbBsfs /\ SentUnits' = SentUnits
  BY DEF NbBsfs, Bsfs, SentUnits
<1>2. UnitOrder'
  <2>1. ASSUME NEW i \in 1..NbBsfs
        PROVE  /\ Before(ToSet(h'.fed) \union ToSet(in_pkt'), Data(i)')
               /\ Data(i)' \subseteq SentUnits'
    BY <1>1 DEF UnitOrder, Before
  <2>2. ASSUME NEW i \in 1..NbBsfs, NEW j \in 1..NbBsfs, i < j PROVE Before(Data(j), Data(i))'
    <3>1. Before(Data(j), Data(i))
      BY <2>2 DEF UnitOrder
    <3> QED
      BY <3>1 DEF Before
  <2> QED
    BY <1>1, <2>1, <2>2 DEF UnitOrder
<1>3. UnitsAccounted'
  <2>1. AllData \subseteq AllData' \union h'.lost
    BY <1>1 DEF AllData
  <2> QED
    BY <1>1, <2>1 DEF UnitsAccounted
<1> QED
  BY <1>2, <1>3

LEMMA PollEofStep ==
  ASSUME DecodeInv, PollEof, UNCHANGED setup
  PROVE  DecodeInv'
<1> USE DEF DecodeInv
<1>1. /\ pc = "poll" /\ call.idx \in 1..NbBsfs /\ NbBsfs \in Nat /\ NbBsfs' = NbBsfs
      /\ FilterRet(call.idx) = "EOF"
      /\ FreshFrom(call.idx + 1) /\ ~draining /\ in_pkt = NoPacket /\ call \in Calls
      /\ bsf \in [1..NbBsfs -> Bsf]
      /\ UNCHANGED <<setup, in_pkt, buffer_frame, draining_done, consumed,
                     partial_size, held, rest, last, h>>
  BY SetupQuiet DEF PollEof, CallInv, DecodeTypeOK
<1>2. bsf[call.idx].eof
  BY DEF FilterRet, BsfGetRet, PollEof
<1>3. CASE call.idx = NbBsfs
  <2>1. draining' = TRUE /\ pc' = "decode" /\ UNCHANGED <<bsf, call>>
    BY <1>3 DEF PollEof, LastFilter
  <2>2. DecodeTypeOK'
    BY <1>1, <2>1 DEF DecodeTypeOK, Locations
  <2>3. CallInv'
    BY <1>1, <2>1 DEF CallInv, InDecoder
  <2>4. DrainInv'
    BY <1>1, <1>2, <1>3, <2>1, SetupQuiet DEF DrainInv
  <2>5. AnswerInv'
    BY <1>1, <2>1, SetupQuiet DEF AnswerInv, Asked, DrainEndsOnce, ReadyAccepts, InDecoder
  <2>6. UnitOrder' /\ UnitsAccounted'
    BY <1>1, <2>1, UnitsQuiet
  <2>7. Pending' = Pending
    BY <1>1, <2>1 DEF Pending, Frame
  <2>8. FrameOrder' /\ FramesAccounted'
    BY <1>1, <2>7, FramesQuiet
  <2>9. LoopInv'
    BY <1>1, <2>1, <2>7, SetupQuiet DEF LoopInv, NoData, Ended
  <2>10. SyncInv'
    <3>1. Regular' = Regular
      BY <1>1, <2>1, SetupQuiet DEF Regular
    <3>2. Regular => bsf[1].eof
      BY <1>1, <1>2, SetupQuiet DEF Regular
    <3> QED
      BY <1>1, <2>1, <3>1, <3>2 DEF SyncInv
  <2> QED
    BY <2>2, <2>3, <2>4, <2>5, <2>6, <2>8, <2>9, <2>10
<1>4. CASE call.idx # NbBsfs
  <2>1. PICK k \in 1..NbBsfs : /\ k = call.idx + 1 /\ k # 1 /\ bsf[k] = FreshBsf
                              /\ call' = [call EXCEPT !.idx = k] /\ bsf' = [bsf EXCEPT ![k].eof = TRUE]
    <3>1. call.idx + 1 \in 1..NbBsfs /\ call.idx + 1 # 1 /\ bsf[call.idx + 1] = FreshBsf
      BY <1>1, <1>4 DEF FreshFrom
    <3>2. call' = [call EXCEPT !.idx = call.idx + 1]
          /\ bsf' = [bsf EXCEPT ![call.idx + 1].eof = TRUE]
      BY <1>4 DEF PollEof, LastFilter, BsfSent
    <3> QED
      BY <3>1, <3>2
  <2>2. UNCHANGED <<draining, pc>>
    BY <1>4 DEF PollEof, LastFilter
  <2>3. /\ call' \in Calls /\ call'.idx = k /\ call'.op = call.op /\ call'.pkt = call.pkt
        /\ call'.frame = call.frame /\ call'.ret = call.ret /\ call'.eos = call.eos
        /\ call'.got = call.got
    <3>1. k \in Nat
      BY <1>1
    <3> QED
      BY <1>1, <2>1, <3>1, CallIdx
  <2>4. /\ bsf' \in [1..NbBsfs -> Bsf] /\ \A j \in 1..NbBsfs : j # k => bsf'[j] = bsf[j]
        /\ bsf'[k].buffer_pkt = <<>> /\ bsf'[k].split = <<>> /\ bsf'[k].eof = TRUE
        /\ bsf[k].buffer_pkt = <<>> /\ bsf[k].split = <<>>
    BY <1>1, <2>1, FreshFields DEF Bsf
  <2>5. DecodeTypeOK'
    BY <1>1, <2>2, <2>3, <2>4 DEF DecodeTypeOK
  <2>6. CallInv'
    <3>1. FreshFrom(call.idx + 1)'
      <4>1. \A j \in 1..NbBsfs : j >= k + 1 => j # k /\ j >= call.idx + 1
        BY <1>1, <2>1
      <4> QED
        BY <1>1, <2>3, <2>4, <4>1 DEF FreshFrom
    <3> QED
      BY <1>1, <2>1, <2>2, <2>3, <3>1 DEF CallInv, InDecoder
  <2>7. DrainInv'
    BY <1>1, <2>1, <2>2, <2>3, <2>4, SetupQuiet DEF DrainInv
  <2>8. AnswerInv'
    BY <1>1, <2>2, <2>3, SetupQuiet
    DEF AnswerInv, Asked, DrainEndsOnce, ReadyAccepts, InDecoder
  <2>9. UnitOrder' /\ UnitsAccounted'
    <3>1. ASSUME NEW i \in 1..NbBsfs
          PROVE  bsf'[i].split = bsf[i].split /\ bsf'[i].buffer_pkt = bsf[i].buffer_pkt
      BY <2>4
    <3>2. ASSUME NEW i \in 1..NbBsfs
          PROVE  /\ Increasing(bsf'[i].split) /\ Increasing(bsf'[i].buffer_pkt)
                 /\ Before(ToSet(bsf'[i].split), ToSet(bsf'[i].buffer_pkt))
                 /\ Data(i)' = Data(i)
      BY <3>1 DEF UnitOrder, Data
    <3> QED
      BY <1>1, <2>2, <3>2, UnitsShrink
  <2>10. Pending' = Pending
    BY <1>1, <2>2 DEF Pending, Frame
  <2>11. FrameOrder' /\ FramesAccounted'
    BY <1>1, <2>10, FramesQuiet
  <2>12. LoopInv'
    <3>1. \A j \in 1..NbBsfs : NoData(j)' = NoData(j)
      BY <2>4 DEF NoData, NoPacket
    <3>2. NoData(k)
      BY <2>4 DEF NoData, NoPacket
    <3>3. ASSUME Loop, Api = "new", NEW i \in 1..NbBsfs, NEW j \in 1..NbBsfs, bsf'[i].eof, j <= i
          PROVE  NoData(j)
      <4>1. CASE i # k
        BY <2>4, <3>3, <4>1 DEF LoopInv
      <4>2. CASE i = k /\ j = k
        BY <3>2, <4>2
      <4>3. CASE i = k /\ j # k
        <5>1. j <= call.idx
          BY <1>1, <2>1, <3>3, <4>3
        <5> QED
          BY <1>1, <1>2, <3>3, <5>1 DEF LoopInv
      <4> QED
        BY <4>1, <4>2, <4>3
    <3>4. ~draining_done
      BY <1>1 DEF DrainInv
    <3> QED
      BY <1>1, <2>2, <3>1, <3>3, <3>4, SetupQuiet DEF LoopInv, Ended
  <2>13. SyncInv'
    <3>1. ~Regular'
      BY <1>1, <1>4, SetupQuiet DEF Regular
    <3> QED
      BY <3>1 DEF SyncInv
  <2> QED
    BY <2>5, <2>6, <2>7, <2>8, <2>9, <2>11, <2>12, <2>13
<1> QED
  BY <1>3, <1>4

(* What a filter gives out is the first of what it has. *)
LEMMA FilteredFacts ==
  ASSUME DecodeInv, NEW i \in 1..NbBsfs, FilterRet(i) = "OK"
  PROVE  LET out == Filtered(i).out  new == Filtered(i).bsf IN
         /\ out \in Seq(Unit) /\ out # <<>> /\ Increasing(out)
         /\ new \in [1..NbBsfs -> Bsf] /\ \A j \in 1..NbBsfs : j # i => new[j] = bsf[j]
         /\ new[i].eof = bsf[i].eof /\ (Bsfs[i] = "null" => new[i].split = <<>>)
         /\ Increasing(new[i].split) /\ Increasing(new[i].buffer_pkt)
         /\ Before(ToSet(new[i].split), ToSet(new[i].buffer_pkt))
         /\ Data(i) = ToSet(out) \union ToSet(new[i].split) \union ToSet(new[i].buffer_pkt)
         /\ Before(ToSet(out), ToSet(new[i].split) \union ToSet(new[i].buffer_pkt))
         /\ bsf[i].split = <<>> => ~bsf[i].eof /\ (Bsfs[i] = "null" => out = bsf[i].buffer_pkt)
         /\ Bsfs[i] = "null" => new[i].buffer_pkt = <<>>
<1> DEFINE s == bsf[i].split  b == bsf[i].buffer_pkt
           src == IF s # <<>> THEN s ELSE b
           keep == IF s # <<>> THEN b ELSE <<>>
           out == Filtered(i).out  new == Filtered(i).bsf
<1>1. /\ NbBsfs \in Nat /\ bsf \in [1..NbBsfs -> Bsf] /\ s \in Seq(Unit) /\ b \in Seq(Unit)
      /\ Bsfs[i] \in {"null", "split"} /\ bsf[i].eof \in BOOLEAN
  BY NbBsfsNat DEF DecodeInv, DecodeTypeOK, Bsf
<1>2. /\ Increasing(s) /\ Increasing(b) /\ Before(ToSet(s), ToSet(b))
      /\ Bsfs[i] = "null" => s = <<>>
  BY DEF DecodeInv, UnitOrder, DrainInv
<1>3. s = <<>> => b # <<>> /\ ~bsf[i].eof
  BY DEF FilterRet, BsfGetRet, NoPacket
<1>4. src \in Seq(Unit) /\ src # <<>> /\ keep \in Seq(Unit) /\ Increasing(src) /\ Increasing(keep)
      /\ Before(ToSet(src), ToSet(keep)) /\ Data(i) = ToSet(src) \union ToSet(keep)
  BY <1>1, <1>2, <1>3, EmptyFacts DEF Before, Data
<1>5. CASE Bsfs[i] = "split"
  <2>1. out = <<Head(src)>> /\ new = [bsf EXCEPT ![i].split = Tail(src), ![i].buffer_pkt = keep]
    <3>1. Filtered(i) = [out |-> <<Head(src)>>,
                         bsf |-> [bsf EXCEPT ![i].split = Tail(src), ![i].buffer_pkt = keep]]
      BY <1>5 DEF Filtered, NoPacket
    <3> QED
      BY <3>1
  <2> HIDE DEF src, keep, out, new
  <2>2. /\ Head(src) \in Unit /\ Tail(src) \in Seq(Unit) /\ <<Head(src)>> \in Seq(Unit)
        /\ <<Head(src)>> # <<>> /\ ToSet(<<Head(src)>>) = {Head(src)} /\ Increasing(<<Head(src)>>)
        /\ ToSet(src) = {Head(src)} \union ToSet(Tail(src))
        /\ Increasing(Tail(src)) /\ Before({Head(src)}, ToSet(Tail(src)))
    BY <1>4, TailFacts
  <2>3. PICK t \in Seq(Unit) : t = Tail(src)
    BY <2>2
  <2>4. /\ new \in [1..NbBsfs -> Bsf] /\ \A j \in 1..NbBsfs : j # i => new[j] = bsf[j]
        /\ new[i].split = t /\ new[i].buffer_pkt = keep /\ new[i].eof = bsf[i].eof
    <3>1. new = [bsf EXCEPT ![i].split = t, ![i].buffer_pkt = keep]
      BY <2>1, <2>3
    <3> QED
      BY <1>1, <1>4, <3>1 DEF Bsf
  <2>5. Before(ToSet(t), ToSet(keep)) /\ Before({Head(src)}, ToSet(t) \union ToSet(keep))
    BY <1>4, <2>2, <2>3 DEF Before
  <2> QED
    BY <1>3, <1>4, <1>5, <2>1, <2>2, <2>3, <2>4, <2>5 DEF out, new
<1>6. CASE Bsfs[i] = "null"
  <2>1. s = <<>> /\ b # <<>> /\ ~bsf[i].eof
    BY <1>2, <1>3, <1>6
  <2>2. out = b /\ new = [bsf EXCEPT ![i].buffer_pkt = <<>>]
    <3>1. Filtered(i) = [out |-> b, bsf |-> [bsf EXCEPT ![i].buffer_pkt = <<>>]]
      BY <1>6, <2>1 DEF Filtered, NoPacket
    <3> QED
      BY <3>1
  <2> HIDE DEF out, new
  <2>3. /\ new \in [1..NbBsfs -> Bsf] /\ \A j \in 1..NbBsfs : j # i => new[j] = bsf[j]
        /\ new[i].buffer_pkt = <<>> /\ new[i].split = s /\ new[i].eof = bsf[i].eof
    BY <1>1, <2>2, EmptyFacts DEF Bsf
  <2>4. Data(i) = ToSet(b) /\ ToSet(new[i].split) = {} /\ ToSet(new[i].buffer_pkt) = {}
    BY <2>1, <2>3, EmptyFacts DEF Data
  <2> QED
    BY <1>1, <1>2, <2>1, <2>2, <2>3, <2>4, EmptyFacts DEF out, new, Before
<1> QED
  BY <1>1, <1>5, <1>6

(* A filter that gives out a packet has data. *)
LEMMA FullFilter ==
  ASSUME NEW i \in 1..NbBsfs, FilterRet(i) = "OK"
  PROVE  ~NoData(i)
  BY DEF FilterRet, BsfGetRet, NoData, NoPacket

LEMMA SubSeqWhole ==
  ASSUME NEW s \in Seq(Unit)
  PROVE  SubSeq(s, 1, Len(s)) = s
<1> DEFINE t == SubSeq(s, 1, Len(s))
<1>1. t \in Seq(Unit) /\ Len(t) = Len(s) /\ \A i \in 1..Len(t) : t[i] = s[i]
  OBVIOUS
<1> HIDE DEF t
<1>2. t = s
  BY <1>1, SeqEqual
<1> QED
  BY <1>2 DEF t

(* A packet moves on to the codec or to the next filter, which is empty. *)
LEMMA PollPacketStep ==
  ASSUME DecodeInv, PollPacket, UNCHANGED setup
  PROVE  DecodeInv'
<1> USE DEF DecodeInv
<1>1. /\ pc = "poll" /\ call.idx \in 1..NbBsfs /\ NbBsfs \in Nat /\ NbBsfs' = NbBsfs
      /\ FilterRet(call.idx) = "OK" /\ Bsfs' = Bsfs
      /\ FreshFrom(call.idx + 1) /\ ~draining /\ ~draining_done /\ in_pkt = NoPacket
      /\ call \in Calls /\ bsf \in [1..NbBsfs -> Bsf]
      /\ UNCHANGED <<setup, buffer_frame, draining, draining_done, consumed,
                     partial_size, held, rest, last, h>>
  BY SetupQuiet DEF PollPacket, CallInv, DecodeTypeOK, DrainInv
<1>2. PICK i \in 1..NbBsfs : i = call.idx
  BY <1>1
<1> DEFINE out == Filtered(i).out  new == Filtered(i).bsf
<1>3. /\ out \in Seq(Unit) /\ out # <<>> /\ Increasing(out)
      /\ new \in [1..NbBsfs -> Bsf] /\ \A j \in 1..NbBsfs : j # i => new[j] = bsf[j]
      /\ new[i].eof = bsf[i].eof /\ (Bsfs[i] = "null" => new[i].split = <<>>)
      /\ Increasing(new[i].split) /\ Increasing(new[i].buffer_pkt)
      /\ Before(ToSet(new[i].split), ToSet(new[i].buffer_pkt))
      /\ Data(i) = ToSet(out) \union ToSet(new[i].split) \union ToSet(new[i].buffer_pkt)
      /\ Before(ToSet(out), ToSet(new[i].split) \union ToSet(new[i].buffer_pkt))
      /\ bsf[i].split = <<>> => ~bsf[i].eof /\ (Bsfs[i] = "null" => out = bsf[i].buffer_pkt)
      /\ Bsfs[i] = "null" => new[i].buffer_pkt = <<>>
  BY <1>1, <1>2, FilteredFacts
<1>4. ~NoData(i)
  BY <1>1, <1>2, FullFilter
<1>5. CASE i = NbBsfs
  <2>1. bsf' = new /\ in_pkt' = out /\ pc' = "decode" /\ UNCHANGED call
    BY <1>2, <1>5 DEF PollPacket, LastFilter
  <2> HIDE DEF out, new
  <2>2. DecodeTypeOK'
    BY <1>1, <1>3, <2>1 DEF DecodeTypeOK, Locations
  <2>3. CallInv'
    BY <1>1, <1>3, <2>1 DEF CallInv, InDecoder, NoPacket
  <2>4. DrainInv'
    BY <1>1, <1>3, <2>1, SetupQuiet DEF DrainInv
  <2>5. AnswerInv'
    BY <1>1, <2>1, SetupQuiet DEF AnswerInv, Asked, DrainEndsOnce, ReadyAccepts, InDecoder
  <2>6. /\ Data(i)' = ToSet(new[i].split) \union ToSet(new[i].buffer_pkt)
        /\ \A j \in 1..NbBsfs : j # i => Data(j)' = Data(j)
        /\ SentUnits' = SentUnits
    BY <1>1, <1>3, <2>1 DEF Data, SentUnits
  <2>7. UnitOrder'
    <3>1. ToSet(in_pkt') \subseteq Data(i) /\ Data(i)' \subseteq Data(i)
      BY <1>3, <2>1, <2>6
    <3>2. Increasing(h'.fed) /\ Increasing(in_pkt') /\ Before(ToSet(h'.fed), ToSet(in_pkt'))
          /\ ToSet(h'.fed) \union ToSet(in_pkt') \subseteq SentUnits'
      BY <1>1, <1>3, <2>1, <2>6, <3>1 DEF UnitOrder, Before
    <3>3. ASSUME NEW j \in 1..NbBsfs
          PROVE  /\ Increasing(bsf'[j].split) /\ Increasing(bsf'[j].buffer_pkt)
                 /\ Before(ToSet(bsf'[j].split), ToSet(bsf'[j].buffer_pkt))
                 /\ Data(j)' \subseteq SentUnits'
      BY <1>3, <2>1, <2>6, <3>1 DEF UnitOrder
    <3>4. ASSUME NEW j \in 1..NbBsfs
          PROVE  Before(ToSet(h'.fed) \union ToSet(in_pkt'), Data(j)')
      <4>1. CASE j = i
        BY <1>1, <1>3, <2>1, <2>6, <3>1, <4>1 DEF UnitOrder, Before
      <4>2. CASE j # i
        <5>1. j < i
          BY <1>1, <1>5, <4>2
        <5>2. Before(Data(i), Data(j)) /\ Before(ToSet(h.fed), Data(j))
          BY <5>1 DEF UnitOrder, Before
        <5> QED
          BY <1>1, <2>6, <3>1, <4>2, <5>2 DEF Before
      <4> QED
        BY <4>1, <4>2
    <3>5. ASSUME NEW a \in 1..NbBsfs, NEW b \in 1..NbBsfs, a < b PROVE Before(Data(b), Data(a))'
      <4>1. Before(Data(b), Data(a))
        BY <3>5 DEF UnitOrder
      <4>2. Data(b)' \subseteq Data(b) /\ Data(a)' \subseteq Data(a)
        BY <2>6, <3>1
      <4> QED
        BY <4>1, <4>2 DEF Before
    <3> QED
      BY <1>1, <2>1, <3>2, <3>3, <3>4, <3>5 DEF UnitOrder
  <2>8. UnitsAccounted'
    <3>1. AllData \subseteq AllData' \union ToSet(in_pkt')
      <4>1. ASSUME NEW j \in 1..NbBsfs PROVE Data(j) \subseteq AllData' \union ToSet(in_pkt')
        BY <1>1, <1>3, <2>1, <2>6 DEF AllData
      <4> QED
        BY <4>1 DEF AllData
    <3> QED
      BY <1>1, <2>6, <3>1, EmptyFacts DEF UnitsAccounted, NoPacket
  <2>9. Pending' = Pending
    BY <1>1, <2>1 DEF Pending, Frame
  <2>10. FrameOrder' /\ FramesAccounted'
    BY <1>1, <2>9, FramesQuiet
  <2>11. LoopInv'
    <3>1. ASSUME Loop, Api = "new", NEW a \in 1..NbBsfs, NEW b \in 1..NbBsfs, bsf'[a].eof, b <= a
          PROVE  NoData(b)'
      <4>1. bsf[a].eof
        BY <1>3, <2>1, <3>1
      <4>2. NoData(b) /\ b # i
        BY <1>4, <3>1, <4>1 DEF LoopInv
      <4> QED
        BY <1>3, <2>1, <4>2 DEF NoData
    <3> QED
      BY <1>1, <2>1, <3>1, SetupQuiet DEF LoopInv, Ended
  <2>12. SyncInv'
    <3>1. SUFFICES ASSUME Regular PROVE SyncInv'
      BY <1>1, <2>1, SetupQuiet DEF SyncInv, Regular
    <3>2. i = 1 /\ Bsfs[i] = "null"
      BY <1>1, <1>5, <3>1, SetupQuiet DEF Regular
    <3>3. bsf[1].split = <<>>
      BY <3>2 DEF DrainInv
    <3>4. /\ bsf'[1].buffer_pkt = NoPacket /\ ~bsf'[1].eof
          /\ in_pkt' = bsf[1].buffer_pkt /\ bsf[1].buffer_pkt # NoPacket
      BY <1>3, <2>1, <3>2, <3>3 DEF NoPacket
    <3>5. call.pkt \in Seq(Unit) /\ bsf[1].buffer_pkt = call.pkt /\ consumed = 0
      BY <1>1, <3>1, <3>4, CallFields DEF SyncInv
    <3>6. in_pkt' = SubSeq(call.pkt, consumed + 1, Len(call.pkt)) /\ consumed <= Len(call.pkt)
      BY <3>4, <3>5, SubSeqWhole
    <3> QED
      BY <1>1, <2>1, <3>4, <3>6 DEF SyncInv
  <2> QED
    BY <2>2, <2>3, <2>4, <2>5, <2>7, <2>8, <2>10, <2>11, <2>12
<1>6. CASE i # NbBsfs
  <2>1. PICK k \in 1..NbBsfs : k = i + 1 /\ k # 1 /\ k # i /\ bsf[k] = FreshBsf
    <3>1. i + 1 \in 1..NbBsfs /\ i + 1 # 1 /\ i + 1 # i /\ bsf[i + 1] = FreshBsf
      BY <1>1, <1>2, <1>6 DEF FreshFrom
    <3> QED
      BY <3>1
  <2>2. BsfSendRet(k, out) = "OK"
    BY <2>1, FreshFields DEF BsfSendRet, NoPacket
  <2>3. /\ bsf' = [new EXCEPT ![k].buffer_pkt = out] /\ call' = [call EXCEPT !.idx = k]
        /\ UNCHANGED <<pc, in_pkt>>
    BY <1>2, <1>6, <2>1, <2>2 DEF PollPacket, LastFilter
  <2> HIDE DEF out, new
  <2>4. /\ call' \in Calls /\ call'.idx = k /\ call'.op = call.op /\ call'.pkt = call.pkt
        /\ call'.frame = call.frame /\ call'.ret = call.ret /\ call'.eos = call.eos
        /\ call'.got = call.got
    <3>1. k \in Nat
      BY <1>1
    <3> QED
      BY <1>1, <2>3, <3>1, CallIdx
  <2>5. /\ bsf' \in [1..NbBsfs -> Bsf] /\ bsf'[i] = new[i]
        /\ \A j \in 1..NbBsfs : j # k /\ j # i => bsf'[j] = bsf[j]
        /\ bsf'[k].buffer_pkt = out /\ bsf'[k].split = <<>> /\ bsf'[k].eof = FALSE
        /\ bsf[k].buffer_pkt = <<>> /\ bsf[k].split = <<>> /\ bsf[k].eof = FALSE
    <3>1. new[k] = bsf[k] /\ new[k].split = <<>> /\ new[k].eof = FALSE
      BY <1>3, <2>1, FreshFields
    <3>2. /\ bsf' \in [1..NbBsfs -> Bsf] /\ \A j \in 1..NbBsfs : j # k => bsf'[j] = new[j]
          /\ bsf'[k].buffer_pkt = out /\ bsf'[k].split = new[k].split /\ bsf'[k].eof = new[k].eof
      BY <1>3, <2>3 DEF Bsf
    <3> QED
      BY <1>3, <2>1, <3>1, <3>2, FreshFields
  <2>6. DecodeTypeOK'
    BY <1>1, <2>3, <2>4, <2>5 DEF DecodeTypeOK
  <2>7. CallInv'
    <3>1. FreshFrom(call.idx + 1)'
      <4>1. \A j \in 1..NbBsfs : j >= k + 1 => j # k /\ j # i /\ j >= call.idx + 1
        BY <1>1, <1>2, <2>1
      <4> QED
        BY <1>1, <2>4, <2>5, <4>1 DEF FreshFrom
    <3> QED
      BY <1>1, <2>1, <2>3, <2>4, <3>1 DEF CallInv, InDecoder
  <2>8. DrainInv'
    <3>1. ASSUME NEW j \in 1..NbBsfs
          PROVE  bsf'[j].eof = bsf[j].eof /\ (Bsfs[j] = "null" => bsf'[j].split = <<>>)
      <4>1. Bsfs[j] = "null" => bsf[j].split = <<>>
        BY DEF DrainInv
      <4> QED
        BY <1>3, <2>5, <4>1
    <3> QED
      BY <1>1, <2>3, <2>4, <3>1, SetupQuiet DEF DrainInv
  <2>9. AnswerInv'
    BY <1>1, <2>3, <2>4, SetupQuiet
    DEF AnswerInv, Asked, DrainEndsOnce, ReadyAccepts, InDecoder
  <2>10. /\ Data(i)' = ToSet(new[i].split) \union ToSet(new[i].buffer_pkt)
         /\ Data(k)' = ToSet(out) /\ SentUnits' = SentUnits
         /\ \A j \in 1..NbBsfs : j # i /\ j # k => Data(j)' = Data(j)
         /\ \A j \in 1..NbBsfs : j > i => Data(j) = {}
    <3>1. \A j \in 1..NbBsfs : j > i => bsf[j] = FreshBsf
      BY <1>1, <1>2 DEF FreshFrom
    <3> QED
      BY <1>1, <2>5, <3>1, FreshFields, EmptyFacts DEF Data, SentUnits
  <2>11. Data(i)' \subseteq Data(i) /\ Data(k)' \subseteq Data(i) /\ Before(Data(k), Data(i))'
    BY <1>3, <2>10
  <2>12. UnitOrder'
    <3>1. Increasing(h'.fed) /\ Increasing(in_pkt') /\ Before(ToSet(h'.fed), ToSet(in_pkt'))
          /\ ToSet(h'.fed) \union ToSet(in_pkt') \subseteq SentUnits'
      BY <1>1, <2>3, <2>10 DEF UnitOrder
    <3>2. ASSUME NEW j \in 1..NbBsfs
          PROVE  /\ Increasing(bsf'[j].split) /\ Increasing(bsf'[j].buffer_pkt)
                 /\ Before(ToSet(bsf'[j].split), ToSet(bsf'[j].buffer_pkt))
      <4>1. CASE j = k
        BY <1>3, <2>5, <4>1, EmptyFacts DEF Before
      <4>2. CASE j = i
        BY <1>3, <2>5, <4>2
      <4>3. CASE j # k /\ j # i
        BY <2>5, <4>3 DEF UnitOrder
      <4> QED
        BY <4>1, <4>2, <4>3
    <3>3. ASSUME NEW j \in 1..NbBsfs
          PROVE  /\ Before(ToSet(h'.fed) \union ToSet(in_pkt'), Data(j)')
                 /\ Data(j)' \subseteq SentUnits'
      <4>1. Data(j)' \subseteq Data(j) \/ Data(j)' \subseteq Data(i)
        BY <2>10, <2>11
      <4>2. \A m \in 1..NbBsfs : /\ Before(ToSet(h.fed) \union ToSet(in_pkt), Data(m))
                                /\ Data(m) \subseteq SentUnits
        BY DEF UnitOrder
      <4> QED
        BY <1>1, <2>3, <2>10, <4>1, <4>2 DEF Before
    <3>4. ASSUME NEW a \in 1..NbBsfs, NEW b \in 1..NbBsfs, a < b PROVE Before(Data(b), Data(a))'
      <4>1. CASE b > k
        <5>1. b > i /\ b # i /\ b # k
          BY <1>1, <2>1, <4>1
        <5>2. Data(b)' = {}
          BY <2>10, <5>1
        <5> QED
          BY <5>2 DEF Before
      <4>2. CASE b = k /\ a = i
        BY <2>11, <4>2
      <4>3. CASE b = k /\ a # i
        <5>1. a < i /\ a # k
          BY <1>1, <2>1, <3>4, <4>3
        <5>2. Before(Data(i), Data(a)) /\ Data(a)' = Data(a)
          BY <2>10, <4>3, <5>1 DEF UnitOrder
        <5> QED
          BY <2>11, <4>3, <5>2 DEF Before
      <4>4. CASE b < k
        <5>1. b # k /\ a # k /\ a # i
          BY <1>1, <2>1, <3>4, <4>4
        <5>2. Before(Data(b), Data(a)) /\ Data(a)' = Data(a) /\ Data(b)' \subseteq Data(b)
          BY <2>10, <2>11, <3>4, <5>1 DEF UnitOrder
        <5> QED
          BY <5>2 DEF Before
      <4> QED
        BY <1>1, <4>1, <4>2, <4>3, <4>4
    <3> QED
      BY <1>1, <2>3, <3>1, <3>2, <3>3, <3>4 DEF UnitOrder
  <2>13. UnitsAccounted'
    <3>1. AllData \subseteq AllData'
      <4>1. ASSUME NEW j \in 1..NbBsfs PROVE Data(j) \subseteq AllData'
        <5>1. Data(i) = Data(k)' \union Data(i)'
          BY <1>3, <2>10
        <5>2. j = k => Data(j) = {}
          BY <1>1, <2>1, <2>10
        <5> QED
          BY <1>1, <2>10, <5>1, <5>2 DEF AllData
      <4> QED
        BY <4>1 DEF AllData
    <3> QED
      BY <1>1, <2>3, <2>10, <3>1 DEF UnitsAccounted
  <2>14. Pending' = Pending
    BY <1>1, <2>3 DEF Pending, Frame
  <2>15. FrameOrder' /\ FramesAccounted'
    BY <1>1, <2>14, FramesQuiet
  <2>16. LoopInv'
    <3>1. ASSUME Loop, Api = "new", NEW a \in 1..NbBsfs, NEW b \in 1..NbBsfs, bsf'[a].eof, b <= a
          PROVE  NoData(b)'
      <4>1. bsf[a].eof /\ a # k
        BY <1>3, <2>5, <3>1
      <4>2. NoData(b) /\ b # i /\ ~(i <= a)
        BY <1>4, <3>1, <4>1 DEF LoopInv
      <4>3. b # k
        BY <1>1, <2>1, <3>1, <4>2
      <4> QED
        BY <2>5, <4>2, <4>3 DEF NoData
    <3> QED
      BY <1>1, <2>3, <3>1, SetupQuiet DEF LoopInv, Ended
  <2>17. SyncInv'
    <3>1. ~Regular'
      BY <1>1, <1>6, SetupQuiet DEF Regular
    <3> QED
      BY <3>1 DEF SyncInv
  <2> QED
    BY <2>6, <2>7, <2>8, <2>9, <2>12, <2>13, <2>15, <2>16, <2>17
<1> QED
  BY <1>5, <1>6

(* A failing filter: what it had is lost, in part or altogether, or kept. *)
LEMMA PollFailsStep ==
  ASSUME DecodeInv, PollFails, UNCHANGED setup
  PROVE  DecodeInv'
<1> USE DEF DecodeInv
<1>1. /\ pc = "poll" /\ call.idx \in 1..NbBsfs /\ NbBsfs \in Nat /\ NbBsfs' = NbBsfs
      /\ FilterRet(call.idx) = "OK" /\ Bsfs' = Bsfs /\ Bsfs[call.idx] \in {"null", "split"}
      /\ ~draining /\ ~draining_done /\ pc' = "left" /\ call' = [call EXCEPT !.ret = "ERR"]
      /\ call \in Calls /\ bsf \in [1..NbBsfs -> Bsf] /\ h \in Histories /\ h.lost \in SUBSET Nat
      /\ UNCHANGED <<setup, in_pkt, buffer_frame, draining, draining_done, consumed,
                     partial_size, held, rest, last>>
  BY SetupQuiet, NbBsfsNat, HistoryFields DEF PollFails, Leave, CallInv, DecodeTypeOK, DrainInv
<1>2. PICK i \in 1..NbBsfs : i = call.idx
  BY <1>1
<1>3. /\ call' \in Calls /\ call'.ret = "ERR" /\ call'.op = call.op /\ call'.pkt = call.pkt
      /\ call'.frame = call.frame /\ call'.eos = call.eos /\ call'.got = call.got
  BY <1>1, CallRet DEF Rets
<1>4. /\ Increasing(bsf[i].split) /\ Increasing(bsf[i].buffer_pkt)
      /\ bsf[i].split \in Seq(Unit) /\ bsf[i].buffer_pkt \in Seq(Unit)
      /\ ToSet(bsf[i].split) \subseteq Unit /\ ToSet(bsf[i].buffer_pkt) \subseteq Unit
      /\ Before(ToSet(bsf[i].split), ToSet(bsf[i].buffer_pkt))
      /\ Bsfs[i] = "null" => bsf[i].split = <<>>
  <2>1. bsf[i].split \in Seq(Unit) /\ bsf[i].buffer_pkt \in Seq(Unit)
    BY <1>1, FilterFields
  <2> QED
    BY <2>1, ToSetFacts DEF UnitOrder, DrainInv
<1>5. PICK L \in SUBSET Nat :
        /\ h.lost \subseteq L /\ ((h' = h /\ L = h.lost) \/ h' = [h EXCEPT !.lost = L])
        /\ bsf' \in [1..NbBsfs -> Bsf] /\ \A j \in 1..NbBsfs : j # i => bsf'[j] = bsf[j]
        /\ bsf'[i].eof = bsf[i].eof /\ (Bsfs[i] = "null" => bsf'[i].split = <<>>)
        /\ Increasing(bsf'[i].split) /\ Increasing(bsf'[i].buffer_pkt)
        /\ Before(ToSet(bsf'[i].split), ToSet(bsf'[i].buffer_pkt))
        /\ Data(i)' \subseteq Data(i) /\ Data(i) \subseteq Data(i)' \union L
  <2>1. CASE bsf' = bsf /\ h' = h
    BY <1>1, <1>4, <2>1 DEF Data
  <2>2. CASE /\ Bsfs[i] = "split" /\ bsf' = FilterDropped(i)
             /\ h' = [h EXCEPT !.lost = @ \union ToSet(bsf[i].split) \union
                        (IF bsf[i].split # <<>> THEN {} ELSE ToSet(bsf[i].buffer_pkt))]
    <3> DEFINE lost == IF bsf[i].split # <<>> THEN {} ELSE ToSet(bsf[i].buffer_pkt)
               L == h.lost \union ToSet(bsf[i].split) \union lost
               keep == IF bsf[i].split # <<>> THEN bsf[i].buffer_pkt ELSE <<>>
    <3>1. L \in SUBSET Nat /\ h' = [h EXCEPT !.lost = L]
      BY <1>1, <1>4, <2>2 DEF Unit
    <3>2. keep \in Seq(Unit) /\ Increasing(keep) /\ ToSet(bsf[i].buffer_pkt) = ToSet(keep) \union lost
      BY <1>4, EmptyFacts
    <3>3. bsf' = [bsf EXCEPT ![i].split = <<>>, ![i].buffer_pkt = keep]
      BY <2>2 DEF FilterDropped, NoPacket
    <3> HIDE DEF keep, lost
    <3>4. /\ bsf' \in [1..NbBsfs -> Bsf] /\ \A j \in 1..NbBsfs : j # i => bsf'[j] = bsf[j]
          /\ bsf'[i].eof = bsf[i].eof /\ bsf'[i].split = <<>> /\ bsf'[i].buffer_pkt = keep
      BY <1>1, <3>2, <3>3, EmptyFacts DEF Bsf
    <3>5. Data(i)' = ToSet(keep)
      BY <3>4, EmptyFacts DEF Data
    <3>6. Data(i)' \subseteq Data(i) /\ Data(i) \subseteq Data(i)' \union L
      BY <3>2, <3>5 DEF Data
    <3>7. Before(ToSet(bsf'[i].split), ToSet(bsf'[i].buffer_pkt))
      BY <3>4, EmptyFacts DEF Before
    <3> QED
      BY <3>1, <3>2, <3>4, <3>6, <3>7, EmptyFacts
  <2>3. CASE /\ bsf' = Filtered(i).bsf
             /\ h' = [h EXCEPT !.lost = @ \union ToSet(Filtered(i).out)]
    <3> DEFINE out == Filtered(i).out  new == Filtered(i).bsf  L == h.lost \union ToSet(out)
    <3>1. /\ out \in Seq(Unit)
          /\ new \in [1..NbBsfs -> Bsf] /\ \A j \in 1..NbBsfs : j # i => new[j] = bsf[j]
          /\ new[i].eof = bsf[i].eof /\ (Bsfs[i] = "null" => new[i].split = <<>>)
          /\ Increasing(new[i].split) /\ Increasing(new[i].buffer_pkt)
          /\ Before(ToSet(new[i].split), ToSet(new[i].buffer_pkt))
          /\ Data(i) = ToSet(out) \union ToSet(new[i].split) \union ToSet(new[i].buffer_pkt)
      BY <1>1, <1>2, FilteredFacts
    <3>2. bsf' = new /\ h' = [h EXCEPT !.lost = L]
      BY <2>3
    <3> HIDE DEF out, new
    <3>3. L \in SUBSET Nat
      BY <1>1, <3>1, ToSetFacts DEF Unit
    <3>4. Data(i)' = ToSet(new[i].split) \union ToSet(new[i].buffer_pkt)
      BY <3>2 DEF Data
    <3> HIDE DEF L
    <3>6. Data(i) \subseteq Data(i)' \union L
      BY <3>1, <3>4 DEF L
    <3>7. h.lost \subseteq L
      BY DEF L
    <3> QED
      BY <3>1, <3>2, <3>3, <3>4, <3>6, <3>7
  <2> QED
    BY <1>2, <2>1, <2>2, <2>3 DEF PollFails
<1>6. /\ h' \in Histories /\ h'.base = h.base /\ h'.sent = h.sent /\ h'.fed = h.fed
      /\ h'.made = h.made /\ h'.out = h.out /\ h'.eos = h.eos /\ h'.drains = h.drains
      /\ h'.flushes = h.flushes /\ h'.err = h.err /\ h'.lost = L
  <2>1. CASE h' = h /\ L = h.lost
    BY <1>1, <2>1
  <2>2. CASE h' = [h EXCEPT !.lost = L]
    <3>1. h \in Histories
      BY <1>1
    <3> QED
      BY <2>2, <3>1, HistoryLost
  <2> QED
    BY <1>5, <2>1, <2>2
<1>7. DecodeTypeOK'
  BY <1>1, <1>3, <1>5, <1>6 DEF DecodeTypeOK, Locations
<1>8. CallInv'
  BY <1>1, <1>3, <1>6 DEF CallInv, InDecoder
<1>9. DrainInv'
  <2>1. ASSUME NEW j \in 1..NbBsfs
        PROVE  bsf'[j].eof = bsf[j].eof /\ (Bsfs[j] = "null" => bsf'[j].split = <<>>)
    <3>1. Bsfs[j] = "null" => bsf[j].split = <<>>
      BY DEF DrainInv
    <3> QED
      BY <1>5, <3>1
  <2> QED
    BY <1>1, <1>3, <1>6, <2>1, SetupQuiet DEF DrainInv
<1>10. AnswerInv'
  BY <1>1, <1>3, <1>6, SetupQuiet
  DEF AnswerInv, Asked, DrainEndsOnce, ReadyAccepts, InDecoder
<1>11. UnitOrder' /\ UnitsAccounted'
  <2>1. ASSUME NEW j \in 1..NbBsfs
        PROVE  /\ Increasing(bsf'[j].split) /\ Increasing(bsf'[j].buffer_pkt)
               /\ Before(ToSet(bsf'[j].split), ToSet(bsf'[j].buffer_pkt))
               /\ Data(j)' \subseteq Data(j) /\ Data(j) \subseteq Data(j)' \union h'.lost
    <3>1. CASE j = i
      BY <1>5, <1>6, <3>1
    <3>2. CASE j # i
      BY <1>5, <3>2 DEF UnitOrder, Data
    <3> QED
      BY <3>1, <3>2
  <2> QED
    BY <1>1, <1>5, <1>6, <2>1, UnitsShrink
<1>12. Pending' = Pending
  BY <1>1, <1>3 DEF Pending, Frame, CallInv
<1>13. FrameOrder' /\ FramesAccounted'
  BY <1>1, <1>5, <1>6, <1>12, FramesQuiet
<1>14. LoopInv'
  <2>1. ASSUME Loop, Api = "new", NEW a \in 1..NbBsfs, NEW b \in 1..NbBsfs, bsf'[a].eof, b <= a
        PROVE  NoData(b)'
    <3>1. bsf[a].eof
      BY <1>5, <2>1
    <3>2. NoData(b) /\ b # i
      BY <1>1, <1>2, <2>1, <3>1, FullFilter DEF LoopInv
    <3> QED
      BY <1>5, <3>2 DEF NoData
  <2> QED
    BY <1>1, <2>1, SetupQuiet DEF LoopInv, Ended
<1>15. SyncInv'
  BY <1>1, <1>3 DEF SyncInv, Regular
<1> QED
  BY <1>7, <1>8, <1>9, <1>10, <1>11, <1>13, <1>14, <1>15

---------------------------------------------------------------------------
(***************************************************************************)
(* codec->decode() and the way back.                                       *)
(***************************************************************************)

(* The codec takes the first units of in_pkt. *)
LEMMA UnitsFed ==
  ASSUME DecodeTypeOK, UnitOrder, UnitsAccounted, UNCHANGED <<setup, bsf>>, pc' # "send",
         NEW p \in Seq(Unit), h'.fed = h.fed \o p, h.fed \in Seq(Unit),
         Increasing(p), Increasing(in_pkt'), Before(ToSet(p), ToSet(in_pkt')),
         ToSet(in_pkt) = ToSet(p) \union ToSet(in_pkt'),
         h'.base = h.base, h'.sent = h.sent, h.lost \subseteq h'.lost
  PROVE  UnitOrder' /\ UnitsAccounted' /\ ToSet(h'.fed) = ToSet(h.fed) \union ToSet(p)
<1>1. NbBsfs' = NbBsfs /\ SentUnits' = SentUnits /\ AllData' = AllData
      /\ \A i \in 1..NbBsfs : Data(i)' = Data(i)
  BY DEF NbBsfs, Bsfs, SentUnits, AllData, Data
<1>2. Before(ToSet(h.fed), ToSet(p))
  BY DEF UnitOrder, Before
<1>3. ToSet(h'.fed) = ToSet(h.fed) \union ToSet(p) /\ Increasing(h'.fed)
  BY <1>2, ConcatFacts DEF UnitOrder
<1>4. UnitOrder'
  <2>1. Before(ToSet(h'.fed), ToSet(in_pkt'))
    BY <1>3 DEF UnitOrder, Before
  <2>2. ToSet(h'.fed) \union ToSet(in_pkt') = ToSet(h.fed) \union ToSet(in_pkt)
    BY <1>3
  <2> QED
    BY <1>1, <1>3, <2>1, <2>2, ZenonT(60) DEF UnitOrder
<1>5. UnitsAccounted'
  BY <1>1, <1>3 DEF UnitsAccounted
<1> QED
  BY <1>3, <1>4, <1>5

LEMMA DecodeCallStep ==
  ASSUME DecodeInv, DecodeCall, UNCHANGED setup
  PROVE  DecodeInv'
<1> USE DEF DecodeInv
<1>1. /\ pc = "decode" /\ ~draining_done /\ (in_pkt = NoPacket => Delay /\ draining)
      /\ call \in Calls /\ h \in Histories /\ in_pkt \in Seq(Unit) /\ held \in Seq(Unit)
      /\ h.fed \in Seq(Unit) /\ h.made \in Seq(Unit) /\ h.drains \in Nat /\ consumed \in Nat
      /\ call.frame = NoFrame /\ buffer_frame = NoFrame /\ MaxHeld \in Nat
      /\ Video \in BOOLEAN /\ Delay \in BOOLEAN /\ draining \in BOOLEAN
      /\ UNCHANGED <<setup, bsf, buffer_frame, draining, partial_size, rest, last>>
  BY HistoryFields, NbBsfsNat, DecodeBoundsAssumption
  DEF DecodeCall, NoMoreDecoding, DecodeTypeOK, CallInv, InDecoder
<1>2a. PICK k \in Consumption :
         \E new \in Made(IF k = 0 THEN 0 ELSE in_pkt[k]), got \in BOOLEAN :
           LET frames == held \o new IN
           /\ IF got THEN frames # <<>> ELSE in_pkt = NoPacket => frames = <<>>
           /\ held' = IF got THEN Tail(frames) ELSE frames
           /\ Len(held') <= IF Delay THEN MaxHeld ELSE 0
           /\ in_pkt' = Remaining(k)
           /\ draining_done' = DrainedBy(got)
           /\ consumed' = Consumed(k)
           /\ h' = [h EXCEPT !.fed = @ \o SubSeq(in_pkt, 1, k), !.made = @ \o new,
                             !.drains = IF in_pkt = NoPacket /\ ~got THEN Drains ELSE @]
           /\ IF got THEN pc' = "left" /\ call' = [call EXCEPT !.ret = "OK", !.frame = Head(frames)]
              ELSE pc' = "simple" /\ UNCHANGED call
  BY DEF DecodeCall
<1>2. PICK new \in Made(IF k = 0 THEN 0 ELSE in_pkt[k]), got \in BOOLEAN :
        LET frames == held \o new IN
        /\ IF got THEN frames # <<>> ELSE in_pkt = NoPacket => frames = <<>>
        /\ held' = IF got THEN Tail(frames) ELSE frames
        /\ Len(held') <= IF Delay THEN MaxHeld ELSE 0
        /\ in_pkt' = Remaining(k)
        /\ draining_done' = DrainedBy(got)
        /\ consumed' = Consumed(k)
        /\ h' = [h EXCEPT !.fed = @ \o SubSeq(in_pkt, 1, k), !.made = @ \o new,
                          !.drains = IF in_pkt = NoPacket /\ ~got THEN Drains ELSE @]
        /\ IF got THEN pc' = "left" /\ call' = [call EXCEPT !.ret = "OK", !.frame = Head(frames)]
           ELSE pc' = "simple" /\ UNCHANGED call
  BY <1>2a
<1>3. k \in 0..Len(in_pkt) /\ (k = 0 <=> in_pkt = NoPacket)
  BY <1>1, EmptyFacts DEF Consumption, NoPacket
<1> DEFINE p == SubSeq(in_pkt, 1, k)  q == SubSeq(in_pkt, k + 1, Len(in_pkt))
<1>4. /\ p \in Seq(Unit) /\ q \in Seq(Unit) /\ ToSet(in_pkt) = ToSet(p) \union ToSet(q)
      /\ k >= 1 => in_pkt[k] \in Unit /\ in_pkt[k] \in ToSet(p)
      /\ Increasing(p) /\ Increasing(q) /\ Before(ToSet(p), ToSet(q))
  BY <1>1, <1>3, CutFacts DEF UnitOrder
<1>5. in_pkt' = q
  BY <1>2 DEF Remaining
<1> DEFINE frames == held \o new
<1>6. /\ new \in Seq(Unit) /\ Increasing(new) /\ ToSet(new) \subseteq ToSet(p)
  <2>1. CASE new = <<>>
    BY <2>1, EmptyFacts
  <2>2. CASE new # <<>>
    <3>1. k >= 1 /\ new = <<in_pkt[k]>>
      BY <1>3, <2>2 DEF Made
    <3>2. in_pkt[k] \in Unit /\ in_pkt[k] \in ToSet(p)
      BY <1>4, <3>1
    <3>3. ToSet(new) = {in_pkt[k]} /\ Increasing(new) /\ new \in Seq(Unit)
      BY <3>1, <3>2 DEF ToSet, Increasing
    <3> QED
      BY <3>2, <3>3
  <2> QED
    BY <2>1, <2>2
<1>7. /\ frames \in Seq(Unit) /\ ToSet(frames) = ToSet(held) \union ToSet(new)
      /\ Increasing(frames)
  <2>1. Before(ToSet(held), ToSet(new))
    BY <1>4, <1>6 DEF FrameOrder, UnitOrder, Before
  <2> QED
    BY <1>1, <1>6, <2>1, ConcatFacts DEF FrameOrder
<1>8. /\ IF got THEN frames # <<>> ELSE in_pkt = NoPacket => frames = <<>>
      /\ held' = IF got THEN Tail(frames) ELSE frames
      /\ IF got THEN pc' = "left" /\ call' = [call EXCEPT !.ret = "OK", !.frame = Head(frames)]
         ELSE pc' = "simple" /\ UNCHANGED call
  BY <1>2
<1>9. PICK d \in Nat : /\ h' = [h EXCEPT !.fed = h.fed \o p, !.made = h.made \o new, !.drains = d]
                       /\ d = IF in_pkt = NoPacket /\ ~got THEN Drains ELSE h.drains
  <2>1. (IF in_pkt = NoPacket /\ ~got THEN Drains ELSE h.drains) \in Nat
    BY <1>1 DEF Drains
  <2> QED
    BY <1>2, <2>1
<1> HIDE DEF p, q, frames
<1>10. /\ h' \in Histories /\ h'.fed = h.fed \o p /\ h'.made = h.made \o new /\ h'.drains = d
       /\ h'.base = h.base /\ h'.sent = h.sent /\ h'.out = h.out /\ h'.lost = h.lost
       /\ h'.eos = h.eos /\ h'.flushes = h.flushes /\ h'.err = h.err
  <2>1. PICK F \in Seq(Unit) : F = h.fed \o p
    BY <1>1, <1>4, ConcatFacts
  <2>2. PICK M \in Seq(Unit) : M = h.made \o new
    BY <1>1, <1>6, ConcatFacts
  <2>3. h' = [h EXCEPT !.fed = F, !.made = M, !.drains = d]
    BY <1>9, <2>1, <2>2
  <2>4. h \in Histories
    BY <1>1
  <2> QED
    <3>1. /\ h' \in Histories /\ h'.fed = F /\ h'.made = M /\ h'.drains = d
          /\ h'.base = h.base /\ h'.sent = h.sent /\ h'.out = h.out /\ h'.lost = h.lost
          /\ h'.eos = h.eos /\ h'.flushes = h.flushes /\ h'.err = h.err
      BY <2>3, <2>4 DEF Histories
    <3> QED
      BY <2>1, <2>2, <3>1
<1>11. /\ held' \in Seq(Unit) /\ Increasing(held)'
       /\ got => /\ Head(frames) \in Unit /\ Before({Head(frames)}, ToSet(held'))
                 /\ ToSet(frames) = {Head(frames)} \union ToSet(held')
       /\ ~got => ToSet(held') = ToSet(frames)
  <2>1. CASE got
    <3>1. frames # <<>> /\ held' = Tail(frames)
      BY <1>8, <2>1
    <3> QED
      BY <1>7, <2>1, <3>1, TailFacts
  <2>2. CASE ~got
    BY <1>7, <1>8, <2>2
  <2> QED
    BY <2>1, <2>2
<1>12. /\ call' \in Calls /\ call'.op = call.op /\ call'.pkt = call.pkt /\ call'.eos = call.eos
       /\ got => /\ pc' = "left" /\ call'.ret = "OK" /\ call'.frame = Head(frames)
                 /\ call'.frame # NoFrame /\ call'.frame \in Unit
       /\ ~got => pc' = "simple" /\ call' = call
  <2>1. CASE got
    <3>1. PICK f \in Unit : f = Head(frames) /\ f \in Nat /\ f # NoFrame
      BY <1>11, <2>1 DEF Unit, NoFrame
    <3>2. pc' = "left" /\ call' = [call EXCEPT !.ret = "OK", !.frame = f]
      BY <1>8, <2>1, <3>1
    <3>3. /\ call' \in Calls /\ call'.op = call.op /\ call'.pkt = call.pkt /\ call'.eos = call.eos
          /\ call'.ret = "OK" /\ call'.frame = f
      BY <1>1, <3>1, <3>2 DEF Calls, Rets
    <3> QED
      BY <2>1, <3>1, <3>2, <3>3
  <2>2. CASE ~got
    BY <1>1, <1>8, <2>2
  <2> QED
    BY <2>1, <2>2
<1>13. /\ draining_done' = (draining /\ ~got) /\ draining_done' \in BOOLEAN
       /\ consumed' = Consumed(k) /\ consumed' \in Nat
  <2>1. k \in Nat
    BY <1>1, <1>3
  <2> QED
    BY <1>1, <1>2, <2>1 DEF DrainedBy, Consumed
<1>14. DecodeTypeOK'
  BY <1>1, <1>4, <1>5, <1>10, <1>11, <1>12, <1>13, SetupQuiet DEF DecodeTypeOK, Locations
<1>15. CallInv'
  <2>1. \A i \in Nat : FreshFrom(i)' = FreshFrom(i)
    BY <1>1 DEF FreshFrom, NbBsfs, Bsfs
  <2> QED
    BY <1>1, <1>10, <1>12 DEF CallInv, InDecoder
<1>16. draining => in_pkt = NoPacket /\ in_pkt' = NoPacket
  <2>1. ASSUME draining PROVE in_pkt = <<>> /\ k = 0
    BY <1>3, <2>1 DEF DrainInv, NoPacket
  <2>2. ASSUME draining PROVE q = <<>>
    BY <2>1, <2>2, CutFacts DEF q
  <2> QED
    BY <1>5, <2>1, <2>2 DEF NoPacket
<1>17. DrainInv'
  <2>1. draining_done' => held' = <<>>
    BY <1>8, <1>13, <1>16
  <2>2. ~Delay => held' = <<>>
    <3>1. ~Delay => Len(held') <= 0
      BY <1>2
    <3> QED
      BY <1>11, <3>1
  <2>3. d = 0 \/ (d = 1 /\ draining_done')
    <3>1. h.drains = 0
      BY <1>1 DEF DrainInv
    <3> QED
      BY <1>1, <1>9, <1>13, <3>1 DEF Drains
  <2> QED
    BY <1>1, <1>10, <1>12, <1>13, <1>16, <2>1, <2>2, <2>3, SetupQuiet DEF DrainInv
<1>18. AnswerInv'
  BY <1>1, <1>10, <1>12, <1>17, SetupQuiet
  DEF AnswerInv, Asked, DrainEndsOnce, ReadyAccepts, InDecoder, DrainInv
<1>19. UnitOrder' /\ UnitsAccounted' /\ ToSet(h'.fed) = ToSet(h.fed) \union ToSet(p)
  <2>1. pc' # "send"
    BY <1>12
  <2> QED
    BY <1>1, <1>4, <1>5, <1>10, <2>1, UnitsFed
<1>20. /\ Pending = {} /\ (got => Pending' = {Head(frames)}) /\ (~got => Pending' = {})
  BY <1>1, <1>12 DEF Pending, Frame
<1>21. ToSet(frames) = Pending' \union ToSet(held')
  BY <1>11, <1>20
<1>22. FrameOrder'
  <2>1. ToSet(h.out) \subseteq ToSet(h.fed) /\ Before(ToSet(h.out), ToSet(held))
    BY DEF FrameOrder, Before
  <2>2. Before(ToSet(h.out), ToSet(new))
    BY <1>4, <1>6, <2>1 DEF UnitOrder, Before
  <2>3. Before(ToSet(h.out), ToSet(frames))
    BY <1>7, <2>1, <2>2 DEF Before
  <2>4. ToSet(held) \subseteq ToSet(h.fed)
    BY DEF FrameOrder
  <2>5. ToSet(frames) \subseteq ToSet(h'.fed) /\ ToSet(h'.out) \subseteq ToSet(h'.fed)
    BY <1>6, <1>7, <1>10, <1>19, <2>1, <2>4
  <2>6. Before(Pending', ToSet(held'))
    BY <1>11, <1>20 DEF Before
  <2>7. Increasing(h'.out)
    BY <1>10 DEF FrameOrder
  <2> QED
    BY <1>10, <1>11, <1>21, <2>3, <2>5, <2>6, <2>7 DEF FrameOrder
<1>23. FramesAccounted'
  <2>1. ToSet(h'.made) = ToSet(h.made) \union ToSet(new)
    BY <1>1, <1>6, <1>10, ConcatFacts
  <2> QED
    BY <1>7, <1>10, <1>20, <1>21, <2>1 DEF FramesAccounted
<1>24. LoopInv'
  BY <1>1, <1>12, SetupQuiet DEF LoopInv, NoData, Ended
<1>25. SyncInv'
  <2>1. SUFFICES ASSUME Regular PROVE SyncInv'
    BY <1>1, <1>10, SetupQuiet DEF SyncInv, Regular
  <2>2. /\ bsf[1].buffer_pkt = NoPacket /\ in_pkt = SubSeq(call.pkt, consumed + 1, Len(call.pkt))
        /\ consumed <= Len(call.pkt) /\ call.pkt \in Seq(Unit)
        /\ bsf[1].eof => call.pkt = NoPacket /\ rest = NoPacket
    BY <1>1, <2>1, CallFields DEF SyncInv
  <2>3. consumed \in 0..Len(call.pkt)
    BY <1>1, <2>2
  <2>4. /\ consumed + k \in 0..Len(call.pkt)
        /\ q = SubSeq(call.pkt, consumed + k + 1, Len(call.pkt))
    BY <1>3, <2>2, <2>3, CutTwice, SMTT(30) DEF q
  <2>5. consumed' = consumed + k
    BY <1>13, <2>1 DEF Consumed, Regular
  <2>6. /\ consumed' <= Len(call'.pkt)
        /\ in_pkt' = SubSeq(call'.pkt, consumed' + 1, Len(call'.pkt))
    BY <1>5, <1>12, <2>4, <2>5
  <2> QED
    BY <1>1, <1>12, <2>2, <2>6 DEF SyncInv
<1> QED
  BY <1>14, <1>15, <1>17, <1>18, <1>19, <1>22, <1>23, <1>24, <1>25

LEMMA DecodeFailsStep ==
  ASSUME DecodeInv, DecodeFails, UNCHANGED setup
  PROVE  DecodeInv'
<1> USE DEF DecodeInv
<1>1. /\ pc = "decode" /\ pc' = "left" /\ ~draining_done /\ (in_pkt = NoPacket => draining)
      /\ call \in Calls /\ h \in Histories /\ in_pkt \in Seq(Unit) /\ held \in Seq(Unit)
      /\ h.fed \in Seq(Unit) /\ h.drains \in Nat /\ h.lost \in SUBSET Nat
      /\ call.frame = NoFrame /\ buffer_frame = NoFrame /\ draining \in BOOLEAN
      /\ in_pkt' = <<>> /\ draining_done' = draining
      /\ held' = (IF in_pkt = NoPacket THEN <<>> ELSE held)
      /\ UNCHANGED <<setup, bsf, buffer_frame, draining, consumed, partial_size, rest, last>>
  BY HistoryFields
  DEF DecodeFails, Leave, NoMoreDecoding, DrainedBy, DecodeTypeOK, CallInv, InDecoder, NoPacket
<1>2. /\ call' \in Calls /\ call'.ret = "ERR" /\ call'.op = call.op /\ call'.pkt = call.pkt
      /\ call'.frame = call.frame /\ call'.eos = call.eos
  <2>1. call' = [call EXCEPT !.ret = "ERR"] /\ call \in Calls
    BY <1>1 DEF DecodeFails, Leave
  <2> QED
    BY <2>1 DEF Calls, Rets
<1>3. PICK F \in Seq(Unit), d \in Nat, L \in SUBSET Nat :
        /\ h' = [h EXCEPT !.fed = F, !.drains = d, !.lost = L]
        /\ F = h.fed \o in_pkt
        /\ d = (IF in_pkt = NoPacket THEN Drains ELSE h.drains)
        /\ L = (IF in_pkt = NoPacket THEN h.lost \union ToSet(held) ELSE h.lost)
  <2>1. h.fed \o in_pkt \in Seq(Unit)
    BY <1>1, ConcatFacts
  <2>2. (IF in_pkt = NoPacket THEN Drains ELSE h.drains) \in Nat
    BY <1>1 DEF Drains
  <2>3. (IF in_pkt = NoPacket THEN h.lost \union ToSet(held) ELSE h.lost) \in SUBSET Nat
    BY <1>1, ToSetFacts DEF Unit
  <2> QED
    BY <2>1, <2>2, <2>3 DEF DecodeFails
<1>4. /\ h' \in Histories /\ h'.fed = F /\ h'.drains = d /\ h'.lost = L
      /\ h'.base = h.base /\ h'.sent = h.sent /\ h'.made = h.made /\ h'.out = h.out
      /\ h'.eos = h.eos /\ h'.flushes = h.flushes /\ h'.err = h.err
  <2>1. h \in Histories
    BY <1>1
  <2> QED
    <3>1. h' = [h EXCEPT !.fed = F, !.drains = d, !.lost = L]
      BY <1>3
    <3> QED
      BY <2>1, <3>1 DEF Histories
<1>5. DecodeTypeOK'
  BY <1>1, <1>2, <1>4, EmptyFacts, SetupQuiet DEF DecodeTypeOK, Locations
<1>6. CallInv'
  BY <1>1, <1>2, <1>4 DEF CallInv, InDecoder
<1>7. DrainInv'
  <2>1. draining => in_pkt = NoPacket
    BY DEF DrainInv
  <2>2. d = 0 \/ (d = 1 /\ draining_done')
    <3>1. h.drains = 0
      BY <1>1 DEF DrainInv
    <3> QED
      BY <1>1, <1>3, <3>1 DEF Drains
  <2> QED
    BY <1>1, <1>2, <1>4, <2>1, <2>2, SetupQuiet DEF DrainInv, NoPacket
<1>8. AnswerInv'
  BY <1>1, <1>2, <1>4, <1>7, SetupQuiet
  DEF AnswerInv, Asked, DrainEndsOnce, ReadyAccepts, InDecoder, DrainInv
<1>9. UnitOrder' /\ UnitsAccounted' /\ ToSet(h'.fed) = ToSet(h.fed) \union ToSet(in_pkt)
  <2>1. Increasing(in_pkt) /\ Before(ToSet(in_pkt), ToSet(in_pkt'))
        /\ ToSet(in_pkt) = ToSet(in_pkt) \union ToSet(in_pkt') /\ Increasing(in_pkt')
    BY <1>1, EmptyFacts DEF UnitOrder, Before
  <2>2. h.lost \subseteq h'.lost /\ pc' # "send"
    BY <1>1, <1>3, <1>4
  <2> QED
    BY <1>1, <1>3, <1>4, <2>1, <2>2, UnitsFed
<1>10. Pending = {} /\ Pending' = {}
  BY <1>1, <1>2 DEF Pending, Frame
<1>11. FrameOrder'
  <2>1. Increasing(held') /\ ToSet(held') \subseteq ToSet(held)
    BY <1>1, EmptyFacts DEF FrameOrder
  <2> QED
    BY <1>4, <1>9, <1>10, <2>1 DEF FrameOrder, Before
<1>12. FramesAccounted'
  <2>1. ToSet(held) \subseteq ToSet(held') \union h'.lost /\ h.lost \subseteq h'.lost
    BY <1>1, <1>3, <1>4
  <2> QED
    BY <1>4, <1>10, <2>1 DEF FramesAccounted
<1>13. LoopInv'
  BY <1>1, SetupQuiet DEF LoopInv, NoData, Ended
<1>14. SyncInv'
  BY <1>1, <1>2 DEF SyncInv, Regular
<1> QED
  BY <1>5, <1>6, <1>7, <1>8, <1>9, <1>11, <1>12, <1>13, <1>14

LEMMA LeaveInternalStep ==
  ASSUME DecodeInv, LeaveInternal, UNCHANGED setup
  PROVE  DecodeInv'
<1> USE DEF DecodeInv
<1>1. /\ pc = "left" /\ call \in Calls /\ h \in Histories /\ h.lost \in SUBSET Nat
      /\ call.op \in {"send", "receive"} /\ call.ret \in {"OK", "ERR", "EAGAIN", "EOF"}
      /\ call.frame \in Nat /\ buffer_frame = NoFrame
      /\ call.ret = "OK" <=> call.frame # NoFrame
      /\ draining_done' = (draining_done \/ call.ret = "EOF") /\ draining_done' \in BOOLEAN
      /\ UNCHANGED <<setup, bsf, in_pkt, draining, consumed, partial_size, held, rest, last>>
  BY CallFields, HistoryFields DEF LeaveInternal, DecodeTypeOK, CallInv, InDecoder
<1>2. PICK r \in (IF call.ret = "OK" THEN {"OK", "ERR"} ELSE {call.ret}) :
       LET f == IF r = "OK" THEN call.frame ELSE NoFrame IN
       /\ h' = [h EXCEPT !.lost = IF r # call.ret THEN @ \union {call.frame} ELSE @]
       /\ IF call.op = "send"
          THEN /\ buffer_frame' = f
               /\ call' = [call EXCEPT !.ret = IF r = "ERR" THEN r ELSE "OK", !.frame = NoFrame]
               /\ pc' = "sent"
          ELSE /\ call' = [call EXCEPT !.ret = r, !.frame = f]
               /\ pc' = IF r = "OK" THEN "crop" ELSE "received"
               /\ UNCHANGED buffer_frame
  BY DEF LeaveInternal
<1>3. PICK f \in Nat, L \in SUBSET Nat :
        /\ f = (IF r = "OK" THEN call.frame ELSE NoFrame)
        /\ L = (IF r # call.ret THEN h.lost \union {call.frame} ELSE h.lost)
        /\ h' = [h EXCEPT !.lost = L]
  <2>1. (IF r = "OK" THEN call.frame ELSE NoFrame) \in Nat
    BY <1>1 DEF NoFrame
  <2>2. (IF r # call.ret THEN h.lost \union {call.frame} ELSE h.lost) \in SUBSET Nat
    BY <1>1
  <2> QED
    BY <1>2, <2>1, <2>2
<1>4. /\ h' \in Histories /\ h'.base = h.base /\ h'.sent = h.sent /\ h'.fed = h.fed
      /\ h'.made = h.made /\ h'.out = h.out /\ h'.eos = h.eos /\ h'.drains = h.drains
      /\ h'.flushes = h.flushes /\ h'.err = h.err /\ h'.lost = L /\ h.lost \subseteq L
  <2>1. h \in Histories /\ h' = [h EXCEPT !.lost = L]
    BY <1>1, <1>3
  <2>2. h.lost \subseteq L
    BY <1>3
  <2>3. /\ h' \in Histories /\ h'.base = h.base /\ h'.sent = h.sent /\ h'.fed = h.fed
        /\ h'.made = h.made /\ h'.out = h.out /\ h'.eos = h.eos /\ h'.drains = h.drains
        /\ h'.flushes = h.flushes /\ h'.err = h.err /\ h'.lost = L
    BY <2>1 DEF Histories
  <2> QED
    BY <2>2, <2>3
<1>5. /\ r \in {"OK", "ERR", "EAGAIN", "EOF"} /\ (r # "ERR" => r = call.ret)
      /\ r # call.ret => r = "ERR" /\ call.ret = "OK"
      /\ r = "OK" <=> f # NoFrame
  BY <1>1, <1>2, <1>3
<1>6. /\ call' \in Calls /\ call'.op = call.op /\ call'.pkt = call.pkt /\ call'.eos = call.eos
      /\ call.op = "send" => /\ pc' = "sent" /\ buffer_frame' = f /\ call'.frame = NoFrame
                             /\ call'.ret = IF r = "ERR" THEN "ERR" ELSE "OK"
      /\ call.op = "receive" => /\ pc' = IF r = "OK" THEN "crop" ELSE "received"
                                /\ buffer_frame' = NoFrame /\ call'.frame = f /\ call'.ret = r
  <2>1. CASE call.op = "send"
    <3>1. PICK q \in {"ERR", "OK"} : /\ q = IF r = "ERR" THEN "ERR" ELSE "OK"
                                     /\ call' = [call EXCEPT !.ret = q, !.frame = NoFrame]
      BY <1>2, <2>1
    <3>2. /\ call' \in Calls /\ call'.op = call.op /\ call'.pkt = call.pkt
          /\ call'.eos = call.eos /\ call'.ret = q /\ call'.frame = NoFrame
      BY <1>1, <3>1 DEF Calls, Rets, NoFrame
    <3> QED
      BY <1>2, <1>3, <2>1, <3>1, <3>2
  <2>2. CASE call.op = "receive"
    <3>1. call' = [call EXCEPT !.ret = r, !.frame = f] /\ r \in Rets
      BY <1>2, <1>3, <1>5, <2>2 DEF Rets
    <3>2. /\ call' \in Calls /\ call'.op = call.op /\ call'.pkt = call.pkt
          /\ call'.eos = call.eos /\ call'.ret = r /\ call'.frame = f
      BY <1>1, <3>1 DEF Calls
    <3> QED
      BY <1>1, <1>2, <2>2, <3>2
  <2> QED
    BY <1>1, <2>1, <2>2
<1>7. DecodeTypeOK'
  <2>1. buffer_frame' \in Nat
    BY <1>1, <1>6 DEF NoFrame
  <2> QED
    BY <1>1, <1>4, <1>6, <2>1, SetupQuiet DEF DecodeTypeOK, Locations
<1>8. CallInv'
  BY <1>1, <1>4, <1>5, <1>6 DEF CallInv, InDecoder
<1>9. DrainInv'
  BY <1>1, <1>4, <1>6, SetupQuiet, ZenonT(60) DEF DrainInv
<1>10. AnswerInv'
  <2>1. pc' = "received" /\ call'.ret = "EAGAIN" => Ready
    BY <1>1, <1>5, <1>6 DEF AnswerInv
  <2> QED
    BY <1>1, <1>4, <1>5, <1>6, <2>1, SetupQuiet, ReadyQuiet
    DEF AnswerInv, Asked, DrainEndsOnce, ReadyAccepts, InDecoder
<1>11. UnitOrder' /\ UnitsAccounted'
  <2>1. pc' # "send"
    BY <1>1, <1>6
  <2> QED
    BY <1>1, <1>4, <2>1, UnitsQuiet
<1>12. Pending' \subseteq Pending /\ Pending \subseteq Pending' \union h'.lost
  <2>1. Pending = {call.frame} \ {NoFrame} /\ Pending' = {f} \ {NoFrame}
    BY <1>1, <1>6, <1>5 DEF Pending, Frame
  <2> QED
    BY <1>1, <1>3, <1>4, <1>5, <2>1
<1>13. FrameOrder' /\ FramesAccounted'
  BY <1>1, <1>4, <1>12, FramesQuiet
<1>14. LoopInv'
  <2>1. SUFFICES ASSUME Loop, Api = "new" PROVE LoopInv'
    BY SetupQuiet DEF LoopInv
  <2>2. ASSUME pc' = "received", call'.ret = "EOF" PROVE Ended'
    <3>1. r = "EOF" /\ call.ret = "EOF" /\ draining_done' = TRUE
      BY <1>1, <1>5, <1>6, <2>2
    <3>2. draining /\ held = <<>> /\ in_pkt = NoPacket /\ bsf[NbBsfs].eof
      BY <1>1, <3>1 DEF DrainInv
    <3>3. \A j \in 1..NbBsfs : NoData(j)
      BY <2>1, <3>2, SetupQuiet DEF LoopInv
    <3>4. Pending' = {}
      BY <1>1, <1>12, <3>1 DEF Pending, Frame
    <3> QED
      BY <1>1, <3>1, <3>2, <3>3, <3>4, SetupQuiet DEF Ended, NoData
  <2>3. ASSUME last[2].op = "receive", last[2].ret = "EOF" PROVE Ended'
    <3>1. Ended
      BY <2>1, <2>3 DEF LoopInv
    <3> QED
      BY <1>1, <1>12, <3>1, SetupQuiet DEF Ended, NoData
  <2> QED
    BY <1>1, <2>1, <2>2, <2>3, SetupQuiet DEF LoopInv, NoData
<1>15. SyncInv'
  <2>1. SUFFICES ASSUME Regular' PROVE SyncInv'
    BY DEF SyncInv
  <2>2. Regular
    BY <1>1, <1>4, <1>5, <1>6, <2>1, SetupQuiet DEF Regular
  <2> QED
    BY <1>1, <1>6, <2>2 DEF SyncInv
<1> QED
  BY <1>7, <1>8, <1>9, <1>10, <1>11, <1>13, <1>14, <1>15

(* The frame on its way reaches the user. *)
LEMMA FramesOut ==
  ASSUME DecodeTypeOK, FrameOrder, FramesAccounted, NEW x \in Unit, Pending = {x}, Pending' = {},
         h.out \in Seq(Unit), h'.out = Append(h.out, x), h'.made = h.made, held' = held,
         h'.fed = h.fed, h'.lost = h.lost
  PROVE  FrameOrder' /\ FramesAccounted'
<1>1. ToSet(h'.out) = ToSet(h.out) \union {x}
  BY AppendFacts
<1>2. Increasing(h'.out)
  <2>1. Before(ToSet(h.out), {x})
    BY DEF FrameOrder, Before
  <2> QED
    BY <2>1, AppendFacts DEF FrameOrder
<1>3. FrameOrder'
  <2>1. Before(ToSet(h'.out), Pending' \union ToSet(held'))
    BY <1>1 DEF FrameOrder, Before
  <2>2. ToSet(h'.out) \union Pending' \union ToSet(held') \subseteq ToSet(h'.fed)
    BY <1>1 DEF FrameOrder
  <2>3. Before(Pending', ToSet(held'))
    BY DEF Before
  <2> QED
    BY <1>2, <2>1, <2>2, <2>3 DEF FrameOrder
<1>4. FramesAccounted'
  BY <1>1 DEF FramesAccounted
<1> QED
  BY <1>3, <1>4

---------------------------------------------------------------------------
(***************************************************************************)
(* The user of the new API.                                                *)
(***************************************************************************)
LEMMA ReturnToUserStep ==
  ASSUME DecodeInv, ReturnToUser, UNCHANGED setup
  PROVE  DecodeInv'
<1> USE DEF DecodeInv
<1>1. /\ Api = "new" /\ pc \in {"sent", "received"} /\ pc' = "idle" /\ call' = NoCall
      /\ call \in Calls /\ h \in Histories /\ h.out \in Seq(Unit) /\ call.frame \in Nat
      /\ call.ret \in Rets /\ call.eos \in BOOLEAN /\ call.pkt \in Seq(Unit)
      /\ last \in Answers \X Answers
      /\ UNCHANGED <<setup, bsf, in_pkt, buffer_frame, draining, draining_done, consumed,
                     partial_size, held, rest>>
  BY CallFields, HistoryFields DEF ReturnToUser, Answer, DecodeTypeOK
<1>2. PICK a \in Answers :
        /\ last' = <<last[2], a>> /\ a.ret = call.ret /\ a.eos = call.eos
        /\ pc = "sent" => a.op = "send" /\ h' = h
        /\ pc = "received" =>
             /\ a.op = "receive"
             /\ h' = [h EXCEPT !.out = IF call.frame # NoFrame THEN Append(@, call.frame) ELSE @]
  <2>1. CASE pc = "sent"
    <3> DEFINE a == [op |-> "send", ret |-> call.ret, eos |-> call.eos, n |-> 0,
                     size |-> Len(call.pkt), got |-> FALSE]
    <3>1. a \in Answers /\ a.ret = call.ret /\ a.eos = call.eos /\ a.op = "send"
      BY <1>1 DEF Answers
    <3>2. last' = <<last[2], a>> /\ h' = h
      BY <2>1 DEF ReturnToUser, Answer
    <3> QED
      BY <2>1, <3>1, <3>2
  <2>2. CASE pc = "received"
    <3> DEFINE a == [op |-> "receive", ret |-> call.ret, eos |-> call.eos, n |-> 0,
                     size |-> 0, got |-> call.frame # NoFrame]
    <3>1. a \in Answers /\ a.ret = call.ret /\ a.eos = call.eos /\ a.op = "receive"
      BY <1>1 DEF Answers
    <3>2. /\ last' = <<last[2], a>>
          /\ h' = [h EXCEPT !.out = IF call.frame # NoFrame THEN Append(@, call.frame) ELSE @]
      BY <2>2 DEF ReturnToUser, Answer
    <3> QED
      BY <2>2, <3>1, <3>2
  <2> QED
    BY <1>1, <2>1, <2>2
<1>3. PICK O \in Seq(Unit) :
        /\ O = (IF Frame # NoFrame THEN Append(h.out, Frame) ELSE h.out)
        /\ pc = "received" => h' = [h EXCEPT !.out = O]
        /\ pc = "sent" => h' = h /\ O = h.out
  <2>1. Frame = IF pc = "received" THEN call.frame ELSE NoFrame
    BY <1>1 DEF Frame
  <2>2. (IF Frame # NoFrame THEN Append(h.out, Frame) ELSE h.out) \in Seq(Unit)
    BY <1>1, <2>1, AppendFacts DEF Unit, NoFrame
  <2> QED
    BY <1>1, <1>2, <2>1, <2>2
<1>4. /\ h' \in Histories /\ h'.out = O /\ h'.base = h.base /\ h'.sent = h.sent
      /\ h'.fed = h.fed /\ h'.made = h.made /\ h'.lost = h.lost /\ h'.eos = h.eos
      /\ h'.drains = h.drains /\ h'.flushes = h.flushes /\ h'.err = h.err
  <2>1. CASE pc = "sent"
    BY <1>1, <1>3, <2>1
  <2>2. CASE pc = "received"
    <3>1. h \in Histories /\ h' = [h EXCEPT !.out = O]
      BY <1>1, <1>3, <2>2
    <3> QED
      BY <3>1 DEF Histories
  <2> QED
    BY <1>1, <2>1, <2>2
<1>5. last' \in Answers \X Answers /\ last'[1] = last[2] /\ last'[2] = a
  BY <1>1, <1>2
<1>6. DecodeTypeOK'
  BY <1>1, <1>4, <1>5, NoCallFields, SetupQuiet DEF DecodeTypeOK, Locations
<1>7. CallInv'
  BY <1>1, <1>4, NoCallFields DEF CallInv, InDecoder
<1>8. DrainInv'
  BY <1>1, <1>4, SetupQuiet DEF DrainInv
<1>9. AnswerInv'
  <2>1. DrainEndsOnce'
    <3>1. ASSUME a.op = "receive", a.eos, a.ret = "EAGAIN" PROVE FALSE
      <4>1. Ready /\ h.eos
        BY <1>1, <1>2, <3>1 DEF AnswerInv, CallInv
      <4>2. bsf[1] = FreshBsf
        BY <4>1, SetupQuiet DEF Ready, FreshFrom
      <4> QED
        BY <4>1, <4>2, FreshFields DEF DrainInv
    <3> QED
      BY <1>4, <1>5, <3>1 DEF DrainEndsOnce, AnswerInv
  <2>2. ReadyAccepts'
    <3>1. ASSUME a.op = "send", Asked PROVE a.ret \in {"OK", "ERR"}
      BY <1>1, <1>2, <3>1 DEF AnswerInv
    <3> QED
      BY <1>5, <3>1 DEF ReadyAccepts, Asked
  <2>3. Asked' => Ready'
    BY <1>1, <1>2, <1>5, ReadyQuiet DEF AnswerInv, Asked
  <2>4. last'[2].op # "compat"
    BY <1>1, <1>2, <1>5
  <2> QED
    BY <1>1, <2>1, <2>2, <2>3, <2>4, SetupQuiet DEF AnswerInv, InDecoder
<1>10. UnitOrder' /\ UnitsAccounted'
  BY <1>1, <1>4, UnitsQuiet
<1>11. /\ pc = "received" /\ Frame # NoFrame => Pending = {Frame} /\ Frame \in Unit
       /\ pc = "received" => Pending' = {}
       /\ pc = "sent" => Pending' = Pending
       /\ Frame = NoFrame => Pending' = Pending
  BY <1>1 DEF Pending, Frame, CallInv, InDecoder, Unit, NoFrame
<1>12. FrameOrder' /\ FramesAccounted'
  <2>1. CASE Frame # NoFrame
    <3>1. pc = "received"
      BY <1>1, <2>1 DEF Frame
    <3>2. PICK x \in Unit : x = Frame
      BY <1>11, <2>1, <3>1
    <3> QED
      BY <1>1, <1>3, <1>4, <1>11, <2>1, <3>1, <3>2, FramesOut
  <2>2. CASE Frame = NoFrame
    BY <1>1, <1>3, <1>4, <1>11, <2>2, FramesQuiet
  <2> QED
    BY <2>1, <2>2
<1>13. LoopInv'
  <2>1. SUFFICES ASSUME Loop PROVE LoopInv'
    BY SetupQuiet DEF LoopInv
  <2>2. ASSUME a.op = "receive", a.ret = "EOF" PROVE Ended'
    <3>1. pc = "received" /\ Ended
      BY <1>1, <1>2, <2>1, <2>2 DEF LoopInv
    <3> QED
      BY <1>1, <1>11, <3>1, SetupQuiet DEF Ended, NoData
  <2> QED
    BY <1>1, <1>5, <2>1, <2>2, SetupQuiet DEF LoopInv, NoData
<1>14. SyncInv'
  BY <1>1, SetupQuiet DEF SyncInv, Regular
<1> QED
  BY <1>6, <1>7, <1>8, <1>9, <1>10, <1>12, <1>13, <1>14

(* The units of a new packet are the next ones. *)
LEMMA NewUnitsFacts ==
  ASSUME h \in Histories, NEW n \in Nat
  PROVE  /\ NewUnits(n) \in Seq(Unit) /\ Len(NewUnits(n)) = n /\ Increasing(NewUnits(n))
         /\ ToSet(NewUnits(n)) = (h.base + h.sent + 1)..(h.base + h.sent + n)
         /\ n = 0 <=> NewUnits(n) = <<>>
<1> DEFINE b == h.base + h.sent  s == NewUnits(n)
<1>1. b \in Nat
  BY HistoryFields
<1>2. /\ s \in Seq(Unit) /\ Len(s) = n /\ DOMAIN s = 1..n /\ \A i \in 1..n : s[i] = b + i
  BY <1>1 DEF NewUnits, Unit
<1> HIDE DEF b, s
<1>3. Increasing(s)
  BY <1>1, <1>2 DEF Increasing
<1>4. ToSet(s) = (b + 1)..(b + n)
  <2>1. ASSUME NEW x \in (b + 1)..(b + n) PROVE x \in ToSet(s)
    <3>1. x - b \in 1..n /\ b + (x - b) = x
      BY <1>1
    <3> QED
      BY <1>2, <3>1 DEF ToSet
  <2>2. ASSUME NEW i \in 1..n PROVE s[i] \in (b + 1)..(b + n)
    BY <1>1, <1>2
  <2> QED
    BY <1>2, <2>1, <2>2 DEF ToSet
<1> QED
  BY <1>2, <1>3, <1>4 DEF b, s

LEMMA AvcodecSendPacketStep ==
  ASSUME DecodeInv, NEW n \in 0..MaxUnits, AvcodecSendPacket(n), UNCHANGED setup
  PROVE  DecodeInv'
<1> USE DEF DecodeInv
<1>1. /\ pc = "idle" /\ pc' = "send" /\ Api = "new" /\ MaySend /\ n \in Nat
      /\ h \in Histories /\ h.eos \in BOOLEAN
      /\ UNCHANGED <<setup, bsf, in_pkt, buffer_frame, draining, draining_done, consumed,
                     partial_size, held, rest, last, h>>
  BY HistoryFields, DecodeBoundsAssumption DEF AvcodecSendPacket, DecodeTypeOK
<1>2. PICK u \in Seq(Unit) :
        /\ u = NewUnits(n) /\ Increasing(u)
        /\ ToSet(u) = (h.base + h.sent + 1)..(h.base + h.sent + Len(u))
  BY <1>1, NewUnitsFacts
<1>3. /\ call' \in Calls /\ call'.pkt = u /\ call'.eos = h.eos /\ call'.op = "none"
      /\ call'.ret = "OK" /\ call'.frame = NoFrame
  <2>1. call' = [NoCall EXCEPT !.pkt = u, !.eos = h.eos]
    BY <1>2 DEF AvcodecSendPacket
  <2> QED
    BY <1>1, <2>1 DEF NoCall, Calls, Rets, NoFrame, NoPacket
<1>4. DecodeTypeOK'
  BY <1>1, <1>3, SetupQuiet DEF DecodeTypeOK, Locations
<1>5. CallInv'
  BY <1>1, <1>3 DEF CallInv, InDecoder
<1>6. DrainInv'
  BY <1>1, SetupQuiet DEF DrainInv
<1>7. AnswerInv'
  BY <1>1, SetupQuiet, ReadyQuiet
  DEF AnswerInv, Asked, DrainEndsOnce, ReadyAccepts, InDecoder, MaySend
<1>8. UnitOrder' /\ UnitsAccounted'
  <2>1. NbBsfs' = NbBsfs /\ SentUnits' = SentUnits /\ AllData' = AllData
        /\ \A i \in 1..NbBsfs : Data(i)' = Data(i)
    BY <1>1 DEF NbBsfs, Bsfs, SentUnits, AllData, Data
  <2>2. UnitOrder'
    BY <1>1, <1>2, <1>3, <2>1 DEF UnitOrder
  <2>3. UnitsAccounted'
    BY <1>1, <2>1 DEF UnitsAccounted
  <2> QED
    BY <2>2, <2>3
<1>9. Pending' = Pending
  BY <1>1 DEF Pending, Frame
<1>10. FrameOrder' /\ FramesAccounted'
  BY <1>1, <1>9, FramesQuiet
<1>11. LoopInv'
  BY <1>1, <1>9, SetupQuiet DEF LoopInv, NoData, Ended
<1>12. SyncInv'
  BY <1>1, SetupQuiet DEF SyncInv, Regular
<1> QED
  BY <1>4, <1>5, <1>6, <1>7, <1>8, <1>10, <1>11, <1>12

LEMMA AvcodecReceiveFrameStep ==
  ASSUME DecodeInv, AvcodecReceiveFrame, UNCHANGED setup
  PROVE  DecodeInv'
<1> USE DEF DecodeInv
<1>1. /\ pc = "idle" /\ pc' = "receive" /\ Api = "new" /\ h \in Histories /\ h.eos \in BOOLEAN
      /\ UNCHANGED <<setup, bsf, in_pkt, buffer_frame, draining, draining_done, consumed,
                     partial_size, held, rest, last, h>>
  BY HistoryFields DEF AvcodecReceiveFrame, DecodeTypeOK
<1>2. call' \in Calls /\ call'.eos = h.eos
  <2>1. PICK b \in BOOLEAN : b = h.eos /\ call' = [NoCall EXCEPT !.eos = b]
    BY <1>1 DEF AvcodecReceiveFrame
  <2>2. call' = [NoCall EXCEPT !.eos = b]
    BY <2>1
  <2>3. NoCall \in Calls
    BY NoCallFields
  <2>4. call' \in Calls /\ call'.eos = b
    BY <2>2, <2>3 DEF Calls
  <2> QED
    BY <2>1, <2>4
<1>3. DecodeTypeOK'
  BY <1>1, <1>2, SetupQuiet DEF DecodeTypeOK, Locations
<1>4. CallInv'
  BY <1>1, <1>2 DEF CallInv, InDecoder
<1>5. DrainInv'
  BY <1>1, SetupQuiet DEF DrainInv
<1>6. AnswerInv'
  BY <1>1, SetupQuiet, ReadyQuiet
  DEF AnswerInv, Asked, DrainEndsOnce, ReadyAccepts, InDecoder
<1>7. UnitOrder' /\ UnitsAccounted'
  BY <1>1, UnitsQuiet
<1>8. Pending' = Pending
  BY <1>1 DEF Pending, Frame
<1>9. FrameOrder' /\ FramesAccounted'
  BY <1>1, <1>8, FramesQuiet
<1>10. LoopInv'
  BY <1>1, <1>8, SetupQuiet DEF LoopInv, NoData, Ended
<1>11. SyncInv'
  BY <1>1, SetupQuiet DEF SyncInv, Regular
<1> QED
  BY <1>3, <1>4, <1>5, <1>6, <1>7, <1>9, <1>10, <1>11

(* Nothing is left, and the decoder asks for input again. *)
LEMMA FlushBuffersStep ==
  ASSUME DecodeInv, FlushBuffers, UNCHANGED setup
  PROVE  DecodeInv'
<1> USE DEF DecodeInv
<1>1. /\ pc = "idle" /\ pc' = "idle" /\ call = NoCall /\ call' = NoCall
      /\ draining' = FALSE /\ draining_done' = FALSE /\ buffer_frame' = NoFrame
      /\ in_pkt' = <<>> /\ held' = <<>> /\ rest' = <<>> /\ last' = <<NoAnswer, NoAnswer>>
      /\ h \in Histories /\ h.base \in Nat /\ h.sent \in Nat /\ h.flushes \in Nat
      /\ NbBsfs' = NbBsfs /\ NbBsfs \in Nat /\ 1 \in 1..NbBsfs
      /\ UNCHANGED <<setup, consumed, partial_size>>
  BY SetupQuiet, HistoryFields DEF FlushBuffers, CallInv, DecodeTypeOK, NoPacket
<1>2. /\ bsf' \in [1..NbBsfs -> Bsf] /\ \A i \in 1..NbBsfs : bsf'[i] = FreshBsf
      /\ \A i \in 1..NbBsfs : /\ bsf'[i].split = <<>> /\ bsf'[i].buffer_pkt = <<>>
                              /\ bsf'[i].eof = FALSE
  BY FreshFields DEF FlushBuffers, FlushedBsf
<1>3. PICK b \in Nat, f \in Nat :
        /\ b = h.base + h.sent /\ f = h.flushes + 1 /\ f # 0
        /\ h' = [h EXCEPT !.base = b, !.sent = 0, !.fed = <<>>, !.made = <<>>,
                          !.out = <<>>, !.lost = {}, !.eos = FALSE, !.drains = 0,
                          !.flushes = f, !.err = FALSE]
  <2>1. h.base + h.sent \in Nat /\ h.flushes + 1 \in Nat /\ h.flushes + 1 # 0
    BY <1>1
  <2> QED
    BY <2>1 DEF FlushBuffers
<1>4. /\ h' \in Histories /\ h'.base = b /\ h'.sent = 0 /\ h'.fed = <<>> /\ h'.made = <<>>
      /\ h'.out = <<>> /\ h'.lost = {} /\ h'.eos = FALSE /\ h'.drains = 0 /\ h'.flushes = f
  <2>1. /\ h \in Histories
        /\ h' = [h EXCEPT !.base = b, !.sent = 0, !.fed = <<>>, !.made = <<>>,
                          !.out = <<>>, !.lost = {}, !.eos = FALSE, !.drains = 0,
                          !.flushes = f, !.err = FALSE]
    BY <1>1, <1>3
  <2>2. DOMAIN h = {"base", "sent", "fed", "made", "out", "lost", "eos", "drains", "flushes", "err"}
    BY <2>1 DEF Histories
  <2>3. h' = [base |-> b, sent |-> 0, fed |-> <<>>, made |-> <<>>, out |-> <<>>, lost |-> {},
              eos |-> FALSE, drains |-> 0, flushes |-> f, err |-> FALSE]
    BY <2>1 DEF Histories
  <2> QED
    BY <2>3, EmptyFacts DEF Histories
<1>5. /\ last' \in Answers \X Answers /\ last'[1] = NoAnswer /\ last'[2] = NoAnswer
      /\ NoAnswer.op = "none" /\ NoAnswer.ret = "OK"
  BY <1>1 DEF NoAnswer, Answers, Rets
<1>6. DecodeTypeOK'
  BY <1>1, <1>2, <1>4, <1>5, NoCallFields, EmptyFacts DEF DecodeTypeOK, Locations, NoFrame
<1>7. CallInv'
  BY <1>1, NoCallFields DEF CallInv, InDecoder, NoPacket
<1>8. DrainInv'
  BY <1>1, <1>2, <1>4 DEF DrainInv
<1>9. AnswerInv'
  <2>1. Ready'
    BY <1>1, <1>2 DEF Ready, FreshFrom, NoPacket
  <2> QED
    BY <1>1, <1>4, <1>5, <2>1 DEF AnswerInv, Asked, DrainEndsOnce, ReadyAccepts, InDecoder
<1>10. SentUnits' = {} /\ \A i \in 1..NbBsfs : Data(i)' = {}
  BY <1>2, <1>4, EmptyFacts DEF SentUnits, Data
<1>11. UnitOrder'
  BY <1>1, <1>2, <1>4, <1>10, EmptyFacts DEF UnitOrder, Before
<1>12. UnitsAccounted'
  BY <1>10 DEF UnitsAccounted
<1>13. Pending' = {}
  BY <1>1 DEF Pending, Frame
<1>14. FrameOrder'
  BY <1>1, <1>4, <1>13, EmptyFacts DEF FrameOrder, Before
<1>15. FramesAccounted'
  BY <1>4, EmptyFacts DEF FramesAccounted
<1>16. LoopInv'
  BY <1>1, <1>2, <1>5 DEF LoopInv
<1>17. SyncInv'
  BY <1>3, <1>4 DEF SyncInv, Regular
<1> QED
  BY <1>6, <1>7, <1>8, <1>9, <1>11, <1>12, <1>14, <1>15, <1>16, <1>17

---------------------------------------------------------------------------
(***************************************************************************)
(* compat_decode().                                                        *)
(***************************************************************************)

(* A call with packet u, which is new or the rest of the last one. *)
LEMMA CompatDecodeStep ==
  ASSUME DecodeInv, NEW u \in Seq(Unit), CompatDecode(u), UNCHANGED setup,
         partial_size = 0 =>
           Increasing(u) /\ ToSet(u) = (h.base + h.sent + 1)..(h.base + h.sent + Len(u)),
         Regular /\ partial_size = 0 /\ bsf[1].eof => u = <<>>,
         Regular /\ partial_size > 0 /\ partial_size = Len(u) => u = rest
  PROVE  DecodeInv'
<1> USE DEF DecodeInv
<1>1. /\ pc = "idle" /\ Api = "compat" /\ partial_size \in Nat /\ Len(u) \in Nat
      /\ pc' = (IF partial_size > 0 THEN IF partial_size # Len(u) THEN "finish" ELSE "receive"
                ELSE "send")
      /\ UNCHANGED <<setup, bsf, in_pkt, buffer_frame, draining, draining_done, consumed,
                     partial_size, held, rest, last, h>>
  BY DEF CompatDecode, DecodeTypeOK
<1>2. /\ call' \in Calls /\ call'.pkt = u /\ call'.eos = FALSE /\ call'.op = "none"
      /\ call'.frame = NoFrame /\ (pc' = "finish" => call'.ret = "EINVAL")
  <2>1. PICK r \in {"EINVAL", "OK"} :
          /\ call' = [NoCall EXCEPT !.pkt = u, !.ret = r] /\ (pc' = "finish" => r = "EINVAL")
    BY <1>1 DEF CompatDecode
  <2>2. call' = [NoCall EXCEPT !.pkt = u, !.ret = r]
    BY <2>1
  <2>3. /\ call' \in Calls /\ call'.pkt = u /\ call'.eos = FALSE /\ call'.op = "none"
        /\ call'.frame = NoFrame /\ call'.ret = r
    BY <2>2 DEF NoCall, Calls, Rets, NoFrame, NoPacket
  <2> QED
    BY <2>1, <2>3
<1>3. DecodeTypeOK'
  BY <1>1, <1>2, SetupQuiet DEF DecodeTypeOK, Locations
<1>4. CallInv'
  BY <1>1, <1>2 DEF CallInv, InDecoder
<1>5. DrainInv'
  BY <1>1, SetupQuiet DEF DrainInv
<1>6. AnswerInv'
  BY <1>1, SetupQuiet DEF AnswerInv, DrainEndsOnce, ReadyAccepts
<1>7. UnitOrder' /\ UnitsAccounted'
  <2>1. NbBsfs' = NbBsfs /\ SentUnits' = SentUnits /\ AllData' = AllData
        /\ \A i \in 1..NbBsfs : Data(i)' = Data(i)
    BY <1>1 DEF NbBsfs, Bsfs, SentUnits, AllData, Data
  <2>2. pc' = "send" => partial_size = 0
    BY <1>1
  <2>3. UnitOrder'
    BY <1>1, <1>2, <2>1, <2>2 DEF UnitOrder
  <2>4. UnitsAccounted'
    BY <1>1, <2>1 DEF UnitsAccounted
  <2> QED
    BY <2>3, <2>4
<1>8. Pending' = Pending
  BY <1>1 DEF Pending, Frame
<1>9. FrameOrder' /\ FramesAccounted'
  BY <1>1, <1>8, FramesQuiet
<1>10. LoopInv'
  BY <1>1, SetupQuiet DEF LoopInv
<1>11. SyncInv'
  <2>1. SUFFICES ASSUME Regular' PROVE SyncInv'
    BY DEF SyncInv
  <2>2. Regular
    BY <1>1, <2>1, SetupQuiet DEF Regular
  <2>3. /\ bsf[1].buffer_pkt = NoPacket /\ in_pkt = rest /\ consumed = 0
        /\ buffer_frame = NoFrame /\ partial_size = Len(rest) /\ rest \in Seq(Unit)
        /\ bsf[1].eof => rest = NoPacket
    BY <1>1, <2>2 DEF SyncInv, DecodeTypeOK
  <2>4. CASE partial_size = 0
    <3>0. rest = <<>>
      BY <2>3, <2>4, EmptySeq
    <3>1. rest = NoPacket /\ pc' = "send"
      BY <1>1, <2>4, <3>0 DEF NoPacket
    <3> QED
      BY <1>1, <1>2, <2>2, <2>3, <2>4, <3>1 DEF SyncInv, NoPacket
  <2>5. CASE partial_size > 0
    <3>1. pc' = "receive" /\ u = rest /\ rest # NoPacket
      BY <1>1, <1>2, <2>1, <2>2, <2>3, <2>5, EmptyFacts DEF Regular, NoPacket
    <3>2. consumed <= Len(u) /\ in_pkt = SubSeq(u, consumed + 1, Len(u))
      BY <1>1, <2>3, <3>1, SubSeqWhole
    <3> QED
      BY <1>1, <1>2, <2>3, <3>1, <3>2 DEF SyncInv
  <2> QED
    BY <1>1, <2>4, <2>5
<1> QED
  BY <1>3, <1>4, <1>5, <1>6, <1>7, <1>9, <1>10, <1>11

LEMMA CompatNewStep ==
  ASSUME DecodeInv, NEW n \in 0..MaxUnits, CompatNew(n), UNCHANGED setup
  PROVE  DecodeInv'
<1>1. n \in Nat /\ h \in Histories /\ pc = "idle" /\ Api = "compat" /\ rest \in Seq(Unit)
  BY DecodeBoundsAssumption DEF DecodeInv, DecodeTypeOK, CompatNew, CompatDecode
<1>2. PICK u \in Seq(Unit) :
        /\ u = NewUnits(n) /\ Increasing(u) /\ Len(u) = n /\ (n = 0 <=> u = <<>>)
        /\ ToSet(u) = (h.base + h.sent + 1)..(h.base + h.sent + Len(u))
  BY <1>1, NewUnitsFacts
<1>3. CompatDecode(u)
  BY <1>2 DEF CompatNew
<1>4. bsf[1].eof => u = <<>>
  BY <1>2 DEF CompatNew, DecodeInv, DrainInv
<1>5. ASSUME Regular, partial_size > 0, partial_size = Len(u) PROVE FALSE
  <2>1. partial_size = Len(rest)
    BY <1>1, <1>5 DEF DecodeInv, SyncInv
  <2> QED
    BY <1>2, <1>5, <2>1, EmptyFacts DEF CompatNew, NoPacket
<1> QED
  BY <1>2, <1>3, <1>4, <1>5, CompatDecodeStep

LEMMA CompatRestStep ==
  ASSUME DecodeInv, CompatRest, UNCHANGED setup
  PROVE  DecodeInv'
<1>1. PICK u \in Seq(Unit) : u = rest /\ u # <<>> /\ CompatDecode(u)
  BY DEF CompatRest, DecodeInv, DecodeTypeOK, NoPacket
<1>2. partial_size = Len(u) /\ Len(u) > 0
  BY <1>1 DEF DecodeInv, CallInv, NoPacket
<1> QED
  BY <1>1, <1>2, CompatDecodeStep

LEMMA CompatSentStep ==
  ASSUME DecodeInv, CompatSent, UNCHANGED setup
  PROVE  DecodeInv'
<1> USE DEF DecodeInv
<1>1. /\ pc = "sent" /\ pc' \in {"receive", "finish"} /\ Api = "compat" /\ call \in Calls
      /\ UNCHANGED <<setup, bsf, in_pkt, buffer_frame, draining, draining_done, consumed,
                     partial_size, held, rest, last, h>>
  BY DEF CompatSent, DecodeTypeOK
<1>2. /\ call' \in Calls /\ call'.pkt = call.pkt /\ call'.eos = call.eos
      /\ pc' = "receive" => call.ret \in {"OK", "EOF"}
      /\ pc' = "finish" => call'.ret \notin {"OK", "EAGAIN", "EOF"}
  <2>1. CASE call.ret \in {"OK", "EOF"}
    BY <1>1, <2>1 DEF CompatSent
  <2>2. CASE call.ret \notin {"OK", "EOF"}
    <3>1. PICK r \in Rets :
            r \notin {"OK", "EAGAIN", "EOF"} /\ call' = [call EXCEPT !.ret = r]
      <4>1. (IF call.ret = "EAGAIN" THEN "BUG" ELSE call.ret) \in Rets \ {"OK", "EAGAIN", "EOF"}
        BY <1>1, <2>2, CallFields DEF Rets
      <4> QED
        BY <2>2, <4>1 DEF CompatSent
    <3>2. /\ call' \in Calls /\ call'.pkt = call.pkt /\ call'.eos = call.eos /\ call'.ret = r
      BY <1>1, <3>1, CallRet
    <3>3. pc' = "finish"
      BY <2>2 DEF CompatSent
    <3> QED
      BY <3>1, <3>2, <3>3
  <2> QED
    BY <2>1, <2>2
<1>3. DecodeTypeOK'
  BY <1>1, <1>2, SetupQuiet DEF DecodeTypeOK, Locations
<1>4. CallInv'
  BY <1>1, <1>2 DEF CallInv, InDecoder
<1>5. DrainInv'
  BY <1>1, SetupQuiet DEF DrainInv
<1>6. AnswerInv'
  BY <1>1, SetupQuiet DEF AnswerInv, DrainEndsOnce, ReadyAccepts
<1>7. UnitOrder' /\ UnitsAccounted'
  BY <1>1, UnitsQuiet
<1>8. Pending' = Pending
  BY <1>1 DEF Pending, Frame
<1>9. FrameOrder' /\ FramesAccounted'
  BY <1>1, <1>8, FramesQuiet
<1>10. LoopInv'
  BY <1>1, SetupQuiet DEF LoopInv
<1>11. SyncInv'
  BY <1>1, <1>2, SetupQuiet DEF SyncInv, Regular
<1> QED
  BY <1>3, <1>4, <1>5, <1>6, <1>7, <1>9, <1>10, <1>11

(* A frame is given to the user or dropped. *)
LEMMA CompatReceivedStep ==
  ASSUME DecodeInv, CompatReceived, UNCHANGED setup
  PROVE  DecodeInv'
<1> USE DEF DecodeInv
<1>1. /\ pc = "received" /\ pc' \in {"receive", "finish"} /\ Api = "compat"
      /\ call \in Calls /\ h \in Histories /\ h.out \in Seq(Unit) /\ h.lost \in SUBSET Nat
      /\ call.frame \in Nat /\ call.ret \in Rets /\ buffer_frame = NoFrame
      /\ call.ret = "OK" <=> call.frame # NoFrame
      /\ UNCHANGED <<setup, bsf, in_pkt, buffer_frame, draining, draining_done, consumed,
                     partial_size, held, rest, last>>
  BY CallFields, HistoryFields DEF CompatReceived, DecodeTypeOK, CallInv
<1>2. /\ call' \in Calls /\ call'.pkt = call.pkt /\ call'.eos = call.eos
      /\ pc' = "finish" /\ call'.ret \in {"OK", "EAGAIN", "EOF"} => call.ret \in {"OK", "EAGAIN", "EOF"}
      /\ pc' = "receive" => call.ret = "OK"
  <2>1. CASE call' = [call EXCEPT !.ret = "OK"] /\ call.ret \in {"EAGAIN", "EOF"} /\ pc' = "finish"
    <3>1. "OK" \in Rets
      BY DEF Rets
    <3> QED
      BY <1>1, <2>1, <3>1, CallRet
  <2>2. CASE call' = call /\ call.ret = "ERR" /\ pc' = "finish"
    BY <1>1, <2>2
  <2>3. CASE call' = [call EXCEPT !.got = TRUE] /\ call.ret = "OK"
    <3>1. call' = [call EXCEPT !.got = TRUE]
      BY <2>3
    <3> QED
      BY <1>1, <2>3, <3>1 DEF Calls
  <2>4. CASE call' = [call EXCEPT !.ret = "ERR"] /\ call.ret = "OK" /\ pc' = "finish"
    <3>1. "ERR" \in Rets
      BY DEF Rets
    <3> QED
      BY <1>1, <2>4, <3>1, CallRet
  <2> QED
    BY <2>1, <2>2, <2>3, <2>4 DEF CompatReceived
<1>3. PICK O \in Seq(Unit), L \in SUBSET Nat :
        /\ \/ call.frame = NoFrame /\ h' = h /\ O = h.out /\ L = h.lost
           \/ call.frame # NoFrame /\ h' = [h EXCEPT !.lost = L] /\ O = h.out
              /\ L = h.lost \union {call.frame}
           \/ call.frame # NoFrame /\ h' = [h EXCEPT !.out = O] /\ L = h.lost
              /\ O = Append(h.out, call.frame)
  <2>1. call.frame # NoFrame => call.frame \in Unit
    BY <1>1 DEF Unit, NoFrame
  <2>2. call.frame # NoFrame => Append(h.out, call.frame) \in Seq(Unit)
    BY <1>1, <2>1, AppendFacts
  <2>3. h.lost \union {call.frame} \in SUBSET Nat
    BY <1>1
  <2>4. \/ call.frame = NoFrame /\ h' = h
        \/ call.frame # NoFrame /\ h' = [h EXCEPT !.lost = h.lost \union {call.frame}]
        \/ call.frame # NoFrame /\ h' = [h EXCEPT !.out = Append(h.out, call.frame)]
    BY <1>1 DEF CompatReceived
  <2> QED
    BY <1>1, <2>2, <2>3, <2>4
<1>4. /\ h' \in Histories /\ h'.out = O /\ h'.lost = L /\ h'.base = h.base /\ h'.sent = h.sent
      /\ h'.fed = h.fed /\ h'.made = h.made /\ h'.eos = h.eos
      /\ h'.drains = h.drains /\ h'.flushes = h.flushes /\ h'.err = h.err
  <2>1. CASE h' = h /\ O = h.out /\ L = h.lost
    BY <1>1, <2>1
  <2>2. CASE h' = [h EXCEPT !.lost = L] /\ O = h.out
    <3>1. h \in Histories /\ h' = [h EXCEPT !.lost = L]
      BY <1>1, <2>2
    <3>2. /\ h' \in Histories /\ h'.out = h.out /\ h'.lost = L /\ h'.base = h.base
          /\ h'.sent = h.sent /\ h'.fed = h.fed /\ h'.made = h.made /\ h'.eos = h.eos
          /\ h'.drains = h.drains /\ h'.flushes = h.flushes /\ h'.err = h.err
      BY <3>1 DEF Histories
    <3> QED
      BY <2>2, <3>2
  <2>3. CASE h' = [h EXCEPT !.out = O] /\ L = h.lost
    <3>1. h \in Histories /\ h' = [h EXCEPT !.out = O]
      BY <1>1, <2>3
    <3>2. /\ h' \in Histories /\ h'.out = O /\ h'.lost = h.lost /\ h'.base = h.base
          /\ h'.sent = h.sent /\ h'.fed = h.fed /\ h'.made = h.made /\ h'.eos = h.eos
          /\ h'.drains = h.drains /\ h'.flushes = h.flushes /\ h'.err = h.err
      BY <3>1 DEF Histories
    <3> QED
      BY <2>3, <3>2
  <2> QED
    BY <1>3, <2>1, <2>2, <2>3
<1>5. DecodeTypeOK'
  BY <1>1, <1>2, <1>4, SetupQuiet DEF DecodeTypeOK, Locations
<1>6. CallInv'
  BY <1>1, <1>2, <1>4 DEF CallInv, InDecoder
<1>7. DrainInv'
  BY <1>1, <1>4, SetupQuiet DEF DrainInv
<1>8. AnswerInv'
  BY <1>1, <1>4, SetupQuiet DEF AnswerInv, DrainEndsOnce, ReadyAccepts
<1>9. UnitOrder' /\ UnitsAccounted'
  <2>1. h.lost \subseteq h'.lost
    BY <1>3, <1>4
  <2> QED
    BY <1>1, <1>4, <2>1, UnitsQuiet
<1>10. Pending = {call.frame} \ {NoFrame} /\ Pending' = {}
  BY <1>1 DEF Pending, Frame
<1>11. FrameOrder' /\ FramesAccounted'
  <2>1. CASE O = Append(h.out, call.frame) /\ L = h.lost /\ call.frame # NoFrame
    <3>1. PICK x \in Unit : x = call.frame
      BY <1>1, <2>1 DEF Unit, NoFrame
    <3>2. Pending = {x}
      BY <1>10, <2>1, <3>1
    <3> QED
      BY <1>1, <1>4, <1>10, <2>1, <3>1, <3>2, FramesOut
  <2>2. CASE O = h.out /\ h.lost \subseteq L /\ Pending \subseteq L
    BY <1>1, <1>4, <1>10, <2>2, FramesQuiet
  <2> QED
    BY <1>3, <1>10, <2>1, <2>2
<1>12. LoopInv'
  BY <1>1, SetupQuiet DEF LoopInv
<1>13. SyncInv'
  <2>1. SUFFICES ASSUME Regular' PROVE SyncInv'
    BY DEF SyncInv
  <2>2. Regular
    BY <1>1, <1>2, <1>4, <2>1, SetupQuiet DEF Regular
  <2> QED
    BY <1>1, <1>2, <2>2, SetupQuiet DEF SyncInv
<1> QED
  BY <1>5, <1>6, <1>7, <1>8, <1>9, <1>11, <1>12, <1>13

(* What compat_decode() says is left of the packet is what it counted. *)
LEMMA CompatFinishStep ==
  ASSUME DecodeInv, CompatFinish, UNCHANGED setup
  PROVE  DecodeInv'
<1> USE DEF DecodeInv
<1>1. /\ pc = "finish" /\ pc' = "idle" /\ call' = NoCall /\ consumed' = 0
      /\ call \in Calls /\ h \in Histories /\ h.err \in BOOLEAN /\ last \in Answers \X Answers
      /\ call.pkt \in Seq(Unit) /\ Len(call.pkt) \in Nat /\ call.ret \in Rets
      /\ call.eos \in BOOLEAN /\ call.got \in BOOLEAN /\ consumed \in Nat
      /\ UNCHANGED <<setup, bsf, in_pkt, buffer_frame, draining, draining_done, held>>
  BY CallFields, HistoryFields DEF CompatFinish, Answer, DecodeTypeOK
<1>2. Api = "compat"
  BY <1>1, SetupsAssumption DEF AnswerInv, Api, DecodeTypeOK
<1>3. PICK n \in 0..Len(call.pkt) :
        /\ n = (IF call.ret = "OK" THEN CompatUsed ELSE 0)
        /\ partial_size' = IF call.ret = "OK" THEN Len(call.pkt) - n ELSE 0
        /\ rest' = IF call.ret = "OK" THEN SubSeq(call.pkt, n + 1, Len(call.pkt)) ELSE NoPacket
        /\ Answer("compat", call.ret, n, Len(call.pkt), call.got)
  <2>1. (IF call.ret = "OK" THEN CompatUsed ELSE 0) \in 0..Len(call.pkt)
    BY <1>1 DEF CompatUsed, Smaller
  <2> QED
    BY <2>1 DEF CompatFinish
<1>4. rest' \in Seq(Unit) /\ partial_size' \in Nat /\ partial_size' = Len(rest')
  <2>1. SubSeq(call.pkt, n + 1, Len(call.pkt)) \in Seq(Unit)
    BY <1>1, CutFacts
  <2>2. Len(SubSeq(call.pkt, n + 1, Len(call.pkt))) = Len(call.pkt) - n
    BY <1>1
  <2>3. Len(call.pkt) - n \in Nat
    BY <1>1
  <2>4. NoPacket \in Seq(Unit) /\ Len(NoPacket) = 0
    BY EmptyFacts DEF NoPacket
  <2> QED
    BY <1>1, <1>3, <2>1, <2>2, <2>3, <2>4
<1>5. PICK e \in BOOLEAN : e = (h.err \/ call.ret # "OK") /\ h' = [h EXCEPT !.err = e]
  BY <1>1 DEF CompatFinish
<1>6. /\ h' \in Histories /\ h'.err = e /\ h'.out = h.out /\ h'.lost = h.lost /\ h'.base = h.base
      /\ h'.sent = h.sent /\ h'.fed = h.fed /\ h'.made = h.made /\ h'.eos = h.eos
      /\ h'.drains = h.drains /\ h'.flushes = h.flushes
  <2>1. h \in Histories /\ h' = [h EXCEPT !.err = e]
    BY <1>1, <1>5
  <2> QED
    BY <2>1 DEF Histories
<1>7. PICK a \in Answers : last' = <<last[2], a>> /\ a.op = "compat"
  <2> DEFINE a == [op |-> "compat", ret |-> call.ret, eos |-> call.eos, n |-> n,
                   size |-> Len(call.pkt), got |-> call.got]
  <2>1. a \in Answers /\ a.op = "compat"
    BY <1>1 DEF Answers
  <2>2. last' = <<last[2], a>>
    BY <1>3 DEF Answer
  <2> QED
    BY <2>1, <2>2
<1>8. last' \in Answers \X Answers /\ last'[1] = last[2] /\ last'[2] = a
  BY <1>1, <1>7
<1>9. DecodeTypeOK'
  BY <1>1, <1>4, <1>6, <1>8, NoCallFields, SetupQuiet DEF DecodeTypeOK, Locations
<1>10. CallInv'
  BY <1>1, <1>4, NoCallFields DEF CallInv, InDecoder
<1>11. DrainInv'
  BY <1>1, <1>6, SetupQuiet DEF DrainInv
<1>12. AnswerInv'
  BY <1>1, <1>2, <1>6, <1>7, <1>8, SetupQuiet DEF AnswerInv, DrainEndsOnce, ReadyAccepts
<1>13. UnitOrder' /\ UnitsAccounted'
  BY <1>1, <1>6, UnitsQuiet
<1>14. Pending' = Pending
  BY <1>1 DEF Pending, Frame
<1>15. FrameOrder' /\ FramesAccounted'
  BY <1>1, <1>6, <1>14, FramesQuiet
<1>16. LoopInv'
  BY <1>2, SetupQuiet DEF LoopInv
<1>17. SyncInv'
  <2>1. SUFFICES ASSUME Regular' PROVE SyncInv'
    BY DEF SyncInv
  <2>2. Regular /\ call.ret = "OK" /\ ~HasBsfs
    <3>1. ~e /\ ~HasBsfs' /\ Api' = "compat" /\ h'.flushes = 0
      BY <1>6, <2>1 DEF Regular
    <3>2. ~h.err /\ call.ret = "OK"
      BY <1>1, <1>5, <3>1
    <3> QED
      BY <1>1, <1>2, <1>6, <3>1, <3>2, SetupQuiet DEF Regular
  <2>3. /\ bsf[1].buffer_pkt = NoPacket /\ consumed <= Len(call.pkt)
        /\ in_pkt = SubSeq(call.pkt, consumed + 1, Len(call.pkt))
        /\ bsf[1].eof => call.pkt = NoPacket
    BY <1>1, <2>2 DEF SyncInv
  <2>4. n = consumed
    BY <1>1, <1>3, <2>2, <2>3 DEF CompatUsed, Smaller
  <2>5. in_pkt = rest' /\ buffer_frame = NoFrame
    BY <1>1, <1>3, <2>2, <2>3, <2>4 DEF CallInv
  <2>6. bsf[1].eof => rest' = NoPacket
    <3>1. ASSUME call.pkt = NoPacket PROVE rest' = NoPacket
      <4>1. n = Len(call.pkt)
        BY <1>1, <3>1, EmptyFacts DEF NoPacket
      <4>2. SubSeq(call.pkt, n + 1, Len(call.pkt)) = <<>>
        BY <1>1, <4>1, CutFacts
      <4> QED
        BY <1>3, <4>2 DEF NoPacket
    <3> QED
      BY <2>3, <3>1
  <2> QED
    BY <1>1, <1>4, <2>3, <2>5, <2>6, NoCallFields DEF SyncInv, NoPacket
<1> QED
  BY <1>9, <1>10, <1>11, <1>12, <1>13, <1>15, <1>16, <1>17

---------------------------------------------------------------------------
(***************************************************************************)
(* The invariant.                                                          *)
(***************************************************************************)
LEMMA InitInv == Init => DecodeInv
<1>1. SUFFICES ASSUME Init PROVE DecodeInv
  OBVIOUS
<1>2. /\ setup \in Setups /\ in_pkt = <<>> /\ buffer_frame = NoFrame /\ ~draining
      /\ ~draining_done /\ draining \in BOOLEAN /\ draining_done \in BOOLEAN
      /\ consumed = 0 /\ partial_size = 0 /\ held = <<>> /\ pc = "idle" /\ call = NoCall
      /\ rest = <<>> /\ last = <<NoAnswer, NoAnswer>>
  BY <1>1 DEF Init, NoPacket
<1>3. NbBsfs \in Nat /\ 1 \in 1..NbBsfs /\ NbBsfs \in 1..NbBsfs
  <2>1. Bsfs \in Seq({"null", "split"}) /\ Bsfs # <<>>
    BY <1>2, SetupsAssumption DEF Bsfs
  <2> QED
    BY <2>1 DEF NbBsfs
<1>4. /\ bsf \in [1..NbBsfs -> Bsf]
      /\ \A i \in 1..NbBsfs : /\ bsf[i] = FreshBsf /\ bsf[i].split = <<>>
                              /\ bsf[i].buffer_pkt = <<>> /\ bsf[i].eof = FALSE
  BY <1>1, FreshFields DEF Init
<1>5. /\ h \in Histories /\ h.base = 0 /\ h.sent = 0 /\ h.fed = <<>> /\ h.made = <<>>
      /\ h.out = <<>> /\ h.lost = {} /\ h.eos = FALSE /\ h.drains = 0 /\ h.flushes = 0
  BY <1>1, EmptyFacts DEF Init, Histories
<1>6. /\ last \in Answers \X Answers /\ last[1] = NoAnswer /\ last[2] = NoAnswer
      /\ NoAnswer.op = "none" /\ NoAnswer.ret = "OK"
  BY <1>2 DEF NoAnswer, Answers, Rets
<1>7. DecodeTypeOK
  BY <1>2, <1>4, <1>5, <1>6, NoCallFields, EmptyFacts DEF DecodeTypeOK, Locations, NoFrame
<1>8. CallInv
  BY <1>2, NoCallFields DEF CallInv, InDecoder, NoPacket
<1>9. DrainInv
  BY <1>2, <1>3, <1>4, <1>5 DEF DrainInv
<1>10. AnswerInv
  <2>1. Ready
    BY <1>2, <1>4 DEF Ready, FreshFrom, NoPacket
  <2> QED
    BY <1>2, <1>5, <1>6, <2>1 DEF AnswerInv, Asked, DrainEndsOnce, ReadyAccepts, InDecoder
<1>11. SentUnits = {} /\ \A i \in 1..NbBsfs : Data(i) = {}
  BY <1>4, <1>5, EmptyFacts DEF SentUnits, Data
<1>12. UnitOrder
  BY <1>2, <1>4, <1>5, <1>11, EmptyFacts DEF UnitOrder, Before
<1>13. UnitsAccounted
  BY <1>11 DEF UnitsAccounted
<1>14. Pending = {}
  BY <1>2 DEF Pending, Frame
<1>15. FrameOrder
  BY <1>2, <1>5, <1>14, EmptyFacts DEF FrameOrder, Before
<1>16. FramesAccounted
  BY <1>5, EmptyFacts DEF FramesAccounted
<1>17. LoopInv
  BY <1>2, <1>4, <1>6 DEF LoopInv
<1>18. SyncInv
  BY <1>2, <1>3, <1>4, EmptyFacts DEF SyncInv, NoPacket
<1> QED
  BY <1>7, <1>8, <1>9, <1>10, <1>12, <1>13, <1>15, <1>16, <1>17, <1>18 DEF DecodeInv

LEMMA NextInv == DecodeInv /\ [Next]_vars => DecodeInv'
<1> SUFFICES ASSUME DecodeInv, [Next]_vars PROVE DecodeInv'
  OBVIOUS
<1>1. CASE Library
  <2>1. UNCHANGED setup
    BY <1>1 DEF Library
  <2>2. CASE SendRejected \/ SendAccepted \/ ReceiveFrame \/ Crop
    BY <2>1, <2>2, SendRejectedStep, SendAcceptedStep, ReceiveFrameStep, CropStep
  <2>3. CASE SimpleBegin \/ PollEmpty \/ PollEof \/ PollPacket \/ PollFails
    BY <2>1, <2>3, SimpleBeginStep, PollEmptyStep, PollEofStep, PollPacketStep, PollFailsStep
  <2>4. CASE DecodeEof \/ DecodeCall \/ DecodeFails \/ LeaveInternal
    BY <2>1, <2>4, DecodeEofStep, DecodeCallStep, DecodeFailsStep, LeaveInternalStep
  <2>5. CASE ReturnToUser \/ CompatSent \/ CompatReceived \/ CompatFinish
    BY <2>1, <2>5, ReturnToUserStep, CompatSentStep, CompatReceivedStep, CompatFinishStep
  <2> QED
    BY <1>1, <2>2, <2>3, <2>4, <2>5 DEF Library
<1>2. CASE User
  <2>1. UNCHANGED setup
    BY <1>2 DEF User
  <2>2. ASSUME NEW n \in 0..MaxUnits, AvcodecSendPacket(n) \/ CompatNew(n) PROVE DecodeInv'
    BY <2>1, <2>2, AvcodecSendPacketStep, CompatNewStep
  <2>3. CASE AvcodecReceiveFrame \/ CompatRest \/ FlushBuffers
    BY <2>1, <2>3, AvcodecReceiveFrameStep, CompatRestStep, FlushBuffersStep
  <2> QED
    BY <1>2, <2>2, <2>3 DEF User
<1>3. CASE UNCHANGED vars
  <2>1. UNCHANGED <<setup, bsf, in_pkt, buffer_frame, draining, draining_done, consumed,
                    partial_size, held, pc, call, rest, last, h>>
    BY <1>3 DEF vars
  <2>2. DecodeTypeOK
    BY DEF DecodeInv
  <2> USE DEF DecodeInv
  <2>3. DecodeTypeOK'
    BY <2>1, <2>2, SetupQuiet DEF DecodeTypeOK
  <2>4. CallInv'
    BY <2>1, <2>2, SetupQuiet, CallFields DEF CallInv, FreshFrom, DecodeTypeOK
  <2>5. DrainInv'
    BY <2>1, <2>2, SetupQuiet DEF DrainInv
  <2>6. AnswerInv'
    BY <2>1, <2>2, SetupQuiet, ReadyQuiet DEF AnswerInv, Asked, DrainEndsOnce, ReadyAccepts
  <2>7. UnitOrder' /\ UnitsAccounted'
    <3>1. NbBsfs' = NbBsfs /\ SentUnits' = SentUnits /\ AllData' = AllData
          /\ \A i \in 1..NbBsfs : Data(i)' = Data(i)
      BY <2>1 DEF NbBsfs, Bsfs, SentUnits, AllData, Data
    <3>2. UnitOrder'
      BY <2>1, <3>1 DEF UnitOrder
    <3>3. UnitsAccounted'
      BY <2>1, <3>1 DEF UnitsAccounted
    <3> QED
      BY <3>2, <3>3
  <2>8. Pending' = Pending
    BY <2>1 DEF Pending, Frame
  <2>9. FrameOrder' /\ FramesAccounted'
    BY <2>1, <2>8, FramesQuiet
  <2>10. LoopInv'
    BY <2>1, <2>2, <2>8, SetupQuiet DEF LoopInv, NoData, Ended
  <2>11. SyncInv'
    BY <2>1, <2>2, SetupQuiet DEF SyncInv, Regular
  <2> QED
    BY <2>3, <2>4, <2>5, <2>6, <2>7, <2>9, <2>10, <2>11
<1> QED
  BY <1>1, <1>2, <1>3 DEF Next

(* The inductive invariant holds in every reachable state.  It says where  *)
(* the data of decode.c is, from avcodec_send_packet() through the filters *)
(* of bsfs_poll() and in_pkt to the codec, and where its frames are.       *)
THEOREM DecodeInvariant == Spec => []DecodeInv
<1>1. Init => DecodeInv
  BY InitInv
<1>2. DecodeInv /\ [Next]_vars => DecodeInv'
  BY NextInv
<1> QED
  BY <1>1, <1>2, PTL DEF Spec

(* Whatever filters are chained and whether send or receive runs the       *)
(* decoder, the codec gets the data once and in the order in which it was  *)
(* sent, and the user gets the frames once and in order.                   *)
THEOREM DecodedInOrder == Spec => []InOrder
<1>1. DecodeInv => InOrder
  BY DEF DecodeInv, UnitOrder, FrameOrder, InOrder
<1> QED
  BY <1>1, DecodeInvariant, PTL

(* A user who calls avcodec_receive_frame() until EAGAIN before each       *)
(* packet has, at EOF, everything decode.c did not lose with an error.     *)
THEOREM LoopLosesNothing == Spec => []LoopDrainComplete
<1>1. DecodeInv => LoopDrainComplete
  <2>1. SUFFICES ASSUME DecodeInv, Loop, last[2].op = "receive", last[2].ret = "EOF"
                 PROVE  /\ (h.base + 1)..(h.base + h.sent) \subseteq ToSet(h.fed) \union h.lost
                        /\ ToSet(h.made) \subseteq ToSet(h.out) \union h.lost
    BY DEF LoopDrainComplete, DrainComplete
  <2>2. Api = "new"
    BY <2>1, SetupsAssumption DEF DecodeInv, AnswerInv, DecodeTypeOK, Api
  <2>3. /\ in_pkt = <<>> /\ held = <<>> /\ Pending = {}
        /\ \A i \in 1..NbBsfs : bsf[i].split = <<>> /\ bsf[i].buffer_pkt = <<>>
    BY <2>1, <2>2 DEF DecodeInv, LoopInv, Ended, NoData, NoPacket
  <2>4. AllData = {}
    BY <2>3, EmptyFacts DEF AllData, Data
  <2>5. SentUnits \subseteq ToSet(h.fed) \union h.lost
    BY <2>1, <2>3, <2>4, EmptyFacts DEF DecodeInv, UnitsAccounted
  <2>6. ToSet(h.made) \subseteq ToSet(h.out) \union h.lost
    BY <2>1, <2>3, EmptyFacts DEF DecodeInv, FramesAccounted
  <2> QED
    BY <2>5, <2>6 DEF SentUnits
<1> QED
  BY <1>1, DecodeInvariant, PTL

(* Once a flush packet was accepted avcodec_receive_frame() does not ask   *)
(* for input, and draining_done keeps the codec from a second drain packet *)
(* after the one that gave no frame.                                       *)
THEOREM DrainsOnce == Spec => []DrainEndsOnce
<1>1. DecodeInv => DrainEndsOnce
  BY DEF DecodeInv, AnswerInv
<1> QED
  BY <1>1, DecodeInvariant, PTL

(* avcodec_send_packet() never answers EAGAIN, EOF or EINVAL to the first  *)
(* packet after avcodec_receive_frame() answered EAGAIN, nor to the first  *)
(* one after the codec was opened or flushed.                              *)
THEOREM EagainIsAPromise == Spec => []ReadyAccepts
<1>1. DecodeInv => ReadyAccepts
  BY DEF DecodeInv, AnswerInv
<1> QED
  BY <1>1, DecodeInvariant, PTL

(* The size compat_decode() returns leaves the user with the same rest of  *)
(* the packet as the decoder has in in_pkt.                                *)
THEOREM CompatAgreesWithUser == Spec => []CompatInSync
<1>1. DecodeInv => CompatInSync
  <2>1. SUFFICES ASSUME DecodeInv, pc = "idle", last[2].op = "compat", ~HasBsfs, ~h.err,
                        h.flushes = 0
                 PROVE  in_pkt = rest
    BY DEF CompatInSync
  <2>2. Api = "compat"
    BY <2>1, SetupsAssumption DEF DecodeInv, AnswerInv, DecodeTypeOK, Api
  <2> QED
    BY <2>1, <2>2 DEF DecodeInv, SyncInv, Regular
<1> QED
  BY <1>1, DecodeInvariant, PTL
=============================================================================
