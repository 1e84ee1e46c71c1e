---------------------------- MODULE PlayerProofs ----------------------------
(***************************************************************************)
(* Proofs about Player, for any size of the picture queue, any file and    *)
(* any number of seeks and pauses.                                         *)
(*                                                                         *)
(* NoTearing follows from the accounting of the picture queue: although    *)
(* size and the two indices change in separate steps, the slots from       *)
(* rindex up to windex are always the Unread ones.  ShowOrder follows from *)
(* the picture of the player as one pipeline: the picture shown, the       *)
(* picture queue, the picture V has, the decoder, the packet queue and the *)
(* position in the file are stages, and whatever is in an earlier stage    *)
(* comes earlier in the stream.                                            *)
(***************************************************************************)
EXTENDS Player, TLAPS

---------------------------------------------------------------------------
(***************************************************************************)
(* The type invariant.                                                     *)
(***************************************************************************)
Pictures == [e : Int, n : Int]
Packets  == [k : {"flush", "null", "packet"}, e : Int, n : Int]
SlotType == [pic : Pictures, target : Int, bmp : BOOLEAN, allocated : BOOLEAN]
DPcs == {"top", "idle", "putflush", "read", "eof", "close", "wake", "join", "exit"}
VPcs == {"top", "get", "zero", "drain", "full", "slot", "alloc", "copy", "count",
         "end", "exit"}
MPcs == {"loop", "ref", "retry", "refdone", "due", "assert", "drop", "dropped", "showing",
         "dec", "lockfilter", "alloc", "allocated", "close", "join", "exit"}

PlayerTypeOK ==
  /\ setup \in Setups
  /\ videoq \in Seq(Packets) /\ qabort \in BOOLEAN
  /\ pictq \in [Slots -> SlotType]
  /\ size \in 0..QueueSize /\ rindex \in Slots /\ windex \in Slots
  /\ abort_request \in BOOLEAN /\ video_st \in BOOLEAN
  /\ events \in Seq({"refresh", "alloc", "quit"})
  /\ dpc \in DPcs /\ epoch \in Nat /\ pos \in Nat
  /\ vpc \in VPcs /\ vi \in Nat /\ vpic \in Pictures /\ decoder \in Seq(Pictures)
  /\ mpc \in MPcs
  /\ shown \in Pictures /\ flushed \in Int

---------------------------------------------------------------------------
(***************************************************************************)
(* The picture queue.                                                      *)
(***************************************************************************)

(* The pictures from rindex to windex: V moves windex before it counts the *)
(* picture, M moves rindex before it discounts one.                        *)
Unread == size + (IF vpc = "count" THEN 1 ELSE 0)
               - (IF mpc \in {"dec", "dropped"} THEN 1 ELSE 0)

RingInv == windex = rindex + Unread \/ windex = rindex + Unread - QueueSize

(* What V and M have found out about size still holds when they use it. *)
RoomInv ==
  /\ vpc \in {"slot", "alloc"} => size < QueueSize \/ qabort
  /\ vpc \in {"copy", "count"} => size < QueueSize
  /\ mpc \in {"due", "assert", "drop", "showing", "dec", "dropped"} => size > 0

(* At most one request for an overlay is on its way, as an event or in M,  *)
(* and V waits for it until it ends.                                       *)
Requests == {i \in DOMAIN events : events[i] = "alloc"}
Allocating == Requests # {} \/ mpc \in {"lockfilter", "alloc", "allocated"}

AllocInv ==
  /\ \A i, j \in Requests : i = j
  /\ mpc \in {"lockfilter", "alloc", "allocated"} => Requests = {}
  /\ Allocating => vpc \in {"alloc", "end", "exit"}
  /\ Allocating /\ vpc = "alloc" => ~pictq[windex].allocated

QueueInv == RingInv /\ RoomInv /\ AllocInv

---------------------------------------------------------------------------
(***************************************************************************)
(* The pipeline.                                                           *)
(***************************************************************************)
Ending == vpc \in {"end", "exit"}

(* Slot i holds a picture that is still to be shown. *)
Off(i) == IF i >= rindex THEN i - rindex ELSE i - rindex + QueueSize
Live(i) == Off(i) < Unread /\ (mpc = "showing" => i # rindex)

(* The stages, as sets of positions in the stream.  The flush packet comes *)
(* before the first picture after its seek.                                *)
Pos(p) == [e |-> p.e, n |-> IF p.k = "flush" THEN -1 ELSE p.n]

PicturesIn(d) == {d[i] : i \in DOMAIN d}
PacketsIn(q) == {Pos(q[i]) : i \in {j \in DOMAIN q : q[j].k # "null"}}

Ring == {pictq[i].pic : i \in {j \in Slots : Live(j)}}
Pend == IF vpc \in {"full", "slot", "alloc", "copy", "zero", "drain"} THEN {vpic} ELSE {}
Dec  == IF Ending THEN {} ELSE PicturesIn(decoder)
Que  == IF Ending THEN {} ELSE PacketsIn(videoq)
Here == IF Ending THEN {}
        ELSE {[e |-> epoch, n |-> IF dpc = "putflush" THEN -1 ELSE pos]}

Ordered(A, B) == \A a \in A, b \in B : Before(a, b)

(* Each stage is in order. *)
RingOrder ==
  \A i, j \in Slots :
    Live(i) /\ Live(j) /\ Off(i) < Off(j) => Before(pictq[i].pic, pictq[j].pic)

PicturesOrder(d) == \A i, j \in DOMAIN d : i < j => Before(d[i], d[j])

PacketsOrder(q) ==
  \A i, j \in DOMAIN q :
    i < j /\ q[i].k # "null" /\ q[j].k # "null" => Before(Pos(q[i]), Pos(q[j]))

(* And the stages are, from the picture shown to the position in the file. *)
Pipeline(s, R, P, D, Q, H) ==
  /\ Ordered({s}, R \union P \union D \union Q \union H)
  /\ Ordered(R, P \union D \union Q \union H)
  /\ Ordered(P, D \union Q \union H)
  /\ Ordered(D, Q \union H)
  /\ Ordered(Q, H)

StageOrder == Pipeline(shown, Ring, Pend, Dec, Que, Here)

OrderInv ==
  /\ RingOrder
  /\ ~Ending => PicturesOrder(decoder) /\ PacketsOrder(videoq)
  /\ StageOrder

(* No picture is missing: the one before a picture that is not the first   *)
(* after a seek is in the pipeline too, unless pictures are dropped.       *)
Coming == Ring \union Pend \union Dec \union Que \union Here
Pred(p) == [e |-> p.e, n |-> p.n - 1]
Gapless(s, C) == \A b \in C : b.n > 0 => Pred(b) \in {s} \union C
GaplessInv == ~setup.framedrop /\ video_st => Gapless(shown, Coming)

(* A picture has a number, a flush packet is before all of them. *)
NumberInv ==
  /\ shown.n >= -1
  /\ vpc \in {"zero", "drain"} => decoder = <<>> /\ vpic.n = -1
  /\ vpc \in {"full", "slot", "alloc", "copy"} => vpic.n >= 0
  /\ \A b \in Ring \union Dec : b.n >= 0
  /\ ~Ending => \A i \in DOMAIN videoq : videoq[i].k = "packet" => videoq[i].n >= 0

(* Nothing older than the last flush is left.  Once the player closes, V   *)
(* does not wait for it any more and M does not show it.                   *)
FlushInv == ~abort_request => \A b \in Coming : b.e >= flushed

(* Why closing and flushing do not meet: D closes because the user quits,  *)
(* and then M is past showing pictures, or at the end of the file, when V  *)
(* has taken the empty packet that D put there after every flush packet.   *)
Closing == dpc \in {"close", "wake", "join", "exit"}

CloseInv ==
  /\ qabort => Closing
  /\ abort_request => mpc \in {"join", "exit"}
  /\ Closing => abort_request \/ (videoq = <<>> /\ vpc \notin {"zero", "drain"})
  /\ dpc = "eof" /\ videoq # <<>> => videoq[Len(videoq)].k = "null"
  /\ dpc = "eof" /\ videoq = <<>> => vpc \notin {"zero", "drain"}
  /\ dpc = "putflush" => pos = 0

PipeInv == OrderInv /\ NumberInv /\ GaplessInv /\ FlushInv

PlayerInv == PlayerTypeOK /\ QueueInv /\ CloseInv /\ PipeInv

---------------------------------------------------------------------------
(***************************************************************************)
(* Types.                                                                  *)
(***************************************************************************)

(* The indices run around the picture queue. *)
LEMMA SuccFacts ==
  ASSUME NEW i \in Slots
  PROVE  /\ Succ(i) \in Slots
         /\ Succ(i) = IF i = QueueSize - 1 THEN 0 ELSE i + 1
<1>1. CASE i = QueueSize - 1
  <2>1. Succ(i) = QueueSize % QueueSize
    BY <1>1, SizeAssumption DEF Succ
  <2>2. \A q \in Nat \ {0} : q % q = 0
    OBVIOUS
  <2> QED
    BY <1>1, <2>1, <2>2, SizeAssumption DEF Slots
<1>2. CASE i # QueueSize - 1
  <2>1. i + 1 \in 0..(QueueSize - 1) /\ QueueSize \in Nat \ {0}
    BY <1>2, SizeAssumption DEF Slots
  <2>2. \A q \in Nat \ {0} : \A x \in 0..(q - 1) : x % q = x
    OBVIOUS
  <2> QED
    BY <1>2, <2>1, <2>2 DEF Slots, Succ
<1> QED
  BY <1>1, <1>2

(* Taking the first element of a sequence. *)
LEMMA TakeFirst ==
  ASSUME NEW S, NEW s \in Seq(S), s # <<>>
  PROVE  /\ Head(s) \in S /\ Head(s) = s[1] /\ Tail(s) \in Seq(S)
         /\ Len(s) \in Nat /\ Len(s) >= 1 /\ DOMAIN s = 1..Len(s)
         /\ Len(Tail(s)) = Len(s) - 1 /\ DOMAIN Tail(s) = 1..(Len(s) - 1)
         /\ \A i \in 1..(Len(s) - 1) : Tail(s)[i] = s[i + 1]
  OBVIOUS

(* Adding one at the end. *)
LEMMA AddLast ==
  ASSUME NEW S, NEW s \in Seq(S), NEW x \in S
  PROVE  /\ Append(s, x) \in Seq(S) /\ Append(s, x) # <<>>
         /\ Len(s) \in Nat /\ DOMAIN s = 1..Len(s)
         /\ Len(Append(s, x)) = Len(s) + 1 /\ DOMAIN Append(s, x) = 1..(Len(s) + 1)
         /\ Append(s, x)[Len(s) + 1] = x
         /\ \A i \in 1..Len(s) : Append(s, x)[i] = s[i]
  OBVIOUS

(* Steps of D keep the types. *)
LEMMA TypeDemux ==
  ASSUME PlayerTypeOK, Demux
  PROVE  PlayerTypeOK'
<1> USE DEF PlayerTypeOK, DPcs
<1>1. [Flush EXCEPT !.e = epoch] \in Packets /\ Null \in Packets
      /\ [k |-> "packet", e |-> epoch, n |-> pos] \in Packets
  BY DEF Flush, Null, Packets
<1>2. CASE DAbort
  BY <1>2 DEF DAbort, queueVars, pictVars, flagVars, filterVars, videoVars, mainVars
<1>3. CASE DSeek
  <2>1. videoq' \in Seq(Packets) /\ epoch' \in Nat /\ pos' \in Nat /\ dpc' \in DPcs
    <3>1. \/ videoq' = <<>> /\ epoch' = epoch + 1 /\ pos' = 0 /\ dpc' = "putflush"
          \/ dpc' = "read" /\ UNCHANGED <<videoq, epoch, pos>>
      BY <1>3 DEF DSeek
    <3>2. dpc' \in DPcs
      BY <3>1
    <3>3. epoch' \in Nat
      BY <3>1
    <3>4. pos' \in Nat
      BY <3>1
    <3>5. videoq' \in Seq(Packets)
      <4>1. <<>> \in Seq(Packets)
        OBVIOUS
      <4> QED
        BY <3>1, <4>1, Zenon
    <3> QED
      BY <3>2, <3>3, <3>4, <3>5
  <2> QED
    BY <1>3, <2>1 DEF DSeek, pictVars, filterVars, videoVars, mainVars
<1>4. CASE DPutFlush
  BY <1>4, <1>1, AddLast DEF DPutFlush, pictVars, filterVars, videoVars, mainVars
<1>5. CASE DRead
  <2>1. /\ Append(videoq, Null) \in Seq(Packets)
        /\ Append(videoq, [k |-> "packet", e |-> epoch, n |-> pos]) \in Seq(Packets)
    BY <1>1, AddLast
  <2>2. videoq' \in Seq(Packets) /\ pos' \in Nat /\ dpc' \in DPcs
    <3>1. /\ dpc' \in {"top", "eof", "idle"}
          /\ \/ videoq' = videoq \/ videoq' = Append(videoq, Null)
             \/ videoq' = Append(videoq, [k |-> "packet", e |-> epoch, n |-> pos])
          /\ pos' = pos \/ pos' = pos + 1
      BY <1>5, Zenon DEF DRead
    <3>2. videoq' \in Seq(Packets)
      BY <2>1, <3>1, Zenon
    <3>3. pos' \in Nat /\ dpc' \in DPcs
      BY <3>1
    <3> QED
      BY <3>2, <3>3
  <2> QED
    BY <1>5, <2>2 DEF DRead, pictVars, flagVars, filterVars, videoVars, mainVars
<1>6. CASE DEof
  BY <1>6 DEF DEof, queueVars, pictVars, filterVars, videoVars, mainVars
<1>7. CASE DClose
  BY <1>7 DEF DClose, pictVars, flagVars, filterVars, videoVars, mainVars
<1>8. CASE DWake
  BY <1>8 DEF DWake, queueVars, pictVars, flagVars, filterVars, mainVars
<1>9. CASE DJoin
  <2>1. events' \in Seq({"refresh", "alloc", "quit"}) /\ videoq' \in Seq(Packets)
    <3>1. "quit" \in {"refresh", "alloc", "quit"}
      OBVIOUS
    <3>2. Append(events, "quit") \in Seq({"refresh", "alloc", "quit"})
      BY <3>1, AddLast
    <3> QED
      BY <1>9, <3>2 DEF DJoin
  <2> QED
    BY <1>9, <2>1 DEF DJoin, pictVars, filterVars, videoVars, mainVars
<1> QED
  BY <1>2, <1>3, <1>4, <1>5, <1>6, <1>7, <1>8, <1>9 DEF Demux

(* What one call of the decoder does: nothing comes out, or the oldest     *)
(* picture it holds, the packet's among them.                              *)
LEMMA DecodeFacts ==
  ASSUME PlayerTypeOK, NEW p \in Packets
  PROVE  /\ Fed(p) \in Seq(Pictures) /\ Held(p) \in Nat
         /\ Len(Fed(p)) > Held(p)
              => Fed(p) # <<>> /\ Head(Fed(p)) \in Pictures /\ Tail(Fed(p)) \in Seq(Pictures)
<1>1. Held(p) \in Nat
  BY SetupsAssumption DEF Held, PlayerTypeOK, SetupType
<1>2. Fed(p) \in Seq(Pictures)
  <2>1. [e |-> p.e, n |-> p.n] \in Pictures /\ decoder \in Seq(Pictures)
    BY DEF Packets, Pictures, PlayerTypeOK
  <2>2. Append(decoder, [e |-> p.e, n |-> p.n]) \in Seq(Pictures)
    BY <2>1, AddLast
  <2> QED
    BY <2>1, <2>2, Zenon DEF Fed
<1>3. ASSUME Len(Fed(p)) > Held(p)
      PROVE  Fed(p) # <<>> /\ Head(Fed(p)) \in Pictures /\ Tail(Fed(p)) \in Seq(Pictures)
  <2>1. Fed(p) # <<>>
    BY <1>1, <1>2, <1>3
  <2> QED
    BY <1>2, <2>1, TakeFirst
<1> QED
  BY <1>1, <1>2, <1>3

(* The cases of get_video_frame(). *)
VGetAbort ==
  qabort /\ vpc' = "end" /\ UNCHANGED <<videoq, vi, vpic, decoder>>

VGetFlush ==
  /\ ~qabort /\ videoq # <<>> /\ Head(videoq).k = "flush"
  /\ videoq' = Tail(videoq) /\ decoder' = <<>> /\ vi' = 0
  /\ vpic' = [e |-> Head(videoq).e, n |-> -1] /\ vpc' = "zero"

VGetDecode ==
  /\ ~qabort /\ videoq # <<>> /\ Head(videoq).k # "flush"
  /\ videoq' = Tail(videoq) /\ vi' = vi
  /\ \/ /\ Len(Fed(Head(videoq))) > Held(Head(videoq))
        /\ decoder' = Tail(Fed(Head(videoq))) /\ vpic' = Head(Fed(Head(videoq)))
        /\ vpc' = "full" \/ (setup.framedrop /\ vpc' = "top")
     \/ decoder' = Fed(Head(videoq)) /\ vpc' = "top" /\ vpic' = vpic

LEMMA VGetCases ==
  ASSUME VGet
  PROVE  /\ vpc = "get"
         /\ VGetAbort \/ VGetFlush \/ VGetDecode
         /\ UNCHANGED <<setup, qabort, pictVars, flagVars, filterVars, events, demuxVars,
                        vsleep, flushed, mainVars, rpc, boundVars>>
<1> DEFINE p == Head(videoq)
<1>1. CASE /\ ~qabort /\ videoq # <<>> /\ p.k # "flush" /\ videoq' = Tail(videoq)
           /\ LET d == Fed(p) IN
              IF Len(d) > Held(p)
              THEN /\ decoder' = Tail(d) /\ vpic' = Head(d)
                   /\ vpc' \in {"full"} \cup (IF setup.framedrop THEN {"top"} ELSE {})
              ELSE decoder' = d /\ vpc' = "top" /\ UNCHANGED vpic
           /\ UNCHANGED vi
  <2>1. VGetDecode
    <3>1. CASE Len(Fed(p)) > Held(p)
      BY <1>1, <3>1, Zenon DEF VGetDecode
    <3>2. CASE ~(Len(Fed(p)) > Held(p))
      BY <1>1, <3>2, Zenon DEF VGetDecode
    <3> QED
      BY <3>1, <3>2
  <2> QED
    BY <2>1, Zenon DEF VGet
<1> QED
  BY <1>1, Zenon DEF VGet, VGetAbort, VGetFlush

(* Steps of V keep the types. *)
LEMMA TypeVideo ==
  ASSUME PlayerTypeOK, RoomInv, Video
  PROVE  PlayerTypeOK'
<1> USE DEF VPcs
<1>1. CASE VTop
  BY <1>1 DEF PlayerTypeOK, VTop, queueVars, pictVars, flagVars, filterVars, demuxVars, mainVars
<1>2. CASE VGet
  <2>1. /\ videoq \in Seq(Packets) /\ decoder \in Seq(Pictures) /\ <<>> \in Seq(Pictures)
        /\ vpic \in Pictures /\ vi \in Nat
    BY DEF PlayerTypeOK
  <2>2. videoq' \in Seq(Packets) /\ decoder' \in Seq(Pictures) /\ vi' \in Nat /\ vpic' \in Pictures
        /\ vpc' \in VPcs
    <3>1. CASE VGetAbort
      BY <2>1, <3>1, Zenon DEF VGetAbort
    <3>2. CASE VGetFlush
      <4>1. videoq # <<>>
        BY <3>2 DEF VGetFlush
      <4>2. Head(videoq) \in Packets /\ Tail(videoq) \in Seq(Packets)
        BY <2>1, <4>1, TakeFirst
      <4>3. [e |-> Head(videoq).e, n |-> -1] \in Pictures /\ 0 \in Nat
        BY <4>2 DEF Packets, Pictures
      <4> QED
        BY <2>1, <3>2, <4>2, <4>3, Zenon DEF VGetFlush
    <3>3. CASE VGetDecode
      <4>1. videoq # <<>>
        BY <3>3 DEF VGetDecode
      <4>2. Head(videoq) \in Packets /\ Tail(videoq) \in Seq(Packets)
        BY <2>1, <4>1, TakeFirst
      <4> QED
        BY <2>1, <3>3, <4>2, DecodeFacts, Zenon DEF VGetDecode
    <3> QED
      BY <1>2, <3>1, <3>2, <3>3, VGetCases
  <2> QED
    BY <1>2, <2>2, VGetCases
      DEF PlayerTypeOK, pictVars, flagVars, filterVars, demuxVars, mainVars
<1>3. CASE VZero
  <2>1. pictq' \in [Slots -> SlotType]
    <3>1. pictq \in [Slots -> SlotType] /\ pictq' \in {pictq, [pictq EXCEPT ![vi].target = 0]}
      BY <1>3 DEF PlayerTypeOK, VZero
    <3>2. [pictq EXCEPT ![vi].target = 0] \in [Slots -> SlotType]
      <4>1. ASSUME NEW s \in SlotType PROVE [s EXCEPT !.target = 0] \in SlotType
        BY DEF SlotType
      <4> QED
        BY <3>1, <4>1
    <3> QED
      BY <3>1, <3>2, Zenon
  <2>2. vpc' \in VPcs /\ vi' \in Nat /\ flushed' \in Int
    BY <1>3 DEF PlayerTypeOK, VZero, DrainWait, Pictures
  <2> QED
    BY <1>3, <2>1, <2>2
      DEF PlayerTypeOK, VZero, queueVars, flagVars, filterVars, demuxVars, mainVars
<1>4. CASE VDrain
  <2>1. vpc' \in VPcs /\ flushed' \in Int
    BY <1>4 DEF PlayerTypeOK, VDrain, DrainWait, Pictures
  <2> QED
    BY <1>4, <2>1
      DEF PlayerTypeOK, VDrain, queueVars, pictVars, flagVars, filterVars, demuxVars, mainVars
<1>5. CASE VFull
  BY <1>5 DEF PlayerTypeOK, VFull, queueVars, pictVars, flagVars, filterVars, demuxVars, mainVars
<1>6. CASE VSlot
  <2>1. pictq' \in [Slots -> SlotType]
    <3>1. pictq \in [Slots -> SlotType]
      BY DEF PlayerTypeOK
    <3>2. [pictq EXCEPT ![windex].allocated = FALSE] \in [Slots -> SlotType]
      BY <3>1 DEF PlayerTypeOK, SlotType
    <3> QED
      BY <1>6, <3>1, <3>2, Zenon DEF VSlot
  <2>2. events' \in Seq({"refresh", "alloc", "quit"})
    <3>1. "alloc" \in {"refresh", "alloc", "quit"} /\ events \in Seq({"refresh", "alloc", "quit"})
      BY DEF PlayerTypeOK
    <3>2. Append(events, "alloc") \in Seq({"refresh", "alloc", "quit"})
      BY <3>1, AddLast
    <3> QED
      BY <1>6, <3>1, <3>2, Zenon DEF VSlot
  <2>3. vpc' \in VPcs
    BY <1>6 DEF VSlot
  <2> QED
    BY <1>6, <2>1, <2>2, <2>3
      DEF PlayerTypeOK, VSlot, queueVars, flagVars, filterVars, demuxVars, mainVars
<1>7. CASE VAlloc
  BY <1>7 DEF PlayerTypeOK, VAlloc, queueVars, pictVars, flagVars, filterVars, demuxVars, mainVars
<1>8. CASE VCopied
  <2>1. pictq' \in [Slots -> SlotType]
    BY <1>8 DEF PlayerTypeOK, VCopied, SlotType
  <2>2. windex' \in Slots
    BY <1>8, SuccFacts DEF PlayerTypeOK, VCopied
  <2> QED
    BY <1>8, <2>1, <2>2
      DEF PlayerTypeOK, VCopied, queueVars, flagVars, filterVars, demuxVars, mainVars
<1>9. CASE VCount
  <2>1. TargetTime(vpic) \in Int
    <3>1. vpic.e \in Int /\ vpic.n \in Int /\ Frames \in Int
      BY SizeAssumption DEF PlayerTypeOK, Pictures
    <3> QED
      BY <3>1 DEF TargetTime
  <2>2. pictq' \in [Slots -> SlotType]
    BY <1>9, <2>1 DEF PlayerTypeOK, VCount, SlotType
  <2>3. size' \in 0..QueueSize
    BY <1>9, SizeAssumption DEF PlayerTypeOK, VCount, RoomInv
  <2> QED
    BY <1>9, <2>2, <2>3
      DEF PlayerTypeOK, VCount, queueVars, flagVars, filterVars, demuxVars, mainVars
<1>10. CASE VEnd
  BY <1>10 DEF PlayerTypeOK, VEnd, queueVars, pictVars, flagVars, demuxVars, mainVars
<1> QED
  BY <1>1, <1>2, <1>3, <1>4, <1>5, <1>6, <1>7, <1>8, <1>9, <1>10 DEF Video

(* Steps of M, the user and R keep the types. *)
LEMMA TypeMain ==
  ASSUME PlayerTypeOK, RoomInv, Main \/ User \/ Refresh
  PROVE  PlayerTypeOK'
<1> USE DEF MPcs
<1>1. CASE User
  BY <1>1 DEF PlayerTypeOK, User, StreamSeek, queueVars, pictVars, filterVars, demuxVars,
              videoVars, boundVars
<1>2. CASE MEvent
  <2>1. events \in Seq({"refresh", "alloc", "quit"}) /\ events # <<>>
    BY <1>2 DEF PlayerTypeOK, MEvent
  <2>2. Head(events) \in {"refresh", "alloc", "quit"}
        /\ Tail(events) \in Seq({"refresh", "alloc", "quit"})
    BY <2>1, TakeFirst
  <2>3. mpc' \in MPcs
    BY <1>2, <2>2 DEF MEvent
  <2> QED
    BY <1>2, <2>2, <2>3 DEF PlayerTypeOK, MEvent, queueVars, pictVars, flagVars, filterVars,
                            demuxVars, videoVars
<1>3. CASE MNotDue \/ MDue \/ MNext \/ MAssert \/ MJoin
  <2>1. mpc' \in MPcs
    BY <1>3 DEF MNotDue, MDue, MNext, MAssert, MJoin
  <2>2. UNCHANGED <<setup, queueVars, flagVars, events, demuxVars, pictVars, videoVars, shown>>
    BY <1>3, Zenon DEF MNotDue, MDue, MNext, MAssert, MJoin, MRest, queueVars, flagVars,
                       demuxVars, pictVars, videoVars
  <2> QED
    BY <2>1, <2>2 DEF PlayerTypeOK, queueVars, flagVars, demuxVars, pictVars, videoVars
<1>4. CASE MDrop
  BY <1>4, SuccFacts DEF PlayerTypeOK, MDrop, MRest, queueVars, flagVars, filterVars, demuxVars,
                         videoVars
<1>5. CASE MDisplay
  <2>1. shown' \in Pictures
    BY <1>5 DEF PlayerTypeOK, MDisplay, SlotType
  <2> QED
    BY <1>5, <2>1 DEF PlayerTypeOK, MDisplay, MRest, queueVars, flagVars, filterVars, demuxVars,
                      pictVars, videoVars
<1>6. CASE MAdvance
  BY <1>6, SuccFacts DEF PlayerTypeOK, MAdvance, MRest, queueVars, flagVars, filterVars,
                         demuxVars, videoVars
<1>7. CASE MDec
  <2>1. size' \in 0..QueueSize /\ mpc' \in MPcs
    BY <1>7, SizeAssumption DEF PlayerTypeOK, MDec, RoomInv
  <2> QED
    BY <1>7, <2>1 DEF PlayerTypeOK, MDec, MRest, queueVars, flagVars, filterVars, demuxVars
<1>8. CASE MRefDone
  BY <1>8 DEF PlayerTypeOK, MRefDone, queueVars, pictVars, filterVars, demuxVars, videoVars
<1>9. CASE MLockFilter
  BY <1>9 DEF PlayerTypeOK, MLockFilter, queueVars, pictVars, flagVars, demuxVars, videoVars
<1>10. CASE MAlloc
  <2>1. pictq' \in [Slots -> SlotType] /\ mpc' \in MPcs
    <3>1. pictq \in [Slots -> SlotType]
      BY DEF PlayerTypeOK
    <3>2. [pictq EXCEPT ![windex].bmp = TRUE] \in [Slots -> SlotType]
      BY <3>1 DEF PlayerTypeOK, SlotType
    <3> QED
      BY <1>10, <3>1, <3>2, Zenon DEF MAlloc
  <2> QED
    BY <1>10, <2>1 DEF PlayerTypeOK, MAlloc, MRest, queueVars, flagVars, filterVars, demuxVars,
                       videoVars
<1>11. CASE MAllocated
  <2>1. pictq' \in [Slots -> SlotType]
    BY <1>11 DEF PlayerTypeOK, MAllocated, SlotType
  <2> QED
    BY <1>11, <2>1 DEF PlayerTypeOK, MAllocated, queueVars, flagVars, demuxVars
<1>12. CASE MClose
  BY <1>12 DEF PlayerTypeOK, MClose, queueVars, pictVars, filterVars, demuxVars, videoVars
<1>13. CASE Refresh
  <2>1. events' \in Seq({"refresh", "alloc", "quit"})
    <3>1. "refresh" \in {"refresh", "alloc", "quit"}
          /\ events \in Seq({"refresh", "alloc", "quit"})
      BY DEF PlayerTypeOK
    <3>2. Append(events, "refresh") \in Seq({"refresh", "alloc", "quit"})
      BY <3>1, AddLast
    <3> QED
      BY <1>13, <3>1, <3>2, Zenon DEF Refresh
  <2> QED
    BY <1>13, <2>1 DEF PlayerTypeOK, Refresh, queueVars, pictVars, filterVars, demuxVars,
                       videoVars, mainVars
<1> QED
  BY <1>1, <1>2, <1>3, <1>4, <1>5, <1>6, <1>7, <1>8, <1>9, <1>10, <1>11, <1>12, <1>13 DEF Main

---------------------------------------------------------------------------
(***************************************************************************)
(* The picture queue.                                                      *)
(***************************************************************************)

(* Steps of D: only the abort request of the packet queue changes. *)
LEMMA QueueDemux ==
  ASSUME PlayerTypeOK, RingInv, RoomInv, Demux
  PROVE  RingInv' /\ RoomInv'
<1>1. /\ UNCHANGED <<size, rindex, windex, vpc, mpc>>
      /\ qabort => qabort'
  BY DEF Demux, DAbort, DSeek, DPutFlush, DRead, DEof, DClose, DWake, DJoin, queueVars,
         pictVars, videoVars, mainVars
<1>2. Unread' = Unread
  BY <1>1 DEF Unread
<1>3. RingInv'
  BY <1>1, <1>2 DEF RingInv
<1>4. RoomInv'
  BY <1>1 DEF RoomInv
<1> QED
  BY <1>3, <1>4

(* Steps of V: it takes a slot only after it has seen that one is free. *)
LEMMA QueueVideo ==
  ASSUME PlayerTypeOK, RingInv, RoomInv, Video
  PROVE  RingInv' /\ RoomInv'
<1> USE SizeAssumption DEF PlayerTypeOK
<1>1. CASE VTop \/ VGet \/ VZero \/ VDrain \/ VFull \/ VSlot \/ VAlloc \/ VEnd
  <2>1. /\ UNCHANGED <<size, rindex, windex, mpc, qabort>>
        /\ vpc # "count" /\ vpc' # "count"
    BY <1>1 DEF VTop, VGet, VZero, VDrain, DrainWait, VFull, VSlot, VAlloc, VEnd, queueVars,
                pictVars, mainVars
  <2>2. Unread' = Unread
    BY <2>1 DEF Unread
  <2>3. RingInv'
    BY <2>1, <2>2 DEF RingInv
  <2>4. /\ vpc' = "slot" => vpc = "slot" \/ size < QueueSize \/ qabort
        /\ vpc' = "alloc" => vpc \in {"slot", "alloc"}
        /\ vpc' = "copy" => vpc \in {"slot", "alloc"} /\ ~qabort
    BY <1>1 DEF VTop, VGet, VZero, VDrain, DrainWait, VFull, HasRoom, VSlot, VAlloc, VEnd
  <2>5. RoomInv'
    BY <2>1, <2>4 DEF RoomInv
  <2> QED
    BY <2>3, <2>5
<1>2. CASE VCopied
  <2>1. /\ UNCHANGED <<size, rindex, mpc, qabort>> /\ windex' = Succ(windex)
        /\ vpc = "copy" /\ vpc' = "count"
    BY <1>2 DEF VCopied, queueVars, mainVars
  <2>2. Unread' = Unread + 1 /\ Unread \in Int /\ Unread < QueueSize
    BY <2>1 DEF Unread, RoomInv
  <2>3. RingInv'
    BY <2>1, <2>2, SuccFacts DEF RingInv, Slots
  <2> QED
    BY <2>1, <2>3 DEF RoomInv
<1>3. CASE VCount
  <2>1. /\ UNCHANGED <<rindex, windex, mpc, qabort>> /\ size' = size + 1
        /\ vpc = "count" /\ vpc' = "top"
    BY <1>3 DEF VCount, queueVars, mainVars
  <2>2. Unread' = Unread
    BY <2>1 DEF Unread
  <2>3. RingInv'
    BY <2>1, <2>2 DEF RingInv
  <2> QED
    BY <2>1, <2>3 DEF RoomInv
<1> QED
  BY <1>1, <1>2, <1>3 DEF Video

(* Steps of M, the user and R: M gives a slot back only after it has seen  *)
(* that there is a picture.                                                *)
LEMMA QueueMain ==
  ASSUME PlayerTypeOK, RingInv, RoomInv, Main \/ User \/ Refresh
  PROVE  RingInv' /\ RoomInv'
<1> USE SizeAssumption DEF PlayerTypeOK
<1>1. CASE MDrop \/ MAdvance
  <2>1. /\ UNCHANGED <<size, windex, vpc, qabort>> /\ rindex' = Succ(rindex)
        /\ mpc \in {"drop", "showing"} /\ mpc' \in {"dec", "dropped"}
    BY <1>1 DEF MDrop, MAdvance, MRest, queueVars, videoVars
  <2>2. Unread' = Unread - 1 /\ Unread \in Int /\ Unread > 0
    BY <2>1 DEF Unread, RoomInv
  <2>3. rindex' = IF rindex = QueueSize - 1 THEN 0 ELSE rindex + 1
    BY <2>1, SuccFacts
  <2>4. /\ rindex \in 0..(QueueSize - 1) /\ windex \in 0..(QueueSize - 1)
        /\ windex = rindex + Unread \/ windex = rindex + Unread - QueueSize
    BY DEF RingInv, Slots
  <2>5. windex = rindex' + Unread' \/ windex = rindex' + Unread' - QueueSize
    BY <2>2, <2>3, <2>4
  <2>6. RingInv'
    BY <2>1, <2>5 DEF RingInv
  <2> QED
    BY <2>1, <2>6 DEF RoomInv
<1>2. CASE MDec
  <2>1. /\ UNCHANGED <<rindex, windex, vpc, qabort>> /\ size' = size - 1
        /\ mpc \in {"dec", "dropped"} /\ mpc' \in {"refdone", "retry"}
    BY <1>2 DEF MDec, MRest, queueVars
  <2>2. Unread' = Unread
    BY <2>1 DEF Unread
  <2>3. RingInv'
    BY <2>1, <2>2 DEF RingInv
  <2> QED
    BY <2>1, <2>3 DEF RoomInv
<1>3. CASE \/ MEvent \/ MNotDue \/ MDue \/ MNext \/ MAssert \/ MDisplay \/ MRefDone
           \/ MLockFilter \/ MAlloc \/ MAllocated \/ MClose \/ MJoin \/ User \/ Refresh
  <2>1. UNCHANGED <<size, rindex, windex, vpc, qabort>>
    BY <1>3, Zenon DEF MEvent, MNotDue, MDue, MNext, MAssert, MDisplay, MRefDone, MLockFilter,
        MAlloc, MAllocated, MClose, MJoin, User, Refresh, MRest, queueVars, pictVars, videoVars
  <2>2. /\ (mpc' \notin {"dec", "dropped"} /\ mpc \notin {"dec", "dropped"}) \/ UNCHANGED mpc
        /\ mpc' \in {"due", "assert", "drop", "showing"}
             => mpc \in {"due", "assert", "drop", "showing"} \/ size > 0
    <3>1. CASE MEvent
      <4>1. events # <<>> /\ events \in Seq({"refresh", "alloc", "quit"})
        BY <3>1 DEF MEvent
      <4>2. Head(events) \in {"refresh", "alloc", "quit"}
        BY <4>1, TakeFirst
      <4> QED
        BY <3>1, <4>2 DEF MEvent
    <3>2. CASE \/ MNotDue \/ MDue \/ MNext \/ MAssert \/ MDisplay \/ MRefDone
               \/ MLockFilter \/ MAlloc \/ MAllocated \/ MClose \/ MJoin
      BY <3>2 DEF MNotDue, MDue, HasPicture, MNext, MAssert, MDisplay, MRefDone,
              MLockFilter, MAlloc, MAllocated, MClose, MJoin
    <3>3. CASE User \/ Refresh
      BY <3>3 DEF User, Refresh, mainVars
    <3> QED
      BY <1>3, <3>1, <3>2, <3>3
  <2>3. Unread' = Unread
    BY <2>1, <2>2 DEF Unread
  <2>4. RingInv'
    BY <2>1, <2>3 DEF RingInv
  <2>5. RoomInv'
    BY <2>1, <2>2 DEF RoomInv
  <2> QED
    BY <2>4, <2>5
<1> QED
  BY <1>1, <1>2, <1>3 DEF Main

(* An event is added, or the first one taken. *)
LEMMA RequestFacts ==
  ASSUME PlayerTypeOK
  PROVE  /\ \A x \in {"refresh", "quit"} : events' = Append(events, x) => Requests' = Requests
         /\ events' = Append(events, "alloc") =>
              Requests' = Requests \union {Len(events) + 1}
         /\ events # <<>> /\ events' = Tail(events) /\ (\A i, j \in Requests : i = j)
              => /\ Head(events) \in {"refresh", "alloc", "quit"}
                 /\ \A i, j \in Requests' : i = j
                 /\ Requests' # {} => Requests # {}
                 /\ Head(events) = "alloc" => Requests # {} /\ Requests' = {}
<1> DEFINE E == {"refresh", "alloc", "quit"}
<1>1. events \in Seq(E)
  BY DEF PlayerTypeOK
<1>2. ASSUME NEW x \in E, events' = Append(events, x)
      PROVE  /\ x # "alloc" => Requests' = Requests
             /\ x = "alloc" => Requests' = Requests \union {Len(events) + 1}
  <2>1. /\ Len(events) \in Nat /\ DOMAIN events = 1..Len(events)
        /\ DOMAIN events' = 1..(Len(events) + 1)
        /\ events'[Len(events) + 1] = x
        /\ \A i \in 1..Len(events) : events'[i] = events[i]
    BY <1>1, <1>2, AddLast
  <2> QED
    BY <2>1 DEF Requests
<1>3. ASSUME events # <<>>, events' = Tail(events), \A i, j \in Requests : i = j
      PROVE  /\ Head(events) \in E
             /\ \A i, j \in Requests' : i = j
             /\ Requests' # {} => Requests # {}
             /\ Head(events) = "alloc" => Requests # {} /\ Requests' = {}
  <2>1. /\ Len(events) \in Nat /\ Len(events) >= 1 /\ DOMAIN events = 1..Len(events)
        /\ DOMAIN events' = 1..(Len(events) - 1) /\ Head(events) = events[1]
        /\ \A i \in 1..(Len(events) - 1) : events'[i] = events[i + 1]
        /\ Head(events) \in E
    BY <1>1, <1>3, TakeFirst
  <2>2. ASSUME NEW i \in Requests' PROVE i \in Int /\ i > 0 /\ i + 1 \in Requests
    <3>1. i \in 1..(Len(events) - 1) /\ events'[i] = "alloc"
      BY <2>1 DEF Requests
    <3> QED
      BY <2>1, <3>1 DEF Requests
  <2>3. \A i, j \in Requests' : i = j
    <3> SUFFICES ASSUME NEW i \in Requests', NEW j \in Requests' PROVE i = j
      OBVIOUS
    <3>1. i + 1 = j + 1 /\ i \in Int /\ j \in Int
      BY <1>3, <2>2
    <3> QED
      BY <3>1
  <2>4. Head(events) = "alloc" => 1 \in Requests
    BY <2>1 DEF Requests
  <2>5. ASSUME Head(events) = "alloc", NEW i \in Requests' PROVE FALSE
    <3>1. i + 1 = 1 /\ i \in Int /\ i > 0
      BY <1>3, <2>2, <2>4, <2>5
    <3> QED
      BY <3>1
  <2> QED
    BY <2>1, <2>2, <2>3, <2>4, <2>5
<1>4. "alloc" \in E /\ \A x \in {"refresh", "quit"} : x \in E /\ x # "alloc"
  OBVIOUS
<1> QED
  BY <1>2, <1>3, <1>4

(* Steps that leave the requests and the slot of V alone. *)
LEMMA AllocFrame ==
  ASSUME PlayerTypeOK, AllocInv,
         Requests' = Requests,
         mpc' \in {"lockfilter", "alloc", "allocated"}
           => mpc \in {"lockfilter", "alloc", "allocated"},
         vpc \in {"alloc", "end", "exit"} => vpc' \in {"alloc", "end", "exit"},
         vpc' = "alloc" => vpc = "alloc" /\ pictq'[windex'].allocated = pictq[windex].allocated
  PROVE  AllocInv'
  BY DEF AllocInv, Allocating

LEMMA AllocDemux ==
  ASSUME PlayerTypeOK, AllocInv, Demux
  PROVE  AllocInv'
<1>1. UNCHANGED <<vpc, mpc, pictq, windex>>
  BY DEF Demux, DAbort, DSeek, DPutFlush, DRead, DEof, DClose, DWake, DJoin, pictVars,
         videoVars, mainVars
<1>2. events' = events \/ events' = Append(events, "quit")
  BY DEF Demux, DAbort, DSeek, DPutFlush, DRead, DEof, DClose, DWake, DJoin
<1>3. Requests' = Requests
  BY <1>2, RequestFacts DEF Requests
<1> QED
  BY <1>1, <1>3, AllocFrame

LEMMA AllocVideo ==
  ASSUME PlayerTypeOK, AllocInv, Video
  PROVE  AllocInv'
<1> USE DEF PlayerTypeOK
<1>1. CASE VSlot /\ vpc' = "alloc"
  <2>1. /\ vpc = "slot" /\ vpc' = "alloc" /\ UNCHANGED <<mpc, windex>>
        /\ pictq' = [pictq EXCEPT ![windex].allocated = FALSE]
        /\ events' = Append(events, "alloc")
    BY <1>1 DEF VSlot, mainVars
  <2>2. ~Allocating
    BY <2>1 DEF AllocInv
  <2>3. Requests' = Requests \union {Len(events) + 1}
    BY <2>1, RequestFacts
  <2>4. ~pictq'[windex'].allocated
    BY <2>1 DEF SlotType
  <2> QED
    BY <2>1, <2>2, <2>3, <2>4 DEF AllocInv, Allocating
<1>2. CASE VAlloc
  <2>1. /\ vpc = "alloc" /\ UNCHANGED <<mpc, windex, pictq, events>>
        /\ \/ vpc' \in {"alloc", "end"}
           \/ vpc' = "copy" /\ pictq[windex].allocated
    BY <1>2 DEF VAlloc, pictVars, mainVars
  <2>2. Requests' = Requests /\ Allocating' = Allocating
    BY <2>1 DEF Requests, Allocating
  <2> QED
    BY <2>1, <2>2 DEF AllocInv
<1>3. CASE VEnd
  <2>1. UNCHANGED <<mpc, events>> /\ vpc = "end" /\ vpc' = "exit"
    BY <1>3 DEF VEnd, mainVars
  <2>2. Requests' = Requests
    BY <2>1 DEF Requests
  <2> QED
    BY <2>1, <2>2, AllocFrame
<1>4. CASE VTop \/ VGet \/ VZero \/ VDrain \/ VFull \/ (VSlot /\ vpc' # "alloc")
             \/ VCopied \/ VCount
  <2>1. UNCHANGED <<mpc, events>> /\ vpc \notin {"alloc", "end", "exit"} /\ vpc' # "alloc"
    BY <1>4 DEF VTop, VGet, VZero, VDrain, DrainWait, VFull, VSlot, VCopied, VCount, mainVars
  <2>2. Requests' = Requests
    BY <2>1 DEF Requests
  <2> QED
    BY <2>1, <2>2, AllocFrame
<1> QED
  BY <1>1, <1>2, <1>3, <1>4 DEF Video

LEMMA AllocMain ==
  ASSUME PlayerTypeOK, AllocInv, Main \/ User \/ Refresh
  PROVE  AllocInv'
<1>1. vpc' = vpc /\ windex' = windex
  BY DEF Main, MEvent, MNotDue, MDue, MNext, MAssert, MDrop, MDisplay, MAdvance, MDec, MRefDone,
         MLockFilter, MAlloc, MAllocated, MClose, MJoin, User, Refresh, pictVars, videoVars
<1>2. CASE MEvent
  <2>1. /\ mpc = "loop" /\ events # <<>> /\ events' = Tail(events) /\ pictq' = pictq
        /\ mpc' = CASE Head(events) = "refresh" -> "ref"
                    [] Head(events) = "alloc" -> "lockfilter"
                    [] Head(events) = "quit" -> "close"
    BY <1>2 DEF MEvent, pictVars
  <2>2. /\ Head(events) \in {"refresh", "alloc", "quit"}
        /\ \A i, j \in Requests' : i = j
        /\ Requests' # {} => Requests # {}
        /\ Head(events) = "alloc" => Requests # {} /\ Requests' = {}
    BY <2>1, RequestFacts DEF AllocInv
  <2>3. /\ mpc' \in {"ref", "lockfilter", "close"}
        /\ mpc' = "lockfilter" => Head(events) = "alloc"
    BY <2>1, <2>2
  <2> QED
    BY <1>1, <2>1, <2>2, <2>3 DEF AllocInv, Allocating
<1>3. CASE MAllocated
  <2>1. mpc = "allocated" /\ mpc' = "loop" /\ events' = events
    BY <1>3 DEF MAllocated
  <2>2. Requests = {} /\ Requests' = {}
    BY <2>1 DEF AllocInv, Requests
  <2> QED
    BY <2>1, <2>2 DEF AllocInv, Allocating
<1>4. CASE MAlloc
  <2>1. mpc = "alloc" /\ mpc' \in {"allocated", "close"} /\ events' = events
        /\ (pictq' = pictq \/ pictq' = [pictq EXCEPT ![windex].bmp = TRUE])
    BY <1>4 DEF MAlloc, MRest
  <2>2. pictq'[windex].allocated = pictq[windex].allocated
    BY <2>1 DEF PlayerTypeOK, SlotType
  <2>3. Requests' = Requests
    BY <2>1 DEF Requests
  <2> QED
    BY <1>1, <2>1, <2>2, <2>3, AllocFrame
<1>5. CASE \/ MNotDue \/ MDue \/ MNext \/ MAssert \/ MDrop \/ MDisplay \/ MAdvance \/ MDec
           \/ MRefDone \/ MLockFilter \/ MClose \/ MJoin \/ User \/ Refresh
  <2>1. pictq' = pictq
    BY <1>5 DEF MNotDue, MDue, MNext, MAssert, MDrop, MDisplay, MAdvance, MDec,
         MRefDone, MLockFilter, MClose, MJoin, User, Refresh, pictVars
  <2>2. mpc' \in {"lockfilter", "alloc", "allocated"}
           => mpc \in {"lockfilter", "alloc", "allocated"}
    BY <1>5 DEF MNotDue, MDue, MNext, MAssert, MDrop, MDisplay, MAdvance, MDec,
         MRefDone, MLockFilter, MClose, MJoin, User, Refresh, mainVars
  <2>3. events' = events \/ events' = Append(events, "refresh")
    BY <1>5 DEF MNotDue, MDue, MNext, MAssert, MDrop, MDisplay, MAdvance, MDec,
         MRefDone, MLockFilter, MClose, MJoin, User, Refresh, MRest
  <2>4. Requests' = Requests
    BY <2>3, RequestFacts DEF Requests
  <2> QED
    BY <1>1, <2>1, <2>2, <2>4, AllocFrame
<1> QED
  BY <1>2, <1>3, <1>4, <1>5 DEF Main

---------------------------------------------------------------------------
(***************************************************************************)
(* Closing.                                                                *)
(***************************************************************************)
LEMMA CloseDemux ==
  ASSUME PlayerTypeOK, CloseInv, Demux
  PROVE  CloseInv'
<1> USE DEF CloseInv, Closing
<1>1. UNCHANGED <<vpc, mpc, abort_request>>
  BY DEF Demux, DAbort, DSeek, DPutFlush, DRead, DEof, DClose, DWake, DJoin, videoVars, mainVars,
         flagVars
<1>2. CASE DAbort \/ DClose \/ DWake
  BY <1>1, <1>2 DEF DAbort, DClose, DWake, queueVars, demuxVars
<1>3. CASE DSeek \/ DPutFlush
  BY <1>1, <1>3 DEF DSeek, DPutFlush
<1>4. CASE DRead
  <2>1. qabort' = qabort /\ dpc \in {"read", "top"} /\ dpc' \in {"top", "eof", "idle"}
        /\ (dpc' = "eof" => videoq' = Append(videoq, Null))
    BY <1>4 DEF DRead
  <2>2. /\ Append(videoq, Null) # <<>>
        /\ Append(videoq, Null)[Len(Append(videoq, Null))].k = "null"
    <3>1. Null \in Packets /\ Null.k = "null" /\ videoq \in Seq(Packets)
      BY DEF Null, Packets, PlayerTypeOK
    <3> QED
      BY <3>1, AddLast
  <2> QED
    BY <1>1, <2>1, <2>2
<1>5. CASE DEof
  BY <1>1, <1>5 DEF DEof, queueVars
<1>6. CASE DJoin
  BY <1>1, <1>6 DEF DJoin
<1> QED
  BY <1>2, <1>3, <1>4, <1>5, <1>6 DEF Demux

LEMMA CloseVideo ==
  ASSUME PlayerTypeOK, CloseInv, Video
  PROVE  CloseInv'
<1> USE DEF CloseInv, Closing
<1>1. UNCHANGED <<dpc, pos, mpc, abort_request, qabort>>
  BY DEF Video, VTop, VGet, VZero, VDrain, VFull, VSlot, VAlloc, VCopied, VCount, VEnd, queueVars,
         mainVars, flagVars, demuxVars
<1>2. CASE VGet
  <2>1. CASE VGetAbort
    BY <1>1, <2>1 DEF VGetAbort
  <2>2. CASE VGetFlush \/ VGetDecode
    <3>1. videoq # <<>> /\ videoq' = Tail(videoq) /\ videoq \in Seq(Packets)
      BY <2>2 DEF VGetFlush, VGetDecode, PlayerTypeOK
    <3>2. PICK n \in Nat : /\ n = Len(videoq) /\ n >= 1 /\ Len(videoq') = n - 1
                           /\ videoq' # <<>> => n > 1 /\ videoq'[n - 1] = videoq[n]
                           /\ videoq' = <<>> => n = 1 /\ Head(videoq) = videoq[1]
      <4>1. /\ Len(videoq) \in Nat /\ Len(videoq) >= 1 /\ Len(videoq') = Len(videoq) - 1
            /\ \A i \in 1..(Len(videoq) - 1) : videoq'[i] = videoq[i + 1]
            /\ Head(videoq) = videoq[1] /\ videoq' \in Seq(Packets)
        BY <3>1, TakeFirst
      <4>2. Len(videoq') = 0 <=> videoq' = <<>>
        BY <4>1
      <4>3. Len(videoq) > 1 => videoq'[Len(videoq) - 1] = videoq[Len(videoq)]
        BY <4>1
      <4> QED
        BY <4>1, <4>2, <4>3
    <3>3. CASE VGetFlush
      <4>1. Head(videoq).k = "flush" /\ vpc' = "zero"
        BY <3>3 DEF VGetFlush
      <4> QED
        BY <1>1, <3>1, <3>2, <4>1
    <3>4. CASE VGetDecode
      <4>1. vpc' \in {"full", "top"}
        BY <3>4 DEF VGetDecode
      <4> QED
        BY <1>1, <3>1, <3>2, <4>1
    <3> QED
      BY <2>2, <3>3, <3>4
  <2> QED
    BY <1>2, <2>1, <2>2, VGetCases
<1>3. CASE VTop \/ VZero \/ VDrain \/ VFull \/ VSlot \/ VAlloc \/ VCopied \/ VCount \/ VEnd
  <2>1. /\ videoq' = videoq
        /\ vpc' \in {"zero", "drain"} => vpc \in {"zero", "drain"}
    BY <1>3 DEF VTop, VZero, VDrain, DrainWait, VFull, VSlot, VAlloc, VCopied, VCount, VEnd,
                queueVars
  <2> QED
    BY <1>1, <2>1
<1> QED
  BY <1>2, <1>3 DEF Video

LEMMA CloseMain ==
  ASSUME PlayerTypeOK, CloseInv, Main \/ User \/ Refresh
  PROVE  CloseInv'
<1> USE DEF CloseInv, Closing
<1>1. UNCHANGED <<dpc, pos, vpc, videoq, qabort>>
  BY DEF Main, MEvent, MNotDue, MDue, MNext, MAssert, MDrop, MDisplay, MAdvance, MDec, MRefDone,
         MLockFilter, MAlloc, MAllocated, MClose, MJoin, User, Refresh, MRest, queueVars, demuxVars,
         videoVars
<1>2. /\ mpc \in {"join", "exit"} => mpc' \in {"join", "exit"}
      /\ abort_request' = abort_request \/ mpc' = "join"
      /\ abort_request => abort_request'
  BY DEF Main, MEvent, MNotDue, MDue, HasPicture, MNext, MAssert, MDrop, MDisplay, MAdvance, MDec,
         MRefDone, MLockFilter, MAlloc, MAllocated, MClose, MJoin, User, Refresh, MRest, flagVars,
         mainVars
<1> QED
  BY <1>1, <1>2

---------------------------------------------------------------------------
(***************************************************************************)
(* The pipeline, as sets of positions.                                     *)
(***************************************************************************)

(* The positions of a stream are linearly ordered, one at a time. *)
LEMMA BeforeFacts ==
  /\ \A a, b, c \in Pictures : Before(a, b) /\ Before(b, c) => Before(a, c)
  /\ \A a \in Pictures : ~Before(a, a) /\ ~Before(a, Pred(a)) /\ Pred(a) \in Pictures
  /\ \A a, b \in Pictures : ~(Before(Pred(b), a) /\ Before(a, b))
  BY DEF Pictures, Before, Pred

(* V ends: only the picture queue is left. *)
LEMMA StageEnd ==
  ASSUME NEW s \in Pictures, NEW R \in SUBSET Pictures, NEW P \in SUBSET Pictures,
         NEW D \in SUBSET Pictures, NEW Q \in SUBSET Pictures, NEW H \in SUBSET Pictures,
         Pipeline(s, R, P, D, Q, H)
  PROVE  /\ Pipeline(s, R, {}, {}, {}, {})
         /\ LET C == R \union P \union D \union Q \union H
                C1 == R \union {} \union {} \union {} \union {} IN
            Gapless(s, C) => Gapless(s, C1)
<1>1. Pipeline(s, R, {}, {}, {}, {})
  BY DEF Pipeline, Ordered
<1>2. ASSUME Gapless(s, R \union P \union D \union Q \union H), NEW b \in R, b.n > 0
      PROVE  Pred(b) \in {s} \union R
  <2>1. Pred(b) \in {s} \union R \union P \union D \union Q \union H
    BY <1>2 DEF Gapless
  <2>2. Pred(b) \in P \union D \union Q \union H => Before(b, Pred(b))
    BY DEF Pipeline, Ordered
  <2> QED
    BY <2>1, <2>2, BeforeFacts
<1> QED
  BY <1>1, <1>2 DEF Gapless

(* V takes a flush packet x and empties the decoder. *)
LEMMA StageFlush ==
  ASSUME NEW s \in Pictures, NEW R \in SUBSET Pictures,
         NEW D \in SUBSET Pictures, NEW Q \in SUBSET Pictures, NEW H \in SUBSET Pictures,
         NEW Q1, NEW x \in Pictures, Q = {x} \union Q1,
         Ordered({x}, Q1), x.n = -1, \A b \in D : b.n >= 0,
         Pipeline(s, R, {}, D, Q, H)
  PROVE  /\ Pipeline(s, R, {x}, {}, Q1, H)
         /\ LET C == R \union {} \union D \union Q \union H
                C1 == R \union {x} \union {} \union Q1 \union H IN
            C1 \subseteq C /\ (Gapless(s, C) => Gapless(s, C1))
<1>1. Pipeline(s, R, {x}, {}, Q1, H)
  BY DEF Pipeline, Ordered
<1>2. ASSUME Gapless(s, R \union D \union Q \union H), NEW b \in R \union Q \union H, b.n > 0
      PROVE  Pred(b) \in {s} \union R \union Q \union H
  <2>1. Pred(b) \in {s} \union R \union D \union Q \union H
    BY <1>2 DEF Gapless
  <2>2. ASSUME Pred(b) \in D PROVE FALSE
    <3>1. CASE b \in R
      <4>1. Before(b, Pred(b))
        BY <2>2, <3>1 DEF Pipeline, Ordered
      <4> QED
        BY <3>1, <4>1, BeforeFacts
    <3>2. CASE b \in Q \union H
      <4>1. Before(Pred(b), x)
        BY <2>2 DEF Pipeline, Ordered
      <4>2. b = x \/ Before(x, b)
        BY <3>2 DEF Pipeline, Ordered
      <4>3. b \in Pictures /\ Pred(b).n >= 0
        BY <2>2, <3>2
      <4> QED
        BY <1>2, <4>1, <4>2, <4>3 DEF Pictures, Before, Pred
    <3> QED
      BY <1>2, <3>1, <3>2
  <2> QED
    BY <2>1, <2>2
<1> QED
  BY <1>1, <1>2 DEF Gapless

(* V has drained the picture queue for the flush packet x. *)
LEMMA StageDrained ==
  ASSUME NEW s \in Pictures, NEW R \in SUBSET Pictures,
         NEW D \in SUBSET Pictures, NEW Q \in SUBSET Pictures, NEW H \in SUBSET Pictures,
         NEW x \in Pictures, x.n = -1,
         Pipeline(s, R, {x}, D, Q, H)
  PROVE  /\ Pipeline(s, R, {}, D, Q, H)
         /\ Gapless(s, R \union {x} \union D \union Q \union H)
              => Gapless(s, R \union {} \union D \union Q \union H)
         /\ \A b \in D \union Q \union H : b.e >= x.e
<1>1. Pipeline(s, R, {}, D, Q, H)
  BY DEF Pipeline, Ordered
<1>2. ASSUME NEW b \in R \union D \union Q \union H, b.n > 0 PROVE Pred(b) # x
  BY <1>2 DEF Pictures, Pred
<1>3. ASSUME NEW b \in D \union Q \union H PROVE b.e >= x.e
  <2>1. Before(x, b) /\ b \in Pictures
    BY DEF Pipeline, Ordered
  <2> QED
    BY <2>1 DEF Before, Pictures
<1> QED
  BY <1>1, <1>2, <1>3 DEF Gapless

(* D seeks: the packet queue is emptied, the position h1 is in a new part  *)
(* of the stream.                                                          *)
LEMMA StageSeek ==
  ASSUME NEW s \in Pictures, NEW R \in SUBSET Pictures, NEW P \in SUBSET Pictures,
         NEW D \in SUBSET Pictures, NEW Q \in SUBSET Pictures, NEW h \in Pictures,
         NEW h1 \in Pictures, h.e < h1.e, h1.n = -1,
         Pipeline(s, R, P, D, Q, {h})
  PROVE  /\ Pipeline(s, R, P, D, {}, {h1})
         /\ LET C == R \union P \union D \union Q \union {h}
                C1 == R \union P \union D \union {} \union {h1} IN
            Gapless(s, C) => Gapless(s, C1)
<1>1. ASSUME NEW b \in {s} \union R \union P \union D PROVE Before(b, h1)
  <2>1. Before(b, h) /\ b \in Pictures
    BY DEF Pipeline, Ordered
  <2> QED
    BY <2>1 DEF Before, Pictures
<1>2. Pipeline(s, R, P, D, {}, {h1})
  BY <1>1 DEF Pipeline, Ordered
<1>3. ASSUME Gapless(s, R \union P \union D \union Q \union {h}),
             NEW b \in R \union P \union D, b.n > 0
      PROVE  Pred(b) \in {s} \union R \union P \union D
  <2>1. Pred(b) \in {s} \union R \union P \union D \union Q \union {h}
    BY <1>3 DEF Gapless
  <2>2. Pred(b) \in Q \union {h} => Before(b, Pred(b))
    BY DEF Pipeline, Ordered
  <2> QED
    BY <2>1, <2>2, BeforeFacts
<1>4. ~(h1.n > 0)
  BY DEF Pictures
<1> QED
  BY <1>2, <1>3, <1>4 DEF Gapless

(* D appends what is at its position and goes on to h1. *)
LEMMA StageRead ==
  ASSUME NEW s \in Pictures, NEW R \in SUBSET Pictures, NEW P \in SUBSET Pictures,
         NEW D \in SUBSET Pictures, NEW Q \in SUBSET Pictures, NEW h \in Pictures,
         NEW h1 \in Pictures, h.e = h1.e, h1.n = h.n + 1,
         Pipeline(s, R, P, D, Q, {h})
  PROVE  /\ Pipeline(s, R, P, D, Q \union {h}, {h1})
         /\ LET C == R \union P \union D \union Q \union {h}
                C1 == R \union P \union D \union (Q \union {h}) \union {h1} IN
            Gapless(s, C) => Gapless(s, C1)
<1>1. Pred(h1) = h /\ Before(h, h1)
  BY DEF Pictures, Pred, Before
<1>2. ASSUME NEW b \in {s} \union R \union P \union D \union Q PROVE Before(b, h1)
  <2>1. Before(b, h) /\ b \in Pictures
    BY DEF Pipeline, Ordered
  <2> QED
    BY <1>1, <2>1, BeforeFacts
<1>3. Pipeline(s, R, P, D, Q \union {h}, {h1})
  BY <1>1, <1>2 DEF Pipeline, Ordered
<1> QED
  BY <1>1, <1>3 DEF Gapless

(* V hands the packet x to the decoder. *)
LEMMA StageFeed ==
  ASSUME NEW s \in Pictures, NEW R \in SUBSET Pictures,
         NEW D \in SUBSET Pictures, NEW Q \in SUBSET Pictures, NEW H \in SUBSET Pictures,
         NEW Q1, NEW x \in Pictures, Q = {x} \union Q1, Ordered({x}, Q1),
         Pipeline(s, R, {}, D, Q, H)
  PROVE  /\ Pipeline(s, R, {}, D \union {x}, Q1, H)
         /\ R \union {} \union (D \union {x}) \union Q1 \union H
              = R \union {} \union D \union Q \union H
  BY DEF Pipeline, Ordered

(* The decoder gives the picture y, which V has or skips. *)
LEMMA StageDecode ==
  ASSUME NEW s \in Pictures, NEW R \in SUBSET Pictures,
         NEW D \in SUBSET Pictures, NEW Q \in SUBSET Pictures, NEW H \in SUBSET Pictures,
         NEW D1, NEW y \in Pictures, D = {y} \union D1, Ordered({y}, D1),
         Pipeline(s, R, {}, D, Q, H)
  PROVE  /\ Pipeline(s, R, {y}, D1, Q, H) /\ Pipeline(s, R, {}, D1, Q, H)
         /\ R \union {y} \union D1 \union Q \union H = R \union {} \union D \union Q \union H
  BY DEF Pipeline, Ordered

(* V has copied the picture v to the picture queue. *)
LEMMA StageCopied ==
  ASSUME NEW s \in Pictures, NEW R \in SUBSET Pictures,
         NEW D \in SUBSET Pictures, NEW Q \in SUBSET Pictures, NEW H \in SUBSET Pictures,
         NEW v \in Pictures,
         Pipeline(s, R, {v}, D, Q, H)
  PROVE  /\ Pipeline(s, R \union {v}, {}, D, Q, H)
         /\ (R \union {v}) \union {} \union D \union Q \union H
              = R \union {v} \union D \union Q \union H
         /\ Ordered(R, {v})
  BY DEF Pipeline, Ordered

(* M shows the first picture f of all that are to come. *)
LEMMA StageShown ==
  ASSUME NEW s \in Pictures, NEW f \in Pictures, NEW C \in SUBSET Pictures, NEW C1,
         C = {f} \union C1, Before(s, f), Ordered({f}, C1), Gapless(s, C)
  PROVE  Gapless(f, C1) /\ (f.n > 0 => Pred(f) = s)
<1>1. ASSUME NEW b \in C1, b.n > 0 PROVE Pred(b) \in {f} \union C1
  <2>1. Pred(b) \in {s} \union {f} \union C1
    BY <1>1 DEF Gapless
  <2>2. Pred(b) # s
    <3>1. b \in Pictures /\ Before(f, b)
      BY DEF Ordered
    <3> QED
      BY <3>1, BeforeFacts
  <2> QED
    BY <2>1, <2>2
<1>2. ASSUME f.n > 0 PROVE Pred(f) = s
  <2>1. Pred(f) \in {s} \union {f} \union C1
    BY <1>2 DEF Gapless
  <2>2. Pred(f) # f /\ Pred(f) \notin C1
    <3>1. ~Before(f, Pred(f))
      BY BeforeFacts
    <3>2. Pred(f) # f
      BY DEF Pred, Pictures
    <3> QED
      BY <3>1, <3>2 DEF Ordered
  <2> QED
    BY <2>1, <2>2
<1> QED
  BY <1>1, <1>2 DEF Gapless

---------------------------------------------------------------------------
(***************************************************************************)
(* The stages, as they are kept.                                           *)
(***************************************************************************)

(* Every stage is a set of positions. *)
LEMMA StageTypes ==
  ASSUME PlayerTypeOK
  PROVE  /\ shown \in Pictures /\ Ring \in SUBSET Pictures /\ Pend \in SUBSET Pictures
         /\ Dec \in SUBSET Pictures /\ Que \in SUBSET Pictures /\ Here \in SUBSET Pictures
<1>1. Ring \in SUBSET Pictures
  BY DEF PlayerTypeOK, Ring, SlotType
<1>2. Pend \in SUBSET Pictures /\ shown \in Pictures
  BY DEF PlayerTypeOK, Pend
<1>3. Dec \in SUBSET Pictures
  BY DEF PlayerTypeOK, Dec, PicturesIn
<1>4. Que \in SUBSET Pictures
  <2>1. ASSUME NEW p \in Packets PROVE Pos(p) \in Pictures
    BY DEF Packets, Pictures, Pos
  <2>2. ASSUME NEW i \in DOMAIN videoq PROVE videoq[i] \in Packets
    BY DEF PlayerTypeOK
  <2> QED
    BY <2>1, <2>2 DEF Que, PacketsIn
<1>5. Here \in SUBSET Pictures
  BY DEF PlayerTypeOK, Here, Pictures
<1> QED
  BY <1>1, <1>2, <1>3, <1>4, <1>5

(* The decoder takes a picture, or gives its oldest. *)
LEMMA DecoderFeed ==
  ASSUME NEW d \in Seq(Pictures), NEW x \in Pictures
  PROVE  /\ PicturesIn(Append(d, x)) = PicturesIn(d) \union {x}
         /\ PicturesOrder(d) /\ Ordered(PicturesIn(d), {x}) => PicturesOrder(Append(d, x))
<1>1. /\ Len(d) \in Nat /\ DOMAIN d = 1..Len(d)
      /\ DOMAIN Append(d, x) = 1..(Len(d) + 1)
      /\ Append(d, x)[Len(d) + 1] = x
      /\ \A i \in 1..Len(d) : Append(d, x)[i] = d[i]
  BY AddLast
<1> DEFINE d1 == Append(d, x)
<1> HIDE DEF d1
<1>2. PicturesIn(d1) = PicturesIn(d) \union {x}
  BY <1>1 DEF PicturesIn, d1
<1>3. ASSUME PicturesOrder(d), Ordered(PicturesIn(d), {x}) PROVE PicturesOrder(d1)
  <2> SUFFICES ASSUME NEW i \in 1..(Len(d) + 1), NEW j \in 1..(Len(d) + 1), i < j
               PROVE  Before(d1[i], d1[j])
    BY <1>1 DEF PicturesOrder, d1
  <2>1. i \in 1..Len(d) /\ d1[i] = d[i] /\ d[i] \in PicturesIn(d)
    BY <1>1 DEF PicturesIn, d1
  <2>2. CASE j = Len(d) + 1
    BY <1>1, <1>3, <2>1, <2>2 DEF Ordered, d1
  <2>3. CASE j # Len(d) + 1
    BY <1>1, <1>3, <2>1, <2>3 DEF PicturesOrder, d1
  <2> QED
    BY <2>2, <2>3
<1> QED
  BY <1>2, <1>3 DEF d1

LEMMA DecoderGive ==
  ASSUME NEW d \in Seq(Pictures), d # <<>>
  PROVE  /\ PicturesIn(d) = {Head(d)} \union PicturesIn(Tail(d))
         /\ PicturesOrder(d) => PicturesOrder(Tail(d)) /\ Ordered({Head(d)}, PicturesIn(Tail(d)))
<1>1. /\ Len(d) \in Nat /\ Len(d) >= 1 /\ DOMAIN d = 1..Len(d) /\ Head(d) = d[1]
      /\ DOMAIN Tail(d) = 1..(Len(d) - 1)
      /\ \A i \in 1..(Len(d) - 1) : Tail(d)[i] = d[i + 1]
  BY TakeFirst
<1> DEFINE t == Tail(d)
<1> HIDE DEF t
<1>2. /\ DOMAIN t = 1..(Len(d) - 1) /\ \A i \in 1..(Len(d) - 1) : t[i] = d[i + 1]
  BY <1>1 DEF t
<1>3. ASSUME NEW i \in 1..Len(d) PROVE d[i] = d[1] \/ d[i] \in PicturesIn(t)
  <2>1. CASE i # 1
    <3>1. i - 1 \in 1..(Len(d) - 1) /\ (i - 1) + 1 = i
      BY <1>1, <2>1
    <3>2. t[i - 1] = d[i]
      BY <1>2, <3>1
    <3> QED
      BY <1>2, <3>1, <3>2 DEF PicturesIn
  <2> QED
    BY <2>1
<1>4. ASSUME NEW i \in 1..(Len(d) - 1) PROVE i + 1 \in 1..Len(d) /\ t[i] = d[i + 1]
  BY <1>1, <1>2
<1>5. PicturesIn(d) = {d[1]} \union PicturesIn(t)
  <2>1. d[1] \in PicturesIn(d)
    BY <1>1 DEF PicturesIn
  <2>2. PicturesIn(t) \subseteq PicturesIn(d)
    BY <1>1, <1>2, <1>4 DEF PicturesIn
  <2>3. PicturesIn(d) \subseteq {d[1]} \union PicturesIn(t)
    BY <1>1, <1>3 DEF PicturesIn
  <2> QED
    BY <2>1, <2>2, <2>3
<1>6. ASSUME PicturesOrder(d) PROVE PicturesOrder(t) /\ Ordered({d[1]}, PicturesIn(t))
  <2>1. ASSUME NEW i \in 1..(Len(d) - 1), NEW j \in 1..(Len(d) - 1), i < j
        PROVE  Before(t[i], t[j])
    <3>1. i + 1 \in 1..Len(d) /\ j + 1 \in 1..Len(d) /\ i + 1 < j + 1
      BY <1>1, <2>1
    <3> QED
      BY <1>1, <1>4, <1>6, <3>1 DEF PicturesOrder
  <2>2. ASSUME NEW i \in 1..(Len(d) - 1) PROVE Before(d[1], t[i])
    <3>1. 1 \in 1..Len(d) /\ i + 1 \in 1..Len(d) /\ 1 < i + 1
      BY <1>1
    <3> QED
      BY <1>1, <1>4, <1>6, <3>1 DEF PicturesOrder
  <2> QED
    BY <1>2, <2>1, <2>2 DEF PicturesOrder, Ordered, PicturesIn
<1> QED
  BY <1>1, <1>5, <1>6 DEF t

(* D appends to the packet queue, V takes its first packet. *)
LEMMA QueuePut ==
  ASSUME NEW q \in Seq(Packets), NEW x \in Packets
  PROVE  /\ PacketsIn(Append(q, x)) = IF x.k = "null" THEN PacketsIn(q)
                                                      ELSE PacketsIn(q) \union {Pos(x)}
         /\ PacketsOrder(q) /\ (x.k = "null" \/ Ordered(PacketsIn(q), {Pos(x)}))
              => PacketsOrder(Append(q, x))
<1>1. /\ Len(q) \in Nat /\ DOMAIN q = 1..Len(q)
      /\ DOMAIN Append(q, x) = 1..(Len(q) + 1)
      /\ Append(q, x)[Len(q) + 1] = x
      /\ \A i \in 1..Len(q) : Append(q, x)[i] = q[i]
  BY AddLast
<1> DEFINE q1 == Append(q, x)
<1> HIDE DEF q1
<1>2. PacketsIn(q1) = IF x.k = "null" THEN PacketsIn(q) ELSE PacketsIn(q) \union {Pos(x)}
  BY <1>1 DEF PacketsIn, q1
<1>3. ASSUME PacketsOrder(q), x.k = "null" \/ Ordered(PacketsIn(q), {Pos(x)})
      PROVE  PacketsOrder(q1)
  <2> SUFFICES ASSUME NEW i \in 1..(Len(q) + 1), NEW j \in 1..(Len(q) + 1), i < j,
                      q1[i].k # "null", q1[j].k # "null"
               PROVE  Before(Pos(q1[i]), Pos(q1[j]))
    BY <1>1 DEF PacketsOrder, q1
  <2>1. i \in 1..Len(q) /\ q1[i] = q[i] /\ Pos(q[i]) \in PacketsIn(q)
    BY <1>1 DEF PacketsIn, q1
  <2>2. CASE j = Len(q) + 1
    BY <1>1, <1>3, <2>1, <2>2 DEF Ordered, q1
  <2>3. CASE j # Len(q) + 1
    BY <1>1, <1>3, <2>1, <2>3 DEF PacketsOrder, q1
  <2> QED
    BY <2>2, <2>3
<1> QED
  BY <1>2, <1>3 DEF q1

LEMMA QueueGet ==
  ASSUME NEW q \in Seq(Packets), q # <<>>
  PROVE  /\ PacketsIn(q) = IF Head(q).k = "null" THEN PacketsIn(Tail(q))
                           ELSE {Pos(Head(q))} \union PacketsIn(Tail(q))
         /\ PacketsOrder(q) =>
              /\ PacketsOrder(Tail(q))
              /\ Head(q).k # "null" => Ordered({Pos(Head(q))}, PacketsIn(Tail(q)))
<1>1. /\ Len(q) \in Nat /\ Len(q) >= 1 /\ DOMAIN q = 1..Len(q) /\ Head(q) = q[1]
      /\ DOMAIN Tail(q) = 1..(Len(q) - 1)
      /\ \A i \in 1..(Len(q) - 1) : Tail(q)[i] = q[i + 1]
  BY TakeFirst
<1> DEFINE t == Tail(q)
<1> HIDE DEF t
<1>2. /\ DOMAIN t = 1..(Len(q) - 1) /\ \A i \in 1..(Len(q) - 1) : t[i] = q[i + 1]
  BY <1>1 DEF t
<1>3. ASSUME NEW i \in 1..Len(q), q[i].k # "null"
      PROVE  (i = 1 /\ q[1].k # "null") \/ Pos(q[i]) \in PacketsIn(t)
  <2>1. CASE i # 1
    <3>1. i - 1 \in 1..(Len(q) - 1) /\ (i - 1) + 1 = i
      BY <1>1, <2>1
    <3>2. t[i - 1] = q[i]
      BY <1>2, <3>1
    <3> QED
      BY <1>2, <1>3, <3>1, <3>2 DEF PacketsIn
  <2> QED
    BY <1>3, <2>1
<1>4. ASSUME NEW i \in 1..(Len(q) - 1) PROVE i + 1 \in 1..Len(q) /\ t[i] = q[i + 1]
  BY <1>1, <1>2
<1>5. PacketsIn(q) = IF q[1].k = "null" THEN PacketsIn(t) ELSE {Pos(q[1])} \union PacketsIn(t)
  <2>1. q[1].k # "null" => Pos(q[1]) \in PacketsIn(q)
    BY <1>1 DEF PacketsIn
  <2>2. PacketsIn(t) \subseteq PacketsIn(q)
    BY <1>1, <1>2, <1>4 DEF PacketsIn
  <2>3. \A x \in PacketsIn(q) : x \in PacketsIn(t) \/ (q[1].k # "null" /\ x = Pos(q[1]))
    BY <1>1, <1>3 DEF PacketsIn
  <2> QED
    BY <2>1, <2>2, <2>3
<1>6. ASSUME PacketsOrder(q)
      PROVE  PacketsOrder(t) /\ (q[1].k # "null" => Ordered({Pos(q[1])}, PacketsIn(t)))
  <2>1. ASSUME NEW i \in 1..(Len(q) - 1), NEW j \in 1..(Len(q) - 1), i < j,
               t[i].k # "null", t[j].k # "null"
        PROVE  Before(Pos(t[i]), Pos(t[j]))
    <3>1. i + 1 \in 1..Len(q) /\ j + 1 \in 1..Len(q) /\ i + 1 < j + 1
      BY <1>1, <2>1
    <3> QED
      BY <1>1, <1>4, <1>6, <2>1, <3>1 DEF PacketsOrder
  <2>2. ASSUME NEW i \in 1..(Len(q) - 1), q[1].k # "null", t[i].k # "null"
        PROVE  Before(Pos(q[1]), Pos(t[i]))
    <3>1. 1 \in 1..Len(q) /\ i + 1 \in 1..Len(q) /\ 1 < i + 1
      BY <1>1
    <3> QED
      BY <1>1, <1>4, <1>6, <2>2, <3>1 DEF PacketsOrder
  <2>3. PacketsOrder(t)
    BY <1>2, <2>1 DEF PacketsOrder
  <2>4. ASSUME q[1].k # "null", NEW x \in PacketsIn(t) PROVE Before(Pos(q[1]), x)
    BY <1>2, <2>2, <2>4 DEF PacketsIn
  <2> QED
    BY <2>3, <2>4 DEF Ordered
<1> QED
  BY <1>1, <1>5, <1>6 DEF t

(* The picture queue: the slots from rindex on. *)
LEMMA UnreadBounds ==
  ASSUME PlayerTypeOK, RoomInv
  PROVE  /\ Unread \in 0..QueueSize
         /\ mpc \in {"drop", "showing"} => Unread > 0
         /\ vpc = "copy" => Unread < QueueSize
  BY SizeAssumption DEF PlayerTypeOK, RoomInv, Unread

LEMMA OffFacts ==
  ASSUME PlayerTypeOK
  PROVE  /\ \A i \in Slots : Off(i) \in 0..(QueueSize - 1)
         /\ Off(rindex) = 0
         /\ \A i \in Slots : i # rindex => Off(i) > 0
         /\ \A i, j \in Slots : Off(i) = Off(j) => i = j
  BY SizeAssumption DEF PlayerTypeOK, Slots, Off

LEMMA RingFrame ==
  ASSUME PlayerTypeOK, rindex' = rindex, Unread' = Unread,
         mpc' = "showing" <=> mpc = "showing",
         \A i \in Slots : pictq'[i].pic = pictq[i].pic
  PROVE  Ring' = Ring /\ (RingOrder => RingOrder')
<1>1. \A i \in Slots : Off(i)' = Off(i) /\ (Live(i)' <=> Live(i))
  BY DEF Off, Live
<1> QED
  BY <1>1 DEF Ring, RingOrder

(* V adds the slot windex. *)
LEMMA RingCopied ==
  ASSUME PlayerTypeOK, RingInv, RoomInv, VCopied
  PROVE  /\ Ring' = Ring \union {vpic}
         /\ RingOrder /\ Ordered(Ring, {vpic}) => RingOrder'
<1>1. /\ rindex' = rindex /\ mpc' = mpc /\ size' = size /\ vpc = "copy" /\ vpc' = "count"
      /\ pictq' = [pictq EXCEPT ![windex].pic = vpic]
  BY DEF VCopied, mainVars
<1>2. Unread' = Unread + 1 /\ Unread \in 0..(QueueSize - 1) /\ QueueSize \in Nat
  BY <1>1, UnreadBounds, SizeAssumption DEF Unread, PlayerTypeOK
<1>3. Off(windex) = Unread
  BY <1>2 DEF PlayerTypeOK, RingInv, Slots, Off
<1>4. \A i \in Slots : Off(i)' = Off(i) /\ Off(i) \in 0..(QueueSize - 1)
  BY <1>1, OffFacts DEF Off
<1>5. windex \in Slots /\ rindex \in Slots
  BY DEF PlayerTypeOK
<1>6. mpc = "showing" => windex # rindex
  <2>1. mpc = "showing" => Unread > 0
    BY UnreadBounds
  <2> QED
    BY <1>3, <2>1, OffFacts
<1>7. ASSUME NEW i \in Slots PROVE Live(i)' <=> Live(i) \/ i = windex
  <2>1. Off(i) = Unread <=> i = windex
    BY <1>3, <1>5, OffFacts
  <2>2. Off(i) < Unread + 1 <=> Off(i) < Unread \/ i = windex
    BY <1>2, <1>4, <2>1
  <2> QED
    BY <1>1, <1>2, <1>4, <1>6, <2>2 DEF Live
<1>8. /\ pictq'[windex].pic = vpic
      /\ \A i \in Slots : Live(i) => pictq'[i].pic = pictq[i].pic
  <2>1. ~Live(windex)
    BY <1>2, <1>3 DEF Live
  <2> QED
    BY <1>1, <1>5, <2>1 DEF PlayerTypeOK, SlotType
<1>9. Ring' = Ring \union {vpic}
  BY <1>5, <1>7, <1>8 DEF Ring
<1>10. ASSUME RingOrder, Ordered(Ring, {vpic}) PROVE RingOrder'
  <2> SUFFICES ASSUME NEW i \in Slots, NEW j \in Slots, Live(i)', Live(j)', Off(i) < Off(j)
               PROVE  Before(pictq'[i].pic, pictq'[j].pic)
    BY <1>4 DEF RingOrder
  <2>1. i # windex /\ Live(i)
    <3>1. i # windex
      <4>1. SUFFICES ASSUME i = windex PROVE FALSE
        OBVIOUS
      <4>2. Off(i) = Unread /\ Off(j) > Unread /\ Off(j) \in Int
        BY <1>2, <1>3, <1>4, <4>1
      <4>3. ~Live(j) /\ j # windex
        BY <1>2, <1>3, <4>2 DEF Live
      <4> QED
        BY <1>7, <4>3
    <3> QED
      BY <1>7, <3>1
  <2>2. CASE j = windex
    <3>1. pictq[i].pic \in Ring
      BY <2>1 DEF Ring
    <3> QED
      BY <1>8, <1>10, <2>1, <2>2, <3>1 DEF Ordered
  <2>3. CASE j # windex
    BY <1>7, <1>8, <1>10, <2>1, <2>3 DEF RingOrder
  <2> QED
    BY <2>2, <2>3
<1> QED
  BY <1>9, <1>10

(* M shows the picture at rindex; it drops the picture; it goes on from a  *)
(* picture it has shown.                                                   *)
LEMMA RingShow ==
  ASSUME PlayerTypeOK, RoomInv, RingOrder, UNCHANGED <<pictq, rindex>>, Unread' = Unread,
         mpc = "drop", mpc' = "showing"
  PROVE  /\ pictq[rindex].pic \in Ring
         /\ Ring = {pictq[rindex].pic} \union Ring' /\ Ordered({pictq[rindex].pic}, Ring')
         /\ RingOrder'
<1>1. Unread > 0 /\ Unread \in Int /\ rindex \in Slots
  BY UnreadBounds DEF PlayerTypeOK
<1>2. /\ \A i \in Slots : Off(i)' = Off(i) /\ Off(i) \in Int
      /\ \A i \in Slots : Live(i)' <=> Live(i) /\ i # rindex
  BY OffFacts DEF Off, Live
<1>3. Live(rindex) /\ \A i \in Slots : i # rindex => Off(rindex) < Off(i)
  BY <1>1, OffFacts DEF Live
<1>4. Ring = {pictq[rindex].pic} \union Ring' /\ pictq[rindex].pic \in Ring
  BY <1>1, <1>2, <1>3 DEF Ring
<1>5. ASSUME NEW i \in Slots, Live(i)' PROVE Before(pictq[rindex].pic, pictq[i].pic)
  BY <1>1, <1>2, <1>3, <1>5 DEF RingOrder
<1>6. Ordered({pictq[rindex].pic}, Ring')
  BY <1>5 DEF Ordered, Ring
<1>7. RingOrder'
  BY <1>2 DEF RingOrder
<1> QED
  BY <1>4, <1>6, <1>7

LEMMA OffShift ==
  ASSUME PlayerTypeOK, RoomInv, rindex' = Succ(rindex), Unread' = Unread - 1,
         mpc \in {"drop", "showing"}, mpc' # "showing"
  PROVE  \A i \in Slots : /\ i # rindex => Off(i)' = Off(i) - 1
                          /\ Live(i)' <=> Off(i) < Unread /\ i # rindex
<1>1. Unread > 0 /\ Unread \in 0..QueueSize /\ rindex \in Slots /\ QueueSize \in Nat
  BY UnreadBounds, SizeAssumption DEF PlayerTypeOK
<1>2. rindex' = IF rindex = QueueSize - 1 THEN 0 ELSE rindex + 1
  BY <1>1, SuccFacts
<1> SUFFICES ASSUME NEW i \in Slots
             PROVE  /\ i # rindex => Off(i)' = Off(i) - 1
                    /\ Live(i)' <=> Off(i) < Unread /\ i # rindex
  OBVIOUS
<1>3. i # rindex => Off(i)' = Off(i) - 1
  BY <1>1, <1>2 DEF Slots, Off
<1>4. i = rindex => Off(i)' = QueueSize - 1
  BY <1>1, <1>2 DEF Slots, Off
<1>5. Off(i) \in Int
  BY OffFacts
<1>6. Off(i)' < Unread' <=> Off(i) < Unread /\ i # rindex
  BY <1>1, <1>3, <1>4, <1>5
<1>7. Live(i)' <=> Off(i)' < Unread'
  BY DEF Live
<1> QED
  BY <1>3, <1>6, <1>7

LEMMA RingDrop ==
  ASSUME PlayerTypeOK, RoomInv, RingOrder, pictq' = pictq, rindex' = Succ(rindex),
         Unread' = Unread - 1, mpc = "drop", mpc' # "showing"
  PROVE  /\ pictq[rindex].pic \in Ring
         /\ Ring = {pictq[rindex].pic} \union Ring' /\ Ordered({pictq[rindex].pic}, Ring')
         /\ RingOrder'
<1>1. Unread > 0 /\ Unread \in Int /\ rindex \in Slots
  BY UnreadBounds DEF PlayerTypeOK
<1>2. \A i \in Slots : /\ i # rindex => Off(i)' = Off(i) - 1
                       /\ Off(i) \in Int
                       /\ Live(i)' <=> Live(i) /\ i # rindex
  BY OffShift, OffFacts DEF Live
<1>3. Live(rindex) /\ \A i \in Slots : i # rindex => Off(rindex) < Off(i)
  BY <1>1, OffFacts DEF Live
<1>4. Ring = {pictq[rindex].pic} \union Ring' /\ pictq[rindex].pic \in Ring
  BY <1>1, <1>2, <1>3 DEF Ring
<1>5. ASSUME NEW i \in Slots, Live(i)' PROVE Before(pictq[rindex].pic, pictq[i].pic)
  BY <1>1, <1>2, <1>3, <1>5 DEF RingOrder
<1>6. Ordered({pictq[rindex].pic}, Ring')
  BY <1>5 DEF Ordered, Ring
<1>7. RingOrder'
  BY <1>2 DEF RingOrder
<1> QED
  BY <1>4, <1>6, <1>7

LEMMA RingAdvance ==
  ASSUME PlayerTypeOK, RoomInv, RingOrder, pictq' = pictq, rindex' = Succ(rindex),
         Unread' = Unread - 1, mpc = "showing", mpc' # "showing"
  PROVE  Ring' = Ring /\ RingOrder'
<1>1. \A i \in Slots : /\ Live(i) => Off(i)' = Off(i) - 1
                       /\ Off(i) \in Int
                       /\ Live(i)' <=> Live(i)
  BY OffShift, OffFacts DEF Live
<1> QED
  BY <1>1 DEF Ring, RingOrder

---------------------------------------------------------------------------
(***************************************************************************)
(* The steps along the pipeline.                                           *)
(***************************************************************************)

(* Steps that leave the stages as they are. *)
LEMMA PipeFrame ==
  ASSUME PlayerTypeOK, PipeInv, RingOrder',
         UNCHANGED <<setup, shown, flushed, decoder, vpic>>,
         Ring' = Ring, Pend' = Pend, Dec' = Dec, Que' = Que, Here' = Here,
         video_st' => video_st, abort_request => abort_request',
         Ending' = Ending,
         vpc' \in {"zero", "drain"} <=> vpc \in {"zero", "drain"},
         vpc' \in {"full", "slot", "alloc", "copy"} <=> vpc \in {"full", "slot", "alloc", "copy"},
         ~Ending => /\ PacketsOrder(videoq')
                    /\ \A i \in DOMAIN videoq' : videoq'[i].k = "packet" => videoq'[i].n >= 0
  PROVE  PipeInv'
<1>1. OrderInv'
  BY DEF PipeInv, OrderInv, StageOrder
<1>2. NumberInv'
  BY DEF PipeInv, NumberInv
<1>3. GaplessInv' /\ FlushInv'
  BY DEF PipeInv, GaplessInv, FlushInv, Coming
<1> QED
  BY <1>1, <1>2, <1>3 DEF PipeInv

LEMMA PipeDemux ==
  ASSUME PlayerTypeOK, CloseInv, PipeInv, Demux
  PROVE  PipeInv'
<1>1. /\ UNCHANGED <<pictq, size, rindex, vpc, vpic, decoder, mpc, shown, flushed,
                     abort_request, setup>>
      /\ video_st' => video_st
  BY DEF Demux, DAbort, DSeek, DPutFlush, DRead, DEof, DClose, DWake, DJoin, pictVars, flagVars,
         videoVars, mainVars
<1>2. /\ Unread' = Unread /\ Ending' = Ending /\ Pend' = Pend /\ Dec' = Dec
      /\ Ring' = Ring /\ RingOrder'
  <2>1. Unread' = Unread /\ Ending' = Ending /\ Pend' = Pend /\ Dec' = Dec
    BY <1>1 DEF Unread, Ending, Pend, Dec
  <2> QED
    BY <1>1, <2>1, RingFrame DEF PipeInv, OrderInv
<1>3. CASE Ending
  <2>1. Que' = Que /\ Here' = Here
    BY <1>2, <1>3 DEF Que, Here
  <2> QED
    BY <1>1, <1>2, <1>3, <2>1, PipeFrame
<1>4. CASE ~Ending
  <2> DEFINE h == [e |-> epoch, n |-> IF dpc = "putflush" THEN -1 ELSE pos]
  <2> DEFINE C == Ring \union Pend \union Dec \union Que \union {h}
  <2>1. /\ Que = PacketsIn(videoq) /\ Que' = PacketsIn(videoq') /\ Here = {h} /\ h \in Pictures
        /\ Here' = {[e |-> epoch', n |-> IF dpc' = "putflush" THEN -1 ELSE pos']}
        /\ PacketsOrder(videoq) /\ PicturesOrder(decoder)
        /\ \A i \in DOMAIN videoq : videoq[i].k = "packet" => videoq[i].n >= 0
        /\ Pipeline(shown, Ring, Pend, Dec, Que, {h}) /\ Ordered(Que, {h})
        /\ videoq \in Seq(Packets)
    <3>1. /\ Que = PacketsIn(videoq) /\ Que' = PacketsIn(videoq') /\ Here = {h}
          /\ Here' = {[e |-> epoch', n |-> IF dpc' = "putflush" THEN -1 ELSE pos']}
      BY <1>2, <1>4 DEF Que, Here
    <3>2. Pipeline(shown, Ring, Pend, Dec, Que, {h})
      BY <3>1 DEF PipeInv, OrderInv, StageOrder
    <3>3. h \in Pictures /\ videoq \in Seq(Packets)
      BY DEF PlayerTypeOK, Pictures
    <3> QED
      BY <1>4, <3>1, <3>2, <3>3 DEF PipeInv, OrderInv, NumberInv, Pipeline
  <2>2. CASE videoq' = videoq /\ epoch' = epoch /\ pos' = pos
               /\ dpc' # "putflush" /\ dpc # "putflush"
    <3>1. Here' = Here /\ Que' = Que
      BY <2>1, <2>2
    <3> QED
      BY <1>1, <1>2, <2>1, <2>2, <3>1, PipeFrame
  <2>3. CASE videoq' = Append(videoq, Null) /\ epoch' = epoch /\ pos' = pos
               /\ dpc' # "putflush" /\ dpc # "putflush"
    <3>1. Null \in Packets /\ Null.k = "null"
      BY DEF Null, Packets
    <3>2. Here' = Here /\ Que' = Que /\ PacketsOrder(videoq')
      BY <2>1, <2>3, <3>1, QueuePut
    <3>3. \A i \in DOMAIN videoq' : videoq'[i].k = "packet" => videoq'[i].n >= 0
      BY <2>1, <2>3, <3>1, AddLast
    <3> QED
      BY <1>1, <1>2, <3>2, <3>3, PipeFrame
  <2>4. CASE videoq' = <<>> /\ epoch' = epoch + 1 /\ dpc' = "putflush"
    <3> DEFINE h1 == [e |-> epoch + 1, n |-> -1]
    <3>1. h1 \in Pictures /\ h.e < h1.e /\ h1.n = -1 /\ epoch \in Nat
      BY DEF PlayerTypeOK, Pictures
    <3>2. Here' = {h1} /\ Que' = {}
      BY <2>1, <2>4 DEF PacketsIn
    <3> HIDE DEF h, h1
    <3>3. /\ Pipeline(shown, Ring, Pend, Dec, {}, {h1})
          /\ Gapless(shown, C) => Gapless(shown, Ring \union Pend \union Dec \union {} \union {h1})
      BY <2>1, <3>1, StageTypes, StageSeek
    <3>4. OrderInv'
      <4>1. PacketsOrder(videoq')
        BY <2>4 DEF PacketsOrder
      <4> QED
        BY <1>1, <1>2, <2>1, <3>2, <3>3, <4>1 DEF OrderInv, StageOrder
    <3>5. NumberInv'
      BY <1>1, <1>2, <2>4 DEF PipeInv, NumberInv
    <3>6. GaplessInv'
      BY <1>1, <1>2, <2>1, <3>2, <3>3 DEF PipeInv, GaplessInv, Coming
    <3>7. FlushInv'
      <4>1. ~abort_request => h.e >= flushed
        BY <2>1 DEF PipeInv, FlushInv, Coming
      <4>2. ~abort_request => h1.e >= flushed
        BY <3>1, <4>1, <2>1 DEF Pictures, PlayerTypeOK
      <4> QED
        BY <1>1, <1>2, <3>2, <4>2 DEF PipeInv, FlushInv, Coming
    <3> QED
      BY <3>4, <3>5, <3>6, <3>7 DEF PipeInv
  <2>5. ASSUME NEW x \in Packets, NEW h1 \in Pictures,
               videoq' = Append(videoq, x), x.k # "null", x.k = "packet" => x.n >= 0,
               Pos(x) = h, h1.e = h.e, h1.n = h.n + 1, Here' = {h1}
        PROVE  PipeInv'
    <3>1. Que' = Que \union {h} /\ PacketsOrder(videoq')
      BY <2>1, <2>5, QueuePut
    <3>2. \A i \in DOMAIN videoq' : videoq'[i].k = "packet" => videoq'[i].n >= 0
      BY <2>1, <2>5, AddLast
    <3> HIDE DEF h
    <3>3. /\ Pipeline(shown, Ring, Pend, Dec, Que \union {h}, {h1})
          /\ Gapless(shown, C)
               => Gapless(shown, Ring \union Pend \union Dec \union (Que \union {h}) \union {h1})
      BY <2>1, <2>5, StageTypes, StageRead
    <3>4. OrderInv'
      BY <1>1, <1>2, <2>1, <2>5, <3>1, <3>3 DEF OrderInv, StageOrder
    <3>5. NumberInv'
      BY <1>1, <1>2, <3>2 DEF PipeInv, NumberInv
    <3>6. GaplessInv'
      BY <1>1, <1>2, <2>1, <2>5, <3>1, <3>3 DEF PipeInv, GaplessInv, Coming
    <3>7. FlushInv'
      BY <1>1, <1>2, <2>1, <2>5, <3>1 DEF PipeInv, FlushInv, Coming
    <3> QED
      BY <3>4, <3>5, <3>6, <3>7 DEF PipeInv
  <2>6. CASE DPutFlush
    <3>1. /\ dpc = "putflush" /\ dpc' = "read" /\ epoch' = epoch /\ pos' = pos /\ pos = 0
          /\ videoq' = Append(videoq, [Flush EXCEPT !.e = epoch])
      BY <2>6 DEF DPutFlush, CloseInv
    <3> DEFINE x == [Flush EXCEPT !.e = epoch]
    <3> DEFINE h1 == [e |-> epoch, n |-> 0]
    <3>2. x \in Packets /\ x.k = "flush" /\ h1 \in Pictures /\ Here' = {h1}
      BY <2>1, <3>1 DEF PlayerTypeOK, Flush, Packets, Pictures
    <3>3. Pos(x) = h /\ h1.e = h.e /\ h1.n = h.n + 1
      BY <3>1 DEF Flush, Pos
    <3> QED
      BY <2>5, <3>1, <3>2, <3>3
  <2>7. CASE videoq' = Append(videoq, [k |-> "packet", e |-> epoch, n |-> pos])
               /\ epoch' = epoch /\ pos' = pos + 1 /\ dpc' # "putflush" /\ dpc # "putflush"
    <3> DEFINE x == [k |-> "packet", e |-> epoch, n |-> pos]
    <3> DEFINE h1 == [e |-> epoch, n |-> pos + 1]
    <3>1. x \in Packets /\ x.k = "packet" /\ x.n >= 0 /\ h1 \in Pictures /\ Here' = {h1}
      BY <2>1, <2>7 DEF PlayerTypeOK, Packets, Pictures
    <3>2. Pos(x) = h /\ h1.e = h.e /\ h1.n = h.n + 1
      BY <2>7 DEF Pos
    <3> QED
      BY <2>5, <2>7, <3>1, <3>2
  <2>8. CASE DSeek
    BY <2>2, <2>4, <2>8, Zenon DEF DSeek
  <2>9. CASE DRead
    <3>1. dpc' \notin {"putflush"} /\ dpc # "putflush" /\ epoch' = epoch
      BY <2>9 DEF DRead
    <3>2. \/ videoq' = videoq /\ pos' = pos
          \/ videoq' = Append(videoq, Null) /\ pos' = pos
          \/ videoq' = Append(videoq, [k |-> "packet", e |-> epoch, n |-> pos]) /\ pos' = pos + 1
      BY <2>9, Zenon DEF DRead
    <3> QED
      BY <2>2, <2>3, <2>7, <3>1, <3>2
  <2>10. CASE DAbort \/ DEof \/ DClose \/ DWake
    <3>1. videoq' = videoq /\ epoch' = epoch /\ pos' = pos /\ dpc' # "putflush"
            /\ dpc # "putflush"
      BY <2>10 DEF DAbort, DEof, DClose, DWake, queueVars
    <3> QED
      BY <2>2, <3>1
  <2>11. CASE DJoin
    BY <1>4, <2>11 DEF DJoin, Ending
  <2> QED
    BY <2>6, <2>8, <2>9, <2>10, <2>11 DEF Demux
<1> QED
  BY <1>3, <1>4

(* V ends. *)
LEMMA PipeEnds ==
  ASSUME PlayerTypeOK, PipeInv, ~Ending, vpc # "count", vpc' = "end",
         UNCHANGED <<setup, pictq, size, rindex, mpc, shown, flushed, abort_request, video_st>>
  PROVE  PipeInv'
<1>1. /\ Ending' /\ Pend' = {} /\ Dec' = {} /\ Que' = {} /\ Here' = {} /\ Unread' = Unread
      /\ vpc' \notin {"zero", "drain", "full", "slot", "alloc", "copy"}
  BY DEF Ending, Pend, Dec, Que, Here, Unread
<1>2. Ring' = Ring /\ RingOrder'
  BY <1>1, RingFrame DEF PipeInv, OrderInv
<1>3. Pipeline(shown, Ring, Pend, Dec, Que, Here)
  BY DEF PipeInv, OrderInv, StageOrder
<1>4. /\ Pipeline(shown, Ring, {}, {}, {}, {})
      /\ Gapless(shown, Coming)
           => Gapless(shown, Ring \union {} \union {} \union {} \union {})
  BY <1>3, StageTypes, StageEnd DEF Coming
<1>5. OrderInv'
  BY <1>1, <1>2, <1>4 DEF OrderInv, StageOrder
<1>6. NumberInv'
  BY <1>1, <1>2 DEF PipeInv, NumberInv
<1>7. GaplessInv' /\ FlushInv'
  BY <1>1, <1>2, <1>4 DEF PipeInv, GaplessInv, FlushInv, Coming
<1> QED
  BY <1>5, <1>6, <1>7 DEF PipeInv

(* V has drained the picture queue, or the player closes. *)
LEMMA PipeDrained ==
  ASSUME PlayerTypeOK, RoomInv, CloseInv, PipeInv, vpc \in {"zero", "drain"}, vpc' = "top",
         Drained, flushed' = vpic.e, \A i \in Slots : pictq'[i].pic = pictq[i].pic,
         UNCHANGED <<setup, size, rindex, mpc, shown, abort_request, video_st, decoder, vpic,
                     videoq, epoch, pos, dpc>>
  PROVE  PipeInv'
<1>1. /\ ~Ending /\ ~Ending' /\ Pend = {vpic} /\ Pend' = {} /\ Dec' = Dec /\ Que' = Que
      /\ Here' = Here /\ Unread' = Unread
      /\ vpc' \notin {"zero", "drain", "full", "slot", "alloc", "copy"}
  BY DEF Ending, Pend, Dec, Que, Here, Unread
<1>2. Ring' = Ring /\ RingOrder'
  BY <1>1, RingFrame DEF PipeInv, OrderInv
<1>3. Pipeline(shown, Ring, {vpic}, Dec, Que, Here) /\ vpic.n = -1 /\ vpic \in Pictures
  BY <1>1 DEF PipeInv, OrderInv, StageOrder, NumberInv, PlayerTypeOK
<1>4. /\ Pipeline(shown, Ring, {}, Dec, Que, Here)
      /\ Gapless(shown, Ring \union {vpic} \union Dec \union Que \union Here)
           => Gapless(shown, Ring \union {} \union Dec \union Que \union Here)
      /\ \A b \in Dec \union Que \union Here : b.e >= vpic.e
  <2>1. /\ shown \in Pictures /\ Ring \in SUBSET Pictures /\ Dec \in SUBSET Pictures
        /\ Que \in SUBSET Pictures /\ Here \in SUBSET Pictures
    BY StageTypes
  <2> QED
    BY <1>3, <2>1, StageDrained
<1>5. OrderInv'
  BY <1>1, <1>2, <1>4 DEF PipeInv, OrderInv, StageOrder
<1>6. NumberInv'
  BY <1>1, <1>2 DEF PipeInv, NumberInv
<1>7. GaplessInv'
  BY <1>1, <1>2, <1>4 DEF PipeInv, GaplessInv, Coming
<1>8. FlushInv'
  <2>1. CASE abort_request
    BY <2>1 DEF FlushInv
  <2>2. CASE ~abort_request
    <3>1. size = 0
      BY <2>2 DEF Drained, CloseInv
    <3>2. Unread = 0
      BY <3>1 DEF Unread, RoomInv
    <3>3. Ring = {}
      BY <3>2, OffFacts DEF Ring, Live
    <3> QED
      BY <1>1, <1>2, <1>4, <3>3 DEF FlushInv, Coming
  <2> QED
    BY <2>1, <2>2
<1> QED
  BY <1>5, <1>6, <1>7, <1>8 DEF PipeInv

(* V takes a flush packet. *)
LEMMA PipeFlush ==
  ASSUME PlayerTypeOK, PipeInv, vpc = "get", VGetFlush,
         UNCHANGED <<setup, pictq, size, rindex, mpc, shown, flushed, abort_request, video_st,
                     epoch, pos, dpc>>
  PROVE  PipeInv'
<1> DEFINE p == Head(videoq)
<1>1. /\ videoq # <<>> /\ videoq' = Tail(videoq) /\ videoq \in Seq(Packets) /\ p.k = "flush"
      /\ vpc' = "zero" /\ decoder' = <<>> /\ vpic' = [e |-> p.e, n |-> -1]
  BY DEF VGetFlush, PlayerTypeOK
<1>2. p \in Packets /\ Pos(p) = vpic' /\ vpic' \in Pictures /\ vpic'.n = -1
  <2>1. p \in Packets
    BY <1>1, TakeFirst
  <2> QED
    BY <1>1, <2>1 DEF Pos, Packets, Pictures
<1>3. /\ ~Ending /\ ~Ending' /\ Pend = {} /\ Pend' = {vpic'} /\ Dec' = {} /\ Here' = Here
      /\ Que = PacketsIn(videoq) /\ Que' = PacketsIn(videoq') /\ Unread' = Unread
  BY <1>1 DEF Ending, Pend, Dec, PicturesIn, Que, Here, Unread
<1>4. Ring' = Ring /\ RingOrder'
  BY <1>3, RingFrame DEF PipeInv, OrderInv
<1>5. /\ Que = {vpic'} \union Que' /\ Ordered({vpic'}, Que') /\ PacketsOrder(videoq')
  BY <1>1, <1>2, <1>3, QueueGet DEF PipeInv, OrderInv
<1>6. Pipeline(shown, Ring, {}, Dec, Que, Here) /\ \A b \in Dec : b.n >= 0
  BY <1>3 DEF PipeInv, OrderInv, StageOrder, NumberInv
<1>7. /\ Pipeline(shown, Ring, {vpic'}, {}, Que', Here)
      /\ (Ring \union {vpic'} \union {} \union Que' \union Here)
             \subseteq (Ring \union {} \union Dec \union Que \union Here)
      /\ Gapless(shown, Ring \union {} \union Dec \union Que \union Here)
           => Gapless(shown, Ring \union {vpic'} \union {} \union Que' \union Here)
  BY <1>2, <1>5, <1>6, StageTypes, StageFlush
<1>8. OrderInv'
  <2>1. PicturesOrder(decoder')
    BY <1>1 DEF PicturesOrder
  <2> QED
    BY <1>3, <1>4, <1>5, <1>7, <2>1 DEF OrderInv, StageOrder
<1>9. NumberInv'
  <2>1. \A i \in DOMAIN videoq' : videoq'[i].k = "packet" => videoq'[i].n >= 0
    BY <1>1, <1>3, TakeFirst DEF PipeInv, NumberInv
  <2> QED
    BY <1>1, <1>2, <1>3, <1>4, <2>1 DEF PipeInv, NumberInv
<1>10. GaplessInv' /\ FlushInv'
  BY <1>3, <1>4, <1>7 DEF PipeInv, GaplessInv, FlushInv, Coming
<1> QED
  BY <1>8, <1>9, <1>10 DEF PipeInv

(* V takes another packet and decodes. *)
LEMMA PipeDecode ==
  ASSUME PlayerTypeOK, PipeInv, vpc = "get", VGetDecode,
         UNCHANGED <<setup, pictq, size, rindex, mpc, shown, flushed, abort_request, video_st,
                     epoch, pos, dpc>>
  PROVE  PipeInv'
<1> DEFINE p == Head(videoq)
<1> DEFINE d == Fed(p)
<1>1. /\ videoq # <<>> /\ videoq' = Tail(videoq) /\ videoq \in Seq(Packets) /\ p.k # "flush"
      /\ vpc' \in {"full", "top"} /\ decoder \in Seq(Pictures)
  BY DEF VGetDecode, PlayerTypeOK
<1>2. p \in Packets /\ p = videoq[1] /\ 1 \in DOMAIN videoq
  BY <1>1, TakeFirst
<1>3. /\ ~Ending /\ ~Ending' /\ Pend = {} /\ Here' = Here
      /\ Dec = PicturesIn(decoder) /\ Dec' = PicturesIn(decoder')
      /\ Que = PacketsIn(videoq) /\ Que' = PacketsIn(videoq') /\ Unread' = Unread
      /\ Pend' = IF vpc' = "full" THEN {vpic'} ELSE {}
  BY <1>1 DEF Ending, Pend, Dec, Que, Here, Unread
<1>4. Ring' = Ring /\ RingOrder'
  BY <1>3, RingFrame DEF PipeInv, OrderInv
<1>5. Pipeline(shown, Ring, {}, Dec, Que, Here) /\ PicturesOrder(decoder) /\ PacketsOrder(videoq)
  BY <1>3 DEF PipeInv, OrderInv, StageOrder
<1>6. /\ Pipeline(shown, Ring, {}, PicturesIn(d), Que', Here) /\ PicturesOrder(d)
      /\ Ring \union {} \union PicturesIn(d) \union Que' \union Here
           = Ring \union {} \union Dec \union Que \union Here
      /\ \A b \in PicturesIn(d) : b.n >= 0
      /\ PacketsOrder(videoq')
  <2>1. \A b \in Dec : b.n >= 0
    BY DEF PipeInv, NumberInv
  <2>2. CASE p.k = "null"
    <3>1. d = decoder
      BY <2>2 DEF Fed
    <3>2. Que' = Que /\ PacketsOrder(videoq')
      BY <1>1, <1>3, <1>5, <2>2, QueueGet
    <3> QED
      BY <1>3, <1>5, <2>1, <3>1, <3>2
  <2>3. CASE p.k # "null"
    <3>1. p.k = "packet" /\ p.n >= 0
      <4>1. p.k = "packet"
        BY <1>1, <1>2, <2>3 DEF Packets
      <4> QED
        BY <1>2, <1>3, <4>1 DEF PipeInv, NumberInv
    <3> DEFINE x == [e |-> p.e, n |-> p.n]
    <3>2. x \in Pictures /\ Pos(p) = x /\ d = Append(decoder, x) /\ x.n >= 0
      BY <1>2, <3>1 DEF Packets, Pictures, Pos, Fed
    <3> HIDE DEF x, d, p
    <3>3. Que = {x} \union Que' /\ Ordered({x}, Que') /\ PacketsOrder(videoq')
      BY <1>1, <1>3, <1>5, <2>3, <3>2, QueueGet DEF p
    <3>4. Ordered(Dec, {x})
      BY <1>5, <3>3 DEF Pipeline, Ordered
    <3>5. PicturesIn(d) = Dec \union {x} /\ PicturesOrder(d)
      BY <1>1, <1>3, <1>5, <3>2, <3>4, DecoderFeed
    <3>6. /\ Pipeline(shown, Ring, {}, Dec \union {x}, Que', Here)
          /\ Ring \union {} \union (Dec \union {x}) \union Que' \union Here
               = Ring \union {} \union Dec \union Que \union Here
      BY <1>5, <3>2, <3>3, StageTypes, StageFeed
    <3> QED
      BY <2>1, <3>2, <3>3, <3>5, <3>6
  <2> QED
    BY <2>2, <2>3
<1>7. \A i \in DOMAIN videoq' : videoq'[i].k = "packet" => videoq'[i].n >= 0
  BY <1>1, <1>3, TakeFirst DEF PipeInv, NumberInv
<1>8. CASE decoder' = d /\ vpc' = "top" /\ vpic' = vpic
  <2> HIDE DEF d
  <2>1. Dec' = PicturesIn(d) /\ Pend' = {}
    BY <1>3, <1>8
  <2>2. OrderInv'
    BY <1>3, <1>4, <1>6, <1>8, <2>1 DEF OrderInv, StageOrder
  <2>3. NumberInv'
    BY <1>3, <1>4, <1>6, <1>7, <1>8, <2>1 DEF PipeInv, NumberInv
  <2>4. GaplessInv' /\ FlushInv'
    BY <1>3, <1>4, <1>6, <2>1 DEF PipeInv, GaplessInv, FlushInv, Coming
  <2> QED
    BY <2>2, <2>3, <2>4 DEF PipeInv
<1>9. CASE /\ Len(d) > Held(p) /\ decoder' = Tail(d) /\ vpic' = Head(d)
           /\ vpc' = "full" \/ (setup.framedrop /\ vpc' = "top")
  <2>1. d \in Seq(Pictures) /\ d # <<>> /\ Head(d) \in Pictures /\ Tail(d) \in Seq(Pictures)
    BY <1>2, <1>9, DecodeFacts
  <2> DEFINE y == Head(d)
  <2> HIDE DEF d
  <2>2. /\ PicturesIn(d) = {y} \union Dec' /\ Ordered({y}, Dec') /\ PicturesOrder(decoder')
    BY <1>3, <1>6, <1>9, <2>1, DecoderGive
  <2>3. /\ PicturesIn(d) \in SUBSET Pictures /\ y \in Pictures /\ y.n >= 0 /\ Que' \in SUBSET Pictures
    <3>1. PicturesIn(d) \in SUBSET Pictures
      BY <2>1 DEF PicturesIn
    <3>2. y \in PicturesIn(d)
      BY <2>2
    <3>3. Que' \in SUBSET Pictures
      <4>1. Que' \subseteq Que
        BY <1>1, <1>3, QueueGet
      <4> QED
        BY <4>1, StageTypes
    <3> QED
      BY <1>6, <2>1, <3>1, <3>2, <3>3
  <2> HIDE DEF y
  <2>4. /\ Pipeline(shown, Ring, {y}, Dec', Que', Here)
        /\ Pipeline(shown, Ring, {}, Dec', Que', Here)
        /\ Ring \union {y} \union Dec' \union Que' \union Here
             = Ring \union {} \union PicturesIn(d) \union Que' \union Here
    BY <1>6, <2>2, <2>3, StageTypes, StageDecode
  <2>5. vpic' = y
    BY <1>9 DEF y
  <2>6. Pend' = {y} \/ (Pend' = {} /\ setup.framedrop)
    BY <1>1, <1>3, <1>9, <2>5
  <2>7. OrderInv'
    BY <1>3, <1>4, <1>6, <2>2, <2>4, <2>6 DEF OrderInv, StageOrder
  <2>8. NumberInv'
    <3>1. \A b \in Dec' : b.n >= 0
      BY <1>6, <2>2
    <3> QED
      BY <1>1, <1>3, <1>4, <1>7, <2>3, <2>5, <3>1 DEF PipeInv, NumberInv
  <2>9. GaplessInv'
    <3>1. CASE Pend' = {y}
      BY <1>3, <1>4, <1>6, <2>4, <3>1 DEF PipeInv, GaplessInv, Coming
    <3>2. CASE setup.framedrop
      BY <3>2 DEF GaplessInv
    <3> QED
      BY <2>6, <3>1, <3>2
  <2>10. FlushInv'
    <3>1. Coming' \subseteq Coming
      BY <1>3, <1>4, <1>6, <2>4, <2>6 DEF Coming
    <3> QED
      BY <3>1 DEF PipeInv, FlushInv
  <2> QED
    BY <2>7, <2>8, <2>9, <2>10 DEF PipeInv
<1> QED
  BY <1>8, <1>9 DEF VGetDecode

(* V has copied a picture to the picture queue. *)
LEMMA PipeCopied ==
  ASSUME PlayerTypeOK, RingInv, RoomInv, PipeInv, VCopied
  PROVE  PipeInv'
<1>1. /\ vpc = "copy" /\ vpc' = "count"
      /\ UNCHANGED <<setup, shown, flushed, abort_request, video_st, decoder, videoq, epoch, pos,
                     dpc, vpic>>
  BY DEF VCopied, queueVars, flagVars, demuxVars, mainVars
<1>2. /\ ~Ending /\ ~Ending' /\ Pend = {vpic} /\ Pend' = {} /\ Dec' = Dec /\ Que' = Que
      /\ Here' = Here
      /\ vpc' \notin {"zero", "drain", "full", "slot", "alloc", "copy"}
  BY <1>1 DEF Ending, Pend, Dec, Que, Here
<1>3. Pipeline(shown, Ring, {vpic}, Dec, Que, Here) /\ vpic.n >= 0 /\ vpic \in Pictures
  BY <1>1, <1>2 DEF PipeInv, OrderInv, StageOrder, NumberInv, PlayerTypeOK
<1>4. /\ Pipeline(shown, Ring \union {vpic}, {}, Dec, Que, Here)
      /\ (Ring \union {vpic}) \union {} \union Dec \union Que \union Here
           = Ring \union {vpic} \union Dec \union Que \union Here
      /\ Ordered(Ring, {vpic})
  BY <1>3, StageTypes, StageCopied
<1>5. Ring' = Ring \union {vpic} /\ RingOrder'
  BY <1>4, RingCopied DEF PipeInv, OrderInv
<1>6. OrderInv'
  BY <1>1, <1>2, <1>4, <1>5 DEF PipeInv, OrderInv, StageOrder
<1>7. NumberInv'
  BY <1>1, <1>2, <1>3, <1>5 DEF PipeInv, NumberInv
<1>8. GaplessInv' /\ FlushInv'
  BY <1>1, <1>2, <1>4, <1>5 DEF PipeInv, GaplessInv, FlushInv, Coming
<1> QED
  BY <1>6, <1>7, <1>8 DEF PipeInv

LEMMA PipeVideo ==
  ASSUME PlayerTypeOK, QueueInv, CloseInv, PipeInv, Video
  PROVE  PipeInv'
<1>1. /\ UNCHANGED <<setup, rindex, mpc, shown, abort_request, video_st, epoch, pos, dpc>>
  BY DEF Video, VTop, VGet, VZero, VDrain, VFull, VSlot, VAlloc, VCopied, VCount, VEnd, pictVars,
         flagVars, demuxVars, mainVars
<1>2. ASSUME UNCHANGED <<videoq, decoder, vpic, flushed>>, Unread' = Unread,
             \A i \in Slots : pictq'[i].pic = pictq[i].pic,
             Ending' = Ending,
             vpc' \in {"zero", "drain"} <=> vpc \in {"zero", "drain"},
             vpc' \in {"full", "slot", "alloc", "copy"}
               <=> vpc \in {"full", "slot", "alloc", "copy"}
      PROVE  PipeInv'
  <2>1. Ring' = Ring /\ RingOrder'
    BY <1>1, <1>2, RingFrame DEF PipeInv, OrderInv
  <2>2. Pend' = Pend
    BY <1>2 DEF Pend
  <2>3. Dec' = Dec /\ Que' = Que /\ Here' = Here
    BY <1>1, <1>2 DEF Dec, Que, Here
  <2>4. ~Ending => /\ PacketsOrder(videoq')
                   /\ \A i \in DOMAIN videoq' : videoq'[i].k = "packet" => videoq'[i].n >= 0
    BY <1>2 DEF PipeInv, OrderInv, NumberInv
  <2> QED
    BY <1>1, <1>2, <2>1, <2>2, <2>3, <2>4, PipeFrame
<1>3. CASE VGet
  <2>1. UNCHANGED <<pictq, size, flushed>> /\ vpc = "get"
    BY <1>3, VGetCases DEF pictVars
  <2>2. CASE VGetAbort
    BY <1>1, <2>1, <2>2, PipeEnds DEF VGetAbort, Ending
  <2>3. CASE VGetFlush
    BY <1>1, <2>1, <2>3, PipeFlush
  <2>4. CASE VGetDecode
    BY <1>1, <2>1, <2>4, PipeDecode
  <2> QED
    BY <1>3, <2>2, <2>3, <2>4, VGetCases
<1>4. CASE VZero \/ VDrain
  <2>1. /\ UNCHANGED <<size, videoq, decoder, vpic>> /\ vpc \in {"zero", "drain"}
        /\ \/ vpc' \in {"zero", "drain"} /\ flushed' = flushed
           \/ Drained /\ vpc' = "top" /\ flushed' = vpic.e
        /\ pictq' = pictq \/ (vi < QueueSize /\ pictq' = [pictq EXCEPT ![vi].target = 0])
    BY <1>4 DEF VZero, VDrain, DrainWait, queueVars, pictVars
  <2>2. \A i \in Slots : pictq'[i].pic = pictq[i].pic
    BY <2>1 DEF PlayerTypeOK, SlotType
  <2>3. CASE vpc' \in {"zero", "drain"} /\ flushed' = flushed
    <3>1. Unread' = Unread /\ Ending' = Ending
      BY <1>1, <2>1, <2>3 DEF Unread, Ending
    <3> QED
      BY <1>2, <2>1, <2>2, <2>3, <3>1
  <2>4. CASE Drained /\ vpc' = "top" /\ flushed' = vpic.e
    BY <1>1, <2>1, <2>2, <2>4, PipeDrained DEF QueueInv
  <2> QED
    BY <2>1, <2>3, <2>4
<1>5. CASE VTop \/ VFull \/ VEnd
  <2>1. /\ UNCHANGED <<size, pictq, videoq, decoder, vpic, flushed>>
        /\ \/ vpc = "top" /\ vpc' = "get"
           \/ vpc = "full" /\ vpc' \in {"full", "slot"}
           \/ vpc = "end" /\ vpc' = "exit"
    BY <1>5 DEF VTop, VFull, VEnd, queueVars, pictVars
  <2>2. Unread' = Unread /\ Ending' = Ending
    BY <1>1, <2>1 DEF Unread, Ending
  <2> QED
    BY <1>2, <2>1, <2>2
<1>6. CASE VSlot \/ VAlloc
  <2>1. /\ UNCHANGED <<size, videoq, decoder, vpic, flushed>>
        /\ vpc \in {"slot", "alloc"} /\ vpc' \in {"alloc", "copy", "end"}
        /\ vpc' = "end" => pictq' = pictq
        /\ pictq' = pictq \/ pictq' = [pictq EXCEPT ![windex].allocated = FALSE]
    BY <1>6 DEF VSlot, VAlloc, queueVars, pictVars
  <2>2. \A i \in Slots : pictq'[i].pic = pictq[i].pic
    BY <2>1 DEF PlayerTypeOK, SlotType
  <2>3. CASE vpc' = "end"
    BY <1>1, <2>1, <2>3, PipeEnds DEF Ending
  <2>4. CASE vpc' # "end"
    <3>1. Unread' = Unread /\ Ending' = Ending
      BY <1>1, <2>1, <2>4 DEF Unread, Ending
    <3> QED
      BY <1>2, <2>1, <2>2, <2>4, <3>1
  <2> QED
    BY <2>3, <2>4
<1>7. CASE VCopied
  BY <1>7, PipeCopied DEF QueueInv
<1>8. CASE VCount
  <2>1. /\ UNCHANGED <<videoq, decoder, vpic, flushed>> /\ size' = size + 1
        /\ vpc = "count" /\ vpc' = "top"
        /\ pictq' = [i \in Slots |-> IF Succ(i) = windex
                                     THEN [pictq[i] EXCEPT !.target = TargetTime(vpic)]
                                     ELSE pictq[i]]
    BY <1>8 DEF VCount, queueVars
  <2>2. \A i \in Slots : pictq'[i].pic = pictq[i].pic
    BY <2>1 DEF PlayerTypeOK, SlotType
  <2>3. Unread' = Unread /\ Ending' = Ending
    <3>1. size \in Int
      BY SizeAssumption DEF PlayerTypeOK
    <3>2. Unread' = Unread
      BY <1>1, <2>1, <3>1 DEF Unread
    <3>3. Ending' = Ending
      BY <2>1 DEF Ending
    <3> QED
      BY <3>2, <3>3
  <2> QED
    BY <1>2, <2>1, <2>2, <2>3
<1> QED
  BY <1>3, <1>4, <1>5, <1>6, <1>7, <1>8 DEF Video

(* M goes on in the picture queue. *)
LEMMA PipeMain ==
  ASSUME PlayerTypeOK, QueueInv, CloseInv, PipeInv, Main \/ User \/ Refresh
  PROVE  PipeInv'
<1>1. /\ UNCHANGED <<setup, videoq, vpc, vpic, decoder, video_st, epoch, pos, dpc, flushed>>
      /\ abort_request => abort_request'
  BY DEF Main, MEvent, MNotDue, MDue, MNext, MAssert, MDrop, MDisplay, MAdvance, MDec, MRefDone,
         MLockFilter, MAlloc, MAllocated, MClose, MJoin, User, Refresh, MRest, queueVars, flagVars,
         demuxVars, videoVars
<1>2. /\ Ending' = Ending /\ Pend' = Pend /\ Dec' = Dec /\ Que' = Que /\ Here' = Here
      /\ ~Ending => /\ PacketsOrder(videoq')
                    /\ \A i \in DOMAIN videoq' : videoq'[i].k = "packet" => videoq'[i].n >= 0
  BY <1>1 DEF Ending, Pend, Dec, Que, Here, PipeInv, OrderInv, NumberInv
<1>3. Pipeline(shown, Ring, Pend, Dec, Que, Here)
  BY DEF PipeInv, OrderInv, StageOrder
<1>4. ASSUME NEW f \in Pictures, f \in Ring, Ring = {f} \union Ring', Ordered({f}, Ring'),
             RingOrder', shown' = f \/ (shown' = shown /\ (setup.framedrop \/ ~video_st))
      PROVE  PipeInv'
  <2>1. /\ shown \in Pictures /\ Ring \in SUBSET Pictures /\ Pend \in SUBSET Pictures
        /\ Dec \in SUBSET Pictures /\ Que \in SUBSET Pictures /\ Here \in SUBSET Pictures
    BY StageTypes
  <2>2. /\ Pipeline(f, Ring', Pend, Dec, Que, Here) /\ Pipeline(shown, Ring', Pend, Dec, Que, Here)
        /\ Coming' \subseteq Coming
        /\ Gapless(shown, Coming) => Gapless(f, Coming')
    <3>1. /\ Pipeline(f, Ring', Pend, Dec, Que, Here)
          /\ Pipeline(shown, Ring', Pend, Dec, Que, Here)
      BY <1>3, <1>4 DEF Pipeline, Ordered
    <3>2. Coming = {f} \union Coming' /\ Coming \in SUBSET Pictures
      BY <1>2, <1>4, <2>1 DEF Coming
    <3>3. Before(shown, f) /\ Ordered({f}, Coming')
      BY <1>2, <1>3, <1>4 DEF Coming, Pipeline, Ordered
    <3>4. Gapless(shown, Coming) => Gapless(f, Coming')
      BY <2>1, <3>2, <3>3, StageShown
    <3> QED
      BY <3>1, <3>2, <3>4
  <2>3. OrderInv'
    BY <1>1, <1>2, <1>4, <2>2 DEF PipeInv, OrderInv, StageOrder
  <2>4. NumberInv'
    <3>1. shown'.n >= -1
      BY <1>4 DEF PipeInv, NumberInv, Pictures
    <3> QED
      BY <1>1, <1>2, <1>4, <3>1 DEF PipeInv, NumberInv
  <2>5. GaplessInv'
    BY <1>1, <1>4, <2>2 DEF PipeInv, GaplessInv
  <2>6. FlushInv'
    BY <1>1, <2>2 DEF PipeInv, FlushInv
  <2> QED
    BY <2>3, <2>4, <2>5, <2>6 DEF PipeInv
<1>5. pictq[rindex].pic \in Pictures
  BY DEF PlayerTypeOK, SlotType
<1>6. CASE MDisplay
  <2>1. /\ UNCHANGED <<pictq, rindex, size>> /\ mpc = "drop" /\ mpc' = "showing"
        /\ shown' = pictq[rindex].pic
    BY <1>6 DEF MDisplay, pictVars
  <2>2. Unread' = Unread
    BY <1>1, <2>1 DEF Unread
  <2> QED
    BY <1>4, <1>5, <2>1, <2>2, RingShow DEF QueueInv, PipeInv, OrderInv
<1>7. CASE MDrop \/ (MAdvance /\ mpc = "drop")
  <2>1. /\ pictq' = pictq /\ rindex' = Succ(rindex) /\ size' = size /\ shown' = shown
        /\ mpc = "drop" /\ mpc' \in {"dec", "dropped"} /\ (setup.framedrop \/ ~video_st)
    BY <1>7 DEF MDrop, MAdvance
  <2>2. Unread' = Unread - 1
    BY <1>1, <2>1 DEF Unread, PlayerTypeOK
  <2> QED
    BY <1>4, <1>5, <2>1, <2>2, RingDrop DEF QueueInv, PipeInv, OrderInv
<1>8. CASE MAdvance /\ mpc = "showing"
  <2>1. /\ pictq' = pictq /\ rindex' = Succ(rindex) /\ size' = size /\ shown' = shown
        /\ mpc = "showing" /\ mpc' = "dec"
    BY <1>8 DEF MAdvance
  <2>2. Unread' = Unread - 1
    BY <1>1, <2>1 DEF Unread, PlayerTypeOK
  <2>3. Ring' = Ring /\ RingOrder'
    BY <2>1, <2>2, RingAdvance DEF QueueInv, PipeInv, OrderInv
  <2> QED
    BY <1>1, <1>2, <2>1, <2>3, PipeFrame
<1>9. ASSUME shown' = shown, rindex' = rindex, Unread' = Unread,
             mpc' = "showing" <=> mpc = "showing",
             \A i \in Slots : pictq'[i].pic = pictq[i].pic
      PROVE  PipeInv'
  <2>1. Ring' = Ring /\ RingOrder'
    BY <1>9, RingFrame DEF PipeInv, OrderInv
  <2> QED
    BY <1>1, <1>2, <1>9, <2>1, PipeFrame
<1>10. CASE MDec
  <2>1. /\ UNCHANGED <<pictq, rindex, shown>> /\ size' = size - 1
        /\ mpc \in {"dec", "dropped"} /\ mpc' \in {"refdone", "retry"}
    BY <1>10 DEF MDec
  <2>2. Unread' = Unread
    BY <1>1, <2>1 DEF Unread, PlayerTypeOK
  <2> QED
    BY <1>9, <2>1, <2>2
<1>11. CASE MAlloc \/ MAllocated
  <2>1. /\ UNCHANGED <<size, rindex, shown>>
        /\ mpc \in {"alloc", "allocated"} /\ mpc' \in {"allocated", "close", "loop"}
        /\ \/ pictq' = pictq \/ pictq' = [pictq EXCEPT ![windex].bmp = TRUE]
           \/ pictq' = [pictq EXCEPT ![windex].allocated = TRUE]
    BY <1>11 DEF MAlloc, MAllocated
  <2>2. \A i \in Slots : pictq'[i].pic = pictq[i].pic
    <3>1. CASE pictq' = [pictq EXCEPT ![windex].bmp = TRUE]
      BY <3>1 DEF PlayerTypeOK, SlotType
    <3>2. CASE pictq' = [pictq EXCEPT ![windex].allocated = TRUE]
      BY <3>2 DEF PlayerTypeOK, SlotType
    <3> QED
      BY <2>1, <3>1, <3>2
  <2>3. Unread' = Unread
    BY <1>1, <2>1 DEF Unread
  <2> QED
    BY <1>9, <2>1, <2>2, <2>3
<1>12. CASE \/ MEvent \/ MNotDue \/ MDue \/ MNext \/ MAssert \/ MRefDone \/ MLockFilter \/ MClose
            \/ MJoin \/ User \/ Refresh
  <2>1. UNCHANGED <<pictq, size, rindex, shown>>
    BY <1>12 DEF MEvent, MNotDue, MDue, MNext, MAssert, MRefDone, MLockFilter, MClose, MJoin, User,
         Refresh, pictVars, mainVars
  <2>2. mpc' = mpc \/ (/\ mpc \notin {"dec", "dropped", "showing"}
                       /\ mpc' \notin {"dec", "dropped", "showing"})
    <3>1. CASE MEvent
      <4>1. events # <<>> /\ events \in Seq({"refresh", "alloc", "quit"})
        BY <3>1 DEF MEvent, PlayerTypeOK
      <4>2. Head(events) \in {"refresh", "alloc", "quit"}
        BY <4>1, TakeFirst
      <4> QED
        BY <3>1, <4>2 DEF MEvent
    <3>2. CASE MNotDue \/ MDue \/ MNext \/ MAssert \/ MRefDone \/ MLockFilter \/ MClose \/ MJoin
      BY <3>2 DEF MNotDue, MDue, HasPicture, MNext, MAssert, MRefDone, MLockFilter, MClose, MJoin
    <3>3. CASE User \/ Refresh
      BY <3>3 DEF User, Refresh, mainVars
    <3> QED
      BY <1>12, <3>1, <3>2, <3>3
  <2>3. Unread' = Unread
    BY <1>1, <2>1, <2>2 DEF Unread
  <2> QED
    BY <1>9, <2>1, <2>2, <2>3
<1>13. MAdvance => mpc \in {"drop", "showing"}
  BY DEF MAdvance
<1> QED
  BY <1>6, <1>7, <1>8, <1>10, <1>11, <1>12, <1>13 DEF Main

---------------------------------------------------------------------------
(***************************************************************************)
(* The theorems.                                                           *)
(***************************************************************************)
LEMMA PlayerInvInit == Init => PlayerInv
<1> SUFFICES ASSUME Init PROVE PlayerInv
  OBVIOUS
<1> USE SizeAssumption
<1>0. /\ setup \in Setups /\ size = 0 /\ rindex = 0 /\ windex = 0
      /\ dpc = "top" /\ epoch = 0 /\ pos = 0
      /\ vpc = "top" /\ vi = 0 /\ mpc = "loop" /\ flushed = 0
      /\ qabort \in BOOLEAN /\ ~qabort /\ abort_request \in BOOLEAN /\ ~abort_request
      /\ video_st \in BOOLEAN
      /\ shown = NoPicture
  BY Zenon DEF Init
<1>1. PlayerTypeOK
  <2>1. setup \in Setups /\ qabort \in BOOLEAN /\ size \in 0..QueueSize /\ rindex \in Slots
        /\ windex \in Slots /\ abort_request \in BOOLEAN /\ video_st \in BOOLEAN
        /\ dpc \in DPcs /\ epoch \in Nat /\ pos \in Nat /\ vpc \in VPcs /\ vi \in Nat
        /\ mpc \in MPcs /\ flushed \in Int
    BY <1>0 DEF Slots, DPcs, VPcs, MPcs
  <2>2. videoq \in Seq(Packets)
    <3>1. Flush \in Packets /\ videoq = <<Flush>>
      BY DEF Init, Flush, Packets
    <3> QED
      BY <3>1
  <2>3. vpic \in Pictures /\ shown \in Pictures /\ decoder \in Seq(Pictures)
        /\ events \in Seq({"refresh", "alloc", "quit"})
    BY DEF Init, NoPicture, Pictures
  <2>4. pictq \in [Slots -> SlotType]
    <3>1. [pic |-> NoPicture, target |-> 0, bmp |-> FALSE, allocated |-> FALSE] \in SlotType
      BY DEF NoPicture, SlotType, Pictures
    <3> QED
      BY <3>1 DEF Init
  <2> QED
    BY <2>1, <2>2, <2>3, <2>4 DEF PlayerTypeOK
<1>2. Unread = 0 /\ ~Ending
  <2>1. vpc = "top" /\ mpc = "loop" /\ size = 0
    BY <1>0
  <2>2. ~Ending
    BY <2>1 DEF Ending
  <2>3. Unread = 0 + 0 - 0
    BY <2>1 DEF Unread
  <2> QED
    BY <2>2, <2>3
<1>3. QueueInv
  <2>1. RingInv /\ RoomInv
    BY <1>2 DEF Init, RingInv, RoomInv
  <2>2. Requests = {}
    BY DEF Init, Requests
  <2>3. AllocInv
    BY <2>2 DEF Init, AllocInv, Allocating
  <2> QED
    BY <2>1, <2>3 DEF QueueInv
<1>4. CloseInv
  BY DEF Init, CloseInv, Closing
<1>5. \A i \in Slots : ~Live(i)
  BY <1>1, <1>2, OffFacts DEF Live
<1>6. Ring = {} /\ RingOrder
  BY <1>5 DEF Ring, RingOrder
<1>7. Pend = {} /\ Dec = {} /\ PicturesOrder(decoder)
  BY <1>2 DEF Init, Pend, Dec, PicturesIn, PicturesOrder
<1>8. Here = {[e |-> 0, n |-> 0]}
  BY <1>2 DEF Init, Here
<1>9. /\ Que = {[e |-> 0, n |-> -1]} /\ PacketsOrder(videoq)
      /\ \A i \in DOMAIN videoq : videoq[i].k = "flush"
  <2>1. videoq = <<Flush>> /\ Pos(Flush) = [e |-> 0, n |-> -1] /\ Flush.k = "flush"
    BY DEF Init, Flush, Pos
  <2>2. DOMAIN videoq = {1} /\ videoq[1] = Flush
    BY <2>1
  <2>3. PacketsIn(videoq) = {Pos(Flush)}
    BY <2>1, <2>2 DEF PacketsIn
  <2>4. PacketsOrder(videoq)
    BY <2>2 DEF PacketsOrder
  <2> QED
    BY <1>2, <2>1, <2>2, <2>3, <2>4 DEF Que
<1>10. OrderInv
  <2>1. shown = [e |-> -1, n |-> -1]
    BY DEF Init, NoPicture
  <2>2. StageOrder
    BY <1>6, <1>7, <1>8, <1>9, <2>1 DEF StageOrder, Pipeline, Ordered, Before
  <2> QED
    BY <1>6, <1>7, <1>9, <2>2 DEF OrderInv
<1>11. NumberInv
  BY <1>0, <1>6, <1>7, <1>9 DEF NumberInv, NoPicture
<1>12. GaplessInv /\ FlushInv
  <2>1. \A b \in Coming : b = [e |-> 0, n |-> 0] \/ b = [e |-> 0, n |-> -1]
    BY <1>6, <1>7, <1>8, <1>9 DEF Coming
  <2>2. \A b \in Coming : ~(b.n > 0) /\ b.e = 0
    BY <2>1
  <2> QED
    BY <2>2 DEF GaplessInv, Gapless, FlushInv, Init
<1> QED
  BY <1>1, <1>3, <1>4, <1>10, <1>11, <1>12 DEF PlayerInv, PipeInv

LEMMA PlayerInvStep == PlayerInv /\ [Next]_vars => PlayerInv'
<1> SUFFICES ASSUME PlayerInv, [Next]_vars PROVE PlayerInv'
  OBVIOUS
<1> USE DEF PlayerInv, QueueInv
<1>1. CASE Demux
  BY <1>1, TypeDemux, QueueDemux, AllocDemux, CloseDemux, PipeDemux
<1>2. CASE Video
  BY <1>2, TypeVideo, QueueVideo, AllocVideo, CloseVideo, PipeVideo
<1>3. CASE Main \/ User \/ Refresh
  BY <1>3, TypeMain, QueueMain, AllocMain, CloseMain, PipeMain
<1>4. CASE UNCHANGED vars
  <2>1. UNCHANGED <<setup, videoq, qabort, pictq, size, rindex, windex, abort_request, video_st,
                    events, dpc, epoch, pos, vpc, vi, vpic, decoder, mpc, shown, flushed>>
    BY <1>4 DEF vars, queueVars, pictVars, flagVars, demuxVars, videoVars, mainVars
  <2>2. PlayerTypeOK'
    BY <2>1 DEF PlayerTypeOK
  <2>3. Unread' = Unread /\ Ending' = Ending /\ Requests' = Requests
    BY <2>1 DEF Unread, Ending, Requests
  <2>4. RingInv' /\ RoomInv' /\ CloseInv'
    BY <2>1, <2>3 DEF RingInv, RoomInv, CloseInv, Closing
  <2>5. AllocInv'
    BY <2>1, <2>3 DEF AllocInv, Allocating
  <2>6. PipeInv'
    <3>1. Ring' = Ring /\ RingOrder'
      BY <2>1, <2>3, RingFrame DEF PipeInv, OrderInv
    <3>2. /\ Pend' = Pend /\ Dec' = Dec /\ Que' = Que /\ Here' = Here
          /\ ~Ending => /\ PacketsOrder(videoq')
                        /\ \A i \in DOMAIN videoq' : videoq'[i].k = "packet" => videoq'[i].n >= 0
      BY <2>1, <2>3 DEF Pend, Dec, Que, Here, PipeInv, OrderInv, NumberInv
    <3> QED
      BY <2>1, <2>3, <3>1, <3>2, PipeFrame
  <2> QED
    BY <2>2, <2>4, <2>5, <2>6
<1> QED
  BY <1>1, <1>2, <1>3, <1>4 DEF Next

(* The inductive invariant: the picture queue holds what it counts, and    *)
(* the player is one pipeline in the order of the stream.                  *)
THEOREM PlayerInvariant == Spec => []PlayerInv
  BY PlayerInvInit, PlayerInvStep, PTL DEF Spec

(* For any size of the picture queue, M shows no overlay that V copies to  *)
(* and allocates none that V uses.                                         *)
THEOREM OverlaysExclusive == Spec => []NoTearing
<1>1. PlayerInv => NoTearing
  <2> SUFFICES ASSUME PlayerInv PROVE NoTearing
    OBVIOUS
  <2>1. ASSUME vpc = "copy", mpc = "showing" PROVE rindex # windex
    <3>1. Unread > 0 /\ Unread < QueueSize /\ Unread \in Int
      BY <2>1, UnreadBounds DEF PlayerInv, QueueInv
    <3> QED
      BY <3>1, SizeAssumption DEF PlayerInv, QueueInv, RingInv, PlayerTypeOK, Slots
  <2>2. mpc \in {"alloc", "allocated"} => vpc \in {"alloc", "end", "exit"}
    BY DEF PlayerInv, QueueInv, AllocInv, Allocating
  <2> QED
    BY <2>1, <2>2 DEF NoTearing
<1> QED
  BY <1>1, PlayerInvariant, PTL

(* What a step may do to the picture shown. *)
ShowStep ==
  shown' # shown =>
    /\ Before(shown, shown')
    /\ shown'.e >= flushed
    /\ ~setup.framedrop /\ shown'.e = shown.e => shown'.n = shown.n + 1
    /\ ~setup.framedrop /\ shown'.e # shown.e => shown'.n = 0

LEMMA ShowStepHolds == PlayerInv /\ [Next]_vars => ShowStep
<1> SUFFICES ASSUME PlayerInv, Next, shown' # shown
             PROVE  /\ Before(shown, shown')
                    /\ shown'.e >= flushed
                    /\ ~setup.framedrop /\ shown'.e = shown.e => shown'.n = shown.n + 1
                    /\ ~setup.framedrop /\ shown'.e # shown.e => shown'.n = 0
  BY DEF ShowStep, vars, mainVars
<1>1. MDisplay
  BY DEF Next, Demux, DAbort, DSeek, DPutFlush, DRead, DEof, DClose, DWake, DJoin, Video, VTop,
         VGet, VZero, VDrain, VFull, VSlot, VAlloc, VCopied, VCount, VEnd, Main, MEvent, MNotDue,
         MDue, MNext, MAssert, MDrop, MAdvance, MDec, MRefDone, MLockFilter, MAlloc, MAllocated,
         MClose, MJoin, User, Refresh, mainVars
<1> DEFINE f == pictq[rindex].pic
<1>2. /\ UNCHANGED <<pictq, rindex, size, vpc>> /\ mpc = "drop" /\ mpc' = "showing" /\ video_st
      /\ shown' = f
  BY <1>1 DEF MDisplay, pictVars, videoVars
<1>3. Unread' = Unread
  BY <1>2 DEF Unread
<1>4. f \in Ring /\ Ring = {f} \union Ring' /\ Ordered({f}, Ring')
  BY <1>2, <1>3, RingShow DEF PlayerInv, QueueInv, PipeInv, OrderInv
<1>5. /\ shown \in Pictures /\ Ring \in SUBSET Pictures /\ Pend \in SUBSET Pictures
      /\ Dec \in SUBSET Pictures /\ Que \in SUBSET Pictures /\ Here \in SUBSET Pictures
  BY StageTypes DEF PlayerInv
<1>6. Pipeline(shown, Ring, Pend, Dec, Que, Here)
  BY DEF PlayerInv, PipeInv, OrderInv, StageOrder
<1>6a. ~setup.framedrop => Gapless(shown, Coming)
  BY <1>2 DEF PlayerInv, PipeInv, GaplessInv
<1>7. f \in Pictures /\ f.n >= 0 /\ ~abort_request /\ f \in Coming
  BY <1>2, <1>4, <1>5 DEF PlayerInv, PipeInv, NumberInv, CloseInv, Coming
<1> HIDE DEF f
<1>8. Before(shown, f)
  BY <1>4, <1>6 DEF Pipeline, Ordered
<1>9. f.e >= flushed
  BY <1>7 DEF PlayerInv, PipeInv, FlushInv
<1>10. ~setup.framedrop /\ f.n > 0 => Pred(f) = shown
  <2> DEFINE C1 == Ring' \union Pend \union Dec \union Que \union Here
  <2>1. Coming = {f} \union C1 /\ Coming \in SUBSET Pictures
    BY <1>4, <1>5 DEF Coming
  <2>2. Ordered({f}, C1)
    BY <1>4, <1>6 DEF Pipeline, Ordered
  <2> HIDE DEF C1
  <2>3. Gapless(shown, Coming) => Gapless(f, C1) /\ (f.n > 0 => Pred(f) = shown)
    BY <1>5, <1>7, <1>8, <2>1, <2>2, StageShown
  <2> QED
    BY <1>6a, <2>3
<1>11. CASE f.n > 0
  <2>1. ~setup.framedrop => f.e = shown.e /\ f.n = shown.n + 1
    BY <1>5, <1>7, <1>10, <1>11 DEF Pred, Pictures
  <2> QED
    BY <1>2, <1>8, <1>9, <2>1
<1>12. CASE f.n = 0
  <2>1. ASSUME ~setup.framedrop, f.e = shown.e PROVE f.n = shown.n + 1
    <3>1. shown.n < 0 /\ shown.n >= -1 /\ shown.n \in Int
      BY <1>5, <1>7, <1>8, <1>12, <2>1 DEF Before, Pictures, PlayerInv, PipeInv, NumberInv
    <3> QED
      BY <1>12, <2>1, <3>1
  <2> QED
    BY <1>2, <1>8, <1>9, <1>12, <2>1
<1> QED
  BY <1>7, <1>11, <1>12 DEF Pictures

(* Whatever the seeks, pauses and the depth of the queues, the pictures    *)
(* are shown in the order of the stream, without a gap unless pictures are *)
(* dropped, and none from before a flush that V has completed.             *)
THEOREM ShownInOrder == Spec => ShowOrder
<1>1. Spec => [][ShowStep]_vars
  BY PlayerInvariant, ShowStepHolds, PTL DEF Spec
<1> QED
  BY <1>1 DEF ShowOrder, ShowStep
=============================================================================
