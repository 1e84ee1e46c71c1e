-------------------------------- MODULE Mux --------------------------------
(***************************************************************************)
(* Muxing, libavformat/mux.c: the queue of av_interleaved_write_frame(),   *)
(* which holds packets back until every stream has one, the checks and     *)
(* guesses of compute_pkt_fields2(), and the shift of negative timestamps. *)
(*                                                                         *)
(* The code is sequential.  A call is split into one action per packet it  *)
(* writes, because writing may fail each time; nothing happens between     *)
(* these actions.                                                          *)
(*                                                                         *)
(* The queue is a linked list with a pointer to its end and, per stream, a *)
(* pointer to the last packet of the stream: a sequence, and the names of  *)
(* the packets pointed to.                                                 *)
(***************************************************************************)
EXTENDS Integers, Sequences, SequencesExt, FiniteSetsExt

CONSTANTS
  NbStreams,    \* nb_streams, all of them interleaved (no attachments)
  Microsecond,  \* units of time in 1 / AV_TIME_BASE
  Setups,       \* the files to write: records of the type SetupType
  MaxPackets,   \* bound: packets of a stream
  Steps         \* bound: by how much dts and pts may grow

ASSUME StreamsAssumption == NbStreams \in Nat \ {0}
ASSUME MicrosecondAssumption == Microsecond \in Nat \ {0}

Streams == 0..(NbStreams - 1)

SetupType ==
  [ tb : [Streams -> Nat \ {0}],     \* time_base: units of time in a tick
    first : [Streams -> SUBSET Int], \* the first dts (or pts) of a stream
    delay : [Streams -> {0, 1}],     \* has_b_frames; 1: the user gives pts only
    delta : Nat,                     \* max_interleave_delta (microseconds), 0: no limit
    avoid : {"no", "nonnegative", "zero"},   \* avoid_negative_ts
    nonstrict : BOOLEAN,             \* AVFMT_TS_NONSTRICT
    direct : BOOLEAN,                \* av_write_frame(), the user interleaves
    flushes : BOOLEAN,               \* the user flushes in between
    faults : Nat ]                   \* bound: failures of memory and of writing

ASSUME SetupsAssumption == Setups \subseteq SetupType

NOPTS == -1000   \* AV_NOPTS_VALUE: below every timestamp, in ticks and in time

ASSUME TimestampsAssumption ==
  /\ \A u \in Setups : \A s \in Streams : \A ts \in u.first[s] : (ts - 1) * u.tb[s] > NOPTS
  /\ Steps \subseteq Nat /\ MaxPackets \in Nat

None == [s |-> -1, id |-> 0]

VARIABLES
  setup,
  cur_dts, pts_buffer,        \* AVStream
  packet_buffer,              \* the queue
  packet_buffer_end, last,    \* pointers into it
  offset,                     \* internal->offset and offset_timebase
  pc, flush, closing,
  ret,                        \* result of the last call: "ok", "einval", "error"
  faults,                     \* bound: failures so far
  \* history
  accepted,     \* packets taken from the user, per stream
  out,          \* the packet written last, and its dts in the file
  taken,        \* the packet of each stream that left the queue last
  forced,       \* a packet was written before every stream had one
  shifts        \* the shifts applied so far, in units of time

queueVars == <<packet_buffer, packet_buffer_end, last>>
histVars == <<accepted, out, taken, forced, shifts>>
vars == <<setup, cur_dts, pts_buffer, queueVars, offset, pc, flush, closing, ret, faults, histVars>>

Name(p) == [s |-> p.s, id |-> p.id]
Time(p) == p.dts * setup.tb[p.s]
NotYet == [s |-> -1, id |-> 0, dts |-> NOPTS, time |-> NOPTS]

(* av_rescale_q(): a units of b in units of c, rounded to the nearest one  *)
(* and halves away from zero; a packet's dts in microseconds.              *)
Rescale(a, b, c) ==
  IF a >= 0 THEN (a * b + c \div 2) \div c ELSE -((-a * b + c \div 2) \div c)

Micros(p) == Rescale(p.dts, setup.tb[p.s], Microsecond)

Init ==
  /\ setup \in Setups
  /\ cur_dts = [s \in Streams |-> NOPTS]
  /\ pts_buffer = [s \in Streams |-> NOPTS]
  /\ packet_buffer = <<>> /\ packet_buffer_end = None
  /\ last = [s \in Streams |-> None]
  /\ offset = NotYet
  /\ pc = "idle" /\ flush = FALSE /\ closing = FALSE /\ ret = "ok" /\ faults = 0
  /\ accepted = [s \in Streams |-> 0]
  /\ out = NotYet
  /\ taken = [s \in Streams |-> 0]
  /\ forced = FALSE /\ shifts = {}

(* An allocation or the muxer fails. *)
Fails == faults < setup.faults /\ faults' = faults + 1 /\ ret' = "error"

---------------------------------------------------------------------------
(***************************************************************************)
(* compute_pkt_fields2(): without a dts, the smaller one of the pts and    *)
(* the one held back (a delay of one), which starts a duration, one tick,  *)
(* before the first pts.  cur_dts = 0 is taken for "none yet".             *)
(***************************************************************************)
HeldPts(s, pts) == IF pts_buffer[s] = NOPTS THEN pts - 1 ELSE pts_buffer[s]

Dts(s, ts) == IF setup.delay[s] = 0 THEN ts ELSE Min({ts, HeldPts(s, ts)})

PtsBuffer(s, ts) ==
  IF setup.delay[s] = 0 THEN pts_buffer
  ELSE [pts_buffer EXCEPT ![s] = Max({ts, HeldPts(s, ts)})]

NotIncreasing(s, dts) ==
  /\ cur_dts[s] # 0 /\ cur_dts[s] # NOPTS
  /\ cur_dts[s] > dts \/ (~setup.nonstrict /\ cur_dts[s] = dts)

(***************************************************************************)
(* The queue.                                                              *)
(***************************************************************************)

(* interleave_compare_dts(): does next come after pkt? *)
After_Ticks(next, pkt) == next.dts > pkt.dts \/ (next.dts = pkt.dts /\ pkt.s < next.s)
After(next, pkt) ==
  \/ Time(next) > Time(pkt)
  \/ Time(next) = Time(pkt) /\ pkt.s < next.s

Place(name) == Min({i \in DOMAIN packet_buffer : Name(packet_buffer[i]) = name}
                     \cup {Len(packet_buffer) + 1})

(* ff_interleave_add_packet(): the search begins behind the last packet of *)
(* the stream, unless the new one belongs at the end.                      *)
SearchFrom(s) == IF last[s] = None THEN 1 ELSE Place(last[s]) + 1

AtEnd(p) ==
  \/ SearchFrom(p.s) > Len(packet_buffer)
  \/ ~After(packet_buffer[Place(packet_buffer_end)], p)

AddPacket(p) ==
  /\ packet_buffer' =
       InsertAt(packet_buffer,
                IF AtEnd(p) THEN Len(packet_buffer) + 1
                ELSE Min({i \in SearchFrom(p.s)..Len(packet_buffer) :
                            After(packet_buffer[i], p)}),
                p)
  /\ packet_buffer_end' = IF AtEnd(p) THEN Name(p) ELSE packet_buffer_end
  /\ last' = [last EXCEPT ![p.s] = Name(p)]

(* ff_interleave_packet_per_dts(): the streams with a packet, the span of  *)
(* the queue as it comes out of rounding both ends to microseconds, and    *)
(* whether a packet is to be written.                                      *)
Waiting == {s \in Streams : last[s] # None}
Delta ==
  Max({Micros(packet_buffer[Place(last[s])]) : s \in Waiting}) - Micros(packet_buffer[1])

TooLong_Never == FALSE
TooLong == setup.delta > 0 /\ packet_buffer # <<>> /\ Delta > setup.delta

Ready == Waiting # {} /\ (Waiting = Streams \/ flush \/ TooLong)

(* The first packet leaves the queue. *)
LastAfter_Kept(p) == last
LastAfter(p) == IF last[p.s] = Name(p) THEN [last EXCEPT ![p.s] = None] ELSE last

Pop ==
  /\ packet_buffer' = Tail(packet_buffer)
  /\ packet_buffer_end' = IF Len(packet_buffer) = 1 THEN None ELSE packet_buffer_end
  /\ last' = LastAfter(packet_buffer[1])

(***************************************************************************)
(* write_packet(): the offset is fixed by the first packet that needs one, *)
(* and rescaled, rounding to the nearest tick, for the other streams.      *)
(***************************************************************************)
NeedsOffset_Always(p) == setup.avoid # "no"
NeedsOffset(p) ==
  setup.avoid # "no" /\ offset = NotYet /\ (p.dts < 0 \/ setup.avoid = "zero")

WritePacket(p) ==
  /\ offset' = IF NeedsOffset(p) THEN [s |-> p.s, id |-> 0, dts |-> -p.dts, time |-> NOPTS]
               ELSE offset
  /\ LET by == IF offset' = NotYet THEN 0
               ELSE Rescale(offset'.dts, setup.tb[offset'.s], setup.tb[p.s])
     IN \/ /\ ret' = "ok" /\ UNCHANGED faults
           /\ out' = [s |-> p.s, id |-> p.id, dts |-> p.dts + by, time |-> Time(p)]
           /\ shifts' = shifts \cup {[s |-> p.s, by |-> by]}
        \/ Fails /\ UNCHANGED <<out, shifts>>
  /\ taken' = [taken EXCEPT ![p.s] = p.id]

---------------------------------------------------------------------------
(* A call with a packet of stream s with the timestamp ts.  The user's     *)
(* timestamps do not go back, and one who interleaves keeps the order of   *)
(* the streams, too.                                                       *)
Timestamps(s) ==
  IF cur_dts[s] = NOPTS THEN setup.first[s]
  ELSE {cur_dts[s] + n : n \in Steps} \ {IF setup.delay[s] = 0 THEN NOPTS ELSE pts_buffer[s]}

Packet(s, ts) == [s |-> s, id |-> accepted[s] + 1, dts |-> Dts(s, ts)]

Refuse(s, ts) ==
  /\ pc = "idle" /\ NotIncreasing(s, Dts(s, ts))
  /\ pts_buffer' = PtsBuffer(s, ts)
  /\ ret' = "einval"
  /\ UNCHANGED <<setup, cur_dts, queueVars, offset, pc, flush, closing, faults, histVars>>

Accept(s, ts) ==
  /\ pc = "idle" /\ accepted[s] < MaxPackets /\ ~NotIncreasing(s, Dts(s, ts))
  /\ pts_buffer' = PtsBuffer(s, ts)
  /\ cur_dts' = [cur_dts EXCEPT ![s] = Dts(s, ts)]

(* av_interleaved_write_frame(); without memory the packet is lost. *)
InterleavedWriteFrame(s, ts) ==
  /\ ~setup.direct /\ Accept(s, ts)
  /\ \/ /\ AddPacket(Packet(s, ts))
        /\ accepted' = [accepted EXCEPT ![s] = @ + 1]
        /\ pc' = "loop" /\ UNCHANGED <<ret, faults>>
     \/ /\ Fails
        /\ UNCHANGED <<queueVars, pc, accepted>>
  /\ flush' = FALSE
  /\ UNCHANGED <<setup, offset, closing, out, taken, forced, shifts>>

(* av_write_frame() *)
WriteFrame(s, ts) ==
  /\ setup.direct /\ Accept(s, ts)
  /\ \A r \in Streams : Time(Packet(s, ts)) >= cur_dts[r] * setup.tb[r]
  /\ WritePacket(Packet(s, ts))
  /\ accepted' = [accepted EXCEPT ![s] = @ + 1]
  /\ UNCHANGED <<setup, queueVars, pc, flush, closing, forced>>

(* av_interleaved_write_frame(NULL) and av_write_trailer(). *)
Flush ==
  /\ pc = "idle" /\ setup.flushes
  /\ flush' = TRUE /\ pc' = "loop"
  /\ UNCHANGED <<setup, cur_dts, pts_buffer, queueVars, offset, closing, ret, faults, histVars>>

Trailer ==
  /\ pc = "idle"
  /\ flush' = TRUE /\ closing' = TRUE /\ pc' = "loop"
  /\ UNCHANGED <<setup, cur_dts, pts_buffer, queueVars, offset, ret, faults, histVars>>

(* The loop of both: write packets, until one fails ... *)
Returned == IF closing THEN "closed" ELSE "idle"

Output ==
  /\ pc = "loop" /\ Ready
  /\ Pop
  /\ WritePacket(packet_buffer[1])
  /\ forced' = (forced \/ (Waiting # Streams /\ ~closing))
  /\ pc' = IF ret' = "ok" THEN "loop" ELSE Returned
  /\ UNCHANGED <<setup, cur_dts, pts_buffer, flush, closing, accepted>>

(* ... or there is none to write. *)
Return ==
  /\ pc = "loop" /\ ~Ready
  /\ ret' = "ok"
  /\ pc' = Returned
  /\ UNCHANGED <<setup, cur_dts, pts_buffer, queueVars, offset, flush, closing, faults, histVars>>

Next ==
  \/ \E s \in Streams : \E ts \in Timestamps(s) :
       Refuse(s, ts) \/ InterleavedWriteFrame(s, ts) \/ WriteFrame(s, ts)
  \/ Flush \/ Trailer \/ Output \/ Return

Spec == Init /\ [][Next]_vars

---------------------------------------------------------------------------
(***************************************************************************)
(* Properties.                                                             *)
(***************************************************************************)

(* The list and the pointers into it agree, whatever was inserted and      *)
(* taken out: packet_buffer_end is its last packet, last_in_packet_buffer  *)
(* the last one of each stream, and it is sorted by time.                  *)
ListIntact ==
  /\ packet_buffer_end = IF packet_buffer = <<>> THEN None
                         ELSE Name(packet_buffer[Len(packet_buffer)])
  /\ \A s \in Streams :
       LET mine == {i \in DOMAIN packet_buffer : packet_buffer[i].s = s} IN
       last[s] = IF mine = {} THEN None ELSE Name(packet_buffer[Max(mine)])
  /\ \A i, j \in DOMAIN packet_buffer : i < j => ~After(packet_buffer[i], packet_buffer[j])

(* "properly interleaved in the order of increasing dts" (avformat.h:1712):*)
(* until max_interleave_delta or a flush forces a packet out, each packet  *)
(* written is no earlier than the one before it, in whatever order and     *)
(* time base the streams came; and within a stream none is ever left out,  *)
(* written twice or out of order.                                          *)
Interleaved ==
  [][ /\ out' # out /\ ~forced' => out'.time >= out.time
      /\ \A s \in Streams : taken'[s] \in {taken[s], taken[s] + 1} ]_vars

(* After a call that succeeded the queue lacks a packet of some stream and *)
(* every packet in it is less than a microsecond more than                 *)
(* max_interleave_delta after the first (rounding both to microseconds may *)
(* cost that much); after the trailer it is empty.                         *)
BoundedHold ==
  pc \in {"idle", "closed"} /\ ret = "ok" =>
    /\ Waiting # Streams
    /\ setup.delta > 0 /\ packet_buffer # <<>> =>
         \A p \in Range(packet_buffer) :
           Time(p) - Time(packet_buffer[1]) < (setup.delta + 1) * Microsecond
    /\ closing => taken = accepted

(* With avoid_negative_ts no timestamp in the file is negative, and the    *)
(* streams stay in sync: every packet of a stream is shifted by the same   *)
(* amount, and those of different streams by the same time up to the       *)
(* rounding of half a tick.                                                *)
InSync ==
  ~forced =>
    /\ setup.avoid # "no" /\ out # NotYet => out.dts >= 0
    /\ \A a, b \in shifts :
         /\ a.s = b.s => a.by = b.by
         /\ 2 * (a.by * setup.tb[a.s] - b.by * setup.tb[b.s])
              <= setup.tb[a.s] + setup.tb[b.s]
=============================================================================
