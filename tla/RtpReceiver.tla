---------------------------- MODULE RtpReceiver ----------------------------
(***************************************************************************)
(* Reception of one RTP stream: the reordering queue, the sequence-number  *)
(* statistics and the timestamps of libavformat/rtpdec.c, driven by the    *)
(* loop of ff_rtsp_fetch_packet() in libavformat/rtsp.c, over a network    *)
(* that loses, duplicates and reorders packets and a sender that may       *)
(* restart its numbering.                                                  *)
(*                                                                         *)
(* The code is single-threaded.  A call of ff_rtp_parse_packet() is split  *)
(* into one action per packet it hands to the depacketizer, because the    *)
(* depacketizer's answer is a choice each time; nothing happens between    *)
(* these actions.                                                          *)
(*                                                                         *)
(* A packet is its place n in the sender's stream and the epoch e of the   *)
(* numbering it was sent in; what the code sees of it are its 16-bit       *)
(* sequence number and its 32-bit timestamp, both of which wrap, here at   *)
(* SEQ_MOD and TS_MOD.                                                     *)
(***************************************************************************)
EXTENDS Integers, Sequences, SequencesExt, FiniteSets

CONSTANTS
  SEQ_MOD,      \* RTP_SEQ_MOD, 2^16 in the code; even
  TS_MOD,       \* 2^32 in the code; even
  MaxDropout,   \* MAX_DROPOUT, 3000 in the code
  MaxMisorder,  \* MAX_MISORDER, 100 in the code
  NackBits,     \* the 16 bits of the mask of a NACK
  Setups,       \* the streams to receive: records of the type SetupType
  LastPacket,   \* bound: the packets are 0..LastPacket
  Gap,          \* bound: how far ahead of the newest packet one may arrive
  Late          \* bound: how far behind the newest packet one may arrive

ASSUME ModAssumption ==
  /\ SEQ_MOD \in Nat \ {0} /\ SEQ_MOD % 2 = 0
  /\ TS_MOD \in Nat \ {0} /\ TS_MOD % 2 = 0

(* 3000, 100 and 16 are less than half of 2^16. *)
ASSUME LimitAssumption ==
  /\ MaxDropout \in 0..(SEQ_MOD \div 2)
  /\ MaxMisorder \in 0..(SEQ_MOD \div 2)
  /\ NackBits \in 0..(SEQ_MOD \div 2)

ASSUME BoundAssumption == LastPacket \in Nat /\ Gap \in Nat /\ Late \in Nat

SetupType ==
  [ queue_size : Nat,             \* reordering_queue_size
    seq0 : SUBSET (0..(SEQ_MOD - 1)),  \* sequence numbers an epoch may begin with
    ts0 : 0..(TS_MOD - 1),             \* timestamp of packet 0
    foreign : SUBSET Nat,         \* numbers of the packets of another payload type
    dups : Nat,                   \* bound: packets that are duplicated
    restarts : Nat ]              \* bound: restarts of the sender and PLAY requests

ASSUME SetupsAssumption == Setups \subseteq SetupType

VARIABLES
  setup,
  \* the network and the sender
  offset,            \* offset[e]: sequence number minus n in epoch e
  floor, high,       \* first packet of the epoch, newest one that has arrived
  here,              \* the packets above high - Late that have arrived
  dups,              \* how many packets arrived more than once
  astray,            \* since PLAY, the numbers did not tell the order: the sender
                     \* restarted, or a packet was half their space away
  \* RTPDemuxContext
  seq, prev_ret, queue,
  stats,             \* RTPStatistics
  ts,                \* timestamp, base_timestamp and unwrapped_timestamp
  \* RTSPState and the loop of ff_rtsp_fetch_packet()
  cur,               \* cur_transport_priv is set
  bye, pc, ret,
  stamped,           \* pkt->pts is set
  \* the depacketizer: the packet it still has frames of
  pending,
  \* history
  emitted,           \* the packet given to the depacketizer last
  counted,           \* first and newest packet since rtp_init_sequence()
  timed,             \* the packets base_timestamp and timestamp were taken from
  disordered         \* a packet was parsed after a newer one, or half the space
                     \* of timestamps after the one `timestamp' was taken from

netVars  == <<offset, floor, high, here, dups, astray>>
loopVars == <<cur, bye, pc, ret, stamped>>
histVars == <<emitted, counted, timed, disordered>>
vars == <<setup, netVars, seq, prev_ret, queue, stats, ts, loopVars, pending, histVars>>

NoPacket == [e |-> 0, n |-> -1]
RTCP_BYE == -2   \* -RTCP_BYE; other errors are -1
Epoch == Len(offset)

PacketSeq(p) == (offset[p.e] + p.n) % SEQ_MOD
PacketTs(p)  == (setup.ts0 + p.n) % TS_MOD
Foreign(p) == p.n \in setup.foreign

(* timestamp, base_timestamp, unwrapped_timestamp; sr: a sender report     *)
(* has been seen (first_rtcp_ntp_time # AV_NOPTS_VALUE).                   *)
NoTimestamps == [timestamp |-> 0, base |-> 0, unwrapped |-> 0, sr |-> FALSE]

(* (int16_t)(a - b) and (int32_t)(a - b) *)
Signed(d, mod) == IF d % mod < mod \div 2 THEN d % mod ELSE (d % mod) - mod
SeqDiff(a, b) == Signed(a - b, SEQ_MOD)
TsDiff_Int(a, b) == a - b
TsDiff(a, b) == Signed(a - b, TS_MOD)

(* The distances these differences give as they are.  The properties below *)
(* speak of streams that keep within them: beyond, wrapped numbers do not  *)
(* tell an old packet from a new one.                                      *)
Near(d, mod) == -(mod \div 2) <= d /\ d < mod \div 2

Init ==
  /\ setup \in Setups
  /\ \E s \in setup.seq0 : offset = <<s>>
  /\ floor = 0 /\ high = -1 /\ here = {} /\ dups = 0 /\ astray = FALSE
  \* ff_rtp_parse_open() and rtp_init_statistics(&s->statistics, 0)
  /\ seq = 0 /\ prev_ret = 0 /\ queue = <<>>
  /\ stats = [max_seq |-> 0, cycles |-> 0, base_seq |-> 0, bad_seq |-> 0,
              probation |-> 1]
  /\ ts = NoTimestamps
  /\ cur = FALSE /\ bye = FALSE /\ pc = "idle" /\ ret = 0 /\ stamped = FALSE
  /\ pending = NoPacket
  /\ emitted = NoPacket
  /\ counted = [first |-> NoPacket, max |-> NoPacket]
  /\ timed = [first |-> -1, last |-> -1] /\ disordered = FALSE

---------------------------------------------------------------------------
(***************************************************************************)
(* Sequence-number statistics.                                             *)
(***************************************************************************)

(* rtp_init_sequence(). *)
InitSequence(s) ==
  [max_seq |-> s, cycles |-> 0, base_seq |-> s - 1, bad_seq |-> SEQ_MOD + 1,
   probation |-> 0]

(* The four cases of rtp_valid_packet_in_sequence(): whether the packet is *)
(* to be handled, whether counting starts anew with it, the statistics.    *)
(* (`received' is not kept: no decision depends on it.)                    *)
Wrapped_LessOrEqual(s) == s <= stats.max_seq
Wrapped(s) == s < stats.max_seq

Verdict(ok, resync, st) == [ok |-> ok, resync |-> resync, st |-> st]

InSequence(s) ==
  LET udelta == (s - stats.max_seq) % SEQ_MOD IN
  IF stats.probation > 0
  THEN IF s = stats.max_seq + 1
       THEN Verdict(TRUE, TRUE, InitSequence(s))
       ELSE Verdict(TRUE, FALSE, [stats EXCEPT !.max_seq = s])
  ELSE IF udelta < MaxDropout
  THEN Verdict(TRUE, FALSE, [stats EXCEPT !.cycles = IF Wrapped(s) THEN @ + SEQ_MOD ELSE @,
                                          !.max_seq = s])
  ELSE IF udelta <= SEQ_MOD - MaxMisorder
  THEN IF s = stats.bad_seq
       THEN Verdict(TRUE, TRUE, InitSequence(s))
       ELSE Verdict(FALSE, FALSE, [stats EXCEPT !.bad_seq = (s + 1) % SEQ_MOD])
  ELSE Verdict(TRUE, FALSE, stats)

(* The packets expected so far in ff_rtp_check_and_send_back_rr(). *)
Expected == stats.cycles + stats.max_seq - stats.base_seq

(* History: the packets `stats' speaks of, unknown once a packet of another *)
(* numbering, or one too far from the newest, has been mixed in.           *)
Account(p, v) ==
  IF ~v.ok THEN counted
  ELSE IF v.resync THEN [first |-> p, max |-> p]
  ELSE IF p.e # counted.first.e \/ ~Near(p.n - counted.max.n, SEQ_MOD)
  THEN [first |-> NoPacket, max |-> NoPacket]
  ELSE IF p.n > counted.max.n THEN [counted EXCEPT !.max = p] ELSE counted

(***************************************************************************)
(* Timestamps: finalize_packet() for a stream alone in its session.  It    *)
(* does nothing for a packet that has a pts, and a frame comes in one that *)
(* has none: it must be left from an earlier packet whose frame was not    *)
(* finished.  A timestamp that is -1 is taken for none.                    *)
(***************************************************************************)
RTP_NOTS_VALUE == TS_MOD - 1   \* (uint32_t)-1
GetsPts(r, t) == ~(r < 0 /\ stamped) /\ t # RTP_NOTS_VALUE

Finalized(t) ==
  [ts EXCEPT !.base = IF @ = 0 THEN t ELSE @,
             !.unwrapped = @ + IF ts.timestamp = 0 THEN t ELSE TsDiff(t, ts.timestamp),
             !.timestamp = t]

(* pkt->pts *)
Pts == ts.unwrapped - ts.base

(***************************************************************************)
(* The reordering queue.                                                   *)
(***************************************************************************)

HasNextPacket == queue # <<>> /\ PacketSeq(Head(queue)) = (seq + 1) % SEQ_MOD

(* enqueue_packet(): before the first packet that is newer. *)
Newer(s) == {i \in DOMAIN queue : SeqDiff(s, PacketSeq(queue[i])) < 0}
Enqueued(p) ==
  InsertAt(queue, IF Newer(PacketSeq(p)) = {} THEN Len(queue) + 1 ELSE Min(Newer(PacketSeq(p))), p)

(* find_missing_packets(): the place in the queue the scan has reached     *)
(* when it looks for the packet i after the next one, Len(queue) + 1 for   *)
(* the end, and the numbers a NACK names.                                  *)
NextSeq == (seq + 1) % SEQ_MOD
Scan[i \in 0..NackBits] ==
  IF i = 0 THEN 1
  ELSE Min({k \in Scan[i - 1]..Len(queue) :
              SeqDiff(PacketSeq(queue[k]), (NextSeq + i) % SEQ_MOD) >= 0}
           \cup {Len(queue) + 1})

MissingMask_PastEnd == {i \in 1..NackBits :
                         Scan[i] > Len(queue) \/
                         PacketSeq(queue[Scan[i]]) # (NextSeq + i) % SEQ_MOD}
MissingMask == {i \in 1..NackBits :
                 /\ Scan[i] <= Len(queue)
                 /\ PacketSeq(queue[Scan[i]]) # (NextSeq + i) % SEQ_MOD}

FindMissing ==
  IF queue = <<>> \/ HasNextPacket THEN {}
  ELSE {NextSeq} \cup {(NextSeq + i) % SEQ_MOD : i \in MissingMask}

---------------------------------------------------------------------------
(***************************************************************************)
(* rtp_parse_packet_internal(): the packet is checked and given to the     *)
(* depacketizer, which answers r: < 0 for an error or an unfinished frame, *)
(* 0 for a frame, 1 for a frame that others of the same packet follow.     *)
(* What it still had of an earlier packet is gone.                         *)
(***************************************************************************)
ParseInternal(p) ==
  LET v == InSequence(PacketSeq(p)) IN
  IF Foreign(p)
  THEN /\ ret' = -1
       /\ UNCHANGED <<seq, stats, ts, stamped, pending, histVars>>
  ELSE /\ stats' = v.st
       /\ counted' = Account(p, v)
       /\ \/ /\ ~v.ok /\ ret' = -1
             /\ UNCHANGED <<seq, ts, stamped, pending, emitted, timed, disordered>>
          \/ /\ v.ok
             /\ seq' = PacketSeq(p)
             /\ emitted' = p
             /\ \E r \in {-1, 0, 1} :
                  /\ ret' = r
                  /\ pending' = IF r = 1 THEN p ELSE NoPacket
                  /\ \/ /\ ~GetsPts(r, PacketTs(p))
                        /\ stamped' = (r < 0 /\ stamped)
                        /\ UNCHANGED <<ts, timed>>
                     \/ /\ GetsPts(r, PacketTs(p))
                        /\ stamped' = TRUE
                        /\ ts' = Finalized(PacketTs(p))
                        /\ timed' = [first |-> IF ts.base = 0 /\ ts'.base # 0
                                               THEN p.n ELSE timed.first,
                                     last |-> p.n]
             /\ disordered' = \/ disordered \/ p.n < emitted.n
                              \/ timed.last >= 0 /\ ~Near(p.n - timed.last, TS_MOD)

(* rtp_parse_queued_packet() *)
ParseQueued ==
  IF queue = <<>>
  THEN /\ ret' = -1
       /\ UNCHANGED <<queue, seq, stats, ts, stamped, pending, histVars>>
  ELSE /\ ParseInternal(Head(queue))
       /\ queue' = Tail(queue)

(* rtp_parse_one_packet() with a packet: drop it, parse it, or queue it    *)
(* and parse the first one if the queue is full.                           *)
QueueFull(len) == len >= setup.queue_size
TooOld_Never(d) == FALSE
TooOld(d) == d < 0

ParseArrived(p) ==
  LET d == SeqDiff(PacketSeq(p), seq) IN
  \/ /\ (seq = 0 /\ queue = <<>>) \/ setup.queue_size <= 1
     /\ ParseInternal(p) /\ UNCHANGED queue
  \/ /\ ~(seq = 0 /\ queue = <<>>) /\ setup.queue_size > 1
     /\ \/ /\ TooOld(d) /\ ret' = -1
           /\ UNCHANGED <<queue, seq, stats, ts, stamped, pending, histVars>>
        \/ /\ ~TooOld(d) /\ d <= 1
           /\ ParseInternal(p) /\ UNCHANGED queue
        \/ /\ d > 1 /\ ~QueueFull(Len(queue) + 1)
           /\ ret' = -1 /\ queue' = Enqueued(p)
           /\ UNCHANGED <<seq, stats, ts, stamped, pending, histVars>>
        \/ /\ d > 1 /\ QueueFull(Len(queue) + 1)
           /\ ParseInternal(Head(Enqueued(p)))
           /\ queue' = Tail(Enqueued(p))

(* rtp_parse_one_packet() without a packet: the next frame of the last     *)
(* packet (which comes with RTP_NOTS_VALUE, so without a pts), or the next *)
(* packet.  Bound: a packet holds at most two frames.                      *)
Resumes_Always == TRUE
Resumes == prev_ret > 0

ParseNext ==
  \/ /\ ~Resumes
     /\ ParseQueued
  \/ /\ Resumes
     /\ ret' \in {-1, 0}
     /\ stamped' = (ret' < 0 /\ stamped)
     /\ pending' = NoPacket
     /\ UNCHANGED <<queue, seq, stats, ts, histVars>>

(* s->prev_ret = rv *)
PrevRet == prev_ret' = ret'

---------------------------------------------------------------------------
(***************************************************************************)
(* ff_rtsp_fetch_packet().                                                 *)
(***************************************************************************)

(* The user asks for a packet; the last RTP packet may hold another one. *)
Fetch ==
  /\ pc = "idle" /\ ~bye
  /\ \/ /\ cur /\ ParseNext /\ PrevRet /\ pc' = "loop"
     \/ /\ ~cur /\ pc' = "wait"
        /\ UNCHANGED <<queue, seq, prev_ret, stats, ts, ret, stamped, pending, histVars>>
  /\ UNCHANGED <<setup, netVars, cur, bye>>

(* The network delivers packet n: a new one, a late one or, as long as     *)
(* the bound allows, one that has arrived before.                          *)
Delivers(n) ==
  /\ n \in floor..LastPacket /\ n >= high - Late /\ n <= high + Gap
  /\ n \in here => dups < setup.dups
  /\ dups' = IF n \in here THEN dups + 1 ELSE dups
  /\ high' = IF n > high THEN n ELSE high
  /\ here' = {m \in here \cup {n} : m >= high' - Late}
  /\ astray' = (astray \/ (emitted # NoPacket /\ ~Near(n - emitted.n, SEQ_MOD)))
  /\ UNCHANGED <<offset, floor>>

(* read_packet() returns a packet, which ff_rtp_parse_packet() is given. *)
Arrive(n) ==
  /\ pc = "wait"
  /\ Delivers(n)
  /\ ParseArrived([e |-> Epoch, n |-> n])
  /\ PrevRet
  /\ pc' = "loop"
  /\ UNCHANGED <<setup, cur, bye>>

(* max_delay has passed since the first packet was queued. *)
Timeout ==
  /\ pc = "wait" /\ queue # <<>>
  /\ ParseNext
  /\ PrevRet
  /\ pc' = "loop"
  /\ UNCHANGED <<setup, netVars, cur, bye>>

(* rtcp_parse_packet(): a sender report, which names the timestamp of the  *)
(* newest packet ...                                                       *)
SenderReport ==
  /\ pc = "wait" /\ high >= 0 /\ ~ts.sr
  /\ ts' = [ts EXCEPT !.sr = TRUE, !.base = IF @ = 0 THEN PacketTs([n |-> high]) ELSE @]
  /\ ret' = -1 /\ PrevRet
  /\ pc' = "loop"
  /\ UNCHANGED <<setup, netVars, seq, queue, stats, cur, bye, stamped, pending, histVars>>

(* ... or a BYE, answered with -RTCP_BYE. *)
Bye ==
  /\ pc = "wait"
  /\ ret' = RTCP_BYE /\ PrevRet
  /\ pc' = "loop"
  /\ UNCHANGED <<setup, netVars, seq, queue, stats, ts, cur, bye, stamped, pending, histVars>>

(* The loop of ff_rtp_parse_packet(): as long as there is no frame and the *)
(* next packet is in the queue, parse it.  prev_ret is not touched.        *)
Loop ==
  /\ pc = "loop" /\ ret < 0 /\ HasNextPacket
  /\ ParseQueued
  /\ UNCHANGED <<setup, netVars, prev_ret, cur, bye, pc>>

(* Its result, and what ff_rtsp_fetch_packet() does with it: wait for      *)
(* another packet, or return and remember that more may follow.            *)
MoreFollows_Ret == ret = 1
MoreFollows == ret = 1 \/ (ret = 0 /\ HasNextPacket)

Finish ==
  /\ pc = "loop" /\ ~(ret < 0 /\ HasNextPacket)
  /\ cur' = MoreFollows
  /\ bye' = (bye \/ ret = RTCP_BYE)
  /\ pc' = IF ret < 0 /\ ret # RTCP_BYE THEN "wait" ELSE "idle"
  /\ stamped' = (stamped /\ pc' = "wait")
  /\ ret' = 0
  /\ UNCHANGED <<setup, netVars, seq, prev_ret, queue, stats, ts, pending, histVars>>

(* nb_byes = nb_rtsp_streams: AVERROR_EOF. *)
Eof == pc = "idle" /\ bye /\ UNCHANGED vars

(* The sender begins a new numbering with its next packet. *)
Renumber ==
  /\ Epoch <= setup.restarts /\ high < LastPacket
  /\ floor' = high + 1 /\ here' = {}
  /\ \E s \in setup.seq0 : offset' = Append(offset, (s - floor') % SEQ_MOD)
  /\ UNCHANGED <<high, dups>>

Restart ==
  /\ pc = "wait"
  /\ Renumber
  /\ astray' = TRUE
  /\ UNCHANGED <<setup, seq, prev_ret, queue, stats, ts, loopVars, pending, histVars>>

(* rtsp_read_play(), after a seek: ff_rtp_reset_packet_queue() and the     *)
(* timestamps, and the server goes on with a numbering of its own.  The    *)
(* statistics and cur_transport_priv are left alone.                       *)
ResetQueue == seq' = 0 /\ queue' = <<>> /\ prev_ret' = 0

Play ==
  /\ pc = "idle"
  /\ Renumber
  /\ ResetQueue
  /\ ts' = NoTimestamps /\ timed' = [first |-> -1, last |-> -1] /\ disordered' = FALSE
  /\ astray' = FALSE /\ emitted' = NoPacket
  /\ bye' = FALSE
  /\ pending' = NoPacket
  /\ UNCHANGED <<setup, stats, cur, pc, ret, stamped, counted>>

Step == Fetch \/ Timeout \/ Loop \/ Finish
Next ==
  \/ Step \/ Eof
  \/ \E n \in 0..LastPacket : Arrive(n)
  \/ SenderReport \/ Bye
  \/ Restart \/ Play

(***************************************************************************)
(* Fairness: the program keeps reading, and time passes.                   *)
(***************************************************************************)
Spec == Init /\ [][Next]_vars
FairSpec == Spec /\ WF_vars(Step)

---------------------------------------------------------------------------
(***************************************************************************)
(* Properties.                                                             *)
(***************************************************************************)

(* No duplicate has arrived, and since the last PLAY all packets were of   *)
(* one numbering and less than half its space from the last one parsed.    *)
Plain == dups = 0 /\ ~astray

(* When the receiver goes back to the network, or waits for max_delay to   *)
(* pass, the queue holds fewer than queue_size packets (line 815), sorted  *)
(* in the order they were sent in, also across a wrap of the sequence      *)
(* number; all are newer than the last one parsed, and the one needed next *)
(* is not among them.                                                      *)
QueueWaits ==
  pc = "wait" =>
    /\ Len(queue) < (IF setup.queue_size <= 1 THEN 1 ELSE setup.queue_size)
    /\ Plain =>
         /\ \A i, j \in DOMAIN queue : i < j => queue[i].n < queue[j].n
         /\ \A i \in DOMAIN queue : queue[i].n > emitted.n + 1

(* The NACK sent after a packet names exactly the packets within its reach *)
(* that lie between the last one parsed and the newest one queued and are  *)
(* not there, over a wrap of the sequence number, too.                     *)
NackExact ==
  pc = "wait" /\ Plain =>
    FindMissing =
      IF queue = <<>> THEN {}
      ELSE {PacketSeq([e |-> emitted.e, n |-> n]) :
              n \in {m \in (emitted.n + 1)..(emitted.n + 1 + NackBits) :
                       /\ m < queue[Len(queue)].n
                       /\ \A i \in DOMAIN queue : queue[i].n # m}}

(* As long as no packet is duplicated, packets are parsed in the order     *)
(* they were sent in, except for an old one that arrives when the last one *)
(* parsed had the sequence number 0 and nothing is queued: line 792 takes  *)
(* it for the first of the stream.                                         *)
ParsedInOrder ==
  [][ emitted' # emitted /\ Plain' /\ setup.queue_size > 1 /\ (seq # 0 \/ queue # <<>>)
      => emitted'.n > emitted.n \/ emitted' = NoPacket ]_vars

(* The statistics count the packets expected since rtp_init_sequence()     *)
(* exactly, over wraps of the sequence number, losses, reordering and      *)
(* duplicates.                                                             *)
ExpectedExact ==
  counted.first # NoPacket => Expected = counted.max.n - counted.first.n + 1

(* The pts of a frame, if it has one, is its packet's distance from the    *)
(* packet base_timestamp was taken from (if it was not taken from a sender *)
(* report), over wraps of the timestamp, lost packets, depacketizer errors *)
(* and packets that finalize_packet() passes over because their timestamp  *)
(* is RTP_NOTS_VALUE; and the first of several frames of a packet has one  *)
(* unless that is so.  (Packets parsed out of order can put the pts off by *)
(* a whole wrap: a `timestamp' of 0 is taken for none.)                    *)
PtsExact ==
  pc = "loop" /\ ret >= 0 =>
    /\ ~disordered /\ stamped /\ timed.first >= 0 => Pts = emitted.n - timed.first
    /\ ret = 1 /\ ~stamped => PacketTs(emitted) = RTP_NOTS_VALUE

(* A packet that was queued does not stay: the missing one arrives, the    *)
(* queue is full, or max_delay passes.                                     *)
QueueDrains == (queue # <<>>) ~> (queue = <<>> \/ bye)

(* Every frame of a packet that was parsed is returned to the user:        *)
(* rtpdec.c:830-831 "1 if a packet is returned and more can follow (use    *)
(* buf as NULL to read the next)".                                         *)
FramesComplete ==
  [][ pending # NoPacket /\ pending' # pending => Resumes \/ Epoch' # Epoch ]_vars
=============================================================================
