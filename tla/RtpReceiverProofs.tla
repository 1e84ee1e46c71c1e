------------------------- MODULE RtpReceiverProofs -------------------------
(***************************************************************************)
(* Theorems about the reception of an RTP stream, for a stream of any      *)
(* length, any queue size and any moduli the constants admit.              *)
(*                                                                         *)
(* What makes the wrapped numbers reliable is that a distance of less than *)
(* half the modulus survives the wrap (SignedExact).  The queue keeps its  *)
(* packets in this reach of the last one parsed, the statistics see in it  *)
(* every packet they count, and finalize_packet() every timestamp.         *)
(***************************************************************************)
EXTENDS RtpReceiver, TLAPS, WellFoundedInduction

HalfSeq == SEQ_MOD \div 2

(* A packet, or NoPacket. *)
PacketType == [e : Nat, n : Int]
StatsType == [max_seq : 0..(SEQ_MOD - 1), cycles : Nat, base_seq : Int, bad_seq : Int,
              probation : {0, 1}]
TsType == [timestamp : 0..(TS_MOD - 1), base : 0..(TS_MOD - 1), unwrapped : Int,
           sr : BOOLEAN]
TimedType == [first : Nat \cup {-1}, last : Nat \cup {-1}]
CountedType == [first : PacketType, max : PacketType]

(* p was sent in an epoch that has begun. *)
Sent(p) == p.e \in 1..Epoch /\ p.n \in Nat

---------------------------------------------------------------------------
(***************************************************************************)
(* The inductive invariant.                                                *)
(***************************************************************************)
NetTypeOK ==
  /\ setup \in Setups
  /\ offset \in Seq(Int) /\ Len(offset) >= 1
  /\ floor \in Nat /\ high \in Int /\ here \in SUBSET Int
  /\ dups \in Nat /\ astray \in BOOLEAN

ParserTypeOK ==
  /\ seq \in 0..(SEQ_MOD - 1) /\ ret \in -2..1
  /\ stats \in StatsType /\ ts \in TsType /\ stamped \in BOOLEAN
  /\ pending \in PacketType /\ emitted \in PacketType
  /\ counted \in CountedType /\ timed \in TimedType /\ disordered \in BOOLEAN

LoopTypeOK ==
  /\ prev_ret \in -2..1 /\ queue \in Seq(PacketType)
  /\ cur \in BOOLEAN /\ bye \in BOOLEAN /\ pc \in {"idle", "wait", "loop"}

(* The sequence number kept is that of the packet parsed last, 0 before    *)
(* the first, when nothing is queued either.                               *)
SeqInv ==
  /\ \A i \in DOMAIN queue : Sent(queue[i])
  /\ emitted # NoPacket => Sent(emitted) /\ seq = PacketSeq(emitted)
  /\ emitted = NoPacket => seq = 0 /\ queue = <<>>

LenInv == Len(queue) < IF setup.queue_size <= 1 THEN 1 ELSE setup.queue_size

(* In a numbering e whose packets fl to hi may have arrived, of which he   *)
(* are remembered as long as the network could deliver them again:         *)
(* p is one that has arrived; the queue q is sorted and within reach of    *)
(* the packet m parsed last.                                               *)
Tracked(e, fl, hi, he, p) ==
  /\ p.e = e /\ fl <= p.n /\ p.n <= hi
  /\ p.n >= hi - Late => p.n \in he

SortedPackets(q) == \A i, j \in DOMAIN q : i < j => q[i].n < q[j].n
Reach(q, n) == \A i \in DOMAIN q : n < q[i].n /\ q[i].n < n + HalfSeq

Ordered(e, fl, hi, he, q, m) ==
  /\ SortedPackets(q)
  /\ Reach(q, m.n)
  /\ \A i \in DOMAIN q : Tracked(e, fl, hi, he, q[i])
  /\ m # NoPacket => Tracked(e, fl, hi, he, m)

OrderInv ==
  /\ floor <= high + 1
  /\ Plain => Ordered(Epoch, floor, high, here, queue, emitted)

(* Whoever waits lacks the next packet.  The timestamps are those of the   *)
(* packet parsed last when a frame with a pts is returned, which the first *)
(* of several frames has unless the timestamp is RTP_NOTS_VALUE.           *)
Lacking == pc = "wait" \/ (pc = "idle" /\ ~cur)
Stamp ==
  /\ stamped => timed.last = emitted.n
  /\ ret = 1 /\ ~stamped => PacketTs(emitted) = RTP_NOTS_VALUE
CallInv ==
  /\ Lacking => ~HasNextPacket
  /\ prev_ret > 0 => (pc = "loop" /\ ret = 1) \/ (pc = "idle" /\ cur)
  /\ pc = "loop" /\ ret >= 0 => Stamp

CountInv ==
  /\ stats.probation > 0 => counted.first = NoPacket
  /\ counted.first # NoPacket =>
       /\ Sent(counted.max) /\ counted.max.e = counted.first.e
       /\ stats.max_seq = PacketSeq(counted.max)
       /\ Expected = counted.max.n - counted.first.n + 1

TsInv ==
  /\ timed.first >= 0 => ts.base # 0 /\ timed.last >= 0
  /\ timed.first < 0 /\ ts.base = 0 => ts.unwrapped = 0 /\ ts.timestamp = 0
  /\ ~disordered =>
       /\ timed.last <= emitted.n
       /\ timed.first >= 0 =>
            /\ ts.timestamp = (setup.ts0 + timed.last) % TS_MOD
            /\ Pts = timed.last - timed.first

RtpInv ==
  /\ NetTypeOK /\ ParserTypeOK /\ LoopTypeOK
  /\ SeqInv /\ LenInv /\ OrderInv /\ CallInv /\ CountInv /\ TsInv

---------------------------------------------------------------------------
(***************************************************************************)
(* Arithmetic.                                                             *)
(***************************************************************************)

(* Every nonempty set of numbers has a least one. *)
LEMMA LeastNat ==
  ASSUME NEW S \in SUBSET Nat, S # {}
  PROVE  \E x \in S : \A y \in S : x <= y
<1> DEFINE R == OpToRel(<, Nat)
<1>1. IsWellFoundedOn(R, Nat)
  BY NatLessThanWellFounded
<1>2. PICK x \in S : \A y \in S : ~(<<y, x>> \in R)
  BY <1>1, WFMin
<1>3. ASSUME NEW y \in S, y < x
      PROVE  <<y, x>> \in R
  <2>1. <<y, x>> \in Nat \X Nat
    OBVIOUS
  <2> QED BY <2>1, <1>3 DEF OpToRel
<1>4. \A y \in S : ~(y < x)
  BY <1>2, <1>3
<1> QED BY <1>4

(* Induction, for sets. *)
LEMMA SetInduction ==
  ASSUME NEW S \in SUBSET Nat, 0 \in S, NEW m \in Nat,
         \A i \in S : i + 1 <= m => i + 1 \in S
  PROVE  0..m \subseteq S
<1> SUFFICES ASSUME 0..m \ S # {}
             PROVE  FALSE
  OBVIOUS
<1>1. 0..m \ S \in SUBSET Nat
  OBVIOUS
<1>2. PICK x \in 0..m \ S : \A y \in 0..m \ S : x <= y
  BY <1>1, LeastNat
<1>3. x # 0 /\ x \in Nat /\ x <= m /\ x \notin S
  BY <1>2
<1>4. x - 1 \in Nat /\ x - 1 \in 0..m /\ ~(x <= x - 1)
  BY <1>3
<1>5. x - 1 \in S
  BY <1>2, <1>4
<1>6. (x - 1) + 1 = x
  BY <1>3
<1> QED BY <1>3, <1>5, <1>6

LEMMA MinIs ==
  ASSUME NEW S \in SUBSET Int, NEW m \in S, \A y \in S : m <= y
  PROVE  Min(S) = m
<1>1. Min(S) \in S /\ \A y \in S : Min(S) <= y
  BY DEF Min
<1>2. Min(S) \in Int /\ m \in Int /\ Min(S) <= m /\ m <= Min(S)
  BY <1>1
<1> QED BY <1>2

LEMMA TimesMono ==
  ASSUME NEW a \in Int, NEW b \in Int, a <= b, NEW c \in Nat \ {0}
  PROVE  a * c <= b * c
OBVIOUS

LEMMA ModIs ==
  ASSUME NEW a \in Int, NEW m \in Nat \ {0}
  PROVE  /\ a % m \in 0..(m - 1)
         /\ \E q \in Int : a = q * m + (a % m)
<1>1. a \div m \in Int /\ a = (a \div m) * m + (a % m)
  OBVIOUS
<1>2. a % m \in 0..(m - 1)
  OBVIOUS
<1> QED BY <1>1, <1>2

LEMMA ModUnique ==
  ASSUME NEW m \in Nat \ {0}, NEW q \in Int, NEW r \in 0..(m - 1)
  PROVE  (q * m + r) % m = r
<1> DEFINE a == q * m + r
<1>0. q * m \in Int /\ a \in Int
  OBVIOUS
<1>1. a % m \in 0..(m - 1) /\ \E k \in Int : a = k * m + (a % m)
  BY <1>0, ModIs
<1>2. PICK k \in Int : a = k * m + (a % m)
  BY <1>1
<1> DEFINE b == a % m
<1>3. b \in 0..(m - 1) /\ q * m + r = k * m + b
  BY <1>1, <1>2
<1> HIDE DEF b, a
<1>4. k * m \in Int /\ (k + 1) * m = k * m + m /\ (q + 1) * m = q * m + m
  OBVIOUS
<1>5. ASSUME k < q PROVE FALSE
  <2>1. k + 1 <= q /\ k + 1 \in Int
    BY <1>5
  <2>2. (k + 1) * m <= q * m
    BY <2>1, TimesMono
  <2> QED BY <2>2, <1>0, <1>3, <1>4
<1>6. ASSUME q < k PROVE FALSE
  <2>1. q + 1 <= k /\ q + 1 \in Int
    BY <1>6
  <2>2. (q + 1) * m <= k * m
    BY <2>1, TimesMono
  <2> QED BY <2>2, <1>0, <1>3, <1>4
<1>7. q = k
  BY <1>5, <1>6
<1>8. b = r
  BY <1>7, <1>3, <1>0
<1> QED BY <1>8 DEF b, a

LEMMA ModShift ==
  ASSUME NEW m \in Nat \ {0}, NEW a \in Int, NEW k \in Int
  PROVE  (a + k * m) % m = a % m
<1>1. PICK q \in Int : a = q * m + (a % m)
  BY ModIs
<1> DEFINE r == a % m
<1>2. r \in 0..(m - 1) /\ a = q * m + r
  BY <1>1, ModIs
<1> HIDE DEF r
<1>3. (q + k) * m = q * m + k * m /\ q * m \in Int /\ k * m \in Int /\ q + k \in Int
  OBVIOUS
<1>4. a + k * m = (q + k) * m + r
  BY <1>2, <1>3
<1>5. ((q + k) * m + r) % m = r
  BY <1>2, <1>3, ModUnique
<1> QED BY <1>4, <1>5 DEF r

LEMMA ModSmall ==
  ASSUME NEW m \in Nat \ {0}, NEW r \in 0..(m - 1)
  PROVE  r % m = r /\ (r - m) % m = r
<1>1. (0 * m + r) % m = r /\ ((-1) * m + r) % m = r
  BY ModUnique
<1>2. 0 * m + r = r /\ (-1) * m + r = r - m
  OBVIOUS
<1> QED BY <1>1, <1>2

(* Differences of wrapped numbers are those of the numbers, wrapped. *)
LEMMA ModDiff ==
  ASSUME NEW m \in Nat \ {0}, NEW a \in Int, NEW b \in Int
  PROVE  ((a % m) - (b % m)) % m = (a - b) % m
<1>1. PICK q \in Int : a = q * m + (a % m)
  BY ModIs
<1>2. PICK k \in Int : b = k * m + (b % m)
  BY ModIs
<1> DEFINE r == a % m
           s == b % m
<1>3. r \in Int /\ s \in Int /\ a = q * m + r /\ b = k * m + s
  BY <1>1, <1>2, ModIs
<1> HIDE DEF r, s
<1>4. (k - q) * m = k * m - q * m /\ q * m \in Int /\ k * m \in Int /\ k - q \in Int
  OBVIOUS
<1>5. r - s = (a - b) + (k - q) * m /\ a - b \in Int
  BY <1>3, <1>4
<1>6. ((a - b) + (k - q) * m) % m = (a - b) % m
  BY <1>4, <1>5, ModShift
<1> QED BY <1>5, <1>6 DEF r, s

(* Equal wrapped numbers that are less than the modulus apart are equal. *)
LEMMA ModEqual ==
  ASSUME NEW m \in Nat \ {0}, NEW a \in Int, NEW b \in Int, a % m = b % m,
         a - b < m, b - a < m
  PROVE  a = b
<1>1. PICK q \in Int : a = q * m + (a % m)
  BY ModIs
<1>2. PICK k \in Int : b = k * m + (b % m)
  BY ModIs
<1> DEFINE r == a % m
<1>3. r \in Int /\ a = q * m + r /\ b = k * m + r
  BY <1>1, <1>2, ModIs
<1> HIDE DEF r
<1>4. k * m \in Int /\ q * m \in Int /\ (k + 1) * m = k * m + m /\ (q + 1) * m = q * m + m
  OBVIOUS
<1>5. ASSUME k < q PROVE FALSE
  <2>1. k + 1 <= q /\ k + 1 \in Int
    BY <1>5
  <2>2. (k + 1) * m <= q * m
    BY <2>1, TimesMono
  <2> QED BY <2>2, <1>3, <1>4
<1>6. ASSUME q < k PROVE FALSE
  <2>1. q + 1 <= k /\ q + 1 \in Int
    BY <1>6
  <2>2. (q + 1) * m <= k * m
    BY <2>1, TimesMono
  <2> QED BY <2>2, <1>3, <1>4
<1>7. q = k
  BY <1>5, <1>6
<1> QED BY <1>7, <1>3

LEMMA HalfIs ==
  ASSUME NEW m \in Nat \ {0}, m % 2 = 0
  PROVE  m \div 2 \in Nat \ {0} /\ m = 2 * (m \div 2)
OBVIOUS

(* int16_t and int32_t differences of wrapped numbers that are near each   *)
(* other are the distance.                                                 *)
LEMMA SignedExact ==
  ASSUME NEW m \in Nat \ {0}, m % 2 = 0, NEW a \in Int, NEW b \in Int, Near(a - b, m)
  PROVE  Signed((a % m) - (b % m), m) = a - b
<1> DEFINE h == m \div 2
           d == a - b
           x == ((a % m) - (b % m)) % m
<1>1. h \in Nat \ {0} /\ m = 2 * h
  BY HalfIs
<1>2. d \in Int /\ -h <= d /\ d < h
  BY DEF Near
<1>3. x = d % m
  BY ModDiff
<1>4. Signed((a % m) - (b % m), m) = IF x < h THEN x ELSE x - m
  BY DEF Signed
<1> HIDE DEF h, d, x
<1>5. CASE d >= 0
  <2>1. d \in 0..(m - 1)
    BY <1>1, <1>2, <1>5
  <2>2. x = d
    BY <2>1, <1>3, ModSmall
  <2> QED BY <2>2, <1>2, <1>4 DEF d
<1>6. CASE d < 0
  <2>1. d + m \in 0..(m - 1)
    BY <1>1, <1>2, <1>6
  <2>2. ((d + m) - m) % m = d + m
    BY <2>1, ModSmall
  <2>3. (d + m) - m = d
    BY <1>2
  <2>4. x = d + m
    BY <2>2, <2>3, <1>3
  <2>5. ~(d + m < h) /\ (d + m) - m = d
    BY <1>1, <1>2
  <2> QED BY <2>4, <2>5, <1>4 DEF d
<1> QED BY <1>2, <1>5, <1>6

---------------------------------------------------------------------------
(***************************************************************************)
(* Sequences.                                                              *)
(***************************************************************************)
LEMMA ConcatAt ==
  ASSUME NEW T, NEW a \in Seq(T), NEW b \in Seq(T)
  PROVE  /\ a \o b \in Seq(T) /\ Len(a \o b) = Len(a) + Len(b)
         /\ \A i \in 1..Len(a) : (a \o b)[i] = a[i]
         /\ \A i \in 1..Len(b) : (a \o b)[Len(a) + i] = b[i]
OBVIOUS

LEMMA InsertAtIs ==
  ASSUME NEW T, NEW q \in Seq(T), NEW p \in T, NEW k \in 1..(Len(q) + 1)
  PROVE  /\ InsertAt(q, k, p) \in Seq(T)
         /\ Len(InsertAt(q, k, p)) = Len(q) + 1
         /\ InsertAt(q, k, p)[k] = p
         /\ \A i \in 1..Len(q) : i < k => InsertAt(q, k, p)[i] = q[i]
         /\ \A i \in 1..Len(q) : i >= k => InsertAt(q, k, p)[i + 1] = q[i]
<1> DEFINE a == SubSeq(q, 1, k - 1)
           b == SubSeq(q, k, Len(q))
           r == a \o <<p>>
<1>1. a \in Seq(T) /\ Len(a) = k - 1 /\ \A i \in 1..(k - 1) : a[i] = q[i]
  OBVIOUS
<1>2. b \in Seq(T) /\ Len(b) = Len(q) + 1 - k /\ \A i \in 1..Len(b) : b[i] = q[i + k - 1]
  OBVIOUS
<1> HIDE DEF a, b
<1>3. r \in Seq(T) /\ Len(r) = k /\ r[k] = p /\ \A i \in 1..(k - 1) : r[i] = q[i]
  BY <1>1
<1>4. InsertAt(q, k, p) = r \o b
  BY DEF InsertAt, r, a, b
<1> HIDE DEF r
<1>5. /\ r \o b \in Seq(T) /\ Len(r \o b) = Len(r) + Len(b)
      /\ \A i \in 1..Len(r) : (r \o b)[i] = r[i]
      /\ \A i \in 1..Len(b) : (r \o b)[Len(r) + i] = b[i]
  BY <1>2, <1>3, ConcatAt
<1>6. ASSUME NEW i \in 1..Len(q), i >= k
      PROVE  (r \o b)[i + 1] = q[i]
  <2>1. i + 1 - k \in 1..Len(b)
    BY <1>2, <1>6
  <2>2. (r \o b)[Len(r) + (i + 1 - k)] = b[i + 1 - k]
    BY <2>1, <1>5
  <2>3. b[i + 1 - k] = q[(i + 1 - k) + k - 1]
    BY <2>1, <1>2
  <2>4. Len(r) + (i + 1 - k) = i + 1 /\ (i + 1 - k) + k - 1 = i
    BY <1>3
  <2> QED BY <2>2, <2>3, <2>4
<1>7. ASSUME NEW i \in 1..Len(q), i < k
      PROVE  (r \o b)[i] = q[i]
  BY <1>3, <1>5, <1>7
<1>8. (r \o b)[k] = p
  BY <1>3, <1>5
<1> QED BY <1>2, <1>3, <1>4, <1>5, <1>6, <1>7, <1>8

LEMMA TailAt ==
  ASSUME NEW T, NEW q \in Seq(T), q # <<>>
  PROVE  /\ Tail(q) \in Seq(T) /\ Len(q) \in Nat \ {0} /\ Len(Tail(q)) = Len(q) - 1
         /\ 1 \in DOMAIN q
         /\ \A j \in DOMAIN Tail(q) : j \in Nat \ {0} /\ j + 1 \in DOMAIN q /\ Tail(q)[j] = q[j + 1]
         /\ \A i \in DOMAIN q : i # 1 => i - 1 \in DOMAIN Tail(q) /\ Tail(q)[i - 1] = q[i]
OBVIOUS

LEMMA EmptyIffLen ==
  ASSUME NEW T, NEW q \in Seq(T)
  PROVE  q = <<>> <=> Len(q) = 0
OBVIOUS

---------------------------------------------------------------------------
(***************************************************************************)
(* Packets and their numbers.                                              *)
(***************************************************************************)
LEMMA ModFacts ==
  /\ SEQ_MOD \in Nat \ {0} /\ SEQ_MOD % 2 = 0 /\ HalfSeq \in Nat \ {0} /\ SEQ_MOD = 2 * HalfSeq
  /\ TS_MOD \in Nat \ {0} /\ TS_MOD % 2 = 0
  /\ TS_MOD \div 2 \in Nat \ {0} /\ TS_MOD = 2 * (TS_MOD \div 2)
<1>1. SEQ_MOD \in Nat \ {0} /\ SEQ_MOD % 2 = 0 /\ TS_MOD \in Nat \ {0} /\ TS_MOD % 2 = 0
  BY ModAssumption
<1>2. SEQ_MOD \div 2 \in Nat \ {0} /\ SEQ_MOD = 2 * (SEQ_MOD \div 2)
  BY <1>1, HalfIs
<1>3. TS_MOD \div 2 \in Nat \ {0} /\ TS_MOD = 2 * (TS_MOD \div 2)
  BY <1>1, HalfIs
<1> QED BY <1>1, <1>2, <1>3 DEF HalfSeq

LEMMA LimitFacts ==
  /\ MaxDropout \in Nat /\ MaxDropout <= HalfSeq
  /\ MaxMisorder \in Nat /\ MaxMisorder <= HalfSeq
  /\ NackBits \in Nat /\ NackBits <= HalfSeq
BY LimitAssumption, ModFacts DEF HalfSeq

LEMMA SetupFacts ==
  ASSUME setup \in Setups
  PROVE  /\ setup.queue_size \in Nat /\ setup.ts0 \in 0..(TS_MOD - 1)
         /\ setup.seq0 \in SUBSET (0..(SEQ_MOD - 1))
         /\ setup.dups \in Nat /\ setup.restarts \in Nat
<1>1. setup \in SetupType
  BY SetupsAssumption
<1> QED BY <1>1 DEF SetupType

LEMMA PacketFields ==
  ASSUME NEW p \in PacketType
  PROVE  p.e \in Nat /\ p.n \in Int /\ p = [e |-> p.e, n |-> p.n]
BY DEF PacketType

LEMMA NoPacketFields ==
  NoPacket \in PacketType /\ NoPacket.e = 0 /\ NoPacket.n = -1
BY DEF NoPacket, PacketType

LEMMA SeqNumber ==
  ASSUME NetTypeOK, NEW p \in PacketType, Sent(p)
  PROVE  /\ offset[p.e] \in Int /\ p.n \in Nat /\ p # NoPacket
         /\ PacketSeq(p) \in 0..(SEQ_MOD - 1)
<1>1. p.e \in 1..Len(offset) /\ p.n \in Nat
  BY DEF Sent, Epoch
<1>2. offset \in Seq(Int)
  BY DEF NetTypeOK
<1>3. offset[p.e] \in Int
  BY <1>1, <1>2
<1>4. PacketSeq(p) \in 0..(SEQ_MOD - 1)
  <2>1. offset[p.e] + p.n \in Int
    BY <1>1, <1>3
  <2> QED BY <2>1, ModIs, ModFacts DEF PacketSeq
<1>5. p # NoPacket
  BY <1>1, NoPacketFields
<1> QED BY <1>1, <1>3, <1>4, <1>5

LEMMA NearMod ==
  ASSUME NEW m \in Nat \ {0}, m % 2 = 0, NEW d \in Int, Near(d, m)
  PROVE  d % m = IF d >= 0 THEN d ELSE d + m
<1> DEFINE h == m \div 2
<1>1. h \in Nat \ {0} /\ m = 2 * h
  BY HalfIs
<1>2. -h <= d /\ d < h
  BY DEF Near
<1> HIDE DEF h
<1>3. CASE d >= 0
  <2>1. d \in 0..(m - 1)
    BY <1>1, <1>2, <1>3
  <2> QED BY <2>1, <1>3, ModSmall
<1>4. CASE d < 0
  <2>1. d + m \in 0..(m - 1)
    BY <1>1, <1>2, <1>4
  <2>2. ((d + m) - m) % m = d + m
    BY <2>1, ModSmall
  <2>3. (d + m) - m = d
    OBVIOUS
  <2> QED BY <2>2, <2>3, <1>4
<1> QED BY <1>3, <1>4

(* int16_t differences tell how far apart two packets of a numbering are, *)
(* if this is less than half its space.                                    *)
LEMMA SeqDiffExact ==
  ASSUME NetTypeOK, NEW p \in PacketType, NEW r \in PacketType, Sent(p), Sent(r),
         p.e = r.e, Near(p.n - r.n, SEQ_MOD)
  PROVE  SeqDiff(PacketSeq(p), PacketSeq(r)) = p.n - r.n
<1> DEFINE a == offset[p.e] + p.n
           b == offset[r.e] + r.n
<1>1. offset[p.e] \in Int /\ offset[r.e] = offset[p.e] /\ p.n \in Int /\ r.n \in Int
  BY SeqNumber, PacketFields
<1>2. a \in Int /\ b \in Int /\ a - b = p.n - r.n
  BY <1>1
<1>3. PacketSeq(p) = a % SEQ_MOD /\ PacketSeq(r) = b % SEQ_MOD
  BY DEF PacketSeq
<1> HIDE DEF a, b
<1>4. Near(a - b, SEQ_MOD)
  BY <1>2
<1>5. Signed((a % SEQ_MOD) - (b % SEQ_MOD), SEQ_MOD) = a - b
  BY <1>2, <1>4, SignedExact, ModFacts
<1> QED BY <1>2, <1>3, <1>5 DEF SeqDiff

(* The number i places after that of packet r. *)
LEMMA SeqAfter ==
  ASSUME NetTypeOK, NEW r \in PacketType, Sent(r), NEW i \in Int
  PROVE  (PacketSeq(r) + i) % SEQ_MOD = (offset[r.e] + r.n + i) % SEQ_MOD
<1> DEFINE a == offset[r.e] + r.n
<1>1. a \in Int
  BY SeqNumber, PacketFields
<1>2. PacketSeq(r) = a % SEQ_MOD
  BY DEF PacketSeq
<1> HIDE DEF a
<1>3. PICK q \in Int : a = q * SEQ_MOD + (a % SEQ_MOD)
  BY <1>1, ModIs, ModFacts
<1> DEFINE b == a % SEQ_MOD
<1>4. b \in Int /\ a = q * SEQ_MOD + b /\ SEQ_MOD \in Nat \ {0}
  BY <1>1, <1>3, ModIs, ModFacts
<1> HIDE DEF b
<1>5. b + i \in Int /\ a + i = (b + i) + q * SEQ_MOD
  BY <1>4
<1>6. ((b + i) + q * SEQ_MOD) % SEQ_MOD = (b + i) % SEQ_MOD
  BY <1>5, <1>4, ModShift
<1>7. (a + i) % SEQ_MOD = (b + i) % SEQ_MOD
  BY <1>5, <1>6
<1> QED BY <1>2, <1>7 DEF b, a

---------------------------------------------------------------------------
(***************************************************************************)
(* rtp_valid_packet_in_sequence(): a packet near the newest one is taken   *)
(* for new exactly if it is not older, and the wraps are counted.          *)
(***************************************************************************)
LEMMA StatsFields ==
  ASSUME NEW st \in StatsType
  PROVE  /\ st.max_seq \in 0..(SEQ_MOD - 1) /\ st.cycles \in Nat /\ st.base_seq \in Int
         /\ st.bad_seq \in Int /\ st.probation \in {0, 1}
BY DEF StatsType

LEMMA InitSequenceIs ==
  ASSUME NEW s \in 0..(SEQ_MOD - 1)
  PROVE  /\ InitSequence(s) \in StatsType
         /\ InitSequence(s).max_seq = s /\ InitSequence(s).cycles = 0
         /\ InitSequence(s).base_seq = s - 1 /\ InitSequence(s).probation = 0
BY ModFacts DEF InitSequence, StatsType

(* The statistics after a packet that counts as new, and after one that is *)
(* set aside.                                                              *)
NewerStats(s) ==
  [stats EXCEPT !.cycles = IF Wrapped(s) THEN @ + SEQ_MOD ELSE @, !.max_seq = s]
AsideStats(s) == [stats EXCEPT !.bad_seq = (s + 1) % SEQ_MOD]

LEMMA NewerStatsIs ==
  ASSUME stats \in StatsType, NEW s \in 0..(SEQ_MOD - 1)
  PROVE  /\ NewerStats(s) \in StatsType
         /\ NewerStats(s).max_seq = s
         /\ NewerStats(s).cycles = IF s < stats.max_seq THEN stats.cycles + SEQ_MOD
                                                        ELSE stats.cycles
         /\ NewerStats(s).base_seq = stats.base_seq
         /\ NewerStats(s).probation = stats.probation
<1>1. PICK c \in Nat : c = IF s < stats.max_seq THEN stats.cycles + SEQ_MOD ELSE stats.cycles
  BY StatsFields, ModFacts
<1>2. NewerStats(s) = [stats EXCEPT !.cycles = c, !.max_seq = s]
  BY <1>1 DEF NewerStats, Wrapped, StatsType
<1> QED BY <1>1, <1>2 DEF StatsType

LEMMA AsideStatsIs ==
  ASSUME stats \in StatsType, NEW s \in 0..(SEQ_MOD - 1)
  PROVE  /\ AsideStats(s) \in StatsType
         /\ AsideStats(s).max_seq = stats.max_seq /\ AsideStats(s).cycles = stats.cycles
         /\ AsideStats(s).base_seq = stats.base_seq
         /\ AsideStats(s).probation = stats.probation
<1>1. (s + 1) % SEQ_MOD \in Int
  BY ModFacts, ModIs
<1> QED BY <1>1 DEF AsideStats, StatsType

LEMMA ProbationStatsIs ==
  ASSUME stats \in StatsType, NEW s \in 0..(SEQ_MOD - 1)
  PROVE  [stats EXCEPT !.max_seq = s] \in StatsType
BY DEF StatsType

LEMMA VerdictIs ==
  ASSUME NEW st, NEW ok \in BOOLEAN, NEW resync \in BOOLEAN, NEW v, v = Verdict(ok, resync, st)
  PROVE  v.ok = ok /\ v.resync = resync /\ v.st = st
BY DEF Verdict

(* The five outcomes. *)
LEMMA InSequenceCases ==
  ASSUME stats \in StatsType, NEW s \in 0..(SEQ_MOD - 1),
         NEW v, v = InSequence(s), NEW udelta, udelta = (s - stats.max_seq) % SEQ_MOD
  PROVE  \/ v.ok = TRUE /\ v.resync = TRUE /\ v.st = InitSequence(s)
         \/ /\ stats.probation > 0
            /\ v.ok = TRUE /\ v.resync = FALSE /\ v.st = [stats EXCEPT !.max_seq = s]
         \/ /\ stats.probation = 0 /\ udelta < MaxDropout
            /\ v.ok = TRUE /\ v.resync = FALSE /\ v.st = NewerStats(s)
         \/ v.ok = FALSE /\ v.resync = FALSE /\ v.st = AsideStats(s)
         \/ /\ stats.probation = 0 /\ ~(udelta <= SEQ_MOD - MaxMisorder)
            /\ v.ok = TRUE /\ v.resync = FALSE /\ v.st = stats
<1>1. stats.probation > 0 \/ stats.probation = 0
  BY StatsFields
<1>2. CASE stats.probation > 0
  <2>1. CASE s = stats.max_seq + 1
    <3>1. v = Verdict(TRUE, TRUE, InitSequence(s))
      BY <1>2, <2>1 DEF InSequence
    <3>2. v.ok = TRUE /\ v.resync = TRUE /\ v.st = InitSequence(s)
      BY <3>1, VerdictIs
    <3> QED BY <3>2
  <2>2. CASE s # stats.max_seq + 1
    <3>1. v = Verdict(TRUE, FALSE, [stats EXCEPT !.max_seq = s])
      BY <1>2, <2>2 DEF InSequence
    <3>2. v.ok = TRUE /\ v.resync = FALSE /\ v.st = [stats EXCEPT !.max_seq = s]
      BY <3>1, VerdictIs
    <3> QED BY <1>2, <3>2
  <2> QED BY <2>1, <2>2
<1>3. CASE stats.probation = 0
  <2>0. ~(stats.probation > 0)
    BY <1>3
  <2>1. CASE udelta < MaxDropout
    <3>1. v = Verdict(TRUE, FALSE, NewerStats(s))
      BY <2>0, <2>1 DEF InSequence, NewerStats
    <3>2. v.ok = TRUE /\ v.resync = FALSE /\ v.st = NewerStats(s)
      BY <3>1, VerdictIs
    <3> QED BY <1>3, <2>1, <3>2
  <2>2. CASE ~(udelta < MaxDropout) /\ udelta <= SEQ_MOD - MaxMisorder
    <3>1. CASE s = stats.bad_seq
      <4>1. v = Verdict(TRUE, TRUE, InitSequence(s))
        BY <2>0, <2>2, <3>1 DEF InSequence
      <4>2. v.ok = TRUE /\ v.resync = TRUE /\ v.st = InitSequence(s)
        BY <4>1, VerdictIs
      <4> QED BY <4>2
    <3>2. CASE s # stats.bad_seq
      <4>1. v = Verdict(FALSE, FALSE, AsideStats(s))
        BY <2>0, <2>2, <3>2 DEF InSequence, AsideStats
      <4>2. v.ok = FALSE /\ v.resync = FALSE /\ v.st = AsideStats(s)
        BY <4>1, VerdictIs
      <4> QED BY <4>2
    <3> QED BY <3>1, <3>2
  <2>3. CASE ~(udelta < MaxDropout) /\ ~(udelta <= SEQ_MOD - MaxMisorder)
    <3>1. v = Verdict(TRUE, FALSE, stats)
      BY <2>0, <2>3 DEF InSequence
    <3>2. v.ok = TRUE /\ v.resync = FALSE /\ v.st = stats
      BY <3>1, VerdictIs
    <3> QED BY <1>3, <2>3, <3>2
  <2> QED BY <2>1, <2>2, <2>3
<1> QED BY <1>1, <1>2, <1>3

(* How far a packet counted is from the newest one. *)
LEMMA UdeltaIs ==
  ASSUME NetTypeOK, ParserTypeOK, CountInv, NEW p \in PacketType, Sent(p),
         counted.first # NoPacket, p.e = counted.first.e,
         Near(p.n - counted.max.n, SEQ_MOD)
  PROVE  LET d == p.n - counted.max.n
         IN  /\ d \in Int /\ -HalfSeq <= d /\ d < HalfSeq
             /\ (PacketSeq(p) - stats.max_seq) % SEQ_MOD = IF d >= 0 THEN d ELSE d + SEQ_MOD
<1> DEFINE r == counted.max
           d == p.n - r.n
           a == offset[p.e] + p.n
           b == offset[r.e] + r.n
<1>1. r \in PacketType /\ Sent(r) /\ r.e = p.e /\ stats.max_seq = PacketSeq(r)
  BY DEF CountInv, ParserTypeOK, CountedType
<1>2. offset[p.e] \in Int /\ p.n \in Int /\ r.n \in Int
  BY <1>1, SeqNumber, PacketFields
<1>3. a \in Int /\ b \in Int /\ a - b = d /\ d \in Int
  BY <1>1, <1>2
<1>4. PacketSeq(p) = a % SEQ_MOD /\ stats.max_seq = b % SEQ_MOD
  BY <1>1 DEF PacketSeq
<1>5. Near(d, SEQ_MOD)
  OBVIOUS
<1>6. -HalfSeq <= d /\ d < HalfSeq
  BY <1>5 DEF Near, HalfSeq
<1> HIDE DEF a, b, d
<1>7. ((a % SEQ_MOD) - (b % SEQ_MOD)) % SEQ_MOD = d % SEQ_MOD
  BY <1>3, ModDiff, ModFacts
<1>8. d % SEQ_MOD = IF d >= 0 THEN d ELSE d + SEQ_MOD
  BY <1>3, <1>5, NearMod, ModFacts
<1> QED BY <1>3, <1>4, <1>6, <1>7, <1>8 DEF d

LEMMA CountStep ==
  ASSUME NetTypeOK, ParserTypeOK, CountInv, NEW p \in PacketType, Sent(p),
         stats' = InSequence(PacketSeq(p)).st,
         counted' = Account(p, InSequence(PacketSeq(p))), offset' = offset
  PROVE  stats' \in StatsType /\ counted' \in CountedType /\ CountInv'
<1> DEFINE s == PacketSeq(p)
           v == InSequence(s)
           udelta == (s - stats.max_seq) % SEQ_MOD
           unknown == [first |-> NoPacket, max |-> NoPacket]
<1>1. s \in 0..(SEQ_MOD - 1) /\ p # NoPacket /\ p.n \in Nat /\ p.e \in Nat \ {0}
  BY SeqNumber, PacketFields DEF Sent
<1>2. stats \in StatsType /\ counted \in CountedType
  BY DEF ParserTypeOK
<1>3. \A r : PacketSeq(r)' = PacketSeq(r)
  BY DEF PacketSeq
<1>4. Epoch' = Epoch
  BY DEF Epoch
<1>5. stats' = v.st /\ counted' = Account(p, v)
  OBVIOUS
<1>6. \/ v.ok = TRUE /\ v.resync = TRUE /\ v.st = InitSequence(s)
      \/ /\ stats.probation > 0
         /\ v.ok = TRUE /\ v.resync = FALSE /\ v.st = [stats EXCEPT !.max_seq = s]
      \/ /\ stats.probation = 0 /\ udelta < MaxDropout
         /\ v.ok = TRUE /\ v.resync = FALSE /\ v.st = NewerStats(s)
      \/ v.ok = FALSE /\ v.resync = FALSE /\ v.st = AsideStats(s)
      \/ /\ stats.probation = 0 /\ ~(udelta <= SEQ_MOD - MaxMisorder)
         /\ v.ok = TRUE /\ v.resync = FALSE /\ v.st = stats
  <2> HIDE DEF s
  <2> QED BY <1>1, <1>2, InSequenceCases
<1> HIDE DEF v
<1>7. unknown \in CountedType /\ unknown.first = NoPacket
  BY NoPacketFields DEF CountedType
<1>8. ASSUME counted' = unknown PROVE CountInv' /\ counted' \in CountedType
  BY <1>7, <1>8 DEF CountInv
<1>9. CASE v.ok = TRUE /\ v.resync = TRUE /\ v.st = InitSequence(s)
  <2>1. counted' = [first |-> p, max |-> p]
    BY <1>5, <1>9 DEF Account
  <2>2. counted' \in CountedType /\ counted'.first = p /\ counted'.max = p
    BY <2>1 DEF CountedType
  <2>3. /\ stats' \in StatsType /\ stats'.max_seq = s /\ stats'.cycles = 0
        /\ stats'.base_seq = s - 1 /\ stats'.probation = 0
    BY <1>1, <1>5, <1>9, InitSequenceIs
  <2>4. Expected' = 1 /\ p.n - p.n + 1 = 1
    BY <2>3, <1>1 DEF Expected
  <2>5. Sent(p)'
    BY <1>4 DEF Sent
  <2> QED BY <2>2, <2>3, <2>4, <2>5, <1>3 DEF CountInv
<1>10. CASE /\ stats.probation > 0
            /\ v.ok = TRUE /\ v.resync = FALSE /\ v.st = [stats EXCEPT !.max_seq = s]
  <2>1. counted.first = NoPacket
    BY <1>10 DEF CountInv
  <2>2. counted' = unknown
    BY <2>1, <1>1, <1>5, <1>10, NoPacketFields DEF Account
  <2>3. stats' \in StatsType
    BY <1>1, <1>2, <1>5, <1>10, ProbationStatsIs
  <2> QED BY <2>2, <2>3, <1>8
<1>11. CASE /\ stats.probation = 0 /\ udelta < MaxDropout
            /\ v.ok = TRUE /\ v.resync = FALSE /\ v.st = NewerStats(s)
  <2>1. /\ stats' \in StatsType /\ stats'.max_seq = s
        /\ stats'.cycles = IF s < stats.max_seq THEN stats.cycles + SEQ_MOD ELSE stats.cycles
        /\ stats'.base_seq = stats.base_seq /\ stats'.probation = stats.probation
    BY <1>1, <1>2, <1>5, <1>11, NewerStatsIs
  <2>2. CASE counted.first = NoPacket \/ p.e # counted.first.e
             \/ ~Near(p.n - counted.max.n, SEQ_MOD)
    <3>1. counted' = unknown
      BY <2>2, <1>1, <1>5, <1>11, NoPacketFields DEF Account
    <3> QED BY <3>1, <2>1, <1>8
  <2>3. CASE /\ counted.first # NoPacket /\ p.e = counted.first.e
             /\ Near(p.n - counted.max.n, SEQ_MOD)
    <3> DEFINE d == p.n - counted.max.n
    <3>1. /\ d \in Int /\ -HalfSeq <= d /\ d < HalfSeq
          /\ udelta = IF d >= 0 THEN d ELSE d + SEQ_MOD
      BY <2>3, UdeltaIs
    <3>2. d >= 0 /\ udelta = d
      BY <3>1, <1>11, LimitFacts, ModFacts
    <3>3. counted.max \in PacketType /\ counted.first \in PacketType
          /\ counted.max.e = counted.first.e /\ counted.max.n \in Int
          /\ counted.first.n \in Int /\ Sent(counted.max)
      BY <1>2, <2>3, PacketFields DEF CountedType, CountInv
    <3>4. counted' \in CountedType /\ counted'.first = counted.first /\ counted'.max = p
      <4>1. CASE p.n > counted.max.n
        <5>1. counted' = [counted EXCEPT !.max = p]
          BY <4>1, <2>3, <1>5, <1>11 DEF Account
        <5> QED BY <5>1, <1>2 DEF CountedType
      <4>2. CASE ~(p.n > counted.max.n)
        <5>1. counted' = counted
          BY <4>2, <2>3, <1>5, <1>11 DEF Account
        <5>2. p.n = counted.max.n
          BY <4>2, <3>2, <3>3, <1>1
        <5>3. counted.max = p
          BY <5>2, <3>3, <2>3, PacketFields
        <5> QED BY <5>1, <5>3, <1>2
      <4> QED BY <4>1, <4>2
    <3>5. Sent(p)'
      BY <1>4 DEF Sent
    <3>6. Expected' = p.n - counted.first.n + 1
      <4>1. stats.cycles + stats.max_seq - stats.base_seq = counted.max.n - counted.first.n + 1
        BY <2>3 DEF CountInv, Expected
      <4>2. stats.max_seq \in 0..(SEQ_MOD - 1) /\ stats.cycles \in Nat /\ stats.base_seq \in Int
        BY <1>2, StatsFields
      <4>3. udelta = IF s < stats.max_seq THEN s - stats.max_seq + SEQ_MOD ELSE s - stats.max_seq
        <5>1. CASE s < stats.max_seq
          <6>1. s - stats.max_seq + SEQ_MOD \in 0..(SEQ_MOD - 1)
            BY <5>1, <4>2, <1>1, ModFacts
          <6>2. ((s - stats.max_seq + SEQ_MOD) - SEQ_MOD) % SEQ_MOD = s - stats.max_seq + SEQ_MOD
            BY <6>1, ModSmall, ModFacts
          <6>3. (s - stats.max_seq + SEQ_MOD) - SEQ_MOD = s - stats.max_seq
            BY <4>2, <1>1, ModFacts
          <6> QED BY <6>2, <6>3, <5>1
        <5>2. CASE ~(s < stats.max_seq)
          <6>1. s - stats.max_seq \in 0..(SEQ_MOD - 1)
            BY <5>2, <4>2, <1>1, ModFacts
          <6> QED BY <6>1, <5>2, ModSmall, ModFacts
        <5> QED BY <5>1, <5>2
      <4>4. stats'.cycles + s = stats.cycles + stats.max_seq + d
        <5> HIDE DEF d, udelta
        <5> QED BY <4>2, <4>3, <3>1, <3>2, <2>1, <1>1, ModFacts
      <4>5. Expected' = stats'.cycles + s - stats.base_seq
        BY <2>1 DEF Expected
      <4>6. stats'.cycles \in Int /\ s \in Int
        BY <2>1, <1>1, StatsFields
      <4> QED BY <4>1, <4>2, <4>4, <4>5, <4>6, <3>3, <1>1
    <3>7. counted.first.e = p.e
      BY <2>3
    <3>8. stats'.probation = 0
      BY <2>1, <1>11
    <3> QED BY <3>4, <3>5, <3>6, <3>7, <3>8, <2>1, <1>3 DEF CountInv
  <2> QED BY <2>2, <2>3
<1>12. CASE v.ok = FALSE /\ v.resync = FALSE /\ v.st = AsideStats(s)
  <2>1. counted' = counted
    BY <1>5, <1>12 DEF Account
  <2>2. /\ stats' \in StatsType
        /\ stats'.max_seq = stats.max_seq /\ stats'.cycles = stats.cycles
        /\ stats'.base_seq = stats.base_seq /\ stats'.probation = stats.probation
    BY <1>1, <1>2, <1>5, <1>12, AsideStatsIs
  <2>3. Expected' = Expected
    BY <2>2 DEF Expected
  <2>4. Sent(counted.max)' <=> Sent(counted.max)
    BY <2>1, <1>4 DEF Sent
  <2> QED BY <2>1, <2>2, <2>3, <2>4, <1>2, <1>3 DEF CountInv
<1>13. CASE /\ stats.probation = 0 /\ ~(udelta <= SEQ_MOD - MaxMisorder)
            /\ v.ok = TRUE /\ v.resync = FALSE /\ v.st = stats
  <2>1. stats' = stats
    BY <1>5, <1>13
  <2>2. CASE counted.first = NoPacket \/ p.e # counted.first.e
             \/ ~Near(p.n - counted.max.n, SEQ_MOD)
    <3>1. counted' = unknown
      BY <2>2, <1>1, <1>5, <1>13, NoPacketFields DEF Account
    <3> QED BY <3>1, <2>1, <1>2, <1>8
  <2>3. CASE /\ counted.first # NoPacket /\ p.e = counted.first.e
             /\ Near(p.n - counted.max.n, SEQ_MOD)
    <3> DEFINE d == p.n - counted.max.n
    <3>1. /\ d \in Int /\ -HalfSeq <= d /\ d < HalfSeq
          /\ udelta = IF d >= 0 THEN d ELSE d + SEQ_MOD
      BY <2>3, UdeltaIs
    <3>2. d < 0
      BY <3>1, <1>13, LimitFacts, ModFacts
    <3>3. counted.max.n \in Int
      BY <1>2, PacketFields DEF CountedType
    <3>4. ~(p.n > counted.max.n)
      BY <3>2, <3>3, <1>1
    <3>5. counted' = counted
      BY <3>4, <2>3, <1>5, <1>13 DEF Account
    <3>6. Sent(counted.max)' <=> Sent(counted.max)
      BY <3>5, <1>4 DEF Sent
    <3>7. Expected' = Expected
      BY <2>1 DEF Expected
    <3> QED BY <3>5, <3>6, <3>7, <2>1, <1>2, <1>3 DEF CountInv
  <2> QED BY <2>2, <2>3
<1> QED BY <1>6, <1>9, <1>10, <1>11, <1>12, <1>13

---------------------------------------------------------------------------
(***************************************************************************)
(* finalize_packet(): the timestamp is unwrapped by its distance from the  *)
(* last one, or from 0 if the last one was 0.                              *)
(***************************************************************************)
LEMMA TsFields ==
  ASSUME ts \in TsType
  PROVE  /\ ts.timestamp \in 0..(TS_MOD - 1) /\ ts.base \in 0..(TS_MOD - 1)
         /\ ts.unwrapped \in Int /\ ts.sr \in BOOLEAN
BY DEF TsType

LEMMA TimedFields ==
  ASSUME timed \in TimedType
  PROVE  /\ timed.first \in Int /\ timed.first >= -1 /\ timed.last \in Int /\ timed.last >= -1
         /\ timed.first \in Nat \cup {-1} /\ timed.last \in Nat \cup {-1}
BY DEF TimedType

LEMMA SignedInt ==
  ASSUME NEW d \in Int, NEW m \in Nat \ {0}
  PROVE  Signed(d, m) \in Int
<1>1. d % m \in Int
  BY ModIs
<1> QED BY <1>1 DEF Signed

LEMMA FinalizedIs ==
  ASSUME ts \in TsType, NEW t \in 0..(TS_MOD - 1)
  PROVE  /\ Finalized(t) \in TsType
         /\ Finalized(t).timestamp = t
         /\ Finalized(t).base = IF ts.base = 0 THEN t ELSE ts.base
         /\ Finalized(t).unwrapped =
              ts.unwrapped + IF ts.timestamp = 0 THEN t ELSE TsDiff(t, ts.timestamp)
<1>1. PICK b \in 0..(TS_MOD - 1) : b = IF ts.base = 0 THEN t ELSE ts.base
  BY TsFields
<1>2. TsDiff(t, ts.timestamp) \in Int
  BY TsFields, SignedInt, ModFacts DEF TsDiff
<1>3. PICK w \in Int : w = IF ts.timestamp = 0 THEN t ELSE TsDiff(t, ts.timestamp)
  BY <1>2
<1>4. Finalized(t) = [ts EXCEPT !.base = b, !.unwrapped = ts.unwrapped + w, !.timestamp = t]
  BY <1>1, <1>3 DEF Finalized, TsType
<1>5. PICK u \in Int : u = ts.unwrapped + w
  BY TsFields
<1>6. Finalized(t) = [ts EXCEPT !.base = b, !.unwrapped = u, !.timestamp = t]
  BY <1>4, <1>5
<1>7. /\ Finalized(t) \in TsType
      /\ Finalized(t).timestamp = t /\ Finalized(t).base = b /\ Finalized(t).unwrapped = u
  BY <1>6 DEF TsType
<1> QED BY <1>1, <1>3, <1>5, <1>7

LEMMA PacketTsIs ==
  ASSUME NetTypeOK, NEW p, p.n \in Nat
  PROVE  PacketTs(p) \in 0..(TS_MOD - 1) /\ setup.ts0 + p.n \in Int
<1>1. setup.ts0 + p.n \in Int
  BY SetupFacts DEF NetTypeOK
<1> QED BY <1>1, ModIs, ModFacts DEF PacketTs

(* From a packet less than half the space of timestamps ago, unwrapping is *)
(* exact, whether its timestamp was 0 or not.                              *)
LEMMA UnwrapExact ==
  ASSUME NetTypeOK, ts \in TsType, NEW p, p.n \in Nat, NEW l \in Nat, l <= p.n,
         Near(p.n - l, TS_MOD), ts.timestamp = (setup.ts0 + l) % TS_MOD
  PROVE  (IF ts.timestamp = 0 THEN PacketTs(p) ELSE TsDiff(PacketTs(p), ts.timestamp)) = p.n - l
<1> DEFINE a == setup.ts0 + p.n
           b == setup.ts0 + l
<1>0. setup.ts0 \in Int
  BY SetupFacts DEF NetTypeOK
<1>1. a \in Int /\ b \in Int /\ a - b = p.n - l /\ p.n - l \in Int
  BY <1>0
<1>2. PacketTs(p) = a % TS_MOD /\ ts.timestamp = b % TS_MOD
  BY DEF PacketTs
<1> HIDE DEF a, b
<1>3. CASE ts.timestamp = 0
  <2>1. a % TS_MOD \in 0..(TS_MOD - 1)
    BY <1>1, ModIs, ModFacts
  <2>2. ((a % TS_MOD) - 0) % TS_MOD = (a - b) % TS_MOD
    <3>1. ((a % TS_MOD) - (b % TS_MOD)) % TS_MOD = (a - b) % TS_MOD
      BY <1>1, ModDiff, ModFacts
    <3>2. b % TS_MOD = 0
      BY <1>2, <1>3
    <3> QED BY <3>1, <3>2
  <2>3. (a % TS_MOD) - 0 = a % TS_MOD /\ (a % TS_MOD) % TS_MOD = a % TS_MOD
    BY <2>1, ModSmall, ModFacts
  <2>4. (p.n - l) % TS_MOD = p.n - l
    <3>1. (p.n - l) % TS_MOD = IF p.n - l >= 0 THEN p.n - l ELSE p.n - l + TS_MOD
      BY <1>1, NearMod, ModFacts
    <3>2. p.n - l >= 0
      OBVIOUS
    <3> QED BY <3>1, <3>2
  <2> QED BY <2>2, <2>3, <2>4, <1>1, <1>2, <1>3
<1>4. CASE ts.timestamp # 0
  <2>1. Signed((a % TS_MOD) - (b % TS_MOD), TS_MOD) = a - b
    BY <1>1, SignedExact, ModFacts
  <2> QED BY <2>1, <1>1, <1>2, <1>4 DEF TsDiff
<1> QED BY <1>3, <1>4

LEMMA TsStep ==
  ASSUME NetTypeOK, ParserTypeOK, TsInv, NEW p \in PacketType, p.n \in Nat,
         ts' = Finalized(PacketTs(p)),
         timed' = [first |-> IF ts.base = 0 /\ ts'.base # 0 THEN p.n ELSE timed.first,
                   last |-> p.n],
         disordered' = \/ disordered \/ p.n < emitted.n
                       \/ timed.last >= 0 /\ ~Near(p.n - timed.last, TS_MOD),
         emitted' = p, setup' = setup
  PROVE  ts' \in TsType /\ timed' \in TimedType /\ TsInv'
<1> DEFINE t == PacketTs(p)
<1>1. ts \in TsType /\ timed \in TimedType /\ emitted.n \in Int /\ p.n \in Int
  BY PacketFields DEF ParserTypeOK
<1>2. t \in 0..(TS_MOD - 1) /\ t = (setup.ts0 + p.n) % TS_MOD
  BY PacketTsIs DEF PacketTs
<1> HIDE DEF t
<1>3. ts' = Finalized(t)
  BY DEF t
<1>4. /\ ts' \in TsType /\ ts'.timestamp = t
      /\ ts'.base = IF ts.base = 0 THEN t ELSE ts.base
      /\ ts'.unwrapped = ts.unwrapped + IF ts.timestamp = 0 THEN t ELSE TsDiff(t, ts.timestamp)
  BY <1>1, <1>2, <1>3, FinalizedIs
<1>5. /\ ts.timestamp \in Int /\ ts.base \in Int /\ ts.unwrapped \in Int
      /\ timed.first \in Int /\ timed.first >= -1 /\ timed.last \in Int /\ timed.last >= -1
      /\ timed.first \in Nat \cup {-1} /\ timed.last \in Nat \cup {-1}
  BY <1>1, TsFields, TimedFields
<1>6. timed'.last = p.n
  OBVIOUS
<1>7. timed'.first = IF ts.base = 0 /\ ts'.base # 0 THEN p.n ELSE timed.first
  OBVIOUS
<1>8. timed' \in TimedType
  <2>1. PICK f \in Nat \cup {-1} : f = IF ts.base = 0 /\ ts'.base # 0 THEN p.n ELSE timed.first
    BY <1>5
  <2>2. timed' = [first |-> f, last |-> p.n]
    BY <2>1
  <2> QED BY <2>2 DEF TimedType
<1>9. Pts' = ts'.unwrapped - ts'.base /\ Pts = ts.unwrapped - ts.base
  BY DEF Pts
<1>10. emitted'.n = p.n /\ setup'.ts0 = setup.ts0
  OBVIOUS
<1>11. CASE timed.first >= 0
  <2>1. ts.base # 0 /\ timed.last >= 0
    BY <1>11 DEF TsInv
  <2>2. ts'.base = ts.base /\ timed'.first = timed.first
    BY <2>1, <1>4, <1>7
  <2>3. ASSUME ~disordered'
        PROVE  Pts' = p.n - timed.first
    <3>1. ~disordered /\ ~(p.n < emitted.n) /\ Near(p.n - timed.last, TS_MOD)
      BY <2>1, <2>3
    <3>2. /\ timed.last <= emitted.n /\ ts.timestamp = (setup.ts0 + timed.last) % TS_MOD
          /\ Pts = timed.last - timed.first
      BY <3>1, <1>11 DEF TsInv
    <3>3. timed.last \in Nat /\ timed.last <= p.n
      BY <3>1, <3>2, <2>1, <1>1, <1>5
    <3>4. (IF ts.timestamp = 0 THEN t ELSE TsDiff(t, ts.timestamp)) = p.n - timed.last
      BY <3>1, <3>2, <3>3, <1>1, UnwrapExact DEF t
    <3>5. ts'.unwrapped = ts.unwrapped + (p.n - timed.last)
      BY <3>4, <1>4
    <3> QED BY <3>2, <3>5, <2>2, <1>1, <1>5, <1>9
  <2> QED BY <2>1, <2>2, <2>3, <1>1, <1>2, <1>4, <1>6, <1>8, <1>10, <1>11 DEF TsInv
<1>12. CASE timed.first < 0 /\ ts.base # 0
  <2>1. ts'.base = ts.base /\ timed'.first = timed.first /\ ts'.base # 0
    BY <1>12, <1>4, <1>7
  <2>2. ~(timed'.first >= 0)
    BY <2>1, <1>5, <1>12
  <2> QED BY <2>1, <2>2, <1>1, <1>4, <1>6, <1>8, <1>10 DEF TsInv
<1>13. CASE timed.first < 0 /\ ts.base = 0
  <2>1. ts.unwrapped = 0 /\ ts.timestamp = 0
    BY <1>13 DEF TsInv
  <2>2. ts'.unwrapped = t /\ ts'.base = t
    BY <2>1, <1>2, <1>4, <1>13
  <2>3. CASE t = 0
    <3>1. timed'.first = timed.first /\ ~(timed'.first >= 0)
      BY <2>2, <2>3, <1>5, <1>7, <1>13
    <3> QED BY <3>1, <2>2, <2>3, <1>1, <1>4, <1>6, <1>8, <1>10 DEF TsInv
  <2>4. CASE t # 0
    <3>1. timed'.first = p.n /\ Pts' = 0
      BY <2>2, <2>4, <1>2, <1>7, <1>9, <1>13
    <3> QED BY <3>1, <2>2, <2>4, <1>1, <1>2, <1>4, <1>6, <1>8, <1>10 DEF TsInv
  <2> QED BY <2>3, <2>4
<1> QED BY <1>5, <1>11, <1>12, <1>13

(* A packet that gets no pts leaves the timestamps alone. *)
LEMMA TsKept ==
  ASSUME NetTypeOK, ParserTypeOK, TsInv, NEW p \in PacketType,
         ts' = ts, timed' = timed,
         disordered' = \/ disordered \/ p.n < emitted.n
                       \/ timed.last >= 0 /\ ~Near(p.n - timed.last, TS_MOD),
         emitted' = p, setup' = setup
  PROVE  TsInv'
<1>1. timed \in TimedType /\ emitted.n \in Int /\ p.n \in Int
  BY PacketFields DEF ParserTypeOK
<1>2. timed.last \in Int
  BY <1>1, TimedFields
<1>3. ASSUME ~disordered' PROVE ~disordered /\ timed.last <= p.n
  BY <1>1, <1>2, <1>3 DEF TsInv
<1>4. Pts' = Pts
  BY DEF Pts
<1> QED BY <1>1, <1>3, <1>4 DEF TsInv

---------------------------------------------------------------------------
(***************************************************************************)
(* rtp_parse_packet_internal(): either p is the packet parsed last, or     *)
(* nothing but the statistics has changed.                                 *)
(***************************************************************************)
LEMMA ParseStep ==
  ASSUME NetTypeOK, ParserTypeOK, CountInv, TsInv, NEW p \in PacketType, Sent(p),
         ParseInternal(p), setup' = setup, offset' = offset
  PROVE  /\ ParserTypeOK' /\ CountInv' /\ TsInv'
         /\ ret' \in {-1, 0, 1}
         /\ ret' >= 0 => Stamp'
         /\ \/ emitted' = p /\ seq' = PacketSeq(p)
            \/ emitted' = emitted /\ seq' = seq
<1> DEFINE v == InSequence(PacketSeq(p))
<1>0. Epoch' = Epoch /\ \A r : PacketSeq(r)' = PacketSeq(r)
  BY DEF Epoch, PacketSeq
<1>1. p.n \in Nat /\ PacketSeq(p) \in 0..(SEQ_MOD - 1)
  BY SeqNumber
<1>2. CASE Foreign(p)
  <2>1. ret' = -1 /\ UNCHANGED <<seq, stats, ts, stamped, pending, histVars>>
    BY <1>2 DEF ParseInternal
  <2>2. UNCHANGED <<seq, stats, ts, stamped, pending, emitted, counted, timed, disordered>>
    BY <2>1 DEF histVars
  <2>3. ParserTypeOK' /\ ret' \in {-1, 0, 1} /\ ~(ret' >= 0)
    BY <2>1, <2>2 DEF ParserTypeOK
  <2>4. CountInv'
    BY <2>2, <1>0 DEF CountInv, Expected, Sent
  <2>5. TsInv'
    BY <2>2 DEF TsInv, Pts
  <2> QED BY <2>2, <2>3, <2>4, <2>5
<1>3. CASE ~Foreign(p)
  <2>1. stats' = v.st /\ counted' = Account(p, v)
    BY <1>3 DEF ParseInternal
  <2>2. stats' \in StatsType /\ counted' \in CountedType /\ CountInv'
    BY <2>1, CountStep
  <2>3. CASE ~v.ok
    <3>1. ret' = -1 /\ UNCHANGED <<seq, ts, stamped, pending, emitted, timed, disordered>>
      BY <2>3, <1>3 DEF ParseInternal
    <3>2. ParserTypeOK' /\ ret' \in {-1, 0, 1} /\ ~(ret' >= 0)
      BY <3>1, <2>2 DEF ParserTypeOK
    <3>3. TsInv'
      BY <3>1 DEF TsInv, Pts
    <3> QED BY <3>1, <3>2, <3>3, <2>2
  <2>4. CASE v.ok
    <3>1. /\ seq' = PacketSeq(p) /\ emitted' = p
          /\ disordered' = \/ disordered \/ p.n < emitted.n
                           \/ timed.last >= 0 /\ ~Near(p.n - timed.last, TS_MOD)
      BY <2>4, <1>3 DEF ParseInternal
    <3> DEFINE t == PacketTs(p)
    <3>2. PICK r \in {-1, 0, 1} :
            /\ ret' = r /\ pending' = IF r = 1 THEN p ELSE NoPacket
            /\ \/ /\ ~GetsPts(r, t)
                  /\ stamped' = (r < 0 /\ stamped)
                  /\ UNCHANGED <<ts, timed>>
               \/ /\ GetsPts(r, t)
                  /\ stamped' = TRUE
                  /\ ts' = Finalized(t)
                  /\ timed' = [first |-> IF ts.base = 0 /\ ts'.base # 0
                                         THEN p.n ELSE timed.first,
                               last |-> p.n]
      BY <2>4, <1>3 DEF ParseInternal
    <3> HIDE DEF t
    <3>3. /\ pending' \in PacketType /\ stamped' \in BOOLEAN /\ disordered' \in BOOLEAN
          /\ seq' \in 0..(SEQ_MOD - 1) /\ emitted' \in PacketType
      BY <3>1, <3>2, <1>1, NoPacketFields
    <3>4. ret' \in {-1, 0, 1} /\ ret' \in -2..1
      BY <3>2
    <3>5. CASE ~GetsPts(r, t)
      <4>1. ts' = ts /\ timed' = timed /\ stamped' = (r < 0 /\ stamped)
        BY <3>5, <3>2
      <4>2. TsInv'
        BY <4>1, <3>1, TsKept
      <4>3. ts' \in TsType /\ timed' \in TimedType
        BY <4>1 DEF ParserTypeOK
      <4>4. ret' >= 0 => Stamp'
        <5> SUFFICES ASSUME ret' >= 0 PROVE Stamp'
          OBVIOUS
        <5>1. ~(r < 0)
          BY <3>2
        <5>2. stamped' = FALSE /\ t = RTP_NOTS_VALUE
          BY <5>1, <4>1, <3>5 DEF GetsPts
        <5>3. PacketTs(emitted)' = t
          BY <3>1 DEF PacketTs, t
        <5> QED BY <5>2, <5>3 DEF Stamp, RTP_NOTS_VALUE
      <4> QED BY <4>2, <4>3, <4>4, <3>1, <3>3, <3>4, <2>2 DEF ParserTypeOK
    <3>6. CASE GetsPts(r, t)
      <4>1. /\ ts' = Finalized(PacketTs(p)) /\ stamped' = TRUE
            /\ timed' = [first |-> IF ts.base = 0 /\ ts'.base # 0 THEN p.n ELSE timed.first,
                         last |-> p.n]
        BY <3>6, <3>2 DEF t
      <4>2. ts' \in TsType /\ timed' \in TimedType /\ TsInv'
        BY <4>1, <3>1, <1>1, TsStep
      <4>3. Stamp'
        BY <4>1, <3>1 DEF Stamp
      <4> QED BY <4>2, <4>3, <3>1, <3>3, <3>4, <2>2 DEF ParserTypeOK
    <3> QED BY <3>5, <3>6
  <2> QED BY <2>3, <2>4
<1> QED BY <1>2, <1>3

---------------------------------------------------------------------------
(***************************************************************************)
(* The queue as a sorted list.                                             *)
(***************************************************************************)
LEMMA PacketAt ==
  ASSUME NEW q \in Seq(PacketType), NEW i \in DOMAIN q
  PROVE  q[i] \in PacketType /\ q[i].n \in Int /\ q[i].e \in Nat /\ i \in 1..Len(q) /\ i \in Nat
<1>1. q[i] \in PacketType /\ i \in 1..Len(q) /\ i \in Nat
  OBVIOUS
<1> QED BY <1>1, PacketFields

LEMMA HeadIs ==
  ASSUME NEW q \in Seq(PacketType), q # <<>>
  PROVE  Head(q) = q[1] /\ 1 \in DOMAIN q /\ q[1] \in PacketType
OBVIOUS

LEMMA OrderedEmpty ==
  ASSUME NEW e, NEW fl, NEW hi, NEW he, NEW m, m # NoPacket => Tracked(e, fl, hi, he, m)
  PROVE  Ordered(e, fl, hi, he, <<>>, m)
BY DEF Ordered, SortedPackets, Reach

(* rtp_parse_queued_packet() takes the first packet. *)
LEMMA OrderedTail ==
  ASSUME NEW e, NEW fl, NEW hi, NEW he, NEW q \in Seq(PacketType), NEW m \in PacketType,
         Ordered(e, fl, hi, he, q, m), q # <<>>
  PROVE  /\ Ordered(e, fl, hi, he, Tail(q), q[1]) /\ Ordered(e, fl, hi, he, Tail(q), m)
         /\ m.n < q[1].n
<1> DEFINE t == Tail(q)
<1>1. /\ t \in Seq(PacketType) /\ Len(q) \in Nat \ {0} /\ Len(t) = Len(q) - 1 /\ 1 \in DOMAIN q
      /\ \A j \in DOMAIN t : j \in Nat \ {0} /\ j + 1 \in DOMAIN q /\ t[j] = q[j + 1]
  BY TailAt
<1> HIDE DEF t
<1>2. SortedPackets(t)
  <2> SUFFICES ASSUME NEW i \in DOMAIN t, NEW j \in DOMAIN t, i < j
               PROVE  t[i].n < t[j].n
    BY DEF SortedPackets
  <2>1. i + 1 \in DOMAIN q /\ j + 1 \in DOMAIN q /\ i + 1 < j + 1
    BY <1>1
  <2>2. q[i + 1].n < q[j + 1].n
    BY <2>1 DEF Ordered, SortedPackets
  <2> QED BY <2>2, <1>1
<1>3. \A i \in DOMAIN t : Tracked(e, fl, hi, he, t[i])
  BY <1>1 DEF Ordered
<1>4. Reach(t, m.n)
  BY <1>1 DEF Ordered, Reach
<1>5. Reach(t, q[1].n)
  <2> SUFFICES ASSUME NEW i \in DOMAIN t
               PROVE  q[1].n < t[i].n /\ t[i].n < q[1].n + HalfSeq
    BY DEF Reach
  <2>1. i + 1 \in DOMAIN q /\ t[i] = q[i + 1] /\ 1 < i + 1
    BY <1>1
  <2>2. q[1].n < q[i + 1].n
    BY <2>1, <1>1 DEF Ordered, SortedPackets
  <2>3. m.n < q[1].n /\ q[i + 1].n < m.n + HalfSeq
    BY <2>1, <1>1 DEF Ordered, Reach
  <2>4. m.n \in Int /\ q[1].n \in Int /\ q[i + 1].n \in Int
    BY <2>1, <1>1, PacketAt, PacketFields
  <2> QED BY <2>1, <2>2, <2>3, <2>4, ModFacts
<1>6. Tracked(e, fl, hi, he, q[1]) /\ m.n < q[1].n
  BY <1>1 DEF Ordered, Reach
<1> QED BY <1>2, <1>3, <1>4, <1>5, <1>6 DEF Ordered, t

(* p is put in place k of q. *)
Inserted(r, q, k, p) ==
  /\ k \in 1..(Len(q) + 1)
  /\ r \in Seq(PacketType) /\ Len(r) = Len(q) + 1 /\ r[k] = p
  /\ \A i \in 1..Len(q) : i < k => r[i] = q[i]
  /\ \A i \in 1..Len(q) : i >= k => r[i + 1] = q[i]

LEMMA InsertedFrom ==
  ASSUME NEW q \in Seq(PacketType), NEW p \in PacketType, NEW r, NEW k, Inserted(r, q, k, p),
         NEW j \in DOMAIN r
  PROVE  \/ j = k /\ r[j] = p
         \/ j < k /\ j \in DOMAIN q /\ r[j] = q[j]
         \/ j > k /\ j - 1 \in DOMAIN q /\ j - 1 >= k /\ r[j] = q[j - 1]
<1>1. /\ k \in 1..(Len(q) + 1) /\ r \in Seq(PacketType) /\ Len(r) = Len(q) + 1 /\ r[k] = p
      /\ Len(q) \in Nat /\ DOMAIN q = 1..Len(q)
  BY DEF Inserted
<1>2. j \in 1..(Len(q) + 1)
  BY <1>1
<1>3. CASE j = k
  BY <1>1, <1>3
<1>4. CASE j < k
  <2>1. j \in 1..Len(q)
    BY <1>1, <1>2, <1>4
  <2>2. r[j] = q[j]
    BY <2>1, <1>4 DEF Inserted
  <2> QED BY <2>1, <2>2, <1>1, <1>4
<1>5. CASE j > k
  <2>1. j - 1 \in 1..Len(q) /\ j - 1 >= k /\ (j - 1) + 1 = j
    BY <1>1, <1>2, <1>5
  <2>2. r[(j - 1) + 1] = q[j - 1]
    BY <2>1 DEF Inserted
  <2> QED BY <2>1, <2>2, <1>1, <1>5
<1> QED BY <1>1, <1>2, <1>3, <1>4, <1>5

LEMMA OrderedInsert ==
  ASSUME NEW e, NEW fl, NEW hi, NEW he, NEW q \in Seq(PacketType), NEW m \in PacketType,
         Ordered(e, fl, hi, he, q, m),
         NEW p \in PacketType, NEW r, NEW k, Inserted(r, q, k, p),
         \A i \in DOMAIN q : i < k => q[i].n < p.n,
         \A i \in DOMAIN q : i >= k => p.n < q[i].n,
         Tracked(e, fl, hi, he, p), m.n < p.n, p.n < m.n + HalfSeq
  PROVE  Ordered(e, fl, hi, he, r, m)
<1>1. /\ r \in Seq(PacketType) /\ k \in Nat /\ DOMAIN r \subseteq Nat /\ DOMAIN q \subseteq Nat
      /\ DOMAIN q = 1..Len(q)
  BY DEF Inserted
<1>2. \A j \in DOMAIN r : r[j] = p \/ \E i \in DOMAIN q : r[j] = q[i]
  BY InsertedFrom
<1>3. Reach(r, m.n)
  BY <1>2 DEF Reach, Ordered
<1>4. \A i \in DOMAIN r : Tracked(e, fl, hi, he, r[i])
  BY <1>2 DEF Ordered
<1>5. SortedPackets(r)
  <2> SUFFICES ASSUME NEW i \in DOMAIN r, NEW j \in DOMAIN r, i < j
               PROVE  r[i].n < r[j].n
    BY DEF SortedPackets
  <2>0. i \in Nat /\ j \in Nat
    BY <1>1
  <2>1. \/ i = k /\ r[i] = p
        \/ i < k /\ i \in DOMAIN q /\ r[i] = q[i]
        \/ i > k /\ i - 1 \in DOMAIN q /\ i - 1 >= k /\ r[i] = q[i - 1]
    BY InsertedFrom
  <2>2. \/ j = k /\ r[j] = p
        \/ j < k /\ j \in DOMAIN q /\ r[j] = q[j]
        \/ j > k /\ j - 1 \in DOMAIN q /\ j - 1 >= k /\ r[j] = q[j - 1]
    BY InsertedFrom
  <2>3. \A x, y \in DOMAIN q : x < y => q[x].n < q[y].n
    BY DEF Ordered, SortedPackets
  <2>4. CASE i = k
    <3>1. j - 1 \in DOMAIN q /\ j - 1 >= k /\ r[j] = q[j - 1] /\ r[i] = p
      BY <2>0, <2>1, <2>2, <2>4, <1>1
    <3> QED BY <3>1
  <2>5. CASE i < k
    <3>1. i \in DOMAIN q /\ r[i] = q[i]
      BY <2>0, <2>1, <2>5, <1>1
    <3>2. CASE j = k
      BY <3>1, <3>2, <2>2, <2>5, <1>1
    <3>3. CASE j < k
      <4>1. j \in DOMAIN q /\ r[j] = q[j]
        BY <3>3, <2>0, <2>2, <1>1
      <4> QED BY <4>1, <3>1, <2>3
    <3>4. CASE j > k
      <4>1. j - 1 \in DOMAIN q /\ j - 1 >= k /\ r[j] = q[j - 1] /\ i < j - 1
        BY <3>4, <2>0, <2>2, <2>5, <1>1
      <4> QED BY <4>1, <3>1, <2>3
    <3> QED BY <3>2, <3>3, <3>4, <2>0, <1>1
  <2>6. CASE i > k
    <3>1. i - 1 \in DOMAIN q /\ r[i] = q[i - 1]
      BY <2>0, <2>1, <2>6, <1>1
    <3>2. j - 1 \in DOMAIN q /\ r[j] = q[j - 1] /\ i - 1 < j - 1
      BY <2>0, <2>2, <2>6, <1>1
    <3> QED BY <3>1, <3>2, <2>3
  <2> QED BY <2>0, <2>4, <2>5, <2>6, <1>1
<1> QED BY <1>3, <1>4, <1>5 DEF Ordered

(* The network goes on. *)
LEMMA TrackedMore ==
  ASSUME NEW e, NEW fl, NEW hi \in Int, NEW he, NEW hi2 \in Int, NEW he2, hi <= hi2,
         \A x \in he : x \in Int /\ (x >= hi2 - Late => x \in he2),
         NEW p, p.n \in Int, Tracked(e, fl, hi, he, p)
  PROVE  Tracked(e, fl, hi2, he2, p)
<1>1. Late \in Nat
  BY BoundAssumption
<1>2. p.n <= hi2
  BY DEF Tracked
<1>3. ASSUME p.n >= hi2 - Late PROVE p.n \in he2
  <2>1. p.n >= hi - Late
    BY <1>1, <1>3
  <2> QED BY <2>1, <1>3 DEF Tracked
<1> QED BY <1>2, <1>3 DEF Tracked

LEMMA OrderedMore ==
  ASSUME NEW e, NEW fl, NEW hi \in Int, NEW he, NEW hi2 \in Int, NEW he2, hi <= hi2,
         \A x \in he : x \in Int /\ (x >= hi2 - Late => x \in he2),
         NEW q \in Seq(PacketType), NEW m \in PacketType, Ordered(e, fl, hi, he, q, m)
  PROVE  Ordered(e, fl, hi2, he2, q, m)
<1>1. ASSUME NEW i \in DOMAIN q PROVE Tracked(e, fl, hi2, he2, q[i])
  <2>1. Tracked(e, fl, hi, he, q[i]) /\ q[i].n \in Int
    BY PacketAt DEF Ordered
  <2> QED BY <2>1, TrackedMore
<1>2. ASSUME m # NoPacket PROVE Tracked(e, fl, hi2, he2, m)
  <2>1. Tracked(e, fl, hi, he, m) /\ m.n \in Int
    BY <1>2, PacketFields DEF Ordered
  <2> QED BY <2>1, TrackedMore
<1> QED BY <1>1, <1>2 DEF Ordered

(* The packet after the one parsed last is parsed. *)
LEMMA OrderedParse ==
  ASSUME NEW e, NEW fl, NEW hi, NEW he, NEW q \in Seq(PacketType), NEW m \in PacketType,
         Ordered(e, fl, hi, he, q, m), NEW p \in PacketType, Tracked(e, fl, hi, he, p),
         p.n = m.n + 1, \A i \in DOMAIN q : q[i].n > m.n + 1
  PROVE  Ordered(e, fl, hi, he, q, p)
<1>1. Reach(q, p.n)
  <2> SUFFICES ASSUME NEW i \in DOMAIN q
               PROVE  p.n < q[i].n /\ q[i].n < p.n + HalfSeq
    BY DEF Reach
  <2>1. q[i].n > m.n + 1 /\ q[i].n < m.n + HalfSeq /\ q[i].n \in Int /\ m.n \in Int
    BY PacketAt, PacketFields DEF Ordered, Reach
  <2> QED BY <2>1, ModFacts
<1> QED BY <1>1 DEF Ordered

---------------------------------------------------------------------------
(***************************************************************************)
(* enqueue_packet().                                                       *)
(***************************************************************************)
LEMMA EnqueuedIs ==
  ASSUME queue \in Seq(PacketType), NEW p \in PacketType
  PROVE  \E k \in 1..(Len(queue) + 1) :
           /\ Inserted(Enqueued(p), queue, k, p)
           /\ \A i \in DOMAIN queue : i < k => i \notin Newer(PacketSeq(p))
           /\ k <= Len(queue) => k \in Newer(PacketSeq(p))
<1> DEFINE S == Newer(PacketSeq(p))
<1>0. S \in SUBSET (1..Len(queue)) /\ Len(queue) \in Nat /\ DOMAIN queue = 1..Len(queue)
  BY DEF Newer
<1>1. ASSUME NEW k \in 1..(Len(queue) + 1), Enqueued(p) = InsertAt(queue, k, p)
      PROVE  Inserted(Enqueued(p), queue, k, p)
  <2>1. /\ InsertAt(queue, k, p) \in Seq(PacketType)
        /\ Len(InsertAt(queue, k, p)) = Len(queue) + 1
        /\ InsertAt(queue, k, p)[k] = p
        /\ \A i \in 1..Len(queue) : i < k => InsertAt(queue, k, p)[i] = queue[i]
        /\ \A i \in 1..Len(queue) : i >= k => InsertAt(queue, k, p)[i + 1] = queue[i]
    BY InsertAtIs
  <2> QED BY <2>1, <1>1 DEF Inserted
<1>2. CASE S = {}
  <2>1. Enqueued(p) = InsertAt(queue, Len(queue) + 1, p)
    BY <1>2 DEF Enqueued
  <2>2. Len(queue) + 1 \in 1..(Len(queue) + 1)
    BY <1>0
  <2>3. Inserted(Enqueued(p), queue, Len(queue) + 1, p)
    BY <2>1, <2>2, <1>1
  <2>4. ~(Len(queue) + 1 <= Len(queue))
    BY <1>0
  <2> QED BY <2>2, <2>3, <2>4, <1>2
<1>3. CASE S # {}
  <2>1. S \in SUBSET Nat /\ S \in SUBSET Int
    BY <1>0
  <2>2. PICK x \in S : \A y \in S : x <= y
    BY <2>1, <1>3, LeastNat
  <2>3. Min(S) = x
    BY <2>1, <2>2, MinIs
  <2>4. Enqueued(p) = InsertAt(queue, x, p) /\ x \in 1..(Len(queue) + 1)
    BY <2>2, <2>3, <1>0, <1>3 DEF Enqueued
  <2>5. Inserted(Enqueued(p), queue, x, p)
    BY <2>4, <1>1
  <2>6. \A i \in DOMAIN queue : i < x => i \notin S
    BY <2>2, <1>0
  <2> QED BY <2>2, <2>4, <2>5, <2>6
<1> QED BY <1>2, <1>3

LEMMA NearIs ==
  ASSUME NEW d \in Int
  PROVE  Near(d, SEQ_MOD) <=> (-HalfSeq <= d /\ d < HalfSeq)
BY DEF Near, HalfSeq

LEMMA ApartIs ==
  ASSUME NEW a \in Int, NEW b \in Int, NEW m \in Int, NEW h \in Int,
         m < a, a < m + h, m < b, b < m + h
  PROVE  a - b \in Int /\ -h <= a - b /\ a - b < h
OBVIOUS

(* A packet within reach that is not in the queue finds its place. *)
LEMMA EnqueuedOrdered ==
  ASSUME NetTypeOK, queue \in Seq(PacketType), NEW m \in PacketType, NEW p \in PacketType,
         Sent(p), \A i \in DOMAIN queue : Sent(queue[i]),
         NEW e, NEW fl, NEW hi, NEW he, Ordered(e, fl, hi, he, queue, m),
         Tracked(e, fl, hi, he, p), m.n < p.n, p.n < m.n + HalfSeq,
         \A i \in DOMAIN queue : queue[i].n # p.n
  PROVE  Ordered(e, fl, hi, he, Enqueued(p), m)
<1>1. PICK k \in 1..(Len(queue) + 1) :
        /\ Inserted(Enqueued(p), queue, k, p)
        /\ \A i \in DOMAIN queue : i < k => i \notin Newer(PacketSeq(p))
        /\ k <= Len(queue) => k \in Newer(PacketSeq(p))
  BY EnqueuedIs
<1>2. p.n \in Int /\ m.n \in Int
  BY PacketFields
<1>3. ASSUME NEW i \in DOMAIN queue
      PROVE  i \in Newer(PacketSeq(p)) <=> p.n < queue[i].n
  <2>1. queue[i] \in PacketType /\ queue[i].n \in Int /\ Sent(queue[i])
    BY PacketAt
  <2>2. m.n < queue[i].n /\ queue[i].n < m.n + HalfSeq /\ queue[i].e = e /\ p.e = e
    BY DEF Ordered, Reach, Tracked
  <2>3. p.n - queue[i].n \in Int /\ -HalfSeq <= p.n - queue[i].n /\ p.n - queue[i].n < HalfSeq
    <3>1. HalfSeq \in Int
      BY ModFacts
    <3> QED BY <3>1, <2>1, <2>2, <1>2, ApartIs
  <2>4. Near(p.n - queue[i].n, SEQ_MOD)
    BY <2>3, NearIs
  <2>5. SeqDiff(PacketSeq(p), PacketSeq(queue[i])) = p.n - queue[i].n
    BY <2>1, <2>2, <2>4, SeqDiffExact
  <2>6. (SeqDiff(PacketSeq(p), PacketSeq(queue[i])) < 0) <=> p.n < queue[i].n
    BY <2>1, <2>5, <1>2
  <2> QED BY <2>6 DEF Newer
<1>4. ASSUME NEW i \in DOMAIN queue, i < k
      PROVE  queue[i].n < p.n
  <2>1. ~(p.n < queue[i].n) /\ queue[i].n # p.n
    BY <1>1, <1>3, <1>4
  <2>2. queue[i].n \in Int
    BY PacketAt
  <2> QED BY <2>1, <2>2, <1>2
<1>5. ASSUME NEW i \in DOMAIN queue, i >= k
      PROVE  p.n < queue[i].n
  <2>1. i \in 1..Len(queue) /\ Len(queue) \in Nat /\ DOMAIN queue = 1..Len(queue)
    BY PacketAt
  <2>2. k \in DOMAIN queue /\ k <= Len(queue)
    BY <2>1, <1>5
  <2>3. p.n < queue[k].n
    BY <2>2, <1>1, <1>3
  <2>4. CASE i = k
    BY <2>3, <2>4
  <2>5. CASE i # k
    <3>1. k < i
      BY <2>1, <2>5, <1>5
    <3>2. queue[k].n < queue[i].n
      BY <3>1, <2>2 DEF Ordered, SortedPackets
    <3>3. queue[k].n \in Int /\ queue[i].n \in Int
      BY <2>2, PacketAt
    <3> QED BY <3>2, <3>3, <2>3, <1>2
  <2> QED BY <2>4, <2>5
<1> QED BY <1>1, <1>4, <1>5, OrderedInsert

LEMMA EnqueuedSent ==
  ASSUME queue \in Seq(PacketType), NEW p \in PacketType, Sent(p),
         \A i \in DOMAIN queue : Sent(queue[i])
  PROVE  /\ Enqueued(p) \in Seq(PacketType) /\ Len(Enqueued(p)) = Len(queue) + 1
         /\ Enqueued(p) # <<>> /\ \A i \in DOMAIN Enqueued(p) : Sent(Enqueued(p)[i])
<1> DEFINE r == Enqueued(p)
<1>1. PICK k \in 1..(Len(queue) + 1) : Inserted(Enqueued(p), queue, k, p)
  BY EnqueuedIs
<1>2. Inserted(r, queue, k, p)
  BY <1>1
<1> HIDE DEF r
<1>3. r \in Seq(PacketType) /\ Len(r) = Len(queue) + 1 /\ Len(queue) \in Nat
  BY <1>2 DEF Inserted
<1>4. \A j \in DOMAIN r : r[j] = p \/ \E i \in DOMAIN queue : r[j] = queue[i]
  BY <1>2, InsertedFrom
<1>5. \A j \in DOMAIN r : Sent(r[j])
  BY <1>4
<1>6. r # <<>>
  BY <1>3
<1> QED BY <1>3, <1>5, <1>6 DEF r

---------------------------------------------------------------------------
(***************************************************************************)
(* The order of the queue over a step.                                     *)
(***************************************************************************)
LEMMA EmittedFacts ==
  ASSUME ParserTypeOK, SeqInv, emitted # NoPacket
  PROVE  emitted \in PacketType /\ Sent(emitted) /\ seq = PacketSeq(emitted) /\ emitted.n \in Int
BY PacketFields DEF ParserTypeOK, SeqInv

(* has_next_packet() is about the packet after the one parsed last. *)
LEMMA NextIs ==
  ASSUME NetTypeOK, ParserTypeOK, LoopTypeOK, SeqInv, OrderInv, Plain, queue # <<>>
  PROVE  /\ emitted # NoPacket /\ queue[1] \in PacketType /\ queue[1].n \in Int
         /\ emitted.n \in Int /\ queue[1].e = emitted.e /\ 1 \in DOMAIN queue
         /\ HasNextPacket <=> queue[1].n = emitted.n + 1
<1>1. emitted # NoPacket
  BY DEF SeqInv
<1>2. emitted \in PacketType /\ Sent(emitted) /\ seq = PacketSeq(emitted) /\ emitted.n \in Int
  BY <1>1, EmittedFacts
<1>3. queue \in Seq(PacketType)
  BY DEF LoopTypeOK
<1>4. Head(queue) = queue[1] /\ 1 \in DOMAIN queue /\ queue[1] \in PacketType /\ queue[1].n \in Int
  BY <1>3, HeadIs, PacketFields
<1>5. Sent(queue[1])
  BY <1>4 DEF SeqInv
<1>6. /\ queue[1].e = Epoch /\ emitted.e = Epoch
      /\ emitted.n < queue[1].n /\ queue[1].n < emitted.n + HalfSeq
  BY <1>1, <1>4 DEF OrderInv, Ordered, Reach, Tracked
<1>7. offset[Epoch] \in Int
  BY <1>2, <1>6, SeqNumber
<1> DEFINE a == offset[Epoch] + queue[1].n
           b == offset[Epoch] + emitted.n + 1
<1>8. PacketSeq(queue[1]) = a % SEQ_MOD
  BY <1>6 DEF PacketSeq
<1>9. (seq + 1) % SEQ_MOD = b % SEQ_MOD
  BY <1>2, <1>6, SeqAfter
<1>10. /\ a \in Int /\ b \in Int /\ a - b < SEQ_MOD /\ b - a < SEQ_MOD
       /\ a = b <=> queue[1].n = emitted.n + 1
  <2>1. a \in Int /\ b \in Int /\ a - b = queue[1].n - (emitted.n + 1)
    BY <1>2, <1>4, <1>7
  <2>2. a - b < SEQ_MOD /\ b - a < SEQ_MOD
    BY <2>1, <1>2, <1>4, <1>6, ModFacts
  <2>3. a - b = 0 <=> queue[1].n = emitted.n + 1
    BY <2>1, <1>2, <1>4
  <2>4. a - b = 0 <=> a = b
    <3> HIDE DEF a, b
    <3> QED BY <2>1
  <2> QED BY <2>1, <2>2, <2>3, <2>4
<1> HIDE DEF a, b
<1>11. a % SEQ_MOD = b % SEQ_MOD <=> a = b
  BY <1>10, ModEqual, ModFacts
<1>12. HasNextPacket <=> a % SEQ_MOD = b % SEQ_MOD
  BY <1>4, <1>8, <1>9 DEF HasNextPacket
<1> QED BY <1>1, <1>2, <1>4, <1>6, <1>10, <1>11, <1>12

LEMMA WaitingGap ==
  ASSUME NetTypeOK, ParserTypeOK, LoopTypeOK, SeqInv, OrderInv, Plain, ~HasNextPacket
  PROVE  \A i \in DOMAIN queue : queue[i].n > emitted.n + 1
<1> SUFFICES ASSUME NEW i \in DOMAIN queue
             PROVE  queue[i].n > emitted.n + 1
  OBVIOUS
<1>1. queue \in Seq(PacketType)
  BY DEF LoopTypeOK
<1>2. queue # <<>>
  BY <1>1
<1>3. /\ queue[1].n \in Int /\ emitted.n \in Int /\ 1 \in DOMAIN queue
      /\ queue[1].n # emitted.n + 1
  BY <1>2, NextIs
<1>4. emitted.n < queue[1].n
  BY <1>3 DEF OrderInv, Ordered, Reach
<1>5. i \in Nat /\ i \in 1..Len(queue) /\ queue[i].n \in Int
  BY <1>1, PacketAt
<1>6. i # 1 => queue[1].n < queue[i].n
  BY <1>3, <1>5 DEF OrderInv, Ordered, SortedPackets
<1> QED BY <1>3, <1>4, <1>5, <1>6

(* The numbering goes on as it was, or a new one begins. *)
LEMMA OffsetGrows ==
  ASSUME NetTypeOK, offset' = offset \/ \E x \in Int : offset' = Append(offset, x)
  PROVE  /\ offset' \in Seq(Int) /\ Len(offset') >= 1
         /\ \A r \in PacketType : Sent(r) => Sent(r)' /\ PacketSeq(r)' = PacketSeq(r)
<1>1. offset \in Seq(Int) /\ Len(offset) >= 1 /\ Len(offset) \in Nat
  BY DEF NetTypeOK
<1>2. CASE offset' = offset
  BY <1>1, <1>2 DEF Sent, Epoch, PacketSeq
<1>3. CASE \E x \in Int : offset' = Append(offset, x)
  <2>1. PICK x \in Int : offset' = Append(offset, x)
    BY <1>3
  <2>2. /\ offset' \in Seq(Int) /\ Len(offset') = Len(offset) + 1
        /\ \A j \in 1..Len(offset) : offset'[j] = offset[j]
    BY <1>1, <2>1
  <2>3. ASSUME NEW r \in PacketType, Sent(r)
        PROVE  Sent(r)' /\ PacketSeq(r)' = PacketSeq(r)
    <3>1. r.e \in 1..Len(offset) /\ r.n \in Nat
      BY <2>3 DEF Sent, Epoch
    <3>2. r.e \in 1..Len(offset') /\ offset'[r.e] = offset[r.e]
      BY <3>1, <2>2, <1>1
    <3> QED BY <3>1, <3>2 DEF Sent, Epoch, PacketSeq
  <2> QED BY <2>2, <2>3, <1>1
<1> QED BY <1>2, <1>3

(* Nothing is parsed. *)
LEMMA ParserIdle ==
  ASSUME NetTypeOK, ParserTypeOK, CountInv, TsInv, ret' \in -2..1,
         UNCHANGED <<setup, seq, stats, ts, stamped, pending, histVars>>,
         offset' = offset \/ \E x \in Int : offset' = Append(offset, x)
  PROVE  ParserTypeOK' /\ CountInv' /\ TsInv'
<1>1. UNCHANGED <<seq, stats, ts, stamped, pending, emitted, counted, timed, disordered>>
  BY DEF histVars
<1>2. ParserTypeOK'
  BY <1>1 DEF ParserTypeOK
<1>3. CountInv'
  <2>1. counted.max \in PacketType
    BY DEF ParserTypeOK, CountedType
  <2>2. Sent(counted.max) => /\ Sent(counted.max)'
                             /\ PacketSeq(counted.max)' = PacketSeq(counted.max)
    <3>1. PICK r \in PacketType : r = counted.max
      BY <2>1
    <3>2. Sent(r) => Sent(r)' /\ PacketSeq(r)' = PacketSeq(r)
      BY OffsetGrows
    <3> QED BY <3>1, <3>2, <1>1 DEF Sent, PacketSeq
  <2> QED BY <2>2, <1>1 DEF CountInv, Expected
<1>4. TsInv'
  BY <1>1 DEF TsInv, Pts
<1> QED BY <1>2, <1>3, <1>4

---------------------------------------------------------------------------
(***************************************************************************)
(* The steps.                                                              *)
(***************************************************************************)
LEMMA SeqParsed ==
  ASSUME NetTypeOK, ParserTypeOK, SeqInv, offset' = offset,
         NEW p \in PacketType, Sent(p),
         \/ emitted' = p /\ seq' = PacketSeq(p)
         \/ emitted' = emitted /\ seq' = seq,
         \A i \in DOMAIN queue' : Sent(queue'[i]),
         emitted # NoPacket \/ queue' = <<>>
  PROVE  SeqInv'
<1>1. Epoch' = Epoch /\ \A r : PacketSeq(r)' = PacketSeq(r)
  BY DEF Epoch, PacketSeq
<1>2. p # NoPacket
  BY SeqNumber
<1>3. (\A i \in DOMAIN queue : Sent(queue[i]))'
  BY <1>1 DEF Sent
<1>4. CASE emitted' = p /\ seq' = PacketSeq(p)
  <2>1. Sent(emitted)' /\ seq' = PacketSeq(emitted)'
    BY <1>1, <1>4 DEF Sent, PacketSeq
  <2> QED BY <2>1, <1>2, <1>3, <1>4 DEF SeqInv
<1>5. CASE emitted' = emitted /\ seq' = seq
  <2>1. emitted # NoPacket => Sent(emitted)' /\ seq' = PacketSeq(emitted)'
    BY <1>1, <1>5 DEF SeqInv, Sent, PacketSeq
  <2>2. emitted = NoPacket => seq' = 0 /\ queue' = <<>>
    BY <1>5 DEF SeqInv
  <2> QED BY <2>1, <2>2, <1>3, <1>5 DEF SeqInv
<1> QED BY <1>4, <1>5

(* Between a call of the parser and what the caller makes of it. *)
LEMMA CallLoop ==
  ASSUME pc' = "loop", ret' \in -2..1, prev_ret' = ret' \/ ~(prev_ret' > 0),
         ret' >= 0 => Stamp'
  PROVE  CallInv'
<1>1. ~Lacking'
  BY DEF Lacking
<1>2. prev_ret' > 0 => ret' = 1 /\ ret' >= 0
  OBVIOUS
<1> QED BY <1>1, <1>2 DEF CallInv

(* rtp_parse_queued_packet() *)
LEMMA ParseQueuedStep ==
  ASSUME RtpInv, ParseQueued, UNCHANGED <<setup, netVars>>
  PROVE  /\ ParserTypeOK' /\ CountInv' /\ TsInv' /\ SeqInv' /\ LenInv' /\ OrderInv'
         /\ queue' \in Seq(PacketType) /\ ret' \in {-1, 0, 1}
         /\ ret' >= 0 => Stamp'
         /\ Plain /\ emitted' # emitted => emitted'.n > emitted.n
<1>0. /\ NetTypeOK /\ ParserTypeOK /\ LoopTypeOK /\ SeqInv /\ LenInv /\ OrderInv
      /\ CountInv /\ TsInv
  BY DEF RtpInv
<1>1. /\ offset' = offset /\ floor' = floor /\ high' = high /\ here' = here
      /\ dups' = dups /\ astray' = astray /\ setup' = setup /\ Epoch' = Epoch
      /\ Plain' <=> Plain
  BY DEF netVars, Epoch, Plain
<1>2. CASE queue = <<>>
  <2>1. ret' = -1 /\ UNCHANGED <<queue, seq, stats, ts, stamped, pending, histVars>>
    BY <1>2 DEF ParseQueued
  <2>2. ParserTypeOK' /\ CountInv' /\ TsInv'
    BY <2>1, <1>0, <1>1, ParserIdle
  <2>3. emitted' = emitted
    BY <2>1 DEF histVars
  <2>4. SeqInv' /\ LenInv' /\ OrderInv'
    BY <2>1, <2>3, <1>0, <1>1 DEF SeqInv, LenInv, OrderInv, Sent, PacketSeq
  <2>5. queue' \in Seq(PacketType) /\ ret' \in {-1, 0, 1} /\ ~(ret' >= 0)
    BY <2>1, <1>0 DEF LoopTypeOK
  <2> QED BY <2>2, <2>3, <2>4, <2>5
<1>3. CASE queue # <<>>
  <2> DEFINE p == queue[1]
  <2>1. queue \in Seq(PacketType)
    BY <1>0 DEF LoopTypeOK
  <2>2. Head(queue) = p /\ 1 \in DOMAIN queue /\ p \in PacketType
    BY <2>1, <1>3, HeadIs
  <2>3. Sent(p) /\ emitted # NoPacket
    BY <2>2, <1>0, <1>3 DEF SeqInv
  <2>4. ParseInternal(p) /\ queue' = Tail(queue)
    BY <2>2, <1>3 DEF ParseQueued
  <2>5. /\ ParserTypeOK' /\ CountInv' /\ TsInv'
        /\ ret' \in {-1, 0, 1}
        /\ ret' >= 0 => Stamp'
        /\ \/ emitted' = p /\ seq' = PacketSeq(p)
           \/ emitted' = emitted /\ seq' = seq
    <3> HIDE DEF p
    <3> QED BY <2>2, <2>3, <2>4, <1>0, <1>1, ParseStep
  <2>6. /\ queue' \in Seq(PacketType) /\ Len(queue') = Len(queue) - 1 /\ Len(queue) \in Nat \ {0}
        /\ \A j \in DOMAIN queue' : j + 1 \in DOMAIN queue /\ queue'[j] = queue[j + 1]
    BY <2>1, <2>4, <1>3, TailAt
  <2>7. \A i \in DOMAIN queue' : Sent(queue'[i])
    BY <2>6, <1>0 DEF SeqInv
  <2>8. SeqInv'
    <3> HIDE DEF p
    <3> QED BY <2>2, <2>3, <2>5, <2>7, <1>0, <1>1, SeqParsed
  <2>9. LenInv'
    <3>1. setup.queue_size \in Nat
      BY <1>0, SetupFacts DEF NetTypeOK
    <3> QED BY <3>1, <2>6, <1>0, <1>1 DEF LenInv
  <2>10. ASSUME Plain
         PROVE  /\ Ordered(Epoch', floor', high', here', queue', emitted')
                /\ emitted' # emitted => emitted'.n > emitted.n
    <3>1. Ordered(Epoch, floor, high, here, queue, emitted) /\ emitted \in PacketType
      BY <2>10, <1>0 DEF OrderInv, ParserTypeOK
    <3>2. /\ Ordered(Epoch, floor, high, here, Tail(queue), queue[1])
          /\ Ordered(Epoch, floor, high, here, Tail(queue), emitted)
          /\ emitted.n < queue[1].n
      BY <3>1, <2>1, <1>3, OrderedTail
    <3>3. emitted' = queue[1] \/ emitted' = emitted
      BY <2>5
    <3>4. emitted.n \in Int /\ queue[1].n \in Int
      BY <3>1, <2>2, PacketFields
    <3> QED BY <3>2, <3>3, <3>4, <2>4, <1>1
  <2>11. OrderInv'
    BY <2>10, <1>0, <1>1 DEF OrderInv
  <2> QED BY <2>5, <2>6, <2>8, <2>9, <2>10, <2>11
<1> QED BY <1>2, <1>3

(* rtp_parse_one_packet() without a packet *)
LEMMA ParseNextStep ==
  ASSUME RtpInv, ParseNext, UNCHANGED <<setup, netVars>>
  PROVE  /\ ParserTypeOK' /\ CountInv' /\ TsInv' /\ SeqInv' /\ LenInv' /\ OrderInv'
         /\ queue' \in Seq(PacketType) /\ ret' \in {-1, 0, 1}
         /\ ret' >= 0 => Stamp'
         /\ Plain /\ emitted' # emitted => emitted'.n > emitted.n
<1>1. CASE ~Resumes
  BY <1>1, ParseQueuedStep DEF ParseNext
<1>2. CASE Resumes
  <2>0. /\ NetTypeOK /\ ParserTypeOK /\ LoopTypeOK /\ SeqInv /\ LenInv /\ OrderInv
        /\ CountInv /\ TsInv /\ CallInv
    BY DEF RtpInv
  <2>1. /\ offset' = offset /\ floor' = floor /\ high' = high /\ here' = here
        /\ dups' = dups /\ astray' = astray /\ setup' = setup /\ Epoch' = Epoch
    BY DEF netVars, Epoch
  <2>2. /\ ret' \in {-1, 0} /\ pending' = NoPacket
        /\ stamped' = (ret' < 0 /\ stamped)
        /\ UNCHANGED <<queue, seq, stats, ts, emitted, counted, timed, disordered>>
    BY <1>2 DEF ParseNext, histVars
  <2>3. ParserTypeOK'
    BY <2>0, <2>2, NoPacketFields DEF ParserTypeOK
  <2>4. CountInv' /\ TsInv'
    BY <2>0, <2>1, <2>2 DEF CountInv, TsInv, Expected, Sent, PacketSeq, Pts
  <2>5. SeqInv' /\ LenInv' /\ OrderInv'
    BY <2>0, <2>1, <2>2 DEF SeqInv, LenInv, OrderInv, Sent, PacketSeq, Plain
  <2>6. ret' >= 0 => Stamp'
    <3> SUFFICES ASSUME ret' >= 0 PROVE Stamp'
      OBVIOUS
    <3>1. ~(ret' < 0) /\ ret' # 1
      BY <2>2
    <3>2. stamped' = FALSE
      BY <3>1, <2>2
    <3> QED BY <3>1, <3>2 DEF Stamp
  <2>7. queue' \in Seq(PacketType) /\ ret' \in {-1, 0, 1}
    BY <2>0, <2>2 DEF LoopTypeOK
  <2> QED BY <2>2, <2>3, <2>4, <2>5, <2>6, <2>7
<1> QED BY <1>1, <1>2

LEMMA NetQuiet ==
  ASSUME NetTypeOK, UNCHANGED <<setup, netVars>>
  PROVE  NetTypeOK'
BY DEF NetTypeOK, netVars

LEMMA FetchStep ==
  ASSUME RtpInv, Fetch
  PROVE  RtpInv'
<1>0. /\ NetTypeOK /\ ParserTypeOK /\ LoopTypeOK /\ SeqInv /\ LenInv /\ OrderInv
      /\ CountInv /\ TsInv /\ CallInv
  BY DEF RtpInv
<1>1. UNCHANGED <<setup, netVars, cur, bye>> /\ pc = "idle"
  BY DEF Fetch
<1>2. NetTypeOK'
  BY <1>0, <1>1, NetQuiet
<1>3. CASE cur /\ ParseNext /\ PrevRet /\ pc' = "loop"
  <2>1. /\ ParserTypeOK' /\ CountInv' /\ TsInv' /\ SeqInv' /\ LenInv' /\ OrderInv'
        /\ queue' \in Seq(PacketType) /\ ret' \in {-1, 0, 1}
        /\ ret' >= 0 => Stamp'
    BY <1>1, <1>3, ParseNextStep
  <2>2. prev_ret' = ret' /\ ret' \in -2..1
    BY <2>1, <1>3 DEF PrevRet
  <2>3. CallInv'
    BY <2>1, <2>2, <1>3, CallLoop
  <2>4. LoopTypeOK'
    BY <2>1, <2>2, <1>0, <1>1, <1>3 DEF LoopTypeOK
  <2> QED BY <2>1, <2>3, <2>4, <1>2 DEF RtpInv
<1>4. CASE /\ ~cur /\ pc' = "wait"
           /\ UNCHANGED <<queue, seq, prev_ret, stats, ts, ret, stamped, pending, histVars>>
  <2>1. ret' \in -2..1 /\ offset' = offset
    BY <1>0, <1>1, <1>4 DEF ParserTypeOK, netVars
  <2>2. ParserTypeOK' /\ CountInv' /\ TsInv'
    BY <2>1, <1>0, <1>1, <1>4, ParserIdle
  <2>3. emitted' = emitted /\ timed' = timed /\ queue' = queue /\ seq' = seq
    BY <1>4 DEF histVars
  <2>4. SeqInv' /\ LenInv' /\ OrderInv'
    BY <2>3, <1>0, <1>1 DEF SeqInv, LenInv, OrderInv, Sent, PacketSeq, Plain, netVars, Epoch
  <2>5. LoopTypeOK'
    BY <1>0, <1>1, <1>4 DEF LoopTypeOK
  <2>6. ~HasNextPacket'
    BY <2>1, <2>3, <1>0, <1>1, <1>4 DEF CallInv, Lacking, HasNextPacket, PacketSeq
  <2>7. ~(prev_ret' > 0)
    BY <1>0, <1>1, <1>4 DEF CallInv
  <2>8. CallInv'
    BY <2>6, <2>7, <1>4 DEF CallInv
  <2> QED BY <2>2, <2>4, <2>5, <2>8, <1>2 DEF RtpInv
<1> QED BY <1>3, <1>4 DEF Fetch

LEMMA TimeoutStep ==
  ASSUME RtpInv, Timeout
  PROVE  RtpInv'
<1>0. NetTypeOK /\ LoopTypeOK
  BY DEF RtpInv
<1>1. UNCHANGED <<setup, netVars, cur, bye>> /\ ParseNext /\ prev_ret' = ret' /\ pc' = "loop"
  BY DEF Timeout, PrevRet
<1>2. NetTypeOK'
  BY <1>0, <1>1, NetQuiet
<1>3. /\ ParserTypeOK' /\ CountInv' /\ TsInv' /\ SeqInv' /\ LenInv' /\ OrderInv'
      /\ queue' \in Seq(PacketType) /\ ret' \in {-1, 0, 1}
      /\ ret' >= 0 => Stamp'
  BY <1>1, ParseNextStep
<1>4. ret' \in -2..1
  BY <1>3
<1>5. CallInv'
  BY <1>1, <1>3, <1>4, CallLoop
<1>6. LoopTypeOK'
  BY <1>0, <1>1, <1>3, <1>4 DEF LoopTypeOK
<1> QED BY <1>2, <1>3, <1>5, <1>6 DEF RtpInv

LEMMA LoopStep ==
  ASSUME RtpInv, Loop
  PROVE  RtpInv'
<1>0. NetTypeOK /\ LoopTypeOK /\ CallInv
  BY DEF RtpInv
<1>1. /\ UNCHANGED <<setup, netVars, prev_ret, cur, bye, pc>> /\ ParseQueued
      /\ pc = "loop" /\ ret < 0
  BY DEF Loop
<1>2. NetTypeOK'
  BY <1>0, <1>1, NetQuiet
<1>3. /\ ParserTypeOK' /\ CountInv' /\ TsInv' /\ SeqInv' /\ LenInv' /\ OrderInv'
      /\ queue' \in Seq(PacketType) /\ ret' \in {-1, 0, 1}
      /\ ret' >= 0 => Stamp'
  BY <1>1, ParseQueuedStep
<1>4. ret' \in -2..1 /\ pc' = "loop" /\ ~(prev_ret' > 0)
  <2>1. ret # 1
    BY <1>1
  <2> QED BY <2>1, <1>0, <1>1, <1>3 DEF CallInv
<1>5. CallInv'
  BY <1>3, <1>4, CallLoop
<1>6. LoopTypeOK'
  BY <1>0, <1>1, <1>3 DEF LoopTypeOK
<1> QED BY <1>2, <1>3, <1>5, <1>6 DEF RtpInv

LEMMA FinishStep ==
  ASSUME RtpInv, Finish
  PROVE  RtpInv'
<1>0. /\ NetTypeOK /\ ParserTypeOK /\ LoopTypeOK /\ SeqInv /\ LenInv /\ OrderInv
      /\ CountInv /\ TsInv /\ CallInv
  BY DEF RtpInv
<1>1. /\ UNCHANGED <<setup, netVars, seq, prev_ret, queue, stats, ts, pending>>
      /\ UNCHANGED <<emitted, counted, timed, disordered>>
      /\ pc = "loop" /\ ~(ret < 0 /\ HasNextPacket) /\ ret' = 0
      /\ cur' = MoreFollows /\ bye' = (bye \/ ret = RTCP_BYE)
      /\ stamped' = (stamped /\ pc' = "wait")
  BY DEF Finish, histVars
<1>2. pc' = IF ret < 0 /\ ret # RTCP_BYE THEN "wait" ELSE "idle"
  BY DEF Finish
<1>3. NetTypeOK'
  BY <1>0, <1>1, NetQuiet
<1>4. offset' = offset /\ Epoch' = Epoch
  BY <1>1 DEF netVars, Epoch
<1>5. ret \in -2..1
  BY <1>0 DEF ParserTypeOK
<1>6. ParserTypeOK'
  <2>1. stamped' \in BOOLEAN /\ ret' \in -2..1
    BY <1>1
  <2> QED BY <2>1, <1>0, <1>1 DEF ParserTypeOK
<1>7. CountInv' /\ TsInv'
  BY <1>0, <1>1, <1>4 DEF CountInv, TsInv, Expected, Sent, PacketSeq, Pts
<1>8. SeqInv' /\ LenInv' /\ OrderInv'
  BY <1>0, <1>1, <1>4 DEF SeqInv, LenInv, OrderInv, Sent, PacketSeq, Plain, netVars
<1>9. LoopTypeOK'
  <2>1. cur' \in BOOLEAN /\ bye' \in BOOLEAN
    BY <1>1 DEF MoreFollows
  <2> QED BY <2>1, <1>0, <1>1, <1>2 DEF LoopTypeOK
<1>10. /\ HasNextPacket' <=> HasNextPacket
       /\ cur' <=> MoreFollows
  <2>1. MoreFollows \in BOOLEAN
    BY DEF MoreFollows
  <2> QED BY <2>1, <1>1, <1>4 DEF HasNextPacket, PacketSeq
<1>11. Lacking' => ~HasNextPacket'
  <2>1. CASE ret < 0
    BY <2>1, <1>1, <1>10
  <2>2. CASE ret = 0
    <3>1. pc' = "idle"
      BY <2>2, <1>2
    <3>2. HasNextPacket => cur'
      BY <2>2, <1>10 DEF MoreFollows
    <3> QED BY <3>1, <3>2, <1>10 DEF Lacking
  <2>3. CASE ret = 1
    <3>1. pc' = "idle"
      BY <2>3, <1>2
    <3>2. cur'
      BY <2>3, <1>10 DEF MoreFollows
    <3> QED BY <3>1, <3>2 DEF Lacking
  <2> QED BY <2>1, <2>2, <2>3, <1>5
<1>12. CallInv'
  <2>1. pc' # "loop"
    BY <1>2
  <2>2. ASSUME prev_ret' > 0
        PROVE  pc' = "idle" /\ cur'
    <3>1. prev_ret > 0
      BY <2>2, <1>1
    <3>2. ret = 1
      BY <3>1, <1>0, <1>1 DEF CallInv
    <3>3. pc' = "idle"
      BY <3>2, <1>2
    <3>4. cur'
      BY <3>2, <1>10 DEF MoreFollows
    <3> QED BY <3>3, <3>4
  <2> QED BY <2>1, <2>2, <1>11 DEF CallInv
<1> QED BY <1>3, <1>6, <1>7, <1>8, <1>9, <1>12 DEF RtpInv

(* A packet arrives: without duplicates it is none of those that have. *)
LEMMA DeliverStep ==
  ASSUME NetTypeOK, floor <= high + 1, NEW n \in 0..LastPacket, Delivers(n), setup' = setup,
         NEW p, p = [e |-> Epoch, n |-> n]
  PROVE  /\ NetTypeOK' /\ floor' <= high' + 1
         /\ offset' = offset /\ floor' = floor /\ Epoch' = Epoch /\ high <= high'
         /\ \A x \in here : x \in Int /\ (x >= high' - Late => x \in here')
         /\ p \in PacketType /\ p.n = n /\ p.e = Epoch /\ n \in Nat /\ Sent(p)
         /\ Tracked(Epoch', floor', high', here', p)
         /\ Plain' => Plain
         /\ Plain' => /\ emitted # NoPacket => Near(n - emitted.n, SEQ_MOD)
                      /\ \A r : Tracked(Epoch, floor, high, here, r) => r.n # n
<1>1. LastPacket \in Nat /\ Late \in Nat /\ n \in Nat
  BY BoundAssumption
<1>2. /\ setup \in Setups /\ offset \in Seq(Int) /\ Len(offset) >= 1 /\ Len(offset) \in Nat
      /\ floor \in Nat /\ high \in Int /\ here \in SUBSET Int /\ dups \in Nat /\ astray \in BOOLEAN
  BY DEF NetTypeOK
<1>3. /\ floor <= n /\ n >= high - Late
      /\ offset' = offset /\ floor' = floor /\ Epoch' = Epoch
      /\ here' = {x \in here \cup {n} : x >= high' - Late}
      /\ high' = IF n > high THEN n ELSE high
      /\ dups' = IF n \in here THEN dups + 1 ELSE dups
  BY <1>1 DEF Delivers, Epoch
<1>4. astray' = (astray \/ (emitted # NoPacket /\ ~Near(n - emitted.n, SEQ_MOD)))
  BY DEF Delivers
<1>5. high' \in Int /\ high <= high' /\ n <= high' /\ dups' \in Nat /\ astray' \in BOOLEAN
  BY <1>1, <1>2, <1>3, <1>4
<1>6. NetTypeOK'
  <2>1. here' \in SUBSET Int
    <3>1. here' \subseteq here \cup {n} /\ n \in Int
      BY <1>1, <1>3
    <3> QED BY <3>1, <1>2
  <2> QED BY <2>1, <1>2, <1>3, <1>5 DEF NetTypeOK
<1>7. floor' <= high' + 1
  BY <1>2, <1>3, <1>5
<1>8. \A x \in here : x \in Int /\ (x >= high' - Late => x \in here')
  BY <1>2, <1>3
<1>9. p \in PacketType /\ p.n = n /\ p.e = Epoch /\ Epoch \in Nat \ {0}
  BY <1>1, <1>2 DEF PacketType, Epoch
<1>10. Sent(p)
  BY <1>1, <1>9 DEF Sent
<1>11. Tracked(Epoch', floor', high', here', p)
  BY <1>3, <1>5, <1>9 DEF Tracked
<1>12. ASSUME Plain'
       PROVE  /\ Plain
              /\ emitted # NoPacket => Near(n - emitted.n, SEQ_MOD)
              /\ n \notin here
  <2>1. dups' = 0 /\ ~astray'
    BY <1>12 DEF Plain
  <2>2. n \notin here /\ dups = 0
    BY <2>1, <1>2, <1>3
  <2>3. ~astray /\ (emitted # NoPacket => Near(n - emitted.n, SEQ_MOD))
    BY <2>1, <1>4
  <2> QED BY <2>2, <2>3 DEF Plain
<1>13. ASSUME Plain', NEW r, Tracked(Epoch, floor, high, here, r)
       PROVE  r.n # n
  BY <1>3, <1>12, <1>13 DEF Tracked
<1> QED BY <1>1, <1>3, <1>5, <1>6, <1>7, <1>8, <1>9, <1>10, <1>11, <1>12, <1>13

LEMMA SeqDiffInt ==
  ASSUME NEW a \in Int, NEW b \in Int
  PROVE  SeqDiff(a, b) \in Int
BY SignedInt, ModFacts DEF SeqDiff

(* rtp_parse_one_packet() with the packet that has arrived. *)
LEMMA ArriveStep ==
  ASSUME RtpInv, NEW n \in 0..LastPacket, Arrive(n)
  PROVE  /\ RtpInv'
         /\ Plain' /\ emitted' # emitted /\ setup.queue_size > 1 /\ (seq # 0 \/ queue # <<>>)
              => emitted'.n > emitted.n
<1> DEFINE p == [e |-> Epoch, n |-> n]
           d == SeqDiff(PacketSeq(p), seq)
           ok == /\ ParserTypeOK' /\ CountInv' /\ TsInv' /\ SeqInv' /\ LenInv'
                 /\ Plain' => Ordered(Epoch', floor', high', here', queue', emitted')
                 /\ queue' \in Seq(PacketType) /\ ret' \in {-1, 0, 1}
                 /\ ret' >= 0 => Stamp'
                 /\ Plain' /\ emitted' # emitted /\ setup.queue_size > 1
                    /\ (seq # 0 \/ queue # <<>>) => emitted'.n > emitted.n
<1>0. /\ NetTypeOK /\ ParserTypeOK /\ LoopTypeOK /\ SeqInv /\ LenInv /\ OrderInv
      /\ CountInv /\ TsInv /\ CallInv
  BY DEF RtpInv
<1>1. /\ pc = "wait" /\ Delivers(n) /\ ParseArrived(p) /\ prev_ret' = ret' /\ pc' = "loop"
      /\ UNCHANGED <<setup, cur, bye>>
  BY DEF Arrive, PrevRet
<1>3. /\ NetTypeOK' /\ floor' <= high' + 1
      /\ offset' = offset /\ floor' = floor /\ Epoch' = Epoch /\ high <= high'
      /\ \A x \in here : x \in Int /\ (x >= high' - Late => x \in here')
      /\ p \in PacketType /\ p.n = n /\ p.e = Epoch /\ n \in Nat /\ Sent(p)
      /\ Tracked(Epoch', floor', high', here', p)
      /\ Plain' => Plain
      /\ Plain' => /\ emitted # NoPacket => Near(n - emitted.n, SEQ_MOD)
                   /\ \A r : Tracked(Epoch, floor, high, here, r) => r.n # n
  BY <1>0, <1>1, DeliverStep DEF OrderInv
<1> HIDE DEF p
<1>4. high \in Int /\ high' \in Int /\ queue \in Seq(PacketType) /\ emitted \in PacketType
      /\ emitted.n \in Int /\ setup.queue_size \in Nat /\ seq \in Int /\ setup' = setup
      /\ Len(queue) \in Nat
  BY <1>0, <1>1, <1>3, PacketFields, SetupFacts DEF NetTypeOK, LoopTypeOK, ParserTypeOK
<1>5. ASSUME Plain'
      PROVE  /\ Ordered(Epoch', floor', high', here', queue, emitted)
             /\ \A i \in DOMAIN queue : queue[i].n > emitted.n + 1 /\ queue[i].n # n
             /\ emitted # NoPacket => emitted.n # n /\ emitted.e = Epoch
  <2>1. Ordered(Epoch, floor, high, here, queue, emitted) /\ Plain
    BY <1>0, <1>3, <1>5 DEF OrderInv
  <2>2. Ordered(Epoch, floor, high', here', queue, emitted)
    BY <2>1, <1>3, <1>4, OrderedMore
  <2>3. \A i \in DOMAIN queue : queue[i].n > emitted.n + 1
    BY <2>1, <1>0, <1>1, WaitingGap DEF CallInv, Lacking
  <2>4. \A i \in DOMAIN queue : queue[i].n # n
    BY <2>1, <1>3, <1>5 DEF Ordered
  <2>5. emitted # NoPacket => emitted.n # n /\ emitted.e = Epoch
    BY <2>1, <1>3, <1>5 DEF Ordered, Tracked
  <2> QED BY <2>2, <2>3, <2>4, <2>5, <1>3
<1>6. ASSUME ok PROVE RtpInv' /\ (Plain' /\ emitted' # emitted /\ setup.queue_size > 1
                                  /\ (seq # 0 \/ queue # <<>>) => emitted'.n > emitted.n)
  <2>1. ret' \in -2..1
    BY <1>6
  <2>2. CallInv'
    BY <2>1, <1>1, <1>6, CallLoop
  <2>3. LoopTypeOK'
    BY <2>1, <1>0, <1>1, <1>6 DEF LoopTypeOK
  <2>4. OrderInv'
    BY <1>3, <1>6 DEF OrderInv
  <2> QED BY <2>2, <2>3, <2>4, <1>3, <1>6 DEF RtpInv
<1>7. CASE /\ (seq = 0 /\ queue = <<>>) \/ setup.queue_size <= 1
           /\ ParseInternal(p) /\ UNCHANGED queue
  <2>1. queue = <<>> /\ queue' = <<>>
    <3>1. setup.queue_size <= 1 => Len(queue) = 0
      BY <1>0, <1>4 DEF LenInv
    <3> QED BY <3>1, <1>4, <1>7, EmptyIffLen
  <2>2. /\ ParserTypeOK' /\ CountInv' /\ TsInv'
        /\ ret' \in {-1, 0, 1}
        /\ ret' >= 0 => Stamp'
        /\ \/ emitted' = p /\ seq' = PacketSeq(p)
           \/ emitted' = emitted /\ seq' = seq
    BY <1>0, <1>3, <1>4, <1>7, ParseStep
  <2>3. SeqInv'
    <3>1. \A i \in DOMAIN queue' : Sent(queue'[i])
      BY <2>1
    <3> QED BY <3>1, <2>1, <2>2, <1>0, <1>3, SeqParsed
  <2>4. LenInv' /\ queue' \in Seq(PacketType)
    BY <2>1, <1>0, <1>4, <1>7 DEF LenInv
  <2>5. ASSUME Plain' PROVE Ordered(Epoch', floor', high', here', queue', emitted')
    <3>1. emitted' # NoPacket => Tracked(Epoch', floor', high', here', emitted')
      BY <2>2, <2>5, <1>3, <1>5 DEF Ordered
    <3> QED BY <3>1, <2>1, OrderedEmpty
  <2>6. ~(setup.queue_size > 1 /\ (seq # 0 \/ queue # <<>>))
    BY <2>1, <1>4, <1>7
  <2>7. ok
    BY <2>2, <2>3, <2>4, <2>5, <2>6
  <2> QED BY <2>7, <1>6
<1>8. ASSUME ~(seq = 0 /\ queue = <<>>), setup.queue_size > 1
      PROVE  /\ emitted # NoPacket
             /\ Plain' => d = n - emitted.n /\ d # 0
             /\ d \in Int
  <2>1. emitted # NoPacket
    BY <1>0, <1>8 DEF SeqInv
  <2>2. emitted \in PacketType /\ Sent(emitted) /\ seq = PacketSeq(emitted)
    BY <2>1, <1>0, EmittedFacts
  <2>3. ASSUME Plain' PROVE d = n - emitted.n /\ d # 0
    <3>1. Near(p.n - emitted.n, SEQ_MOD) /\ p.e = emitted.e /\ emitted.n # n
      BY <2>1, <2>3, <1>3, <1>5
    <3>2. SeqDiff(PacketSeq(p), PacketSeq(emitted)) = p.n - emitted.n
      BY <3>1, <2>2, <1>0, <1>3, SeqDiffExact
    <3> QED BY <3>1, <3>2, <2>2, <1>3, <1>4
  <2>4. d \in Int
    <3>1. PacketSeq(p) \in Int
      BY <1>0, <1>3, SeqNumber
    <3> QED BY <3>1, <1>4, SeqDiffInt
  <2> QED BY <2>1, <2>3, <2>4
<1> HIDE DEF d
<1>9. CASE /\ ~(seq = 0 /\ queue = <<>>) /\ setup.queue_size > 1
           /\ TooOld(d) /\ ret' = -1
           /\ UNCHANGED <<queue, seq, stats, ts, stamped, pending, histVars>>
  <2>1. ret' \in {-1, 0, 1} /\ ret' \in -2..1 /\ ~(ret' >= 0)
    BY <1>9
  <2>2. ParserTypeOK' /\ CountInv' /\ TsInv'
    BY <2>1, <1>0, <1>3, <1>4, <1>9, ParserIdle
  <2>3. emitted' = emitted /\ queue' = queue /\ seq' = seq
    BY <1>9 DEF histVars
  <2>4. SeqInv' /\ LenInv'
    BY <2>3, <1>0, <1>3, <1>4 DEF SeqInv, LenInv, Sent, PacketSeq
  <2>5. ok
    BY <2>1, <2>2, <2>3, <2>4, <1>4, <1>5
  <2> QED BY <2>5, <1>6
<1>10. CASE /\ ~(seq = 0 /\ queue = <<>>) /\ setup.queue_size > 1
            /\ ~TooOld(d) /\ d <= 1
            /\ ParseInternal(p) /\ UNCHANGED queue
  <2>0. emitted # NoPacket /\ (Plain' => d = n - emitted.n /\ d # 0) /\ d \in Int
    BY <1>8, <1>10
  <2>1. ~(d < 0) /\ d <= 1 /\ queue' = queue
    BY <1>10 DEF TooOld
  <2>2. /\ ParserTypeOK' /\ CountInv' /\ TsInv'
        /\ ret' \in {-1, 0, 1}
        /\ ret' >= 0 => Stamp'
        /\ \/ emitted' = p /\ seq' = PacketSeq(p)
           \/ emitted' = emitted /\ seq' = seq
    BY <1>0, <1>3, <1>4, <1>10, ParseStep
  <2>3. SeqInv'
    <3>1. \A i \in DOMAIN queue' : Sent(queue'[i])
      BY <2>1, <1>0 DEF SeqInv
    <3> QED BY <3>1, <2>0, <2>2, <1>0, <1>3, SeqParsed
  <2>4. LenInv' /\ queue' \in Seq(PacketType)
    BY <2>1, <1>0, <1>4 DEF LenInv
  <2>5. ASSUME Plain' PROVE p.n = emitted.n + 1
    BY <2>0, <2>1, <2>5, <1>3, <1>4
  <2>6. ASSUME Plain' PROVE Ordered(Epoch', floor', high', here', queue', emitted')
    <3>1. Ordered(Epoch', floor', high', here', queue, p)
      BY <2>5, <2>6, <1>3, <1>4, <1>5, OrderedParse
    <3> QED BY <3>1, <2>1, <2>2, <2>6, <1>5
  <2>7. Plain' /\ emitted' # emitted => emitted'.n > emitted.n
    BY <2>2, <2>5, <1>4
  <2>8. ok
    BY <2>2, <2>3, <2>4, <2>6, <2>7
  <2> QED BY <2>8, <1>6
<1>11. ASSUME ~(seq = 0 /\ queue = <<>>), setup.queue_size > 1, d > 1
       PROVE  /\ Enqueued(p) \in Seq(PacketType) /\ Len(Enqueued(p)) = Len(queue) + 1
              /\ Enqueued(p) # <<>> /\ \A i \in DOMAIN Enqueued(p) : Sent(Enqueued(p)[i])
              /\ Plain' => Ordered(Epoch', floor', high', here', Enqueued(p), emitted)
  <2>1. emitted # NoPacket /\ (Plain' => d = n - emitted.n /\ d # 0) /\ d \in Int
    BY <1>8, <1>11
  <2>2. \A i \in DOMAIN queue : Sent(queue[i])
    BY <1>0 DEF SeqInv
  <2>3. /\ Enqueued(p) \in Seq(PacketType) /\ Len(Enqueued(p)) = Len(queue) + 1
        /\ Enqueued(p) # <<>> /\ \A i \in DOMAIN Enqueued(p) : Sent(Enqueued(p)[i])
    BY <2>2, <1>3, <1>4, EnqueuedSent
  <2>4. ASSUME Plain' PROVE Ordered(Epoch', floor', high', here', Enqueued(p), emitted)
    <3>1. n - emitted.n \in Int /\ Near(n - emitted.n, SEQ_MOD)
      BY <2>1, <2>4, <1>3, <1>4
    <3>2. n - emitted.n < HalfSeq
      BY <3>1, NearIs
    <3>3. emitted.n < p.n /\ p.n < emitted.n + HalfSeq
      BY <3>2, <2>1, <2>4, <1>3, <1>4, <1>11, ModFacts
    <3>4. PICK e, fl, hi, he : e = Epoch' /\ fl = floor' /\ hi = high' /\ he = here'
      OBVIOUS
    <3>5. Ordered(e, fl, hi, he, queue, emitted) /\ Tracked(e, fl, hi, he, p)
      BY <3>4, <2>4, <1>3, <1>5
    <3>6. \A i \in DOMAIN queue : queue[i].n # p.n
      BY <2>4, <1>3, <1>5
    <3>7. Ordered(e, fl, hi, he, Enqueued(p), emitted)
      BY <3>3, <3>5, <3>6, <2>2, <1>0, <1>3, <1>4, EnqueuedOrdered
    <3> QED BY <3>4, <3>7
  <2> QED BY <2>3, <2>4
<1>12. CASE /\ ~(seq = 0 /\ queue = <<>>) /\ setup.queue_size > 1
            /\ d > 1 /\ ~QueueFull(Len(queue) + 1)
            /\ ret' = -1 /\ queue' = Enqueued(p)
            /\ UNCHANGED <<seq, stats, ts, stamped, pending, histVars>>
  <2>0. emitted # NoPacket
    BY <1>8, <1>12
  <2>1. ret' \in {-1, 0, 1} /\ ret' \in -2..1 /\ ~(ret' >= 0)
    BY <1>12
  <2>2. ParserTypeOK' /\ CountInv' /\ TsInv'
    BY <2>1, <1>0, <1>3, <1>4, <1>12, ParserIdle
  <2>3. emitted' = emitted /\ queue' = Enqueued(p) /\ seq' = seq
    BY <1>12 DEF histVars
  <2>4. /\ queue' \in Seq(PacketType) /\ Len(queue') = Len(queue) + 1
        /\ \A i \in DOMAIN queue' : Sent(queue'[i])
        /\ Plain' => Ordered(Epoch', floor', high', here', queue', emitted')
    BY <2>3, <1>11, <1>12
  <2>5. SeqInv'
    BY <2>0, <2>3, <2>4, <1>0, <1>3, SeqParsed
  <2>6. LenInv'
    BY <2>4, <1>4, <1>12 DEF LenInv, QueueFull
  <2>7. ok
    BY <2>1, <2>2, <2>3, <2>4, <2>5, <2>6
  <2> QED BY <2>7, <1>6
<1>13. CASE /\ ~(seq = 0 /\ queue = <<>>) /\ setup.queue_size > 1
            /\ d > 1 /\ QueueFull(Len(queue) + 1)
            /\ ParseInternal(Head(Enqueued(p)))
            /\ queue' = Tail(Enqueued(p))
  <2>0. emitted # NoPacket
    BY <1>8, <1>13
  <2> DEFINE r == Enqueued(p)
             f == r[1]
  <2>1. /\ r \in Seq(PacketType) /\ Len(r) = Len(queue) + 1
        /\ r # <<>> /\ \A i \in DOMAIN r : Sent(r[i])
        /\ Plain' => Ordered(Epoch', floor', high', here', r, emitted)
    BY <1>11, <1>13
  <2>2. ParseInternal(Head(r)) /\ queue' = Tail(r)
    BY <1>13
  <2> HIDE DEF r
  <2>3. Head(r) = f /\ f \in PacketType /\ Sent(f)
    BY <2>1, HeadIs
  <2>4. ParseInternal(f)
    BY <2>2, <2>3
  <2> HIDE DEF f
  <2>5. /\ ParserTypeOK' /\ CountInv' /\ TsInv'
        /\ ret' \in {-1, 0, 1}
        /\ ret' >= 0 => Stamp'
        /\ \/ emitted' = f /\ seq' = PacketSeq(f)
           \/ emitted' = emitted /\ seq' = seq
    BY <2>3, <2>4, <1>0, <1>3, <1>4, ParseStep
  <2>6. /\ queue' \in Seq(PacketType) /\ Len(queue') = Len(queue)
        /\ \A j \in DOMAIN queue' : j + 1 \in DOMAIN r /\ queue'[j] = r[j + 1]
    BY <2>1, <2>2, <1>4, TailAt
  <2>7. SeqInv'
    <3>1. \A i \in DOMAIN queue' : Sent(queue'[i])
      BY <2>1, <2>6
    <3> QED BY <3>1, <2>0, <2>3, <2>5, <1>0, <1>3, SeqParsed
  <2>8. LenInv'
    BY <2>6, <1>0, <1>4 DEF LenInv
  <2>9. ASSUME Plain'
        PROVE  /\ Ordered(Epoch', floor', high', here', queue', emitted')
               /\ emitted' # emitted => emitted'.n > emitted.n
    <3>1. PICK e, fl, hi, he : e = Epoch' /\ fl = floor' /\ hi = high' /\ he = here'
      OBVIOUS
    <3>2. Ordered(e, fl, hi, he, r, emitted)
      BY <3>1, <2>1, <2>9
    <3>3. /\ Ordered(e, fl, hi, he, Tail(r), r[1]) /\ Ordered(e, fl, hi, he, Tail(r), emitted)
          /\ emitted.n < r[1].n
      BY <3>2, <2>1, <1>4, OrderedTail
    <3>4. f.n \in Int /\ f = r[1]
      BY <2>3, PacketFields DEF f
    <3> QED BY <3>1, <3>3, <3>4, <2>2, <2>5, <1>4
  <2>10. ok
    BY <2>5, <2>6, <2>7, <2>8, <2>9
  <2> QED BY <2>10, <1>6
<1> QED BY <1>1, <1>7, <1>9, <1>10, <1>12, <1>13 DEF ParseArrived, d

(* rtcp_parse_packet(): a sender report sets base_timestamp only if there  *)
(* was none.                                                               *)
LEMMA SenderReportStep ==
  ASSUME RtpInv, SenderReport
  PROVE  RtpInv'
<1>0. /\ NetTypeOK /\ ParserTypeOK /\ LoopTypeOK /\ SeqInv /\ LenInv /\ OrderInv
      /\ CountInv /\ TsInv /\ CallInv
  BY DEF RtpInv
<1>1. /\ UNCHANGED <<setup, netVars, seq, queue, stats, cur, bye, stamped, pending>>
      /\ UNCHANGED <<emitted, counted, timed, disordered>>
      /\ pc = "wait" /\ high >= 0 /\ ret' = -1 /\ prev_ret' = ret' /\ pc' = "loop"
  BY DEF SenderReport, histVars, PrevRet
<1>2. NetTypeOK' /\ offset' = offset /\ Epoch' = Epoch
  BY <1>0, <1>1, NetQuiet DEF netVars, Epoch
<1>3. ts \in TsType
  BY <1>0 DEF ParserTypeOK
<1> DEFINE t == PacketTs([n |-> high])
<1>4. t \in 0..(TS_MOD - 1)
  <2> DEFINE x == [n |-> high]
  <2>1. x.n \in Nat
    BY <1>0, <1>1 DEF NetTypeOK
  <2> HIDE DEF x
  <2>2. PacketTs(x) \in 0..(TS_MOD - 1)
    BY <2>1, <1>0, PacketTsIs
  <2> QED BY <2>2 DEF x
<1>5. ts' = [ts EXCEPT !.sr = TRUE, !.base = IF @ = 0 THEN t ELSE @]
  BY DEF SenderReport
<1> HIDE DEF t
<1>6. PICK b \in 0..(TS_MOD - 1) : b = IF ts.base = 0 THEN t ELSE ts.base
  BY <1>3, <1>4, TsFields
<1>7. ts' = [ts EXCEPT !.sr = TRUE, !.base = b]
  BY <1>3, <1>5, <1>6 DEF TsType
<1>8. /\ ts' \in TsType /\ ts'.timestamp = ts.timestamp /\ ts'.unwrapped = ts.unwrapped
      /\ ts'.base = b
  BY <1>3, <1>7 DEF TsType
<1>9. ts.base # 0 => ts'.base = ts.base
  BY <1>6, <1>8
<1>10. TsInv'
  <2>0. Pts' = ts'.unwrapped - ts'.base /\ Pts = ts.unwrapped - ts.base /\ timed.first \in Int
    BY <1>0, TimedFields DEF Pts, ParserTypeOK
  <2>1. CASE ts.base # 0
    BY <2>0, <2>1, <1>0, <1>1, <1>8, <1>9 DEF TsInv
  <2>2. CASE ts.base = 0
    <3>1. ~(timed.first >= 0)
      BY <2>2, <1>0 DEF TsInv
    <3>2. ts.unwrapped = 0 /\ ts.timestamp = 0
      BY <3>1, <2>0, <2>2, <1>0 DEF TsInv
    <3> QED BY <3>1, <3>2, <1>0, <1>1, <1>8 DEF TsInv
  <2> QED BY <2>1, <2>2
<1>11. ParserTypeOK'
  BY <1>0, <1>1, <1>8 DEF ParserTypeOK
<1>12. CountInv'
  BY <1>0, <1>1, <1>2 DEF CountInv, Expected, Sent, PacketSeq
<1>13. SeqInv' /\ LenInv' /\ OrderInv'
  BY <1>0, <1>1, <1>2 DEF SeqInv, LenInv, OrderInv, Sent, PacketSeq, Plain, netVars
<1>14. LoopTypeOK'
  BY <1>0, <1>1 DEF LoopTypeOK
<1>15. CallInv'
  BY <1>1, CallLoop
<1> QED BY <1>2, <1>10, <1>11, <1>12, <1>13, <1>14, <1>15 DEF RtpInv

LEMMA ByeStep ==
  ASSUME RtpInv, Bye
  PROVE  RtpInv'
<1>0. /\ NetTypeOK /\ ParserTypeOK /\ LoopTypeOK /\ SeqInv /\ LenInv /\ OrderInv
      /\ CountInv /\ TsInv /\ CallInv
  BY DEF RtpInv
<1>1. /\ UNCHANGED <<setup, netVars, seq, queue, stats, ts, cur, bye, stamped, pending, histVars>>
      /\ ret' = -2 /\ prev_ret' = ret' /\ pc' = "loop"
  BY DEF Bye, PrevRet, RTCP_BYE
<1>2. NetTypeOK' /\ offset' = offset /\ Epoch' = Epoch
  BY <1>0, <1>1, NetQuiet DEF netVars, Epoch
<1>3. ParserTypeOK' /\ CountInv' /\ TsInv'
  BY <1>0, <1>1, <1>2, ParserIdle
<1>4. emitted' = emitted
  BY <1>1 DEF histVars
<1>5. SeqInv' /\ LenInv' /\ OrderInv'
  BY <1>0, <1>1, <1>2, <1>4 DEF SeqInv, LenInv, OrderInv, Sent, PacketSeq, Plain, netVars
<1>6. LoopTypeOK'
  BY <1>0, <1>1 DEF LoopTypeOK
<1>7. CallInv'
  BY <1>1, CallLoop
<1> QED BY <1>2, <1>3, <1>5, <1>6, <1>7 DEF RtpInv

LEMMA RenumberStep ==
  ASSUME NetTypeOK, floor <= high + 1, Renumber, setup' = setup, astray' \in BOOLEAN
  PROVE  /\ NetTypeOK' /\ floor' <= high' + 1
         /\ \E x \in Int : offset' = Append(offset, x)
<1>1. /\ setup \in Setups /\ floor \in Nat /\ high \in Int /\ dups \in Nat
  BY DEF NetTypeOK
<1>2. /\ floor' = high + 1 /\ here' = {} /\ high' = high /\ dups' = dups
      /\ \E s \in setup.seq0 : offset' = Append(offset, (s - floor') % SEQ_MOD)
  BY DEF Renumber
<1>3. PICK s \in setup.seq0 : offset' = Append(offset, (s - floor') % SEQ_MOD)
  BY <1>2
<1>4. (s - floor') % SEQ_MOD \in Int
  <2>1. s \in Int
    BY <1>1, SetupFacts
  <2>2. PICK d \in Int : d = s - floor'
    BY <2>1, <1>1, <1>2
  <2>3. d % SEQ_MOD \in 0..(SEQ_MOD - 1)
    BY ModIs, ModFacts
  <2> QED BY <2>2, <2>3, ModFacts
<1>5. \E x \in Int : offset' = Append(offset, x)
  BY <1>3, <1>4
<1>6. offset' \in Seq(Int) /\ Len(offset') >= 1
  BY <1>5, OffsetGrows
<1>7. floor' \in Nat /\ floor' <= high' + 1
  BY <1>1, <1>2
<1> QED BY <1>1, <1>2, <1>5, <1>6, <1>7 DEF NetTypeOK

LEMMA RestartStep ==
  ASSUME RtpInv, Restart
  PROVE  RtpInv'
<1>0. /\ NetTypeOK /\ ParserTypeOK /\ LoopTypeOK /\ SeqInv /\ LenInv /\ OrderInv
      /\ CountInv /\ TsInv /\ CallInv
  BY DEF RtpInv
<1>1. /\ UNCHANGED <<setup, seq, prev_ret, queue, stats, ts, pending, histVars>>
      /\ UNCHANGED <<cur, bye, pc, ret, stamped>>
      /\ pc = "wait" /\ Renumber /\ astray' = TRUE
  BY DEF Restart, loopVars
<1>2. /\ NetTypeOK' /\ floor' <= high' + 1
      /\ \E x \in Int : offset' = Append(offset, x)
  BY <1>0, <1>1, RenumberStep DEF OrderInv
<1>3. \A r \in PacketType : Sent(r) => Sent(r)' /\ PacketSeq(r)' = PacketSeq(r)
  BY <1>0, <1>2, OffsetGrows
<1>4. ret' \in -2..1
  BY <1>0, <1>1 DEF ParserTypeOK
<1>5. ParserTypeOK' /\ CountInv' /\ TsInv'
  BY <1>0, <1>1, <1>2, <1>4, ParserIdle
<1>6. emitted' = emitted /\ queue' = queue /\ timed' = timed
  BY <1>1 DEF histVars
<1>7. queue \in Seq(PacketType) /\ emitted \in PacketType
  BY <1>0 DEF LoopTypeOK, ParserTypeOK
<1>8. ASSUME NEW i \in DOMAIN queue
      PROVE  Sent(queue[i])' /\ PacketSeq(queue[i])' = PacketSeq(queue[i])
  <2>1. PICK r \in PacketType : r = queue[i]
    BY <1>7
  <2>2. Sent(r)
    BY <2>1, <1>0 DEF SeqInv
  <2>3. Sent(r)' /\ PacketSeq(r)' = PacketSeq(r)
    BY <2>2, <1>3
  <2> QED BY <2>1, <2>3, <1>6 DEF Sent, PacketSeq
<1>9. SeqInv'
  <2>1. emitted # NoPacket => Sent(emitted)' /\ PacketSeq(emitted)' = PacketSeq(emitted)
    <3>1. PICK r \in PacketType : r = emitted
      BY <1>7
    <3>2. Sent(r) => Sent(r)' /\ PacketSeq(r)' = PacketSeq(r)
      BY <1>3
    <3> QED BY <3>1, <3>2, <1>0, <1>6 DEF Sent, PacketSeq, SeqInv
  <2>2. (\A i \in DOMAIN queue : Sent(queue[i]))'
    BY <1>6, <1>8
  <2> QED BY <2>1, <2>2, <1>0, <1>1, <1>6 DEF SeqInv
<1>10. LenInv' /\ OrderInv' /\ LoopTypeOK'
  BY <1>0, <1>1, <1>2, <1>6 DEF LenInv, OrderInv, Plain, LoopTypeOK
<1>11. CallInv'
  <2>1. ~HasNextPacket
    BY <1>0, <1>1 DEF CallInv, Lacking
  <2>2. ~HasNextPacket'
    <3>1. CASE queue = <<>>
      BY <3>1, <1>6 DEF HasNextPacket
    <3>2. CASE queue # <<>>
      <4>1. Head(queue) = queue[1] /\ 1 \in DOMAIN queue
        BY <3>2, <1>7, HeadIs
      <4>2. PacketSeq(queue[1])' = PacketSeq(queue[1])
        BY <4>1, <1>8
      <4> QED BY <4>1, <4>2, <3>2, <2>1, <1>1, <1>6 DEF HasNextPacket
    <3> QED BY <3>1, <3>2
  <2>3. ~(prev_ret' > 0) /\ pc' = "wait"
    BY <1>0, <1>1 DEF CallInv
  <2> QED BY <2>2, <2>3 DEF CallInv
<1> QED BY <1>2, <1>5, <1>9, <1>10, <1>11 DEF RtpInv

LEMMA PlayStep ==
  ASSUME RtpInv, Play
  PROVE  RtpInv'
<1>0. /\ NetTypeOK /\ ParserTypeOK /\ LoopTypeOK /\ OrderInv /\ CountInv
  BY DEF RtpInv
<1>1. /\ pc = "idle" /\ Renumber /\ seq' = 0 /\ queue' = <<>> /\ prev_ret' = 0
      /\ ts' = NoTimestamps /\ timed' = [first |-> -1, last |-> -1] /\ disordered' = FALSE
      /\ astray' = FALSE /\ emitted' = NoPacket /\ bye' = FALSE /\ pending' = NoPacket
      /\ UNCHANGED <<setup, stats, cur, pc, ret, stamped, counted>>
  BY DEF Play, ResetQueue
<1>2. /\ NetTypeOK' /\ floor' <= high' + 1
      /\ \E x \in Int : offset' = Append(offset, x)
  BY <1>0, <1>1, RenumberStep DEF OrderInv
<1>3. \A r \in PacketType : Sent(r) => Sent(r)' /\ PacketSeq(r)' = PacketSeq(r)
  BY <1>0, <1>2, OffsetGrows
<1>4. /\ ts' \in TsType /\ ts'.base = 0 /\ ts'.unwrapped = 0 /\ ts'.timestamp = 0
      /\ timed' \in TimedType /\ timed'.first = -1 /\ timed'.last = -1
  BY <1>1, ModFacts DEF NoTimestamps, TsType, TimedType
<1>5. ParserTypeOK'
  <2>1. seq' \in 0..(SEQ_MOD - 1)
    BY <1>1, ModFacts
  <2> QED BY <2>1, <1>0, <1>1, <1>4, NoPacketFields DEF ParserTypeOK
<1>6. CountInv'
  <2>1. counted.max \in PacketType
    BY <1>0 DEF ParserTypeOK, CountedType
  <2>2. PICK r \in PacketType : r = counted.max
    BY <2>1
  <2>3. Sent(r) => Sent(r)' /\ PacketSeq(r)' = PacketSeq(r)
    BY <1>3
  <2>4. Sent(counted.max) => /\ Sent(counted.max)'
                             /\ PacketSeq(counted.max)' = PacketSeq(counted.max)
    BY <2>2, <2>3, <1>1 DEF Sent, PacketSeq
  <2> QED BY <2>4, <1>0, <1>1 DEF CountInv, Expected
<1>7. TsInv'
  BY <1>1, <1>4, NoPacketFields DEF TsInv
<1>8. SeqInv'
  BY <1>1 DEF SeqInv
<1>9. LenInv'
  <2>1. setup.queue_size \in Nat
    BY <1>0, SetupFacts DEF NetTypeOK
  <2> QED BY <2>1, <1>1 DEF LenInv
<1>10. OrderInv'
  <2>1. Ordered(Epoch', floor', high', here', queue', emitted')
    BY <1>1, OrderedEmpty
  <2> QED BY <2>1, <1>2 DEF OrderInv
<1>11. LoopTypeOK'
  <2>1. bye' \in BOOLEAN /\ cur' \in BOOLEAN
    BY <1>0, <1>1 DEF LoopTypeOK
  <2>2. queue' \in Seq(PacketType)
    BY <1>1
  <2> QED BY <2>1, <2>2, <1>0, <1>1 DEF LoopTypeOK
<1>12. CallInv'
  <2>1. ~HasNextPacket'
    BY <1>1 DEF HasNextPacket
  <2> QED BY <2>1, <1>1 DEF CallInv
<1> QED BY <1>2, <1>5, <1>6, <1>7, <1>8, <1>9, <1>10, <1>11, <1>12 DEF RtpInv

LEMMA StutterStep ==
  ASSUME RtpInv, UNCHANGED vars
  PROVE  RtpInv'
<1>0. UNCHANGED <<setup, offset, floor, high, here, dups, astray, seq, prev_ret, queue, stats, ts,
                  cur, bye, pc, ret, stamped, pending, emitted, counted, timed, disordered>>
  BY DEF vars, netVars, loopVars, histVars
<1>1. NetTypeOK' /\ ParserTypeOK' /\ LoopTypeOK'
  BY <1>0 DEF RtpInv, NetTypeOK, ParserTypeOK, LoopTypeOK
<1>2. SeqInv' /\ LenInv' /\ OrderInv'
  BY <1>0 DEF RtpInv, SeqInv, LenInv, OrderInv, Sent, PacketSeq, Plain, Epoch
<1>3. CallInv'
  <2>1. (Stamp <=> Stamp') /\ (Lacking <=> Lacking') /\ (HasNextPacket <=> HasNextPacket')
    BY <1>0 DEF Stamp, PacketTs, Lacking, HasNextPacket, PacketSeq
  <2> QED BY <2>1, <1>0 DEF RtpInv, CallInv
<1>4. CountInv' /\ TsInv'
  BY <1>0 DEF RtpInv, CountInv, TsInv, Sent, PacketSeq, Epoch, Expected, Pts
<1> QED BY <1>1, <1>2, <1>3, <1>4 DEF RtpInv

LEMMA InitInv ==
  ASSUME Init
  PROVE  RtpInv
<1>1. PICK s \in setup.seq0 : offset = <<s>>
  BY DEF Init
<1>2. setup \in Setups /\ s \in Int
  BY SetupFacts DEF Init
<1>3. offset \in Seq(Int) /\ Len(offset) = 1
  BY <1>1, <1>2
<1>4. /\ floor = 0 /\ high = -1 /\ here = {} /\ dups = 0 /\ astray = FALSE
      /\ seq = 0 /\ prev_ret = 0 /\ queue = <<>> /\ ts = NoTimestamps
      /\ stats = [max_seq |-> 0, cycles |-> 0, base_seq |-> 0, bad_seq |-> 0, probation |-> 1]
      /\ cur = FALSE /\ bye = FALSE /\ pc = "idle" /\ ret = 0 /\ stamped = FALSE
      /\ pending = NoPacket /\ emitted = NoPacket
      /\ counted = [first |-> NoPacket, max |-> NoPacket]
      /\ timed = [first |-> -1, last |-> -1] /\ disordered = FALSE
  BY DEF Init
<1>5. NetTypeOK
  <2>1. astray \in BOOLEAN
    BY <1>4
  <2> QED BY <2>1, <1>2, <1>3, <1>4 DEF NetTypeOK
<1>6. stats \in StatsType /\ counted \in CountedType /\ counted.first = NoPacket
  BY <1>4, ModFacts, NoPacketFields DEF StatsType, CountedType
<1>7. /\ ts \in TsType /\ ts.base = 0 /\ ts.unwrapped = 0 /\ ts.timestamp = 0
      /\ timed \in TimedType /\ timed.first = -1 /\ timed.last = -1
  BY <1>4, ModFacts DEF NoTimestamps, TsType, TimedType
<1>8. ParserTypeOK
  <2>1. seq \in 0..(SEQ_MOD - 1)
    BY <1>4, ModFacts
  <2>2. stamped \in BOOLEAN /\ disordered \in BOOLEAN
    BY <1>4
  <2> QED BY <2>1, <2>2, <1>4, <1>6, <1>7, NoPacketFields DEF ParserTypeOK
<1>9. LoopTypeOK
  <2>1. cur \in BOOLEAN /\ bye \in BOOLEAN
    BY <1>4
  <2>2. queue \in Seq(PacketType)
    BY <1>4
  <2> QED BY <2>1, <2>2, <1>4 DEF LoopTypeOK
<1>10. SeqInv
  BY <1>4 DEF SeqInv
<1>11. LenInv
  <2>1. setup.queue_size \in Nat
    BY <1>2, SetupFacts
  <2> QED BY <2>1, <1>4 DEF LenInv
<1>12. OrderInv
  <2>1. Ordered(Epoch, floor, high, here, queue, emitted)
    BY <1>4, OrderedEmpty
  <2> QED BY <2>1, <1>4 DEF OrderInv
<1>13. CallInv
  BY <1>4 DEF CallInv, HasNextPacket
<1>14. CountInv
  BY <1>6 DEF CountInv
<1>15. TsInv
  BY <1>4, <1>7, NoPacketFields DEF TsInv
<1> QED BY <1>5, <1>8, <1>9, <1>10, <1>11, <1>12, <1>13, <1>14, <1>15 DEF RtpInv

LEMMA NextInv ==
  ASSUME RtpInv, [Next]_vars
  PROVE  RtpInv'
<1>1. CASE Step
  BY <1>1, FetchStep, TimeoutStep, LoopStep, FinishStep DEF Step
<1>2. CASE \E n \in 0..LastPacket : Arrive(n)
  BY <1>2, ArriveStep
<1>3. CASE SenderReport \/ Bye
  BY <1>3, SenderReportStep, ByeStep
<1>4. CASE Restart \/ Play
  BY <1>4, RestartStep, PlayStep
<1>5. CASE Eof \/ UNCHANGED vars
  BY <1>5, StutterStep DEF Eof
<1> QED BY <1>1, <1>2, <1>3, <1>4, <1>5 DEF Next

---------------------------------------------------------------------------
(***************************************************************************)
(* find_missing_packets(): what the recursive definition of the scan is,   *)
(* and the place it has reached after i numbers.                           *)
(***************************************************************************)
ScanFrom(a, i) ==
  Min({k \in a..Len(queue) : SeqDiff(PacketSeq(queue[k]), (NextSeq + i) % SEQ_MOD) >= 0}
      \cup {Len(queue) + 1})

IsScan(f, n) == f = [i \in 0..n |-> IF i = 0 THEN 1 ELSE ScanFrom(f[i - 1], i)]

LEMMA ScanExists ==
  ASSUME NEW m \in Nat
  PROVE  \E f : IsScan(f, m)
<1> DEFINE S == {n \in Nat : \E f : IsScan(f, n)}
<1>1. 0 \in S
  <2> DEFINE f == [i \in 0..0 |-> 1]
  <2>1. f = [i \in 0..0 |-> IF i = 0 THEN 1 ELSE ScanFrom(f[i - 1], i)]
    <3>1. \A i \in 0..0 : i = 0
      OBVIOUS
    <3> QED BY <3>1
  <2> QED BY <2>1 DEF IsScan
<1>2. ASSUME NEW n \in S PROVE n + 1 \in S
  <2>1. n \in Nat
    OBVIOUS
  <2>2. PICK f : IsScan(f, n)
    OBVIOUS
  <2> DEFINE g == [i \in 0..(n + 1) |-> IF i = n + 1 THEN ScanFrom(f[n], n + 1) ELSE f[i]]
  <2>3. \A i \in 0..n : f[i] = IF i = 0 THEN 1 ELSE ScanFrom(f[i - 1], i)
    BY <2>2 DEF IsScan
  <2>4. \A i \in 0..n : g[i] = f[i]
    BY <2>1
  <2>5. g[n + 1] = ScanFrom(f[n], n + 1)
    BY <2>1
  <2>6. g = [i \in 0..(n + 1) |-> g[i]]
    OBVIOUS
  <2> HIDE DEF g
  <2>7. ASSUME NEW i \in 0..(n + 1)
        PROVE  g[i] = IF i = 0 THEN 1 ELSE ScanFrom(g[i - 1], i)
    <3>1. CASE i = n + 1
      <4>1. n \in 0..n /\ i - 1 = n /\ i # 0
        BY <2>1, <3>1
      <4>2. g[i - 1] = f[n]
        BY <4>1, <2>4
      <4> QED BY <4>1, <4>2, <3>1, <2>5
    <3>2. CASE i # n + 1
      <4>1. i \in 0..n /\ (i # 0 => i - 1 \in 0..n)
        BY <2>1, <3>2
      <4>2. g[i] = f[i] /\ (i # 0 => g[i - 1] = f[i - 1])
        BY <4>1, <2>4
      <4> QED BY <4>1, <4>2, <2>3
    <3> QED BY <3>1, <3>2
  <2>8. g = [i \in 0..(n + 1) |-> IF i = 0 THEN 1 ELSE ScanFrom(g[i - 1], i)]
    BY <2>6, <2>7
  <2>9. IsScan(g, n + 1) /\ n + 1 \in Nat
    BY <2>1, <2>8 DEF IsScan
  <2> QED BY <2>9
<1>3. S \in SUBSET Nat
  OBVIOUS
<1> HIDE DEF S
<1>4. 0..m \subseteq S
  BY <1>1, <1>2, <1>3, SetInduction
<1>5. m \in S
  BY <1>4
<1> QED BY <1>5 DEF S

LEMMA ScanUnfolds ==
  \A i \in 0..NackBits : Scan[i] = IF i = 0 THEN 1 ELSE ScanFrom(Scan[i - 1], i)
<1>1. \E f : IsScan(f, NackBits)
  BY ScanExists, LimitFacts
<1>2. Scan = CHOOSE f : IsScan(f, NackBits)
  BY DEF Scan, IsScan, ScanFrom
<1>3. IsScan(Scan, NackBits)
  BY <1>1, <1>2
<1> QED BY <1>3 DEF IsScan

LEMMA ModAdd ==
  ASSUME NEW m \in Nat \ {0}, NEW a \in Int, NEW i \in Int
  PROVE  ((a % m) + i) % m = (a + i) % m
<1>1. PICK q \in Int : a = q * m + (a % m)
  BY ModIs
<1> DEFINE b == a % m
<1>2. b \in Int /\ a = q * m + b
  BY <1>1, ModIs
<1> HIDE DEF b
<1>3. b + i \in Int /\ a + i = (b + i) + q * m
  BY <1>2
<1>4. ((b + i) + q * m) % m = (b + i) % m
  BY <1>3, ModShift
<1> QED BY <1>3, <1>4 DEF b

(* The packets a NACK may name, from the one needed next. *)
Wanted == offset[emitted.e] + emitted.n + 1

LEMMA WantedIs ==
  ASSUME RtpInv, emitted # NoPacket
  PROVE  /\ Wanted \in Int /\ offset[emitted.e] \in Int /\ emitted.n \in Int
         /\ NextSeq = Wanted % SEQ_MOD
         /\ \A i \in Int : (NextSeq + i) % SEQ_MOD = (Wanted + i) % SEQ_MOD
<1>1. NetTypeOK /\ ParserTypeOK /\ SeqInv
  BY DEF RtpInv
<1>2. emitted \in PacketType /\ Sent(emitted) /\ seq = PacketSeq(emitted) /\ emitted.n \in Int
  BY <1>1, EmittedFacts
<1>3. offset[emitted.e] \in Int
  BY <1>1, <1>2, SeqNumber
<1>4. Wanted \in Int
  BY <1>2, <1>3 DEF Wanted
<1>5. NextSeq = Wanted % SEQ_MOD
  BY <1>1, <1>2, SeqAfter DEF NextSeq, Wanted
<1>6. ASSUME NEW i \in Int PROVE (NextSeq + i) % SEQ_MOD = (Wanted + i) % SEQ_MOD
  BY <1>4, <1>5, ModAdd, ModFacts
<1> QED BY <1>2, <1>3, <1>4, <1>5, <1>6

(* The queue of a receiver that waits, against the number i after the one  *)
(* needed next.                                                            *)
LEMMA QueuedAgainst ==
  ASSUME RtpInv, Plain, ~HasNextPacket, NEW i \in 0..NackBits, NEW k \in DOMAIN queue
  PROVE  /\ emitted # NoPacket /\ queue[k].n \in Int /\ emitted.n \in Int
         /\ emitted.n + 1 < queue[k].n
         /\ SeqDiff(PacketSeq(queue[k]), (NextSeq + i) % SEQ_MOD) = queue[k].n - (emitted.n + 1 + i)
         /\ PacketSeq(queue[k]) = (NextSeq + i) % SEQ_MOD <=> queue[k].n = emitted.n + 1 + i
<1>1. /\ NetTypeOK /\ ParserTypeOK /\ LoopTypeOK /\ SeqInv /\ OrderInv
  BY DEF RtpInv
<1>2. queue \in Seq(PacketType) /\ queue # <<>>
  BY <1>1 DEF LoopTypeOK
<1>3. emitted # NoPacket
  BY <1>1, <1>2 DEF SeqInv
<1>4. /\ Wanted \in Int /\ offset[emitted.e] \in Int /\ emitted.n \in Int
      /\ (NextSeq + i) % SEQ_MOD = (Wanted + i) % SEQ_MOD
  BY <1>3, WantedIs
<1>5. queue[k] \in PacketType /\ queue[k].n \in Int /\ Sent(queue[k])
  BY <1>1, <1>2, PacketAt DEF SeqInv
<1>6. /\ queue[k].n > emitted.n + 1 /\ queue[k].n < emitted.n + HalfSeq
      /\ queue[k].e = emitted.e
  <2>1. queue[k].n > emitted.n + 1
    BY <1>1, WaitingGap
  <2> QED BY <2>1, <1>1, <1>3 DEF OrderInv, Ordered, Reach, Tracked
<1> DEFINE a == offset[emitted.e] + queue[k].n
           b == Wanted + i
           d == queue[k].n - (emitted.n + 1 + i)
<1>7. PacketSeq(queue[k]) = a % SEQ_MOD
  BY <1>6 DEF PacketSeq
<1>8. i \in Int /\ i >= 0 /\ i <= HalfSeq
  BY LimitFacts, ModFacts
<1>9. a \in Int /\ b \in Int /\ d \in Int /\ a - b = d
  BY <1>4, <1>5, <1>8 DEF Wanted
<1>10. -HalfSeq <= d /\ d < HalfSeq
  BY <1>4, <1>5, <1>6, <1>8, ModFacts
<1>11. d = 0 <=> queue[k].n = emitted.n + 1 + i
  BY <1>4, <1>5, <1>8
<1> HIDE DEF a, b, d
<1>12. Near(a - b, SEQ_MOD)
  BY <1>9, <1>10, NearIs
<1>13. Signed((a % SEQ_MOD) - (b % SEQ_MOD), SEQ_MOD) = a - b
  BY <1>9, <1>12, SignedExact, ModFacts
<1>14. SeqDiff(PacketSeq(queue[k]), (NextSeq + i) % SEQ_MOD) = d
  BY <1>4, <1>7, <1>9, <1>13 DEF SeqDiff, b
<1>15. a % SEQ_MOD = b % SEQ_MOD <=> d = 0
  <2>1. a - b < SEQ_MOD /\ b - a < SEQ_MOD
    BY <1>9, <1>10, ModFacts
  <2>2. a % SEQ_MOD = b % SEQ_MOD => a = b
    BY <2>1, <1>9, ModEqual, ModFacts
  <2>3. a = b <=> d = 0
    BY <1>9
  <2> QED BY <2>2, <2>3
<1>16. PacketSeq(queue[k]) = (NextSeq + i) % SEQ_MOD <=> queue[k].n = emitted.n + 1 + i
  BY <1>4, <1>7, <1>11, <1>15 DEF b
<1> QED BY <1>3, <1>4, <1>5, <1>6, <1>14, <1>16 DEF d

(* Everything before the place reached is older than the number looked     *)
(* for, the packet at this place is not.                                   *)
Reached(i, x) ==
  /\ x \in 1..(Len(queue) + 1)
  /\ \A k \in DOMAIN queue : k < x => queue[k].n < emitted.n + 1 + i
  /\ x <= Len(queue) => queue[x].n >= emitted.n + 1 + i

LEMMA ScanStep ==
  ASSUME RtpInv, Plain, ~HasNextPacket, queue # <<>>,
         NEW i \in 0..NackBits, i # 0, NEW y, Reached(i - 1, y)
  PROVE  Reached(i, ScanFrom(y, i))
<1> DEFINE T == {k \in y..Len(queue) : SeqDiff(PacketSeq(queue[k]), (NextSeq + i) % SEQ_MOD) >= 0}
                \cup {Len(queue) + 1}
<1>1. queue \in Seq(PacketType) /\ Len(queue) \in Nat /\ DOMAIN queue = 1..Len(queue)
  BY DEF RtpInv, LoopTypeOK
<1>2. i \in Int /\ emitted.n \in Int /\ y \in 1..(Len(queue) + 1)
  BY LimitFacts, PacketFields DEF RtpInv, ParserTypeOK, Reached
<1>3. T \in SUBSET Nat /\ T \in SUBSET Int /\ T # {} /\ T \in SUBSET (1..(Len(queue) + 1))
  BY <1>1, <1>2
<1>4. PICK x \in T : \A z \in T : x <= z
  BY <1>3, LeastNat
<1>5. Min(T) = x
  BY <1>3, <1>4, MinIs
<1>6. ScanFrom(y, i) = x
  BY <1>5 DEF ScanFrom
<1>7. ASSUME NEW k \in DOMAIN queue
      PROVE  /\ queue[k].n \in Int
             /\ SeqDiff(PacketSeq(queue[k]), (NextSeq + i) % SEQ_MOD) >= 0
                  <=> queue[k].n >= emitted.n + 1 + i
  <2>1. /\ queue[k].n \in Int
        /\ SeqDiff(PacketSeq(queue[k]), (NextSeq + i) % SEQ_MOD) = queue[k].n - (emitted.n + 1 + i)
    BY QueuedAgainst
  <2> QED BY <2>1, <1>2
<1>8. \A k \in DOMAIN queue : k \in T <=> k >= y /\ queue[k].n >= emitted.n + 1 + i
  BY <1>1, <1>2, <1>7
<1> HIDE DEF T
<1>9. x \in 1..(Len(queue) + 1) /\ x \in Nat
  BY <1>1, <1>3, <1>4
<1>10. ASSUME NEW k \in DOMAIN queue, k < x
       PROVE  queue[k].n < emitted.n + 1 + i
  <2>1. k \notin T
    BY <1>1, <1>4, <1>9, <1>10
  <2>2. ~(k >= y) \/ ~(queue[k].n >= emitted.n + 1 + i)
    BY <2>1, <1>8
  <2>3. CASE ~(k >= y)
    <3>1. k < y
      BY <2>3, <1>1, <1>2
    <3>2. queue[k].n < emitted.n + 1 + (i - 1)
      BY <3>1 DEF Reached
    <3> QED BY <3>2, <1>2, <1>7
  <2>4. CASE ~(queue[k].n >= emitted.n + 1 + i)
    BY <2>4, <1>2, <1>7
  <2> QED BY <2>2, <2>3, <2>4
<1>11. x <= Len(queue) => queue[x].n >= emitted.n + 1 + i
  <2>1. x <= Len(queue) => x \in DOMAIN queue
    BY <1>1, <1>9
  <2> QED BY <2>1, <1>4, <1>8
<1> QED BY <1>6, <1>9, <1>10, <1>11 DEF Reached

LEMMA ScanReaches ==
  ASSUME RtpInv, Plain, ~HasNextPacket, queue # <<>>
  PROVE  \A i \in 0..NackBits : Reached(i, Scan[i])
<1> DEFINE S == {i \in Nat : i <= NackBits => Reached(i, Scan[i])}
<1>0. NackBits \in Nat
  BY LimitFacts
<1>1. /\ queue \in Seq(PacketType) /\ DOMAIN queue = 1..Len(queue)
      /\ Len(queue) \in Nat /\ Len(queue) # 0
  BY DEF RtpInv, LoopTypeOK
<1>2. 0 \in S
  <2>1. 0 \in 0..NackBits
    BY <1>0
  <2>2. Scan[0] = 1
    BY <2>1, ScanUnfolds
  <2>3. 1 \in DOMAIN queue
    BY <1>1
  <2>4. /\ emitted.n \in Int /\ queue[1].n \in Int /\ emitted.n + 1 < queue[1].n
    BY <2>1, <2>3, QueuedAgainst
  <2>5. Reached(0, 1)
    BY <2>3, <2>4, <1>1 DEF Reached
  <2> QED BY <2>2, <2>5
<1>3. ASSUME NEW j \in S, j + 1 <= NackBits PROVE j + 1 \in S
  <2>1. j \in Nat /\ j + 1 \in 0..NackBits /\ j + 1 # 0 /\ (j + 1) - 1 = j /\ j <= NackBits
    BY <1>0, <1>3
  <2>2. Reached(j, Scan[j])
    BY <2>1
  <2>3. PICK i \in 0..NackBits : i = j + 1
    BY <2>1
  <2>4. i # 0 /\ i - 1 = j
    BY <2>1, <2>3
  <2>5. Scan[i] = ScanFrom(Scan[i - 1], i)
    BY <2>4, ScanUnfolds
  <2>6. Reached(i - 1, Scan[i - 1])
    BY <2>2, <2>4
  <2>7. Reached(i, ScanFrom(Scan[i - 1], i))
    BY <2>4, <2>6, ScanStep
  <2>8. Reached(j + 1, Scan[j + 1])
    BY <2>3, <2>5, <2>7
  <2> QED BY <2>1, <2>8
<1>4. S \in SUBSET Nat
  OBVIOUS
<1>5. 0..NackBits \subseteq S
  <2> HIDE DEF S
  <2> QED BY <1>0, <1>2, <1>3, <1>4, SetInduction
<1>6. ASSUME NEW i \in 0..NackBits PROVE Reached(i, Scan[i])
  <2>1. i \in S /\ i <= NackBits
    BY <1>0, <1>5
  <2> QED BY <2>1
<1> QED BY <1>6

(* The bits of the mask. *)
LEMMA MaskIs ==
  ASSUME RtpInv, Plain, ~HasNextPacket, queue # <<>>, NEW i \in 1..NackBits
  PROVE  i \in MissingMask <=>
           LET m == emitted.n + 1 + i
           IN  m < queue[Len(queue)].n /\ \A k \in DOMAIN queue : queue[k].n # m
<1> DEFINE m == emitted.n + 1 + i
           x == Scan[i]
           l == Len(queue)
<1>1. /\ queue \in Seq(PacketType) /\ l \in Nat /\ DOMAIN queue = 1..l /\ l # 0
      /\ l \in DOMAIN queue
      /\ OrderInv /\ emitted.n \in Int
  BY PacketFields DEF RtpInv, LoopTypeOK, ParserTypeOK
<1>2. i \in 0..NackBits /\ i \in Int /\ m \in Int
  BY <1>1, LimitFacts
<1>3. Reached(i, x)
  BY <1>2, ScanReaches
<1>4. /\ x \in 1..(l + 1)
      /\ \A k \in DOMAIN queue : k < x => queue[k].n < m
      /\ x <= l => queue[x].n >= m
  BY <1>3 DEF Reached
<1>5. \A k \in DOMAIN queue : queue[k].n \in Int
  BY <1>1, PacketAt
<1>6. \A j, k \in DOMAIN queue : j < k => queue[j].n < queue[k].n
  BY <1>1 DEF OrderInv, Ordered, SortedPackets
<1>7. ASSUME x <= l
      PROVE  /\ x \in DOMAIN queue
             /\ PacketSeq(queue[x]) # (NextSeq + i) % SEQ_MOD <=> queue[x].n # m
  <2>1. x \in DOMAIN queue
    BY <1>1, <1>4, <1>7
  <2>2. PICK k \in DOMAIN queue : k = x
    BY <2>1
  <2>3. PacketSeq(queue[k]) = (NextSeq + i) % SEQ_MOD <=> queue[k].n = m
    BY <1>2, QueuedAgainst
  <2> QED BY <2>1, <2>2, <2>3
<1>8. i \in MissingMask <=> x <= l /\ PacketSeq(queue[x]) # (NextSeq + i) % SEQ_MOD
  BY DEF MissingMask
<1> HIDE DEF m, x, l
<1>9. ASSUME x <= l, queue[x].n # m
      PROVE  m < queue[l].n /\ \A k \in DOMAIN queue : queue[k].n # m
  <2>1. x \in DOMAIN queue /\ queue[x].n > m /\ x \in Nat
    BY <1>1, <1>2, <1>4, <1>5, <1>7, <1>9
  <2>2. x = l \/ queue[x].n < queue[l].n
    BY <2>1, <1>1, <1>6, <1>9
  <2>3. m < queue[l].n
    BY <2>1, <2>2, <1>1, <1>2, <1>5
  <2>4. ASSUME NEW k \in DOMAIN queue PROVE queue[k].n # m
    <3>1. k \in Nat /\ queue[k].n \in Int
      BY <1>1, <1>5
    <3>2. CASE k < x
      BY <3>1, <3>2, <1>2, <1>4
    <3>3. CASE k = x
      BY <3>3, <1>9
    <3>4. CASE x < k
      <4>1. queue[x].n < queue[k].n
        BY <3>4, <2>1, <1>6
      <4> QED BY <4>1, <3>1, <2>1, <1>2, <1>5
    <3> QED BY <3>1, <3>2, <3>3, <3>4, <2>1
  <2> QED BY <2>3, <2>4
<1>10. ASSUME m < queue[l].n, \A k \in DOMAIN queue : queue[k].n # m
       PROVE  x <= l /\ queue[x].n # m
  <2>1. ~(l < x)
    BY <1>1, <1>2, <1>4, <1>5, <1>10
  <2>2. x <= l
    BY <2>1, <1>1, <1>4
  <2> QED BY <2>2, <1>7, <1>10
<1>11. i \in MissingMask <=> m < queue[l].n /\ \A k \in DOMAIN queue : queue[k].n # m
  BY <1>7, <1>8, <1>9, <1>10
<1> QED BY <1>11 DEF m, l

LEMMA NackIs ==
  ASSUME RtpInv, Plain, pc = "wait"
  PROVE  NackExact
<1>0. ~HasNextPacket
  BY DEF RtpInv, CallInv, Lacking
<1>1. CASE queue = <<>>
  BY <1>1 DEF NackExact, FindMissing
<1>2. CASE queue # <<>>
  <2> DEFINE P(m) == m < queue[Len(queue)].n /\ \A k \in DOMAIN queue : queue[k].n # m
             A == {m \in (emitted.n + 1)..(emitted.n + 1 + NackBits) : P(m)}
             num(m) == PacketSeq([e |-> emitted.e, n |-> m])
  <2>1. /\ queue \in Seq(PacketType) /\ Len(queue) \in DOMAIN queue /\ 1 \in DOMAIN queue
    BY <1>2 DEF RtpInv, LoopTypeOK
  <2>2. NackBits \in Nat /\ 0 \in 0..NackBits
    BY LimitFacts
  <2>3. ASSUME NEW k \in DOMAIN queue
        PROVE  emitted # NoPacket /\ emitted.n + 1 < queue[k].n /\ emitted.n \in Int
    BY <2>2, <1>0, QueuedAgainst
  <2>4. emitted # NoPacket /\ emitted.n \in Int
    BY <2>1, <2>3
  <2>5. /\ Wanted \in Int /\ offset[emitted.e] \in Int
        /\ NextSeq = Wanted % SEQ_MOD
        /\ \A i \in Int : (NextSeq + i) % SEQ_MOD = (Wanted + i) % SEQ_MOD
    BY <2>4, WantedIs
  <2>6. ASSUME NEW i \in Int
        PROVE  num(emitted.n + 1 + i) = (Wanted + i) % SEQ_MOD
    <3>1. num(emitted.n + 1 + i) = (offset[emitted.e] + (emitted.n + 1 + i)) % SEQ_MOD
      BY DEF PacketSeq
    <3>2. offset[emitted.e] + (emitted.n + 1 + i) = Wanted + i
      BY <2>4, <2>5 DEF Wanted
    <3> QED BY <3>1, <3>2
  <2>7. FindMissing = {NextSeq} \cup {(NextSeq + i) % SEQ_MOD : i \in MissingMask}
    BY <1>0, <1>2 DEF FindMissing
  <2>8. \A i \in 1..NackBits : i \in MissingMask <=> P(emitted.n + 1 + i)
    BY <1>0, <1>2, MaskIs
  <2>9. MissingMask \subseteq 1..NackBits
    BY DEF MissingMask
  <2>10. P(emitted.n + 1)
    <3>1. emitted.n + 1 < queue[Len(queue)].n
      BY <2>1, <2>3
    <3>2. \A k \in DOMAIN queue :
            emitted.n + 1 < queue[k].n /\ emitted.n + 1 \in Int /\ queue[k].n \in Int
      BY <2>1, <2>3, <2>4, PacketAt
    <3> QED BY <3>1, <3>2
  <2> HIDE DEF P, num
  <2>11. NextSeq = num(emitted.n + 1) /\ emitted.n + 1 \in A
    <3>1. num(emitted.n + 1 + 0) = (Wanted + 0) % SEQ_MOD
      BY <2>6
    <3>2. emitted.n + 1 + 0 = emitted.n + 1 /\ Wanted + 0 = Wanted
      BY <2>4, <2>5
    <3>3. emitted.n + 1 \in (emitted.n + 1)..(emitted.n + 1 + NackBits)
      BY <2>2, <2>4
    <3> QED BY <3>1, <3>2, <3>3, <2>5, <2>10
  <2>12. ASSUME NEW i \in MissingMask
         PROVE  \E m \in A : (NextSeq + i) % SEQ_MOD = num(m)
    <3>1. i \in 1..NackBits /\ i \in Int
      BY <2>9
    <3>2. emitted.n + 1 + i \in (emitted.n + 1)..(emitted.n + 1 + NackBits)
      BY <3>1, <2>2, <2>4
    <3>3. emitted.n + 1 + i \in A
      BY <3>1, <3>2, <2>8
    <3>4. (NextSeq + i) % SEQ_MOD = num(emitted.n + 1 + i)
      BY <3>1, <2>5, <2>6
    <3> QED BY <3>3, <3>4
  <2>13. ASSUME NEW m \in A
         PROVE  num(m) = NextSeq \/ \E i \in MissingMask : num(m) = (NextSeq + i) % SEQ_MOD
    <3>1. m \in (emitted.n + 1)..(emitted.n + 1 + NackBits) /\ P(m)
      OBVIOUS
    <3>2. CASE m = emitted.n + 1
      BY <3>2, <2>11
    <3>3. CASE m # emitted.n + 1
      <4>1. PICK i \in 1..NackBits : m = emitted.n + 1 + i
        <5>1. m - (emitted.n + 1) \in 1..NackBits /\ m = emitted.n + 1 + (m - (emitted.n + 1))
          BY <3>1, <3>3, <2>2, <2>4
        <5> QED BY <5>1
      <4>2. i \in MissingMask /\ i \in Int
        BY <4>1, <3>1, <2>8
      <4>3. num(m) = (NextSeq + i) % SEQ_MOD
        BY <4>1, <4>2, <2>5, <2>6
      <4> QED BY <4>2, <4>3
    <3> QED BY <3>2, <3>3
  <2>14. FindMissing = {num(m) : m \in A}
    <3> HIDE DEF A
    <3>1. ASSUME NEW z \in FindMissing PROVE z \in {num(m) : m \in A}
      <4>1. z = NextSeq \/ \E i \in MissingMask : z = (NextSeq + i) % SEQ_MOD
        BY <3>1, <2>7
      <4> QED BY <4>1, <2>11, <2>12
    <3>2. ASSUME NEW z \in {num(m) : m \in A} PROVE z \in FindMissing
      <4>1. PICK m \in A : z = num(m)
        BY <3>2
      <4>2. z = NextSeq \/ \E i \in MissingMask : z = (NextSeq + i) % SEQ_MOD
        BY <4>1, <2>13
      <4> QED BY <4>2, <2>7
    <3> QED BY <3>1, <3>2
  <2> QED BY <2>14, <1>2 DEF NackExact, A, P, num
<1> QED BY <1>1, <1>2

LEMMA QueueWaitsIs ==
  ASSUME RtpInv
  PROVE  QueueWaits
<1> SUFFICES ASSUME pc = "wait"
             PROVE  /\ Len(queue) < (IF setup.queue_size <= 1 THEN 1 ELSE setup.queue_size)
                    /\ Plain =>
                         /\ \A i, j \in DOMAIN queue : i < j => queue[i].n < queue[j].n
                         /\ \A i \in DOMAIN queue : queue[i].n > emitted.n + 1
  BY DEF QueueWaits
<1>1. ~HasNextPacket /\ LenInv
  BY DEF RtpInv, CallInv, Lacking
<1>2. ASSUME Plain
      PROVE  /\ \A i, j \in DOMAIN queue : i < j => queue[i].n < queue[j].n
             /\ \A i \in DOMAIN queue : queue[i].n > emitted.n + 1
  <2>1. \A i \in DOMAIN queue : queue[i].n > emitted.n + 1
    BY <1>1, <1>2, WaitingGap DEF RtpInv
  <2> QED BY <2>1, <1>2 DEF RtpInv, OrderInv, Ordered, SortedPackets
<1> QED BY <1>1, <1>2 DEF LenInv

---------------------------------------------------------------------------
(***************************************************************************)
(* Theorems.                                                               *)
(***************************************************************************)

(* The inductive invariant: the types; the sequence number kept is that of *)
(* the packet parsed last; the queue is shorter than queue_size, and as    *)
(* long as the numbers tell the order it is sorted and within reach; the   *)
(* statistics and the timestamps speak of the packets the history says.    *)
THEOREM RtpInvariant == Spec => []RtpInv
<1>1. Init => RtpInv
  BY InitInv
<1>2. RtpInv /\ [Next]_vars => RtpInv'
  BY NextInv
<1> QED BY <1>1, <1>2, PTL DEF Spec

(* Whoever waits for the network (the `wait' of ff_rtsp_fetch_packet())    *)
(* has a sorted queue of fewer than queue_size packets, without the one    *)
(* needed next, over any number of wraps of the sequence number.           *)
THEOREM WaitingQueueSorted == Spec => []QueueWaits
<1>1. RtpInv => QueueWaits
  BY QueueWaitsIs
<1> QED BY <1>1, RtpInvariant, PTL

(* find_missing_packets(): a NACK names exactly the packets within its     *)
(* reach that are missing.                                                 *)
THEOREM NacksNameTheMissing == Spec => []NackExact
<1>1. RtpInv => NackExact
  <2>1. ~(pc = "wait" /\ Plain) => NackExact
    BY DEF NackExact
  <2> QED BY <2>1, NackIs
<1> QED BY <1>1, RtpInvariant, PTL

(* rtp_valid_packet_in_sequence() and ff_rtp_check_and_send_back_rr(): the *)
(* number of packets expected is exact.                                    *)
THEOREM ExpectedCountExact == Spec => []ExpectedExact
<1>1. RtpInv => ExpectedExact
  BY DEF RtpInv, CountInv, ExpectedExact
<1> QED BY <1>1, RtpInvariant, PTL

(* finalize_packet(): the pts of a frame that is returned with one is its  *)
(* packet's distance from the one base_timestamp was taken from, and only  *)
(* RTP_NOTS_VALUE leaves the first of several frames without.              *)
THEOREM PtsFollowsStream == Spec => []PtsExact
<1>1. RtpInv => PtsExact
  BY DEF RtpInv, CallInv, Stamp, TsInv, PtsExact
<1> QED BY <1>1, RtpInvariant, PTL

(* rtp_parse_one_packet(): packets are parsed in the order they were sent  *)
(* in.                                                                     *)
THEOREM ParsedInSequence == Spec => ParsedInOrder
<1> DEFINE A == emitted' # emitted /\ Plain' /\ setup.queue_size > 1 /\ (seq # 0 \/ queue # <<>>)
                => emitted'.n > emitted.n \/ emitted' = NoPacket
<1>1. RtpInv /\ [Next]_vars => [A]_vars
  <2> SUFFICES ASSUME RtpInv, Next, emitted' # emitted, Plain', setup.queue_size > 1,
                      seq # 0 \/ queue # <<>>
               PROVE  emitted'.n > emitted.n \/ emitted' = NoPacket
    OBVIOUS
  <2>1. CASE Fetch
    <3>1. UNCHANGED <<setup, netVars>>
      BY <2>1 DEF Fetch
    <3>2. ParseNext
      BY <2>1 DEF Fetch, histVars
    <3>3. Plain
      BY <3>1 DEF Plain, netVars
    <3> QED BY <3>1, <3>2, <3>3, ParseNextStep
  <2>2. CASE Timeout
    <3>1. UNCHANGED <<setup, netVars>> /\ ParseNext
      BY <2>2 DEF Timeout
    <3>2. Plain
      BY <3>1 DEF Plain, netVars
    <3> QED BY <3>1, <3>2, ParseNextStep
  <2>3. CASE Loop
    <3>1. UNCHANGED <<setup, netVars>> /\ ParseQueued
      BY <2>3 DEF Loop
    <3>2. Plain
      BY <3>1 DEF Plain, netVars
    <3> QED BY <3>1, <3>2, ParseQueuedStep
  <2>4. CASE \E n \in 0..LastPacket : Arrive(n)
    BY <2>4, ArriveStep
  <2>5. CASE Play
    BY <2>5 DEF Play
  <2>6. CASE Finish \/ Eof \/ SenderReport \/ Bye \/ Restart
    BY <2>6 DEF Finish, Eof, SenderReport, Bye, Restart, histVars, vars
  <2> QED BY <2>1, <2>2, <2>3, <2>4, <2>5, <2>6 DEF Next, Step
<1> QED BY <1>1, RtpInvariant, PTL DEF Spec, ParsedInOrder
=============================================================================
