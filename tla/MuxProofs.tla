---------------------------- MODULE MuxProofs ----------------------------
(***************************************************************************)
(* Theorems about the interleaving of libavformat/mux.c, for any number of *)
(* streams, any time bases, and any file the constants admit.              *)
(*                                                                         *)
(* The packets of a stream in the queue are the numbers from the first not *)
(* yet taken to the last accepted, in this order, and the queue is sorted, *)
(* whether a packet was put at its end, behind the stream's last packet or *)
(* found its place by the search.  A time is Settled when no packet still  *)
(* to be written is earlier: the time of the packet written last is, as    *)
(* long as nothing was forced out, because every stream had a packet in    *)
(* the queue when it was taken.  The offset for negative timestamps is     *)
(* computed from such a packet.                                            *)
(***************************************************************************)
EXTENDS Mux, TLAPS, WellFoundedInduction

(* What the queue relies on, with the file and the queue as parameters.    *)
PacketType == [s : Streams, id : Nat, dts : Int]
NameType == [s : Int, id : Int]

TimeIn(u, p) == p.dts * u.tb[p.s]

(* p may stand before r. *)
Leq(u, p, r) ==
  \/ TimeIn(u, p) < TimeIn(u, r)
  \/ TimeIn(u, p) = TimeIn(u, r) /\ p.s <= r.s

Sorted(u, q) == \A i, j \in DOMAIN q : i < j => Leq(u, q[i], q[j])

EndOK(q, e) == e = IF q = <<>> THEN None ELSE Name(q[Len(q)])

(* l[s] names the last packet of stream s. *)
IsLast(q, s, i) == i \in DOMAIN q /\ q[i].s = s /\ \A j \in DOMAIN q : q[j].s = s => j <= i

LastOK(q, l) ==
  \A s \in Streams :
    \/ l[s] = None /\ \A i \in DOMAIN q : q[i].s # s
    \/ \E i \in DOMAIN q : IsLast(q, s, i) /\ l[s] = Name(q[i])

(* The packets of stream s are numbers t[s] + 1 to a[s], in this order. *)
NumbersOK(q, t, a) ==
  /\ \A s \in Streams : t[s] <= a[s]
  /\ \A i \in DOMAIN q : t[q[i].s] < q[i].id /\ q[i].id <= a[q[i].s]
  /\ \A i, j \in DOMAIN q : i < j /\ q[i].s = q[j].s => q[i].id < q[j].id
  /\ \A s \in Streams : \A n \in (t[s] + 1)..a[s] :
       \E i \in DOMAIN q : q[i].s = s /\ q[i].id = n

(* Every packet is a real timestamp, not after the clock c of its stream. *)
ClockedOK(u, q, c) ==
  \A i \in DOMAIN q : q[i].dts <= c[q[i].s] /\ TimeIn(u, q[i]) > NOPTS

---------------------------------------------------------------------------
(***************************************************************************)
(* The inductive invariant.                                                *)
(***************************************************************************)
OffsetType == [s : Streams, id : {0}, dts : Int, time : {NOPTS}] \cup {NotYet}
OutType == [s : Streams, id : Nat, dts : Int, time : Int] \cup {NotYet}

MuxTypeOK ==
  /\ setup \in Setups
  /\ cur_dts \in [Streams -> Int] /\ pts_buffer \in [Streams -> Int]
  /\ packet_buffer \in Seq(PacketType)
  /\ packet_buffer_end \in NameType /\ last \in [Streams -> NameType]
  /\ offset \in OffsetType
  /\ pc \in {"idle", "loop", "closed"} /\ flush \in BOOLEAN /\ closing \in BOOLEAN
  /\ ret \in {"ok", "einval", "error"} /\ faults \in Nat
  /\ accepted \in [Streams -> Nat] /\ taken \in [Streams -> Nat]
  /\ out \in OutType
  /\ forced \in BOOLEAN
  /\ shifts \in SUBSET [s : Streams, by : Int]

(* The clock of a stream is a real timestamp once it has begun, and the    *)
(* pts held back is not before it.                                         *)
Clock(s) == cur_dts[s] * setup.tb[s]
ClockInv ==
  \A s \in Streams :
    /\ cur_dts[s] # NOPTS => Clock(s) > NOPTS
    /\ setup.delay[s] = 1 =>
         pts_buffer[s] >= cur_dts[s] /\ (pts_buffer[s] = NOPTS <=> cur_dts[s] = NOPTS)

QueueInv ==
  /\ Sorted(setup, packet_buffer)
  /\ EndOK(packet_buffer, packet_buffer_end)
  /\ LastOK(packet_buffer, last)
  /\ NumbersOK(packet_buffer, taken, accepted)
  /\ ClockedOK(setup, packet_buffer, cur_dts)
  /\ setup.direct => packet_buffer = <<>>

CallInv ==
  /\ closing => flush
  /\ pc = "idle" => ~closing
  /\ pc = "closed" => closing

(* No packet will be written that is earlier than t. *)
Settled(t) ==
  IF setup.direct THEN \E r \in Streams : t <= Clock(r)
  ELSE /\ \A i \in DOMAIN packet_buffer : t <= TimeIn(setup, packet_buffer[i])
       /\ ~closing => \A s \in Streams : t <= Clock(s)

(* The time the offset moves to 0. *)
Floor(o) == (0 - o.dts) * setup.tb[o.s]

OrderInv ==
  ~forced =>
    /\ out # NotYet => Settled(out.time)
    /\ offset # NotYet => Settled(Floor(offset))

ShiftOf(o, s) == IF o = NotYet THEN 0 ELSE Rescale(o.dts, setup.tb[o.s], setup.tb[s])

SyncInv ==
  /\ out # NotYet => out.time > NOPTS
  /\ setup.avoid = "no" => offset = NotYet
  /\ offset = NotYet /\ setup.avoid # "no" /\ shifts # {} =>
       setup.avoid = "nonnegative" /\ out # NotYet /\ out.time >= 0
  /\ ~forced => \A a \in shifts : a.by = ShiftOf(offset, a.s)
  /\ ~forced /\ setup.avoid # "no" /\ out # NotYet => out.dts >= 0

MuxInv ==
  MuxTypeOK /\ ClockInv /\ QueueInv /\ CallInv /\ BoundedHold /\ OrderInv /\ SyncInv

---------------------------------------------------------------------------
(***************************************************************************)
(* Arithmetic.                                                             *)
(***************************************************************************)

(* Every nonempty set of numbers has a least one. *)
LEMMA LeastNat ==
  ASSUME NEW S \in SUBSET Nat, S # {}
  PROVE  \E x \in S : \A y \in S : x <= y
<1> DEFINE R == OpToRel(<, Nat)
<1>1. IsWellFoundedOn(R, Nat)
  BY NatLessThanWellFounded
<1>2. PICK x \in S : \A y \in S : ~(<<y, x>> \in R)
  BY <1>1, WFMin
<1>3. ASSUME NEW y \in S, y < x
      PROVE  <<y, x>> \in R
  <2>1. <<y, x>> \in Nat \X Nat
    OBVIOUS
  <2> QED BY <2>1, <1>3 DEF OpToRel
<1>4. \A y \in S : ~(y < x)
  BY <1>2, <1>3
<1> QED BY <1>4

(* Min and Max are what a reader expects, where there is such an element. *)
LEMMA MinIs ==
  ASSUME NEW S \in SUBSET Int, NEW m \in S, \A y \in S : m <= y
  PROVE  Min(S) = m
<1>1. Min(S) \in S /\ \A y \in S : Min(S) <= y
  BY DEF Min
<1>2. Min(S) \in Int /\ m \in Int /\ Min(S) <= m /\ m <= Min(S)
  BY <1>1
<1> QED BY <1>2

LEMMA MaxIs ==
  ASSUME NEW S \in SUBSET Int, NEW m \in S, \A y \in S : m >= y
  PROVE  Max(S) = m
<1>1. Max(S) \in S /\ \A y \in S : Max(S) >= y
  BY DEF Max
<1>2. Max(S) \in Int /\ m \in Int /\ Max(S) >= m /\ m >= Max(S)
  BY <1>1
<1> QED BY <1>2

LEMMA MinOfTwo ==
  ASSUME NEW a \in Int, NEW b \in Int
  PROVE  Min({a, b}) = IF a <= b THEN a ELSE b
<1>0. {a, b} \in SUBSET Int /\ a \in {a, b} /\ b \in {a, b}
  OBVIOUS
<1>1. CASE a <= b
  <2>1. \A y \in {a, b} : a <= y
    BY <1>1
  <2>2. Min({a, b}) = a
    BY <1>0, <2>1, MinIs
  <2> QED BY <1>1, <2>2
<1>2. CASE ~(a <= b)
  <2>1. \A y \in {a, b} : b <= y
    BY <1>2
  <2>2. Min({a, b}) = b
    BY <1>0, <2>1, MinIs
  <2> QED BY <1>2, <2>2
<1> QED BY <1>1, <1>2

LEMMA MaxOfTwo ==
  ASSUME NEW a \in Int, NEW b \in Int
  PROVE  Max({a, b}) = IF a >= b THEN a ELSE b
<1>0. {a, b} \in SUBSET Int /\ a \in {a, b} /\ b \in {a, b}
  OBVIOUS
<1>1. CASE a >= b
  <2>1. \A y \in {a, b} : a >= y
    BY <1>1
  <2>2. Max({a, b}) = a
    BY <1>0, <2>1, MaxIs
  <2> QED BY <1>1, <2>2
<1>2. CASE ~(a >= b)
  <2>1. \A y \in {a, b} : b >= y
    BY <1>2
  <2>2. Max({a, b}) = b
    BY <1>0, <2>1, MaxIs
  <2> QED BY <1>2, <2>2
<1> QED BY <1>1, <1>2

LEMMA TimesMono ==
  ASSUME NEW a \in Int, NEW b \in Int, a <= b, NEW c \in Nat \ {0}
  PROVE  a * c <= b * c
OBVIOUS

LEMMA TimesCancel ==
  ASSUME NEW a \in Int, NEW b \in Int, NEW c \in Nat \ {0}, a * c < b * c
  PROVE  a < b
OBVIOUS

LEMMA DivBounds ==
  ASSUME NEW x \in Int, NEW c \in Nat \ {0}
  PROVE  /\ x \div c \in Int
         /\ (x \div c) * c <= x
         /\ x < (x \div c) * c + c
OBVIOUS

(* av_rescale_q(): the result is off by half a tick at most. *)
LEMMA RescaleNear ==
  ASSUME NEW a \in Int, NEW b \in Nat \ {0}, NEW c \in Nat \ {0}
  PROVE  /\ Rescale(a, b, c) \in Int
         /\ 2 * (Rescale(a, b, c) * c) <= 2 * (a * b) + c
         /\ 2 * (a * b) <= 2 * (Rescale(a, b, c) * c) + c
<1>1. ASSUME NEW x \in Int
      PROVE  LET q == (x + c \div 2) \div c
             IN  /\ q \in Int
                 /\ 2 * (q * c) <= 2 * x + c
                 /\ 2 * x <= 2 * (q * c) + c
  <2> DEFINE h == c \div 2
             q == (x + h) \div c
  <2>1. h \in Int /\ 2 * h <= c /\ c <= 2 * h + 1
    OBVIOUS
  <2> HIDE DEF h
  <2>2. x + h \in Int
    BY <2>1
  <2>3. q \in Int /\ q * c <= x + h /\ x + h < q * c + c
    BY <2>2, DivBounds
  <2> HIDE DEF q
  <2>4. q * c \in Int
    BY <2>3
  <2>5. /\ q \in Int
        /\ 2 * (q * c) <= 2 * x + c
        /\ 2 * x <= 2 * (q * c) + c
    BY <2>1, <2>3, <2>4
  <2> QED BY <2>5 DEF q, h
<1> DEFINE q == (a * b + c \div 2) \div c
           r == (-a * b + c \div 2) \div c
<1>2. a * b \in Int /\ -a * b \in Int /\ -a * b = -(a * b)
  OBVIOUS
<1>3. /\ q \in Int
      /\ 2 * (q * c) <= 2 * (a * b) + c
      /\ 2 * (a * b) <= 2 * (q * c) + c
  BY <1>1, <1>2
<1>4. /\ r \in Int
      /\ 2 * (r * c) <= 2 * (-a * b) + c
      /\ 2 * (-a * b) <= 2 * (r * c) + c
  BY <1>1, <1>2
<1>5. Rescale(a, b, c) = IF a >= 0 THEN q ELSE -r
  BY DEF Rescale
<1> HIDE DEF q, r
<1>6. (-r) * c = -(r * c)
  BY <1>4
<1> QED BY <1>2, <1>3, <1>4, <1>5, <1>6

(* Halves go away from zero, so on one side it is less than half a tick. *)
LEMMA RescaleAway ==
  ASSUME NEW a \in Int, NEW b \in Nat \ {0}, NEW c \in Nat \ {0}
  PROVE  /\ a >= 0 => 2 * (a * b) < 2 * (Rescale(a, b, c) * c) + c
         /\ a < 0 => 2 * (Rescale(a, b, c) * c) < 2 * (a * b) + c
<1>1. ASSUME NEW x \in Int
      PROVE  LET q == (x + c \div 2) \div c
             IN  q \in Int /\ 2 * x < 2 * (q * c) + c
  <2> DEFINE h == c \div 2
             q == (x + h) \div c
  <2>1. h \in Int /\ c <= 2 * h + 1
    OBVIOUS
  <2> HIDE DEF h
  <2>2. x + h \in Int
    BY <2>1
  <2>3. q \in Int /\ x + h < q * c + c
    BY <2>2, DivBounds
  <2> HIDE DEF q
  <2>4. q * c \in Int
    BY <2>3
  <2>5. q \in Int /\ 2 * x < 2 * (q * c) + c
    BY <2>1, <2>3, <2>4
  <2> QED BY <2>5 DEF q, h
<1> DEFINE q == (a * b + c \div 2) \div c
           r == (-a * b + c \div 2) \div c
<1>2. a * b \in Int /\ -a * b \in Int /\ -a * b = -(a * b)
  OBVIOUS
<1>3. q \in Int /\ 2 * (a * b) < 2 * (q * c) + c
  BY <1>1, <1>2
<1>4. r \in Int /\ 2 * (-a * b) < 2 * (r * c) + c
  BY <1>1, <1>2
<1>5. Rescale(a, b, c) = IF a >= 0 THEN q ELSE -r
  BY DEF Rescale
<1> HIDE DEF q, r
<1>6. (-r) * c = -(r * c)
  BY <1>4
<1> QED BY <1>2, <1>3, <1>4, <1>5, <1>6

LEMMA DivMono ==
  ASSUME NEW x \in Int, NEW y \in Int, x <= y, NEW c \in Nat \ {0}
  PROVE  x \div c <= y \div c
<1>1. PICK m \in Int : m = x \div c /\ m * c <= x
  BY DivBounds
<1>2. PICK n \in Int : n = y \div c /\ y < n * c + c
  BY DivBounds
<1>3. ASSUME n + 1 <= m
      PROVE  FALSE
  <2>1. (n + 1) * c <= m * c
    BY <1>3, TimesMono
  <2>2. (n + 1) * c = n * c + c /\ n * c \in Int /\ m * c \in Int
    OBVIOUS
  <2> QED BY <2>1, <2>2, <1>1, <1>2
<1>4. m <= n
  BY <1>3
<1> QED BY <1>1, <1>2, <1>4

(* Rounding keeps the order, also of times in different time bases. *)
LEMMA RescaleMono ==
  ASSUME NEW a \in Int, NEW b \in Nat \ {0}, NEW d \in Int, NEW e \in Nat \ {0},
         a * b <= d * e, NEW c \in Nat \ {0}
  PROVE  Rescale(a, b, c) <= Rescale(d, e, c)
<1> DEFINE h == c \div 2
           x == a * b
           y == d * e
<1>1. h \in Nat
  OBVIOUS
<1>2. x \in Int /\ y \in Int /\ -a * b = -x /\ -d * e = -y /\ x <= y
  OBVIOUS
<1>3. (a >= 0 => x >= 0) /\ (a < 0 => x < 0) /\ (d >= 0 => y >= 0) /\ (d < 0 => y < 0)
  <2>1. ASSUME NEW u \in Int, NEW v \in Nat \ {0}
        PROVE  (u >= 0 => u * v >= 0) /\ (u < 0 => u * v < 0)
    OBVIOUS
  <2> QED BY <2>1
<1>4. Rescale(a, b, c) = IF a >= 0 THEN (x + h) \div c ELSE -((-x + h) \div c)
  BY <1>2 DEF Rescale
<1>5. Rescale(d, e, c) = IF d >= 0 THEN (y + h) \div c ELSE -((-y + h) \div c)
  BY <1>2 DEF Rescale
<1> HIDE DEF h, x, y
<1>6. \A z \in Int : z \div c \in Int
  BY DivBounds
<1>7. x + h \in Int /\ y + h \in Int /\ -x + h \in Int /\ -y + h \in Int
  BY <1>1, <1>2
<1>8. CASE a >= 0
  <2>1. d >= 0
    BY <1>2, <1>3, <1>8
  <2>2. (x + h) \div c <= (y + h) \div c
    BY <1>1, <1>2, <1>7, DivMono
  <2> QED BY <2>1, <2>2, <1>4, <1>5, <1>8
<1>9. CASE a < 0 /\ d < 0
  <2>1. (-y + h) \div c <= (-x + h) \div c
    BY <1>1, <1>2, <1>7, DivMono
  <2>2. (-y + h) \div c \in Int /\ (-x + h) \div c \in Int
    BY <1>6, <1>7
  <2>3. Rescale(a, b, c) = -((-x + h) \div c) /\ Rescale(d, e, c) = -((-y + h) \div c)
    BY <1>4, <1>5, <1>9
  <2> QED BY <2>1, <2>2, <2>3
<1>10. CASE a < 0 /\ d >= 0
  <2>1. 0 \div c = 0
    OBVIOUS
  <2>2. 0 <= (-x + h) \div c /\ 0 <= (y + h) \div c
    <3>1. 0 <= -x + h /\ 0 <= y + h
      BY <1>1, <1>2, <1>3, <1>10
    <3> QED BY <3>1, <2>1, <1>7, DivMono
  <2>3. (y + h) \div c \in Int /\ (-x + h) \div c \in Int
    BY <1>6, <1>7
  <2>4. Rescale(a, b, c) = -((-x + h) \div c) /\ Rescale(d, e, c) = (y + h) \div c
    BY <1>4, <1>5, <1>10
  <2> QED BY <2>2, <2>3, <2>4
<1> QED BY <1>8, <1>9, <1>10

(* Times that are at most l apart after rounding are less than l + 1 apart *)
(* before.                                                                 *)
LEMMA RescaledSpan ==
  ASSUME NEW a \in Int, NEW b \in Nat \ {0}, NEW d \in Int, NEW e \in Nat \ {0},
         a * b <= d * e, NEW c \in Nat \ {0}, NEW l \in Int,
         Rescale(d, e, c) - Rescale(a, b, c) <= l
  PROVE  d * e - a * b < (l + 1) * c
<1> DEFINE m == Rescale(a, b, c)
           n == Rescale(d, e, c)
           x == a * b
           y == d * e
<1>1. /\ m \in Int /\ n \in Int
      /\ 2 * (m * c) <= 2 * x + c /\ 2 * y <= 2 * (n * c) + c
  BY RescaleNear
<1>2. /\ a < 0 => 2 * (m * c) < 2 * x + c
      /\ d >= 0 => 2 * y < 2 * (n * c) + c
  BY RescaleAway
<1>3. x \in Int /\ y \in Int /\ x <= y
  OBVIOUS
<1>4. a >= 0 => d >= 0
  <2>1. ASSUME NEW u \in Int, NEW v \in Nat \ {0}
        PROVE  (u >= 0 => u * v >= 0) /\ (u < 0 => u * v < 0)
    OBVIOUS
  <2>2. (a >= 0 => x >= 0) /\ (d < 0 => y < 0)
    BY <2>1
  <2> HIDE DEF x, y
  <2> QED BY <2>2, <1>3
<1> HIDE DEF m, n, x, y
<1>5. n <= m + l
  BY <1>1 DEF m, n
<1>6. n * c <= (m + l) * c
  BY <1>1, <1>5, TimesMono
<1>7. /\ (m + l) * c = m * c + l * c /\ (l + 1) * c = l * c + c
      /\ m * c \in Int /\ n * c \in Int /\ l * c \in Int
  BY <1>1
<1>8. y - x < (l + 1) * c
  BY <1>1, <1>2, <1>3, <1>4, <1>6, <1>7
<1> QED BY <1>8 DEF x, y

(* Two streams shifted by the same offset stay together. *)
LEMMA ShiftsTogether ==
  ASSUME NEW a \in Int, NEW b \in Nat \ {0}, NEW c \in Nat \ {0}, NEW d \in Nat \ {0}
  PROVE  2 * (Rescale(a, b, c) * c - Rescale(a, b, d) * d) <= c + d
<1> DEFINE x == Rescale(a, b, c) * c
           y == Rescale(a, b, d) * d
           m == a * b
<1>1. x \in Int /\ 2 * x <= 2 * m + c
  <2>1. Rescale(a, b, c) \in Int /\ 2 * (Rescale(a, b, c) * c) <= 2 * (a * b) + c
    BY RescaleNear
  <2> QED BY <2>1
<1>2. y \in Int /\ 2 * m <= 2 * y + d
  <2>1. Rescale(a, b, d) \in Int /\ 2 * (a * b) <= 2 * (Rescale(a, b, d) * d) + d
    BY RescaleNear
  <2> QED BY <2>1
<1>3. m \in Int
  OBVIOUS
<1> HIDE DEF x, y, m
<1>4. 2 * (x - y) <= c + d
  BY <1>1, <1>2, <1>3
<1> QED BY <1>4 DEF x, y

(* A packet not before the one that fixed the offset does not become       *)
(* negative.                                                               *)
LEMMA ShiftedNonnegative ==
  ASSUME NEW a \in Int, NEW b \in Nat \ {0}, NEW c \in Nat \ {0}, NEW d \in Int,
         (0 - a) * b <= d * c
  PROVE  d + Rescale(a, b, c) >= 0
<1> DEFINE r == Rescale(a, b, c)
<1>1. r \in Int /\ 2 * (a * b) <= 2 * (r * c) + c
  BY RescaleNear
<1> HIDE DEF r
<1>2. ASSUME d + r <= -1
      PROVE  FALSE
  <2>1. (d + r) * c <= (-1) * c
    BY <1>1, <1>2, TimesMono
  <2>2. /\ (d + r) * c = d * c + r * c /\ (0 - a) * b = -(a * b)
        /\ d * c \in Int /\ r * c \in Int /\ a * b \in Int
    BY <1>1
  <2> QED BY <1>1, <2>1, <2>2
<1> QED BY <1>1, <1>2 DEF r

---------------------------------------------------------------------------
(***************************************************************************)
(* Sequences.                                                              *)
(***************************************************************************)
LEMMA ConcatAt ==
  ASSUME NEW T, NEW a \in Seq(T), NEW b \in Seq(T)
  PROVE  /\ a \o b \in Seq(T) /\ Len(a \o b) = Len(a) + Len(b)
         /\ \A i \in 1..Len(a) : (a \o b)[i] = a[i]
         /\ \A i \in 1..Len(b) : (a \o b)[Len(a) + i] = b[i]
OBVIOUS

LEMMA InsertAtIs ==
  ASSUME NEW T, NEW q \in Seq(T), NEW p \in T, NEW k \in 1..(Len(q) + 1)
  PROVE  /\ InsertAt(q, k, p) \in Seq(T)
         /\ Len(InsertAt(q, k, p)) = Len(q) + 1
         /\ InsertAt(q, k, p)[k] = p
         /\ \A i \in 1..Len(q) : i < k => InsertAt(q, k, p)[i] = q[i]
         /\ \A i \in 1..Len(q) : i >= k => InsertAt(q, k, p)[i + 1] = q[i]
<1> DEFINE a == SubSeq(q, 1, k - 1)
           b == SubSeq(q, k, Len(q))
           r == a \o <<p>>
<1>1. a \in Seq(T) /\ Len(a) = k - 1 /\ \A i \in 1..(k - 1) : a[i] = q[i]
  OBVIOUS
<1>2. b \in Seq(T) /\ Len(b) = Len(q) + 1 - k /\ \A i \in 1..Len(b) : b[i] = q[i + k - 1]
  OBVIOUS
<1> HIDE DEF a, b
<1>3. r \in Seq(T) /\ Len(r) = k /\ r[k] = p /\ \A i \in 1..(k - 1) : r[i] = q[i]
  BY <1>1
<1>4. InsertAt(q, k, p) = r \o b
  BY DEF InsertAt, r, a, b
<1> HIDE DEF r
<1>5. /\ r \o b \in Seq(T) /\ Len(r \o b) = Len(r) + Len(b)
      /\ \A i \in 1..Len(r) : (r \o b)[i] = r[i]
      /\ \A i \in 1..Len(b) : (r \o b)[Len(r) + i] = b[i]
  BY <1>2, <1>3, ConcatAt
<1>6. ASSUME NEW i \in 1..Len(q), i >= k
      PROVE  (r \o b)[i + 1] = q[i]
  <2>1. i + 1 - k \in 1..Len(b)
    BY <1>2, <1>6
  <2>2. (r \o b)[Len(r) + (i + 1 - k)] = b[i + 1 - k]
    BY <2>1, <1>5
  <2>3. b[i + 1 - k] = q[(i + 1 - k) + k - 1]
    BY <2>1, <1>2
  <2>4. Len(r) + (i + 1 - k) = i + 1 /\ (i + 1 - k) + k - 1 = i
    BY <1>3
  <2> QED BY <2>2, <2>3, <2>4
<1>7. ASSUME NEW i \in 1..Len(q), i < k
      PROVE  (r \o b)[i] = q[i]
  BY <1>3, <1>5, <1>7
<1>8. (r \o b)[k] = p
  BY <1>3, <1>5
<1> QED BY <1>2, <1>3, <1>4, <1>5, <1>6, <1>7, <1>8

---------------------------------------------------------------------------
(***************************************************************************)
(* ff_interleave_add_packet() on the list: p is put in place k of q.       *)
(***************************************************************************)
Inserted(r, q, k, p) ==
  /\ k \in 1..(Len(q) + 1)
  /\ r \in Seq(PacketType) /\ Len(r) = Len(q) + 1 /\ r[k] = p
  /\ \A i \in 1..Len(q) : i < k => r[i] = q[i]
  /\ \A i \in 1..Len(q) : i >= k => r[i + 1] = q[i]

LEMMA PacketAt ==
  ASSUME NEW q \in Seq(PacketType), NEW i \in DOMAIN q
  PROVE  q[i] \in PacketType /\ q[i].s \in Streams /\ q[i].id \in Nat /\ q[i].dts \in Int
<1>1. q[i] \in PacketType
  OBVIOUS
<1> QED BY <1>1 DEF PacketType

(* Where the packet in place j was before, and where the one in place i is *)
(* now.                                                                    *)
Src(j, k) == IF j < k THEN j ELSE j - 1
Dst(i, k) == IF i < k THEN i ELSE i + 1

LEMMA InsertedSrc ==
  ASSUME NEW q \in Seq(PacketType), NEW r, NEW k, NEW p, Inserted(r, q, k, p),
         NEW j \in DOMAIN r, j # k
  PROVE  Src(j, k) \in DOMAIN q /\ r[j] = q[Src(j, k)] /\ Src(j, k) \in Nat /\ j \in Nat
<1>1. /\ Len(q) \in Nat /\ j \in 1..(Len(q) + 1) /\ k \in 1..(Len(q) + 1)
      /\ DOMAIN q = 1..Len(q)
  BY DEF Inserted
<1>2. CASE j < k
  BY <1>1, <1>2 DEF Inserted, Src
<1>3. CASE j > k
  <2>1. j - 1 \in 1..Len(q) /\ j - 1 >= k /\ (j - 1) + 1 = j
    BY <1>1, <1>3
  <2>2. r[(j - 1) + 1] = q[j - 1]
    BY <2>1 DEF Inserted
  <2> QED BY <1>1, <1>3, <2>1, <2>2 DEF Src
<1> QED BY <1>1, <1>2, <1>3

LEMMA InsertedDst ==
  ASSUME NEW q \in Seq(PacketType), NEW r, NEW k, NEW p, Inserted(r, q, k, p),
         NEW i \in DOMAIN q
  PROVE  Dst(i, k) \in DOMAIN r /\ r[Dst(i, k)] = q[i] /\ Dst(i, k) # k
BY DEF Inserted, Dst

LEMMA InsertSorted ==
  ASSUME NEW u, NEW q \in Seq(PacketType), NEW r, NEW k, NEW p, Inserted(r, q, k, p),
         Sorted(u, q),
         \A i \in DOMAIN q : i < k => Leq(u, q[i], p),
         \A i \in DOMAIN q : i >= k => Leq(u, p, q[i])
  PROVE  Sorted(u, r)
<1> SUFFICES ASSUME NEW i \in DOMAIN r, NEW j \in DOMAIN r, i < j
             PROVE  Leq(u, r[i], r[j])
  BY DEF Sorted
<1>0. /\ Len(q) \in Nat /\ i \in 1..(Len(q) + 1) /\ j \in 1..(Len(q) + 1)
      /\ k \in 1..(Len(q) + 1) /\ r[k] = p
  BY DEF Inserted
<1>1. CASE i = k
  <2>1. Src(j, k) \in DOMAIN q /\ r[j] = q[Src(j, k)]
    BY <1>0, <1>1, InsertedSrc
  <2>2. Src(j, k) >= k
    BY <1>0, <1>1 DEF Src
  <2> QED BY <1>0, <1>1, <2>1, <2>2
<1>2. CASE j = k
  <2>1. Src(i, k) \in DOMAIN q /\ r[i] = q[Src(i, k)]
    BY <1>0, <1>2, InsertedSrc
  <2>2. Src(i, k) < k
    BY <1>0, <1>2 DEF Src
  <2> QED BY <1>0, <1>2, <2>1, <2>2
<1>3. CASE i # k /\ j # k
  <2>1. Src(i, k) \in DOMAIN q /\ r[i] = q[Src(i, k)]
    BY <1>3, InsertedSrc
  <2>2. Src(j, k) \in DOMAIN q /\ r[j] = q[Src(j, k)]
    BY <1>3, InsertedSrc
  <2>3. Src(i, k) < Src(j, k)
    BY <1>0, <1>3 DEF Src
  <2> QED BY <2>1, <2>2, <2>3 DEF Sorted
<1> QED BY <1>1, <1>2, <1>3

LEMMA InsertEnd ==
  ASSUME NEW q \in Seq(PacketType), NEW r, NEW k, NEW p, Inserted(r, q, k, p),
         NEW e, EndOK(q, e)
  PROVE  EndOK(r, IF k = Len(q) + 1 THEN Name(p) ELSE e)
<1>1. /\ Len(q) \in Nat /\ Len(r) = Len(q) + 1 /\ k \in 1..(Len(q) + 1)
      /\ r # <<>> /\ r[k] = p
  BY DEF Inserted
<1>2. CASE k = Len(q) + 1
  BY <1>1, <1>2 DEF EndOK
<1>3. CASE k # Len(q) + 1
  <2>1. Len(q) \in 1..Len(q) /\ Len(q) >= k /\ q # <<>>
    BY <1>1, <1>3
  <2>2. r[Len(q) + 1] = q[Len(q)]
    BY <2>1 DEF Inserted
  <2> QED BY <1>1, <1>3, <2>1, <2>2 DEF EndOK
<1> QED BY <1>2, <1>3

LEMMA InsertLast ==
  ASSUME NEW q \in Seq(PacketType), NEW r, NEW k, NEW p \in PacketType, Inserted(r, q, k, p),
         NEW l \in [Streams -> NameType], LastOK(q, l),
         \A i \in DOMAIN q : q[i].s = p.s => i < k
  PROVE  LastOK(r, [l EXCEPT ![p.s] = Name(p)])
<1> DEFINE m == [l EXCEPT ![p.s] = Name(p)]
<1>0. /\ Len(q) \in Nat /\ k \in 1..(Len(q) + 1) /\ r[k] = p /\ k \in DOMAIN r
      /\ DOMAIN q = 1..Len(q) /\ DOMAIN r = 1..(Len(q) + 1)
  BY DEF Inserted
<1> SUFFICES ASSUME NEW s \in Streams
             PROVE  \/ m[s] = None /\ \A i \in DOMAIN r : r[i].s # s
                    \/ \E i \in DOMAIN r : IsLast(r, s, i) /\ m[s] = Name(r[i])
  BY DEF LastOK
<1>1. CASE s = p.s
  <2>1. ASSUME NEW j \in DOMAIN r, r[j].s = s
        PROVE  j <= k
    <3>1. CASE j = k
      BY <1>0, <3>1
    <3>2. CASE j # k
      <4>1. Src(j, k) \in DOMAIN q /\ r[j] = q[Src(j, k)] /\ j \in Nat
        BY <3>2, InsertedSrc
      <4>2. Src(j, k) < k
        BY <4>1, <2>1, <1>1
      <4> QED BY <1>0, <4>1, <4>2 DEF Src
    <3> QED BY <3>1, <3>2
  <2>2. IsLast(r, s, k)
    BY <1>0, <1>1, <2>1 DEF IsLast
  <2>3. m[s] = Name(r[k])
    BY <1>0, <1>1
  <2> QED BY <1>0, <2>2, <2>3
<1>2. CASE s # p.s
  <2>0. m[s] = l[s]
    BY <1>2
  <2>1. CASE l[s] = None /\ \A i \in DOMAIN q : q[i].s # s
    <3>1. ASSUME NEW j \in DOMAIN r
          PROVE  r[j].s # s
      <4>1. CASE j = k
        BY <1>0, <1>2, <4>1
      <4>2. CASE j # k
        BY <2>1, <4>2, InsertedSrc
      <4> QED BY <4>1, <4>2
    <3> QED BY <2>0, <2>1, <3>1
  <2>2. CASE \E i \in DOMAIN q : IsLast(q, s, i) /\ l[s] = Name(q[i])
    <3>1. PICK i \in DOMAIN q : IsLast(q, s, i) /\ l[s] = Name(q[i])
      BY <2>2
    <3>2. Dst(i, k) \in DOMAIN r /\ r[Dst(i, k)] = q[i]
      BY InsertedDst
    <3>3. ASSUME NEW j \in DOMAIN r, r[j].s = s
          PROVE  j <= Dst(i, k)
      <4>1. j # k
        BY <1>0, <1>2, <3>3
      <4>2. Src(j, k) \in DOMAIN q /\ r[j] = q[Src(j, k)] /\ j \in Nat
        BY <4>1, InsertedSrc
      <4>3. Src(j, k) <= i
        BY <4>2, <3>1, <3>3 DEF IsLast
      <4> QED BY <1>0, <4>1, <4>2, <4>3 DEF Src, Dst
    <3>4. IsLast(r, s, Dst(i, k))
      BY <3>1, <3>2, <3>3 DEF IsLast
    <3> QED BY <2>0, <3>1, <3>2, <3>4
  <2> QED BY <2>1, <2>2 DEF LastOK
<1> QED BY <1>1, <1>2

LEMMA InsertNumbers ==
  ASSUME NEW q \in Seq(PacketType), NEW r, NEW k, NEW p \in PacketType, Inserted(r, q, k, p),
         NEW t \in [Streams -> Nat], NEW a \in [Streams -> Nat], NumbersOK(q, t, a),
         p.id = a[p.s] + 1,
         \A i \in DOMAIN q : q[i].s = p.s => i < k
  PROVE  NumbersOK(r, t, [a EXCEPT ![p.s] = @ + 1])
<1> DEFINE b == [a EXCEPT ![p.s] = @ + 1]
<1>0. /\ Len(q) \in Nat /\ k \in 1..(Len(q) + 1) /\ r[k] = p /\ k \in DOMAIN r
      /\ DOMAIN q = 1..Len(q) /\ DOMAIN r = 1..(Len(q) + 1)
  BY DEF Inserted
<1>t. \A i \in DOMAIN q : q[i].s \in Streams /\ q[i].id \in Nat
  BY PacketAt
<1>p. p.s \in Streams /\ p.id \in Nat
  BY DEF PacketType
<1>b. /\ b[p.s] = a[p.s] + 1 /\ \A s \in Streams : s # p.s => b[s] = a[s]
      /\ \A s \in Streams : a[s] \in Nat /\ t[s] \in Nat /\ t[s] <= a[s] /\ a[s] <= b[s] /\ b[s] \in Nat
  BY <1>p DEF NumbersOK
<1> HIDE DEF b
<1>1. ASSUME NEW j \in DOMAIN r
      PROVE  t[r[j].s] < r[j].id /\ r[j].id <= b[r[j].s]
  <2>1. CASE j = k
    BY <1>0, <1>b, <1>p, <2>1
  <2>2. CASE j # k
    <3>1. Src(j, k) \in DOMAIN q /\ r[j] = q[Src(j, k)]
      BY <2>2, InsertedSrc
    <3>2. t[r[j].s] < r[j].id /\ r[j].id <= a[r[j].s] /\ r[j].s \in Streams /\ r[j].id \in Nat
      BY <3>1, <1>t DEF NumbersOK
    <3> QED BY <3>2, <1>b
  <2> QED BY <2>1, <2>2
<1>2. ASSUME NEW i \in DOMAIN r, NEW j \in DOMAIN r, i < j, r[i].s = r[j].s
      PROVE  r[i].id < r[j].id
  <2>1. CASE j = k
    <3>1. i # k
      BY <1>0, <1>2, <2>1
    <3>2. Src(i, k) \in DOMAIN q /\ r[i] = q[Src(i, k)]
      BY <3>1, InsertedSrc
    <3>3. r[i].id <= a[p.s] /\ r[i].id \in Nat
      BY <3>2, <1>t, <1>0, <1>2, <2>1 DEF NumbersOK
    <3> QED BY <3>3, <1>0, <2>1, <1>p, <1>b
  <2>2. CASE i = k
    <3>1. j # k
      BY <1>0, <1>2, <2>2
    <3>2. Src(j, k) \in DOMAIN q /\ r[j] = q[Src(j, k)]
      BY <3>1, InsertedSrc
    <3>3. Src(j, k) < k
      BY <3>2, <1>0, <1>2, <2>2
    <3> QED BY <1>0, <1>2, <2>2, <3>3 DEF Src
  <2>3. CASE i # k /\ j # k
    <3>1. Src(i, k) \in DOMAIN q /\ r[i] = q[Src(i, k)]
      BY <2>3, InsertedSrc
    <3>2. Src(j, k) \in DOMAIN q /\ r[j] = q[Src(j, k)]
      BY <2>3, InsertedSrc
    <3>3. Src(i, k) < Src(j, k)
      BY <1>0, <1>2, <2>3 DEF Src
    <3> QED BY <1>2, <3>1, <3>2, <3>3 DEF NumbersOK
  <2> QED BY <2>1, <2>2, <2>3
<1>3. ASSUME NEW s \in Streams, NEW n \in (t[s] + 1)..b[s]
      PROVE  \E i \in DOMAIN r : r[i].s = s /\ r[i].id = n
  <2>1. CASE s = p.s /\ n = a[s] + 1
    BY <1>0, <2>1
  <2>2. CASE ~(s = p.s /\ n = a[s] + 1)
    <3>1. n \in (t[s] + 1)..a[s]
      BY <1>b, <2>2
    <3>2. PICK i \in DOMAIN q : q[i].s = s /\ q[i].id = n
      BY <3>1 DEF NumbersOK
    <3> QED BY <3>2, InsertedDst
  <2> QED BY <2>1, <2>2
<1> QED BY <1>b, <1>1, <1>2, <1>3 DEF NumbersOK, b

LEMMA InsertClocked ==
  ASSUME NEW u, NEW q \in Seq(PacketType), NEW r, NEW k, NEW p \in PacketType,
         Inserted(r, q, k, p),
         NEW c \in [Streams -> Int], ClockedOK(u, q, c),
         c[p.s] <= p.dts, TimeIn(u, p) > NOPTS
  PROVE  ClockedOK(u, r, [c EXCEPT ![p.s] = p.dts])
<1> DEFINE d == [c EXCEPT ![p.s] = p.dts]
<1>0. r[k] = p /\ p.s \in Streams /\ p.dts \in Int
  BY DEF Inserted, PacketType
<1>1. /\ d[p.s] = p.dts
      /\ \A s \in Streams : c[s] \in Int /\ d[s] \in Int /\ c[s] <= d[s]
  BY <1>0
<1> HIDE DEF d
<1> SUFFICES ASSUME NEW j \in DOMAIN r
             PROVE  r[j].dts <= d[r[j].s] /\ TimeIn(u, r[j]) > NOPTS
  BY DEF ClockedOK, d
<1>2. CASE j = k
  BY <1>0, <1>1, <1>2
<1>3. CASE j # k
  <2>1. Src(j, k) \in DOMAIN q /\ r[j] = q[Src(j, k)]
    BY <1>3, InsertedSrc
  <2>2. r[j].dts <= c[r[j].s] /\ TimeIn(u, r[j]) > NOPTS
    BY <2>1 DEF ClockedOK
  <2>3. r[j].dts \in Int /\ r[j].s \in Streams
    BY <2>1, PacketAt
  <2> QED BY <1>1, <2>2, <2>3
<1> QED BY <1>2, <1>3

---------------------------------------------------------------------------
(***************************************************************************)
(* ff_interleave_packet_per_dts() on the list: the first packet leaves.    *)
(***************************************************************************)
LEMMA TailAt ==
  ASSUME NEW T, NEW q \in Seq(T), q # <<>>
  PROVE  /\ Tail(q) \in Seq(T) /\ Len(q) \in Nat \ {0} /\ Len(Tail(q)) = Len(q) - 1
         /\ 1 \in DOMAIN q
         /\ \A j \in DOMAIN Tail(q) : j \in Nat \ {0} /\ j + 1 \in DOMAIN q /\ Tail(q)[j] = q[j + 1]
         /\ \A i \in DOMAIN q : i # 1 => i - 1 \in DOMAIN Tail(q) /\ Tail(q)[i - 1] = q[i]
OBVIOUS

LEMMA EmptyIffLen ==
  ASSUME NEW T, NEW q \in Seq(T)
  PROVE  q = <<>> <=> Len(q) = 0
OBVIOUS

(* A stream's numbers tell its packets apart. *)
LEMMA NamesUnique ==
  ASSUME NEW q \in Seq(PacketType), NEW t \in [Streams -> Nat], NEW a \in [Streams -> Nat],
         NumbersOK(q, t, a),
         NEW i \in DOMAIN q, NEW j \in DOMAIN q, Name(q[i]) = Name(q[j])
  PROVE  i = j
<1>1. q[i].s = q[j].s /\ q[i].id = q[j].id
  BY DEF Name
<1>2. q[i].id \in Nat /\ q[j].id \in Nat /\ i \in Nat /\ j \in Nat
  BY PacketAt
<1>3. ~(i < j) /\ ~(j < i)
  BY <1>1, <1>2 DEF NumbersOK
<1> QED BY <1>2, <1>3

LEMMA TailSorted ==
  ASSUME NEW u, NEW q \in Seq(PacketType), q # <<>>, Sorted(u, q)
  PROVE  Sorted(u, Tail(q))
<1> SUFFICES ASSUME NEW i \in DOMAIN Tail(q), NEW j \in DOMAIN Tail(q), i < j
             PROVE  Leq(u, Tail(q)[i], Tail(q)[j])
  BY DEF Sorted
<1>1. /\ i \in Nat /\ j \in Nat /\ i + 1 \in DOMAIN q /\ j + 1 \in DOMAIN q
      /\ Tail(q)[i] = q[i + 1] /\ Tail(q)[j] = q[j + 1]
  BY TailAt
<1> QED BY <1>1 DEF Sorted

LEMMA TailEnd ==
  ASSUME NEW q \in Seq(PacketType), q # <<>>, NEW e, EndOK(q, e)
  PROVE  EndOK(Tail(q), IF Len(q) = 1 THEN None ELSE e)
<1> DEFINE r == Tail(q)
<1>1. /\ Len(q) \in Nat \ {0} /\ Len(r) = Len(q) - 1 /\ r \in Seq(PacketType)
      /\ \A j \in DOMAIN r : r[j] = q[j + 1]
  BY TailAt
<1> HIDE DEF r
<1>2. CASE Len(q) = 1
  <2>1. r = <<>>
    BY <1>1, <1>2, EmptyIffLen
  <2> QED BY <1>2, <2>1 DEF EndOK, r
<1>3. CASE Len(q) # 1
  <2>1. Len(r) \in DOMAIN r /\ Len(r) + 1 = Len(q) /\ Len(r) # 0
    BY <1>1, <1>3
  <2>2. r # <<>>
    BY <1>1, <2>1, EmptyIffLen
  <2>3. r[Len(r)] = q[Len(q)]
    BY <1>1, <2>1
  <2> QED BY <1>3, <2>2, <2>3 DEF EndOK, r
<1> QED BY <1>2, <1>3

LEMMA TailLast ==
  ASSUME NEW q \in Seq(PacketType), q # <<>>,
         NEW t \in [Streams -> Nat], NEW a \in [Streams -> Nat], NumbersOK(q, t, a),
         NEW l \in [Streams -> NameType], LastOK(q, l)
  PROVE  LastOK(Tail(q), IF l[q[1].s] = Name(q[1]) THEN [l EXCEPT ![q[1].s] = None] ELSE l)
<1> DEFINE p == q[1]
           r == Tail(q)
           m == IF l[p.s] = Name(p) THEN [l EXCEPT ![p.s] = None] ELSE l
<1>0. /\ Len(q) \in Nat \ {0} /\ 1 \in DOMAIN q
      /\ \A j \in DOMAIN r : j \in Nat \ {0} /\ j + 1 \in DOMAIN q /\ r[j] = q[j + 1]
      /\ \A i \in DOMAIN q : i # 1 => i - 1 \in DOMAIN r /\ r[i - 1] = q[i]
      /\ DOMAIN q = 1..Len(q)
  BY TailAt
<1>p. p.s \in Streams /\ Name(p) # None
  BY <1>0, PacketAt, StreamsAssumption DEF Name, None, Streams
<1> HIDE DEF r, p
<1> SUFFICES ASSUME NEW s \in Streams
             PROVE  \/ m[s] = None /\ \A i \in DOMAIN r : r[i].s # s
                    \/ \E i \in DOMAIN r : IsLast(r, s, i) /\ m[s] = Name(r[i])
  BY DEF LastOK, r, p
<1>1. CASE l[s] = None /\ \A i \in DOMAIN q : q[i].s # s
  <2>1. \A j \in DOMAIN r : r[j].s # s
    BY <1>0, <1>1
  <2>2. m[s] = None
    BY <1>1
  <2> QED BY <2>1, <2>2
<1>2. CASE \E i \in DOMAIN q : IsLast(q, s, i) /\ l[s] = Name(q[i])
  <2>1. PICK i \in DOMAIN q : IsLast(q, s, i) /\ l[s] = Name(q[i])
    BY <1>2
  <2>2. CASE i = 1
    <3>1. s = p.s /\ l[p.s] = Name(p)
      BY <2>1, <2>2 DEF IsLast, p
    <3>2. m[s] = None
      BY <3>1
    <3>3. \A j \in DOMAIN r : r[j].s # s
      BY <1>0, <2>1, <2>2 DEF IsLast
    <3> QED BY <3>2, <3>3
  <2>3. CASE i # 1
    <3>1. m[s] = l[s]
      <4>1. CASE l[p.s] = Name(p)
        <5>1. s # p.s
          <6> SUFFICES ASSUME s = p.s PROVE FALSE
            OBVIOUS
          <6>1. Name(q[i]) = Name(q[1])
            BY <2>1, <4>1 DEF p
          <6> QED BY <1>0, <2>3, <6>1, NamesUnique
        <5> QED BY <5>1, <4>1
      <4>2. CASE l[p.s] # Name(p)
        BY <4>2
      <4> QED BY <4>1, <4>2
    <3>2. i - 1 \in DOMAIN r /\ r[i - 1] = q[i]
      BY <1>0, <2>3
    <3>3. ASSUME NEW j \in DOMAIN r, r[j].s = s
          PROVE  j <= i - 1
      <4>1. j + 1 <= i
        BY <1>0, <2>1, <3>3 DEF IsLast
      <4> QED BY <1>0, <4>1
    <3>4. IsLast(r, s, i - 1)
      BY <2>1, <3>2, <3>3 DEF IsLast
    <3> QED BY <2>1, <3>1, <3>2, <3>4
  <2> QED BY <2>2, <2>3
<1> QED BY <1>1, <1>2 DEF LastOK

(* The packet that leaves is the next one of its stream. *)
LEMMA FirstIsNext ==
  ASSUME NEW q \in Seq(PacketType), q # <<>>,
         NEW t \in [Streams -> Nat], NEW a \in [Streams -> Nat], NumbersOK(q, t, a)
  PROVE  q[1].s \in Streams /\ q[1].id = t[q[1].s] + 1
<1>0. 1 \in DOMAIN q /\ DOMAIN q \subseteq Nat \ {0}
  BY TailAt
<1> DEFINE s == q[1].s
<1>1. s \in Streams /\ q[1].id \in Nat
  BY <1>0, PacketAt
<1>2. t[s] \in Nat /\ a[s] \in Nat /\ t[s] < q[1].id /\ q[1].id <= a[s]
  BY <1>0, <1>1 DEF NumbersOK
<1>3. t[s] + 1 \in (t[s] + 1)..a[s]
  BY <1>1, <1>2
<1>4. PICK i \in DOMAIN q : q[i].s = s /\ q[i].id = t[s] + 1
  BY <1>1, <1>3 DEF NumbersOK
<1>5. CASE i = 1
  BY <1>1, <1>4, <1>5
<1>6. CASE i # 1
  <2>1. q[1].id < q[i].id
    BY <1>0, <1>4, <1>6 DEF NumbersOK
  <2> QED BY <1>1, <1>2, <1>4, <2>1
<1> QED BY <1>5, <1>6

LEMMA TailNumbers ==
  ASSUME NEW q \in Seq(PacketType), q # <<>>,
         NEW t \in [Streams -> Nat], NEW a \in [Streams -> Nat], NumbersOK(q, t, a)
  PROVE  NumbersOK(Tail(q), [t EXCEPT ![q[1].s] = q[1].id], a)
<1> DEFINE p == q[1]
           r == Tail(q)
           w == [t EXCEPT ![p.s] = p.id]
<1>0. /\ 1 \in DOMAIN q
      /\ \A j \in DOMAIN r : j \in Nat \ {0} /\ j + 1 \in DOMAIN q /\ r[j] = q[j + 1]
      /\ \A i \in DOMAIN q : i # 1 => i - 1 \in DOMAIN r /\ r[i - 1] = q[i]
      /\ DOMAIN q \subseteq Nat
  BY TailAt
<1>p. p.s \in Streams /\ p.id = t[p.s] + 1 /\ p.id <= a[p.s]
  <2>1. q[1].s \in Streams /\ q[1].id = t[q[1].s] + 1
    BY FirstIsNext
  <2>2. q[1].id <= a[q[1].s]
    BY <1>0 DEF NumbersOK
  <2> QED BY <2>1, <2>2
<1>t. \A i \in DOMAIN q : q[i].s \in Streams /\ q[i].id \in Nat
  BY PacketAt
<1>w. /\ w[p.s] = t[p.s] + 1 /\ \A s \in Streams : s # p.s => w[s] = t[s]
      /\ \A s \in Streams : t[s] \in Nat /\ w[s] \in Nat /\ a[s] \in Nat /\ w[s] <= a[s]
  BY <1>p DEF NumbersOK
<1>q. q[1] = p
  OBVIOUS
<1> HIDE DEF w, r, p
<1>1. ASSUME NEW j \in DOMAIN r
      PROVE  w[r[j].s] < r[j].id /\ r[j].id <= a[r[j].s]
  <2>1. /\ j + 1 \in DOMAIN q /\ r[j] = q[j + 1] /\ 1 < j + 1
        /\ t[r[j].s] < r[j].id /\ r[j].id <= a[r[j].s] /\ r[j].s \in Streams /\ r[j].id \in Nat
    BY <1>0, <1>t DEF NumbersOK
  <2>2. CASE r[j].s = p.s
    <3>1. p.id < r[j].id
      BY <1>0, <1>q, <2>1, <2>2 DEF NumbersOK
    <3> QED BY <1>w, <1>p, <2>1, <2>2, <3>1
  <2>3. CASE r[j].s # p.s
    BY <1>w, <2>1, <2>3
  <2> QED BY <2>2, <2>3
<1>2. ASSUME NEW i \in DOMAIN r, NEW j \in DOMAIN r, i < j, r[i].s = r[j].s
      PROVE  r[i].id < r[j].id
  <2>1. /\ i \in Nat /\ j \in Nat /\ i + 1 \in DOMAIN q /\ j + 1 \in DOMAIN q
        /\ r[i] = q[i + 1] /\ r[j] = q[j + 1] /\ i + 1 < j + 1
    BY <1>0, <1>2
  <2> QED BY <2>1, <1>2 DEF NumbersOK
<1>3. ASSUME NEW s \in Streams, NEW n \in (w[s] + 1)..a[s]
      PROVE  \E i \in DOMAIN r : r[i].s = s /\ r[i].id = n
  <2>1. n \in (t[s] + 1)..a[s] /\ n > w[s]
    BY <1>w, <1>p
  <2>2. PICK i \in DOMAIN q : q[i].s = s /\ q[i].id = n
    BY <2>1 DEF NumbersOK
  <2>3. i # 1
    BY <1>q, <1>p, <1>w, <2>1, <2>2
  <2> QED BY <1>0, <2>2, <2>3
<1> QED BY <1>w, <1>1, <1>2, <1>3 DEF NumbersOK, w, r, p

LEMMA TailClocked ==
  ASSUME NEW u, NEW q \in Seq(PacketType), q # <<>>, NEW c, ClockedOK(u, q, c)
  PROVE  ClockedOK(u, Tail(q), c)
BY TailAt DEF ClockedOK

---------------------------------------------------------------------------
(***************************************************************************)
(* The order of packets.                                                   *)
(***************************************************************************)
LEMMA SetupFacts ==
  ASSUME setup \in Setups
  PROVE  /\ setup.tb \in [Streams -> Nat \ {0}]
         /\ \A s \in Streams : setup.tb[s] \in Nat \ {0}
         /\ \A s \in Streams : setup.delay[s] \in {0, 1}
         /\ setup.delta \in Nat /\ setup.direct \in BOOLEAN
         /\ setup.avoid \in {"no", "nonnegative", "zero"}
         /\ \A s \in Streams : setup.first[s] \in SUBSET Int
         /\ \A s \in Streams : \A ts \in setup.first[s] : (ts - 1) * setup.tb[s] > NOPTS
<1>1. setup \in SetupType
  BY SetupsAssumption
<1> QED BY <1>1, TimestampsAssumption DEF SetupType

LEMMA TimeInt ==
  ASSUME setup \in Setups, NEW p \in PacketType
  PROVE  /\ TimeIn(setup, p) \in Int /\ Time(p) = TimeIn(setup, p)
         /\ p.s \in Streams /\ p.s \in Int /\ p.dts \in Int /\ p.id \in Nat
<1>1. p.s \in Streams /\ p.dts \in Int /\ p.id \in Nat
  BY DEF PacketType
<1>2. p.s \in Int
  BY <1>1, StreamsAssumption DEF Streams
<1>3. setup.tb[p.s] \in Nat \ {0}
  BY <1>1, SetupFacts
<1> QED BY <1>1, <1>2, <1>3 DEF TimeIn, Time

(* Microseconds keep the order of time, and limit the distance. *)
LEMMA MicrosIs ==
  ASSUME setup \in Setups, NEW p \in PacketType, NEW r \in PacketType, Time(p) <= Time(r)
  PROVE  /\ Micros(p) \in Int /\ Micros(r) \in Int /\ Micros(p) <= Micros(r)
         /\ \A l \in Int :
              Micros(r) - Micros(p) <= l => Time(r) - Time(p) < (l + 1) * Microsecond
<1>1. PICK a \in Int, b \in Nat \ {0} : a = p.dts /\ b = setup.tb[p.s]
  BY TimeInt, SetupFacts
<1>2. PICK d \in Int, e \in Nat \ {0} : d = r.dts /\ e = setup.tb[r.s]
  BY TimeInt, SetupFacts
<1>3. Time(p) = a * b /\ Time(r) = d * e /\ a * b <= d * e
  BY <1>1, <1>2 DEF Time
<1>4. Micros(p) = Rescale(a, b, Microsecond) /\ Micros(r) = Rescale(d, e, Microsecond)
  BY <1>1, <1>2 DEF Micros
<1>5. Microsecond \in Nat \ {0}
  BY MicrosecondAssumption
<1>6. Micros(p) \in Int /\ Micros(r) \in Int
  BY <1>4, <1>5, RescaleNear
<1>7. Micros(p) <= Micros(r)
  BY <1>3, <1>4, <1>5, RescaleMono
<1>8. ASSUME NEW l \in Int, Micros(r) - Micros(p) <= l
      PROVE  Time(r) - Time(p) < (l + 1) * Microsecond
  <2>1. Rescale(d, e, Microsecond) - Rescale(a, b, Microsecond) <= l
    BY <1>4, <1>8
  <2>2. d * e - a * b < (l + 1) * Microsecond
    BY <2>1, <1>3, <1>5, RescaledSpan
  <2> QED BY <2>2, <1>3
<1> QED BY <1>6, <1>7, <1>8

(* interleave_compare_dts() is a total order up to ties within a stream. *)
LEMMA AfterIsNotLeq ==
  ASSUME setup \in Setups, NEW p \in PacketType, NEW r \in PacketType
  PROVE  After(p, r) <=> ~Leq(setup, p, r)
<1>1. /\ TimeIn(setup, p) \in Int /\ Time(p) = TimeIn(setup, p) /\ p.s \in Int
      /\ TimeIn(setup, r) \in Int /\ Time(r) = TimeIn(setup, r) /\ r.s \in Int
  BY TimeInt
<1> QED BY <1>1 DEF After, Leq

LEMMA LeqTransitive ==
  ASSUME setup \in Setups, NEW p \in PacketType, NEW r \in PacketType, NEW x \in PacketType,
         Leq(setup, p, r), Leq(setup, r, x)
  PROVE  Leq(setup, p, x)
<1>1. /\ TimeIn(setup, p) \in Int /\ p.s \in Int
      /\ TimeIn(setup, r) \in Int /\ r.s \in Int
      /\ TimeIn(setup, x) \in Int /\ x.s \in Int
  BY TimeInt
<1> QED BY <1>1 DEF Leq

LEMMA LeqTotal ==
  ASSUME setup \in Setups, NEW p \in PacketType, NEW r \in PacketType
  PROVE  /\ Leq(setup, p, r) \/ Leq(setup, r, p)
         /\ Leq(setup, p, r) => TimeIn(setup, p) <= TimeIn(setup, r)
<1>1. /\ TimeIn(setup, p) \in Int /\ p.s \in Int
      /\ TimeIn(setup, r) \in Int /\ r.s \in Int
  BY TimeInt
<1> QED BY <1>1 DEF Leq

LEMMA LeqSameStream ==
  ASSUME setup \in Setups, NEW p \in PacketType, NEW r \in PacketType,
         p.s = r.s, p.dts <= r.dts
  PROVE  Leq(setup, p, r)
<1>1. /\ p.s \in Streams /\ p.dts \in Int /\ r.dts \in Int /\ p.s \in Int
      /\ TimeIn(setup, p) \in Int /\ TimeIn(setup, r) \in Int
  BY TimeInt
<1>2. TimeIn(setup, p) <= TimeIn(setup, r)
  BY <1>1, SetupFacts, TimesMono DEF TimeIn
<1> QED BY <1>1, <1>2 DEF Leq

(* The first packet is the earliest. *)
LEMMA FirstEarliest ==
  ASSUME setup \in Setups, NEW q \in Seq(PacketType), Sorted(setup, q), NEW i \in DOMAIN q
  PROVE  TimeIn(setup, q[1]) <= TimeIn(setup, q[i])
<1>1. 1 \in DOMAIN q /\ i \in Nat /\ 1 <= i
  OBVIOUS
<1>2. q[1] \in PacketType /\ q[i] \in PacketType
  BY <1>1, PacketAt
<1>3. CASE i = 1
  <2>1. TimeIn(setup, q[1]) \in Int
    BY <1>2, TimeInt
  <2> QED BY <1>3, <2>1
<1>4. CASE 1 < i
  BY <1>1, <1>2, <1>4, LeqTotal DEF Sorted
<1> QED BY <1>1, <1>3, <1>4

---------------------------------------------------------------------------
(***************************************************************************)
(* compute_pkt_fields2(): the dts, given or guessed, does not go back.     *)
(***************************************************************************)
LEMMA DtsGrows ==
  ASSUME MuxTypeOK, ClockInv, NEW s \in Streams, NEW ts \in Timestamps(s)
  PROVE  /\ Dts(s, ts) \in Int
         /\ cur_dts[s] <= Dts(s, ts)
         /\ Dts(s, ts) * setup.tb[s] > NOPTS
         /\ Dts(s, ts) # NOPTS
         /\ PtsBuffer(s, ts) \in [Streams -> Int]
         /\ setup.delay[s] = 1 => PtsBuffer(s, ts)[s] >= Dts(s, ts) /\ PtsBuffer(s, ts)[s] # NOPTS
         /\ \A r \in Streams : r # s => PtsBuffer(s, ts)[r] = pts_buffer[r]
<1> DEFINE t == setup.tb[s]
           c == cur_dts[s]
           h == HeldPts(s, ts)
<1>1. /\ setup \in Setups /\ c \in Int /\ pts_buffer \in [Streams -> Int]
      /\ pts_buffer[s] \in Int /\ NOPTS \in Int /\ NOPTS < 0
  BY DEF MuxTypeOK, NOPTS
<1>2. t \in Nat \ {0} /\ setup.delay[s] \in {0, 1}
  BY <1>1, SetupFacts
<1>3. /\ c # NOPTS => c * t > NOPTS
      /\ setup.delay[s] = 1 => pts_buffer[s] >= c /\ (pts_buffer[s] = NOPTS <=> c = NOPTS)
  BY DEF ClockInv, Clock
<1>4. ts \in Int /\ (c = NOPTS => (ts - 1) * t > NOPTS) /\ (c # NOPTS => ts >= c)
  <2>1. CASE c = NOPTS
    <3>1. ts \in setup.first[s]
      BY <2>1 DEF Timestamps
    <3> QED BY <1>1, <2>1, <3>1, SetupFacts
  <2>2. CASE c # NOPTS
    <3>1. PICK n \in Steps : ts = c + n
      BY <2>2 DEF Timestamps
    <3>2. n \in Nat
      BY TimestampsAssumption
    <3> QED BY <1>1, <2>2, <3>1, <3>2
  <2> QED BY <2>1, <2>2
<1>5. h \in Int /\ (c = NOPTS /\ setup.delay[s] = 1 => h = ts - 1)
        /\ (c # NOPTS /\ setup.delay[s] = 1 => h >= c)
  BY <1>1, <1>3, <1>4 DEF HeldPts
<1> HIDE DEF h
<1>6. ASSUME NEW d \in Int, c = NOPTS => d >= ts - 1, c # NOPTS => d >= c
      PROVE  c <= d /\ d * t > NOPTS /\ d # NOPTS
  <2> HIDE DEF t, c
  <2>1. d * t > NOPTS
    <3>1. CASE c = NOPTS
      <4>1. (ts - 1) * t <= d * t
        BY <1>2, <1>4, <1>6, <3>1, TimesMono
      <4>2. (ts - 1) * t \in Int /\ d * t \in Int
        BY <1>2, <1>4
      <4> QED BY <1>1, <1>4, <3>1, <4>1, <4>2
    <3>2. CASE c # NOPTS
      <4>1. c * t <= d * t
        BY <1>1, <1>2, <1>6, <3>2, TimesMono
      <4>2. c * t \in Int /\ d * t \in Int
        BY <1>1, <1>2
      <4> QED BY <1>1, <1>3, <3>2, <4>1, <4>2
    <3> QED BY <3>1, <3>2
  <2>2. d > NOPTS
    <3> SUFFICES ASSUME d <= NOPTS PROVE FALSE
      BY <1>1
    <3>1. d * t <= NOPTS * t
      BY <1>1, <1>2, TimesMono
    <3>2. NOPTS * t <= NOPTS
      BY <1>2 DEF NOPTS
    <3>3. d * t \in Int /\ NOPTS * t \in Int
      BY <1>1, <1>2
    <3> QED BY <1>1, <2>1, <3>1, <3>2, <3>3
  <2> QED BY <1>1, <1>6, <2>1, <2>2
<1>7. CASE setup.delay[s] = 0
  <2>1. Dts(s, ts) = ts /\ PtsBuffer(s, ts) = pts_buffer
    BY <1>7 DEF Dts, PtsBuffer
  <2>2. c <= ts /\ ts * t > NOPTS /\ ts # NOPTS
    BY <1>4, <1>6
  <2> QED BY <1>1, <1>4, <1>7, <2>1, <2>2
<1>8. CASE setup.delay[s] = 1
  <2> DEFINE d == Min({ts, h})
             e == Max({ts, h})
  <2>1. d = IF ts <= h THEN ts ELSE h
    BY <1>4, <1>5, MinOfTwo
  <2>2. e = IF ts >= h THEN ts ELSE h
    BY <1>4, <1>5, MaxOfTwo
  <2>3. /\ Dts(s, ts) = d
        /\ PtsBuffer(s, ts) = [pts_buffer EXCEPT ![s] = e]
    BY <1>8 DEF Dts, PtsBuffer, h
  <2> HIDE DEF d, e
  <2>4. /\ d \in Int /\ e \in Int /\ d <= e
        /\ c = NOPTS => d >= ts - 1
        /\ c # NOPTS => d >= c
    BY <1>4, <1>5, <1>8, <2>1, <2>2
  <2>5. c <= d /\ d * t > NOPTS /\ d # NOPTS
    BY <1>6, <2>4
  <2>6. c <= e /\ e # NOPTS
    BY <1>1, <1>6, <2>4
  <2> QED BY <1>1, <1>8, <2>3, <2>4, <2>5, <2>6
<1> QED BY <1>2, <1>7, <1>8

---------------------------------------------------------------------------
(***************************************************************************)
(* ff_interleave_add_packet(): where the search begins and ends.           *)
(***************************************************************************)
LEMMA PlaceIs ==
  ASSUME MuxTypeOK, QueueInv, NEW i \in DOMAIN packet_buffer
  PROVE  Place(Name(packet_buffer[i])) = i
<1> DEFINE q == packet_buffer
           S == {j \in DOMAIN q : Name(q[j]) = Name(q[i])} \cup {Len(q) + 1}
<1>1. /\ q \in Seq(PacketType) /\ taken \in [Streams -> Nat] /\ accepted \in [Streams -> Nat]
      /\ NumbersOK(q, taken, accepted)
  BY DEF MuxTypeOK, QueueInv
<1>2. Len(q) \in Nat /\ DOMAIN q = 1..Len(q)
  BY <1>1
<1>3. S \in SUBSET Int /\ i \in S
  BY <1>2
<1>4. ASSUME NEW y \in S
      PROVE  i <= y
  <2>1. CASE y = Len(q) + 1
    BY <1>2, <2>1
  <2>2. CASE y \in DOMAIN q /\ Name(q[y]) = Name(q[i])
    <3>1. y = i
      BY <1>1, <2>2, NamesUnique
    <3> QED BY <1>2, <3>1
  <2> QED BY <2>1, <2>2
<1>5. Min(S) = i
  BY <1>3, <1>4, MinIs
<1> QED BY <1>5 DEF Place

LEMMA SearchFromIs ==
  ASSUME MuxTypeOK, QueueInv, NEW p \in PacketType, cur_dts[p.s] <= p.dts
  PROVE  /\ SearchFrom(p.s) \in 1..(Len(packet_buffer) + 1)
         /\ \A i \in DOMAIN packet_buffer :
              /\ packet_buffer[i].s = p.s => i < SearchFrom(p.s)
              /\ i < SearchFrom(p.s) => Leq(setup, packet_buffer[i], p)
<1> DEFINE q == packet_buffer
<1>1. /\ q \in Seq(PacketType) /\ setup \in Setups /\ cur_dts \in [Streams -> Int]
      /\ Sorted(setup, q) /\ LastOK(q, last) /\ ClockedOK(setup, q, cur_dts)
  BY DEF MuxTypeOK, QueueInv
<1>2. Len(q) \in Nat /\ DOMAIN q = 1..Len(q)
  BY <1>1
<1>3. p.s \in Streams /\ p.dts \in Int
  BY DEF PacketType
<1>4. CASE last[p.s] = None /\ \A i \in DOMAIN q : q[i].s # p.s
  <2>1. SearchFrom(p.s) = 1
    BY <1>4 DEF SearchFrom
  <2> QED BY <1>2, <1>4, <2>1
<1>5. CASE \E i \in DOMAIN q : IsLast(q, p.s, i) /\ last[p.s] = Name(q[i])
  <2>1. PICK k \in DOMAIN q : IsLast(q, p.s, k) /\ last[p.s] = Name(q[k])
    BY <1>5
  <2>2. q[k] \in PacketType /\ q[k].s \in Streams /\ q[k].dts \in Int
    BY <1>1, PacketAt
  <2>3. last[p.s] # None
    BY <2>1, <2>2, StreamsAssumption DEF Name, None, Streams
  <2>4. SearchFrom(p.s) = k + 1
    BY <2>1, <2>3, PlaceIs DEF SearchFrom
  <2>5. Leq(setup, q[k], p)
    <3>1. q[k].s = p.s /\ q[k].dts <= cur_dts[p.s] /\ cur_dts[p.s] \in Int
      BY <1>1, <1>3, <2>1 DEF IsLast, ClockedOK
    <3>2. q[k].dts <= p.dts
      BY <1>3, <2>2, <3>1
    <3> QED BY <1>1, <2>2, <3>1, <3>2, LeqSameStream
  <2>6. ASSUME NEW i \in DOMAIN q, i < k + 1
        PROVE  Leq(setup, q[i], p)
    <3>1. CASE i = k
      BY <2>5, <3>1
    <3>2. CASE i < k
      <4>1. Leq(setup, q[i], q[k]) /\ q[i] \in PacketType
        BY <1>1, <3>2, PacketAt DEF Sorted
      <4> QED BY <1>1, <2>2, <2>5, <4>1, LeqTransitive
    <3> QED BY <1>2, <2>6, <3>1, <3>2
  <2>7. \A i \in DOMAIN q : q[i].s = p.s => i < k + 1
    BY <1>2, <2>1 DEF IsLast
  <2> QED BY <1>2, <2>4, <2>6, <2>7
<1> QED BY <1>1, <1>3, <1>4, <1>5 DEF LastOK

(* The place found keeps the list sorted, and is behind every packet of    *)
(* the stream.                                                             *)
LEMMA AddPlace ==
  ASSUME MuxTypeOK, QueueInv, NEW p \in PacketType, cur_dts[p.s] <= p.dts, AddPacket(p)
  PROVE  \E k \in Nat :
           /\ Inserted(packet_buffer', packet_buffer, k, p)
           /\ \A i \in DOMAIN packet_buffer :
                /\ packet_buffer[i].s = p.s => i < k
                /\ i < k => Leq(setup, packet_buffer[i], p)
                /\ i >= k => Leq(setup, p, packet_buffer[i])
           /\ packet_buffer_end' =
                IF k = Len(packet_buffer) + 1 THEN Name(p) ELSE packet_buffer_end
<1> DEFINE q == packet_buffer
           f == SearchFrom(p.s)
<1>1. /\ q \in Seq(PacketType) /\ setup \in Setups /\ Sorted(setup, q)
      /\ EndOK(q, packet_buffer_end)
  BY DEF MuxTypeOK, QueueInv
<1>2. Len(q) \in Nat /\ DOMAIN q = 1..Len(q)
  BY <1>1
<1>3. /\ f \in 1..(Len(q) + 1)
      /\ \A i \in DOMAIN q : (q[i].s = p.s => i < f) /\ (i < f => Leq(setup, q[i], p))
  BY SearchFromIs
<1>4. \A i \in DOMAIN q : q[i] \in PacketType
  BY <1>1, PacketAt
<1>5. ASSUME NEW k \in 1..(Len(q) + 1), packet_buffer' = InsertAt(q, k, p)
      PROVE  Inserted(packet_buffer', q, k, p)
  BY <1>1, <1>5, InsertAtIs DEF Inserted
<1>6. CASE AtEnd(p)
  <2> DEFINE k == Len(q) + 1
  <2>1. packet_buffer' = InsertAt(q, k, p) /\ packet_buffer_end' = Name(p)
    BY <1>6 DEF AddPacket
  <2>2. \A i \in DOMAIN q : Leq(setup, q[i], p)
    <3>1. CASE f > Len(q)
      BY <1>2, <1>3, <3>1
    <3>2. CASE ~(f > Len(q))
      <4>1. q # <<>> /\ Len(q) \in DOMAIN q
        BY <1>2, <1>3, <3>2
      <4>2. packet_buffer_end = Name(q[Len(q)])
        BY <1>1, <4>1 DEF EndOK
      <4>3. Place(packet_buffer_end) = Len(q)
        BY <4>1, <4>2, PlaceIs
      <4>4. ~After(q[Len(q)], p)
        BY <1>6, <3>2, <4>3 DEF AtEnd
      <4>5. Leq(setup, q[Len(q)], p)
        BY <1>1, <1>4, <4>1, <4>4, AfterIsNotLeq
      <4>6. ASSUME NEW i \in DOMAIN q, i < Len(q)
            PROVE  Leq(setup, q[i], p)
        <5>1. Leq(setup, q[i], q[Len(q)])
          BY <1>1, <4>1, <4>6 DEF Sorted
        <5> QED BY <1>1, <1>4, <4>1, <4>5, <5>1, LeqTransitive
      <4> QED BY <1>2, <4>5, <4>6
    <3> QED BY <3>1, <3>2
  <2>3. k \in 1..(Len(q) + 1) /\ k \in Nat /\ \A i \in DOMAIN q : i < k
    BY <1>2
  <2>4. Inserted(packet_buffer', q, k, p)
    BY <1>5, <2>1, <2>3
  <2>5. \A i \in DOMAIN q : ~(i >= k)
    BY <1>2
  <2> QED BY <2>1, <2>2, <2>3, <2>4, <2>5
<1>7. CASE ~AtEnd(p)
  <2> DEFINE S == {i \in f..Len(q) : After(q[i], p)}
  <2>1. packet_buffer' = InsertAt(q, Min(S), p) /\ packet_buffer_end' = packet_buffer_end
    BY <1>7 DEF AddPacket
  <2>2. Len(q) \in S
    <3>1. ~(f > Len(q)) /\ After(q[Place(packet_buffer_end)], p)
      BY <1>7 DEF AtEnd
    <3>2. q # <<>> /\ Len(q) \in DOMAIN q
      BY <1>2, <1>3, <3>1
    <3>3. packet_buffer_end = Name(q[Len(q)])
      BY <1>1, <3>2 DEF EndOK
    <3>4. Place(packet_buffer_end) = Len(q)
      BY <3>2, <3>3, PlaceIs
    <3> QED BY <1>2, <1>3, <3>1, <3>4
  <2>3. S \in SUBSET Nat /\ S \in SUBSET Int /\ S # {}
    BY <1>2, <1>3, <2>2
  <2>4. PICK k \in S : \A y \in S : k <= y
    BY <2>3, LeastNat
  <2>5. Min(S) = k
    BY <2>3, <2>4, MinIs
  <2>6. /\ k \in DOMAIN q /\ f <= k /\ After(q[k], p) /\ k \in Nat
        /\ k \in 1..(Len(q) + 1) /\ k # Len(q) + 1
    BY <1>2, <1>3, <2>4
  <2>7. ASSUME NEW i \in DOMAIN q, i < k
        PROVE  Leq(setup, q[i], p)
    <3>1. CASE i < f
      BY <1>3, <3>1
    <3>2. CASE ~(i < f)
      <4>1. i \in f..Len(q) /\ ~(k <= i)
        BY <1>2, <1>3, <2>6, <2>7, <3>2
      <4>2. ~After(q[i], p)
        BY <2>4, <4>1
      <4> QED BY <1>1, <1>4, <4>2, AfterIsNotLeq
    <3> QED BY <3>1, <3>2
  <2>8. ASSUME NEW i \in DOMAIN q, i >= k
        PROVE  Leq(setup, p, q[i])
    <3>1. Leq(setup, p, q[k])
      BY <1>1, <1>4, <2>6, AfterIsNotLeq, LeqTotal
    <3>2. CASE i = k
      BY <3>1, <3>2
    <3>3. CASE i > k
      <4>1. Leq(setup, q[k], q[i])
        BY <1>1, <1>2, <2>6, <3>3 DEF Sorted
      <4> QED BY <1>1, <1>4, <2>6, <3>1, <4>1, LeqTransitive
    <3> QED BY <1>2, <2>6, <2>8, <3>2, <3>3
  <2>9. \A i \in DOMAIN q : q[i].s = p.s => i < k
    BY <1>2, <1>3, <2>6
  <2>10. Inserted(packet_buffer', q, k, p)
    BY <1>5, <2>1, <2>5, <2>6
  <2> QED BY <2>1, <2>6, <2>7, <2>8, <2>9, <2>10
<1> QED BY <1>6, <1>7

---------------------------------------------------------------------------
(***************************************************************************)
(* What the pointers tell: which streams wait, and the span of the queue.  *)
(***************************************************************************)
LEMMA WaitingIs ==
  ASSUME MuxTypeOK, QueueInv
  PROVE  /\ \A s \in Streams : s \in Waiting <=> \E i \in DOMAIN packet_buffer : packet_buffer[i].s = s
         /\ packet_buffer = <<>> <=> Waiting = {}
         /\ Streams # {}
<1> DEFINE q == packet_buffer
<1>1. q \in Seq(PacketType) /\ LastOK(q, last)
  BY DEF MuxTypeOK, QueueInv
<1>2. ASSUME NEW s \in Streams
      PROVE  s \in Waiting <=> \E i \in DOMAIN q : q[i].s = s
  <2>1. CASE last[s] = None /\ \A i \in DOMAIN q : q[i].s # s
    BY <2>1 DEF Waiting
  <2>2. CASE \E i \in DOMAIN q : IsLast(q, s, i) /\ last[s] = Name(q[i])
    <3>1. PICK i \in DOMAIN q : IsLast(q, s, i) /\ last[s] = Name(q[i])
      BY <2>2
    <3>2. q[i].s \in Streams
      BY <1>1, PacketAt
    <3>3. last[s] # None
      BY <3>1, <3>2, StreamsAssumption DEF Name, None, Streams
    <3> QED BY <3>1, <3>3 DEF IsLast, Waiting
  <2> QED BY <1>1, <2>1, <2>2 DEF LastOK
<1>3. ASSUME q # <<>>
      PROVE  Waiting # {}
  <2>1. 1 \in DOMAIN q
    BY <1>1, <1>3, TailAt
  <2>2. q[1].s \in Streams
    BY <1>1, <2>1, PacketAt
  <2> QED BY <1>2, <2>1, <2>2
<1>4. ASSUME q = <<>>
      PROVE  Waiting = {}
  <2>1. DOMAIN q = {}
    BY <1>1, <1>4
  <2> QED BY <1>2, <2>1 DEF Waiting
<1>5. 0 \in Streams
  BY StreamsAssumption DEF Streams
<1> QED BY <1>2, <1>3, <1>4, <1>5

(* The pointers reach the end of the queue, so Delta is its whole span. *)
LEMMA DeltaIsSpan ==
  ASSUME MuxTypeOK, QueueInv, packet_buffer # <<>>
  PROVE  /\ Delta \in Int
         /\ \A p \in Range(packet_buffer) : Micros(p) - Micros(packet_buffer[1]) <= Delta
<1> DEFINE q == packet_buffer
           n == Len(q)
           T == {Micros(q[Place(last[s])]) : s \in Waiting}
<1>1. /\ q \in Seq(PacketType) /\ LastOK(q, last) /\ setup \in Setups /\ Sorted(setup, q)
  BY DEF MuxTypeOK, QueueInv
<1>2. n \in Nat \ {0} /\ DOMAIN q = 1..n /\ n \in DOMAIN q /\ 1 \in DOMAIN q
  BY <1>1
<1>3. \A i \in DOMAIN q :
        q[i] \in PacketType /\ Time(q[i]) \in Int /\ Time(q[i]) = TimeIn(setup, q[i])
  BY <1>1, PacketAt, TimeInt
<1>4. ASSUME NEW i \in DOMAIN q
      PROVE  Time(q[i]) <= Time(q[n])
  <2>1. CASE i = n
    BY <1>3, <2>1
  <2>2. CASE i < n
    <3>1. Leq(setup, q[i], q[n])
      BY <1>1, <1>2, <2>2 DEF Sorted
    <3>2. TimeIn(setup, q[i]) <= TimeIn(setup, q[n])
      BY <1>1, <1>2, <1>3, <3>1, LeqTotal
    <3> QED BY <1>2, <1>3, <3>2
  <2> QED BY <1>2, <2>1, <2>2
<1>5. ASSUME NEW i \in DOMAIN q
      PROVE  Micros(q[i]) \in Int /\ Micros(q[i]) <= Micros(q[n])
  BY <1>1, <1>2, <1>3, <1>4, MicrosIs
<1>6. ASSUME NEW s \in Waiting
      PROVE  \E i \in DOMAIN q : IsLast(q, s, i) /\ Place(last[s]) = i
  <2>1. s \in Streams /\ last[s] # None
    BY DEF Waiting
  <2>2. PICK i \in DOMAIN q : IsLast(q, s, i) /\ last[s] = Name(q[i])
    BY <1>1, <2>1 DEF LastOK
  <2> QED BY <2>2, PlaceIs
<1>7. Micros(q[n]) \in T
  <2> DEFINE s == q[n].s
  <2>1. s \in Streams
    BY <1>1, <1>2, PacketAt
  <2>2. s \in Waiting
    BY <1>2, <2>1, WaitingIs
  <2>3. PICK i \in DOMAIN q : IsLast(q, s, i) /\ Place(last[s]) = i
    BY <1>6, <2>2
  <2>4. i = n
    BY <1>2, <2>3 DEF IsLast
  <2> QED BY <2>2, <2>3, <2>4
<1>8. ASSUME NEW y \in T
      PROVE  y \in Int /\ Micros(q[n]) >= y
  <2>1. PICK s \in Waiting : y = Micros(q[Place(last[s])])
    OBVIOUS
  <2>2. PICK i \in DOMAIN q : Place(last[s]) = i
    BY <1>6
  <2> QED BY <1>2, <1>5, <2>1, <2>2
<1>9. Max(T) = Micros(q[n])
  <2>1. T \in SUBSET Int /\ \A y \in T : Micros(q[n]) >= y
    BY <1>8
  <2> QED BY <1>7, <2>1, MaxIs
<1>10. Delta = Micros(q[n]) - Micros(q[1])
  BY <1>9 DEF Delta
<1>11. Delta \in Int
  BY <1>2, <1>5, <1>10
<1>12. ASSUME NEW i \in DOMAIN q
       PROVE  Micros(q[i]) - Micros(q[1]) <= Delta
  BY <1>2, <1>5, <1>10
<1> QED BY <1>11, <1>12 DEF Range

(* With no packet waiting everything accepted has left the queue. *)
LEMMA EmptyMeansTaken ==
  ASSUME MuxTypeOK, QueueInv, packet_buffer = <<>>
  PROVE  taken = accepted
<1>1. /\ taken \in [Streams -> Nat] /\ accepted \in [Streams -> Nat]
      /\ NumbersOK(packet_buffer, taken, accepted)
  BY DEF MuxTypeOK, QueueInv
<1>2. DOMAIN packet_buffer = {}
  OBVIOUS
<1>3. ASSUME NEW s \in Streams
      PROVE  taken[s] = accepted[s]
  <2>1. taken[s] \in Nat /\ accepted[s] \in Nat /\ taken[s] <= accepted[s]
    BY <1>1 DEF NumbersOK
  <2>2. (taken[s] + 1)..accepted[s] = {}
    BY <1>1, <1>2 DEF NumbersOK
  <2> QED BY <2>1, <2>2
<1> QED BY <1>1, <1>3

---------------------------------------------------------------------------
(***************************************************************************)
(* Settled times stay settled.                                             *)
(***************************************************************************)
LEMMA SettledKept ==
  ASSUME MuxTypeOK, setup' = setup, closing => closing',
         cur_dts' \in [Streams -> Int], \A r \in Streams : cur_dts[r] <= cur_dts'[r],
         packet_buffer' \in Seq(PacketType),
         \A i \in DOMAIN packet_buffer' :
           \/ \E j \in DOMAIN packet_buffer : packet_buffer'[i] = packet_buffer[j]
           \/ ~closing /\ \E s \in Streams : Clock(s) <= TimeIn(setup, packet_buffer'[i]),
         NEW t \in Int, Settled(t)
  PROVE  Settled(t)'
<1>1. setup \in Setups /\ cur_dts \in [Streams -> Int] /\ setup.direct \in BOOLEAN
  BY SetupFacts DEF MuxTypeOK
<1>2. ASSUME NEW r \in Streams
      PROVE  Clock(r) \in Int /\ Clock(r)' \in Int /\ Clock(r) <= Clock(r)'
  <2>1. setup.tb[r] \in Nat \ {0} /\ cur_dts[r] \in Int /\ cur_dts'[r] \in Int
    BY <1>1, SetupFacts
  <2>2. cur_dts[r] * setup.tb[r] <= cur_dts'[r] * setup.tb[r]
    BY <2>1, TimesMono
  <2> QED BY <2>1, <2>2 DEF Clock
<1>3. CASE setup.direct
  <2>1. PICK r \in Streams : t <= Clock(r)
    BY <1>3 DEF Settled
  <2>2. t <= Clock(r)'
    BY <1>2, <2>1
  <2> QED BY <1>3, <2>2 DEF Settled
<1>4. CASE ~setup.direct
  <2>1. /\ \A i \in DOMAIN packet_buffer : t <= TimeIn(setup, packet_buffer[i])
        /\ ~closing => \A s \in Streams : t <= Clock(s)
    BY <1>4 DEF Settled
  <2>2. ASSUME NEW i \in DOMAIN packet_buffer'
        PROVE  t <= TimeIn(setup, packet_buffer'[i])
    <3>1. TimeIn(setup, packet_buffer'[i]) \in Int
      <4>1. packet_buffer'[i] \in PacketType
        BY PacketAt
      <4> QED BY <1>1, <4>1, TimeInt
    <3>2. CASE \E j \in DOMAIN packet_buffer : packet_buffer'[i] = packet_buffer[j]
      BY <2>1, <3>2
    <3>3. CASE ~closing /\ \E s \in Streams : Clock(s) <= TimeIn(setup, packet_buffer'[i])
      BY <1>2, <2>1, <3>1, <3>3
    <3> QED BY <3>2, <3>3
  <2>3. ASSUME ~closing', NEW s \in Streams
        PROVE  t <= Clock(s)'
    BY <1>2, <2>1, <2>3
  <2> QED BY <1>4, <2>2, <2>3 DEF Settled
<1> QED BY <1>3, <1>4

LEMMA FloorInt ==
  ASSUME setup \in Setups, NEW o \in OffsetType, o # NotYet
  PROVE  /\ Floor(o) \in Int /\ o.s \in Streams /\ o.dts \in Int
         /\ setup.tb[o.s] \in Nat \ {0}
<1>1. o.s \in Streams /\ o.dts \in Int
  BY DEF OffsetType
<1>2. setup.tb[o.s] \in Nat \ {0}
  BY <1>1, SetupFacts
<1> QED BY <1>1, <1>2 DEF Floor

LEMMA OutInt ==
  ASSUME NEW o \in OutType, o # NotYet
  PROVE  o.time \in Int /\ o.dts \in Int /\ o.s \in Streams
BY DEF OutType

(* A step that writes nothing. *)
LEMMA OrderQuiet ==
  ASSUME MuxTypeOK, OrderInv, setup' = setup, closing => closing',
         UNCHANGED <<out, offset, forced>>,
         \A t \in Int : Settled(t) => Settled(t)'
  PROVE  OrderInv'
<1>1. setup \in Setups /\ offset \in OffsetType /\ out \in OutType
  BY DEF MuxTypeOK
<1> SUFFICES ASSUME ~forced'
             PROVE  /\ out' # NotYet => Settled(out.time)'
                    /\ offset' # NotYet => Settled(Floor(offset))'
  BY DEF OrderInv
<1>2. ~forced
  OBVIOUS
<1>3. ASSUME out' # NotYet
      PROVE  Settled(out.time)'
  <2>1. out.time \in Int /\ Settled(out.time) /\ out'.time = out.time
    BY <1>1, <1>2, <1>3, OutInt DEF OrderInv
  <2>2. PICK t \in Int : t = out.time
    BY <2>1
  <2>3. Settled(t)'
    BY <2>1, <2>2
  <2> QED BY <2>1, <2>2, <2>3 DEF Settled
<1>4. ASSUME offset' # NotYet
      PROVE  Settled(Floor(offset))'
  <2>1. Floor(offset) \in Int /\ Settled(Floor(offset)) /\ Floor(offset)' = Floor(offset)
    BY <1>1, <1>2, <1>4, FloorInt DEF OrderInv, Floor
  <2>2. PICK t \in Int : t = Floor(offset)
    BY <2>1
  <2>3. Settled(t)'
    BY <2>1, <2>2
  <2> QED BY <2>1, <2>2, <2>3 DEF Settled
<1> QED BY <1>3, <1>4

---------------------------------------------------------------------------
(***************************************************************************)
(* write_packet()                                                          *)
(***************************************************************************)
LEMMA ShiftInt ==
  ASSUME setup \in Setups, NEW o \in OffsetType, NEW s \in Streams
  PROVE  ShiftOf(o, s) \in Int
<1>1. CASE o = NotYet
  BY <1>1 DEF ShiftOf
<1>2. CASE o # NotYet
  <2>1. o.dts \in Int /\ setup.tb[o.s] \in Nat \ {0} /\ setup.tb[s] \in Nat \ {0}
    BY <1>2, FloorInt, SetupFacts
  <2>2. Rescale(o.dts, setup.tb[o.s], setup.tb[s]) \in Int
    BY <2>1, RescaleNear
  <2> QED BY <1>2, <2>2 DEF ShiftOf
<1> QED BY <1>1, <1>2

(* What one write does: p, which is in line, is shifted by the offset it   *)
(* may itself have fixed.                                                  *)
LEMMA WriteStep ==
  ASSUME MuxTypeOK, SyncInv, setup' = setup, NEW p \in PacketType, WritePacket(p),
         TimeIn(setup, p) > NOPTS,
         forced' \in BOOLEAN, forced => forced',
         ~forced' => /\ out # NotYet => out.time <= TimeIn(setup, p)
                     /\ offset # NotYet => Floor(offset) <= TimeIn(setup, p)
  PROVE  /\ offset' \in OffsetType /\ out' \in OutType
         /\ shifts' \in SUBSET [s : Streams, by : Int]
         /\ ret' \in {"ok", "error"} /\ faults' \in Nat
         /\ taken' = [taken EXCEPT ![p.s] = p.id]
         /\ out' = out \/ (out' # NotYet /\ out'.time = TimeIn(setup, p))
         /\ offset' = offset \/ (offset' # NotYet /\ Floor(offset') = TimeIn(setup, p))
         /\ SyncInv'
<1> DEFINE by == ShiftOf(offset', p.s)
           new == [s |-> p.s, by |-> by]
           o == [s |-> p.s, id |-> p.id, dts |-> p.dts + by, time |-> Time(p)]
<1>1. /\ setup \in Setups /\ offset \in OffsetType /\ out \in OutType /\ faults \in Nat
      /\ shifts \in SUBSET [s : Streams, by : Int] /\ forced \in BOOLEAN
  BY DEF MuxTypeOK
<1>2. /\ p.s \in Streams /\ p.s \in Int /\ p.dts \in Int /\ p.id \in Nat
      /\ TimeIn(setup, p) \in Int /\ Time(p) = TimeIn(setup, p)
      /\ setup.tb[p.s] \in Nat \ {0} /\ p.s # -1
  <2>1. p.s # -1
    BY StreamsAssumption DEF PacketType, Streams
  <2> QED BY <1>1, <2>1, TimeInt, SetupFacts
<1>3. setup.avoid \in {"no", "nonnegative", "zero"}
  BY <1>1, SetupFacts
<1> DEFINE n == [s |-> p.s, id |-> 0, dts |-> -p.dts, time |-> NOPTS]
<1>4. offset' = IF NeedsOffset(p) THEN n ELSE offset
  BY DEF WritePacket
<1>5. n.s = p.s /\ n.dts = -p.dts /\ n # NotYet /\ n \in OffsetType
  <2>1. n # NotYet
    BY <1>2 DEF NotYet
  <2>2. n \in OffsetType
    BY <1>2 DEF OffsetType
  <2> QED BY <2>1, <2>2
<1> HIDE DEF n
<1>7. /\ offset' \in OffsetType
      /\ offset' = offset \/ (offset' # NotYet /\ Floor(offset') = TimeIn(setup, p))
      /\ offset' # offset => offset = NotYet /\ NeedsOffset(p)
  <2>1. CASE NeedsOffset(p)
    <3>1. /\ offset'.s = p.s /\ offset'.dts = -p.dts /\ offset' # NotYet
          /\ offset' \in OffsetType /\ offset = NotYet
      BY <1>4, <1>5, <2>1 DEF NeedsOffset
    <3>2. 0 - (-p.dts) = p.dts
      BY <1>2
    <3>3. Floor(offset') = TimeIn(setup, p)
      BY <3>1, <3>2 DEF Floor, TimeIn
    <3> QED BY <2>1, <3>1, <3>3
  <2>2. CASE ~NeedsOffset(p)
    BY <1>1, <1>4, <2>2
  <2> QED BY <2>1, <2>2
<1>8. by \in Int
  BY <1>1, <1>2, <1>7, ShiftInt
<1>9. \/ /\ ret' = "ok" /\ faults' = faults
         /\ out' = o /\ shifts' = shifts \cup {new}
      \/ ret' = "error" /\ faults' = faults + 1 /\ UNCHANGED <<out, shifts>>
  BY DEF WritePacket, Fails, ShiftOf
<1> HIDE DEF by
<1>10. /\ o \in OutType /\ o # NotYet /\ o.time = TimeIn(setup, p) /\ o.dts = p.dts + by
       /\ new \in [s : Streams, by : Int]
  BY <1>2, <1>8 DEF OutType, NotYet
<1> HIDE DEF o, new
<1>11. /\ out' \in OutType /\ shifts' \in SUBSET [s : Streams, by : Int]
       /\ ret' \in {"ok", "error"} /\ faults' \in Nat
       /\ out' = out \/ (out' # NotYet /\ out'.time = TimeIn(setup, p))
  <2>1. CASE /\ ret' = "ok" /\ faults' = faults
             /\ out' = o /\ shifts' = shifts \cup {new}
    BY <1>1, <1>10, <2>1
  <2>2. CASE ret' = "error" /\ faults' = faults + 1 /\ UNCHANGED <<out, shifts>>
    BY <1>1, <2>2
  <2> QED BY <1>9, <2>1, <2>2
<1>12. taken' = [taken EXCEPT ![p.s] = p.id]
  BY DEF WritePacket
<1>13. out' # NotYet => out'.time > NOPTS
  BY <1>11 DEF SyncInv
<1>14. setup.avoid = "no" => offset' = NotYet
  BY <1>7 DEF SyncInv, NeedsOffset
<1>15. ASSUME offset' = NotYet, setup.avoid # "no"
       PROVE  p.dts >= 0 /\ setup.avoid = "nonnegative" /\ offset = NotYet /\ TimeIn(setup, p) >= 0
  <2>1. ~NeedsOffset(p) /\ offset = NotYet
    BY <1>4, <1>5, <1>15
  <2>2. p.dts >= 0 /\ setup.avoid = "nonnegative"
    BY <1>2, <1>3, <1>15, <2>1 DEF NeedsOffset
  <2>3. 0 * setup.tb[p.s] <= p.dts * setup.tb[p.s]
    BY <1>2, <2>2, TimesMono
  <2> QED BY <1>2, <2>1, <2>2, <2>3 DEF TimeIn
<1>16. ASSUME offset' = NotYet, setup.avoid # "no", shifts' # {}
       PROVE  setup.avoid = "nonnegative" /\ out' # NotYet /\ out'.time >= 0
  <2>1. CASE out' = o
    BY <1>10, <1>15, <1>16, <2>1
  <2>2. CASE UNCHANGED <<out, shifts>>
    BY <1>15, <1>16, <2>2 DEF SyncInv
  <2> QED BY <1>9, <2>1, <2>2
<1>17. ASSUME ~forced', NEW a \in shifts
       PROVE  a.by = ShiftOf(offset', a.s)
  <2>0. ~forced /\ a.by = ShiftOf(offset, a.s)
    BY <1>17 DEF SyncInv
  <2>1. CASE offset' = offset
    BY <2>0, <2>1
  <2>2. CASE offset' # offset
    <3>1. offset = NotYet /\ NeedsOffset(p) /\ setup.avoid # "no" /\ shifts # {}
      BY <1>7, <2>2 DEF NeedsOffset
    <3>2. setup.avoid = "nonnegative" /\ out # NotYet /\ out.time >= 0
      BY <3>1 DEF SyncInv
    <3>3. p.dts <= -1
      BY <1>2, <3>1, <3>2 DEF NeedsOffset
    <3>4. p.dts * setup.tb[p.s] <= (-1) * setup.tb[p.s]
      BY <1>2, <3>3, TimesMono
    <3>5. TimeIn(setup, p) < 0
      BY <1>2, <3>4 DEF TimeIn
    <3>6. out.time <= TimeIn(setup, p) /\ out.time \in Int
      BY <1>1, <1>17, <3>2, OutInt
    <3> QED BY <1>2, <3>2, <3>5, <3>6
  <2> QED BY <2>1, <2>2
<1>18. ASSUME ~forced', NEW a \in shifts'
       PROVE  a.by = ShiftOf(offset', a.s)
  <2>1. CASE a \in shifts
    BY <1>17, <1>18, <2>1
  <2>2. CASE a = new
    BY <2>2 DEF new, by
  <2> QED BY <1>9, <2>1, <2>2
<1>19. ASSUME ~forced', setup.avoid # "no", out' # NotYet
       PROVE  out'.dts >= 0
  <2>1. CASE UNCHANGED <<out, shifts>>
    BY <1>19, <2>1 DEF SyncInv
  <2>2. CASE out' = o
    <3>1. CASE offset' = NotYet
      <4>1. by = 0
        BY <3>1 DEF by, ShiftOf
      <4> QED BY <1>2, <1>10, <1>15, <1>19, <2>2, <3>1, <4>1
    <3>2. CASE offset' # NotYet
      <4>1. /\ offset'.dts \in Int /\ setup.tb[offset'.s] \in Nat \ {0}
            /\ Floor(offset') \in Int
        BY <1>1, <1>7, <3>2, FloorInt
      <4>2. Floor(offset') <= TimeIn(setup, p)
        BY <1>2, <1>7, <1>19, <3>2, <4>1
      <4>3. (0 - offset'.dts) * setup.tb[offset'.s] <= p.dts * setup.tb[p.s]
        BY <4>2 DEF Floor, TimeIn
      <4>4. p.dts + Rescale(offset'.dts, setup.tb[offset'.s], setup.tb[p.s]) >= 0
        BY <1>2, <4>1, <4>3, ShiftedNonnegative
      <4> QED BY <1>10, <2>2, <3>2, <4>4 DEF by, ShiftOf
    <3> QED BY <3>1, <3>2
  <2> QED BY <1>9, <2>1, <2>2
<1>20. SyncInv'
  <2>1. \A a \in shifts' : ShiftOf(offset', a.s) = ShiftOf(offset, a.s)'
    BY DEF ShiftOf
  <2> QED BY <1>13, <1>14, <1>16, <1>18, <1>19, <2>1 DEF SyncInv
<1> QED BY <1>7, <1>11, <1>12, <1>20

(* A write settles the time of the packet. *)
LEMMA OrderWrite ==
  ASSUME MuxTypeOK, OrderInv, setup' = setup, NEW p \in PacketType,
         forced => forced',
         offset' \in OffsetType, out' \in OutType,
         out' = out \/ (out' # NotYet /\ out'.time = TimeIn(setup, p)),
         offset' = offset \/ (offset' # NotYet /\ Floor(offset') = TimeIn(setup, p)),
         \A t \in Int : Settled(t) => Settled(t)',
         ~forced' => \A t \in Int : t = TimeIn(setup, p) => Settled(t)'
  PROVE  OrderInv'
<1>1. setup \in Setups /\ offset \in OffsetType /\ out \in OutType /\ TimeIn(setup, p) \in Int
  BY TimeInt DEF MuxTypeOK
<1> SUFFICES ASSUME ~forced'
             PROVE  /\ out' # NotYet => Settled(out.time)'
                    /\ offset' # NotYet => Settled(Floor(offset))'
  BY DEF OrderInv
<1>2. ~forced
  OBVIOUS
<1>3. ASSUME out' # NotYet
      PROVE  Settled(out.time)'
  <2>1. out'.time \in Int
    BY <1>3, OutInt
  <2>2. PICK t \in Int : t = out'.time
    BY <2>1
  <2>3. Settled(t)'
    <3>1. CASE out' = out
      <4>1. Settled(out.time) /\ t = out.time
        BY <1>2, <1>3, <2>2, <3>1 DEF OrderInv
      <4> QED BY <4>1
    <3>2. CASE out'.time = TimeIn(setup, p)
      BY <2>2, <3>2
    <3> QED BY <3>1, <3>2
  <2> QED BY <2>2, <2>3 DEF Settled
<1>4. ASSUME offset' # NotYet
      PROVE  Settled(Floor(offset))'
  <2>0. Floor(offset)' = Floor(offset')
    BY DEF Floor
  <2>1. Floor(offset') \in Int
    BY <1>1, <1>4, FloorInt
  <2>2. PICK t \in Int : t = Floor(offset')
    BY <2>1
  <2>3. Settled(t)'
    <3>1. CASE offset' = offset
      <4>1. Settled(Floor(offset)) /\ t = Floor(offset)
        BY <1>2, <1>4, <2>2, <3>1 DEF OrderInv
      <4> QED BY <4>1
    <3>2. CASE Floor(offset') = TimeIn(setup, p)
      BY <2>2, <3>2
    <3> QED BY <3>1, <3>2
  <2> QED BY <2>0, <2>2, <2>3 DEF Settled
<1> QED BY <1>3, <1>4

---------------------------------------------------------------------------
(***************************************************************************)
(* One lemma per action.                                                   *)
(***************************************************************************)

(* Parts of the invariant that a step leaves alone. *)
LEMMA QueueQuiet ==
  ASSUME QueueInv, UNCHANGED <<setup, cur_dts, queueVars, taken, accepted>>
  PROVE  QueueInv'
BY DEF QueueInv, queueVars

LEMMA ClockQuiet ==
  ASSUME ClockInv, UNCHANGED <<setup, cur_dts, pts_buffer>>
  PROVE  ClockInv'
BY DEF ClockInv, Clock

LEMMA SyncQuiet ==
  ASSUME SyncInv, UNCHANGED <<setup, offset, out, forced, shifts>>
  PROVE  SyncInv'
BY DEF SyncInv, ShiftOf

LEMMA SettledQuiet ==
  ASSUME MuxTypeOK, UNCHANGED <<setup, cur_dts, packet_buffer>>, closing => closing'
  PROVE  \A t \in Int : Settled(t) => Settled(t)'
<1> TAKE t \in Int
<1> HAVE Settled(t)
<1>1. cur_dts \in [Streams -> Int] /\ packet_buffer \in Seq(PacketType)
  BY DEF MuxTypeOK
<1>2. \A r \in Streams : cur_dts[r] <= cur_dts'[r]
  BY <1>1
<1> QED BY <1>1, <1>2, SettledKept

LEMMA RefuseStep ==
  ASSUME MuxInv, NEW s \in Streams, NEW ts \in Timestamps(s), Refuse(s, ts)
  PROVE  MuxInv'
<1>0. MuxTypeOK /\ ClockInv /\ QueueInv /\ CallInv /\ OrderInv /\ SyncInv
  BY DEF MuxInv
<1>1. /\ pts_buffer' = PtsBuffer(s, ts) /\ ret' = "einval" /\ cur_dts[s] # NOPTS
      /\ UNCHANGED <<setup, cur_dts, queueVars, offset, pc, flush, closing, faults, histVars>>
  BY DEF Refuse, NotIncreasing
<1>2. UNCHANGED <<packet_buffer, packet_buffer_end, last, accepted, out, taken, forced, shifts>>
  BY <1>1 DEF queueVars, histVars
<1>3. /\ Dts(s, ts) \in Int /\ cur_dts[s] <= Dts(s, ts) /\ PtsBuffer(s, ts) \in [Streams -> Int]
      /\ setup.delay[s] = 1 => PtsBuffer(s, ts)[s] >= Dts(s, ts) /\ PtsBuffer(s, ts)[s] # NOPTS
      /\ \A r \in Streams : r # s => PtsBuffer(s, ts)[r] = pts_buffer[r]
  BY <1>0, DtsGrows
<1>4. MuxTypeOK'
  BY <1>0, <1>1, <1>2, <1>3 DEF MuxTypeOK
<1>5. ClockInv'
  <2> SUFFICES ASSUME NEW r \in Streams
               PROVE  /\ cur_dts[r] # NOPTS => Clock(r) > NOPTS
                      /\ setup.delay[r] = 1 =>
                           /\ PtsBuffer(s, ts)[r] >= cur_dts[r]
                           /\ PtsBuffer(s, ts)[r] = NOPTS <=> cur_dts[r] = NOPTS
    BY <1>1 DEF ClockInv, Clock
  <2>1. CASE r = s
    <3>1. cur_dts[s] \in Int /\ PtsBuffer(s, ts)[s] \in Int
      BY <1>0, <1>3 DEF MuxTypeOK
    <3> QED BY <1>0, <1>1, <1>3, <2>1, <3>1 DEF ClockInv
  <2>2. CASE r # s
    BY <1>0, <1>3, <2>2 DEF ClockInv
  <2> QED BY <2>1, <2>2
<1>6. QueueInv' /\ SyncInv'
  BY <1>0, <1>1, <1>2, QueueQuiet, SyncQuiet
<1>7. CallInv'
  BY <1>0, <1>1 DEF CallInv
<1>8. BoundedHold'
  BY <1>1 DEF BoundedHold
<1>9. OrderInv'
  BY <1>0, <1>1, <1>2, SettledQuiet, OrderQuiet
<1> QED BY <1>4, <1>5, <1>6, <1>7, <1>8, <1>9 DEF MuxInv

(* A packet accepted: the clock moves to it. *)
LEMMA AcceptStep ==
  ASSUME MuxTypeOK, ClockInv, NEW s \in Streams, NEW ts \in Timestamps(s), Accept(s, ts),
         setup' = setup
  PROVE  /\ Packet(s, ts) \in PacketType /\ Packet(s, ts).s = s
         /\ Packet(s, ts).id = accepted[s] + 1
         /\ cur_dts[s] <= Packet(s, ts).dts
         /\ TimeIn(setup, Packet(s, ts)) > NOPTS
         /\ cur_dts' = [cur_dts EXCEPT ![s] = Packet(s, ts).dts]
         /\ cur_dts' \in [Streams -> Int] /\ pts_buffer' \in [Streams -> Int]
         /\ \A r \in Streams : cur_dts[r] <= cur_dts'[r]
         /\ Clock(s) <= TimeIn(setup, Packet(s, ts))
         /\ Clock(s)' = TimeIn(setup, Packet(s, ts))
         /\ ClockInv'
<1> DEFINE p == Packet(s, ts)
           d == Dts(s, ts)
<1>1. /\ d \in Int /\ cur_dts[s] <= d /\ d * setup.tb[s] > NOPTS /\ d # NOPTS
      /\ PtsBuffer(s, ts) \in [Streams -> Int]
      /\ setup.delay[s] = 1 => PtsBuffer(s, ts)[s] >= d /\ PtsBuffer(s, ts)[s] # NOPTS
      /\ \A r \in Streams : r # s => PtsBuffer(s, ts)[r] = pts_buffer[r]
  BY DtsGrows
<1> HIDE DEF d
<1>2. cur_dts' = [cur_dts EXCEPT ![s] = d] /\ pts_buffer' = PtsBuffer(s, ts)
  BY DEF Accept, d
<1>3. cur_dts \in [Streams -> Int] /\ accepted \in [Streams -> Nat] /\ setup \in Setups
  BY DEF MuxTypeOK
<1>4. p \in PacketType /\ p.s = s /\ p.id = accepted[s] + 1 /\ p.dts = d
  BY <1>1, <1>3 DEF Packet, PacketType, d
<1>5. TimeIn(setup, p) = d * setup.tb[s]
  BY <1>4 DEF TimeIn
<1>6. /\ cur_dts' \in [Streams -> Int] /\ cur_dts'[s] = d
      /\ \A r \in Streams : r # s => cur_dts'[r] = cur_dts[r]
      /\ \A r \in Streams : cur_dts[r] <= cur_dts'[r]
  BY <1>1, <1>2, <1>3
<1>7. Clock(s) <= d * setup.tb[s]
  <2>1. setup.tb[s] \in Nat \ {0} /\ cur_dts[s] \in Int
    BY <1>3, SetupFacts
  <2> QED BY <1>1, <2>1, TimesMono DEF Clock
<1>8. Clock(s)' = d * setup.tb[s]
  BY <1>6 DEF Clock
<1>9. ClockInv'
  <2> SUFFICES ASSUME NEW r \in Streams
               PROVE  /\ cur_dts'[r] # NOPTS => Clock(r)' > NOPTS
                      /\ setup.delay[r] = 1 =>
                           /\ pts_buffer'[r] >= cur_dts'[r]
                           /\ pts_buffer'[r] = NOPTS <=> cur_dts'[r] = NOPTS
    BY DEF ClockInv
  <2>1. CASE r = s
    BY <1>1, <1>2, <1>6, <1>8, <2>1
  <2>2. CASE r # s
    <3>1. Clock(r)' = Clock(r) /\ cur_dts'[r] = cur_dts[r] /\ pts_buffer'[r] = pts_buffer[r]
      BY <1>1, <1>2, <1>6, <2>2 DEF Clock
    <3> QED BY <3>1 DEF ClockInv
  <2> QED BY <2>1, <2>2
<1> QED BY <1>1, <1>2, <1>4, <1>5, <1>6, <1>7, <1>8, <1>9

LEMMA ClockedGrows ==
  ASSUME MuxTypeOK, ClockedOK(setup, packet_buffer, cur_dts),
         cur_dts' \in [Streams -> Int], \A r \in Streams : cur_dts[r] <= cur_dts'[r]
  PROVE  ClockedOK(setup, packet_buffer, cur_dts')
<1> SUFFICES ASSUME NEW i \in DOMAIN packet_buffer
             PROVE  /\ packet_buffer[i].dts <= cur_dts'[packet_buffer[i].s]
                    /\ TimeIn(setup, packet_buffer[i]) > NOPTS
  BY DEF ClockedOK
<1>1. packet_buffer[i].s \in Streams /\ packet_buffer[i].dts \in Int
  BY PacketAt DEF MuxTypeOK
<1>2. /\ packet_buffer[i].dts <= cur_dts[packet_buffer[i].s]
      /\ TimeIn(setup, packet_buffer[i]) > NOPTS
  BY DEF ClockedOK
<1>3. cur_dts[packet_buffer[i].s] \in Int /\ cur_dts'[packet_buffer[i].s] \in Int
  BY <1>1 DEF MuxTypeOK
<1> QED BY <1>1, <1>2, <1>3

(* av_interleaved_write_frame(): the packet enters the queue. *)
LEMMA QueuedStep ==
  ASSUME MuxInv, NEW s \in Streams, NEW ts \in Timestamps(s),
         ~setup.direct, Accept(s, ts), AddPacket(Packet(s, ts)),
         accepted' = [accepted EXCEPT ![s] = @ + 1],
         pc' = "loop", flush' = FALSE,
         UNCHANGED <<ret, faults, setup, offset, closing, out, taken, forced, shifts>>
  PROVE  MuxInv'
<1> DEFINE p == Packet(s, ts)
<1>0. MuxTypeOK /\ ClockInv /\ QueueInv /\ CallInv /\ OrderInv /\ SyncInv
  BY DEF MuxInv
<1>1. /\ p \in PacketType /\ p.s = s /\ p.id = accepted[s] + 1
      /\ cur_dts[s] <= p.dts /\ TimeIn(setup, p) > NOPTS
      /\ cur_dts' = [cur_dts EXCEPT ![s] = p.dts]
      /\ cur_dts' \in [Streams -> Int] /\ pts_buffer' \in [Streams -> Int]
      /\ \A r \in Streams : cur_dts[r] <= cur_dts'[r]
      /\ Clock(s) <= TimeIn(setup, p)
      /\ ClockInv'
  BY <1>0, AcceptStep
<1>2. AddPacket(p) /\ pc = "idle"
  BY DEF Accept
<1> HIDE DEF p
<1>3. PICK k \in Nat :
        /\ Inserted(packet_buffer', packet_buffer, k, p)
        /\ \A i \in DOMAIN packet_buffer :
             /\ packet_buffer[i].s = p.s => i < k
             /\ i < k => Leq(setup, packet_buffer[i], p)
             /\ i >= k => Leq(setup, p, packet_buffer[i])
        /\ packet_buffer_end' =
             IF k = Len(packet_buffer) + 1 THEN Name(p) ELSE packet_buffer_end
  BY <1>0, <1>1, <1>2, AddPlace
<1>4. last' = [last EXCEPT ![p.s] = Name(p)]
  BY <1>2 DEF AddPacket
<1>5. /\ packet_buffer \in Seq(PacketType) /\ packet_buffer' \in Seq(PacketType)
      /\ last \in [Streams -> NameType] /\ taken \in [Streams -> Nat]
      /\ accepted \in [Streams -> Nat] /\ cur_dts \in [Streams -> Int]
      /\ packet_buffer_end \in NameType /\ setup \in Setups
  BY <1>0, <1>3 DEF MuxTypeOK, Inserted
<1>6. Name(p) \in NameType
  BY <1>1, <1>5, TimeInt DEF Name, NameType
<1>7. QueueInv'
  <2>1. Sorted(setup, packet_buffer')
    BY <1>0, <1>3, <1>5, InsertSorted DEF QueueInv
  <2>2. EndOK(packet_buffer', packet_buffer_end')
    BY <1>0, <1>3, <1>5, InsertEnd DEF QueueInv
  <2>3. LastOK(packet_buffer', last')
    BY <1>0, <1>1, <1>3, <1>4, <1>5, InsertLast DEF QueueInv
  <2>4. NumbersOK(packet_buffer', taken, accepted')
    <3>1. NumbersOK(packet_buffer', taken, [accepted EXCEPT ![p.s] = @ + 1])
      BY <1>0, <1>1, <1>3, <1>5, InsertNumbers DEF QueueInv
    <3> QED BY <1>1, <3>1
  <2>5. ClockedOK(setup, packet_buffer', cur_dts')
    <3>1. ClockedOK(setup, packet_buffer', [cur_dts EXCEPT ![p.s] = p.dts])
      BY <1>0, <1>1, <1>3, <1>5, InsertClocked DEF QueueInv
    <3> QED BY <1>1, <3>1
  <2> QED BY <2>1, <2>2, <2>3, <2>4, <2>5 DEF QueueInv
<1>8. MuxTypeOK'
  <2>1. packet_buffer_end' \in NameType
    BY <1>3, <1>5, <1>6
  <2>2. last' \in [Streams -> NameType]
    BY <1>1, <1>4, <1>5, <1>6
  <2>3. accepted' \in [Streams -> Nat]
    BY <1>5
  <2> QED BY <1>0, <1>1, <1>5, <2>1, <2>2, <2>3 DEF MuxTypeOK
<1>9. CallInv' /\ BoundedHold'
  BY <1>0, <1>2 DEF CallInv, BoundedHold
<1>10. SyncInv'
  BY <1>0, SyncQuiet
<1>11. \A t \in Int : Settled(t) => Settled(t)'
  <2> TAKE t \in Int
  <2> HAVE Settled(t)
  <2>1. ~closing
    BY <1>0, <1>2 DEF CallInv
  <2>2. ASSUME NEW i \in DOMAIN packet_buffer'
        PROVE  \/ \E j \in DOMAIN packet_buffer : packet_buffer'[i] = packet_buffer[j]
               \/ ~closing /\ \E r \in Streams : Clock(r) <= TimeIn(setup, packet_buffer'[i])
    <3>1. CASE i = k
      <4>1. packet_buffer'[i] = p
        BY <1>3, <3>1 DEF Inserted
      <4> QED BY <1>1, <2>1, <4>1
    <3>2. CASE i # k
      <4>1. /\ Src(i, k) \in DOMAIN packet_buffer
            /\ packet_buffer'[i] = packet_buffer[Src(i, k)]
        BY <1>3, <1>5, <3>2, InsertedSrc
      <4> QED BY <4>1
    <3> QED BY <3>1, <3>2
  <2> QED BY <1>0, <1>1, <1>5, <2>2, SettledKept
<1>12. OrderInv'
  BY <1>0, <1>11, OrderQuiet
<1> QED BY <1>1, <1>7, <1>8, <1>9, <1>10, <1>12 DEF MuxInv

(* The same without memory: the packet is lost, its dts is not. *)
LEMMA LostStep ==
  ASSUME MuxInv, NEW s \in Streams, NEW ts \in Timestamps(s),
         Accept(s, ts), Fails, flush' = FALSE,
         UNCHANGED <<queueVars, pc, accepted, setup, offset, closing, out, taken, forced, shifts>>
  PROVE  MuxInv'
<1>0. MuxTypeOK /\ ClockInv /\ QueueInv /\ CallInv /\ OrderInv /\ SyncInv
  BY DEF MuxInv
<1>1. /\ cur_dts' \in [Streams -> Int] /\ pts_buffer' \in [Streams -> Int]
      /\ \A r \in Streams : cur_dts[r] <= cur_dts'[r]
      /\ ClockInv'
  BY <1>0, AcceptStep
<1>2. pc = "idle" /\ ret' = "error" /\ faults' = faults + 1
  BY DEF Accept, Fails
<1>3. UNCHANGED <<packet_buffer, packet_buffer_end, last>>
  BY DEF queueVars
<1>4. MuxTypeOK'
  <2>1. faults' \in Nat /\ ret' \in {"ok", "einval", "error"}
    BY <1>0, <1>2 DEF MuxTypeOK
  <2>2. flush' \in BOOLEAN
    OBVIOUS
  <2> QED BY <1>0, <1>1, <1>3, <2>1, <2>2 DEF MuxTypeOK
<1>5. QueueInv'
  <2>1. ClockedOK(setup, packet_buffer, cur_dts')
    BY <1>0, <1>1, ClockedGrows DEF QueueInv
  <2> QED BY <1>0, <1>3, <2>1 DEF QueueInv
<1>6. CallInv' /\ BoundedHold'
  BY <1>0, <1>2 DEF CallInv, BoundedHold
<1>7. SyncInv'
  BY <1>0, SyncQuiet
<1>8. \A t \in Int : Settled(t) => Settled(t)'
  <2> TAKE t \in Int
  <2> HAVE Settled(t)
  <2>1. packet_buffer' \in Seq(PacketType)
    BY <1>4 DEF MuxTypeOK
  <2> QED BY <1>0, <1>1, <1>3, <2>1, SettledKept
<1>9. OrderInv'
  BY <1>0, <1>8, OrderQuiet
<1> QED BY <1>1, <1>4, <1>5, <1>6, <1>7, <1>9 DEF MuxInv

LEMMA InterleavedWriteFrameStep ==
  ASSUME MuxInv, NEW s \in Streams, NEW ts \in Timestamps(s), InterleavedWriteFrame(s, ts)
  PROVE  MuxInv'
<1>1. /\ ~setup.direct /\ Accept(s, ts) /\ flush' = FALSE
      /\ UNCHANGED <<setup, offset, closing, out, taken, forced, shifts>>
  BY DEF InterleavedWriteFrame
<1>2. CASE /\ AddPacket(Packet(s, ts))
           /\ accepted' = [accepted EXCEPT ![s] = @ + 1]
           /\ pc' = "loop" /\ UNCHANGED <<ret, faults>>
  BY <1>1, <1>2, QueuedStep
<1>3. CASE Fails /\ UNCHANGED <<queueVars, pc, accepted>>
  BY <1>1, <1>3, LostStep
<1> QED BY <1>2, <1>3 DEF InterleavedWriteFrame

(* The packet of av_write_frame() is in line, because the user interleaves. *)
LEMMA WriteFrameInLine ==
  ASSUME MuxInv, NEW s \in Streams, NEW ts \in Timestamps(s), WriteFrame(s, ts)
  PROVE  /\ Packet(s, ts) \in PacketType /\ TimeIn(setup, Packet(s, ts)) > NOPTS
         /\ ~forced' => /\ out # NotYet => out.time <= TimeIn(setup, Packet(s, ts))
                        /\ offset # NotYet => Floor(offset) <= TimeIn(setup, Packet(s, ts))
<1> DEFINE p == Packet(s, ts)
<1>0. MuxTypeOK /\ ClockInv /\ OrderInv /\ SyncInv
  BY DEF MuxInv
<1>1. /\ setup.direct /\ Accept(s, ts) /\ setup' = setup /\ forced' = forced
      /\ \A r \in Streams : Time(p) >= cur_dts[r] * setup.tb[r]
  BY DEF WriteFrame
<1>2. p \in PacketType /\ TimeIn(setup, p) > NOPTS
  BY <1>0, <1>1, AcceptStep
<1>3. /\ setup \in Setups /\ cur_dts \in [Streams -> Int]
      /\ out \in OutType /\ offset \in OffsetType
  BY <1>0 DEF MuxTypeOK
<1>4. Time(p) = TimeIn(setup, p) /\ TimeIn(setup, p) \in Int
  BY <1>2, <1>3, TimeInt
<1> HIDE DEF p
<1>5. ASSUME NEW t \in Int, Settled(t)
      PROVE  t <= TimeIn(setup, p)
  <2>1. PICK r \in Streams : t <= Clock(r)
    BY <1>1, <1>5 DEF Settled
  <2>2. Clock(r) \in Int
    <3>1. setup.tb[r] \in Nat \ {0} /\ cur_dts[r] \in Int
      BY <1>3, SetupFacts
    <3> QED BY <3>1 DEF Clock
  <2>3. TimeIn(setup, p) >= Clock(r)
    BY <1>1, <1>4 DEF Clock
  <2> QED BY <1>4, <2>1, <2>2, <2>3
<1>6. ASSUME ~forced', out # NotYet
      PROVE  out.time <= TimeIn(setup, p)
  BY <1>0, <1>1, <1>3, <1>5, <1>6, OutInt DEF OrderInv
<1>7. ASSUME ~forced', offset # NotYet
      PROVE  Floor(offset) <= TimeIn(setup, p)
  BY <1>0, <1>1, <1>3, <1>5, <1>7, FloorInt DEF OrderInv
<1> QED BY <1>2, <1>6, <1>7 DEF p

LEMMA WriteFrameStep ==
  ASSUME MuxInv, NEW s \in Streams, NEW ts \in Timestamps(s), WriteFrame(s, ts)
  PROVE  MuxInv'
<1> DEFINE p == Packet(s, ts)
<1>0. MuxTypeOK /\ ClockInv /\ QueueInv /\ CallInv /\ OrderInv /\ SyncInv
  BY DEF MuxInv
<1>1. /\ setup.direct /\ Accept(s, ts) /\ WritePacket(p) /\ pc = "idle"
      /\ accepted' = [accepted EXCEPT ![s] = @ + 1]
      /\ UNCHANGED <<setup, queueVars, pc, flush, closing, forced>>
  BY DEF WriteFrame, Accept
<1>2. UNCHANGED <<packet_buffer, packet_buffer_end, last>>
  BY <1>1 DEF queueVars
<1>3. /\ p.s = s /\ p.id = accepted[s] + 1
      /\ cur_dts' \in [Streams -> Int] /\ pts_buffer' \in [Streams -> Int]
      /\ \A r \in Streams : cur_dts[r] <= cur_dts'[r]
      /\ Clock(s)' = TimeIn(setup, p)
      /\ ClockInv'
  BY <1>0, <1>1, AcceptStep
<1>4. /\ p \in PacketType /\ TimeIn(setup, p) > NOPTS
      /\ ~forced' => /\ out # NotYet => out.time <= TimeIn(setup, p)
                     /\ offset # NotYet => Floor(offset) <= TimeIn(setup, p)
  BY WriteFrameInLine
<1> HIDE DEF p
<1>5. forced \in BOOLEAN /\ setup \in Setups /\ packet_buffer \in Seq(PacketType)
        /\ taken \in [Streams -> Nat] /\ accepted \in [Streams -> Nat]
  BY <1>0 DEF MuxTypeOK
<1>6. /\ offset' \in OffsetType /\ out' \in OutType
      /\ shifts' \in SUBSET [s : Streams, by : Int]
      /\ ret' \in {"ok", "error"} /\ faults' \in Nat
      /\ taken' = [taken EXCEPT ![p.s] = p.id]
      /\ out' = out \/ (out' # NotYet /\ out'.time = TimeIn(setup, p))
      /\ offset' = offset \/ (offset' # NotYet /\ Floor(offset') = TimeIn(setup, p))
      /\ SyncInv'
  BY <1>0, <1>1, <1>4, <1>5, WriteStep
<1>7. packet_buffer = <<>> /\ taken = accepted
  BY <1>0, <1>1, EmptyMeansTaken DEF QueueInv
<1>8. taken' = accepted' /\ taken' \in [Streams -> Nat]
  BY <1>1, <1>3, <1>5, <1>6, <1>7
<1>9. MuxTypeOK'
  BY <1>0, <1>1, <1>2, <1>3, <1>6, <1>8 DEF MuxTypeOK
<1>10. QueueInv'
  <2>1. DOMAIN packet_buffer = {}
    BY <1>7
  <2>2. NumbersOK(packet_buffer, taken', accepted')
    BY <1>8, <2>1 DEF NumbersOK
  <2>3. ClockedOK(setup, packet_buffer, cur_dts')
    BY <2>1 DEF ClockedOK
  <2> QED BY <1>0, <1>1, <1>2, <2>2, <2>3 DEF QueueInv
<1>11. CallInv'
  BY <1>0, <1>1 DEF CallInv
<1>12. BoundedHold'
  <2>1. Waiting' = {} /\ Streams # {}
    <3>1. Waiting = {} /\ Streams # {}
      BY <1>0, <1>7, WaitingIs
    <3> QED BY <1>2, <3>1 DEF Waiting
  <2> QED BY <1>2, <1>7, <1>8, <2>1 DEF BoundedHold
<1>13. \A t \in Int : Settled(t) => Settled(t)'
  <2> TAKE t \in Int
  <2> HAVE Settled(t)
  <2> QED BY <1>0, <1>1, <1>2, <1>3, <1>5, SettledKept
<1>14. \A t \in Int : t = TimeIn(setup, p) => Settled(t)'
  <2> TAKE t \in Int
  <2> HAVE t = TimeIn(setup, p)
  <2>1. t <= Clock(s)'
    BY <1>3
  <2> QED BY <1>1, <2>1 DEF Settled
<1>15. OrderInv'
  BY <1>0, <1>1, <1>4, <1>6, <1>13, <1>14, OrderWrite
<1> QED BY <1>3, <1>6, <1>9, <1>10, <1>11, <1>12, <1>15 DEF MuxInv

(* av_interleaved_write_frame(NULL) and av_write_trailer() *)
LEMMA FlushStep ==
  ASSUME MuxInv, Flush \/ Trailer
  PROVE  MuxInv'
<1>0. MuxTypeOK /\ ClockInv /\ QueueInv /\ CallInv /\ OrderInv /\ SyncInv
  BY DEF MuxInv
<1>1. /\ pc = "idle" /\ flush' = TRUE /\ pc' = "loop" /\ closing' \in BOOLEAN
      /\ closing => closing'
      /\ UNCHANGED <<setup, cur_dts, pts_buffer, queueVars, offset, ret, faults, histVars>>
  BY <1>0 DEF Flush, Trailer, MuxTypeOK
<1>2. UNCHANGED <<packet_buffer, packet_buffer_end, last, accepted, out, taken, forced, shifts>>
  BY <1>1 DEF queueVars, histVars
<1>3. MuxTypeOK'
  BY <1>0, <1>1, <1>2 DEF MuxTypeOK
<1>4. ClockInv' /\ QueueInv' /\ SyncInv'
  BY <1>0, <1>1, <1>2, ClockQuiet, QueueQuiet, SyncQuiet
<1>5. CallInv' /\ BoundedHold'
  BY <1>0, <1>1 DEF CallInv, BoundedHold
<1>6. OrderInv'
  <2>1. \A t \in Int : Settled(t) => Settled(t)'
    BY <1>0, <1>1, <1>2, SettledQuiet
  <2> QED BY <1>0, <1>1, <1>2, <2>1, OrderQuiet
<1> QED BY <1>3, <1>4, <1>5, <1>6 DEF MuxInv

(* The loop ends: nothing is ready, so a stream is missing and the queue   *)
(* is short, or it is empty.                                               *)
LEMMA ReturnStep ==
  ASSUME MuxInv, Return
  PROVE  MuxInv'
<1>0. MuxTypeOK /\ ClockInv /\ QueueInv /\ CallInv /\ OrderInv /\ SyncInv
  BY DEF MuxInv
<1>1. /\ ~Ready /\ ret' = "ok" /\ pc' = Returned
      /\ UNCHANGED <<setup, cur_dts, pts_buffer, queueVars, offset, flush, closing, faults, histVars>>
  BY DEF Return
<1>2. UNCHANGED <<packet_buffer, packet_buffer_end, last, accepted, out, taken, forced, shifts>>
  BY <1>1 DEF queueVars, histVars
<1>3. pc' = IF closing THEN "closed" ELSE "idle"
  BY <1>1 DEF Returned
<1>4. MuxTypeOK'
  BY <1>0, <1>1, <1>2, <1>3 DEF MuxTypeOK
<1>5. ClockInv' /\ QueueInv' /\ SyncInv'
  BY <1>0, <1>1, <1>2, ClockQuiet, QueueQuiet, SyncQuiet
<1>6. CallInv'
  BY <1>0, <1>1, <1>3 DEF CallInv
<1>7. OrderInv'
  <2>1. \A t \in Int : Settled(t) => Settled(t)'
    BY <1>0, <1>1, <1>2, SettledQuiet
  <2> QED BY <1>0, <1>1, <1>2, <2>1, OrderQuiet
<1>8. Waiting # Streams
  BY <1>0, <1>1, WaitingIs DEF Ready
<1>9. ASSUME setup.delta > 0, packet_buffer # <<>>, NEW p \in Range(packet_buffer)
      PROVE  Time(p) - Time(packet_buffer[1]) < (setup.delta + 1) * Microsecond
  <2>1. Waiting # {}
    BY <1>0, <1>9, WaitingIs
  <2>2. ~(Delta > setup.delta)
    BY <1>1, <1>9, <2>1 DEF Ready, TooLong
  <2>3. Delta \in Int /\ Micros(p) - Micros(packet_buffer[1]) <= Delta
    BY <1>0, <1>9, DeltaIsSpan
  <2>4. setup \in Setups /\ packet_buffer \in Seq(PacketType) /\ setup.delta \in Nat
    BY <1>0, SetupFacts DEF MuxTypeOK
  <2>5. 1 \in DOMAIN packet_buffer
    BY <1>9, <2>4, TailAt
  <2>6. PICK i \in DOMAIN packet_buffer : p = packet_buffer[i]
    BY DEF Range
  <2>7. packet_buffer[1] \in PacketType /\ p \in PacketType
    BY <2>4, <2>5, <2>6, PacketAt
  <2>8. Time(packet_buffer[1]) <= Time(p)
    <3>1. TimeIn(setup, packet_buffer[1]) <= TimeIn(setup, p)
      BY <1>0, <2>4, <2>6, FirstEarliest DEF QueueInv
    <3> QED BY <3>1, <2>4, <2>7, TimeInt
  <2>9. Micros(packet_buffer[1]) \in Int /\ Micros(p) \in Int
    BY <2>4, <2>7, <2>8, MicrosIs
  <2>10. Micros(p) - Micros(packet_buffer[1]) <= setup.delta
    BY <2>2, <2>3, <2>4, <2>9
  <2>11. setup.delta \in Int
    BY <2>4
  <2> QED BY <2>4, <2>7, <2>8, <2>10, <2>11, MicrosIs
<1>10. closing => taken = accepted
  <2> SUFFICES ASSUME closing PROVE taken = accepted
    OBVIOUS
  <2>1. Waiting = {}
    BY <1>0, <1>1 DEF Ready, CallInv
  <2>2. packet_buffer = <<>>
    BY <1>0, <2>1, WaitingIs
  <2> QED BY <1>0, <2>2, EmptyMeansTaken
<1>11. BoundedHold'
  <2>1. Waiting' = Waiting /\ \A p : Time(p)' = Time(p)
    BY <1>1, <1>2 DEF Waiting, Time
  <2> QED BY <1>1, <1>2, <1>8, <1>9, <1>10, <2>1 DEF BoundedHold, Time
<1> QED BY <1>4, <1>5, <1>6, <1>7, <1>11 DEF MuxInv

(* The packet that leaves the queue is in line, because the list is sorted *)
(* and nothing earlier is settled.                                         *)
LEMMA OutputInLine ==
  ASSUME MuxInv, Output
  PROVE  /\ packet_buffer # <<>> /\ ~setup.direct
         /\ packet_buffer[1] \in PacketType /\ TimeIn(setup, packet_buffer[1]) > NOPTS
         /\ forced' \in BOOLEAN /\ (forced => forced')
         /\ ~forced' => Waiting = Streams \/ closing
         /\ ~forced' => /\ out # NotYet => out.time <= TimeIn(setup, packet_buffer[1])
                        /\ offset # NotYet => Floor(offset) <= TimeIn(setup, packet_buffer[1])
<1> DEFINE p == packet_buffer[1]
<1>0. MuxTypeOK /\ QueueInv /\ OrderInv
  BY DEF MuxInv
<1>1. Ready /\ forced' = (forced \/ (Waiting # Streams /\ ~closing))
  BY DEF Output
<1>2. packet_buffer # <<>> /\ ~setup.direct
  BY <1>0, <1>1, WaitingIs DEF Ready, QueueInv
<1>3. packet_buffer \in Seq(PacketType) /\ 1 \in DOMAIN packet_buffer /\ closing \in BOOLEAN
        /\ forced \in BOOLEAN
  BY <1>0, <1>2, TailAt DEF MuxTypeOK
<1>4. p \in PacketType /\ TimeIn(setup, p) > NOPTS
  BY <1>0, <1>3, PacketAt DEF QueueInv, ClockedOK
<1>5. /\ forced' \in BOOLEAN /\ (forced => forced')
      /\ ~forced' => ~forced /\ (Waiting = Streams \/ closing)
  BY <1>1, <1>3
<1>6. \A t : Settled(t) => t <= TimeIn(setup, p)
  BY <1>2, <1>3 DEF Settled
<1> QED BY <1>0, <1>2, <1>4, <1>5, <1>6 DEF OrderInv

LEMMA OutputStep ==
  ASSUME MuxInv, Output
  PROVE  MuxInv'
<1> DEFINE q == packet_buffer
           p == q[1]
<1>0. MuxTypeOK /\ ClockInv /\ QueueInv /\ CallInv /\ OrderInv /\ SyncInv
  BY DEF MuxInv
<1>1. /\ q' = Tail(q) /\ packet_buffer_end' = IF Len(q) = 1 THEN None ELSE packet_buffer_end
      /\ last' = IF last[p.s] = Name(p) THEN [last EXCEPT ![p.s] = None] ELSE last
      /\ WritePacket(p)
      /\ pc' = IF ret' = "ok" THEN "loop" ELSE Returned
      /\ UNCHANGED <<setup, cur_dts, pts_buffer, flush, closing, accepted>>
  BY DEF Output, Pop, LastAfter
<1>2. /\ q # <<>> /\ ~setup.direct
      /\ p \in PacketType /\ TimeIn(setup, p) > NOPTS
      /\ forced' \in BOOLEAN /\ (forced => forced')
      /\ ~forced' => Waiting = Streams \/ closing
      /\ ~forced' => /\ out # NotYet => out.time <= TimeIn(setup, p)
                     /\ offset # NotYet => Floor(offset) <= TimeIn(setup, p)
  BY OutputInLine
<1>3. /\ offset' \in OffsetType /\ out' \in OutType
      /\ shifts' \in SUBSET [s : Streams, by : Int]
      /\ ret' \in {"ok", "error"} /\ faults' \in Nat
      /\ taken' = [taken EXCEPT ![p.s] = p.id]
      /\ out' = out \/ (out' # NotYet /\ out'.time = TimeIn(setup, p))
      /\ offset' = offset \/ (offset' # NotYet /\ Floor(offset') = TimeIn(setup, p))
      /\ SyncInv'
  BY <1>0, <1>1, <1>2, WriteStep
<1>4. /\ q \in Seq(PacketType) /\ taken \in [Streams -> Nat] /\ accepted \in [Streams -> Nat]
      /\ last \in [Streams -> NameType] /\ packet_buffer_end \in NameType
      /\ setup \in Setups /\ cur_dts \in [Streams -> Int]
  BY <1>0 DEF MuxTypeOK
<1>5. QueueInv'
  <2>1. Sorted(setup, Tail(q))
    BY <1>0, <1>2, <1>4, TailSorted DEF QueueInv
  <2>2. EndOK(Tail(q), packet_buffer_end')
    BY <1>0, <1>1, <1>2, <1>4, TailEnd DEF QueueInv
  <2>3. LastOK(Tail(q), last')
    BY <1>0, <1>1, <1>2, <1>4, TailLast DEF QueueInv
  <2>4. NumbersOK(Tail(q), taken', accepted)
    BY <1>0, <1>2, <1>3, <1>4, TailNumbers DEF QueueInv
  <2>5. ClockedOK(setup, Tail(q), cur_dts)
    BY <1>0, <1>2, <1>4, TailClocked DEF QueueInv
  <2> QED BY <1>1, <1>2, <2>1, <2>2, <2>3, <2>4, <2>5 DEF QueueInv
<1>6. MuxTypeOK'
  <2>1. q' \in Seq(PacketType)
    BY <1>1, <1>2, <1>4, TailAt
  <2>2. None \in NameType
    BY DEF None, NameType
  <2>3. packet_buffer_end' \in NameType
    BY <1>1, <1>4, <2>2
  <2>4. last' \in [Streams -> NameType]
    BY <1>1, <1>4, <2>2
  <2>5. taken' \in [Streams -> Nat]
    <3>1. p.id \in Nat
      BY <1>2, <1>4, TimeInt
    <3> QED BY <1>3, <1>4, <3>1
  <2>6. pc' \in {"idle", "loop", "closed"}
    BY <1>1 DEF Returned
  <2> QED BY <1>0, <1>1, <1>2, <1>3, <2>1, <2>3, <2>4, <2>5, <2>6 DEF MuxTypeOK
<1>7. ClockInv'
  BY <1>0, <1>1, ClockQuiet
<1>8. CallInv' /\ BoundedHold'
  BY <1>0, <1>1, <1>3 DEF CallInv, BoundedHold, Returned
<1>9. \A i \in DOMAIN q' : \E j \in DOMAIN q : q'[i] = q[j]
  BY <1>1, <1>2, <1>4, TailAt
<1>10. \A t \in Int : Settled(t) => Settled(t)'
  <2> TAKE t \in Int
  <2> HAVE Settled(t)
  <2>1. q' \in Seq(PacketType)
    BY <1>6 DEF MuxTypeOK
  <2>2. \A r \in Streams : cur_dts[r] <= cur_dts'[r]
    BY <1>1, <1>4
  <2> QED BY <1>0, <1>1, <1>4, <1>9, <2>1, <2>2, SettledKept
<1>11. ASSUME ~forced', NEW t \in Int, t = TimeIn(setup, p)
       PROVE  Settled(t)'
  <2>1. ASSUME NEW i \in DOMAIN q
        PROVE  t <= TimeIn(setup, q[i])
    BY <1>0, <1>4, <1>11, FirstEarliest DEF QueueInv
  <2>2. \A i \in DOMAIN q' : t <= TimeIn(setup, q'[i])
    BY <1>9, <2>1
  <2>3. ASSUME ~closing', NEW s \in Streams
        PROVE  t <= Clock(s)'
    <3>1. s \in Waiting
      BY <1>1, <1>2, <1>11, <2>3
    <3>2. PICK i \in DOMAIN q : q[i].s = s
      BY <1>0, <3>1, WaitingIs
    <3>3. q[i] \in PacketType /\ q[i].dts \in Int
      BY <1>4, PacketAt
    <3>4. q[i].dts <= cur_dts[s] /\ cur_dts[s] \in Int /\ setup.tb[s] \in Nat \ {0}
      BY <1>0, <1>4, <3>2, SetupFacts DEF QueueInv, ClockedOK
    <3>5. q[i].dts * setup.tb[s] <= cur_dts[s] * setup.tb[s]
      BY <3>3, <3>4, TimesMono
    <3>6. TimeIn(setup, q[i]) <= Clock(s)
      BY <3>2, <3>5 DEF TimeIn, Clock
    <3>7. TimeIn(setup, q[i]) \in Int /\ Clock(s) \in Int /\ Clock(s)' = Clock(s)
      <4>1. TimeIn(setup, q[i]) \in Int
        BY <1>4, <3>3, TimeInt
      <4>2. Clock(s) \in Int /\ Clock(s)' = Clock(s)
        BY <1>1, <3>4 DEF Clock
      <4> QED BY <4>1, <4>2
    <3> QED BY <2>1, <3>6, <3>7
  <2> QED BY <1>1, <1>2, <2>2, <2>3 DEF Settled
<1>12. OrderInv'
  BY <1>0, <1>1, <1>2, <1>3, <1>10, <1>11, OrderWrite
<1> QED BY <1>3, <1>5, <1>6, <1>7, <1>8, <1>12 DEF MuxInv

---------------------------------------------------------------------------
(***************************************************************************)
(* Theorems.                                                               *)
(***************************************************************************)
LEMMA MuxInvInit ==
  ASSUME Init
  PROVE  MuxInv
<1>1. /\ setup \in Setups /\ packet_buffer = <<>> /\ packet_buffer_end = None
      /\ cur_dts = [s \in Streams |-> NOPTS] /\ pts_buffer = [s \in Streams |-> NOPTS]
      /\ last = [s \in Streams |-> None]
      /\ offset = NotYet /\ out = NotYet /\ pc = "idle" /\ flush = FALSE /\ closing = FALSE
      /\ ret = "ok" /\ faults = 0
      /\ accepted = [s \in Streams |-> 0] /\ taken = [s \in Streams |-> 0]
      /\ forced = FALSE /\ shifts = {}
  BY DEF Init
<1>2. MuxTypeOK
  <2>1. None \in NameType /\ NOPTS \in Int
    BY DEF None, NameType, NOPTS
  <2>2. packet_buffer \in Seq(PacketType)
    BY <1>1
  <2>3. offset \in OffsetType /\ out \in OutType
    BY <1>1 DEF OffsetType, OutType
  <2> QED BY <1>1, <2>1, <2>2, <2>3 DEF MuxTypeOK
<1>3. ClockInv
  BY <1>1 DEF ClockInv, NOPTS
<1>4. QueueInv
  <2>1. DOMAIN packet_buffer = {}
    BY <1>1
  <2>2. Sorted(setup, packet_buffer) /\ ClockedOK(setup, packet_buffer, cur_dts)
    BY <2>1 DEF Sorted, ClockedOK
  <2>3. EndOK(packet_buffer, packet_buffer_end)
    BY <1>1 DEF EndOK
  <2>4. LastOK(packet_buffer, last)
    BY <1>1, <2>1 DEF LastOK
  <2>5. NumbersOK(packet_buffer, taken, accepted)
    BY <1>1, <2>1 DEF NumbersOK
  <2> QED BY <1>1, <2>2, <2>3, <2>4, <2>5 DEF QueueInv
<1>5. CallInv /\ OrderInv /\ SyncInv
  BY <1>1 DEF CallInv, OrderInv, SyncInv
<1>6. BoundedHold
  <2>1. Waiting = {} /\ Streams # {}
    BY <1>1, <1>2, <1>4, WaitingIs
  <2> QED BY <1>1, <2>1 DEF BoundedHold
<1> QED BY <1>2, <1>3, <1>4, <1>5, <1>6 DEF MuxInv

LEMMA MuxInvStep ==
  ASSUME MuxInv, [Next]_vars
  PROVE  MuxInv'
<1>1. ASSUME NEW s \in Streams, NEW ts \in Timestamps(s),
             Refuse(s, ts) \/ InterleavedWriteFrame(s, ts) \/ WriteFrame(s, ts)
      PROVE  MuxInv'
  BY <1>1, RefuseStep, InterleavedWriteFrameStep, WriteFrameStep
<1>2. CASE Flush \/ Trailer
  BY <1>2, FlushStep
<1>3. CASE Output
  BY <1>3, OutputStep
<1>4. CASE Return
  BY <1>4, ReturnStep
<1>5. CASE UNCHANGED vars
  <2>0. MuxTypeOK /\ ClockInv /\ QueueInv /\ CallInv /\ OrderInv /\ SyncInv /\ BoundedHold
    BY DEF MuxInv
  <2>1. /\ UNCHANGED <<setup, cur_dts, pts_buffer, queueVars, offset, pc, flush, closing, ret,
                       faults, histVars>>
        /\ UNCHANGED <<packet_buffer, packet_buffer_end, last>>
        /\ UNCHANGED <<accepted, out, taken, forced, shifts>>
    BY <1>5 DEF vars, queueVars, histVars
  <2>2. MuxTypeOK'
    BY <2>0, <2>1 DEF MuxTypeOK
  <2>3. ClockInv' /\ QueueInv' /\ SyncInv'
    BY <2>0, <2>1, ClockQuiet, QueueQuiet, SyncQuiet
  <2>4. CallInv'
    BY <2>0, <2>1 DEF CallInv
  <2>5. BoundedHold'
    BY <2>0, <2>1 DEF BoundedHold, Waiting, Time
  <2>6. OrderInv'
    <3>1. \A t \in Int : Settled(t) => Settled(t)'
      BY <2>0, <2>1, SettledQuiet
    <3> QED BY <2>0, <2>1, <3>1, OrderQuiet
  <2> QED BY <2>2, <2>3, <2>4, <2>5, <2>6 DEF MuxInv
<1> QED BY <1>1, <1>2, <1>3, <1>4, <1>5 DEF Next

(* The inductive invariant: list, pointers and numbers agree, the clocks   *)
(* do not go back, and no packet will be written that is earlier than one  *)
(* already written, or than the one that fixed the offset.                 *)
THEOREM MuxInvariant == Spec => []MuxInv
<1>1. Init => MuxInv
  BY MuxInvInit
<1>2. MuxInv /\ [Next]_vars => MuxInv'
  BY MuxInvStep
<1> QED BY <1>1, <1>2, PTL DEF Spec

(* ff_interleave_add_packet() keeps the list sorted and its pointers       *)
(* right, in whatever order and time base the packets come.                *)
THEOREM QueueIntact == Spec => []ListIntact
<1>1. ASSUME MuxInv
      PROVE  ListIntact
  <2> DEFINE q == packet_buffer
  <2>0. /\ MuxTypeOK /\ QueueInv
        /\ setup \in Setups /\ q \in Seq(PacketType)
        /\ Sorted(setup, q) /\ EndOK(q, packet_buffer_end) /\ LastOK(q, last)
    BY <1>1 DEF MuxInv, MuxTypeOK, QueueInv
  <2>1. packet_buffer_end = IF q = <<>> THEN None ELSE Name(q[Len(q)])
    BY <2>0 DEF EndOK
  <2>2. ASSUME NEW s \in Streams
        PROVE  LET mine == {i \in DOMAIN q : q[i].s = s}
               IN  last[s] = IF mine = {} THEN None ELSE Name(q[Max(mine)])
    <3> DEFINE mine == {i \in DOMAIN q : q[i].s = s}
    <3>1. CASE last[s] = None /\ \A i \in DOMAIN q : q[i].s # s
      <4>1. mine = {}
        BY <3>1
      <4> QED BY <3>1, <4>1
    <3>2. CASE \E i \in DOMAIN q : IsLast(q, s, i) /\ last[s] = Name(q[i])
      <4>1. PICK i \in DOMAIN q : IsLast(q, s, i) /\ last[s] = Name(q[i])
        BY <3>2
      <4>2. DOMAIN q \in SUBSET Int
        BY <2>0
      <4>3. mine \in SUBSET Int /\ i \in mine /\ \A y \in mine : i >= y
        BY <4>1, <4>2 DEF IsLast
      <4>4. Max(mine) = i
        BY <4>3, MaxIs
      <4> QED BY <4>1, <4>3, <4>4
    <3> QED BY <2>0, <3>1, <3>2 DEF LastOK
  <2>3. ASSUME NEW i \in DOMAIN q, NEW j \in DOMAIN q, i < j
        PROVE  ~After(q[i], q[j])
    <3>1. Leq(setup, q[i], q[j]) /\ q[i] \in PacketType /\ q[j] \in PacketType
      BY <2>0, <2>3, PacketAt DEF Sorted
    <3> QED BY <2>0, <3>1, AfterIsNotLeq
  <2> QED BY <2>1, <2>2, <2>3 DEF ListIntact
<1> QED BY <1>1, MuxInvariant, PTL

(* A call that succeeds leaves a queue that lacks a stream and is within   *)
(* max_interleave_delta, and av_write_trailer() leaves nothing.            *)
THEOREM HeldBriefly == Spec => []BoundedHold
<1>1. MuxInv => BoundedHold
  BY DEF MuxInv
<1> QED BY <1>1, MuxInvariant, PTL

(* The offset of write_packet(), fixed once and rescaled with rounding for *)
(* every stream, leaves no timestamp negative and the streams together.    *)
THEOREM StreamsInSync == Spec => []InSync
<1>1. ASSUME MuxInv
      PROVE  InSync
  <2> SUFFICES ASSUME ~forced
               PROVE  /\ setup.avoid # "no" /\ out # NotYet => out.dts >= 0
                      /\ \A a, b \in shifts :
                           /\ a.s = b.s => a.by = b.by
                           /\ 2 * (a.by * setup.tb[a.s] - b.by * setup.tb[b.s])
                                <= setup.tb[a.s] + setup.tb[b.s]
    BY DEF InSync
  <2>0. /\ SyncInv /\ setup \in Setups /\ offset \in OffsetType
        /\ shifts \in SUBSET [s : Streams, by : Int]
    BY <1>1 DEF MuxInv, MuxTypeOK
  <2>1. ASSUME NEW a \in shifts, NEW b \in shifts
        PROVE  /\ a.s = b.s => a.by = b.by
               /\ 2 * (a.by * setup.tb[a.s] - b.by * setup.tb[b.s])
                    <= setup.tb[a.s] + setup.tb[b.s]
    <3>1. a.by = ShiftOf(offset, a.s) /\ b.by = ShiftOf(offset, b.s)
      BY <2>0 DEF SyncInv
    <3>2. a.s \in Streams /\ b.s \in Streams
      BY <2>0
    <3>3. setup.tb[a.s] \in Nat \ {0} /\ setup.tb[b.s] \in Nat \ {0}
      BY <2>0, <3>2, SetupFacts
    <3>4. CASE offset = NotYet
      <4>1. a.by = 0 /\ b.by = 0
        BY <3>1, <3>4 DEF ShiftOf
      <4> QED BY <3>3, <4>1
    <3>5. CASE offset # NotYet
      <4>1. /\ a.by = Rescale(offset.dts, setup.tb[offset.s], setup.tb[a.s])
            /\ b.by = Rescale(offset.dts, setup.tb[offset.s], setup.tb[b.s])
        BY <3>1, <3>5 DEF ShiftOf
      <4>2. offset.dts \in Int /\ setup.tb[offset.s] \in Nat \ {0}
        BY <2>0, <3>5, FloorInt
      <4> QED BY <3>3, <4>1, <4>2, ShiftsTogether
    <3> QED BY <3>4, <3>5
  <2>2. setup.avoid # "no" /\ out # NotYet => out.dts >= 0
    BY <2>0 DEF SyncInv
  <2> QED BY <2>1, <2>2
<1> QED BY <1>1, MuxInvariant, PTL

(* Until a packet is forced out, packets are written in the order of time, *)
(* and within a stream always one by one.                                  *)
THEOREM WrittenInOrder == Spec => Interleaved
<1> DEFINE Ordered == /\ out' # out /\ ~forced' => out'.time >= out.time
                      /\ \A s \in Streams : taken'[s] \in {taken[s], taken[s] + 1}
<1>1. ASSUME UNCHANGED <<out, taken>>
      PROVE  Ordered
  BY <1>1
<1>2. ASSUME MuxInv, NEW p \in PacketType, setup' = setup,
             TimeIn(setup, p) > NOPTS,
             out' = out \/ (out' # NotYet /\ out'.time = TimeIn(setup, p)),
             ~forced' => (out # NotYet => out.time <= TimeIn(setup, p)),
             taken' = [taken EXCEPT ![p.s] = p.id], p.id = taken[p.s] + 1
      PROVE  Ordered
  <2>0. out \in OutType /\ taken \in [Streams -> Nat] /\ setup \in Setups
    BY <1>2 DEF MuxInv, MuxTypeOK
  <2>1. \A s \in Streams : taken'[s] \in {taken[s], taken[s] + 1}
    BY <1>2, <2>0
  <2>2. ASSUME out' # out, ~forced'
        PROVE  out'.time >= out.time
    <3>0. out'.time = TimeIn(setup, p) /\ TimeIn(setup, p) \in Int
      BY <1>2, <2>0, <2>2, TimeInt
    <3>1. CASE out = NotYet
      BY <1>2, <3>0, <3>1 DEF NotYet, NOPTS
    <3>2. CASE out # NotYet
      BY <1>2, <2>0, <2>2, <3>0, <3>2, OutInt
    <3> QED BY <3>1, <3>2
  <2> QED BY <2>1, <2>2
<1>3. ASSUME MuxInv, Output
      PROVE  Ordered
  <2> DEFINE p == packet_buffer[1]
  <2>0. MuxTypeOK /\ SyncInv /\ QueueInv
    BY <1>3 DEF MuxInv
  <2>1. WritePacket(p) /\ setup' = setup
    BY <1>3 DEF Output
  <2>2. /\ packet_buffer # <<>> /\ p \in PacketType /\ TimeIn(setup, p) > NOPTS
        /\ forced' \in BOOLEAN /\ (forced => forced')
        /\ ~forced' => /\ out # NotYet => out.time <= TimeIn(setup, p)
                       /\ offset # NotYet => Floor(offset) <= TimeIn(setup, p)
    BY <1>3, OutputInLine
  <2>3. p.id = taken[p.s] + 1
    BY <2>0, <2>2, FirstIsNext DEF MuxTypeOK, QueueInv
  <2> HIDE DEF p
  <2>4. /\ out' = out \/ (out' # NotYet /\ out'.time = TimeIn(setup, p))
        /\ taken' = [taken EXCEPT ![p.s] = p.id]
    BY <2>0, <2>1, <2>2, WriteStep
  <2> QED BY <1>2, <1>3, <2>1, <2>2, <2>3, <2>4
<1>4. ASSUME MuxInv, NEW s \in Streams, NEW ts \in Timestamps(s), WriteFrame(s, ts)
      PROVE  Ordered
  <2> DEFINE p == Packet(s, ts)
  <2>0. MuxTypeOK /\ SyncInv /\ QueueInv /\ ClockInv
    BY <1>4 DEF MuxInv
  <2>1. WritePacket(p) /\ setup' = setup /\ forced' = forced /\ setup.direct /\ Accept(s, ts)
    BY <1>4 DEF WriteFrame
  <2>2. /\ p \in PacketType /\ TimeIn(setup, p) > NOPTS
        /\ ~forced' => /\ out # NotYet => out.time <= TimeIn(setup, p)
                       /\ offset # NotYet => Floor(offset) <= TimeIn(setup, p)
    BY <1>4, WriteFrameInLine
  <2>3. p.id = taken[p.s] + 1
    <3>1. p.s = s /\ p.id = accepted[s] + 1
      BY <2>0, <2>1, AcceptStep
    <3>2. taken = accepted
      BY <2>0, <2>1, EmptyMeansTaken DEF QueueInv
    <3> QED BY <3>1, <3>2
  <2> HIDE DEF p
  <2>4. forced \in BOOLEAN
    BY <2>0 DEF MuxTypeOK
  <2>5. /\ out' = out \/ (out' # NotYet /\ out'.time = TimeIn(setup, p))
        /\ taken' = [taken EXCEPT ![p.s] = p.id]
    BY <2>0, <2>1, <2>2, <2>4, WriteStep
  <2> QED BY <1>2, <1>4, <2>1, <2>2, <2>3, <2>5
<1>5. ASSUME MuxInv, [Next]_vars
      PROVE  Ordered
  <2>1. ASSUME NEW s \in Streams, NEW ts \in Timestamps(s), Refuse(s, ts)
        PROVE  UNCHANGED <<out, taken>>
    BY <2>1 DEF Refuse, histVars
  <2>2. ASSUME NEW s \in Streams, NEW ts \in Timestamps(s), InterleavedWriteFrame(s, ts)
        PROVE  UNCHANGED <<out, taken>>
    BY <2>2 DEF InterleavedWriteFrame
  <2>3. CASE Flush \/ Trailer \/ Return \/ UNCHANGED vars
    BY <1>1, <2>3 DEF Flush, Trailer, Return, vars, histVars
  <2>4. CASE \E s \in Streams : \E ts \in Timestamps(s) :
               Refuse(s, ts) \/ InterleavedWriteFrame(s, ts) \/ WriteFrame(s, ts)
    BY <1>1, <1>4, <1>5, <2>1, <2>2, <2>4
  <2> QED BY <1>3, <1>5, <2>3, <2>4 DEF Next
<1>6. MuxInv /\ [Next]_vars => [Ordered]_vars
  BY <1>5
<1> QED BY <1>6, MuxInvariant, PTL DEF Spec, Interleaved
==========================================================================
