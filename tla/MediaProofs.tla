---------------------------- MODULE MediaProofs ----------------------------
(***************************************************************************)
(* Proofs about VideoForward for every number space, cache size and set of *)
(* key frames, and for streams whose numbers wrap around any number of     *)
(* times; and about PeerConnection for every set of answers.               *)
(*                                                                         *)
(* What the cache holds lies within its size of the last packet forwarded. *)
(* There equal numbers are equal packets and AheadOrAt is the order of     *)
(* packets; the first part proves that, the second the invariant.          *)
(*                                                                         *)
(* The tracks that are read from an answer have their SSRCs in a definite  *)
(* order; written to an offer in that order, and read again, they are the  *)
(* same.  The last parts prove that, and what it means for the streams.    *)
(***************************************************************************)
EXTENDS VideoForward, PeerConnection, FiniteSetTheorems, SequenceTheorems, WellFoundedInduction, TLAPS

----------------------------------------------------------------------------
(* Sequence numbers                                                        *)

(* Quotient and remainder.                                                 *)
LEMMA DivMod ==
  ASSUME NEW m \in Nat \ {0}, NEW a \in Int
  PROVE  /\ a \div m \in Int /\ a % m \in 0 .. m - 1
         /\ a = (a \div m) * m + (a % m)
  OBVIOUS

(* A remainder is determined by its range.                                 *)
LEMMA ModUnique ==
  ASSUME NEW m \in Nat \ {0}, NEW q \in Int, NEW r \in 0 .. m - 1
  PROVE  (q * m + r) % m = r
  OBVIOUS

(* Whole multiples of the modulus do not matter.                           *)
LEMMA ModShift ==
  ASSUME NEW m \in Nat \ {0}, NEW q \in Int, NEW a \in Int
  PROVE  (q * m + a) % m = a % m
  <1> DEFINE d == a \div m
             r == a % m
  <1>1. d \in Int /\ r \in 0 .. m - 1 /\ a = d * m + r
    BY DivMod
  <1> HIDE DEF d, r
  <1>2. q * m + a = (q + d) * m + r /\ q + d \in Int
    BY <1>1
  <1>3. ((q + d) * m + r) % m = r
    BY <1>1, <1>2, ModUnique
  <1> QED BY <1>2, <1>3 DEF r

(* A multiple of m that is closer to 0 than m is 0.                        *)
LEMMA SmallMultiple ==
  ASSUME NEW m \in Nat \ {0}, NEW k \in Int, -m < k * m, k * m < m
  PROVE  k = 0
  OBVIOUS

(* Numbers with the same remainder are equal if they are close.            *)
LEMMA ModInjective ==
  ASSUME NEW m \in Nat \ {0}, NEW a \in Int, NEW b \in Int, a % m = b % m,
         -m < a - b, a - b < m
  PROVE  a = b
  <1> DEFINE p == a \div m
             q == b \div m
  <1>1. p \in Int /\ q \in Int /\ a % m \in Int /\ a = p * m + (a % m) /\ b = q * m + (a % m)
    BY DivMod
  <1> HIDE DEF p, q
  <1>2. p - q \in Int /\ a - b = (p - q) * m
    BY <1>1
  <1>3. p - q = 0
    BY <1>2, SmallMultiple
  <1> QED BY <1>1, <1>3

(* The place of a packet in the cache.                                     *)
Slot(x) == SeqNo(x) % CacheSize

(* The assumptions on the constants, one by one.                           *)
LEMMA Bounds ==
  /\ SeqSpace \in Nat \ {0} /\ SeqSpace \div 2 \in Nat /\ 2 * (SeqSpace \div 2) = SeqSpace
  /\ CacheSize \in Nat \ {0} /\ SeqSpace % CacheSize = 0 /\ 4 * CacheSize <= SeqSpace
  /\ MaxPacket \in Nat /\ FirstSeq \in Nat
  /\ Window \in Nat /\ Span \in Nat
  /\ Packets \subseteq Nat /\ None \notin Packets
  BY SeqSpaceAssumption, CacheAssumption, PacketsAssumption, FirstSeqAssumption,
     WindowAssumption, NoneAssumption DEF SeqNums, Packets

(* What SeqNo and Slot are, as remainders: the cache divides the number    *)
(* space.                                                                  *)
LEMMA SlotIs ==
  ASSUME NEW x \in Int
  PROVE  /\ SeqNo(x) \in SeqNums /\ SeqNo(x) = (FirstSeq + x) % SeqSpace
         /\ Slot(x) \in Slots /\ Slot(x) = (FirstSeq + x) % CacheSize
  <1> DEFINE a == FirstSeq + x
             r == a % SeqSpace
             q == a \div SeqSpace
             k == SeqSpace \div CacheSize
  <1>1. a \in Int
    BY Bounds
  <1>2. SeqNo(x) = r /\ Slot(x) = r % CacheSize
    BY DEF SeqNo, Wrap, Slot
  <1> HIDE DEF a
  <1>3. q \in Int /\ r \in 0 .. SeqSpace - 1 /\ a = q * SeqSpace + r
    BY <1>1, Bounds, DivMod
  <1>4. k \in Int /\ SeqSpace = k * CacheSize
    <2>1. k \in Int /\ SeqSpace = k * CacheSize + (SeqSpace % CacheSize)
      BY Bounds, DivMod
    <2> QED BY <2>1, Bounds
  <1> HIDE DEF q, k, r
  <1>5. r % CacheSize \in 0 .. CacheSize - 1
    <2>1. r \in Int /\ CacheSize \in Nat \ {0}
      BY <1>3, Bounds
    <2> QED BY ONLY <2>1, DivMod
  <1> DEFINE z == q * k
  <1>6. a = z * CacheSize + r /\ z \in Int
    BY <1>3, <1>4, Bounds
  <1>7. a % CacheSize = r % CacheSize
    <2> HIDE DEF z
    <2>1. r \in Int /\ CacheSize \in Nat \ {0} /\ z \in Int
      BY <1>3, <1>6, Bounds
    <2>2. (z * CacheSize + r) % CacheSize = r % CacheSize
      BY ONLY <2>1, ModShift
    <2> QED BY <1>6, <2>2
  <1> QED BY <1>2, <1>3, <1>5, <1>7 DEF SeqNums, Slots, a, r

(* Counting on from the number of a packet.                                *)
LEMMA SeqNoPlus ==
  ASSUME NEW x \in Int, NEW i \in Int
  PROVE  Wrap(SeqNo(x) + i) = SeqNo(x + i)
  <1> DEFINE a == FirstSeq + x
             r == a % SeqSpace
             q == a \div SeqSpace
  <1>1. q \in Int /\ r \in Int /\ a = q * SeqSpace + r
    BY Bounds, DivMod
  <1>2. SeqNo(x) = r /\ SeqNo(x + i) = (a + i) % SeqSpace
    BY Bounds DEF SeqNo, Wrap
  <1> HIDE DEF q, r, a
  <1>3. a + i = q * SeqSpace + (r + i) /\ r + i \in Int
    BY <1>1, Bounds
  <1>4. (q * SeqSpace + (r + i)) % SeqSpace = (r + i) % SeqSpace
    BY <1>1, <1>3, Bounds, ModShift
  <1> QED BY <1>2, <1>3, <1>4 DEF Wrap

(* Close packets have different numbers.                                   *)
LEMMA SeqNoInjective ==
  ASSUME NEW x \in Int, NEW y \in Int, SeqNo(x) = SeqNo(y),
         x - y < SeqSpace, y - x < SeqSpace
  PROVE  x = y
  <1> DEFINE a == FirstSeq + x
             b == FirstSeq + y
  <1>1. a \in Int /\ b \in Int /\ -SeqSpace < a - b /\ a - b < SeqSpace
    BY Bounds
  <1>2. a % SeqSpace = b % SeqSpace
    BY SlotIs
  <1> HIDE DEF a, b
  <1>3. a = b
    BY <1>1, <1>2, Bounds, ModInjective
  <1> QED BY <1>3, Bounds DEF a, b

(* Packets closer than the cache is large have different slots of it.      *)
LEMMA SlotInjective ==
  ASSUME NEW x \in Int, NEW y \in Int, Slot(x) = Slot(y),
         x - y < CacheSize, y - x < CacheSize
  PROVE  x = y
  <1> DEFINE a == FirstSeq + x
             b == FirstSeq + y
  <1>1. a \in Int /\ b \in Int /\ -CacheSize < a - b /\ a - b < CacheSize
    BY Bounds
  <1>2. a % CacheSize = b % CacheSize
    BY SlotIs
  <1> HIDE DEF a, b
  <1>3. a = b
    BY <1>1, <1>2, Bounds, ModInjective
  <1> QED BY <1>3, Bounds DEF a, b

(* The cache is a ring.                                                    *)
LEMMA SlotPeriod ==
  ASSUME NEW x \in Int
  PROVE  Slot(x + CacheSize) = Slot(x)
  <1> DEFINE a == FirstSeq + x
  <1>1. a \in Int /\ x + CacheSize \in Int
    BY Bounds
  <1>2. Slot(x) = a % CacheSize /\ Slot(x + CacheSize) = (FirstSeq + (x + CacheSize)) % CacheSize
    BY <1>1, SlotIs
  <1> DEFINE k == 1
  <1>3. FirstSeq + (x + CacheSize) = k * CacheSize + a /\ k \in Int
    BY Bounds
  <1> HIDE DEF a, k
  <1>4. (k * CacheSize + a) % CacheSize = a % CacheSize
    <2>1. CacheSize \in Nat \ {0}
      BY Bounds
    <2> QED BY ONLY <1>1, <1>3, <2>1, ModShift
  <1> QED BY <1>2, <1>3, <1>4

(* Within half the number space AheadOrAt is the order of packets.         *)
LEMMA AheadIs ==
  ASSUME NEW x \in Int, NEW y \in Int, 2 * (x - y) < SeqSpace, 2 * (y - x) < SeqSpace
  PROVE  /\ AheadOrAt(SeqNo(x), SeqNo(y)) <=> x >= y
         /\ AheadOf(SeqNo(x), SeqNo(y)) <=> x > y
  <1> DEFINE h == SeqSpace \div 2
             d == x - y
             r == ForwardDiff(SeqNo(y), SeqNo(x))
  <1>1. h \in Nat /\ 2 * h = SeqSpace /\ SeqSpace \in Nat \ {0} /\ d \in Int
    BY Bounds
  <1>2. r = d % SeqSpace
    <2> DEFINE a == FirstSeq + x
               b == FirstSeq + y
               p == a \div SeqSpace
               q == b \div SeqSpace
    <2>1. /\ p \in Int /\ a = p * SeqSpace + SeqNo(x) /\ SeqNo(x) \in Int
          /\ q \in Int /\ b = q * SeqSpace + SeqNo(y) /\ SeqNo(y) \in Int
          /\ d = a - b
      BY Bounds, DivMod, SlotIs DEF SeqNums
    <2> HIDE DEF a, b, p, q, d
    <2>2. SeqNo(x) - SeqNo(y) = (q - p) * SeqSpace + d /\ q - p \in Int
      BY <1>1, <2>1
    <2>3. ((q - p) * SeqSpace + d) % SeqSpace = d % SeqSpace
      BY <1>1, <2>2, ModShift
    <2> QED BY <2>2, <2>3 DEF ForwardDiff
  <1>3. SeqNo(x) = SeqNo(y) <=> x = y
    BY <1>1, SeqNoInjective
  <1> HIDE DEF h, r
  <1>4. CASE d >= 0
    <2>1. d \in 0 .. SeqSpace - 1
      BY <1>1, <1>4
    <2>2. (0 * SeqSpace + d) % SeqSpace = d
      BY <1>1, <2>1, ModUnique
    <2>3. r = d
      BY <1>1, <1>2, <2>2
    <2>4. AheadOrAt(SeqNo(x), SeqNo(y))
      BY <1>1, <2>3 DEF AheadOrAt, h, r
    <2> QED BY <1>3, <1>4, <2>4 DEF AheadOf
  <1>5. CASE d < 0
    <2>1. d + SeqSpace \in 0 .. SeqSpace - 1
      BY <1>1, <1>5
    <2>2. ((-1) * SeqSpace + (d + SeqSpace)) % SeqSpace = d + SeqSpace
      <3> HIDE DEF d
      <3> QED BY <1>1, <2>1, ModUnique
    <2>3. r = d + SeqSpace
      <3>1. (-1) * SeqSpace + (d + SeqSpace) = d
        BY <1>1
      <3> QED BY <1>2, <2>2, <3>1
    <2>4. ~AheadOrAt(SeqNo(x), SeqNo(y))
      <3>1. r > h
        BY <1>1, <2>3
      <3> QED BY <1>1, <2>1, <2>3, <3>1 DEF AheadOrAt, h, r
    <2> QED BY <1>3, <1>5, <2>4 DEF AheadOf
  <1> QED BY <1>1, <1>4, <1>5

----------------------------------------------------------------------------
(* The invariant, of a cache b, the packets sent and the packets R         *)
(* received, once there are any.                                           *)

Increasing(sent) == \A i, j \in 1 .. Len(sent) : i < j => sent[i] < sent[j]

Arrived(f, R) == \A x \in Packets : f[1] <= x /\ x <= f[2] => x \in R

GapsEnd(sent, R) ==
  \A i \in 1 .. Len(sent) - 1 : sent[i + 1] # sent[i] + 1 =>
    \E f \in KeyFrames : f[1] = sent[i + 1] /\ Arrived(f, R)

(* Between the first and the last packet sent, what is missing lies before *)
(* a key frame that forwarding went on with.                               *)
SkippedForKey(sent, R) ==
  \A x \in Packets : sent[1] <= x /\ x <= Last(sent) =>
    \/ \E i \in 1 .. Len(sent) : sent[i] = x
    \/ \E g \in KeyFrames : Arrived(g, R) /\ x < g[1] /\ g[1] <= Last(sent)

(* Nothing in the cache is as old as to be taken for another packet,       *)
Fresh(b, last, R) ==
  \A s \in Slots : b[s] # None =>
    /\ b[s] \in R /\ Slot(b[s]) = s
    /\ last - CacheSize < b[s] /\ b[s] <= last + Span

(* and nothing that came ahead of its turn has been lost.                  *)
Holds(b, last, R) == \A x \in R : x > last => b[Slot(x)] = x

Stopped(b, last) == ~InCache(b, SeqNo(last + 1))

Sent(sent, R) ==
  /\ sent \in Seq(Packets) /\ sent # <<>> /\ Last(sent) \in R
  /\ Increasing(sent)
  /\ GapsEnd(sent, R)
  /\ SkippedForKey(sent, R)

Cached(b, last, R) ==
  /\ b \in [Slots -> Packets \cup {None}]
  /\ Fresh(b, last, R)
  /\ Holds(b, last, R)
  /\ Stopped(b, last)

(* Forwarding has reached every key frame that is complete.                *)
KeysReached(sent, R) == \A f \in KeyFrames : Arrived(f, R) => f[1] <= Last(sent)

IInv ==
  /\ TypeOK
  /\ started <=> received # {}
  /\ ~started => forwarded = <<>> /\ video_data_buffer_ = [i \in Slots |-> None]
  /\ started => /\ video_seq_ = SeqNo(Last(forwarded))
                /\ Sent(forwarded, received)
                /\ Cached(video_data_buffer_, Last(forwarded), received)
                /\ KeysReached(forwarded, received)

----------------------------------------------------------------------------
(* The cache                                                               *)

Caches == [Slots -> Packets \cup {None}]

(* A set of naturals that has a member has a least one.                    *)
LEMMA LeastNat ==
  ASSUME NEW T \in SUBSET Nat, T # {}
  PROVE  \E x \in T : \A y \in T : x <= y
  <1>1. PICK x \in T : \A y \in T : ~(<<y, x>> \in OpToRel(<, Nat))
    BY NatLessThanWellFounded, WFMin
  <1>2. \A y \in T : ~(y < x)
    BY <1>1 DEF OpToRel
  <1> QED BY <1>2

(* FindVideoPacket finds the packet it is asked for.                       *)
LEMMA Find ==
  ASSUME WithinCache,
         NEW b \in Caches, NEW last \in Packets, NEW R \in SUBSET Packets, Fresh(b, last, R),
         NEW x \in Nat, last - CacheSize < x, x <= last + 2 * CacheSize
  PROVE  /\ InCache(b, SeqNo(x)) => b[Slot(x)] = x
         /\ x \in Packets /\ b[Slot(x)] = x => InCache(b, SeqNo(x))
  <1>1. Slot(x) \in Slots /\ Packets \subseteq Nat /\ None \notin Packets /\ x \in Int
    BY SlotIs, Bounds
  <1>2. ASSUME InCache(b, SeqNo(x)) PROVE b[Slot(x)] = x
    <2> DEFINE c == b[Slot(x)]
    <2>1. c # None /\ SeqNo(c) = SeqNo(x)
      BY <1>2 DEF InCache, Slot
    <2>2. c \in Nat /\ last - CacheSize < c /\ c <= last + Span
      BY <1>1, <2>1 DEF Fresh, Caches
    <2>3. c - x < SeqSpace /\ x - c < SeqSpace /\ c \in Int
      BY <1>1, <2>2, Bounds DEF WithinCache
    <2> HIDE DEF c
    <2>4. c = x
      BY <1>1, <2>1, <2>3, SeqNoInjective
    <2> QED BY <2>4 DEF c
  <1>3. ASSUME x \in Packets, b[Slot(x)] = x PROVE InCache(b, SeqNo(x))
    BY <1>1, <1>3 DEF InCache, Slot
  <1> QED BY <1>2, <1>3

(* The loop of forwarding stops, within the cache, behind the packets that *)
(* follow each other.                                                      *)
IsRun(b, a, n, last) ==
  /\ n \in 1 .. CacheSize
  /\ \A i \in 0 .. n - 1 : b[Slot(a + i)] = a + i /\ a + i \in Packets
  /\ a + n - 1 <= last + Span
  /\ ~InCache(b, SeqNo(a + n))

(* RunLength finds such a run in front of any cached packet not yet sent.  *)
LEMMA RunIs ==
  ASSUME WithinCache,
         NEW b \in Caches, NEW last \in Packets, NEW R \in SUBSET Packets, Fresh(b, last, R),
         NEW a \in Packets, a > last, b[Slot(a)] = a
  PROVE  IsRun(b, a, RunLength(b, SeqNo(a)), last)
  <1> DEFINE In(i) == InCache(b, Wrap(SeqNo(a) + i))
             n == RunLength(b, SeqNo(a))
  <1>1. /\ Packets \subseteq Nat /\ None \notin Packets /\ a \in Nat /\ last \in Nat
        /\ CacheSize \in Nat \ {0} /\ Span \in Nat /\ Span < CacheSize
    BY Bounds DEF WithinCache
  <1>2. \A i \in Nat : In(i) <=> InCache(b, SeqNo(a + i))
    <2> SUFFICES ASSUME NEW i \in Nat PROVE In(i) <=> InCache(b, SeqNo(a + i))
      OBVIOUS
    <2>1. Wrap(SeqNo(a) + i) = SeqNo(a + i)
      BY <1>1, SeqNoPlus
    <2> QED BY <2>1
  <1>3. a <= last + Span
    <2>1. Slot(a) \in Slots
      BY <1>1, SlotIs
    <2> QED BY <1>1, <2>1 DEF Fresh
  <1> HIDE DEF In
  <1>4. \E k \in 0 .. CacheSize + 1 :
          /\ \A i \in 0 .. k - 1 : In(i)
          /\ k <= CacheSize => ~In(k)
    <2> DEFINE T == {k \in Nat : k > CacheSize \/ ~In(k)}
    <2>1. T \in SUBSET Nat /\ CacheSize + 1 \in T
      BY <1>1
    <2>2. PICK k \in T : \A y \in T : k <= y
      <3> HIDE DEF T
      <3>1. T # {}
        BY <2>1
      <3> QED BY <2>1, <3>1, LeastNat
    <2>3. k \in 0 .. CacheSize + 1
      BY <1>1, <2>1, <2>2
    <2>4. \A i \in 0 .. k - 1 : In(i)
      BY <1>1, <2>2, <2>3
    <2>5. k <= CacheSize => ~In(k)
      BY <1>1, <2>2, <2>3
    <2> HIDE DEF T
    <2> QED BY <2>3, <2>4, <2>5
  <1>5. /\ n \in 0 .. CacheSize + 1
        /\ \A i \in 0 .. n - 1 : In(i)
        /\ n <= CacheSize => ~In(n)
    <2>1. n = CHOOSE k \in 0 .. CacheSize + 1 :
                /\ \A i \in 0 .. k - 1 : In(i)
                /\ k <= CacheSize => ~In(k)
      BY DEF RunLength, In
    <2> HIDE DEF n
    <2> QED BY <1>4, <2>1
  <1> HIDE DEF n
  <1>6. n >= 1
    <2>1. InCache(b, SeqNo(a))
      BY <1>1, <1>3, Find
    <2>2. In(0)
      <3>1. a + 0 = a
        BY <1>1
      <3> QED BY <1>2, <2>1, <3>1
    <2> QED BY <1>1, <1>5, <2>2
  <1>7. ASSUME NEW i \in 0 .. n - 1, a + i <= last + 2 * CacheSize
        PROVE  b[Slot(a + i)] = a + i /\ a + i \in Packets /\ a + i <= last + Span
    <2>1. In(i) /\ i \in Nat /\ a + i \in Nat /\ last - CacheSize < a + i
      BY <1>1, <1>5
    <2>2. b[Slot(a + i)] = a + i
      BY <1>2, <1>7, <2>1, Find
    <2>3. Slot(a + i) \in Slots
      BY <2>1, SlotIs
    <2>4. In(i) => b[Slot(a + i)] # None
      BY <1>2, <2>1 DEF InCache, Slot
    <2>5. a + i \in Packets
      BY <2>1, <2>2, <2>3, <2>4 DEF Caches
    <2> QED BY <2>1, <2>2, <2>3, <2>4, <2>5 DEF Fresh
  <1>8. \A i \in 0 .. n - 1 : a + i <= last + Span
    <2> SUFFICES ASSUME NEW i \in 0 .. n - 1, a + i > last + Span PROVE FALSE
      BY <1>1
    <2> DEFINE j == last + Span + 1 - a
    <2>1. j \in 0 .. n - 1 /\ a + j = last + Span + 1 /\ a + j <= last + 2 * CacheSize
      BY <1>1, <1>3, <1>5
    <2> HIDE DEF j
    <2>2. a + j <= last + Span
      BY <1>7, <2>1
    <2> QED BY <1>1, <2>1, <2>2
  <1>9. \A i \in 0 .. n - 1 : b[Slot(a + i)] = a + i /\ a + i \in Packets
    BY <1>1, <1>7, <1>8
  <1>10. n - 1 \in 0 .. n - 1 /\ a + (n - 1) <= last + Span
    BY <1>5, <1>6, <1>8
  <1>11. n \in 1 .. CacheSize /\ a + n - 1 <= last + Span
    BY <1>1, <1>5, <1>6, <1>10
  <1>12. ~InCache(b, SeqNo(a + n))
    BY <1>2, <1>5, <1>11
  <1> QED BY <1>9, <1>11, <1>12 DEF IsRun, n

(* What such a run hands on.                                               *)
LEMMA RunValues ==
  ASSUME NEW b, NEW last, NEW a \in Packets, NEW n, IsRun(b, a, n, last)
  PROVE  Run(b, SeqNo(a), n) = [i \in 1 .. n |-> a + i - 1]
  <1>1. a \in Nat /\ n \in Nat
    BY Bounds DEF IsRun
  <1>2. ASSUME NEW i \in 1 .. n PROVE b[Wrap(SeqNo(a) + i - 1) % CacheSize] = a + i - 1
    <2>1. i - 1 \in 0 .. n - 1 /\ i - 1 \in Int
      BY <1>1
    <2>2. b[Slot(a + (i - 1))] = a + (i - 1)
      BY <2>1 DEF IsRun
    <2>3. Wrap(SeqNo(a) + (i - 1)) = SeqNo(a + (i - 1))
      BY <1>1, <2>1, SeqNoPlus
    <2>4. SeqNo(a) + i - 1 = SeqNo(a) + (i - 1) /\ a + i - 1 = a + (i - 1)
      BY <1>1, SlotIs DEF SeqNums
    <2> QED BY <2>2, <2>3, <2>4 DEF Slot
  <1> QED BY <1>2 DEF Run

(* ClearVideoPacketCache empties the slots of the packets skipped, and no  *)
(* other.                                                                  *)
LEMMA ClearIs ==
  ASSUME WithinCache,
         NEW b, NEW last \in Packets, NEW a \in Packets, last < a, a <= last + Span
  PROVE  ClearVideoPacketCache(b, Wrap(SeqNo(last) + 1), Wrap(SeqNo(a) - 1)) =
           [s \in Slots |-> IF \E x \in last + 1 .. a - 1 : Slot(x) = s THEN None ELSE b[s]]
  <1> DEFINE from == Wrap(SeqNo(last) + 1)
             to == Wrap(SeqNo(a) - 1)
             Hit(s) == \E n \in 0 .. CacheSize :
                         /\ \A m \in 0 .. n : AheadOrAt(to, Wrap(from + m))
                         /\ s = Wrap(from + n) % CacheSize
  <1>1. /\ a \in Nat /\ last \in Nat /\ CacheSize \in Nat \ {0} /\ Span < CacheSize
        /\ Span \in Nat /\ 4 * CacheSize <= SeqSpace /\ SeqSpace \in Nat
    BY Bounds DEF WithinCache
  <1>2. from = SeqNo(last + 1) /\ to = SeqNo(a - 1)
    <2>1. Wrap(SeqNo(a) + (-1)) = SeqNo(a + (-1)) /\ a + (-1) = a - 1
      BY <1>1, SeqNoPlus
    <2>2. SeqNo(a) + (-1) = SeqNo(a) - 1
      BY <1>1, SlotIs DEF SeqNums
    <2> QED BY <1>1, <2>1, <2>2, SeqNoPlus
  <1> HIDE DEF from, to
  <1>3. ASSUME NEW m \in 0 .. CacheSize
        PROVE  /\ Wrap(from + m) = SeqNo(last + 1 + m)
               /\ AheadOrAt(to, Wrap(from + m)) <=> last + 1 + m <= a - 1
    <2> DEFINE x == a - 1
               y == last + 1 + m
    <2>1. Wrap(from + m) = SeqNo(y)
      BY <1>1, <1>2, SeqNoPlus
    <2>2. x \in Int /\ y \in Int /\ 2 * (x - y) < SeqSpace /\ 2 * (y - x) < SeqSpace
      BY <1>1
    <2>3. AheadOrAt(SeqNo(x), SeqNo(y)) <=> x >= y
      <3> HIDE DEF x, y
      <3> QED BY <2>2, AheadIs
    <2> QED BY <1>2, <2>1, <2>2, <2>3
  <1>4. ASSUME NEW s \in Slots
        PROVE  Hit(s) <=> \E x \in last + 1 .. a - 1 : Slot(x) = s
    <2>1. ASSUME NEW n \in 0 .. CacheSize, \A m \in 0 .. n : AheadOrAt(to, Wrap(from + m)),
                 s = Wrap(from + n) % CacheSize
          PROVE  \E x \in last + 1 .. a - 1 : Slot(x) = s
      <3>1. n \in 0 .. n
        BY <1>1
      <3>2. Wrap(from + n) = SeqNo(last + 1 + n) /\ last + 1 + n <= a - 1
        BY <1>3, <2>1, <3>1
      <3>3. last + 1 + n \in last + 1 .. a - 1
        BY <1>1, <3>2
      <3>4. Slot(last + 1 + n) = s
        BY <2>1, <3>2 DEF Slot
      <3> QED BY <3>3, <3>4
    <2>2. ASSUME NEW x \in last + 1 .. a - 1, Slot(x) = s PROVE Hit(s)
      <3> DEFINE n == x - last - 1
      <3>1. n \in 0 .. CacheSize /\ last + 1 + n = x
        BY <1>1
      <3> HIDE DEF n
      <3>2. Wrap(from + n) % CacheSize = s
        BY <1>3, <2>2, <3>1 DEF Slot
      <3>3. ASSUME NEW m \in 0 .. n PROVE AheadOrAt(to, Wrap(from + m))
        <4>1. m \in 0 .. CacheSize /\ last + 1 + m <= a - 1
          BY <1>1, <3>1
        <4> QED BY <1>3, <4>1
      <3> QED BY <3>1, <3>2, <3>3
    <2> QED BY <2>1, <2>2
  <1>5. ClearVideoPacketCache(b, from, to) = [s \in Slots |-> IF Hit(s) THEN None ELSE b[s]]
    BY DEF ClearVideoPacketCache
  <1> HIDE DEF Hit
  <1> QED BY <1>4, <1>5 DEF from, to

(* Forwarding goes on with a run from a on, and what was skipped is        *)
(* forgotten: the cache is as it should be for the new last packet.        *)
LEMMA AdvanceCached ==
  ASSUME WithinCache,
         NEW b \in Caches, NEW last \in Packets, NEW R \in SUBSET Packets,
         Fresh(b, last, R), Holds(b, last, R),
         NEW a \in Packets, last < a, NEW n, IsRun(b, a, n, last), NEW c,
         c = [s \in Slots |-> IF \E x \in last + 1 .. a - 1 : Slot(x) = s THEN None ELSE b[s]]
  PROVE  Cached(c, a + n - 1, R)
  <1> DEFINE new == a + n - 1
             Gone(s) == \E x \in last + 1 .. a - 1 : Slot(x) = s
  <1>1. /\ a \in Nat /\ last \in Nat /\ CacheSize \in Nat \ {0} /\ Span < CacheSize
        /\ Span \in Nat /\ Packets \subseteq Nat /\ None \notin Packets
        /\ n \in Nat \ {0} /\ new \in Nat /\ new >= a /\ new > last
    BY Bounds DEF IsRun, WithinCache
  <1>2. c \in Caches /\ \A s \in Slots : c[s] = IF Gone(s) THEN None ELSE b[s]
    BY DEF Caches
  <1> HIDE DEF Gone
  <1>3. Fresh(c, new, R)
    <2> SUFFICES ASSUME NEW s \in Slots, c[s] # None
                 PROVE  /\ c[s] \in R /\ Slot(c[s]) = s
                        /\ new - CacheSize < c[s] /\ c[s] <= new + Span
      BY DEF Fresh
    <2> DEFINE y == b[s]
    <2>1. ~Gone(s) /\ c[s] = y
      BY <1>2
    <2>2. y \in R /\ Slot(y) = s /\ last - CacheSize < y /\ y <= last + Span /\ y \in Nat
      BY <1>1, <2>1 DEF Fresh
    <2> HIDE DEF y
    <2>3. ASSUME y <= new - CacheSize PROVE FALSE
      <3> DEFINE z == y + CacheSize
      <3>1. z \in Int /\ last < z /\ z <= new /\ z # y
        BY <1>1, <2>2, <2>3
      <3>2. Slot(z) = s
        BY <2>2, SlotPeriod
      <3> HIDE DEF z
      <3>3. z >= a
        BY <1>1, <2>1, <3>1, <3>2 DEF Gone
      <3>4. z - a \in 0 .. n - 1 /\ a + (z - a) = z
        BY <1>1, <3>1, <3>3
      <3>5. b[Slot(z)] = z
        BY <3>4 DEF IsRun
      <3> QED BY <3>1, <3>2, <3>5 DEF y
    <2>4. new - CacheSize < y /\ y <= new + Span
      BY <1>1, <2>2, <2>3
    <2> QED BY <2>1, <2>2, <2>4
  <1>4. Holds(c, new, R)
    <2> SUFFICES ASSUME NEW x \in R, x > new PROVE c[Slot(x)] = x
      BY DEF Holds
    <2>1. x \in Nat /\ x > last /\ Slot(x) \in Slots /\ x # None
      BY <1>1, SlotIs
    <2>2. b[Slot(x)] = x
      BY <2>1 DEF Holds
    <2>3. x <= last + Span
      BY <2>1, <2>2 DEF Fresh
    <2>4. ASSUME NEW z \in last + 1 .. a - 1, Slot(z) = Slot(x) PROVE FALSE
      <3>1. z \in Int /\ x - z < CacheSize /\ z - x < CacheSize /\ z # x
        BY <1>1, <2>1, <2>3
      <3> QED BY <2>1, <2>4, <3>1, SlotInjective
    <2> QED BY <1>2, <2>1, <2>2, <2>4 DEF Gone
  <1>5. Stopped(c, new)
    <2>1. ~InCache(b, SeqNo(a + n)) /\ a + n = new + 1
      BY <1>1 DEF IsRun
    <2>2. SeqNo(a + n) % CacheSize \in Slots
      BY <1>1, SlotIs DEF Slot
    <2> QED BY <1>2, <2>1, <2>2 DEF Stopped, InCache
  <1> QED BY <1>2, <1>3, <1>4, <1>5 DEF Cached, Caches

(* CacheVideoPacket puts the packet in its slot, where only older packets  *)
(* that were forwarded or given up can have been.                          *)
LEMMA CacheAdd ==
  ASSUME WithinCache,
         NEW b, NEW last \in Packets, NEW R \in SUBSET Packets, Cached(b, last, R),
         NEW p \in Packets, last - CacheSize < p, p <= last + Span,
         \A q \in R : q - p < Window
  PROVE  /\ CacheVideoPacket(b, p) \in Caches
         /\ CacheVideoPacket(b, p)[Slot(p)] = p
         /\ Fresh(CacheVideoPacket(b, p), last, R \cup {p})
         /\ Holds(CacheVideoPacket(b, p), last, R \cup {p})
         /\ p # last + 1 => Stopped(CacheVideoPacket(b, p), last)
  <1> DEFINE c == CacheVideoPacket(b, p)
  <1>1. /\ p \in Nat /\ last \in Nat /\ CacheSize \in Nat \ {0} /\ Span < CacheSize
        /\ Span \in Nat /\ Packets \subseteq Nat /\ None \notin Packets
        /\ Window \in Nat /\ Window <= CacheSize /\ 4 * CacheSize <= SeqSpace /\ SeqSpace \in Nat
    BY Bounds DEF WithinCache
  <1>2. /\ b \in Caches /\ Fresh(b, last, R) /\ Holds(b, last, R) /\ Stopped(b, last)
        /\ Slot(p) \in Slots
    BY <1>1, SlotIs DEF Cached, Caches
  <1>3. c \in Caches /\ c[Slot(p)] = p /\ \A s \in Slots : s # Slot(p) => c[s] = b[s]
    <2>1. CASE InCache(b, SeqNo(p))
      <3>1. c = b
        BY <2>1 DEF CacheVideoPacket
      <3>2. b[Slot(p)] = p
        BY <1>1, <1>2, <2>1, Find
      <3> QED BY <1>2, <3>1, <3>2
    <2>2. CASE ~InCache(b, SeqNo(p))
      <3>1. c = [b EXCEPT ![Slot(p)] = p]
        BY <2>2 DEF CacheVideoPacket, Slot
      <3> QED BY <1>2, <3>1 DEF Caches
    <2> QED BY <2>1, <2>2
  <1> HIDE DEF c
  <1>4. Fresh(c, last, R \cup {p})
    <2> SUFFICES ASSUME NEW s \in Slots, c[s] # None
                 PROVE  /\ c[s] \in R \cup {p} /\ Slot(c[s]) = s
                        /\ last - CacheSize < c[s] /\ c[s] <= last + Span
      BY DEF Fresh
    <2>1. CASE s = Slot(p)
      BY <1>3, <2>1
    <2>2. CASE s # Slot(p)
      BY <1>2, <1>3, <2>2 DEF Fresh
    <2> QED BY <2>1, <2>2
  <1>5. Holds(c, last, R \cup {p})
    <2> SUFFICES ASSUME NEW x \in R \cup {p}, x > last PROVE c[Slot(x)] = x
      BY DEF Holds
    <2>1. CASE x = p
      BY <1>3, <2>1
    <2>2. CASE x # p
      <3>1. x \in R /\ x \in Nat /\ Slot(x) \in Slots /\ x # None
        BY <1>1, <2>2, SlotIs
      <3>2. b[Slot(x)] = x
        BY <1>2, <3>1 DEF Holds
      <3>3. x <= last + Span /\ x - p < Window
        BY <1>2, <3>1, <3>2 DEF Fresh
      <3>4. x - p < CacheSize /\ p - x < CacheSize
        BY <1>1, <3>1, <3>3
      <3>5. Slot(x) # Slot(p)
        BY <1>1, <2>2, <3>1, <3>4, SlotInjective
      <3> QED BY <1>3, <3>1, <3>2, <3>5
    <2> QED BY <2>1, <2>2
  <1>6. ASSUME p # last + 1 PROVE Stopped(c, last)
    <2> DEFINE t == SeqNo(last + 1) % CacheSize
    <2>1. t \in Slots
      BY <1>1, SlotIs DEF Slot
    <2>2. CASE t = Slot(p)
      <3>1. SeqNo(p) # SeqNo(last + 1)
        <4>1. last + 1 \in Int /\ p \in Int /\ p - (last + 1) < SeqSpace /\ (last + 1) - p < SeqSpace
          BY <1>1
        <4> QED BY <1>6, <4>1, SeqNoInjective
      <3> QED BY <1>3, <2>2, <3>1 DEF Stopped, InCache
    <2>3. CASE t # Slot(p)
      BY <1>2, <1>3, <2>1, <2>3 DEF Stopped, InCache
    <2> QED BY <2>2, <2>3
  <1> QED BY <1>3, <1>4, <1>5, <1>6 DEF c

----------------------------------------------------------------------------
(* What is sent                                                            *)

(* More packets received: key frames that were complete remain so.         *)
LEMMA MoreReceived ==
  ASSUME NEW sent, NEW R \in SUBSET Packets, NEW p, Sent(sent, R)
  PROVE  Sent(sent, R \cup {p})
  <1>1. \A f \in KeyFrames : Arrived(f, R) => Arrived(f, R \cup {p})
    BY DEF Arrived
  <1>2. GapsEnd(sent, R \cup {p})
    BY <1>1 DEF Sent, GapsEnd
  <1>3. SkippedForKey(sent, R \cup {p})
    BY <1>1 DEF Sent, SkippedForKey
  <1> QED BY <1>2, <1>3 DEF Sent

(* An element of a sequence.                                               *)
LEMMA Element ==
  ASSUME NEW S, NEW s \in Seq(S), NEW i \in 1 .. Len(s)
  PROVE  s[i] \in S
  OBVIOUS

(* The last packet sent is the newest one.                                 *)
LEMMA LastIs ==
  ASSUME NEW sent, NEW R \in SUBSET Packets, Sent(sent, R)
  PROVE  /\ Len(sent) \in Nat \ {0} /\ Last(sent) = sent[Len(sent)]
         /\ Last(sent) \in Packets /\ Last(sent) \in R
         /\ \A i \in 1 .. Len(sent) : sent[i] \in Packets /\ sent[i] <= Last(sent)
  <1>1. /\ sent \in Seq(Packets) /\ Len(sent) \in Nat \ {0} /\ Last(sent) = sent[Len(sent)]
    BY DEF Sent, Last
  <1>2. ASSUME NEW i \in 1 .. Len(sent) PROVE sent[i] \in Packets /\ sent[i] <= Last(sent)
    <2>1. sent[i] \in Packets /\ sent[i] \in Nat
      <3>1. sent[i] \in Packets
        BY ONLY <1>1, i \in 1 .. Len(sent), Element
      <3> QED BY <3>1, Bounds
    <2>2. CASE i = Len(sent)
      BY <1>1, <2>1, <2>2
    <2>3. CASE i < Len(sent)
      <3>1. Len(sent) \in 1 .. Len(sent)
        BY <1>1
      <3>2. sent[i] < sent[Len(sent)]
        BY <2>3, <3>1 DEF Sent, Increasing
      <3>3. sent[Len(sent)] \in Nat
        BY <1>1, Bounds DEF Sent
      <3> QED BY <1>1, <2>1, <3>2, <3>3
    <2> QED BY <1>1, <2>2, <2>3
  <1> QED BY <1>1, <1>2 DEF Sent

(* A run that follows the last packet, or begins with a complete key       *)
(* frame.                                                                  *)
LEMMA AdvanceSent ==
  ASSUME NEW sent, NEW R \in SUBSET Packets, Sent(sent, R),
         NEW a \in Packets, Last(sent) < a, NEW n \in Nat \ {0},
         \A i \in 0 .. n - 1 : a + i \in R,
         a = Last(sent) + 1 \/ \E f \in KeyFrames : f[1] = a /\ Arrived(f, R)
  PROVE  /\ Sent(sent \o [i \in 1 .. n |-> a + i - 1], R)
         /\ Last(sent \o [i \in 1 .. n |-> a + i - 1]) = a + n - 1
  <1> DEFINE run == [i \in 1 .. n |-> a + i - 1]
             new == sent \o run
             l == Len(sent)
             last == Last(sent)
  <1>1. /\ l \in Nat \ {0} /\ last = sent[l] /\ last \in Nat /\ a \in Nat
        /\ last \in Packets /\ Packets \subseteq Nat /\ sent \in Seq(Packets)
        /\ \A i \in 1 .. l : sent[i] \in Packets /\ sent[i] <= last
    BY LastIs, Bounds DEF Sent
  <1>2. run \in Seq(Packets) /\ Len(run) = n
    <2>1. ASSUME NEW i \in 1 .. n PROVE a + i - 1 \in Packets
      <3>1. i - 1 \in 0 .. n - 1 /\ a + (i - 1) = a + i - 1
        BY <1>1
      <3> QED BY <3>1
    <2> QED BY <2>1
  <1>3. /\ new \in Seq(Packets) /\ Len(new) = l + n
        /\ \A i \in 1 .. l : new[i] = sent[i]
        /\ \A i \in l + 1 .. l + n : new[i] = a + (i - l) - 1
    <2>1. \A i \in l + 1 .. l + n : new[i] = run[i - l] /\ i - l \in 1 .. n
      BY <1>1, <1>2
    <2> QED BY <1>1, <1>2, <2>1
  <1>4. Last(new) = a + n - 1
    BY <1>1, <1>3 DEF Last
  <1> HIDE DEF run, new, l, last
  <1>5. new # <<>> /\ Last(new) \in R
    <2>1. n - 1 \in 0 .. n - 1 /\ a + (n - 1) = a + n - 1
      BY <1>1
    <2>2. Last(new) \in R
      BY <1>4, <2>1
    <2>3. Len(new) # 0
      BY <1>1, <1>3
    <2>4. new # <<>>
      BY ONLY <2>3
    <2> QED BY <2>2, <2>4
  <1>6. Increasing(new)
    <2> SUFFICES ASSUME NEW i \in 1 .. l + n, NEW j \in 1 .. l + n, i < j
                 PROVE  new[i] < new[j]
      BY <1>3 DEF Increasing
    <2>1. CASE j <= l
      <3>1. i \in 1 .. l /\ j \in 1 .. l
        BY <1>1, <2>1
      <3> QED BY <1>3, <3>1 DEF Sent, Increasing, l
    <2>2. CASE i <= l /\ j > l
      <3>1. i \in 1 .. l /\ j \in l + 1 .. l + n
        BY <1>1, <2>2
      <3>2. new[i] = sent[i] /\ sent[i] <= last /\ sent[i] \in Nat
        BY <1>1, <1>3, <3>1
      <3>3. new[j] = a + (j - l) - 1
        BY <1>3, <3>1
      <3>4. a + (j - l) - 1 >= a /\ last < a
        BY <1>1, <3>1 DEF last
      <3> QED BY <1>1, <3>1, <3>2, <3>3, <3>4
    <2>3. CASE i > l
      <3>1. i \in l + 1 .. l + n /\ j \in l + 1 .. l + n
        BY <1>1, <2>3
      <3> QED BY <1>1, <1>3, <3>1
    <2> QED BY <1>1, <2>1, <2>2, <2>3
  <1>7. GapsEnd(new, R)
    <2> SUFFICES ASSUME NEW i \in 1 .. l + n - 1, new[i + 1] # new[i] + 1
                 PROVE  \E f \in KeyFrames : f[1] = new[i + 1] /\ Arrived(f, R)
      <3>1. Len(new) - 1 = l + n - 1
        BY <1>1, <1>3
      <3> QED BY <3>1 DEF GapsEnd
    <2>1. CASE i < l
      <3>1. i \in 1 .. l /\ i + 1 \in 1 .. l /\ i \in 1 .. l - 1
        BY <1>1, <2>1
      <3> QED BY <1>3, <3>1 DEF Sent, GapsEnd, l
    <2>2. CASE i = l
      <3>1. i \in 1 .. l /\ i + 1 \in l + 1 .. l + n
        BY <1>1, <2>2
      <3>2. new[i] = last /\ new[i + 1] = a
        BY <1>1, <1>3, <2>2, <3>1
      <3> QED BY <3>2 DEF last
    <2>3. CASE i > l
      <3>1. i \in l + 1 .. l + n /\ i + 1 \in l + 1 .. l + n
        BY <1>1, <2>3
      <3> QED BY <1>1, <1>3, <3>1
    <2> QED BY <1>1, <2>1, <2>2, <2>3
  <1>8. SkippedForKey(new, R)
    <2> SUFFICES ASSUME NEW x \in Packets, new[1] <= x, x <= a + n - 1
                 PROVE  \/ \E i \in 1 .. l + n : new[i] = x
                        \/ \E g \in KeyFrames : Arrived(g, R) /\ x < g[1] /\ g[1] <= a + n - 1
      BY <1>3, <1>4 DEF SkippedForKey
    <2>0. x \in Nat /\ new[1] = sent[1] /\ KeyFrames \subseteq Packets \X Packets
      BY <1>1, <1>3, KeyFramesAssumption
    <2>1. CASE x <= last
      <3>1. \/ \E i \in 1 .. l : sent[i] = x
            \/ \E g \in KeyFrames : Arrived(g, R) /\ x < g[1] /\ g[1] <= last
        BY <2>0, <2>1 DEF Sent, SkippedForKey, last, l
      <3>2. CASE \E i \in 1 .. l : sent[i] = x
        BY <1>1, <1>3, <3>2
      <3>3. CASE \E g \in KeyFrames : Arrived(g, R) /\ x < g[1] /\ g[1] <= last
        <4>1. PICK g \in KeyFrames : Arrived(g, R) /\ x < g[1] /\ g[1] <= last
          BY <3>3
        <4>2. g[1] \in Nat
          BY <1>1, <2>0
        <4>3. g[1] <= a + n - 1
          BY <1>1, <4>1, <4>2 DEF last
        <4> QED BY <4>1, <4>3
      <3> QED BY <3>1, <3>2, <3>3
    <2>2. CASE last < x /\ x < a
      <3>1. a # last + 1
        BY <1>1, <2>0, <2>2
      <3>2. PICK f \in KeyFrames : f[1] = a /\ Arrived(f, R)
        BY <3>1 DEF last
      <3>3. a <= a + n - 1
        BY <1>1
      <3> QED BY <2>2, <3>2, <3>3
    <2>3. CASE x >= a
      <3>1. l + (x - a) + 1 \in l + 1 .. l + n /\ l + (x - a) + 1 \in 1 .. l + n
        BY <1>1, <2>0, <2>3
      <3>2. new[l + (x - a) + 1] = x
        BY <1>1, <1>3, <2>0, <3>1
      <3> QED BY <3>1, <3>2
    <2> QED BY <1>1, <2>0, <2>1, <2>2, <2>3
  <1> QED BY <1>3, <1>4, <1>5, <1>6, <1>7, <1>8 DEF Sent, new, run

----------------------------------------------------------------------------
(* The handlers                                                            *)

(* The fields of a started push stream.                                    *)
Good(st, R) ==
  /\ st.started = TRUE
  /\ st.seq = SeqNo(Last(st.sent))
  /\ Sent(st.sent, R)
  /\ Cached(st.buffer, Last(st.sent), R)

(* The forwarding loops of ProcessVideoPacket and of OnFrame.              *)
LEMMA Forward ==
  ASSUME WithinCache,
         NEW sent, NEW R \in SUBSET Packets, Sent(sent, R),
         NEW b \in Caches, Fresh(b, Last(sent), R), Holds(b, Last(sent), R),
         NEW a \in Packets, Last(sent) < a, b[Slot(a)] = a,
         a = Last(sent) + 1 \/ \E f \in KeyFrames : f[1] = a /\ Arrived(f, R),
         NEW n, n = RunLength(b, SeqNo(a)),
         NEW c, c = [s \in Slots |-> IF \E x \in Last(sent) + 1 .. a - 1 : Slot(x) = s
                                     THEN None ELSE b[s]],
         NEW st, st = [buffer |-> c, seq |-> Wrap(SeqNo(a) + n - 1), started |-> TRUE,
                       sent |-> sent \o Run(b, SeqNo(a), n)]
  PROVE  Good(st, R) /\ a <= Last(st.sent)
  <1> DEFINE last == Last(sent)
             new == sent \o [i \in 1 .. n |-> a + i - 1]
  <1>1. last \in Packets /\ last \in Nat /\ a \in Nat /\ Packets \subseteq Nat /\ None \notin Packets
    BY LastIs, Bounds
  <1>2. IsRun(b, a, n, last)
    <2> HIDE DEF last
    <2>1. Fresh(b, last, R) /\ a > last
      BY <1>1 DEF last
    <2> QED BY <1>1, <2>1, RunIs
  <1>3. n \in Nat \ {0}
    BY <1>2, Bounds DEF IsRun
  <1>4. Run(b, SeqNo(a), n) = [i \in 1 .. n |-> a + i - 1]
    <2>1. a \in Packets
      OBVIOUS
    <2> QED BY ONLY <1>2, <2>1, RunValues
  <1>5. Cached(c, a + n - 1, R)
    <2> HIDE DEF last
    <2>1. /\ Fresh(b, last, R) /\ Holds(b, last, R) /\ last < a
          /\ c = [s \in Slots |-> IF \E x \in last + 1 .. a - 1 : Slot(x) = s THEN None ELSE b[s]]
      BY DEF last
    <2> QED BY ONLY WithinCache, b \in Caches, R \in SUBSET Packets, a \in Packets,
                    <1>1, <1>2, <2>1, AdvanceCached, ZenonT(40)
  <1>6. \A i \in 0 .. n - 1 : a + i \in R
    <2> SUFFICES ASSUME NEW i \in 0 .. n - 1 PROVE a + i \in R
      OBVIOUS
    <2>1. b[Slot(a + i)] = a + i /\ a + i \in Int
      BY <1>1, <1>2 DEF IsRun
    <2>2. Slot(a + i) \in Slots
      BY <2>1, SlotIs
    <2>3. b[Slot(a + i)] # None
      BY <1>1, <1>2, <2>1 DEF IsRun
    <2> QED BY <2>1, <2>2, <2>3 DEF Fresh
  <1>7. Sent(new, R) /\ Last(new) = a + n - 1
    <2> HIDE DEF new, last
    <2>1. /\ Sent(new, R)
          /\ Last(new) = a + n - 1
      BY <1>3, <1>6, AdvanceSent DEF new
    <2> QED BY <2>1
  <1>8. Wrap(SeqNo(a) + n - 1) = SeqNo(a + n - 1)
    <2>1. n - 1 \in Int /\ a \in Int
      BY <1>1, <1>3
    <2>2. Wrap(SeqNo(a) + (n - 1)) = SeqNo(a + (n - 1))
      BY <2>1, SeqNoPlus
    <2>3. SeqNo(a) + (n - 1) = SeqNo(a) + n - 1 /\ a + (n - 1) = a + n - 1
      BY <1>1, <1>3, SlotIs DEF SeqNums
    <2> QED BY <2>2, <2>3
  <1>9. st.sent = new /\ st.buffer = c /\ st.started = TRUE /\ st.seq = Wrap(SeqNo(a) + n - 1)
    BY <1>4
  <1>10. a <= a + n - 1
    BY <1>1, <1>3
  <1> HIDE DEF new, last
  <1> QED BY <1>5, <1>7, <1>8, <1>9, <1>10 DEF Good

(* An empty gap leaves the cache alone.                                    *)
LEMMA NoGap ==
  ASSUME NEW b \in Caches, NEW last \in Packets
  PROVE  b = [s \in Slots |-> IF \E x \in last + 1 .. (last + 1) - 1 : Slot(x) = s
                              THEN None ELSE b[s]]
  <1>1. last + 1 .. (last + 1) - 1 = {}
    BY Bounds
  <1> QED BY <1>1 DEF Caches

(* ProcessVideoPacket forwards a packet exactly when it is the next one,   *)
(* and with it what it releases.                                           *)
LEMMA ProcessGood ==
  ASSUME WithinCache,
         NEW st0, NEW R \in SUBSET Packets, Good(st0, R),
         st0 = [buffer |-> st0.buffer, seq |-> st0.seq, started |-> st0.started,
                sent |-> st0.sent],
         NEW p \in Packets, \A q \in R : q - p < Window, p <= Last(st0.sent) + Span
  PROVE  /\ Good(ProcessVideoPacket(st0, p), R \cup {p})
         /\ Last(st0.sent) <= Last(ProcessVideoPacket(st0, p).sent)
  <1> DEFINE sent == st0.sent
             last == Last(sent)
             Q == R \cup {p}
             b == CacheVideoPacket(st0.buffer, p)
             n == RunLength(b, SeqNo(p))
             st == ProcessVideoPacket(st0, p)
  <1>1. /\ last \in Packets /\ last \in R /\ last \in Nat /\ p \in Nat /\ Q \in SUBSET Packets
        /\ Packets \subseteq Nat /\ CacheSize \in Nat \ {0} /\ Span < CacheSize /\ Span \in Nat
        /\ Window \in Nat /\ Window <= CacheSize /\ SeqSpace \in Nat /\ 4 * CacheSize <= SeqSpace
    BY LastIs, Bounds DEF Good, WithinCache
  <1>2. last - CacheSize < p /\ p <= last + Span
    <2>1. last - p < Window
      BY <1>1
    <2> QED BY <1>1, <2>1
  <1>3. /\ b \in Caches /\ b[Slot(p)] = p
        /\ Fresh(b, last, Q) /\ Holds(b, last, Q)
        /\ p # last + 1 => Stopped(b, last)
    <2>1. Cached(st0.buffer, last, R)
      BY DEF Good
    <2>2. \A q \in R : q - p < Window
      OBVIOUS
    <2> HIDE DEF last, sent
    <2> QED BY ONLY WithinCache, R \in SUBSET Packets, p \in Packets, <1>1, <1>2, <2>1, <2>2, CacheAdd
                DEF b, Q
  <1>4. Sent(sent, Q)
    BY MoreReceived DEF Good
  <1>5. InOrder(st0, p) <=> p = last + 1
    <2>1. 2 * (last - p) < SeqSpace /\ 2 * (p - last) < SeqSpace
      BY <1>1, <1>2
    <2>2. AheadOrAt(SeqNo(last), SeqNo(p)) <=> last >= p
      <3> HIDE DEF last
      <3> QED BY <1>1, <2>1, AheadIs
    <2>3. Wrap(SeqNo(last) + 1) = SeqNo(last + 1) /\ last + 1 \in Int
      <3> HIDE DEF last
      <3> QED BY <1>1, SeqNoPlus
    <2>4. SeqNo(p) = SeqNo(last + 1) <=> p = last + 1
      <3>1. p - (last + 1) < SeqSpace /\ (last + 1) - p < SeqSpace
        BY <1>1, <1>2
      <3> HIDE DEF last
      <3> QED BY <1>1, <2>3, <3>1, SeqNoInjective
    <2>5. st0.seq = SeqNo(last)
      BY DEF Good
    <2> HIDE DEF last
    <2> QED BY <1>1, <2>2, <2>3, <2>4, <2>5 DEF InOrder
  <1>6. st0.started
    BY DEF Good
  <1>7. CASE p = last + 1
    <2>1. st = [buffer |-> b, seq |-> Wrap(SeqNo(p) + n - 1), started |-> TRUE,
                sent |-> sent \o Run(b, SeqNo(p), n)]
      BY <1>5, <1>6, <1>7 DEF ProcessVideoPacket
    <2> HIDE DEF b, n, st
    <2>2. b = [s \in Slots |-> IF \E x \in last + 1 .. p - 1 : Slot(x) = s
                               THEN None ELSE b[s]]
      BY <1>1, <1>3, <1>7, NoGap
    <2>3. n = RunLength(b, SeqNo(p)) /\ last < p
      BY <1>1, <1>7 DEF n
    <2>4. Good(st, Q) /\ p <= Last(st.sent)
      <3> HIDE DEF Q, sent
      <3>1. Q \in SUBSET Packets /\ p = Last(sent) + 1 /\ last = Last(sent)
        BY <1>1, <1>7
      <3> QED BY ONLY WithinCache, p \in Packets, <1>3, <1>4, <2>1, <2>2, <2>3, <3>1, Forward, ZenonT(40)
    <2>5. Last(st.sent) \in Nat
      BY <1>1, <2>4, LastIs DEF Good
    <2>6. last <= Last(st.sent)
      BY <1>1, <1>7, <2>4, <2>5
    <2> QED BY <2>1, <2>4, <2>6 DEF st
  <1>8. CASE p # last + 1
    <2>1. st = [st0 EXCEPT !.buffer = b]
      BY <1>5, <1>6, <1>8 DEF ProcessVideoPacket
    <2>2. st = [buffer |-> b, seq |-> st0.seq, started |-> st0.started, sent |-> sent]
      BY <2>1
    <2> HIDE DEF b, st
    <2>3. Cached(b, last, Q)
      BY <1>3, <1>8 DEF Cached, Caches
    <2>4. Good(st, Q)
      BY <1>4, <2>2, <2>3 DEF Good
    <2>5. last <= Last(st.sent)
      BY <1>1, <2>2
    <2> QED BY <2>2, <2>4, <2>5 DEF st
  <1> QED BY <1>7, <1>8

(* OnFrame: forwarding goes on with a key frame that is ahead, and its     *)
(* first packet has then been reached.                                     *)
LEMMA OnFrameGood ==
  ASSUME WithinCache,
         NEW st, NEW R \in SUBSET Packets, Good(st, R),
         NEW f \in KeyFrames, Arrived(f, R), Last(st.sent) - f[1] < 2 * CacheSize
  PROVE  /\ Good(OnFrame(st, f[1]), R)
         /\ Last(st.sent) <= Last(OnFrame(st, f[1]).sent)
         /\ f[1] <= Last(OnFrame(st, f[1]).sent)
  <1> DEFINE sent == st.sent
             last == Last(sent)
             a == f[1]
             b == st.buffer
             n == RunLength(b, SeqNo(a))
             new == OnFrame(st, a)
  <1>1. /\ last \in Packets /\ last \in R /\ last \in Nat /\ None \notin Packets
        /\ Packets \subseteq Nat /\ CacheSize \in Nat \ {0} /\ Span < CacheSize /\ Span \in Nat
        /\ SeqSpace \in Nat /\ 4 * CacheSize <= SeqSpace
    BY LastIs, Bounds DEF Good, WithinCache
  <1>2. a \in Packets /\ a \in Nat /\ a \in R
    <2>1. f \in Packets \X Packets /\ f[1] <= f[2]
      BY KeyFramesAssumption
    <2>2. a \in Packets /\ a \in Nat
      BY <1>1, <2>1
    <2>3. a \in R
      BY <2>1, <2>2 DEF Arrived
    <2> QED BY <2>2, <2>3
  <1>3. /\ Sent(sent, R) /\ b \in Caches /\ Fresh(b, last, R) /\ Holds(b, last, R)
        /\ st.seq = SeqNo(last)
    BY DEF Good, Cached, Caches
  <1> HIDE DEF a, b
  <1>4. a > last => b[Slot(a)] = a /\ a <= last + Span
    <2>1. Slot(a) \in Slots /\ a # None
      BY <1>1, <1>2, SlotIs
    <2> QED BY <1>2, <1>3, <2>1 DEF Holds, Fresh
  <1>5. Restarts(st, a) <=> a > last
    <2>1. 2 * (last - a) < SeqSpace /\ 2 * (a - last) < SeqSpace
      BY <1>1, <1>2, <1>4 DEF a
    <2> HIDE DEF last
    <2>2. AheadOf(SeqNo(a), SeqNo(last)) <=> a > last
      BY <1>1, <1>2, <2>1, AheadIs
    <2> QED BY <1>3, <2>2 DEF Restarts
  <1>6. CASE a > last
    <2> DEFINE c == ClearVideoPacketCache(b, Wrap(st.seq + 1), Wrap(SeqNo(a) - 1))
    <2>1. new = [buffer |-> c, seq |-> Wrap(SeqNo(a) + n - 1), started |-> TRUE,
                 sent |-> sent \o Run(b, SeqNo(a), n)]
      BY <1>5, <1>6 DEF OnFrame, b
    <2> HIDE DEF last, c, n, new
    <2>2. last < a /\ a <= last + Span
      BY <1>1, <1>2, <1>4, <1>6
    <2>3. c = [s \in Slots |-> IF \E x \in last + 1 .. a - 1 : Slot(x) = s THEN None ELSE b[s]]
      BY <1>1, <1>2, <1>3, <2>2, ClearIs DEF c
    <2>4. n = RunLength(b, SeqNo(a)) /\ b[Slot(a)] = a
      BY <1>4, <1>6 DEF n
    <2>5. \E g \in KeyFrames : g[1] = a /\ Arrived(g, R)
      BY DEF a
    <2>6. Good(new, R) /\ a <= Last(new.sent)
      <3> HIDE DEF sent
      <3> QED BY <1>1, <1>2, <1>3, <2>1, <2>2, <2>3, <2>4, <2>5, Forward DEF last
    <2>7. Last(new.sent) \in Nat
      BY <1>1, <2>6, LastIs DEF Good
    <2>8. last <= Last(new.sent)
      BY <1>1, <1>2, <2>2, <2>6, <2>7
    <2> QED BY <2>6, <2>8 DEF new, last, a
  <1>7. CASE ~(a > last)
    <2>1. new = st
      BY <1>5, <1>7 DEF OnFrame
    <2>2. a <= last /\ last <= last
      BY <1>1, <1>2, <1>7
    <2> QED BY <2>1, <2>2 DEF a
  <1> QED BY <1>6, <1>7

(* The packets of a key frame, as the frame assembler and as the           *)
(* properties count them.                                                  *)
LEMMA FrameIs ==
  ASSUME NEW f \in KeyFrames
  PROVE  /\ f[1] \in Packets /\ f[2] \in Packets /\ f[1] \in Nat /\ f[2] \in Nat
         /\ f[1] <= f[2] /\ f[2] < f[1] + CacheSize
         /\ Complete(f) <=> Arrived(f, received)
  <1>1. f[1] \in Packets /\ f[2] \in Packets /\ f[1] <= f[2] /\ f[2] < f[1] + CacheSize
    BY KeyFramesAssumption
  <1>2. f[1] \in Nat /\ f[2] \in Nat /\ f[2] <= MaxPacket /\ MaxPacket \in Nat
    BY <1>1, Bounds DEF Packets
  <1>3. \A x : x \in f[1] .. f[2] <=> x \in Packets /\ f[1] <= x /\ x <= f[2]
    BY <1>1, <1>2 DEF Packets
  <1>4. Complete(f) <=> Arrived(f, received)
    BY <1>3 DEF Complete, Arrived
  <1> QED BY <1>1, <1>2, <1>4

(* A packet completes the key frames that it is the last missing one of.   *)
LEMMA CompletesIs ==
  ASSUME NEW f \in KeyFrames, NEW p \in Packets
  PROVE  Completes(p, f) <=> Arrived(f, received \cup {p}) /\ ~Arrived(f, received)
  <1>1. f[1] \in Packets /\ f[2] \in Packets /\ f[1] \in Nat /\ f[2] \in Nat /\ f[2] <= MaxPacket
    BY FrameIs DEF Packets
  <1>2. \A x : x \in f[1] .. f[2] <=> x \in Packets /\ f[1] <= x /\ x <= f[2]
    BY <1>1, Bounds DEF Packets
  <1>3. ASSUME Completes(p, f) PROVE Arrived(f, received \cup {p}) /\ ~Arrived(f, received)
    <2>1. Arrived(f, received \cup {p})
      BY <1>2, <1>3 DEF Completes, Arrived
    <2>2. ~Arrived(f, received)
      BY <1>3 DEF Completes, Arrived
    <2> QED BY <2>1, <2>2
  <1>4. ASSUME Arrived(f, received \cup {p}), ~Arrived(f, received) PROVE Completes(p, f)
    <2>1. PICK x \in Packets : f[1] <= x /\ x <= f[2] /\ x \notin received
      BY <1>4 DEF Arrived
    <2>2. x = p
      BY <1>4, <2>1 DEF Arrived
    <2>3. (f[1] .. f[2]) \ {p} \subseteq received
      BY <1>2, <1>4 DEF Arrived
    <2> QED BY <2>1, <2>2, <2>3 DEF Completes
  <1> QED BY <1>3, <1>4

(* The packet that completes a key frame takes forwarding there.           *)
LEMMA KeyFrameStep ==
  ASSUME WithinCache,
         NEW p \in Packets, received \in SUBSET Packets, \A q \in received : q - p < Window,
         NEW st, Good(st, received \cup {p}),
         \A g \in KeyFrames : Arrived(g, received) => g[1] <= Last(st.sent),
         NEW key, key = {f \in KeyFrames : Completes(p, f)},
         NEW new, new = IF key = {} THEN st ELSE OnFrame(st, (CHOOSE f \in key : TRUE)[1])
  PROVE  Good(new, received \cup {p}) /\ KeysReached(new.sent, received \cup {p})
  <1> DEFINE Q == received \cup {p}
             f == CHOOSE g \in key : TRUE
  <1>1. /\ Q \in SUBSET Packets /\ Packets \subseteq Nat /\ p \in Nat
        /\ CacheSize \in Nat /\ Window \in Nat /\ Window <= CacheSize
    BY Bounds DEF WithinCache
  <1>2. Last(st.sent) \in Q /\ Last(st.sent) \in Nat
    <2> HIDE DEF Q
    <2>1. Sent(st.sent, Q)
      BY DEF Good, Q
    <2> QED BY <1>1, <2>1, LastIs
  <1>3. CASE key = {}
    <2>1. new = st
      BY <1>3
    <2>2. ASSUME NEW g \in KeyFrames, Arrived(g, Q) PROVE g[1] <= Last(st.sent)
      <3>1. Arrived(g, received)
        BY <1>3, <2>2, CompletesIs
      <3> QED BY <3>1
    <2> QED BY <2>1, <2>2 DEF KeysReached
  <1>4. CASE key # {}
    <2>1. new = OnFrame(st, f[1]) /\ f \in key
      BY <1>4
    <2> HIDE DEF f
    <2>2. f \in KeyFrames /\ Completes(p, f) /\ Arrived(f, Q)
      BY <2>1, CompletesIs
    <2>3. /\ f[1] \in Nat /\ f[2] \in Nat /\ f[2] < f[1] + CacheSize /\ f[1] <= p /\ p <= f[2]
      BY <2>2, FrameIs DEF Completes
    <2>4. Last(st.sent) - f[1] < 2 * CacheSize
      <3>1. CASE Last(st.sent) = p
        BY <1>1, <2>3, <3>1
      <3>2. CASE Last(st.sent) # p
        <4>1. Last(st.sent) - p < Window
          BY <1>2, <3>2
        <4> QED BY <1>1, <1>2, <2>3, <4>1
      <3> QED BY <3>1, <3>2
    <2>5. /\ Good(new, Q) /\ Last(st.sent) <= Last(new.sent) /\ f[1] <= Last(new.sent)
      <3>1. Good(st, Q)
        OBVIOUS
      <3> HIDE DEF Q
      <3>2. /\ Good(OnFrame(st, f[1]), Q)
            /\ Last(st.sent) <= Last(OnFrame(st, f[1]).sent)
            /\ f[1] <= Last(OnFrame(st, f[1]).sent)
        BY ONLY WithinCache, <1>1, <2>2, <2>4, <3>1, OnFrameGood
      <3> QED BY <2>1, <3>2
    <2>6. Last(new.sent) \in Nat
      <3> HIDE DEF Q
      <3>1. Sent(new.sent, Q)
        BY <2>5 DEF Good
      <3> QED BY <1>1, <3>1, LastIs
    <2>7. ASSUME NEW g \in KeyFrames, Arrived(g, Q) PROVE g[1] <= Last(new.sent)
      <3>0. g[1] \in Nat /\ g[2] \in Nat
        BY FrameIs
      <3>1. CASE Arrived(g, received)
        <4>1. g[1] <= Last(st.sent)
          BY <3>1
        <4> QED BY <1>2, <2>5, <2>6, <3>0, <4>1
      <3>2. CASE ~Arrived(g, received)
        <4>1. Completes(p, g)
          BY <2>7, <3>2, CompletesIs
        <4>2. g[1] <= p /\ p <= g[2]
          BY <4>1 DEF Completes
        <4>3. f = g \/ f[2] < g[1] \/ g[2] < f[1]
          BY <2>2, KeyFramesAssumption
        <4>4. f = g
          BY <1>1, <2>3, <3>0, <4>2, <4>3
        <4> QED BY <2>5, <4>4
      <3> QED BY <3>1, <3>2
    <2> QED BY <2>5, <2>7 DEF KeysReached
  <1> QED BY <1>3, <1>4

(* Forwarding starts with the first packet received.                       *)
LEMMA FirstPacket ==
  ASSUME NEW p \in Packets, NEW q, NEW st,
         st = ProcessVideoPacket([buffer |-> [i \in Slots |-> None], seq |-> q,
                                  started |-> FALSE, sent |-> <<>>], p)
  PROVE  Good(st, {p})
  <1> DEFINE b0 == [i \in Slots |-> None]
             b == CacheVideoPacket(b0, p)
  <1>1. p \in Nat /\ Packets \subseteq Nat /\ None \notin Packets /\ Slot(p) \in Slots
        /\ CacheSize \in Nat \ {0} /\ Span \in Nat /\ SeqSpace \in Nat \ {0}
        /\ 4 * CacheSize <= SeqSpace
    BY Bounds, SlotIs
  <1>2. st = [buffer |-> b, seq |-> SeqNo(p), started |-> TRUE, sent |-> <<p>>]
    BY DEF ProcessVideoPacket
  <1>3. b = [s \in Slots |-> IF s = Slot(p) THEN p ELSE None]
    <2>1. ~InCache(b0, SeqNo(p))
      BY <1>1 DEF InCache, Slot
    <2>2. b = [b0 EXCEPT ![Slot(p)] = p]
      BY <2>1 DEF CacheVideoPacket, Slot
    <2> QED BY <2>2
  <1> HIDE DEF b
  <1>4. Last(<<p>>) = p /\ Len(<<p>>) = 1 /\ <<p>>[1] = p /\ <<p>> \in Seq(Packets) /\ <<p>> # <<>>
    BY DEF Last
  <1>5. Sent(<<p>>, {p})
    <2>1. Increasing(<<p>>) /\ GapsEnd(<<p>>, {p})
      BY <1>4 DEF Increasing, GapsEnd
    <2>2. SkippedForKey(<<p>>, {p})
      <3>1. ASSUME NEW x \in Packets, p <= x, x <= p PROVE \E i \in 1 .. 1 : <<p>>[i] = x
        <4>1. x = p /\ 1 \in 1 .. 1
          BY <1>1, <3>1
        <4> QED BY <1>4, <4>1
      <3> QED BY <1>4, <3>1 DEF SkippedForKey
    <2> QED BY <1>4, <2>1, <2>2 DEF Sent
  <1>6. Cached(b, p, {p})
    <2>1. b \in [Slots -> Packets \cup {None}]
      BY <1>3
    <2>2. Fresh(b, p, {p})
      <3>1. p - CacheSize < p /\ p <= p + Span
        BY <1>1
      <3>2. ASSUME NEW s \in Slots, b[s] # None PROVE s = Slot(p) /\ b[s] = p
        BY <1>3, <3>2
      <3> QED BY <3>1, <3>2 DEF Fresh
    <2>3. Holds(b, p, {p})
      BY <1>1 DEF Holds
    <2>4. Stopped(b, p)
      <3>1. p + 1 \in Int /\ p \in Int /\ p - (p + 1) < SeqSpace /\ (p + 1) - p < SeqSpace /\ p # p + 1
        BY <1>1
      <3>2. SeqNo(p) # SeqNo(p + 1)
        BY <3>1, SeqNoInjective
      <3>3. SeqNo(p + 1) % CacheSize \in Slots
        BY <3>1, SlotIs DEF Slot
      <3> QED BY <1>3, <3>2, <3>3 DEF Stopped, InCache
    <2> QED BY <2>1, <2>2, <2>3, <2>4 DEF Cached
  <1> QED BY <1>2, <1>4, <1>5, <1>6 DEF Good

----------------------------------------------------------------------------
(* The theorems                                                            *)

(* A new push stream, before its first packet, satisfies the invariant.    *)
LEMMA InitIInv == Init => IInv
  <1> SUFFICES ASSUME Init PROVE IInv
    OBVIOUS
  <1>1. 0 \in SeqNums
    BY Bounds DEF SeqNums
  <1>2. TypeOK
    <2>1. video_data_buffer_ \in [Slots -> Packets \cup {None}]
      BY DEF Init
    <2>2. forwarded \in Seq(Packets)
      BY DEF Init
    <2>3. received \subseteq Packets
      BY DEF Init
    <2> QED BY <1>1, <2>1, <2>2, <2>3 DEF Init, TypeOK
  <1> QED BY <1>2 DEF Init, IInv

(* A packet received preserves the invariant.                              *)
LEMMA StepIInv ==
  ASSUME WithinCache, IInv, NEW p \in Packets, OnRtpPacket(p)
  PROVE  IInv'
  <1> DEFINE st0 == [buffer |-> video_data_buffer_, seq |-> video_seq_,
                     started |-> started, sent |-> forwarded]
             st == ProcessVideoPacket(st0, p)
             key == {f \in KeyFrames : Completes(p, f)}
             new == IF key = {} THEN st ELSE OnFrame(st, (CHOOSE f \in key : TRUE)[1])
             Q == received \cup {p}
  <1>1. /\ \A q \in received : q - p < Window
        /\ forwarded # <<>> => p <= Last(forwarded) + Span
        /\ video_data_buffer_' = new.buffer /\ video_seq_' = new.seq /\ started' = new.started
        /\ forwarded' = new.sent /\ received' = Q
    BY DEF OnRtpPacket
  <1>2. received \in SUBSET Packets /\ Q \in SUBSET Packets /\ started \in BOOLEAN
    BY DEF IInv, TypeOK
  <1>3. Good(st, Q) /\ \A g \in KeyFrames : Arrived(g, received) => g[1] <= Last(st.sent)
    <2>1. CASE started
      <3>1. Good(st0, received)
        BY <2>1 DEF IInv, Good
      <3>2. /\ st0 = [buffer |-> st0.buffer, seq |-> st0.seq, started |-> st0.started,
                      sent |-> st0.sent]
            /\ st0.sent = forwarded
        OBVIOUS
      <3>3. forwarded # <<>> /\ KeysReached(forwarded, received) /\ Sent(forwarded, received)
        BY <2>1 DEF IInv, Sent
      <3> HIDE DEF st0
      <3>4. p <= Last(st0.sent) + Span
        BY <1>1, <3>2, <3>3
      <3>5. Good(st, Q) /\ Last(st0.sent) <= Last(st.sent)
        BY ONLY WithinCache, p \in Packets, <1>1, <1>2, <3>1, <3>2, <3>4, ProcessGood
      <3>6. Last(forwarded) \in Nat /\ Last(st.sent) \in Nat
        <4> HIDE DEF Q, st
        <4>1. Sent(st.sent, Q)
          BY <3>5 DEF Good
        <4> QED BY <1>2, <3>3, <4>1, LastIs, Bounds
      <3>7. ASSUME NEW g \in KeyFrames, Arrived(g, received) PROVE g[1] <= Last(st.sent)
        <4>1. g[1] <= Last(forwarded) /\ g[1] \in Nat
          BY <3>3, <3>7, FrameIs DEF KeysReached
        <4> QED BY <3>2, <3>5, <3>6, <4>1
      <3> QED BY <3>5, <3>7
    <2>2. CASE ~started
      <3>1. /\ received = {} /\ forwarded = <<>> /\ started = FALSE
            /\ video_data_buffer_ = [i \in Slots |-> None]
        BY <1>2, <2>2 DEF IInv
      <3>2. Good(st, {p})
        BY <3>1, FirstPacket
      <3>3. Q = {p}
        BY <3>1
      <3>4. ASSUME NEW g \in KeyFrames PROVE ~Arrived(g, received)
        BY <3>1, FrameIs DEF Arrived
      <3> QED BY <3>2, <3>3, <3>4
    <2> QED BY <1>2, <2>1, <2>2
  <1>4. Good(new, Q) /\ KeysReached(new.sent, Q)
    <2>1. /\ key = {f \in KeyFrames : Completes(p, f)}
          /\ new = IF key = {} THEN st ELSE OnFrame(st, (CHOOSE f \in key : TRUE)[1])
      OBVIOUS
    <2> HIDE DEF st, key, new
    <2> QED BY <1>1, <1>2, <1>3, <2>1, KeyFrameStep
  <1> HIDE DEF new, Q
  <1>5. /\ received' # {} /\ received' \in SUBSET Packets /\ started' = TRUE
        /\ video_seq_' = SeqNo(Last(forwarded')) /\ Sent(forwarded', received')
        /\ Cached(video_data_buffer_', Last(forwarded'), received')
        /\ KeysReached(forwarded', received')
    <2>1. Q # {}
      BY DEF Q
    <2> QED BY <1>1, <1>2, <1>4, <2>1 DEF Good
  <1>6. Last(forwarded') \in Int
    <2>1. ASSUME NEW R \in SUBSET Packets, NEW s, Sent(s, R) PROVE Last(s) \in Packets
      BY <2>1, LastIs
    <2>2. Last(forwarded') \in Packets
      BY <1>5, <2>1
    <2>3. Packets \subseteq Int
      BY Bounds
    <2> QED BY ONLY <2>2, <2>3
  <1>7. video_seq_' \in SeqNums
    BY <1>5, <1>6, SlotIs
  <1>8. TypeOK'
    BY <1>5, <1>7 DEF TypeOK, Sent, Cached
  <1> QED BY <1>5, <1>8 DEF IInv

(* The invariant holds of every reachable state: PushStream's cache, its   *)
(* video_seq_ and what it has forwarded stay in step over every sequence   *)
(* of packets received.                                                    *)
THEOREM Invariance == ASSUME WithinCache PROVE Spec => []IInv
  <1>1. IInv /\ [Next]_vars => IInv'
    <2> SUFFICES ASSUME IInv, [Next]_vars PROVE IInv'
      OBVIOUS
    <2>1. CASE Next
      <3>1. PICK p \in Packets : OnRtpPacket(p)
        BY <2>1 DEF Next
      <3> QED BY <3>1, StepIInv
    <2>2. CASE UNCHANGED vars
      BY <2>2 DEF vars, IInv, TypeOK
    <2> QED BY <2>1, <2>2
  <1> QED BY <1>1, InitIInv, PTL DEF Spec

(* PushStream hands every packet to the pull streams at most once and in   *)
(* the order it was sent, for every number space and cache.                *)
THEOREM SentInOrder == ASSUME WithinCache PROVE Spec => []ForwardedInOrder
  <1>1. IInv => ForwardedInOrder
    <2> SUFFICES ASSUME IInv, NEW i \in 1 .. Len(forwarded) - 1
                 PROVE  forwarded[i] < forwarded[i + 1]
      BY DEF ForwardedInOrder
    <2>1. forwarded \in Seq(Packets) /\ Len(forwarded) \in Nat
      BY DEF IInv, TypeOK
    <2>2. CASE started
      <3>1. i \in 1 .. Len(forwarded) /\ i + 1 \in 1 .. Len(forwarded) /\ i < i + 1
        BY <2>1
      <3>2. Increasing(forwarded)
        BY <2>2 DEF IInv, Sent
      <3> QED BY <3>1, <3>2 DEF Increasing
    <2>3. CASE ~started
      <3>1. Len(forwarded) = 0
        BY <2>3 DEF IInv
      <3> QED BY <3>1
    <2> QED BY <2>2, <2>3
  <1> QED BY <1>1, Invariance, PTL

(* A gap in what the pull streams get ends at a key frame that OnFrame was *)
(* called for.                                                             *)
THEOREM GapsEndAtKeys == ASSUME WithinCache PROVE Spec => []GapEndsAtKeyFrame
  <1>1. IInv => GapEndsAtKeyFrame
    <2> SUFFICES ASSUME IInv, NEW i \in 1 .. Len(forwarded) - 1,
                        forwarded[i + 1] # forwarded[i] + 1
                 PROVE  \E f \in KeyFrames : f[1] = forwarded[i + 1] /\ Complete(f)
      BY DEF GapEndsAtKeyFrame
    <2>1. CASE started
      <3>1. GapsEnd(forwarded, received)
        BY <2>1 DEF IInv, Sent
      <3>2. PICK f \in KeyFrames : f[1] = forwarded[i + 1] /\ Arrived(f, received)
        BY <3>1 DEF GapsEnd
      <3> QED BY <3>2, FrameIs
    <2>2. CASE ~started
      <3>1. Len(forwarded) = 0
        BY <2>2 DEF IInv
      <3> QED BY <3>1
    <2> QED BY <2>1, <2>2
  <1> QED BY <1>1, Invariance, PTL

(* The forwarding loops leave nothing behind that could have gone out.     *)
THEOREM NothingWaits == ASSUME WithinCache PROVE Spec => []NothingHeldBack
  <1>1. IInv => NothingHeldBack
    <2> SUFFICES ASSUME IInv, started
                 PROVE  ~InCache(video_data_buffer_, Wrap(video_seq_ + 1))
      BY DEF NothingHeldBack
    <2> DEFINE last == Last(forwarded)
    <2>1. /\ video_seq_ = SeqNo(last) /\ Stopped(video_data_buffer_, last)
          /\ Sent(forwarded, received) /\ received \in SUBSET Packets
      BY DEF IInv, Cached, TypeOK
    <2>2. last \in Int
      <3>1. last \in Packets
        BY <2>1, LastIs
      <3>2. Packets \subseteq Int
        BY Bounds
      <3> QED BY ONLY <3>1, <3>2
    <2> HIDE DEF last
    <2>3. Wrap(SeqNo(last) + 1) = SeqNo(last + 1)
      BY <2>2, SeqNoPlus
    <2> QED BY <2>1, <2>3 DEF Stopped
  <1> QED BY <1>1, Invariance, PTL

(* The newest key frame that arrived completely has been forwarded as a    *)
(* whole, whatever was lost before it: the pull streams can go on.         *)
THEOREM KeyFramesArrive == ASSUME WithinCache PROVE Spec => []KeyFrameDelivered
  <1>1. IInv => KeyFrameDelivered
    <2> SUFFICES ASSUME IInv, NEW f \in KeyFrames, Complete(f), f[1] > forwarded[1],
                        \A g \in KeyFrames : Complete(g) => g[1] <= f[1]
                 PROVE  f[1] .. f[2] \subseteq ToSet(forwarded)
      BY DEF KeyFrameDelivered
    <2> DEFINE last == Last(forwarded)
               b == video_data_buffer_
    <2>1. /\ f[1] \in Packets /\ f[2] \in Packets /\ f[1] \in Nat /\ f[2] \in Nat
          /\ f[1] <= f[2] /\ Arrived(f, received)
      BY FrameIs
    <2>2. started
      <3>1. received # {}
        BY <2>1 DEF Arrived
      <3> QED BY <3>1 DEF IInv
    <2>3. /\ Sent(forwarded, received) /\ received \in SUBSET Packets /\ f[1] <= last
          /\ b \in Caches /\ Fresh(b, last, received) /\ Holds(b, last, received)
          /\ Stopped(b, last)
      BY <2>1, <2>2 DEF IInv, Cached, TypeOK, KeysReached, Caches
    <2>4. /\ last \in Packets /\ last \in Nat /\ Len(forwarded) \in Nat \ {0}
          /\ forwarded[1] \in Nat
      <3>1. /\ Len(forwarded) \in Nat \ {0} /\ last \in Packets
            /\ \A i \in 1 .. Len(forwarded) : forwarded[i] \in Packets
        BY <2>3, LastIs
      <3>2. 1 \in 1 .. Len(forwarded)
        BY <3>1
      <3> QED BY <3>1, <3>2, Bounds
    <2> HIDE DEF last, b
    <2>5. f[2] <= last
      <3> SUFFICES ASSUME last < f[2] PROVE FALSE
        BY <2>1, <2>4
      <3>1. last + 1 \in Packets /\ last + 1 \in received
        <4>1. last + 1 \in Packets /\ f[1] <= last + 1 /\ last + 1 <= f[2]
          BY <2>1, <2>3, <2>4, Bounds DEF Packets
        <4> QED BY <2>1, <4>1 DEF Arrived
      <3>2. last + 1 > last /\ last - CacheSize < last + 1 /\ last + 1 <= last + 2 * CacheSize
            /\ last + 1 \in Nat
        BY <2>4, Bounds
      <3>3. b[Slot(last + 1)] = last + 1
        BY <2>3, <3>1, <3>2 DEF Holds
      <3>4. InCache(b, SeqNo(last + 1))
        BY <2>3, <2>4, <3>1, <3>2, <3>3, Find
      <3> QED BY <2>3, <3>4 DEF Stopped
    <2>6. ASSUME NEW x \in f[1] .. f[2] PROVE x \in ToSet(forwarded)
      <3>1. x \in Packets /\ x \in Nat /\ f[1] <= x
        BY <2>1, Bounds DEF Packets
      <3>2. forwarded[1] <= x /\ x <= last
        BY <2>1, <2>4, <2>5, <3>1
      <3>3. \/ \E i \in 1 .. Len(forwarded) : forwarded[i] = x
            \/ \E g \in KeyFrames : Arrived(g, received) /\ x < g[1] /\ g[1] <= last
        BY <2>3, <3>1, <3>2 DEF Sent, SkippedForKey, last
      <3>4. ASSUME NEW g \in KeyFrames, Arrived(g, received), x < g[1] PROVE FALSE
        <4>1. g[1] <= f[1] /\ g[1] \in Nat
          BY <3>4, FrameIs
        <4> QED BY <2>1, <3>1, <3>4, <4>1
      <3> QED BY <3>3, <3>4 DEF ToSet
    <2> QED BY <2>6
  <1> QED BY <1>1, Invariance, PTL

-----------------------------------------------------------------------------
(* Ascending enumerations                                                  *)

(* Enumerates(f, n, S): f lists the numbers of S in ascending order.       *)
Enumerates(f, n, S) ==
  /\ f \in [1 .. n -> S]
  /\ \A i, j \in 1 .. n : i < j => f[i] < f[j]
  /\ \A x \in S : \E i \in 1 .. n : f[i] = x

(* Two such lists of the same numbers: where all before is the same, the   *)
(* first one is not ahead.                                                 *)
LEMMA FirstDifference ==
  ASSUME NEW S \in SUBSET Nat, NEW n \in Nat, NEW f, NEW g, Enumerates(f, n, S), Enumerates(g, n, S),
         NEW i \in 1 .. n, \A j \in 1 .. n : j < i => f[j] = g[j]
  PROVE  ~(f[i] < g[i])
  <1> SUFFICES ASSUME f[i] < g[i] PROVE FALSE
    OBVIOUS
  <1>1. f[i] \in S /\ g[i] \in S /\ \A j \in 1 .. n : f[j] \in Nat /\ g[j] \in Nat
    BY DEF Enumerates
  <1>2. PICK k \in 1 .. n : g[k] = f[i]
    BY <1>1 DEF Enumerates
  <1>3. CASE k < i
    <2>1. f[k] < f[i] /\ f[k] = g[k]
      BY <1>3 DEF Enumerates
    <2> QED BY <1>1, <1>2, <2>1
  <1>4. CASE k = i
    BY <1>1, <1>2, <1>4
  <1>5. CASE i < k
    <2>1. g[i] < g[k]
      BY <1>5 DEF Enumerates
    <2> QED BY <1>1, <1>2, <2>1
  <1> QED BY <1>3, <1>4, <1>5

(* There is only one such list.                                            *)
LEMMA EnumeratesUnique ==
  ASSUME NEW S \in SUBSET Nat, NEW n \in Nat, NEW f, NEW g, Enumerates(f, n, S), Enumerates(g, n, S)
  PROVE  f = g
  <1> DEFINE D == {i \in 1 .. n : f[i] # g[i]}
  <1>1. D = {}
    <2> SUFFICES ASSUME D # {} PROVE FALSE
      OBVIOUS
    <2>1. D \in SUBSET Nat
      OBVIOUS
    <2>2. PICK i \in D : \A j \in D : i <= j
      <3> HIDE DEF D
      <3> QED BY <2>1, LeastNat
    <2>3. i \in 1 .. n /\ \A j \in 1 .. n : j < i => f[j] = g[j]
      BY <2>2
    <2>4. ~(f[i] < g[i])
      BY <2>3, FirstDifference
    <2>5. ~(g[i] < f[i])
      BY <2>3, FirstDifference
    <2>6. f[i] \in Nat /\ g[i] \in Nat
      BY <2>3 DEF Enumerates
    <2> QED BY <2>2, <2>4, <2>5, <2>6
  <1>2. f \in [1 .. n -> S] /\ g \in [1 .. n -> S]
    BY DEF Enumerates
  <1>3. \A i \in 1 .. n : f[i] = g[i]
    BY <1>1
  <1> QED BY <1>2, <1>3

(* An increasing list of all of S has as many places as S has elements.    *)
LEMMA EnumeratesLength ==
  ASSUME NEW S \in SUBSET Nat, NEW n \in Nat, NEW f, Enumerates(f, n, S)
  PROVE  IsFiniteSet(S) /\ Cardinality(S) = n
  <1>1. f \in [1 .. n -> S] /\ \A x \in S : \E i \in 1 .. n : f[i] = x
    BY DEF Enumerates
  <1>2. \A i, j \in 1 .. n : f[i] = f[j] => i = j
    <2> SUFFICES ASSUME NEW i \in 1 .. n, NEW j \in 1 .. n, i # j PROVE f[i] # f[j]
      OBVIOUS
    <2>1. f[i] \in Nat /\ f[j] \in Nat
      BY <1>1
    <2>2. f[i] < f[j] \/ f[j] < f[i]
      BY DEF Enumerates
    <2> QED BY <2>1, <2>2
  <1>3. f \in Injection(1 .. n, S)
    BY <1>1, <1>2 DEF Injection, IsInjective
  <1>4. f \in Surjection(1 .. n, S)
    BY <1>1 DEF Surjection
  <1>5. IsFiniteSet(1 .. n) /\ Cardinality(1 .. n) = n
    BY FS_Interval
  <1>6. IsFiniteSet(S)
    BY <1>4, <1>5, FS_Surjection
  <1>7. Cardinality(S) = Cardinality(1 .. n)
    BY <1>3, <1>4, <1>5, FS_Surjection
  <1> QED BY <1>5, <1>6, <1>7

(* An increasing list with that many places has all of S.                  *)
LEMMA EnumeratesComplete ==
  ASSUME NEW S \in SUBSET Nat, IsFiniteSet(S), NEW f \in [1 .. Cardinality(S) -> S],
         \A i, j \in 1 .. Cardinality(S) : i < j => f[i] < f[j]
  PROVE  Enumerates(f, Cardinality(S), S)
  <1> DEFINE n == Cardinality(S)
  <1>1. n \in Nat
    BY FS_CardinalityType
  <1> HIDE DEF n
  <1>2. \A i, j \in 1 .. n : f[i] = f[j] => i = j
    <2> SUFFICES ASSUME NEW i \in 1 .. n, NEW j \in 1 .. n, i # j PROVE f[i] # f[j]
      OBVIOUS
    <2>1. f[i] \in Nat /\ f[j] \in Nat
      BY DEF n
    <2>2. f[i] < f[j] \/ f[j] < f[i]
      BY <1>1 DEF n
    <2> QED BY <2>1, <2>2
  <1>3. f \in Injection(1 .. n, S)
    BY <1>2 DEF Injection, IsInjective, n
  <1>4. IsFiniteSet(1 .. n) /\ Cardinality(1 .. n) = n
    BY <1>1, FS_Interval
  <1>5. f \in Surjection(1 .. n, S)
    BY <1>3, <1>4, FS_Injection DEF n
  <1> QED BY <1>5 DEF Enumerates, Surjection, n

(* Every finite set of numbers can be listed.                              *)
LEMMA EnumeratesExists ==
  ASSUME NEW S \in SUBSET Nat, IsFiniteSet(S)
  PROVE  \E f : Enumerates(f, Cardinality(S), S)
  <1> DEFINE n == Cardinality(S)
             Up(x) == {y \in S : y <= x}
             r == [x \in S |-> Cardinality(Up(x))]
  <1>1. n \in Nat
    BY FS_CardinalityType
  <1>2. ASSUME NEW x \in S
        PROVE  IsFiniteSet(Up(x)) /\ Cardinality(Up(x)) \in 1 .. n
    <2>1. Up(x) \in SUBSET S /\ x \in Up(x)
      OBVIOUS
    <2> HIDE DEF Up
    <2>2. IsFiniteSet(Up(x)) /\ Cardinality(Up(x)) <= n
      BY <2>1, FS_Subset
    <2>3. Cardinality(Up(x)) \in Nat /\ Cardinality(Up(x)) # 0
      BY <2>1, <2>2, FS_CardinalityType, FS_EmptySet
    <2> QED BY <1>1, <2>2, <2>3
  <1>3. ASSUME NEW x \in S, NEW y \in S, x < y PROVE r[x] < r[y]
    <2>0. \A z \in S : z \in Nat
      OBVIOUS
    <2>1. Up(x) \in SUBSET Up(y) /\ y \in Up(y) /\ y \notin Up(x)
      <3>1. x \in Nat /\ y \in Nat
        BY <2>0
      <3>2. \A z \in S : z <= x => z <= y
        BY <1>3, <2>0, <3>1
      <3>3. y <= y /\ ~(y <= x)
        BY <1>3, <3>1
      <3> QED BY <3>2, <3>3
    <2>2. IsFiniteSet(Up(x)) /\ IsFiniteSet(Up(y)) /\ Cardinality(Up(x)) \in Nat /\ Cardinality(Up(y)) \in Nat
      BY <1>1, <1>2
    <2>3. r[x] = Cardinality(Up(x)) /\ r[y] = Cardinality(Up(y))
      OBVIOUS
    <2> HIDE DEF Up, r
    <2>4. Cardinality(Up(x)) <= Cardinality(Up(y)) /\ Cardinality(Up(x)) # Cardinality(Up(y))
      BY <2>1, <2>2, FS_Subset
    <2> QED BY <2>2, <2>3, <2>4
  <1>4. r \in [S -> 1 .. n]
    BY <1>2
  <1> HIDE DEF r
  <1>5. \A x, y \in S : r[x] = r[y] => x = y
    <2> SUFFICES ASSUME NEW x \in S, NEW y \in S, x # y PROVE r[x] # r[y]
      OBVIOUS
    <2>1. x < y \/ y < x
      OBVIOUS
    <2>2. r[x] < r[y] \/ r[y] < r[x]
      BY <1>3, <2>1
    <2>3. r[x] \in 1 .. n /\ r[y] \in 1 .. n
      BY <1>4
    <2> HIDE DEF n
    <2> QED BY <1>1, <2>2, <2>3
  <1>6. r \in Injection(S, 1 .. n)
    BY <1>4, <1>5 DEF Injection, IsInjective
  <1>7. IsFiniteSet(1 .. n) /\ Cardinality(1 .. n) = n
    BY <1>1, FS_Interval
  <1>8. r \in Surjection(S, 1 .. n)
    BY <1>6, <1>7, FS_Injection
  <1>9. \A k \in 1 .. n : \E x \in S : r[x] = k
    BY <1>8 DEF Surjection
  <1> DEFINE f == [k \in 1 .. n |-> CHOOSE x \in S : r[x] = k]
  <1>10. \A k \in 1 .. n : f[k] \in S /\ r[f[k]] = k
    BY <1>9
  <1>11. f \in [1 .. n -> S]
    BY <1>10
  <1> HIDE DEF f, n
  <1>12. \A i, j \in 1 .. n : i < j => f[i] < f[j]
    <2> SUFFICES ASSUME NEW i \in 1 .. n, NEW j \in 1 .. n, i < j PROVE f[i] < f[j]
      OBVIOUS
    <2>1. f[i] \in S /\ f[j] \in S /\ r[f[i]] = i /\ r[f[j]] = j
      BY <1>10
    <2>2. ~(f[j] < f[i])
      <3> SUFFICES ASSUME f[j] < f[i] PROVE FALSE
        OBVIOUS
      <3>1. r[f[j]] < r[f[i]]
        BY <1>3, <2>1
      <3>2. j < i
        BY <2>1, <3>1
      <3> QED BY <1>1, <3>2
    <2>3. f[i] # f[j]
      BY <1>1, <2>1
    <2>4. f[i] \in Nat /\ f[j] \in Nat
      BY <2>1
    <2> QED BY <2>2, <2>3, <2>4
  <1>13. \A x \in S : \E i \in 1 .. n : f[i] = x
    BY <1>4, <1>5, <1>10
  <1> QED BY <1>11, <1>12, <1>13 DEF Enumerates, n

(* What Ascending returns.                                                 *)
LEMMA AscendingIs ==
  ASSUME NEW S \in SUBSET Nat, IsFiniteSet(S)
  PROVE  Enumerates(Ascending(S), Cardinality(S), S) /\ Cardinality(S) \in Nat
  <1> DEFINE n == Cardinality(S)
             OK(f) == \A i, j \in 1 .. n : i < j => f[i] < f[j]
  <1>1. PICK h : Enumerates(h, n, S)
    BY EnumeratesExists
  <1>2. h \in [1 .. n -> S] /\ OK(h)
    BY <1>1 DEF Enumerates
  <1>3. Ascending(S) = CHOOSE f \in [1 .. n -> S] : \A i, j \in DOMAIN f : i < j => f[i] < f[j]
    BY DEF Ascending
  <1>4. \A f \in [1 .. n -> S] : DOMAIN f = 1 .. n
    OBVIOUS
  <1> HIDE DEF n
  <1>5. Ascending(S) \in [1 .. n -> S] /\ \A i, j \in DOMAIN Ascending(S) : i < j => Ascending(S)[i] < Ascending(S)[j]
    BY <1>2, <1>3, <1>4
  <1>6. Ascending(S) \in [1 .. n -> S] /\ OK(Ascending(S))
    BY <1>4, <1>5
  <1> QED BY <1>6, EnumeratesComplete, FS_CardinalityType DEF n

(* ... and how to know it.                                                 *)
LEMMA AscendingIsThis ==
  ASSUME NEW S \in SUBSET Nat, NEW n \in Nat, NEW f, Enumerates(f, n, S)
  PROVE  Ascending(S) = f
  <1>1. IsFiniteSet(S) /\ Cardinality(S) = n
    BY EnumeratesLength
  <1>2. Enumerates(Ascending(S), n, S)
    BY <1>1, AscendingIs
  <1> QED BY <1>2, EnumeratesUnique
(* Enumerates lists have no number twice, and keep the order.              *)
LEMMA EnumeratesOrder ==
  ASSUME NEW S \in SUBSET Nat, NEW n \in Nat, NEW f, Enumerates(f, n, S), NEW i \in 1 .. n, NEW j \in 1 .. n
  PROVE  (f[i] = f[j] => i = j) /\ (f[i] < f[j] => i < j)
  <1>1. f[i] \in Nat /\ f[j] \in Nat
    BY DEF Enumerates
  <1>2. (i < j => f[i] < f[j]) /\ (j < i => f[j] < f[i])
    BY DEF Enumerates
  <1> QED BY <1>1, <1>2

-----------------------------------------------------------------------------
(* Reading what was written                                                *)

Ssrc      == Nat \ {0}
GroupLine == [type : {"group"}, ssrcs : Seq(Ssrc) \ {<<>>}]
Track     == [id : STRING, ssrcs : Seq(Ssrc), groups : Seq(GroupLine)]

(* Tracks as an answer can describe them: each has an SSRC, no two have    *)
(* the same name or an SSRC in common, and only those of video have        *)
(* groups, each in the track of its first SSRC.                            *)
Described(T, m) ==
  /\ T \in Seq(Track)
  /\ \A k \in 1 .. Len(T) : T[k].ssrcs # <<>>
  /\ \A k, l \in 1 .. Len(T) : T[k].id = T[l].id => k = l
  /\ \A k, l \in 1 .. Len(T) : \A i \in 1 .. Len(T[k].ssrcs) : \A j \in 1 .. Len(T[l].ssrcs) :
       T[k].ssrcs[i] = T[l].ssrcs[j] => k = l /\ i = j
  /\ \A k \in 1 .. Len(T) : \A i \in 1 .. Len(T[k].groups) : T[k].groups[i].ssrcs[1] \in Range(T[k].ssrcs)
  /\ m # "video" => \A k \in 1 .. Len(T) : T[k].groups = <<>>

(* p[k][j] is the place of the j-th SSRC of the k-th track: the places     *)
(* come in that order.                                                     *)
PlacedInOrder(T, p) ==
  \A k, l \in 1 .. Len(T) : \A i \in 1 .. Len(T[k].ssrcs) : \A j \in 1 .. Len(T[l].ssrcs) :
    k < l \/ (k = l /\ i < j) => p[k][i] < p[l][j]

(* The section of m in the text has the lines of the tracks T, each SSRC   *)
(* once: p and g are the places of SSRCs and groups.                       *)
Written(text, m, T, p, g) ==
  /\ \A k \in 1 .. Len(T) : p[k] \in [1 .. Len(T[k].ssrcs) -> DOMAIN text]
  /\ \A k \in 1 .. Len(T) : g[k] \in [1 .. Len(T[k].groups) -> DOMAIN text]
  /\ \A k \in 1 .. Len(T) : \A j \in 1 .. Len(T[k].ssrcs) :
       /\ text[p[k][j]] = [type |-> "ssrc", ssrc |-> T[k].ssrcs[j], track |-> T[k].id]
       /\ Section(text, p[k][j]) = m
  /\ \A k \in 1 .. Len(T) : \A j \in 1 .. Len(T[k].groups) :
       text[g[k][j]] = T[k].groups[j] /\ Section(text, g[k][j]) = m
  /\ PlacedInOrder(T, p)
  /\ \A k \in 1 .. Len(T) : \A i, j \in 1 .. Len(T[k].groups) : i < j => g[k][i] < g[k][j]
  /\ \A i \in DOMAIN text : text[i].type = "ssrc" /\ Section(text, i) = m =>
       \E k \in 1 .. Len(T) : \E j \in 1 .. Len(T[k].ssrcs) : i = p[k][j]
  /\ \A i \in DOMAIN text : text[i].type = "group" /\ Section(text, i) = m =>
       \E k \in 1 .. Len(T) : \E j \in 1 .. Len(T[k].groups) : i = g[k][j]

(* The same of the entries that ParseSsrcInfo makes.                       *)
Entered(infos, T, q) ==
  /\ infos \in Seq([ssrc_id : Ssrc, track_id : STRING])
  /\ \A k \in 1 .. Len(T) : q[k] \in [1 .. Len(T[k].ssrcs) -> 1 .. Len(infos)]
  /\ \A k \in 1 .. Len(T) : \A j \in 1 .. Len(T[k].ssrcs) :
       infos[q[k][j]] = [ssrc_id |-> T[k].ssrcs[j], track_id |-> T[k].id]
  /\ PlacedInOrder(T, q)
  /\ \A i \in 1 .. Len(infos) : \E k \in 1 .. Len(T) : \E j \in 1 .. Len(T[k].ssrcs) : i = q[k][j]

(* The types of a described track.                                         *)
LEMMA TrackFields ==
  ASSUME NEW T, NEW m, Described(T, m), NEW k \in 1 .. Len(T)
  PROVE  /\ Len(T) \in Nat /\ T[k] \in Track /\ T[k].id \in STRING
         /\ T[k].ssrcs \in Seq(Ssrc) /\ Len(T[k].ssrcs) \in Nat /\ 1 \in 1 .. Len(T[k].ssrcs)
         /\ T[k].ssrcs \in [1 .. Len(T[k].ssrcs) -> Ssrc]
         /\ T[k].groups \in Seq(GroupLine) /\ Len(T[k].groups) \in Nat
         /\ T[k].groups \in [1 .. Len(T[k].groups) -> GroupLine]
  <1>1. T \in Seq(Track) /\ T[k].ssrcs # <<>>
    BY DEF Described
  <1>2. T[k] \in Track /\ Len(T) \in Nat
    BY <1>1
  <1>3. T[k].id \in STRING /\ T[k].ssrcs \in Seq(Ssrc) /\ T[k].groups \in Seq(GroupLine)
    BY <1>2 DEF Track
  <1>4. Len(T[k].ssrcs) \in Nat /\ Len(T[k].ssrcs) # 0 /\ Len(T[k].groups) \in Nat
        /\ T[k].ssrcs \in [1 .. Len(T[k].ssrcs) -> Ssrc] /\ T[k].groups \in [1 .. Len(T[k].groups) -> GroupLine]
    BY <1>1, <1>3, EmptySeq
  <1> QED BY <1>2, <1>3, <1>4

(* ParseSsrcInfo reads the lines of the tracks in their order.             *)
LEMMA SsrcInfoReads ==
  ASSUME NEW text \in Seq(Line), NEW m, NEW T, Described(T, m), NEW p, NEW g, Written(text, m, T, p, g)
  PROVE  \E q : Entered(SsrcInfo(text, m), T, q)
  <1> DEFINE lines == {i \in DOMAIN text : text[i].type = "ssrc" /\ Section(text, i) = m}
             About(i) == {j \in lines : text[j].ssrc = text[i].ssrc}
             firsts == {i \in lines : \A j \in About(i) : i <= j}
             n == Cardinality(lines)
             order == Ascending(lines)
             infos == [k \in 1 .. n |-> [ssrc_id |-> text[order[k]].ssrc, track_id |-> text[order[k]].track]]
             q == [k \in 1 .. Len(T) |-> [j \in 1 .. Len(T[k].ssrcs) |->
                     CHOOSE x \in 1 .. n : order[x] = p[k][j]]]
  <1>1. DOMAIN text = 1 .. Len(text) /\ Len(text) \in Nat
    OBVIOUS
  <1>2. lines \in SUBSET Nat /\ IsFiniteSet(lines)
    <2>1. IsFiniteSet(1 .. Len(text)) /\ lines \in SUBSET (1 .. Len(text))
      BY <1>1, FS_Interval
    <2> HIDE DEF lines
    <2>2. 1 .. Len(text) \in SUBSET Nat
      BY <1>1
    <2>3. IsFiniteSet(lines)
      BY <2>1, FS_Subset
    <2> QED BY <2>1, <2>2, <2>3
  <1>3. ASSUME NEW k \in 1 .. Len(T), NEW j \in 1 .. Len(T[k].ssrcs)
        PROVE  /\ p[k][j] \in lines /\ p[k][j] \in Nat
               /\ text[p[k][j]].ssrc = T[k].ssrcs[j] /\ text[p[k][j]].track = T[k].id
    <2> DEFINE x == p[k][j]
    <2>1. p[k] \in [1 .. Len(T[k].ssrcs) -> DOMAIN text]
      BY DEF Written
    <2>2. x \in DOMAIN text
      BY <2>1
    <2>3. text[x] = [type |-> "ssrc", ssrc |-> T[k].ssrcs[j], track |-> T[k].id] /\ Section(text, x) = m
      BY DEF Written
    <2> HIDE DEF x
    <2>4. x \in lines /\ x \in Nat /\ text[x].ssrc = T[k].ssrcs[j] /\ text[x].track = T[k].id
      BY <1>1, <2>2, <2>3
    <2> QED BY <2>4 DEF x
  <1>4. ASSUME NEW i \in lines
        PROVE  \E k \in 1 .. Len(T) : \E j \in 1 .. Len(T[k].ssrcs) : i = p[k][j]
    BY DEF Written
  <1>5. ASSUME NEW i \in lines, NEW j \in lines, text[j].ssrc = text[i].ssrc
        PROVE  i = j
    <2>k. PICK k \in 1 .. Len(T) : \E a \in 1 .. Len(T[k].ssrcs) : i = p[k][a]
      BY <1>4
    <2>1. PICK a \in 1 .. Len(T[k].ssrcs) : i = p[k][a]
      BY <2>k
    <2>l. PICK l \in 1 .. Len(T) : \E b \in 1 .. Len(T[l].ssrcs) : j = p[l][b]
      BY <1>4
    <2>2. PICK b \in 1 .. Len(T[l].ssrcs) : j = p[l][b]
      BY <2>l
    <2>3. T[k].ssrcs[a] = T[l].ssrcs[b]
      BY <1>3, <1>5, <2>1, <2>2
    <2>4. k = l /\ a = b
      BY <2>3 DEF Described
    <2> QED BY <2>1, <2>2, <2>4
  <1>6. ASSUME NEW i \in lines PROVE About(i) = {i} /\ Max(About(i)) = i
    <2>1. About(i) = {i}
      BY <1>5
    <2>2. i \in Nat
      BY <1>2
    <2> QED BY <2>1, <2>2 DEF Max
  <1>7. firsts = lines
    <2>1. \A i \in lines : i <= i
      BY <1>2
    <2> HIDE DEF lines, About
    <2>2. \A i \in lines : \A j \in About(i) : i <= j
      BY <1>6, <2>1
    <2> QED BY <2>2
  <1> HIDE DEF lines
  <1>8. Enumerates(order, n, lines) /\ n \in Nat
    BY <1>2, AscendingIs
  <1>9. order \in [1 .. n -> lines] /\ DOMAIN order = 1 .. n
    BY <1>8 DEF Enumerates
  <1>10. SsrcInfo(text, m) = infos
    <2>1. SsrcInfo(text, m) = [k \in DOMAIN Ascending(firsts) |->
              [ssrc_id |-> text[Ascending(firsts)[k]].ssrc,
               track_id |-> text[Max(About(Ascending(firsts)[k]))].track]]
      BY DEF SsrcInfo, lines
    <2>2. SsrcInfo(text, m) = [k \in 1 .. n |->
              [ssrc_id |-> text[order[k]].ssrc, track_id |-> text[Max(About(order[k]))].track]]
      <3> HIDE DEF firsts
      <3> QED BY <1>7, <1>9, <2>1
    <2>3. \A k \in 1 .. n : Max(About(order[k])) = order[k]
      BY <1>6, <1>9
    <2> HIDE DEF order, About, n
    <2> QED BY <2>2, <2>3
  <1> HIDE DEF order, n
  <1>11. \A i \in lines : text[i].ssrc \in Ssrc /\ text[i].track \in STRING
    <2> SUFFICES ASSUME NEW i \in lines PROVE text[i].ssrc \in Ssrc /\ text[i].track \in STRING
      OBVIOUS
    <2>1. text[i] \in Line /\ text[i].type = "ssrc"
      BY DEF lines
    <2> QED BY <2>1 DEF Line, Ssrc
  <1>12. infos \in Seq([ssrc_id : Ssrc, track_id : STRING]) /\ Len(infos) = n
         /\ \A k \in 1 .. n : infos[k] = [ssrc_id |-> text[order[k]].ssrc, track_id |-> text[order[k]].track]
    <2> DEFINE R == [ssrc_id : Ssrc, track_id : STRING]
    <2>1. infos \in [1 .. n -> R]
      BY <1>9, <1>11
    <2>2. \A k \in 1 .. n : infos[k] = [ssrc_id |-> text[order[k]].ssrc, track_id |-> text[order[k]].track]
      OBVIOUS
    <2> HIDE DEF infos, R
    <2>3. infos \in Seq(R) /\ Len(infos) = n
      BY <1>8, <2>1
    <2> QED BY <2>2, <2>3 DEF R
  <1> HIDE DEF infos
  <1>13. ASSUME NEW k \in 1 .. Len(T), NEW j \in 1 .. Len(T[k].ssrcs)
         PROVE  q[k][j] \in 1 .. n /\ order[q[k][j]] = p[k][j]
    <2>1. p[k][j] \in lines
      BY <1>3
    <2>2. \E x \in 1 .. n : order[x] = p[k][j]
      BY <1>8, <2>1 DEF Enumerates
    <2>3. q[k][j] = CHOOSE x \in 1 .. n : order[x] = p[k][j]
      OBVIOUS
    <2> QED BY <2>2, <2>3
  <1>14. \A k \in 1 .. Len(T) : q[k] \in [1 .. Len(T[k].ssrcs) -> 1 .. n]
    <2> SUFFICES ASSUME NEW k \in 1 .. Len(T) PROVE q[k] \in [1 .. Len(T[k].ssrcs) -> 1 .. n]
      OBVIOUS
    <2>1. q[k] = [j \in 1 .. Len(T[k].ssrcs) |-> q[k][j]]
      OBVIOUS
    <2>2. \A j \in 1 .. Len(T[k].ssrcs) : q[k][j] \in 1 .. n
      BY <1>13
    <2> HIDE DEF q
    <2> QED BY <2>1, <2>2
  <1> HIDE DEF q
  <1>15. PlacedInOrder(T, q)
    <2> SUFFICES ASSUME NEW k \in 1 .. Len(T), NEW l \in 1 .. Len(T), NEW i \in 1 .. Len(T[k].ssrcs),
                        NEW j \in 1 .. Len(T[l].ssrcs), k < l \/ (k = l /\ i < j)
                 PROVE  q[k][i] < q[l][j]
      BY DEF PlacedInOrder
    <2>1. p[k][i] < p[l][j]
      BY DEF Written, PlacedInOrder
    <2>2. q[k][i] \in 1 .. n /\ q[l][j] \in 1 .. n /\ order[q[k][i]] < order[q[l][j]]
      BY <1>13, <2>1
    <2> QED BY <1>2, <1>8, <2>2, EnumeratesOrder
  <1>16. ASSUME NEW i \in 1 .. n
         PROVE  \E k \in 1 .. Len(T) : \E j \in 1 .. Len(T[k].ssrcs) : i = q[k][j]
    <2>1. order[i] \in lines
      BY <1>9
    <2>k. PICK k \in 1 .. Len(T) : \E j \in 1 .. Len(T[k].ssrcs) : order[i] = p[k][j]
      BY <1>4, <2>1
    <2>2. PICK j \in 1 .. Len(T[k].ssrcs) : order[i] = p[k][j]
      BY <2>k
    <2>3. q[k][j] \in 1 .. n /\ order[q[k][j]] = order[i]
      BY <1>13, <2>2
    <2> DEFINE x == q[k][j]
    <2>4. x \in 1 .. n /\ order[i] = order[x]
      BY <2>3
    <2> HIDE DEF x
    <2>5. i = x
      BY <1>2, <1>8, <2>4, EnumeratesOrder
    <2> QED BY <2>5 DEF x
  <1>17. \A k \in 1 .. Len(T) : \A j \in 1 .. Len(T[k].ssrcs) :
           infos[q[k][j]] = [ssrc_id |-> T[k].ssrcs[j], track_id |-> T[k].id]
    <2> SUFFICES ASSUME NEW k \in 1 .. Len(T), NEW j \in 1 .. Len(T[k].ssrcs)
                 PROVE  infos[q[k][j]] = [ssrc_id |-> T[k].ssrcs[j], track_id |-> T[k].id]
      OBVIOUS
    <2>1. q[k][j] \in 1 .. n /\ order[q[k][j]] = p[k][j]
      BY <1>13
    <2>2. infos[q[k][j]] = [ssrc_id |-> text[p[k][j]].ssrc, track_id |-> text[p[k][j]].track]
      BY <1>12, <2>1
    <2> QED BY <1>3, <2>2
  <1>18. Entered(infos, T, q)
    BY <1>12, <1>14, <1>15, <1>16, <1>17 DEF Entered
  <1> QED BY <1>10, <1>18
(* CreateTrackFromSsrcInfo puts the entries together again.                *)
LEMMA CreateTrackReads ==
  ASSUME NEW infos, NEW m, NEW T, Described(T, m), NEW q, Entered(infos, T, q)
  PROVE  CreateTrackFromSsrcInfo(infos) = [k \in 1 .. Len(T) |-> [id |-> T[k].id, ssrcs |-> T[k].ssrcs]]
  <1> DEFINE n == Len(T)
             D == 1 .. Len(infos)
             InTrack(k) == {j \in DOMAIN infos : infos[j].track_id = infos[k].track_id}
             firsts == {k \in DOMAIN infos : \A j \in InTrack(k) : k <= j}
             f == [k \in 1 .. n |-> q[k][1]]
             Ssrcs(k) == LET mine == Ascending(InTrack(k)) IN [j \in DOMAIN mine |-> infos[mine[j]].ssrc_id]
  <1>1. n \in Nat /\ DOMAIN infos = D /\ Len(infos) \in Nat /\ \A i \in D : i \in Nat
    BY DEF Entered, Described
  <1>2. ASSUME NEW k \in 1 .. n
        PROVE  /\ q[k] \in [1 .. Len(T[k].ssrcs) -> D]
               /\ Len(T[k].ssrcs) \in Nat /\ 1 \in 1 .. Len(T[k].ssrcs)
               /\ \A j \in 1 .. Len(T[k].ssrcs) :
                    /\ q[k][j] \in D /\ q[k][j] \in Nat
                    /\ infos[q[k][j]].track_id = T[k].id /\ infos[q[k][j]].ssrc_id = T[k].ssrcs[j]
    <2>1. q[k] \in [1 .. Len(T[k].ssrcs) -> D]
      BY DEF Entered
    <2>2. \A j \in 1 .. Len(T[k].ssrcs) : infos[q[k][j]] = [ssrc_id |-> T[k].ssrcs[j], track_id |-> T[k].id]
      BY DEF Entered
    <2>3. \A j \in 1 .. Len(T[k].ssrcs) : q[k][j] \in D /\ q[k][j] \in Nat
      BY <1>1, <2>1
    <2>4. Len(T[k].ssrcs) \in Nat /\ 1 \in 1 .. Len(T[k].ssrcs)
      BY TrackFields
    <2>5. \A j \in 1 .. Len(T[k].ssrcs) :
            infos[q[k][j]].track_id = T[k].id /\ infos[q[k][j]].ssrc_id = T[k].ssrcs[j]
      <3> SUFFICES ASSUME NEW j \in 1 .. Len(T[k].ssrcs)
                   PROVE  infos[q[k][j]].track_id = T[k].id /\ infos[q[k][j]].ssrc_id = T[k].ssrcs[j]
        OBVIOUS
      <3> DEFINE x == infos[q[k][j]]
      <3>1. x = [ssrc_id |-> T[k].ssrcs[j], track_id |-> T[k].id]
        BY <2>2
      <3> HIDE DEF x
      <3>2. x.track_id = T[k].id /\ x.ssrc_id = T[k].ssrcs[j]
        BY <3>1
      <3> QED BY <3>2 DEF x
    <2> QED BY ONLY <2>1, <2>3, <2>4, <2>5
  <1>3. ASSUME NEW i \in D PROVE \E k \in 1 .. n : \E j \in 1 .. Len(T[k].ssrcs) : i = q[k][j]
    BY DEF Entered
  <1>4. ASSUME NEW k \in 1 .. n, NEW j \in 1 .. Len(T[k].ssrcs)
        PROVE  InTrack(q[k][j]) = {q[k][i] : i \in 1 .. Len(T[k].ssrcs)}
    <2>1. \A i \in 1 .. Len(T[k].ssrcs) : q[k][i] \in InTrack(q[k][j])
      BY <1>1, <1>2
    <2>2. ASSUME NEW x \in InTrack(q[k][j]) PROVE \E i \in 1 .. Len(T[k].ssrcs) : x = q[k][i]
      <3>1. x \in D /\ infos[x].track_id = T[k].id
        BY <1>1, <1>2
      <3>2. PICK l \in 1 .. n : \E i \in 1 .. Len(T[l].ssrcs) : x = q[l][i]
        BY <1>3, <3>1
      <3>3. infos[x].track_id = T[l].id
        BY <1>2, <3>2
      <3>4. l = k
        BY <3>1, <3>3 DEF Described
      <3> QED BY <3>2, <3>4
    <2> HIDE DEF InTrack
    <2> QED BY <2>1, <2>2
  <1> HIDE DEF InTrack
  <1>h. ASSUME NEW k \in 1 .. n
        PROVE  InTrack(q[k][1]) = {q[k][i] : i \in 1 .. Len(T[k].ssrcs)}
    <2>1. 1 \in 1 .. Len(T[k].ssrcs)
      BY <1>2
    <2> QED BY <1>4, <2>1
  <1>5. ASSUME NEW k \in 1 .. n PROVE Enumerates(q[k], Len(T[k].ssrcs), InTrack(q[k][1]))
    <2>1. InTrack(q[k][1]) = {q[k][i] : i \in 1 .. Len(T[k].ssrcs)}
      BY <1>2, <1>4
    <2>2. \A i, j \in 1 .. Len(T[k].ssrcs) : i < j => q[k][i] < q[k][j]
      BY DEF Entered, PlacedInOrder
    <2>3. q[k] \in [1 .. Len(T[k].ssrcs) -> InTrack(q[k][1])]
      BY <1>2, <2>1
    <2>4. \A x \in InTrack(q[k][1]) : \E i \in 1 .. Len(T[k].ssrcs) : q[k][i] = x
      BY <2>1
    <2> QED BY <2>2, <2>3, <2>4 DEF Enumerates
  <1>6. ASSUME NEW k \in 1 .. n PROVE Ascending(InTrack(q[k][1])) = q[k]
    <2>1. InTrack(q[k][1]) \in SUBSET Nat
      <3>1. \A i \in 1 .. Len(T[k].ssrcs) : q[k][i] \in Nat
        BY <1>2
      <3> DEFINE S == InTrack(q[k][1])
      <3>2. S = {q[k][i] : i \in 1 .. Len(T[k].ssrcs)}
        BY <1>h
      <3> HIDE DEF S
      <3>3. S \in SUBSET Nat
        BY <3>1, <3>2
      <3> QED BY <3>3 DEF S
    <2> QED BY <1>2, <1>5, <2>1, AscendingIsThis
  <1>7. \A k \in 1 .. n : q[k][1] \in firsts
    <2> SUFFICES ASSUME NEW k \in 1 .. n PROVE q[k][1] \in firsts
      OBVIOUS
    <2>1. q[k][1] \in D
      BY <1>2
    <2>2. ASSUME NEW x \in InTrack(q[k][1]) PROVE q[k][1] <= x
      <3>1. PICK i \in 1 .. Len(T[k].ssrcs) : x = q[k][i]
        BY <1>h
      <3>2. i = 1 \/ 1 < i
        BY <1>2
      <3>3. 1 < i => q[k][1] < q[k][i]
        BY <1>2 DEF Entered, PlacedInOrder
      <3>4. q[k][1] \in Nat /\ q[k][i] \in Nat
        BY <1>2
      <3> QED BY <3>1, <3>2, <3>3, <3>4
    <2> QED BY <1>1, <2>1, <2>2
  <1>8. ASSUME NEW x \in firsts PROVE \E k \in 1 .. n : x = q[k][1]
    <2>1. x \in D /\ \A y \in InTrack(x) : x <= y
      BY <1>1
    <2>2. PICK k \in 1 .. n : \E j \in 1 .. Len(T[k].ssrcs) : x = q[k][j]
      BY <1>3, <2>1
    <2>3. PICK j \in 1 .. Len(T[k].ssrcs) : x = q[k][j]
      BY <2>2
    <2>4. q[k][1] \in InTrack(x)
      <3>1. InTrack(q[k][j]) = {q[k][i] : i \in 1 .. Len(T[k].ssrcs)}
        BY <1>4
      <3>2. 1 \in 1 .. Len(T[k].ssrcs)
        BY <1>2
      <3> QED BY <2>3, <3>1, <3>2
    <2>5. q[k][j] <= q[k][1]
      BY <2>1, <2>3, <2>4
    <2>6. 1 < j => q[k][1] < q[k][j]
      BY <1>2 DEF Entered, PlacedInOrder
    <2>7. q[k][1] \in Nat /\ q[k][j] \in Nat
      BY <1>2
    <2>8. j = 1
      BY <1>2, <2>5, <2>6, <2>7
    <2> QED BY <2>3, <2>8
  <1>9. firsts \in SUBSET Nat
    BY <1>1
  <1> HIDE DEF firsts
  <1>10. Enumerates(f, n, firsts)
    <2>1. f \in [1 .. n -> firsts]
      BY <1>7
    <2>2. \A i, j \in 1 .. n : i < j => f[i] < f[j]
      BY <1>2 DEF Entered, PlacedInOrder
    <2>3. \A x \in firsts : \E i \in 1 .. n : f[i] = x
      BY <1>8
    <2> HIDE DEF f
    <2> QED BY <2>1, <2>2, <2>3 DEF Enumerates
  <1>11. Ascending(firsts) = f
    BY <1>1, <1>9, <1>10, AscendingIsThis
  <1>12. ASSUME NEW k \in 1 .. n PROVE Ssrcs(q[k][1]) = T[k].ssrcs
    <2>1. Ssrcs(q[k][1]) = [j \in DOMAIN q[k] |-> infos[q[k][j]].ssrc_id]
      BY <1>6
    <2>2. DOMAIN q[k] = 1 .. Len(T[k].ssrcs)
      BY <1>2
    <2>3. \A j \in 1 .. Len(T[k].ssrcs) : infos[q[k][j]].ssrc_id = T[k].ssrcs[j]
      BY <1>2
    <2>4. T[k].ssrcs = [j \in 1 .. Len(T[k].ssrcs) |-> T[k].ssrcs[j]]
      BY TrackFields
    <2> HIDE DEF Ssrcs
    <2> QED BY <2>1, <2>2, <2>3, <2>4
  <1>13. CreateTrackFromSsrcInfo(infos)
           = [k \in DOMAIN Ascending(firsts) |->
                [id |-> infos[Ascending(firsts)[k]].track_id, ssrcs |-> Ssrcs(Ascending(firsts)[k])]]
    BY DEF CreateTrackFromSsrcInfo, firsts, InTrack
  <1> HIDE DEF Ssrcs
  <1>14. CreateTrackFromSsrcInfo(infos)
           = [k \in 1 .. n |-> [id |-> infos[q[k][1]].track_id, ssrcs |-> Ssrcs(q[k][1])]]
    BY <1>11, <1>13
  <1>15. \A k \in 1 .. n : infos[q[k][1]].track_id = T[k].id /\ Ssrcs(q[k][1]) = T[k].ssrcs
    BY <1>2, <1>12
  <1> QED BY <1>14, <1>15

(* An offer is read as the tracks that were written into it.               *)
LEMMA TracksRead ==
  ASSUME NEW text \in Seq(Line), NEW m, NEW T, Described(T, m), NEW p, NEW g, Written(text, m, T, p, g)
  PROVE  Tracks(text, m) = T
  <1> DEFINE n == Len(T)
             tracks == CreateTrackFromSsrcInfo(SsrcInfo(text, m))
             G(k) == {i \in DOMAIN text : /\ text[i].type = "group" /\ Section(text, i) = m
                                          /\ m = "video" /\ text[i].ssrcs[1] \in Range(tracks[k].ssrcs)}
             Groups(k) == LET mine == Ascending(G(k)) IN [j \in DOMAIN mine |-> text[mine[j]]]
  <1>1. PICK q : Entered(SsrcInfo(text, m), T, q)
    BY SsrcInfoReads
  <1>2. tracks = [k \in 1 .. n |-> [id |-> T[k].id, ssrcs |-> T[k].ssrcs]]
    BY <1>1, CreateTrackReads
  <1>3. DOMAIN tracks = 1 .. n /\ \A k \in 1 .. n : tracks[k].id = T[k].id /\ tracks[k].ssrcs = T[k].ssrcs
    BY <1>2
  <1>4. Tracks(text, m) = [k \in DOMAIN tracks |-> [id |-> tracks[k].id, ssrcs |-> tracks[k].ssrcs,
                                                    groups |-> Groups(k)]]
    BY DEF Tracks
  <1> HIDE DEF tracks
  <1>5. DOMAIN text = 1 .. Len(text) /\ \A i \in DOMAIN text : i \in Nat
    OBVIOUS
  <1>6. ASSUME NEW k \in 1 .. n PROVE Groups(k) = T[k].groups
    <2> DEFINE c == Len(T[k].groups)
    <2>1. c \in Nat /\ T[k].groups \in [1 .. c -> GroupLine]
      BY TrackFields
    <2>2. g[k] \in [1 .. c -> DOMAIN text] /\ \A i, j \in 1 .. c : i < j => g[k][i] < g[k][j]
      BY DEF Written
    <2>3. \A j \in 1 .. c : text[g[k][j]] = T[k].groups[j] /\ Section(text, g[k][j]) = m
      BY DEF Written
    <2>4. c # 0 => m = "video"
      BY EmptySeq DEF Described
    <2>5. ASSUME NEW j \in 1 .. c PROVE g[k][j] \in G(k)
      <3> DEFINE x == g[k][j]
      <3>1. x \in DOMAIN text /\ text[x] = T[k].groups[j] /\ Section(text, x) = m
        BY <2>2, <2>3
      <3>2. T[k].groups[j].type = "group"
        BY <2>1 DEF GroupLine
      <3>3. T[k].groups[j].ssrcs[1] \in Range(T[k].ssrcs)
        BY DEF Described
      <3>4. m = "video"
        BY <2>1, <2>4
      <3> HIDE DEF x
      <3>5. x \in G(k)
        BY <1>3, <3>1, <3>2, <3>3, <3>4
      <3> QED BY <3>5 DEF x
    <2>6. ASSUME NEW x \in G(k) PROVE \E j \in 1 .. c : g[k][j] = x
      <3>1. x \in DOMAIN text /\ text[x].type = "group" /\ Section(text, x) = m
            /\ text[x].ssrcs[1] \in Range(T[k].ssrcs)
        BY <1>3
      <3>2. PICK l \in 1 .. n : \E j \in 1 .. Len(T[l].groups) : x = g[l][j]
        BY <3>1 DEF Written
      <3>3. PICK j \in 1 .. Len(T[l].groups) : x = g[l][j]
        BY <3>2
      <3>4. text[x] = T[l].groups[j]
        BY <3>3 DEF Written
      <3>5. text[x].ssrcs[1] \in Range(T[l].ssrcs)
        BY <3>4 DEF Described
      <3>6. DOMAIN T[k].ssrcs = 1 .. Len(T[k].ssrcs) /\ DOMAIN T[l].ssrcs = 1 .. Len(T[l].ssrcs)
        BY TrackFields
      <3>7. \E a \in 1 .. Len(T[k].ssrcs), b \in 1 .. Len(T[l].ssrcs) : T[k].ssrcs[a] = T[l].ssrcs[b]
        BY <3>1, <3>5, <3>6 DEF Range
      <3>8. k = l
        BY <3>7 DEF Described
      <3> QED BY <3>3, <3>8
    <2>7. G(k) \in SUBSET Nat
      BY <1>5
    <2> HIDE DEF G
    <2>8. Enumerates(g[k], c, G(k))
      <3>1. g[k] \in [1 .. c -> G(k)]
        BY <2>2, <2>5
      <3> QED BY <2>2, <2>6, <3>1 DEF Enumerates
    <2>9. Ascending(G(k)) = g[k]
      BY <2>1, <2>7, <2>8, AscendingIsThis
    <2>10. Groups(k) = [j \in 1 .. c |-> text[g[k][j]]]
      BY <2>2, <2>9
    <2>11. T[k].groups = [j \in 1 .. c |-> T[k].groups[j]]
      BY <2>1
    <2> HIDE DEF Groups, c
    <2> QED BY <2>3, <2>10, <2>11
  <1> HIDE DEF Groups
  <1>7. Tracks(text, m) = [k \in 1 .. n |-> [id |-> T[k].id, ssrcs |-> T[k].ssrcs, groups |-> T[k].groups]]
    BY <1>3, <1>4, <1>6
  <1>8. \A k \in 1 .. n : T[k] = [id |-> T[k].id, ssrcs |-> T[k].ssrcs, groups |-> T[k].groups]
    <2> SUFFICES ASSUME NEW k \in 1 .. n
                 PROVE  T[k] = [id |-> T[k].id, ssrcs |-> T[k].ssrcs, groups |-> T[k].groups]
      OBVIOUS
    <2>1. T[k] \in Track
      BY TrackFields
    <2> QED BY <2>1 DEF Track
  <1>9. T = [k \in 1 .. n |-> T[k]]
    BY DEF Described
  <1> QED BY <1>7, <1>8, <1>9
-----------------------------------------------------------------------------
(* What an answer can describe                                             *)

(* A finite set of numbers has a greatest.                                 *)
LEMMA MaxIn ==
  ASSUME NEW S \in SUBSET Nat, IsFiniteSet(S), S # {}
  PROVE  Max(S) \in S /\ \A y \in S : Max(S) >= y
  <1> DEFINE f == Ascending(S)
             n == Cardinality(S)
  <1>1. Enumerates(f, n, S) /\ n \in Nat
    BY AscendingIs
  <1> HIDE DEF f, n
  <1>2. PICK x0 \in S : TRUE
    OBVIOUS
  <1>3. \E i \in 1 .. n : f[i] = x0
    BY <1>1, <1>2 DEF Enumerates
  <1>4. n \in 1 .. n
    BY <1>1, <1>3
  <1>5. f[n] \in S
    BY <1>1, <1>4 DEF Enumerates
  <1>6. \A y \in S : f[n] >= y
    <2> SUFFICES ASSUME NEW y \in S PROVE f[n] >= y
      OBVIOUS
    <2>1. PICK i \in 1 .. n : f[i] = y
      BY <1>1 DEF Enumerates
    <2>2. i < n => f[i] < f[n]
      BY <1>1, <1>4 DEF Enumerates
    <2>3. i < n \/ i = n
      BY <1>1
    <2>4. f[n] \in Nat /\ y \in Nat
      BY <1>5
    <2> QED BY <2>1, <2>2, <2>3, <2>4
  <1> QED BY <1>5, <1>6 DEF Max

(* Some places of a text.                                                  *)
LEMMA PlacesFinite ==
  ASSUME NEW n \in Nat, NEW S \in SUBSET (1 .. n)
  PROVE  S \in SUBSET Nat /\ IsFiniteSet(S)
  <1>1. IsFiniteSet(1 .. n) /\ 1 .. n \in SUBSET Nat
    BY FS_Interval
  <1> QED BY <1>1, FS_Subset

(* What ParseSsrcInfo keeps of an SSRC.                                    *)
Info == [ssrc_id : Ssrc, track_id : STRING]

(* ParseSsrcInfo enters each SSRC once.                                    *)
LEMMA SsrcInfoType ==
  ASSUME NEW text \in Seq(Line), NEW m
  PROVE  LET infos == SsrcInfo(text, m)
         IN  /\ infos \in Seq(Info)
             /\ \A i, j \in 1 .. Len(infos) : infos[i].ssrc_id = infos[j].ssrc_id => i = j
  <1> DEFINE lines == {i \in DOMAIN text : text[i].type = "ssrc" /\ Section(text, i) = m}
             About(i) == {j \in lines : text[j].ssrc = text[i].ssrc}
             firsts == {i \in lines : \A j \in About(i) : i <= j}
             n == Cardinality(firsts)
             order == Ascending(firsts)
             infos == [k \in 1 .. n |-> [ssrc_id |-> text[order[k]].ssrc,
                                         track_id |-> text[Max(About(order[k]))].track]]
  <1>1. DOMAIN text = 1 .. Len(text) /\ Len(text) \in Nat
    OBVIOUS
  <1>2. lines \in SUBSET (1 .. Len(text)) /\ firsts \in SUBSET (1 .. Len(text))
    BY <1>1
  <1>3. lines \in SUBSET Nat /\ IsFiniteSet(lines) /\ firsts \in SUBSET Nat /\ IsFiniteSet(firsts)
    <2> HIDE DEF lines, firsts
    <2> QED BY <1>1, <1>2, PlacesFinite
  <1>4. \A i \in lines : text[i].ssrc \in Ssrc /\ text[i].track \in STRING
    <2> SUFFICES ASSUME NEW i \in lines PROVE text[i].ssrc \in Ssrc /\ text[i].track \in STRING
      OBVIOUS
    <2>1. text[i] \in Line /\ text[i].type = "ssrc"
      OBVIOUS
    <2> QED BY <2>1 DEF Line, Ssrc
  <1>5. SsrcInfo(text, m) = [k \in DOMAIN order |-> [ssrc_id |-> text[order[k]].ssrc,
                                                     track_id |-> text[Max(About(order[k]))].track]]
    BY DEF SsrcInfo
  <1> HIDE DEF lines
  <1>6. ASSUME NEW i \in lines PROVE Max(About(i)) \in lines
    <2> DEFINE S == About(i)
    <2>1. S \in SUBSET lines /\ i \in S
      OBVIOUS
    <2> HIDE DEF S
    <2>2. S \in SUBSET Nat /\ IsFiniteSet(S) /\ S # {}
      BY <1>3, <2>1, FS_Subset
    <2>3. Max(S) \in S
      BY <2>2, MaxIn
    <2>4. Max(S) \in lines
      BY <2>1, <2>3
    <2> QED BY <2>4 DEF S
  <1>7. ASSUME NEW i \in firsts, NEW j \in firsts, text[i].ssrc = text[j].ssrc PROVE i = j
    <2>1. i \in About(j) /\ j \in About(i)
      BY <1>7
    <2>2. i <= j /\ j <= i
      BY <2>1
    <2>3. i \in Nat /\ j \in Nat
      BY <1>3
    <2> QED BY <2>2, <2>3
  <1>8. \A i \in firsts : i \in lines
    OBVIOUS
  <1> HIDE DEF firsts, About
  <1>9. Enumerates(order, n, firsts) /\ n \in Nat
    BY <1>3, AscendingIs
  <1>10. order \in [1 .. n -> firsts] /\ DOMAIN order = 1 .. n
    BY <1>9 DEF Enumerates
  <1>11. SsrcInfo(text, m) = infos
    BY <1>5, <1>10
  <1> HIDE DEF n, order
  <1>12. \A k \in 1 .. n : infos[k].ssrc_id = text[order[k]].ssrc
    OBVIOUS
  <1>13. infos \in [1 .. n -> Info]
    <2>1. ASSUME NEW k \in 1 .. n
          PROVE  text[order[k]].ssrc \in Ssrc /\ text[Max(About(order[k]))].track \in STRING
      <3>1. order[k] \in lines
        BY <1>8, <1>10
      <3> QED BY <1>4, <1>6, <3>1
    <2> QED BY <2>1 DEF Info
  <1> HIDE DEF infos
  <1>14. infos \in Seq(Info) /\ Len(infos) = n
    BY <1>9, <1>13
  <1>15. \A i, j \in 1 .. n : infos[i].ssrc_id = infos[j].ssrc_id => i = j
    <2> SUFFICES ASSUME NEW i \in 1 .. n, NEW j \in 1 .. n, infos[i].ssrc_id = infos[j].ssrc_id
                 PROVE  i = j
      OBVIOUS
    <2>1. infos[i].ssrc_id = text[order[i]].ssrc /\ infos[j].ssrc_id = text[order[j]].ssrc
      BY <1>12
    <2>2. order[i] = order[j]
      BY <1>7, <1>10, <2>1
    <2> QED BY <1>3, <1>9, <2>2, EnumeratesOrder
  <1> QED BY <1>11, <1>14, <1>15

(* CreateTrackFromSsrcInfo makes a track for each name, with an SSRC, and  *)
(* gives no SSRC to two.                                                   *)
LEMMA CreateTrackType ==
  ASSUME NEW infos \in Seq(Info),
         \A i, j \in 1 .. Len(infos) : infos[i].ssrc_id = infos[j].ssrc_id => i = j
  PROVE  LET U == CreateTrackFromSsrcInfo(infos)
         IN  /\ U \in Seq([id : STRING, ssrcs : Seq(Ssrc)])
             /\ \A k \in 1 .. Len(U) : U[k].ssrcs # <<>>
             /\ \A k, l \in 1 .. Len(U) : U[k].id = U[l].id => k = l
             /\ \A k, l \in 1 .. Len(U) : \A i \in 1 .. Len(U[k].ssrcs) : \A j \in 1 .. Len(U[l].ssrcs) :
                  U[k].ssrcs[i] = U[l].ssrcs[j] => k = l /\ i = j
  <1> DEFINE D == 1 .. Len(infos)
             InTrack(k) == {j \in DOMAIN infos : infos[j].track_id = infos[k].track_id}
             firsts == {k \in DOMAIN infos : \A j \in InTrack(k) : k <= j}
             n == Cardinality(firsts)
             order == Ascending(firsts)
             Mine(k) == Ascending(InTrack(k))
             C(k) == Cardinality(InTrack(k))
             Ssrcs(k) == [j \in DOMAIN Mine(k) |-> infos[Mine(k)[j]].ssrc_id]
             U == [k \in DOMAIN order |-> [id |-> infos[order[k]].track_id, ssrcs |-> Ssrcs(order[k])]]
  <1>1. DOMAIN infos = D /\ Len(infos) \in Nat /\ \A i \in D : i \in Nat
    OBVIOUS
  <1>2. \A i \in D : infos[i].ssrc_id \in Ssrc /\ infos[i].track_id \in STRING
    <2> SUFFICES ASSUME NEW i \in D PROVE infos[i].ssrc_id \in Ssrc /\ infos[i].track_id \in STRING
      OBVIOUS
    <2>1. infos[i] \in Info
      OBVIOUS
    <2> QED BY <2>1 DEF Info
  <1>3. firsts \in SUBSET D /\ \A k : InTrack(k) \in SUBSET D
    BY <1>1
  <1>4. firsts \in SUBSET Nat /\ IsFiniteSet(firsts)
    <2> HIDE DEF firsts
    <2> QED BY <1>1, <1>3, PlacesFinite
  <1>5. ASSUME NEW k \in D PROVE InTrack(k) \in SUBSET Nat /\ IsFiniteSet(InTrack(k))
    <2> HIDE DEF InTrack
    <2> QED BY <1>1, <1>3, PlacesFinite
  <1>6. CreateTrackFromSsrcInfo(infos) = U
    BY DEF CreateTrackFromSsrcInfo
  <1>7. ASSUME NEW i \in firsts, NEW j \in firsts, infos[i].track_id = infos[j].track_id PROVE i = j
    <2>1. i \in InTrack(j) /\ j \in InTrack(i)
      BY <1>7
    <2>2. i <= j /\ j <= i
      BY <2>1
    <2> QED BY <1>4, <2>2
  <1>8. \A k \in D : k \in InTrack(k)
    BY <1>1
  <1>9. \A k, x : x \in InTrack(k) => infos[x].track_id = infos[k].track_id
    OBVIOUS
  <1> HIDE DEF firsts, InTrack
  <1>10. Enumerates(order, n, firsts) /\ n \in Nat
    BY <1>4, AscendingIs
  <1>11. order \in [1 .. n -> firsts] /\ DOMAIN order = 1 .. n
    BY <1>10 DEF Enumerates
  <1>12. ASSUME NEW k \in D PROVE Enumerates(Mine(k), C(k), InTrack(k)) /\ C(k) \in Nat
    BY <1>5, AscendingIs
  <1>13. ASSUME NEW k \in D
         PROVE  Mine(k) \in [1 .. C(k) -> InTrack(k)] /\ DOMAIN Mine(k) = 1 .. C(k) /\ 1 \in 1 .. C(k)
    <2>1. Mine(k) \in [1 .. C(k) -> InTrack(k)] /\ C(k) \in Nat
      BY <1>12 DEF Enumerates
    <2>2. \E i \in 1 .. C(k) : Mine(k)[i] = k
      BY <1>8, <1>12 DEF Enumerates
    <2> QED BY <2>1, <2>2
  <1> HIDE DEF n, order, Mine, C
  <1>14. ASSUME NEW k \in D
         PROVE  /\ Ssrcs(k) \in Seq(Ssrc) /\ Len(Ssrcs(k)) = C(k) /\ Ssrcs(k) # <<>>
                /\ \A j \in 1 .. C(k) : Mine(k)[j] \in D /\ Ssrcs(k)[j] = infos[Mine(k)[j]].ssrc_id
    <2>1. \A j \in 1 .. C(k) : Mine(k)[j] \in D
      BY <1>3, <1>13
    <2>2. Ssrcs(k) \in [1 .. C(k) -> Ssrc] /\ \A j \in 1 .. C(k) : Ssrcs(k)[j] = infos[Mine(k)[j]].ssrc_id
      BY <1>2, <1>13, <2>1
    <2> DEFINE f == Ssrcs(k)
    <2> HIDE DEF Ssrcs, f
    <2>3. f \in [1 .. C(k) -> Ssrc]
      BY <2>2 DEF f
    <2>4. f \in Seq(Ssrc) /\ Len(f) = C(k)
      BY <1>12, <2>3
    <2>5. f # <<>>
      BY <1>12, <1>13, <2>4, EmptySeq
    <2> QED BY <2>1, <2>2, <2>4, <2>5 DEF f
  <1> HIDE DEF Ssrcs
  <1>15. U = [k \in 1 .. n |-> [id |-> infos[order[k]].track_id, ssrcs |-> Ssrcs(order[k])]]
    BY <1>11
  <1>16. \A k \in 1 .. n : order[k] \in D /\ U[k].id = infos[order[k]].track_id /\ U[k].ssrcs = Ssrcs(order[k])
    BY <1>3, <1>11, <1>15
  <1>17. U \in Seq([id : STRING, ssrcs : Seq(Ssrc)]) /\ Len(U) = n
    <2> DEFINE R == [id : STRING, ssrcs : Seq(Ssrc)]
    <2>1. \A k \in 1 .. n : infos[order[k]].track_id \in STRING /\ Ssrcs(order[k]) \in Seq(Ssrc)
      BY <1>2, <1>14, <1>16
    <2>2. U \in [1 .. n -> R]
      BY <1>15, <2>1
    <2> HIDE DEF U, R
    <2>3. U \in Seq(R) /\ Len(U) = n
      BY <1>10, <2>2
    <2> QED BY <2>3 DEF R
  <1> HIDE DEF U
  <1>18. \A k \in 1 .. n : U[k].ssrcs # <<>>
    BY <1>14, <1>16
  <1>19. \A k, l \in 1 .. n : U[k].id = U[l].id => k = l
    <2> SUFFICES ASSUME NEW k \in 1 .. n, NEW l \in 1 .. n, U[k].id = U[l].id PROVE k = l
      OBVIOUS
    <2>1. order[k] = order[l]
      BY <1>7, <1>11, <1>16
    <2> QED BY <1>4, <1>10, <2>1, EnumeratesOrder
  <1>20. ASSUME NEW k \in 1 .. n, NEW l \in 1 .. n, NEW i \in 1 .. Len(U[k].ssrcs),
                NEW j \in 1 .. Len(U[l].ssrcs), U[k].ssrcs[i] = U[l].ssrcs[j]
         PROVE  k = l /\ i = j
    <2> DEFINE a == order[k]
               b == order[l]
    <2>1. a \in D /\ b \in D /\ a \in firsts /\ b \in firsts
          /\ U[k].ssrcs = Ssrcs(a) /\ U[l].ssrcs = Ssrcs(b)
          /\ U[k].id = infos[a].track_id /\ U[l].id = infos[b].track_id
      BY <1>11, <1>16
    <2> HIDE DEF a, b
    <2>2. i \in 1 .. C(a) /\ j \in 1 .. C(b)
      BY <1>14, <2>1
    <2>3. Mine(a)[i] \in D /\ Mine(b)[j] \in D /\ infos[Mine(a)[i]].ssrc_id = infos[Mine(b)[j]].ssrc_id
      BY <1>14, <1>20, <2>1, <2>2
    <2>4. Mine(a)[i] = Mine(b)[j]
      BY <2>3
    <2>5. Mine(a)[i] \in InTrack(a) /\ Mine(b)[j] \in InTrack(b)
      BY <1>13, <2>1, <2>2
    <2>6. infos[a].track_id = infos[b].track_id
      BY <1>9, <2>4, <2>5
    <2>7. k = l
      BY <1>19, <2>1, <2>6
    <2>8. a = b
      BY <1>7, <2>1, <2>6
    <2>9. i = j
      BY <1>5, <1>12, <2>1, <2>2, <2>4, <2>8, EnumeratesOrder
    <2> QED BY <2>7, <2>9
  <1>21. /\ U \in Seq([id : STRING, ssrcs : Seq(Ssrc)])
         /\ \A k \in 1 .. Len(U) : U[k].ssrcs # <<>>
         /\ \A k, l \in 1 .. Len(U) : U[k].id = U[l].id => k = l
    BY <1>17, <1>18, <1>19
  <1>22. \A k, l \in 1 .. Len(U) : \A i \in 1 .. Len(U[k].ssrcs) : \A j \in 1 .. Len(U[l].ssrcs) :
           U[k].ssrcs[i] = U[l].ssrcs[j] => k = l /\ i = j
    BY <1>17, <1>20
  <1> DEFINE W == CreateTrackFromSsrcInfo(infos)
  <1>23. W = U
    BY <1>6
  <1> HIDE DEF U, W
  <1> DEFINE Separate(X) ==
               /\ X \in Seq([id : STRING, ssrcs : Seq(Ssrc)])
               /\ \A k \in 1 .. Len(X) : X[k].ssrcs # <<>>
               /\ \A k, l \in 1 .. Len(X) : X[k].id = X[l].id => k = l
               /\ \A k, l \in 1 .. Len(X) : \A i \in 1 .. Len(X[k].ssrcs) : \A j \in 1 .. Len(X[l].ssrcs) :
                    X[k].ssrcs[i] = X[l].ssrcs[j] => k = l /\ i = j
  <1>24. Separate(U)
    BY ONLY <1>21, <1>22
  <1>25. Separate(W)
    <2> HIDE DEF Separate
    <2> QED BY ONLY <1>23, <1>24
  <1> QED BY ONLY <1>25 DEF W

(* A line that says it is a group is one.                                  *)
LEMMA GroupLineFields ==
  ASSUME NEW x \in Line, x.type = "group"
  PROVE  x \in GroupLine
  <1>1. x \in [type : {"m"}, media : {"audio", "video"}] => x.type = "m"
    OBVIOUS
  <1>2. x \in [type : {"ssrc"}, ssrc : Nat \ {0}, track : STRING] => x.type = "ssrc"
    OBVIOUS
  <1>3. x \in [type : {"bad"}] => x.type = "bad"
    OBVIOUS
  <1> QED BY <1>1, <1>2, <1>3 DEF Line, GroupLine, Ssrc

(* The tracks that are read from an answer are described ones.             *)
LEMMA TracksDescribed ==
  ASSUME NEW text \in Seq(Line), NEW m
  PROVE  Described(Tracks(text, m), m)
  <1> DEFINE U == CreateTrackFromSsrcInfo(SsrcInfo(text, m))
             n == Len(U)
             G(k) == {i \in DOMAIN text : /\ text[i].type = "group" /\ Section(text, i) = m
                                          /\ m = "video" /\ text[i].ssrcs[1] \in Range(U[k].ssrcs)}
             Mine(k) == Ascending(G(k))
             C(k) == Cardinality(G(k))
             Groups(k) == [j \in DOMAIN Mine(k) |-> text[Mine(k)[j]]]
             T == [k \in DOMAIN U |-> [id |-> U[k].id, ssrcs |-> U[k].ssrcs, groups |-> Groups(k)]]
  <1>1. /\ U \in Seq([id : STRING, ssrcs : Seq(Ssrc)])
        /\ \A k \in 1 .. n : U[k].ssrcs # <<>>
        /\ \A k, l \in 1 .. n : U[k].id = U[l].id => k = l
        /\ \A k, l \in 1 .. n : \A i \in 1 .. Len(U[k].ssrcs) : \A j \in 1 .. Len(U[l].ssrcs) :
                  U[k].ssrcs[i] = U[l].ssrcs[j] => k = l /\ i = j
    <2> DEFINE infos == SsrcInfo(text, m)
    <2>1. infos \in Seq(Info) /\ \A i, j \in 1 .. Len(infos) : infos[i].ssrc_id = infos[j].ssrc_id => i = j
      BY SsrcInfoType
    <2> HIDE DEF infos
    <2> QED BY <2>1, CreateTrackType DEF infos
  <1>2. Tracks(text, m) = T
    BY DEF Tracks
  <1> HIDE DEF U
  <1>3. DOMAIN U = 1 .. n /\ n \in Nat
    BY <1>1
  <1>4. \A k \in 1 .. n : U[k].id \in STRING /\ U[k].ssrcs \in Seq(Ssrc)
    <2> SUFFICES ASSUME NEW k \in 1 .. n PROVE U[k].id \in STRING /\ U[k].ssrcs \in Seq(Ssrc)
      OBVIOUS
    <2> DEFINE R == [id : STRING, ssrcs : Seq(Ssrc)]
    <2>1. U \in Seq(R)
      BY <1>1
    <2> HIDE DEF R
    <2>2. U[k] \in R
      BY <2>1
    <2> QED BY <2>2 DEF R
  <1>5. DOMAIN text = 1 .. Len(text) /\ Len(text) \in Nat
    OBVIOUS
  <1>6. \A k : G(k) \in SUBSET (1 .. Len(text))
    BY <1>5
  <1>7. \A k, x : x \in G(k) => /\ x \in DOMAIN text /\ text[x].type = "group" /\ m = "video"
                                /\ text[x].ssrcs[1] \in Range(U[k].ssrcs)
    OBVIOUS
  <1> HIDE DEF G
  <1>8. ASSUME NEW k \in 1 .. n PROVE Enumerates(Mine(k), C(k), G(k)) /\ C(k) \in Nat
    <2>1. G(k) \in SUBSET Nat /\ IsFiniteSet(G(k))
      BY <1>5, <1>6, PlacesFinite
    <2> QED BY <2>1, AscendingIs
  <1>9. ASSUME NEW k \in 1 .. n
        PROVE  Mine(k) \in [1 .. C(k) -> G(k)] /\ DOMAIN Mine(k) = 1 .. C(k)
    BY <1>8 DEF Enumerates
  <1> HIDE DEF Mine, C
  <1>10. ASSUME NEW k \in 1 .. n
         PROVE  /\ Groups(k) \in Seq(GroupLine)
                /\ \A i \in 1 .. Len(Groups(k)) : Groups(k)[i].ssrcs[1] \in Range(U[k].ssrcs)
                /\ m # "video" => Groups(k) = <<>>
    <2>1. ASSUME NEW j \in 1 .. C(k)
          PROVE  text[Mine(k)[j]] \in GroupLine /\ text[Mine(k)[j]].ssrcs[1] \in Range(U[k].ssrcs) /\ m = "video"
      <3> DEFINE x == Mine(k)[j]
      <3>1. x \in G(k)
        BY <1>9
      <3> HIDE DEF x
      <3>2. x \in DOMAIN text /\ text[x].type = "group" /\ m = "video" /\ text[x].ssrcs[1] \in Range(U[k].ssrcs)
        BY <1>7, <3>1
      <3>3. text[x] \in Line
        BY <3>2
      <3>4. text[x] \in GroupLine
        BY <3>2, <3>3, GroupLineFields
      <3> QED BY <3>2, <3>4 DEF x
    <2>2. Groups(k) \in [1 .. C(k) -> GroupLine] /\ \A j \in 1 .. C(k) : Groups(k)[j] = text[Mine(k)[j]]
      BY <1>9, <2>1
    <2> HIDE DEF Groups
    <2>3. Groups(k) \in Seq(GroupLine) /\ Len(Groups(k)) = C(k)
      BY <1>8, <2>2
    <2>4. m # "video" => C(k) = 0
      BY <1>8, <2>1
    <2>5. m # "video" => Groups(k) = <<>>
      BY <2>3, <2>4, EmptySeq
    <2> QED BY <2>1, <2>2, <2>3, <2>5
  <1> HIDE DEF Groups
  <1>11. T \in Seq(Track) /\ Len(T) = n
    <2>1. \A k \in 1 .. n : [id |-> U[k].id, ssrcs |-> U[k].ssrcs, groups |-> Groups(k)] \in Track
      BY <1>4, <1>10 DEF Track
    <2>2. T \in [1 .. n -> Track]
      BY <1>3, <2>1
    <2> HIDE DEF T
    <2> QED BY <1>3, <2>2
  <1>12. \A k \in 1 .. n : T[k].id = U[k].id /\ T[k].ssrcs = U[k].ssrcs /\ T[k].groups = Groups(k)
    BY <1>3
  <1> HIDE DEF T
  <1>13. Described(T, m)
    <2>1. \A k \in 1 .. n : T[k].ssrcs # <<>>
      BY <1>1, <1>12
    <2>2. \A k, l \in 1 .. n : T[k].id = T[l].id => k = l
      BY <1>1, <1>12
    <2>3. \A k, l \in 1 .. n : \A i \in 1 .. Len(T[k].ssrcs) : \A j \in 1 .. Len(T[l].ssrcs) :
            T[k].ssrcs[i] = T[l].ssrcs[j] => k = l /\ i = j
      <3> SUFFICES ASSUME NEW k \in 1 .. n, NEW l \in 1 .. n,
                          NEW i \in 1 .. Len(T[k].ssrcs), NEW j \in 1 .. Len(T[l].ssrcs),
                          T[k].ssrcs[i] = T[l].ssrcs[j]
                   PROVE  k = l /\ i = j
        OBVIOUS
      <3>1. T[k].ssrcs = U[k].ssrcs /\ T[l].ssrcs = U[l].ssrcs
        BY <1>12
      <3>2. i \in 1 .. Len(U[k].ssrcs) /\ j \in 1 .. Len(U[l].ssrcs) /\ U[k].ssrcs[i] = U[l].ssrcs[j]
        BY <3>1
      <3>3. \A b \in 1 .. Len(U[l].ssrcs) : U[k].ssrcs[i] = U[l].ssrcs[b] => k = l /\ i = b
        <4>1. \A x, y \in 1 .. n : \A a \in 1 .. Len(U[x].ssrcs) : \A b \in 1 .. Len(U[y].ssrcs) :
                U[x].ssrcs[a] = U[y].ssrcs[b] => x = y /\ a = b
          BY <1>1
        <4>2. \A a \in 1 .. Len(U[k].ssrcs) : \A b \in 1 .. Len(U[l].ssrcs) :
                U[k].ssrcs[a] = U[l].ssrcs[b] => k = l /\ a = b
          BY ONLY <4>1, k \in 1 .. n, l \in 1 .. n
        <4> QED BY ONLY <4>2, <3>2
      <3> QED BY ONLY <3>2, <3>3
    <2>4. \A k \in 1 .. n : \A i \in 1 .. Len(T[k].groups) : T[k].groups[i].ssrcs[1] \in Range(T[k].ssrcs)
      BY <1>10, <1>12
    <2>5. m # "video" => \A k \in 1 .. n : T[k].groups = <<>>
      BY <1>10, <1>12
    <2> QED BY <1>11, <2>1, <2>2, <2>3, <2>4, <2>5 DEF Described
  <1> QED BY <1>2, <1>13
-----------------------------------------------------------------------------
(* Writing an offer                                                        *)

(* The lines of a track in an offer.                                       *)
SsrcLines(t) == [j \in DOMAIN t.ssrcs |-> [type |-> "ssrc", ssrc |-> t.ssrcs[j], track |-> t.id]]

TrackLines(t) == t.groups \o SsrcLines(t)

(* A line of an SSRC and a line of a group are lines.                      *)
LEMMA LineKinds ==
  /\ GroupLine \subseteq Line
  /\ \A x \in GroupLine : x.type = "group"
  /\ \A a \in Ssrc, b \in STRING : [type |-> "ssrc", ssrc |-> a, track |-> b] \in Line
  /\ \A a \in {"audio", "video"} : [type |-> "m", media |-> a] \in Line
  BY DEF Line, GroupLine, Ssrc

(* A function on 1 .. n is a sequence of that length.                      *)
LEMMA IsText ==
  ASSUME NEW n \in Nat, NEW f \in [1 .. n -> Line]
  PROVE  f \in Seq(Line) /\ Len(f) = n
  OBVIOUS

(* Two texts put together.                                                 *)
LEMMA TextsTogether ==
  ASSUME NEW s1 \in Seq(Line), NEW s2 \in Seq(Line)
  PROVE  /\ s1 \o s2 \in Seq(Line) /\ Len(s1) \in Nat /\ Len(s2) \in Nat
         /\ Len(s1 \o s2) = Len(s1) + Len(s2)
         /\ \A i \in 1 .. Len(s1) : (s1 \o s2)[i] = s1[i]
         /\ \A i \in 1 .. Len(s2) : (s1 \o s2)[Len(s1) + i] = s2[i]
  <1>1. /\ s1 \o s2 \in Seq(Line) /\ Len(s1 \o s2) = Len(s1) + Len(s2)
        /\ \A i \in 1 .. Len(s1) + Len(s2) :
             (s1 \o s2)[i] = IF i <= Len(s1) THEN s1[i] ELSE s2[i - Len(s1)]
    BY ConcatProperties
  <1>2. Len(s1) \in Nat /\ Len(s2) \in Nat
    OBVIOUS
  <1>3. \A i \in 1 .. Len(s1) : i \in 1 .. Len(s1) + Len(s2) /\ i <= Len(s1)
    BY <1>2
  <1>4. ASSUME NEW i \in 1 .. Len(s2)
        PROVE  /\ Len(s1) + i \in 1 .. Len(s1) + Len(s2) /\ ~(Len(s1) + i <= Len(s1))
               /\ (Len(s1) + i) - Len(s1) = i
    BY <1>2
  <1>5. \A i \in 1 .. Len(s1) : (s1 \o s2)[i] = s1[i]
    BY <1>1, <1>3
  <1>6. \A i \in 1 .. Len(s2) : (s1 \o s2)[Len(s1) + i] = s2[i]
    BY <1>1, <1>4
  <1> QED BY <1>1, <1>2, <1>5, <1>6

(* The lines of a described track: its groups, then its SSRCs.             *)
LEMMA TrackLinesAre ==
  ASSUME NEW T, NEW m, Described(T, m), NEW k \in 1 .. Len(T)
  PROVE  LET B == TrackLines(T[k])
             c == Len(T[k].groups)
             n == Len(T[k].ssrcs)
         IN  /\ c \in Nat /\ n \in Nat
             /\ B \in Seq(Line) /\ Len(B) = c + n
             /\ \A j \in 1 .. c : B[j] = T[k].groups[j]
             /\ \A j \in 1 .. n : B[c + j] = [type |-> "ssrc", ssrc |-> T[k].ssrcs[j], track |-> T[k].id]
  <1> DEFINE c == Len(T[k].groups)
             n == Len(T[k].ssrcs)
             L == SsrcLines(T[k])
             G == T[k].groups
  <1>1. /\ c \in Nat /\ n \in Nat /\ G \in [1 .. c -> GroupLine] /\ G \in Seq(GroupLine)
        /\ T[k].ssrcs \in [1 .. n -> Ssrc] /\ T[k].id \in STRING
    BY TrackFields
  <1>2. L \in [1 .. n -> Line] /\ \A j \in 1 .. n : L[j] = [type |-> "ssrc", ssrc |-> T[k].ssrcs[j], track |-> T[k].id]
    <2>1. L = [j \in 1 .. n |-> [type |-> "ssrc", ssrc |-> T[k].ssrcs[j], track |-> T[k].id]]
      BY <1>1 DEF SsrcLines
    <2>2. \A j \in 1 .. n : [type |-> "ssrc", ssrc |-> T[k].ssrcs[j], track |-> T[k].id] \in Line
      BY <1>1, LineKinds
    <2> QED BY <2>1, <2>2
  <1>3. G \in [1 .. c -> Line]
    BY <1>1, LineKinds
  <1>4. TrackLines(T[k]) = G \o L
    BY DEF TrackLines
  <1> HIDE DEF L, G, c, n
  <1>5. L \in Seq(Line) /\ Len(L) = n
    BY ONLY <1>1, <1>2, IsText
  <1>6. G \in Seq(Line) /\ Len(G) = c
    BY ONLY <1>1, <1>3, IsText
  <1>7. /\ G \o L \in Seq(Line) /\ Len(G \o L) = c + n
        /\ \A j \in 1 .. c : (G \o L)[j] = G[j]
        /\ \A j \in 1 .. n : (G \o L)[c + j] = L[j]
    BY <1>5, <1>6, TextsTogether
  <1>8. \A j \in 1 .. n : (G \o L)[c + j] = [type |-> "ssrc", ssrc |-> T[k].ssrcs[j], track |-> T[k].id]
    BY <1>2, <1>7
  <1> QED BY <1>1, <1>4, <1>7, <1>8 DEF c, n, G

(* F has the lines of the first n tracks of T, and nothing else, with the  *)
(* SSRCs at p and the groups at g.                                         *)
Laid(F, T, n, p, g) ==
  /\ F \in Seq(Line)
  /\ \A k \in 1 .. n : p[k] \in [1 .. Len(T[k].ssrcs) -> 1 .. Len(F)]
  /\ \A k \in 1 .. n : g[k] \in [1 .. Len(T[k].groups) -> 1 .. Len(F)]
  /\ \A k \in 1 .. n : \A j \in 1 .. Len(T[k].ssrcs) :
       F[p[k][j]] = [type |-> "ssrc", ssrc |-> T[k].ssrcs[j], track |-> T[k].id]
  /\ \A k \in 1 .. n : \A j \in 1 .. Len(T[k].groups) : F[g[k][j]] = T[k].groups[j]
  /\ \A k, l \in 1 .. n : \A i \in 1 .. Len(T[k].ssrcs) : \A j \in 1 .. Len(T[l].ssrcs) :
       k < l \/ (k = l /\ i < j) => p[k][i] < p[l][j]
  /\ \A k \in 1 .. n : \A i, j \in 1 .. Len(T[k].groups) : i < j => g[k][i] < g[k][j]
  /\ \A i \in 1 .. Len(F) : \/ \E k \in 1 .. n : \E j \in 1 .. Len(T[k].ssrcs) : i = p[k][j]
                            \/ \E k \in 1 .. n : \E j \in 1 .. Len(T[k].groups) : i = g[k][j]

(* The lines of one more track.                                            *)
LEMMA LaidNext ==
  ASSUME NEW T, NEW m, Described(T, m), NEW n \in Nat, n + 1 \in 1 .. Len(T),
         NEW F, NEW p, NEW g, Laid(F, T, n, p, g)
  PROVE  \E p1, g1 : Laid(F \o TrackLines(T[n + 1]), T, n + 1, p1, g1)
  <1> DEFINE r == n + 1
             B == TrackLines(T[r])
             a == Len(F)
             c == Len(T[r].groups)
             b == Len(T[r].ssrcs)
             F1 == F \o B
             p1 == [k \in 1 .. r |-> IF k = r THEN [j \in 1 .. b |-> a + c + j] ELSE p[k]]
             g1 == [k \in 1 .. r |-> IF k = r THEN [j \in 1 .. c |-> a + j] ELSE g[k]]
  <1>1. /\ c \in Nat /\ b \in Nat /\ B \in Seq(Line) /\ Len(B) = c + b
        /\ \A j \in 1 .. c : B[j] = T[r].groups[j]
        /\ \A j \in 1 .. b : B[c + j] = [type |-> "ssrc", ssrc |-> T[r].ssrcs[j], track |-> T[r].id]
    <2>1. r \in 1 .. Len(T) /\ Described(T, m)
      OBVIOUS
    <2> HIDE DEF r
    <2> QED BY ONLY <2>1, TrackLinesAre, ZenonT(30) DEF B, c, b
  <1>2. F \in Seq(Line) /\ a \in Nat
    BY DEF Laid
  <1> HIDE DEF B, c, b
  <1>3. /\ F1 \in Seq(Line) /\ Len(F1) = a + c + b
        /\ \A i \in 1 .. a : F1[i] = F[i]
        /\ \A i \in 1 .. c + b : F1[a + i] = B[i]
    <2>1. /\ F1 \in Seq(Line) /\ Len(F1) = Len(F) + Len(B)
          /\ \A i \in 1 .. Len(F) : F1[i] = F[i]
          /\ \A i \in 1 .. Len(B) : F1[Len(F) + i] = B[i]
      BY <1>1, <1>2, TextsTogether
    <2> HIDE DEF F1
    <2> QED BY <1>1, <1>2, <2>1
  <1> HIDE DEF F1, a
  <1>4. \A j \in 1 .. c : F1[a + j] = T[r].groups[j]
    <2> SUFFICES ASSUME NEW j \in 1 .. c PROVE F1[a + j] = T[r].groups[j]
      OBVIOUS
    <2>1. j \in 1 .. c + b
      BY <1>1
    <2> QED BY <1>1, <1>3, <2>1
  <1>5. \A j \in 1 .. b : F1[a + c + j] = [type |-> "ssrc", ssrc |-> T[r].ssrcs[j], track |-> T[r].id]
    <2> SUFFICES ASSUME NEW j \in 1 .. b
                 PROVE  F1[a + c + j] = [type |-> "ssrc", ssrc |-> T[r].ssrcs[j], track |-> T[r].id]
      OBVIOUS
    <2>1. c + j \in 1 .. c + b /\ a + (c + j) = a + c + j
      BY <1>1, <1>2
    <2>2. F1[a + c + j] = B[c + j]
      BY <1>3, <2>1
    <2> QED BY <1>1, <2>2
  <1>6. /\ \A k \in 1 .. n : k \in 1 .. r /\ k # r /\ p1[k] = p[k] /\ g1[k] = g[k]
        /\ r \in 1 .. r /\ DOMAIN p1[r] = 1 .. b /\ DOMAIN g1[r] = 1 .. c
        /\ \A j \in 1 .. b : p1[r][j] = a + c + j
        /\ \A j \in 1 .. c : g1[r][j] = a + j
        /\ p1[r] = [j \in 1 .. b |-> a + c + j] /\ g1[r] = [j \in 1 .. c |-> a + j]
    OBVIOUS
  <1>7. \A k \in 1 .. r : k \in 1 .. n \/ k = r
    OBVIOUS
  <1> HIDE DEF p1, g1
  <1>8. \A k \in 1 .. n : /\ p[k] \in [1 .. Len(T[k].ssrcs) -> 1 .. a] /\ g[k] \in [1 .. Len(T[k].groups) -> 1 .. a]
                          /\ \A j \in 1 .. Len(T[k].ssrcs) : p[k][j] \in 1 .. a
                          /\ \A j \in 1 .. Len(T[k].groups) : g[k][j] \in 1 .. a
    BY DEF Laid, a
  <1>9. 1 .. a \subseteq 1 .. Len(F1)
    BY <1>1, <1>2, <1>3
  <1>10. \A k \in 1 .. r : p1[k] \in [1 .. Len(T[k].ssrcs) -> 1 .. Len(F1)]
    <2> SUFFICES ASSUME NEW k \in 1 .. r PROVE p1[k] \in [1 .. Len(T[k].ssrcs) -> 1 .. Len(F1)]
      OBVIOUS
    <2>1. CASE k = r
      <3>1. \A j \in 1 .. b : a + c + j \in 1 .. Len(F1)
        BY <1>1, <1>2, <1>3
      <3>2. p1[k] \in [1 .. b -> 1 .. Len(F1)]
        BY <1>6, <2>1, <3>1
      <3> QED BY <2>1, <3>2 DEF b
    <2>2. CASE k \in 1 .. n
      BY <1>6, <1>8, <1>9, <2>2
    <2> QED BY <1>7, <2>1, <2>2
  <1>11. \A k \in 1 .. r : g1[k] \in [1 .. Len(T[k].groups) -> 1 .. Len(F1)]
    <2> SUFFICES ASSUME NEW k \in 1 .. r PROVE g1[k] \in [1 .. Len(T[k].groups) -> 1 .. Len(F1)]
      OBVIOUS
    <2>1. CASE k = r
      <3>1. \A j \in 1 .. c : a + j \in 1 .. Len(F1)
        BY <1>1, <1>2, <1>3
      <3>2. g1[k] \in [1 .. c -> 1 .. Len(F1)]
        BY <1>6, <2>1, <3>1
      <3> QED BY <2>1, <3>2 DEF c
    <2>2. CASE k \in 1 .. n
      BY <1>6, <1>8, <1>9, <2>2
    <2> QED BY <1>7, <2>1, <2>2
  <1>12. ASSUME NEW k \in 1 .. r, NEW j \in 1 .. Len(T[k].ssrcs)
         PROVE  F1[p1[k][j]] = [type |-> "ssrc", ssrc |-> T[k].ssrcs[j], track |-> T[k].id]
    <2>1. CASE k = r
      <3>1. j \in 1 .. b
        BY <2>1 DEF b
      <3> QED BY <1>5, <1>6, <2>1, <3>1
    <2>2. CASE k \in 1 .. n
      <3>1. F[p[k][j]] = [type |-> "ssrc", ssrc |-> T[k].ssrcs[j], track |-> T[k].id]
        BY <2>2 DEF Laid
      <3> QED BY <1>3, <1>6, <1>8, <2>2, <3>1
    <2> QED BY <1>7, <2>1, <2>2
  <1>13. ASSUME NEW k \in 1 .. r, NEW j \in 1 .. Len(T[k].groups)
         PROVE  F1[g1[k][j]] = T[k].groups[j]
    <2>1. CASE k = r
      <3>1. j \in 1 .. c
        BY <2>1 DEF c
      <3> QED BY <1>4, <1>6, <2>1, <3>1
    <2>2. CASE k \in 1 .. n
      <3>1. F[g[k][j]] = T[k].groups[j]
        BY <2>2 DEF Laid
      <3> QED BY <1>3, <1>6, <1>8, <2>2, <3>1
    <2> QED BY <1>7, <2>1, <2>2
  <1>14. ASSUME NEW k \in 1 .. r, NEW l \in 1 .. r, NEW i \in 1 .. Len(T[k].ssrcs),
                NEW j \in 1 .. Len(T[l].ssrcs), k < l \/ (k = l /\ i < j)
         PROVE  p1[k][i] < p1[l][j]
    <2>1. CASE l = r /\ k = r
      <3>1. i \in 1 .. b /\ j \in 1 .. b /\ i < j
        BY <1>14, <2>1 DEF b
      <3>2. p1[k][i] = a + c + i /\ p1[l][j] = a + c + j
        BY <1>6, <2>1, <3>1
      <3>3. a + c + i < a + c + j
        BY <1>1, <1>2, <3>1
      <3> QED BY <3>2, <3>3
    <2>2. CASE l = r /\ k \in 1 .. n
      <3>1. j \in 1 .. b
        BY <2>2 DEF b
      <3>2. p1[k][i] \in 1 .. a
        BY <1>6, <1>8, <2>2
      <3>3. p1[l][j] = a + c + j
        BY <1>6, <2>2, <3>1
      <3> DEFINE x == p1[k][i]
      <3>4. x \in 1 .. a
        BY <3>2
      <3> HIDE DEF x
      <3>5. x < a + c + j
        BY <1>1, <1>2, <3>1, <3>4
      <3> QED BY <3>3, <3>5 DEF x
    <2>3. CASE l \in 1 .. n
      <3>1. k \in 1 .. n
        BY <1>7, <1>14, <2>3
      <3>2. p[k][i] < p[l][j]
        BY <1>14, <2>3, <3>1 DEF Laid
      <3> QED BY <1>6, <2>3, <3>1, <3>2
    <2> QED BY <1>7, <2>1, <2>2, <2>3
  <1>15. ASSUME NEW k \in 1 .. r, NEW i \in 1 .. Len(T[k].groups), NEW j \in 1 .. Len(T[k].groups), i < j
         PROVE  g1[k][i] < g1[k][j]
    <2>1. CASE k = r
      <3>1. i \in 1 .. c /\ j \in 1 .. c
        BY <2>1 DEF c
      <3>2. g1[k][i] = a + i /\ g1[k][j] = a + j
        BY <1>6, <2>1, <3>1
      <3>3. a + i < a + j
        BY <1>2, <1>15, <3>1
      <3> QED BY <3>2, <3>3
    <2>2. CASE k \in 1 .. n
      <3>1. g[k][i] < g[k][j]
        BY <1>15, <2>2 DEF Laid
      <3> QED BY <1>6, <2>2, <3>1
    <2> QED BY <1>7, <2>1, <2>2
  <1>16. ASSUME NEW i \in 1 .. Len(F1)
         PROVE  \/ \E k \in 1 .. r : \E j \in 1 .. Len(T[k].ssrcs) : i = p1[k][j]
                \/ \E k \in 1 .. r : \E j \in 1 .. Len(T[k].groups) : i = g1[k][j]
    <2>1. CASE i \in 1 .. a
      <3>1. \/ \E k \in 1 .. n : \E j \in 1 .. Len(T[k].ssrcs) : i = p[k][j]
            \/ \E k \in 1 .. n : \E j \in 1 .. Len(T[k].groups) : i = g[k][j]
        BY <2>1 DEF Laid, a
      <3> QED BY <1>6, <3>1
    <2>2. CASE i \in a + 1 .. a + c
      <3>1. i - a \in 1 .. c /\ i = a + (i - a)
        BY <1>1, <1>2, <2>2
      <3>2. i - a \in 1 .. Len(T[r].groups) /\ i = g1[r][i - a]
        BY <1>6, <3>1 DEF c
      <3> QED BY <1>6, <3>2
    <2>3. CASE i \in a + c + 1 .. a + c + b
      <3>1. i - (a + c) \in 1 .. b /\ i = a + c + (i - (a + c))
        BY <1>1, <1>2, <2>3
      <3>2. i - (a + c) \in 1 .. Len(T[r].ssrcs) /\ i = p1[r][i - (a + c)]
        BY <1>6, <3>1 DEF b
      <3> QED BY <1>6, <3>2
    <2> QED BY <1>1, <1>2, <1>3, <2>1, <2>2, <2>3
  <1>17. Laid(F1, T, r, p1, g1)
    BY <1>3, <1>10, <1>11, <1>12, <1>13, <1>14, <1>15, <1>16 DEF Laid
  <1> QED BY <1>17 DEF F1, B
(* f[i] is the first i sequences of B put together.                        *)
Joined(f, B, n) == f = [i \in 1 .. n |-> IF i = 1 THEN B[i] ELSE f[i - 1] \o B[i]]

(* There is such an f for any number of sequences.                         *)
LEMMA JoinedExists ==
  ASSUME NEW B, NEW n \in Nat
  PROVE  \E f : Joined(f, B, n)
  <1> DEFINE Bad == {k \in Nat : ~\E f : Joined(f, B, k)}
  <1> SUFFICES ASSUME Bad # {} PROVE FALSE
    OBVIOUS
  <1>1. PICK k \in Bad : \A j \in Bad : k <= j
    <2>1. Bad \in SUBSET Nat
      OBVIOUS
    <2> HIDE DEF Bad
    <2> QED BY <2>1, LeastNat
  <1>2. k \in Nat /\ ~\E f : Joined(f, B, k)
    OBVIOUS
  <1>3. CASE k = 0
    <2> DEFINE f == [i \in 1 .. 0 |-> 0]
    <2>1. \A i \in 1 .. 0 : FALSE
      OBVIOUS
    <2>2. f = [i \in 1 .. 0 |-> IF i = 1 THEN B[i] ELSE f[i - 1] \o B[i]]
      BY <2>1
    <2> HIDE DEF f
    <2>3. Joined(f, B, k)
      BY <1>3, <2>2 DEF Joined
    <2> QED BY <1>2, <2>3
  <1>4. CASE k > 0
    <2>1. k - 1 \in Nat /\ ~(k <= k - 1)
      BY <1>2, <1>4
    <2>2. PICK g : Joined(g, B, k - 1)
      BY <1>1, <2>1
    <2> DEFINE f == [i \in 1 .. k |-> IF i = k THEN IF k = 1 THEN B[k] ELSE g[k - 1] \o B[k] ELSE g[i]]
               h == [i \in 1 .. k |-> IF i = 1 THEN B[i] ELSE f[i - 1] \o B[i]]
    <2>3. \A i \in 1 .. k - 1 : g[i] = IF i = 1 THEN B[i] ELSE g[i - 1] \o B[i]
      BY <2>2 DEF Joined
    <2>4. \A i \in 1 .. k - 1 : i \in 1 .. k /\ i # k /\ f[i] = g[i]
      BY <1>2
    <2>5. ASSUME NEW i \in 1 .. k PROVE f[i] = h[i]
      <3>1. CASE i = k /\ k = 1
        BY <3>1
      <3>2. CASE i = k /\ k # 1
        <4>1. k - 1 \in 1 .. k - 1
          BY <1>2, <1>4, <3>2
        <4>2. f[k - 1] = g[k - 1]
          BY <2>4, <4>1
        <4>3. f[i] = g[k - 1] \o B[k]
          BY <3>2
        <4>4. h[i] = f[k - 1] \o B[k]
          BY <3>2
        <4> QED BY <4>2, <4>3, <4>4
      <3>3. CASE i # k /\ i = 1
        <4>1. i \in 1 .. k - 1
          BY <1>2, <3>3
        <4>2. f[i] = g[i] /\ g[i] = B[i]
          BY <2>3, <2>4, <3>3, <4>1
        <4>3. h[i] = B[i]
          BY <3>3
        <4> QED BY <4>2, <4>3
      <3>4. CASE i # k /\ i # 1
        <4>1. i \in 1 .. k - 1 /\ i - 1 \in 1 .. k - 1
          BY <1>2, <3>4
        <4>2. f[i] = g[i] /\ f[i - 1] = g[i - 1]
          BY <2>4, <4>1
        <4>3. h[i] = f[i - 1] \o B[i]
          BY <3>4
        <4>4. g[i] = g[i - 1] \o B[i]
          BY <2>3, <3>4, <4>1
        <4> QED BY <4>2, <4>3, <4>4
      <3> QED BY <3>1, <3>2, <3>3, <3>4
    <2>6. f = h
      BY <2>5
    <2>7. Joined(f, B, k)
      BY <2>6 DEF Joined
    <2> QED BY <1>2, <2>7
  <1> QED BY <1>2, <1>3, <1>4

(* BuildSsrc writes the lines of all tracks, track by track.               *)
LEMMA BuildSsrcLays ==
  ASSUME NEW T, NEW m, Described(T, m)
  PROVE  \E p, g : Laid(BuildSsrc(T), T, Len(T), p, g)
  <1> DEFINE N == Len(T)
             B == [k \in DOMAIN T |-> TrackLines(T[k])]
             f == CHOOSE h : Joined(h, B, N)
  <1>1. N \in Nat /\ DOMAIN T = 1 .. N
    BY DEF Described
  <1>2. B = [k \in 1 .. N |-> TrackLines(T[k])]
    BY <1>1
  <1>3. ASSUME NEW k \in 1 .. N PROVE TrackLines(T[k]) \in Seq(Line)
    BY TrackLinesAre
  <1>4. Len(B) = N
    <2>1. B \in [1 .. N -> Seq(Line)]
      BY <1>2, <1>3
    <2> HIDE DEF B, N
    <2> QED BY <1>1, <2>1
  <1>5. BuildSsrc(T) = FlattenSeq(B)
    BY DEF BuildSsrc, TrackLines, SsrcLines
  <1>6. \A k \in 1 .. N : B[k] = TrackLines(T[k])
    BY <1>2
  <1> HIDE DEF B
  <1>7. FlattenSeq(B) = IF N = 0 THEN B ELSE f[N]
    BY <1>4 DEF FlattenSeq, Joined
  <1>8. \E h : Joined(h, B, N)
    BY <1>1, JoinedExists
  <1>9. Joined(f, B, N)
    BY <1>8
  <1> HIDE DEF f, N
  <1>10. \A i \in 1 .. N : f[i] = IF i = 1 THEN B[i] ELSE f[i - 1] \o B[i]
    BY <1>9 DEF Joined
  <1>11. Laid(<<>>, T, 0, <<>>, <<>>)
    <2>1. \A i \in 1 .. 0 : FALSE
      OBVIOUS
    <2> QED BY <2>1 DEF Laid
  <1>12. CASE N = 0
    <2>1. B = <<>>
      BY <1>2, <1>12
    <2> QED BY <1>5, <1>7, <1>11, <1>12, <2>1 DEF N
  <1>13. CASE N # 0
    <2> DEFINE Bad == {k \in 1 .. N : ~\E p, g : Laid(f[k], T, k, p, g)}
    <2>1. Bad = {}
      <3> SUFFICES ASSUME Bad # {} PROVE FALSE
        OBVIOUS
      <3>1. PICK k \in Bad : \A j \in Bad : k <= j
        <4>1. Bad \in SUBSET Nat
          OBVIOUS
        <4> HIDE DEF Bad
        <4> QED BY <4>1, LeastNat
      <3>2. k \in 1 .. N /\ ~\E p, g : Laid(f[k], T, k, p, g)
        OBVIOUS
      <3>3. CASE k = 1
        <4>1. \E p, g : Laid(<<>> \o TrackLines(T[0 + 1]), T, 0 + 1, p, g)
          <5>1. 0 + 1 \in 1 .. Len(T) /\ 0 \in Nat
            BY <1>1, <1>13 DEF N
          <5> QED BY <1>11, <5>1, LaidNext
        <4>2. <<>> \o TrackLines(T[1]) = TrackLines(T[1])
          BY <1>3, <3>2, <3>3
        <4>3. f[1] = TrackLines(T[1])
          BY <1>6, <1>10, <3>2, <3>3
        <4> QED BY <3>2, <3>3, <4>1, <4>2, <4>3
      <3>4. CASE k # 1
        <4>1. k - 1 \in 1 .. N /\ ~(k <= k - 1) /\ k - 1 \in Nat /\ (k - 1) + 1 = k
          BY <1>1, <3>2, <3>4
        <4>2. \E p, g : Laid(f[k - 1], T, k - 1, p, g)
          BY <3>1, <4>1
        <4>3. PICK p, g : Laid(f[k - 1], T, k - 1, p, g)
          BY <4>2
        <4>4. \E p1, g1 : Laid(f[k - 1] \o TrackLines(T[(k - 1) + 1]), T, (k - 1) + 1, p1, g1)
          <5>1. (k - 1) + 1 \in 1 .. Len(T)
            BY <3>2, <4>1 DEF N
          <5> QED BY <4>1, <4>3, <5>1, LaidNext
        <4>5. f[k] = f[k - 1] \o TrackLines(T[k])
          BY <1>6, <1>10, <3>2, <3>4
        <4> QED BY <3>2, <4>1, <4>4, <4>5
      <3> QED BY <3>3, <3>4
    <2>2. N \in 1 .. N
      BY <1>1, <1>13
    <2>3. \E p, g : Laid(f[N], T, N, p, g)
      BY <2>1, <2>2
    <2> QED BY <1>5, <1>7, <1>13, <2>3 DEF N
  <1> QED BY <1>12, <1>13
(* A line is in the section that the last m line before it opens.          *)
LEMMA SectionIs ==
  ASSUME NEW text \in Seq(Line), NEW i \in 1 .. Len(text), NEW h \in 1 .. i,
         text[h].type = "m", \A j \in h + 1 .. i : text[j].type # "m"
  PROVE  Section(text, i) = text[h].media
  <1> DEFINE ms == {j \in 1 .. i : text[j].type = "m"}
  <1>1. i \in Nat /\ h \in ms /\ ms \in SUBSET (1 .. i)
    OBVIOUS
  <1>2. Section(text, i) = IF ms = {} THEN "none" ELSE text[Max(ms)].media
    BY DEF Section
  <1>3. ASSUME NEW j \in ms PROVE j <= h
    <2>1. j \in 1 .. i /\ text[j].type = "m"
      OBVIOUS
    <2>2. ~(j \in h + 1 .. i)
      BY <2>1
    <2> QED BY <2>1, <2>2
  <1> HIDE DEF ms
  <1>4. ms \in SUBSET Nat /\ IsFiniteSet(ms)
    BY <1>1, PlacesFinite
  <1>5. Max(ms) \in ms /\ Max(ms) >= h
    BY <1>1, <1>4, MaxIn
  <1>6. Max(ms) = h
    <2>1. Max(ms) <= h
      BY <1>3, <1>5
    <2>2. Max(ms) \in Nat
      BY <1>4, <1>5
    <2> QED BY <1>5, <2>1, <2>2
  <1> QED BY <1>1, <1>2, <1>6

(* A section with the lines of described tracks is read as those tracks,   *)
(* if no other line is in a section of that name; all its SSRCs are        *)
(* announced.                                                              *)
LEMMA SectionRead ==
  ASSUME NEW text \in Seq(Line), NEW m, NEW T, Described(T, m), NEW F, NEW d \in Nat, d + Len(F) <= Len(text),
         NEW p, NEW g, Laid(F, T, Len(T), p, g),
         \A i \in 1 .. Len(F) : text[d + i] = F[i] /\ Section(text, d + i) = m,
         \A i \in 1 .. Len(text) : text[i].type # "m" /\ Section(text, i) = m => i \in d + 1 .. d + Len(F)
  PROVE  /\ Tracks(text, m) = T
         /\ \A k \in 1 .. Len(T) : \A j \in 1 .. Len(T[k].ssrcs) : T[k].ssrcs[j] \in Announced(text)
  <1> DEFINE p1 == [k \in 1 .. Len(T) |-> [j \in 1 .. Len(T[k].ssrcs) |-> d + p[k][j]]]
             g1 == [k \in 1 .. Len(T) |-> [j \in 1 .. Len(T[k].groups) |-> d + g[k][j]]]
             a == Len(F)
             n == Len(T)
  <1>1. F \in Seq(Line) /\ a \in Nat /\ n \in Nat /\ DOMAIN text = 1 .. Len(text) /\ Len(text) \in Nat
    BY DEF Laid, Described
  <1>2. /\ \A k \in 1 .. n : \A j \in 1 .. Len(T[k].ssrcs) : p1[k][j] = d + p[k][j] /\ p[k][j] \in 1 .. a
        /\ \A k \in 1 .. n : \A j \in 1 .. Len(T[k].groups) : g1[k][j] = d + g[k][j] /\ g[k][j] \in 1 .. a
    BY DEF Laid
  <1>3. \A i \in 1 .. a : d + i \in DOMAIN text
    BY <1>1
  <1>4. \A k \in 1 .. n : p1[k] \in [1 .. Len(T[k].ssrcs) -> DOMAIN text]
    BY <1>2, <1>3
  <1>5. \A k \in 1 .. n : g1[k] \in [1 .. Len(T[k].groups) -> DOMAIN text]
    BY <1>2, <1>3
  <1> HIDE DEF p1, g1
  <1>6. ASSUME NEW k \in 1 .. n, NEW j \in 1 .. Len(T[k].ssrcs)
        PROVE  /\ text[p1[k][j]] = [type |-> "ssrc", ssrc |-> T[k].ssrcs[j], track |-> T[k].id]
               /\ Section(text, p1[k][j]) = m
    <2>1. F[p[k][j]] = [type |-> "ssrc", ssrc |-> T[k].ssrcs[j], track |-> T[k].id]
      BY DEF Laid
    <2>2. text[p1[k][j]] = F[p[k][j]] /\ Section(text, p1[k][j]) = m
      <3> DEFINE i == p[k][j]
      <3>1. i \in 1 .. Len(F) /\ p1[k][j] = d + i
        BY <1>2
      <3> HIDE DEF i
      <3>2. text[d + i] = F[i] /\ Section(text, d + i) = m
        BY <3>1
      <3> QED BY ONLY <3>1, <3>2 DEF i
    <2> QED BY <2>1, <2>2
  <1>7. ASSUME NEW k \in 1 .. n, NEW j \in 1 .. Len(T[k].groups)
        PROVE  text[g1[k][j]] = T[k].groups[j] /\ Section(text, g1[k][j]) = m
    <2>1. F[g[k][j]] = T[k].groups[j]
      BY DEF Laid
    <2>2. text[g1[k][j]] = F[g[k][j]] /\ Section(text, g1[k][j]) = m
      <3> DEFINE i == g[k][j]
      <3>1. i \in 1 .. Len(F) /\ g1[k][j] = d + i
        BY <1>2
      <3> HIDE DEF i
      <3>2. text[d + i] = F[i] /\ Section(text, d + i) = m
        BY <3>1
      <3> QED BY ONLY <3>1, <3>2 DEF i
    <2> QED BY ONLY <2>1, <2>2
  <1>8. PlacedInOrder(T, p1)
    <2> SUFFICES ASSUME NEW k \in 1 .. n, NEW l \in 1 .. n, NEW i \in 1 .. Len(T[k].ssrcs),
                        NEW j \in 1 .. Len(T[l].ssrcs), k < l \/ (k = l /\ i < j)
                 PROVE  p1[k][i] < p1[l][j]
      BY DEF PlacedInOrder
    <2> DEFINE x == p[k][i]
               y == p[l][j]
    <2>1. x < y
      BY DEF Laid
    <2>2. x \in 1 .. a /\ y \in 1 .. a /\ p1[k][i] = d + x /\ p1[l][j] = d + y
      BY <1>2
    <2> HIDE DEF x, y
    <2>3. d + x < d + y
      BY <1>1, <2>1, <2>2
    <2> QED BY <2>2, <2>3
  <1>9. ASSUME NEW k \in 1 .. n, NEW i \in 1 .. Len(T[k].groups), NEW j \in 1 .. Len(T[k].groups), i < j
        PROVE  g1[k][i] < g1[k][j]
    <2> DEFINE x == g[k][i]
               y == g[k][j]
    <2>1. x < y
      BY <1>9 DEF Laid
    <2>2. x \in 1 .. a /\ y \in 1 .. a /\ g1[k][i] = d + x /\ g1[k][j] = d + y
      BY <1>2
    <2> HIDE DEF x, y
    <2>3. d + x < d + y
      BY <1>1, <2>1, <2>2
    <2> QED BY <2>2, <2>3
  <1>10. ASSUME NEW i \in DOMAIN text, text[i].type # "m", Section(text, i) = m
         PROVE  /\ text[i].type = "ssrc" =>
                     \E k \in 1 .. n : \E j \in 1 .. Len(T[k].ssrcs) : i = p1[k][j]
                /\ text[i].type = "group" =>
                     \E k \in 1 .. n : \E j \in 1 .. Len(T[k].groups) : i = g1[k][j]
    <2>1. i - d \in 1 .. a /\ i = d + (i - d)
      BY <1>1, <1>10
    <2>2. CASE \E k \in 1 .. n : \E j \in 1 .. Len(T[k].ssrcs) : i - d = p[k][j]
      <3>1. PICK k \in 1 .. n : \E j \in 1 .. Len(T[k].ssrcs) : i - d = p[k][j]
        BY <2>2
      <3>2. PICK j \in 1 .. Len(T[k].ssrcs) : i - d = p[k][j]
        BY <3>1
      <3>3. i = p1[k][j]
        BY <1>2, <2>1, <3>2
      <3>4. text[i] = [type |-> "ssrc", ssrc |-> T[k].ssrcs[j], track |-> T[k].id]
        BY <1>6, <3>3
      <3>5. text[i].type = "ssrc"
        BY <3>4
      <3> QED BY <3>3, <3>5
    <2>3. CASE \E k \in 1 .. n : \E j \in 1 .. Len(T[k].groups) : i - d = g[k][j]
      <3>1. PICK k \in 1 .. n : \E j \in 1 .. Len(T[k].groups) : i - d = g[k][j]
        BY <2>3
      <3>2. PICK j \in 1 .. Len(T[k].groups) : i - d = g[k][j]
        BY <3>1
      <3>3. i = g1[k][j]
        BY <1>2, <2>1, <3>2
      <3>4. T[k].groups[j] \in GroupLine
        BY TrackFields
      <3>5. text[i].type = "group"
        BY <1>7, <3>3, <3>4, LineKinds
      <3> QED BY <3>3, <3>5
    <2> QED BY <2>1, <2>2, <2>3 DEF Laid
  <1>11. Written(text, m, T, p1, g1)
    <2>1. \A i \in DOMAIN text : text[i].type = "ssrc" /\ Section(text, i) = m =>
            \E k \in 1 .. n : \E j \in 1 .. Len(T[k].ssrcs) : i = p1[k][j]
      BY <1>10
    <2>2. \A i \in DOMAIN text : text[i].type = "group" /\ Section(text, i) = m =>
            \E k \in 1 .. n : \E j \in 1 .. Len(T[k].groups) : i = g1[k][j]
      BY <1>10
    <2> QED BY <1>4, <1>5, <1>6, <1>7, <1>8, <1>9, <2>1, <2>2 DEF Written
  <1>12. Tracks(text, m) = T
    BY <1>11, TracksRead
  <1>13. ASSUME NEW k \in 1 .. n, NEW j \in 1 .. Len(T[k].ssrcs) PROVE T[k].ssrcs[j] \in Announced(text)
    <2> DEFINE x == p1[k][j]
    <2>1. x \in DOMAIN text
      BY <1>4
    <2>2. text[x] = [type |-> "ssrc", ssrc |-> T[k].ssrcs[j], track |-> T[k].id]
      BY <1>6
    <2> HIDE DEF x
    <2>3. text[x].type = "ssrc" /\ text[x].ssrc = T[k].ssrcs[j]
      BY <2>2
    <2> QED BY <2>1, <2>3 DEF Announced
  <1> QED BY <1>12, <1>13

(* A medium whose section is not in a text has no tracks.                  *)
LEMMA NoSectionRead ==
  ASSUME NEW text \in Seq(Line), NEW m, \A i \in 1 .. Len(text) : Section(text, i) # m
  PROVE  Tracks(text, m) = <<>>
  <1>1. Described(<<>>, m)
    <2>1. <<>> \in Seq(Track) /\ \A k \in 1 .. Len(<<>>) : FALSE
      OBVIOUS
    <2> QED BY <2>1 DEF Described
  <1>2. Laid(<<>>, <<>>, Len(<<>>), <<>>, <<>>)
    <2>1. \A i \in 1 .. Len(<<>>) : FALSE
      OBVIOUS
    <2> QED BY <2>1 DEF Laid
  <1> DEFINE e == <<>>
  <1>3. 0 + Len(e) <= Len(text) /\ 0 \in Nat /\ \A i \in 1 .. Len(e) : FALSE
    OBVIOUS
  <1>4. /\ Described(e, m) /\ Laid(e, e, Len(e), e, e)
        /\ \A i \in 1 .. Len(e) : text[0 + i] = e[i] /\ Section(text, 0 + i) = m
        /\ \A i \in 1 .. Len(text) : text[i].type # "m" /\ Section(text, i) = m => i \in 0 + 1 .. 0 + Len(e)
    BY <1>1, <1>2, <1>3
  <1> HIDE DEF e
  <1>5. Tracks(text, m) = e
    BY <1>3, <1>4, SectionRead
  <1> QED BY <1>5 DEF e
(* The lines of tracks open no section.                                    *)
LEMMA LaidInSection ==
  ASSUME NEW T, NEW m, Described(T, m), NEW F, NEW p, NEW g, Laid(F, T, Len(T), p, g), NEW i \in 1 .. Len(F)
  PROVE  F[i].type # "m"
  <1>1. CASE \E k \in 1 .. Len(T) : \E j \in 1 .. Len(T[k].ssrcs) : i = p[k][j]
    <2>1. PICK k \in 1 .. Len(T) : \E j \in 1 .. Len(T[k].ssrcs) : i = p[k][j]
      BY <1>1
    <2>2. PICK j \in 1 .. Len(T[k].ssrcs) : i = p[k][j]
      BY <2>1
    <2>3. F[i] = [type |-> "ssrc", ssrc |-> T[k].ssrcs[j], track |-> T[k].id]
      BY <2>2 DEF Laid
    <2> QED BY <2>3
  <1>2. CASE \E k \in 1 .. Len(T) : \E j \in 1 .. Len(T[k].groups) : i = g[k][j]
    <2>1. PICK k \in 1 .. Len(T) : \E j \in 1 .. Len(T[k].groups) : i = g[k][j]
      BY <1>2
    <2>2. PICK j \in 1 .. Len(T[k].groups) : i = g[k][j]
      BY <2>1
    <2>3. F[i] = T[k].groups[j] /\ T[k].groups[j] \in GroupLine
      BY <2>2, TrackFields DEF Laid
    <2> QED BY <2>3, LineKinds
  <1> QED BY <1>1, <1>2 DEF Laid

(* The section of a medium: the line that opens it, and the tracks.        *)
MediaSection(m, T) == <<[type |-> "m", media |-> m]>> \o BuildSsrc(T)

(* The lines of a section.                                                 *)
LEMMA MediaSectionIs ==
  ASSUME NEW m \in {"audio", "video"}, NEW T, Described(T, m)
  PROVE  LET M == MediaSection(m, T)
             F == BuildSsrc(T)
         IN  /\ M \in Seq(Line) /\ F \in Seq(Line) /\ Len(F) \in Nat /\ Len(M) = 1 + Len(F)
             /\ M[1].type = "m" /\ M[1].media = m
             /\ \A i \in 1 .. Len(F) : M[1 + i] = F[i] /\ F[i].type # "m"
             /\ \E p, g : Laid(F, T, Len(T), p, g)
  <1> DEFINE F == BuildSsrc(T)
             x == [type |-> "m", media |-> m]
             M == <<x>> \o F
  <1>1. PICK p, g : Laid(F, T, Len(T), p, g)
    BY BuildSsrcLays
  <1>2. F \in Seq(Line) /\ Len(F) \in Nat
    BY <1>1 DEF Laid
  <1>3. x \in Line /\ x.type = "m" /\ x.media = m
    BY LineKinds
  <1>4. \A i \in 1 .. Len(F) : F[i].type # "m"
    BY <1>1, LaidInSection
  <1>5. MediaSection(m, T) = M
    BY DEF MediaSection
  <1> HIDE DEF F, x
  <1>6. M \in Seq(Line) /\ Len(M) = 1 + Len(F) /\ M[1] = x /\ \A i \in 1 .. Len(F) : M[1 + i] = F[i]
    BY <1>2, <1>3
  <1> HIDE DEF M
  <1> QED BY <1>1, <1>2, <1>3, <1>4, <1>5, <1>6 DEF F

(* The offer text of described tracks is read as those tracks, and has all *)
(* their SSRCs.                                                            *)
LEMMA OfferRead ==
  ASSUME NEW media \in SUBSET {"audio", "video"}, NEW as, NEW vs, Described(as, "audio"), Described(vs, "video"),
         "audio" \notin media => as = <<>>, "video" \notin media => vs = <<>>
  PROVE  LET text == OfferText(media, as, vs)
         IN  /\ text \in Seq(Line)
             /\ Tracks(text, "audio") = as
             /\ Tracks(text, "video") = vs
             /\ \A k \in 1 .. Len(as) : \A j \in 1 .. Len(as[k].ssrcs) : as[k].ssrcs[j] \in Announced(text)
             /\ \A k \in 1 .. Len(vs) : \A j \in 1 .. Len(vs[k].ssrcs) : vs[k].ssrcs[j] \in Announced(text)
  <1> DEFINE A == IF "audio" \in media THEN MediaSection("audio", as) ELSE <<>>
             V == IF "video" \in media THEN MediaSection("video", vs) ELSE <<>>
             text == A \o V
             FA == BuildSsrc(as)
             FV == BuildSsrc(vs)
             a == Len(A)
             v == Len(V)
  <1>1. OfferText(media, as, vs) = text
    BY DEF OfferText, MediaSection
  <1>2. "audio" \in media =>
          /\ A \in Seq(Line) /\ FA \in Seq(Line) /\ Len(FA) \in Nat /\ a = 1 + Len(FA)
          /\ A[1].type = "m" /\ A[1].media = "audio"
          /\ \A i \in 1 .. Len(FA) : A[1 + i] = FA[i] /\ FA[i].type # "m"
          /\ \E p, g : Laid(FA, as, Len(as), p, g)
    <2> SUFFICES ASSUME "audio" \in media
                 PROVE  /\ A \in Seq(Line) /\ FA \in Seq(Line) /\ Len(FA) \in Nat /\ a = 1 + Len(FA)
                        /\ A[1].type = "m" /\ A[1].media = "audio"
                        /\ \A i \in 1 .. Len(FA) : A[1 + i] = FA[i] /\ FA[i].type # "m"
                        /\ \E p, g : Laid(FA, as, Len(as), p, g)
      OBVIOUS
    <2>1. A = MediaSection("audio", as) /\ Described(as, "audio") /\ "audio" \in {"audio", "video"}
      OBVIOUS
    <2> HIDE DEF A
    <2> QED BY ONLY <2>1, MediaSectionIs, ZenonT(30) DEF FA, a
  <1>3. "video" \in media =>
          /\ V \in Seq(Line) /\ FV \in Seq(Line) /\ Len(FV) \in Nat /\ v = 1 + Len(FV)
          /\ V[1].type = "m" /\ V[1].media = "video"
          /\ \A i \in 1 .. Len(FV) : V[1 + i] = FV[i] /\ FV[i].type # "m"
          /\ \E p, g : Laid(FV, vs, Len(vs), p, g)
    <2> SUFFICES ASSUME "video" \in media
                 PROVE  /\ V \in Seq(Line) /\ FV \in Seq(Line) /\ Len(FV) \in Nat /\ v = 1 + Len(FV)
                        /\ V[1].type = "m" /\ V[1].media = "video"
                        /\ \A i \in 1 .. Len(FV) : V[1 + i] = FV[i] /\ FV[i].type # "m"
                        /\ \E p, g : Laid(FV, vs, Len(vs), p, g)
      OBVIOUS
    <2>1. V = MediaSection("video", vs) /\ Described(vs, "video") /\ "video" \in {"audio", "video"}
      OBVIOUS
    <2> HIDE DEF V
    <2> QED BY ONLY <2>1, MediaSectionIs, ZenonT(30) DEF FV, v
  <1>4. "audio" \notin media => A = <<>>
    OBVIOUS
  <1>5. "video" \notin media => V = <<>>
    OBVIOUS
  <1> HIDE DEF A, V, FA, FV
  <1>6. A \in Seq(Line) /\ V \in Seq(Line) /\ a \in Nat /\ v \in Nat
    <2>1. A \in Seq(Line)
      <3>1. CASE "audio" \in media
        BY <1>2, <3>1
      <3>2. CASE "audio" \notin media
        BY <1>4, <3>2
      <3> QED BY <3>1, <3>2
    <2>2. V \in Seq(Line)
      <3>1. CASE "video" \in media
        BY <1>3, <3>1
      <3>2. CASE "video" \notin media
        BY <1>5, <3>2
      <3> QED BY <3>1, <3>2
    <2> QED BY <2>1, <2>2
  <1>7. /\ text \in Seq(Line) /\ Len(text) = a + v
        /\ \A i \in 1 .. a : text[i] = A[i]
        /\ \A i \in 1 .. v : text[a + i] = V[i]
    BY <1>6
  <1> HIDE DEF text
  <1>8. ("audio" \notin media => a = 0) /\ ("video" \notin media => v = 0)
    BY <1>4, <1>5, EmptySeq DEF a, v
  <1> HIDE DEF a, v
  <1>9. \A i \in 2 .. a : text[i].type # "m"
    <2> SUFFICES ASSUME NEW i \in 2 .. a PROVE text[i].type # "m"
      OBVIOUS
    <2>1. "audio" \in media
      BY <1>6, <1>8
    <2>2. a = 1 + Len(FA) /\ Len(FA) \in Nat
      BY <1>2, <2>1
    <2>3. "audio" \in media /\ i - 1 \in 1 .. Len(FA) /\ 1 + (i - 1) = i /\ i \in 1 .. a
      BY <2>1, <2>2
    <2>4. A[i] = FA[i - 1] /\ FA[i - 1].type # "m"
      BY <1>2, <2>3
    <2> QED BY <1>7, <2>3, <2>4
  <1>10. \A i \in a + 2 .. a + v : text[i].type # "m"
    <2> SUFFICES ASSUME NEW i \in a + 2 .. a + v PROVE text[i].type # "m"
      OBVIOUS
    <2> DEFINE j == i - a
    <2>1. j \in 1 .. v /\ a + j = i /\ j >= 2
      BY <1>6
    <2> HIDE DEF j
    <2>2. "video" \in media
      BY <1>6, <1>8, <2>1
    <2>3. v = 1 + Len(FV) /\ Len(FV) \in Nat
      BY <1>3, <2>2
    <2>4. "video" \in media /\ j - 1 \in 1 .. Len(FV) /\ 1 + (j - 1) = j
      BY <2>1, <2>2, <2>3
    <2>5. V[j] = FV[j - 1] /\ FV[j - 1].type # "m"
      BY <1>3, <2>4
    <2> QED BY <1>7, <2>1, <2>5
  <1>11. ASSUME NEW i \in 1 .. a PROVE Section(text, i) = "audio"
    <2>1. "audio" \in media /\ 1 \in 1 .. a /\ 1 \in 1 .. i /\ i \in 1 .. Len(text)
      BY <1>6, <1>7, <1>8
    <2>2. text[1].type = "m" /\ text[1].media = "audio"
      BY <1>2, <1>7, <2>1
    <2>3. \A j \in 1 + 1 .. i : text[j].type # "m"
      BY <1>6, <1>9
    <2> QED BY <1>7, <2>1, <2>2, <2>3, SectionIs
  <1>12. ASSUME NEW i \in a + 1 .. a + v PROVE Section(text, i) = "video"
    <2>1. "video" \in media /\ 1 \in 1 .. v /\ a + 1 \in 1 .. i /\ i \in 1 .. Len(text)
      BY <1>6, <1>7, <1>8
    <2>2. text[a + 1].type = "m" /\ text[a + 1].media = "video"
      BY <1>3, <1>7, <2>1
    <2>3. \A j \in (a + 1) + 1 .. i : text[j].type # "m"
      BY <1>6, <1>10
    <2> QED BY <1>7, <2>1, <2>2, <2>3, SectionIs
  <1>13. \A i \in 1 .. Len(text) : i \in 1 .. a \/ i \in a + 1 .. a + v
    BY <1>6, <1>7
  <1>14. /\ Tracks(text, "audio") = as
         /\ \A k \in 1 .. Len(as) : \A j \in 1 .. Len(as[k].ssrcs) : as[k].ssrcs[j] \in Announced(text)
    <2>1. CASE "audio" \in media
      <3>1. PICK p, g : Laid(FA, as, Len(as), p, g)
        BY <1>2, <2>1
      <3>2. Len(FA) \in Nat /\ a = 1 + Len(FA) /\ 1 + Len(FA) <= Len(text)
        BY <1>2, <1>6, <1>7, <2>1
      <3>3. \A i \in 1 .. Len(FA) : 1 + i \in 1 .. a
        BY <3>2
      <3>4. \A i \in 1 .. Len(FA) : text[1 + i] = FA[i] /\ Section(text, 1 + i) = "audio"
        BY <1>2, <1>7, <1>11, <2>1, <3>3
      <3>5. \A i \in 1 .. Len(text) : text[i].type # "m" /\ Section(text, i) = "audio" => i \in 1 + 1 .. 1 + Len(FA)
        <4> SUFFICES ASSUME NEW i \in 1 .. Len(text), text[i].type # "m", Section(text, i) = "audio"
                     PROVE  i \in 1 + 1 .. 1 + Len(FA)
          OBVIOUS
        <4>1. i \in 1 .. a
          BY <1>12, <1>13
        <4>2. i # 1
          BY <1>2, <1>7, <2>1, <4>1
        <4> QED BY <1>6, <3>2, <4>1, <4>2
      <3>6. 1 \in Nat /\ Described(as, "audio") /\ text \in Seq(Line)
        BY <1>7
      <3> QED BY ONLY <3>1, <3>2, <3>4, <3>5, <3>6, SectionRead
    <2>2. CASE "audio" \notin media
      <3>1. \A i \in 1 .. Len(text) : Section(text, i) # "audio"
        BY <1>6, <1>8, <1>12, <1>13, <2>2
      <3>2. Tracks(text, "audio") = <<>>
        BY <1>7, <3>1, NoSectionRead
      <3>3. \A k \in 1 .. Len(as) : FALSE
        BY <2>2
      <3> QED BY <2>2, <3>2, <3>3
    <2> QED BY <2>1, <2>2
  <1>15. /\ Tracks(text, "video") = vs
         /\ \A k \in 1 .. Len(vs) : \A j \in 1 .. Len(vs[k].ssrcs) : vs[k].ssrcs[j] \in Announced(text)
    <2>1. CASE "video" \in media
      <3> DEFINE d == a + 1
      <3>1. PICK p, g : Laid(FV, vs, Len(vs), p, g)
        BY <1>3, <2>1
      <3>2. d \in Nat /\ Len(FV) \in Nat /\ v = 1 + Len(FV) /\ d + Len(FV) <= Len(text) /\ d + Len(FV) = a + v
        BY <1>3, <1>6, <1>7, <2>1
      <3>3. \A i \in 1 .. Len(FV) : d + i \in a + 1 .. a + v /\ d + i = a + (1 + i) /\ 1 + i \in 1 .. v
        BY <1>6, <3>2
      <3>4. \A i \in 1 .. Len(FV) : text[d + i] = FV[i] /\ Section(text, d + i) = "video"
        <4> SUFFICES ASSUME NEW i \in 1 .. Len(FV) PROVE text[d + i] = FV[i] /\ Section(text, d + i) = "video"
          OBVIOUS
        <4>1. text[a + (1 + i)] = V[1 + i] /\ V[1 + i] = FV[i]
          BY <1>3, <1>7, <2>1, <3>3
        <4> HIDE DEF d
        <4> QED BY <1>12, <3>3, <4>1
      <3>5. \A i \in 1 .. Len(text) : text[i].type # "m" /\ Section(text, i) = "video" => i \in d + 1 .. d + Len(FV)
        <4> SUFFICES ASSUME NEW i \in 1 .. Len(text), text[i].type # "m", Section(text, i) = "video"
                     PROVE  i \in d + 1 .. d + Len(FV)
          OBVIOUS
        <4>1. i \in a + 1 .. a + v
          BY <1>11, <1>13
        <4>2. i # a + 1
          <5>1. 1 \in 1 .. v /\ V[1].type = "m"
            BY <1>3, <2>1, <3>2
          <5>2. text[a + 1].type = "m"
            BY <1>7, <5>1
          <5> QED BY <5>2
        <4> QED BY <1>6, <3>2, <4>1, <4>2
      <3> HIDE DEF d
      <3>6. Described(vs, "video") /\ text \in Seq(Line)
        BY <1>7
      <3> QED BY ONLY <3>1, <3>2, <3>4, <3>5, <3>6, SectionRead
    <2>2. CASE "video" \notin media
      <3>1. \A i \in 1 .. Len(text) : Section(text, i) # "video"
        BY <1>6, <1>7, <1>8, <1>11, <1>13, <2>2
      <3>2. Tracks(text, "video") = <<>>
        BY <1>7, <3>1, NoSectionRead
      <3>3. \A k \in 1 .. Len(vs) : FALSE
        BY <2>2
      <3> QED BY <2>2, <3>2, <3>3
    <2> QED BY <2>1, <2>2
  <1> QED BY <1>1, <1>7, <1>14, <1>15
-----------------------------------------------------------------------------
(* The invariant                                                           *)

(* The tracks that a push has after some answers: those of the last one,   *)
(* or none when that one was refused.                                      *)
LastTracks(answers, m) ==
  IF answers # <<>> /\ ~Refused(Last(answers)) THEN Tracks(Last(answers), m) ELSE <<>>

(* What a user who asked for these media gets of them.                     *)
Wanted(answers, media, m) == IF m \in media THEN LastTracks(answers, m) ELSE <<>>

Media  == {"audio", "video"}
SrTime == [push : Nat, media : Media \cup {"none"}]

PushStream ==
  [id : Ssrc, remote_desc_ : [audio : Seq(Track), video : Seq(Track)],
   remote_audio_ssrc_ : Nat, remote_video_ssrc_ : Nat, remote_video_rtx_ssrc_ : Nat,
   audio_receive_stream_ : Nat, video_receive_stream_ : [ssrc : Nat, rtx : Nat],
   srs : SUBSET Media, answers : Seq(Answers)]

PullStream ==
  [id : Ssrc, answers : Seq(Answers), media : SUBSET Media, offer : Seq(Line),
   audio_send_stream_ : Nat, video_send_stream_ : [ssrc : Nat, rtx : Nat],
   audioSr : SrTime, videoSr : SrTime, audioCount : Nat, videoCount : Nat]

(* The push stream: its description is that of the last answer, and if     *)
(* that has a track of a medium, the SSRC of that medium is the first one. *)
PushOK(p) ==
  /\ p \in PushStream
  /\ p.remote_desc_ = [audio |-> LastTracks(p.answers, "audio"), video |-> LastTracks(p.answers, "video")]
  /\ p.video_receive_stream_ = [ssrc |-> p.remote_video_ssrc_, rtx |-> p.remote_video_rtx_ssrc_]
  /\ p.remote_desc_.video # <<>> => p.remote_video_ssrc_ = p.remote_desc_.video[1].ssrcs[1]
  /\ p.remote_desc_.audio # <<>> => p.remote_audio_ssrc_ = p.remote_desc_.audio[1].ssrcs[1]

(* A pull stream: its offer and its send streams are those of the answers  *)
(* it was made from, and only a medium that is sent has an SR.             *)
PullOK(t) ==
  /\ t \in PullStream
  /\ t.offer = OfferText(t.media, Wanted(t.answers, t.media, "audio"), Wanted(t.answers, t.media, "video"))
  /\ t.audio_send_stream_ = SendStream(Wanted(t.answers, t.media, "audio")).ssrc
  /\ t.video_send_stream_ = SendStream(Wanted(t.answers, t.media, "video"))
  /\ t.audioSr # NoSr => t.audioSr.media = "audio" /\ t.audio_send_stream_ # 0
  /\ t.videoSr # NoSr => t.videoSr.media = "video" /\ t.video_send_stream_.ssrc # 0

(* After an SR of this push, what a pull stream knows of it is from it.    *)
SrCurrent(p, t) ==
  /\ "audio" \in p.srs /\ t.audioSr # NoSr => t.audioSr.push = p.id
  /\ "video" \in p.srs /\ t.videoSr # NoSr => t.videoSr.push = p.id

StreamsOK ==
  /\ pushes \in Nat
  /\ DOMAIN pull = Uids
  /\ push # NoStream => PushOK(push)
  /\ \A u \in Uids : pull[u] # NoStream => PullOK(pull[u])
  /\ push # NoStream => \A u \in Uids : pull[u] # NoStream => SrCurrent(push, pull[u])

PeerInv == StreamsOK /\ SentIsAnnounced /\ SrFollowsPush

(* No tracks are described tracks.                                         *)
LEMMA NoneDescribed ==
  ASSUME NEW m
  PROVE  Described(<<>>, m)
  <1>1. <<>> \in Seq(Track) /\ \A k \in 1 .. Len(<<>>) : FALSE
    OBVIOUS
  <1> QED BY <1>1 DEF Described

(* The tracks of the last answer are described ones.                       *)
LEMMA LastTracksDescribed ==
  ASSUME NEW answers \in Seq(Answers), NEW m
  PROVE  Described(LastTracks(answers, m), m)
  <1>1. CASE answers # <<>> /\ ~Refused(Last(answers))
    <2>1. Last(answers) \in Answers
      BY <1>1 DEF Last
    <2>2. Last(answers) \in Seq(Line)
      BY <2>1, AnswersAssumption
    <2>3. LastTracks(answers, m) = Tracks(Last(answers), m)
      BY <1>1 DEF LastTracks
    <2> QED BY <2>2, <2>3, TracksDescribed
  <1>2. CASE ~(answers # <<>> /\ ~Refused(Last(answers)))
    <2>1. LastTracks(answers, m) = <<>>
      BY <1>2 DEF LastTracks
    <2> QED BY <2>1, NoneDescribed
  <1> QED BY <1>1, <1>2

(* So are those that a user gets.                                          *)
LEMMA WantedDescribed ==
  ASSUME NEW answers \in Seq(Answers), NEW media, NEW m
  PROVE  Described(Wanted(answers, media, m), m) /\ (m \notin media => Wanted(answers, media, m) = <<>>)
  BY LastTracksDescribed, NoneDescribed DEF Wanted

(* The offer of a pull stream is read as the tracks that the user gets.    *)
LEMMA WantedRead ==
  ASSUME NEW answers \in Seq(Answers), NEW media \in SUBSET Media
  PROVE  LET as == Wanted(answers, media, "audio")
             vs == Wanted(answers, media, "video")
             text == OfferText(media, as, vs)
         IN  /\ text \in Seq(Line)
             /\ Tracks(text, "audio") = as
             /\ Tracks(text, "video") = vs
             /\ \A k \in 1 .. Len(as) : \A j \in 1 .. Len(as[k].ssrcs) : as[k].ssrcs[j] \in Announced(text)
             /\ \A k \in 1 .. Len(vs) : \A j \in 1 .. Len(vs[k].ssrcs) : vs[k].ssrcs[j] \in Announced(text)
  <1> DEFINE as == Wanted(answers, media, "audio")
             vs == Wanted(answers, media, "video")
  <1>1. /\ Described(as, "audio") /\ ("audio" \notin media => as = <<>>)
        /\ Described(vs, "video") /\ ("video" \notin media => vs = <<>>)
    BY WantedDescribed
  <1>2. media \in SUBSET {"audio", "video"}
    BY DEF Media
  <1> HIDE DEF as, vs
  <1>3. LET text == OfferText(media, as, vs)
        IN  /\ text \in Seq(Line)
            /\ Tracks(text, "audio") = as
            /\ Tracks(text, "video") = vs
            /\ \A k \in 1 .. Len(as) : \A j \in 1 .. Len(as[k].ssrcs) : as[k].ssrcs[j] \in Announced(text)
            /\ \A k \in 1 .. Len(vs) : \A j \in 1 .. Len(vs[k].ssrcs) : vs[k].ssrcs[j] \in Announced(text)
    BY <1>1, <1>2, OfferRead
  <1> QED BY <1>3 DEF as, vs

(* The send stream of described tracks has the first SSRC of the last one, *)
(* and the second SSRC of one that has two.                                *)
LEMMA SendStreamIs ==
  ASSUME NEW T, NEW m, Described(T, m)
  PROVE  LET x == SendStream(T)
         IN  /\ x \in [ssrc : Nat, rtx : Nat]
             /\ x.ssrc # 0 => Len(T) \in 1 .. Len(T) /\ 1 \in 1 .. Len(T[Len(T)].ssrcs) /\ x.ssrc = T[Len(T)].ssrcs[1]
             /\ x.ssrc # 0 => T # <<>>
             /\ \/ x.rtx = 0 /\ \A k \in 1 .. Len(T) : Len(T[k].ssrcs) < 2
                \/ \E k \in 1 .. Len(T) : 2 \in 1 .. Len(T[k].ssrcs) /\ x.rtx = T[k].ssrcs[2]
  <1> DEFINE n == Len(T)
             W == {k \in DOMAIN T : Len(T[k].ssrcs) >= 2}
             a == IF T = <<>> THEN 0 ELSE FirstSsrc(T[n])
             b == IF W = {} THEN 0 ELSE T[Max(W)].ssrcs[2]
  <1>1. SendStream(T) = [ssrc |-> a, rtx |-> b]
    BY DEF SendStream
  <1>2. n \in Nat /\ DOMAIN T = 1 .. n /\ (T = <<>> => n = 0) /\ (n = 0 => T = <<>>)
    BY EmptySeq DEF Described
  <1>3. \A k \in 1 .. n : /\ Len(T[k].ssrcs) \in Nat /\ 1 \in 1 .. Len(T[k].ssrcs)
                          /\ T[k].ssrcs \in [1 .. Len(T[k].ssrcs) -> Ssrc] /\ T[k].ssrcs # <<>>
    BY TrackFields DEF Described
  <1>4. T # <<>> => n \in 1 .. n /\ 1 \in 1 .. Len(T[n].ssrcs) /\ a = T[n].ssrcs[1] /\ a \in Nat
    <2> SUFFICES ASSUME T # <<>>
                 PROVE  n \in 1 .. n /\ 1 \in 1 .. Len(T[n].ssrcs) /\ a = T[n].ssrcs[1] /\ a \in Nat
      OBVIOUS
    <2>1. n \in 1 .. n
      BY <1>2
    <2>2. 1 \in 1 .. Len(T[n].ssrcs) /\ T[n].ssrcs # <<>> /\ T[n].ssrcs[1] \in Ssrc
      BY <1>3, <2>1
    <2>3. a = T[n].ssrcs[1]
      BY <2>2 DEF FirstSsrc
    <2> QED BY <2>1, <2>2, <2>3 DEF Ssrc
  <1>5. T = <<>> => a = 0
    OBVIOUS
  <1>6. W = {} => b = 0 /\ \A k \in 1 .. n : Len(T[k].ssrcs) < 2
    <2> SUFFICES ASSUME W = {}, NEW k \in 1 .. n PROVE Len(T[k].ssrcs) < 2
      OBVIOUS
    <2>1. ~(Len(T[k].ssrcs) >= 2) /\ Len(T[k].ssrcs) \in Nat
      BY <1>2, <1>3
    <2> QED BY <2>1
  <1>7. W # {} => \E k \in 1 .. n : 2 \in 1 .. Len(T[k].ssrcs) /\ b = T[k].ssrcs[2] /\ b \in Nat
    <2> SUFFICES ASSUME W # {}
                 PROVE  \E k \in 1 .. n : 2 \in 1 .. Len(T[k].ssrcs) /\ b = T[k].ssrcs[2] /\ b \in Nat
      OBVIOUS
    <2> DEFINE k == Max(W)
    <2>1. W \in SUBSET (1 .. n)
      BY <1>2
    <2>2. k \in W
      <3> HIDE DEF W
      <3> QED BY <1>2, <2>1, PlacesFinite, MaxIn
    <2> HIDE DEF k
    <2>3. k \in 1 .. n /\ Len(T[k].ssrcs) >= 2
      BY <1>2, <2>2
    <2>4. 2 \in 1 .. Len(T[k].ssrcs) /\ T[k].ssrcs[2] \in Ssrc
      BY <1>3, <2>3
    <2>5. b = T[k].ssrcs[2]
      BY DEF k
    <2> HIDE DEF b
    <2> QED BY <2>3, <2>4, <2>5 DEF Ssrc
  <1> HIDE DEF a, b, W
  <1>8. a \in Nat /\ b \in Nat
    BY <1>4, <1>5, <1>6, <1>7
  <1>9. a # 0 => T # <<>>
    BY <1>5
  <1> QED BY <1>1, <1>4, <1>6, <1>7, <1>8, <1>9
(* The SSRCs of the send streams of a pull stream are in its offer.        *)
LEMMA PullAnnounces ==
  ASSUME NEW t, PullOK(t)
  PROVE  /\ t.video_send_stream_.ssrc # 0 => t.video_send_stream_.ssrc \in Announced(t.offer)
         /\ t.audio_send_stream_ # 0 => t.audio_send_stream_ \in Announced(t.offer)
         /\ \/ t.video_send_stream_.rtx \in Announced(t.offer)
            \/ /\ t.video_send_stream_.rtx = 0
               /\ \A x \in Range(Tracks(t.offer, "video")) : Len(x.ssrcs) < 2
  <1> DEFINE as == Wanted(t.answers, t.media, "audio")
             vs == Wanted(t.answers, t.media, "video")
             A == SendStream(as)
             V == SendStream(vs)
  <1>1. t.answers \in Seq(Answers) /\ t.media \in SUBSET Media
    BY DEF PullOK, PullStream
  <1>2. t.offer = OfferText(t.media, as, vs) /\ t.audio_send_stream_ = A.ssrc /\ t.video_send_stream_ = V
    BY DEF PullOK
  <1>3. /\ Tracks(t.offer, "video") = vs
        /\ \A k \in 1 .. Len(as) : \A j \in 1 .. Len(as[k].ssrcs) : as[k].ssrcs[j] \in Announced(t.offer)
        /\ \A k \in 1 .. Len(vs) : \A j \in 1 .. Len(vs[k].ssrcs) : vs[k].ssrcs[j] \in Announced(t.offer)
    BY <1>1, <1>2, WantedRead
  <1>4. Described(as, "audio") /\ Described(vs, "video")
    BY <1>1, WantedDescribed
  <1> HIDE DEF as, vs
  <1>5. A.ssrc # 0 => Len(as) \in 1 .. Len(as) /\ 1 \in 1 .. Len(as[Len(as)].ssrcs) /\ A.ssrc = as[Len(as)].ssrcs[1]
    BY <1>4, SendStreamIs
  <1>6. /\ V.ssrc # 0 => Len(vs) \in 1 .. Len(vs) /\ 1 \in 1 .. Len(vs[Len(vs)].ssrcs) /\ V.ssrc = vs[Len(vs)].ssrcs[1]
        /\ \/ V.rtx = 0 /\ \A k \in 1 .. Len(vs) : Len(vs[k].ssrcs) < 2
           \/ \E k \in 1 .. Len(vs) : 2 \in 1 .. Len(vs[k].ssrcs) /\ V.rtx = vs[k].ssrcs[2]
    BY <1>4, SendStreamIs
  <1> HIDE DEF A, V
  <1>7. A.ssrc # 0 => A.ssrc \in Announced(t.offer)
    BY <1>3, <1>5
  <1>8. V.ssrc # 0 => V.ssrc \in Announced(t.offer)
    BY <1>3, <1>6
  <1>9. CASE V.rtx = 0 /\ \A k \in 1 .. Len(vs) : Len(vs[k].ssrcs) < 2
    <2>1. DOMAIN vs = 1 .. Len(vs)
      BY <1>4 DEF Described
    <2>2. \A x \in Range(Tracks(t.offer, "video")) : Len(x.ssrcs) < 2
      BY <1>3, <1>9, <2>1 DEF Range
    <2> QED BY <1>2, <1>7, <1>8, <1>9, <2>2
  <1>10. CASE \E k \in 1 .. Len(vs) : 2 \in 1 .. Len(vs[k].ssrcs) /\ V.rtx = vs[k].ssrcs[2]
    <2>1. V.rtx \in Announced(t.offer)
      BY <1>3, <1>10
    <2> QED BY <1>2, <1>7, <1>8, <2>1
  <1> QED BY <1>6, <1>9, <1>10

(* A pull stream made from the answers that the push still has announces   *)
(* the SSRCs that the push receives.                                       *)
LEMMA PushAnnounced ==
  ASSUME NEW p, NEW t, PushOK(p), PullOK(t), t.answers = p.answers
  PROVE  /\ t.video_send_stream_.ssrc # 0 => p.remote_video_ssrc_ \in Announced(t.offer)
         /\ t.audio_send_stream_ # 0 => p.remote_audio_ssrc_ \in Announced(t.offer)
  <1> DEFINE as == Wanted(t.answers, t.media, "audio")
             vs == Wanted(t.answers, t.media, "video")
  <1>1. t.answers \in Seq(Answers) /\ t.media \in SUBSET Media
    BY DEF PullOK, PullStream
  <1>2. t.offer = OfferText(t.media, as, vs)
    BY DEF PullOK
  <1>3. /\ \A k \in 1 .. Len(as) : \A j \in 1 .. Len(as[k].ssrcs) : as[k].ssrcs[j] \in Announced(t.offer)
        /\ \A k \in 1 .. Len(vs) : \A j \in 1 .. Len(vs[k].ssrcs) : vs[k].ssrcs[j] \in Announced(t.offer)
    BY <1>1, <1>2, WantedRead
  <1>4. Described(as, "audio") /\ Described(vs, "video")
    BY <1>1, WantedDescribed
  <1>5. as # <<>> => as = p.remote_desc_.audio
    BY DEF Wanted, PushOK
  <1>6. vs # <<>> => vs = p.remote_desc_.video
    BY DEF Wanted, PushOK
  <1>7. t.video_send_stream_.ssrc # 0 => vs # <<>>
    <2>1. t.video_send_stream_ = SendStream(vs)
      BY DEF PullOK
    <2> HIDE DEF vs
    <2> QED BY <1>4, <2>1, SendStreamIs
  <1>8. t.audio_send_stream_ # 0 => as # <<>>
    <2>1. t.audio_send_stream_ = SendStream(as).ssrc
      BY DEF PullOK
    <2> HIDE DEF as
    <2> QED BY <1>4, <2>1, SendStreamIs
  <1> HIDE DEF as, vs
  <1>9. vs # <<>> => 1 \in 1 .. Len(vs) /\ 1 \in 1 .. Len(vs[1].ssrcs)
    <2> SUFFICES ASSUME vs # <<>> PROVE 1 \in 1 .. Len(vs) /\ 1 \in 1 .. Len(vs[1].ssrcs)
      OBVIOUS
    <2>1. vs \in Seq(Track)
      BY <1>4 DEF Described
    <2>2. Len(vs) \in Nat /\ Len(vs) # 0
      BY <2>1, EmptySeq
    <2>3. 1 \in 1 .. Len(vs)
      BY <2>2
    <2> QED BY <1>4, <2>3, TrackFields
  <1>10. as # <<>> => 1 \in 1 .. Len(as) /\ 1 \in 1 .. Len(as[1].ssrcs)
    <2> SUFFICES ASSUME as # <<>> PROVE 1 \in 1 .. Len(as) /\ 1 \in 1 .. Len(as[1].ssrcs)
      OBVIOUS
    <2>1. as \in Seq(Track)
      BY <1>4 DEF Described
    <2>2. Len(as) \in Nat /\ Len(as) # 0
      BY <2>1, EmptySeq
    <2>3. 1 \in 1 .. Len(as)
      BY <2>2
    <2> QED BY <1>4, <2>3, TrackFields
  <1>11. vs # <<>> => p.remote_video_ssrc_ = vs[1].ssrcs[1]
    BY <1>6 DEF PushOK
  <1>12. as # <<>> => p.remote_audio_ssrc_ = as[1].ssrcs[1]
    BY <1>5 DEF PushOK
  <1> QED BY <1>3, <1>7, <1>8, <1>9, <1>10, <1>11, <1>12

(* A new push stream.                                                      *)
LEMMA NewPushOK ==
  ASSUME StreamsOK, CreatePushStream
  PROVE  PushOK(push') /\ push'.srs = {}
  <1> DEFINE p == push'
             none == <<>>
  <1>1. p = [id |-> pushes + 1, remote_desc_ |-> [audio |-> none, video |-> none],
              remote_audio_ssrc_ |-> 0, remote_video_ssrc_ |-> 0,
              remote_video_rtx_ssrc_ |-> 0,
              audio_receive_stream_ |-> 0,
              video_receive_stream_ |-> [ssrc |-> 0, rtx |-> 0],
              srs |-> {}, answers |-> none]
    BY DEF CreatePushStream, NoDesc, NoVideoStream
  <1>2. \A m : LastTracks(none, m) = none
    BY DEF LastTracks
  <1>3. none \in Seq(Track) /\ none \in Seq(Answers)
    OBVIOUS
  <1>4. pushes + 1 \in Ssrc
    BY DEF StreamsOK, Ssrc
  <1> HIDE DEF none, p
  <1>5. p \in PushStream
    BY <1>1, <1>3, <1>4 DEF PushStream
  <1>6. /\ p.answers = none /\ p.remote_desc_ = [audio |-> none, video |-> none] /\ p.srs = {}
        /\ p.video_receive_stream_ = [ssrc |-> 0, rtx |-> 0]
        /\ p.remote_video_ssrc_ = 0 /\ p.remote_video_rtx_ssrc_ = 0
    BY <1>1
  <1>7. p.remote_desc_.audio = <<>> /\ p.remote_desc_.video = <<>>
    BY <1>6 DEF none
  <1>8. PushOK(p)
    BY <1>2, <1>5, <1>6, <1>7 DEF PushOK
  <1> QED BY <1>6, <1>8 DEF p
(* The first SSRC of described tracks is an SSRC.                          *)
LEMMA FirstSsrcIs ==
  ASSUME NEW T, NEW m, Described(T, m), T # <<>>
  PROVE  /\ FirstSsrc(T[1]) = T[1].ssrcs[1] /\ T[1].ssrcs[1] \in Nat /\ T[1].ssrcs[1] # 0
         /\ Len(T[1].ssrcs) >= 2 => T[1].ssrcs[2] \in Nat
  <1>1. T \in Seq(Track)
    BY DEF Described
  <1>2. Len(T) \in Nat /\ Len(T) # 0
    BY <1>1, EmptySeq
  <1>3. 1 \in 1 .. Len(T)
    BY <1>2
  <1>4. /\ 1 \in 1 .. Len(T[1].ssrcs) /\ Len(T[1].ssrcs) \in Nat
        /\ T[1].ssrcs \in [1 .. Len(T[1].ssrcs) -> Ssrc] /\ T[1].ssrcs # <<>>
    BY <1>3, TrackFields DEF Described
  <1>5. T[1].ssrcs[1] \in Ssrc
    BY <1>4
  <1>6. Len(T[1].ssrcs) >= 2 => T[1].ssrcs[2] \in Ssrc
    BY <1>4
  <1> QED BY <1>4, <1>5, <1>6 DEF FirstSsrc, Ssrc

(* CreateVideoReceiveStream takes the first SSRC of the first track.       *)
LEMMA VideoCreated ==
  ASSUME NEW p \in PushStream, NEW video, Described(video, "video"),
         p.video_receive_stream_ = [ssrc |-> p.remote_video_ssrc_, rtx |-> p.remote_video_rtx_ssrc_]
  PROVE  LET q == CreateVideoReceiveStream(p, video)
         IN  /\ q \in PushStream
             /\ q.id = p.id /\ q.srs = p.srs /\ q.answers = p.answers /\ q.remote_desc_ = p.remote_desc_
             /\ q.video_receive_stream_ = [ssrc |-> q.remote_video_ssrc_, rtx |-> q.remote_video_rtx_ssrc_]
             /\ video # <<>> => q.remote_video_ssrc_ = video[1].ssrcs[1]
  <1> DEFINE q == CreateVideoReceiveStream(p, video)
  <1>1. CASE video = <<>>
    <2>1. q = p
      BY <1>1 DEF CreateVideoReceiveStream
    <2> HIDE DEF q
    <2> QED BY <1>1, <2>1 DEF q
  <1>2. CASE video # <<>>
    <2> DEFINE x == video[1].ssrcs[1]
               r == IF Len(video[1].ssrcs) >= 2 THEN video[1].ssrcs[2] ELSE p.remote_video_rtx_ssrc_
               w == [ssrc |-> x, rtx |-> r]
    <2>1. FirstSsrc(video[1]) = x /\ x \in Nat /\ x # 0
      BY <1>2, FirstSsrcIs
    <2>2. r \in Nat
      BY <1>2, FirstSsrcIs DEF PushStream
    <2>3. q = [p EXCEPT !.remote_video_ssrc_ = x, !.remote_video_rtx_ssrc_ = r, !.video_receive_stream_ = w]
      BY <1>2, <2>1 DEF CreateVideoReceiveStream, VideoReceiveStream
    <2> HIDE DEF x, r, q
    <2>4. w \in [ssrc : Nat, rtx : Nat]
      BY <2>1, <2>2
    <2> HIDE DEF w
    <2>5. q \in PushStream
      BY <2>1, <2>2, <2>3, <2>4 DEF PushStream
    <2>6. /\ q.id = p.id /\ q.srs = p.srs /\ q.answers = p.answers /\ q.remote_desc_ = p.remote_desc_
          /\ q.video_receive_stream_ = w /\ q.remote_video_ssrc_ = x /\ q.remote_video_rtx_ssrc_ = r
      BY <2>3 DEF PushStream
    <2>7. q.video_receive_stream_ = [ssrc |-> q.remote_video_ssrc_, rtx |-> q.remote_video_rtx_ssrc_]
      BY <2>6 DEF w
    <2>8. q.remote_video_ssrc_ = video[1].ssrcs[1]
      BY <2>6 DEF x
    <2> QED BY <2>5, <2>6, <2>7, <2>8 DEF q
  <1> QED BY <1>1, <1>2

(* So does CreateAudioReceiveStream, which leaves video alone.             *)
LEMMA AudioCreated ==
  ASSUME NEW p \in PushStream, NEW audio, Described(audio, "audio")
  PROVE  LET q == CreateAudioReceiveStream(p, audio)
         IN  /\ q \in PushStream
             /\ q.id = p.id /\ q.srs = p.srs /\ q.answers = p.answers /\ q.remote_desc_ = p.remote_desc_
             /\ q.video_receive_stream_ = p.video_receive_stream_
             /\ q.remote_video_ssrc_ = p.remote_video_ssrc_ /\ q.remote_video_rtx_ssrc_ = p.remote_video_rtx_ssrc_
             /\ audio # <<>> => q.remote_audio_ssrc_ = audio[1].ssrcs[1]
  <1> DEFINE q == CreateAudioReceiveStream(p, audio)
  <1>1. CASE audio = <<>>
    <2>1. q = p
      BY <1>1 DEF CreateAudioReceiveStream
    <2> HIDE DEF q
    <2> QED BY <1>1, <2>1 DEF q
  <1>2. CASE audio # <<>>
    <2> DEFINE x == audio[1].ssrcs[1]
    <2>1. FirstSsrc(audio[1]) = x /\ x \in Nat /\ x # 0
      BY <1>2, FirstSsrcIs
    <2>2. q = [p EXCEPT !.remote_audio_ssrc_ = x, !.audio_receive_stream_ = x]
      BY <1>2, <2>1 DEF CreateAudioReceiveStream
    <2> HIDE DEF x, q
    <2>3. q \in PushStream
      BY <2>1, <2>2 DEF PushStream
    <2>4. /\ q.id = p.id /\ q.srs = p.srs /\ q.answers = p.answers /\ q.remote_desc_ = p.remote_desc_
          /\ q.video_receive_stream_ = p.video_receive_stream_ /\ q.remote_video_ssrc_ = p.remote_video_ssrc_
          /\ q.remote_video_rtx_ssrc_ = p.remote_video_rtx_ssrc_ /\ q.remote_audio_ssrc_ = x
      BY <2>2 DEF PushStream
    <2> QED BY <2>3, <2>4 DEF q, x
  <1> QED BY <1>1, <1>2

(* An answer, refused or not, keeps the push stream as it should be.       *)
LEMMA AnsweredPushOK ==
  ASSUME StreamsOK, NEW a \in Answers, SetRemoteSdp(a)
  PROVE  PushOK(push') /\ push'.id = push.id /\ push'.srs = push.srs
  <1> DEFINE desc == RemoteDesc(push, a)
             later == Append(push.answers, a)
             p == [push EXCEPT !.remote_desc_ = desc, !.answers = later]
             q == CreateVideoReceiveStream(p, desc.video)
             r == CreateAudioReceiveStream(q, desc.audio)
  <1>1. PushOK(push)
    BY DEF StreamsOK, SetRemoteSdp
  <1>2. push' = IF Refused(a) THEN p ELSE r
    BY DEF SetRemoteSdp
  <1>3. push.answers \in Seq(Answers)
    BY <1>1 DEF PushOK, PushStream
  <1>4. later \in Seq(Answers) /\ later # <<>> /\ Last(later) = a
    BY <1>3 DEF Last
  <1> HIDE DEF later
  <1>5. desc = [audio |-> LastTracks(later, "audio"), video |-> LastTracks(later, "video")]
    BY <1>4 DEF RemoteDesc, LastTracks, NoDesc
  <1> HIDE DEF desc
  <1>6. /\ Described(desc.audio, "audio") /\ desc.audio = LastTracks(later, "audio")
        /\ Described(desc.video, "video") /\ desc.video = LastTracks(later, "video")
    BY <1>4, <1>5, LastTracksDescribed
  <1>7. desc \in [audio : Seq(Track), video : Seq(Track)]
    <2>1. desc.audio \in Seq(Track) /\ desc.video \in Seq(Track)
      BY <1>6 DEF Described
    <2> QED BY <1>5, <2>1
  <1>8. /\ p \in PushStream /\ p.id = push.id /\ p.srs = push.srs /\ p.answers = later /\ p.remote_desc_ = desc
        /\ p.video_receive_stream_ = push.video_receive_stream_
        /\ p.remote_video_ssrc_ = push.remote_video_ssrc_ /\ p.remote_video_rtx_ssrc_ = push.remote_video_rtx_ssrc_
    <2>1. push \in PushStream
      BY <1>1 DEF PushOK
    <2> QED BY <1>4, <1>7, <2>1 DEF PushStream
  <1>9. p.video_receive_stream_ = [ssrc |-> p.remote_video_ssrc_, rtx |-> p.remote_video_rtx_ssrc_]
    BY <1>1, <1>8 DEF PushOK
  <1> HIDE DEF p
  <1>10. CASE Refused(a)
    <2>1. p.remote_desc_.audio = <<>> /\ p.remote_desc_.video = <<>>
      BY <1>4, <1>6, <1>8, <1>10 DEF LastTracks
    <2>2. PushOK(p)
      BY <1>5, <1>8, <1>9, <2>1 DEF PushOK
    <2> QED BY <1>2, <1>8, <1>10, <2>2
  <1>11. CASE ~Refused(a)
    <2>1. /\ q \in PushStream
          /\ q.id = p.id /\ q.srs = p.srs /\ q.answers = p.answers /\ q.remote_desc_ = p.remote_desc_
          /\ q.video_receive_stream_ = [ssrc |-> q.remote_video_ssrc_, rtx |-> q.remote_video_rtx_ssrc_]
          /\ desc.video # <<>> => q.remote_video_ssrc_ = desc.video[1].ssrcs[1]
      BY <1>6, <1>8, <1>9, VideoCreated
    <2> HIDE DEF q
    <2>2. /\ r \in PushStream
          /\ r.id = q.id /\ r.srs = q.srs /\ r.answers = q.answers /\ r.remote_desc_ = q.remote_desc_
          /\ r.video_receive_stream_ = q.video_receive_stream_
          /\ r.remote_video_ssrc_ = q.remote_video_ssrc_ /\ r.remote_video_rtx_ssrc_ = q.remote_video_rtx_ssrc_
          /\ desc.audio # <<>> => r.remote_audio_ssrc_ = desc.audio[1].ssrcs[1]
      BY <1>6, <2>1, AudioCreated
    <2> HIDE DEF r
    <2>3. PushOK(r)
      <3>1. r.remote_desc_ = desc /\ r.answers = later
        BY <1>8, <2>1, <2>2
      <3>2. r.video_receive_stream_ = [ssrc |-> r.remote_video_ssrc_, rtx |-> r.remote_video_rtx_ssrc_]
        BY <2>1, <2>2
      <3> QED BY <1>5, <2>1, <2>2, <3>1, <3>2 DEF PushOK
    <2> QED BY <1>2, <1>8, <1>11, <2>1, <2>2, <2>3
  <1> QED BY <1>10, <1>11
(* The record that CreatePullStream makes.                                 *)
NewPull(media) ==
  LET offer == CreateOffer(media, GetSource("audio"), GetSource("video"))
  IN  [id |-> push.id, answers |-> push.answers, media |-> media, offer |-> offer.offer,
       audio_send_stream_ |-> offer.audio_send_stream_,
       video_send_stream_ |-> offer.video_send_stream_,
       audioSr |-> NoSr, videoSr |-> NoSr, audioCount |-> 0, videoCount |-> 0]

(* A new pull stream has the tracks of the last answer.                    *)
LEMMA NewPullOK ==
  ASSUME StreamsOK, push # NoStream, NEW media \in SUBSET Media
  PROVE  PullOK(NewPull(media)) /\ SrCurrent(push, NewPull(media))
  <1> DEFINE as == Wanted(push.answers, media, "audio")
             vs == Wanted(push.answers, media, "video")
             A == SendStream(as).ssrc
             V == SendStream(vs)
             text == OfferText(media, as, vs)
             t == [id |-> push.id, answers |-> push.answers, media |-> media, offer |-> text,
                   audio_send_stream_ |-> A, video_send_stream_ |-> V,
                   audioSr |-> NoSr, videoSr |-> NoSr, audioCount |-> 0, videoCount |-> 0]
  <1>1. PushOK(push)
    BY DEF StreamsOK
  <1>2. push.id \in Ssrc /\ push.answers \in Seq(Answers)
    BY <1>1 DEF PushOK, PushStream
  <1>3. GetSource("audio") = LastTracks(push.answers, "audio") /\ GetSource("video") = LastTracks(push.answers, "video")
    BY <1>1 DEF PushOK, GetSource
  <1>4. CreateOffer(media, GetSource("audio"), GetSource("video"))
          = [offer |-> text, audio_send_stream_ |-> A, video_send_stream_ |-> V]
    BY <1>3 DEF CreateOffer, Wanted
  <1>5. NewPull(media) = t
    BY <1>4 DEF NewPull
  <1>6. text \in Seq(Line)
    BY <1>2, WantedRead
  <1>7. Described(as, "audio") /\ Described(vs, "video")
    BY <1>2, WantedDescribed
  <1>8. A \in Nat /\ V \in [ssrc : Nat, rtx : Nat]
    <2>1. SendStream(as) \in [ssrc : Nat, rtx : Nat]
      BY <1>7, SendStreamIs
    <2>2. V \in [ssrc : Nat, rtx : Nat]
      BY <1>7, SendStreamIs
    <2> QED BY <2>1, <2>2
  <1>9. NoSr \in SrTime
    BY DEF NoSr, SrTime
  <1> HIDE DEF A, V, text
  <1>10. t \in PullStream
    BY <1>2, <1>6, <1>8, <1>9 DEF PullStream
  <1>11. /\ t.answers = push.answers /\ t.media = media /\ t.offer = text /\ t.audio_send_stream_ = A
         /\ t.video_send_stream_ = V /\ t.audioSr = NoSr /\ t.videoSr = NoSr
    OBVIOUS
  <1> HIDE DEF t
  <1>12. PullOK(t)
    BY <1>10, <1>11 DEF PullOK, A, V, text
  <1> QED BY <1>5, <1>11, <1>12 DEF SrCurrent

(* t1 differs from t at most in its counters and its SRs.                  *)
SameOffer(t, t1) ==
  /\ t1.id = t.id /\ t1.answers = t.answers /\ t1.media = t.media /\ t1.offer = t.offer
  /\ t1.audio_send_stream_ = t.audio_send_stream_ /\ t1.video_send_stream_ = t.video_send_stream_

(* A counter does not matter.                                              *)
LEMMA CountedOK ==
  ASSUME NEW t, PullOK(t), NEW t1,
         t1 \in {[t EXCEPT !.audioCount = t.audioCount + 1], [t EXCEPT !.videoCount = t.videoCount + 1]}
  PROVE  PullOK(t1) /\ SameOffer(t, t1) /\ t1.audioSr = t.audioSr /\ t1.videoSr = t.videoSr
  <1>1. t \in PullStream
    BY DEF PullOK
  <1>2. t.audioCount + 1 \in Nat /\ t.videoCount + 1 \in Nat
    BY <1>1 DEF PullStream
  <1>3. t1 \in PullStream
    BY <1>1, <1>2 DEF PullStream
  <1>4. SameOffer(t, t1) /\ t1.audioSr = t.audioSr /\ t1.videoSr = t.videoSr
    BY <1>1 DEF SameOffer, PullStream
  <1> QED BY <1>3, <1>4 DEF PullOK, SameOffer

(* Nor does an SR of a medium that is sent.                                *)
LEMMA SrSetOK ==
  ASSUME NEW t, PullOK(t), push.id \in Nat, NEW media \in Media,
         IF media = "video" THEN t.video_send_stream_.ssrc # 0 ELSE t.audio_send_stream_ # 0
  PROVE  LET t1 == SetSrInfo(t, media)
         IN  /\ PullOK(t1)
             /\ IF media = "video" THEN t1.videoSr.push = push.id /\ t1.audioSr = t.audioSr
                ELSE t1.audioSr.push = push.id /\ t1.videoSr = t.videoSr
  <1> DEFINE t1 == SetSrInfo(t, media)
             sr == [push |-> push.id, media |-> media]
  <1>1. t \in PullStream
    BY DEF PullOK
  <1>2. sr \in SrTime /\ sr.push = push.id /\ sr.media = media
    BY DEF SrTime
  <1>3. t1 = IF media = "video" THEN [t EXCEPT !.videoSr = sr] ELSE [t EXCEPT !.audioSr = sr]
    BY DEF SetSrInfo
  <1> HIDE DEF sr, t1
  <1>4. CASE media = "video"
    <2>1. t1 = [t EXCEPT !.videoSr = sr]
      BY <1>3, <1>4
    <2>2. t1 \in PullStream
      BY <1>1, <1>2, <2>1 DEF PullStream
    <2>3. SameOffer(t, t1) /\ t1.audioSr = t.audioSr /\ t1.videoSr = sr
      BY <1>1, <2>1 DEF SameOffer, PullStream
    <2>4. PullOK(t1)
      BY <1>2, <1>4, <2>2, <2>3 DEF PullOK, SameOffer
    <2> QED BY <1>2, <1>4, <2>3, <2>4 DEF t1
  <1>5. CASE media = "audio"
    <2>1. t1 = [t EXCEPT !.audioSr = sr]
      BY <1>3, <1>5
    <2>2. t1 \in PullStream
      BY <1>1, <1>2, <2>1 DEF PullStream
    <2>3. SameOffer(t, t1) /\ t1.videoSr = t.videoSr /\ t1.audioSr = sr
      BY <1>1, <2>1 DEF SameOffer, PullStream
    <2>4. PullOK(t1)
      BY <1>2, <1>5, <2>2, <2>3 DEF PullOK, SameOffer
    <2> QED BY <1>2, <1>5, <2>3, <2>4 DEF t1
  <1> QED BY <1>4, <1>5 DEF Media

-----------------------------------------------------------------------------
(* The steps                                                               *)

(* A step that sends nothing.                                              *)
LEMMA NothingSent ==
  ASSUME StreamsOK', wire' = {}
  PROVE  PeerInv'
  BY DEF PeerInv, SentIsAnnounced, SrFollowsPush

(* CreatePushStream, StopPush, SetRemoteSdp.                               *)
LEMMA PushSteps ==
  ASSUME StreamsOK, CreatePushStream \/ StopPush \/ \E a \in Answers : SetRemoteSdp(a)
  PROVE  PeerInv'
  <1>1. pull' = pull /\ wire' = {} /\ pushes' \in Nat
    <2>1. CASE CreatePushStream
      BY <2>1 DEF StreamsOK, CreatePushStream
    <2>2. CASE StopPush
      BY <2>2 DEF StreamsOK, StopPush
    <2>3. ASSUME NEW a \in Answers, SetRemoteSdp(a)
          PROVE  pull' = pull /\ wire' = {} /\ pushes' \in Nat
      BY <2>3 DEF StreamsOK, SetRemoteSdp
    <2> QED BY <2>1, <2>2, <2>3
  <1>2. /\ push' # NoStream => PushOK(push')
        /\ push' # NoStream => \A u \in Uids : pull[u] # NoStream => SrCurrent(push', pull[u])
    <2>1. CASE CreatePushStream
      <3>1. PushOK(push') /\ push'.srs = {}
        BY <2>1, NewPushOK
      <3> QED BY <3>1 DEF SrCurrent
    <2>2. CASE StopPush
      BY <2>2 DEF StopPush
    <2>3. CASE \E a \in Answers : SetRemoteSdp(a)
      <3>1. PICK a \in Answers : SetRemoteSdp(a)
        BY <2>3
      <3>2. PushOK(push') /\ push'.id = push.id /\ push'.srs = push.srs
        BY <3>1, AnsweredPushOK
      <3>3. push # NoStream
        BY <3>1 DEF SetRemoteSdp
      <3> QED BY <3>2, <3>3 DEF StreamsOK, SrCurrent
    <2> QED BY <2>1, <2>2, <2>3
  <1>3. StreamsOK'
    BY <1>1, <1>2 DEF StreamsOK
  <1> QED BY <1>1, <1>3, NothingSent

(* CreatePullStream, StopPull.                                             *)
LEMMA PullSteps ==
  ASSUME StreamsOK, NEW u \in Uids, (\E media \in SUBSET Media : CreatePullStream(u, media)) \/ StopPull(u)
  PROVE  PeerInv'
  <1>1. push' = push /\ wire' = {} /\ pushes' = pushes
    BY DEF CreatePullStream, StopPull
  <1>2. PICK t : /\ pull' = [pull EXCEPT ![u] = t]
                 /\ t # NoStream => PullOK(t)
                 /\ t # NoStream /\ push # NoStream => SrCurrent(push, t)
    <2>1. CASE \E media \in SUBSET Media : CreatePullStream(u, media)
      <3>1. PICK media \in SUBSET Media : CreatePullStream(u, media)
        BY <2>1
      <3>2. push # NoStream /\ pull' = [pull EXCEPT ![u] = NewPull(media)]
        BY <3>1 DEF CreatePullStream, NewPull
      <3>3. PullOK(NewPull(media)) /\ SrCurrent(push, NewPull(media))
        BY <3>2, NewPullOK
      <3> QED BY <3>2, <3>3
    <2>2. CASE StopPull(u)
      BY <2>2 DEF StopPull
    <2> QED BY <2>1, <2>2
  <1>3. DOMAIN pull' = Uids /\ \A v \in Uids : pull'[v] = IF v = u THEN t ELSE pull[v]
    BY <1>2 DEF StreamsOK
  <1>4. StreamsOK'
    BY <1>1, <1>2, <1>3 DEF StreamsOK
  <1> QED BY <1>1, <1>4, NothingSent

(* OnSrInfo: all pull streams that send the medium have the SR.            *)
LEMMA SrStep ==
  ASSUME StreamsOK, NEW ssrc, OnSrInfo(ssrc)
  PROVE  PeerInv'
  <1>1. push # NoStream /\ wire' = {} /\ pushes' = pushes
    BY DEF OnSrInfo
  <1>2. PICK media \in Media :
          /\ pull' = [u \in Uids |-> IF u \in (IF media = "video" THEN Video ELSE Audio)
                                     THEN SetSrInfo(pull[u], media) ELSE pull[u]]
          /\ push' = [push EXCEPT !.srs = push.srs \cup {media}]
    BY DEF OnSrInfo, Media
  <1>3. PushOK(push)
    BY <1>1 DEF StreamsOK
  <1>4. push \in PushStream /\ push.id \in Nat /\ push.srs \in SUBSET Media
    BY <1>3 DEF PushOK, PushStream, Ssrc
  <1>5. push' \in PushStream
    BY <1>2, <1>4 DEF PushStream
  <1>6. /\ push'.id = push.id /\ push'.srs = push.srs \cup {media} /\ push'.answers = push.answers
        /\ push'.remote_desc_ = push.remote_desc_ /\ push'.video_receive_stream_ = push.video_receive_stream_
        /\ push'.remote_video_ssrc_ = push.remote_video_ssrc_ /\ push'.remote_audio_ssrc_ = push.remote_audio_ssrc_
        /\ push'.remote_video_rtx_ssrc_ = push.remote_video_rtx_ssrc_
    BY <1>2, <1>4 DEF PushStream
  <1>7. PushOK(push')
    BY <1>3, <1>5, <1>6 DEF PushOK
  <1>8. ASSUME NEW u \in Uids, pull'[u] # NoStream
        PROVE  PullOK(pull'[u]) /\ SrCurrent(push', pull'[u])
    <2>1. CASE u \in (IF media = "video" THEN Video ELSE Audio)
      <3>1. pull'[u] = SetSrInfo(pull[u], media)
        BY <1>2, <2>1
      <3>2. pull[u] # NoStream /\ (IF media = "video" THEN pull[u].video_send_stream_.ssrc # 0
                                                      ELSE pull[u].audio_send_stream_ # 0)
        BY <2>1 DEF Video, Audio
      <3>3. PullOK(pull[u]) /\ SrCurrent(push, pull[u])
        BY <1>1, <3>2 DEF StreamsOK
      <3>4. /\ PullOK(pull'[u])
            /\ IF media = "video" THEN pull'[u].videoSr.push = push.id /\ pull'[u].audioSr = pull[u].audioSr
               ELSE pull'[u].audioSr.push = push.id /\ pull'[u].videoSr = pull[u].videoSr
        BY <1>4, <3>1, <3>2, <3>3, SrSetOK
      <3>5. CASE media = "video"
        BY <1>6, <3>3, <3>4, <3>5 DEF SrCurrent
      <3>6. CASE media = "audio"
        BY <1>6, <3>3, <3>4, <3>6 DEF SrCurrent
      <3> QED BY <3>5, <3>6 DEF Media
    <2>2. CASE u \notin (IF media = "video" THEN Video ELSE Audio)
      <3>1. pull'[u] = pull[u]
        BY <1>2, <2>2
      <3>2. PullOK(pull[u]) /\ SrCurrent(push, pull[u])
        BY <1>1, <1>8, <3>1 DEF StreamsOK
      <3>3. IF media = "video" THEN pull[u].videoSr = NoSr ELSE pull[u].audioSr = NoSr
        BY <1>8, <2>2, <3>1, <3>2 DEF Video, Audio, PullOK
      <3>4. CASE media = "video"
        BY <1>6, <3>1, <3>2, <3>3, <3>4 DEF SrCurrent
      <3>5. CASE media = "audio"
        BY <1>6, <3>1, <3>2, <3>3, <3>5 DEF SrCurrent
      <3> QED BY <3>4, <3>5 DEF Media
    <2> QED BY <2>1, <2>2
  <1>9. StreamsOK'
    BY <1>1, <1>2, <1>7, <1>8 DEF StreamsOK
  <1> QED BY <1>1, <1>9, NothingSent
(* What SendRtp puts on the wire.                                          *)
LEMMA SentIs ==
  ASSUME NEW us, NEW k, NEW c, NEW r, NEW n,
         NEW x \in SendRtp(us, [to |-> 0, kind |-> k, ssrc |-> c, sr |-> r, count |-> n])
  PROVE  \E u \in us : x.to = u /\ x.kind = k /\ x.ssrc = c /\ x.sr = r
  <1>1. PICK u \in us : x = [[to |-> 0, kind |-> k, ssrc |-> c, sr |-> r, count |-> n] EXCEPT !.to = u]
    BY DEF SendRtp
  <1>2. x.to = u /\ x.kind = k /\ x.ssrc = c /\ x.sr = r
    BY <1>1
  <1> QED BY <1>2

(* Counting packets changes no offer.                                      *)
LEMMA CountedStreamsOK ==
  ASSUME StreamsOK, NEW us, \A u \in us : u \in Uids /\ pull[u] # NoStream, NEW media \in Media,
         pull' = Counted(us, media), push' = push, pushes' = pushes
  PROVE  StreamsOK' /\ \A u \in us : PullOK(pull[u]) /\ SameOffer(pull[u], pull'[u])
  <1>1. DOMAIN pull' = Uids
    BY DEF Counted
  <1>2. ASSUME NEW u \in us
        PROVE  /\ PullOK(pull[u]) /\ PullOK(pull'[u]) /\ SameOffer(pull[u], pull'[u])
               /\ pull'[u].audioSr = pull[u].audioSr /\ pull'[u].videoSr = pull[u].videoSr
    <2>1. PullOK(pull[u])
      BY DEF StreamsOK
    <2>2. pull'[u] \in {[pull[u] EXCEPT !.audioCount = pull[u].audioCount + 1],
                        [pull[u] EXCEPT !.videoCount = pull[u].videoCount + 1]}
      BY DEF Counted, Media
    <2> QED BY <2>1, <2>2, CountedOK
  <1>3. ASSUME NEW u \in Uids, u \notin us PROVE pull'[u] = pull[u]
    BY <1>3 DEF Counted
  <1>4. ASSUME NEW u \in Uids, pull'[u] # NoStream
        PROVE  PullOK(pull'[u]) /\ (push # NoStream => SrCurrent(push, pull'[u]))
    <2>1. CASE u \in us
      <3>1. push # NoStream => SrCurrent(push, pull[u])
        BY <2>1 DEF StreamsOK
      <3> QED BY <1>2, <2>1, <3>1 DEF SrCurrent
    <2>2. CASE u \notin us
      BY <1>3, <1>4, <2>2 DEF StreamsOK
    <2> QED BY <2>1, <2>2
  <1>5. StreamsOK'
    BY <1>1, <1>4 DEF StreamsOK
  <1> QED BY <1>2, <1>5

(* OnRtpPacketReceived: packets have the SSRC of the first track of the    *)
(* answer, which is announced if that is the answer the offer is from.     *)
LEMMA RtpStep ==
  ASSUME StreamsOK, NEW ssrc, OnRtpPacketReceived(ssrc)
  PROVE  PeerInv'
  <1>1. push # NoStream /\ push' = push /\ pushes' = pushes
    BY DEF OnRtpPacketReceived
  <1>2. PushOK(push)
    BY <1>1 DEF StreamsOK
  <1>3. PICK media \in Media :
          LET us == IF media = "video" THEN Video ELSE Audio
              c  == IF media = "video" THEN push.remote_video_ssrc_ ELSE push.remote_audio_ssrc_
          IN  wire' = SendRtp(us, Packet("rtp", c)) /\ pull' = Counted(us, media)
    <2>1. CASE /\ GetMediaType(ssrc) = "video" /\ wire' = SendRtp(Video, Packet("rtp", MediaSsrc(ssrc)))
               /\ pull' = Counted(Video, "video")
      <3>1. ssrc \in {push.remote_video_ssrc_, push.remote_video_rtx_ssrc_}
        BY <2>1 DEF GetMediaType
      <3>2. /\ push.video_receive_stream_.ssrc = push.remote_video_ssrc_
            /\ push.video_receive_stream_.rtx = push.remote_video_rtx_ssrc_
        BY <1>2 DEF PushOK
      <3>3. MediaSsrc(ssrc) = push.remote_video_ssrc_
        BY <3>1, <3>2 DEF MediaSsrc
      <3> QED BY <2>1, <3>3 DEF Media
    <2>2. CASE /\ GetMediaType(ssrc) = "audio" /\ wire' = SendRtp(Audio, Packet("rtp", ssrc))
               /\ pull' = Counted(Audio, "audio")
      <3>1. ssrc = push.remote_audio_ssrc_
        BY <2>2 DEF GetMediaType
      <3>2. "audio" \in Media /\ "audio" # "video"
        BY DEF Media
      <3> QED BY <2>2, <3>1, <3>2
    <2> QED BY <2>1, <2>2 DEF OnRtpPacketReceived
  <1> DEFINE us == IF media = "video" THEN Video ELSE Audio
             c  == IF media = "video" THEN push.remote_video_ssrc_ ELSE push.remote_audio_ssrc_
  <1>4. wire' = SendRtp(us, Packet("rtp", c)) /\ pull' = Counted(us, media)
    BY <1>3
  <1>5. \A u \in us : /\ u \in Uids /\ pull[u] # NoStream
                      /\ IF media = "video" THEN pull[u].video_send_stream_.ssrc # 0 ELSE pull[u].audio_send_stream_ # 0
    BY DEF Video, Audio
  <1> HIDE DEF us, c
  <1>6. StreamsOK' /\ \A u \in us : PullOK(pull[u]) /\ SameOffer(pull[u], pull'[u])
    BY <1>1, <1>4, <1>5, CountedStreamsOK
  <1>7. ASSUME NEW x \in wire'
        PROVE  \E u \in us : x.to = u /\ x.kind = "rtp" /\ x.ssrc = c
    <2>1. x \in SendRtp(us, [to |-> 0, kind |-> "rtp", ssrc |-> c, sr |-> NoSr, count |-> 0])
      BY <1>4 DEF Packet
    <2> QED BY <2>1, SentIs
  <1>8. ASSUME NEW x \in wire', x.kind = "rtp", pull'[x.to].answers = push.answers
        PROVE  x.ssrc \in Announced(pull'[x.to].offer)
    <2>1. PICK u \in us : x.to = u /\ x.kind = "rtp" /\ x.ssrc = c
      BY <1>7
    <2>2. PullOK(pull[u]) /\ pull[u].answers = push.answers /\ pull'[u].offer = pull[u].offer
      BY <1>6, <1>8, <2>1 DEF SameOffer
    <2>3. /\ pull[u].video_send_stream_.ssrc # 0 => push.remote_video_ssrc_ \in Announced(pull[u].offer)
          /\ pull[u].audio_send_stream_ # 0 => push.remote_audio_ssrc_ \in Announced(pull[u].offer)
      BY <1>2, <2>2, PushAnnounced
    <2> QED BY <1>5, <2>1, <2>2, <2>3 DEF c
  <1>9. \A x \in wire' : x.kind = "rtp"
    BY <1>7
  <1>10. SentIsAnnounced'
    BY <1>1, <1>8, <1>9 DEF SentIsAnnounced
  <1>11. SrFollowsPush'
    <2>1. \A x \in wire' : x.kind # "sr"
      BY <1>9
    <2> QED BY <2>1 DEF SrFollowsPush
  <1> QED BY <1>6, <1>10, <1>11 DEF PeerInv

(* OnNackReceived: the RTX SSRC is announced, or there is none.            *)
LEMMA NackStep ==
  ASSUME StreamsOK, NEW u \in Uids, OnNackReceived(u)
  PROVE  PeerInv'
  <1> DEFINE c == pull[u].video_send_stream_.rtx
  <1>1. /\ push' = push /\ pushes' = pushes /\ pull[u] # NoStream
        /\ wire' = SendRtp({u}, Packet("rtx", c)) /\ pull' = Counted({u}, "video")
    BY DEF OnNackReceived, Video
  <1>2. "video" \in Media /\ \A v \in {u} : v \in Uids /\ pull[v] # NoStream
    BY <1>1 DEF Media
  <1>3. StreamsOK' /\ PullOK(pull[u]) /\ SameOffer(pull[u], pull'[u])
    BY <1>1, <1>2, CountedStreamsOK
  <1>4. \/ c \in Announced(pull[u].offer)
        \/ c = 0 /\ \A t \in Range(Tracks(pull[u].offer, "video")) : Len(t.ssrcs) < 2
    BY <1>3, PullAnnounces
  <1> HIDE DEF c
  <1>5. ASSUME NEW x \in wire' PROVE x.to = u /\ x.kind = "rtx" /\ x.ssrc = c
    <2>1. x \in SendRtp({u}, [to |-> 0, kind |-> "rtx", ssrc |-> c, sr |-> NoSr, count |-> 0])
      BY <1>1 DEF Packet
    <2> QED BY <2>1, SentIs
  <1>6. pull'[u].offer = pull[u].offer
    BY <1>3 DEF SameOffer
  <1>7. SentIsAnnounced'
    BY <1>4, <1>5, <1>6 DEF SentIsAnnounced
  <1>8. SrFollowsPush'
    <2>1. \A x \in wire' : x.kind # "sr"
      BY <1>5
    <2> QED BY <2>1 DEF SrFollowsPush
  <1> QED BY <1>3, <1>7, <1>8 DEF PeerInv

(* TimeToSendRTCP: an SR is of the push that its medium comes from.        *)
LEMMA RtcpStep ==
  ASSUME StreamsOK, NEW u \in Uids, TimeToSendRTCP(u)
  PROVE  PeerInv'
  <1>1. push' = push /\ pushes' = pushes /\ pull' = pull /\ pull[u] # NoStream
    BY DEF TimeToSendRTCP, Video, Audio
  <1>2. StreamsOK'
    BY <1>1 DEF StreamsOK
  <1>3. PullOK(pull[u]) /\ (push # NoStream => SrCurrent(push, pull[u]))
    BY <1>1 DEF StreamsOK
  <1>4. PICK c, sr, n : /\ wire' = SendRtp({u}, SenderReport(c, sr, n))
                        /\ c \in Announced(pull[u].offer)
                        /\ push # NoStream /\ sr.media \in push.srs => sr.push = push.id
    <2>1. CASE u \in Video /\ pull[u].videoSr # NoSr
               /\ wire' = SendRtp({u}, SenderReport(pull[u].video_send_stream_.ssrc,
                                                    pull[u].videoSr, pull[u].videoCount))
      <3>1. pull[u].videoSr.media = "video" /\ pull[u].video_send_stream_.ssrc # 0
        BY <1>3, <2>1 DEF PullOK
      <3>2. pull[u].video_send_stream_.ssrc \in Announced(pull[u].offer)
        BY <1>3, <3>1, PullAnnounces
      <3>3. push # NoStream /\ pull[u].videoSr.media \in push.srs => pull[u].videoSr.push = push.id
        BY <1>3, <2>1, <3>1 DEF SrCurrent
      <3> QED BY <2>1, <3>2, <3>3
    <2>2. CASE u \in Audio /\ pull[u].audioSr # NoSr
               /\ wire' = SendRtp({u}, SenderReport(pull[u].audio_send_stream_,
                                                    pull[u].audioSr, pull[u].audioCount))
      <3>1. pull[u].audioSr.media = "audio" /\ pull[u].audio_send_stream_ # 0
        BY <1>3, <2>2 DEF PullOK
      <3>2. pull[u].audio_send_stream_ \in Announced(pull[u].offer)
        BY <1>3, <3>1, PullAnnounces
      <3>3. push # NoStream /\ pull[u].audioSr.media \in push.srs => pull[u].audioSr.push = push.id
        BY <1>3, <2>2, <3>1 DEF SrCurrent
      <3> QED BY <2>2, <3>2, <3>3
    <2> QED BY <2>1, <2>2 DEF TimeToSendRTCP
  <1>5. ASSUME NEW x \in wire' PROVE x.to = u /\ x.kind = "sr" /\ x.ssrc = c /\ x.sr = sr
    <2>1. x \in SendRtp({u}, [to |-> 0, kind |-> "sr", ssrc |-> c, sr |-> sr, count |-> n])
      BY <1>4 DEF SenderReport
    <2> QED BY <2>1, SentIs
  <1>6. SentIsAnnounced'
    BY <1>1, <1>4, <1>5 DEF SentIsAnnounced
  <1>7. SrFollowsPush'
    BY <1>1, <1>4, <1>5 DEF SrFollowsPush
  <1> QED BY <1>2, <1>6, <1>7 DEF PeerInv

(* At the start there are no streams.                                      *)
LEMMA PeerInvInit ==
  ASSUME PeerInit
  PROVE  PeerInv
  BY DEF PeerInit, PeerInv, StreamsOK, SentIsAnnounced, SrFollowsPush

(* Every step keeps the invariant.                                         *)
LEMMA PeerInvNext ==
  ASSUME PeerInv, [PeerNext]_peerVars
  PROVE  PeerInv'
  <1>1. StreamsOK
    BY DEF PeerInv
  <1>2. CASE CreatePushStream \/ StopPush \/ \E a \in Answers : SetRemoteSdp(a)
    BY <1>1, <1>2, PushSteps
  <1>3. ASSUME NEW u \in Uids, NEW media \in SUBSET {"audio", "video"}, CreatePullStream(u, media)
        PROVE  PeerInv'
    <2>1. media \in SUBSET Media
      BY DEF Media
    <2> QED BY <1>1, <1>3, <2>1, PullSteps
  <1>4. ASSUME NEW u \in Uids, StopPull(u) PROVE PeerInv'
    BY <1>1, <1>4, PullSteps
  <1>5. ASSUME NEW u \in Uids, OnNackReceived(u) PROVE PeerInv'
    BY <1>1, <1>5, NackStep
  <1>6. ASSUME NEW u \in Uids, TimeToSendRTCP(u) PROVE PeerInv'
    BY <1>1, <1>6, RtcpStep
  <1>7. ASSUME NEW ssrc, OnRtpPacketReceived(ssrc) PROVE PeerInv'
    BY <1>1, <1>7, RtpStep
  <1>8. ASSUME NEW ssrc, OnSrInfo(ssrc) PROVE PeerInv'
    BY <1>1, <1>8, SrStep
  <1>9. CASE UNCHANGED peerVars
    BY <1>9 DEF PeerInv, StreamsOK, SentIsAnnounced, SrFollowsPush, peerVars
  <1> QED BY <1>2, <1>3, <1>4, <1>5, <1>6, <1>7, <1>8, <1>9 DEF PeerNext

(* Every state of PeerConnection satisfies PeerInv: the streams are what   *)
(* the answers make of them, and what the last step sent is right.         *)
THEOREM PeerInvariance == PeerSpec => []PeerInv
  <1>1. PeerInit => PeerInv
    BY PeerInvInit
  <1>2. PeerInv /\ [PeerNext]_peerVars => PeerInv'
    BY PeerInvNext
  <1> QED BY <1>1, <1>2, PTL DEF PeerSpec

(* What a client reads in the offer of its pull stream is what the pushing *)
(* client wrote in the last answer, whatever the answers are               *)
(* (pc/session_description.cpp, pc/peer_connection.cpp).                   *)
THEOREM OfferIsAnswer == PeerSpec => []OfferReadsAsAnswer
  <1>1. PeerInv => OfferReadsAsAnswer
    <2> SUFFICES ASSUME PeerInv, NEW u \in Uids, pull[u] # NoStream, NEW m \in {"audio", "video"}
                 PROVE  Tracks(pull[u].offer, m)
                          = IF pull[u].answers # <<>> /\ ~Refused(Last(pull[u].answers)) /\ m \in pull[u].media
                            THEN Tracks(Last(pull[u].answers), m) ELSE <<>>
      BY DEF OfferReadsAsAnswer
    <2> DEFINE t == pull[u]
    <2>1. PullOK(t)
      BY DEF PeerInv, StreamsOK
    <2> HIDE DEF t
    <2>2. t.answers \in Seq(Answers) /\ t.media \in SUBSET Media
      BY <2>1 DEF PullOK, PullStream
    <2>3. t.offer = OfferText(t.media, Wanted(t.answers, t.media, "audio"), Wanted(t.answers, t.media, "video"))
      BY <2>1 DEF PullOK
    <2>4. Tracks(t.offer, m) = Wanted(t.answers, t.media, m)
      BY <2>2, <2>3, WantedRead
    <2> QED BY <2>4 DEF Wanted, LastTracks, t
  <1> QED BY <1>1, PeerInvariance, PTL

(* Nothing is sent to a pulling client with an SSRC that its offer did not *)
(* announce, until the push is replaced or answered again.                 *)
THEOREM SentWasAnnounced == PeerSpec => []SentIsAnnounced
  <1>1. PeerInv => SentIsAnnounced
    BY DEF PeerInv
  <1> QED BY <1>1, PeerInvariance, PTL

(* Sender reports follow the push that the media come from.                *)
THEOREM SrIsOfPush == PeerSpec => []SrFollowsPush
  <1>1. PeerInv => SrFollowsPush
    BY DEF PeerInv
  <1> QED BY <1>1, PeerInvariance, PTL
=============================================================================
