------------------------ MODULE NackRequesterProofs ------------------------
(***************************************************************************)
(* That the list of missing packets is what it says, for every number      *)
(* space, age limit, list size and number of retries, and for streams      *)
(* whose sequence numbers wrap around any number of times.                 *)
(*                                                                         *)
(* Everything the code keeps lies within MaxPacketAge behind the newest    *)
(* packet.  There the wrapping distance ForwardDiff is the difference of   *)
(* positions, and AheadOrAt their order: the first part proves that, the   *)
(* second the invariant.                                                   *)
(***************************************************************************)
EXTENDS NackRequester, FiniteSetTheorems, WellFoundedInduction, TLAPS

----------------------------------------------------------------------------
(* Sequence numbers                                                        *)

(* A remainder is determined by its range.                                 *)
LEMMA ModUnique ==
  ASSUME NEW m \in Nat \ {0}, NEW q \in Int, NEW r \in 0 .. m - 1
  PROVE  (q * m + r) % m = r
  OBVIOUS

(* The remainder of a number within one modulus of the range.              *)
LEMMA ModCases ==
  ASSUME NEW m \in Nat \ {0}, NEW a \in Int
  PROVE  /\ 0 <= a /\ a < m => a % m = a
         /\ a < 0 /\ -m <= a => a % m = a + m
         /\ m <= a /\ a < 2 * m => a % m = a - m
  <1>1. ASSUME 0 <= a, a < m PROVE a % m = a
    BY <1>1
  <1>2. ASSUME a < 0, -m <= a PROVE a % m = a + m
    <2>1. a + m \in 0 .. m - 1 /\ a = (-1) * m + (a + m) /\ -1 \in Int
      BY <1>2
    <2>2. ((-1) * m + (a + m)) % m = a + m
      BY ONLY <2>1, m \in Nat \ {0}, ModUnique
    <2> QED BY <2>1, <2>2
  <1>3. ASSUME m <= a, a < 2 * m PROVE a % m = a - m
    <2>1. a - m \in 0 .. m - 1 /\ a = 1 * m + (a - m) /\ 1 \in Int
      BY <1>3
    <2>2. (1 * m + (a - m)) % m = a - m
      BY ONLY <2>1, m \in Nat \ {0}, ModUnique
    <2> QED BY <2>1, <2>2
  <1> QED BY <1>1, <1>2, <1>3

(* Half the number space is a natural number.                              *)
LEMMA Space == /\ SeqSpace \in Nat \ {0} /\ SeqSpace \div 2 \in Nat
               /\ 2 * (SeqSpace \div 2) = SeqSpace
  BY SeqSpaceAssumption

(* The wrapping distance, without the modulus.                             *)
LEMMA DiffIs ==
  ASSUME NEW a \in SeqNums, NEW b \in SeqNums
  PROVE  /\ ForwardDiff(a, b) \in SeqNums
         /\ a <= b => ForwardDiff(a, b) = b - a
         /\ b < a => ForwardDiff(a, b) = b - a + SeqSpace
  <1> DEFINE x == b - a
  <1>1. /\ x \in Int /\ a \in Int /\ b \in Int /\ SeqSpace \in Nat \ {0}
        /\ -SeqSpace <= x /\ x < SeqSpace /\ x = b - a
    BY Space DEF SeqNums
  <1>2. ForwardDiff(a, b) = x % SeqSpace
    BY DEF ForwardDiff
  <1> HIDE DEF x
  <1>3. /\ 0 <= x /\ x < SeqSpace => x % SeqSpace = x
        /\ x < 0 /\ -SeqSpace <= x => x % SeqSpace = x + SeqSpace
    BY ONLY <1>1, ModCases
  <1> QED BY <1>1, <1>2, <1>3 DEF SeqNums

(* The wrapping sum, without the modulus.                                  *)
LEMMA PlusIs ==
  ASSUME NEW a \in SeqNums, NEW n \in Int, -SeqSpace <= n, n < SeqSpace
  PROVE  /\ Plus(a, n) \in SeqNums
         /\ \/ Plus(a, n) = a + n
            \/ Plus(a, n) = a + n + SeqSpace
            \/ Plus(a, n) = a + n - SeqSpace
  <1> DEFINE x == a + n
  <1>1. /\ x \in Int /\ a \in Int /\ SeqSpace \in Nat \ {0}
        /\ -SeqSpace <= x /\ x < 2 * SeqSpace /\ x = a + n
    BY Space DEF SeqNums
  <1>2. Plus(a, n) = x % SeqSpace
    BY DEF Plus
  <1> HIDE DEF x
  <1>3. /\ 0 <= x /\ x < SeqSpace => x % SeqSpace = x
        /\ x < 0 /\ -SeqSpace <= x => x % SeqSpace = x + SeqSpace
        /\ SeqSpace <= x /\ x < 2 * SeqSpace => x % SeqSpace = x - SeqSpace
    BY ONLY <1>1, ModCases
  <1> QED BY <1>1, <1>2, <1>3 DEF SeqNums

(* Distances to one number tell numbers apart.                             *)
LEMMA DiffInjective ==
  ASSUME NEW a \in SeqNums, NEW b \in SeqNums, NEW n \in SeqNums,
         ForwardDiff(a, n) = ForwardDiff(b, n)
  PROVE  a = b
  <1>1. /\ a <= n => ForwardDiff(a, n) = n - a
        /\ n < a => ForwardDiff(a, n) = n - a + SeqSpace
    BY DiffIs
  <1>2. /\ b <= n => ForwardDiff(b, n) = n - b
        /\ n < b => ForwardDiff(b, n) = n - b + SeqSpace
    BY DiffIs
  <1> QED BY <1>1, <1>2, Space DEF SeqNums

(* Distances add up as long as they stay within the number space.          *)
LEMMA DiffAdds ==
  ASSUME NEW a \in SeqNums, NEW b \in SeqNums, NEW c \in SeqNums,
         ForwardDiff(a, b) + ForwardDiff(b, c) < SeqSpace
  PROVE  ForwardDiff(a, c) = ForwardDiff(a, b) + ForwardDiff(b, c)
  <1>1. /\ a <= b => ForwardDiff(a, b) = b - a
        /\ b < a => ForwardDiff(a, b) = b - a + SeqSpace
    BY DiffIs
  <1>2. /\ b <= c => ForwardDiff(b, c) = c - b
        /\ c < b => ForwardDiff(b, c) = c - b + SeqSpace
    BY DiffIs
  <1>3. /\ a <= c => ForwardDiff(a, c) = c - a
        /\ c < a => ForwardDiff(a, c) = c - a + SeqSpace
    BY DiffIs
  <1> QED BY <1>1, <1>2, <1>3, Space DEF SeqNums

(* Distances from one number subtract.                                     *)
LEMMA DiffSubtracts ==
  ASSUME NEW a \in SeqNums, NEW b \in SeqNums, NEW c \in SeqNums,
         ForwardDiff(a, b) <= ForwardDiff(a, c)
  PROVE  ForwardDiff(b, c) = ForwardDiff(a, c) - ForwardDiff(a, b)
  <1>1. /\ a <= b => ForwardDiff(a, b) = b - a
        /\ b < a => ForwardDiff(a, b) = b - a + SeqSpace
    BY DiffIs
  <1>2. /\ b <= c => ForwardDiff(b, c) = c - b
        /\ c < b => ForwardDiff(b, c) = c - b + SeqSpace
    BY DiffIs
  <1>3. /\ a <= c => ForwardDiff(a, c) = c - a
        /\ c < a => ForwardDiff(a, c) = c - a + SeqSpace
    BY DiffIs
  <1> QED BY <1>1, <1>2, <1>3, Space DEF SeqNums

(* Only equal numbers have distance 0.                                     *)
LEMMA DiffSelf ==
  ASSUME NEW a \in SeqNums, NEW b \in SeqNums
  PROVE  ForwardDiff(a, b) = 0 <=> a = b
  <1>1. /\ a <= b => ForwardDiff(a, b) = b - a
        /\ b < a => ForwardDiff(a, b) = b - a + SeqSpace
    BY DiffIs
  <1> QED BY <1>1, Space DEF SeqNums

(* Counting n on from a.                                                   *)
LEMMA DiffPlus ==
  ASSUME NEW a \in SeqNums, NEW n \in 0 .. SeqSpace - 1
  PROVE  Plus(a, n) \in SeqNums /\ ForwardDiff(a, Plus(a, n)) = n
  <1> DEFINE b == Plus(a, n)
  <1>1. b \in SeqNums /\ (b = a + n \/ b = a + n + SeqSpace \/ b = a + n - SeqSpace)
    BY PlusIs, Space
  <1> HIDE DEF b
  <1>2. /\ a <= b => ForwardDiff(a, b) = b - a
        /\ b < a => ForwardDiff(a, b) = b - a + SeqSpace
    BY <1>1, DiffIs
  <1>3. ForwardDiff(a, b) = n
    BY <1>1, <1>2, Space DEF SeqNums
  <1> QED BY <1>1, <1>3 DEF b

(* Counting n back from a.                                                 *)
LEMMA DiffMinus ==
  ASSUME NEW a \in SeqNums, NEW n \in 0 .. SeqSpace - 1
  PROVE  Plus(a, -n) \in SeqNums /\ ForwardDiff(Plus(a, -n), a) = n
  <1> DEFINE k == -n
             b == Plus(a, k)
  <1>1. k \in Int /\ -SeqSpace <= k /\ k < SeqSpace /\ k + n = 0
    BY Space
  <1> HIDE DEF k
  <1>2. b \in SeqNums /\ (b = a + k \/ b = a + k + SeqSpace \/ b = a + k - SeqSpace)
    BY <1>1, PlusIs
  <1> HIDE DEF b
  <1>3. /\ b <= a => ForwardDiff(b, a) = a - b
        /\ a < b => ForwardDiff(b, a) = a - b + SeqSpace
    BY <1>2, DiffIs
  <1>4. ForwardDiff(b, a) = n
    BY <1>1, <1>2, <1>3, Space DEF SeqNums
  <1> QED BY <1>2, <1>4 DEF b, k

(* Within half the number space behind n, AheadOrAt is the order of the    *)
(* distances to n.                                                         *)
LEMMA AheadIsCloser ==
  ASSUME NEW a \in SeqNums, NEW b \in SeqNums, NEW n \in SeqNums,
         2 * ForwardDiff(a, n) < SeqSpace, 2 * ForwardDiff(b, n) < SeqSpace
  PROVE  AheadOrAt(a, b) <=> ForwardDiff(a, n) <= ForwardDiff(b, n)
  <1>1. /\ a <= n => ForwardDiff(a, n) = n - a
        /\ n < a => ForwardDiff(a, n) = n - a + SeqSpace
    BY DiffIs
  <1>2. /\ b <= n => ForwardDiff(b, n) = n - b
        /\ n < b => ForwardDiff(b, n) = n - b + SeqSpace
    BY DiffIs
  <1>3. /\ b <= a => ForwardDiff(b, a) = a - b
        /\ a < b => ForwardDiff(b, a) = a - b + SeqSpace
    BY DiffIs
  <1> DEFINE h == SeqSpace \div 2
  <1>4. h \in Nat /\ 2 * h = SeqSpace
    BY Space
  <1>5. AheadOrAt(a, b) <=> ForwardDiff(b, a) < h \/ (ForwardDiff(b, a) = h /\ b < a)
    BY DEF AheadOrAt
  <1> HIDE DEF h
  <1>6. (ForwardDiff(b, a) < h \/ (ForwardDiff(b, a) = h /\ b < a))
          <=> ForwardDiff(a, n) <= ForwardDiff(b, n)
    BY <1>1, <1>2, <1>3, <1>4, Space DEF SeqNums
  <1> QED BY <1>5, <1>6

----------------------------------------------------------------------------
(* The inductive invariant                                                 *)

(* The entries of a list, as seen from newest at pos: they lie within the  *)
(* age limit and after the first packet, and the history of their          *)
(* positions (NACKs sent, age of the last) is what they record.            *)
Consistent(list, newest, pos, sent, age) ==
  /\ DOMAIN list \subseteq SeqNums
  /\ \A s \in DOMAIN list :
       LET i == pos - ForwardDiff(s, newest)
       IN  /\ list[s] \in NackInfo
           /\ ForwardDiff(s, newest) \in 1 .. MaxPacketAge
           /\ i >= 1
           /\ sent[i] = list[s].retries
           /\ age[i] = list[s].send_at_time

(* Nothing has happened to a position before it is reached, and the two    *)
(* histories agree on whether it was ever NACKed.                          *)
Untouched ==
  /\ \A i \in Positions : i > front => nacks[i] = 0
  /\ \A i \in received : i <= front
  /\ \A i \in Positions : nacks[i] = 0 <=> since[i] = Never

(* The anchors lie within the age limit, too, and so are in an order.      *)
KeysInWindow ==
  \A k \in keyframe_list_ : ForwardDiff(k, newest_seq_num_) \in 0 .. MaxPacketAge

Uninitialized ==
  ~initialized_ => front = 0 /\ nack_list_ = [s \in {} |-> Never] /\ keyframe_list_ = {}

Room == Cardinality(DOMAIN nack_list_) <= MaxNackPackets

NotReceived == Listed \cap received = {}

IInv ==
  /\ TypeOK
  /\ Consistent(nack_list_, newest_seq_num_, front, nacks, since)
  /\ Untouched
  /\ KeysInWindow
  /\ Uninitialized
  /\ Room
  /\ NotReceived
  /\ GapsListed

----------------------------------------------------------------------------
(* The steps                                                               *)

(* The assumptions on the constants, one by one.                           *)
LEMMA Bounds ==
  /\ MaxPacketAge \in Nat /\ MaxNackPackets \in Nat /\ MaxJump \in Nat /\ MaxLate \in Nat
  /\ MaxNackPackets < MaxPacketAge /\ MaxLate < MaxPacketAge
  /\ 2 * (MaxPacketAge + MaxJump) < SeqSpace
  /\ MaxAdvance \in Nat /\ FirstSeq \in SeqNums
  /\ MaxNackRetries \in Nat \ {0} /\ MaxRtt \in Nat /\ MaxWait \in Nat
  /\ DefaultRtt \in 0 .. MaxRtt /\ Rtts \subseteq 0 .. MaxRtt
  BY AgeAssumption, SpaceAssumption, AdvanceAssumption, RetriesAssumption, RttAssumption,
     WaitAssumption

(* Entries of different packets are at different positions.                *)
LEMMA OnePosition ==
  ASSUME NEW n \in SeqNums, NEW s \in SeqNums, NEW t \in SeqNums, NEW pos \in Int,
         pos - ForwardDiff(s, n) = pos - ForwardDiff(t, n)
  PROVE  s = t
  <1>1. ForwardDiff(s, n) \in Int /\ ForwardDiff(t, n) \in Int
    BY DiffIs DEF SeqNums
  <1>2. ForwardDiff(s, n) = ForwardDiff(t, n)
    BY <1>1
  <1> QED BY <1>2, DiffInjective

(* Where a listed packet is in the history, and what the history says of   *)
(* it.                                                                     *)
LEMMA PositionType ==
  ASSUME NEW list, NEW n \in SeqNums, NEW pos \in Positions, Consistent(list, n, pos, nacks, since),
         NEW s \in DOMAIN list
  PROVE  /\ pos - ForwardDiff(s, n) \in Positions /\ pos - ForwardDiff(s, n) < pos
         /\ s \in SeqNums /\ list[s] \in NackInfo
         /\ pos - ForwardDiff(s, n) \in 1 .. MaxAdvance
         /\ nacks[pos - ForwardDiff(s, n)] = list[s].retries
         /\ since[pos - ForwardDiff(s, n)] = list[s].send_at_time
  BY Bounds DEF Consistent, Positions

(* What SendNacks does to a list and to the history.                       *)
BatchSent(list, batch, n, pos) ==
  /\ DOMAIN nack_list_' = DOMAIN list \ GivenUp(list, batch)
  /\ Consistent(nack_list_', n, pos, nacks', since')
  /\ nacks' \in [Positions -> Nat] /\ since' \in [Positions -> Ages \cup {Never}]
  /\ \A i \in Positions : nacks'[i] = 0 <=> since'[i] = Never
  /\ \A s \in GivenUp(list, batch) : nacks'[pos - ForwardDiff(s, n)] = MaxNackRetries
  /\ \A i \in Positions \ At(batch, n, pos) : nacks'[i] = nacks[i]
  /\ \A i \in At(batch, n, pos) : \E s \in batch : i = pos - ForwardDiff(s, n)

(* Sending the NACKs of a batch keeps list and history in agreement.       *)
LEMMA Batch ==
  ASSUME nacks \in [Positions -> Nat], since \in [Positions -> Ages \cup {Never}],
         \A i \in Positions : nacks[i] = 0 <=> since[i] = Never,
         NEW list, NEW n \in SeqNums, NEW pos \in Positions, Consistent(list, n, pos, nacks, since),
         NEW batch \in SUBSET DOMAIN list,
         SendNacks(list, batch, At(batch, n, pos))
  PROVE  BatchSent(list, batch, n, pos)
  <1> DEFINE P(s) == pos - ForwardDiff(s, n)
             new(s) == [list[s] EXCEPT !.retries = @ + 1, !.send_at_time = 0]
             out == GivenUp(list, batch)
  <1>1. /\ nack_list_' = [s \in DOMAIN list \ out |-> IF s \in batch THEN new(s) ELSE list[s]]
        /\ nacks' = [i \in Positions |-> IF i \in At(batch, n, pos) THEN nacks[i] + 1 ELSE nacks[i]]
        /\ since' = [i \in Positions |-> IF i \in At(batch, n, pos) THEN 0 ELSE since[i]]
    BY DEF SendNacks
  <1>2. \A s \in DOMAIN list : /\ P(s) \in Positions /\ s \in SeqNums /\ list[s] \in NackInfo
                               /\ nacks[P(s)] = list[s].retries
                               /\ since[P(s)] = list[s].send_at_time
    BY PositionType
  <1>3. \A s \in DOMAIN list : P(s) \in At(batch, n, pos) <=> s \in batch
    <2> SUFFICES ASSUME NEW s \in DOMAIN list, P(s) \in At(batch, n, pos) PROVE s \in batch
      BY DEF At
    <2>1. PICK t \in batch : P(s) = P(t)
      BY DEF At
    <2>2. s \in SeqNums /\ t \in SeqNums /\ pos \in Int
      BY <1>2 DEF Positions
    <2> QED BY <2>1, <2>2, OnePosition
  <1>4. 0 \in Ages /\ 0 # Never
    BY Bounds DEF Ages, Never
  <1>5. /\ nacks' \in [Positions -> Nat] /\ since' \in [Positions -> Ages \cup {Never}]
        /\ \A i \in Positions : nacks'[i] = 0 <=> since'[i] = Never
    <2>1. \A i \in Positions : nacks[i] \in Nat /\ nacks[i] + 1 \in Nat /\ nacks[i] + 1 # 0
      OBVIOUS
    <2>2. nacks' \in [Positions -> Nat]
      BY <1>1, <2>1
    <2>3. since' \in [Positions -> Ages \cup {Never}]
      BY <1>1, <1>4
    <2>4. ASSUME NEW i \in Positions PROVE nacks'[i] = 0 <=> since'[i] = Never
      BY <1>1, <1>4, <2>1
    <2> QED BY <2>2, <2>3, <2>4
  <1>6. \A s \in DOMAIN list :
          /\ nacks'[P(s)] = IF s \in batch THEN list[s].retries + 1 ELSE list[s].retries
          /\ since'[P(s)] = IF s \in batch THEN 0 ELSE list[s].send_at_time
    <2> HIDE DEF P
    <2> QED BY <1>1, <1>2, <1>3
  <1>7. \A s \in batch : list[s].retries \in 0 .. MaxNackRetries - 1
    BY <1>2 DEF NackInfo
  <1>8. \A s \in out : nacks'[P(s)] = MaxNackRetries
    <2> SUFFICES ASSUME NEW s \in out PROVE nacks'[P(s)] = MaxNackRetries
      OBVIOUS
    <2>1. s \in batch /\ s \in DOMAIN list /\ list[s].retries + 1 >= MaxNackRetries
      BY DEF GivenUp
    <2>2. nacks'[P(s)] = list[s].retries + 1
      BY <1>6, <2>1
    <2> HIDE DEF P, out
    <2> QED BY <1>7, <2>1, <2>2, Bounds
  <1>9. ASSUME NEW s \in DOMAIN list \ out
        PROVE  /\ nack_list_'[s] \in NackInfo
               /\ nacks'[P(s)] = nack_list_'[s].retries
               /\ since'[P(s)] = nack_list_'[s].send_at_time
    <2>1. CASE s \in batch
      <3>1. nack_list_'[s] = new(s) /\ list[s] \in NackInfo
        BY <1>1, <1>2, <2>1
      <3>2. list[s].retries \in Nat /\ list[s].retries + 1 \in 0 .. MaxNackRetries - 1
        BY <1>7, <2>1, Bounds DEF GivenUp
      <3>3. /\ new(s) \in NackInfo /\ new(s).retries = list[s].retries + 1
            /\ new(s).send_at_time = 0
        BY <1>4, <3>1, <3>2 DEF NackInfo
      <3> HIDE DEF new, P
      <3> QED BY <1>6, <2>1, <3>1, <3>3
    <2>2. CASE s \notin batch
      <3> HIDE DEF P
      <3> QED BY <1>1, <1>2, <1>6, <2>2
    <2> QED BY <2>1, <2>2
  <1>10. Consistent(nack_list_', n, pos, nacks', since')
    <2>1. DOMAIN nack_list_' \subseteq DOMAIN list
      BY <1>1
    <2>2. \A s \in DOMAIN list : ForwardDiff(s, n) \in 1 .. MaxPacketAge /\ P(s) >= 1
      BY DEF Consistent
    <2>3. DOMAIN nack_list_' \subseteq SeqNums
      BY <1>2, <2>1
    <2>4. DOMAIN nack_list_' = DOMAIN list \ out
      BY <1>1
    <2> HIDE DEF out
    <2> QED BY <1>9, <2>1, <2>2, <2>3, <2>4 DEF Consistent
  <1> QED BY <1>1, <1>5, <1>8, <1>10 DEF At, BatchSent

(* What RepeatsAfterRtt says of a step.                                    *)
Backoff ==
  \A i \in Positions : nacks'[i] > nacks[i] /\ nacks[i] > 0 => since[i] > rtt_ms_

(* A batch whose repeats are older than the RTT keeps the distance.        *)
LEMMA BatchIsLate ==
  ASSUME since \in [Positions -> Ages \cup {Never}],
         \A i \in Positions : nacks[i] = 0 <=> since[i] = Never,
         NEW list, NEW n \in SeqNums, NEW pos \in Positions,
         Consistent(list, n, pos, nacks, since), NEW batch \in SUBSET DOMAIN list,
         BatchSent(list, batch, n, pos), nacks \in [Positions -> Nat],
         \A s \in batch : list[s].send_at_time = Never \/ list[s].send_at_time > rtt_ms_
  PROVE  Backoff
  <1> SUFFICES ASSUME NEW i \in Positions, nacks'[i] > nacks[i], nacks[i] > 0
               PROVE  since[i] > rtt_ms_
    BY DEF Backoff
  <1>1. nacks[i] \in Nat /\ nacks[i] # 0 /\ nacks'[i] # nacks[i]
    OBVIOUS
  <1>2. i \in At(batch, n, pos)
    BY <1>1 DEF BatchSent
  <1>3. PICK s \in batch : i = pos - ForwardDiff(s, n)
    BY <1>2 DEF At
  <1>4. since[i] = list[s].send_at_time
    BY <1>3 DEF Consistent
  <1> QED BY <1>1, <1>4

(* The constructor establishes the invariant.                              *)
LEMMA InitInv == Init => IInv
  <1> SUFFICES ASSUME Init PROVE IInv
    OBVIOUS
  <1> USE Bounds
  <1>1. 0 \in SeqNums /\ 0 \in Positions /\ DefaultRtt \in 0 .. MaxRtt
    BY Space DEF SeqNums, Positions
  <1>2. DOMAIN nack_list_ = {} /\ Listed = {}
    BY DEF Init, Listed, At
  <1>3. TypeOK
    BY <1>1, <1>2 DEF Init, TypeOK
  <1>4. Room
    BY <1>2, FS_EmptySet DEF Room
  <1> QED
    BY <1>2, <1>3, <1>4 DEF Init, IInv, Consistent, Untouched, KeysInWindow, Uninitialized,
                            NotReceived, GapsListed, Never

(* The first packet of the stream.                                         *)
LEMMA FirstPacketStep ==
  ASSUME IInv, NEW key \in BOOLEAN, FirstPacket(FirstSeq, key)
  PROVE  IInv'
  <1> USE Bounds
  <1>1. /\ ~initialized_ /\ initialized_' = TRUE /\ newest_seq_num_' = FirstSeq
        /\ keyframe_list_' \subseteq {FirstSeq} /\ received' = {0} /\ nack_list_' = nack_list_
        /\ front' = front /\ rtt_ms_' = rtt_ms_ /\ wait' = wait /\ dropped' = dropped
        /\ nacks' = nacks /\ since' = since
    BY DEF FirstPacket
  <1>2. /\ TypeOK /\ Untouched /\ front = 0 /\ DOMAIN nack_list_ = {} /\ Room
    BY <1>1 DEF IInv, Uninitialized
  <1>3. 0 \in Positions
    BY DEF Positions
  <1>4. TypeOK'
    BY <1>1, <1>2, <1>3 DEF TypeOK
  <1>5. ForwardDiff(FirstSeq, FirstSeq) = 0
    BY DiffSelf
  <1>6. KeysInWindow'
    BY <1>1, <1>5 DEF KeysInWindow
  <1>7. Untouched'
    BY <1>1, <1>2 DEF Untouched
  <1>8. DOMAIN nack_list_' = {} /\ Listed' = {}
    BY <1>1, <1>2 DEF Listed, At
  <1> QED
    BY <1>1, <1>2, <1>4, <1>6, <1>7, <1>8
    DEF IInv, Consistent, Uninitialized, Room, NotReceived, GapsListed

(* A packet behind the newest leaves the list.                             *)
LEMMA OldPacketStep ==
  ASSUME IInv, NEW seq \in SeqNums, NEW b \in BOOLEAN, OldPacket(seq, b)
  PROVE  IInv'
  <1> USE Bounds
  <1> DEFINE P(s) == front - ForwardDiff(s, newest_seq_num_)
  <1>1. /\ initialized_ /\ seq # newest_seq_num_
        /\ nack_list_' = [s \in DOMAIN nack_list_ \ {seq} |-> nack_list_[s]]
        /\ received' = received \cup ({P(seq)} \cap Positions) /\ wait' \in 0 .. MaxWait
        /\ initialized_' = initialized_ /\ newest_seq_num_' = newest_seq_num_
        /\ keyframe_list_' = keyframe_list_ /\ front' = front /\ rtt_ms_' = rtt_ms_
        /\ dropped' = dropped /\ nacks' = nacks /\ since' = since
    BY DEF OldPacket, AheadOf, Restricted, At, IInv, TypeOK
  <1>2. /\ TypeOK /\ Consistent(nack_list_, newest_seq_num_, front, nacks, since) /\ Untouched /\ Room
        /\ NotReceived /\ GapsListed
    BY DEF IInv
  <1>3. newest_seq_num_ \in SeqNums /\ front \in Positions /\ front \in Nat
    BY <1>2 DEF TypeOK, Positions
  <1>4. \A s \in DOMAIN nack_list_ : s \in SeqNums /\ P(s) \in Positions /\ P(s) \notin received
    BY <1>2, <1>3, PositionType DEF NotReceived, Listed, At
  <1>5. \A s \in DOMAIN nack_list_ : s # seq => P(s) # P(seq)
    BY <1>3, <1>4, OnePosition
  <1>6. ForwardDiff(seq, newest_seq_num_) \in Nat
    BY <1>3, DiffIs DEF SeqNums
  <1>7. P(seq) <= front
    BY <1>3, <1>6
  <1>8. /\ DOMAIN nack_list_' = DOMAIN nack_list_ \ {seq}
        /\ \A s \in DOMAIN nack_list_' : nack_list_'[s] = nack_list_[s]
    BY <1>1
  <1>9. Listed = {P(s) : s \in DOMAIN nack_list_} /\ Listed' = {P(s) : s \in DOMAIN nack_list_'}
    BY <1>1 DEF Listed, At
  <1>10. TypeOK'
    BY <1>1, <1>2, <1>8 DEF TypeOK
  <1>11. Consistent(nack_list_', newest_seq_num_', front', nacks', since')
    BY <1>1, <1>2, <1>8 DEF Consistent
  <1>12. Untouched'
    <2> HIDE DEF P
    <2> QED BY <1>1, <1>2, <1>7 DEF Untouched
  <1>13. Room'
    <2>1. IsFiniteSet(DOMAIN nack_list_)
      <3>1. IsFiniteSet(SeqNums)
        BY Space, FS_Interval DEF SeqNums
      <3> QED BY <1>2, <3>1, FS_Subset DEF TypeOK
    <2>2. /\ Cardinality(DOMAIN nack_list_') <= Cardinality(DOMAIN nack_list_)
          /\ IsFiniteSet(DOMAIN nack_list_')
      BY <1>8, <2>1, FS_Subset
    <2>3. Cardinality(DOMAIN nack_list_) \in Nat /\ Cardinality(DOMAIN nack_list_') \in Nat
      BY <2>1, <2>2, FS_CardinalityType
    <2> QED BY <1>2, <2>2, <2>3 DEF Room
  <1>14. NotReceived'
    <2> HIDE DEF P
    <2> QED BY <1>1, <1>4, <1>5, <1>8, <1>9 DEF NotReceived
  <1>15. GapsListed'
    <2> SUFFICES ASSUME NEW i \in 1 .. front
                 PROVE  \/ i \in received' \cup dropped' \cup Listed'
                        \/ nacks'[i] = MaxNackRetries
                        \/ front' - i > MaxPacketAge
      BY <1>1 DEF GapsListed
    <2>1. i \in Positions
      BY <1>3 DEF Positions
    <2>2. CASE i \in Listed
      <3>1. PICK s \in DOMAIN nack_list_ : i = P(s)
        BY <1>9, <2>2
      <3> HIDE DEF P
      <3>2. CASE s = seq
        BY <1>1, <2>1, <3>1, <3>2
      <3>3. CASE s # seq
        BY <1>8, <1>9, <3>1, <3>3
      <3> QED BY <3>2, <3>3
    <2>3. CASE i \notin Listed
      BY <1>1, <1>2, <2>3 DEF GapsListed
    <2> QED BY <2>2, <2>3
  <1> QED BY <1>1, <1>10, <1>11, <1>12, <1>13, <1>14, <1>15
          DEF IInv, KeysInWindow, Uninitialized

(* Sets of sequence numbers are finite.                                    *)
LEMMA ListFinite ==
  ASSUME NEW S \in SUBSET SeqNums
  PROVE  IsFiniteSet(S) /\ Cardinality(S) \in Nat
  <1>1. IsFiniteSet(SeqNums)
    BY Space, FS_Interval DEF SeqNums
  <1> QED BY <1>1, FS_Subset, FS_CardinalityType

(* Removing packets keeps a set below its limit.                           *)
LEMMA SmallerSet ==
  ASSUME NEW S \in SUBSET SeqNums, NEW T \in SUBSET S, NEW m \in Nat, Cardinality(S) <= m
  PROVE  Cardinality(T) <= m
  <1>1. /\ IsFiniteSet(S) /\ Cardinality(S) \in Nat /\ Cardinality(T) \in Nat
    BY ListFinite
  <1>2. Cardinality(T) <= Cardinality(S)
    BY <1>1, FS_Subset
  <1> QED BY <1>1, <1>2

(* The timer.                                                              *)
LEMMA ProcessNacksStep ==
  ASSUME IInv, ProcessNacks
  PROVE  IInv'
  <1> USE Bounds
  <1> DEFINE n == newest_seq_num_
             batch == ByTime(nack_list_)
             P(s) == front - ForwardDiff(s, n)
  <1>1. /\ SendNacks(nack_list_, batch, At(batch, n, front))
        /\ initialized_' = initialized_ /\ newest_seq_num_' = newest_seq_num_
        /\ keyframe_list_' = keyframe_list_ /\ rtt_ms_' = rtt_ms_ /\ wait' = wait
        /\ front' = front /\ received' = received /\ dropped' = dropped
    BY DEF ProcessNacks
  <1>2. /\ TypeOK /\ Consistent(nack_list_, n, front, nacks, since) /\ Untouched /\ Room
        /\ NotReceived /\ GapsListed /\ Uninitialized /\ KeysInWindow
    BY DEF IInv
  <1>3. /\ n \in SeqNums /\ front \in Positions /\ front \in Nat
        /\ nacks \in [Positions -> Nat] /\ since \in [Positions -> Ages \cup {Never}]
    BY <1>2 DEF TypeOK, Positions
  <1>4. batch \in SUBSET DOMAIN nack_list_
    BY DEF ByTime
  <1>5. \A i \in Positions : nacks[i] = 0 <=> since[i] = Never
    BY <1>2 DEF Untouched
  <1> HIDE DEF batch
  <1>6. BatchSent(nack_list_, batch, n, front)
    BY ONLY <1>1, <1>2, <1>3, <1>4, <1>5, Batch
  <1>7. \A s \in DOMAIN nack_list_ : /\ P(s) \in Positions /\ P(s) < front
                                     /\ nacks[P(s)] = nack_list_[s].retries
                                     /\ nack_list_[s].retries < MaxNackRetries
    BY <1>2, <1>3, PositionType DEF NackInfo
  <1>8. TypeOK'
    BY <1>1, <1>2, <1>6 DEF TypeOK, Consistent, BatchSent
  <1>9. Untouched'
    <2>1. \A i \in Positions : i > front => i \notin At(batch, n, front)
      BY <1>3, <1>4, <1>6, <1>7 DEF Positions, BatchSent
    <2> QED BY <1>1, <1>2, <1>6, <2>1 DEF Untouched, BatchSent
  <1>10. Room'
    BY <1>2, <1>6, SmallerSet DEF Room, TypeOK, BatchSent
  <1>11. Listed = {P(s) : s \in DOMAIN nack_list_} /\ Listed' = {P(s) : s \in DOMAIN nack_list_'}
    BY <1>1 DEF Listed, At
  <1>12. NotReceived'
    <2>1. Listed' \subseteq Listed
      BY <1>6, <1>11 DEF BatchSent
    <2> QED BY <1>1, <1>2, <2>1 DEF NotReceived
  <1>13. GapsListed'
    <2> SUFFICES ASSUME NEW i \in 1 .. front
                 PROVE  \/ i \in received' \cup dropped' \cup Listed'
                        \/ nacks'[i] = MaxNackRetries
                        \/ front' - i > MaxPacketAge
      BY <1>1 DEF GapsListed
    <2>1. i \in Positions
      BY <1>3 DEF Positions
    <2>2. CASE i \in Listed
      <3>1. PICK s \in DOMAIN nack_list_ : i = P(s)
        BY <1>11, <2>2
      <3> HIDE DEF P
      <3>2. CASE s \in GivenUp(nack_list_, batch)
        BY <1>6, <3>1, <3>2 DEF P, BatchSent
      <3>3. CASE s \notin GivenUp(nack_list_, batch)
        BY <1>6, <1>11, <3>1, <3>3 DEF BatchSent
      <3> QED BY <3>2, <3>3
    <2>3. CASE i \notin Listed
      <3>1. i \notin At(batch, n, front)
        BY <1>4, <1>6, <1>11, <2>3 DEF BatchSent
      <3>2. nacks'[i] = nacks[i]
        BY <1>6, <2>1, <3>1 DEF BatchSent
      <3> QED BY <1>1, <1>2, <2>3, <3>2 DEF GapsListed
    <2> QED BY <2>2, <2>3
  <1> QED BY <1>1, <1>2, <1>6, <1>8, <1>9, <1>10, <1>12, <1>13
          DEF BatchSent, IInv, KeysInWindow, Uninitialized, ProcessNacks, ByTime, Consistent

(* How the window moves with a new packet seq: distances grow by the jump, *)
(* NotOlder keeps what stays within the age limit, and the gap takes the   *)
(* positions in between.                                                   *)
LEMMA Rebase ==
  ASSUME NEW n \in SeqNums, NEW seq \in SeqNums, NEW s \in SeqNums,
         ForwardDiff(n, seq) \in 1 .. MaxJump, ForwardDiff(s, n) \in 0 .. MaxPacketAge
  PROVE  ForwardDiff(s, seq) = ForwardDiff(s, n) + ForwardDiff(n, seq)
  <1>1. ForwardDiff(s, n) + ForwardDiff(n, seq) < SeqSpace
    BY Bounds, Space
  <1> QED BY <1>1, DiffAdds

(* The pruning by age keeps exactly what is within MaxPacketAge.           *)
LEMMA Recent ==
  ASSUME NEW seq \in SeqNums, NEW s \in SeqNums, ForwardDiff(s, seq) <= MaxPacketAge + MaxJump
  PROVE  AheadOrAt(s, Plus(seq, -MaxPacketAge)) <=> ForwardDiff(s, seq) <= MaxPacketAge
  <1> DEFINE old == Plus(seq, -MaxPacketAge)
  <1>1. MaxPacketAge \in 0 .. SeqSpace - 1
    BY Bounds, Space
  <1>2. old \in SeqNums /\ ForwardDiff(old, seq) = MaxPacketAge
    BY <1>1, DiffMinus
  <1> HIDE DEF old
  <1>3. ForwardDiff(s, seq) \in Nat
    BY DiffIs DEF SeqNums
  <1>4. 2 * ForwardDiff(s, seq) < SeqSpace /\ 2 * ForwardDiff(old, seq) < SeqSpace
    BY <1>2, <1>3, Bounds, Space
  <1>5. AheadOrAt(s, old) <=> ForwardDiff(s, seq) <= ForwardDiff(old, seq)
    BY <1>2, <1>4, AheadIsCloser
  <1> QED BY <1>2, <1>5 DEF old

(* A gap is every position between the newest packet and the new one.      *)
LEMMA GapWindow ==
  ASSUME NEW seq \in SeqNums, newest_seq_num_ \in SeqNums,
         ForwardDiff(newest_seq_num_, seq) \in 1 .. MaxJump
  PROVE  /\ \A s \in Gap(seq) :
              /\ s \in SeqNums
              /\ ForwardDiff(s, seq) \in 1 .. ForwardDiff(newest_seq_num_, seq) - 1
         /\ \A d \in 1 .. ForwardDiff(newest_seq_num_, seq) - 1 :
              \E s \in Gap(seq) : ForwardDiff(s, seq) = d
  <1> DEFINE n == newest_seq_num_
             j == ForwardDiff(newest_seq_num_, seq)
  <1>1. j \in Nat /\ j < SeqSpace
    BY Bounds, Space
  <1>2. ASSUME NEW i \in 1 .. j - 1
        PROVE  /\ Plus(n, i) \in SeqNums
               /\ ForwardDiff(Plus(n, i), seq) = j - i
    <2> DEFINE s == Plus(n, i)
    <2>1. i \in 0 .. SeqSpace - 1
      BY <1>1, Space
    <2>2. s \in SeqNums /\ ForwardDiff(n, s) = i
      BY <2>1, DiffPlus
    <2> HIDE DEF s
    <2>3. ForwardDiff(n, s) <= ForwardDiff(n, seq)
      BY <1>1, <2>2
    <2>4. ForwardDiff(s, seq) = ForwardDiff(n, seq) - ForwardDiff(n, s)
      BY <2>2, <2>3, DiffSubtracts
    <2> QED BY <2>2, <2>4 DEF s
  <1>3. Gap(seq) = {Plus(n, i) : i \in 1 .. j - 1}
    BY DEF Gap
  <1> HIDE DEF n, j
  <1>4. ASSUME NEW s \in Gap(seq) PROVE s \in SeqNums /\ ForwardDiff(s, seq) \in 1 .. j - 1
    <2>1. PICK i \in 1 .. j - 1 : s = Plus(n, i)
      BY <1>3
    <2> QED BY <1>1, <1>2, <2>1
  <1>5. ASSUME NEW d \in 1 .. j - 1 PROVE \E s \in Gap(seq) : ForwardDiff(s, seq) = d
    <2>1. j - d \in 1 .. j - 1
      BY <1>1
    <2>2. ForwardDiff(Plus(n, j - d), seq) = j - (j - d)
      BY <1>2, <2>1
    <2>3. Plus(n, j - d) \in Gap(seq)
      BY <1>3, <2>1
    <2> QED BY <1>1, <2>2, <2>3
  <1> QED BY <1>4, <1>5 DEF j

(* A gap has as many numbers as positions were skipped.                    *)
LEMMA GapSize ==
  ASSUME NEW seq \in SeqNums, newest_seq_num_ \in SeqNums,
         ForwardDiff(newest_seq_num_, seq) \in 1 .. MaxJump
  PROVE  ForwardDiff(newest_seq_num_, seq) - 1 <= Cardinality(Gap(seq))
  <1> DEFINE G == Gap(seq)
             m == ForwardDiff(newest_seq_num_, seq) - 1
             f == [s \in G |-> ForwardDiff(s, seq)]
  <1>1. m \in Nat
    BY Bounds
  <1>2. f \in Surjection(G, 1 .. m) /\ G \in SUBSET SeqNums
    BY GapWindow DEF Surjection
  <1> HIDE DEF f, G, m
  <1>3. IsFiniteSet(G) /\ Cardinality(G) \in Nat
    BY <1>2, ListFinite
  <1>4. Cardinality(1 .. m) <= Cardinality(G)
    BY <1>2, <1>3, FS_Surjection
  <1>5. Cardinality(1 .. m) = m
    BY <1>1, FS_Interval
  <1> QED BY <1>4, <1>5 DEF G, m

(* A set of naturals that has a member has a least one.                    *)
LEMMA LeastNat ==
  ASSUME NEW T \in SUBSET Nat, T # {}
  PROVE  \E x \in T : \A y \in T : x <= y
  <1>1. PICK x \in T : \A y \in T : ~(<<y, x>> \in OpToRel(<, Nat))
    BY NatLessThanWellFounded, WFMin
  <1>2. \A y \in T : ~(y < x)
    BY <1>1 DEF OpToRel
  <1> QED BY <1>2

(* Anchors within the age limit have an oldest one.                        *)
LEMMA OldestExists ==
  ASSUME NEW seq \in SeqNums, NEW A \in SUBSET SeqNums, A # {},
         \A k \in A : ForwardDiff(k, seq) \in 0 .. MaxPacketAge
  PROVE  OldestOf(A) \in A
  <1> DEFINE d(k) == MaxPacketAge - ForwardDiff(k, seq)
             T == {d(k) : k \in A}
  <1>1. T \in SUBSET Nat /\ T # {}
    BY Bounds
  <1>2. PICK x \in T : \A y \in T : x <= y
    <2> HIDE DEF T
    <2> QED BY <1>1, LeastNat
  <1>3. PICK k \in A : x = d(k)
    OBVIOUS
  <1>4. \A l \in A : d(k) <= d(l)
    BY <1>2, <1>3
  <1>5. ASSUME NEW l \in A PROVE AheadOrAt(l, k)
    <2>1. /\ ForwardDiff(l, seq) \in 0 .. MaxPacketAge
          /\ ForwardDiff(k, seq) \in 0 .. MaxPacketAge
          /\ k \in SeqNums /\ l \in SeqNums
      OBVIOUS
    <2>2. ForwardDiff(l, seq) <= ForwardDiff(k, seq)
      BY <1>4, <2>1, Bounds
    <2>3. 2 * ForwardDiff(l, seq) < SeqSpace /\ 2 * ForwardDiff(k, seq) < SeqSpace
      BY <2>1, Bounds, Space
    <2> QED BY <2>1, <2>2, <2>3, AheadIsCloser
  <1>6. \E o \in A : \A l \in A : AheadOrAt(l, o)
    BY <1>5
  <1> HIDE DEF T, d
  <1> QED BY <1>6 DEF OldestOf

(* AddPacketsToNack never lists more than there is room for.               *)
LEMMA KeptFits ==
  ASSUME NEW seq \in SeqNums, NEW missing \in SUBSET SeqNums, NEW keys \in SUBSET SeqNums,
         NEW gap \in SUBSET SeqNums,
         \A k \in keys : ForwardDiff(k, seq) \in 0 .. MaxPacketAge
  PROVE  /\ Kept(missing, keys, gap) \subseteq missing \cup gap
         /\ Cardinality(Kept(missing, keys, gap)) <= MaxNackPackets
         /\ KeptKeys(missing, keys, gap) \subseteq keys
         /\ Kept(missing, keys, gap) # {} => gap \subseteq Kept(missing, keys, gap)
  <1>1. ASSUME NEW S \in SUBSET SeqNums, Fits(S, gap) PROVE Cardinality(S \cup gap) <= MaxNackPackets
    <2>1. /\ IsFiniteSet(S) /\ IsFiniteSet(gap) /\ Cardinality(S) \in Nat
          /\ Cardinality(gap) \in Nat /\ Cardinality(S \cap gap) \in Nat
      BY ListFinite
    <2>2. Cardinality(S \cup gap) = Cardinality(S) + Cardinality(gap) - Cardinality(S \cap gap)
      BY <2>1, FS_Union
    <2> QED BY <1>1, <2>1, <2>2, Bounds DEF Fits
  <1>2. CASE Fits(missing, gap)
    BY <1>1, <1>2 DEF Kept, KeptKeys
  <1>3. CASE ~Fits(missing, gap) /\ Anchors(missing, keys, gap) # {}
    <2> DEFINE A == Anchors(missing, keys, gap)
               k == OldestOf(A)
    <2>1. A \in SUBSET keys
      BY DEF Anchors
    <2>2. k \in A
      <3> HIDE DEF A
      <3>1. A # {} /\ A \in SUBSET SeqNums /\ \A l \in A : ForwardDiff(l, seq) \in 0 .. MaxPacketAge
        BY <1>3, <2>1 DEF A
      <3> QED BY <3>1, OldestExists
    <2>3. Fits(NotOlder(missing, k), gap)
      <3> HIDE DEF k
      <3> QED BY <2>2 DEF Anchors
    <2>4. /\ Kept(missing, keys, gap) = NotOlder(missing, k) \cup gap
          /\ KeptKeys(missing, keys, gap) = NotOlder(keys, k)
      BY <1>3 DEF Kept, KeptKeys
    <2>5. NotOlder(missing, k) \subseteq missing /\ NotOlder(keys, k) \subseteq keys
      BY DEF NotOlder
    <2> HIDE DEF k, A
    <2>6. Cardinality(NotOlder(missing, k) \cup gap) <= MaxNackPackets
      BY <1>1, <2>3, <2>5
    <2> QED BY <2>4, <2>5, <2>6
  <1>4. CASE ~Fits(missing, gap) /\ Anchors(missing, keys, gap) = {}
    <2>1. Kept(missing, keys, gap) = {} /\ KeptKeys(missing, keys, gap) = {}
      BY <1>4 DEF Kept, KeptKeys
    <2> QED BY <2>1, FS_EmptySet, Bounds
  <1> QED BY <1>2, <1>3, <1>4

(* The list that a new packet makes, before anything is NACKed, agrees     *)
(* with the history as seen from the new packet.                           *)
LEMMA NewList ==
  ASSUME IInv, NEW seq \in SeqNums, NEW kept, NEW pos,
         ForwardDiff(newest_seq_num_, seq) \in 1 .. MaxJump,
         pos = front + ForwardDiff(newest_seq_num_, seq), pos <= MaxAdvance,
         kept \subseteq NotOlder(DOMAIN nack_list_, Plus(seq, -MaxPacketAge)) \cup Gap(seq),
         kept # {} => ForwardDiff(newest_seq_num_, seq) <= MaxPacketAge
  PROVE  Consistent(AddPacketsToNack(kept, Gap(seq)), seq, pos, nacks, since)
  <1> USE Bounds
  <1> DEFINE n == newest_seq_num_
             j == ForwardDiff(newest_seq_num_, seq)
             list == AddPacketsToNack(kept, Gap(seq))
  <1>1. /\ n \in SeqNums /\ front \in Nat /\ front \in Positions /\ wait \in 0 .. MaxWait
        /\ Consistent(nack_list_, n, front, nacks, since) /\ Untouched
    BY DEF IInv, TypeOK, Positions
  <1>2. j \in Nat /\ pos \in Positions
    BY <1>1 DEF Positions
  <1>3. DOMAIN list = kept
    BY DEF AddPacketsToNack
  <1>4. ASSUME NEW s \in kept
        PROVE  /\ s \in SeqNums /\ list[s] \in NackInfo
               /\ ForwardDiff(s, seq) \in 1 .. MaxPacketAge /\ pos - ForwardDiff(s, seq) >= 1
               /\ nacks[pos - ForwardDiff(s, seq)] = list[s].retries
               /\ since[pos - ForwardDiff(s, seq)] = list[s].send_at_time
    <2>1. CASE s \in Gap(seq)
      <3>1. s \in SeqNums /\ ForwardDiff(s, seq) \in 1 .. j - 1
        BY <1>1, <2>1, GapWindow
      <3>2. list[s] = [send_at_seq_num |-> Plus(s, wait), send_at_time |-> Never, retries |-> 0]
        BY <2>1 DEF AddPacketsToNack
      <3>3. Plus(s, wait) \in SeqNums
        BY <1>1, <3>1, Space DEF Plus, SeqNums
      <3>4. /\ list[s] \in NackInfo /\ list[s].retries = 0 /\ list[s].send_at_time = Never
        <4> HIDE DEF list
        <4> QED BY <3>2, <3>3 DEF NackInfo
      <3> DEFINE i == pos - ForwardDiff(s, seq)
      <3>5. i \in Positions /\ i > front /\ i >= 1
        BY <1>1, <1>2, <3>1 DEF Positions
      <3>6. nacks[i] = 0 /\ since[i] = Never
        <4> HIDE DEF i
        <4> QED BY <1>1, <3>5 DEF Untouched
      <3>7. ForwardDiff(s, seq) \in 1 .. MaxPacketAge
        BY <1>2, <3>1
      <3> QED BY <3>1, <3>4, <3>5, <3>6, <3>7
    <2>2. CASE s \notin Gap(seq)
      <3>1. s \in DOMAIN nack_list_ /\ AheadOrAt(s, Plus(seq, -MaxPacketAge))
        BY <2>2 DEF NotOlder
      <3>2. /\ s \in SeqNums /\ nack_list_[s] \in NackInfo
            /\ ForwardDiff(s, n) \in 1 .. MaxPacketAge /\ front - ForwardDiff(s, n) >= 1
            /\ nacks[front - ForwardDiff(s, n)] = nack_list_[s].retries
            /\ since[front - ForwardDiff(s, n)] = nack_list_[s].send_at_time
        BY <1>1, <3>1 DEF Consistent
      <3>3. ForwardDiff(s, seq) = ForwardDiff(s, n) + j
        BY <1>1, <3>2, Rebase
      <3>4. ForwardDiff(s, seq) <= MaxPacketAge
        <4>1. ForwardDiff(s, seq) <= MaxPacketAge + MaxJump
          BY <1>2, <3>2, <3>3
        <4> QED BY <3>1, <3>2, <4>1, Recent
      <3>5. pos - ForwardDiff(s, seq) = front - ForwardDiff(s, n)
        BY <1>1, <1>2, <3>2, <3>3
      <3>6. list[s] = nack_list_[s]
        BY <2>2 DEF AddPacketsToNack
      <3> HIDE DEF list
      <3> QED BY <1>2, <3>2, <3>3, <3>4, <3>5, <3>6
    <2> QED BY <2>1, <2>2
  <1> HIDE DEF list
  <1>5. Consistent(list, seq, pos, nacks, since)
    BY <1>3, <1>4 DEF Consistent
  <1> QED BY <1>5 DEF list

(* A packet ahead of the newest: pruning, overflow, the gap, and the       *)
(* NACKs.                                                                  *)
LEMMA NewPacketStep ==
  ASSUME IInv, NEW seq \in SeqNums, NEW key \in BOOLEAN, NewPacket(seq, key)
  PROVE  IInv' /\ Backoff
  <1> USE Bounds
  <1> DEFINE n == newest_seq_num_
             j == ForwardDiff(n, seq)
             oldest == Plus(seq, -MaxPacketAge)
             some == keyframe_list_ \cup (IF key THEN {seq} ELSE {})
             keys == NotOlder(some, oldest)
             missing == NotOlder(DOMAIN nack_list_, oldest)
             gap == Gap(seq)
             kept == Kept(missing, keys, gap)
             list == AddPacketsToNack(kept, gap)
             batch == BySeqNum(list, seq)
             pos == front + j
             P(s) == pos - ForwardDiff(s, seq)
  <1>1. /\ initialized_ /\ seq # n /\ j <= MaxJump /\ pos <= MaxAdvance
        /\ keyframe_list_' = KeptKeys(missing, keys, gap)
        /\ newest_seq_num_' = seq
        /\ SendNacks(list, batch, At(batch, seq, pos))
        /\ front' = pos /\ received' = received \cup {pos}
        /\ dropped' = dropped \cup At((missing \cup gap) \ kept, seq, pos)
        /\ initialized_' = initialized_ /\ rtt_ms_' = rtt_ms_ /\ wait' = wait
    BY DEF NewPacket
  <1>2. /\ TypeOK /\ Consistent(nack_list_, n, front, nacks, since) /\ Untouched /\ Room
        /\ NotReceived /\ GapsListed /\ KeysInWindow
    BY DEF IInv
  <1>3. /\ n \in SeqNums /\ front \in Positions /\ front \in Nat
        /\ nacks \in [Positions -> Nat] /\ since \in [Positions -> Ages \cup {Never}]
        /\ DOMAIN nack_list_ \subseteq SeqNums /\ keyframe_list_ \subseteq SeqNums
        /\ received \subseteq Positions /\ dropped \subseteq Positions
    BY <1>2 DEF TypeOK, Positions
  <1>4. j \in 1 .. MaxJump
    <2>1. j \in SeqNums /\ j # 0
      BY <1>1, <1>3, DiffIs, DiffSelf
    <2> QED BY <1>1, <2>1 DEF SeqNums
  <1>5. pos \in Positions /\ pos > front /\ pos \in Nat
    BY <1>1, <1>3, <1>4 DEF Positions
  <1>6. /\ \A s \in gap : s \in SeqNums /\ ForwardDiff(s, seq) \in 1 .. j - 1
        /\ \A d \in 1 .. j - 1 : \E s \in gap : ForwardDiff(s, seq) = d
    BY <1>3, <1>4, GapWindow
  <1>7. ASSUME NEW s \in DOMAIN nack_list_
        PROVE  /\ s \in SeqNums /\ ForwardDiff(s, seq) = ForwardDiff(s, n) + j
               /\ ForwardDiff(s, n) \in 1 .. MaxPacketAge
               /\ P(s) = front - ForwardDiff(s, n) /\ P(s) >= 1
               /\ s \in missing <=> ForwardDiff(s, seq) <= MaxPacketAge
    <2>1. /\ s \in SeqNums /\ ForwardDiff(s, n) \in 1 .. MaxPacketAge
          /\ front - ForwardDiff(s, n) >= 1
      BY <1>2, <1>3 DEF Consistent
    <2>2. ForwardDiff(s, seq) = ForwardDiff(s, n) + j
      BY <1>3, <1>4, <2>1, Rebase
    <2>3. ForwardDiff(s, seq) <= MaxPacketAge + MaxJump
      BY <1>4, <2>1, <2>2
    <2>4. AheadOrAt(s, oldest) <=> ForwardDiff(s, seq) <= MaxPacketAge
      BY <2>1, <2>3, Recent
    <2>5. s \in missing <=> AheadOrAt(s, oldest)
      BY DEF NotOlder
    <2> QED BY <1>3, <1>4, <2>1, <2>2, <2>4, <2>5
  <1>8. \A k \in keys : k \in SeqNums /\ ForwardDiff(k, seq) \in 0 .. MaxPacketAge
    <2> SUFFICES ASSUME NEW k \in keys
                 PROVE  k \in SeqNums /\ ForwardDiff(k, seq) \in 0 .. MaxPacketAge
      OBVIOUS
    <2>1. k \in some /\ AheadOrAt(k, oldest)
      BY DEF NotOlder
    <2>2. CASE k \in keyframe_list_
      <3>1. k \in SeqNums /\ ForwardDiff(k, n) \in 0 .. MaxPacketAge
        BY <1>2, <1>3, <2>2 DEF KeysInWindow
      <3>2. ForwardDiff(k, seq) = ForwardDiff(k, n) + j
        BY <1>3, <1>4, <3>1, Rebase
      <3>3. ForwardDiff(k, seq) <= MaxPacketAge + MaxJump
        BY <1>4, <3>1, <3>2
      <3>4. ForwardDiff(k, seq) <= MaxPacketAge
        BY <2>1, <3>1, <3>3, Recent
      <3> QED BY <1>4, <3>1, <3>2, <3>4
    <2>3. CASE k = seq
      BY <2>3, DiffSelf
    <2> QED BY <2>1, <2>2, <2>3
  <1>9. missing \subseteq DOMAIN nack_list_ /\ missing \in SUBSET SeqNums /\ gap \in SUBSET SeqNums
        /\ keys \in SUBSET SeqNums
    BY <1>3, <1>6, <1>8 DEF NotOlder
  <1>10. /\ kept \subseteq missing \cup gap /\ Cardinality(kept) <= MaxNackPackets
         /\ KeptKeys(missing, keys, gap) \subseteq keys
         /\ kept # {} => gap \subseteq kept
    <2> HIDE DEF missing, keys, gap
    <2> QED BY <1>8, <1>9, KeptFits
  <1> HIDE DEF kept
  <1>11. DOMAIN list = kept /\ batch \in SUBSET DOMAIN list
    BY DEF AddPacketsToNack, BySeqNum
  <1>12. Consistent(list, seq, pos, nacks, since)
    <2>1. ASSUME kept # {} PROVE j <= MaxPacketAge
      <3>1. kept \in SUBSET SeqNums
        BY <1>9, <1>10
      <3>2. Cardinality(gap) <= MaxNackPackets /\ Cardinality(gap) \in Nat
        BY <1>9, <1>10, <2>1, <3>1, SmallerSet, ListFinite
      <3>3. j - 1 <= Cardinality(gap)
        BY <1>3, <1>4, GapSize
      <3> HIDE DEF gap, j
      <3> QED BY <1>4, <3>2, <3>3
    <2> QED BY <1>1, <1>4, <1>10, <2>1, NewList
  <1> HIDE DEF list, batch, pos, j, missing, keys, gap
  <1>13. BatchSent(list, batch, seq, pos)
    <2>1. \A i \in Positions : nacks[i] = 0 <=> since[i] = Never
      BY <1>2 DEF Untouched
    <2> QED BY ONLY <1>1, <1>3, <1>5, <1>11, <1>12, <2>1, seq \in SeqNums, Batch
  <1>14. DOMAIN nack_list_' \subseteq kept /\ kept \subseteq SeqNums
    BY <1>9, <1>10, <1>11, <1>13 DEF BatchSent
  <1>15. \A s \in kept : P(s) \in Positions /\ P(s) < pos /\ P(s) >= 1 /\ list[s].retries < MaxNackRetries
                          /\ nacks[P(s)] = list[s].retries
    BY <1>5, <1>11, <1>12, PositionType DEF NackInfo
  <1>16. TypeOK'
    <2>1. keyframe_list_' \subseteq SeqNums
      BY <1>1, <1>9, <1>10
    <2>2. dropped' \subseteq Positions
      <3>1. \A s \in missing \cup gap : P(s) \in Positions
        <4>1. \A s \in missing : P(s) \in Positions
          <5>1. \A s \in missing : /\ front - ForwardDiff(s, n) \in Positions
                                    /\ P(s) = front - ForwardDiff(s, n)
            BY <1>2, <1>3, <1>7, <1>9, PositionType
          <5> QED BY <5>1
        <4>2. \A s \in gap : P(s) \in Positions
          BY <1>3, <1>4, <1>5, <1>6 DEF Positions, pos
        <4> QED BY <4>1, <4>2
      <3> QED BY <1>1, <1>3, <3>1 DEF At
    <2>3. /\ DOMAIN nack_list_' \subseteq SeqNums
          /\ \A s \in DOMAIN nack_list_' : nack_list_'[s] \in NackInfo
          /\ nacks' \in [Positions -> Nat] /\ since' \in [Positions -> Ages \cup {Never}]
      BY <1>13 DEF BatchSent, Consistent
    <2> QED BY <1>1, <1>2, <1>3, <1>5, <2>1, <2>2, <2>3 DEF TypeOK
  <1>17. Consistent(nack_list_', newest_seq_num_', front', nacks', since')
    BY <1>1, <1>13 DEF BatchSent
  <1>18. Untouched'
    <2>1. \A i \in Positions : i > pos => nacks'[i] = 0
      <3> SUFFICES ASSUME NEW i \in Positions, i > pos PROVE nacks'[i] = 0
        OBVIOUS
      <3>1. i \notin At(batch, seq, pos)
        BY <1>5, <1>11, <1>15 DEF At, Positions
      <3>2. i > front
        BY <1>3, <1>5 DEF Positions
      <3> QED BY <1>2, <1>13, <3>1, <3>2 DEF BatchSent, Untouched
    <2>2. \A i \in received' : i <= pos
      <3>1. \A i \in received : i \in Nat /\ i <= front
        BY <1>2, <1>3 DEF Untouched, Positions
      <3>2. \A i \in received : i <= pos
        BY <1>3, <1>5, <3>1
      <3> QED BY <1>1, <1>5, <3>2
    <2> QED BY <1>1, <1>13, <2>1, <2>2 DEF Untouched, BatchSent
  <1>19. KeysInWindow'
    BY <1>1, <1>8, <1>10 DEF KeysInWindow
  <1>20. Room'
    BY <1>10, <1>14, SmallerSet DEF Room
  <1>21. Listed = {front - ForwardDiff(s, n) : s \in DOMAIN nack_list_}
         /\ Listed' = {P(s) : s \in DOMAIN nack_list_'}
    BY <1>1 DEF Listed, At
  <1>22. NotReceived'
    <2> SUFFICES ASSUME NEW s \in DOMAIN nack_list_' PROVE P(s) \notin received'
      BY <1>21 DEF NotReceived
    <2>1. s \in kept /\ P(s) \in Positions /\ P(s) < pos
      BY <1>14, <1>15
    <2>2. CASE s \in gap
      <3>1. P(s) > front
        BY <1>3, <1>4, <1>6, <2>2 DEF pos
      <3>2. P(s) \notin received
        BY <1>2, <1>3, <2>1, <3>1 DEF Untouched, Positions
      <3> QED BY <1>1, <1>5, <2>1, <3>2 DEF Positions
    <2>3. CASE s \in missing
      <3>1. P(s) \in Listed
        BY <1>7, <1>9, <1>21, <2>3
      <3> QED BY <1>1, <1>2, <1>5, <2>1, <3>1 DEF NotReceived, Positions
    <2> QED BY <1>10, <2>1, <2>2, <2>3
  <1>23. GapsListed'
    <2> SUFFICES ASSUME NEW i \in 1 .. pos
                 PROVE  \/ i \in received' \cup dropped' \cup Listed'
                        \/ nacks'[i] = MaxNackRetries
                        \/ pos - i > MaxPacketAge
      BY <1>1 DEF GapsListed
    <2>1. i \in Positions /\ i \in Nat
      BY <1>5 DEF Positions
    <2>2. ASSUME NEW s \in missing \cup gap, i = P(s)
          PROVE  i \in dropped' \cup Listed' \/ nacks'[i] = MaxNackRetries
      <3>1. CASE s \notin kept
        BY <1>1, <2>2, <3>1 DEF At
      <3>2. CASE s \in kept /\ s \in GivenUp(list, batch)
        BY <1>13, <2>2, <3>2 DEF BatchSent
      <3>3. CASE s \in kept /\ s \notin GivenUp(list, batch)
        <4>1. s \in DOMAIN nack_list_'
          BY <1>11, <1>13, <3>3 DEF BatchSent
        <4> QED BY <1>21, <2>2, <4>1
      <3> QED BY <3>1, <3>2, <3>3
    <2>3. CASE i = pos
      BY <1>1, <2>3
    <2>4. CASE front < i /\ i < pos
      <3>1. pos - i \in 1 .. j - 1
        BY <1>3, <1>4, <2>1, <2>4 DEF pos
      <3>2. PICK s \in gap : ForwardDiff(s, seq) = pos - i
        BY <1>6, <3>1
      <3>3. i = P(s)
        BY <1>5, <2>1, <3>2
      <3> QED BY <2>2, <3>3
    <2>5. CASE i <= front
      <3>1. \/ i \in received \cup dropped \cup Listed
            \/ nacks[i] = MaxNackRetries
            \/ front - i > MaxPacketAge
        BY <1>2, <1>3, <2>1, <2>5 DEF GapsListed
      <3>2. CASE i \in received \cup dropped
        BY <1>1, <3>2
      <3>3. CASE i \in Listed
        <4>1. PICK s \in DOMAIN nack_list_ : i = front - ForwardDiff(s, n)
          BY <1>21, <3>3
        <4>2. /\ i = P(s)
              /\ s \in missing <=> ForwardDiff(s, seq) <= MaxPacketAge
              /\ ForwardDiff(s, seq) = ForwardDiff(s, n) + j
              /\ ForwardDiff(s, n) \in Nat /\ P(s) = pos - ForwardDiff(s, seq)
          BY <1>7, <4>1
        <4>3. CASE s \in missing
          BY <2>2, <4>2, <4>3
        <4>4. CASE s \notin missing
          <5>1. ForwardDiff(s, seq) \in Nat /\ ForwardDiff(s, seq) > MaxPacketAge
            BY <1>4, <4>2, <4>4
          <5> QED BY <1>5, <2>1, <4>2, <5>1
        <4> QED BY <4>3, <4>4
      <3>4. CASE nacks[i] = MaxNackRetries
        <4>1. i \notin At(batch, seq, pos)
          <5> SUFFICES ASSUME NEW s \in batch, i = P(s) PROVE FALSE
            BY DEF At
          <5>1. s \in kept
            BY <1>11
          <5>2. nacks[i] = list[s].retries /\ list[s].retries < MaxNackRetries /\ nacks[i] \in Nat
            BY <1>3, <1>15, <2>1, <5>1
          <5> QED BY <3>4, <5>2
        <4> QED BY <1>13, <2>1, <3>4, <4>1 DEF BatchSent
      <3>5. CASE front - i > MaxPacketAge
        BY <1>3, <1>5, <2>1, <3>5
      <3> QED BY <3>1, <3>2, <3>3, <3>4, <3>5
    <2> QED BY <1>3, <1>5, <2>1, <2>3, <2>4, <2>5
  <1>24. Uninitialized'
    BY <1>1 DEF Uninitialized
  <1>25. Backoff
    <2>1. \A i \in Positions : nacks[i] = 0 <=> since[i] = Never
      BY <1>2 DEF Untouched
    <2>2. \A s \in batch : list[s].send_at_time = Never
      BY DEF batch, BySeqNum
    <2> QED BY ONLY <1>3, <1>5, <1>11, <1>12, <1>13, <2>1, <2>2, seq \in SeqNums, BatchIsLate
  <1> QED BY <1>16, <1>17, <1>18, <1>19, <1>20, <1>22, <1>23, <1>24, <1>25 DEF IInv

(* A new round-trip time changes nothing else.                             *)
LEMMA UpdateRttStep ==
  ASSUME IInv, NEW rtt \in Rtts, UpdateRtt(rtt)
  PROVE  IInv'
  BY Bounds DEF IInv, UpdateRtt, TypeOK, Untouched, KeysInWindow, Uninitialized, Room,
                NotReceived, Listed, GapsListed

(* Ages stay ages, and what was never NACKed remains so.                   *)
LEMMA OlderAge ==
  ASSUME NEW a \in Ages \cup {Never}
  PROVE  Older(a) \in Ages \cup {Never} /\ (Older(a) = Never <=> a = Never)
  BY Bounds DEF Ages, Never, Older

(* The passing of time ages list and history alike.                        *)
LEMMA TickStep ==
  ASSUME IInv, Tick
  PROVE  IInv'
  <1> DEFINE new(s) == [nack_list_[s] EXCEPT !.send_at_time = Older(@)]
             P(s) == front - ForwardDiff(s, newest_seq_num_)
  <1>1. /\ nack_list_' = [s \in DOMAIN nack_list_ |-> new(s)]
        /\ since' = [i \in Positions |-> Older(since[i])]
        /\ initialized_' = initialized_ /\ newest_seq_num_' = newest_seq_num_
        /\ keyframe_list_' = keyframe_list_ /\ rtt_ms_' = rtt_ms_ /\ wait' = wait
        /\ front' = front /\ received' = received /\ dropped' = dropped /\ nacks' = nacks
    BY DEF Tick
  <1>2. /\ TypeOK /\ Consistent(nack_list_, newest_seq_num_, front, nacks, since) /\ Untouched
        /\ Room /\ NotReceived /\ GapsListed /\ KeysInWindow /\ Uninitialized
        /\ newest_seq_num_ \in SeqNums /\ front \in Positions
        /\ since \in [Positions -> Ages \cup {Never}]
    BY DEF IInv, TypeOK
  <1>3. ASSUME NEW s \in DOMAIN nack_list_
        PROVE  /\ nack_list_'[s] \in NackInfo /\ P(s) \in Positions
               /\ nack_list_'[s].retries = nack_list_[s].retries
               /\ nack_list_'[s].send_at_time = Older(nack_list_[s].send_at_time)
    <2>1. nack_list_[s] \in NackInfo /\ P(s) \in Positions
      BY <1>2, PositionType
    <2>2. Older(nack_list_[s].send_at_time) \in Ages \cup {Never}
      BY <2>1, OlderAge DEF NackInfo
    <2>3. /\ new(s) \in NackInfo /\ new(s).retries = nack_list_[s].retries
          /\ new(s).send_at_time = Older(nack_list_[s].send_at_time)
      BY <2>1, <2>2 DEF NackInfo
    <2> HIDE DEF new
    <2> QED BY <1>1, <2>1, <2>3
  <1>4. DOMAIN nack_list_' = DOMAIN nack_list_
    BY <1>1
  <1>5. /\ since' \in [Positions -> Ages \cup {Never}]
        /\ \A i \in Positions : since'[i] = Never <=> since[i] = Never
        /\ \A i \in Positions : since'[i] = Older(since[i])
    BY <1>1, <1>2, OlderAge
  <1>6. TypeOK'
    BY <1>1, <1>2, <1>3, <1>4, <1>5 DEF TypeOK
  <1>7. Consistent(nack_list_', newest_seq_num_', front', nacks', since')
    BY <1>1, <1>2, <1>3, <1>4, <1>5 DEF Consistent
  <1>8. Untouched'
    BY <1>1, <1>2, <1>5 DEF Untouched
  <1>9. Listed' = Listed
    BY <1>1, <1>4 DEF Listed, At
  <1>10. Uninitialized'
    <2> SUFFICES ASSUME ~initialized_ PROVE nack_list_' = [s \in {} |-> Never]
      BY <1>1, <1>2 DEF Uninitialized
    <2>1. nack_list_ = [s \in {} |-> Never]
      BY <1>2 DEF Uninitialized
    <2>2. DOMAIN nack_list_ = {}
      BY <2>1
    <2> HIDE DEF new
    <2> QED BY <1>1, <2>2
  <1> QED BY <1>1, <1>2, <1>4, <1>6, <1>7, <1>8, <1>9, <1>10
          DEF IInv, KeysInWindow, Room, NotReceived, GapsListed

----------------------------------------------------------------------------
(* The invariant holds in every state of the NACK requester.               *)
THEOREM Invariance == Spec => []IInv
  <1>1. IInv /\ [Next]_vars => IInv'
    <2> SUFFICES ASSUME IInv, [Next]_vars PROVE IInv'
      OBVIOUS
    <2>1. CASE UNCHANGED vars
      BY <2>1 DEF vars, code, IInv, TypeOK, Untouched, KeysInWindow, Uninitialized, Room,
                  NotReceived, Listed, GapsListed
    <2> QED BY <2>1, FirstPacketStep, OldPacketStep, NewPacketStep, ProcessNacksStep,
               UpdateRttStep, TickStep DEF Next
  <1> QED BY <1>1, InitInv, PTL DEF Spec

(* nack_list_ holds only packets that did not arrive, is never larger than *)
(* kMaxNackPackets and lies within kMaxPacketAge behind newest_seq_num_,   *)
(* however often the sequence numbers wrap around.  The list is bounded by *)
(* Kept: a gap wider than the age limit is never listed because it is      *)
(* larger than the list.                                                   *)
THEOREM ListIsMissing == Spec => []ListedIsMissing
  <1>1. IInv => ListedIsMissing
    BY DEF IInv, ListedIsMissing, ListBounded, NotReceived, Room, Consistent
  <1> QED BY <1>1, Invariance, PTL

(* AddPacketsToNack, GetNackBatch and the removals by age and for lack of  *)
(* room forget no gap: what was skipped is received, listed, too old,      *)
(* dropped for lack of room or was NACKed kMaxNackRetries times.           *)
THEOREM NoGapForgotten == Spec => []GapsListed
  <1>1. IInv => GapsListed
    BY DEF IInv
  <1> QED BY <1>1, Invariance, PTL

(* A packet is NACKed again only when more than the current RTT has passed *)
(* since it last was, by whichever of the two triggers: the arrival of     *)
(* packets only sends first NACKs, the timer keeps the distance.           *)
THEOREM RepeatsKeepDistance == Spec => RepeatsAfterRtt
  <1>1. IInv /\ [Next]_vars => [Backoff]_vars
    <2> SUFFICES ASSUME IInv, Next PROVE Backoff
      OBVIOUS
    <2>1. /\ since \in [Positions -> Ages \cup {Never}] /\ nacks \in [Positions -> Nat]
          /\ \A i \in Positions : nacks[i] = 0 <=> since[i] = Never
          /\ newest_seq_num_ \in SeqNums /\ front \in Positions
          /\ Consistent(nack_list_, newest_seq_num_, front, nacks, since)
      BY DEF IInv, TypeOK, Untouched
    <2>2. ASSUME nacks' = nacks PROVE Backoff
      BY <2>1, <2>2 DEF Backoff
    <2>3. CASE ProcessNacks
      <3> DEFINE batch == ByTime(nack_list_)
      <3>1. /\ SendNacks(nack_list_, batch, At(batch, newest_seq_num_, front))
            /\ batch \in SUBSET DOMAIN nack_list_
            /\ \A s \in batch : \/ nack_list_[s].send_at_time = Never
                                 \/ nack_list_[s].send_at_time > rtt_ms_
        BY <2>3 DEF ProcessNacks, ByTime
      <3> HIDE DEF batch
      <3>2. BatchSent(nack_list_, batch, newest_seq_num_, front)
        BY ONLY <2>1, <3>1, Batch
      <3> QED BY ONLY <2>1, <3>1, <3>2, BatchIsLate
    <2>4. ASSUME NEW seq \in SeqNums, NEW key \in BOOLEAN, NewPacket(seq, key) PROVE Backoff
      BY <2>4, NewPacketStep
    <2> QED BY <2>2, <2>3, <2>4 DEF Next, FirstPacket, OldPacket, UpdateRtt, Tick
  <1> QED BY <1>1, Invariance, PTL DEF Spec, RepeatsAfterRtt, Backoff
=============================================================================
