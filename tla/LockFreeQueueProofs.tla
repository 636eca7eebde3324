------------------------ MODULE LockFreeQueueProofs ------------------------
(***************************************************************************)
(* Proofs about LockFreeQueue for any set of values and any number of      *)
(* nodes: memory safety, the counter, and that the list implements         *)
(* FifoQueue.                                                              *)
(***************************************************************************)
EXTENDS LockFreeQueue, SequenceTheorems, TLAPS

(* The three pointers cut the list in the deleted, the consumed and the    *)
(* pending part, and each is the length of a history.                      *)
PointersInOrder ==
  /\ last = Len(input) /\ divider = Len(output)
  /\ first <= divider /\ divider <= last
  /\ freed = 0 .. (first - 1)

(* The list is one chain in allocation order, with at most the node being  *)
(* produced beyond last, and it holds the values published.                *)
Chain ==
  /\ allocated = IF pPc = "linked" THEN last + 1 ELSE last
  /\ \A n \in Nodes : n < last => next[n] = n + 1
  /\ \A n \in Nodes : 0 < n /\ n <= last => value[n] = input[n]

(* What each thread knows in the middle of its call.                       *)
ThreadFacts ==
  /\ pPc = "linked" => /\ next[last] = last + 1
                       /\ value[last + 1] = arg
                       /\ arg \in Values
  /\ pPc = "free" => first < divider
  /\ cPc \in {"nonempty", "read"} => divider < last
  /\ cPc = "read" => result = value[divider + 1]

IInv ==
  /\ TypeOK
  /\ PointersInOrder
  /\ Chain
  /\ ThreadFacts
  /\ SizeTracksLength

(* The constructor's list satisfies the invariant.                         *)
LEMMA InitIInv == Init => IInv
  BY MaxNodesAssumption
  DEF Init, IInv, TypeOK, PointersInOrder, Chain, ThreadFacts,
      SizeTracksLength, Nodes, Null

(* Every access of Produce keeps the invariant.                            *)
LEMMA ProduceIInv == ASSUME IInv, Produce PROVE IInv'
  <1> USE MaxNodesAssumption DEF Nodes, Null, heap, producer, consumer
  <1>1. CASE \E t \in Values : LinkNode(t)
    <2>1. PICK t \in Values : LinkNode(t)
      BY <1>1
    <2>2. TypeOK'
      BY <2>1 DEF LinkNode, IInv, TypeOK
    <2>3. PointersInOrder'
      BY <2>1 DEF LinkNode, IInv, TypeOK, PointersInOrder
    <2>4. Chain'
      BY <2>1 DEF LinkNode, IInv, TypeOK, PointersInOrder, Chain
    <2>5. ThreadFacts'
      BY <2>1 DEF LinkNode, IInv, TypeOK, PointersInOrder, Chain, ThreadFacts
    <2>6. SizeTracksLength'
      BY <2>1 DEF LinkNode, IInv, SizeTracksLength
    <2> QED BY <2>2, <2>3, <2>4, <2>5, <2>6 DEF IInv
  <1>2. CASE AdvanceLast
    <2>1. /\ last' = last + 1
          /\ last + 1 \in Nodes
          /\ input' = Append(input, arg)
          /\ Len(input') = Len(input) + 1
          /\ input' \in Seq(Values \cup {NoValue})
      BY <1>2 DEF AdvanceLast, IInv, TypeOK, Chain, ThreadFacts
    <2>2. TypeOK'
      BY <1>2, <2>1 DEF AdvanceLast, IInv, TypeOK
    <2>3. PointersInOrder'
      BY <1>2, <2>1 DEF AdvanceLast, IInv, TypeOK, PointersInOrder
    <2>4. Chain'
      <3>1. allocated' = last'
        BY <1>2, <2>1 DEF AdvanceLast, IInv, TypeOK, Chain
      <3>2. ASSUME NEW n \in Nodes, n < last' PROVE next'[n] = n + 1
        <4>1. next' = next /\ next[last] = last + 1
          BY <1>2 DEF AdvanceLast, IInv, ThreadFacts
        <4>2. n < last \/ n = last
          BY <2>1, <3>2 DEF IInv, TypeOK
        <4> QED BY <4>1, <4>2 DEF IInv, Chain
      <3>3. ASSUME NEW n \in Nodes, 0 < n, n <= last'
            PROVE value'[n] = input'[n]
        <4>1. CASE n <= last
          <5>1. input'[n] = input[n]
            BY <3>3, <4>1, <2>1 DEF IInv, TypeOK, PointersInOrder
          <5> QED BY <5>1, <3>3, <4>1, <1>2 DEF AdvanceLast, IInv, Chain
        <4>2. CASE n = last + 1
          <5>1. input'[n] = arg
            BY <3>3, <4>2, <2>1 DEF IInv, TypeOK, PointersInOrder
          <5> QED BY <5>1, <4>2, <1>2 DEF AdvanceLast, IInv, ThreadFacts
        <4>3. n <= last \/ n = last + 1
          BY <3>3, <2>1 DEF IInv, TypeOK
        <4> QED BY <4>1, <4>2, <4>3
      <3>4. pPc' # "linked"
        BY <1>2 DEF AdvanceLast
      <3> QED BY <3>1, <3>2, <3>3, <3>4 DEF Chain
    <2>5. ThreadFacts'
      BY <1>2, <2>1 DEF AdvanceLast, IInv, TypeOK, ThreadFacts
    <2>6. SizeTracksLength'
      BY <1>2, <2>1 DEF AdvanceLast, IInv, TypeOK, SizeTracksLength
    <2> QED BY <2>2, <2>3, <2>4, <2>5, <2>6 DEF IInv
  <1>3. CASE IncSize
    BY <1>3 DEF IncSize, IInv, TypeOK, PointersInOrder, Chain, ThreadFacts,
                SizeTracksLength
  <1>4. CASE ReclaimTest
    <2>1. first' < divider' \/ pPc' = "idle"
      BY <1>4 DEF ReclaimTest, IInv, TypeOK, PointersInOrder
    <2> QED BY <1>4, <2>1 DEF ReclaimTest, IInv, TypeOK, PointersInOrder,
                 Chain, ThreadFacts, SizeTracksLength
  <1>5. CASE FreeFirst
    <2>1. /\ first' = first + 1
          /\ first + 1 <= divider
          /\ freed' = 0 .. first
      BY <1>5 DEF FreeFirst, IInv, TypeOK, PointersInOrder, Chain, ThreadFacts
    <2>2. TypeOK'
      BY <1>5, <2>1 DEF FreeFirst, IInv, TypeOK, PointersInOrder
    <2>3. PointersInOrder'
      BY <1>5, <2>1 DEF FreeFirst, IInv, TypeOK, PointersInOrder
    <2>4. Chain' /\ ThreadFacts' /\ SizeTracksLength'
      BY <1>5 DEF FreeFirst, IInv, TypeOK, Chain, ThreadFacts, SizeTracksLength
    <2> QED BY <2>2, <2>3, <2>4 DEF IInv
  <1> QED BY <1>1, <1>2, <1>3, <1>4, <1>5 DEF Produce

(* Every access of Consume keeps the invariant.                            *)
LEMMA ConsumeIInv == ASSUME IInv, Consume PROVE IInv'
  <1> USE MaxNodesAssumption DEF Nodes, Null, heap, producer, consumer
  <1>1. CASE ConsumeTest
    <2>1. divider < last
      BY <1>1 DEF ConsumeTest, IInv, TypeOK, PointersInOrder
    <2> QED BY <1>1, <2>1 DEF ConsumeTest, IInv, TypeOK, PointersInOrder,
                 Chain, ThreadFacts, SizeTracksLength
  <1>2. CASE ReadValue
    <2>1. next[divider] = divider + 1 /\ divider + 1 \in Nodes
      BY <1>2 DEF ReadValue, IInv, TypeOK, Chain, ThreadFacts
    <2> QED BY <1>2, <2>1 DEF ReadValue, IInv, TypeOK, PointersInOrder,
                 Chain, ThreadFacts, SizeTracksLength
  <1>3. CASE AdvanceDivider
    <2>1. /\ divider' = divider + 1
          /\ divider + 1 <= last
          /\ Len(output') = Len(output) + 1
          /\ output' \in Seq(Values \cup {NoValue})
      BY <1>3 DEF AdvanceDivider, IInv, TypeOK, Chain, ThreadFacts
    <2>2. TypeOK'
      BY <1>3, <2>1 DEF AdvanceDivider, IInv, TypeOK
    <2>3. PointersInOrder'
      BY <1>3, <2>1 DEF AdvanceDivider, IInv, TypeOK, PointersInOrder
    <2>4. Chain'
      BY <1>3 DEF AdvanceDivider, IInv, Chain
    <2>5. ThreadFacts'
      BY <1>3, <2>1 DEF AdvanceDivider, IInv, TypeOK, ThreadFacts,
                        PointersInOrder
    <2>6. SizeTracksLength'
      BY <1>3, <2>1 DEF AdvanceDivider, IInv, TypeOK, SizeTracksLength
    <2> QED BY <2>2, <2>3, <2>4, <2>5, <2>6 DEF IInv
  <1>4. CASE DecSize
    BY <1>4 DEF DecSize, IInv, TypeOK, PointersInOrder, Chain, ThreadFacts,
                SizeTracksLength
  <1> QED BY <1>1, <1>2, <1>3, <1>4 DEF Consume

(* The invariant holds in every state of every interleaving of the two     *)
(* threads.                                                                *)
THEOREM IInvHolds == Spec => []IInv
  <1>1. IInv /\ UNCHANGED vars => IInv'
    BY DEF vars, IInv, TypeOK, PointersInOrder, Chain, ThreadFacts,
           SizeTracksLength
  <1>2. IInv /\ [Next]_vars => IInv'
    BY <1>1, ProduceIInv, ConsumeIInv DEF Next
  <1> QED BY InitIInv, <1>2, PTL DEF Spec

(* Every pointer, counter and program position keeps its type.             *)
THEOREM TypeCorrect == Spec => []TypeOK
  <1>1. IInv => TypeOK
    BY DEF IInv
  <1> QED BY <1>1, IInvHolds, PTL

(* However Produce and Consume interleave, no freed or null node is        *)
(* dereferenced: what Produce deletes is strictly behind divider, and what *)
(* Consume reads is at or beyond it.                                       *)
THEOREM MemorySafe == Spec => []NoUseAfterFree
  <1>1. IInv => NoUseAfterFree
    BY MaxNodesAssumption
    DEF IInv, TypeOK, PointersInOrder, Chain, ThreadFacts, NoUseAfterFree,
        Nodes, Null
  <1> QED BY <1>1, IInvHolds, PTL

(* size_ is the length of the queue up to the calls in progress.           *)
THEOREM SizeCorrect == Spec => []SizeTracksLength
  <1>1. IInv => SizeTracksLength
    BY DEF IInv
  <1> QED BY <1>1, IInvHolds, PTL

(* When a Produce returns, everything consumed before it looked has been   *)
(* deleted.                                                                *)
THEOREM ReclaimComplete == Spec => ReclaimCatchesUp
  <1>1. IInv /\ [Next]_vars =>
          [pPc = "reclaim" /\ pPc' = "idle" => freed = 0 .. (Len(output) - 1)]_vars
    <2> SUFFICES ASSUME IInv, Next, pPc = "reclaim", pPc' = "idle"
                 PROVE freed = 0 .. (Len(output) - 1)
      BY DEF vars
    <2>1. ReclaimTest
      BY DEF Next, Produce, Consume, LinkNode, AdvanceLast, IncSize, FreeFirst,
             ConsumeTest, ReadValue, AdvanceDivider, DecSize, producer
    <2> QED BY <2>1 DEF ReclaimTest, IInv, PointersInOrder
  <1> QED BY <1>1, IInvHolds, PTL DEF Spec, ReclaimCatchesUp

(* The values Consume can take are a sequence, one for each node.          *)
LEMMA PendingSeq ==
  ASSUME NEW d \in Nat, NEW k \in Nat, NEW v, NEW S, \A i \in 1 .. k : v[d + i] \in S
  PROVE  /\ [i \in 1 .. k |-> v[d + i]] \in Seq(S)
         /\ Len([i \in 1 .. k |-> v[d + i]]) = k
  <1>1. [i \in 1 .. k |-> v[d + i]] \in [1 .. k -> S]
    OBVIOUS
  <1>2. [i \in 1 .. k |-> v[d + i]] \in Seq(S)
    BY <1>1, SeqDef
  <1>3. 1 .. Len([i \in 1 .. k |-> v[d + i]]) = 1 .. k
    BY <1>1, <1>2, LenProperties
  <1>4. Len([i \in 1 .. k |-> v[d + i]]) \in Nat
    BY <1>2, LenProperties
  <1> QED BY <1>2, <1>3, <1>4

(* A node that becomes the last one adds its value at the end.             *)
LEMMA PendingGrows ==
  ASSUME IInv, AdvanceLast PROVE Pending' = Append(Pending, arg) /\ arg \in Values
  <1> USE MaxNodesAssumption DEF Nodes, Null, heap, producer, consumer
  <1> DEFINE S == Values \cup {NoValue}
  <1>1. /\ last' = last + 1 /\ last + 1 \in Nodes /\ divider' = divider /\ value' = value
        /\ value[last + 1] = arg /\ arg \in Values /\ value \in [Nodes -> S]
        /\ divider \in Nodes /\ last \in Nodes /\ divider <= last
    BY DEF AdvanceLast, IInv, TypeOK, PointersInOrder, Chain, ThreadFacts
  <1> HIDE DEF S
  <1>2. Pending \in Seq(S) /\ Len(Pending) = last - divider
    <2>1. \A i \in 1 .. (last - divider) : value[divider + i] \in S
      BY <1>1
    <2> QED BY <1>1, <2>1, PendingSeq DEF Pending
  <1>3. Pending' \in Seq(S) /\ Len(Pending') = last + 1 - divider
    <2>1. \A i \in 1 .. (last + 1 - divider) : value[divider + i] \in S
      BY <1>1
    <2>2. Pending' = [i \in 1 .. (last + 1 - divider) |-> value[divider + i]]
      BY <1>1 DEF Pending
    <2> QED BY <1>1, <2>1, <2>2, PendingSeq
  <1>4. arg \in S
    BY <1>1 DEF S
  <1>5. /\ Append(Pending, arg) \in Seq(S)
        /\ Len(Append(Pending, arg)) = last - divider + 1
        /\ \A i \in 1 .. (last - divider) : Append(Pending, arg)[i] = Pending[i]
        /\ Append(Pending, arg)[last - divider + 1] = arg
    BY <1>2, <1>4, AppendProperties
  <1>6. ASSUME NEW i \in 1 .. Len(Pending') PROVE Pending'[i] = Append(Pending, arg)[i]
    <2>1. Pending'[i] = value[divider + i]
      BY <1>1, <1>3 DEF Pending
    <2>2. CASE i <= last - divider
      BY <1>1, <1>3, <1>5, <2>1, <2>2 DEF Pending
    <2>3. CASE i = last - divider + 1
      BY <1>1, <1>5, <2>1, <2>3
    <2>4. i \in Nat /\ i <= last - divider + 1
      BY <1>1, <1>3
    <2>5. i <= last - divider \/ i = last - divider + 1
      BY <1>1, <2>4
    <2> QED BY <2>2, <2>3, <2>5
  <1> QED BY <1>1, <1>3, <1>5, <1>6, SeqEqual

(* A move of divider takes the oldest value, the one that was read.        *)
LEMMA PendingShrinks ==
  ASSUME IInv, AdvanceDivider
  PROVE Pending # <<>> /\ result = Head(Pending) /\ Pending' = Tail(Pending)
  <1> USE MaxNodesAssumption DEF Nodes, Null, heap, producer, consumer
  <1> DEFINE S == Values \cup {NoValue}
  <1>1. /\ divider' = divider + 1 /\ last' = last /\ value' = value
        /\ result = value[divider + 1] /\ value \in [Nodes -> S]
        /\ divider \in Nodes /\ last \in Nodes /\ divider < last
    BY DEF AdvanceDivider, IInv, TypeOK, PointersInOrder, Chain, ThreadFacts
  <1> HIDE DEF S
  <1>2. Pending \in Seq(S) /\ Len(Pending) = last - divider
    <2>1. \A i \in 1 .. (last - divider) : value[divider + i] \in S
      BY <1>1
    <2> QED BY <1>1, <2>1, PendingSeq DEF Pending
  <1>3. Pending' \in Seq(S) /\ Len(Pending') = last - (divider + 1)
    <2>1. \A i \in 1 .. (last - (divider + 1)) : value[(divider + 1) + i] \in S
      BY <1>1
    <2>2. Pending' = [i \in 1 .. (last - (divider + 1)) |-> value[(divider + 1) + i]]
      BY <1>1 DEF Pending
    <2> QED BY <1>1, <2>1, <2>2, PendingSeq
  <1>4. Pending # <<>>
    BY <1>1, <1>2
  <1>5. Head(Pending) = Pending[1]
    BY <1>2, <1>4
  <1>6. result = Head(Pending)
    BY <1>1, <1>5 DEF Pending
  <1>7. /\ Tail(Pending) \in Seq(S)
        /\ Len(Tail(Pending)) = Len(Pending) - 1
        /\ \A i \in 1 .. Len(Tail(Pending)) : Tail(Pending)[i] = Pending[i + 1]
    BY <1>2, <1>4, HeadTailProperties
  <1>8. ASSUME NEW i \in 1 .. Len(Pending') PROVE Pending'[i] = Tail(Pending)[i]
    <2>1. Pending'[i] = value[(divider + 1) + i]
      BY <1>1, <1>3 DEF Pending
    <2>2. Pending[i + 1] = value[divider + (i + 1)]
      BY <1>1, <1>3 DEF Pending
    <2>3. i \in 1 .. Len(Tail(Pending))
      BY <1>1, <1>2, <1>3, <1>7
    <2>4. Tail(Pending)[i] = Pending[i + 1]
      BY <1>7, <2>3
    <2>5. (divider + 1) + i = divider + (i + 1)
      BY <1>1, <2>3
    <2> QED BY <2>1, <2>2, <2>4, <2>5
  <1> QED BY <1>1, <1>2, <1>3, <1>4, <1>6, <1>7, <1>8, SeqEqual

(* LockFreeQueue implements FifoQueue: the only steps that change what     *)
(* Consume can take are the move of last, a Put, and the move of divider,  *)
(* a Take of the oldest value.                                             *)
THEOREM Refinement == Spec => ImplementsFifo
  <1>1. Init => Fifo!FifoInit
    BY DEF Init, Fifo!FifoInit, Pending
  <1>2. IInv /\ [Next]_vars => [Fifo!FifoNext]_(Fifo!fifoVars)
    <2> SUFFICES ASSUME IInv, [Next]_vars
                 PROVE Fifo!FifoNext \/ UNCHANGED <<Pending, output>>
      BY DEF Fifo!fifoVars
    <2>1. CASE AdvanceLast
      BY <2>1, PendingGrows DEF AdvanceLast, Fifo!FifoNext, Fifo!Put
    <2>2. CASE AdvanceDivider
      BY <2>2, PendingShrinks DEF AdvanceDivider, Fifo!FifoNext, Fifo!Take
    <2>3. CASE \E t \in Values : LinkNode(t)
      <3>1. PICK t \in Values : LinkNode(t)
        BY <2>3
      <3>2. /\ value' = [value EXCEPT ![last + 1] = t]
            /\ UNCHANGED <<last, divider, output>>
            /\ last \in Nat /\ divider \in Nat /\ value \in [Nodes -> Values \cup {NoValue}]
        BY <3>1, MaxNodesAssumption DEF LinkNode, IInv, TypeOK, Chain, Nodes
      <3>3. \A i \in 1 .. (last - divider) : value'[divider + i] = value[divider + i]
        BY <3>2
      <3> QED BY <3>2, <3>3 DEF Pending
    <2>4. CASE UNCHANGED vars
      BY <2>4 DEF vars, Pending
    <2>5. CASE IncSize \/ ReclaimTest \/ FreeFirst \/ ConsumeTest \/ ReadValue \/ DecSize
      BY <2>5 DEF IncSize, ReclaimTest, FreeFirst, ConsumeTest, ReadValue, DecSize, Pending,
                  heap
    <2> QED BY <2>1, <2>2, <2>3, <2>4, <2>5 DEF Next, Produce, Consume
  <1> QED BY <1>1, <1>2, IInvHolds, PTL DEF Spec, ImplementsFifo, Fifo!FifoSpec
============================================================================
