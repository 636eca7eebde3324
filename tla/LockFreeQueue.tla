--------------------------- MODULE LockFreeQueue ---------------------------
(***************************************************************************)
(* base/lock_free_queue.h: the single-producer, single-consumer list that  *)
(* carries RtcMsg from the RtcServer thread to a worker thread and new     *)
(* file descriptors from the accepting thread to a signaling worker.       *)
(*                                                                         *)
(* One action is one access to memory that the other thread can see. The   *)
(* pointers are plain fields; as the header's comment says, their accesses *)
(* are taken to be atomic, and each thread's accesses to take effect in    *)
(* program order, which is what the x86-64 build gives.                    *)
(*                                                                         *)
(* Nodes are numbered in allocation order, 0 being the dummy node of the   *)
(* constructor.                                                            *)
(***************************************************************************)
EXTENDS Integers, Sequences

CONSTANTS Values,    \* the values carried (T)
          NoValue,   \* T(): what the dummy node holds
          MaxNodes   \* bound: nodes ever allocated after the dummy

ASSUME MaxNodesAssumption == MaxNodes \in Nat
ASSUME NoValueAssumption == NoValue \notin Values

Null == -1           \* nullptr
Nodes == 0 .. MaxNodes

VARIABLES
  value, next,           \* the fields of every node
  allocated,             \* nodes allocated so far, the dummy not counted
  freed,                 \* nodes already deleted
  first, divider, last,  \* the three list pointers
  size_,                 \* the atomic counter
  pPc, arg,              \* the producer's position in Produce and its argument
  cPc, result,           \* the consumer's position in Consume and *result
  input, output          \* history: values published, values handed out

heap == <<value, next, allocated>>
producer == <<pPc, arg>>
consumer == <<cPc, result>>
vars == <<value, next, allocated, freed, first, divider, last, size_,
          pPc, arg, cPc, result, input, output>>

Init ==
  /\ value = [n \in Nodes |-> NoValue]
  /\ next = [n \in Nodes |-> Null]
  /\ allocated = 0
  /\ freed = {}
  /\ first = 0 /\ divider = 0 /\ last = 0
  /\ size_ = 0
  /\ pPc = "idle" /\ arg = NoValue
  /\ cPc = "idle" /\ result = NoValue
  /\ input = <<>> /\ output = <<>>

----------------------------------------------------------------------------
(* Produce(t)                                                              *)

\* Mutant: the new node is never hooked to the old tail.
LinkNodeUnlinked(t) ==
  /\ pPc = "idle"
  /\ allocated < MaxNodes
  /\ allocated' = allocated + 1
  /\ value' = [value EXCEPT ![allocated + 1] = t]
  /\ pPc' = "linked"
  /\ arg' = t
  /\ UNCHANGED <<next, freed, first, divider, last, size_, consumer, input, output>>

\* last->next = new Node(t)
LinkNode(t) ==
  /\ pPc = "idle"
  /\ allocated < MaxNodes
  /\ allocated' = allocated + 1
  /\ value' = [value EXCEPT ![allocated + 1] = t]
  /\ next' = [next EXCEPT ![last] = allocated + 1]
  /\ pPc' = "linked"
  /\ arg' = t
  /\ UNCHANGED <<freed, first, divider, last, size_, consumer, input, output>>

\* last = last->next: the point where the value becomes visible
AdvanceLast ==
  /\ pPc = "linked"
  /\ last' = next[last]
  /\ input' = Append(input, arg)
  /\ pPc' = "advanced"
  /\ UNCHANGED <<heap, freed, first, divider, size_, arg, consumer, output>>

\* ++size_
IncSize ==
  /\ pPc = "advanced"
  /\ size_' = size_ + 1
  /\ pPc' = "reclaim"
  /\ UNCHANGED <<heap, freed, first, divider, last, arg, consumer, input, output>>

\* Mutant: the reclaim loop runs up to last instead of divider.
ReclaimTestToLast ==
  /\ pPc = "reclaim"
  /\ pPc' = IF last # first THEN "free" ELSE "idle"
  /\ UNCHANGED <<heap, freed, first, divider, last, size_, arg, consumer, input, output>>

\* Mutant: the reclaim loop stops one node early.
ReclaimTestOneShort ==
  /\ pPc = "reclaim"
  /\ pPc' = IF divider # first /\ next[first] # divider THEN "free" ELSE "idle"
  /\ UNCHANGED <<heap, freed, first, divider, last, size_, arg, consumer, input, output>>

\* while (divider != first)
ReclaimTest ==
  /\ pPc = "reclaim"
  /\ pPc' = IF divider # first THEN "free" ELSE "idle"
  /\ UNCHANGED <<heap, freed, first, divider, last, size_, arg, consumer, input, output>>

\* temp = first; first = first->next; delete temp
FreeFirst ==
  /\ pPc = "free"
  /\ first' = next[first]
  /\ freed' = freed \cup {first}
  /\ pPc' = "reclaim"
  /\ UNCHANGED <<heap, divider, last, size_, arg, consumer, input, output>>

----------------------------------------------------------------------------
(* Consume(result)                                                         *)

\* if (divider != last), else return false
ConsumeTest ==
  /\ cPc = "idle"
  /\ divider # last
  /\ cPc' = "nonempty"
  /\ UNCHANGED <<heap, freed, first, divider, last, size_, producer, result, input, output>>

\* Mutant: the value is read from the divider node itself.
ReadValueOfDivider ==
  /\ cPc = "nonempty"
  /\ result' = value[divider]
  /\ cPc' = "read"
  /\ UNCHANGED <<heap, freed, first, divider, last, size_, producer, input, output>>

\* *result = divider->next->value
ReadValue ==
  /\ cPc = "nonempty"
  /\ result' = value[next[divider]]
  /\ cPc' = "read"
  /\ UNCHANGED <<heap, freed, first, divider, last, size_, producer, input, output>>

\* divider = divider->next: from here the producer may delete the node
AdvanceDivider ==
  /\ cPc = "read"
  /\ divider' = next[divider]
  /\ output' = Append(output, result)
  /\ cPc' = "advanced"
  /\ UNCHANGED <<heap, freed, first, last, size_, producer, result, input>>

\* Mutant: the counter is not decremented.
DecSizeForgotten ==
  /\ cPc = "advanced"
  /\ cPc' = "idle"
  /\ UNCHANGED <<heap, freed, first, divider, last, size_, producer, result, input, output>>

\* --size_; return true
DecSize ==
  /\ cPc = "advanced"
  /\ size_' = size_ - 1
  /\ cPc' = "idle"
  /\ UNCHANGED <<heap, freed, first, divider, last, producer, result, input, output>>

----------------------------------------------------------------------------
Produce ==
  \/ \E t \in Values : LinkNode(t)
  \/ AdvanceLast
  \/ IncSize
  \/ ReclaimTest
  \/ FreeFirst

Consume ==
  \/ ConsumeTest
  \/ ReadValue
  \/ AdvanceDivider
  \/ DecSize

Next == Produce \/ Consume

Spec == Init /\ [][Next]_vars

----------------------------------------------------------------------------
TypeOK ==
  /\ value \in [Nodes -> Values \cup {NoValue}]
  /\ next \in [Nodes -> Nodes \cup {Null}]
  /\ allocated \in Nodes
  /\ freed \in SUBSET Nodes
  /\ first \in Nodes /\ divider \in Nodes /\ last \in Nodes
  /\ size_ \in Int
  /\ pPc \in {"idle", "linked", "advanced", "reclaim", "free"}
  /\ arg \in Values \cup {NoValue}
  /\ cPc \in {"idle", "nonempty", "read", "advanced"}
  /\ result \in Values \cup {NoValue}
  /\ input \in Seq(Values \cup {NoValue})
  /\ output \in Seq(Values \cup {NoValue})

(* Neither thread ever follows a pointer of a node that has been deleted,  *)
(* nor a null one: Produce's last->next and first->next, Consume's         *)
(* divider->next->value and divider->next (lock_free_queue.h 61-82).       *)
NoUseAfterFree ==
  /\ last \notin freed
  /\ pPc = "linked" => next[last] \in Nodes \ freed
  /\ pPc = "free" => first \notin freed /\ next[first] \in Nodes
  /\ cPc \in {"nonempty", "read"} =>
       /\ divider \notin freed
       /\ next[divider] \in Nodes \ freed

(* The counter behind size() and empty() differs from the real length only *)
(* by the call each thread is in the middle of: it may lag by one while    *)
(* Produce has published and not yet counted, and lead by one while        *)
(* Consume has taken and not yet discounted.                               *)
SizeTracksLength ==
  size_ = (Len(input) - Len(output))
            - (IF pPc = "advanced" THEN 1 ELSE 0)
            + (IF cPc = "advanced" THEN 1 ELSE 0)

\* The values of the nodes after divider, up to last: what Consume can take.
Pending == [i \in 1 .. (last - divider) |-> value[divider + i]]

(* The list implements the FIFO contract: values are handed out in the     *)
(* order they were published, none lost, none twice.                       *)
Fifo == INSTANCE FifoQueue WITH Values <- Values, queue <- Pending, output <- output

ImplementsFifo == Fifo!FifoSpec

(* Memory is given back: when Produce returns, every node that was already *)
(* behind the divider as the call began has been deleted (the loop at 66). *)
ReclaimCatchesUp ==
  [][pPc = "reclaim" /\ pPc' = "idle" => freed = 0 .. (Len(output) - 1)]_vars
============================================================================
