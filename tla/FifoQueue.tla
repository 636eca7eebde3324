----------------------------- MODULE FifoQueue -----------------------------
(***************************************************************************)
(* What a message queue between two threads of the server promises: the    *)
(* values come out in the order they went in, each exactly once.           *)
(***************************************************************************)
EXTENDS Naturals, Sequences

CONSTANT Values

VARIABLES queue,   \* the values put and not yet taken, oldest first
          output   \* every value ever taken, oldest first

fifoVars == <<queue, output>>

FifoInit == queue = <<>> /\ output = <<>>

Put(v) ==
  /\ queue' = Append(queue, v)
  /\ UNCHANGED output

Take ==
  /\ queue # <<>>
  /\ output' = Append(output, Head(queue))
  /\ queue' = Tail(queue)

FifoNext == Take \/ \E v \in Values : Put(v)

FifoSpec == FifoInit /\ [][FifoNext]_fifoVars
============================================================================
