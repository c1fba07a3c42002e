-------------------------------- MODULE Fifo --------------------------------
(***************************************************************************)
(* What the response server promises: a queue of packets that leave it in  *)
(* the order they came, each sent or dropped once, and one refused only    *)
(* when Capacity packets are waiting.                                      *)
(***************************************************************************)
EXTENDS Naturals, Sequences

CONSTANTS Packet, Capacity

VARIABLES queue, last      \* last: the last thing that happened to a packet

Happens(what, p) == last' = [what |-> what, packet |-> p]

Put(p) == /\ Len(queue) <= Capacity
          /\ queue' = Append(queue, p) /\ Happens("queued", p)

Refuse(p) == /\ Len(queue) >= Capacity
             /\ Happens("refused", p) /\ UNCHANGED queue

Leave == /\ queue # <<>> /\ queue' = Tail(queue)
         /\ Happens("sent", Head(queue)) \/ Happens("dropped", Head(queue))

FifoInit == queue = <<>>
FifoNext == Leave \/ \E p \in Packet : Put(p) \/ Refuse(p)
FifoSpec == FifoInit /\ [][FifoNext]_<<queue, last>>
=============================================================================
