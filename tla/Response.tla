------------------------------ MODULE Response ------------------------------
(***************************************************************************)
(* The response server (service_response.c): a queue of packets and a task *)
(* that sends them.  Nobody calls start_service_response or queue_response *)
(* at this commit; the callers here are any tasks with a packet of their   *)
(* own, once the queue is there.                                           *)
(***************************************************************************)
EXTENDS Naturals, Sequences

CONSTANTS
    Packet,          \* the CSP buffers
    QueueLen,        \* RESPONSE_QUEUE_LEN
    None

ASSUME ResponseAssumption == QueueLen \in Nat \ {0} /\ None \notin Packet

VARIABLES
    serving,         \* "no", "queue": it was created, "task": the task too
    response_queue,
    packet,          \* the one service_response_task has, or None
    last             \* the last thing that happened to a packet

responseVars == <<serving, response_queue, packet, last>>

Happened == [what : {"queued", "refused", "sent", "dropped"}, packet : Packet]
Happens(what, p) == last' = [what |-> what, packet |-> p]

ResponseInit ==
    /\ serving = "no" /\ response_queue = <<>>
    /\ packet = None /\ last = None

\* xQueueCreate, and then xTaskCreate; where either fails that is as far as it goes.
start_service_response ==
    /\ \/ serving = "no" /\ serving' = "queue"
       \/ serving = "queue" /\ serving' = "task"
    /\ UNCHANGED <<response_queue, packet, last>>

\* A packet is in the hands of one task.
Waiting == {response_queue[i] : i \in DOMAIN response_queue}
Owned(p) == p # packet /\ p \notin Waiting

\* A mutated form of queue_response: the packet goes to the front.
MutToFront(p) ==
    /\ serving # "no" /\ Owned(p)
    /\ IF Len(response_queue) < QueueLen
       THEN response_queue' = <<p>> \o response_queue /\ Happens("queued", p)
       ELSE Happens("refused", p) /\ UNCHANGED response_queue
    /\ UNCHANGED <<serving, packet>>

\* It is refused when no place is free for the time xQueueSendToBack waits.
queue_response(p) ==
    /\ serving # "no" /\ Owned(p)
    /\ IF Len(response_queue) < QueueLen
       THEN response_queue' = Append(response_queue, p) /\ Happens("queued", p)
       ELSE Happens("refused", p) /\ UNCHANGED response_queue
    /\ UNCHANGED <<serving, packet>>

Receive ==
    /\ serving = "task" /\ packet = None /\ response_queue # <<>>
    /\ packet' = Head(response_queue) /\ response_queue' = Tail(response_queue)
    /\ UNCHANGED <<serving, last>>

\* csp_connect and csp_send; a packet that is not sent, also without a connection, is freed.
SendOrFree ==
    /\ packet # None
    /\ Happens("sent", packet) \/ Happens("dropped", packet)
    /\ packet' = None
    /\ UNCHANGED <<serving, response_queue>>

service_response_task == Receive \/ SendOrFree

ResponseNext ==
    \/ start_service_response \/ service_response_task
    \/ \E p \in Packet : queue_response(p)

ResponseSpec == ResponseInit /\ [][ResponseNext]_responseVars

-----------------------------------------------------------------------------
ResponseTypeOK ==
    /\ serving \in {"no", "queue", "task"}
    /\ response_queue \in Seq(Packet) /\ Len(response_queue) <= QueueLen
    /\ packet \in Packet \cup {None}
    /\ last \in Happened \cup {None}

\* The packets on their way: the one the task has comes first.
InTransit == IF packet = None THEN response_queue ELSE <<packet>> \o response_queue

Queue == INSTANCE Fifo WITH queue <- InTransit, Capacity <- QueueLen

(***************************************************************************)
(* The queue and its task are a first-in first-out queue.                  *)
(***************************************************************************)
ImplementsFifo == Queue!FifoSpec
=============================================================================
