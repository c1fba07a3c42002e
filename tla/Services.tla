------------------------------ MODULE Services ------------------------------
(***************************************************************************)
(* The loops of the services and the pool of CSP buffers they share.       *)
(*                                                                         *)
(* Each service is a task: csp_accept, csp_read until it times out,        *)
(* csp_close.  A packet it reads is a buffer of the pool.  Whoever has the *)
(* buffer must give it to csp_send or to csp_buffer_free, once; csp_send   *)
(* takes it when it succeeds and leaves it when it fails.                  *)
(*                                                                         *)
(* How the packet of a subservice is dealt with:                           *)
(*   "checked"    answered; freed if csp_send fails                        *)
(*   "unchecked"  answered; the result of csp_send is not looked at        *)
(*   "refuse"     the handler returns an error and the loop frees it       *)
(*   "ignore"     the handler returns an error and nobody frees it         *)
(*   "reboot"     answered, then the processor is reset                    *)
(*   "fetch"      freed, and answered with a packet per record (GET_HK)    *)
(*   "talk"       answered with one or more packets (command line)         *)
(*                                                                         *)
(* A service has one connection at a time; packets of the next one wait in *)
(* the same queue.  After a buffer is freed that the service has not, or a *)
(* write through NULL, anything may happen: the model only goes on with a  *)
(* reset.                                                                  *)
(***************************************************************************)
EXTENDS Naturals, Sequences, FiniteSets

CONSTANTS
    Buffer,          \* the buffers of csp_buffer_init
    Plain,           \* those with the plain loop: communication, time, ..., csp_server
    Timed,           \* the services whose csp_accept times out
    None,            \* NULL
    MaxParts         \* records of a GET_HK, answers of a command

Service == Plain \cup {"general", "hk", "cli"}

ASSUME ServicesAssumption ==
    /\ Plain \cap {"general", "hk", "cli"} = {}
    /\ Timed \subseteq Plain \cup {"cli"}
    /\ IsFiniteSet(Buffer)
    /\ None \notin Buffer \cup ({"freed", "null"} \X Service)
    /\ MaxParts \in Nat \ {0}

VARIABLES
    free,            \* the buffers csp_buffer_get can give
    sending,         \* the buffers csp_send has taken
    queue,           \* queue[s]: received for s, not read yet
    packet,          \* packet[s]: the packet s or its handler works on
    original, first, \* of the cli: the clone cli_app keeps; what cli_service read
    left,            \* records or answers of a request that are left
    kicked,          \* svc_wdt_counter: flips whenever it grows
    leaked,          \* how many packets were dropped by the code known to do so
    mishap,          \* None, or what the code did and which service
    pc

vars == <<free, sending, queue, packet, original, first, left, kicked, leaked, mishap, pc>>

\* The subservices of each service, by how their packet is dealt with.
Ways(s) ==
    CASE s \in Plain        -> {"checked", "refuse"}
      [] s = "general"      -> {"checked", "unchecked", "reboot", "ignore"}
      [] s = "hk"           -> {"checked", "fetch", "ignore"}
      [] s = "cli"          -> {"talk"}

Init ==
    /\ free = Buffer /\ sending = {}
    /\ queue = [s \in Service |-> <<>>]
    /\ packet = [s \in Service |-> None]
    /\ original = None /\ first = None
    /\ left = [s \in Service |-> 0]
    /\ kicked = [s \in Timed |-> FALSE]
    /\ leaked = 0 /\ mishap = None
    /\ pc = [s \in Service |-> "accept"]

\* The processor is reset, by reboot_system or after a mishap.
Restart ==
    /\ free' = Buffer /\ sending' = {}
    /\ queue' = [s \in Service |-> <<>>]
    /\ packet' = [s \in Service |-> None]
    /\ original' = None /\ first' = None
    /\ left' = [s \in Service |-> 0]
    /\ kicked' = [s \in Timed |-> FALSE]
    /\ leaked' = 0 /\ mishap' = None
    /\ pc' = [s \in Service |-> "accept"]

Reset == mishap # None /\ Restart

Goto(s, l) == pc' = [pc EXCEPT ![s] = l]
Kick(s) == kicked' = [t \in Timed |-> IF t = s THEN ~kicked[t] ELSE kicked[t]]
Holds(s, b) == packet' = [packet EXCEPT ![s] = b]

\* What s has to send or to free.
Has(s) == {packet[s]} \cup (IF s = "cli" THEN {original} ELSE {})

\* csp_buffer_free(b) by s, which should have b; NULL is ignored.
Free(s, b) ==
    \/ b = None /\ UNCHANGED <<free, mishap>>
    \/ b # None /\ b \in Has(s) /\ free' = free \cup {b} /\ UNCHANGED mishap
    \/ b # None /\ b \notin Has(s) /\ mishap' = <<"freed", s>> /\ UNCHANGED free

cliVars == <<original, first>>

-----------------------------------------------------------------------------
\* CSP puts a packet for s into a buffer; without a free one it is dropped.
Arrive(s) ==
    /\ \E b \in free : /\ free' = free \ {b}
                       /\ queue' = [queue EXCEPT ![s] = Append(@, b)]
    /\ UNCHANGED <<sending, packet, cliVars, left, kicked, leaked, mishap, pc>>

\* CSP is done with a packet it took.
Sent ==
    /\ \E b \in sending : sending' = sending \ {b} /\ free' = free \cup {b}
    /\ UNCHANGED <<queue, packet, cliVars, left, kicked, leaked, mishap, pc>>

\* csp_accept gives a connection.
Accept(s) ==
    /\ pc[s] = "accept" /\ queue[s] # <<>>
    /\ Kick(s) /\ Goto(s, "read")
    /\ UNCHANGED <<free, sending, queue, packet, cliVars, left, leaked, mishap>>

\* A mutated form of AcceptTimesOut: the counter is left alone.
MutTimeoutUncounted(s) ==
    /\ pc[s] = "accept" /\ queue[s] = <<>> /\ s \in Timed
    /\ UNCHANGED vars

\* csp_accept gives NULL.
AcceptTimesOut(s) ==
    /\ pc[s] = "accept" /\ queue[s] = <<>> /\ s \in Timed
    /\ Kick(s)
    /\ UNCHANGED <<free, sending, queue, packet, cliVars, left, leaked, mishap, pc>>

\* csp_read gives a packet.
ReadPacket(s) ==
    /\ pc[s] = "read" /\ queue[s] # <<>>
    /\ Holds(s, Head(queue[s])) /\ queue' = [queue EXCEPT ![s] = Tail(@)]
    /\ \E way \in Ways(s) : Goto(s, way)
    /\ UNCHANGED <<free, sending, cliVars, left, kicked, leaked, mishap>>

ReadTimesOut(s) ==
    /\ pc[s] = "read" /\ queue[s] = <<>>
    /\ Goto(s, "close")
    /\ UNCHANGED <<free, sending, queue, packet, cliVars, left, kicked, leaked, mishap>>

\* A mutated form of Close: what came after the last csp_read is forgotten.
MutCloseForgets(s) ==
    /\ pc[s] = "close"
    /\ queue' = [queue EXCEPT ![s] = <<>>]
    /\ Goto(s, "accept")
    /\ UNCHANGED <<free, sending, packet, cliVars, left, kicked, leaked, mishap>>

\* csp_close frees what came after the last csp_read.
Close(s) ==
    /\ pc[s] = "close"
    /\ free' = free \cup {queue[s][i] : i \in DOMAIN queue[s]}
    /\ queue' = [queue EXCEPT ![s] = <<>>]
    /\ Goto(s, "accept")
    /\ UNCHANGED <<sending, packet, cliVars, left, kicked, leaked, mishap>>

-----------------------------------------------------------------------------
\* csp_send takes the answer.
SendOk(s) ==
    /\ pc[s] \in {"checked", "unchecked"}
    /\ sending' = sending \cup {packet[s]} /\ Holds(s, None) /\ Goto(s, "read")
    /\ UNCHANGED <<free, queue, cliVars, left, kicked, leaked, mishap>>

\* A mutated form of SendFails: the handler frees the packet, then the loop does.
MutSendFailsTwice(s) ==
    /\ pc[s] \in {"checked", "unchecked"}
    /\ free' = free \cup {packet[s]} /\ mishap' = <<"freed", s>>
    /\ Holds(s, None) /\ Goto(s, "read")
    /\ UNCHANGED <<sending, queue, cliVars, left, kicked, leaked>>

\* csp_send fails: the packet is freed by those who look.
SendFails(s) ==
    /\ \/ pc[s] = "checked" /\ Free(s, packet[s]) /\ UNCHANGED leaked
       \/ pc[s] = "unchecked" /\ leaked' = leaked + 1 /\ UNCHANGED <<free, mishap>>
    /\ Holds(s, None) /\ Goto(s, "read")
    /\ UNCHANGED <<sending, queue, cliVars, left, kicked>>

\* A mutated form of Refuse: the packet is not freed.
MutRefuseKeeps(s) ==
    /\ pc[s] = "refuse"
    /\ Holds(s, None) /\ Goto(s, "read")
    /\ UNCHANGED <<free, mishap, sending, queue, cliVars, left, kicked, leaked>>

\* The handler found the request wrong; the loop frees it.
Refuse(s) ==
    /\ pc[s] = "refuse"
    /\ Free(s, packet[s]) /\ Holds(s, None) /\ Goto(s, "read")
    /\ UNCHANGED <<sending, queue, cliVars, left, kicked, leaked>>

\* An unknown subservice of the general or the housekeeping service.
Ignore(s) ==
    /\ pc[s] = "ignore"
    /\ leaked' = leaked + 1 /\ Holds(s, None) /\ Goto(s, "read")
    /\ UNCHANGED <<free, sending, queue, cliVars, left, kicked, mishap>>

\* REBOOT: whatever became of the answer, the processor is reset.
Reboot(s) == pc[s] = "reboot" /\ Restart

-----------------------------------------------------------------------------
\* GET_HK: the request is freed before the first record is read.
FetchStart(s) ==
    /\ pc[s] = "fetch"
    /\ Free(s, packet[s]) /\ Holds(s, None)
    /\ \E n \in 0..MaxParts : left' = [left EXCEPT ![s] = n]
    /\ Goto(s, "record")
    /\ UNCHANGED <<sending, queue, cliVars, kicked, leaked>>

\* while (limit > 0), or no record could be read.
FetchEnds(s) ==
    /\ pc[s] = "record"
    /\ left' = [left EXCEPT ![s] = 0] /\ Goto(s, "read")
    /\ UNCHANGED <<free, sending, queue, packet, cliVars, kicked, leaked, mishap>>

\* A packet for the record; without one the code writes through NULL.  (That a buffer of
\* libcsp is large enough for a record is a matter of its configuration, not modelled.)
FetchRecord(s) ==
    /\ pc[s] = "record" /\ left[s] > 0
    /\ \/ \E b \in free : free' = free \ {b} /\ Holds(s, b) /\ UNCHANGED mishap
       \/ free = {} /\ mishap' = <<"null", s>> /\ UNCHANGED <<free, packet>>
    /\ Goto(s, "page")
    /\ UNCHANGED <<sending, queue, cliVars, left, kicked, leaked>>

\* Mutated forms of PageSent: the limit is not counted down; it is by two.
MutPageUncounted(s) ==
    /\ pc[s] = "page"
    /\ sending' = sending \cup {packet[s]} /\ Holds(s, None) /\ Goto(s, "record")
    /\ UNCHANGED <<free, queue, cliVars, left, kicked, leaked, mishap>>
MutPageByTwo(s) ==
    /\ pc[s] = "page"
    /\ sending' = sending \cup {packet[s]} /\ Holds(s, None) /\ Goto(s, "record")
    /\ left' = [left EXCEPT ![s] = (@ - 2) % 256]
    /\ UNCHANGED <<free, queue, cliVars, kicked, leaked, mishap>>

PageSent(s) ==
    /\ pc[s] = "page"
    /\ sending' = sending \cup {packet[s]} /\ Holds(s, None) /\ Goto(s, "record")
    /\ left' = [left EXCEPT ![s] = @ - 1]
    /\ UNCHANGED <<free, queue, cliVars, kicked, leaked, mishap>>

PageFails(s) ==
    /\ pc[s] = "page"
    /\ Free(s, packet[s]) /\ Holds(s, None) /\ Goto(s, "read")
    /\ left' = [left EXCEPT ![s] = 0]
    /\ UNCHANGED <<sending, queue, cliVars, kicked, leaked>>

-----------------------------------------------------------------------------
\* cli_app: the request is cloned, if there is a buffer.  The command is assumed to fit
\* pcInputString, into which as many bytes are copied as the request says.
TalkStart(s) ==
    /\ pc[s] = "talk"
    /\ \/ \E b \in free : original' = b /\ free' = free \ {b}
       \/ free = {} /\ original' = None /\ UNCHANGED free
    /\ first' = packet[s]
    /\ \E n \in 1..MaxParts : left' = [left EXCEPT ![s] = n]
    /\ Goto(s, "answer")
    /\ UNCHANGED <<sending, queue, packet, kicked, leaked, mishap>>

\* The output is written into a packet that could not be had.
AnswerNowhere(s) ==
    /\ pc[s] = "answer" /\ packet[s] = None
    /\ mishap' = <<"null", s>>
    /\ UNCHANGED <<free, sending, queue, packet, cliVars, left, kicked, leaked, pc>>

\* An answer is sent, and more follow.
AnswerMore(s) ==
    /\ pc[s] = "answer" /\ packet[s] # None /\ left[s] > 1
    /\ sending' = sending \cup {packet[s]} /\ Holds(s, None) /\ Goto(s, "clone")
    /\ left' = [left EXCEPT ![s] = @ - 1]
    /\ UNCHANGED <<free, queue, cliVars, kicked, leaked, mishap>>

\* A mutated form of Clone: the original itself is sent next.
MutCloneNot(s) ==
    /\ pc[s] = "clone"
    /\ Holds(s, original) /\ Goto(s, "answer")
    /\ UNCHANGED <<free, sending, queue, cliVars, left, kicked, leaked, mishap>>

\* The next packet is a clone of the original, if there are both.
Clone(s) ==
    /\ pc[s] = "clone"
    /\ \/ original # None /\ \E b \in free : Holds(s, b) /\ free' = free \ {b}
       \/ (original = None \/ free = {}) /\ UNCHANGED <<packet, free>>
    /\ Goto(s, "answer")
    /\ UNCHANGED <<sending, queue, cliVars, left, kicked, leaked, mishap>>

\* The last answer is sent, and the clone freed.
AnswerLast(s) ==
    /\ pc[s] = "answer" /\ packet[s] # None /\ left[s] = 1
    /\ sending' = sending \cup {packet[s]} /\ Holds(s, None) /\ Goto(s, "read")
    /\ Free(s, original) /\ original' = None /\ first' = None
    /\ left' = [left EXCEPT ![s] = 0]
    /\ UNCHANGED <<queue, kicked, leaked>>

\* An answer cannot be sent: cli_app frees the clone and the packet,
AnswerFails(s) ==
    /\ pc[s] = "answer" /\ packet[s] # None
    /\ free' = free \cup ({original, packet[s]} \ {None})
    /\ Holds(s, None) /\ original' = None
    /\ left' = [left EXCEPT ![s] = 0] /\ Goto(s, "failed")
    /\ UNCHANGED <<sending, queue, first, kicked, leaked, mishap>>

\* and cli_service the packet it read.
TalkFailed(s) ==
    /\ pc[s] = "failed"
    /\ Free(s, first) /\ first' = None /\ Goto(s, "read")
    /\ UNCHANGED <<sending, queue, packet, original, left, kicked, leaked>>

-----------------------------------------------------------------------------
Handle(s) ==
    \/ SendOk(s) \/ SendFails(s) \/ Refuse(s) \/ Ignore(s) \/ Reboot(s)
    \/ FetchStart(s) \/ FetchEnds(s) \/ FetchRecord(s) \/ PageSent(s) \/ PageFails(s)
    \/ TalkStart(s) \/ AnswerNowhere(s) \/ AnswerMore(s) \/ Clone(s)
    \/ AnswerLast(s) \/ AnswerFails(s) \/ TalkFailed(s)

Serve(s) ==
    Accept(s) \/ AcceptTimesOut(s) \/ ReadPacket(s) \/ ReadTimesOut(s) \/ Close(s) \/ Handle(s)

Next ==
    \/ mishap = None /\ (Sent \/ \E s \in Service : Arrive(s) \/ Serve(s))
    \/ Reset

Spec == Init /\ [][Next]_vars

\* A task that can go on does, and CSP gets rid of what it took.
FairSpec ==
    /\ Spec
    /\ WF_vars(mishap = None /\ Sent)
    /\ \A s \in Service : WF_vars(mishap = None /\ Serve(s))

-----------------------------------------------------------------------------
TypeOK ==
    /\ free \subseteq Buffer /\ sending \subseteq Buffer
    /\ queue \in [Service -> Seq(Buffer)]
    /\ packet \in [Service -> Buffer \cup {None}]
    /\ original \in Buffer \cup {None} /\ first \in Buffer \cup {None}
    /\ left \in [Service -> 0..MaxParts]
    /\ kicked \in [Timed -> BOOLEAN]
    /\ leaked \in 0..Cardinality(Buffer)
    /\ mishap \in {None} \cup ({"freed", "null"} \X Service)

Held == {packet[s] : s \in Service} \cup {original}
Waiting(s, b) == \E i \in DOMAIN queue[s] : queue[s][i] = b

(***************************************************************************)
(* Until the first mishap a buffer is in one place at a time: free, with   *)
(* CSP, waiting for a service, the packet of one, or the clone of the cli. *)
(***************************************************************************)
HeldOnce ==
    mishap = None =>
        /\ free \cap sending = {}
        /\ Held \cap (free \cup sending) = {}
        /\ \A s \in Service : packet[s] # None =>
              packet[s] # original /\ \A t \in Service \ {s} : packet[t] # packet[s]
        /\ \A s \in Service : \A i \in DOMAIN queue[s] :
              /\ queue[s][i] \notin free \cup sending \cup Held
              /\ \A t \in Service \ {s} : ~Waiting(t, queue[s][i])
              /\ \A j \in DOMAIN queue[s] : queue[s][j] = queue[s][i] => i = j

Lost == {b \in Buffer : /\ b \notin free \cup sending \cup Held
                        /\ \A s \in Service : ~Waiting(s, b)}

(***************************************************************************)
(* Buffers are lost to the pool only by the unknown subservices of the     *)
(* general and the housekeeping service and by the general service's       *)
(* unchecked csp_send, one for each time.                                  *)
(***************************************************************************)
LeaksAreKnown ==
    mishap = None => Cardinality(Lost) = leaked

(***************************************************************************)
(* Only the cli frees what it has not, and only GET_HK and the cli write   *)
(* through NULL, although every service runs out of buffers that others    *)
(* have lost.                                                              *)
(***************************************************************************)
KnownMishaps == mishap \in {None, <<"freed", "cli">>, <<"null", "hk">>, <<"null", "cli">>}

(***************************************************************************)
(* cli_app: "csp_send frees the packet for some reason. get a new one":    *)
(* nobody frees a packet that is not his any more.                         *)
(***************************************************************************)
FreedOnce == ~\E s \in Service : mishap = <<"freed", s>>

(***************************************************************************)
(* A request that was read is dealt with, and the service reads again.     *)
(***************************************************************************)
RequestsEnd ==
    \A s \in Service :
        pc[s] \notin {"accept", "read", "close"} ~> pc[s] \in {"accept", "read"} \/ mishap # None

NoMoreArrive == <>[][~\E s \in Service : Arrive(s)]_vars

(***************************************************************************)
(* The counters the watchdog looks at go on, of the services whose accept  *)
(* times out, once requests stop coming.  (The counter stands still while  *)
(* a connection is read, and while the other services have none.)          *)
(***************************************************************************)
WatchdogFed ==
    NoMoreArrive /\ [](mishap = None) =>
        \A s \in Timed : []<>(kicked[s]) /\ []<>(~kicked[s])

(***************************************************************************)
(* Once requests stop coming, all buffers are back that were not lost.     *)
(***************************************************************************)
BuffersReturn ==
    NoMoreArrive /\ [](mishap = None) => <>[](Cardinality(free) + leaked = Cardinality(Buffer))
=============================================================================
