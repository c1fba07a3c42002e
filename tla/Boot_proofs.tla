---------------------------- MODULE Boot_proofs ----------------------------
(***************************************************************************)
(* Theorems about the response server, which implements the queue of Fifo  *)
(* for every set of packets and every length of the queue, and about the   *)
(* start-up, with the response server in the system it is started in.      *)
(***************************************************************************)
EXTENDS Boot, SequenceTheorems, TLAPS

(***************************************************************************)
(* Type correctness: the queue is never longer than it was made, and what  *)
(* is in it are packets.                                                   *)
(***************************************************************************)
THEOREM ResponseTypeCorrect == ResponseSpec => []ResponseTypeOK
<1>1. ResponseInit => ResponseTypeOK
  BY ResponseAssumption DEF ResponseInit, ResponseTypeOK
<1>2. ResponseTypeOK /\ [ResponseNext]_responseVars => ResponseTypeOK'
  <2> SUFFICES ASSUME ResponseTypeOK, [ResponseNext]_responseVars PROVE ResponseTypeOK'
    OBVIOUS
  <2> USE ResponseAssumption DEF ResponseTypeOK, Happened
  <2>1. CASE start_service_response
    BY <2>1 DEF start_service_response
  <2>2. CASE Receive
    BY <2>2 DEF Receive
  <2>3. CASE SendOrFree
    BY <2>3 DEF SendOrFree, Happens
  <2>4. ASSUME NEW p \in Packet, queue_response(p) PROVE ResponseTypeOK'
    BY <2>4 DEF queue_response, Happens
  <2>5. CASE UNCHANGED responseVars
    BY <2>5 DEF responseVars
  <2>6. QED
    BY <2>1, <2>2, <2>3, <2>4, <2>5 DEF ResponseNext, service_response_task
<1>3. QED
  BY <1>1, <1>2, PTL DEF ResponseSpec

LEMMA PrependHead ==
  ASSUME NEW S, NEW q \in Seq(S), q # <<>>
  PROVE  <<Head(q)>> \o Tail(q) = q
OBVIOUS

LEMMA PrependAppend ==
  ASSUME NEW S, NEW q \in Seq(S), NEW e \in S, NEW p \in S
  PROVE  <<e>> \o Append(q, p) = Append(<<e>> \o q, p)
OBVIOUS

LEMMA PrependTail ==
  ASSUME NEW S, NEW q \in Seq(S), NEW e \in S
  PROVE  /\ <<e>> \o q # <<>>
         /\ Head(<<e>> \o q) = e
         /\ Tail(<<e>> \o q) = q
         /\ Len(<<e>> \o q) = Len(q) + 1
OBVIOUS

(***************************************************************************)
(* Every step of the queue and its task is one of Fifo, or changes nothing *)
(* it speaks of: packets leave in the order they came, once, and one is    *)
(* refused only when the queue is full.                                    *)
(***************************************************************************)
THEOREM ResponseImplementsFifo == ResponseSpec => ImplementsFifo
<1>1. ResponseInit => Queue!FifoInit
  BY DEF ResponseInit, Queue!FifoInit, InTransit
<1>2. ResponseTypeOK /\ [ResponseNext]_responseVars
        => [Queue!FifoNext]_<<InTransit, last>>
  <2> SUFFICES ASSUME ResponseTypeOK, [ResponseNext]_responseVars
               PROVE  [Queue!FifoNext]_<<InTransit, last>>
    OBVIOUS
  <2>q. /\ response_queue \in Seq(Packet) /\ Len(response_queue) \in Nat
        /\ packet \in Packet \cup {None} /\ QueueLen \in Nat /\ None \notin Packet
    BY ResponseAssumption DEF ResponseTypeOK
  <2>1. CASE start_service_response
    BY <2>1 DEF start_service_response, InTransit
  <2>2. CASE Receive
    <3>1. response_queue # <<>> /\ Head(response_queue) \in Packet
      BY <2>2, <2>q DEF Receive
    <3>2. InTransit = response_queue
      BY <2>2 DEF Receive, InTransit
    <3>3. InTransit' = <<Head(response_queue)>> \o Tail(response_queue)
      BY <2>2, <3>1, <2>q DEF Receive, InTransit
    <3>4. UNCHANGED <<InTransit, last>>
      BY <2>2, <2>q, <3>1, <3>2, <3>3, PrependHead DEF Receive
    <3>5. QED
      BY <3>4
  <2>3. CASE SendOrFree
    <3>1. packet \in Packet
      BY <2>3, <2>q DEF SendOrFree
    <3>2. InTransit = <<packet>> \o response_queue /\ InTransit' = response_queue
      BY <2>3, <3>1, <2>q DEF SendOrFree, InTransit
    <3>3. InTransit # <<>> /\ Head(InTransit) = packet /\ Tail(InTransit) = response_queue
      BY <3>1, <3>2, <2>q, PrependTail
    <3>4. Queue!Leave
      BY <2>3, <3>2, <3>3 DEF SendOrFree, Happens, Queue!Leave, Queue!Happens
    <3>5. QED
      BY <3>4 DEF Queue!FifoNext
  <2>4. ASSUME NEW p \in Packet, queue_response(p)
        PROVE  Queue!FifoNext
    <3>1. UNCHANGED packet
      BY <2>4 DEF queue_response
    <3>2. CASE Len(response_queue) < QueueLen
      <4>1. response_queue' = Append(response_queue, p) /\ Happens("queued", p)
        BY <2>4, <3>2 DEF queue_response
      <4>2. InTransit' = Append(InTransit, p)
        BY <4>1, <3>1, <2>q, PrependAppend DEF InTransit
      <4>3. Len(InTransit) <= QueueLen
        <5>1. CASE packet = None
          BY <5>1, <3>2, <2>q DEF InTransit
        <5>2. CASE packet # None
          <6>1. packet \in Packet /\ InTransit = <<packet>> \o response_queue
            BY <5>2, <2>q DEF InTransit
          <6>2. Len(InTransit) = Len(response_queue) + 1
            BY <6>1, <2>q, PrependTail
          <6>3. QED
            BY <6>2, <3>2, <2>q
        <5>3. QED
          BY <5>1, <5>2
      <4>4. QED
        BY <4>1, <4>2, <4>3 DEF Happens, Queue!FifoNext, Queue!Put, Queue!Happens
    <3>3. CASE ~(Len(response_queue) < QueueLen)
      <4>1. Happens("refused", p) /\ UNCHANGED response_queue
        BY <2>4, <3>3 DEF queue_response
      <4>2. UNCHANGED InTransit
        BY <4>1, <3>1 DEF InTransit
      <4>3. Len(InTransit) >= QueueLen
        <5>1. CASE packet = None
          BY <5>1, <3>3, <2>q DEF InTransit
        <5>2. CASE packet # None
          <6>1. packet \in Packet /\ InTransit = <<packet>> \o response_queue
            BY <5>2, <2>q DEF InTransit
          <6>2. Len(InTransit) = Len(response_queue) + 1
            BY <6>1, <2>q, PrependTail
          <6>3. QED
            BY <6>2, <3>3, <2>q
        <5>3. QED
          BY <5>1, <5>2
      <4>4. QED
        BY <4>1, <4>2, <4>3 DEF Happens, Queue!FifoNext, Queue!Refuse, Queue!Happens
    <3>4. QED
      BY <3>2, <3>3
  <2>5. CASE UNCHANGED responseVars
    BY <2>5 DEF responseVars, InTransit
  <2>6. QED
    BY <2>1, <2>2, <2>3, <2>4, <2>5 DEF ResponseNext, service_response_task
<1>3. QED
  BY <1>1, <1>2, ResponseTypeCorrect, PTL DEF ResponseSpec, ImplementsFifo, Queue!FifoSpec

-----------------------------------------------------------------------------

\* No task is started twice; the server task is the first, the cli's the second.
LEMMA TheTasks ==
    /\ Len(Tasks) = 11 /\ DOMAIN Tasks = 1..11
    /\ Tasks[1] = "csp_server" /\ Tasks[2] = "cli" /\ Tasks[11] = "dfgm"
    /\ \A i \in 1..11 : (Tasks[i] = "csp_server" <=> i = 1) /\ (Tasks[i] = "cli" <=> i = 2)
    /\ \A i, j \in 1..11 : Tasks[i] = Tasks[j] => i = j
BY DEF Tasks

(***************************************************************************)
(* The inductive invariant of the start-up: what runs are the tasks before *)
(* the one it is at, but perhaps the cli, and that one once it is created; *)
(* the watchdog lags behind by one task at most, and the commands behind   *)
(* the cli.                                                                *)
(***************************************************************************)
StartInv ==
    /\ starting \in 1..11
    /\ stage \in {"create", "register", "commands", "SATR_OK", "SATR_ERROR"}
    /\ running \subseteq {Tasks[i] : i \in 1..starting}
    /\ \A i \in 1..11 : i < starting /\ i # 2 => Tasks[i] \in running
    /\ Tasks[starting] \in running <=> stage \in {"register", "commands", "SATR_OK"}
    /\ stage = "SATR_OK" => starting = 11
    /\ stage = "SATR_ERROR" => starting # 2
    /\ stage = "register" => starting # 1
    /\ stage = "commands" => starting = 2
    /\ watched = {t \in running : t # "csp_server" /\ ~(stage = "register" /\ t = Tasks[starting])}
    /\ commands <=> ("cli" \in running /\ starting # 2)

LEMMA StartInvInit == StartInit => StartInv
BY TheTasks DEF StartInit, StartInv

\* The next task, or the end.
LEMMA OnToNext ==
    ASSUME starting \in 1..11, GoOn
    PROVE  \/ starting = 11 /\ starting' = 11 /\ stage' = "SATR_OK"
           \/ starting < 11 /\ starting' = starting + 1 /\ stage' = "create"
BY TheTasks DEF GoOn

LEMMA StartInvStep == StartInv /\ [StartNext]_startVars => StartInv'
<1> SUFFICES ASSUME StartInv, [StartNext]_startVars PROVE StartInv'
  OBVIOUS
<1> USE DEF StartInv
<1>1. CASE TaskCreated
  <2>1. CASE starting = 1
    <3>1. starting' = 2 /\ stage' = "create" /\ running' = running \cup {Tasks[1]}
          /\ UNCHANGED <<watched, commands>>
      BY <1>1, <2>1, TheTasks, OnToNext DEF TaskCreated
    <3>2. running = {} /\ watched = {} /\ ~commands
      BY <1>1, <2>1, TheTasks DEF TaskCreated
    <3>3. QED
      BY <2>1, <3>1, <3>2, TheTasks
  <2>2. CASE starting # 1
    <3>1. /\ stage = "create" /\ stage' = "register" /\ starting' = starting
          /\ running' = running \cup {Tasks[starting]}
          /\ UNCHANGED <<watched, commands>>
      BY <1>1, <2>2, TheTasks DEF TaskCreated
    <3>2. QED
      BY <2>2, <3>1, TheTasks
  <2>3. QED
    BY <2>1, <2>2
<1>2. CASE TaskFails
  <2>1. CASE starting = 2
    <3>1. starting' = 3 /\ stage' = "create" /\ UNCHANGED <<running, watched, commands>>
          /\ stage = "create"
      BY <1>2, <2>1, TheTasks, OnToNext DEF TaskFails
    <3>2. QED
      BY <2>1, <3>1, TheTasks
  <2>2. CASE starting # 2
    <3>1. /\ stage = "create" /\ stage' = "SATR_ERROR" /\ starting' = starting
          /\ UNCHANGED <<running, watched, commands>>
      BY <1>2, <2>2, TheTasks DEF TaskFails
    <3>2. QED
      BY <2>2, <3>1, TheTasks
  <2>3. QED
    BY <2>1, <2>2
<1>3. CASE ex2_register
  <2>1. CASE starting = 2
    <3>1. /\ stage = "register" /\ stage' = "commands" /\ starting' = starting
          /\ watched' = watched \cup {Tasks[starting]} /\ UNCHANGED <<running, commands>>
      BY <1>3, <2>1, TheTasks DEF ex2_register
    <3>2. QED
      BY <2>1, <3>1, TheTasks
  <2>2. CASE starting # 2
    <3>1. /\ stage = "register" /\ GoOn
          /\ watched' = watched \cup {Tasks[starting]} /\ UNCHANGED <<running, commands>>
      BY <1>3, <2>2, TheTasks DEF ex2_register
    <3>2. CASE starting = 11
      BY <2>2, <3>1, <3>2, TheTasks, OnToNext
    <3>3. CASE starting < 11
      BY <2>2, <3>1, <3>3, TheTasks, OnToNext
    <3>4. QED
      BY <3>2, <3>3
  <2>3. QED
    BY <2>1, <2>2
<1>4. CASE register_commands
  <2>1. /\ stage = "commands" /\ starting = 2 /\ starting' = 3 /\ stage' = "create"
        /\ commands' = TRUE /\ UNCHANGED <<running, watched>>
    BY <1>4, TheTasks, OnToNext DEF register_commands
  <2>2. QED
    BY <2>1, TheTasks
<1>5. CASE UNCHANGED startVars
  BY <1>5 DEF startVars
<1>6. QED
  BY <1>1, <1>2, <1>3, <1>4, <1>5 DEF StartNext

LEMMA StartInvTold == StartInv => StartTold
<1> SUFFICES ASSUME StartInv PROVE StartTold
  OBVIOUS
<1> USE DEF StartInv
<1>1. ToSet(Tasks) = {Tasks[i] : i \in 1..11}
  BY TheTasks DEF ToSet
<1>2. ASSUME NEW t \in running PROVE Before(t) \ {"cli"} \subseteq running
  <2>1. PICK k \in 1..starting : t = Tasks[k]
    OBVIOUS
  <2>2. SUFFICES ASSUME NEW i \in 1..11, NEW j \in 1..11, i < j, Tasks[j] = t, Tasks[i] # "cli"
                 PROVE  Tasks[i] \in running
    BY TheTasks DEF Before
  <2>3. j = k
    BY <2>1, <2>2, TheTasks
  <2>4. QED
    BY <2>1, <2>2, <2>3, TheTasks
<1>3. stage = "SATR_OK" => ToSet(Tasks) \ {"cli"} \subseteq running
  BY <1>1, TheTasks
<1>4. stage = "SATR_ERROR" => ~(ToSet(Tasks) \ {"cli"} \subseteq running)
  BY <1>1, TheTasks
<1>5. Returned => watched = running \ {"csp_server"}
  BY DEF Returned
<1>6. Returned => (commands <=> "cli" \in running)
  BY DEF Returned
<1>7. QED
  BY <1>2, <1>3, <1>4, <1>5, <1>6 DEF StartTold

(***************************************************************************)
(* What start_service_server returned tells what runs, and no task that    *)
(* runs is left without the watchdog, nor the cli without its commands.    *)
(***************************************************************************)
THEOREM StartUpTold == FairSpec => []StartTold
<1>1. Init => StartInv
  BY StartInvInit DEF Init
<1>2. StartInv /\ [Next]_vars => StartInv'
  BY StartInvStep DEF Next, vars
<1>3. QED
  BY <1>1, <1>2, StartInvTold, PTL DEF FairSpec

(***************************************************************************)
(* The response server is a first-in first-out queue, also with everything *)
(* else that is started.                                                   *)
(***************************************************************************)
THEOREM BootImplementsFifo == FairSpec => ImplementsFifo
<1>1. Init => ResponseInit
  BY DEF Init
<1>2. [Next]_vars => [ResponseNext]_responseVars
  BY DEF Next, vars
<1>3. QED
  BY <1>1, <1>2, ResponseImplementsFifo, PTL DEF FairSpec, ResponseSpec
=============================================================================
