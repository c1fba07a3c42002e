-------------------------- MODULE Services_proofs --------------------------
(***************************************************************************)
(* Theorems about the service loops and the pool of buffers, for every set *)
(* of services with the plain loop and any number of buffers.              *)
(***************************************************************************)
EXTENDS Services, FiniteSetTheorems, SequenceTheorems, TLAPS

-----------------------------------------------------------------------------
(***************************************************************************)
(* Which places of the loops a service can be at, and what the variables   *)
(* of a loop hold there.  This is what makes every csp_buffer_free of the  *)
(* code but one a free of what the task has, and it says where a packet    *)
(* that could not be had is written to.                                    *)
(***************************************************************************)
Places(s) ==
    {"accept", "read", "close"} \cup Ways(s)
    \cup (IF s = "hk" THEN {"record", "page"} ELSE {})
    \cup (IF s = "cli" THEN {"answer", "clone", "failed"} ELSE {})

\* Places at which the service works on a packet; at which it has none.
WithPacket == {"checked", "unchecked", "refuse", "ignore", "reboot", "fetch", "page", "talk"}
WithoutPacket == {"accept", "read", "close", "record", "clone", "failed"}

Loops ==
    /\ pc \in [Service -> WithPacket \cup WithoutPacket \cup {"answer"}]
    /\ \A s \in Service : pc[s] \in Places(s)

Variables ==
    /\ \A s \in Service : /\ pc[s] \in WithPacket => packet[s] # None
                          /\ pc[s] \in WithoutPacket => packet[s] = None
                          /\ pc[s] \in {"page", "answer", "clone"} => left[s] > 0
    /\ pc["cli"] \notin {"answer", "clone"} => original = None

Typed ==
    /\ free \subseteq Buffer /\ sending \subseteq Buffer
    /\ queue \in [Service -> Seq(Buffer)]
    /\ packet \in [Service -> Buffer \cup {None}]
    /\ original \in Buffer \cup {None} /\ first \in Buffer \cup {None}
    /\ left \in [Service -> 0..MaxParts]
    /\ kicked \in [Timed -> BOOLEAN]
    /\ leaked \in Nat
    /\ mishap \in {None} \cup ({"freed", "null"} \X Service)

LoopInv ==
    /\ Typed /\ Loops /\ KnownMishaps
    /\ mishap = None => Variables

LEMMA ServiceNames ==
    /\ "general" \in Service /\ "hk" \in Service /\ "cli" \in Service
    /\ \A s \in Service : s = "general" \/ s = "hk" \/ s = "cli" \/ s \in Plain
    /\ "general" \notin Plain /\ "hk" \notin Plain /\ "cli" \notin Plain
BY ServicesAssumption DEF Service

LEMMA WaysOf ==
    /\ Ways("general") = {"checked", "unchecked", "reboot", "ignore"}
    /\ Ways("hk") = {"checked", "fetch", "ignore"}
    /\ Ways("cli") = {"talk"}
    /\ \A s \in Plain : Ways(s) = {"checked", "refuse"}
BY ServiceNames DEF Ways

\* Who can be where.
LEMMA PlacesOf ==
    \A s \in Service :
        /\ Places(s) \subseteq WithPacket \cup WithoutPacket \cup {"answer"}
        /\ {"accept", "read", "close"} \subseteq Places(s)
        /\ Ways(s) \subseteq Places(s) \cap WithPacket
        /\ "fetch" \in Places(s) \/ "record" \in Places(s) \/ "page" \in Places(s)
              => s = "hk" /\ {"record", "page"} \subseteq Places(s)
        /\ "talk" \in Places(s) \/ "answer" \in Places(s) \/ "clone" \in Places(s)
              \/ "failed" \in Places(s)
              => s = "cli" /\ {"answer", "clone", "failed"} \subseteq Places(s)
<1> SUFFICES ASSUME NEW s \in Service
             PROVE  /\ Places(s) \subseteq WithPacket \cup WithoutPacket \cup {"answer"}
                    /\ {"accept", "read", "close"} \subseteq Places(s)
                    /\ Ways(s) \subseteq Places(s) \cap WithPacket
                    /\ "fetch" \in Places(s) \/ "record" \in Places(s) \/ "page" \in Places(s)
                          => s = "hk" /\ {"record", "page"} \subseteq Places(s)
                    /\ "talk" \in Places(s) \/ "answer" \in Places(s) \/ "clone" \in Places(s)
                          \/ "failed" \in Places(s)
                          => s = "cli" /\ {"answer", "clone", "failed"} \subseteq Places(s)
  OBVIOUS
<1>1. CASE s \in Plain
  BY <1>1, ServiceNames, WaysOf DEF Places, WithPacket, WithoutPacket
<1>2. CASE s = "general"
  BY <1>2, ServiceNames, WaysOf DEF Places, WithPacket, WithoutPacket
<1>3. CASE s = "hk"
  BY <1>3, ServiceNames, WaysOf DEF Places, WithPacket, WithoutPacket
<1>4. CASE s = "cli"
  BY <1>4, ServiceNames, WaysOf DEF Places, WithPacket, WithoutPacket
<1>5. QED
  BY <1>1, <1>2, <1>3, <1>4, ServiceNames

LEMMA LoopInit == Init => LoopInv
BY ServicesAssumption, PlacesOf
   DEF Init, LoopInv, Typed, Loops, Variables, KnownMishaps, WithPacket, WithoutPacket

LEMMA LoopRestart == Restart => LoopInv'
BY ServicesAssumption, PlacesOf
   DEF Restart, LoopInv, Typed, Loops, Variables, KnownMishaps, WithPacket, WithoutPacket


\* A step of a loop that moves one service and keeps what the others have.
LEMMA Moved ==
    ASSUME Typed, Loops, Variables, NEW s \in Service, NEW l \in Places(s), Goto(s, l),
           Typed',
           \A t \in Service \ {s} : packet'[t] = packet[t] /\ left'[t] = left[t],
           l \in WithPacket => packet'[s] # None,
           l \in WithoutPacket => packet'[s] = None,
           l \in {"page", "answer", "clone"} => left'[s] > 0,
           \/ original' = original /\ (s = "cli" /\ l \notin {"answer", "clone"} => original = None)
           \/ original' = None
           \/ s = "cli" /\ l \in {"answer", "clone"}
    PROVE  Loops' /\ Variables'
<1>1. pc' = [pc EXCEPT ![s] = l] /\ pc \in [Service -> WithPacket \cup WithoutPacket \cup {"answer"}]
  BY DEF Goto, Loops
<1>2. l \in WithPacket \cup WithoutPacket \cup {"answer"}
  BY PlacesOf
<1>3. pc'[s] = l /\ \A t \in Service \ {s} : pc'[t] = pc[t]
  BY <1>1
<1>4. Loops'
  BY <1>1, <1>2, <1>3 DEF Loops
<1>5. \A t \in Service : /\ pc'[t] \in WithPacket => packet'[t] # None
                         /\ pc'[t] \in WithoutPacket => packet'[t] = None
                         /\ pc'[t] \in {"page", "answer", "clone"} => left'[t] > 0
  BY <1>3 DEF Variables
<1>6. pc'["cli"] \notin {"answer", "clone"} => original' = None
  BY <1>3, ServiceNames DEF Variables
<1>7. QED
  BY <1>4, <1>5, <1>6 DEF Variables

LEMMA LoopServe ==
    ASSUME LoopInv, mishap = None, NEW s \in Service,
           Accept(s) \/ AcceptTimesOut(s) \/ ReadPacket(s) \/ ReadTimesOut(s) \/ Close(s)
    PROVE  LoopInv'
<1> USE DEF LoopInv, Typed
<1>1. pc[s] \in Places(s) /\ {"accept", "read", "close"} \subseteq Places(s)
  BY PlacesOf DEF Loops
<1>2. KnownMishaps' /\ mishap' = None
  BY DEF Accept, AcceptTimesOut, ReadPacket, ReadTimesOut, Close, KnownMishaps
<1>3. CASE Accept(s)
  <2>1. Typed'
    BY <1>3 DEF Accept, Kick, cliVars
  <2>2. Loops' /\ Variables'
    BY <1>1, <1>3, <2>1, Moved DEF Accept, cliVars, Variables, WithPacket, WithoutPacket
  <2>3. QED
    BY <1>2, <2>1, <2>2
<1>4. CASE AcceptTimesOut(s)
  <2>1. Typed'
    BY <1>4 DEF AcceptTimesOut, Kick, cliVars
  <2>2. Loops' /\ Variables'
    BY <1>4 DEF AcceptTimesOut, cliVars, Loops, Variables
  <2>3. QED
    BY <1>2, <2>1, <2>2
<1>5. CASE ReadPacket(s)
  <2>1. PICK way \in Ways(s) : Goto(s, way)
    BY <1>5 DEF ReadPacket
  <2>2. queue[s] \in Seq(Buffer) /\ queue[s] # <<>>
    BY <1>5 DEF ReadPacket
  <2>3. Head(queue[s]) \in Buffer /\ Tail(queue[s]) \in Seq(Buffer)
    BY <2>2, HeadTailProperties
  <2>4. packet' = [packet EXCEPT ![s] = Head(queue[s])]
        /\ queue' = [queue EXCEPT ![s] = Tail(queue[s])]
    BY <1>5 DEF ReadPacket, Holds
  <2>5. Typed'
    BY <1>5, <2>3, <2>4 DEF ReadPacket, cliVars
  <2>6. way \in Places(s) /\ way \in WithPacket
    BY <2>1, PlacesOf
  <2>7. Loops' /\ Variables'
    <3>1. packet'[s] # None /\ \A t \in Service \ {s} : packet'[t] = packet[t]
      BY <2>3, <2>4, ServicesAssumption
    <3>2. way \notin WithoutPacket /\ way \notin {"answer", "clone"}
      BY <2>6 DEF WithPacket, WithoutPacket
    <3>3. way = "page" => left[s] > 0
      BY <2>1, WaysOf, ServiceNames, ZenonT(60)
    <3>4. original' = original /\ left' = left
      BY <1>5 DEF ReadPacket, cliVars
    <3>5. s = "cli" => original = None
      BY <1>5 DEF ReadPacket, Variables
    <3>6. QED
      BY <2>1, <2>5, <2>6, <3>1, <3>2, <3>3, <3>4, <3>5, Moved
  <2>8. QED
    BY <1>2, <2>5, <2>7
<1>6. CASE ReadTimesOut(s)
  <2>1. Typed'
    BY <1>6 DEF ReadTimesOut, cliVars
  <2>2. Loops' /\ Variables'
    BY <1>1, <1>6, <2>1, Moved DEF ReadTimesOut, cliVars, Variables, WithPacket, WithoutPacket
  <2>3. QED
    BY <1>2, <2>1, <2>2
<1>7. CASE Close(s)
  <2>1. \A i \in DOMAIN queue[s] : queue[s][i] \in Buffer
    BY ElementOfSeq, LenProperties
  <2>2. Typed'
    BY <1>7, <2>1 DEF Close, cliVars
  <2>3. Loops' /\ Variables'
    BY <1>1, <1>7, <2>2, Moved DEF Close, cliVars, Variables, WithPacket, WithoutPacket
  <2>4. QED
    BY <1>2, <2>2, <2>3
<1>8. QED
  BY <1>3, <1>4, <1>5, <1>6, <1>7


\* A service that frees what it has makes no mishap.
LEMMA FreeOwn ==
    ASSUME Typed, NEW s \in Service, NEW b \in Has(s), b \in Buffer \cup {None}, Free(s, b)
    PROVE  /\ free' = free \cup ({b} \ {None})
           /\ free' \subseteq Buffer
           /\ mishap' = mishap
BY DEF Free, Typed

LEMMA LoopAnswer ==
    ASSUME LoopInv, mishap = None, NEW s \in Service,
           SendOk(s) \/ SendFails(s) \/ Refuse(s) \/ Ignore(s)
    PROVE  LoopInv'
<1> USE DEF LoopInv, Typed
<1>1. "read" \in Places(s) /\ packet[s] \in Has(s)
  BY PlacesOf DEF Has
<1>2. pc[s] \in WithPacket /\ packet[s] # None /\ packet[s] \in Buffer
  BY DEF SendOk, SendFails, Refuse, Ignore, WithPacket, Variables
<1>3. packet' = [packet EXCEPT ![s] = None] /\ Goto(s, "read")
      /\ UNCHANGED <<queue, original, first, left, kicked>>
  BY DEF SendOk, SendFails, Refuse, Ignore, Holds, cliVars
<1>4. /\ free' \subseteq Buffer /\ sending' \subseteq Buffer /\ leaked' \in Nat
      /\ mishap' = None
  <2>1. CASE SendOk(s)
    BY <1>2, <2>1 DEF SendOk
  <2>2. CASE SendFails(s)
    BY <1>1, <1>2, <2>2, FreeOwn DEF SendFails
  <2>3. CASE Refuse(s)
    BY <1>1, <1>2, <2>3, FreeOwn DEF Refuse
  <2>4. CASE Ignore(s)
    BY <2>4 DEF Ignore
  <2>5. QED
    BY <2>1, <2>2, <2>3, <2>4
<1>5. Typed' /\ KnownMishaps'
  BY <1>3, <1>4 DEF KnownMishaps
<1>6. pc[s] \notin {"answer", "clone"}
  BY <1>2 DEF WithPacket
<1>7. Loops' /\ Variables'
  BY <1>1, <1>3, <1>5, <1>6, Moved DEF Variables, WithPacket, WithoutPacket
<1>8. QED
  BY <1>5, <1>7

LEMMA LoopFetch ==
    ASSUME LoopInv, mishap = None, NEW s \in Service,
           FetchStart(s) \/ FetchEnds(s) \/ FetchRecord(s) \/ PageSent(s) \/ PageFails(s)
    PROVE  LoopInv'
<1> USE DEF LoopInv, Typed
<1>1. s = "hk" /\ {"record", "page", "read"} \subseteq Places(s) /\ packet[s] \in Has(s)
  BY PlacesOf DEF Has, FetchStart, FetchEnds, FetchRecord, PageSent, PageFails, Loops
<1>2. UNCHANGED <<queue, original, first, kicked, leaked>> /\ s # "cli"
  BY <1>1 DEF FetchStart, FetchEnds, FetchRecord, PageSent, PageFails, cliVars
<1>3. CASE FetchStart(s)
  <2>1. Free(s, packet[s]) /\ packet' = [packet EXCEPT ![s] = None] /\ Goto(s, "record")
        /\ sending' = sending
    BY <1>3 DEF FetchStart, Holds
  <2>2. PICK n \in 0..MaxParts : left' = [left EXCEPT ![s] = n]
    BY <1>3 DEF FetchStart
  <2>3. Typed' /\ mishap' = None
    BY <1>1, <1>2, <2>1, <2>2, FreeOwn
  <2>4. Loops' /\ Variables'
    BY <1>1, <1>2, <2>1, <2>2, <2>3, Moved DEF WithPacket, WithoutPacket
  <2>5. QED
    BY <2>3, <2>4 DEF KnownMishaps
<1>4. CASE FetchEnds(s)
  <2>1. left' = [left EXCEPT ![s] = 0] /\ Goto(s, "read") /\ UNCHANGED <<free, sending, packet, mishap>>
    BY <1>4 DEF FetchEnds
  <2>2. packet[s] = None
    BY <1>4 DEF FetchEnds, Variables, WithoutPacket
  <2>3. Typed'
    BY <1>2, <2>1, ServicesAssumption
  <2>4. Loops' /\ Variables'
    BY <1>1, <1>2, <2>1, <2>2, <2>3, Moved DEF WithPacket, WithoutPacket
  <2>5. QED
    BY <2>1, <2>3, <2>4 DEF KnownMishaps
<1>5. CASE FetchRecord(s)
  <2>1. Goto(s, "page") /\ UNCHANGED <<sending, left>> /\ left[s] > 0
    BY <1>5 DEF FetchRecord
  <2>2. CASE \E b \in free : free' = free \ {b} /\ Holds(s, b) /\ UNCHANGED mishap
    <3>1. PICK b \in free : free' = free \ {b} /\ packet' = [packet EXCEPT ![s] = b]
                            /\ UNCHANGED mishap
      BY <2>2 DEF Holds
    <3>2. b \in Buffer /\ b # None
      BY ServicesAssumption
    <3>3. Typed'
      BY <1>2, <2>1, <3>1, <3>2
    <3>4. Loops' /\ Variables'
      BY <1>1, <1>2, <2>1, <3>1, <3>2, <3>3, Moved DEF WithPacket, WithoutPacket
    <3>5. QED
      BY <3>1, <3>3, <3>4 DEF KnownMishaps
  <2>3. CASE free = {} /\ mishap' = <<"null", s>> /\ UNCHANGED <<free, packet>>
    <3>1. Typed'
      BY <1>2, <2>1, <2>3
    <3>2. mishap' # None
      BY <2>3, ServicesAssumption
    <3>3. KnownMishaps'
      BY <1>1, <2>3 DEF KnownMishaps
    <3>4. Loops'
      BY <1>1, <2>1, PlacesOf DEF Goto, Loops
    <3>5. QED
      BY <3>1, <3>2, <3>3, <3>4
  <2>4. QED
    BY <1>5, <2>2, <2>3 DEF FetchRecord
<1>6. CASE PageSent(s)
  <2>1. /\ packet' = [packet EXCEPT ![s] = None] /\ Goto(s, "record")
        /\ sending' = sending \cup {packet[s]} /\ left' = [left EXCEPT ![s] = @ - 1]
        /\ UNCHANGED <<free, mishap>>
    BY <1>6 DEF PageSent, Holds
  <2>2. packet[s] # None /\ left[s] > 0
    BY <1>6 DEF PageSent, Variables, WithPacket
  <2>3. Typed'
    BY <1>2, <2>1, <2>2, ServicesAssumption
  <2>4. Loops' /\ Variables'
    BY <1>1, <1>2, <2>1, <2>3, Moved DEF WithPacket, WithoutPacket
  <2>5. QED
    BY <2>1, <2>3, <2>4 DEF KnownMishaps
<1>7. CASE PageFails(s)
  <2>1. /\ Free(s, packet[s]) /\ packet' = [packet EXCEPT ![s] = None] /\ Goto(s, "read")
        /\ left' = [left EXCEPT ![s] = 0] /\ UNCHANGED sending
    BY <1>7 DEF PageFails, Holds
  <2>2. Typed' /\ mishap' = None
    BY <1>1, <1>2, <2>1, FreeOwn, ServicesAssumption
  <2>3. Loops' /\ Variables'
    BY <1>1, <1>2, <2>1, <2>2, Moved DEF WithPacket, WithoutPacket
  <2>4. QED
    BY <2>2, <2>3 DEF KnownMishaps
<1>8. QED
  BY <1>3, <1>4, <1>5, <1>6, <1>7


LEMMA LoopTalk ==
    ASSUME LoopInv, mishap = None, NEW s \in Service,
           \/ TalkStart(s) \/ AnswerNowhere(s) \/ AnswerMore(s) \/ Clone(s)
           \/ AnswerLast(s) \/ AnswerFails(s) \/ TalkFailed(s)
    PROVE  LoopInv'
<1> USE DEF LoopInv, Typed
<1>1. s = "cli" /\ {"answer", "clone", "failed", "read"} \subseteq Places(s)
      /\ packet[s] \in Has(s) /\ original \in Has(s)
  BY PlacesOf DEF Has, TalkStart, AnswerNowhere, AnswerMore, Clone, AnswerLast, AnswerFails,
     TalkFailed, Loops
<1>2. UNCHANGED <<queue, kicked, leaked>>
  BY DEF TalkStart, AnswerNowhere, AnswerMore, Clone, AnswerLast, AnswerFails, TalkFailed
<1>3. CASE TalkStart(s)
  <2>1. original' \in Buffer \cup {None} /\ free' \subseteq Buffer
    BY <1>3 DEF TalkStart
  <2>2. PICK n \in 1..MaxParts : left' = [left EXCEPT ![s] = n]
    BY <1>3 DEF TalkStart
  <2>3. first' = packet[s] /\ Goto(s, "answer") /\ UNCHANGED <<sending, packet, mishap>>
    BY <1>3 DEF TalkStart
  <2>4. Typed'
    BY <1>2, <2>1, <2>2, <2>3
  <2>5. left'[s] > 0 /\ \A t \in Service \ {s} : left'[t] = left[t]
    BY <2>2, ServicesAssumption
  <2>6. Loops' /\ Variables'
    BY <1>1, <2>3, <2>4, <2>5, Moved DEF WithPacket, WithoutPacket
  <2>7. QED
    BY <2>3, <2>4, <2>6 DEF KnownMishaps
<1>4. CASE AnswerNowhere(s)
  <2>1. mishap' = <<"null", s>> /\ UNCHANGED <<free, sending, packet, original, first, left, pc>>
    BY <1>4 DEF AnswerNowhere, cliVars
  <2>2. mishap' # None
    BY <2>1, ServicesAssumption
  <2>3. Typed'
    BY <1>2, <2>1
  <2>4. KnownMishaps'
    BY <1>1, <2>1 DEF KnownMishaps
  <2>5. Loops'
    BY <2>1 DEF Loops
  <2>6. QED
    BY <2>2, <2>3, <2>4, <2>5
<1>5. CASE AnswerMore(s)
  <2>1. /\ packet[s] # None /\ left[s] > 1 /\ sending' = sending \cup {packet[s]}
        /\ packet' = [packet EXCEPT ![s] = None] /\ Goto(s, "clone")
        /\ left' = [left EXCEPT ![s] = @ - 1] /\ UNCHANGED <<free, original, first, mishap>>
    BY <1>5 DEF AnswerMore, Holds, cliVars
  <2>2. Typed'
    BY <1>2, <2>1, ServicesAssumption
  <2>3. left'[s] > 0
    BY <2>1, ServicesAssumption
  <2>4. Loops' /\ Variables'
    BY <1>1, <2>1, <2>2, <2>3, Moved DEF WithPacket, WithoutPacket
  <2>5. QED
    BY <2>1, <2>2, <2>4 DEF KnownMishaps
<1>6. CASE Clone(s)
  <2>1. Goto(s, "answer") /\ left[s] > 0 /\ UNCHANGED <<sending, original, first, left, mishap>>
    BY <1>6 DEF Clone, cliVars, Variables
  <2>2. /\ packet' \in [Service -> Buffer \cup {None}] /\ free' \subseteq Buffer
        /\ \A t \in Service \ {s} : packet'[t] = packet[t]
    BY <1>6 DEF Clone, Holds
  <2>3. Typed'
    BY <1>2, <2>1, <2>2
  <2>4. Loops' /\ Variables'
    BY <1>1, <2>1, <2>2, <2>3, Moved DEF WithPacket, WithoutPacket
  <2>5. QED
    BY <2>1, <2>3, <2>4 DEF KnownMishaps
<1>7. CASE AnswerLast(s)
  <2>1. /\ packet[s] # None /\ sending' = sending \cup {packet[s]}
        /\ packet' = [packet EXCEPT ![s] = None] /\ Goto(s, "read")
        /\ Free(s, original) /\ original' = None /\ first' = None
        /\ left' = [left EXCEPT ![s] = 0]
    BY <1>7 DEF AnswerLast, Holds
  <2>2. Typed' /\ mishap' = None
    BY <1>1, <1>2, <2>1, FreeOwn, ServicesAssumption
  <2>3. Loops' /\ Variables'
    BY <1>1, <2>1, <2>2, Moved DEF WithPacket, WithoutPacket
  <2>4. QED
    BY <2>2, <2>3 DEF KnownMishaps
<1>8. CASE AnswerFails(s)
  <2>1. /\ free' = free \cup ({original, packet[s]} \ {None})
        /\ packet' = [packet EXCEPT ![s] = None] /\ original' = None
        /\ left' = [left EXCEPT ![s] = 0] /\ Goto(s, "failed")
        /\ UNCHANGED <<sending, first, mishap>>
    BY <1>8 DEF AnswerFails, Holds
  <2>2. Typed'
    BY <1>2, <2>1, ServicesAssumption
  <2>3. Loops' /\ Variables'
    BY <1>1, <2>1, <2>2, Moved DEF WithPacket, WithoutPacket
  <2>4. QED
    BY <2>1, <2>2, <2>3 DEF KnownMishaps
<1>9. CASE TalkFailed(s)
  <2>1. /\ Free(s, first) /\ first' = None /\ Goto(s, "read")
        /\ UNCHANGED <<sending, packet, original, left>>
    BY <1>9 DEF TalkFailed
  <2>2. free' \subseteq Buffer /\ mishap' \in {None, <<"freed", s>>}
    BY <2>1 DEF Free
  <2>3. Typed' /\ KnownMishaps'
    BY <1>1, <1>2, <2>1, <2>2 DEF KnownMishaps
  <2>4. packet[s] = None /\ original = None
    BY <1>1, <1>9 DEF TalkFailed, Variables, WithoutPacket
  <2>5. Loops' /\ Variables'
    BY <1>1, <2>1, <2>3, <2>4, Moved DEF WithPacket, WithoutPacket
  <2>6. QED
    BY <2>3, <2>5
<1>10. QED
  BY <1>3, <1>4, <1>5, <1>6, <1>7, <1>8, <1>9

(***************************************************************************)
(* Every step keeps the invariant of the loops.                            *)
(***************************************************************************)
LEMMA LoopStep == LoopInv /\ [Next]_vars => LoopInv'
<1> SUFFICES ASSUME LoopInv, [Next]_vars PROVE LoopInv'
  OBVIOUS
<1>1. CASE mishap = None /\ Sent
  BY <1>1 DEF Sent, LoopInv, Typed, Loops, Variables, KnownMishaps, cliVars
<1>2. ASSUME mishap = None, NEW s \in Service, Arrive(s) PROVE LoopInv'
  <2>1. PICK b \in free : free' = free \ {b} /\ queue' = [queue EXCEPT ![s] = Append(@, b)]
    BY <1>2 DEF Arrive
  <2>2. Append(queue[s], b) \in Seq(Buffer)
    BY AppendProperties DEF LoopInv, Typed
  <2>3. UNCHANGED <<sending, packet, original, first, left, kicked, leaked, mishap, pc>>
    BY <1>2 DEF Arrive, cliVars
  <2>4. QED
    BY <2>1, <2>2, <2>3 DEF LoopInv, Typed, Loops, Variables, KnownMishaps
<1>3. ASSUME mishap = None, NEW s \in Service, Serve(s) PROVE LoopInv'
  BY <1>3, LoopServe, LoopAnswer, LoopFetch, LoopTalk, LoopRestart DEF Serve, Handle, Reboot
<1>4. CASE Reset
  BY <1>4, LoopRestart DEF Reset
<1>5. CASE UNCHANGED vars
  BY <1>5 DEF vars, LoopInv, Typed, Loops, Variables, KnownMishaps
<1>6. QED
  BY <1>1, <1>2, <1>3, <1>4, <1>5 DEF Next

(***************************************************************************)
(* Only the command line service frees a packet that is not its own, and   *)
(* only it and GET_HK write through NULL, however many services there are  *)
(* and however few buffers.                                                *)
(***************************************************************************)
THEOREM OnlyKnownMishaps == Spec => []KnownMishaps
<1>1. LoopInv => KnownMishaps
  BY DEF LoopInv
<1>2. QED
  BY <1>1, LoopInit, LoopStep, PTL DEF Spec

-----------------------------------------------------------------------------
(***************************************************************************)
(* Where the buffers are.  A step of the system moves at most two of them, *)
(* or those of one queue; there is a lemma for each kind of move.          *)
(***************************************************************************)
Waits(s) == {queue[s][i] : i \in DOMAIN queue[s]}
Distinct(q) == \A i, j \in DOMAIN q : q[i] = q[j] => i = j

\* b is free, with CSP, waiting for a service, or what one works on.
Somewhere(b) ==
    \/ b \in free \/ b \in sending \/ b = original
    \/ \E s \in Service : b = packet[s] \/ b \in Waits(s)

Once ==
    /\ free \cap sending = {}
    /\ original \notin free \cup sending
    /\ \A s \in Service :
          /\ packet[s] \notin free \cup sending
          /\ packet[s] # None => packet[s] # original
          /\ Waits(s) \cap (free \cup sending \cup {original}) = {}
          /\ Distinct(queue[s])
          /\ \A t \in Service : packet[t] \notin Waits(s)
          /\ \A t \in Service \ {s} : /\ Waits(s) \cap Waits(t) = {}
                                      /\ packet[s] # None => packet[t] # packet[s]

LEMMA OnceIsHeldOnce == ASSUME Once PROVE HeldOnce
<1>1. free \cap sending = {} /\ Held \cap (free \cup sending) = {}
  BY DEF Once, Held
<1>2. \A s \in Service : packet[s] # None =>
          packet[s] # original /\ \A t \in Service \ {s} : packet[t] # packet[s]
  BY DEF Once
<1>3. ASSUME NEW s \in Service, NEW i \in DOMAIN queue[s]
      PROVE  /\ queue[s][i] \notin free \cup sending \cup Held
             /\ \A t \in Service \ {s} : ~Waiting(t, queue[s][i])
             /\ \A j \in DOMAIN queue[s] : queue[s][j] = queue[s][i] => i = j
  <2>1. queue[s][i] \in Waits(s)
    BY DEF Waits
  <2>2. queue[s][i] \notin free \cup sending \cup Held
    BY <2>1 DEF Once, Held
  <2>3. \A t \in Service \ {s} : ~Waiting(t, queue[s][i])
    <3>1. SUFFICES ASSUME NEW t \in Service \ {s}, Waiting(t, queue[s][i]) PROVE FALSE
      OBVIOUS
    <3>2. queue[s][i] \in Waits(t)
      BY <3>1 DEF Waiting, Waits
    <3>3. QED
      BY <2>1, <3>2 DEF Once
  <2>4. \A j \in DOMAIN queue[s] : queue[s][j] = queue[s][i] => i = j
    BY DEF Once, Distinct
  <2>5. QED
    BY <2>2, <2>3, <2>4
<1>4. QED
  BY <1>1, <1>2, <1>3 DEF HeldOnce

LEMMA LostIs ==
    /\ Lost = {b \in Buffer : ~Somewhere(b)}
    /\ Lost' = {b \in Buffer : ~Somewhere(b)'}
BY DEF Lost, Somewhere, Held, Waiting, Waits

\* Nothing is moved.
LEMMA StaysPut ==
    ASSUME Once, UNCHANGED <<free, sending, queue, packet, original>>
    PROVE  Once' /\ Lost' = Lost
<1>1. \A s \in Service : Waits(s)' = Waits(s)
  BY DEF Waits
<1>2. QED
  BY <1>1, LostIs DEF Once, Somewhere, Distinct

\* CSP gets rid of b.
LEMMA MovedSent ==
    ASSUME Once, NEW b \in sending, sending' = sending \ {b}, free' = free \cup {b},
           UNCHANGED <<queue, packet, original>>
    PROVE  Once' /\ Lost' = Lost
<1>1. \A s \in Service : Waits(s)' = Waits(s)
  BY DEF Waits
<1>2. Once'
  BY <1>1 DEF Once, Distinct
<1>3. \A c : Somewhere(c)' <=> Somewhere(c)
  BY <1>1 DEF Somewhere
<1>4. QED
  BY <1>2, <1>3, LostIs

\* The elements of a sequence one is put into, and of one whose first is taken.
LEMMA ElementsOfAppend ==
    ASSUME NEW S, NEW q \in Seq(S), NEW b \in S
    PROVE  /\ {Append(q, b)[i] : i \in DOMAIN Append(q, b)} = {q[i] : i \in DOMAIN q} \cup {b}
           /\ Distinct(q) /\ b \notin {q[i] : i \in DOMAIN q} => Distinct(Append(q, b))
<1>1. /\ DOMAIN q = 1..Len(q) /\ Len(q) \in Nat
      /\ DOMAIN Append(q, b) = 1..(Len(q) + 1)
      /\ \A i \in 1..Len(q) : Append(q, b)[i] = q[i]
      /\ Append(q, b)[Len(q) + 1] = b
  BY AppendProperties, LenProperties
<1>2. DOMAIN Append(q, b) = DOMAIN q \cup {Len(q) + 1}
  BY <1>1
<1>3. QED
  BY <1>1, <1>2 DEF Distinct

LEMMA ElementsOfTail ==
    ASSUME NEW S, NEW q \in Seq(S), q # <<>>, Distinct(q)
    PROVE  /\ Head(q) \in {q[i] : i \in DOMAIN q}
           /\ {Tail(q)[i] : i \in DOMAIN Tail(q)} = {q[i] : i \in DOMAIN q} \ {Head(q)}
           /\ Distinct(Tail(q))
<1>1. /\ DOMAIN q = 1..Len(q) /\ Len(q) \in Nat \ {0} /\ Head(q) = q[1]
      /\ DOMAIN Tail(q) = 1..(Len(q) - 1)
      /\ \A i \in 1..(Len(q) - 1) : Tail(q)[i] = q[i + 1]
  <2>1. Tail(q) \in Seq(S) /\ Len(Tail(q)) = Len(q) - 1
        /\ \A i \in 1..Len(Tail(q)) : Tail(q)[i] = q[i + 1]
    BY HeadTailProperties
  <2>2. QED
    BY <2>1, LenProperties, EmptySeq
<1>2. \A i \in DOMAIN q : i # 1 => i - 1 \in DOMAIN Tail(q) /\ Tail(q)[i - 1] = q[i]
  BY <1>1
<1>3. \A i \in DOMAIN Tail(q) : i + 1 \in DOMAIN q /\ i + 1 # 1 /\ Tail(q)[i] = q[i + 1]
  BY <1>1
<1>4. {Tail(q)[i] : i \in DOMAIN Tail(q)} \subseteq {q[i] : i \in DOMAIN q} \ {Head(q)}
  BY <1>1, <1>3 DEF Distinct
<1>5. {q[i] : i \in DOMAIN q} \ {Head(q)} \subseteq {Tail(q)[i] : i \in DOMAIN Tail(q)}
  <2>1. SUFFICES ASSUME NEW i \in DOMAIN q, q[i] # Head(q)
                 PROVE  q[i] \in {Tail(q)[j] : j \in DOMAIN Tail(q)}
    OBVIOUS
  <2>2. i # 1
    BY <1>1, <2>1
  <2>3. i - 1 \in DOMAIN Tail(q) /\ q[i] = Tail(q)[i - 1]
    BY <1>2, <2>2
  <2>4. QED
    BY <2>3
<1>6. Distinct(Tail(q))
  BY <1>1, <1>3 DEF Distinct
<1>7. Head(q) \in {q[i] : i \in DOMAIN q}
  <2>1. 1 \in DOMAIN q /\ Head(q) = q[1]
    BY <1>1
  <2>2. QED
    BY <2>1
<1>8. {Tail(q)[i] : i \in DOMAIN Tail(q)} = {q[i] : i \in DOMAIN q} \ {Head(q)}
  BY <1>4, <1>5
<1>9. QED
  BY <1>6, <1>7, <1>8

\* CSP puts b into the queue of s.
LEMMA MovedQueued ==
    ASSUME Typed, Once, NEW s \in Service, NEW b \in free, free' = free \ {b},
           queue' = [queue EXCEPT ![s] = Append(queue[s], b)],
           UNCHANGED <<sending, packet, original>>
    PROVE  Once' /\ Lost' = Lost
<1>1. /\ queue'[s] = Append(queue[s], b) /\ queue[s] \in Seq(Buffer) /\ b \in Buffer
      /\ \A t \in Service \ {s} : queue'[t] = queue[t]
  BY DEF Typed
<1>2. b \notin Waits(s)
  BY DEF Once
<1>3. Waits(s)' = Waits(s) \cup {b} /\ Distinct(queue'[s])
  BY <1>1, <1>2, ElementsOfAppend DEF Waits, Once
<1>4. \A t \in Service \ {s} : Waits(t)' = Waits(t) /\ Distinct(queue'[t])
  BY <1>1 DEF Waits, Once
<1>5. Once'
  BY <1>3, <1>4 DEF Once
<1>6. \A c : Somewhere(c)' <=> Somewhere(c)
  BY <1>3, <1>4 DEF Somewhere
<1>7. QED
  BY <1>5, <1>6, LostIs

\* s reads its next packet.
LEMMA MovedRead ==
    ASSUME Typed, Once, NEW s \in Service, queue[s] # <<>>, packet[s] = None,
           queue' = [queue EXCEPT ![s] = Tail(queue[s])],
           packet' = [packet EXCEPT ![s] = Head(queue[s])],
           UNCHANGED <<free, sending, original>>
    PROVE  Once' /\ Lost' = Lost
<1>1. /\ queue'[s] = Tail(queue[s]) /\ queue[s] \in Seq(Buffer)
      /\ packet'[s] = Head(queue[s])
      /\ \A t \in Service \ {s} : queue'[t] = queue[t] /\ packet'[t] = packet[t]
  BY DEF Typed
<1>2. /\ Head(queue[s]) \in Waits(s) /\ Waits(s)' = Waits(s) \ {Head(queue[s])}
      /\ Distinct(queue'[s])
  <2>1. Distinct(queue[s])
    BY DEF Once
  <2>2. /\ Head(queue[s]) \in {queue[s][i] : i \in DOMAIN queue[s]}
        /\ {Tail(queue[s])[i] : i \in DOMAIN Tail(queue[s])}
              = {queue[s][i] : i \in DOMAIN queue[s]} \ {Head(queue[s])}
        /\ Distinct(Tail(queue[s]))
    BY <1>1, <2>1, ElementsOfTail
  <2>3. /\ Waits(s) = {queue[s][i] : i \in DOMAIN queue[s]}
        /\ Waits(s)' = {Tail(queue[s])[i] : i \in DOMAIN Tail(queue[s])}
    BY <1>1, Zenon DEF Waits
  <2>4. QED
    BY <1>1, <2>2, <2>3, Zenon
<1>3. \A t \in Service \ {s} : Waits(t)' = Waits(t) /\ Distinct(queue'[t])
  BY <1>1 DEF Waits, Once
<1>4. Once'
  BY <1>1, <1>2, <1>3 DEF Once
<1>5. \A c \in Buffer : Somewhere(c)' <=> Somewhere(c)
  BY <1>1, <1>2, <1>3, ServicesAssumption DEF Somewhere
<1>6. QED
  BY <1>4, <1>5, LostIs

\* csp_close frees the packets that wait for s.
LEMMA MovedClosed ==
    ASSUME Typed, Once, NEW s \in Service, free' = free \cup Waits(s),
           queue' = [queue EXCEPT ![s] = <<>>],
           UNCHANGED <<sending, packet, original>>
    PROVE  Once' /\ Lost' = Lost
<1>1. queue'[s] = <<>> /\ \A t \in Service \ {s} : queue'[t] = queue[t]
  BY DEF Typed
<1>2. Waits(s)' = {} /\ Distinct(queue'[s])
  BY <1>1 DEF Waits, Distinct
<1>3. \A t \in Service \ {s} : Waits(t)' = Waits(t) /\ Distinct(queue'[t])
  BY <1>1 DEF Waits, Once
<1>4. Once'
  BY <1>2, <1>3 DEF Once
<1>5. \A c : Somewhere(c)' <=> Somewhere(c)
  BY <1>2, <1>3 DEF Somewhere
<1>6. QED
  BY <1>4, <1>5, LostIs

\* What s has is freed or given to CSP: its packet, or that and the clone.
LEMMA MovedAway ==
    ASSUME Typed, Once, NEW s \in Service, packet[s] # None,
           NEW freed, NEW sent, freed \cap sent = {},
           \/ original' = original /\ freed \cup sent = {packet[s]}
           \/ original' = None /\ freed \cup sent = {packet[s], original} \ {None},
           free' = free \cup freed, sending' = sending \cup sent,
           packet' = [packet EXCEPT ![s] = None],
           UNCHANGED queue
    PROVE  Once' /\ Lost' = Lost
<1>1. /\ packet'[s] = None /\ \A t \in Service \ {s} : packet'[t] = packet[t]
      /\ packet[s] \in Buffer
      /\ free \subseteq Buffer /\ sending \subseteq Buffer
      /\ \A t \in Service : queue[t] \in Seq(Buffer)
  BY DEF Typed
<1>2. \A t \in Service : Waits(t)' = Waits(t) /\ Distinct(queue'[t])
  BY DEF Waits, Once
<1>3. \A t \in Service : Waits(t) \subseteq Buffer
  BY <1>1, ElementOfSeq, LenProperties DEF Waits
<1>4. None \notin Buffer /\ freed \cup sent \subseteq {packet[s], original} \ {None}
  BY <1>1, ServicesAssumption
<1>5. /\ free' \cap sending' = {}
      /\ original' \notin free' \cup sending'
  <2>1. None \notin free' \cup sending'
    BY <1>1, <1>4
  <2>2. QED
    BY <1>1, <1>4, <2>1 DEF Once
<1>6. \A t \in Service :
          /\ packet'[t] \notin free' \cup sending'
          /\ packet'[t] # None => packet'[t] # original'
  BY <1>1, <1>4 DEF Once
<1>7. \A t \in Service :
          /\ Waits(t)' \cap (free' \cup sending' \cup {original'}) = {}
          /\ \A u \in Service : packet'[u] \notin Waits(t)'
          /\ \A u \in Service \ {t} : /\ Waits(t)' \cap Waits(u)' = {}
                                      /\ packet'[t] # None => packet'[u] # packet'[t]
  BY <1>1, <1>2, <1>3, <1>4 DEF Once
<1>8. Once'
  BY <1>2, <1>5, <1>6, <1>7 DEF Once
<1>9. \A c \in Buffer : Somewhere(c)' <=> Somewhere(c)
  BY <1>1, <1>2, <1>4 DEF Somewhere
<1>10. QED
  BY <1>8, <1>9, LostIs

\* s gets a buffer for a packet.
LEMMA MovedGot ==
    ASSUME Typed, Once, NEW s \in Service, packet[s] = None, NEW b \in free,
           free' = free \ {b}, packet' = [packet EXCEPT ![s] = b],
           UNCHANGED <<sending, queue, original>>
    PROVE  Once' /\ Lost' = Lost
<1>1. /\ packet'[s] = b /\ \A t \in Service \ {s} : packet'[t] = packet[t]
      /\ b \in Buffer /\ b # None
  BY ServicesAssumption DEF Typed
<1>2. \A t \in Service : Waits(t)' = Waits(t) /\ Distinct(queue'[t])
  BY DEF Waits, Once
<1>3. Once'
  BY <1>1, <1>2 DEF Once
<1>4. \A c \in Buffer : Somewhere(c)' <=> Somewhere(c)
  BY <1>1, <1>2, ServicesAssumption DEF Somewhere
<1>5. QED
  BY <1>3, <1>4, LostIs

\* The command line service gets a buffer for the clone.
LEMMA MovedCloned ==
    ASSUME Typed, Once, original = None, NEW b \in free,
           free' = free \ {b}, original' = b,
           UNCHANGED <<sending, queue, packet>>
    PROVE  Once' /\ Lost' = Lost
<1>1. b \in Buffer /\ b # None
  BY ServicesAssumption DEF Typed
<1>2. \A t \in Service : Waits(t)' = Waits(t) /\ Distinct(queue'[t])
  BY DEF Waits, Once
<1>3. Once'
  BY <1>1, <1>2 DEF Once
<1>4. \A c \in Buffer : Somewhere(c)' <=> Somewhere(c)
  BY <1>1, <1>2, ServicesAssumption DEF Somewhere
<1>5. QED
  BY <1>3, <1>4, LostIs

\* s forgets its packet.
LEMMA MovedNowhere ==
    ASSUME Typed, Once, NEW s \in Service, packet[s] # None,
           packet' = [packet EXCEPT ![s] = None],
           UNCHANGED <<free, sending, queue, original>>
    PROVE  Once' /\ packet[s] \notin Lost /\ Lost' = Lost \cup {packet[s]}
<1>1. /\ packet'[s] = None /\ \A t \in Service \ {s} : packet'[t] = packet[t]
      /\ packet[s] \in Buffer
      /\ None \notin free \cup sending
      /\ \A t \in Service : queue[t] \in Seq(Buffer)
  BY ServicesAssumption DEF Typed
<1>2. \A t \in Service : Waits(t)' = Waits(t) /\ Distinct(queue'[t])
  BY DEF Waits, Once
<1>3. \A t \in Service : None \notin Waits(t)
  BY <1>1, ElementOfSeq, LenProperties, ServicesAssumption DEF Waits
<1>4. Once'
  BY <1>1, <1>2, <1>3 DEF Once
<1>5. \A c \in Buffer : Somewhere(c)' <=> Somewhere(c) /\ c # packet[s]
  BY <1>1, <1>2, ServicesAssumption DEF Somewhere, Once
<1>6. Somewhere(packet[s])
  BY DEF Somewhere
<1>7. QED
  BY <1>1, <1>4, <1>5, <1>6, LostIs

-----------------------------------------------------------------------------
(***************************************************************************)
(* What a step does to the pool: no buffer comes to be in two places, and  *)
(* either none is lost or one is, which is counted.                        *)
(***************************************************************************)
Accounted ==
    /\ Once'
    /\ \/ Lost' = Lost /\ leaked' = leaked
       \/ leaked' = leaked + 1 /\ \E b \in Buffer \ Lost : Lost' = Lost \cup {b}

LEMMA PoolServe ==
    ASSUME LoopInv, mishap = None, Once, NEW s \in Service,
           Accept(s) \/ AcceptTimesOut(s) \/ ReadPacket(s) \/ ReadTimesOut(s) \/ Close(s)
    PROVE  Accounted
<1>1. Typed
  BY DEF LoopInv
<1>2. CASE Accept(s) \/ AcceptTimesOut(s) \/ ReadTimesOut(s)
  BY <1>2, StaysPut DEF Accept, AcceptTimesOut, ReadTimesOut, Accounted, cliVars
<1>3. CASE ReadPacket(s)
  <2>1. packet[s] = None
    BY <1>3 DEF ReadPacket, LoopInv, Variables, WithoutPacket
  <2>2. /\ queue[s] # <<>>
        /\ queue' = [queue EXCEPT ![s] = Tail(queue[s])]
        /\ packet' = [packet EXCEPT ![s] = Head(queue[s])]
        /\ UNCHANGED <<free, sending, original, leaked>>
    BY <1>3 DEF ReadPacket, Holds, cliVars
  <2>3. QED
    BY <1>1, <2>1, <2>2, MovedRead DEF Accounted
<1>4. CASE Close(s)
  <2>1. /\ free' = free \cup Waits(s)
        /\ queue' = [queue EXCEPT ![s] = <<>>]
        /\ UNCHANGED <<sending, packet, original, leaked>>
    BY <1>4 DEF Close, cliVars, Waits
  <2>2. QED
    BY <1>1, <2>1, MovedClosed DEF Accounted
<1>5. QED
  BY <1>2, <1>3, <1>4

LEMMA PoolAnswer ==
    ASSUME LoopInv, mishap = None, Once, NEW s \in Service,
           SendOk(s) \/ SendFails(s) \/ Refuse(s) \/ Ignore(s)
    PROVE  Accounted
<1>1. Typed /\ packet[s] \in Has(s)
  BY DEF LoopInv, Has
<1>2. packet[s] # None /\ packet[s] \in Buffer
  BY DEF SendOk, SendFails, Refuse, Ignore, WithPacket, Variables, LoopInv, Typed
<1>3. packet' = [packet EXCEPT ![s] = None] /\ UNCHANGED <<queue, original>>
  BY DEF SendOk, SendFails, Refuse, Ignore, Holds, cliVars
<1>4. CASE SendOk(s)
  <2>1. free' = free \cup {} /\ sending' = sending \cup {packet[s]} /\ leaked' = leaked
    BY <1>4 DEF SendOk
  <2>2. QED
    BY <1>1, <1>2, <1>3, <2>1, MovedAway DEF Accounted
<1>5. CASE Refuse(s) \/ (pc[s] = "checked" /\ SendFails(s))
  <2>1. Free(s, packet[s]) /\ sending' = sending \cup {} /\ leaked' = leaked
    BY <1>5 DEF SendFails, Refuse
  <2>2. free' = free \cup {packet[s]}
    BY <1>1, <1>2, <2>1, FreeOwn
  <2>3. QED
    BY <1>1, <1>2, <1>3, <2>1, <2>2, MovedAway DEF Accounted
<1>6. CASE Ignore(s) \/ (pc[s] # "checked" /\ SendFails(s))
  <2>1. UNCHANGED <<free, sending>> /\ leaked' = leaked + 1
    BY <1>6 DEF SendFails, Ignore
  <2>2. QED
    BY <1>1, <1>2, <1>3, <2>1, MovedNowhere DEF Accounted
<1>7. QED
  BY <1>4, <1>5, <1>6

LEMMA PoolFetch ==
    ASSUME LoopInv, mishap = None, mishap' = None, Once, NEW s \in Service,
           FetchStart(s) \/ FetchEnds(s) \/ FetchRecord(s) \/ PageSent(s) \/ PageFails(s)
    PROVE  Accounted
<1>1. Typed /\ packet[s] \in Has(s)
  BY DEF LoopInv, Has
<1>2. UNCHANGED <<queue, original, leaked>>
  BY DEF FetchStart, FetchEnds, FetchRecord, PageSent, PageFails, cliVars
<1>3. CASE FetchStart(s) \/ PageFails(s)
  <2>1. packet[s] # None /\ packet[s] \in Buffer
    BY <1>3 DEF FetchStart, PageFails, WithPacket, Variables, LoopInv, Typed
  <2>2. /\ Free(s, packet[s]) /\ packet' = [packet EXCEPT ![s] = None]
        /\ sending' = sending \cup {}
    BY <1>3 DEF FetchStart, PageFails, Holds
  <2>3. free' = free \cup {packet[s]}
    BY <1>1, <2>1, <2>2, FreeOwn
  <2>4. QED
    BY <1>1, <1>2, <2>1, <2>2, <2>3, MovedAway DEF Accounted
<1>4. CASE FetchEnds(s)
  BY <1>4, StaysPut DEF FetchEnds, Accounted, cliVars
<1>5. CASE FetchRecord(s)
  <2>1. packet[s] = None
    BY <1>5 DEF FetchRecord, WithoutPacket, Variables, LoopInv
  <2>2. <<"null", s>> # None
    BY ServicesAssumption
  <2>3. PICK b \in free : free' = free \ {b} /\ packet' = [packet EXCEPT ![s] = b]
    BY <1>5, <2>2 DEF FetchRecord, Holds
  <2>4. QED
    BY <1>1, <1>2, <1>5, <2>1, <2>3, MovedGot DEF FetchRecord, Accounted
<1>6. CASE PageSent(s)
  <2>1. packet[s] # None
    BY <1>6 DEF PageSent, WithPacket, Variables, LoopInv
  <2>2. /\ free' = free \cup {} /\ sending' = sending \cup {packet[s]}
        /\ packet' = [packet EXCEPT ![s] = None]
    BY <1>6 DEF PageSent, Holds
  <2>3. QED
    BY <1>1, <1>2, <2>1, <2>2, MovedAway DEF Accounted
<1>7. QED
  BY <1>3, <1>4, <1>5, <1>6

LEMMA PoolTalk ==
    ASSUME LoopInv, mishap = None, mishap' = None, Once, NEW s \in Service,
           \/ TalkStart(s) \/ AnswerNowhere(s) \/ AnswerMore(s) \/ Clone(s)
           \/ AnswerLast(s) \/ AnswerFails(s) \/ TalkFailed(s)
    PROVE  Accounted
<1>1. Typed /\ s = "cli" /\ original \in Has(s) /\ original \in Buffer \cup {None}
  BY PlacesOf DEF LoopInv, Has, TalkStart, AnswerNowhere, AnswerMore, Clone, AnswerLast,
     AnswerFails, TalkFailed, Loops, Typed
<1>2. UNCHANGED <<queue, leaked>>
  BY DEF TalkStart, AnswerNowhere, AnswerMore, Clone, AnswerLast, AnswerFails, TalkFailed
<1>3. CASE TalkStart(s)
  <2>1. original = None
    BY <1>1, <1>3 DEF TalkStart, LoopInv, Variables
  <2>2. UNCHANGED <<sending, packet>>
    BY <1>3 DEF TalkStart
  <2>3. CASE \E b \in free : original' = b /\ free' = free \ {b}
    BY <1>1, <1>2, <2>1, <2>2, <2>3, MovedCloned DEF Accounted
  <2>4. CASE UNCHANGED <<original, free>>
    BY <1>2, <2>2, <2>4, StaysPut DEF Accounted
  <2>5. QED
    BY <1>3, <2>1, <2>3, <2>4 DEF TalkStart
<1>4. CASE AnswerNowhere(s)
  BY <1>4, ServicesAssumption DEF AnswerNowhere
<1>5. CASE AnswerMore(s)
  <2>1. /\ packet[s] # None /\ free' = free \cup {} /\ sending' = sending \cup {packet[s]}
        /\ packet' = [packet EXCEPT ![s] = None] /\ original' = original
    BY <1>5 DEF AnswerMore, Holds, cliVars
  <2>2. QED
    BY <1>1, <1>2, <2>1, MovedAway DEF Accounted
<1>6. CASE Clone(s)
  <2>1. packet[s] = None /\ UNCHANGED <<sending, original>>
    BY <1>6 DEF Clone, WithoutPacket, Variables, LoopInv, cliVars
  <2>2. CASE \E b \in free : Holds(s, b) /\ free' = free \ {b}
    BY <1>1, <1>2, <2>1, <2>2, MovedGot DEF Holds, Accounted
  <2>3. CASE UNCHANGED <<packet, free>>
    BY <1>2, <2>1, <2>3, StaysPut DEF Accounted
  <2>4. QED
    BY <1>6, <2>2, <2>3 DEF Clone
<1>7. CASE AnswerLast(s)
  <2>1. /\ packet[s] # None /\ sending' = sending \cup {packet[s]}
        /\ packet' = [packet EXCEPT ![s] = None]
        /\ Free(s, original) /\ original' = None
    BY <1>7 DEF AnswerLast, Holds
  <2>2. free' = free \cup ({original} \ {None})
    BY <1>1, <2>1, FreeOwn
  <2>3. packet[s] # original
    BY <2>1 DEF Once
  <2>4. QED
    BY <1>1, <1>2, <2>1, <2>2, <2>3, MovedAway DEF Accounted
<1>8. CASE AnswerFails(s)
  <2>1. /\ packet[s] # None /\ free' = free \cup ({packet[s], original} \ {None})
        /\ sending' = sending \cup {}
        /\ packet' = [packet EXCEPT ![s] = None] /\ original' = None
    BY <1>8 DEF AnswerFails, Holds
  <2>2. QED
    BY <1>1, <1>2, <2>1, MovedAway DEF Accounted
<1>9. CASE TalkFailed(s)
  <2>1. Free(s, first) /\ UNCHANGED <<sending, packet, original>>
    BY <1>9 DEF TalkFailed
  <2>2. packet[s] = None /\ original = None
    BY <1>1, <1>9 DEF TalkFailed, LoopInv, Variables, WithoutPacket
  <2>3. free' = free
    BY <1>1, <2>1, <2>2, ServicesAssumption DEF Free, Has
  <2>4. QED
    BY <1>2, <2>1, <2>3, StaysPut DEF Accounted
<1>10. QED
  BY <1>3, <1>4, <1>5, <1>6, <1>7, <1>8, <1>9

-----------------------------------------------------------------------------
(***************************************************************************)
(* The invariant of the pool: until the first mishap every buffer is in    *)
(* one place, and as many are lost as were dropped.                        *)
(***************************************************************************)
Balanced == Once /\ Cardinality(Lost) = leaked

PoolInv ==
    /\ LoopInv
    /\ mishap = None => Balanced
    /\ leaked \in 0..Cardinality(Buffer)

LEMMA LostFinite ==
    IsFiniteSet(Lost) /\ Cardinality(Lost) \in Nat /\ Cardinality(Lost) <= Cardinality(Buffer)
    /\ Cardinality(Buffer) \in Nat
BY ServicesAssumption, FS_Subset, FS_CardinalityType DEF Lost

LEMMA BalanceKept ==
    ASSUME Balanced, Accounted
    PROVE  Balanced'
<1>1. CASE Lost' = Lost /\ leaked' = leaked
  BY <1>1 DEF Balanced, Accounted
<1>2. CASE leaked' = leaked + 1 /\ \E b \in Buffer \ Lost : Lost' = Lost \cup {b}
  <2>1. PICK b \in Buffer \ Lost : Lost' = Lost \cup {b}
    BY <1>2
  <2>2. Cardinality(Lost \cup {b}) = Cardinality(Lost) + 1
    BY <2>1, LostFinite, FS_AddElement
  <2>3. QED
    BY <1>2, <2>1, <2>2 DEF Balanced, Accounted
<1>3. QED
  BY <1>1, <1>2 DEF Accounted

\* All buffers are free, and nothing was dropped.
LEMMA EmptyPool ==
    ASSUME free = Buffer, sending = {}, queue = [s \in Service |-> <<>>],
           packet = [s \in Service |-> None], original = None, leaked = 0
    PROVE  Balanced
<1>1. \A s \in Service : queue[s] = <<>> /\ packet[s] = None
  OBVIOUS
<1>2. \A s \in Service : Waits(s) = {} /\ Distinct(queue[s])
  BY <1>1 DEF Waits, Distinct
<1>3. Once
  BY <1>1, <1>2, ServicesAssumption DEF Once
<1>4. Lost = {}
  BY DEF Lost
<1>5. QED
  BY <1>3, <1>4, FS_EmptySet DEF Balanced

LEMMA PoolInit == Init => PoolInv
<1> SUFFICES ASSUME Init PROVE PoolInv
  OBVIOUS
<1>1. Balanced
  BY EmptyPool DEF Init
<1>2. QED
  BY <1>1, LoopInit, LostFinite DEF Init, PoolInv

LEMMA PoolRestart == Restart => PoolInv'
<1> SUFFICES ASSUME Restart PROVE PoolInv'
  OBVIOUS
<1>1. \A s \in Service : queue'[s] = <<>> /\ packet'[s] = None
  BY DEF Restart
<1>2. \A s \in Service : Waits(s)' = {} /\ Distinct(queue'[s])
  BY <1>1 DEF Waits, Distinct
<1>3. Once'
  BY <1>1, <1>2, ServicesAssumption DEF Once, Restart
<1>4. Lost' = {}
  BY DEF Lost, Restart
<1>5. Balanced'
  BY <1>3, <1>4, FS_EmptySet DEF Balanced, Restart
<1>6. QED
  BY <1>5, LoopRestart, LostFinite DEF Restart, PoolInv

\* A step that makes a mishap drops no packet.
LEMMA MishapsDropNothing ==
    ASSUME mishap = None, mishap' # None, NEW s \in Service, Serve(s), ~Reboot(s)
    PROVE  leaked' = leaked
BY DEF Serve, Handle, Accept, AcceptTimesOut, ReadPacket, ReadTimesOut, Close, SendOk, SendFails,
   Refuse, Ignore, FetchStart, FetchEnds, FetchRecord, PageSent, PageFails, TalkStart,
   AnswerNowhere, AnswerMore, Clone, AnswerLast, AnswerFails, TalkFailed

(***************************************************************************)
(* Every step keeps the invariant of the pool.                             *)
(***************************************************************************)
LEMMA PoolStep == PoolInv /\ [Next]_vars => PoolInv'
<1> SUFFICES ASSUME PoolInv, [Next]_vars PROVE PoolInv'
  OBVIOUS
<1>1. LoopInv' /\ LoopInv /\ Typed
  BY LoopStep DEF PoolInv, LoopInv
<1>2. ASSUME mishap = None, Accounted PROVE PoolInv'
  <2>1. Balanced'
    BY <1>2, BalanceKept DEF PoolInv
  <2>2. Cardinality(Lost') \in Nat /\ Cardinality(Lost') <= Cardinality(Buffer)
    <3>1. Lost' \in SUBSET Buffer
      BY DEF Lost
    <3>2. QED
      BY <3>1, ServicesAssumption, FS_Subset, FS_CardinalityType
  <2>3. leaked' \in 0..Cardinality(Buffer)
    BY <2>1, <2>2, LostFinite DEF Balanced
  <2>4. QED
    BY <1>1, <2>1, <2>3 DEF PoolInv
<1>3. CASE mishap = None /\ Sent
  <2>1. PICK b \in sending : sending' = sending \ {b} /\ free' = free \cup {b}
    BY <1>3 DEF Sent
  <2>2. Accounted
    BY <1>3, <2>1, MovedSent DEF Sent, Accounted, PoolInv, Balanced, cliVars
  <2>3. QED
    BY <1>2, <1>3, <2>2
<1>4. ASSUME mishap = None, NEW s \in Service, Arrive(s) PROVE PoolInv'
  <2>1. PICK b \in free : free' = free \ {b} /\ queue' = [queue EXCEPT ![s] = Append(@, b)]
    BY <1>4 DEF Arrive
  <2>2. Accounted
    BY <1>1, <1>4, <2>1, MovedQueued DEF Arrive, Accounted, PoolInv, Balanced, cliVars
  <2>3. QED
    BY <1>2, <1>4, <2>2
<1>5. ASSUME mishap = None, NEW s \in Service, Serve(s) PROVE PoolInv'
  <2>1. CASE Reboot(s)
    BY <2>1, PoolRestart DEF Reboot
  <2>2. CASE mishap' = None /\ ~Reboot(s)
    <3>1. Once
      BY <1>5 DEF PoolInv, Balanced
    <3>2. Accounted
      BY <1>1, <1>5, <2>2, <3>1, PoolServe, PoolAnswer, PoolFetch, PoolTalk DEF Serve, Handle
    <3>3. QED
      BY <1>2, <1>5, <3>2
  <2>3. CASE mishap' # None /\ ~Reboot(s)
    BY <1>1, <1>5, <2>3, MishapsDropNothing DEF PoolInv
  <2>4. QED
    BY <2>1, <2>2, <2>3
<1>6. CASE Reset
  BY <1>6, PoolRestart DEF Reset
<1>7. CASE UNCHANGED vars
  <2>1. Lost' = Lost /\ (Once => Once')
    BY <1>7, StaysPut DEF vars, Lost, Held, Waiting
  <2>2. QED
    BY <1>1, <1>7, <2>1 DEF PoolInv, Balanced, vars
<1>8. QED
  BY <1>3, <1>4, <1>5, <1>6, <1>7 DEF Next

(***************************************************************************)
(* The state of the loops and of the pool has its type; in particular no   *)
(* more packets are dropped than there are buffers.                        *)
(***************************************************************************)
THEOREM ServicesTyped == Spec => []TypeOK
<1>1. PoolInv => TypeOK
  BY DEF PoolInv, LoopInv, Typed, TypeOK
<1>2. QED
  BY <1>1, PoolInit, PoolStep, PTL DEF Spec

(***************************************************************************)
(* Until the first mishap a buffer is in one place at a time.              *)
(***************************************************************************)
THEOREM BuffersHeldOnce == Spec => []HeldOnce
<1>1. PoolInv => HeldOnce
  BY OnceIsHeldOnce DEF PoolInv, Balanced, HeldOnce
<1>2. QED
  BY <1>1, PoolInit, PoolStep, PTL DEF Spec

(***************************************************************************)
(* As many buffers are lost as packets were dropped by the subservices     *)
(* known to do so.                                                         *)
(***************************************************************************)
THEOREM OnlyKnownLeaks == Spec => []LeaksAreKnown
<1>1. PoolInv => LeaksAreKnown
  BY DEF PoolInv, Balanced, LeaksAreKnown
<1>2. QED
  BY <1>1, PoolInit, PoolStep, PTL DEF Spec

-----------------------------------------------------------------------------
(***************************************************************************)
(* What of liveness is safety.  A request that was read takes at most so   *)
(* many more steps of its service, one for most of them, two for a record  *)
(* or an answer of those that have several.                                *)
(***************************************************************************)
Steps(l, n) ==
    CASE l \in {"accept", "read", "close"} -> 0
      [] l \in {"checked", "unchecked", "refuse", "ignore", "reboot", "failed"} -> 1
      [] l \in {"fetch", "talk"} -> 2 * MaxParts + 2
      [] l \in {"record", "answer"} -> 2 * n + 1
      [] l = "page" -> 2 * n
      [] l = "clone" -> 2 * n + 2

StepsLeft(s) == Steps(pc[s], left[s])

(***************************************************************************)
(* No service pages or answers for ever: each step of its handler brings a *)
(* request nearer to its end, and no step of another service, of CSP or of *)
(* a request that arrives takes it further from it.                        *)
(***************************************************************************)
HandlersRunOut ==
    [][\A s \in Service : StepsLeft(s) > 0 /\ mishap' = None =>
          /\ StepsLeft(s)' <= StepsLeft(s)
          /\ Handle(s) => StepsLeft(s)' < StepsLeft(s)]_vars

(***************************************************************************)
(* When every service is at rest and CSP has sent what it took, the pool   *)
(* has all buffers but those that were dropped: nothing is kept by a       *)
(* variable of a loop from one request to the next.                        *)
(***************************************************************************)
AtRest ==
    /\ mishap = None /\ sending = {}
    /\ \A s \in Service : queue[s] = <<>> /\ pc[s] \in {"accept", "read", "close"}

PoolAtRest == AtRest => Cardinality(free) + leaked = Cardinality(Buffer)

LEMMA StepsOf ==
    /\ \A l \in {"accept", "read", "close"}, n \in 0..MaxParts : Steps(l, n) = 0
    /\ \A l \in {"checked", "unchecked", "refuse", "ignore", "reboot", "failed"}, n \in 0..MaxParts :
          Steps(l, n) = 1
    /\ \A l \in {"fetch", "talk"}, n \in 0..MaxParts : Steps(l, n) = 2 * MaxParts + 2
    /\ \A l \in {"record", "answer"}, n \in 0..MaxParts : Steps(l, n) = 2 * n + 1
    /\ \A n \in 0..MaxParts : Steps("page", n) = 2 * n /\ Steps("clone", n) = 2 * n + 2
<1>1. \A n : Steps("accept", n) = 0 /\ Steps("read", n) = 0 /\ Steps("close", n) = 0
  BY DEF Steps
<1>2. \A n : /\ Steps("checked", n) = 1 /\ Steps("unchecked", n) = 1 /\ Steps("refuse", n) = 1
             /\ Steps("ignore", n) = 1 /\ Steps("reboot", n) = 1 /\ Steps("failed", n) = 1
  BY DEF Steps
<1>3. \A n : Steps("fetch", n) = 2 * MaxParts + 2 /\ Steps("talk", n) = 2 * MaxParts + 2
  BY DEF Steps
<1>4. \A n : /\ Steps("record", n) = 2 * n + 1 /\ Steps("answer", n) = 2 * n + 1
             /\ Steps("page", n) = 2 * n /\ Steps("clone", n) = 2 * n + 2
  BY DEF Steps
<1>5. QED
  BY <1>1, <1>2, <1>3, <1>4

LEMMA StepsNat ==
    \A l \in WithPacket \cup WithoutPacket \cup {"answer"}, n \in 0..MaxParts : Steps(l, n) \in Nat
BY StepsOf, ServicesAssumption DEF WithPacket, WithoutPacket

\* What a step of the loop of s, which moves no other service, takes off.
Runs(s) ==
    /\ StepsLeft(s)' < StepsLeft(s)
    /\ \A t \in Service \ {s} : StepsLeft(t)' = StepsLeft(t) \/ StepsLeft(t)' = 0

LEMMA GoesDown ==
    ASSUME Typed, Loops, NEW s \in Service, NEW l, Goto(s, l),
           NEW n \in 0..MaxParts, left' = [left EXCEPT ![s] = n],
           Steps(l, n) < Steps(pc[s], left[s])
    PROVE  Runs(s)
<1>1. pc'[s] = l /\ \A t \in Service \ {s} : pc'[t] = pc[t]
  BY DEF Loops, Goto
<1>2. left'[s] = n /\ \A t \in Service \ {s} : left'[t] = left[t]
  BY DEF Typed
<1>3. QED
  BY <1>1, <1>2 DEF StepsLeft, Runs

LEMMA HandlerRuns ==
    ASSUME Typed, Loops, Variables, NEW s \in Service, Handle(s), mishap' = None
    PROVE  Runs(s)
<1>1. /\ left[s] \in 0..MaxParts /\ MaxParts \in Nat \ {0} /\ 0 \in 0..MaxParts
      /\ left = [left EXCEPT ![s] = left[s]]
  BY ServicesAssumption DEF Typed
<1>2. pc[s] \in {"page", "answer", "clone"} => left[s] > 0
  BY DEF Variables
<1>3. CASE SendOk(s) \/ SendFails(s) \/ Refuse(s) \/ Ignore(s)
  <2>1. /\ pc[s] \in {"checked", "unchecked", "refuse", "ignore"} /\ Goto(s, "read")
        /\ left' = [left EXCEPT ![s] = left[s]]
    BY <1>1, <1>3 DEF SendOk, SendFails, Refuse, Ignore
  <2>2. Steps("read", left[s]) < Steps(pc[s], left[s])
    BY <1>1, <2>1, StepsOf
  <2>3. QED
    BY <1>1, <2>1, <2>2, GoesDown
<1>4. CASE Reboot(s)
  <2>1. \A t \in Service : pc'[t] = "accept" /\ left'[t] = 0
    BY <1>4 DEF Reboot, Restart
  <2>2. Steps("accept", 0) = 0 /\ Steps(pc[s], left[s]) = 1
    BY <1>1, <1>4, StepsOf DEF Reboot
  <2>3. QED
    BY <2>1, <2>2 DEF Runs, StepsLeft
<1>5. CASE FetchStart(s)
  <2>1. PICK n \in 0..MaxParts : left' = [left EXCEPT ![s] = n]
    BY <1>5 DEF FetchStart
  <2>2. pc[s] = "fetch" /\ Goto(s, "record")
    BY <1>5 DEF FetchStart
  <2>3. Steps("record", n) < Steps(pc[s], left[s])
    BY <1>1, <2>2, StepsOf
  <2>4. QED
    BY <2>1, <2>2, <2>3, GoesDown
<1>6. CASE FetchEnds(s) \/ PageFails(s)
  <2>1. pc[s] \in {"record", "page"} /\ Goto(s, "read") /\ left' = [left EXCEPT ![s] = 0]
    BY <1>6 DEF FetchEnds, PageFails
  <2>2. Steps("read", 0) = 0
    BY <1>1, StepsOf
  <2>3. Steps("record", left[s]) = 2 * left[s] + 1 /\ Steps("page", left[s]) = 2 * left[s]
    BY <1>1, StepsOf
  <2>4. Steps("read", 0) < Steps(pc[s], left[s])
    BY <1>1, <1>2, <2>1, <2>2, <2>3
  <2>5. QED
    BY <1>1, <2>1, <2>4, GoesDown
<1>7. CASE FetchRecord(s)
  <2>1. pc[s] = "record" /\ Goto(s, "page") /\ left' = [left EXCEPT ![s] = left[s]]
    BY <1>1, <1>7 DEF FetchRecord
  <2>2. Steps("page", left[s]) < Steps(pc[s], left[s])
    BY <1>1, <2>1, StepsOf
  <2>3. QED
    BY <1>1, <2>1, <2>2, GoesDown
<1>8. CASE PageSent(s)
  <2>1. pc[s] = "page" /\ Goto(s, "record") /\ left' = [left EXCEPT ![s] = left[s] - 1]
    BY <1>8 DEF PageSent
  <2>2. left[s] - 1 \in 0..MaxParts
    BY <1>1, <1>2, <2>1
  <2>3. Steps("record", left[s] - 1) < Steps(pc[s], left[s])
    BY <1>1, <2>1, <2>2, StepsOf
  <2>4. QED
    BY <2>1, <2>2, <2>3, GoesDown
<1>9. CASE TalkStart(s)
  <2>1. PICK n \in 1..MaxParts : left' = [left EXCEPT ![s] = n]
    BY <1>9 DEF TalkStart
  <2>2. pc[s] = "talk" /\ Goto(s, "answer") /\ n \in 0..MaxParts
    BY <1>9 DEF TalkStart
  <2>3. Steps("answer", n) < Steps(pc[s], left[s])
    BY <1>1, <2>2, StepsOf
  <2>4. QED
    BY <2>1, <2>2, <2>3, GoesDown
<1>10. CASE AnswerNowhere(s)
  BY <1>10, ServicesAssumption DEF AnswerNowhere
<1>11. CASE AnswerMore(s)
  <2>1. pc[s] = "answer" /\ Goto(s, "clone") /\ left' = [left EXCEPT ![s] = left[s] - 1]
    BY <1>11 DEF AnswerMore
  <2>2. left[s] - 1 \in 0..MaxParts
    BY <1>1, <1>2, <2>1
  <2>3. Steps("clone", left[s] - 1) < Steps(pc[s], left[s])
    BY <1>1, <2>1, <2>2, StepsOf
  <2>4. QED
    BY <2>1, <2>2, <2>3, GoesDown
<1>12. CASE Clone(s)
  <2>1. pc[s] = "clone" /\ Goto(s, "answer") /\ left' = [left EXCEPT ![s] = left[s]]
    BY <1>1, <1>12 DEF Clone
  <2>2. Steps("answer", left[s]) < Steps(pc[s], left[s])
    BY <1>1, <2>1, StepsOf
  <2>3. QED
    BY <1>1, <2>1, <2>2, GoesDown
<1>13. CASE AnswerLast(s)
  <2>1. pc[s] = "answer" /\ Goto(s, "read") /\ left' = [left EXCEPT ![s] = 0]
    BY <1>13 DEF AnswerLast
  <2>2. Steps("read", 0) < Steps(pc[s], left[s])
    BY <1>1, <2>1, StepsOf
  <2>3. QED
    BY <1>1, <2>1, <2>2, GoesDown
<1>14. CASE AnswerFails(s)
  <2>1. pc[s] = "answer" /\ Goto(s, "failed") /\ left' = [left EXCEPT ![s] = 0]
    BY <1>14 DEF AnswerFails
  <2>2. Steps("failed", 0) < Steps(pc[s], left[s])
    BY <1>1, <1>2, <2>1, StepsOf
  <2>3. QED
    BY <1>1, <2>1, <2>2, GoesDown
<1>15. CASE TalkFailed(s)
  <2>1. pc[s] = "failed" /\ Goto(s, "read") /\ left' = [left EXCEPT ![s] = left[s]]
    BY <1>1, <1>15 DEF TalkFailed
  <2>2. Steps("read", left[s]) < Steps(pc[s], left[s])
    BY <1>1, <2>1, StepsOf
  <2>3. QED
    BY <1>1, <2>1, <2>2, GoesDown
<1>16. QED
  BY <1>3, <1>4, <1>5, <1>6, <1>7, <1>8, <1>9, <1>10, <1>11, <1>12, <1>13, <1>14, <1>15
     DEF Handle

LEMMA StepsStay ==
    ASSUME LoopInv, mishap = None, mishap' = None, [Next]_vars,
           NEW s \in Service, StepsLeft(s) > 0
    PROVE  StepsLeft(s)' <= StepsLeft(s)
<1> USE DEF LoopInv
<1>1. StepsLeft(s) \in Nat /\ pc[s] \notin {"accept", "read", "close"}
  <2>1. left[s] \in 0..MaxParts
    BY DEF Typed
  <2>2. pc[s] \in WithPacket \cup WithoutPacket \cup {"answer"}
    BY DEF Loops
  <2>3. QED
    BY <2>1, <2>2, StepsNat, StepsOf DEF StepsLeft
<1>2. ASSUME pc'[s] = pc[s], left'[s] = left[s] PROVE StepsLeft(s)' <= StepsLeft(s)
  BY <1>1, <1>2 DEF StepsLeft
<1>3. CASE UNCHANGED vars \/ Sent \/ \E t \in Service : Arrive(t)
  BY <1>2, <1>3 DEF vars, Sent, Arrive
<1>4. ASSUME NEW t \in Service,
             Accept(t) \/ AcceptTimesOut(t) \/ ReadPacket(t) \/ ReadTimesOut(t) \/ Close(t)
      PROVE  StepsLeft(s)' <= StepsLeft(s)
  <2>1. t # s
    BY <1>1, <1>4 DEF Accept, AcceptTimesOut, ReadPacket, ReadTimesOut, Close
  <2>2. pc'[s] = pc[s] /\ left'[s] = left[s]
    BY <1>4, <2>1 DEF Accept, AcceptTimesOut, ReadPacket, ReadTimesOut, Close, Goto, Loops
  <2>3. QED
    BY <1>2, <2>2
<1>5. ASSUME NEW t \in Service, Handle(t) PROVE StepsLeft(s)' <= StepsLeft(s)
  <2>1. Runs(t)
    BY <1>5, HandlerRuns
  <2>2. StepsLeft(s)' \in Nat
    <3>1. left'[s] \in 0..MaxParts /\ pc'[s] \in WithPacket \cup WithoutPacket \cup {"answer"}
      BY LoopStep DEF Typed, Loops
    <3>2. QED
      BY <3>1, StepsNat DEF StepsLeft
  <2>3. QED
    BY <1>1, <2>1, <2>2 DEF Runs
<1>6. QED
  BY <1>3, <1>4, <1>5 DEF Next, Serve, Reset

(***************************************************************************)
(* A request takes at most 2 MaxParts + 2 steps of its service, however    *)
(* the other services, CSP and requests that arrive come between.          *)
(***************************************************************************)
THEOREM HandlersComeToAnEnd == Spec => HandlersRunOut
<1> DEFINE RunOut == \A s \in Service : StepsLeft(s) > 0 /\ mishap' = None =>
                        /\ StepsLeft(s)' <= StepsLeft(s)
                        /\ Handle(s) => StepsLeft(s)' < StepsLeft(s)
<1>1. LoopInv /\ [Next]_vars => [RunOut]_vars
  <2> SUFFICES ASSUME LoopInv, Next, NEW s \in Service, StepsLeft(s) > 0, mishap' = None
               PROVE  /\ StepsLeft(s)' <= StepsLeft(s)
                      /\ Handle(s) => StepsLeft(s)' < StepsLeft(s)
    OBVIOUS
  <2>1. CASE mishap = None
    <3>1. Typed /\ Loops /\ Variables
      BY <2>1 DEF LoopInv
    <3>2. StepsLeft(s)' <= StepsLeft(s)
      BY <2>1, <3>1, StepsStay
    <3>3. QED
      BY <3>1, <3>2, HandlerRuns DEF Runs
  <2>2. CASE Reset
    <3>1. pc'[s] = "accept" /\ left'[s] = 0 /\ 0 \in 0..MaxParts
      BY <2>2, ServicesAssumption DEF Reset, Restart
    <3>2. StepsLeft(s)' = 0
      BY <3>1, StepsOf DEF StepsLeft
    <3>3. StepsLeft(s) \in Nat
      <4>1. /\ left[s] \in 0..MaxParts
            /\ pc[s] \in WithPacket \cup WithoutPacket \cup {"answer"}
        BY DEF LoopInv, Typed, Loops
      <4>2. QED
        BY <4>1, StepsNat DEF StepsLeft
    <3>4. QED
      BY <3>2, <3>3
  <2>3. QED
    BY <2>1, <2>2 DEF Next
<1>2. QED
  BY <1>1, LoopInit, LoopStep, PTL DEF Spec, HandlersRunOut

(***************************************************************************)
(* All buffers are back when the services are at rest, but for those that  *)
(* were dropped by the subservices known to do so.                         *)
(***************************************************************************)
THEOREM PoolFullAtRest == Spec => []PoolAtRest
<1>1. PoolInv => PoolAtRest
  <2> SUFFICES ASSUME PoolInv, AtRest
               PROVE  Cardinality(free) + leaked = Cardinality(Buffer)
    BY DEF PoolAtRest
  <2>1. Cardinality(Lost) = leaked
    BY DEF PoolInv, Balanced, AtRest
  <2>2. \A s \in Service : packet[s] = None
    BY DEF PoolInv, LoopInv, Variables, AtRest, WithoutPacket
  <2>3. original = None
    BY ServiceNames DEF PoolInv, LoopInv, Variables, AtRest
  <2>4. free \subseteq Buffer
    BY DEF PoolInv, LoopInv, Typed
  <2>5. Lost = Buffer \ free
    BY <2>2, <2>3, <2>4, ServicesAssumption DEF AtRest, Lost, Held, Waiting
  <2>6. Cardinality(Buffer \ free) = Cardinality(Buffer) - Cardinality(free)
    <3>1. Buffer \cap free = free
      BY <2>4
    <3>2. QED
      BY <3>1, FS_Difference, ServicesAssumption
  <2>7. QED
    BY <2>1, <2>4, <2>5, <2>6, FS_Subset, FS_CardinalityType, ServicesAssumption
<1>2. QED
  BY <1>1, PoolInit, PoolStep, PTL DEF Spec
=============================================================================
