------------------------ MODULE Housekeeping_proofs ------------------------
(***************************************************************************)
(* Theorems about the housekeeping service: its type invariant, and that   *)
(* the lock, as long as a single mutex has been created, keeps             *)
(* current_file inside the ring, the index inside its block and the slots  *)
(* a GET_HK reads inside the ring.                                         *)
(***************************************************************************)
EXTENDS Housekeeping, HkLock_proofs

-----------------------------------------------------------------------------
(***************************************************************************)
(* What the operators of HkStore are given, they give back well typed.     *)
(***************************************************************************)
LEMMA NoItemsType == NoItems \in [Slots -> Item]
BY DEF NoItems, Item, Slots

LEMMA NoIndexType == NoIndex \in Index
BY HardMaxAssumption, NoItemsType DEF NoIndex, Index

LEMMA NoFilesType == NoHkFile \in HkFile /\ NoConfig \in ConfigFile
BY HardMaxAssumption, NoItemsType DEF NoHkFile, HkFile, NoConfig, ConfigFile, Slots

LEMMA WrapType ==
    ASSUME NEW i \in Nat \ {0}, NEW max
    PROVE  Wrap(i, max) \in Nat \ {0}
BY DEF Wrap

LEMMA WrapInRing ==
    ASSUME NEW i \in Nat \ {0}, NEW max \in Nat \ {0}
    PROVE  Wrap(i, max) \in 1..max
BY DEF Wrap

\* The index after any call of the array handler is an index.
LEMMA FreedIndexType == timestamps \in Index => FreedIndex \in Index
<1> SUFFICES ASSUME timestamps \in Index PROVE FreedIndex \in Index
  OBVIOUS
<1>1. 0 \in 0..HardMax
  BY HardMaxAssumption
<1>2. QED
  BY <1>1, NoItemsType DEF FreedIndex, Index

LEMMA ResizedIndexType ==
    ASSUME timestamps \in Index, NEW n \in Slots
    PROVE  ResizedIndex(n) \in Index
<1> DEFINE copies == timestamps.block # "null" /\ timestamps.size < n
           NewItem(i) == CASE i > n -> 0
                           [] i > timestamps.size /\ i <= n -> 0
                           [] copies /\ i < timestamps.size -> timestamps.item[i]
                           [] OTHER -> Garbage
<1>1. timestamps.item \in [Slots -> Item] /\ timestamps.size \in 0..HardMax
  BY DEF Index
<1>2. ASSUME NEW i \in Slots PROVE NewItem(i) \in Item
  <2>1. i \in Int /\ n \in Int /\ timestamps.size \in Int
    BY <1>1, HardMaxAssumption DEF Slots
  <2>2. timestamps.item[i] \in Item /\ 0 \in Item /\ Garbage \in Item
    BY <1>1, <1>2 DEF Item
  <2>3. NewItem(i) \in {0, timestamps.item[i], Garbage}
    BY <2>1
  <2>4. QED
    BY <2>2, <2>3
<1>3. [i \in Slots |-> NewItem(i)] \in [Slots -> Item]
  BY <1>2
<1>4. n \in 0..HardMax
  BY HardMaxAssumption DEF Slots
<1>5. CASE n = timestamps.size
  BY <1>5 DEF ResizedIndex
<1>6. CASE n # timestamps.size
  <2>1. ResizedIndex(n) = [block |-> "live", size |-> n, item |-> [i \in Slots |-> NewItem(i)]]
    BY <1>6 DEF ResizedIndex
  <2>2. QED
    BY <1>3, <1>4, <2>1 DEF Index
<1>7. QED
  BY <1>5, <1>6

LEMMA HandlerType ==
    ASSUME timestamps \in Index, NEW n \in 0..HardMax, NEW o \in HandlerOutcomes(n)
    PROVE  /\ o.ok \in BOOLEAN
           /\ o.index \in Index
           /\ HandlerFaults(n, o) \subseteq Faults
<1>1. HandlerFaults(n, o) \subseteq Faults
  BY DEF HandlerFaults, Faults
<1>2. CASE n = 0
  <2>1. o = [ok |-> TRUE, index |-> FreedIndex]
    BY <1>2 DEF HandlerOutcomes
  <2>2. QED
    BY <1>1, <2>1, FreedIndexType
<1>3. CASE n # 0
  <2>1. n \in Slots
    BY <1>3, HardMaxAssumption DEF Slots
  <2>2. \/ o = [ok |-> TRUE, index |-> ResizedIndex(n)]
        \/ o = [ok |-> FALSE, index |-> timestamps]
    BY <1>3 DEF HandlerOutcomes
  <2>3. ResizedIndex(n) \in Index
    BY <2>1, ResizedIndexType
  <2>4. CASE o = [ok |-> TRUE, index |-> ResizedIndex(n)]
    BY <1>1, <2>3, <2>4
  <2>5. CASE o = [ok |-> FALSE, index |-> timestamps]
    BY <1>1, <2>5
  <2>6. QED
    BY <2>2, <2>4, <2>5
<1>4. QED
  BY <1>2, <1>3

\* As long as the index has not been freed, a successful call with n > 0 leaves
\* a live block of n items and touches nothing else.
LEMMA HandlerLive ==
    ASSUME timestamps \in Index, timestamps.block # "dangling",
           timestamps.block = "null" => timestamps.size = 0,
           NEW n \in Slots, NEW o \in HandlerOutcomes(n)
    PROVE  /\ HandlerFaults(n, o) = {}
           /\ o.ok => o.index.block = "live" /\ o.index.size = n
<1>1. HandlerFaults(n, o) = {}
  BY DEF HandlerFaults
<1>2. n # 0
  BY HardMaxAssumption DEF Slots
<1>3. \/ o = [ok |-> TRUE, index |-> ResizedIndex(n)]
      \/ o = [ok |-> FALSE, index |-> timestamps]
  BY <1>2 DEF HandlerOutcomes
<1>4. ResizedIndex(n).block = "live" /\ ResizedIndex(n).size = n
  <2>1. CASE n = timestamps.size
    <3>1. timestamps.block = "live"
      BY <1>2, <2>1 DEF Index
    <3>2. QED
      BY <2>1, <3>1 DEF ResizedIndex
  <2>2. CASE n # timestamps.size
    BY <2>2 DEF ResizedIndex
  <2>3. QED
    BY <2>1, <2>2
<1>5. QED
  BY <1>1, <1>3, <1>4

\* The config file after store_config.
LEMMA StoredConfigType ==
    ASSUME StoreTypeOK, NEW all \in BOOLEAN, NEW index \in Index
    PROVE  StoredConfig(all, index) \in ConfigFile
<1> DEFINE written == IF RewritesAll(all) THEN 1..index.size ELSE {current_file}
           last == IF RewritesAll(all) THEN index.size ELSE current_file
           len == IF last > cfgfile.len THEN last ELSE cfgfile.len
           item == [i \in Slots |-> IF i \in written THEN IndexItem(index, i)
                                    ELSE cfgfile.item[i]]
<1>1. index.item \in [Slots -> Item] /\ index.size \in Nat
  BY HardMaxAssumption DEF Index
<1>2. cfgfile.item \in [Slots -> Item] /\ cfgfile.len \in Nat
  BY DEF StoreTypeOK, ConfigFile
<1>3. item \in [Slots -> Item]
  <2>1. ASSUME NEW i \in Slots PROVE IndexItem(index, i) \in Item
    BY <1>1 DEF IndexItem, Item
  <2>2. QED
    BY <1>2, <2>1
<1>4. len \in Nat
  BY <1>1, <1>2 DEF StoreTypeOK
<1>5. CASE noHandles
  BY <1>5, NoFilesType DEF StoredConfig
<1>6. CASE ~noHandles
  <2>1. StoredConfig(all, index)
          = [state |-> "full", max |-> MAX_FILES, cur |-> current_file, len |-> len, item |-> item]
    BY <1>6 DEF StoredConfig
  <2>2. MAX_FILES \in Slots /\ current_file \in Nat \ {0}
    BY DEF StoreTypeOK
  <2>3. QED
    BY <1>3, <1>4, <2>1, <2>2 DEF ConfigFile
<1>7. QED
  BY <1>5, <1>6

LEMMA StoreFaultsType ==
    ASSUME NEW all, NEW index
    PROVE  StoreFaults(all, index) \subseteq Faults
BY DEF StoreFaults, Faults

\* What load_config reads.
LEMMA LoadedIndexType ==
    ASSUME StoreTypeOK, NEW index \in Index
    PROVE  LoadedIndex(index) \in Index
<1> DEFINE item == [i \in Slots |->
              IF i <= index.size /\ i <= cfgfile.len THEN cfgfile.item[i] ELSE index.item[i]]
<1>1. item \in [Slots -> Item]
  BY DEF StoreTypeOK, Index, ConfigFile
<1>2. LoadedIndex(index) = [index EXCEPT !.item = item]
  BY DEF LoadedIndex
<1>3. QED
  BY <1>1, <1>2 DEF Index

LEMMA LoadedIndexBlock ==
    ASSUME NEW index \in Index
    PROVE  LoadedIndex(index).block = index.block /\ LoadedIndex(index).size = index.size
BY DEF LoadedIndex, Index

LEMMA LoadedHeaderType ==
    StoreTypeOK => ConfigMax \in Slots /\ ConfigCur \in Nat \ {0}
BY DEF StoreTypeOK, ConfigMax, ConfigCur, ConfigFile

\* A record read, whatever the position asked for, and what a search returns.
LEMMA ReadRecordType ==
    ASSUME StoreTypeOK, NEW p \in Nat \ {0}, NEW buf \in Item
    PROVE  ReadRecord(p, buf) \in Item
<1>1. CASE PastEnd(p)
  BY <1>1 DEF ReadRecord
<1>2. CASE ~PastEnd(p)
  <2>1. PICK i \in Slots : i >= p
    BY <1>2 DEF PastEnd
  <2>2. p \in Slots
    BY <2>1, HardMaxAssumption DEF Slots
  <2>3. QED
    BY <1>2, <2>2 DEF ReadRecord, StoreTypeOK, HkFile
<1>3. QED
  BY <1>1, <1>2

LEMMA SearchType ==
    StoreTypeOK => SearchResults \subseteq Nat /\ SearchFaults \subseteq Faults
<1> SUFFICES ASSUME StoreTypeOK
             PROVE  SearchResults \subseteq Nat /\ SearchFaults \subseteq Faults
  OBVIOUS
<1>1. timestamps.size \in Nat /\ timestamps.block \in {"null", "live", "dangling"}
      /\ current_file \in Nat \ {0}
  BY HardMaxAssumption DEF StoreTypeOK, Index
<1>2. SearchResults \subseteq Nat
  BY <1>1 DEF SearchResults
<1>3. SearchFaults \subseteq Faults
  BY <1>1 DEF SearchFaults, Faults
<1>4. QED
  BY <1>2, <1>3

(***************************************************************************)
(* The lock: a step of the service is a step of the lock, or resets it.    *)
(***************************************************************************)
LEMMA LockSteps == [Next]_vars => [LockNext]_lockVars \/ ResetLock
<1> SUFFICES ASSUME [Next]_vars PROVE [LockNext]_lockVars \/ ResetLock
  OBVIOUS
<1>1. Collector \in Task /\ Service \in Task
  BY TaskAssumption
<1>2. ASSUME NEW t \in Task, LockStep(t) PROVE LockNext
  BY <1>2 DEF LockStep, LockNext
<1>3. CASE Collect
  BY <1>1, <1>3 DEF Collect, LockNext
<1>4. CASE CollectorStep
  BY <1>1, <1>4 DEF CollectorStep, SkipConfig, LoadConfig, LoadAdvance, WriteOpen, WriteClose,
     WriteFails, Stamp, Store, Advance, WrapAround, LockNext
<1>5. ASSUME NEW n \in Resizes, RecvSetMax(n) PROVE LockNext
  BY <1>1, <1>5 DEF RecvSetMax, LockNext
<1>6. ASSUME NEW l \in Limits, NEW b \in 0..HardMax, NEW bytime \in BOOLEAN,
             RecvGetHk(l, b, bytime)
      PROVE  LockNext
  BY <1>1, <1>6 DEF RecvGetHk, LockNext
<1>7. CASE ServiceStep
  BY <1>1, <1>7 DEF ServiceStep, SetMaxGrow, SetMaxReset, SetMaxCleanup, Snapshot, Resolve,
     ReadHk, ReadCreates, ReadUnlinks, ReadWithoutHandles, Send, SendFails, LockNext
<1>8. CASE HandlesRunOut
  BY <1>8 DEF HandlesRunOut
<1>9. CASE Crash
  BY <1>9 DEF Crash
<1>10. CASE UNCHANGED vars
  BY <1>10 DEF vars
<1>11. QED
  BY <1>2, <1>3, <1>4, <1>5, <1>6, <1>7, <1>8, <1>9, <1>10 DEF Next

LEMMA LockInvReset == ResetLock => LockInv'
BY DEF ResetLock, LockInv, LockTypeOK, LockPc, HandleKnown, HolderHasMutex,
       ExclusionWithOneMutex, AtMostOneInside, Inside

LEMMA LockInvNext == LockInv /\ [Next]_vars => LockInv'
BY LockSteps, LockInvReset, LockInvStep

(***************************************************************************)
(* Types.  Progress is what keeps them: a record has been collected while  *)
(* the collector is at work, and a GET_HK that reads has a slot to start   *)
(* from and packets left to send.                                          *)
(***************************************************************************)
TaskTypeOK ==
    /\ cpc \in CollectorPc
    /\ spc \in ServicePc
    /\ collected \in 0..MaxRecords
    /\ new_max \in Slots
    /\ fetch \in Fetch
    /\ requests \in 0..MaxRequests
    /\ crashes \in 0..MaxCrashes
    /\ committed \in Seq(1..MaxRecords)
    /\ mishaps \subseteq Mishaps

Progress ==
    /\ cpc # "idle" => collected # 0
    /\ spc \in {"read", "send"} => fetch.before # 0 /\ fetch.limit # 0

Typed == StoreTypeOK /\ TaskTypeOK /\ Progress

LEMMA NoFetchType == NoFetch \in Fetch
BY HardMaxAssumption DEF NoFetch, Fetch, Slots, Item

LEMMA TypedInit == Init => Typed
<1> SUFFICES ASSUME Init PROVE Typed
  OBVIOUS
<1>1. 1 \in Nat \ {0} /\ HardMax \in Slots
  BY HardMaxAssumption DEF Slots
<1>2. StoreTypeOK
  BY <1>1, NoIndexType, NoFilesType DEF Init, StoreInit, StoreTypeOK
<1>3. 0 \in 0..MaxRecords /\ 0 \in 0..MaxRequests /\ 0 \in 0..MaxCrashes
  BY BoundAssumption
<1>4. <<>> \in Seq(1..MaxRecords)
  OBVIOUS
<1>5. TaskTypeOK
  BY <1>1, <1>3, <1>4, NoFetchType DEF Init, TaskTypeOK, CollectorPc, ServicePc, Mishaps
<1>6. Progress
  BY DEF Init, Progress
<1>7. QED
  BY <1>2, <1>5, <1>6 DEF Typed

\* The actions that take steps of the lock, the collector, the service, the environment.
LEMMA TypedLock ==
    ASSUME Typed, NEW t \in Task, LockStep(t)
    PROVE  Typed'
BY DEF Typed, StoreTypeOK, TaskTypeOK, Progress, LockStep, Note, Mishaps,
       storeVars, ramVars, diskVars, taskVars

LEMMA TypedCollector ==
    ASSUME Typed, Collect \/ CollectorStep
    PROVE  Typed'
<1> USE DEF Typed, TaskTypeOK, CollectorPc, Progress, storeVars, ramVars, diskVars, histVars
<1>1. CASE Collect
  <2>1. collected' \in 0..MaxRecords /\ collected' # 0
    BY <1>1, BoundAssumption DEF Collect
  <2>2. StoreTypeOK'
    BY <1>1 DEF Collect, StoreTypeOK
  <2>3. QED
    BY <1>1, <2>1, <2>2 DEF Collect
<1>2. CASE SkipConfig
  <2>1. StoreTypeOK'
    BY <1>2, NoFilesType DEF SkipConfig, StoreTypeOK
  <2>2. QED
    BY <1>2, <2>1 DEF SkipConfig
<1>3. CASE LoadConfig
  <2>1. PICK o \in HandlerOutcomes(ConfigMax) :
          /\ timestamps' = IF o.ok THEN LoadedIndex(o.index) ELSE timestamps
          /\ config_loaded' = ~o.ok
          /\ cpc' = IF o.ok THEN "loaded" ELSE "write"
          /\ Fault(HandlerFaults(ConfigMax, o))
          /\ Note((IF o.ok THEN {} ELSE {"nomemory"})
                  \cup (IF "shrink" \in mishaps THEN {"staleload"} ELSE {}))
    BY <1>3 DEF LoadConfig
  <2>2. ConfigMax \in Slots /\ ConfigCur \in Nat \ {0} /\ ConfigMax \in 0..HardMax
    BY LoadedHeaderType, HardMaxAssumption DEF Slots
  <2>3. o.ok \in BOOLEAN /\ o.index \in Index /\ HandlerFaults(ConfigMax, o) \subseteq Faults
    BY <2>2, HandlerType DEF StoreTypeOK
  <2>4. timestamps' \in Index
    BY <2>1, <2>3, LoadedIndexType DEF StoreTypeOK
  <2>5. faults' \subseteq Faults
    BY <2>1, <2>3 DEF Fault, StoreTypeOK
  <2>6. config_loaded' \in BOOLEAN
    BY <2>1, <2>3
  <2>7. StoreTypeOK'
    BY <1>3, <2>2, <2>4, <2>5, <2>6 DEF LoadConfig, StoreTypeOK
  <2>8. mishaps' \subseteq Mishaps
    BY <2>1 DEF Note, Mishaps
  <2>9. cpc' \in CollectorPc
    BY <2>1
  <2>10. QED
    BY <1>3, <2>7, <2>8, <2>9 DEF LoadConfig
<1>4. CASE LoadAdvance
  <2>1. current_file + 1 \in Nat \ {0}
    BY DEF StoreTypeOK
  <2>2. StoreTypeOK'
    BY <1>4, <2>1, WrapType DEF LoadAdvance, StoreTypeOK
  <2>3. QED
    BY <1>4, <2>2 DEF LoadAdvance
<1>5. CASE WriteOpen
  <2>1. hkfile' \in HkFile
    BY <1>5 DEF WriteOpen, StoreTypeOK, HkFile, Item
  <2>2. StoreTypeOK'
    BY <1>5, <2>1 DEF WriteOpen, StoreTypeOK
  <2>3. QED
    BY <1>5, <2>2 DEF WriteOpen
<1>6. CASE WriteClose
  <2>1. collected \in Item
    BY BoundAssumption DEF Item
  <2>2. hkfile' \in HkFile
    BY <1>6, <2>1 DEF WriteClose, StoreTypeOK, HkFile
  <2>3. StoreTypeOK'
    BY <1>6, <2>2 DEF WriteClose, StoreTypeOK
  <2>4. QED
    BY <1>6, <2>3 DEF WriteClose
<1>7. CASE WriteFails
  <2>1. StoreTypeOK'
    BY <1>7 DEF WriteFails, StoreTypeOK
  <2>2. QED
    BY <1>7, <2>1 DEF WriteFails
<1>8. CASE Stamp
  <2>1. PICK o \in HandlerOutcomes(MAX_FILES) :
          /\ timestamps' = IF o.ok THEN [o.index EXCEPT !.item[current_file] = collected]
                           ELSE timestamps
          /\ Fault(HandlerFaults(MAX_FILES, o))
          /\ Note(IF o.ok THEN {} ELSE {"nomemory"})
    BY <1>8 DEF Stamp
  <2>2. MAX_FILES \in 0..HardMax
    BY HardMaxAssumption DEF StoreTypeOK, Slots
  <2>3. o.index \in Index /\ HandlerFaults(MAX_FILES, o) \subseteq Faults
    BY <2>2, HandlerType DEF StoreTypeOK
  <2>4. collected \in Item
    BY BoundAssumption DEF Item
  <2>5. [o.index EXCEPT !.item[current_file] = collected] \in Index
    BY <2>3, <2>4 DEF Index
  <2>6. timestamps' \in Index /\ faults' \subseteq Faults /\ mishaps' \subseteq Mishaps
    BY <2>1, <2>3, <2>5 DEF StoreTypeOK, Fault, Note, Mishaps
  <2>7. StoreTypeOK'
    BY <1>8, <2>6 DEF Stamp, StoreTypeOK
  <2>8. QED
    BY <1>8, <2>6, <2>7 DEF Stamp
<1>9. CASE Store
  <2>1. cfgfile' \in ConfigFile
    BY <1>9, StoredConfigType DEF Store, StoreTypeOK
  <2>2. faults' \subseteq Faults
    BY <1>9, StoreFaultsType DEF Store, StoreTypeOK, Fault
  <2>3. StoreTypeOK'
    BY <1>9, <2>1, <2>2 DEF Store, StoreTypeOK
  <2>4. collected \in 1..MaxRecords
    BY <1>9, BoundAssumption DEF Store
  <2>5. committed' \in Seq(1..MaxRecords)
    <3>1. \A S : \A s \in Seq(S), e \in S : Append(s, e) \in Seq(S)
      OBVIOUS
    <3>2. committed' \in {committed, Append(committed, collected)}
      BY <1>9 DEF Store
    <3>3. QED
      BY <2>4, <3>1, <3>2
  <2>6. QED
    BY <1>9, <2>3, <2>5 DEF Store
<1>10. CASE Advance
  <2>1. StoreTypeOK'
    BY <1>10 DEF Advance, StoreTypeOK
  <2>2. QED
    BY <1>10, <2>1 DEF Advance
<1>11. CASE WrapAround
  <2>1. StoreTypeOK'
    BY <1>11, WrapType DEF WrapAround, StoreTypeOK
  <2>2. QED
    BY <1>11, <2>1 DEF WrapAround
<1>12. QED
  BY <1>1, <1>2, <1>3, <1>4, <1>5, <1>6, <1>7, <1>8, <1>9, <1>10, <1>11 DEF CollectorStep

LEMMA TypedService ==
    ASSUME Typed,
           \/ \E n \in Resizes : RecvSetMax(n)
           \/ \E l \in Limits, b \in 0..HardMax, bytime \in BOOLEAN : RecvGetHk(l, b, bytime)
           \/ ServiceStep
    PROVE  Typed'
<1> USE DEF Typed, TaskTypeOK, ServicePc, Progress, storeVars, ramVars, diskVars, histVars
<1>1. ASSUME NEW n \in Resizes, RecvSetMax(n) PROVE Typed'
  <2>1. n \in Slots
    BY BoundAssumption DEF Slots
  <2>2. requests' \in 0..MaxRequests
    <3>1. MaxRequests \in Nat
      BY BoundAssumption
    <3>2. requests' = requests + 1 /\ requests < MaxRequests
      BY <1>1 DEF RecvSetMax
    <3>3. QED
      BY <3>1, <3>2
  <2>3. StoreTypeOK'
    BY <1>1 DEF RecvSetMax, StoreTypeOK
  <2>4. QED
    BY <1>1, <2>1, <2>2, <2>3 DEF RecvSetMax
<1>2. ASSUME NEW l \in Limits, NEW b \in 0..HardMax, NEW bytime \in BOOLEAN,
             RecvGetHk(l, b, bytime)
      PROVE  Typed'
  <2>1. requests' \in 0..MaxRequests
    <3>1. MaxRequests \in Nat
      BY BoundAssumption
    <3>2. requests' = requests + 1 /\ requests < MaxRequests
      BY <1>2 DEF RecvGetHk
    <3>3. QED
      BY <3>1, <3>2
  <2>2. l \in Nat /\ b \in Nat
    BY BoundAssumption, HardMaxAssumption
  <2>3. fetch' \in Fetch
    BY <1>2, <2>2, NoFetchType DEF RecvGetHk, Fetch
  <2>4. StoreTypeOK'
    BY <1>2 DEF RecvGetHk, StoreTypeOK
  <2>5. QED
    BY <1>2, <2>1, <2>3, <2>4 DEF RecvGetHk
<1>3. CASE SetMaxGrow
  <2>1. PICK o \in HandlerOutcomes(new_max) :
          /\ timestamps' = o.index
          /\ Fault(HandlerFaults(new_max, o))
          /\ Note({"grow"} \cup (IF o.ok THEN {} ELSE {"nomemory"})
                  \cup (IF Len(committed) >= current_file THEN {"growfull"} ELSE {}))
    BY <1>3 DEF SetMaxGrow
  <2>2. new_max \in 0..HardMax
    BY HardMaxAssumption DEF Slots
  <2>3. o.index \in Index /\ HandlerFaults(new_max, o) \subseteq Faults
    BY <2>2, HandlerType DEF StoreTypeOK
  <2>4. faults' \subseteq Faults /\ mishaps' \subseteq Mishaps
    BY <2>1, <2>3 DEF StoreTypeOK, Fault, Note, Mishaps
  <2>5. StoreTypeOK'
    BY <1>3, <2>1, <2>3, <2>4 DEF SetMaxGrow, StoreTypeOK
  <2>6. QED
    BY <1>3, <2>4, <2>5 DEF SetMaxGrow
<1>4. CASE SetMaxReset
  <2>1. StoreTypeOK'
    BY <1>4, NoFilesType DEF SetMaxReset, StoreTypeOK
  <2>2. mishaps' \subseteq Mishaps /\ committed' \in Seq(1..MaxRecords)
    BY <1>4 DEF SetMaxReset, Note, Mishaps
  <2>3. QED
    BY <1>4, <2>1, <2>2 DEF SetMaxReset
<1>5. CASE SetMaxCleanup
  <2>1. PICK o \in HandlerOutcomes(0) :
          /\ timestamps' = o.index
          /\ cfgfile' = StoredConfig(TRUE, o.index)
          /\ Fault(HandlerFaults(0, o) \cup StoreFaults(TRUE, o.index))
    BY <1>5 DEF SetMaxCleanup
  <2>2. 0 \in 0..HardMax
    BY HardMaxAssumption
  <2>3. o.index \in Index /\ HandlerFaults(0, o) \subseteq Faults
    BY <2>2, HandlerType DEF StoreTypeOK
  <2>4. cfgfile' \in ConfigFile
    BY <2>1, <2>3, StoredConfigType
  <2>5. faults' \subseteq Faults
    BY <2>1, <2>3, StoreFaultsType DEF StoreTypeOK, Fault
  <2>6. StoreTypeOK'
    BY <1>5, <2>1, <2>3, <2>4, <2>5 DEF SetMaxCleanup, StoreTypeOK
  <2>7. QED
    BY <1>5, <2>6 DEF SetMaxCleanup
<1>6. CASE Snapshot
  <2>1. PICK b \in (IF fetch.bytime THEN SearchResults ELSE {fetch.before}) :
          fetch' = [fetch EXCEPT !.max = MAX_FILES, !.before = b, !.loaded = config_loaded]
    BY <1>6 DEF Snapshot
  <2>2. b \in Nat
    BY <2>1, SearchType DEF Fetch
  <2>3. fetch' \in Fetch
    BY <2>1, <2>2 DEF Fetch, StoreTypeOK
  <2>4. faults' \subseteq Faults
    BY <1>6, SearchType DEF Snapshot, Fault, StoreTypeOK
  <2>5. StoreTypeOK'
    BY <1>6, <2>4 DEF Snapshot, StoreTypeOK
  <2>6. QED
    BY <1>6, <2>3, <2>5 DEF Snapshot
<1>7. CASE Resolve
  <2> DEFINE newest == fetch.before = 0 \/ fetch.before > fetch.max
             start == IF newest THEN current_file ELSE fetch.before
             base == IF newest THEN BaseNewest ELSE BaseBefore(fetch.before)
             limit == IF fetch.limit > fetch.max THEN fetch.max ELSE fetch.limit
  <2>1. fetch' = [fetch EXCEPT !.before = start, !.base = base, !.limit = limit]
    BY <1>7 DEF Resolve
  <2>2. start \in Nat /\ start # 0
    BY DEF Fetch, StoreTypeOK
  <2>3. limit \in Nat /\ (fetch.limit # 0 => limit # 0)
    BY HardMaxAssumption DEF Fetch, Slots
  <2>4. base \in Int
    <3>1. BaseNewest \in Int
      BY DEF BaseNewest
    <3>2. BaseBefore(fetch.before) \in Int
      <4> DEFINE at == {k \in 1..Len(committed) :
                          fetch.before \in Slots /\ committed[k] = hkfile.slot[fetch.before]}
      <4>1. CASE at = {}
        BY <4>1 DEF BaseBefore
      <4>2. CASE at # {}
        <5>1. (CHOOSE k \in at : TRUE) \in at
          BY <4>2
        <5>2. (CHOOSE k \in at : TRUE) \in Int
          BY <5>1
        <5>3. BaseBefore(fetch.before) = (CHOOSE k \in at : TRUE) - 1
          BY <4>2 DEF BaseBefore
        <5>4. QED
          BY <5>2, <5>3
      <4>3. QED
        BY <4>1, <4>2
    <3>3. QED
      BY <3>1, <3>2
  <2>5. fetch' \in Fetch /\ fetch'.before = start /\ fetch'.limit = limit
    BY <2>1, <2>2, <2>3, <2>4 DEF Fetch
  <2>6. StoreTypeOK'
    BY <1>7 DEF Resolve, StoreTypeOK
  <2>7. spc' = IF fetch.limit = 0 THEN "idle" ELSE "read"
    BY <1>7 DEF Resolve
  <2>8. Progress'
    BY <1>7, <2>2, <2>3, <2>5, <2>7 DEF Resolve
  <2>9. TaskTypeOK'
    BY <1>7, <2>5, <2>7 DEF Resolve
  <2>10. QED
    BY <2>6, <2>8, <2>9
<1>8. CASE ReadHk
  <2>1. fetch.before \in Nat \ {0} /\ fetch.limit # 0
    BY <1>8 DEF ReadHk, Fetch
  <2>2. Older \in Nat \ {0}
    BY <2>1, HardMaxAssumption DEF Older, Fetch, Slots
  <2>3. ReadRecord(Older, fetch.buf) \in Item
    BY <2>2, ReadRecordType DEF Fetch
  <2>4. fetch' \in Fetch /\ fetch'.before # 0 /\ fetch'.limit # 0
    BY <1>8, <2>1, <2>2, <2>3 DEF ReadHk, Fetch
  <2>5. StoreTypeOK'
    BY <1>8 DEF ReadHk, StoreTypeOK
  <2>6. QED
    BY <1>8, <2>4, <2>5 DEF ReadHk
<1>9. CASE ReadCreates
  <2>1. fetch.before \in Nat \ {0}
    BY <1>9 DEF ReadCreates, Fetch
  <2>2. Older \in Nat \ {0}
    BY <2>1, HardMaxAssumption DEF Older, Fetch, Slots
  <2>3. fetch' \in Fetch
    BY <1>9, <2>2 DEF ReadCreates, Fetch
  <2>4. hkfile' \in HkFile
    BY <1>9, NoFilesType DEF ReadCreates, HkFile
  <2>5. StoreTypeOK'
    BY <1>9, <2>4 DEF ReadCreates, StoreTypeOK
  <2>6. QED
    BY <1>9, <2>3, <2>5 DEF ReadCreates
<1>10. CASE ReadUnlinks
  <2>1. hkfile' \in HkFile
    BY <1>10, NoFilesType DEF ReadUnlinks, StoreTypeOK
  <2>2. StoreTypeOK'
    BY <1>10, <2>1 DEF ReadUnlinks, StoreTypeOK
  <2>3. mishaps' \subseteq Mishaps
    BY <1>10 DEF ReadUnlinks, Note, Mishaps
  <2>4. QED
    BY <1>10, <2>2, <2>3 DEF ReadUnlinks
<1>11. CASE ReadWithoutHandles
  <2>1. StoreTypeOK'
    BY <1>11, NoFilesType DEF ReadWithoutHandles, StoreTypeOK
  <2>2. QED
    BY <1>11, <2>1 DEF ReadWithoutHandles
<1>12. CASE Send
  <2>1. PICK final \in IF fetch.limit > 1 THEN {TRUE} ELSE BOOLEAN :
          fetch' = [fetch EXCEPT !.limit = fetch.limit - 1, !.done = fetch.done + 1,
                                 !.final = final]
    BY <1>12 DEF Send
  <2>2. fetch.limit \in Nat /\ fetch.limit # 0 /\ fetch.before # 0 /\ final \in BOOLEAN
    BY <1>12, <2>1 DEF Send, Fetch
  <2>3. fetch' \in Fetch /\ fetch'.before = fetch.before /\ fetch'.limit = fetch.limit - 1
    <3>1. fetch.limit - 1 \in Nat /\ fetch.done + 1 \in Nat
      BY <2>2 DEF Fetch
    <3>2. ASSUME NEW l \in Nat, NEW d \in Nat, NEW f \in BOOLEAN,
                 fetch' = [fetch EXCEPT !.limit = l, !.done = d, !.final = f]
          PROVE  fetch' \in Fetch /\ fetch'.before = fetch.before /\ fetch'.limit = l
      BY <3>2 DEF Fetch
    <3>3. QED
      BY <2>1, <2>2, <3>1, <3>2
  <2>4. spc' = IF fetch.limit = 1 THEN "idle" ELSE "read"
    BY <1>12 DEF Send
  <2>5. StoreTypeOK'
    BY <1>12 DEF Send, StoreTypeOK
  <2>6. QED
    BY <1>12, <2>2, <2>3, <2>4, <2>5 DEF Send
<1>13. CASE SendFails
  <2>1. StoreTypeOK'
    BY <1>13 DEF SendFails, StoreTypeOK
  <2>2. QED
    BY <1>13, <2>1 DEF SendFails
<1>14. QED
  BY <1>1, <1>2, <1>3, <1>4, <1>5, <1>6, <1>7, <1>8, <1>9, <1>10, <1>11, <1>12, <1>13
     DEF ServiceStep

LEMMA TypedEnvironment ==
    ASSUME Typed, HandlesRunOut \/ Crash
    PROVE  Typed'
<1> USE DEF Typed, TaskTypeOK, Progress
<1>1. CASE HandlesRunOut
  BY <1>1 DEF HandlesRunOut, StoreTypeOK, Note, Mishaps, ramVars, diskVars, taskVars
<1>2. CASE Crash
  <2>1. 1 \in Nat \ {0} /\ HardMax \in Slots
    BY HardMaxAssumption DEF Slots
  <2>2. cfgfile' \in ConfigFile /\ mishaps' \subseteq Mishaps
    <3>1. \/ cfgfile' = cfgfile /\ mishaps' = mishaps
          \/ cfgfile' = [NoConfig EXCEPT !.state = "empty"] /\ Note({"emptyconfig"})
      BY <1>2 DEF Crash
    <3>2. [NoConfig EXCEPT !.state = "empty"] \in ConfigFile
      BY NoFilesType DEF ConfigFile
    <3>3. QED
      BY <3>1, <3>2 DEF Note, Mishaps, StoreTypeOK
  <2>3. StoreTypeOK'
    BY <1>2, <2>1, <2>2, NoIndexType DEF Crash, ResetRam, StoreTypeOK
  <2>4. crashes' \in 0..MaxCrashes
    BY <1>2, BoundAssumption DEF Crash
  <2>5. TaskTypeOK'
    BY <1>2, <2>1, <2>2, <2>4, NoFetchType DEF Crash, CollectorPc, ServicePc
  <2>6. QED
    BY <1>2, <2>3, <2>5 DEF Crash
<1>3. QED
  BY <1>1, <1>2

LEMMA TypedStep == Typed /\ [Next]_vars => Typed'
<1>1. Typed /\ UNCHANGED vars => Typed'
  BY DEF vars, storeVars, ramVars, diskVars, taskVars, histVars, Typed, StoreTypeOK,
         TaskTypeOK, Progress
<1>2. QED
  BY <1>1, TypedLock, TypedCollector, TypedService, TypedEnvironment DEF Next

(***************************************************************************)
(* The type invariant, for rings, bounds and requests of any size: the     *)
(* index, the files and the locals of GET_HK keep their shape through      *)
(* races, failed allocations, lost handles and crashes.                    *)
(***************************************************************************)
THEOREM TypeCorrect == Spec => []TypeOK
<1>1. Init => LockInv /\ Typed
  BY LockInvInit, TypedInit DEF Init
<1>2. LockInv /\ Typed => TypeOK
  BY DEF LockInv, Typed, TaskTypeOK, TypeOK
<1>3. QED
  BY <1>1, <1>2, LockInvNext, TypedStep, PTL DEF Spec

-----------------------------------------------------------------------------
(***************************************************************************)
(* What the lock protects.  Whoever is in a critical section holds it, and *)
(* a second mutex is noted as a race; so without a race the two tasks are  *)
(* never in their critical sections together.                              *)
(***************************************************************************)
Critical == {"loaded", "write", "writing", "stamp", "store", "advance", "wrap"}

Holders ==
    /\ cpc \in Critical => Holds(Collector)
    /\ spc = "cleanup" => Holds(Service)

RaceNoted == "race" \notin mishaps => f_count_lock <= 1

Guarded == LockInv /\ Holders /\ RaceNoted

LEMMA GuardedInit == Init => Guarded
BY LockInvInit DEF Init, LockInit, Guarded, Holders, RaceNoted, Critical

LEMMA GuardedStep == Guarded /\ [Next]_vars => Guarded'
<1> SUFFICES ASSUME Guarded, [Next]_vars PROVE Guarded'
  OBVIOUS
<1>1. LockInv'
  BY LockInvNext DEF Guarded
<1>2. Collector \in Task /\ Service \in Task /\ Collector # Service
  BY TaskAssumption
<1>3. lpc \in [Task -> LockPc]
  BY DEF Guarded, LockInv, LockTypeOK
<1> SUFFICES Holders' /\ RaceNoted'
  BY <1>1 DEF Guarded
<1> USE <1>2, <1>3 DEF Guarded, Holders, RaceNoted, Critical, Holds, Goto
<1>4. ASSUME NEW t \in Task, LockStep(t) PROVE Holders' /\ RaceNoted'
  <2>1. \A u \in Task : lpc[u] = "in" => lpc'[u] = "in"
    BY <1>4 DEF LockStep, GetLockStep, TestLock, CreateLock, CallTake, Acquire
  <2>2. cpc' = cpc /\ spc' = spc
    BY <1>4 DEF LockStep, taskVars
  <2>3. Holders'
    BY <2>1, <2>2
  <2>4. CASE f_count_lock' > 1
    BY <1>4, <2>3, <2>4 DEF LockStep, Note
  <2>5. CASE ~(f_count_lock' > 1)
    BY <1>1, <2>3, <2>5 DEF LockInv, LockTypeOK
  <2>6. QED
    BY <2>4, <2>5
<1>5. CASE Collect \/ (\E n \in Resizes : RecvSetMax(n))
           \/ \E l \in Limits, b \in 0..HardMax, bytime \in BOOLEAN : RecvGetHk(l, b, bytime)
  BY <1>5 DEF Collect, RecvSetMax, RecvGetHk, WantLock, histVars
<1>6. CASE SkipConfig \/ LoadConfig \/ LoadAdvance \/ WriteOpen \/ WriteClose
           \/ Stamp \/ Store \/ Advance
  BY <1>6 DEF SkipConfig, LoadConfig, LoadAdvance, WriteOpen, WriteClose, Stamp, Store, Advance,
              lockVars, histVars, Note
<1>7. CASE WriteFails \/ WrapAround
  BY <1>7 DEF WriteFails, WrapAround, GiveLock, histVars
<1>8. CASE SetMaxGrow \/ SetMaxCleanup \/ Snapshot
  BY <1>8 DEF SetMaxGrow, SetMaxCleanup, Snapshot, GiveLock, histVars, Note
<1>9. CASE SetMaxReset \/ Resolve \/ ReadHk \/ ReadCreates \/ ReadUnlinks
           \/ ReadWithoutHandles \/ Send \/ SendFails
  BY <1>9 DEF SetMaxReset, Resolve, ReadHk, ReadCreates, ReadUnlinks, ReadWithoutHandles,
              Send, SendFails, lockVars, histVars, Note
<1>10. CASE HandlesRunOut
  BY <1>10 DEF HandlesRunOut, lockVars, taskVars, Note
<1>11. CASE Crash
  BY <1>11 DEF Crash, ResetLock, Note
<1>12. CASE UNCHANGED vars
  BY <1>12 DEF vars, lockVars, taskVars, histVars
<1>13. QED
  BY <1>4, <1>5, <1>6, <1>7, <1>8, <1>9, <1>10, <1>11, <1>12
     DEF Next, CollectorStep, ServiceStep

LEMMA GuardedExcludes ==
    Guarded /\ "race" \notin mishaps => ~(Holds(Collector) /\ Holds(Service))
BY TaskAssumption DEF Guarded, RaceNoted, LockInv, ExclusionWithOneMutex, AtMostOneInside,
                      Inside, Holds

(***************************************************************************)
(* Without a race, current_file and the position in the config file stay   *)
(* in the ring whose size is next to them.                                 *)
(***************************************************************************)
CursorOK ==
    \/ current_file \in 1..MAX_FILES
    \/ cpc = "wrap" /\ current_file = MAX_FILES + 1

RingInv == "race" \notin mishaps => CursorOK /\ cfgfile.cur <= cfgfile.max

LEMMA RingInit == Init => RingInv
BY HardMaxAssumption DEF Init, StoreInit, RingInv, CursorOK, NoConfig

\* The config file store_config leaves is as good as the variables.
LEMMA StoredConfigInRing ==
    ASSUME Typed, current_file \in 1..MAX_FILES, NEW all, NEW index
    PROVE  StoredConfig(all, index).cur <= StoredConfig(all, index).max
<1>1. CASE noHandles
  BY <1>1, HardMaxAssumption DEF StoredConfig, NoConfig
<1>2. CASE ~noHandles
  <2>1. /\ StoredConfig(all, index).cur = current_file
        /\ StoredConfig(all, index).max = MAX_FILES
    BY <1>2 DEF StoredConfig
  <2>2. QED
    BY <2>1 DEF Typed, StoreTypeOK, Slots
<1>3. QED
  BY <1>1, <1>2

LEMMA RingStep == Typed /\ Guarded /\ RingInv /\ [Next]_vars => RingInv'
<1> SUFFICES ASSUME Typed, Guarded, RingInv, [Next]_vars, "race" \notin mishaps'
             PROVE  CursorOK' /\ cfgfile'.cur <= cfgfile'.max
  BY DEF RingInv
<1>1. "race" \notin mishaps
  BY DEF Next, LockStep, Collect, CollectorStep, ServiceStep, SkipConfig, LoadConfig, LoadAdvance,
         WriteOpen, WriteClose, WriteFails, Stamp, Store, Advance, WrapAround, RecvSetMax,
         SetMaxGrow, SetMaxReset, SetMaxCleanup, RecvGetHk, Snapshot, Resolve, ReadHk, ReadCreates,
         ReadUnlinks, ReadWithoutHandles, Send, SendFails, HandlesRunOut, Crash, Note, histVars, vars
<1>2. CursorOK /\ cfgfile.cur <= cfgfile.max
  BY <1>1 DEF RingInv
<1>3. MAX_FILES \in Nat \ {0} /\ current_file \in Nat \ {0} /\ new_max \in Nat \ {0}
      /\ HardMax \in Nat \ {0}
  BY HardMaxAssumption DEF Typed, StoreTypeOK, TaskTypeOK, Slots
<1>4. cpc \in Critical => ~Holds(Service)
  BY <1>1, GuardedExcludes DEF Guarded, Holders
<1>5. ASSUME NEW t \in Task, LockStep(t) PROVE CursorOK' /\ cfgfile'.cur <= cfgfile'.max
  BY <1>2, <1>5 DEF LockStep, CursorOK, storeVars, ramVars, diskVars, taskVars
<1>6. CASE Collect \/ WriteOpen \/ WriteClose \/ WriteFails \/ Stamp
  BY <1>2, <1>6 DEF Collect, WriteOpen, WriteClose, WriteFails, Stamp, CursorOK, storeVars,
                    ramVars, diskVars
<1>7. CASE SkipConfig
  <2>1. NoConfig.cur <= NoConfig.max
    BY <1>3 DEF NoConfig
  <2>2. QED
    BY <1>2, <1>7, <2>1 DEF SkipConfig, CursorOK
<1>8. CASE LoadConfig
  <2>1. ConfigCur \in 1..ConfigMax
    BY <1>2, <1>3, <1>8 DEF LoadConfig, ConfigCur, ConfigMax, CursorOK, Typed, StoreTypeOK, ConfigFile,
                            Slots
  <2>2. QED
    BY <1>2, <1>8, <2>1 DEF LoadConfig, CursorOK
<1>9. CASE LoadAdvance
  <2>1. Wrap(current_file + 1, MAX_FILES) \in 1..MAX_FILES
    BY <1>3, WrapInRing
  <2>2. QED
    BY <1>2, <1>9, <2>1 DEF LoadAdvance, CursorOK, diskVars
<1>10. CASE Store
  <2>1. current_file \in 1..MAX_FILES
    BY <1>2, <1>10 DEF Store, CursorOK
  <2>2. QED
    BY <1>10, <2>1, StoredConfigInRing DEF Store, CursorOK, ramVars
<1>11. CASE Advance
  BY <1>2, <1>3, <1>11 DEF Advance, CursorOK, diskVars
<1>12. CASE WrapAround
  <2>1. Wrap(current_file, MAX_FILES) \in 1..MAX_FILES
    BY <1>3, WrapInRing
  <2>2. QED
    BY <1>2, <1>12, <2>1 DEF WrapAround, CursorOK, diskVars
<1>13. CASE (\E n \in Resizes : RecvSetMax(n)) \/ Snapshot \/ Resolve \/ ReadHk \/ ReadCreates
            \/ ReadUnlinks \/ ReadWithoutHandles \/ Send \/ SendFails
            \/ \E l \in Limits, b \in 0..HardMax, bytime \in BOOLEAN : RecvGetHk(l, b, bytime)
  BY <1>2, <1>13 DEF RecvSetMax, Snapshot, Resolve, ReadHk, ReadCreates, ReadUnlinks,
     ReadWithoutHandles, Send, SendFails, RecvGetHk, CursorOK, storeVars, ramVars, diskVars
<1>14. CASE SetMaxGrow
  <2>1. current_file \in 1..MAX_FILES
    BY <1>2, <1>4, <1>14 DEF SetMaxGrow, CursorOK, Critical
  <2>2. QED
    BY <1>2, <1>3, <1>14, <2>1 DEF SetMaxGrow, CursorOK, diskVars
<1>15. CASE SetMaxReset
  BY <1>2, <1>3, <1>15 DEF SetMaxReset, CursorOK
<1>16. CASE SetMaxCleanup
  <2>1. current_file \in 1..MAX_FILES
    BY <1>2, <1>4, <1>16 DEF SetMaxCleanup, CursorOK, Critical, Guarded, Holders
  <2>2. PICK o \in HandlerOutcomes(0) : cfgfile' = StoredConfig(TRUE, o.index)
    BY <1>16 DEF SetMaxCleanup
  <2>3. QED
    BY <1>16, <2>1, <2>2, StoredConfigInRing DEF SetMaxCleanup, CursorOK
<1>17. CASE HandlesRunOut
  BY <1>2, <1>17 DEF HandlesRunOut, CursorOK, ramVars, diskVars, taskVars
<1>18. CASE Crash
  <2>1. cfgfile' \in {cfgfile, [NoConfig EXCEPT !.state = "empty"]}
    BY <1>18 DEF Crash
  <2>2. QED
    BY <1>2, <1>3, <1>18, <2>1 DEF Crash, ResetRam, CursorOK, NoConfig
<1>19. CASE UNCHANGED vars
  BY <1>2, <1>19 DEF vars, storeVars, ramVars, diskVars, taskVars, CursorOK
<1>20. QED
  BY <1>5, <1>6, <1>7, <1>8, <1>9, <1>10, <1>11, <1>12, <1>13, <1>14, <1>15, <1>16, <1>17, <1>18,
     <1>19 DEF Next, CollectorStep, ServiceStep

(***************************************************************************)
(* current_file stays in the ring, for every ring and any number of        *)
(* requests and crashes, unless the lock was created twice.                *)
(***************************************************************************)
THEOREM CursorStaysInRing == Spec => []CursorInRing
<1>1. Init => Typed /\ Guarded /\ RingInv
  BY TypedInit, GuardedInit, RingInit
<1>2. RingInv => CursorInRing
  BY DEF RingInv, CursorOK, CursorInRing
<1>3. QED
  BY <1>1, <1>2, TypedStep, GuardedStep, RingStep, PTL DEF Spec

-----------------------------------------------------------------------------
(***************************************************************************)
(* The index.  Until a reset frees it or memory runs out there is either   *)
(* no block, or a live one as large as the ring, and a live one whenever   *)
(* the collector is about to store the config.                             *)
(***************************************************************************)
MemoryClean == mishaps \cap {"race", "shrink", "nomemory"} = {}

IndexSized ==
    /\ timestamps.block = "null" => timestamps.size = 0
    /\ timestamps.block = "live" => timestamps.size = MAX_FILES
    /\ timestamps.block # "dangling"
    /\ cpc = "store" => timestamps.block = "live"

MemoryInv ==
    /\ spc = "cleanup" => "shrink" \in mishaps
    /\ MemoryClean => faults = {} /\ IndexSized

LEMMA MemoryInit == Init => MemoryInv
BY DEF Init, StoreInit, MemoryInv, IndexSized, NoIndex

LEMMA MemoryStep == Typed /\ Guarded /\ RingInv /\ MemoryInv /\ [Next]_vars => MemoryInv'
<1> SUFFICES ASSUME Typed, Guarded, RingInv, MemoryInv, [Next]_vars PROVE MemoryInv'
  OBVIOUS
<1> USE DEF MemoryInv, MemoryClean
<1>1. /\ timestamps \in Index /\ MAX_FILES \in Slots /\ new_max \in Slots
      /\ current_file \in Nat
  BY DEF Typed, StoreTypeOK, TaskTypeOK
<1>2. \A n \in Slots : n \in 1..HardMax /\ n \in Nat
  BY HardMaxAssumption DEF Slots
<1>3. "race" \notin mishaps => CursorOK
  BY DEF RingInv
<1>4. "race" \notin mishaps /\ cpc \in Critical => ~Holds(Service)
  BY GuardedExcludes DEF Guarded, Holders
<1>5. ASSUME UNCHANGED <<MAX_FILES, timestamps, faults>>, mishaps \subseteq mishaps',
             cpc' = "store" => cpc = "store", spc' = "cleanup" => spc = "cleanup"
      PROVE  MemoryInv'
  BY <1>5 DEF IndexSized
<1>6. ASSUME NEW t \in Task, LockStep(t) PROVE MemoryInv'
  BY <1>5, <1>6 DEF LockStep, storeVars, ramVars, taskVars, Note
<1>7. CASE Collect \/ SkipConfig \/ LoadAdvance \/ WriteOpen \/ WriteClose \/ WriteFails
           \/ Advance \/ WrapAround
  BY <1>5, <1>7 DEF Collect, SkipConfig, LoadAdvance, WriteOpen, WriteClose, WriteFails, Advance,
     WrapAround, storeVars, ramVars, histVars
<1>8. CASE LoadConfig
  <2>1. PICK o \in HandlerOutcomes(ConfigMax) :
          /\ timestamps' = IF o.ok THEN LoadedIndex(o.index) ELSE timestamps
          /\ Fault(HandlerFaults(ConfigMax, o))
          /\ Note((IF o.ok THEN {} ELSE {"nomemory"})
                  \cup (IF "shrink" \in mishaps THEN {"staleload"} ELSE {}))
    BY <1>8 DEF LoadConfig
  <2>2. ConfigMax \in Slots /\ MAX_FILES' = ConfigMax /\ cpc' # "store" /\ spc' = spc
    BY <1>8, LoadedHeaderType DEF LoadConfig, Typed
  <2>3. mishaps \subseteq mishaps'
    BY <2>1 DEF Note
  <2>4. CASE o.ok /\ MemoryClean
    <3>1. /\ HandlerFaults(ConfigMax, o) = {}
          /\ o.index.block = "live" /\ o.index.size = ConfigMax
      BY <1>1, <2>1, <2>2, <2>4, HandlerLive DEF IndexSized
    <3>2. o.index \in Index
      BY <1>1, <1>2, <2>1, <2>2, HandlerType, HardMaxAssumption DEF Slots
    <3>3. timestamps'.block = "live" /\ timestamps'.size = ConfigMax
      BY <2>1, <2>4, <3>1, <3>2, LoadedIndexBlock
    <3>4. faults' = {}
      BY <2>1, <2>4, <3>1 DEF Fault
    <3>5. QED
      BY <2>2, <2>3, <3>3, <3>4 DEF IndexSized
  <2>5. CASE ~(o.ok /\ MemoryClean)
    <3>1. ~MemoryClean'
      BY <2>1, <2>3, <2>5 DEF Note
    <3>2. QED
      BY <2>2, <2>3, <3>1
  <2>6. QED
    BY <2>4, <2>5
<1>9. CASE Stamp
  <2>1. PICK o \in HandlerOutcomes(MAX_FILES) :
          /\ timestamps' = IF o.ok THEN [o.index EXCEPT !.item[current_file] = collected]
                           ELSE timestamps
          /\ Fault(HandlerFaults(MAX_FILES, o))
          /\ Note(IF o.ok THEN {} ELSE {"nomemory"})
    BY <1>9 DEF Stamp
  <2>2. MAX_FILES' = MAX_FILES /\ spc' = spc
    BY <1>9 DEF Stamp
  <2>3. mishaps \subseteq mishaps'
    BY <2>1 DEF Note
  <2>4. CASE o.ok /\ MemoryClean
    <3>1. /\ HandlerFaults(MAX_FILES, o) = {}
          /\ o.index.block = "live" /\ o.index.size = MAX_FILES
      BY <1>1, <2>1, <2>4, HandlerLive DEF IndexSized
    <3>2. o.index \in Index
      BY <1>1, <1>2, <2>1, HandlerType, HardMaxAssumption DEF Slots
    <3>3. timestamps'.block = "live" /\ timestamps'.size = MAX_FILES
      BY <2>1, <2>4, <3>1, <3>2 DEF Index
    <3>4. faults' = {}
      BY <2>1, <2>4, <3>1 DEF Fault
    <3>5. QED
      BY <2>2, <2>3, <3>3, <3>4 DEF IndexSized
  <2>5. CASE ~(o.ok /\ MemoryClean)
    <3>1. ~MemoryClean'
      BY <2>1, <2>3, <2>5 DEF Note
    <3>2. QED
      BY <2>2, <2>3, <3>1
  <2>6. QED
    BY <2>4, <2>5
<1>10. CASE Store
  <2>1. /\ UNCHANGED <<MAX_FILES, timestamps, mishaps, spc>> /\ cpc' # "store"
        /\ Fault(StoreFaults(FALSE, timestamps))
    BY <1>10 DEF Store, ramVars
  <2>2. ASSUME MemoryClean PROVE StoreFaults(FALSE, timestamps) = {}
    <3>1. timestamps.block = "live" /\ timestamps.size = MAX_FILES
      BY <1>10, <2>2 DEF Store, IndexSized
    <3>2. current_file \in 1..MAX_FILES
      BY <1>3, <1>10, <2>2 DEF Store, CursorOK
    <3>3. ~(current_file > timestamps.size)
      BY <1>1, <1>2, <3>1, <3>2
    <3>4. QED
      BY <3>1, <3>3 DEF StoreFaults
  <2>3. QED
    BY <2>1, <2>2 DEF IndexSized, Fault
<1>11. CASE (\E n \in Resizes : RecvSetMax(n)) \/ Resolve \/ ReadHk \/ ReadCreates
            \/ ReadUnlinks \/ ReadWithoutHandles \/ Send \/ SendFails
            \/ \E l \in Limits, b \in 0..HardMax, bytime \in BOOLEAN : RecvGetHk(l, b, bytime)
  BY <1>5, <1>11 DEF RecvSetMax, Resolve, ReadHk, ReadCreates, ReadUnlinks, ReadWithoutHandles,
     Send, SendFails, RecvGetHk, storeVars, ramVars, histVars, Note
<1>12. CASE SetMaxGrow
  <2>1. PICK o \in HandlerOutcomes(new_max) :
          /\ timestamps' = o.index
          /\ Fault(HandlerFaults(new_max, o))
          /\ Note({"grow"} \cup (IF o.ok THEN {} ELSE {"nomemory"})
                  \cup (IF Len(committed) >= current_file THEN {"growfull"} ELSE {}))
    BY <1>12 DEF SetMaxGrow
  <2>2. MAX_FILES' = new_max /\ spc' # "cleanup" /\ cpc' = cpc
    BY <1>12 DEF SetMaxGrow
  <2>3. mishaps \subseteq mishaps'
    BY <2>1 DEF Note
  <2>4. CASE o.ok /\ MemoryClean
    <3>1. /\ HandlerFaults(new_max, o) = {}
          /\ o.index.block = "live" /\ o.index.size = new_max
      BY <1>1, <2>1, <2>4, HandlerLive DEF IndexSized
    <3>2. faults' = {}
      BY <2>1, <2>4, <3>1 DEF Fault
    <3>3. QED
      BY <2>1, <2>2, <2>3, <3>1, <3>2 DEF IndexSized
  <2>5. CASE ~(o.ok /\ MemoryClean)
    <3>1. ~MemoryClean'
      BY <2>1, <2>3, <2>5 DEF Note
    <3>2. QED
      BY <2>2, <3>1
  <2>6. QED
    BY <2>4, <2>5
<1>13. CASE SetMaxReset
  BY <1>13 DEF SetMaxReset, Note
<1>14. CASE SetMaxCleanup
  BY <1>14 DEF SetMaxCleanup, histVars
<1>15. CASE Snapshot
  <2>1. /\ UNCHANGED <<MAX_FILES, timestamps, mishaps, cpc>> /\ spc' # "cleanup"
        /\ Fault(IF fetch.bytime THEN SearchFaults ELSE {})
    BY <1>15 DEF Snapshot, ramVars, histVars
  <2>2. ASSUME MemoryClean PROVE SearchFaults = {}
    <3>1. cpc # "wrap"
      BY <1>4, <1>15, <2>2 DEF Snapshot, Critical
    <3>2. current_file \in 1..MAX_FILES
      BY <1>3, <2>2, <3>1 DEF CursorOK
    <3>3. timestamps.block = "live" => ~(current_file > timestamps.size)
      BY <1>1, <1>2, <2>2, <3>2 DEF IndexSized
    <3>4. timestamps.block \in {"null", "live"}
      BY <1>1, <2>2 DEF IndexSized, Index
    <3>5. QED
      BY <3>3, <3>4 DEF SearchFaults
  <2>3. QED
    BY <2>1, <2>2 DEF IndexSized, Fault
<1>16. CASE HandlesRunOut
  BY <1>5, <1>16 DEF HandlesRunOut, ramVars, taskVars, Note
<1>17. CASE Crash
  <2>1. timestamps' = NoIndex /\ faults' = faults /\ cpc' = "idle" /\ spc' = "idle"
    BY <1>17 DEF Crash, ResetRam
  <2>2. mishaps \subseteq mishaps'
    BY <1>17 DEF Crash, Note
  <2>3. QED
    BY <2>1, <2>2 DEF IndexSized, NoIndex
<1>18. CASE UNCHANGED vars
  BY <1>5, <1>18 DEF vars, storeVars, ramVars, taskVars, histVars
<1>19. QED
  BY <1>6, <1>7, <1>8, <1>9, <1>10, <1>11, <1>12, <1>13, <1>14, <1>15, <1>16, <1>17, <1>18
     DEF Next, CollectorStep, ServiceStep

(***************************************************************************)
(* Until memory runs out or a reset frees it, the index is never touched   *)
(* outside its block, for every ring and any number of records, requests,  *)
(* growths and crashes.                                                    *)
(***************************************************************************)
THEOREM IndexStaysSafe == Spec => []IndexMemorySafe
<1>1. Init => Typed /\ Guarded /\ RingInv /\ MemoryInv
  BY TypedInit, GuardedInit, RingInit, MemoryInit
<1>2. MemoryInv => IndexMemorySafe
  BY DEF MemoryInv, MemoryClean, IndexMemorySafe
<1>3. QED
  BY <1>1, <1>2, TypedStep, GuardedStep, RingStep, MemoryStep, PTL DEF Spec

-----------------------------------------------------------------------------
(***************************************************************************)
(* Paging.  Once the config is loaded, MAX_FILES cannot change between a   *)
(* GET_HK's copy of it and its last packet (the service task serves one    *)
(* request at a time), so the place it has reached, although it started    *)
(* from a current_file read without the lock, is in the ring.              *)
(***************************************************************************)
PageOK ==
    /\ spc \in {"resolve", "read", "unlink", "send"} => config_loaded /\ fetch.max = MAX_FILES
    /\ spc = "read" => fetch.before \in 1..(fetch.max + 1)
    /\ spc = "send" => fetch.before \in 1..fetch.max

PageInv == "race" \notin mishaps /\ fetch.loaded => PageOK

LEMMA PageInit == Init => PageInv
BY DEF Init, PageInv, NoFetch

LEMMA OlderInRing ==
    ASSUME fetch.max \in Nat \ {0}, fetch.before \in 1..(fetch.max + 1)
    PROVE  Older \in 1..fetch.max
BY DEF Older

LEMMA PageStep == Typed /\ RingInv /\ PageInv /\ [Next]_vars => PageInv'
<1> SUFFICES ASSUME Typed, RingInv, PageInv, [Next]_vars, "race" \notin mishaps', fetch'.loaded
             PROVE  PageOK'
  BY DEF PageInv
<1>1. "race" \notin mishaps
  BY DEF Next, LockStep, Collect, CollectorStep, ServiceStep, SkipConfig, LoadConfig, LoadAdvance,
         WriteOpen, WriteClose, WriteFails, Stamp, Store, Advance, WrapAround, RecvSetMax,
         SetMaxGrow, SetMaxReset, SetMaxCleanup, RecvGetHk, Snapshot, Resolve, ReadHk, ReadCreates,
         ReadUnlinks, ReadWithoutHandles, Send, SendFails, HandlesRunOut, Crash, Note, histVars, vars
<1>2. CursorOK
  BY <1>1 DEF RingInv
<1>3. /\ fetch \in Fetch /\ MAX_FILES \in Nat \ {0} /\ fetch.max \in Nat \ {0}
      /\ fetch.before \in Nat /\ fetch.limit \in Nat /\ fetch.done \in Nat
  BY HardMaxAssumption DEF Typed, StoreTypeOK, TaskTypeOK, Fetch, Slots
<1>4. fetch.loaded => PageOK
  BY <1>1 DEF PageInv
<1>5. ASSUME UNCHANGED <<MAX_FILES, spc, fetch>>, config_loaded => config_loaded' PROVE PageOK'
  BY <1>4, <1>5 DEF PageOK
<1>6. ASSUME NEW t \in Task, LockStep(t) PROVE PageOK'
  BY <1>5, <1>6 DEF LockStep, storeVars, ramVars, taskVars
<1>7. CASE Collect \/ SkipConfig \/ LoadAdvance \/ WriteOpen \/ WriteClose \/ WriteFails
           \/ Stamp \/ Store \/ Advance \/ WrapAround
  BY <1>5, <1>7 DEF Collect, SkipConfig, LoadAdvance, WriteOpen, WriteClose, WriteFails, Stamp,
     Store, Advance, WrapAround, storeVars, ramVars
<1>8. CASE LoadConfig
  BY <1>4, <1>8 DEF LoadConfig, PageOK
<1>9. CASE (\E n \in Resizes : RecvSetMax(n)) \/ SetMaxGrow \/ SetMaxReset \/ SetMaxCleanup
           \/ \E l \in Limits, b \in 0..HardMax, bytime \in BOOLEAN : RecvGetHk(l, b, bytime)
  BY <1>9 DEF RecvSetMax, SetMaxGrow, SetMaxReset, SetMaxCleanup, RecvGetHk, PageOK
<1>10. CASE ReadUnlinks \/ ReadWithoutHandles \/ SendFails
  BY <1>10 DEF ReadUnlinks, ReadWithoutHandles, SendFails, PageOK
<1>11. CASE Snapshot
  <2>1. PICK b \in (IF fetch.bytime THEN SearchResults ELSE {fetch.before}) :
          fetch' = [fetch EXCEPT !.max = MAX_FILES, !.before = b, !.loaded = config_loaded]
    BY <1>11 DEF Snapshot
  <2>2. fetch'.max = MAX_FILES /\ config_loaded
    BY <1>3, <2>1 DEF Fetch
  <2>3. spc' = "resolve" /\ MAX_FILES' = MAX_FILES /\ config_loaded' = config_loaded
    BY <1>11 DEF Snapshot, ramVars
  <2>4. QED
    BY <2>2, <2>3 DEF PageOK
<1>12. CASE Resolve
  <2> DEFINE newest == fetch.before = 0 \/ fetch.before > fetch.max
             start == IF newest THEN current_file ELSE fetch.before
             base == IF newest THEN BaseNewest ELSE BaseBefore(fetch.before)
             limit == IF fetch.limit > fetch.max THEN fetch.max ELSE fetch.limit
  <2>1. fetch' = [fetch EXCEPT !.before = start, !.base = base, !.limit = limit]
    BY <1>12 DEF Resolve
  <2>2. fetch'.before = start /\ fetch'.max = fetch.max /\ fetch'.loaded = fetch.loaded
    BY <1>3, <2>1 DEF Fetch
  <2>3. config_loaded /\ fetch.max = MAX_FILES
    BY <1>4, <1>12, <2>2 DEF Resolve, PageOK
  <2>4. start \in 1..(fetch.max + 1)
    BY <1>2, <1>3, <2>3 DEF CursorOK
  <2>5. spc' \in {"idle", "read"} /\ UNCHANGED <<MAX_FILES, config_loaded>>
    BY <1>12 DEF Resolve, storeVars, ramVars
  <2>6. QED
    BY <2>2, <2>3, <2>4, <2>5 DEF PageOK
<1>13. CASE ReadHk \/ ReadCreates
  <2>1. spc = "read" /\ spc' \in {"send", "unlink"} /\ UNCHANGED <<MAX_FILES, config_loaded>>
    BY <1>13 DEF ReadHk, ReadCreates, storeVars, ramVars
  <2>2. fetch'.before = Older /\ fetch'.max = fetch.max /\ fetch'.loaded = fetch.loaded
    BY <1>3, <1>13 DEF ReadHk, ReadCreates, Fetch
  <2>3. config_loaded /\ fetch.max = MAX_FILES /\ fetch.before \in 1..(fetch.max + 1)
    BY <1>4, <2>1, <2>2 DEF PageOK
  <2>4. Older \in 1..fetch.max
    BY <1>3, <2>3, OlderInRing
  <2>5. QED
    BY <2>1, <2>2, <2>3, <2>4 DEF PageOK
<1>14. CASE Send
  <2>1. PICK final \in IF fetch.limit > 1 THEN {TRUE} ELSE BOOLEAN :
          fetch' = [fetch EXCEPT !.limit = fetch.limit - 1, !.done = fetch.done + 1,
                                 !.final = final]
    BY <1>14 DEF Send
  <2>2. fetch'.before = fetch.before /\ fetch'.max = fetch.max /\ fetch'.loaded = fetch.loaded
    BY <1>3, <2>1 DEF Fetch
  <2>3. config_loaded /\ fetch.max = MAX_FILES /\ fetch.before \in 1..fetch.max
    BY <1>4, <1>14, <2>2 DEF Send, PageOK
  <2>4. spc' \in {"idle", "read"} /\ UNCHANGED <<MAX_FILES, config_loaded>>
    BY <1>14 DEF Send, storeVars, ramVars
  <2>5. QED
    BY <1>3, <2>2, <2>3, <2>4 DEF PageOK
<1>15. CASE HandlesRunOut
  BY <1>5, <1>15 DEF HandlesRunOut, ramVars, taskVars
<1>16. CASE Crash
  BY <1>16 DEF Crash, NoFetch
<1>17. CASE UNCHANGED vars
  BY <1>5, <1>17 DEF vars, storeVars, ramVars, taskVars
<1>18. QED
  BY <1>6, <1>7, <1>8, <1>9, <1>10, <1>11, <1>12, <1>13, <1>14, <1>15, <1>16, <1>17
     DEF Next, CollectorStep, ServiceStep

(***************************************************************************)
(* A GET_HK served with the config loaded reads slots of the ring only,    *)
(* whatever the collector does to current_file meanwhile.                  *)
(***************************************************************************)
THEOREM PagingStaysInRing == Spec => []FetchStaysInRing
<1>1. Init => Typed /\ Guarded /\ RingInv /\ PageInv
  BY TypedInit, GuardedInit, RingInit, PageInit
<1>2. PageInv => FetchStaysInRing
  BY DEF PageInv, PageOK, FetchStaysInRing
<1>3. QED
  BY <1>1, <1>2, TypedStep, GuardedStep, RingStep, PageStep, PTL DEF Spec

-----------------------------------------------------------------------------
(***************************************************************************)
(* What of liveness is safety.  First, the lock comes back on every path   *)
(* out of a critical section, the early returns included.                  *)
(***************************************************************************)

\* A task is past a call of prv_get_lock as long as its section lasts.
Called == \A t \in Task : AtWork(t) <=> lpc[t] # "out"

\* A mutex that is taken is so by a task inside.
TakenFromInside == f_count_lock <= 1 /\ taken # {} => Inside # {}

\* The steps a collection still takes from a place, and a request of the service
\* task with n packets left to send.
CollectionSteps(l) ==
    CASE l = "idle"    -> 0
      [] l = "wrap"    -> 1
      [] l = "advance" -> 2
      [] l = "store"   -> 3
      [] l = "stamp"   -> 4
      [] l = "writing" -> 5
      [] l = "write"   -> 6
      [] l = "loaded"  -> 7
      [] l = "load"    -> 8

RequestSteps(l, n) ==
    CASE l = "idle"     -> 0
      [] l = "cleanup"  -> 1
      [] l = "unlink"   -> 1
      [] l = "set"      -> 2
      [] l = "send"     -> 2 * n - 1
      [] l = "read"     -> 2 * n
      [] l = "resolve"  -> 2 * n + 1
      [] l = "snapshot" -> 2 * n + 2

CollectionLeft == CollectionSteps(cpc)
RequestLeft == RequestSteps(spc, fetch.limit)

(***************************************************************************)
(* Then, neither task goes on for ever: each of its steps brings it nearer *)
(* to its end, also when MAX_FILES, the file or the handles change under   *)
(* it, and no step of the other task takes it further away.                *)
(***************************************************************************)
TasksRunOut ==
    [][/\ cpc # "idle" => /\ CollectionLeft' <= CollectionLeft
                          /\ CollectorStep => CollectionLeft' < CollectionLeft
       /\ spc # "idle" => /\ RequestLeft' <= RequestLeft
                          /\ ServiceStep => RequestLeft' < RequestLeft]_vars

LEMMA TakenFromInsideStep ==
    LockInv /\ TakenFromInside /\ ([LockNext]_lockVars \/ ResetLock) => TakenFromInside'
<1> SUFFICES ASSUME LockInv, TakenFromInside, [LockNext]_lockVars \/ ResetLock
             PROVE  TakenFromInside'
  OBVIOUS
<1>1. lpc \in [Task -> LockPc] /\ f_count_lock \in Nat /\ taken \subseteq 1..f_count_lock
  BY DEF LockInv, LockTypeOK
<1> USE DEF TakenFromInside, Inside, Goto
<1>2. ASSUME NEW t \in Task, WantLock(t) \/ TestLock(t) \/ CallTake(t)
      PROVE  TakenFromInside'
  BY <1>1, <1>2 DEF WantLock, TestLock, CallTake
<1>3. ASSUME NEW t \in Task, CreateLock(t) PROVE TakenFromInside'
  <2>1. CASE f_count_lock = 0
    BY <1>1, <1>3, <2>1 DEF CreateLock
  <2>2. CASE f_count_lock # 0
    BY <1>1, <1>3, <2>2 DEF CreateLock
  <2>3. QED
    BY <2>1, <2>2
<1>4. ASSUME NEW t \in Task, Acquire(t) PROVE TakenFromInside'
  BY <1>1, <1>4 DEF Acquire
<1>5. ASSUME NEW t \in Task, GiveLock(t) PROVE TakenFromInside'
  <2>1. f_count_lock' <= 1 => taken' = {}
    BY <1>1, <1>5 DEF GiveLock
  <2>2. QED
    BY <2>1
<1>6. CASE ResetLock
  BY <1>6 DEF ResetLock
<1>7. CASE UNCHANGED lockVars
  BY <1>7 DEF lockVars
<1>8. QED
  BY <1>2, <1>3, <1>4, <1>5, <1>6, <1>7 DEF LockNext, GetLockStep

LEMMA CalledStep == LockInv /\ Called /\ [Next]_vars => Called'
<1> SUFFICES ASSUME LockInv, Called, [Next]_vars PROVE Called'
  OBVIOUS
<1>1. Collector \in Task /\ Service \in Task /\ Collector # Service /\ Task = {Collector, Service}
  BY TaskAssumption
<1>2. lpc \in [Task -> LockPc]
  BY DEF LockInv, LockTypeOK
<1> USE <1>1, <1>2 DEF Called, AtWork, Locking, Goto
<1>3. ASSUME NEW t \in Task, LockStep(t) PROVE Called'
  <2>1. \A u \in Task : lpc'[u] = "out" <=> lpc[u] = "out"
    BY <1>3 DEF LockStep, GetLockStep, TestLock, CreateLock, CallTake, Acquire
  <2>2. cpc' = cpc /\ spc' = spc
    BY <1>3 DEF LockStep, taskVars
  <2>3. QED
    BY <2>1, <2>2
<1>4. CASE Collect \/ (\E n \in Resizes : RecvSetMax(n))
           \/ \E l \in Limits, b \in 0..HardMax, bytime \in BOOLEAN : RecvGetHk(l, b, bytime)
  <2>1. CASE Collect
    BY <2>1 DEF Collect, WantLock
  <2>2. ASSUME NEW n \in Resizes, RecvSetMax(n) PROVE Called'
    BY <2>2 DEF RecvSetMax, WantLock
  <2>3. ASSUME NEW l \in Limits, NEW b \in 0..HardMax, NEW bytime \in BOOLEAN,
               RecvGetHk(l, b, bytime)
        PROVE  Called'
    BY <2>3 DEF RecvGetHk, WantLock
  <2>4. QED
    BY <1>4, <2>1, <2>2, <2>3
<1>5. CASE SkipConfig \/ LoadConfig \/ LoadAdvance \/ WriteOpen \/ WriteClose
           \/ Stamp \/ Store \/ Advance
  BY <1>5 DEF SkipConfig, LoadConfig, LoadAdvance, WriteOpen, WriteClose, Stamp, Store, Advance,
              lockVars
<1>6. CASE WriteFails \/ WrapAround
  BY <1>6 DEF WriteFails, WrapAround, GiveLock
<1>7. CASE SetMaxGrow \/ SetMaxCleanup \/ Snapshot
  BY <1>7, ZenonT(60) DEF SetMaxGrow, SetMaxCleanup, Snapshot, GiveLock
<1>8. CASE SetMaxReset \/ Resolve \/ ReadHk \/ ReadCreates \/ ReadUnlinks
           \/ ReadWithoutHandles \/ Send \/ SendFails
  BY <1>8, ZenonT(60) DEF SetMaxReset, Resolve, ReadHk, ReadCreates, ReadUnlinks, ReadWithoutHandles,
              Send, SendFails, lockVars
<1>9. CASE HandlesRunOut \/ UNCHANGED vars
  BY <1>9 DEF HandlesRunOut, lockVars, taskVars, vars
<1>10. CASE Crash
  BY <1>10 DEF Crash, ResetLock
<1>11. QED
  BY <1>3, <1>4, <1>5, <1>6, <1>7, <1>8, <1>9, <1>10 DEF Next, CollectorStep, ServiceStep

(***************************************************************************)
(* Every way out of a critical section gives the lock back, and a task     *)
(* that waits is kept out only by one that will.                           *)
(***************************************************************************)
THEOREM LockReturns == Spec => []LockComesBack
<1>1. Init => Guarded /\ Called /\ TakenFromInside
  <2>1. Init => Called
    BY TaskAssumption DEF Init, LockInit, Called, AtWork, Locking
  <2>2. Init => TakenFromInside
    BY DEF Init, LockInit, TakenFromInside
  <2>3. QED
    BY <2>1, <2>2, GuardedInit
<1>2. Guarded /\ TakenFromInside /\ [Next]_vars => TakenFromInside'
  BY LockSteps, TakenFromInsideStep DEF Guarded
<1>3. Guarded /\ Called /\ [Next]_vars => Called'
  BY CalledStep DEF Guarded
<1>4. Guarded /\ Called /\ TakenFromInside => LockComesBack
  <2> SUFFICES ASSUME Guarded, Called, TakenFromInside, "race" \notin mishaps
               PROVE  LockComesBack
    BY DEF LockComesBack
  <2>1. taken # {} => \E u \in Task : Holds(u)
    BY DEF Guarded, RaceNoted, TakenFromInside, Inside, Holds
  <2>2. \A u \in Task : Holds(u) => AtWork(u)
    BY DEF Called, Holds
  <2>3. ASSUME NEW t \in Task, lpc[t] = "wait", handle[t] \in taken
        PROVE  \E u \in Task \ {t} : Holds(u) /\ AtWork(u)
    BY <2>1, <2>2, <2>3 DEF Holds
  <2>4. ASSUME \A t \in Task : ~AtWork(t)
        PROVE  taken = {} /\ \A t \in Task : lpc[t] = "out"
    BY <2>1, <2>2, <2>4 DEF Called
  <2>5. QED
    BY <2>3, <2>4 DEF LockComesBack
<1>5. QED
  BY <1>1, <1>2, <1>3, <1>4, GuardedStep, PTL DEF Spec

LEMMA CollectionStepsOf ==
    /\ CollectionSteps("idle") = 0 /\ CollectionSteps("wrap") = 1
    /\ CollectionSteps("advance") = 2 /\ CollectionSteps("store") = 3
    /\ CollectionSteps("stamp") = 4 /\ CollectionSteps("writing") = 5
    /\ CollectionSteps("write") = 6 /\ CollectionSteps("loaded") = 7
    /\ CollectionSteps("load") = 8
BY DEF CollectionSteps

LEMMA RequestStepsOf ==
    \A n :
        /\ RequestSteps("idle", n) = 0 /\ RequestSteps("cleanup", n) = 1
        /\ RequestSteps("unlink", n) = 1 /\ RequestSteps("set", n) = 2
        /\ RequestSteps("send", n) = 2 * n - 1 /\ RequestSteps("read", n) = 2 * n
        /\ RequestSteps("resolve", n) = 2 * n + 1 /\ RequestSteps("snapshot", n) = 2 * n + 2
BY DEF RequestSteps

LEMMA CollectionGoesOn == CollectorStep => CollectionLeft' < CollectionLeft
<1> SUFFICES ASSUME CollectorStep PROVE CollectionLeft' < CollectionLeft
  OBVIOUS
<1> DEFINE From(l, m) == cpc = l /\ cpc' = m
<1>1. CASE SkipConfig \/ LoadConfig \/ LoadAdvance
  <2>1. From("load", "write") \/ From("load", "loaded") \/ From("loaded", "write")
    <3>1. SkipConfig => From("load", "write")
      BY DEF SkipConfig
    <3>2. LoadConfig => From("load", "write") \/ From("load", "loaded")
      BY DEF LoadConfig
    <3>3. LoadAdvance => From("loaded", "write")
      BY DEF LoadAdvance
    <3>4. QED
      BY <1>1, <3>1, <3>2, <3>3
  <2>2. QED
    BY <2>1, CollectionStepsOf DEF CollectionLeft
<1>2. CASE WriteOpen \/ WriteClose \/ WriteFails
  <2>1. \/ From("write", "writing") \/ From("writing", "stamp")
        \/ From("write", "idle") \/ From("writing", "idle")
    BY <1>2 DEF WriteOpen, WriteClose, WriteFails
  <2>2. QED
    BY <2>1, CollectionStepsOf DEF CollectionLeft
<1>3. CASE Stamp \/ Store \/ Advance \/ WrapAround
  <2>1. \/ From("stamp", "store") \/ From("store", "advance")
        \/ From("advance", "wrap") \/ From("wrap", "idle")
    BY <1>3 DEF Stamp, Store, Advance, WrapAround
  <2>2. QED
    BY <2>1, CollectionStepsOf DEF CollectionLeft
<1>4. QED
  BY <1>1, <1>2, <1>3 DEF CollectorStep

LEMMA RequestGoesOn ==
    Typed /\ Typed' /\ ServiceStep => RequestLeft' < RequestLeft
<1> SUFFICES ASSUME Typed, Typed', ServiceStep PROVE RequestLeft' < RequestLeft
  OBVIOUS
<1>1. fetch \in Fetch /\ fetch' \in Fetch /\ fetch.limit \in Nat /\ fetch'.limit \in Nat
  BY DEF Typed, TaskTypeOK, Fetch
<1>2. spc \in {"read", "send"} => fetch.limit # 0
  BY DEF Typed, Progress
<1> DEFINE n == fetch.limit
           m == fetch'.limit
<1>3. CASE SetMaxGrow \/ SetMaxReset \/ SetMaxCleanup
  <2>1. \/ spc \in {"set", "cleanup"} /\ spc' = "idle"
        \/ spc = "set" /\ spc' = "cleanup"
    BY <1>3 DEF SetMaxGrow, SetMaxReset, SetMaxCleanup
  <2>2. QED
    BY <2>1, RequestStepsOf DEF RequestLeft
<1>4. CASE Snapshot
  <2>1. m = n
    BY <1>1, <1>4 DEF Snapshot, Fetch
  <2>2. QED
    BY <1>1, <1>4, <2>1, RequestStepsOf DEF Snapshot, RequestLeft
<1>5. CASE Resolve
  <2>1. m <= n
    BY <1>1, <1>5 DEF Resolve, Fetch, Slots
  <2>2. QED
    BY <1>1, <1>5, <2>1, RequestStepsOf DEF Resolve, RequestLeft
<1>6. CASE ReadHk
  <2>1. m = n /\ spc = "read" /\ spc' = "send"
    BY <1>1, <1>6 DEF ReadHk, Fetch
  <2>2. QED
    BY <1>1, <2>1, RequestStepsOf DEF RequestLeft
<1>7. CASE ReadCreates \/ ReadWithoutHandles
  <2>1. spc = "read" /\ spc' \in {"unlink", "idle"}
    BY <1>7 DEF ReadCreates, ReadWithoutHandles
  <2>2. QED
    BY <1>1, <1>2, <2>1, RequestStepsOf DEF RequestLeft
<1>8. CASE ReadUnlinks
  BY <1>8, RequestStepsOf DEF ReadUnlinks, RequestLeft
<1>9. CASE Send
  <2>1. m = n - 1 /\ spc = "send" /\ spc' \in {"idle", "read"}
    BY <1>1, <1>9 DEF Send, Fetch
  <2>2. QED
    BY <1>1, <1>2, <2>1, RequestStepsOf DEF RequestLeft
<1>10. CASE SendFails
  BY <1>1, <1>2, <1>10, RequestStepsOf DEF SendFails, RequestLeft
<1>11. QED
  BY <1>3, <1>4, <1>5, <1>6, <1>7, <1>8, <1>9, <1>10 DEF ServiceStep

\* What is not a step of the task itself.
LEMMA TasksKept ==
    [Next]_vars =>
        /\ CollectorStep \/ cpc = "idle" \/ cpc' \in {cpc, "idle"}
        /\ ServiceStep \/ spc = "idle" \/ spc' = "idle" \/ (spc' = spc /\ fetch' = fetch)
<1> SUFFICES ASSUME [Next]_vars
             PROVE  /\ CollectorStep \/ cpc = "idle" \/ cpc' \in {cpc, "idle"}
                    /\ \/ ServiceStep \/ spc = "idle" \/ spc' = "idle"
                       \/ spc' = spc /\ fetch' = fetch
  OBVIOUS
<1>1. CASE (\E t \in Task : LockStep(t)) \/ HandlesRunOut \/ UNCHANGED vars
  BY <1>1 DEF LockStep, HandlesRunOut, vars, taskVars
<1>2. CASE Collect \/ Crash
  BY <1>2 DEF Collect, Crash
<1>3. CASE \/ \E n \in Resizes : RecvSetMax(n)
           \/ \E l \in Limits, b \in 0..HardMax, bytime \in BOOLEAN : RecvGetHk(l, b, bytime)
  BY <1>3, ZenonT(60) DEF RecvSetMax, RecvGetHk
<1>4. CASE CollectorStep
  BY <1>4 DEF CollectorStep, SkipConfig, LoadConfig, LoadAdvance, WriteOpen, WriteClose,
     WriteFails, Stamp, Store, Advance, WrapAround
<1>5. CASE ServiceStep
  BY <1>5, ZenonT(60) DEF ServiceStep, SetMaxGrow, SetMaxReset, SetMaxCleanup, Snapshot, Resolve,
     ReadHk, ReadCreates, ReadUnlinks, ReadWithoutHandles, Send, SendFails
<1>6. QED
  BY <1>1, <1>2, <1>3, <1>4, <1>5 DEF Next

StepsCounted == CollectionLeft \in Nat /\ RequestLeft \in Nat

LEMMA StepsAreNat == Typed => StepsCounted
<1> SUFFICES ASSUME Typed PROVE StepsCounted
  OBVIOUS
<1>1. CollectionLeft \in Nat
  BY CollectionStepsOf DEF CollectionLeft, Typed, TaskTypeOK, CollectorPc
<1>2. fetch.limit \in Nat /\ (spc = "send" => fetch.limit # 0)
  BY DEF Typed, TaskTypeOK, Fetch, Progress
<1>3. RequestLeft \in Nat
  BY <1>2, RequestStepsOf DEF RequestLeft, Typed, TaskTypeOK, ServicePc
<1>4. QED
  BY <1>1, <1>3 DEF StepsCounted

(***************************************************************************)
(* A collection takes at most eight steps of its own, and a GET_HK two for *)
(* each packet and two more, whatever the other task does meanwhile.       *)
(***************************************************************************)
THEOREM TasksComeToAnEnd == Spec => TasksRunOut
<1> DEFINE RunOut ==
      /\ cpc # "idle" => /\ CollectionLeft' <= CollectionLeft
                         /\ CollectorStep => CollectionLeft' < CollectionLeft
      /\ spc # "idle" => /\ RequestLeft' <= RequestLeft
                         /\ ServiceStep => RequestLeft' < RequestLeft
<1>1. Typed /\ [Next]_vars => [RunOut]_vars
  <2> SUFFICES ASSUME Typed, [Next]_vars PROVE RunOut
    OBVIOUS
  <2>1. Typed'
    BY TypedStep
  <2>2. CollectionLeft \in Nat /\ RequestLeft \in Nat
    BY StepsAreNat DEF StepsCounted
  <2>3. CollectionLeft' \in Nat /\ RequestLeft' \in Nat
    <3>1. StepsCounted'
      BY <2>1, StepsAreNat, PTL
    <3>2. QED
      BY <3>1 DEF StepsCounted
  <2>4. CollectionLeft' < CollectionLeft \/ ~CollectorStep
    BY CollectionGoesOn
  <2>5. RequestLeft' < RequestLeft \/ ~ServiceStep
    BY <2>1, RequestGoesOn
  <2>6. ASSUME cpc # "idle" PROVE CollectionLeft' <= CollectionLeft
    <3>1. CASE CollectorStep
      BY <2>2, <2>3, <2>4, <3>1
    <3>2. CASE cpc' = cpc
      BY <2>2, <3>2 DEF CollectionLeft
    <3>3. CASE cpc' = "idle"
      BY <2>2, <3>3, CollectionStepsOf DEF CollectionLeft
    <3>4. QED
      BY <2>6, <3>1, <3>2, <3>3, TasksKept
  <2>7. ASSUME spc # "idle" PROVE RequestLeft' <= RequestLeft
    <3>1. CASE ServiceStep
      BY <2>2, <2>3, <2>5, <3>1
    <3>2. CASE spc' = spc /\ fetch' = fetch
      BY <2>2, <3>2 DEF RequestLeft
    <3>3. CASE spc' = "idle"
      BY <2>2, <3>3, RequestStepsOf DEF RequestLeft
    <3>4. QED
      BY <2>7, <3>1, <3>2, <3>3, TasksKept
  <2>8. QED
    BY <2>4, <2>5, <2>6, <2>7
<1>2. QED
  BY <1>1, TypedInit, TypedStep, PTL DEF Spec, TasksRunOut
=============================================================================
