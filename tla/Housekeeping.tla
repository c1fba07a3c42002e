---------------------------- MODULE Housekeeping ----------------------------
(***************************************************************************)
(* The housekeeping service: the task that collects a record every         *)
(* interval (populate_and_store_hk_data), the service task that answers    *)
(* GET_HK and SET_MAX_FILES, their lock, and crashes.                      *)
(*                                                                         *)
(* What holds the lock runs in steps, one per file written or shared       *)
(* variable that a task without the lock reads; GET_HK resolves its start  *)
(* and reads the ring outside the lock, as the code does.                  *)
(*                                                                         *)
(* Not here: the contents of a record, the packets (csp_send may fail, no  *)
(* more), GET_MAX_FILES, which changes nothing, and SET_MAX_FILES with a   *)
(* value set_max_files refuses.                                            *)
(***************************************************************************)
EXTENDS HkLock, HkStore

CONSTANTS
    Collector, Service,     \* the two tasks
    MaxRecords,             \* bound: records collected
    MaxRequests,            \* bound: GET_HK and SET_MAX_FILES requests
    MaxCrashes,             \* bound: crashes
    Limits,                 \* the values of "limit" a GET_HK may carry in this run
    Resizes,                \* the values a SET_MAX_FILES may carry in this run
    WritesMayFail,          \* may red_write report an error?
    HandlesMayRunOut        \* may the other services use up the file handles?

ASSUME TaskAssumption == Collector # Service /\ Task = {Collector, Service}
ASSUME BoundAssumption == /\ MaxRecords \in Nat /\ MaxRequests \in Nat /\ MaxCrashes \in Nat
                          /\ Limits \subseteq Nat /\ Resizes \subseteq 1..HardMax
                          /\ WritesMayFail \in BOOLEAN /\ HandlesMayRunOut \in BOOLEAN

VARIABLES
    cpc,             \* where the collector is
    collected,       \* number of the latest record collected (temp_hk_data)
    spc,             \* where the service task is
    new_max,         \* the argument of set_max_files
    fetch,           \* the locals of fetch_historic_hk_and_transmit
    requests,        \* requests received so far
    crashes,         \* crashes so far
    committed,       \* history: the records whose store_config is done, oldest first
    mishaps          \* history: what happened that a property may have to excuse

taskVars == <<cpc, collected, spc, new_max, fetch>>
histVars == <<requests, crashes, committed, mishaps>>
vars == <<lockVars, storeVars, taskVars, histVars>>

CollectorPc == {"idle", "load", "loaded", "write", "writing", "stamp", "store", "advance", "wrap"}
ServicePc == {"idle", "set", "cleanup", "snapshot", "resolve", "read", "unlink", "send"}

\* limit and before: limit, locked_before_id; max: locked_max; buf: all_hk_data.
\* loaded: was the config loaded when the lock was taken?  done: packets sent.
\* base: position in "committed" of the first record to send, -1 if it has none.
\* final: the flag in the last packet sent.
Fetch == [limit : Nat, before : Nat, bytime : BOOLEAN, max : Slots, buf : Item,
          loaded : BOOLEAN, done : Nat, base : Int, final : BOOLEAN]
NoFetch == [limit |-> 0, before |-> 0, bytime |-> FALSE, max |-> HardMax, buf |-> 0,
            loaded |-> FALSE, done |-> 0, base |-> -1, final |-> FALSE]

Mishaps == {"race", "nohandles", "nomemory", "shrink", "staleload", "grow", "growfull",
            "stray", "emptyconfig"}

TypeOK ==
    /\ LockTypeOK
    /\ StoreTypeOK
    /\ cpc \in CollectorPc
    /\ spc \in ServicePc
    /\ collected \in 0..MaxRecords
    /\ new_max \in Slots
    /\ fetch \in Fetch
    /\ requests \in 0..MaxRequests
    /\ crashes \in 0..MaxCrashes
    /\ committed \in Seq(1..MaxRecords)
    /\ mishaps \subseteq Mishaps

Init ==
    /\ LockInit
    /\ StoreInit
    /\ cpc = "idle"
    /\ spc = "idle"
    /\ new_max = HardMax
    /\ fetch = NoFetch
    /\ collected = 0
    /\ requests = 0
    /\ crashes = 0
    /\ committed = <<>>
    /\ mishaps = {}

Holds(t) == lpc[t] = "in"

Note(m) == mishaps' = mishaps \cup m
Fault(f) == faults' = faults \cup f

-----------------------------------------------------------------------------
(***************************************************************************)
(* The lock                                                                *)
(***************************************************************************)
LockStep(t) ==
    /\ GetLockStep(t)
    /\ Note(IF f_count_lock' > 1 THEN {"race"} ELSE {})
    /\ UNCHANGED <<storeVars, taskVars, requests, crashes, committed>>

-----------------------------------------------------------------------------
(***************************************************************************)
(* populate_and_store_hk_data                                              *)
(***************************************************************************)

\* collect_hk_from_devices, then prv_get_lock.
Collect ==
    /\ cpc = "idle"
    /\ collected < MaxRecords
    /\ collected' = collected + 1
    /\ cpc' = "load"
    /\ WantLock(Collector)
    /\ UNCHANGED <<storeVars, spc, new_max, fetch, histVars>>

\* config_loaded is set already, or load_config fails: there is no config file,
\* or no handle to open it with, and then exists() has unlinked it.
SkipConfig ==
    /\ cpc = "load" /\ Holds(Collector)
    /\ config_loaded \/ cfgfile.state = "absent" \/ noHandles
    /\ cfgfile' = IF ~config_loaded /\ noHandles THEN NoConfig ELSE cfgfile
    /\ config_loaded' = TRUE
    /\ cpc' = "write"
    /\ UNCHANGED <<lockVars, MAX_FILES, current_file, timestamps, hkfile, noHandles, faults,
                   collected, spc, new_max, fetch, histVars>>

\* load_config up to its red_close; without memory for the index it returns
\* before current_file moves on.
LoadConfig ==
    /\ cpc = "load" /\ Holds(Collector)
    /\ ~config_loaded /\ cfgfile.state # "absent" /\ ~noHandles
    /\ MAX_FILES' = ConfigMax
    /\ current_file' = ConfigCur
    /\ \E o \in HandlerOutcomes(ConfigMax) :
        /\ timestamps' = IF o.ok THEN LoadedIndex(o.index) ELSE timestamps
        /\ config_loaded' = ~o.ok
        /\ cpc' = IF o.ok THEN "loaded" ELSE "write"
        /\ Fault(HandlerFaults(ConfigMax, o))
        /\ Note((IF o.ok THEN {} ELSE {"nomemory"})
                \cup (IF "shrink" \in mishaps THEN {"staleload"} ELSE {}))
    /\ UNCHANGED <<lockVars, hkfile, cfgfile, noHandles,
                   collected, spc, new_max, fetch, requests, crashes, committed>>

\* A mutated form of LoadAdvance: the slot loaded is not stepped over.
MutLoadStays ==
    /\ cpc = "loaded"
    /\ config_loaded' = TRUE
    /\ cpc' = "write"
    /\ UNCHANGED <<lockVars, MAX_FILES, current_file, timestamps, diskVars, noHandles, faults,
                   collected, spc, new_max, fetch, histVars>>

\* The end of load_config: the next slot.
LoadAdvance ==
    /\ cpc = "loaded"
    /\ current_file' = Wrap(current_file + 1, MAX_FILES)
    /\ config_loaded' = TRUE
    /\ cpc' = "write"
    /\ UNCHANGED <<lockVars, MAX_FILES, timestamps, diskVars, noHandles, faults,
                   collected, spc, new_max, fetch, histVars>>

\* write_hk_to_file: the file is open and the slot is being written.
WriteOpen ==
    /\ cpc = "write" /\ ~noHandles
    /\ hkfile' = [there |-> TRUE, slot |-> [hkfile.slot EXCEPT ![current_file] = Garbage]]
    /\ cpc' = "writing"
    /\ UNCHANGED <<lockVars, ramVars, cfgfile, noHandles, faults,
                   collected, spc, new_max, fetch, histVars>>

\* The slot is written and the file closed, unless it was unlinked meanwhile.
WriteClose ==
    /\ cpc = "writing"
    /\ hkfile' = IF hkfile.there THEN [hkfile EXCEPT !.slot[current_file] = collected] ELSE hkfile
    /\ cpc' = "stamp"
    /\ UNCHANGED <<lockVars, ramVars, cfgfile, noHandles, faults,
                   collected, spc, new_max, fetch, histVars>>

\* A mutated form of WriteFails: the early return keeps the lock.
MutWriteFailsKeeps ==
    /\ \/ cpc = "write" /\ noHandles
       \/ cpc = "writing" /\ WritesMayFail
    /\ cpc' = "idle"
    /\ UNCHANGED <<lockVars, storeVars, collected, spc, new_max, fetch, histVars>>

\* red_open or a red_write failed: "Housekeeping data lost", unlock, return.
WriteFails ==
    /\ \/ cpc = "write" /\ noHandles
       \/ cpc = "writing" /\ WritesMayFail
    /\ cpc' = "idle"
    /\ GiveLock(Collector)
    /\ UNCHANGED <<storeVars, collected, spc, new_max, fetch, histVars>>

\* dynamic_timestamp_array_handler(MAX_FILES), then timestamps[current_file] = ...
Stamp ==
    /\ cpc = "stamp"
    /\ \E o \in HandlerOutcomes(MAX_FILES) :
        /\ timestamps' = IF o.ok THEN [o.index EXCEPT !.item[current_file] = collected]
                         ELSE timestamps
        /\ Fault(HandlerFaults(MAX_FILES, o))
        /\ Note(IF o.ok THEN {} ELSE {"nomemory"})
    /\ cpc' = "store"
    /\ UNCHANGED <<lockVars, MAX_FILES, current_file, config_loaded, diskVars, noHandles,
                   collected, spc, new_max, fetch, requests, crashes, committed>>

\* store_config(0); its result is ignored.
Store ==
    /\ cpc = "store"
    /\ cfgfile' = StoredConfig(FALSE, timestamps)
    /\ Fault(StoreFaults(FALSE, timestamps))
    /\ committed' = IF noHandles THEN committed ELSE Append(committed, collected)
    /\ cpc' = "advance"
    /\ UNCHANGED <<lockVars, ramVars, hkfile, noHandles,
                   collected, spc, new_max, fetch, requests, crashes, mishaps>>

\* ++current_file
Advance ==
    /\ cpc = "advance"
    /\ current_file' = current_file + 1
    /\ cpc' = "wrap"
    /\ UNCHANGED <<lockVars, MAX_FILES, config_loaded, timestamps, diskVars, noHandles, faults,
                   collected, spc, new_max, fetch, histVars>>

\* if (current_file > MAX_FILES) current_file = 1, unlock
WrapAround ==
    /\ cpc = "wrap"
    /\ current_file' = Wrap(current_file, MAX_FILES)
    /\ cpc' = "idle"
    /\ GiveLock(Collector)
    /\ UNCHANGED <<MAX_FILES, config_loaded, timestamps, diskVars, noHandles, faults,
                   collected, spc, new_max, fetch, histVars>>

CollectorStep ==
    \/ SkipConfig \/ LoadConfig \/ LoadAdvance
    \/ WriteOpen \/ WriteClose \/ WriteFails
    \/ Stamp \/ Store \/ Advance \/ WrapAround

-----------------------------------------------------------------------------
(***************************************************************************)
(* set_max_files                                                           *)
(***************************************************************************)
RecvSetMax(n) ==
    /\ spc = "idle"
    /\ requests < MaxRequests
    /\ requests' = requests + 1
    /\ new_max' = n
    /\ spc' = "set"
    /\ WantLock(Service)
    /\ UNCHANGED <<storeVars, cpc, collected, fetch, crashes, committed, mishaps>>

\* Growing: the result of the array handler is ignored.
SetMaxGrow ==
    /\ spc = "set" /\ Holds(Service)
    /\ MAX_FILES < new_max
    /\ MAX_FILES' = new_max
    /\ \E o \in HandlerOutcomes(new_max) :
        /\ timestamps' = o.index
        /\ Fault(HandlerFaults(new_max, o))
        /\ Note({"grow"} \cup (IF o.ok THEN {} ELSE {"nomemory"})
                \cup (IF Len(committed) >= current_file THEN {"growfull"} ELSE {}))
    /\ spc' = "idle"
    /\ GiveLock(Service)
    /\ UNCHANGED <<current_file, config_loaded, diskVars, noHandles,
                   cpc, collected, new_max, fetch, requests, crashes, committed>>

\* A mutated form of SetMaxReset: current_file is not reset.
MutResetKeepsCursor ==
    /\ spc = "set" /\ Holds(Service)
    /\ new_max <= MAX_FILES
    /\ MAX_FILES' = new_max
    /\ hkfile' = NoHkFile
    /\ committed' = <<>>
    /\ Note({"shrink"})
    /\ spc' = "cleanup"
    /\ UNCHANGED <<lockVars, current_file, config_loaded, timestamps, cfgfile, noHandles, faults,
                   cpc, collected, new_max, fetch, requests, crashes>>

\* Not growing: every stored record is given up, and the file unlinked.
\* (Out of handles, exists() unlinks it itself.)
SetMaxReset ==
    /\ spc = "set" /\ Holds(Service)
    /\ new_max <= MAX_FILES
    /\ MAX_FILES' = new_max
    /\ current_file' = 1
    /\ hkfile' = NoHkFile
    /\ committed' = <<>>
    /\ Note({"shrink"})
    /\ spc' = "cleanup"
    /\ UNCHANGED <<lockVars, config_loaded, timestamps, cfgfile, noHandles, faults,
                   cpc, collected, new_max, fetch, requests, crashes>>

\* dynamic_timestamp_array_handler(0), then store_config(1), which writes from
\* the pointer just freed.
SetMaxCleanup ==
    /\ spc = "cleanup"
    /\ \E o \in HandlerOutcomes(0) :
        /\ timestamps' = o.index
        /\ cfgfile' = StoredConfig(TRUE, o.index)
        /\ Fault(HandlerFaults(0, o) \cup StoreFaults(TRUE, o.index))
    /\ spc' = "idle"
    /\ GiveLock(Service)
    /\ UNCHANGED <<MAX_FILES, current_file, config_loaded, hkfile, noHandles,
                   cpc, collected, new_max, fetch, histVars>>

-----------------------------------------------------------------------------
(***************************************************************************)
(* fetch_historic_hk_and_transmit                                          *)
(***************************************************************************)
RecvGetHk(limit, before, bytime) ==
    /\ spc = "idle"
    /\ requests < MaxRequests
    /\ requests' = requests + 1
    /\ fetch' = [NoFetch EXCEPT !.limit = limit, !.before = before, !.bytime = bytime]
    /\ spc' = "snapshot"
    /\ WantLock(Service)
    /\ UNCHANGED <<storeVars, cpc, collected, new_max, crashes, committed, mishaps>>

\* A mutated form of Snapshot: the lock is not given back.
MutSnapshotKeepsLock ==
    /\ spc = "snapshot" /\ Holds(Service)
    /\ \E b \in (IF fetch.bytime THEN SearchResults ELSE {fetch.before}) :
           fetch' = [fetch EXCEPT !.max = MAX_FILES, !.before = b, !.loaded = config_loaded]
    /\ Fault(IF fetch.bytime THEN SearchFaults ELSE {})
    /\ spc' = "resolve"
    /\ UNCHANGED <<lockVars, ramVars, diskVars, noHandles, cpc, collected, new_max, histVars>>

\* Under the lock: MAX_FILES, and the search if the request carries a time.
Snapshot ==
    /\ spc = "snapshot" /\ Holds(Service)
    /\ \E b \in (IF fetch.bytime THEN SearchResults ELSE {fetch.before}) :
           fetch' = [fetch EXCEPT !.max = MAX_FILES, !.before = b, !.loaded = config_loaded]
    /\ Fault(IF fetch.bytime THEN SearchFaults ELSE {})
    /\ spc' = "resolve"
    /\ GiveLock(Service)
    /\ UNCHANGED <<ramVars, diskVars, noHandles, cpc, collected, new_max, histVars>>

\* The position in "committed" of the record older than the one in slot p.
BaseBefore(p) ==
    LET at == {k \in 1..Len(committed) : p \in Slots /\ committed[k] = hkfile.slot[p]}
    IN  IF at = {} THEN -1 ELSE (CHOOSE k \in at : TRUE) - 1

\* Between its store_config and ++current_file the collector's record is
\* committed, but current_file does not count it yet.
BaseNewest == IF cpc = "advance" THEN Len(committed) - 1 ELSE Len(committed)

\* Without the lock: where to start, and the limit.
Resolve ==
    /\ spc = "resolve"
    /\ LET newest == fetch.before = 0 \/ fetch.before > fetch.max
       IN  fetch' = [fetch EXCEPT
                       !.before = IF newest THEN current_file ELSE fetch.before,
                       !.base   = IF newest THEN BaseNewest ELSE BaseBefore(fetch.before),
                       !.limit  = IF fetch.limit > fetch.max THEN fetch.max ELSE fetch.limit]
    /\ spc' = IF fetch.limit = 0 THEN "idle" ELSE "read"
    /\ UNCHANGED <<lockVars, storeVars, cpc, collected, new_max, histVars>>

\* A mutated form of Older: round to a slot that is not there.
MutOlderRoundsHigh == IF fetch.before = 1 THEN fetch.max + 1 ELSE fetch.before - 1

\* locked_before_id--, and round at 0
Older == IF fetch.before = 1 THEN fetch.max ELSE fetch.before - 1

\* A mutated form of ReadHk: the slot is read before the step back.
MutReadThenStep ==
    /\ spc = "read"
    /\ hkfile.there /\ ~noHandles
    /\ fetch' = [fetch EXCEPT !.before = Older, !.buf = ReadRecord(fetch.before, fetch.buf)]
    /\ spc' = "send"
    /\ UNCHANGED <<lockVars, storeVars, cpc, collected, new_max, histVars>>

\* load_historic_hk_data finds the file.
ReadHk ==
    /\ spc = "read"
    /\ hkfile.there /\ ~noHandles
    /\ fetch' = [fetch EXCEPT !.before = Older, !.buf = ReadRecord(Older, fetch.buf)]
    /\ spc' = "send"
    /\ UNCHANGED <<lockVars, storeVars, cpc, collected, new_max, histVars>>

\* There is no file: exists() has just created it and is about to unlink it.
ReadCreates ==
    /\ spc = "read"
    /\ ~hkfile.there /\ ~noHandles
    /\ hkfile' = [NoHkFile EXCEPT !.there = TRUE]
    /\ fetch' = [fetch EXCEPT !.before = Older]
    /\ spc' = "unlink"
    /\ UNCHANGED <<lockVars, ramVars, cfgfile, noHandles, faults,
                   cpc, collected, new_max, histVars>>

\* exists() unlinks the path, whatever is in the file by now; whether the volume
\* refuses that while the collector has the file open is its configuration.
ReadUnlinks ==
    /\ spc = "unlink"
    /\ hkfile' \in {NoHkFile} \cup (IF cpc = "writing" THEN {hkfile} ELSE {})
    /\ Note(IF hkfile # [NoHkFile EXCEPT !.there = TRUE] THEN {"stray"} ELSE {})
    /\ spc' = "idle"
    /\ UNCHANGED <<lockVars, ramVars, cfgfile, noHandles, faults,
                   cpc, collected, new_max, fetch, requests, crashes, committed>>

\* Out of handles, exists() takes the failed red_open for an absent file.
ReadWithoutHandles ==
    /\ spc = "read"
    /\ noHandles
    /\ hkfile' = NoHkFile
    /\ spc' = "idle"
    /\ UNCHANGED <<lockVars, ramVars, cfgfile, noHandles, faults,
                   cpc, collected, new_max, fetch, histVars>>

\* The packet goes out.  hk_timeorder.final is set on all but the last; there
\* it is what the file holds, a byte nobody initialised.
Send ==
    /\ spc = "send"
    /\ \E final \in IF fetch.limit > 1 THEN {TRUE} ELSE BOOLEAN :
           fetch' = [fetch EXCEPT !.limit = fetch.limit - 1, !.done = fetch.done + 1,
                                  !.final = final]
    /\ spc' = IF fetch.limit = 1 THEN "idle" ELSE "read"
    /\ UNCHANGED <<lockVars, storeVars, cpc, collected, new_max, histVars>>

\* A mutated form of SendFails: the packet is tried again, and again.
MutSendRetries ==
    /\ spc = "send"
    /\ spc' = "read"
    /\ UNCHANGED <<lockVars, storeVars, cpc, collected, new_max, fetch, histVars>>

\* csp_send fails.
SendFails ==
    /\ spc = "send"
    /\ spc' = "idle"
    /\ UNCHANGED <<lockVars, storeVars, cpc, collected, new_max, fetch, histVars>>

ServiceStep ==
    \/ SetMaxGrow \/ SetMaxReset \/ SetMaxCleanup
    \/ Snapshot \/ Resolve
    \/ ReadHk \/ ReadCreates \/ ReadUnlinks \/ ReadWithoutHandles
    \/ Send \/ SendFails

-----------------------------------------------------------------------------
(***************************************************************************)
(* The environment                                                         *)
(***************************************************************************)

\* Other services keep files open until red_open has no handle left to give
\* (get_file of the logger never closes what it opens; nor does load_config when the
\* allocation fails).
HandlesRunOut ==
    /\ HandlesMayRunOut
    /\ ~noHandles
    /\ noHandles' = TRUE
    /\ Note({"nohandles"})
    /\ UNCHANGED <<lockVars, ramVars, diskVars, faults, taskVars, requests, crashes, committed>>

\* Reset: RAM is lost.  While the config file is first being created (exists()
\* creates it and unlinks it, then store_config creates it again) a crash may
\* leave it empty.
Crash ==
    /\ crashes < MaxCrashes
    /\ crashes' = crashes + 1
    /\ ResetLock
    /\ ResetRam
    /\ cpc' = "idle" /\ spc' = "idle" /\ new_max' = HardMax /\ fetch' = NoFetch
    /\ LET creating == /\ cfgfile.state = "absent"
                       /\ \/ cpc \in {"load", "store"} /\ Holds(Collector)
                          \/ spc = "cleanup"
       IN  \/ UNCHANGED <<cfgfile, mishaps>>
           \/ creating /\ cfgfile' = [NoConfig EXCEPT !.state = "empty"] /\ Note({"emptyconfig"})
    /\ UNCHANGED <<hkfile, faults, collected, requests, committed>>

Next ==
    \/ \E t \in Task : LockStep(t)
    \/ Collect \/ CollectorStep
    \/ \E n \in Resizes : RecvSetMax(n)
    \/ \E l \in Limits, b \in 0..HardMax, bytime \in BOOLEAN : RecvGetHk(l, b, bytime)
    \/ ServiceStep
    \/ HandlesRunOut \/ Crash

Spec == Init /\ [][Next]_vars

(***************************************************************************)
(* The tasks are scheduled; a blocked xSemaphoreTake is readied by every   *)
(* give.  Requests, intervals, crashes and leaks need not happen.          *)
(***************************************************************************)
Fairness ==
    /\ WF_vars(CollectorStep)
    /\ WF_vars(ServiceStep)
    /\ \A t \in Task : /\ WF_vars(LockStep(t) /\ lpc[t] # "wait")
                       /\ SF_vars(LockStep(t) /\ lpc[t] = "wait")

FairSpec == Spec /\ Fairness

-----------------------------------------------------------------------------
(***************************************************************************)
(* Safety                                                                  *)
(***************************************************************************)

\* The slot the next record will be written to, and the size of the ring, also
\* while they are only on disk and while the collector is moving current_file.
NextSlot ==
    CASE ~config_loaded /\ cfgfile.state # "absent" -> Wrap(ConfigCur + 1, ConfigMax)
      [] config_loaded /\ cpc = "advance" -> Wrap(current_file + 1, MAX_FILES)
      [] OTHER -> Wrap(current_file, MAX_FILES)
RingMax == IF config_loaded THEN MAX_FILES ELSE ConfigMax

\* The slot k places before the next one.
Behind(k) == ((NextSlot - 1 - k) % RingMax) + 1

\* What these properties cannot survive in the code as it is; the README says
\* why of each.
BreaksRing == {"race", "nohandles", "stray", "nomemory", "growfull"}
BreaksIndex == BreaksRing \cup {"staleload", "grow", "emptyconfig"}

(***************************************************************************)
(* The ring of records survives crashes at any point: walking back from    *)
(* the next slot one finds the records committed (store_config done),      *)
(* newest first, all that fit beside the slot being written.  A reset by   *)
(* set_max_files empties the history and the ring together.                *)
(***************************************************************************)
RingOrder ==
    mishaps \cap BreaksRing = {} =>
        \A k \in 1..Len(committed) :
            k < RingMax => hkfile.slot[Behind(k)] = committed[Len(committed) + 1 - k]

\* The records a walk back from the next slot finds in the file, newest first.
Kept == [k \in 1..(IF Len(committed) < RingMax THEN Len(committed) ELSE RingMax - 1) |->
            hkfile.slot[Behind(k)]]

(***************************************************************************)
(* The file, its cursor and the config file together are a log of the      *)
(* newest records: each store_config adds one, at the price of the oldest  *)
(* once the ring is full, and nothing but a SET_MAX_FILES that does not    *)
(* grow the ring takes one away, a crash at any step included.             *)
(***************************************************************************)
Log == INSTANCE RecordLog WITH Record <- 1..MaxRecords, kept <- Kept, size <- RingMax,
                               resetting <- spc = "set",
                               broken <- mishaps \cap BreaksRing # {}
ImplementsLog == Log!Spec

(***************************************************************************)
(* The index says of every slot but the current one which record the file  *)
(* has there, through write errors, crashes and reloading: a search by     *)
(* time leads to the record it found.  (Not while set_max_files, with the  *)
(* lock, has unlinked the file and is about to free the index.)            *)
(***************************************************************************)
IndexMatches ==
    /\ mishaps \cap BreaksIndex = {}
    /\ config_loaded /\ timestamps.block = "live"
    /\ spc # "cleanup"
    =>
        \A i \in 1..timestamps.size :
            i # current_file => timestamps.item[i] = hkfile.slot[i]

(***************************************************************************)
(* current_file leaves the ring only between ++current_file and its test,  *)
(* and then by one, whatever MAX_FILES becomes meanwhile.                  *)
(***************************************************************************)
CursorInRing ==
    "race" \notin mishaps =>
        \/ current_file \in 1..MAX_FILES
        \/ cpc = "wrap" /\ current_file = MAX_FILES + 1

(***************************************************************************)
(* Until memory runs out or set_max_files frees it, the index is never     *)
(* touched outside its block: not by the search, the stamp or the config.  *)
(***************************************************************************)
IndexMemorySafe == mishaps \cap {"race", "shrink", "nomemory"} = {} => faults = {}

\* committed[j] is one of the records that RingOrder keeps.
Retained(j) == j \in 1..Len(committed) /\ j > Len(committed) + 1 - MAX_FILES

(***************************************************************************)
(* GET_HK pages without drift: the packets of one request carry the        *)
(* records before its start one by one, newest first, although the start   *)
(* and the slots are read without the lock while the collector writes.     *)
(***************************************************************************)
FetchPagesBack ==
    [][/\ spc = "read" /\ spc' = "send" /\ mishaps \cap BreaksRing = {}
       /\ fetch.loaded
       /\ Retained(fetch.base - fetch.done)
       => fetch'.buf = committed[fetch.base - fetch.done]]_vars

(***************************************************************************)
(* Every slot a GET_HK reads is a slot of the ring, also when current_file *)
(* was read in the middle of its increment.                                *)
(***************************************************************************)
FetchStaysInRing ==
    "race" \notin mishaps /\ spc = "send" /\ fetch.loaded => fetch.before \in 1..MAX_FILES

\* The calls of prv_get_lock by the service, up to the give; the collector has the lock,
\* or waits for it, all through a collection.
Locking == {"set", "cleanup", "snapshot"}

AtWork(t) == IF t = Collector THEN cpc # "idle" ELSE spc \in Locking

(***************************************************************************)
(* Without a race nobody waits for a mutex that nobody will give: whoever  *)
(* is kept out is kept out by the other task, which is in its critical     *)
(* section; and when no task is in one the mutex is free.  Every return of *)
(* a section gives it back, also those in its middle.                      *)
(***************************************************************************)
LockComesBack ==
    "race" \notin mishaps =>
        /\ \A t \in Task : lpc[t] = "wait" /\ handle[t] \in taken =>
              \E u \in Task \ {t} : Holds(u) /\ AtWork(u)
        /\ (\A t \in Task : ~AtWork(t)) => taken = {} /\ \A t \in Task : lpc[t] = "out"

-----------------------------------------------------------------------------
(***************************************************************************)
(* Liveness: a request and a collection that have started come to an end,  *)
(* whatever fails in between.                                              *)
(***************************************************************************)
RequestsEnd == spc # "idle" ~> spc = "idle"
CollectionsEnd == cpc # "idle" ~> cpc = "idle"

-----------------------------------------------------------------------------
(***************************************************************************)
(* What a comment of the source says, and the code does not do.            *)
(***************************************************************************)

(***************************************************************************)
(* dynamic_timestamp_array_handler: "Handles malloc, realloc, and free for *)
(* array holding hk timestamps": a block is freed once.                    *)
(***************************************************************************)
IndexFreedOnce == "doublefree" \notin faults
=============================================================================
