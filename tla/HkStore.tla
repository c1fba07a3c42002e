------------------------------ MODULE HkStore ------------------------------
(***************************************************************************)
(* What the housekeeping service keeps, in RAM and on the VOL0: volume,    *)
(* and the operations on it that its tasks are built from                  *)
(* (housekeeping_service.c).                                               *)
(*                                                                         *)
(* A housekeeping record is a positive number, the order of collection; it *)
(* also stands for the record's UNIXtimestamp in the index and in the      *)
(* config file.  0 is the empty index element and the slot never written;  *)
(* Garbage is a half-written slot or an uninitialised element.             *)
(*                                                                         *)
(* The file system (Reliance Edge) is external.  It is used here as:       *)
(*   - red_open fails with RED_EMFILE, before it looks the path up, while  *)
(*     no file handle is free; red_unlink needs no handle;                 *)
(*   - what was written to a file survives a crash from its red_close on;  *)
(*   - reading a hole gives zeros, reading past the end changes nothing    *)
(*     and is no error.                                                    *)
(***************************************************************************)
EXTENDS Integers, Sequences, FiniteSets

CONSTANTS
    HardMax,         \* 20160: the initial MAX_FILES and the limit of set_max_files
    MallocMayFail    \* may pvPortMalloc return NULL?

ASSUME HardMaxAssumption == HardMax \in Nat \ {0}
ASSUME MallocAssumption == MallocMayFail \in BOOLEAN

VARIABLES
    MAX_FILES,       \* slots in use of the ring of records
    current_file,    \* the slot the next record goes to, from 1
    config_loaded,   \* has the config file been looked at since boot?
    timestamps,      \* the index: the block the pointer names, its size, its items
    hkfile,          \* tempHKdata.TMP
    cfgfile,         \* HKconfig.TMP
    noHandles,       \* the file system is out of file handles
    faults           \* history: the illegal memory accesses made so far

ramVars == <<MAX_FILES, current_file, config_loaded, timestamps>>
diskVars == <<hkfile, cfgfile>>
storeVars == <<ramVars, diskVars, noHandles, faults>>

Slots == 1..HardMax
Garbage == -1
Item == {Garbage} \cup Nat

\* hk_timestamp_array_size is timestamps.size; element 0, unused, is left out.
Index == [block : {"null", "live", "dangling"}, size : 0..HardMax, item : [Slots -> Item]]
NoItems == [i \in Slots |-> 0]

HkFile == [there : BOOLEAN, slot : [Slots -> Item]]
NoHkFile == [there |-> FALSE, slot |-> NoItems]

\* An "empty" config file has been created but nothing was committed to it.
\* "len" is the highest index element the file is long enough to hold.
ConfigFile == [state : {"absent", "empty", "full"}, max : Slots, cur : Nat \ {0},
               len : Nat, item : [Slots -> Item]]
NoConfig == [state |-> "absent", max |-> HardMax, cur |-> 1, len |-> 0, item |-> NoItems]

\* "oob" stands for a read outside the index block, or through NULL.
Faults == {"doublefree", "useafterfree", "oob"}

StoreTypeOK ==
    /\ MAX_FILES \in Slots
    /\ current_file \in Nat \ {0}
    /\ config_loaded \in BOOLEAN
    /\ timestamps \in Index
    /\ hkfile \in HkFile
    /\ cfgfile \in ConfigFile
    /\ noHandles \in BOOLEAN
    /\ faults \subseteq Faults

NoIndex == [block |-> "null", size |-> 0, item |-> NoItems]

StoreInit ==
    /\ MAX_FILES = HardMax
    /\ current_file = 1
    /\ config_loaded = FALSE
    /\ timestamps = NoIndex
    /\ hkfile = NoHkFile
    /\ cfgfile = NoConfig
    /\ noHandles = FALSE
    /\ faults = {}

\* A reset: the variables get their initial values again.
ResetRam ==
    /\ MAX_FILES' = HardMax
    /\ current_file' = 1
    /\ config_loaded' = FALSE
    /\ timestamps' = NoIndex
    /\ noHandles' = FALSE

\* A mutated form of Wrap: slots counted from 0.
MutWrapToZero(i, max) == IF i > max THEN 0 ELSE i

\* The slot after i, when the ring has max slots (++current_file and its test).
Wrap(i, max) == IF i > max THEN 1 ELSE i

-----------------------------------------------------------------------------
(***************************************************************************)
(* dynamic_timestamp_array_handler                                         *)
(***************************************************************************)

\* num_items = 0: the block is freed, the pointer keeps its value.
FreedIndex ==
    [block |-> IF timestamps.block = "null" THEN "null" ELSE "dangling",
     size  |-> 0,
     item  |-> NoItems]

\* num_items > 0 and pvPortMalloc succeeds.  The copy is of the first "size"
\* elements counted from 0, so item[size] is not among them; the loop clears
\* the items above the old size only.
ResizedIndex(n) ==
    LET copies == timestamps.block # "null" /\ timestamps.size < n
        NewItem(i) == CASE i > n -> 0
                        [] i > timestamps.size /\ i <= n -> 0
                        [] copies /\ i < timestamps.size -> timestamps.item[i]
                        [] OTHER -> Garbage
    IN  IF n = timestamps.size THEN timestamps
        ELSE [block |-> "live", size |-> n, item |-> [i \in Slots |-> NewItem(i)]]

\* The outcomes of a call with num_items = n.
HandlerOutcomes(n) ==
    IF n = 0 THEN {[ok |-> TRUE, index |-> FreedIndex]}
    ELSE {[ok |-> TRUE, index |-> ResizedIndex(n)]} \cup
         IF n # timestamps.size /\ MallocMayFail
         THEN {[ok |-> FALSE, index |-> timestamps]}
         ELSE {}

\* vPortFree(timestamps) frees again what an earlier call has freed.
HandlerFaults(n, outcome) ==
    IF outcome.ok /\ timestamps.block = "dangling" /\ (n = 0 \/ timestamps.size < n)
    THEN {"doublefree"}
    ELSE {}

-----------------------------------------------------------------------------
(***************************************************************************)
(* store_config.  exists() has no effect on a file that exists, unless     *)
(* the handles have run out: then its red_open fails, it unlinks the file  *)
(* and the second red_open fails as well.                                  *)
(***************************************************************************)
RewritesAll(all) == all \/ cfgfile.state = "absent"

IndexItem(index, i) ==
    IF index.block = "live" /\ i <= index.size THEN index.item[i] ELSE Garbage

\* The config file once store_config has closed it.  Writing from a NULL
\* pointer is refused, and nothing truncates the file.
StoredConfig(all, index) ==
    LET written == IF RewritesAll(all) THEN 1..index.size ELSE {current_file}
        last == IF RewritesAll(all) THEN index.size ELSE current_file
    IN  IF noHandles THEN NoConfig
        ELSE [state |-> "full",
              max   |-> MAX_FILES,
              cur   |-> current_file,
              len   |-> IF last > cfgfile.len THEN last ELSE cfgfile.len,
              item  |-> [i \in Slots |-> IF i \in written THEN IndexItem(index, i)
                                         ELSE cfgfile.item[i]]]

StoreFaults(all, index) ==
    CASE noHandles -> {}
      [] ~noHandles /\ index.block = "dangling" -> {"useafterfree"}
      [] ~noHandles /\ index.block # "dangling" /\ ~RewritesAll(all)
                    /\ (index.block = "null" \/ current_file > index.size) -> {"oob"}
      [] OTHER -> {}

(***************************************************************************)
(* load_config: what it reads.  An empty file leaves the variables as they *)
(* are, a short one leaves the rest of the array as the handler made it.   *)
(***************************************************************************)
\* A mutated form of ConfigMax: MAX_FILES is not kept in the config file.
MutConfigMaxForgotten == MAX_FILES

ConfigMax == IF cfgfile.state = "full" THEN cfgfile.max ELSE MAX_FILES
ConfigCur == IF cfgfile.state = "full" THEN cfgfile.cur ELSE current_file

\* A mutated form of LoadedIndex: one element too few is read back.
MutLoadedIndexShort(index) ==
    [index EXCEPT !.item = [i \in Slots |->
        IF i < index.size /\ i <= cfgfile.len THEN cfgfile.item[i] ELSE index.item[i]]]

LoadedIndex(index) ==
    [index EXCEPT !.item = [i \in Slots |->
        IF i <= index.size /\ i <= cfgfile.len THEN cfgfile.item[i] ELSE index.item[i]]]

(***************************************************************************)
(* read_hk_from_file: what the record buffer holds after slot p was read   *)
(* into it.                                                                *)
(***************************************************************************)
PastEnd(p) == \A i \in Slots : i >= p => hkfile.slot[i] = 0

ReadRecord(p, buf) == IF PastEnd(p) THEN buf ELSE hkfile.slot[p]

(***************************************************************************)
(* get_file_id_from_timestamp, as far as its caller can tell: 0, or a file *)
(* number the search can end on (module HkSearch has the search itself).   *)
(***************************************************************************)
SearchResults ==
    IF timestamps.block = "null" THEN {0}
    ELSE {0, 1} \cup (0..timestamps.size) \cup (0..(current_file - 1))

\* A mutated form of SearchFaults: the search does not test for NULL.
MutSearchUnchecked ==
    CASE timestamps.block = "null" -> {"oob"}
      [] timestamps.block = "live" -> IF current_file > timestamps.size THEN {"oob"} ELSE {}
      [] timestamps.block = "dangling" -> {"useafterfree"}

SearchFaults ==
    CASE timestamps.block = "null" -> {}
      [] timestamps.block = "live" -> IF current_file > timestamps.size THEN {"oob"} ELSE {}
      [] timestamps.block = "dangling" -> {"useafterfree"}
=============================================================================
