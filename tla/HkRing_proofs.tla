--------------------------- MODULE HkRing_proofs ---------------------------
(***************************************************************************)
(* Theorems about what the housekeeping store keeps: the records in the    *)
(* ring, the index of their times, and the pages of a GET_HK, for every    *)
(* size of the ring and any number of records, requests and crashes.       *)
(***************************************************************************)
EXTENDS Housekeeping_proofs

(***************************************************************************)
(* The slot d places before the next one, without the remainder: d is      *)
(* never more than the ring is long.                                       *)
(***************************************************************************)
Back(d) == IF d < NextSlot THEN NextSlot - d ELSE NextSlot - d + RingMax


LEMMA RingPositions ==
    ASSUME NEW m \in Nat \ {0}, NEW n \in 1..m, NEW k \in 1..m
    PROVE  ((n - 1 - k) % m) + 1 = IF k < n THEN n - k ELSE n - k + m
<1>1. CASE k < n
  <2>1. n - 1 - k \in 0..(m - 1)
    BY <1>1
  <2>2. (n - 1 - k) % m = n - 1 - k
    BY <2>1, SMT
  <2>3. QED
    BY <1>1, <2>2
<1>2. CASE k >= n
  <2>1. n - 1 - k + m \in 0..(m - 1) /\ n - 1 - k \in Int
    BY <1>2
  <2>2. (n - 1 - k) % m = n - 1 - k + m
    BY <2>1, SMT
  <2>3. QED
    BY <1>2, <2>2
<1>3. QED
  BY <1>1, <1>2

-----------------------------------------------------------------------------
(***************************************************************************)
(* The invariant of the ring, as long as nothing happened that breaks it.  *)
(* L is the number of records committed.                                   *)
(***************************************************************************)
RingClean == mishaps \cap BreaksRing = {}

L == Len(committed)

\* What the files hold while the collector is at work on them.
Files ==
    /\ ~noHandles
    /\ ~hkfile.there => hkfile.slot = NoItems
    /\ cpc = "writing" => hkfile.there /\ hkfile.slot[current_file] = Garbage
    /\ cpc \in {"stamp", "store"} => hkfile.slot[current_file] = collected
    /\ committed # <<>> => cfgfile.state = "full"
    /\ spc = "cleanup" => hkfile.slot = NoItems /\ committed = <<>>

Working == {"write", "writing", "stamp", "store", "advance", "wrap"}

Loading ==
    /\ cpc \in Working => config_loaded
    /\ cpc = "loaded" => /\ ~config_loaded /\ cfgfile.state # "absent"
                         /\ MAX_FILES = ConfigMax /\ current_file = ConfigCur

NextOnDisk == Wrap(cfgfile.cur + 1, cfgfile.max)

\* A crash loses nothing: the config file has the next slot, and the size of the
\* ring unless that has grown since, which it does only before the ring wraps.
InStep ==
    committed # <<>> /\ config_loaded =>
        /\ NextOnDisk = NextSlot
        /\ cfgfile.max <= MAX_FILES
        /\ cfgfile.max < MAX_FILES => L < NextSlot

\* Records are numbered in the order of collection; the latest is in one slot.
Numbers ==
    /\ \A k \in 1..L : /\ committed[k] <= collected
                       /\ cpc \notin {"idle", "advance", "wrap"} => committed[k] < collected
    /\ \A b \in Slots : /\ hkfile.slot[b] <= collected
                        /\ cpc \in {"load", "loaded", "write", "writing"}
                              => hkfile.slot[b] < collected
                        /\ cpc \in {"stamp", "store"} /\ hkfile.slot[b] = collected
                              => b = current_file

\* The record d places back in the history is d slots back in the ring, ...
Ordered ==
    \A d \in 1..L : d < RingMax => hkfile.slot[Back(d)] = committed[L + 1 - d]

\* ... and in no other slot.
Placed ==
    \A b \in Slots, d \in 1..L :
        hkfile.slot[b] = committed[L + 1 - d] => d <= RingMax /\ b = Back(d)

OrderInv == RingClean => Files /\ Loading /\ InStep /\ Numbers /\ Ordered /\ Placed

LEMMA MishapsStay == [Next]_vars => mishaps \subseteq mishaps'
BY DEF Next, LockStep, Collect, CollectorStep, ServiceStep, SkipConfig, LoadConfig, LoadAdvance,
       WriteOpen, WriteClose, WriteFails, Stamp, Store, Advance, WrapAround, RecvSetMax,
       SetMaxGrow, SetMaxReset, SetMaxCleanup, RecvGetHk, Snapshot, Resolve, ReadHk, ReadCreates,
       ReadUnlinks, ReadWithoutHandles, Send, SendFails, HandlesRunOut, Crash, Note, histVars, vars

LEMMA OrderInit == Init => OrderInv
<1> SUFFICES ASSUME Init PROVE OrderInv
  OBVIOUS
<1>1. committed = <<>> /\ L = 0 /\ collected = 0 /\ cpc = "idle" /\ spc = "idle"
  BY DEF Init, L
<1>2. hkfile = NoHkFile /\ noHandles = FALSE
  BY DEF Init, StoreInit
<1>3. Files /\ Loading /\ InStep
  BY <1>1, <1>2 DEF Files, Loading, InStep, Working, NoHkFile
<1>4. Numbers
  BY <1>1, <1>2 DEF Numbers, NoHkFile, NoItems
<1>5. Ordered /\ Placed
  BY <1>1 DEF Ordered, Placed
<1>6. QED
  BY <1>3, <1>4, <1>5 DEF OrderInv

-----------------------------------------------------------------------------
(***************************************************************************)
(* The steps of the lock and of a GET_HK leave the store as it is: what    *)
(* exists() creates and unlinks is an empty file where there was none.     *)
(***************************************************************************)
Quiet ==
    \/ \E t \in Task : LockStep(t)
    \/ \E n \in Resizes : RecvSetMax(n)
    \/ \E l \in Limits, b \in 0..HardMax, bytime \in BOOLEAN : RecvGetHk(l, b, bytime)
    \/ Snapshot \/ Resolve \/ ReadHk \/ ReadCreates \/ ReadUnlinks \/ ReadWithoutHandles
    \/ Send \/ SendFails
    \/ UNCHANGED vars

LEMMA QuietKeeps ==
    ASSUME Typed, CursorOK, Files, Quiet, RingClean'
    PROVE  /\ UNCHANGED <<MAX_FILES, current_file, config_loaded, timestamps, cfgfile,
                          noHandles, cpc, collected, committed>>
           /\ hkfile'.slot = hkfile.slot
           /\ ~hkfile'.there => hkfile'.slot = NoItems
           /\ cpc = "writing" => hkfile'.there
           /\ spc' = "cleanup" <=> spc = "cleanup"
           /\ mishaps \subseteq mishaps'
<1>1. hkfile \in HkFile
  BY DEF Typed, StoreTypeOK
<1>2. CASE ReadCreates
  BY <1>1, <1>2 DEF ReadCreates, Files, NoHkFile, HkFile, ramVars, histVars
<1>3. CASE ReadUnlinks
  <2>1. hkfile = [NoHkFile EXCEPT !.there = TRUE]
    BY <1>3 DEF ReadUnlinks, RingClean, BreaksRing, Note
  <2>2. hkfile.slot = NoItems /\ NoHkFile.slot = NoItems
    BY <2>1 DEF NoHkFile
  <2>3. cpc # "writing"
    <3>1. cpc = "writing" => current_file \in Slots
      BY HardMaxAssumption DEF CursorOK, Slots, Typed, StoreTypeOK
    <3>2. cpc = "writing" => hkfile.slot[current_file] = 0
      BY <2>2, <3>1 DEF NoItems
    <3>3. QED
      BY <3>2 DEF Files, Garbage
  <2>4. hkfile'.slot = NoItems
    BY <1>3, <2>2 DEF ReadUnlinks
  <2>5. QED
    BY <1>3, <2>2, <2>3, <2>4 DEF ReadUnlinks, ramVars, Note
<1>4. CASE ReadWithoutHandles
  BY <1>4 DEF ReadWithoutHandles, Files
<1>5. CASE \/ \E t \in Task : LockStep(t)
           \/ \E n \in Resizes : RecvSetMax(n)
           \/ \E l \in Limits, b \in 0..HardMax, bytime \in BOOLEAN : RecvGetHk(l, b, bytime)
           \/ Snapshot \/ Resolve \/ ReadHk \/ Send \/ SendFails
           \/ UNCHANGED vars
  BY <1>5 DEF LockStep, RecvSetMax, RecvGetHk, Snapshot, Resolve, ReadHk, Send, SendFails,
     storeVars, ramVars, diskVars, taskVars, histVars, vars, Note, Files
<1>6. QED
  BY <1>2, <1>3, <1>4, <1>5 DEF Quiet

\* The next slot, and the size of the ring, from the config file or from RAM.
LEMMA NextSlotIs ==
    /\ ~config_loaded /\ cfgfile.state # "absent" =>
          NextSlot = Wrap(ConfigCur + 1, ConfigMax) /\ RingMax = ConfigMax
    /\ ~config_loaded /\ cfgfile.state = "full" =>
          NextSlot = NextOnDisk /\ RingMax = cfgfile.max
    /\ config_loaded =>
          /\ RingMax = MAX_FILES
          /\ cpc = "advance" => NextSlot = Wrap(current_file + 1, MAX_FILES)
          /\ cpc # "advance" => NextSlot = Wrap(current_file, MAX_FILES)
    /\ ~config_loaded /\ cfgfile.state = "absent" =>
          NextSlot = Wrap(current_file, MAX_FILES) /\ RingMax = MAX_FILES
BY DEF NextSlot, RingMax, NextOnDisk, ConfigCur, ConfigMax

\* What the other invariants give, in the form the steps below need.
LEMMA RingFacts ==
    ASSUME Typed, Guarded, RingInv, RingClean
    PROVE  /\ CursorOK /\ cfgfile.cur <= cfgfile.max
           /\ cpc \in Critical => ~Holds(Service)
           /\ spc = "cleanup" => cpc \notin Critical
           /\ L \in Nat /\ (committed = <<>> <=> L = 0)
           /\ MAX_FILES \in Slots /\ cfgfile.max \in Slots /\ RingMax \in Slots
           /\ NextSlot \in 1..RingMax /\ NextOnDisk \in 1..cfgfile.max
           /\ current_file \in Nat \ {0} /\ collected \in Nat
           /\ \A i \in Slots : i \in Nat \ {0} /\ 1..i \subseteq Slots
<1>1. CursorOK /\ cfgfile.cur <= cfgfile.max
  BY DEF RingInv, RingClean, BreaksRing
<1>2. cpc \in Critical => ~Holds(Service)
  BY GuardedExcludes DEF RingClean, BreaksRing, Guarded, Holders
<1>3. L \in Nat /\ (committed = <<>> <=> L = 0)
  BY DEF L, Typed, TaskTypeOK
<1>4. MAX_FILES \in Slots /\ cfgfile.max \in Slots /\ ConfigMax \in Slots /\ RingMax \in Slots
      /\ current_file \in Nat \ {0} /\ cfgfile.cur \in Nat \ {0} /\ ConfigCur \in Nat \ {0}
  BY LoadedHeaderType DEF Typed, StoreTypeOK, ConfigFile, RingMax
<1>5. \A i \in Slots : i \in Nat \ {0} /\ 1..i \subseteq Slots
  BY HardMaxAssumption DEF Slots
<1>6. NextSlot \in 1..RingMax
  <2>1. \E x \in Nat \ {0} : NextSlot = Wrap(x, RingMax)
    <3>1. current_file + 1 \in Nat \ {0} /\ ConfigCur + 1 \in Nat \ {0}
      BY <1>4
    <3>2. NextSlot \in {Wrap(current_file, RingMax), Wrap(current_file + 1, RingMax),
                       Wrap(ConfigCur + 1, RingMax)}
      BY NextSlotIs
    <3>3. QED
      BY <1>4, <3>1, <3>2
  <2>2. QED
    BY <1>4, <1>5, <2>1, WrapInRing
<1>7. NextOnDisk \in 1..cfgfile.max
  BY <1>4, <1>5, WrapInRing DEF NextOnDisk
<1>8. collected \in Nat
  BY BoundAssumption DEF Typed, TaskTypeOK
<1>9. spc = "cleanup" => cpc \notin Critical
  BY <1>2 DEF Guarded, Holders
<1>10. QED
  BY <1>1, <1>2, <1>3, <1>4, <1>5, <1>6, <1>7, <1>8, <1>9

LEMMA BackInRing ==
    ASSUME RingMax \in Nat, NextSlot \in 1..RingMax, NEW d \in 1..RingMax
    PROVE  /\ Back(d) \in 1..RingMax
           /\ d # RingMax => Back(d) # NextSlot
           /\ \A e \in 1..RingMax : Back(e) = Back(d) => e = d
BY DEF Back

-----------------------------------------------------------------------------
(***************************************************************************)
(* The parts of the invariant that speak of one moment, action by action.  *)
(***************************************************************************)
LEMMA FilesStep ==
    ASSUME Typed, Guarded, RingInv, RingClean, Files, Loading, [Next]_vars, RingClean'
    PROVE  Files' /\ Loading'
<1>1. /\ CursorOK
      /\ spc = "cleanup" => cpc \notin Critical
      /\ MAX_FILES \in Slots /\ \A i \in Slots : i \in Nat \ {0} /\ 1..i \subseteq Slots
  BY RingFacts
<1>2. CASE Quiet
  <2>1. /\ UNCHANGED <<MAX_FILES, current_file, config_loaded, cfgfile, noHandles, cpc,
                       collected, committed>>
        /\ hkfile'.slot = hkfile.slot
        /\ ~hkfile'.there => hkfile'.slot = NoItems
        /\ cpc = "writing" => hkfile'.there
        /\ spc' = "cleanup" => spc = "cleanup"
    BY <1>1, <1>2, QuietKeeps
  <2>2. QED
    BY <2>1 DEF Files, Loading, Working, ConfigMax, ConfigCur
<1>3. CASE Collect
  BY <1>3 DEF Collect, Files, Loading, Working, storeVars, ramVars, diskVars, histVars,
     ConfigMax, ConfigCur
<1>4. CASE SkipConfig
  BY <1>4 DEF SkipConfig, Files, Loading, Working, histVars
<1>5. CASE LoadConfig
  <2>1. PICK o \in HandlerOutcomes(ConfigMax) :
          /\ config_loaded' = ~o.ok
          /\ cpc' = IF o.ok THEN "loaded" ELSE "write"
          /\ Note((IF o.ok THEN {} ELSE {"nomemory"})
                  \cup (IF "shrink" \in mishaps THEN {"staleload"} ELSE {}))
    BY <1>5 DEF LoadConfig
  <2>2. o.ok
    BY <2>1 DEF Note, RingClean, BreaksRing
  <2>3. ~config_loaded' /\ cpc' = "loaded"
    BY <2>1, <2>2
  <2>4. /\ MAX_FILES' = ConfigMax /\ current_file' = ConfigCur /\ cfgfile.state # "absent"
        /\ UNCHANGED <<hkfile, cfgfile, noHandles, spc, committed>>
    BY <1>5 DEF LoadConfig
  <2>5. QED
    BY <2>3, <2>4 DEF Files, Loading, Working, ConfigMax, ConfigCur
<1>6. CASE LoadAdvance
  BY <1>6 DEF LoadAdvance, Files, Loading, Working, diskVars, histVars
<1>7. CASE WriteOpen
  <2>1. current_file \in Slots /\ hkfile.slot \in [Slots -> Item]
    BY <1>1, <1>7 DEF WriteOpen, CursorOK, Typed, StoreTypeOK, HkFile
  <2>2. hkfile'.there /\ hkfile'.slot[current_file] = Garbage
    BY <1>7, <2>1 DEF WriteOpen
  <2>3. spc # "cleanup"
    BY <1>1, <1>7 DEF WriteOpen, Critical
  <2>4. QED
    BY <1>7, <2>2, <2>3 DEF WriteOpen, Files, Loading, Working, ramVars, histVars
<1>8. CASE WriteClose
  <2>1. current_file \in Slots /\ hkfile.slot \in [Slots -> Item] /\ hkfile.there
        /\ hkfile \in HkFile
    BY <1>1, <1>8 DEF WriteClose, CursorOK, Typed, StoreTypeOK, HkFile, Files
  <2>2. hkfile'.there /\ hkfile'.slot[current_file] = collected
    BY <1>8, <2>1 DEF WriteClose, HkFile
  <2>3. spc # "cleanup"
    BY <1>1, <1>8 DEF WriteClose, Critical
  <2>4. QED
    BY <1>8, <2>2, <2>3 DEF WriteClose, Files, Loading, Working, ramVars, histVars
<1>9. CASE WriteFails
  BY <1>9 DEF WriteFails, Files, Loading, Working, storeVars, ramVars, diskVars, histVars
<1>10. CASE Stamp
  BY <1>10 DEF Stamp, Files, Loading, Working, diskVars
<1>11. CASE Store
  <2>1. cfgfile'.state = "full"
    BY <1>11 DEF Store, Files, StoredConfig
  <2>2. spc # "cleanup"
    BY <1>1, <1>11 DEF Store, Critical
  <2>3. QED
    BY <1>11, <2>1, <2>2 DEF Store, Files, Loading, Working, ramVars
<1>12. CASE Advance
  BY <1>12 DEF Advance, Files, Loading, Working, diskVars, histVars
<1>13. CASE WrapAround
  BY <1>13 DEF WrapAround, Files, Loading, Working, diskVars, histVars
<1>14. CASE SetMaxGrow
  <2>1. cpc \notin Critical
    BY <1>1, <1>14, RingFacts DEF SetMaxGrow
  <2>2. QED
    BY <1>14, <2>1 DEF SetMaxGrow, Files, Loading, Working, Critical, diskVars
<1>15. CASE SetMaxReset
  <2>1. cpc \notin Critical
    BY <1>1, <1>15, RingFacts DEF SetMaxReset
  <2>2. QED
    BY <1>15, <2>1 DEF SetMaxReset, Files, Loading, Working, Critical, NoHkFile
<1>16. CASE SetMaxCleanup
  <2>1. cpc \notin Critical /\ committed = <<>>
    BY <1>1, <1>16 DEF SetMaxCleanup, Files
  <2>2. QED
    BY <1>16, <2>1 DEF SetMaxCleanup, Files, Loading, Working, Critical, histVars
<1>17. CASE HandlesRunOut
  BY <1>17 DEF HandlesRunOut, Note, RingClean, BreaksRing
<1>18. CASE Crash
  <2>1. cfgfile' = cfgfile \/ cfgfile.state = "absent"
    BY <1>18 DEF Crash
  <2>2. QED
    BY <1>18, <2>1 DEF Crash, ResetRam, Files, Loading, Working
<1>19. QED
  BY <1>2, <1>3, <1>4, <1>5, <1>6, <1>7, <1>8, <1>9, <1>10, <1>11, <1>12, <1>13, <1>14, <1>15,
     <1>16, <1>17, <1>18 DEF Next, CollectorStep, ServiceStep, Quiet

LEMMA NumbersStep ==
    ASSUME Typed, Guarded, RingInv, RingClean, Files, Loading, Numbers, [Next]_vars, RingClean'
    PROVE  Numbers'
<1>1. /\ CursorOK /\ collected \in Nat /\ current_file \in Nat \ {0}
      /\ MAX_FILES \in Slots /\ \A i \in Slots : i \in Nat \ {0} /\ 1..i \subseteq Slots
  BY RingFacts
<1>2. /\ hkfile \in HkFile /\ hkfile.slot \in [Slots -> Item]
      /\ \A b \in Slots : hkfile.slot[b] \in Int
      /\ committed \in Seq(1..MaxRecords) /\ L \in Nat
      /\ \A k \in 1..L : committed[k] \in Int
  BY BoundAssumption DEF Typed, StoreTypeOK, TaskTypeOK, HkFile, Item, Garbage, L
\* The numbers do not change, and no place of the collector comes to be restricted.
<1>3. ASSUME UNCHANGED <<committed, collected>>, hkfile'.slot = hkfile.slot,
             cpc' \notin {"idle", "advance", "wrap"} => cpc \notin {"idle", "advance", "wrap"},
             cpc' \in {"load", "loaded", "write", "writing"}
                => cpc \in {"load", "loaded", "write", "writing"},
             cpc' \in {"stamp", "store"} =>
                cpc \in {"stamp", "store"} /\ current_file' = current_file
      PROVE  Numbers'
  BY <1>3 DEF Numbers, L
<1>4. CASE Quiet
  <2>1. UNCHANGED <<cpc, collected, committed, current_file>> /\ hkfile'.slot = hkfile.slot
    BY <1>1, <1>4, QuietKeeps
  <2>2. QED
    BY <1>3, <2>1
<1>5. CASE Collect
  <2>1. /\ collected' = collected + 1 /\ cpc' = "load"
        /\ UNCHANGED <<hkfile, committed>>
    BY <1>5 DEF Collect, storeVars, diskVars, histVars
  <2>2. QED
    BY <1>1, <1>2, <2>1 DEF Numbers, L
<1>6. CASE SkipConfig \/ LoadAdvance \/ WriteFails \/ Stamp \/ Advance \/ WrapAround
  BY <1>3, <1>6 DEF SkipConfig, LoadAdvance, WriteFails, Stamp, Advance, WrapAround, storeVars,
     diskVars, histVars
<1>7. CASE LoadConfig
  <2>1. UNCHANGED <<hkfile, collected, committed>> /\ cpc = "load" /\ cpc' \in {"loaded", "write"}
    BY <1>7 DEF LoadConfig
  <2>2. QED
    BY <1>3, <2>1
<1>8. CASE WriteOpen \/ WriteClose
  <2>1. current_file \in Slots
    BY <1>1, <1>8 DEF WriteOpen, WriteClose, CursorOK
  <2>2. CASE WriteOpen
    <3>1. /\ hkfile'.slot = [hkfile.slot EXCEPT ![current_file] = Garbage]
          /\ cpc = "write" /\ cpc' = "writing" /\ UNCHANGED <<committed, collected, current_file>>
      BY <2>2 DEF WriteOpen, ramVars, histVars
    <3>2. ASSUME NEW b \in Slots PROVE hkfile'.slot[b] \in Int /\ hkfile'.slot[b] < collected
      <4>1. CASE b = current_file
        BY <1>1, <1>2, <3>1, <4>1 DEF Garbage
      <4>2. CASE b # current_file
        BY <1>2, <3>1, <4>2 DEF Numbers
      <4>3. QED
        BY <4>1, <4>2
    <3>3. ASSUME NEW k \in 1..L PROVE committed[k] <= collected /\ committed[k] < collected
      BY <3>1 DEF Numbers
    <3>4. collected \in Int
      BY <1>1
    <3>5. QED
      BY <3>1, <3>2, <3>3, <3>4 DEF Numbers, L
  <2>3. CASE WriteClose
    <3>1. /\ hkfile'.slot = [hkfile.slot EXCEPT ![current_file] = collected]
          /\ cpc = "writing" /\ cpc' = "stamp" /\ UNCHANGED <<committed, collected, current_file>>
      BY <1>2, <2>3 DEF WriteClose, Files, HkFile, ramVars, histVars
    <3>2. ASSUME NEW b \in Slots
          PROVE  hkfile'.slot[b] <= collected /\ (hkfile'.slot[b] = collected => b = current_file)
      <4>1. CASE b = current_file
        BY <1>1, <1>2, <3>1, <4>1
      <4>2. CASE b # current_file
        BY <1>1, <1>2, <3>1, <4>2 DEF Numbers
      <4>3. QED
        BY <4>1, <4>2
    <3>3. QED
      BY <1>1, <1>2, <3>1, <3>2 DEF Numbers, L
  <2>4. QED
    BY <1>8, <2>2, <2>3
<1>9. CASE Store
  <2>1. /\ committed' = Append(committed, collected) /\ cpc = "store" /\ cpc' = "advance"
        /\ UNCHANGED <<hkfile, collected>>
    BY <1>9 DEF Store, Files
  <2>2. collected \in 1..MaxRecords
    BY <1>9, BoundAssumption DEF Store, Typed, TaskTypeOK, Progress
  <2>3. L' = L + 1 /\ committed'[L + 1] = collected /\ \A k \in 1..L : committed'[k] = committed[k]
    BY <1>2, <2>1, <2>2 DEF L
  <2>4. \A k \in 1..(L + 1) : committed'[k] <= collected
    BY <1>1, <1>2, <2>1, <2>3 DEF Numbers
  <2>5. QED
    BY <2>1, <2>3, <2>4 DEF Numbers
<1>10. CASE SetMaxGrow
  BY <1>3, <1>10 DEF SetMaxGrow, diskVars
<1>11. CASE SetMaxReset
  <2>1. cpc \notin Critical
    BY <1>11, RingFacts DEF SetMaxReset
  <2>2. /\ L' = 0 /\ UNCHANGED <<cpc, collected>>
        /\ \A b \in Slots : hkfile'.slot[b] = 0
    BY <1>11 DEF SetMaxReset, L, NoHkFile, NoItems
  <2>3. cpc # "idle" => collected # 0
    BY DEF Typed, Progress
  <2>4. QED
    BY <1>1, <2>1, <2>2, <2>3 DEF Numbers, Critical
<1>12. CASE SetMaxCleanup
  BY <1>3, <1>12 DEF SetMaxCleanup, histVars
<1>13. CASE HandlesRunOut
  BY <1>13 DEF HandlesRunOut, Note, RingClean, BreaksRing
<1>14. CASE Crash
  BY <1>3, <1>14 DEF Crash
<1>15. QED
  BY <1>4, <1>5, <1>6, <1>7, <1>8, <1>9, <1>10, <1>11, <1>12, <1>13, <1>14
     DEF Next, CollectorStep, ServiceStep, Quiet

-----------------------------------------------------------------------------
(***************************************************************************)
(* The steps that move neither the next slot nor what is in the ring: a    *)
(* load reads from the file where the cursor was, and ++current_file with  *)
(* its test does what NextSlot says of it beforehand.                      *)
(***************************************************************************)
Still ==
    \/ Collect \/ SkipConfig \/ LoadConfig \/ LoadAdvance \/ WriteFails \/ Stamp
    \/ Advance \/ WrapAround \/ SetMaxReset \/ SetMaxCleanup \/ Quiet

LEMMA WrapTwice ==
    ASSUME NEW i \in Nat \ {0}, NEW m \in Nat \ {0}
    PROVE  Wrap(Wrap(i, m), m) = Wrap(i, m)
BY DEF Wrap

LEMMA StillRing ==
    ASSUME Typed, Guarded, RingInv, RingClean, Files, Loading, InStep, Still, RingClean'
    PROVE  /\ InStep'
           /\ \/ committed' = <<>>
              \/ UNCHANGED <<NextSlot, RingMax, committed>> /\ hkfile'.slot = hkfile.slot
<1>1. /\ CursorOK
      /\ spc = "cleanup" => cpc \notin Critical
      /\ current_file \in Nat \ {0} /\ MAX_FILES \in Nat \ {0}
      /\ cfgfile.max \in Nat \ {0} /\ RingMax \in Nat
  BY RingFacts
<1>2. ASSUME committed' = <<>> PROVE InStep'
  BY <1>2 DEF InStep
\* From RAM to RAM.
<1>3. ASSUME config_loaded, config_loaded', UNCHANGED <<MAX_FILES, cfgfile, committed>>,
             NextSlot' = NextSlot, hkfile'.slot = hkfile.slot
      PROVE  /\ InStep'
             /\ UNCHANGED <<NextSlot, RingMax, committed>> /\ hkfile'.slot = hkfile.slot
  <2>1. RingMax' = RingMax /\ NextOnDisk' = NextOnDisk /\ L' = L
    BY <1>3 DEF RingMax, NextOnDisk, L
  <2>2. QED
    BY <1>3, <2>1 DEF InStep
\* From the config file to the config file.
<1>4. ASSUME ~config_loaded, ~config_loaded', UNCHANGED <<cfgfile, committed>>,
             hkfile'.slot = hkfile.slot
      PROVE  /\ InStep'
             /\ \/ committed' = <<>>
                \/ UNCHANGED <<NextSlot, RingMax, committed>> /\ hkfile'.slot = hkfile.slot
  <2>1. InStep'
    BY <1>4 DEF InStep
  <2>2. CASE cfgfile.state = "full"
    BY <1>4, <2>1, <2>2, NextSlotIs DEF NextSlot, RingMax, ConfigCur, ConfigMax
  <2>3. CASE cfgfile.state # "full"
    BY <1>4, <2>1, <2>3 DEF Files
  <2>4. QED
    BY <2>2, <2>3
<1>5. ASSUME UNCHANGED <<MAX_FILES, current_file, config_loaded, cfgfile, committed>>,
             hkfile'.slot = hkfile.slot, cpc' = "advance" <=> cpc = "advance"
      PROVE  /\ InStep'
             /\ \/ committed' = <<>>
                \/ UNCHANGED <<NextSlot, RingMax, committed>> /\ hkfile'.slot = hkfile.slot
  <2>1. CASE config_loaded
    <3>1. NextSlot' = NextSlot
      BY <1>5, <2>1 DEF NextSlot
    <3>2. QED
      BY <1>3, <1>5, <2>1, <3>1
  <2>2. CASE ~config_loaded
    BY <1>4, <1>5, <2>2
  <2>3. QED
    BY <2>1, <2>2
<1>6. CASE Quiet
  <2>1. /\ UNCHANGED <<MAX_FILES, current_file, config_loaded, cfgfile, committed, cpc>>
        /\ hkfile'.slot = hkfile.slot
    BY <1>1, <1>6, QuietKeeps
  <2>2. QED
    BY <1>5, <2>1
<1>7. CASE Collect \/ WriteFails \/ Stamp
  BY <1>5, <1>7 DEF Collect, WriteFails, Stamp, storeVars, ramVars, diskVars, histVars
<1>8. CASE SkipConfig
  <2>1. CASE config_loaded
    <3>1. /\ UNCHANGED <<MAX_FILES, current_file, config_loaded, cfgfile, committed, hkfile>>
          /\ cpc = "load" /\ cpc' = "write"
      BY <1>8, <2>1 DEF SkipConfig, histVars, Typed, StoreTypeOK
    <3>2. QED
      BY <1>5, <3>1
  <2>2. CASE ~config_loaded
    <3>1. committed' = <<>>
      BY <1>8, <2>2 DEF SkipConfig, Files, histVars
    <3>2. QED
      BY <1>2, <3>1
  <2>3. QED
    BY <2>1, <2>2
<1>9. CASE LoadConfig
  <2>1. PICK o \in HandlerOutcomes(ConfigMax) :
          /\ config_loaded' = ~o.ok
          /\ Note((IF o.ok THEN {} ELSE {"nomemory"})
                  \cup (IF "shrink" \in mishaps THEN {"staleload"} ELSE {}))
    BY <1>9 DEF LoadConfig
  <2>2. o.ok
    BY <2>1 DEF Note, RingClean, BreaksRing
  <2>3. ~config_loaded /\ ~config_loaded' /\ UNCHANGED <<cfgfile, committed, hkfile>>
    BY <1>9, <2>1, <2>2 DEF LoadConfig
  <2>4. QED
    BY <1>4, <2>3
<1>10. CASE LoadAdvance
  <2>1. /\ config_loaded' /\ UNCHANGED <<MAX_FILES, cfgfile, hkfile, committed>>
        /\ current_file' = Wrap(current_file + 1, MAX_FILES) /\ cpc' = "write"
    BY <1>10 DEF LoadAdvance, diskVars, histVars
  <2>2. CASE cfgfile.state = "full"
    <3>1. ~config_loaded /\ MAX_FILES = cfgfile.max /\ current_file = cfgfile.cur
      BY <1>10, <2>2 DEF LoadAdvance, Loading, ConfigMax, ConfigCur
    <3>2. NextSlot = NextOnDisk /\ RingMax = MAX_FILES
      BY <2>2, <3>1, NextSlotIs
    <3>3. NextSlot' = Wrap(current_file', MAX_FILES') /\ RingMax' = MAX_FILES
      BY <2>1 DEF NextSlot, RingMax
    <3>4. Wrap(current_file', MAX_FILES') = Wrap(current_file + 1, MAX_FILES)
      <4>1. current_file + 1 \in Nat \ {0}
        BY <1>1
      <4>2. QED
        BY <1>1, <2>1, <4>1, WrapTwice
    <3>5. NextSlot' = NextSlot /\ RingMax' = RingMax
      BY <3>1, <3>2, <3>3, <3>4 DEF NextOnDisk
    <3>6. InStep'
      <4>1. NextOnDisk' = NextSlot'
        BY <2>1, <3>2, <3>5 DEF NextOnDisk
      <4>2. cfgfile'.max = MAX_FILES'
        BY <2>1, <3>1
      <4>3. QED
        BY <1>1, <2>1, <4>1, <4>2 DEF InStep
    <3>7. QED
      BY <2>1, <3>5, <3>6
  <2>3. CASE cfgfile.state # "full"
    BY <1>2, <2>1, <2>3 DEF Files
  <2>4. QED
    BY <2>2, <2>3
<1>11. CASE Advance
  <2>1. /\ config_loaded /\ config_loaded' /\ UNCHANGED <<MAX_FILES, cfgfile, committed, hkfile>>
        /\ cpc = "advance" /\ cpc' = "wrap" /\ current_file' = current_file + 1
    BY <1>11 DEF Advance, Loading, Working, diskVars, histVars
  <2>2. NextSlot' = NextSlot
    BY <2>1 DEF NextSlot
  <2>3. QED
    BY <1>3, <2>1, <2>2
<1>12. CASE WrapAround
  <2>1. /\ config_loaded /\ config_loaded' /\ UNCHANGED <<MAX_FILES, cfgfile, committed, hkfile>>
        /\ cpc = "wrap" /\ cpc' = "idle" /\ current_file' = Wrap(current_file, MAX_FILES)
    BY <1>12 DEF WrapAround, Loading, Working, diskVars, histVars
  <2>2. NextSlot' = Wrap(Wrap(current_file, MAX_FILES), MAX_FILES)
        /\ NextSlot = Wrap(current_file, MAX_FILES)
    BY <2>1 DEF NextSlot
  <2>3. NextSlot' = NextSlot
    BY <1>1, <2>2, WrapTwice
  <2>4. QED
    BY <1>3, <2>1, <2>3
<1>13. CASE SetMaxReset \/ SetMaxCleanup
  BY <1>2, <1>13 DEF SetMaxReset, SetMaxCleanup, Files, histVars
<1>14. QED
  BY <1>6, <1>7, <1>8, <1>9, <1>10, <1>11, <1>12, <1>13 DEF Still

\* What a step keeps of Ordered and Placed when it leaves the records where they
\* are, and when it changes the size of a ring that has not wrapped yet.
LEMMA SamePlaces ==
    ASSUME Ordered, Placed, hkfile'.slot = hkfile.slot, UNCHANGED <<NextSlot, RingMax, committed>>
    PROVE  Ordered' /\ Placed'
BY DEF Ordered, Placed, Back, L

LEMMA NoRecords == committed' = <<>> => InStep' /\ Ordered' /\ Placed'
BY DEF InStep, Ordered, Placed, L

LEMMA UnwrappedPlaces ==
    ASSUME Ordered, Placed, hkfile'.slot = hkfile.slot, NextSlot' = NextSlot,
           committed' = committed, L \in Nat, NextSlot \in Nat, RingMax \in Nat, RingMax' \in Nat,
           L < NextSlot, NextSlot <= RingMax, NextSlot <= RingMax'
    PROVE  Ordered' /\ Placed'
<1>1. L' = L
  BY DEF L
<1>2. ASSUME NEW d \in 1..L PROVE Back(d)' = Back(d) /\ d < RingMax /\ d <= RingMax'
  <2>1. d \in Nat /\ d < NextSlot
    OBVIOUS
  <2>2. Back(d) = NextSlot - d /\ Back(d)' = NextSlot' - d
    BY <2>1 DEF Back
  <2>3. QED
    BY <2>1, <2>2
<1>3. Ordered'
  BY <1>1, <1>2 DEF Ordered
<1>4. Placed'
  BY <1>1, <1>2 DEF Placed
<1>5. QED
  BY <1>3, <1>4

\* After ++current_file the records are one place further back.
LEMMA BackNext ==
    ASSUME RingMax \in Nat, NextSlot \in 1..RingMax, NextSlot' = Wrap(NextSlot + 1, RingMax),
           RingMax' = RingMax
    PROVE  /\ Back(1)' = NextSlot
           /\ \A d \in 1..(RingMax - 1) : Back(d + 1)' = Back(d)
BY DEF Back, Wrap

LEMMA WriteRing ==
    ASSUME Typed, Guarded, RingInv, RingClean, Files, Loading, InStep, Numbers, Ordered, Placed,
           WriteOpen \/ WriteClose
    PROVE  InStep' /\ Ordered' /\ Placed' /\ UNCHANGED <<NextSlot, RingMax, committed>>
<1>1. /\ CursorOK /\ L \in Nat /\ MAX_FILES \in Slots /\ collected \in Nat
      /\ \A i \in Slots : i \in Nat \ {0} /\ 1..i \subseteq Slots
      /\ RingMax \in Slots /\ NextSlot \in 1..RingMax
  BY RingFacts
<1>2. /\ config_loaded /\ cpc \in {"write", "writing"} /\ cpc' \in {"writing", "stamp"}
      /\ UNCHANGED <<MAX_FILES, current_file, config_loaded, cfgfile, committed>>
  BY DEF WriteOpen, WriteClose, Loading, Working, ramVars, histVars
<1>3. current_file \in 1..MAX_FILES /\ current_file \in Slots
  BY <1>1, <1>2 DEF CursorOK
<1>4. NextSlot = current_file /\ NextSlot' = NextSlot
  BY <1>1, <1>2, <1>3 DEF NextSlot, Wrap
<1>5. RingMax' = RingMax /\ NextOnDisk' = NextOnDisk /\ L' = L
  BY <1>2 DEF RingMax, NextOnDisk, L
<1>6. InStep'
  BY <1>2, <1>4, <1>5 DEF InStep
<1>7. hkfile \in HkFile /\ hkfile.slot \in [Slots -> Item]
  BY DEF Typed, StoreTypeOK, HkFile
<1>8. PICK v \in {Garbage, collected} : hkfile'.slot = [hkfile.slot EXCEPT ![current_file] = v]
  <2>1. CASE WriteOpen
    BY <2>1 DEF WriteOpen
  <2>2. CASE WriteClose
    BY <1>7, <2>2 DEF WriteClose, Files, HkFile
  <2>3. QED
    BY <2>1, <2>2
<1>9. ASSUME NEW k \in 1..L PROVE committed[k] # v
  <2>1. committed[k] \in 1..MaxRecords
    <3>1. committed \in Seq(1..MaxRecords) /\ k \in 1..Len(committed)
      BY DEF Typed, TaskTypeOK, L
    <3>2. QED
      BY <3>1, BoundAssumption
  <2>2. committed[k] < collected
    BY <1>2 DEF Numbers
  <2>3. committed[k] # Garbage /\ committed[k] # collected
    BY <1>1, <2>1, <2>2, BoundAssumption DEF Garbage
  <2>4. QED
    BY <2>3
<1>10. ASSUME NEW d \in 1..L, d < RingMax PROVE hkfile'.slot[Back(d)] = committed[L + 1 - d]
  <2>1. Back(d) \in Slots /\ Back(d) # current_file
    BY <1>1, <1>4, <1>10, BackInRing
  <2>2. hkfile'.slot[Back(d)] = hkfile.slot[Back(d)]
    BY <1>7, <1>8, <2>1
  <2>3. QED
    BY <1>10, <2>2 DEF Ordered
<1>11. Ordered'
  BY <1>2, <1>4, <1>5, <1>10 DEF Ordered, Back
<1>12. ASSUME NEW b \in Slots, NEW d \in 1..L, hkfile'.slot[b] = committed[L + 1 - d]
       PROVE  d <= RingMax /\ b = Back(d)
  <2>1. L + 1 - d \in 1..L
    BY <1>1
  <2>2. b # current_file
    BY <1>3, <1>7, <1>8, <1>9, <1>12, <2>1
  <2>3. hkfile.slot[b] = committed[L + 1 - d]
    BY <1>7, <1>8, <1>12, <2>2
  <2>4. QED
    BY <2>3 DEF Placed
<1>13. Placed'
  BY <1>2, <1>4, <1>5, <1>12 DEF Placed, Back
<1>14. QED
  BY <1>2, <1>4, <1>5, <1>6, <1>11, <1>13

LEMMA StoreRing ==
    ASSUME Typed, Guarded, RingInv, RingClean, Files, Loading, Numbers, Ordered, Placed, Store
    PROVE  /\ InStep' /\ Ordered' /\ Placed'
           /\ L' = L + 1 /\ RingMax' = RingMax
           /\ \A d \in 1..(RingMax - 1) : Back(d + 1)' = Back(d)
<1>1. /\ CursorOK /\ L \in Nat /\ MAX_FILES \in Slots /\ collected \in Nat
      /\ \A i \in Slots : i \in Nat \ {0} /\ 1..i \subseteq Slots
      /\ RingMax \in Slots /\ NextSlot \in 1..RingMax
  BY RingFacts
<1>2. /\ config_loaded /\ cpc = "store" /\ cpc' = "advance" /\ ~noHandles
      /\ UNCHANGED <<MAX_FILES, current_file, config_loaded, hkfile>>
      /\ committed' = Append(committed, collected)
      /\ cfgfile' = StoredConfig(FALSE, timestamps)
  BY DEF Store, Loading, Working, Files, ramVars
<1>3. current_file \in 1..MAX_FILES /\ hkfile.slot[current_file] = collected
  BY <1>1, <1>2 DEF CursorOK, Files
<1>4. RingMax = MAX_FILES /\ RingMax' = RingMax
  BY <1>2 DEF RingMax
<1>5. NextSlot = current_file /\ NextSlot' = Wrap(NextSlot + 1, RingMax)
  BY <1>1, <1>2, <1>3, <1>4 DEF NextSlot, Wrap
<1>6. InStep'
  <2>1. cfgfile'.max = MAX_FILES /\ cfgfile'.cur = current_file
    BY <1>2 DEF StoredConfig
  <2>2. NextOnDisk' = NextSlot'
    BY <1>4, <1>5, <2>1 DEF NextOnDisk
  <2>3. MAX_FILES' \in Nat /\ cfgfile'.max = MAX_FILES'
    BY <1>1, <1>2, <2>1
  <2>4. cfgfile'.max <= MAX_FILES' /\ ~(cfgfile'.max < MAX_FILES')
    BY <2>3
  <2>5. QED
    BY <2>2, <2>4 DEF InStep
<1>7. Back(1)' = current_file /\ \A d \in 1..(RingMax - 1) : Back(d + 1)' = Back(d)
  BY <1>1, <1>4, <1>5, BackNext
<1>8. L' = L + 1 /\ committed'[L + 1] = collected /\ \A k \in 1..L : committed'[k] = committed[k]
  <2>1. committed \in Seq(Int) /\ collected \in Int
    <3>1. committed \in Seq(1..MaxRecords) /\ collected \in 0..MaxRecords
      BY DEF Typed, TaskTypeOK
    <3>2. QED
      BY <3>1, BoundAssumption
  <2>2. QED
    BY <1>2, <2>1 DEF L
<1>9. ASSUME NEW d \in 1..(L + 1), d # 1
      PROVE  d - 1 \in 1..L /\ committed'[L' + 1 - d] = committed[L + 1 - (d - 1)]
  <2>1. d - 1 \in 1..L /\ L' + 1 - d = L + 1 - (d - 1) /\ L + 1 - (d - 1) \in 1..L
    BY <1>1, <1>8, <1>9
  <2>2. QED
    BY <1>8, <2>1
<1>10. ASSUME NEW d \in 1..(L + 1), d < RingMax
       PROVE  hkfile.slot[Back(d)'] = committed'[L' + 1 - d]
  <2>1. CASE d = 1
    BY <1>1, <1>3, <1>7, <1>8, <2>1
  <2>2. CASE d # 1
    <3>1. d - 1 \in 1..(RingMax - 1) /\ d - 1 < RingMax /\ (d - 1) + 1 = d
      BY <1>1, <1>10, <2>2
    <3>2. Back(d)' = Back(d - 1)
      BY <1>7, <3>1
    <3>3. d - 1 \in 1..L /\ committed'[L' + 1 - d] = committed[L + 1 - (d - 1)]
      BY <1>9, <2>2
    <3>4. QED
      BY <3>1, <3>2, <3>3 DEF Ordered
  <2>3. QED
    BY <2>1, <2>2
<1>11. Ordered'
  BY <1>2, <1>4, <1>8, <1>10 DEF Ordered
<1>12. ASSUME NEW b \in Slots, NEW d \in 1..(L + 1), hkfile.slot[b] = committed'[L' + 1 - d]
       PROVE  d <= RingMax /\ b = Back(d)'
  <2>1. CASE d = 1
    <3>1. hkfile.slot[b] = collected
      BY <1>1, <1>8, <1>12, <2>1
    <3>2. b = current_file
      BY <1>2, <3>1 DEF Numbers
    <3>3. QED
      BY <1>1, <1>7, <2>1, <3>2
  <2>2. CASE d # 1
    <3>1. d - 1 \in 1..L /\ hkfile.slot[b] = committed[L + 1 - (d - 1)]
      BY <1>9, <1>12, <2>2
    <3>2. d - 1 <= RingMax /\ b = Back(d - 1)
      BY <3>1 DEF Placed
    <3>3. d - 1 # RingMax
      <4>1. SUFFICES ASSUME d - 1 = RingMax PROVE FALSE
        OBVIOUS
      <4>2. b = current_file
        BY <1>1, <1>5, <3>2, <4>1 DEF Back
      <4>3. committed[L + 1 - (d - 1)] = collected
        BY <1>3, <3>1, <4>2
      <4>4. L + 1 - (d - 1) \in 1..L
        BY <1>1, <3>1
      <4>5. QED
        BY <1>1, <1>2, <4>3, <4>4 DEF Numbers
    <3>4. d - 1 \in 1..(RingMax - 1) /\ (d - 1) + 1 = d
      BY <1>1, <3>1, <3>2, <3>3
    <3>5. QED
      BY <1>1, <1>7, <3>2, <3>4
  <2>3. QED
    BY <2>1, <2>2
<1>13. Placed'
  BY <1>2, <1>4, <1>8, <1>12 DEF Placed
<1>14. QED
  BY <1>4, <1>6, <1>7, <1>8, <1>11, <1>13

LEMMA GrowRing ==
    ASSUME Typed, Guarded, RingInv, RingClean, Files, Loading, InStep, Ordered, Placed,
           SetMaxGrow, RingClean'
    PROVE  InStep' /\ Ordered' /\ Placed'
<1>1. /\ CursorOK /\ L \in Nat /\ MAX_FILES \in Slots /\ current_file \in Nat \ {0}
      /\ cpc \in Critical => ~Holds(Service)
      /\ cfgfile.max \in Slots
      /\ \A i \in Slots : i \in Nat \ {0} /\ 1..i \subseteq Slots
  BY RingFacts
<1>2. /\ MAX_FILES < new_max /\ MAX_FILES' = new_max /\ new_max \in Slots /\ Holds(Service)
      /\ UNCHANGED <<current_file, config_loaded, hkfile, cfgfile, cpc, committed>>
      /\ L' = L /\ NextOnDisk' = NextOnDisk
  BY DEF SetMaxGrow, diskVars, L, NextOnDisk, Typed, TaskTypeOK
<1>3. cpc \notin Critical /\ current_file \in 1..MAX_FILES
  BY <1>1, <1>2 DEF CursorOK, Critical
<1>4. L < current_file
  <2>1. "growfull" \notin mishaps'
    BY DEF RingClean, BreaksRing
  <2>2. ~(L >= current_file)
    BY <2>1 DEF SetMaxGrow, Note, L
  <2>3. QED
    BY <1>1, <2>2
<1>5. CASE config_loaded
  <2>1. NextSlot = current_file /\ NextSlot' = current_file
        /\ RingMax = MAX_FILES /\ RingMax' = new_max
    BY <1>1, <1>2, <1>3, <1>5 DEF NextSlot, RingMax, Wrap, Critical
  <2>2. Ordered' /\ Placed'
    BY <1>1, <1>2, <1>3, <1>4, <2>1, UnwrappedPlaces
  <2>3. InStep'
    BY <1>1, <1>2, <1>4, <1>5, <2>1 DEF InStep
  <2>4. QED
    BY <2>2, <2>3
<1>6. CASE ~config_loaded /\ committed # <<>>
  <2>1. cfgfile.state = "full"
    BY <1>6 DEF Files
  <2>2. UNCHANGED <<NextSlot, RingMax>>
    BY <1>2, <1>6, <2>1 DEF NextSlot, RingMax, ConfigMax, ConfigCur
  <2>3. hkfile'.slot = hkfile.slot /\ UNCHANGED <<NextSlot, RingMax, committed>>
    BY <1>2, <2>2
  <2>4. Ordered' /\ Placed'
    BY <2>3, SamePlaces
  <2>5. InStep'
    BY <1>2, <1>6 DEF InStep
  <2>6. QED
    BY <2>4, <2>5
<1>7. CASE committed = <<>>
  BY <1>2, <1>7, NoRecords
<1>8. QED
  BY <1>5, <1>6, <1>7

LEMMA CrashRing ==
    ASSUME Typed, Guarded, RingInv, RingClean, Files, InStep, Ordered, Placed, Crash
    PROVE  InStep' /\ Ordered' /\ Placed'
<1>1. /\ L \in Nat /\ RingMax \in Slots /\ NextSlot \in 1..RingMax /\ MAX_FILES \in Slots
      /\ NextOnDisk \in 1..cfgfile.max /\ cfgfile.max \in Slots
      /\ \A i \in Slots : i \in Nat \ {0} /\ 1..i \subseteq Slots
  BY RingFacts
<1>2. ~config_loaded' /\ UNCHANGED <<hkfile, committed>>
  BY DEF Crash, ResetRam
<1>3. CASE committed = <<>>
  BY <1>2, <1>3, NoRecords
<1>4. CASE committed # <<>>
  <2>1. cfgfile.state = "full" /\ cfgfile' = cfgfile
    BY <1>4 DEF Files, Crash
  <2>2. NextSlot' = NextOnDisk /\ RingMax' = cfgfile.max
    BY <1>2, <2>1 DEF NextSlot, RingMax, NextOnDisk, ConfigCur, ConfigMax
  <2>3. InStep'
    BY <1>2 DEF InStep
  <2>4. CASE ~config_loaded \/ cfgfile.max = MAX_FILES
    <3>1. NextSlot = NextOnDisk /\ RingMax = cfgfile.max
      BY <1>4, <2>1, <2>4, NextSlotIs DEF InStep
    <3>2. hkfile'.slot = hkfile.slot /\ UNCHANGED <<NextSlot, RingMax, committed>>
      BY <1>2, <2>2, <3>1
    <3>3. QED
      BY <2>3, <3>2, SamePlaces
  <2>5. CASE config_loaded /\ cfgfile.max # MAX_FILES
    <3>1. NextOnDisk = NextSlot /\ L < NextSlot
      BY <1>1, <1>4, <2>5 DEF InStep
    <3>2. NextSlot' = NextSlot /\ NextSlot <= RingMax /\ NextSlot <= RingMax'
      BY <1>1, <2>2, <3>1
    <3>3. NextSlot \in Nat /\ RingMax \in Nat /\ RingMax' \in Nat
      BY <1>1, <2>2
    <3>4. QED
      BY <1>1, <1>2, <2>3, <3>1, <3>2, <3>3, UnwrappedPlaces
  <2>6. QED
    BY <2>4, <2>5
<1>5. QED
  BY <1>3, <1>4

-----------------------------------------------------------------------------
LEMMA OrderStep == Typed /\ Guarded /\ RingInv /\ OrderInv /\ [Next]_vars => OrderInv'
<1> SUFFICES ASSUME Typed, Guarded, RingInv, OrderInv, [Next]_vars, RingClean'
             PROVE  Files' /\ Loading' /\ InStep' /\ Numbers' /\ Ordered' /\ Placed'
  BY DEF OrderInv
<1>1. RingClean
  BY MishapsStay DEF RingClean
<1>2. Files /\ Loading /\ InStep /\ Numbers /\ Ordered /\ Placed
  BY <1>1 DEF OrderInv
<1>3. Files' /\ Loading' /\ Numbers'
  BY <1>1, <1>2, FilesStep, NumbersStep
<1>4. CASE Still
  BY <1>1, <1>2, <1>3, <1>4, StillRing, SamePlaces, NoRecords
<1>5. CASE WriteOpen \/ WriteClose
  BY <1>1, <1>2, <1>3, <1>5, WriteRing
<1>6. CASE Store
  BY <1>1, <1>2, <1>3, <1>6, StoreRing
<1>7. CASE SetMaxGrow
  BY <1>1, <1>2, <1>3, <1>7, GrowRing
<1>8. CASE Crash
  BY <1>1, <1>2, <1>3, <1>8, CrashRing
<1>9. CASE HandlesRunOut
  BY <1>9 DEF HandlesRunOut, Note, RingClean, BreaksRing
<1>10. QED
  BY <1>3, <1>4, <1>5, <1>6, <1>7, <1>8, <1>9 DEF Next, CollectorStep, ServiceStep, Still, Quiet

LEMMA BehindIsBack ==
    ASSUME Typed, Guarded, RingInv, RingClean, NEW k \in 1..RingMax
    PROVE  Behind(k) = Back(k)
<1>1. RingMax \in Nat \ {0} /\ NextSlot \in 1..RingMax
  BY RingFacts
<1>2. QED
  BY <1>1, RingPositions DEF Behind, Back

(***************************************************************************)
(* The ring keeps the history, newest first, behind the next slot through  *)
(* every write, wrap, reload, growth and crash.                            *)
(***************************************************************************)
THEOREM RingKeepsOrder == Spec => []RingOrder
<1>1. Init => Typed /\ Guarded /\ RingInv /\ OrderInv
  BY TypedInit, GuardedInit, RingInit, OrderInit
<1>2. Typed /\ Guarded /\ RingInv /\ OrderInv => RingOrder
  <2> SUFFICES ASSUME Typed, Guarded, RingInv, OrderInv, RingClean,
                      NEW k \in 1..Len(committed), k < RingMax
               PROVE  hkfile.slot[Behind(k)] = committed[Len(committed) + 1 - k]
    BY DEF RingOrder, RingClean
  <2>1. RingMax \in Nat \ {0} /\ L \in Nat
    BY RingFacts
  <2>2. k \in 1..RingMax /\ k \in 1..L
    BY <2>1 DEF L
  <2>3. hkfile.slot[Back(k)] = committed[L + 1 - k]
    BY <2>2 DEF OrderInv, Ordered
  <2>4. QED
    BY <2>2, <2>3, BehindIsBack DEF L
<1>3. QED
  BY <1>1, <1>2, TypedStep, GuardedStep, RingStep, OrderStep, PTL DEF Spec

-----------------------------------------------------------------------------
(***************************************************************************)
(* The store as a log.  While the ring is clean, what a walk back finds is *)
(* the newest of the records committed, as many as there is room for.      *)
(***************************************************************************)
Room == IF L < RingMax THEN L ELSE RingMax - 1

StoreInv == Typed /\ Guarded /\ RingInv /\ OrderInv

KeepsNewest ==
    /\ L \in Nat /\ RingMax \in Nat \ {0} /\ Room \in 0..L /\ Room < RingMax
    /\ committed \in Seq(Int)
    /\ Kept = [k \in 1..Room |-> committed[L + 1 - k]]
    /\ committed = <<>> => Kept = <<>>

NewestInv == RingClean => KeepsNewest

LEMMA KeptIsNewest == StoreInv => NewestInv
<1> SUFFICES ASSUME StoreInv, RingClean PROVE KeepsNewest
  BY DEF NewestInv
<1>1. /\ L \in Nat /\ RingMax \in Slots /\ RingMax \in Nat \ {0}
  BY RingFacts DEF StoreInv
<1>2. Room \in 0..L /\ Room < RingMax
  BY <1>1 DEF Room
<1>3. ASSUME NEW k \in 1..Room PROVE hkfile.slot[Behind(k)] = committed[L + 1 - k]
  <2>1. k \in 1..RingMax /\ k \in 1..L /\ k < RingMax
    BY <1>1, <1>2
  <2>2. hkfile.slot[Back(k)] = committed[L + 1 - k]
    BY <2>1 DEF StoreInv, OrderInv, Ordered
  <2> QED
    BY <2>1, <2>2, BehindIsBack DEF StoreInv
<1>4. Kept = [k \in 1..Room |-> hkfile.slot[Behind(k)]]
  BY DEF Kept, Room, L
<1>5. committed \in Seq(Int)
  <2>1. committed \in Seq(1..MaxRecords)
    BY DEF StoreInv, Typed, TaskTypeOK
  <2> QED
    BY <2>1, BoundAssumption
<1>6. committed = <<>> => Kept = <<>>
  <2> SUFFICES ASSUME committed = <<>> PROVE Kept = <<>>
    OBVIOUS
  <2>1. L = 0
    BY DEF L
  <2>2. Room = 0
    BY <1>2, <2>1
  <2> QED
    BY <1>4, <2>2
<1> QED
  BY <1>1, <1>2, <1>3, <1>4, <1>5, <1>6 DEF KeepsNewest

RoomStays == \/ RingMax' = RingMax
             \/ L < RingMax /\ L < RingMax'

\* The ring grows, or shrinks in a crash, only before it has wrapped.
LEMMA RoomForAll ==
    ASSUME StoreInv, RingClean, RingClean', SetMaxGrow \/ Crash, committed # <<>>
    PROVE  committed' = committed /\ RoomStays
<1> USE DEF StoreInv, RoomStays
<1>1. /\ CursorOK /\ L \in Nat /\ MAX_FILES \in Slots /\ current_file \in Nat \ {0}
      /\ cpc \in Critical => ~Holds(Service)
      /\ RingMax \in Slots /\ NextSlot \in 1..RingMax
      /\ NextOnDisk \in 1..cfgfile.max /\ cfgfile.max \in Slots
      /\ \A i \in Slots : i \in Nat \ {0}
  BY RingFacts
<1>2. /\ Files /\ Loading /\ InStep /\ cfgfile.state = "full"
  BY DEF OrderInv, Files
<1>3. CASE SetMaxGrow
  <2>1. /\ MAX_FILES < new_max /\ MAX_FILES' = new_max /\ new_max \in Slots /\ Holds(Service)
        /\ UNCHANGED <<current_file, config_loaded, cfgfile, cpc, committed>>
    BY <1>3 DEF SetMaxGrow, diskVars, Typed, TaskTypeOK
  <2>2. current_file \in 1..MAX_FILES
    BY <1>1, <2>1 DEF CursorOK, Critical
  <2>3. L < current_file
    <3>1. "growfull" \notin mishaps'
      BY DEF RingClean, BreaksRing
    <3>2. ~(L >= current_file)
      BY <1>3, <3>1 DEF SetMaxGrow, Note, L
    <3> QED
      BY <1>1, <3>2
  <2>4. CASE config_loaded
    <3>1. RingMax = MAX_FILES /\ RingMax' = new_max
      BY <2>1, <2>4 DEF RingMax
    <3> QED
      BY <1>1, <2>1, <2>2, <2>3, <3>1
  <2>5. CASE ~config_loaded
    BY <1>2, <2>1, <2>5 DEF RingMax, ConfigMax
  <2> QED
    BY <2>4, <2>5
<1>4. CASE Crash
  <2>1. ~config_loaded' /\ committed' = committed /\ cfgfile' = cfgfile
    BY <1>2, <1>4 DEF Crash, ResetRam
  <2>2. RingMax' = cfgfile.max
    BY <1>2, <2>1 DEF RingMax, ConfigMax
  <2>3. CASE ~config_loaded \/ cfgfile.max = MAX_FILES
    BY <1>2, <2>1, <2>2, <2>3, NextSlotIs
  <2>4. CASE config_loaded /\ cfgfile.max # MAX_FILES
    <3>1. NextOnDisk = NextSlot /\ L < NextSlot
      BY <1>1, <1>2, <2>4 DEF InStep
    <3> QED
      BY <1>1, <2>1, <2>2, <3>1
  <2> QED
    BY <2>3, <2>4
<1> QED
  BY <1>3, <1>4

\* What a step does to the records and to the ring they are in.
LEMMA RecordsChange ==
    ASSUME StoreInv, RingClean, RingClean', [Next]_vars
    PROVE  \/ Store
           \/ committed' = <<>> /\ (spc = "set" \/ committed = <<>>)
           \/ committed' = committed /\ RoomStays
<1> USE DEF StoreInv
<1>1. Files /\ Loading /\ InStep /\ Numbers /\ Ordered /\ Placed
  BY DEF OrderInv
<1>2. CASE Still
  <2>1. committed' = <<>> \/ UNCHANGED <<RingMax, committed>>
    BY <1>1, <1>2, StillRing
  <2>2. SetMaxReset \/ committed' = committed
    <3>1. CASE Quiet
      BY <1>1, <3>1, RingFacts, QuietKeeps
    <3>2. CASE ~Quiet
      BY <1>2, <3>2 DEF Still, Collect, SkipConfig, LoadConfig, LoadAdvance, WriteFails, Stamp,
         Advance, WrapAround, SetMaxCleanup, histVars
    <3> QED
      BY <3>1, <3>2
  <2> QED
    BY <2>1, <2>2 DEF SetMaxReset, RoomStays
<1>3. CASE WriteOpen \/ WriteClose
  BY <1>1, <1>3, WriteRing DEF RoomStays
<1>4. CASE SetMaxGrow \/ Crash
  <2>1. committed' = committed
    BY <1>4 DEF SetMaxGrow, Crash
  <2> QED
    BY <1>4, <2>1, RoomForAll
<1>5. CASE HandlesRunOut
  BY <1>5 DEF HandlesRunOut, Note, RingClean, BreaksRing
<1> QED
  BY <1>2, <1>3, <1>4, <1>5 DEF Next, CollectorStep, ServiceStep, Still, Quiet

LEMMA StoreAdds ==
    ASSUME StoreInv, RingClean, KeepsNewest, KeepsNewest', Store
    PROVE  Log!Add(collected) /\ collected \in 1..MaxRecords
<1> USE DEF StoreInv
<1>1. Files /\ Loading /\ Numbers /\ Ordered /\ Placed
  BY DEF OrderInv
<1>2. /\ L \in Nat /\ RingMax \in Nat \ {0} /\ Room \in 0..L /\ Room < RingMax
      /\ committed \in Seq(Int) /\ Kept = [k \in 1..Room |-> committed[L + 1 - k]]
  BY DEF KeepsNewest
<1>3. /\ RingMax' = RingMax /\ L' = L + 1 /\ Room' \in 0..(L + 1)
      /\ Kept' = [k \in 1..Room' |-> committed'[L' + 1 - k]]
  <2>1. RingMax' = RingMax /\ L' = L + 1
    BY <1>1, StoreRing
  <2>2. Room' \in 0..L' /\ Kept' = [k \in 1..Room' |-> committed'[L' + 1 - k]]
    BY DEF KeepsNewest
  <2> QED
    BY <2>1, <2>2
<1>4. collected \in 1..MaxRecords /\ collected \in Int
  BY BoundAssumption DEF Store, Typed, TaskTypeOK, Progress
<1>5. committed'[L + 1] = collected /\ \A k \in 1..L : committed'[k] = committed[k]
  <2>1. committed' = Append(committed, collected)
    BY <1>1 DEF Store, Files
  <2> QED
    BY <1>2, <1>4, <2>1 DEF L
<1>6. Len(Kept) = Room
  BY <1>2
<1>7. Room' = IF Room + 1 < RingMax THEN Room + 1 ELSE RingMax - 1
  BY <1>2, <1>3 DEF Room
<1>8. ASSUME NEW k \in 1..Room'
      PROVE  committed'[L' + 1 - k] = IF k = 1 THEN collected ELSE Kept[k - 1]
  <2>1. CASE k = 1
    BY <1>2, <1>3, <1>5, <2>1
  <2>2. CASE k # 1
    <3>1. k - 1 \in 1..Room /\ L' + 1 - k = L + 1 - (k - 1) /\ L + 1 - (k - 1) \in 1..L
      BY <1>2, <1>3, <1>7, <2>2
    <3> QED
      BY <1>2, <1>5, <2>2, <3>1
  <2> QED
    BY <2>1, <2>2
<1>9. ASSUME NEW k \in 1..Len(Kept) PROVE Kept[k] < collected
  <2>1. k \in 1..Room /\ L + 1 - k \in 1..L
    BY <1>2, <1>6
  <2>2. committed[L + 1 - k] < collected
    BY <1>1, <2>1 DEF Numbers, Store
  <2> QED
    BY <1>2, <2>1, <2>2
<1>10. UNCHANGED <<RingMax, spc = "set", mishaps \cap BreaksRing # {}>>
  BY <1>3 DEF Store, BreaksRing
<1>11. Kept' = [k \in 1..(IF Len(Kept) + 1 < RingMax THEN Len(Kept) + 1 ELSE RingMax - 1) |->
                  IF k = 1 THEN collected ELSE Kept[k - 1]]
  BY ONLY <1>3, <1>6, <1>7, <1>8
<1> QED
  BY <1>4, <1>9, <1>10, <1>11 DEF Log!Add

LEMMA LogInit == Init => Log!Init
<1> SUFFICES ASSUME Init PROVE Log!Init
  OBVIOUS
<1>1. StoreInv /\ RingClean /\ committed = <<>>
  BY TypedInit, GuardedInit, RingInit, OrderInit DEF StoreInv, Init, RingClean
<1> QED
  BY <1>1, KeptIsNewest DEF NewestInv, KeepsNewest, Log!Init, RingClean

LEMMA LogStep ==
    StoreInv /\ NewestInv /\ NewestInv' /\ [Next]_vars
       => [Log!Next]_<<Kept, RingMax, spc = "set", mishaps \cap BreaksRing # {}>>
<1> SUFFICES ASSUME StoreInv, NewestInv, NewestInv', [Next]_vars PROVE Log!Next
  OBVIOUS
<1>1. CASE ~RingClean'
  BY <1>1 DEF RingClean, Log!Next, Log!Break
<1>2. CASE RingClean'
  <2>1. RingClean /\ UNCHANGED (mishaps \cap BreaksRing # {})
    BY <1>2, MishapsStay DEF RingClean
  <2>2. KeepsNewest /\ KeepsNewest'
    BY <1>2, <2>1 DEF NewestInv
  <2>3. RingMax' \in Nat \ {0}
    BY <2>2 DEF KeepsNewest
  <2>4. CASE Store
    BY <2>2, <2>1, <2>4, StoreAdds DEF Log!Next
  <2>5. CASE committed' = <<>> /\ spc = "set"
    <3>1. Kept' = <<>>
      BY <2>2, <2>5 DEF KeepsNewest
    <3> QED
      BY <2>1, <2>3, <2>5, <3>1 DEF Log!Next, Log!Forget
  <2>6. CASE committed' = <<>> /\ committed = <<>>
    <3>1. Kept' = <<>> /\ Kept = <<>>
      BY <2>2, <2>6 DEF KeepsNewest
    <3> QED
      BY <2>1, <2>3, <3>1 DEF Log!Next, Log!Keep
  <2>7. CASE committed' = committed /\ RoomStays
    <3>1. L' = L
      BY <2>7 DEF L
    <3>2. /\ L \in Nat /\ RingMax \in Nat \ {0} /\ Room \in 0..L /\ Room < RingMax
          /\ Kept = [k \in 1..Room |-> committed[L + 1 - k]]
      BY <2>2 DEF KeepsNewest
    <3>3. Room' = Room /\ Room < RingMax'
      BY <2>3, <2>7, <3>1, <3>2 DEF Room, RoomStays
    <3>4. Kept' = [k \in 1..Room' |-> committed'[L' + 1 - k]]
      BY <2>2 DEF KeepsNewest
    <3>5. Kept' = Kept /\ Len(Kept) = Room
      BY <2>7, <3>1, <3>2, <3>3, <3>4
    <3> QED
      BY <2>1, <2>3, <3>3, <3>5 DEF Log!Next, Log!Keep
  <2> QED
    BY <1>2, <2>1, <2>4, <2>5, <2>6, <2>7, RecordsChange
<1> QED
  BY <1>1, <1>2

(***************************************************************************)
(* The file, its cursor and the config file implement a log of the newest  *)
(* records: each store_config adds one, only SET_MAX_FILES takes records   *)
(* away before their time, and a crash at any step, a reload or a growing  *)
(* ring takes none.                                                        *)
(***************************************************************************)
THEOREM StoreImplementsLog == Spec => ImplementsLog
<1>1. Init => StoreInv
  BY TypedInit, GuardedInit, RingInit, OrderInit DEF StoreInv
<1>2. StoreInv /\ [Next]_vars => StoreInv'
  BY TypedStep, GuardedStep, RingStep, OrderStep DEF StoreInv
<1> QED
  BY <1>1, <1>2, KeptIsNewest, LogInit, LogStep, PTL DEF Spec, ImplementsLog, Log!Spec

-----------------------------------------------------------------------------
(***************************************************************************)
(* The pages of a GET_HK.  Due is the position in "committed" of the next  *)
(* record to send.  While that is still in the ring, the slot the fetch    *)
(* has stepped back to, or is about to, is the one the ring has it in:     *)
(* the records the collector adds meanwhile move the next slot and the     *)
(* distance from it together.                                              *)
(***************************************************************************)
Due == fetch.base - fetch.done

Leads(p) == Due >= 1 /\ L + 1 - Due <= MAX_FILES => p = Back(L + 1 - Due)

Pages ==
    /\ spc \in {"snapshot", "resolve"} => fetch.done = 0
    /\ fetch.loaded /\ spc \in {"read", "send"} => fetch.base <= L
    /\ fetch.loaded /\ spc = "read" => Leads(Older)
    /\ fetch.loaded /\ spc = "send" => Leads(fetch.before)

PagesInv == RingClean => Pages

LEMMA PagesInit == Init => PagesInv
BY DEF Init, PagesInv, Pages

LEMMA BackOneMore ==
    ASSUME RingMax \in Nat, NextSlot \in 1..RingMax, NEW d \in 1..(RingMax - 1)
    PROVE  Back(d + 1) = IF Back(d) = 1 THEN RingMax ELSE Back(d) - 1
BY DEF Back

LEMMA FetchType ==
    Typed => /\ fetch.base \in Int /\ fetch.done \in Nat /\ fetch.before \in Nat
             /\ fetch.max \in Nat \ {0} /\ fetch.limit \in Nat
BY HardMaxAssumption DEF Typed, TaskTypeOK, Fetch, Slots

\* A step of another task that moves neither the records nor the next slot.
LEMMA PagesKept ==
    ASSUME Typed, Pages, fetch.loaded => PageOK, fetch.loaded => PageOK',
           UNCHANGED <<spc, fetch, committed>>,
           committed' = <<>> \/ (NextSlot' = NextSlot /\ RingMax' = RingMax)
    PROVE  Pages'
<1>1. L' = L /\ Due' = Due /\ Older' = Older
  BY DEF L, Due, Older
<1>2. spc' \in {"snapshot", "resolve"} => fetch'.done = 0
  BY DEF Pages
<1>3. CASE ~(fetch.loaded /\ spc \in {"read", "send"})
  BY <1>2, <1>3 DEF Pages
<1>4. CASE fetch.loaded /\ spc \in {"read", "send"} /\ committed' = <<>>
  <2>1. L = 0 /\ fetch.base <= L /\ fetch.base \in Int /\ fetch.done \in Nat
    BY <1>1, <1>4, FetchType DEF L, Pages
  <2>2. ~(Due >= 1)
    BY <2>1 DEF Due
  <2>3. QED
    BY <1>1, <1>2, <2>1, <2>2 DEF Pages, Leads
<1>5. CASE fetch.loaded /\ spc \in {"read", "send"} /\ NextSlot' = NextSlot /\ RingMax' = RingMax
  <2>1. MAX_FILES' = MAX_FILES
    BY <1>5 DEF PageOK, RingMax
  <2>2. \A d : Back(d)' = Back(d)
    BY <1>5 DEF Back
  <2>3. \A p : Leads(p)' = Leads(p)
    BY <1>1, <2>1, <2>2 DEF Leads
  <2>4. QED
    BY <1>1, <1>5, <2>3 DEF Pages, Leads
<1>6. QED
  BY <1>3, <1>4, <1>5

\* Where a GET_HK starts: at current_file, read at whatever point of its
\* increment, or at the slot of the record asked for.
LEMMA ResolvePages ==
    ASSUME Typed, Guarded, RingInv, RingClean, Loading, Placed, PageOK, Pages, fetch.loaded,
           Resolve
    PROVE  Pages'
<1> DEFINE newest == fetch.before = 0 \/ fetch.before > fetch.max
           start == IF newest THEN current_file ELSE fetch.before
           base == IF newest THEN BaseNewest ELSE BaseBefore(fetch.before)
           limit == IF fetch.limit > fetch.max THEN fetch.max ELSE fetch.limit
<1>1. /\ CursorOK /\ L \in Nat /\ MAX_FILES \in Nat \ {0} /\ current_file \in Nat \ {0}
      /\ RingMax \in Nat \ {0} /\ NextSlot \in 1..RingMax
  BY RingFacts
<1>2. /\ fetch.base \in Int /\ fetch.done \in Nat /\ fetch.before \in Nat
      /\ fetch.max \in Nat \ {0}
  BY FetchType
<1>3. config_loaded /\ fetch.max = MAX_FILES /\ fetch.done = 0
  BY DEF Resolve, PageOK, Pages
<1>4. fetch' = [fetch EXCEPT !.before = start, !.base = base, !.limit = limit]
  BY DEF Resolve
<1>5. /\ fetch'.before = start /\ fetch'.base = base /\ fetch'.max = MAX_FILES
      /\ fetch'.done = 0
  BY <1>3, <1>4 DEF Typed, TaskTypeOK, Fetch
<1>6. /\ spc' \in {"idle", "read"}
      /\ UNCHANGED <<MAX_FILES, current_file, config_loaded, hkfile, cfgfile, cpc, committed>>
  BY DEF Resolve, storeVars, ramVars, diskVars, histVars
<1>7. NextSlot' = NextSlot /\ RingMax' = RingMax /\ L' = L /\ RingMax = MAX_FILES
  BY <1>3, <1>6 DEF NextSlot, RingMax, L, ConfigMax, ConfigCur
<1>8. Due' = base /\ Older' = IF start = 1 THEN MAX_FILES ELSE start - 1
  <2>1. base \in Int
    <3>1. BaseNewest \in Int
      BY <1>1 DEF BaseNewest, L
    <3>2. BaseBefore(fetch.before) \in Int
      <4> DEFINE at == {k \in 1..Len(committed) :
                            fetch.before \in Slots /\ committed[k] = hkfile.slot[fetch.before]}
      <4>1. CASE at = {}
        BY <4>1 DEF BaseBefore
      <4>2. CASE at # {}
        <5>1. (CHOOSE k \in at : TRUE) \in Int
          BY <1>1, <4>2 DEF L
        <5>2. QED
          BY <4>2, <5>1 DEF BaseBefore
      <4>3. QED
        BY <4>1, <4>2
    <3>3. QED
      BY <3>1, <3>2
  <2>2. Due' = fetch'.base - fetch'.done
    BY DEF Due
  <2>3. QED
    BY <1>5, <2>1, <2>2 DEF Older
<1>9. ASSUME base <= L, base >= 1 /\ L + 1 - base <= MAX_FILES => Older' = Back(L + 1 - base)
      PROVE  Pages'
  <2>1. Leads(Older)'
    BY <1>6, <1>7, <1>8, <1>9 DEF Leads, Back
  <2>2. QED
    BY <1>5, <1>6, <1>7, <1>9, <2>1 DEF Pages
<1>10. CASE newest /\ cpc = "advance"
  <2>1. base = L - 1 /\ start = current_file /\ current_file \in 1..MAX_FILES
    BY <1>1, <1>10 DEF BaseNewest, L, CursorOK
  <2>2. NextSlot = Wrap(current_file + 1, MAX_FILES)
    BY <1>3, <1>10 DEF NextSlot
  <2>3. L + 1 - base = 2
    BY <1>1, <2>1
  <2>4. 2 <= MAX_FILES => Older' = Back(2)
    BY <1>1, <1>7, <1>8, <2>1, <2>2 DEF Back, Wrap
  <2>5. QED
    BY <1>1, <1>9, <2>1, <2>3, <2>4
<1>11. CASE newest /\ cpc # "advance"
  <2>1. base = L /\ start = current_file
    BY <1>11 DEF BaseNewest, L
  <2>2. NextSlot = Wrap(current_file, MAX_FILES)
    BY <1>3, <1>11 DEF NextSlot
  <2>3. L + 1 - base = 1
    BY <1>1, <2>1
  <2>4. Older' = Back(1)
    BY <1>1, <1>7, <1>8, <2>1, <2>2 DEF Back, Wrap, CursorOK
  <2>5. QED
    BY <1>1, <1>9, <2>1, <2>3, <2>4
<1>12. CASE ~newest
  <2> DEFINE at == {k \in 1..Len(committed) :
                        fetch.before \in Slots /\ committed[k] = hkfile.slot[fetch.before]}
  <2>1. base = BaseBefore(fetch.before) /\ start = fetch.before
    BY <1>12
  <2>2. CASE at = {}
    <3>1. base = -1
      BY <2>1, <2>2 DEF BaseBefore
    <3>2. QED
      BY <1>1, <1>9, <3>1
  <2>3. CASE at # {}
    <3>1. PICK k \in at : base = k - 1
      BY <2>1, <2>3 DEF BaseBefore
    <3>2. k \in 1..L /\ fetch.before \in Slots /\ hkfile.slot[fetch.before] = committed[k]
      BY <3>1 DEF L
    <3>3. L + 1 - k \in 1..L /\ L + 1 - (L + 1 - k) = k
      BY <1>1, <3>2
    <3>4. L + 1 - k <= RingMax /\ fetch.before = Back(L + 1 - k)
      BY <3>2, <3>3 DEF Placed
    <3>5. L + 1 - base = (L + 1 - k) + 1
      BY <1>1, <3>1, <3>2
    <3>6. ASSUME L + 1 - base <= MAX_FILES PROVE Older' = Back(L + 1 - base)
      <4>1. L + 1 - k \in 1..(RingMax - 1)
        BY <1>1, <1>7, <3>3, <3>5, <3>6
      <4>2. Back((L + 1 - k) + 1) = IF fetch.before = 1 THEN RingMax ELSE fetch.before - 1
        BY <1>1, <3>4, <4>1, BackOneMore
      <4>3. QED
        BY <1>7, <1>8, <2>1, <3>5, <4>2
    <3>7. base <= L
      BY <1>1, <3>1, <3>2
    <3>8. QED
      BY <1>9, <3>6, <3>7
  <2>4. QED
    BY <2>2, <2>3
<1>13. QED
  BY <1>10, <1>11, <1>12

LEMMA PagesStep ==
    Typed /\ Guarded /\ RingInv /\ OrderInv /\ PageInv /\ PagesInv /\ [Next]_vars => PagesInv'
<1> SUFFICES ASSUME Typed, Guarded, RingInv, OrderInv, PageInv, PagesInv, [Next]_vars, RingClean'
             PROVE  Pages'
  BY DEF PagesInv
<1>1. RingClean
  BY MishapsStay DEF RingClean
<1>2. Files /\ Loading /\ InStep /\ Numbers /\ Ordered /\ Placed /\ Pages
  BY <1>1 DEF OrderInv, PagesInv
<1>3. (fetch.loaded => PageOK) /\ (fetch'.loaded => PageOK')
  <2>1. PageInv'
    BY PageStep
  <2>2. QED
    BY <1>1, <2>1 DEF PageInv, RingClean, BreaksRing
<1>4. /\ CursorOK /\ L \in Nat
      /\ RingMax \in Nat \ {0} /\ NextSlot \in 1..RingMax
  BY <1>1, RingFacts
<1>5. /\ fetch \in Fetch /\ fetch.base \in Int /\ fetch.done \in Nat /\ fetch.before \in Nat
      /\ fetch.max \in Nat \ {0}
  BY FetchType DEF Typed, TaskTypeOK
<1>6. ASSUME UNCHANGED <<spc, fetch, committed>>, Still
      PROVE  Pages'
  <2>1. committed' = <<>> \/ (NextSlot' = NextSlot /\ RingMax' = RingMax)
    BY <1>1, <1>2, <1>6, StillRing
  <2>2. QED
    BY <1>2, <1>3, <1>6, <2>1, PagesKept
<1>7. CASE \/ \E t \in Task : LockStep(t)
           \/ Collect \/ SkipConfig \/ LoadConfig \/ LoadAdvance \/ WriteFails \/ Stamp
           \/ Advance \/ WrapAround \/ UNCHANGED vars
  <2>1. UNCHANGED <<spc, fetch, committed>>
    BY <1>7 DEF LockStep, Collect, SkipConfig, LoadConfig, LoadAdvance, WriteFails, Stamp, Advance,
       WrapAround, vars, taskVars, histVars
  <2>2. QED
    BY <1>6, <1>7, <2>1 DEF Still, Quiet
<1>8. CASE WriteOpen \/ WriteClose
  <2>1. UNCHANGED <<spc, fetch>>
    BY <1>8 DEF WriteOpen, WriteClose
  <2>2. UNCHANGED <<NextSlot, RingMax, committed>>
    BY <1>1, <1>2, <1>8, WriteRing
  <2>3. QED
    BY <1>2, <1>3, <2>1, <2>2, PagesKept
<1>9. CASE Store
  <2>1. UNCHANGED <<spc, fetch, MAX_FILES>> /\ Due' = Due /\ Older' = Older
    BY <1>9 DEF Store, ramVars, Due, Older
  <2>2. /\ L' = L + 1 /\ RingMax' = RingMax
        /\ \A d \in 1..(RingMax - 1) : Back(d + 1)' = Back(d)
    BY <1>1, <1>2, <1>9, StoreRing
  <2>3. ASSUME fetch.loaded, spc \in {"read", "send"}, NEW p, Leads(p) PROVE Leads(p)'
    <3>1. SUFFICES ASSUME Due' >= 1, L' + 1 - Due' <= MAX_FILES' PROVE p = Back(L + 1 - Due)'
      BY DEF Leads
    <3>2. RingMax = MAX_FILES /\ fetch.base <= L
      BY <1>2, <1>3, <2>3 DEF RingMax, PageOK, Pages
    <3>3. Due \in Int /\ Due <= L
      BY <1>4, <1>5, <3>2 DEF Due
    <3>4. L + 1 - Due \in 1..(RingMax - 1)
      BY <1>4, <2>1, <2>2, <3>1, <3>2, <3>3
    <3>5. PICK d \in 1..(RingMax - 1) : d = L + 1 - Due
      BY <3>4
    <3>6. p = Back(d) /\ Back(d + 1)' = Back(d)
      BY <1>4, <2>1, <2>2, <2>3, <3>1, <3>2, <3>5 DEF Leads
    <3>7. L' + 1 - Due' = d + 1
      BY <1>4, <2>1, <2>2, <3>3, <3>5
    <3>8. QED
      BY <3>6, <3>7 DEF Back
  <2>4. fetch.loaded /\ spc \in {"read", "send"} => fetch.base <= L'
    BY <1>2, <1>4, <1>5, <2>2 DEF Pages
  <2>5. fetch.loaded /\ spc = "read" => Leads(Older)'
    BY <1>2, <2>1, <2>3 DEF Pages, Leads
  <2>6. fetch.loaded /\ spc = "send" => Leads(fetch.before)'
    BY <1>2, <2>1, <2>3 DEF Pages, Leads
  <2>7. QED
    BY <1>2, <2>1, <2>4, <2>5, <2>6 DEF Pages
<1>10. CASE \/ \E n \in Resizes : RecvSetMax(n)
            \/ SetMaxGrow \/ SetMaxReset \/ SetMaxCleanup
            \/ ReadCreates \/ ReadUnlinks \/ ReadWithoutHandles \/ SendFails
  BY <1>10 DEF RecvSetMax, SetMaxGrow, SetMaxReset, SetMaxCleanup, ReadCreates, ReadUnlinks,
     ReadWithoutHandles, SendFails, Pages
<1>11. CASE \E l \in Limits, b \in 0..HardMax, bytime \in BOOLEAN : RecvGetHk(l, b, bytime)
  BY <1>11 DEF RecvGetHk, NoFetch, Pages
<1>12. CASE Snapshot
  <2>1. fetch'.done = fetch.done /\ spc = "snapshot" /\ spc' = "resolve"
    BY <1>5, <1>12 DEF Snapshot
  <2>2. QED
    BY <1>2, <2>1 DEF Pages
<1>13. CASE Resolve
  <2>1. CASE fetch.loaded
    BY <1>1, <1>2, <1>3, <1>13, <2>1, ResolvePages
  <2>2. CASE ~fetch.loaded
    <3>1. fetch'.loaded = fetch.loaded /\ spc' \in {"idle", "read"}
      BY <1>5, <1>13 DEF Resolve
    <3>2. QED
      BY <2>2, <3>1 DEF Pages
  <2>3. QED
    BY <2>1, <2>2
<1>14. CASE ReadHk
  <2>1. /\ fetch'.before = Older /\ UNCHANGED <<fetch.base, fetch.done, fetch.loaded>>
        /\ spc = "read" /\ spc' = "send"
    BY <1>5, <1>14 DEF ReadHk, Fetch
  <2>2. UNCHANGED <<MAX_FILES, current_file, config_loaded, cfgfile, cpc, committed>>
    BY <1>14 DEF ReadHk, storeVars, ramVars, diskVars, histVars
  <2>3. NextSlot' = NextSlot /\ RingMax' = RingMax /\ L' = L /\ Due' = Due
    BY <2>1, <2>2 DEF NextSlot, RingMax, L, Due, ConfigMax, ConfigCur
  <2>4. \A d : Back(d)' = Back(d)
    BY <2>3 DEF Back
  <2>5. QED
    BY <1>2, <2>1, <2>2, <2>3, <2>4 DEF Pages, Leads
<1>15. CASE Send
  <2>1. PICK final \in IF fetch.limit > 1 THEN {TRUE} ELSE BOOLEAN :
          fetch' = [fetch EXCEPT !.limit = fetch.limit - 1, !.done = fetch.done + 1,
                                 !.final = final]
    BY <1>15 DEF Send
  <2>2. /\ UNCHANGED <<fetch.before, fetch.base, fetch.loaded, fetch.max>>
        /\ fetch'.done = fetch.done + 1
    BY <1>5, <2>1 DEF Fetch
  <2>3. /\ spc = "send" /\ spc' \in {"idle", "read"}
        /\ UNCHANGED <<MAX_FILES, current_file, config_loaded, cfgfile, cpc, committed>>
    BY <1>15 DEF Send, storeVars, ramVars, diskVars, histVars
  <2>4. NextSlot' = NextSlot /\ RingMax' = RingMax /\ L' = L /\ Due' = Due - 1
    BY <1>5, <2>2, <2>3 DEF NextSlot, RingMax, L, Due, ConfigMax, ConfigCur
  <2>5. ASSUME fetch.loaded, Due' >= 1, L + 1 - Due' <= MAX_FILES
        PROVE  Older' = Back(L + 1 - Due')
    <3>1. RingMax = MAX_FILES /\ fetch.max = MAX_FILES /\ fetch.base <= L
      BY <1>2, <1>3, <2>3, <2>5 DEF RingMax, PageOK, Pages
    <3>2. Due \in Int /\ Due <= L
      BY <1>4, <1>5, <3>1 DEF Due
    <3>3. L + 1 - Due \in 1..(RingMax - 1) /\ L + 1 - Due' = (L + 1 - Due) + 1 /\ Due >= 1
      BY <1>4, <2>4, <2>5, <3>1, <3>2
    <3>4. fetch.before = Back(L + 1 - Due)
      BY <1>2, <1>4, <2>3, <2>5, <3>1, <3>3 DEF Pages, Leads
    <3>5. Older' = IF fetch.before = 1 THEN RingMax ELSE fetch.before - 1
      BY <2>2, <3>1 DEF Older
    <3>6. QED
      BY <1>4, <3>3, <3>4, <3>5, BackOneMore
  <2>6. fetch.loaded => Leads(Older)'
    BY <2>3, <2>4, <2>5 DEF Leads, Back
  <2>7. QED
    BY <1>2, <2>2, <2>3, <2>4, <2>6 DEF Pages
<1>16. CASE HandlesRunOut
  BY <1>16 DEF HandlesRunOut, Note, RingClean, BreaksRing
<1>17. CASE Crash
  BY <1>17 DEF Crash, Pages
<1>18. QED
  BY <1>7, <1>8, <1>9, <1>10, <1>11, <1>12, <1>13, <1>14, <1>15, <1>16, <1>17
     DEF Next, CollectorStep, ServiceStep

(***************************************************************************)
(* Every packet of a GET_HK carries the record that was due, as long as    *)
(* the ring still holds it.                                                *)
(***************************************************************************)
THEOREM PagesFollowHistory == Spec => FetchPagesBack
<1>1. Init => Typed /\ Guarded /\ RingInv /\ OrderInv /\ PageInv /\ PagesInv
  BY TypedInit, GuardedInit, RingInit, OrderInit, PageInit, PagesInit
<1> DEFINE Right == /\ spc = "read" /\ spc' = "send" /\ mishaps \cap BreaksRing = {}
                    /\ fetch.loaded
                    /\ Retained(fetch.base - fetch.done)
                    => fetch'.buf = committed[fetch.base - fetch.done]
<1>2. Typed /\ Guarded /\ RingInv /\ OrderInv /\ PageInv /\ PagesInv /\ [Next]_vars => [Right]_vars
  <2> SUFFICES ASSUME Typed, Guarded, RingInv, OrderInv, PageInv, PagesInv, [Next]_vars,
                      spc = "read", spc' = "send", RingClean, fetch.loaded, Retained(Due)
               PROVE  fetch'.buf = committed[Due]
    BY DEF RingClean, Due
  <2>1. ReadHk
    BY DEF Next, LockStep, Collect, CollectorStep, ServiceStep, SkipConfig, LoadConfig, LoadAdvance,
       WriteOpen, WriteClose, WriteFails, Stamp, Store, Advance, WrapAround, RecvSetMax,
       SetMaxGrow, SetMaxReset, SetMaxCleanup, RecvGetHk, Snapshot, Resolve, ReadCreates,
       ReadUnlinks, ReadWithoutHandles, Send, SendFails, HandlesRunOut, Crash, taskVars, vars
  <2>2. fetch'.buf = ReadRecord(Older, fetch.buf)
    <3>1. fetch \in Fetch
      BY DEF Typed, TaskTypeOK
    <3>2. QED
      BY <2>1, <3>1 DEF ReadHk, Fetch
  <2>3. config_loaded /\ fetch.max = MAX_FILES
    BY DEF PageInv, PageOK, RingClean, BreaksRing
  <2>4. /\ L \in Nat /\ RingMax \in Slots /\ NextSlot \in 1..RingMax /\ RingMax = MAX_FILES
        /\ \A i \in Slots : i \in Nat \ {0} /\ 1..i \subseteq Slots
    BY <2>3, RingFacts DEF RingMax
  <2>5. Due \in 1..L /\ Due > L + 1 - MAX_FILES
    BY DEF Retained, L
  <2>6. PICK d \in 1..L : d = L + 1 - Due
    BY <2>4, <2>5
  <2>7. d < RingMax /\ L + 1 - d = Due /\ d \in 1..RingMax /\ L + 1 - Due <= MAX_FILES /\ Due >= 1
    BY <2>4, <2>5, <2>6
  <2>8. Older = Back(d)
    BY <2>6, <2>7 DEF PagesInv, Pages, Leads
  <2>9. hkfile.slot[Older] = committed[Due]
    BY <2>7, <2>8 DEF OrderInv, Ordered
  <2>10. committed[Due] # 0
    <3>1. committed \in Seq(1..MaxRecords) /\ Due \in 1..Len(committed)
      BY <2>5 DEF Typed, TaskTypeOK, L
    <3>2. committed[Due] \in 1..MaxRecords
      BY <3>1, BoundAssumption
    <3>3. QED
      BY <3>2, BoundAssumption
  <2>11. Older \in Slots
    BY <2>4, <2>7, <2>8, BackInRing
  <2>12. ~PastEnd(Older)
    BY <2>4, <2>9, <2>10, <2>11 DEF PastEnd
  <2>13. QED
    BY <2>2, <2>9, <2>12 DEF ReadRecord
<1>3. QED
  BY <1>1, <1>2, TypedStep, GuardedStep, RingStep, OrderStep, PageStep, PagesStep, PTL
     DEF Spec, FetchPagesBack

-----------------------------------------------------------------------------
(***************************************************************************)
(* The invariant of the index, as long as nothing happened that breaks it. *)
(* Entry(i) is what the index says of slot i: with no block it says that   *)
(* nothing is there, as the handler clears what it allocates.              *)
(***************************************************************************)
IndexClean == mishaps \cap BreaksIndex = {}

Entry(i) == IF timestamps.block = "live" THEN timestamps.item[i] ELSE 0

IndexShape ==
    /\ spc # "cleanup" =>
          timestamps.size = IF timestamps.block = "live" THEN MAX_FILES ELSE 0
    /\ ~config_loaded /\ cpc # "loaded" => timestamps.block = "null"
    /\ cpc \in {"loaded", "store", "advance"} => timestamps.block = "live"
    /\ spc = "cleanup" => "shrink" \in mishaps

ConfigShape ==
    /\ cfgfile.state # "empty"
    /\ \A i \in Slots : i > cfgfile.len => cfgfile.item[i] = 0
    /\ config_loaded /\ committed # <<>> => cfgfile.max = MAX_FILES
    /\ cfgfile.state = "full" /\ "shrink" \notin mishaps => committed # <<>>

\* Before the first store_config only slot 1 can have been written.
Fresh ==
    cfgfile.state = "absent" =>
        /\ current_file = 1 /\ cpc \notin {"advance", "wrap"}
        /\ \A i \in Slots \ {1} : hkfile.slot[i] = 0

\* The index in RAM; load_config has yet to step over the slot it read last.
RamMatches ==
    /\ spc # "cleanup" /\ config_loaded =>
          \A i \in 1..MAX_FILES : \/ Entry(i) = hkfile.slot[i]
                                  \/ i = current_file /\ cpc \notin {"store", "advance"}
    /\ cpc = "loaded" =>
          \A i \in 1..MAX_FILES :
              i # Wrap(current_file + 1, MAX_FILES) => timestamps.item[i] = hkfile.slot[i]

\* The index in the config file, until set_max_files leaves it behind.
DiskMatches ==
    "shrink" \notin mishaps /\ committed # <<>> =>
        \A i \in 1..cfgfile.max : i # NextOnDisk => cfgfile.item[i] = hkfile.slot[i]

IndexOK == IndexShape /\ ConfigShape /\ Fresh /\ RamMatches /\ DiskMatches

IndexInv == IndexClean => IndexOK

LEMMA IndexInit == Init => IndexInv
<1> SUFFICES ASSUME Init PROVE IndexOK
  BY DEF IndexInv
<1>1. /\ timestamps = NoIndex /\ cfgfile = NoConfig /\ hkfile = NoHkFile /\ ~config_loaded
      /\ current_file = 1 /\ cpc = "idle" /\ spc = "idle" /\ committed = <<>>
  BY DEF Init, StoreInit
<1>2. IndexShape /\ RamMatches /\ DiskMatches
  BY <1>1 DEF IndexShape, RamMatches, DiskMatches, NoIndex
<1>3. ConfigShape /\ Fresh
  BY <1>1 DEF ConfigShape, Fresh, NoConfig, NoHkFile, NoItems
<1>4. QED
  BY <1>2, <1>3 DEF IndexOK

\* The steps that change nothing of all this but where the collector is, among
\* the places of which it makes no difference.
LEMMA IndexKept ==
    ASSUME IndexOK, mishaps \subseteq mishaps',
           UNCHANGED <<MAX_FILES, current_file, config_loaded, timestamps, cfgfile, committed>>,
           hkfile'.slot = hkfile.slot, spc' = "cleanup" <=> spc = "cleanup",
           \/ cpc' = cpc
           \/ /\ cpc \in {"idle", "load", "write", "writing"}
              /\ cpc' \in {"idle", "load", "write", "writing"}
    PROVE  IndexOK'
<1>1. \A i : Entry(i)' = Entry(i)
  BY DEF Entry
<1>2. NextOnDisk' = NextOnDisk
  BY DEF NextOnDisk
<1>3. IndexShape'
  BY DEF IndexOK, IndexShape
<1>4. ConfigShape' /\ Fresh'
  BY DEF IndexOK, ConfigShape, Fresh
<1>5. RamMatches'
  BY <1>1 DEF IndexOK, RamMatches
<1>6. DiskMatches'
  BY <1>2 DEF IndexOK, DiskMatches
<1>7. QED
  BY <1>3, <1>4, <1>5, <1>6 DEF IndexOK

\* The array handler when it has no block to resize, or nothing to do.
LEMMA HandlerGivesIndex ==
    ASSUME NEW n \in Slots, timestamps \in Index,
           timestamps.size = IF timestamps.block = "live" THEN n ELSE 0,
           NEW o \in HandlerOutcomes(n), o.ok
    PROVE  /\ o.index.block = "live" /\ o.index.size = n
           /\ o.index.item \in [Slots -> Item]
           /\ \A i \in 1..n : o.index.item[i] = Entry(i)
<1>1. n \in Nat \ {0} /\ 1..n \subseteq Slots
  BY HardMaxAssumption DEF Slots
<1>2. o.index = ResizedIndex(n)
  BY <1>1 DEF HandlerOutcomes
<1>3. CASE timestamps.block = "live"
  BY <1>2, <1>3 DEF ResizedIndex, Entry, Index
<1>4. CASE timestamps.block # "live"
  <2>1. n # timestamps.size /\ timestamps.size = 0
    BY <1>1, <1>4
  <2> DEFINE copies == timestamps.block # "null" /\ timestamps.size < n
             NewItem(i) == CASE i > n -> 0
                             [] i > timestamps.size /\ i <= n -> 0
                             [] copies /\ i < timestamps.size -> timestamps.item[i]
                             [] OTHER -> Garbage
  <2>2. ASSUME NEW i \in Slots PROVE NewItem(i) = 0
    <3>1. i \in Nat /\ i > timestamps.size /\ ~(i < timestamps.size)
      BY <2>1, HardMaxAssumption DEF Slots
    <3>2. QED
      BY <1>1, <3>1
  <2>3. o.index = [block |-> "live", size |-> n, item |-> [i \in Slots |-> NewItem(i)]]
    BY <1>2, <2>1 DEF ResizedIndex
  <2>4. \A i \in Slots : o.index.item[i] = 0
    BY <2>2, <2>3
  <2>5. o.index.item \in [Slots -> Item]
    BY <2>2, <2>3 DEF Item
  <2>6. QED
    BY <1>1, <1>4, <2>3, <2>4, <2>5 DEF Entry
<1>5. QED
  BY <1>3, <1>4

LEMMA IndexClears == IndexClean => RingClean
BY DEF IndexClean, RingClean, BreaksIndex

LEMMA IndexLoads ==
    ASSUME Typed, Guarded, RingInv, OrderInv, IndexClean, IndexOK, LoadConfig, IndexClean'
    PROVE  IndexOK'
<1>1. RingClean /\ Files /\ Loading
  BY IndexClears DEF OrderInv
<1>2. /\ cfgfile.max \in Slots /\ \A i \in Slots : i \in Nat \ {0} /\ 1..i \subseteq Slots
  BY <1>1, RingFacts
<1>3. /\ cpc = "load" /\ Holds(Collector) /\ ~config_loaded /\ cfgfile.state # "absent"
      /\ MAX_FILES' = ConfigMax /\ current_file' = ConfigCur
      /\ UNCHANGED <<hkfile, cfgfile, spc, committed>>
  BY DEF LoadConfig
<1>4. cfgfile.state = "full" /\ ConfigMax = cfgfile.max /\ ConfigCur = cfgfile.cur
  BY <1>3 DEF IndexOK, ConfigShape, Typed, StoreTypeOK, ConfigFile, ConfigMax, ConfigCur
<1>5. spc # "cleanup"
  BY <1>1, <1>3, GuardedExcludes DEF Guarded, Holders, RingClean, BreaksRing
<1>6. timestamps.block = "null" /\ timestamps.size = 0 /\ timestamps \in Index
  BY <1>3, <1>5 DEF IndexOK, IndexShape, Typed, StoreTypeOK
<1>7. PICK o \in HandlerOutcomes(cfgfile.max) :
          /\ timestamps' = IF o.ok THEN LoadedIndex(o.index) ELSE timestamps
          /\ config_loaded' = ~o.ok
          /\ cpc' = IF o.ok THEN "loaded" ELSE "write"
          /\ Note((IF o.ok THEN {} ELSE {"nomemory"})
                  \cup (IF "shrink" \in mishaps THEN {"staleload"} ELSE {}))
  BY <1>4 DEF LoadConfig
<1>8. o.ok /\ "shrink" \notin mishaps /\ mishaps' = mishaps
  BY <1>7 DEF Note, IndexClean, BreaksIndex, BreaksRing
<1>9. timestamps' = LoadedIndex(o.index) /\ ~config_loaded' /\ cpc' = "loaded"
  BY <1>7, <1>8
<1>10. /\ o.index.block = "live" /\ o.index.size = cfgfile.max
       /\ \A i \in 1..cfgfile.max : o.index.item[i] = 0
  BY <1>2, <1>6, <1>8, HandlerGivesIndex DEF Entry
<1>11. timestamps'.block = "live" /\ timestamps'.size = cfgfile.max
  BY <1>9, <1>10 DEF LoadedIndex
<1>12. ASSUME NEW i \in 1..cfgfile.max PROVE timestamps'.item[i] = cfgfile.item[i]
  <2>1. i \in Slots /\ i <= cfgfile.max
    BY <1>2
  <2>2. timestamps'.item[i] = IF i <= cfgfile.len THEN cfgfile.item[i] ELSE 0
    BY <1>9, <1>10, <2>1 DEF LoadedIndex
  <2>3. ~(i <= cfgfile.len) => cfgfile.item[i] = 0
    BY <1>2, <2>1 DEF IndexOK, ConfigShape, Typed, StoreTypeOK, ConfigFile
  <2>4. QED
    BY <2>2, <2>3
<1>13. committed # <<>>
  BY <1>4, <1>8 DEF IndexOK, ConfigShape
<1>14. IndexShape'
  BY <1>3, <1>4, <1>5, <1>9, <1>11 DEF IndexShape
<1>15. ConfigShape' /\ Fresh'
  BY <1>3, <1>4, <1>8, <1>9 DEF IndexOK, ConfigShape, Fresh
<1>16. RamMatches'
  <2>1. \A i \in 1..cfgfile.max : i # NextOnDisk => cfgfile.item[i] = hkfile.slot[i]
    BY <1>8, <1>13 DEF IndexOK, DiskMatches
  <2>2. MAX_FILES' = cfgfile.max /\ Wrap(current_file' + 1, MAX_FILES') = NextOnDisk
    BY <1>3, <1>4 DEF NextOnDisk
  <2>3. \A i \in 1..MAX_FILES' :
          i # Wrap(current_file' + 1, MAX_FILES') => timestamps'.item[i] = hkfile'.slot[i]
    BY <1>3, <1>12, <2>1, <2>2
  <2>4. QED
    BY <1>9, <2>3 DEF RamMatches
<1>17. DiskMatches'
  BY <1>3, <1>8 DEF IndexOK, DiskMatches, NextOnDisk
<1>18. QED
  BY <1>14, <1>15, <1>16, <1>17 DEF IndexOK

LEMMA IndexWrites ==
    ASSUME Typed, Guarded, RingInv, OrderInv, IndexClean, IndexOK, WriteOpen \/ WriteClose
    PROVE  IndexOK'
<1>1. RingClean /\ Files /\ Loading /\ InStep
  BY IndexClears DEF OrderInv
<1>2. /\ CursorOK /\ MAX_FILES \in Slots /\ cfgfile.max \in Slots
      /\ \A i \in Slots : i \in Nat \ {0} /\ 1..i \subseteq Slots
  BY <1>1, RingFacts
<1>3. /\ config_loaded /\ cpc \in {"write", "writing"} /\ cpc' \in {"writing", "stamp"}
      /\ UNCHANGED <<MAX_FILES, current_file, config_loaded, timestamps, cfgfile, committed, spc,
                     mishaps>>
  BY <1>1 DEF WriteOpen, WriteClose, Loading, Working, ramVars, histVars
<1>4. \A i \in Slots \ {current_file} : hkfile'.slot[i] = hkfile.slot[i]
  <2>1. hkfile \in HkFile
    BY DEF Typed, StoreTypeOK
  <2>2. CASE WriteOpen
    BY <2>1, <2>2 DEF WriteOpen, HkFile
  <2>3. CASE WriteClose
    BY <2>1, <2>3 DEF WriteClose, HkFile
  <2>4. QED
    BY <2>2, <2>3
<1>5. NextSlot = current_file
  BY <1>2, <1>3 DEF NextSlot, CursorOK, Wrap
<1>6. IndexShape' /\ ConfigShape'
  BY <1>3 DEF IndexOK, IndexShape, ConfigShape
<1>7. Fresh'
  BY <1>3, <1>4 DEF IndexOK, Fresh
<1>8. RamMatches'
  <2>1. ASSUME spc # "cleanup", NEW i \in 1..MAX_FILES, i # current_file
        PROVE  Entry(i)' = hkfile'.slot[i]
    <3>1. Entry(i) = hkfile.slot[i]
      BY <1>3, <2>1 DEF IndexOK, RamMatches
    <3>2. Entry(i)' = Entry(i) /\ hkfile'.slot[i] = hkfile.slot[i]
      BY <1>2, <1>3, <1>4, <2>1 DEF Entry
    <3>3. QED
      BY <3>1, <3>2
  <2>2. QED
    BY <1>3, <2>1 DEF RamMatches
<1>9. DiskMatches'
  <2>1. ASSUME "shrink" \notin mishaps, committed # <<>>, NEW i \in 1..cfgfile.max, i # NextOnDisk
        PROVE  cfgfile.item[i] = hkfile'.slot[i]
    <3>1. i \in Slots \ {current_file}
      BY <1>1, <1>2, <1>3, <1>5, <2>1 DEF InStep
    <3>2. cfgfile.item[i] = hkfile.slot[i]
      BY <2>1 DEF IndexOK, DiskMatches
    <3>3. QED
      BY <1>4, <3>1, <3>2
  <2>2. QED
    BY <1>3, <2>1 DEF DiskMatches, NextOnDisk
<1>10. QED
  BY <1>6, <1>7, <1>8, <1>9 DEF IndexOK

LEMMA IndexStamps ==
    ASSUME Typed, Guarded, RingInv, OrderInv, IndexClean, IndexOK, Stamp, IndexClean'
    PROVE  IndexOK'
<1>1. RingClean /\ Files /\ Loading
  BY IndexClears DEF OrderInv
<1>2. /\ CursorOK /\ MAX_FILES \in Slots
      /\ \A i \in Slots : i \in Nat \ {0} /\ 1..i \subseteq Slots
      /\ spc = "cleanup" => cpc \notin Critical
  BY <1>1, RingFacts
<1>3. /\ cpc = "stamp" /\ cpc' = "store" /\ config_loaded
      /\ UNCHANGED <<MAX_FILES, current_file, config_loaded, hkfile, cfgfile, spc, committed>>
  BY <1>1 DEF Stamp, Loading, Working, diskVars
<1>4. PICK o \in HandlerOutcomes(MAX_FILES) :
          /\ timestamps' = IF o.ok THEN [o.index EXCEPT !.item[current_file] = collected]
                           ELSE timestamps
          /\ Note(IF o.ok THEN {} ELSE {"nomemory"})
  BY DEF Stamp
<1>5. o.ok /\ mishaps' = mishaps
  BY <1>4 DEF Note, IndexClean, BreaksIndex, BreaksRing
<1>6. spc # "cleanup" /\ current_file \in 1..MAX_FILES
  BY <1>2, <1>3 DEF Critical, CursorOK
<1>7. timestamps \in Index /\ timestamps.size = IF timestamps.block = "live" THEN MAX_FILES ELSE 0
  BY <1>6 DEF Typed, StoreTypeOK, IndexOK, IndexShape
<1>8. /\ o.index.block = "live" /\ o.index.size = MAX_FILES
      /\ o.index.item \in [Slots -> Item]
      /\ \A i \in 1..MAX_FILES : o.index.item[i] = Entry(i)
  BY <1>2, <1>5, <1>7, HandlerGivesIndex
<1>9. /\ timestamps'.block = "live" /\ timestamps'.size = MAX_FILES
      /\ timestamps'.item = [o.index.item EXCEPT ![current_file] = collected]
  BY <1>4, <1>5, <1>8
<1>10. ASSUME NEW i \in 1..MAX_FILES PROVE timestamps'.item[i] = hkfile.slot[i]
  <2>1. CASE i = current_file
    BY <1>1, <1>2, <1>3, <1>8, <1>9, <2>1 DEF Files
  <2>2. CASE i # current_file
    <3>1. Entry(i) = hkfile.slot[i]
      BY <1>3, <1>6, <2>2 DEF IndexOK, RamMatches
    <3>2. QED
      BY <1>2, <1>8, <1>9, <2>2, <3>1
  <2>3. QED
    BY <2>1, <2>2
<1>11. IndexShape' /\ ConfigShape' /\ Fresh'
  BY <1>3, <1>5, <1>6, <1>9 DEF IndexOK, IndexShape, ConfigShape, Fresh
<1>12. RamMatches'
  BY <1>3, <1>9, <1>10 DEF RamMatches, Entry
<1>13. DiskMatches'
  BY <1>3, <1>5 DEF IndexOK, DiskMatches, NextOnDisk
<1>14. QED
  BY <1>11, <1>12, <1>13 DEF IndexOK

LEMMA IndexStores ==
    ASSUME Typed, Guarded, RingInv, OrderInv, IndexClean, IndexOK, Store
    PROVE  IndexOK'
<1>1. RingClean /\ Files /\ Loading /\ InStep
  BY IndexClears DEF OrderInv
<1>2. /\ CursorOK /\ MAX_FILES \in Slots
      /\ \A i \in Slots : i \in Nat \ {0} /\ 1..i \subseteq Slots
      /\ spc = "cleanup" => cpc \notin Critical
      /\ L \in Nat
  BY <1>1, RingFacts
<1>3. /\ cpc = "store" /\ cpc' = "advance" /\ config_loaded /\ ~noHandles
      /\ UNCHANGED <<MAX_FILES, current_file, config_loaded, timestamps, hkfile, spc, mishaps>>
      /\ cfgfile' = StoredConfig(FALSE, timestamps)
      /\ committed' = Append(committed, collected)
  BY <1>1 DEF Store, Loading, Working, ramVars, Files
<1>4. spc # "cleanup" /\ current_file \in 1..MAX_FILES
  BY <1>2, <1>3 DEF Critical, CursorOK
<1>5. /\ timestamps.block = "live" /\ timestamps.size = MAX_FILES
      /\ \A i \in 1..MAX_FILES : timestamps.item[i] = hkfile.slot[i]
  BY <1>3, <1>4 DEF IndexOK, IndexShape, RamMatches, Entry
<1>6. committed' # <<>>
  BY <1>3 DEF Typed, TaskTypeOK
<1> DEFINE written == IF cfgfile.state = "absent" THEN 1..timestamps.size ELSE {current_file}
           last == IF cfgfile.state = "absent" THEN timestamps.size ELSE current_file
<1>7. /\ cfgfile'.state = "full" /\ cfgfile'.max = MAX_FILES /\ cfgfile'.cur = current_file
      /\ cfgfile'.len = IF last > cfgfile.len THEN last ELSE cfgfile.len
      /\ cfgfile'.item = [i \in Slots |-> IF i \in written THEN IndexItem(timestamps, i)
                                          ELSE cfgfile.item[i]]
  BY <1>3 DEF StoredConfig, RewritesAll
<1>8. cfgfile.len \in Nat
  BY DEF Typed, StoreTypeOK, ConfigFile
<1>9. ASSUME NEW i \in Slots
      PROVE  cfgfile'.item[i] = IF i \in written THEN timestamps.item[i] ELSE cfgfile.item[i]
  <2>1. i \in written => i <= timestamps.size
    BY <1>2, <1>4, <1>5
  <2>2. QED
    BY <1>5, <1>7, <2>1 DEF IndexItem
<1>10. ASSUME NEW i \in Slots, i > cfgfile'.len PROVE cfgfile'.item[i] = 0
  <2>1. i > last /\ i > cfgfile.len /\ i \in Nat
    BY <1>2, <1>4, <1>5, <1>7, <1>8, <1>10
  <2>2. i \notin written
    BY <1>2, <1>5, <2>1
  <2>3. cfgfile.item[i] = 0
    BY <2>1 DEF IndexOK, ConfigShape
  <2>4. QED
    BY <1>9, <2>2, <2>3
<1>11. IndexShape' /\ ConfigShape' /\ Fresh'
  BY <1>3, <1>4, <1>6, <1>7, <1>10 DEF IndexOK, IndexShape, ConfigShape, Fresh
<1>12. RamMatches'
  BY <1>3, <1>5 DEF RamMatches, Entry
<1>13. DiskMatches'
  <2>1. ASSUME "shrink" \notin mishaps, NEW i \in 1..MAX_FILES
        PROVE  cfgfile'.item[i] = hkfile.slot[i]
    <3>1. i \in Slots
      BY <1>2
    <3>2. CASE i \in written
      BY <1>5, <1>9, <3>1, <3>2
    <3>3. CASE i \notin written
      <4>1. cfgfile.state = "full" /\ i # current_file
        BY <1>5, <3>3 DEF IndexOK, ConfigShape, Typed, StoreTypeOK, ConfigFile
      <4>2. committed # <<>> /\ cfgfile.max = MAX_FILES
        BY <1>3, <2>1, <4>1 DEF IndexOK, ConfigShape
      <4>3. NextOnDisk = current_file
        BY <1>1, <1>2, <1>3, <1>4, <4>2 DEF InStep, NextSlot, Wrap
      <4>4. cfgfile.item[i] = hkfile.slot[i]
        BY <2>1, <4>1, <4>2, <4>3 DEF IndexOK, DiskMatches
      <4>5. QED
        BY <1>9, <3>1, <3>3, <4>4
    <3>4. QED
      BY <3>2, <3>3
  <2>2. QED
    BY <1>3, <1>7, <2>1 DEF DiskMatches
<1>14. QED
  BY <1>11, <1>12, <1>13 DEF IndexOK

\* Steps of the collector that move only current_file or config_loaded.
LEMMA IndexMoves ==
    ASSUME Typed, Guarded, RingInv, OrderInv, IndexClean, IndexOK,
           SkipConfig \/ LoadAdvance \/ Advance \/ WrapAround
    PROVE  IndexOK'
<1>1. RingClean /\ Files /\ Loading
  BY IndexClears DEF OrderInv
<1>2. /\ CursorOK /\ MAX_FILES \in Slots
      /\ \A i \in Slots : i \in Nat \ {0} /\ 1..i \subseteq Slots
      /\ spc = "cleanup" => cpc \notin Critical
  BY <1>1, RingFacts
<1>3. /\ UNCHANGED <<MAX_FILES, timestamps, hkfile, spc, committed, mishaps>>
      /\ UNCHANGED cfgfile
  BY <1>1 DEF SkipConfig, LoadAdvance, Advance, WrapAround, diskVars, histVars, Files
<1>4. DiskMatches'
  BY <1>3 DEF IndexOK, DiskMatches, NextOnDisk
<1>5. \A i : Entry(i)' = Entry(i)
  BY <1>3 DEF Entry
<1>6. CASE SkipConfig
  <2>1. CASE config_loaded
    <3>1. /\ UNCHANGED <<MAX_FILES, current_file, config_loaded, timestamps, cfgfile, committed>>
          /\ mishaps \subseteq mishaps' /\ cpc = "load" /\ cpc' = "write"
      BY <1>3, <1>6, <2>1 DEF SkipConfig, Typed, StoreTypeOK
    <3>2. QED
      BY <1>3, <3>1, IndexKept
  <2>2. CASE ~config_loaded
    <3>1. /\ cfgfile.state = "absent" /\ cpc = "load" /\ cpc' = "write" /\ config_loaded'
          /\ current_file' = current_file /\ committed = <<>>
      BY <1>1, <1>6, <2>2 DEF SkipConfig, Files
    <3>2. /\ timestamps.block = "null" /\ current_file = 1
          /\ \A i \in Slots \ {1} : hkfile.slot[i] = 0
      BY <2>2, <3>1 DEF IndexOK, IndexShape, Fresh
    <3>3. IndexShape' /\ ConfigShape' /\ Fresh'
      BY <1>3, <3>1 DEF IndexOK, IndexShape, ConfigShape, Fresh
    <3>4. \A i \in 1..MAX_FILES : Entry(i) = hkfile.slot[i] \/ i = current_file
      BY <1>2, <3>2 DEF Entry
    <3>5. RamMatches'
      BY <1>3, <1>5, <3>1, <3>4 DEF RamMatches
    <3>6. QED
      BY <1>4, <3>3, <3>5 DEF IndexOK
  <2>3. QED
    BY <2>1, <2>2
<1>7. CASE LoadAdvance
  <2>1. /\ cpc = "loaded" /\ cpc' = "write" /\ config_loaded'
        /\ current_file' = Wrap(current_file + 1, MAX_FILES)
    BY <1>7 DEF LoadAdvance
  <2>2. cfgfile.state = "full" /\ cfgfile.max = MAX_FILES
    BY <1>1, <2>1 DEF Loading, ConfigMax, IndexOK, ConfigShape, Typed, StoreTypeOK, ConfigFile
  <2>3. timestamps.block = "live"
    BY <2>1 DEF IndexOK, IndexShape
  <2>4. IndexShape' /\ ConfigShape' /\ Fresh'
    BY <1>3, <2>1, <2>2, <2>3 DEF IndexOK, IndexShape, ConfigShape, Fresh
  <2>5. \A i \in 1..MAX_FILES : Entry(i) = hkfile.slot[i] \/ i = current_file'
    BY <2>1, <2>3 DEF IndexOK, RamMatches, Entry
  <2>6. RamMatches'
    BY <1>3, <1>5, <2>1, <2>5 DEF RamMatches
  <2>7. QED
    BY <1>4, <2>4, <2>6 DEF IndexOK
<1>8. CASE Advance
  <2>1. cpc = "advance" /\ cpc' = "wrap" /\ config_loaded' = config_loaded /\ config_loaded
    BY <1>1, <1>8 DEF Advance, Loading, Working
  <2>2. IndexShape' /\ ConfigShape' /\ Fresh'
    BY <1>3, <2>1 DEF IndexOK, IndexShape, ConfigShape, Fresh
  <2>3. spc # "cleanup" => \A i \in 1..MAX_FILES : Entry(i) = hkfile.slot[i]
    BY <2>1 DEF IndexOK, RamMatches
  <2>4. RamMatches'
    BY <1>3, <1>5, <2>1, <2>3 DEF RamMatches
  <2>5. QED
    BY <1>4, <2>2, <2>4 DEF IndexOK
<1>9. CASE WrapAround
  <2>1. /\ cpc = "wrap" /\ cpc' = "idle" /\ config_loaded' = config_loaded /\ config_loaded
        /\ current_file' = Wrap(current_file, MAX_FILES)
    BY <1>1, <1>9 DEF WrapAround, Loading, Working
  <2>2. IndexShape' /\ ConfigShape' /\ Fresh'
    BY <1>3, <2>1 DEF IndexOK, IndexShape, ConfigShape, Fresh
  <2>3. \A i \in 1..MAX_FILES : i = current_file => i = current_file'
    BY <1>2, <2>1 DEF Wrap
  <2>4. spc # "cleanup" => \A i \in 1..MAX_FILES : Entry(i) = hkfile.slot[i] \/ i = current_file'
    BY <2>1, <2>3 DEF IndexOK, RamMatches
  <2>5. RamMatches'
    BY <1>3, <1>5, <2>1, <2>4 DEF RamMatches
  <2>6. QED
    BY <1>4, <2>2, <2>5 DEF IndexOK
<1>10. QED
  BY <1>6, <1>7, <1>8, <1>9

\* A reset of the store by set_max_files, and of the processor.
LEMMA IndexResets ==
    ASSUME Typed, Guarded, RingInv, OrderInv, IndexClean, IndexOK,
           SetMaxReset \/ SetMaxCleanup \/ Crash, IndexClean'
    PROVE  IndexOK'
<1>1. RingClean /\ Files /\ Loading
  BY IndexClears DEF OrderInv
<1>2. CASE SetMaxReset
  <2>1. /\ current_file' = 1 /\ committed' = <<>> /\ spc' = "cleanup" /\ "shrink" \in mishaps'
        /\ \A i \in Slots : hkfile'.slot[i] = 0
        /\ UNCHANGED <<config_loaded, timestamps, cfgfile, cpc>>
    BY <1>2 DEF SetMaxReset, NoHkFile, NoItems, Note
  <2>2. cpc \notin Critical
    BY <1>1, <1>2, RingFacts DEF SetMaxReset
  <2>3. IndexShape' /\ ConfigShape' /\ Fresh'
    BY <2>1, <2>2 DEF IndexOK, IndexShape, ConfigShape, Fresh, Critical
  <2>4. RamMatches' /\ DiskMatches'
    BY <2>1, <2>2 DEF RamMatches, DiskMatches, Critical
  <2>5. QED
    BY <2>3, <2>4 DEF IndexOK
<1>3. CASE SetMaxCleanup
  <2>1. PICK o \in HandlerOutcomes(0) :
          timestamps' = o.index /\ cfgfile' = StoredConfig(TRUE, o.index)
    BY <1>3 DEF SetMaxCleanup
  <2>2. timestamps' = FreedIndex
    BY <2>1 DEF HandlerOutcomes
  <2>3. /\ timestamps'.size = 0 /\ timestamps'.block # "live"
        /\ timestamps.block = "null" => timestamps'.block = "null"
    BY <2>2 DEF FreedIndex
  <2>4. /\ spc = "cleanup" /\ spc' = "idle" /\ cpc \notin Critical
        /\ UNCHANGED <<MAX_FILES, current_file, config_loaded, hkfile, cpc, committed, mishaps>>
    BY <1>1, <1>3, RingFacts DEF SetMaxCleanup, histVars
  <2>5. hkfile.slot = NoItems /\ committed = <<>> /\ "shrink" \in mishaps
    BY <1>1, <2>4 DEF Files, IndexOK, IndexShape
  <2>6. /\ cfgfile'.state = "full"
        /\ \A i \in Slots : i > cfgfile'.len => cfgfile'.item[i] = 0
    <3>1. cfgfile.len \in Nat /\ \A i \in Slots : i > cfgfile.len => cfgfile.item[i] = 0
      BY DEF Typed, StoreTypeOK, ConfigFile, IndexOK, ConfigShape
    <3>2. /\ cfgfile'.state = "full"
          /\ cfgfile'.len = IF 0 > cfgfile.len THEN 0 ELSE cfgfile.len
          /\ cfgfile'.item = [i \in Slots |-> IF i \in 1..0 THEN IndexItem(timestamps', i)
                                              ELSE cfgfile.item[i]]
      BY <1>1, <2>1, <2>3 DEF StoredConfig, RewritesAll, Files
    <3>3. cfgfile'.len = cfgfile.len /\ \A i \in Slots : cfgfile'.item[i] = cfgfile.item[i]
      BY <3>1, <3>2
    <3>4. QED
      BY <3>1, <3>2, <3>3
  <2>7. IndexShape' /\ ConfigShape' /\ Fresh'
    BY <2>3, <2>4, <2>5, <2>6 DEF IndexOK, IndexShape, ConfigShape, Fresh, Critical
  <2>8. RamMatches' /\ DiskMatches'
    <3>1. 1..MAX_FILES \subseteq Slots
      BY <1>1, RingFacts
    <3>2. \A i \in 1..MAX_FILES : Entry(i)' = hkfile'.slot[i]
      BY <2>3, <2>4, <2>5, <3>1 DEF Entry, NoItems
    <3>3. QED
      BY <2>4, <2>5, <3>2 DEF RamMatches, DiskMatches, Critical
  <2>9. QED
    BY <2>7, <2>8 DEF IndexOK
<1>4. CASE Crash
  <2>1. /\ current_file' = 1 /\ ~config_loaded' /\ timestamps' = NoIndex
        /\ cpc' = "idle" /\ spc' = "idle" /\ UNCHANGED <<hkfile, committed>>
    BY <1>4 DEF Crash, ResetRam
  <2>2. UNCHANGED <<cfgfile, mishaps>>
    BY <1>4 DEF Crash, Note, IndexClean, BreaksIndex
  <2>3. IndexShape' /\ ConfigShape' /\ Fresh'
    BY <2>1, <2>2 DEF IndexOK, IndexShape, ConfigShape, Fresh, NoIndex
  <2>4. RamMatches'
    BY <2>1 DEF RamMatches
  <2>5. DiskMatches'
    BY <2>1, <2>2 DEF IndexOK, DiskMatches, NextOnDisk
  <2>6. QED
    BY <2>3, <2>4, <2>5 DEF IndexOK
<1>5. QED
  BY <1>2, <1>3, <1>4

LEMMA IndexStep == Typed /\ Guarded /\ RingInv /\ OrderInv /\ IndexInv /\ [Next]_vars => IndexInv'
<1> SUFFICES ASSUME Typed, Guarded, RingInv, OrderInv, IndexInv, [Next]_vars, IndexClean'
             PROVE  IndexOK'
  BY DEF IndexInv
<1>1. IndexClean /\ mishaps \subseteq mishaps'
  BY MishapsStay DEF IndexClean
<1>2. IndexOK /\ RingClean /\ RingClean' /\ CursorOK /\ Files
  <2>1. RingClean /\ RingClean'
    BY <1>1 DEF IndexClean, RingClean, BreaksIndex
  <2>2. QED
    BY <1>1, <2>1, RingFacts DEF IndexInv, OrderInv
<1>3. CASE Quiet
  <2>1. /\ UNCHANGED <<MAX_FILES, current_file, config_loaded, timestamps, cfgfile, cpc, committed>>
        /\ hkfile'.slot = hkfile.slot
        /\ spc' = "cleanup" <=> spc = "cleanup"
    BY <1>2, <1>3, QuietKeeps
  <2>2. QED
    BY <1>1, <1>2, <2>1, IndexKept
<1>4. CASE Collect \/ WriteFails
  <2>1. /\ UNCHANGED <<MAX_FILES, current_file, config_loaded, timestamps, cfgfile, committed,
                       hkfile, spc>>
        /\ cpc \in {"idle", "load", "write", "writing"}
        /\ cpc' \in {"idle", "load", "write", "writing"}
    BY <1>4 DEF Collect, WriteFails, storeVars, ramVars, diskVars, histVars
  <2>2. QED
    BY <1>1, <1>2, <2>1, IndexKept
<1>5. CASE LoadConfig \/ Stamp
  BY <1>1, <1>2, <1>5, IndexLoads, IndexStamps
<1>6. CASE WriteOpen \/ WriteClose
  BY <1>1, <1>2, <1>6, IndexWrites
<1>7. CASE Store
  BY <1>1, <1>2, <1>7, IndexStores
<1>8. CASE SkipConfig \/ LoadAdvance \/ Advance \/ WrapAround
  BY <1>1, <1>2, <1>8, IndexMoves
<1>9. CASE SetMaxReset \/ SetMaxCleanup \/ Crash
  BY <1>1, <1>2, <1>9, IndexResets
<1>10. CASE SetMaxGrow
  BY <1>10 DEF SetMaxGrow, Note, IndexClean, BreaksIndex
<1>11. CASE HandlesRunOut
  BY <1>11 DEF HandlesRunOut, Note, IndexClean, BreaksIndex, BreaksRing
<1>12. QED
  BY <1>3, <1>4, <1>5, <1>6, <1>7, <1>8, <1>9, <1>10, <1>11
     DEF Next, CollectorStep, ServiceStep, Quiet

(***************************************************************************)
(* A search by time finds in the index what the file has: the index, made  *)
(* anew, stamped, stored and read back, keeps up with the slots.           *)
(***************************************************************************)
THEOREM IndexKeepsUp == Spec => []IndexMatches
<1>1. Init => Typed /\ Guarded /\ RingInv /\ OrderInv /\ IndexInv
  BY TypedInit, GuardedInit, RingInit, OrderInit, IndexInit
<1>2. IndexInv => IndexMatches
  <2> SUFFICES ASSUME IndexInv, IndexClean, config_loaded, timestamps.block = "live",
                      spc # "cleanup", NEW i \in 1..timestamps.size, i # current_file
               PROVE  timestamps.item[i] = hkfile.slot[i]
    BY DEF IndexMatches, IndexClean
  <2>1. timestamps.size = MAX_FILES
    BY DEF IndexInv, IndexOK, IndexShape
  <2>2. QED
    BY <2>1 DEF IndexInv, IndexOK, RamMatches, Entry
<1>3. QED
  BY <1>1, <1>2, TypedStep, GuardedStep, RingStep, OrderStep, IndexStep, PTL DEF Spec
=============================================================================
