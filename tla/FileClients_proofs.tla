------------------------- MODULE FileClients_proofs -------------------------
(***************************************************************************)
(* Theorems about the three services that share the file handles and the   *)
(* heap, for every number of handles, size of the heap and set of logs.    *)
(***************************************************************************)
EXTENDS FileClients, FiniteSetTheorems, TLAPS

-----------------------------------------------------------------------------
(***************************************************************************)
(* The table of handles: what opening and closing does to their number.    *)
(***************************************************************************)
LEMMA HandlesFinite ==
    /\ IsFiniteSet(Handles) /\ Cardinality(Handles) \in Nat
    /\ IsFiniteSet(Handles') /\ Cardinality(Handles') \in Nat
<1>1. IsFiniteSet(File) /\ IsFiniteSet(1..HandleMax)
  BY FileAssumption, FS_AddElement, FS_Interval DEF File
<1>2. IsFiniteSet(File \X (1..HandleMax))
  BY <1>1, FS_Product
<1>3. Handles \in SUBSET (File \X (1..HandleMax)) /\ Handles' \in SUBSET (File \X (1..HandleMax))
  BY DEF Handles
<1>4. QED
  BY <1>2, <1>3, FS_Subset, FS_CardinalityType

\* No file has more handles than there are in use.
LEMMA HandlesOfOne ==
    ASSUME open \in [File -> 0..HandleMax], NEW f \in File
    PROVE  open[f] <= Cardinality(Handles)
<1> DEFINE nth == [i \in 1..open[f] |-> <<f, i>>]
<1>1. open[f] \in 0..HandleMax /\ HandleMax \in Nat
  BY FileAssumption
<1>2. \A i \in 1..open[f] : <<f, i>> \in Handles
  BY <1>1 DEF Handles
<1>3. nth \in Injection(1..open[f], Handles)
  BY <1>2 DEF Injection, IsInjective
<1>4. Cardinality(1..open[f]) <= Cardinality(Handles)
  BY <1>3, HandlesFinite, FS_Injection
<1>5. Cardinality(1..open[f]) = open[f]
  BY <1>1, FS_Interval
<1>6. QED
  BY <1>4, <1>5

LEMMA HandleTaken ==
    ASSUME open \in [File -> 0..HandleMax], NEW f \in File, Opened(f),
           Cardinality(Handles) < HandleMax
    PROVE  /\ open' \in [File -> 0..HandleMax]
           /\ Cardinality(Handles') = Cardinality(Handles) + 1
<1>1. open[f] \in Nat /\ HandleMax \in Nat /\ open[f] < HandleMax
  BY FileAssumption, HandlesOfOne, HandlesFinite
<1>2. open' \in [File -> 0..HandleMax]
  BY <1>1 DEF Opened
<1>3. <<f, open[f] + 1>> \notin Handles
  BY <1>1 DEF Handles
<1>4. Handles' = Handles \cup {<<f, open[f] + 1>>}
  <2>1. ASSUME NEW g \in File, NEW i \in 1..HandleMax
        PROVE  i <= open'[g] <=> i <= open[g] \/ <<g, i>> = <<f, open[f] + 1>>
    BY <1>1 DEF Opened
  <2>2. <<f, open[f] + 1>> \in File \X (1..HandleMax)
    BY <1>1
  <2>3. QED
    BY <2>1, <2>2 DEF Handles
<1>5. QED
  BY <1>2, <1>3, <1>4, HandlesFinite, FS_AddElement

LEMMA HandleGiven ==
    ASSUME open \in [File -> 0..HandleMax], NEW f \in File, Closed(f), open[f] > 0
    PROVE  /\ open' \in [File -> 0..HandleMax]
           /\ Cardinality(Handles') = Cardinality(Handles) - 1
<1>1. open[f] \in 1..HandleMax /\ HandleMax \in Nat
  BY FileAssumption
<1>2. open' \in [File -> 0..HandleMax]
  BY <1>1 DEF Closed
<1>3. <<f, open[f]>> \in Handles
  BY <1>1 DEF Handles
<1>4. Handles' = Handles \ {<<f, open[f]>>}
  <2>1. ASSUME NEW g \in File, NEW i \in 1..HandleMax
        PROVE  i <= open'[g] <=> i <= open[g] /\ <<g, i>> # <<f, open[f]>>
    BY <1>1 DEF Closed
  <2>2. QED
    BY <2>1 DEF Handles
<1>5. QED
  BY <1>2, <1>3, <1>4, HandlesFinite, FS_RemoveElement

-----------------------------------------------------------------------------
(***************************************************************************)
(* The invariant, service by service.  A handle that mk has is open until  *)
(* mk closes it, and so is the one on a log that get_file is about to      *)
(* unlink, unless its red_open failed.                                     *)
(***************************************************************************)
Making(f) == cpc = "mkclose" /\ input.file = f

FilesInv ==
    /\ present \subseteq File /\ open \in [File -> 0..HandleMax] /\ leaks \in Nat
    /\ lfile \in Log /\ lFailed \in BOOLEAN
    /\ Cardinality(Handles) = leaks + Busy(cpc = "mkclose")
    /\ Used <= HandleMax
    /\ \A f \in File : Making(f) => open[f] > 0
    /\ lpc = "unlink" /\ ~lFailed => open[lfile] > Busy(Making(lfile))

\* The statics of echo and ls are at the start of an answer unless the command is to be
\* called again.
CommandsInv ==
    /\ input \in Inputs /\ parameter_num \in Nat
    /\ lsFirstRun \in BOOLEAN /\ dir \in BOOLEAN
    /\ parameter_num # 0 <=> pxCommand = "echo"
    /\ lsFirstRun <=> ~dir
    /\ dir <=> \/ pxCommand = "ls"
               \/ pxCommand = None /\ cpc = "process" /\ input.name = "ls" /\ dir

HeapInv ==
    /\ heap \in Nat /\ lost \in Nat
    /\ heap = HeapSize - lost - (IF lpc \in {"idle", "malloc"} THEN 0 ELSE LogSize)
    /\ mishap # None => lost > HeapSize - LogSize

\* The updater has no buffer but the one it is about to program.
UpdaterInv ==
    /\ upc \in Jobs \cup {"idle", "prepare", "buffer", "load", "program", "down"}
    /\ ubuf \in Nat /\ (upc \notin {"load", "program", "down"} => ubuf = 0)
    /\ eeprom => upc # "idle"

FileClientsInv == FilesInv /\ CommandsInv /\ HeapInv /\ UpdaterInv

LEMMA InputFields ==
    \A i \in Inputs : /\ i.file \in File /\ i.parameters \in Nat
                      /\ i.name \in {"one", "echo", "stat", "mk", "rm", "ls", "read"}
BY FileAssumption DEF Inputs, File

LEMMA InputsKnown == NoInput \in Inputs /\ NoInput.name = "one"
BY DEF NoInput, Inputs

\* What is called is the command with more to say, or that of the input.
LEMMA CallsOne ==
    ASSUME CommandsInv, NEW name, Calls(name)
    PROVE  /\ cpc = "process"
           /\ pxCommand = None => input.name = name
           /\ pxCommand # None => pxCommand = name
BY DEF Calls, Command

LEMMA InvInit == Init => FileClientsInv
<1> SUFFICES ASSUME Init PROVE FileClientsInv
  OBVIOUS
<1>1. Handles = {}
  BY FileAssumption DEF Init, Handles
<1>2. FilesInv
  <2>1. Cardinality(Handles) = 0 /\ HandleMax \in Nat /\ cpc = "idle" /\ lpc = "idle" /\ dir = FALSE
    BY <1>1, FileAssumption, FS_EmptySet DEF Init, StaticsInit
  <2>2. Cardinality(Handles) = leaks + Busy(cpc = "mkclose") /\ Used <= HandleMax
    BY <2>1 DEF Init, Busy, Used
  <2>3. open \in [File -> 0..HandleMax]
    BY <2>1 DEF Init
  <2>4. QED
    BY <2>1, <2>2, <2>3 DEF Init, FilesInv, Making
<1>3. CommandsInv
  BY FileAssumption, InputsKnown DEF Init, StaticsInit, CommandsInv
<1>4. HeapInv /\ UpdaterInv
  BY FileAssumption DEF Init, HeapInv, UpdaterInv, Jobs
<1>5. QED
  BY <1>2, <1>3, <1>4 DEF FileClientsInv

LEMMA InvRestart == FileClientsInv /\ Restart => FileClientsInv'
<1> SUFFICES ASSUME FileClientsInv, Restart PROVE FileClientsInv'
  OBVIOUS
<1>1. Handles' = {}
  BY FileAssumption DEF Restart, Handles
<1>2. FilesInv'
  <2>1. /\ Cardinality(Handles') = 0 /\ HandleMax \in Nat
        /\ cpc' = "idle" /\ lpc' = "idle" /\ dir' = FALSE
    BY <1>1, FileAssumption, FS_EmptySet DEF Restart
  <2>2. Cardinality(Handles') = leaks' + Busy(cpc' = "mkclose") /\ Used' <= HandleMax
    BY <2>1 DEF Restart, Busy, Used
  <2>3. open' \in [File -> 0..HandleMax]
    BY <2>1 DEF Restart
  <2>4. QED
    BY <2>1, <2>2, <2>3 DEF Restart, FilesInv, Making, FileClientsInv
<1>3. CommandsInv'
  BY FileAssumption, InputsKnown DEF Restart, CommandsInv
<1>4. HeapInv' /\ UpdaterInv'
  BY FileAssumption DEF Restart, HeapInv, UpdaterInv, Jobs
<1>5. QED
  BY <1>2, <1>3, <1>4 DEF FileClientsInv

\* A step that opens and closes nothing.
LEMMA HandlesKept ==
    ASSUME FilesInv, UNCHANGED <<open, leaks>>, present' \subseteq File,
           dir' \in BOOLEAN, dir \in BOOLEAN, ~dir /\ dir' => HandleFree,
           \/ UNCHANGED <<cpc, input>>
           \/ cpc # "mkclose" /\ cpc' # "mkclose",
           \/ UNCHANGED logVars
           \/ lfile' \in Log /\ lFailed' \in BOOLEAN /\ (lpc' = "unlink" => lFailed')
    PROVE  FilesInv'
<1>1. Handles' = Handles /\ Cardinality(Handles) \in Nat
  BY HandlesFinite DEF Handles
<1>2. Cardinality(Handles') = leaks' + Busy(cpc' = "mkclose")
  BY <1>1 DEF FilesInv, Busy
<1>3. Used' <= HandleMax
  BY <1>1, FileAssumption DEF FilesInv, HandleFree, Used
<1>4. \A f \in File : Making(f)' => Making(f)
  BY DEF Making
<1>5. lpc' = "unlink" /\ ~lFailed' => open'[lfile'] > Busy(Making(lfile))'
  BY DEF logVars, FilesInv, Making, Busy
<1>6. QED
  BY <1>1, <1>2, <1>3, <1>4, <1>5 DEF FilesInv, logVars

\* A step that opens f and keeps the handle for ever.
LEMMA HandleLeaked ==
    ASSUME FilesInv, NEW f \in File, Opened(f), Leaks, HandleFree, present' \subseteq File,
           dir' = dir, dir \in BOOLEAN,
           \/ UNCHANGED <<cpc, input>>
           \/ cpc # "mkclose" /\ cpc' # "mkclose",
           \/ UNCHANGED logVars
           \/ lfile' \in Log /\ lFailed' \in BOOLEAN /\ (lpc' = "unlink" => lfile' = f)
    PROVE  FilesInv'
<1>1. Cardinality(Handles) \in Nat /\ Cardinality(Handles) < HandleMax
  BY HandlesFinite, FileAssumption DEF HandleFree, Used
<1>2. open' \in [File -> 0..HandleMax] /\ Cardinality(Handles') = Cardinality(Handles) + 1
  BY <1>1, HandleTaken DEF FilesInv
<1>3. Cardinality(Handles') = leaks' + Busy(cpc' = "mkclose")
  BY <1>1, <1>2 DEF FilesInv, Busy, Leaks
<1>4. Used' <= HandleMax /\ leaks' \in Nat
  BY <1>1, <1>2, FileAssumption DEF FilesInv, HandleFree, Used, Leaks
<1>5. \A g \in File : /\ Making(g)' => Making(g)
                      /\ open[g] \in Nat /\ open'[g] >= open[g] /\ open'[f] = open[f] + 1
  BY FileAssumption DEF Making, Opened, FilesInv
<1>6. lpc' = "unlink" /\ ~lFailed' => open'[lfile'] > Busy(Making(lfile))'
  <2>1. CASE UNCHANGED logVars
    <3>1. lfile \in File /\ Busy(Making(lfile))' <= Busy(Making(lfile))
          /\ Busy(Making(lfile)) \in Nat /\ Busy(Making(lfile))' \in Nat
      BY <1>5, <2>1 DEF FilesInv, File, Busy, logVars, Making
    <3>2. /\ lfile' = lfile /\ open'[lfile] >= open[lfile]
          /\ open[lfile] \in Nat /\ open'[lfile] \in Nat
      BY <1>2, <1>5, <2>1, <3>1, FileAssumption DEF logVars
    <3>3. lpc' = "unlink" /\ ~lFailed' => open[lfile] > Busy(Making(lfile))
      BY <2>1 DEF FilesInv, logVars
    <3>4. QED
      BY <3>1, <3>2, <3>3
  <2>2. CASE lfile' \in Log /\ (lpc' = "unlink" => lfile' = f)
    <3>1. Making(f) => open[f] > 0
      BY DEF FilesInv
    <3>2. lpc' = "unlink" => (Making(lfile)' => Making(f))
      BY <2>2 DEF Making
    <3>3. QED
      BY <1>5, <2>2, <3>1, <3>2 DEF Busy
  <2>3. QED
    BY <2>1, <2>2
<1>7. QED
  BY <1>2, <1>3, <1>4, <1>5, <1>6 DEF FilesInv, logVars

\* What the services that do not move keep.
LEMMA KeptApart ==
    /\ HeapInv /\ UNCHANGED <<heap, lost, mishap, lpc>> => HeapInv'
    /\ UpdaterInv /\ UNCHANGED updVars => UpdaterInv'
    /\ CommandsInv /\ UNCHANGED cliVars => CommandsInv'
BY DEF HeapInv, UpdaterInv, CommandsInv, updVars, cliVars

-----------------------------------------------------------------------------
\* A command that opens and closes nothing, and is called again or not.
LEMMA CliReturned ==
    ASSUME FilesInv, CommandsInv, NEW name, Calls(name),
           NEW again, Returns(again), UNCHANGED <<open, leaks, dir>>,
           present' \subseteq File
    PROVE  /\ FilesInv'
           /\ input' \in Inputs
           /\ pxCommand' = (IF again THEN name ELSE None) /\ cpc' = "send"
<1>1. cpc = "process" /\ cpc' = "send" /\ UNCHANGED logVars
  BY DEF Calls, Returns
<1>2. FilesInv'
  BY <1>1, HandlesKept DEF CommandsInv
<1>3. input' \in Inputs
  BY InputsKnown DEF Returns, CommandsInv
<1>4. QED
  BY <1>1, <1>2, <1>3 DEF Returns, Calls

LEMMA CliCommands ==
    ASSUME FilesInv, CommandsInv,
           OneAnswer \/ prvEchoCommand \/ LsEntry \/ prvRMCommand \/ prvREADCommand
    PROVE  FilesInv' /\ CommandsInv'
<1> USE DEF EchoStatics, LsStatics
<1>1. CASE OneAnswer
  <2>1. Calls("one") /\ Returns(FALSE) /\ UNCHANGED <<present, open, leaks, dir, lsFirstRun, parameter_num>>
    BY <1>1 DEF OneAnswer, fsVars
  <2>2. FilesInv' /\ input' \in Inputs /\ pxCommand' = None /\ cpc' = "send"
    BY <2>1, CliReturned DEF FilesInv
  <2>3. QED
    BY <2>1, <2>2, FileAssumption DEF CommandsInv, Calls, Command
<1>2. CASE prvEchoCommand
  <2>1. Calls("echo") /\ UNCHANGED <<present, open, leaks, dir, lsFirstRun>>
    BY <1>2 DEF prvEchoCommand, fsVars
  <2>2. parameter_num \in Nat /\ input.parameters \in Nat
    BY InputFields DEF CommandsInv
  <2>3. CASE parameter_num <= input.parameters
    <3>1. Returns(TRUE) /\ parameter_num' = parameter_num + 1
      BY <1>2, <2>2, <2>3 DEF prvEchoCommand, Returns
    <3>2. FilesInv' /\ input' \in Inputs /\ pxCommand' = "echo" /\ cpc' = "send"
      BY <2>1, <3>1, CliReturned DEF FilesInv
    <3>3. QED
      BY <2>1, <2>2, <3>1, <3>2, FileAssumption DEF CommandsInv, Calls, Command
  <2>4. CASE ~(parameter_num <= input.parameters)
    <3>1. Returns(FALSE) /\ parameter_num' = 0
      BY <1>2, <2>2, <2>4 DEF prvEchoCommand, Returns
    <3>2. FilesInv' /\ input' \in Inputs /\ pxCommand' = None /\ cpc' = "send"
      BY <2>1, <3>1, CliReturned DEF FilesInv
    <3>3. QED
      BY <2>1, <2>2, <3>1, <3>2, FileAssumption DEF CommandsInv, Calls, Command
  <2>5. QED
    BY <2>3, <2>4
<1>3. CASE LsEntry
  <2>1. /\ Calls("ls") /\ Returns(TRUE) /\ ~lsFirstRun
        /\ UNCHANGED <<present, open, leaks, dir, lsFirstRun, parameter_num>>
    BY <1>3 DEF LsEntry, fsVars
  <2>2. FilesInv' /\ input' \in Inputs /\ pxCommand' = "ls" /\ cpc' = "send"
    BY <2>1, CliReturned DEF FilesInv
  <2>3. QED
    BY <2>1, <2>2, FileAssumption DEF CommandsInv, Calls, Command
<1>4. CASE prvRMCommand
  <2>1. /\ Calls("rm") /\ Returns(FALSE) /\ present' \subseteq File
        /\ UNCHANGED <<open, leaks, dir, lsFirstRun, parameter_num>>
    BY <1>4 DEF prvRMCommand, Unlink, FilesInv
  <2>2. FilesInv' /\ input' \in Inputs /\ pxCommand' = None /\ cpc' = "send"
    BY <2>1, CliReturned
  <2>3. QED
    BY <2>1, <2>2, FileAssumption DEF CommandsInv, Calls, Command
<1>5. CASE prvREADCommand
  <2>1. PICK again \in BOOLEAN : Returns(again)
    BY <1>5 DEF prvREADCommand
  <2>2. Calls("read") /\ UNCHANGED <<present, open, leaks, dir, lsFirstRun, parameter_num>>
    BY <1>5 DEF prvREADCommand, fsVars
  <2>3. FilesInv' /\ input' \in Inputs /\ pxCommand' = (IF again THEN "read" ELSE None)
        /\ cpc' = "send"
    BY <2>1, <2>2, CliReturned DEF FilesInv
  <2>4. QED
    BY <2>2, <2>3, FileAssumption DEF CommandsInv, Calls, Command
<1>6. QED
  BY <1>1, <1>2, <1>3, <1>4, <1>5

LEMMA CliListing ==
    ASSUME FilesInv, CommandsInv, LsOpens \/ LsEnds
    PROVE  FilesInv' /\ CommandsInv'
<1> USE DEF EchoStatics, LsStatics
<1>1. CASE LsOpens
  <2>1. /\ cpc = "process" /\ Command = "ls" /\ lsFirstRun /\ pxCommand' = None
        /\ cpc' \in {"process", "send"}
        /\ \/ HandleFree /\ lsFirstRun' = FALSE /\ dir' = TRUE /\ cpc' = "process"
           \/ lsFirstRun' = lsFirstRun /\ dir' = dir
        /\ UNCHANGED <<present, open, leaks, input, parameter_num, logVars>>
    BY <1>1 DEF LsOpens, Calls, fsVars
  <2>2. FilesInv'
    BY <2>1, HandlesKept DEF CommandsInv, FilesInv
  <2>3. pxCommand = None /\ input.name = "ls" /\ ~dir /\ parameter_num = 0
    BY <2>1, FileAssumption DEF CommandsInv, Command
  <2>4. CASE HandleFree /\ lsFirstRun' = FALSE /\ dir' = TRUE /\ cpc' = "process"
    BY <2>1, <2>2, <2>3, <2>4, FileAssumption DEF CommandsInv
  <2>5. CASE lsFirstRun' = lsFirstRun /\ dir' = dir
    BY <2>1, <2>2, <2>3, <2>5, FileAssumption DEF CommandsInv
  <2>6. QED
    BY <2>1, <2>4, <2>5
<1>2. CASE LsEnds
  <2>1. /\ Calls("ls") /\ Returns(FALSE) /\ ~lsFirstRun /\ lsFirstRun' = TRUE /\ dir' = FALSE
        /\ UNCHANGED <<present, open, leaks, parameter_num>>
    BY <1>2 DEF LsEnds, fsVars
  <2>2. cpc = "process" /\ cpc' = "send" /\ pxCommand' = None /\ input' \in Inputs
        /\ UNCHANGED logVars
    BY <2>1, InputsKnown DEF Calls, Returns
  <2>3. FilesInv'
    BY <2>1, <2>2, HandlesKept DEF CommandsInv, FilesInv
  <2>4. parameter_num = 0
    BY <2>1, FileAssumption DEF CommandsInv, Calls, Command
  <2>5. CommandsInv'
    BY <2>1, <2>2, <2>4, FileAssumption DEF CommandsInv
  <2>6. QED
    BY <2>3, <2>5
<1>3. QED
  BY <1>1, <1>2

LEMMA CliStat ==
    ASSUME FilesInv, CommandsInv, prvSTATCommand
    PROVE  FilesInv' /\ CommandsInv'
<1> USE DEF EchoStatics, LsStatics
<1>1. /\ Calls("stat") /\ Returns(FALSE) /\ present' \subseteq File
      /\ UNCHANGED <<dir, lsFirstRun, parameter_num, logVars>>
  BY DEF prvSTATCommand, FilesInv, Returns
<1>2. cpc = "process" /\ cpc' = "send" /\ pxCommand' = None /\ input' \in Inputs
      /\ input.file \in File
  BY <1>1, InputsKnown, InputFields DEF Calls, Returns, CommandsInv
<1>3. CommandsInv'
  BY <1>1, <1>2, FileAssumption DEF CommandsInv, Calls, Command
<1>4. CASE HandleFree /\ Opened(input.file) /\ Leaks
  BY <1>1, <1>2, <1>3, <1>4, HandleLeaked DEF CommandsInv
<1>5. CASE UNCHANGED <<open, leaks>>
  BY <1>1, <1>2, <1>3, <1>5, HandlesKept DEF CommandsInv
<1>6. QED
  BY <1>4, <1>5 DEF prvSTATCommand

LEMMA CliMake ==
    ASSUME FilesInv, CommandsInv, prvMKCommand
    PROVE  FilesInv' /\ CommandsInv'
<1> USE DEF EchoStatics, LsStatics
<1>1. UNCHANGED <<leaks, dir, lsFirstRun, parameter_num, logVars>> /\ input.file \in File
      /\ dir \in BOOLEAN
  BY InputFields DEF prvMKCommand, MkOpens, MkCloses, CommandsInv
<1>2. CASE MkOpens
  <2>1. cpc = "process" /\ Command = "mk" /\ pxCommand' = None
    BY <1>2 DEF MkOpens, Calls
  <2>2. ~dir /\ parameter_num = 0
    BY <2>1, FileAssumption DEF CommandsInv, Command
  <2>3. CASE UNCHANGED <<present, open>> /\ cpc' = "send" /\ input' = NoInput
    BY <1>1, <2>1, <2>2, <2>3, HandlesKept, InputsKnown, FileAssumption
       DEF CommandsInv, FilesInv
  <2>4. CASE /\ HandleFree /\ present' = present \cup {input.file} /\ Opened(input.file)
             /\ cpc' = "mkclose" /\ UNCHANGED input
    <3>1. CommandsInv'
      BY <1>1, <2>1, <2>2, <2>4, FileAssumption DEF CommandsInv
    <3>2. Cardinality(Handles) \in Nat /\ Cardinality(Handles) < HandleMax
      BY <2>2, <2>4, HandlesFinite, FileAssumption DEF HandleFree, Used
    <3>3. open' \in [File -> 0..HandleMax] /\ Cardinality(Handles') = Cardinality(Handles) + 1
      BY <1>1, <2>4, <3>2, HandleTaken DEF FilesInv
    <3>4. Cardinality(Handles) = leaks + 0
      BY <2>1 DEF FilesInv, Busy
    <3>5. Cardinality(Handles') = leaks' + Busy(cpc' = "mkclose")
      BY <1>1, <2>4, <3>3, <3>4 DEF FilesInv, Busy
    <3>6. Used' <= HandleMax
      BY <1>1, <2>2, <3>2, <3>3, FileAssumption DEF Used
    <3>7. \A f \in File : /\ open[f] \in Nat
                          /\ open'[f] = open[f] + Busy(f = input.file)
                          /\ Making(f)' <=> f = input.file
                          /\ ~Making(f)
      BY <2>1, <2>4, FileAssumption DEF FilesInv, Opened, Making, Busy
    <3>8. \A f \in File : Making(f)' => open'[f] > 0
      BY <3>7 DEF Busy
    <3>9. lpc' = "unlink" /\ ~lFailed' => open'[lfile'] > Busy(Making(lfile))'
      <4>1. lfile \in File /\ lfile' = lfile /\ (lpc' = "unlink" /\ ~lFailed' => open[lfile] > 0)
        BY <1>1, <3>7 DEF FilesInv, File, logVars, Busy
      <4>2. Busy(Making(lfile))' = Busy(lfile = input.file)
        BY <3>7, <4>1 DEF Busy
      <4>3. QED
        BY <3>7, <4>1, <4>2 DEF Busy
    <3>10. QED
      BY <1>1, <2>4, <3>1, <3>3, <3>5, <3>6, <3>8, <3>9 DEF FilesInv, logVars
  <2>5. QED
    BY <1>2, <2>3, <2>4 DEF MkOpens
<1>3. CASE MkCloses
  <2>1. /\ cpc = "mkclose" /\ cpc' = "send" /\ input' = NoInput /\ Closed(input.file)
        /\ UNCHANGED <<present, pxCommand>>
    BY <1>3 DEF MkCloses
  <2>2. CommandsInv'
    BY <1>1, <2>1, InputsKnown DEF CommandsInv
  <2>3. open[input.file] > 0
    BY <1>1, <2>1 DEF FilesInv, Making
  <2>4. open' \in [File -> 0..HandleMax] /\ Cardinality(Handles') = Cardinality(Handles) - 1
    BY <1>1, <2>1, <2>3, HandleGiven DEF FilesInv
  <2>5. Cardinality(Handles') = leaks' + Busy(cpc' = "mkclose")
    BY <1>1, <2>1, <2>4 DEF FilesInv, Busy
  <2>6. Used' <= HandleMax
    BY <1>1, <2>4, HandlesFinite, FileAssumption DEF FilesInv, Used
  <2>7. \A f \in File : /\ open[f] \in Nat
                        /\ open'[f] = open[f] - Busy(f = input.file)
                        /\ Making(f) <=> f = input.file
                        /\ ~Making(f)'
    BY <2>1, FileAssumption DEF FilesInv, Closed, Making, Busy
  <2>8. lpc' = "unlink" /\ ~lFailed' => open'[lfile'] > Busy(Making(lfile))'
    <3>1. lfile \in File /\ lfile' = lfile
          /\ (lpc' = "unlink" /\ ~lFailed' => open[lfile] > Busy(Making(lfile)))
      BY <1>1 DEF FilesInv, File, logVars
    <3>2. Busy(Making(lfile)) = Busy(lfile = input.file) /\ Busy(Making(lfile))' = 0
      BY <1>1, <2>1, <2>7, <3>1 DEF Busy, Making
    <3>3. QED
      BY <2>7, <3>1, <3>2 DEF Busy
  <2>9. QED
    BY <1>1, <2>1, <2>2, <2>4, <2>5, <2>6, <2>7, <2>8 DEF FilesInv, logVars
<1>4. QED
  BY <1>2, <1>3 DEF prvMKCommand

LEMMA CliTalks ==
    ASSUME FilesInv, CommandsInv, CliSent \/ CliSendFails \/ \E i \in Inputs : CliRequest(i)
    PROVE  FilesInv' /\ CommandsInv'
<1>1. /\ cpc # "mkclose" /\ cpc # "process" /\ cpc' # "mkclose"
      /\ UNCHANGED <<present, open, leaks, dir, lsFirstRun, parameter_num, pxCommand, logVars>>
      /\ input' \in Inputs
  BY InputsKnown DEF CliSent, CliSendFails, CliRequest, fsVars, CommandsInv
<1>2. FilesInv'
  BY <1>1, HandlesKept DEF CommandsInv, FilesInv
<1>3. CommandsInv'
  BY <1>1 DEF CommandsInv
<1>4. QED
  BY <1>2, <1>3

LEMMA CliStepInv ==
    ASSUME FileClientsInv, CliStep \/ \E i \in Inputs : CliRequest(i)
    PROVE  FileClientsInv'
<1>1. UNCHANGED <<heap, lost, mishap, logVars, updVars>>
  BY DEF CliStep, CliRequest, OneAnswer, prvEchoCommand, prvLSCommand, LsOpens, LsEntry, LsEnds,
     prvMKCommand, MkOpens, MkCloses, prvRMCommand, prvSTATCommand, prvREADCommand, CliSent,
     CliSendFails, Returns
<1>2. HeapInv' /\ UpdaterInv'
  BY <1>1, KeptApart DEF FileClientsInv, logVars
<1>3. FilesInv' /\ CommandsInv'
  BY CliCommands, CliListing, CliStat, CliMake, CliTalks
     DEF FileClientsInv, CliStep, prvLSCommand
<1>4. QED
  BY <1>2, <1>3 DEF FileClientsInv

-----------------------------------------------------------------------------
(***************************************************************************)
(* The logger service.                                                     *)
(***************************************************************************)
\* What was created is open when get_file comes to unlink it.
LEMMA LoggerFiles ==
    ASSUME FilesInv, CommandsInv, LoggerStep
    PROVE  FilesInv'
<1>1. UNCHANGED cliVars /\ lfile' = lfile /\ lfile \in Log /\ lfile \in File
      /\ dir \in BOOLEAN /\ lFailed \in BOOLEAN
  BY DEF LoggerStep, LogMalloc, file_exists, ExistsUnlinks, LogOpen, LogRead, LogReply,
     FilesInv, CommandsInv, File
<1>2. UNCHANGED <<dir, cpc, input>>
  BY <1>1 DEF cliVars
<1>3. CASE LogMalloc \/ LogRead \/ LogReply \/ ExistsUnlinks
  <2>1. UNCHANGED <<open, leaks>> /\ present' \subseteq File /\ lpc' # "unlink"
        /\ lFailed' \in BOOLEAN
    BY <1>1, <1>3 DEF LogMalloc, LogRead, LogReply, ExistsUnlinks, Unlink, fsVars, FilesInv
  <2>2. QED
    BY <1>1, <1>2, <2>1, HandlesKept
<1>4. CASE file_exists
  <2>1. lFailed' \in BOOLEAN
    BY <1>4 DEF file_exists
  <2>2. CASE UNCHANGED <<present, open, leaks>> /\ (lpc' = "unlink" => lFailed')
    BY <1>1, <1>2, <2>1, <2>2, HandlesKept DEF FilesInv
  <2>3. CASE HandleFree /\ present' = present \cup {lfile} /\ Opened(lfile) /\ Leaks
    <3>1. present' \subseteq File
      BY <1>1, <2>3 DEF FilesInv
    <3>2. QED
      BY <1>1, <1>2, <2>1, <2>3, <3>1, HandleLeaked
  <2>4. QED
    BY <1>4, <2>2, <2>3 DEF file_exists
<1>5. CASE LogOpen
  <2>1. lpc' # "unlink" /\ lFailed' = lFailed /\ present' \subseteq File
    BY <1>5 DEF LogOpen, FilesInv
  <2>2. CASE HandleFree /\ Opened(lfile) /\ Leaks
    BY <1>1, <1>2, <2>1, <2>2, HandleLeaked
  <2>3. CASE UNCHANGED <<open, leaks>>
    BY <1>1, <1>2, <2>1, <2>3, HandlesKept
  <2>4. QED
    BY <1>5, <2>2, <2>3 DEF LogOpen
<1>6. QED
  BY <1>3, <1>4, <1>5 DEF LoggerStep

LEMMA LoggerHeap ==
    ASSUME HeapInv, LoggerStep, mishap = None
    PROVE  HeapInv'
<1> USE FileAssumption DEF HeapInv
<1>1. CASE LogMalloc
  BY <1>1 DEF LogMalloc
<1>2. CASE file_exists \/ ExistsUnlinks \/ LogOpen \/ LogRead
  <2>1. UNCHANGED <<heap, lost, mishap>> /\ lpc \notin {"idle", "malloc"}
        /\ lpc' \notin {"idle", "malloc"}
    BY <1>2 DEF file_exists, ExistsUnlinks, LogOpen, LogRead
  <2>2. QED
    BY <2>1
<1>3. CASE LogReply
  BY <1>3 DEF LogReply
<1>4. QED
  BY <1>1, <1>2, <1>3 DEF LoggerStep

LEMMA LoggerInv ==
    ASSUME FileClientsInv, mishap = None,
           LoggerStep \/ \E f \in Log : LoggerRequest(f) \/ LogWritten(f)
    PROVE  FileClientsInv'
<1>1. UNCHANGED <<cliVars, updVars>>
  BY DEF LoggerStep, LogMalloc, file_exists, ExistsUnlinks, LogOpen, LogRead, LogReply,
     LoggerRequest, LogWritten
<1>2. CommandsInv' /\ UpdaterInv'
  BY <1>1, KeptApart DEF FileClientsInv
<1>3. CASE LoggerStep
  BY <1>2, <1>3, LoggerFiles, LoggerHeap DEF FileClientsInv
<1>4. ASSUME NEW f \in Log, LoggerRequest(f) PROVE FileClientsInv'
  <2>1. /\ lfile' = f /\ lpc = "idle" /\ lpc' = "malloc"
        /\ UNCHANGED <<present, open, heap, leaks, lost, mishap, lFailed, dir, cpc, input>>
    BY <1>4 DEF LoggerRequest, fsVars, cliVars
  <2>2. FilesInv'
    BY <2>1, HandlesKept DEF FileClientsInv, FilesInv, CommandsInv
  <2>3. HeapInv'
    BY <2>1 DEF FileClientsInv, HeapInv
  <2>4. QED
    BY <1>2, <2>2, <2>3 DEF FileClientsInv
<1>5. ASSUME NEW f \in Log, LogWritten(f) PROVE FileClientsInv'
  <2>1. /\ present' \subseteq File /\ UNCHANGED logVars
        /\ UNCHANGED <<open, heap, leaks, lost, mishap, dir, cpc, input>>
    BY <1>5 DEF LogWritten, cliVars, FileClientsInv, FilesInv, File
  <2>2. FilesInv'
    BY <2>1, HandlesKept DEF FileClientsInv, CommandsInv
  <2>3. HeapInv'
    BY <2>1, KeptApart DEF FileClientsInv, logVars
  <2>4. QED
    BY <1>2, <2>2, <2>3 DEF FileClientsInv
<1>6. QED
  BY <1>3, <1>4, <1>5

-----------------------------------------------------------------------------
(***************************************************************************)
(* The updater.                                                            *)
(***************************************************************************)
LEMMA UpdaterFiles ==
    ASSUME FilesInv, CommandsInv, UpdaterStep \/ \E job \in Jobs : UpdaterRequest(job)
    PROVE  FilesInv'
<1>1. UNCHANGED <<present, dir, cpc, input, logVars>> /\ dir \in BOOLEAN /\ present \subseteq File
  BY DEF UpdaterStep, UpdaterRequest, OtherJobs, FlashOpen, FlashErase, FlashBuffer, FlashLoad,
     FlashProgram, ShutDown, cliVars, fsVars, FilesInv, CommandsInv
<1>2. CASE UNCHANGED <<open, leaks>>
  BY <1>1, <1>2, HandlesKept
<1>3. CASE HandleFree /\ Opened("image") /\ Leaks
  BY <1>1, <1>3, HandleLeaked DEF File
<1>4. QED
  BY <1>2, <1>3
  DEF UpdaterStep, UpdaterRequest, OtherJobs, FlashOpen, FlashErase, FlashBuffer, FlashLoad,
      FlashProgram, ShutDown, fsVars

LEMMA UpdaterJobs ==
    ASSUME UpdaterInv, HeapInv, mishap = None, UpdaterStep \/ \E job \in Jobs : UpdaterRequest(job)
    PROVE  UpdaterInv' /\ HeapInv'
<1> USE DEF UpdaterInv, Ends
<1>1. CASE FlashBuffer
  <2>1. PICK n \in Attempts \cup {0} :
           /\ get_buffer(n)
           /\ ubuf' = n /\ heap' = heap - n /\ lost' = lost + n
           /\ IF n = 0 THEN Ends(-1) ELSE upc' = "load" /\ UNCHANGED ustatus
    BY <1>1 DEF FlashBuffer
  <2>2. upc = "buffer" /\ UNCHANGED <<eeprom, mishap, lpc>> /\ n \in Nat /\ n <= heap
    BY <1>1, <2>1, FileAssumption DEF FlashBuffer, logVars, get_buffer
  <2>3. UpdaterInv'
    BY <2>1, <2>2
  <2>4. heap' \in Nat /\ lost' \in Nat
    BY <2>1, <2>2 DEF HeapInv
  <2>5. HeapInv'
    BY <2>1, <2>2, <2>4, FileAssumption DEF HeapInv
  <2>6. QED
    BY <2>3, <2>5
<1>2. CASE OtherJobs \/ FlashOpen \/ FlashErase \/ FlashLoad \/ FlashProgram \/ ShutDown
           \/ \E job \in Jobs : UpdaterRequest(job)
  <2>1. HeapInv'
    BY <1>2, KeptApart
    DEF UpdaterRequest, OtherJobs, FlashOpen, FlashErase, FlashLoad, FlashProgram, ShutDown, logVars
  <2>2. UpdaterInv'
    <3>1. CASE \E job \in Jobs : UpdaterRequest(job)
      BY <3>1 DEF UpdaterRequest, Jobs
    <3>2. CASE OtherJobs
      BY <3>2 DEF OtherJobs, Jobs
    <3>3. CASE FlashOpen
      BY <3>3 DEF FlashOpen
    <3>4. CASE FlashErase
      BY <3>4 DEF FlashErase
    <3>5. CASE FlashLoad
      BY <3>5 DEF FlashLoad
    <3>6. CASE FlashProgram
      BY <3>6 DEF FlashProgram, Programmed
    <3>7. CASE ShutDown
      BY <3>7 DEF ShutDown
    <3>8. QED
      BY <1>2, <3>1, <3>2, <3>3, <3>4, <3>5, <3>6, <3>7
  <2>3. QED
    BY <2>1, <2>2
<1>3. QED
  BY <1>1, <1>2 DEF UpdaterStep

LEMMA UpdaterKeeps ==
    ASSUME FileClientsInv, mishap = None, UpdaterStep \/ \E job \in Jobs : UpdaterRequest(job)
    PROVE  FileClientsInv'
<1>1. UNCHANGED cliVars
  BY DEF UpdaterStep, UpdaterRequest, OtherJobs, FlashOpen, FlashErase, FlashBuffer, FlashLoad,
     FlashProgram, ShutDown
<1>2. QED
  BY <1>1, KeptApart, UpdaterFiles, UpdaterJobs DEF FileClientsInv

-----------------------------------------------------------------------------
(***************************************************************************)
(* Every step keeps the invariant.                                         *)
(***************************************************************************)
LEMMA InvStep == FileClientsInv /\ [Next]_vars => FileClientsInv'
<1> SUFFICES ASSUME FileClientsInv, [Next]_vars PROVE FileClientsInv'
  OBVIOUS
<1>1. CASE UNCHANGED vars
  <2>1. UNCHANGED <<present, open, leaks, dir, cpc, input, logVars>>
    BY <1>1 DEF vars, fsVars, cliVars
  <2>2. FilesInv'
    BY <2>1, HandlesKept DEF FileClientsInv, CommandsInv, FilesInv
  <2>3. QED
    BY <1>1, <2>1, <2>2, KeptApart DEF FileClientsInv, vars, logVars
<1>2. CASE Restart
  BY <1>2, InvRestart
<1>3. CASE mishap = None /\ (CliStep \/ \E i \in Inputs : CliRequest(i))
  BY <1>3, CliStepInv
<1>4. CASE mishap = None /\ (LoggerStep \/ \E f \in Log : LoggerRequest(f) \/ LogWritten(f))
  BY <1>4, LoggerInv
<1>5. CASE mishap = None /\ (UpdaterStep \/ \E job \in Jobs : UpdaterRequest(job))
  BY <1>5, UpdaterKeeps
<1>6. QED
  BY <1>1, <1>2, <1>3, <1>4, <1>5 DEF Next

(***************************************************************************)
(* Every handle and the whole heap are accounted for, however many handles *)
(* there are and however large the heap is.                                *)
(***************************************************************************)
THEOREM HandlesAndHeapAccounted == Spec => []ResourcesAccounted
<1>1. FileClientsInv => ResourcesAccounted
  <2> SUFFICES ASSUME FileClientsInv PROVE ResourcesAccounted
    OBVIOUS
  <2>1. Used = leaks + Busy(dir) + Busy(cpc = "mkclose")
    BY HandlesFinite DEF FileClientsInv, FilesInv, Used, Busy
  <2>2. heap = HeapSize - lost - LogSize * Busy(lpc \notin {"idle", "malloc"})
    BY FileAssumption DEF FileClientsInv, HeapInv, Busy
  <2>3. QED
    BY <2>1, <2>2, FileAssumption
       DEF FileClientsInv, FilesInv, HeapInv, UpdaterInv, ResourcesAccounted
<1>2. QED
  BY <1>1, InvInit, InvStep, PTL DEF Spec

(***************************************************************************)
(* Between requests the statics that hold a place in an answer are at its  *)
(* start, but for the command the next request goes on with.  (Nothing is  *)
(* said of firstRun of stat, which holds none.)                            *)
(***************************************************************************)
THEOREM UnsentAnswersResume == Spec => []AnswersResume
<1>1. FileClientsInv => AnswersResume
  BY DEF FileClientsInv, CommandsInv, AnswersResume
<1>2. QED
  BY <1>1, InvInit, InvStep, PTL DEF Spec

(***************************************************************************)
(* The logger service removes a log only in a request whose red_open       *)
(* failed with an error other than RED_EEXIST, however many handles and    *)
(* logs there are and whatever the other two services do.                  *)
(***************************************************************************)
THEOREM LoggerKeepsLogs == Spec => LogsKept
<1>1. ASSUME FileClientsInv, LoggerStep, ~lFailed
      PROVE  present \subseteq present'
  <2>1. CASE ExistsUnlinks
    <3>1. open[lfile] > Busy(Making(lfile))
      BY <1>1, <2>1 DEF ExistsUnlinks, FileClientsInv, FilesInv
    <3>2. open[lfile] # 0
      BY <3>1 DEF Busy
    <3>3. QED
      BY <2>1, <3>2 DEF ExistsUnlinks, Unlink
  <2>2. CASE ~ExistsUnlinks
    BY <1>1, <2>2 DEF LoggerStep, LogMalloc, file_exists, LogOpen, LogRead, LogReply, fsVars
  <2>3. QED
    BY <2>1, <2>2
<1>2. FileClientsInv /\ [Next]_vars => [LoggerStep /\ ~lFailed => present \subseteq present']_vars
  BY <1>1
<1>3. QED
  BY <1>2, InvInit, InvStep, PTL DEF Spec, LogsKept
=============================================================================
