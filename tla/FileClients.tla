---------------------------- MODULE FileClients ----------------------------
(***************************************************************************)
(* The three services that use the file system at the same time: the       *)
(* command line (cli.c, fs_utils.c), the logger service and the updater.   *)
(* They share the file handles of Reliance Edge, of which there are a      *)
(* fixed number, and the heap.                                             *)
(*                                                                         *)
(* A call of the file system is one step; it is external and does what its *)
(* manual says: red_open takes a handle before it looks at the name, so    *)
(* that without one it fails with RED_EMFILE whether the file is there or  *)
(* not; it may fail at any time, with RED_EIO, RED_ENOSPC or another error *)
(* that is not RED_EEXIST, and then has done nothing.  red_unlink fails    *)
(* with RED_EBUSY on an open file, and may also fail at any time.  No      *)
(* handle is 0 or 1.  Directories, but for the handle of a listing, are    *)
(* not modelled.                                                           *)
(*                                                                         *)
(* Requests arrive one at a time at each service.  What a log or a listing *)
(* says, the RTC of `time` and the packets are not modelled here.          *)
(***************************************************************************)
EXTENDS Integers, FiniteSets

CONSTANTS
    HandleMax,       \* REDCONF_HANDLE_COUNT
    HeapSize,        \* units of the heap
    Log,             \* the files of the logger
    Attempts,        \* sizes get_buffer tries
    LogSize,         \* size of the buffer of the logger service
    ImageSize,       \* size of application_image.bin
    MaxParams,       \* parameters of an echo
    Golden,          \* GOLDEN_IMAGE is defined
    None

ASSUME FileAssumption ==
    /\ {HandleMax, HeapSize, LogSize, ImageSize, MaxParams} \subseteq Nat
    /\ Attempts \subseteq Nat \ {0}
    /\ IsFiniteSet(Log) /\ "image" \notin Log
    /\ LogSize > 0 /\ ImageSize > 0 /\ Golden \in BOOLEAN
    /\ None \notin {"one", "echo", "stat", "mk", "rm", "ls", "read"}

VARIABLES
    present,         \* the files that are there
    open,            \* open[f]: how many handles are open on f
    heap,            \* what pvPortMalloc has left
    leaks,           \* the handles that were opened and will never be closed
    lost,            \* what the updater allocated and will never free
    mishap,          \* None, or the service that went through NULL
    pxCommand,       \* of FreeRTOS+CLI: the command that has more to say
    parameter_num, lsFirstRun, dir, statFirstRun,   \* statics of the commands
    input, cpc,                                     \* the cli's request
    lfile, lFailed, lpc,                            \* the logger's request
    flash, eeprom, ustatus, ubuf, readFailed, upc   \* the updater's

fsVars == <<present, open>>
cliVars == <<pxCommand, parameter_num, lsFirstRun, dir, statFirstRun,
             input, cpc>>
logVars == <<lfile, lFailed, lpc>>
updVars == <<flash, eeprom, ustatus, ubuf, readFailed, upc>>
vars == <<fsVars, heap, leaks, lost, mishap, cliVars, logVars, updVars>>

File == Log \cup {"image"}

\* The first, second, ... handle on f; a directory that is listed has one too.
Handles == {h \in File \X (1..HandleMax) : h[2] <= open[h[1]]}
Used == Cardinality(Handles) + (IF dir THEN 1 ELSE 0)
HandleFree == Used < HandleMax

Opened(f) == open' = [open EXCEPT ![f] = @ + 1]
Closed(f) == open' = [open EXCEPT ![f] = @ - 1]
Leaks == leaks' = leaks + 1

\* red_unlink(f)
Unlink(f) == \/ open[f] = 0 /\ present' = present \ {f}
             \/ UNCHANGED present

NoInput == [name |-> "one", file |-> "image", parameters |-> 0]

\* Requests to the cli; "one" is any of hello, time, pwd, cd, mkdir,
\* rmdir and transact, and an unknown name.
Inputs == [name : {"echo"}, file : {"image"}, parameters : {MaxParams}]
    \cup [name : {"stat", "mk", "rm"}, file : File, parameters : {1}]
    \cup [name : {"ls", "one"}, file : {"image"}, parameters : {0}]
    \cup [name : {"read"}, file : {"image"}, parameters : {1}]

StaticsInit ==
    /\ pxCommand = None /\ parameter_num = 0
    /\ lsFirstRun = TRUE /\ dir = FALSE /\ statFirstRun = FALSE

Init ==
    /\ present \in SUBSET File
    /\ open = [f \in File |-> 0] /\ heap = HeapSize
    /\ leaks = 0 /\ lost = 0 /\ mishap = None
    /\ StaticsInit /\ input = NoInput /\ cpc = "idle"
    /\ lfile \in Log /\ lFailed = FALSE /\ lpc = "idle"
    /\ flash = "whole" /\ eeprom = FALSE
    /\ ustatus = 0 /\ ubuf = 0 /\ readFailed = FALSE /\ upc = "idle"

\* A reset of the processor: memory is lost, disk, eeprom and flash are not.
Restart ==
    /\ open' = [f \in File |-> 0] /\ heap' = HeapSize
    /\ leaks' = 0 /\ lost' = 0 /\ mishap' = None
    /\ pxCommand' = None /\ parameter_num' = 0
    /\ lsFirstRun' = TRUE /\ dir' = FALSE /\ statFirstRun' = FALSE
    /\ input' = NoInput /\ cpc' = "idle"
    /\ lfile' = lfile /\ lFailed' = FALSE /\ lpc' = "idle"
    /\ eeprom' = FALSE /\ ustatus' = 0 /\ ubuf' = 0 /\ readFailed' = FALSE /\ upc' = "idle"
    /\ UNCHANGED <<present, flash>>

-----------------------------------------------------------------------------
(***************************************************************************)
(* The commands of the cli.  Each gives its output and says whether it     *)
(* wants to be called again; FreeRTOS_CLIProcessCommand keeps the one that *)
(* does in pxCommand and calls it, whatever the input is then.             *)
(***************************************************************************)
CliRequest(i) ==
    /\ cpc = "idle"
    /\ input' = i /\ cpc' = "process"
    /\ UNCHANGED <<fsVars, heap, leaks, lost, mishap, pxCommand, parameter_num, lsFirstRun, dir,
                   statFirstRun, logVars, updVars>>

Command == IF pxCommand = None THEN input.name ELSE pxCommand
Calls(name) == cpc = "process" /\ Command = name
EchoStatics == <<parameter_num>>
LsStatics == <<lsFirstRun, dir>>
StatStatics == <<statFirstRun>>

\* What the interpreter keeps, and what no command touches.
Returns(again) ==
    /\ pxCommand' = IF again THEN Command ELSE None
    /\ input' = IF again THEN input ELSE NoInput
    /\ cpc' = "send"
    /\ UNCHANGED <<heap, lost, mishap, logVars, updVars>>

\* prvPWDCommand, prvCDCommand and the others that leave files and statics alone.
OneAnswer ==
    /\ Calls("one") /\ Returns(FALSE)
    /\ UNCHANGED <<fsVars, leaks, EchoStatics, LsStatics, StatStatics>>

\* A mutated form of prvEchoCommand: the parameters are not counted.
MutEchoStays ==
    /\ Calls("echo")
    /\ parameter_num' = IF parameter_num > input.parameters THEN 0 ELSE 1
    /\ Returns(parameter_num <= input.parameters)
    /\ UNCHANGED <<fsVars, leaks, LsStatics, StatStatics>>

prvEchoCommand ==
    /\ Calls("echo")
    /\ parameter_num' = IF parameter_num > input.parameters THEN 0 ELSE parameter_num + 1
    /\ Returns(parameter_num <= input.parameters)
    /\ UNCHANGED <<fsVars, leaks, LsStatics, StatStatics>>

\* ls: red_opendir, and in the same call the first entry; an empty one ends it.
LsOpens ==
    /\ Calls("ls") /\ lsFirstRun
    /\ \/ HandleFree /\ lsFirstRun' = FALSE /\ dir' = TRUE /\ cpc' = "process"
       \/ cpc' = "send" /\ UNCHANGED LsStatics
    /\ pxCommand' = None
    /\ UNCHANGED <<fsVars, leaks, EchoStatics, StatStatics, heap, lost, mishap, input,
                   logVars, updVars>>

LsEntry ==
    /\ Calls("ls") /\ ~lsFirstRun /\ Returns(TRUE)
    /\ UNCHANGED <<fsVars, leaks, EchoStatics, LsStatics, StatStatics>>

\* A mutated form of LsEnds: the next ls reads on in a directory that is closed.
MutLsEndsStale ==
    /\ Calls("ls") /\ ~lsFirstRun /\ Returns(FALSE)
    /\ dir' = FALSE /\ UNCHANGED lsFirstRun
    /\ UNCHANGED <<fsVars, leaks, EchoStatics, StatStatics>>

\* The last entry was read, or red_readdir failed.
LsEnds ==
    /\ Calls("ls") /\ ~lsFirstRun /\ Returns(FALSE)
    /\ dir' = FALSE /\ lsFirstRun' = TRUE
    /\ UNCHANGED <<fsVars, leaks, EchoStatics, StatStatics>>

prvLSCommand == LsOpens \/ LsEntry \/ LsEnds

\* mk: red_open and red_close; between them the file is open.
MkOpens ==
    /\ Calls("mk")
    /\ \/ /\ HandleFree /\ input.file \notin present
          /\ present' = present \cup {input.file} /\ Opened(input.file)
          /\ cpc' = "mkclose" /\ UNCHANGED input
       \/ cpc' = "send" /\ input' = NoInput /\ UNCHANGED <<present, open>>
    /\ pxCommand' = None
    /\ UNCHANGED <<leaks, EchoStatics, LsStatics, StatStatics, heap, lost, mishap,
                   logVars, updVars>>

\* A mutated form of MkCloses: the handle is kept.
MutMkKeeps ==
    /\ cpc = "mkclose" /\ cpc' = "send" /\ input' = NoInput
    /\ UNCHANGED <<fsVars, leaks, EchoStatics, LsStatics, StatStatics,
                   heap, lost, mishap, pxCommand, logVars, updVars>>

MkCloses ==
    /\ cpc = "mkclose" /\ cpc' = "send" /\ input' = NoInput
    /\ Closed(input.file)
    /\ UNCHANGED <<present, leaks, EchoStatics, LsStatics, StatStatics,
                   heap, lost, mishap, pxCommand, logVars, updVars>>

prvMKCommand == MkOpens \/ MkCloses

prvRMCommand ==
    /\ Calls("rm") /\ Returns(FALSE)
    /\ Unlink(input.file)
    /\ UNCHANGED <<open, leaks, EchoStatics, LsStatics, StatStatics>>

(***************************************************************************)
(* stat: firstRun is false at boot, so the first call looks at no file and *)
(* answers from a structure of zeros; it sets firstRun, which stays so for *)
(* ever: the later calls open the file, do not close it, and end with      *)
(* firstRun set whether it could be opened and read or not.                *)
(***************************************************************************)
prvSTATCommand ==
    /\ Calls("stat") /\ Returns(FALSE)
    /\ \/ statFirstRun /\ HandleFree /\ input.file \in present
          /\ Opened(input.file) /\ Leaks
       \/ UNCHANGED <<open, leaks>>
    /\ statFirstRun' = TRUE
    /\ UNCHANGED <<present, EchoStatics, LsStatics>>

\* read: a function without a return statement.
prvREADCommand ==
    /\ Calls("read")
    /\ \E again \in BOOLEAN : Returns(again)
    /\ UNCHANGED <<fsVars, leaks, EchoStatics, LsStatics, StatStatics>>

\* The answer is sent; cli_app calls the interpreter again while there is more.
CliSent ==
    /\ cpc = "send"
    /\ cpc' = IF pxCommand # None THEN "process" ELSE "idle"
    /\ UNCHANGED <<fsVars, heap, leaks, lost, mishap, pxCommand, parameter_num, lsFirstRun, dir,
                   statFirstRun, input, logVars, updVars>>

\* It cannot be sent: cli_app returns, in the middle of the command.
CliSendFails ==
    /\ cpc = "send"
    /\ cpc' = "idle" /\ input' = NoInput
    /\ UNCHANGED <<fsVars, heap, leaks, lost, mishap, pxCommand, parameter_num, lsFirstRun, dir,
                   statFirstRun, logVars, updVars>>

CliStep ==
    \/ OneAnswer \/ prvEchoCommand \/ prvLSCommand \/ prvMKCommand \/ prvRMCommand
    \/ prvSTATCommand \/ prvREADCommand \/ CliSent \/ CliSendFails

-----------------------------------------------------------------------------
(***************************************************************************)
(* The logger service: get_file, and in it file_exists.                    *)
(***************************************************************************)
LoggerRequest(f) ==
    /\ lpc = "idle" /\ lfile' = f /\ lpc' = "malloc"
    /\ UNCHANGED <<fsVars, heap, leaks, lost, mishap, cliVars, lFailed, updVars>>

\* Without memory the answer is copied from NULL, after a loop from an unset start.
LogMalloc ==
    /\ lpc = "malloc"
    /\ IF heap >= LogSize
       THEN heap' = heap - LogSize /\ lpc' = "probe" /\ UNCHANGED mishap
       ELSE mishap' = "logger" /\ UNCHANGED <<heap, lpc>>
    /\ UNCHANGED <<fsVars, leaks, lost, cliVars, lfile, lFailed, updVars>>

\* A mutated form of file_exists: RED_EEXIST is not told from the other errors.
MutExistsUnseen ==
    /\ lpc = "probe"
    /\ IF HandleFree /\ lfile \notin present
       THEN present' = present \cup {lfile} /\ Opened(lfile) /\ Leaks
       ELSE UNCHANGED <<present, open, leaks>>
    /\ lpc' = "unlink" /\ lFailed' = ~HandleFree
    /\ UNCHANGED <<heap, lost, mishap, cliVars, lfile, updVars>>

(***************************************************************************)
(* file_exists: RED_EEXIST, or the file is created.  `file` is then the    *)
(* result of the comparison, 0 or 1, and red_close of that does nothing: a *)
(* file that was created stays open.  Any other error, the end of the      *)
(* handles or one of the disk, is taken for "was not there" as well.       *)
(***************************************************************************)
file_exists ==
    /\ lpc = "probe"
    /\ \/ /\ HandleFree /\ lfile \in present
          /\ lpc' = "open" /\ lFailed' = FALSE
          /\ UNCHANGED <<present, open, leaks>>
       \/ /\ HandleFree /\ lfile \notin present
          /\ present' = present \cup {lfile} /\ Opened(lfile) /\ Leaks
          /\ lpc' = "unlink" /\ lFailed' = FALSE
       \/ /\ lpc' = "unlink" /\ lFailed' = TRUE
          /\ UNCHANGED <<present, open, leaks>>
    /\ UNCHANGED <<heap, lost, mishap, cliVars, lfile, updVars>>

\* red_unlink does nothing to a file that was just created and is still open.
ExistsUnlinks ==
    /\ lpc = "unlink"
    /\ Unlink(lfile) /\ lpc' = "reply"
    /\ UNCHANGED <<open, heap, leaks, lost, mishap, cliVars, lfile, lFailed, updVars>>

\* The file is opened again, and never closed.
LogOpen ==
    /\ lpc = "open"
    /\ \/ HandleFree /\ lfile \in present /\ Opened(lfile) /\ Leaks /\ lpc' = "read"
       \/ lpc' = "reply" /\ UNCHANGED <<open, leaks>>
    /\ UNCHANGED <<present, heap, lost, mishap, cliVars, lfile, lFailed, updVars>>

\* red_read: text, nothing, or -1.  Whatever came of it, the reply is made.
LogRead ==
    /\ lpc = "read" /\ lpc' = "reply"
    /\ UNCHANGED <<fsVars, heap, leaks, lost, mishap, cliVars, lfile, lFailed, updVars>>

\* The answer is max_string_length bytes of a buffer that is assumed not to be shorter.
LogReply ==
    /\ lpc = "reply"
    /\ heap' = heap + LogSize /\ lFailed' = FALSE /\ lpc' = "idle"
    /\ UNCHANGED <<fsVars, leaks, lost, mishap, cliVars, lfile, updVars>>

LoggerStep == LogMalloc \/ file_exists \/ ExistsUnlinks \/ LogOpen \/ LogRead \/ LogReply

\* ex2_log creates a log that is not there.
LogWritten(f) ==
    /\ f \in Log /\ HandleFree /\ present' = present \cup {f}
    /\ UNCHANGED <<open, heap, leaks, lost, mishap, cliVars, logVars, updVars>>

-----------------------------------------------------------------------------
(***************************************************************************)
(* The updater: every request sets up the eeprom first and shuts it down   *)
(* last, also when it could not be set up.                                 *)
(***************************************************************************)
Jobs == {"flash", "set", "other"}

UpdaterRequest(job) ==
    /\ upc = "idle"
    /\ \/ eeprom' = TRUE /\ upc' = job /\ ustatus' = 0
       \/ eeprom' = FALSE /\ upc' = "down" /\ ustatus' = -1
    /\ ubuf' = 0 /\ readFailed' = FALSE
    /\ UNCHANGED <<fsVars, heap, leaks, lost, mishap, cliVars, logVars, flash>>

Ends(status) == ustatus' = status /\ upc' = "down"

\* SET_APP_ADDRESS, SET_APP_CRC and ERASE_APP, which only the golden image does; the
\* requests for information, the two VERIFYs, and the default.
OtherJobs ==
    /\ \/ upc = "set" /\ Ends(IF Golden THEN 0 ELSE -1)
       \/ upc = "other" /\ (Ends(0) \/ Ends(-1))
    /\ UNCHANGED <<fsVars, heap, leaks, lost, mishap, cliVars, logVars,
                   flash, eeprom, ubuf, readFailed>>

\* FLASH_UPDATE opens the image, which it will not close.  (With GOLDEN_IMAGE defined the
\* branch names `fp` and `buf`, taken to be the handle and the buffer.)
FlashOpen ==
    /\ upc = "flash"
    /\ \/ /\ Golden /\ HandleFree /\ "image" \in present
          /\ Opened("image") /\ Leaks /\ upc' = "prepare" /\ UNCHANGED ustatus
       \/ Ends(-1) /\ UNCHANGED <<open, leaks>>
    /\ UNCHANGED <<present, heap, lost, mishap, cliVars, logVars,
                   flash, eeprom, ubuf, readFailed>>

\* red_fstat, the check of the address, and the erasure; the last may fail half way.
FlashErase ==
    /\ upc = "prepare"
    /\ \/ flash' = "broken" /\ upc' = "buffer" /\ UNCHANGED ustatus
       \/ flash' \in {flash, "broken"} /\ Ends(-1)
    /\ UNCHANGED <<fsVars, heap, leaks, lost, mishap, cliVars, logVars,
                   eeprom, ubuf, readFailed>>

\* n is the largest buffer that can be had; 0 if none.
get_buffer(n) == n <= heap /\ \A m \in Attempts : m <= heap => m <= n

FlashBuffer ==
    /\ upc = "buffer"
    /\ \E n \in Attempts \cup {0} :
          /\ get_buffer(n)
          /\ ubuf' = n /\ heap' = heap - n /\ lost' = lost + n
          /\ IF n = 0 THEN Ends(-1) ELSE upc' = "load" /\ UNCHANGED ustatus
    /\ UNCHANGED <<fsVars, leaks, mishap, cliVars, logVars, flash, eeprom, readFailed>>

\* red_read once; its -1 is not less than an unsigned size.
FlashLoad ==
    /\ upc = "load"
    /\ readFailed' \in BOOLEAN /\ upc' = "program"
    /\ UNCHANGED <<fsVars, heap, leaks, lost, mishap, cliVars, logVars,
                   flash, eeprom, ustatus, ubuf>>

Programmed == IF ~readFailed /\ ubuf >= ImageSize THEN "whole" ELSE "broken"

\* priv_Fapi_BlockProgram once, of what was read.
FlashProgram ==
    /\ upc = "program"
    /\ \/ flash' = Programmed /\ Ends(0)
       \/ flash' = "broken" /\ Ends(-1)
    /\ UNCHANGED <<fsVars, heap, leaks, lost, mishap, cliVars, logVars,
                   eeprom, ubuf, readFailed>>

ShutDown ==
    /\ upc = "down" /\ eeprom' = FALSE /\ upc' = "idle"
    /\ ustatus' = 0 /\ ubuf' = 0 /\ readFailed' = FALSE
    /\ UNCHANGED <<fsVars, heap, leaks, lost, mishap, cliVars, logVars, flash>>

UpdaterStep == OtherJobs \/ FlashOpen \/ FlashErase \/ FlashBuffer \/ FlashLoad
    \/ FlashProgram \/ ShutDown

-----------------------------------------------------------------------------
Next ==
    \/ /\ mishap = None
       /\ \/ \E i \in Inputs : CliRequest(i)
          \/ CliStep
          \/ \E f \in Log : LoggerRequest(f) \/ LogWritten(f)
          \/ LoggerStep
          \/ \E job \in Jobs : UpdaterRequest(job)
          \/ UpdaterStep
    \/ Restart

Spec == Init /\ [][Next]_vars

(***************************************************************************)
(* The three tasks go on with a request they have; a directory has an end. *)
(***************************************************************************)
FairSpec ==
    /\ Spec
    /\ WF_vars(mishap = None /\ CliStep) /\ SF_vars(mishap = None /\ LsEnds)
    /\ WF_vars(mishap = None /\ LoggerStep) /\ WF_vars(mishap = None /\ UpdaterStep)

-----------------------------------------------------------------------------
Busy(b) == IF b THEN 1 ELSE 0

(***************************************************************************)
(* Every handle is accounted for: a listing or a mk in progress has one,   *)
(* all the others were left open by get_file, by stat and by FLASH_UPDATE. *)
(* The heap comes back but for the buffers of FLASH_UPDATE, so that the    *)
(* logger only goes through NULL when those have used it up; the eeprom is *)
(* down between requests.                                                  *)
(***************************************************************************)
ResourcesAccounted ==
    /\ Used = leaks + Busy(dir) + Busy(cpc = "mkclose")
    /\ Used <= HandleMax
    /\ heap = HeapSize - lost - LogSize * Busy(lpc \notin {"idle", "malloc"})
    /\ heap >= 0
    /\ mishap # None => lost > HeapSize - LogSize
    /\ eeprom => upc # "idle"

(***************************************************************************)
(* Between requests the statics that hold a place in an answer, those of   *)
(* echo and of ls, are at its start, except for the one command whose      *)
(* answer could not be sent and which the next request will therefore go   *)
(* on with; no other request finds an answer half given or a directory     *)
(* open.  (firstRun of stat holds no place in an answer, and does change:  *)
(* it is FALSE at boot and TRUE for ever after the first stat.)            *)
(***************************************************************************)
AnswersResume ==
    cpc = "idle" =>
        /\ parameter_num # 0 <=> pxCommand = "echo"
        /\ lsFirstRun <=> pxCommand # "ls"
        /\ lsFirstRun <=> ~dir

(***************************************************************************)
(* The red_unlink of file_exists removes a log only in a request whose     *)
(* red_open failed with an error other than RED_EEXIST: what file_exists   *)
(* has just created is still open when it comes to unlink it, whatever the *)
(* command line and the updater do between the two calls.                  *)
(***************************************************************************)
LogsKept ==
    [][LoggerStep /\ ~lFailed => present \subseteq present']_vars

(***************************************************************************)
(* Every request ends, whatever the other two do, but for the command that *)
(* returns no value.                                                       *)
(***************************************************************************)
RequestsEnd ==
    /\ (cpc # "idle" /\ Command # "read") ~> (cpc = "idle" \/ mishap # None)
    /\ lpc # "idle" ~> (lpc = "idle" \/ mishap # None)
    /\ upc # "idle" ~> (upc = "idle" \/ mishap # None)
=============================================================================
