# Verification of ex2_services in TLA+

ex2_services is the set of telecommand services of the Ex-Alta 2 on-board
computer: C tasks under FreeRTOS, each with a CSP socket on which requests
from the ground arrive, a file system (Reliance Edge) under `VOL0:`, and
drivers for the subsystems. This directory holds TLA+ models of it, the TLC
runs that check them, and theorems about them proved with TLAPS.

Contents: 1 inventory; 2 modules and how they correspond to the code;
3 runs; 4 what the code does not do (the violation runs); 5 proofs;
6 what is not modelled; 7 plan.

## 1. Inventory

Paths are under `src/Services/source` unless they begin with `src/`.

| component | state it keeps | operations | what makes it correct |
|---|---|---|---|
| housekeeping lock (`housekeeping/housekeeping_service.c` 639-646) | the mutex handle `f_count_lock` | `prv_get_lock`, `prv_give_lock` | one task at a time in a critical section; every caller gets in; every return path gives it back |
| housekeeping store (same file) | `MAX_FILES`, `current_file`, `config_loaded`, the index `timestamps`; on disk the ring of records `tempHKdata.TMP` and `HKconfig.TMP` | `populate_and_store_hk_data` (called every interval by another task), `set_max_files`, `fetch_historic_hk_and_transmit`, `load_config`, `store_config`, `dynamic_timestamp_array_handler` | records stay in order through wrap-around, crashes and resizes; index and files agree; paging does not drift; no access outside the index |
| search by time (same file, 55-113) | none | `get_file_id_from_timestamp` | stays in the index, ends, returns a record that is near, the nearest |
| service loops and CSP buffers (all services, `util/service_utilities.c`) | connections, packets, a watchdog counter per service | accept, read, handle, send, close | each packet is sent or freed exactly once |
| replies (every `..._app`, `util/service_utilities.c`) | the bytes of the packet | about 180 subservices: read the inputs, call the drivers, write status and outputs | what arrives is what was asked and what the driver said; a failure is told; nothing of earlier packets is sent |
| general service (`general.c`) | watchdog periods (elsewhere) | reboot, deploy, switch status, watchdog periods | as the two above |
| logger service (`logger/logger_service.c`) | two log files, file handles | get log, get old log, sizes | every handle opened is closed |
| CLI (`cli/cli.c`, `cli/fs_utils.c`) | static variables: place in an answer of several packets, open directory | command, next packet | a request does not meet the state of an earlier one |
| updater (`updater/updater.c`) | flash, eeprom, a buffer and a file handle | flash the image, information, address, CRC, erase, verify | status 0 means the whole image is in the flash; what was taken is given back |
| time management (`time_management/time_management_service.c`) | the clock | get, set, discipline by the GPS | validated times; the clock comes back to the GPS's time |
| communication (`communication/communication_service.c`) | none (radio settings) | about 45 subservices to the S-band and UHF drivers | as the replies; the sum of several results tells a failure |
| response server (`response/service_response.c`) | a queue of three packets | `queue_response`, the sender task | FIFO, nothing lost. No code starts it at this commit |
| ADCS, DFGM (`adcs/adcs_service.c`, `dfgm/dfgm_service.c`) | none | dispatch to drivers outside the repository | packets as above |
| start-up (`services.c`) | which tasks exist | `start_service_server`, `csp_server` | a failure is reported, what started is known |
| scheduler (`scheduler/scheduler.c`) | - | counters only | - |
| demo (`src/ex2_demo_software`) | - | fifo harness on Linux | not flight code |

The components interact through: the CSP buffer pool and connections (all
services); the file system and its table of file handles, and the heap
(housekeeping, logger, CLI, updater); the call of `populate_and_store_hk_data` from a
periodic task outside the repository, in parallel with the housekeeping
service task; the clock (time management, and the record stamps).

Hard behaviours: two tasks and a lock created on first use; state read after
the lock was given back; two files updated one after the other with a reset
possible between; `exists()`, which creates and unlinks the file it is asked
about; allocation, handle and send failures in the middle of an operation;
a ring whose size changes while it is in use; 1-indexed arrays; buffers,
handles and heap that one service uses up and another then lacks; buffers
freed twice; static variables that outlive a request; replies written over
the request they answer; a start-up that stops half way.
`PROJECT.json` lists each under "hazards" with its line.

## 2. Modules

| module | models |
|---|---|
| `Mutex`, `Fifo`, `RecordLog` | abstract specifications: at most one task inside; a bounded queue that may refuse or drop a packet but keeps the order; a log of which the newest records are kept |
| `HkLock` | `prv_get_lock` / `prv_give_lock`, one action per point of preemption; with a refinement of `Mutex` |
| `HkStore` | variables of the store in RAM and on disk; operators for the array handler, `store_config`, `load_config`, reading a slot |
| `Housekeeping` | EXTENDS `HkLock` and `HkStore`: the collector task, the service task, crashes, the file handles running out; with a refinement of `RecordLog` |
| `HkSearch` | `get_file_id_from_timestamp` with its loop, in unsigned arithmetic modulo `Word` |
| `CspBytes` | bytes, numbers and structures: `cnv8_32`, `cnv8_16`, `csp_ntoh..`, `csp_hton32` of a narrower variable, and the same member by member, on hosts of both byte orders |
| `ReplyTables` | one row per `case` of the nine handlers: inputs, outputs, driver calls, size check, length |
| `Replies` | EXTENDS both: what a handler does with a packet, for any row |
| `Services` | the loops of all services, and the CSP buffers they share |
| `FileClients` | command line, logger service and updater, with the file handles, the heap, the flash and the static variables |
| `Startup`, `Clock`, `Response` | `start_service_server`; the clock and those who set it; the response server, with a refinement of `Fifo` |
| `Boot` | EXTENDS these three: the tasks step from the moment they were created |
| `HkLock_proofs`, `Housekeeping_proofs`, `HkRing_proofs`, `HkSearch_proofs`, `Services_proofs`, `FileClients_proofs`, `Boot_proofs`, `Replies_proofs` | theorems |
| `MC...` | small instances for TLC |

Operators named `Mut...` are mutated forms of the definition that follows
them, each a plausible mistake. They are used by no specification: replacing
the definition by its mutated form makes the property that
`PROJECT.json` pairs with it fail.

**HkLock.** `f_count_lock` counts the mutexes created since boot; the handle
is the latest. `TestLock` is `*lock == NULL`, `CreateLock` the creation and
assignment, `CallTake` the evaluation of the argument of `xSemaphoreTake`,
`Acquire` its return, `GiveLock` the give of whatever the global names then.

**HkStore.** A record is its number in order of collection; the same number
stands for its `UNIXtimestamp` wherever that is copied (index, config file),
so the index entry and the slot of a record agree iff the code moved the
right thing to the right place. `timestamps.block` says whether the pointer
is NULL, names a live block or one already freed. `faults` records accesses
that are illegal in C, with the values then read left open (`Garbage`, or any
result in the case of the search). The file system is external; what is
assumed of it is at the head of the module.

**Housekeeping.** Correspondence of the control:

| code | actions |
|---|---|
| `populate_and_store_hk_data` | `Collect`, `LockStep`, `SkipConfig` or `LoadConfig`+`LoadAdvance`, `WriteOpen`, `WriteClose`, `WriteFails`, `Stamp`, `Store`, `Advance`, `WrapAround` |
| `set_max_files` | `RecvSetMax`, `LockStep`, `SetMaxGrow`, or `SetMaxReset`+`SetMaxCleanup` |
| `fetch_historic_hk_and_transmit` | `RecvGetHk`, `LockStep`, `Snapshot`, `Resolve`, then per packet `ReadHk` and `Send` or `SendFails`; `ReadCreates`+`ReadUnlinks` when there is no file, `ReadWithoutHandles` |
| reset | `Crash` |
| `get_file` of the logger keeping handles | `HandlesRunOut` |

A section that holds the lock is divided wherever a task without the lock
reads what it writes (`current_file` by `Resolve`, the record file by the
reads) and wherever a crash leaves a different disk. `++current_file` and its
test are two actions because `Resolve` can come between.

`committed` is a history: the records whose `store_config` is done, oldest
first, emptied by a reset. `fetch.base` is a history too: the place in
`committed` of the first record a GET_HK is to send. `mishaps` remembers what
happened in a behaviour that some property cannot survive:

| mishap | what happened | what it breaks |
|---|---|---|
| `race` | two mutexes were created | exclusion: run `HkLock_race` |
| `stray` | `exists()` unlinked a file the collector had written meanwhile (l. 452) | that record |
| `nohandles` | file handles ran out | `exists()` takes a failed open for an absent file (l. 448-452) and unlinks the records, or the config |
| `nomemory` | `pvPortMalloc` returned NULL for the index | `store_config` writes from NULL (l. 473), and a load returns before the cursor moves on (l. 495), so the newest record is overwritten |
| `shrink` | `set_max_files` reset the store | the index is used after it is freed: run `Housekeeping_IndexFreedOnce` |
| `staleload` | a config file with entries from before a reset was loaded | the index describes files that are gone: `store_config(1)` ran with size 0 (l. 760-764) |
| `grow` | the ring grew | the index loses its last element (l. 139) |
| `growfull` | the ring grew when it had wrapped | the new slots lie between the oldest and the newest record (l. 746-752) |
| `emptyconfig` | a crash while the config file was first created left it empty | the load keeps the initial values and an index of which nothing was read |

The properties are stated of the behaviours without the mishaps they cannot
survive (`BreaksRing`, `BreaksIndex`), and keep the others: write errors,
crashes, and for the ring also resets and loads after a reset.

**HkSearch.** One action per decision of the function. With `Clocked` the
index is what a collector with increasing times leaves; without, anything,
since the call that would set `UNIXtimestamp` is commented out (line 662).

**Replies.** The handlers are long because they are alike: read some bytes,
call a driver, write a status and some bytes. `ReplyTables` keeps of each what
differs, in a row, and `Replies` what is the same: `Receive`, `Read` (the inputs
leave the packet), `Call` (one result per driver call; `status` is what the
handler makes of them), `Answer` (status, outputs, length, and the comparison
with the size of a buffer), `Finish`. A byte is named by where it comes from
(this request, an earlier packet, the driver's value, nowhere), so that the
properties can say that a byte arrived, was moved, or should not be there. The
structures of the drivers are defined outside the repository, so one layout
stands for all of them: `StructSize` bytes, members of any widths (`Mirror` turns
each round), of which those at the places `Narrow` have one or two bytes. A row
says what the code does with a structure: copies it as it lies in memory
(`"raw"`), converts each member by the function of its width (`"members"`), or
every member by `csp_hton32` (`"hton32"`).

**Services.** The loops of the services are the same loop but for three
things: whether `csp_accept` times out (`Timed`), what happens to a packet
(`Ways`), and the two handlers that deal with several packets (GET_HK and the
command line). The map names for each action one service whose code has it;
the plain loops are those of `csp_server`, communication, time, updater,
logger, ADCS and DFGM. A buffer is a model value that moves between the free
pool, CSP (`sending`), the queue of a connection, and the variable of a task.
`Free` asks whether the task has what it frees; if not, `mishap` is set and the
model goes on with a reset only, as nothing is certain after it.

**FileClients.** One action per call of the file system, so that the three
tasks interleave between them as they do under the scheduler. `leaks` counts
handles nobody will close, `lost` the heap nobody will free; `Handles` is the
table of the handles that are open, the n-th of a file being `<<file, n>>`. Every
`red_open`, `red_opendir` and `red_unlink` may fail, for want of a handle or for any
other reason at any time; `lFailed` remembers that the `red_open` of `file_exists`
failed with another error than `RED_EEXIST`. The reply of the updater stands in
`ustatus` until `ShutDown`.

**Startup, Clock, Response, Boot.** `Startup` goes through the tasks in the
order of l. 48-61 of `services.c`; every creation may fail. `Clock` keeps of a
time whether it is true, wrong but accepted by `TIMESTAMP_ISOK`, or refused by
it. In `Response` the packet the task has is the head of the queue that `Fifo`
sees; `last` tells what happened to which packet, so that a packet lost
without a word would not be a step of `Fifo`.

## 3. Runs

Passing:

| run | instance | shows |
|---|---|---|
| `HkLock_created` | 3 tasks from boot, the first call creates the mutex before another is made, fair | refinement of `Mutex`; every caller gets in |
| `Housekeeping_ring` | ring of 3, 4 records, 1 request, 1 crash | `RingOrder`, `IndexMatches`, `IndexMemorySafe`, `FetchPagesBack`, `FetchStaysInRing`, `ExclusionWithOneMutex` |
| `Housekeeping_resize` | ring up to 3, 4 records, 2 resizes, 1 crash, write errors | refinement of `RecordLog`, `IndexMatches`, `CursorInRing` |
| `Housekeeping_live` | ring of 2, 2 records, 1 request, every failure but a crash, fair | `TypeOK`, `LockComesBack`, `RequestsEnd`, `CollectionsEnd` |
| `HkSearch_all` | up to 4 slots, 14-valued word, every ordered index and time | `InBounds`, `ResultIsNear`, `FindsClosest`, `Terminates` |
| `Replies_all` | every row, whole and cut requests, failures of each call or all, two buffer sizes, both byte orders | what is sent is what was asked and answered |
| `Services` | 2 buffers, a plain service, general, housekeeping, command line; up to 2 parts of an answer | one owner per buffer; which leaks and mishaps there are; requests end, buffers return, the watchdog is fed |
| `FileClients` | 2 handles, 2 units of heap, a log, the image | handles and heap are accounted for; only an answer that could not be sent is gone on with; a log is removed only after an error of `red_open`; requests end |
| `Boot` | 3 packets, a queue of 2 | what the start-up returns is true of what runs; the clock follows the GPS; refinement of `Fifo` |

Bounds. A ring of three slots has a first, a last and a middle one; four
records wrap it and overwrite the first; with a crash and a reload the
collector goes round again from what it loaded. One GET_HK is enough for the
races, since the service task serves one request at a time, and its limit goes
up to the ring size, so it pages past the start of the ring. Two resizes are
needed to shrink and grow again. One crash is enough for each place a crash
may hit; the state after it is on disk. `HardMax` stands for 20160; the
proofs of section 5 do without it. In `HkSearch` four slots
take the loop through both sides of each decision; the word is wide enough
that a difference that wraps is far above the threshold.

`Replies` serves one request after another, so a row is met in every state of
the packet; sizes are small (a text is 6 bytes, a structure 7: members of two, one
and four) but distinct, so that an offset that is off by one lands in another field; a text of 255
bytes is one the radio reports beyond its array. The failures -1 and -25 are
the ends of the range of which ten add up inside an `int8_t`. Two buffers are
the fewest with which a command line answer can be cloned and the most that
two requests, a leak or a send still under way use up, so every `free = {}`
branch is met; more only repeat the same states. Two handles let two clients
each hold one and the third find none; a heap of two units lets one update use
up what the logger needs.

`CHECK_DEADLOCK FALSE` is set for `Housekeeping`, where the bounds on records
and requests let the system come to rest, and for `HkSearch`, which returns.
There are no bounds on behaviours elsewhere: `Services`, `FileClients` and
`Boot` are checked over all their infinite behaviours, with resets where they
have them.

Properties are spent on what can go wrong; only the modules whose variables
are numbers in ranges that the code computes have a type invariant among the
runs, and `Response` has it as a theorem.

Fairness. FreeRTOS schedules the tasks, so each takes its next step when it
can (weak fairness of `CollectorStep`, of `ServiceStep`, of the steps of
`prv_get_lock`, of each `Serve`, of the steps of the three file clients, of
`RTC_discipline_service`). A blocked `xSemaphoreTake` is woken by a give,
hence strong fairness of the step out of "wait". CSP gets rid of a packet it
took (its own timeouts see to that). A directory has an end, hence strong
fairness of `LsEnds`. For `ClockFollowsGps`, `RTCMK_SetUnix` does not fail for
ever. Nothing is assumed of requests, intervals, crashes, handles, memory or
of sends succeeding. Where a property needs the requests to stop, it says so
(`NoMoreArrive`).

## 4. What the code does not do

Each run below checks one sentence of a comment and finds it violated; the
findings in `PROJECT.json` give code and comment lines.

| run | sentence | what happens |
|---|---|---|
| `HkLock_race` | "lock" (housekeeping l. 664) | both tasks see NULL and create a mutex |
| `Housekeeping_IndexFreedOnce` | "Handles malloc, realloc, and free" (l. 117) | the freed pointer is kept and freed again |
| `Services_FreedOnce` | "csp_send frees the packet for some reason. get a new one" (cli l. 210) | a packet `cli_app` freed, or sent, is freed again by `cli_service` |

Other differences met while modelling. The passing properties exclude them by
hypotheses that their comments name, and no run is spent on them.

Housekeeping:
- "The next file written to after this function will be file #1" (l. 728):
  after a reset before the config was loaded, the load follows and file 2 is
  next. "the data flow will be unaffected" (l. 729): growing drops the last
  element of the index (l. 139).
- "Check if file with given name exists" (l. 438): `exists()` creates and then
  unlinks the file, also one the collector has written meanwhile, and any file
  when no handle is left.
- The search takes the middle of a wrapped ring from slot 1 and not from the
  oldest (l. 74-82), and finds nothing for a time just after the newest record of a
  ring not full (l. 98; `NotAfterNewest`).
- A GET_HK before the first collection after boot starts at the initial
  cursor and not at the newest record (l. 830; `FetchPagesBack` asks for
  `fetch.loaded`); the `final` flag of the last packet is a byte nobody set
  (l. 856); the stamps are never assigned (l. 662; `Clocked`).

Replies:
- The size is compared after the fact and with one byte too few; the packet
  is written all the same (communication l. 142 and all that follow it).
- ADCS_GET_LOG_CONFIG announces more than it writes and overlaps its fields;
  what is announced "only if status is okay" is left over from earlier packets
  when it is not; ADCS_FILE_UPLOAD_PACKET sends a byte nobody set.
- `csp_hton32` of a 16-bit or 8-bit variable gives 0 on a little-endian host,
  as does `csp_ntoh32` in UHF_SET_I2C. Four ADCS values (`NarrowValues`) and the
  narrow members of seventeen ADCS structures (`NarrowMembers`, e.g. adcs l. 172-177,
  306-309, 863-866) arrive as 0 there; on the big-endian flight computer they arrive.
- Structures are copied as they lie in memory, into replies (`RawReplies`, e.g.
  adcs l. 730, 810, 916, 1004, updater l. 137, 146) and out of requests (`RawRequests`,
  e.g. adcs l. 776, 785, 1051), so they mean something else on a little-endian host.
  So do single numbers whose conversion is missing or is of another width: `cnv8_16`
  swaps and `cnv8_32` does not, so a 16-bit input differs where `csp_ntoh16` is
  missing and a 32-bit one where `csp_ntoh32` is. `HostOrdered` lists all of these.
- DEPLOY_DEPLOYABLES copies one byte to the lowest address of an enum (general
  l. 147-149), which on the big-endian flight computer is its highest byte.
- UHF_GET_MORSE, UHF_GET_MIDI and UHF_GET_BEACON_MSG copy as many bytes as the
  radio reports into arrays of fixed size.
- Setting a watchdog period copies four bytes into one (general l. 191).

Services:
- An unknown subservice of the general and of the housekeeping service is
  neither answered nor freed; the general service does not look at the
  `csp_send` of a reboot or a watchdog period. One buffer is lost each time
  (`leaked`).
- The counters of the general and the housekeeping service stand still while
  they have no connection, since their `csp_accept` waits `CSP_MAX_TIMEOUT`;
  `WatchdogFed` is stated of the others.
- `start_adcs_service` and `start_service_response` are called by nobody.

Files:
- `file_exists` of the logger says "0 if exists, 1 otherwise" (l. 42): it takes
  every error of `red_open` but `RED_EEXIST` (the end of the handles, an error of the
  disk) for a log that is not there, says 1, and unlinks it (l. 46-53); `LogsKept`
  shows that nothing else can make it do so. Neither it nor `get_file` closes what
  it opened; nor does `stat`, nor FLASH_UPDATE.
- FLASH_UPDATE reads once into the largest buffer it can get, takes -1 for a
  large number, and answers 0 of a flash that is not whole (`FlashProgram`; no property
  is spent on it, as it would only repeat that step); the buffer is never freed. The
  length of the answer is then that of the request. The branch exists only with
  `GOLDEN_IMAGE` defined, and then names `fp` (l. 79) and `buf` (l. 107), which
  nothing in the file declares, so that it would not compile as it is.
- `firstRun` of `stat` is FALSE at boot (fs_utils l. 248): the first `stat` looks at no
  file and answers from zeros; it sets `firstRun`, and so does every later one, so
  that all the others open the file.
- `rm` says "Can take any number of file parameters" (fs_utils l. 310) and
  takes one. `read` returns no value. An `ls` or `echo` whose answer cannot be
  sent is gone on with by the next request, whatever it asks.

Clock: SET_TIME refuses times out of range; the command line and the GPS set
any. What the ground set is overwritten at the next signal of the GPS.

## 5. Proofs

Every theorem holds for all values of the constants that satisfy the named
assumptions (`HardMaxAssumption`, `TaskAssumption`, `BoundAssumption`,
`NAssumption`, ...): in particular any ring size and any number of records,
requests and crashes, any queue length, any size of structure, text and buffer.

- `LockTypeCorrect`, `LockExclusion`, `LockImplementsMutex` (`HkLock_proofs`).
  `ExclusionWithOneMutex` is not inductive: a waiting task could hold an older
  handle. The invariant adds that while a single mutex was created a task that
  waits or is inside holds its handle, and that the mutex is taken while a
  task is inside. `LockImplementsMutex` needs besides that, when the tasks come
  in good order, the one that is about to create finds the others outside.
- `TypeCorrect`, `CursorStaysInRing` (`Housekeeping_proofs`). The latter needs
  the exclusion of the lock (`MAX_FILES` changes only under it), carried over
  to `Housekeeping`, where a reset forgets the mutex; that `race` is noted as
  soon as a second mutex is created; and that the config file, also after a
  crash at any place, holds a slot inside the ring size it holds.
- `IndexStaysSafe` (`Housekeeping_proofs`). "No illegal access so far" says
  nothing of the next access, so the invariant carries the shape of the index:
  no block and size 0, or a live block as large as the ring, and a live one
  whenever the config is about to be stored. With `CursorStaysInRing` every
  access at `current_file` is then inside; the exclusion of the lock keeps
  `current_file` out of its one place past the end while a search runs.
- `PagingStaysInRing` (`Housekeeping_proofs`). The invariant follows the copy of
  `MAX_FILES` through the request: it stays equal to `MAX_FILES`, because the
  one service task cannot resize meanwhile and a loaded config is not loaded
  again; the start is then in the ring or one past it, and the step back
  brings it in before the first read. The lemmas on what the operators of
  `HkStore` return stand at the head of this module.
- `RingKeepsOrder` (`HkRing_proofs`). `RingOrder` speaks only of what is committed;
  the invariant (`OrderInv`) adds what a step needs to keep it. `Files`: what
  the slot holds while it is written, before the record counts. `InStep`: the
  next slot of the config file is that of the RAM, so a reset between any two
  statements forgets nothing, and the file may hold a smaller ring only
  while the records have not reached its end. `Numbers` and `Placed`: a record is in
  no slot but its own, so that writing the next one overwrites the
  oldest. Each kind of step has a lemma (`StillRing`, `WriteRing`, `StoreRing`,
  `GrowRing`, `CrashRing`).
- `StoreImplementsLog` (`HkRing_proofs`): the file, its cursor and the config file
  implement `RecordLog`, whose log is `Kept`, what a walk back from the next slot
  finds. `RecordLog` knows nothing of positions or of the history `committed`: it
  says what may become of the records kept, from one step to the next. So the
  proof first shows that `Kept` is the newest records of `committed`
  (`KeptIsNewest`, from `OrderInv`), then, per kind of step, what becomes of
  `committed` (`RecordsChange`) and of the room for it: the ring size seen from
  disk and RAM stays (`RoomStays`), or grows while all records still fit
  (`RoomForAll`). A `store_config` is then an `Add` (`StoreAdds`), a SET_MAX_FILES
  that resets a `Forget`, a mishap of `BreaksRing` a `Break`, and every other step
  a `Keep`, a reset between any two writes included.
- `PagesFollowHistory` (`HkRing_proofs`), an action property. The fetch reads
  its start without the lock; `Leads` says that the slot it has stepped back to
  is the slot of the record due (`Due`). When the collector stores a record the
  next slot and the distance from it move together, so `Leads` stays; it is
  established by a start read in the middle of an increment as well.
- `IndexKeepsUp` (`HkRing_proofs`). The index may be in RAM, only in the config
  file, or nowhere; the invariant (`IndexInv`) has a part for each: `RamMatches`
  with the slot that is being written left out, `DiskMatches` with the next one left out,
  and `Fresh`, as before the first `store_config` only slot 1 can have been
  written.
- `LockReturns` (the run's `LockComesBack`), `TasksComeToAnEnd` (`Housekeeping_proofs`), what
  of the liveness of `Housekeeping` is safety. A task is past a call of `prv_get_lock` exactly as long as
  its section lasts (`Called`), and a mutex that is taken is so by a task inside
  (`TakenFromInside`); so an early return that forgets the lock, or one task waiting
  for another that waits, is excluded. And each task has a number of steps
  left (`CollectionLeft`, `RequestLeft`) which its own steps lower and no other step
  raises. Without fairness this does not say that the steps are taken; that is what
  the run `Housekeeping_live` adds.
- `SearchTypeCorrect`, `SearchInBounds` (`HkSearch_proofs`): the interval of
  the search moved down by its offset stays non-empty and inside `1..N`.
- `SearchResultIsNear` (`HkSearch_proofs`) needs no order of the index. It
  assumes `AwayFromEnds`: no time within the threshold of 0 or of the end of
  the unsigned word, where a difference that wraps would look small. The times
  of a UNIX clock between 1970 and 2106 are such.
- `SearchFindsClosest` (`HkSearch_proofs`), with the stamps in order (`Clocked`).
  On a ring that has not wrapped the records stand at `1..Newest` in order of
  time (`StraightIsSorted`). The invariant (`Narrowed`) says that everything
  left of the interval is earlier than the time and its right end is not; so the
  search ends at the first record that is not earlier, and that one and the one
  before are the only ones that may be within the threshold (`Spaced`).
- `OnlyKnownMishaps`, `ServicesTyped` (`Services_proofs`). `KnownMishaps` speaks of
  the step in which the mishap happens, so the invariant (`LoopInv`) says what
  makes it impossible everywhere else: which places a loop has (`Loops`) and at
  which of them the service has a packet (`Variables`).
- `BuffersHeldOnce`, `OnlyKnownLeaks` (`Services_proofs`). `HeldOnce` does not say
  that a variable and the pool differ when a queue is involved; `Once` says it of
  any two of pool, CSP, queues and variables. What is lost is what is nowhere
  (`Lost`); each action is one of a few movements (`Accounted`) that keep its
  number equal to `leaked`. Only until the first mishap: after a free of what
  another has nothing can be said, which is why both carry `mishap = None`.
- `HandlersComeToAnEnd`, `PoolFullAtRest` (`Services_proofs`), the same for
  `Services`: a handler runs out of steps (`StepsLeft`), in which records or
  answers count twice; and with `Balanced` and `Variables` a loop at rest keeps no
  buffer, so that the pool is full but for what was dropped.
- `HandlesAndHeapAccounted`, `UnsentAnswersResume`, `LoggerKeepsLogs`
  (`FileClients_proofs`). One invariant, checked by TLC before it was proved,
  with a part per service (`FilesInv`, `CommandsInv`, `HeapInv`, `UpdaterInv`).
  The sum of open handles is a cardinality (`Handles`), so what a call of open or
  close does to it is a lemma for any number of files (`HandleTaken`,
  `HandleGiven`). What was missing from the properties: that the file `mk` is
  about to close, and the log `get_file` is about to close, are open; that
  the command that has more to say is the one whose static is set; that the
  updater has no buffer before it allocates one.
- `StartUpTold`, `BootImplementsFifo` (`Boot_proofs`). `StartTold` speaks of the
  end; the invariant (`StartInv`) says which tasks run at each of the eleven
  steps of the start-up.
- `ResponseTypeCorrect`, `ResponseImplementsFifo` (`Boot_proofs`): with the
  type invariant, that a packet is in one place, and that the sender task has
  one only when it runs, every step maps to a step of `Fifo` or to a stutter.

- `Replies_proofs` has a theorem for each invariant of `Replies`. They speak of every
  row of a table of some 180 subservices, so the argument has two halves.
  - The rows. `Fits` says what a row must be like and which exceptions its
    subservice may make: fields that lie one after the other (`Tiled`), an
    announced length that the outputs cover (`Sized`), conversions that undo each
    other (`InHostFree`, `OutHostFree`), for structures member by member. It is proved of each operator that
    builds a row, then of each group of rows (`AdcsFilesFit`, ...,
    `UpdaterRowsFit`), and put together in `RowsFit`. Where the code makes an
    exception the proof fails unless the property names it.
  - The steps. `Answering` says what is decided about the request at each point,
    `Announced` which length and state go with the answer, `Asked` that the
    request lies in the packet as it came until it is answered.
  - `StatusTold`: ten results from -25 to 0 do not wrap an `int8_t` around to
    0 (`FailuresAddUp`), and no output reaches the status byte.
    `ByteOrderFree`: a reversal undone by another (`ReversedTwice`), in a structure
    within each member (`StructBytes`).
    `SentRepliesFit`: announced length and compared size belong together
    (`Compared`, again row by row). `RepliesAreNew`: places 2 up to the announced
    length are covered by outputs (`PartsCover`), and no conversion brings in a
    byte of an earlier packet. `ReportsArrive`: what one output writes no other
    overwrites (`PartsApart`), and no conversion loses a byte (`OutputKeeps`).
    `SettingsArrive`: the bytes of the arguments and the places of the request
    are in one-to-one correspondence (`PlacesCounted`), whatever conversion moves them
    (`InputMoves`); a text ends before the
    first zero (`TextIsPrefix`).
  - The sizes of a row are folds over its fields. A fold is a recursive function on
    sets, whose value on `1..n` is reached by `FoldExists` and `FoldSteps`; induction is
    over a set of numbers (`SetInduction`), which needs no operator as a
    parameter.
  - Assumptions: call signs and the FRAM have a size, a structure has at least two
    bytes and a text is whole notes (`SizeAssumption`); turning the members of a
    structure round twice leaves it as it was, and a narrow member is so with all its
    bytes (`LayoutAssumption`); drivers
    fail with -25..-1 (`FailureAssumption`); lengths a radio reports are a
    `uint8_t` (`LengthAssumption`); sizes are natural numbers (`BufferAssumption`); the
    part of the packet that is looked at holds every input and output
    (`TopAssumption`).

Only model-checked: liveness (`RequestsEnd`, `CollectionsEnd`, `EveryCallerGetsIn`,
`Terminates`, `WatchdogFed`, `BuffersReturn`, `ClockFollowsGps`), which under fairness
is out of the prover's reach; the theorems above have the safety part of the first,
the second and `BuffersReturn`. Every safety invariant, action property and refinement
of the passing runs is a theorem.

## 6. Not modelled

- The drivers, libcsp, Reliance Edge, FreeRTOS and FreeRTOS+CLI: not in the
  repository; modelled from how the services use them and marked external.
- The contents and byte order of a housekeeping record and its size on disk;
  `mock_everyone` (test data). Of the structures of the drivers the members and any
  padding: one layout stands for all, whose narrow members are integers (a `bool`
  member keeps its value where an integer of one byte is lost).
- The text of log and command line answers, `createErrorOutput`, the directory
  tree and the current directory.
- Sizes of buffers against each other: a `csp_buffer_get` refused because of its size
  (only an empty pool is modelled); the copy of `max_string_length` bytes out of a log
  buffer that SET_FILE_SIZE may have made smaller (logger l. 76, 101); the copy of a
  command of up to 255 bytes into `pcInputString` (cli l. 185-189).
- The handle of the config file that `load_config` leaves open when its allocation
  fails (housekeeping l. 494-495): it is one of the causes of `HandlesRunOut`, which may
  happen at any time, and is not counted.
- Failure of `xSemaphoreCreateMutex`; values `set_max_files` refuses;
  wrap-around of `uint16_t` counters (`current_file` is at most 20161) and of the
  watchdog counters.
- `hex_dump`, the scheduler's ten lines and the demo program.

## 7. Plan

What was planned is built. Worth adding when the code or the tools change:

1. The liveness properties as theorems, from `TasksComeToAnEnd`, `LockReturns`,
   `HandlersComeToAnEnd` and `PoolFullAtRest`, with provers that know ENABLED.
2. The same safety core for `FileClients`, once `ls` and `read` have a bound on the
   answers they give (today only the directory and the driver bound them).
3. `RingOrder` and `IndexMatches` without the mishaps they excuse, as the code comes to
   close what it opens and to check what it allocates.
