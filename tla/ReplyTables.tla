---------------------------- MODULE ReplyTables ----------------------------
(***************************************************************************)
(* What each subservice of the services does with its packet: which bytes  *)
(* of the request it reads and how, how many driver calls it makes, what   *)
(* it writes after the status byte, the length it announces, and the size  *)
(* it compares with csp_buffer_data_size().  One row per `case`; a service *)
(* is the union of its groups of rows.                                     *)
(*                                                                         *)
(* Offsets of inputs count from IN_DATA_BYTE, those of outputs from        *)
(* OUT_DATA_BYTE.  The structures of the drivers are defined outside the   *)
(* repository: each has StructSize bytes and the layout Mirror, Narrow,    *)
(* whatever that is, and no padding.                                       *)
(***************************************************************************)
EXTENDS Integers, Sequences, SequencesExt

CONSTANTS
    StructSize,      \* bytes of a driver's structure
    Mirror,          \* place j of the structure, seen from the other end of its member
    Narrow,          \* the places of its integers of one or two bytes
    CallSignMax,     \* CALLSIGN_LEN
    TextMax,         \* MORSE_BEACON_MSG_LEN_MAX, BEACON_MSG_LEN_MAX
    FramSize         \* FRAM_SIZE

ASSUME SizeAssumption ==
    /\ {CallSignMax, FramSize} \subseteq Nat \ {0}
    /\ StructSize \in Nat \ {0, 1}           \* Sband_Buffer holds 16-bit pointers
    /\ TextMax \in Nat /\ TextMax % 3 = 0    \* whole notes fit (60 does)

ASSUME LayoutAssumption ==
    /\ Mirror \in [1..StructSize -> 1..StructSize]
    /\ \A j \in 1..StructSize : Mirror[Mirror[j]] = j
    /\ Narrow \subseteq 1..StructSize
    /\ \A j \in Narrow : Mirror[j] \in Narrow

(***************************************************************************)
(* An input: n bytes at `at`, read `as`                                    *)
(*   "bytes"   copied                                                      *)
(*   "net"     cnv8_32, csp_ntoh32   "net16"  cnv8_16, csp_ntoh16          *)
(*   "cnv"     cnv8_32 only          "cnv16"  cnv8_16 only                 *)
(*   "text"    up to the first zero  "padded" the same, with length n      *)
(*   "low"     only the byte at the lowest address is used                 *)
(*   "narrow"  csp_ntoh32 whatever its width                               *)
(*   "host"    an integer, copied                                          *)
(*   "raw"     a structure, copied                                         *)
(*   "enum"    a byte, copied to the lowest address of a wider integer, 0  *)
(*   "nothing" a local variable that is not initialised                    *)
(***************************************************************************)
In(at, n, as) == [at |-> at, n |-> n, as |-> as]
U8(at) == In(at, 1, "bytes")
U16(at) == In(at, 2, "net16")
U32(at) == In(at, 4, "net")
Whole == In(0, StructSize, "bytes")
WholeStruct == In(0, StructSize, "raw")

(***************************************************************************)
(* An output: n bytes at `at`, put `as`                                    *)
(*   "bytes"   copied                "host"   an integer, copied           *)
(*   "net"     csp_hton of its width "narrow" csp_hton32, whatever width   *)
(*   "raw"     a structure, copied                                         *)
(*   "members" a structure, each member by the csp_hton of its width       *)
(*   "hton32"  a structure, each member by csp_hton32, whatever its width; *)
(*             a bool, which would keep its value, counts as a byte       *)
(*   "text"    as many bytes as the device said, after a memset            *)
(* and coming `from` the driver, from it but preset to zero, from the      *)
(* first argument, from a constant zero, or from nowhere.                  *)
(***************************************************************************)
Out(at, n, as, from) == [at |-> at, n |-> n, as |-> as, from |-> from]
Flag(at) == Out(at, 1, "bytes", "preset")
Number(n, as) == Out(0, n, as, "driver")

OutSize(out) == FoldLeft(LAMBDA total, o : total + o.n, 0, out)

(***************************************************************************)
(* `status` is "sum" of the calls' results (one call: its result),         *)
(* "first" failure, "zero" whatever they return; `refuses` says that the   *)
(* handler may answer -1 without any call; `ifok` that the output is only  *)
(* written when the status is 0.                                           *)
(***************************************************************************)
Cmd(in) == [in |-> in, out |-> <<>>, calls |-> 1, status |-> "sum", check |-> 0,
            len |-> 2, refuses |-> FALSE, ifok |-> FALSE, result |-> "SATR_OK"]
\* Mutated forms of Reply: the subservice is not counted, and counted twice.
MutReplyShort(in, out) ==
    [Cmd(in) EXCEPT !.out = out, !.check = OutSize(out), !.len = 1 + OutSize(out)]
MutReplyLong(in, out) ==
    [Cmd(in) EXCEPT !.out = out, !.check = OutSize(out), !.len = 3 + OutSize(out)]
Reply(in, out) == [Cmd(in) EXCEPT !.out = out, !.check = OutSize(out),
                                  !.len = 2 + OutSize(out)]
Get(out) == Reply(<<>>, out)
GetNumber(n, as) == Get(<<Number(n, as)>>)
\* A mutated form of GetStruct: the members are forgotten, the structure is copied.
MutGetStruct(as) == GetNumber(StructSize, "raw")
GetStruct(as) == GetNumber(StructSize, as)
IfOk(row) == [row EXCEPT !.ifok = TRUE]
Unchecked(row) == [row EXCEPT !.check = 0]
Calls(row, n) == [row EXCEPT !.calls = n]
AlwaysOk(row) == [Unchecked(row) EXCEPT !.status = "zero"]
Refusing(row) == [row EXCEPT !.refuses = TRUE]

\* A `default:` that leaves the packet alone, with the state it returns.
NoCase(result) == [Cmd(<<>>) EXCEPT !.calls = 0, !.len = 0, !.result = result]

\* One case, several with one body, and the cases of two groups.  (TLC's :> and
\* @@ would do, were they known to the prover; the union has a name of its own so that
\* a chain of them, expanded, stays as long as it is written.)
Case(name, row) == [s \in {name} |-> row]
Each(names, row) == [s \in names |-> row]
Joined(f, g) == [s \in DOMAIN f \cup DOMAIN g |-> IF s \in DOMAIN f THEN f[s] ELSE g[s]]
f ++ g == Joined(f, g)

-----------------------------------------------------------------------------
\* ADCS: log, boot registers, SD card and file transfer.
AdcsFiles ==
    Each({"ADCS_RESET", "ADCS_RESET_LOG_POINTER", "ADCS_ADVANCE_LOG_POINTER",
          "ADCS_RESET_BOOT_REGISTERS", "ADCS_FORMAT_SD_CARD",
          "ADCS_ADVANCE_FILE_LIST_READ_POINTER", "ADCS_RESET_UPLOAD_BLOCK",
          "ADCS_RESET_FILE_LIST_READ_POINTER"}, Cmd(<<>>))
    ++ Case("ADCS_ERASE_FILE", Cmd(<<U8(0), U8(1), U8(2)>>))
    ++ Case("ADCS_LOAD_FILE_DOWNLOAD_BLOCK", Cmd(<<U8(0), U8(1), U32(2), U16(6)>>))
    ++ Each({"ADCS_INITIATE_FILE_UPLOAD", "ADCS_INITIATE_DOWNLOAD_BURST"},
            Cmd(<<U8(0), U8(1)>>))
    ++ Case("ADCS_FILE_UPLOAD_PACKET",
            Unchecked(Reply(<<U16(0), In(0, 1, "nothing")>>,
                            <<Out(0, 1, "bytes", "nowhere")>>)))
    ++ Case("ADCS_FINALIZE_UPLOAD_BLOCK", Cmd(<<U8(0), U32(1), U16(5)>>))

\* ADCS: identification, boot, events, file download.
AdcsIdentity ==
    Each({"ADCS_GET_NODE_IDENTIFICATION", "ADCS_GET_BOOT_PROGRAM_STAT",
          "ADCS_GET_BOOT_INDEX", "ADCS_GET_LAST_LOGGED_EVENT", "ADCS_GET_TC_ACK"},
         GetStruct("hton32"))
    ++ Case("ADCS_GET_FILE_DOWNLOAD_BUFFER", GetStruct("raw"))
    ++ Case("ADCS_GET_SD_FORMAT_PROCESS", Get(<<Flag(0), Flag(1)>>))

\* ADCS: upload state, checksums, error counts.
AdcsUpload ==
    Each({"ADCS_GET_FILE_DOWNLOAD_BLOCK_STAT", "ADCS_GET_FILE_INFO",
          "ADCS_GET_SRAM_LATCHUP_COUNT", "ADCS_GET_EDAC_ERR_COUNT"}, GetStruct("hton32"))
    ++ Case("ADCS_GET_INIT_UPLOAD_STAT", IfOk(Get(<<Flag(0)>>)))
    ++ Case("ADCS_GET_FINALIZE_UPLOAD_STAT", Get(<<Flag(0), Flag(1)>>))
    ++ Case("ADCS_GET_UPLOAD_CRC16_CHECKSUM", GetNumber(2, "narrow"))
    ++ Case("ADCS_GET_COMMS_STAT", IfOk(GetNumber(2, "narrow")))

\* ADCS: cache, scrubbing, hole map, time.
AdcsCache ==
    Case("ADCS_SET_CACHE_EN_STATE", Cmd(<<U8(0)>>))
    ++ Case("ADCS_SET_SRAM_SCRUB_SIZE", Cmd(<<In(0, 2, "cnv16")>>))
    ++ Case("ADCS_SET_UNIXTIME_SAVE_CONFIG", Cmd(<<U8(0), U8(1)>>))
    ++ Case("ADCS_SET_HOLE_MAP",
            [Cmd(<<U8(0), U8(1)>>) EXCEPT !.out = <<Out(0, 1, "bytes", "argument")>>])
    ++ Case("ADCS_SET_UNIX_T", Cmd(<<U32(0), U16(4)>>))
    ++ Case("ADCS_GET_CACHE_EN_STATE", IfOk(Get(<<Flag(0)>>)))
    ++ Case("ADCS_GET_SRAM_SCRUB_SIZE", IfOk(GetNumber(2, "narrow")))
    ++ Each({"ADCS_GET_UNIXTIME_SAVE_CONFIG", "ADCS_GET_UNIX_T"}, GetStruct("hton32"))
    ++ Case("ADCS_GET_HOLE_MAP", Reply(<<U8(0)>>, <<Number(1, "host")>>))

\* ADCS: boot loader and programs.
AdcsBoot ==
    Each({"ADCS_CLEAR_ERR_FLAGS", "ADCS_RUN_SELECTED_PROGRAM"}, Cmd(<<>>))
    ++ Each({"ADCS_SET_BOOT_INDEX", "ADCS_READ_PROGRAM_INFO"}, Cmd(<<U8(0)>>))
    ++ Case("ADCS_COPY_PROGRAM_INTERNAL_FLASH", Cmd(<<U8(0), U8(1)>>))
    ++ Each({"ADCS_GET_BOOTLOADER_STATE", "ADCS_GET_PROGRAM_INFO"}, GetStruct("hton32"))
    ++ Case("ADCS_COPY_INTERNAL_FLASH_PROGRESS", Get(<<Flag(0), Flag(1)>>))

\* ADCS: modes, camera, actuators.
AdcsControl ==
    Each({"ADCS_DEPLOY_MAGNETOMETER_BOOM", "ADCS_SET_ENABLED_STATE",
          "ADCS_SET_ATTITUDE_ESTIMATE_MODE", "ADCS_SET_ASGP4_RUNE_MODE",
          "ADCS_SET_MTM_OP_MODE"}, Cmd(<<U8(0)>>))
    ++ Each({"ADCS_CLEAR_LATCHED_ERRS", "ADCS_SAVE_IMG"}, Cmd(<<U8(0), U8(1)>>))
    ++ Case("ADCS_SET_ATTITUDE_CTR_MODE", Cmd(<<U8(0), U16(1)>>))
    ++ Each({"ADCS_TRIGGER_ADCS_LOOP", "ADCS_TRIGGER_ASGP4", "ADCS_SAVE_CONFIG",
             "ADCS_SAVE_ORBIT_PARAMS"}, Cmd(<<>>))
    ++ Case("ADCS_CNV2JPG", Cmd(<<U8(0), U8(1), U8(2)>>))
    ++ Each({"ADCS_TRIGGER_ADCS_LOOP_SIM", "ADCS_SET_MAGNETORQUER_OUTPUT",
             "ADCS_SET_WHEEL_SPEED"}, Cmd(<<WholeStruct>>))

\* ADCS: state and progress.
AdcsState ==
    Each({"ADCS_GET_CURRENT_STATE", "ADCS_GET_SAT_POS_LLH"}, Unchecked(GetStruct("raw")))
    ++ Each({"ADCS_GET_JPG_CNV_PROGESS", "ADCS_GET_EXECUTION_TIMES",
             "ADCS_GET_ACP_LOOP_STAT", "ADCS_GET_IMG_SAVE_PROGRESS"}, GetStruct("hton32"))
    ++ Case("ADCS_GET_CUBEACP_STATE", GetNumber(1, "host"))

\* ADCS: measurements.
AdcsMeasures ==
    Each({"ADCS_GET_MEASUREMENTS", "ADCS_GET_ACTUATOR", "ADCS_GET_ESTIMATION",
          "ADCS_GET_RAW_SENSOR", "ADCS_GET_RAW_GPS", "ADCS_GET_STAR_TRACKER",
          "ADCS_GET_MTM2_MEASUREMENTS", "ADCS_GET_POWER_TEMP"}, GetStruct("raw"))
    ++ Case("ADCS_GET_ASGP4", Get(<<Flag(0), Flag(1), Out(2, StructSize, "raw", "driver")>>))

\* ADCS: power, attitude, log configuration.
AdcsPower ==
    Case("ADCS_SET_POWER_CONTROL", Reply(<<U8(0)>>, <<Out(0, 1, "narrow", "argument")>>))
    ++ Case("ADCS_GET_POWER_CONTROL", GetNumber(1, "narrow"))
    ++ Each({"ADCS_SET_ATTITUDE_ANGLE", "ADCS_SET_TRACK_CONTROLLER"}, Cmd(<<WholeStruct>>))
    ++ Each({"ADCS_GET_ATTITUDE_ANGLE", "ADCS_GET_TRACK_CONTROLLER"}, GetStruct("raw"))
    ++ Case("ADCS_SET_LOG_CONFIG",
            Reply(<<In(0, 10, "bytes"), U16(1), U8(2), U8(3)>>,
                  <<Out(0, 10, "bytes", "argument")>>))
    ++ Case("ADCS_GET_LOG_CONFIG",
            Get(<<Out(0, 10, "bytes", "driver"), Out(1, 2, "host", "driver"),
                  Out(3, 1, "host", "driver"), Out(4, 1, "host", "zero")>>))

\* ADCS: inertial reference, orbit, system, torquers, wheels.
AdcsOrbit ==
    Each({"ADCS_SET_INERTIAL_REF", "ADCS_SET_SGP4_ORBIT_PARAMS",
          "ADCS_SET_SYSTEM_CONFIG"}, Cmd(<<WholeStruct>>))
    ++ Case("ADCS_SET_MTQ_CONFIG", Cmd(<<Whole>>))
    ++ Each({"ADCS_GET_INERTIAL_REF", "ADCS_GET_SGP4_ORBIT_PARAMS",
             "ADCS_GET_SYSTEM_CONFIG"}, GetStruct("raw"))
    ++ Case("ADCS_SET_RW_CONFIG", Reply(<<U8(0)>>, <<Out(0, 1, "bytes", "argument")>>))

\* ADCS: sensor and controller configuration.
AdcsConfig ==
    Each({"ADCS_SET_RATE_GYRO", "ADCS_SET_CSS_CONFIG", "ADCS_SET_STAR_TRACK_CONFIG",
          "ADCS_SET_CUBESENSE_CONFIG", "ADCS_SET_DETUMBLE_CONFIG",
          "ADCS_SET_YWHEEL_CONFIG", "ADCS_SET_TRACKING_CONFIG", "ADCS_SET_MOI_MAT",
          "ADCS_SET_ESTIMATION_CONFIG", "ADCS_SET_USERCODED_SETTING",
          "ADCS_SET_ASGP4_SETTING"}, Cmd(<<WholeStruct>>))
    ++ Case("ADCS_SET_MTM_CONFIG", Cmd(<<WholeStruct, U8(StructSize)>>))
    ++ Case("ADCS_GET_FULL_CONFIG", GetStruct("raw"))
    ++ Case("ADCS_unknown", NoCase("SATR_OK"))

AdcsRows == AdcsFiles ++ AdcsIdentity ++ AdcsUpload ++ AdcsCache ++ AdcsBoot
    ++ AdcsControl ++ AdcsState ++ AdcsMeasures ++ AdcsPower ++ AdcsOrbit ++ AdcsConfig

-----------------------------------------------------------------------------
\* S-band, reading: S_GET_STATUS compares the size of the wrong variable.  The members of
\* S_GET_CONTROL and S_GET_ENCODER are bytes.
SBandGets ==
    Case("S_GET_FREQ", GetNumber(4, "net"))
    ++ Each({"S_GET_CONTROL", "S_GET_ENCODER"}, GetStruct("bytes"))
    ++ Each({"S_GET_FW", "S_GET_HK"}, GetStruct("members"))
    ++ Case("S_GET_TR", GetStruct("raw"))
    ++ Case("S_GET_PA_POWER", GetNumber(1, "host"))
    ++ Case("S_GET_CONFIG", Calls(GetStruct("members"), 4))
    ++ Case("S_GET_STATUS", [GetStruct("raw") EXCEPT !.check = 1])

\* The buffer number is read from the request; outside 0..2 it is refused.
SBandBuffer ==
    Case("S_GET_BUFFER",
         [Reply(<<U8(0)>>, <<Number(2, "net")>>) EXCEPT !.check = StructSize])
    ++ Case("S_GET_BUFFER 3", NoCase("SATR_PKT_ILLEGAL_SUBSERVICE"))

\* Seven drivers are asked, one after the other whatever they return.  The version of the
\* firmware is the one member that is not converted.
SBandFull == Case("S_SOFT_RESET", Cmd(<<>>))
    ++ Case("S_GET_FULL_STATUS",
            Calls(Get(<<Out(0, StructSize, "members", "driver"),
                        Out(StructSize, 2, "host", "driver")>>), 7))

\* A mutated form of SBandSets: only the last of the four results is reported.
MutSBandLastOnly ==
    Case("S_SET_CONFIG", [Calls(Cmd(<<U32(0)>> \o [i \in 1..7 |-> U8(3 + i)]), 4)
                          EXCEPT !.status = "last"])

\* S-band, setting.
SBandSets ==
    Case("S_SET_FREQ", Cmd(<<U32(0)>>))
    ++ Case("S_SET_PA_POWER", Cmd(<<U8(0)>>))
    ++ Case("S_SET_CONTROL", Cmd(<<U8(0), U8(1)>>))
    ++ Case("S_SET_ENCODER", Cmd(<<U8(0), U8(1), U8(2), U8(3)>>))
    ++ Case("S_SET_CONFIG", Calls(Cmd(<<U32(0)>> \o [i \in 1..7 |-> U8(3 + i)]), 4))

\* UHF, setting numbers: the status control word is SCW_LEN bytes; a single bit of it is
\* set after reading it, if it could be read.
UhfSets ==
    Case("UHF_SET_SCW", Cmd(<<Whole>>))
    ++ Each({"UHF_SET_ECHO", "UHF_SET_BCN", "UHF_SET_PIPE"},
            [Calls(Cmd(<<>>), 2) EXCEPT !.status = "first"])
    ++ Each({"UHF_SET_FREQ", "UHF_SET_PIPE_TIMEOUT", "UHF_SET_BEACON_T",
             "UHF_SET_AUDIO_T"}, Cmd(<<U32(0)>>))
    ++ Case("UHF_SET_PARAMS", Calls(Cmd(<<U32(0), U32(4), U32(8), U32(12)>>), 4))
    ++ Each({"UHF_RESTORE_DEFAULT", "UHF_LOW_PWR"}, Cmd(<<U8(0)>>))

\* UHF, setting texts; a MIDI text begins with 'M' and is whole notes, or is refused.
UhfTexts ==
    Each({"UHF_SET_DEST", "UHF_SET_SRC"}, Cmd(<<In(0, CallSignMax, "padded")>>))
    ++ Each({"UHF_SET_MORSE", "UHF_SET_BEACON_MSG"}, Cmd(<<In(0, TextMax, "text")>>))
    ++ Case("UHF_SET_MIDI", Refusing(Cmd(<<In(1, TextMax, "text")>>)))

\* UHF, address, FRAM and secure mode.  csp_ntoh32 is applied to an address of one byte.
UhfMemory ==
    Case("UHF_SET_I2C", Cmd(<<In(0, 1, "narrow")>>))
    ++ Case("UHF_WRITE_FRAM", Cmd(<<In(0, 4, "cnv"), In(4, FramSize, "bytes")>>))
    ++ Case("UHF_SECURE", Cmd(<<U8(0)>>))

\* UHF, reading.
UhfGets ==
    Case("UHF_GET_FULL_STAT", Calls(GetStruct("members"), 10))
    ++ Case("UHF_GET_CALL_SIGN",
            Calls(Get(<<Out(0, CallSignMax, "bytes", "driver"),
                        Out(CallSignMax, CallSignMax, "bytes", "driver")>>), 2))
    ++ Each({"UHF_GET_MORSE", "UHF_GET_MIDI", "UHF_GET_BEACON_MSG"},
            GetNumber(TextMax, "text"))
    ++ Case("UHF_GET_FRAM", Reply(<<In(0, 4, "cnv")>>, <<Number(FramSize, "bytes")>>))
    ++ Case("UHF_GET_SECURE_KEY", GetNumber(4, "net"))
    ++ Case("COMM_unknown", NoCase("SATR_PKT_ILLEGAL_SUBSERVICE"))

CommRows == SBandGets ++ SBandBuffer ++ SBandFull ++ SBandSets
    ++ UhfSets ++ UhfTexts ++ UhfMemory ++ UhfGets

-----------------------------------------------------------------------------
\* The time service: a time out of range is refused.
TimeRows ==
    Case("SET_TIME", Refusing(Cmd(<<U32(0)>>)))
    ++ Case("GET_TIME", Unchecked(GetNumber(4, "net")))
    ++ Case("TIME_unknown", NoCase("SATR_PKT_ILLEGAL_SUBSERVICE"))

\* The magnetometer service: the run time is not converted from network order.
DfgmRows ==
    Case("DFGM_RUN", Cmd(<<In(0, 4, "cnv")>>))
    ++ Each({"DFGM_START", "DFGM_STOP"}, Cmd(<<>>))
    ++ Case("DFGM_GET_HK", Unchecked(Get(<<Out(0, StructSize, "members", "preset")>>)))
    ++ Case("DFGM_unknown", NoCase("SATR_PKT_ILLEGAL_SUBSERVICE"))

(***************************************************************************)
(* The general service.  A reboot of an unknown type is refused; the other *)
(* answers are a status that is always 0 and eight switches, or a watchdog *)
(* period.  Setting a period copies sizeof(unsigned int) bytes into a      *)
(* uint8_t, of which the first is used.                                    *)
(***************************************************************************)
GeneralRows ==
    Case("REBOOT", [Refusing(Cmd(<<U8(0)>>)) EXCEPT !.calls = 0])
    ++ Case("DEPLOY_DEPLOYABLES",
            Unchecked(Reply(<<In(0, 1, "enum")>>, <<Out(0, 2, "host", "preset")>>)))
    ++ Case("GET_SWITCH_STATUS", AlwaysOk(Calls(GetNumber(8, "bytes"), 8)))
    ++ Each({"GET_UHF_WATCHDOG_TIMEOUT", "GET_SBAND_WATCHDOG_TIMEOUT",
             "GET_CHARON_WATCHDOG_TIMEOUT"}, AlwaysOk(GetNumber(4, "host")))
    ++ Each({"SET_UHF_WATCHDOG_TIMEOUT", "SET_SBAND_WATCHDOG_TIMEOUT",
             "SET_CHARON_WATCHDOG_TIMEOUT"}, Cmd(<<In(0, 4, "low")>>))
    ++ Case("GENERAL_unknown", NoCase("SATR_PKT_ILLEGAL_SUBSERVICE"))

\* The housekeeping service; GET_HK is in Housekeeping.
HousekeepingRows ==
    Case("SET_MAX_FILES", Cmd(<<U16(0)>>))
    ++ Case("GET_MAX_FILES", AlwaysOk(GetNumber(2, "net")))
    ++ Case("HK_unknown", NoCase("SATR_PKT_ILLEGAL_SUBSERVICE"))

\* The logger service; GET_FILE and GET_OLD_FILE are in FileClients.
LoggerRows ==
    Case("SET_FILE_SIZE", Cmd(<<In(0, 4, "host")>>))
    ++ Case("GET_FILE_SIZE", Unchecked(GetNumber(4, "host")))
    ++ Case("LOGGER_unknown", NoCase("SATR_PKT_ILLEGAL_SUBSERVICE"))

(***************************************************************************)
(* The updater; FLASH_UPDATE is in FileClients.  All of it is refused when *)
(* the eeprom cannot be set up, and the settings by an application image.  *)
(***************************************************************************)
UpdaterRows ==
    Each({"GET_GOLDEN_INFO", "GET_APP_INFO"}, Refusing(AlwaysOk(GetStruct("raw"))))
    ++ Case("SET_APP_ADDRESS", Refusing(AlwaysOk(Cmd(<<In(0, 4, "host")>>))))
    ++ Case("SET_APP_CRC", Refusing(AlwaysOk(Cmd(<<In(0, 2, "host")>>))))
    ++ Case("ERASE_APP", Refusing(AlwaysOk(Cmd(<<>>))))
    ++ Each({"VERIFY_APPLICATION_IMAGE", "VERIFY_GOLDEN_IMAGE"}, Refusing(Cmd(<<>>)))
    ++ Case("UPDATER_unknown", Refusing(NoCase("SATR_PKT_ILLEGAL_SUBSERVICE")))

Rows == AdcsRows ++ CommRows ++ TimeRows ++ DfgmRows ++ GeneralRows ++ HousekeepingRows
    ++ LoggerRows ++ UpdaterRows
=============================================================================
