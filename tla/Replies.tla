------------------------------ MODULE Replies ------------------------------
(***************************************************************************)
(* A request is answered in the packet it came in: the handler of a        *)
(* subservice reads its inputs, calls the drivers, and writes the status   *)
(* over the first input byte and the outputs after it.  The packet is a    *)
(* buffer of the pool, so what neither the request nor the handler wrote   *)
(* is left from the packets that were in it before.                        *)
(*                                                                         *)
(* A byte is where it comes from: <<"request", i>>, place i of this        *)
(* request; <<"left", i>>, place i of an earlier packet; <<"value", k, j>>,*)
(* byte j, most significant first, of the driver's value for output k;     *)
(* <<"status">>, <<"zero">>, <<"garbage">> (not initialised).              *)
(***************************************************************************)
EXTENDS ReplyTables, CspBytes, FiniteSetsExt

CONSTANTS
    BufferSizes,     \* values of csp_buffer_data_size()
    Failures,        \* the values below 0 a driver may return
    DeviceLengths,   \* the lengths a radio may report of a text it holds
    Top              \* the last byte of a packet that is looked at

\* Ten of them do not add up to a multiple of 256.
ASSUME FailureAssumption == Failures \subseteq (-25)..(-1)

ASSUME BufferAssumption == BufferSizes \subseteq Nat

\* The length of a text is a uint8_t.
ASSUME LengthAssumption == DeviceLengths \subseteq 0..255 /\ DeviceLengths # {}

VARIABLES
    little,          \* is the host little-endian?
    room,            \* csp_buffer_data_size()
    subservice,      \* the request being served, "none" between two
    packet,          \* packet->data
    length,          \* packet->length
    whole,           \* the request holds every input of its subservice
    args,            \* what the driver is called with
    returned,        \* what the drivers returned, call by call; <<>> if none is called
    refused,         \* the handler itself found the request wrong
    told,            \* the length the radio reported of its text
    result,          \* the state the handler returns
    pc

vars == <<little, room, subservice, packet, length, whole, args, returned, refused, told,
          result, pc>>

Zero == <<"zero">>
Garbage == <<"garbage">>

Subservice == DOMAIN Rows
row == Rows[subservice]

\* Where the inputs of s end, from the start of the packet.
Needed(s) == 1 + FoldLeft(LAMBDA m, f : IF m > f.at + f.n THEN m ELSE f.at + f.n,
                          0, Rows[s].in)
HasText(s) == \E i \in DOMAIN Rows[s].in : Rows[s].in[i].as \in {"text", "padded"}

\* Every input and output lies below Top.
ASSUME TopAssumption ==
    /\ Top \in Nat
    /\ \A s \in Subservice : Needed(s) <= Top /\ 2 + OutSize(Rows[s].out) <= Top

Place == 0..Top

Left == [i \in Place |-> <<"left", i>>]

Init ==
    /\ little \in BOOLEAN /\ room \in BufferSizes
    /\ subservice = "none" /\ packet = Left /\ length = 0 /\ whole = FALSE
    /\ args = <<>> /\ returned = <<>> /\ refused = FALSE
    /\ told = Min(DeviceLengths) /\ result = "SATR_OK" /\ pc = "idle"

(***************************************************************************)
(* The service reads a packet: a request of n bytes for s, cut short or    *)
(* not; a text may end with a zero.                                        *)
(***************************************************************************)
Receive(s, n, ends) ==
    /\ subservice' = s /\ length' = n
    /\ whole' = (n >= Needed(s) \/ ends)
    /\ packet' = [i \in Place |-> IF i >= n THEN <<"left", i>>
                                  ELSE IF ends /\ i = n - 1 THEN Zero
                                  ELSE <<"request", i>>]
    /\ result' = "SATR_OK" /\ pc' = "read"
    /\ UNCHANGED <<little, room, args, returned, refused, told>>

RequestLengths(s) == IF HasText(s) THEN (2 + Rows[s].in[1].at)..(Needed(s) + 1)
                     ELSE {1, Needed(s)}

\* The n bytes of p from place i on.
Bytes(p, i, n) == [j \in 1..n |-> p[i + j - 1]]

\* How many bytes the loop over a text copies: up to a zero, at most all.
TextLength(s) == Min({i - 1 : i \in {j \in DOMAIN s : s[j] = Zero}} \cup {Len(s)})

Text(s) == SubSeq(s, 1, TextLength(s))

\* Input f of packet p, as the driver of a host h gets it.
Input(h, p, f) ==
    LET s == Bytes(p, 1 + f.at, f.n)
    IN  CASE f.as = "bytes"   -> s
          [] f.as = "net"     -> csp_ntoh(h, cnv8_32(h, s))
          [] f.as = "net16"   -> csp_ntoh(h, cnv8_16(h, s))
          [] f.as = "host"    -> InHostOrder(h, s)
          [] f.as = "cnv"     -> cnv8_32(h, s)
          [] f.as = "cnv16"   -> cnv8_16(h, s)
          [] f.as = "narrow"  -> Narrowed(h, s, Zero)
          [] f.as = "low"     -> SubSeq(s, 1, 1)
          [] f.as = "raw"     -> MembersInHostOrder(h, Mirror, s)
          [] f.as = "enum"    -> InHostOrder(h, s \o <<Zero>>)
          [] f.as = "nothing" -> <<Garbage>>
          [] f.as = "text"    -> Text(s)
          [] f.as = "padded"  -> Text(s) \o [i \in 1..(f.n - TextLength(s)) |-> Garbage]

\* A mutated form of Inputs: the status is written before the inputs are read.
MutInputsAfterStatus(h, p) ==
    [i \in DOMAIN row.in |-> Input(h, [p EXCEPT ![1] = <<"status", 0>>], row.in[i])]

Inputs(h, p) == [i \in DOMAIN row.in |-> Input(h, p, row.in[i])]

\* The handler takes its inputs out of the packet; a MIDI text of part of a note is refused.
Read ==
    /\ pc = "read"
    /\ args' = Inputs(little, packet)
    /\ refused' \in IF row.refuses THEN BOOLEAN ELSE {FALSE}
    /\ subservice = "UHF_SET_MIDI" => (Len(args'[1]) % 3 # 0 => refused')
    /\ pc' = "call"
    /\ UNCHANGED <<little, room, subservice, packet, length, whole, returned, told, result>>

(***************************************************************************)
(* The results of n calls.  One fails, or all do: they are added up, and   *)
(* more combinations show nothing more.                                    *)
(***************************************************************************)
Outcomes(n) ==
    {[i \in 1..n |-> 0]}
    \cup {[i \in 1..n |-> IF i = bad THEN f ELSE 0] : bad \in 1..n, f \in Failures}
    \cup {[i \in 1..n |-> f] : f \in Failures}

UpToFailure(all) == SubSeq(all, 1, Min({i \in DOMAIN all : all[i] # 0} \cup {Len(all)}))

\* The drivers are called; those of a row with status "zero" return none.
Call ==
    /\ pc = "call"
    /\ \E all \in IF refused THEN {<<>>}
                  ELSE IF row.status = "zero" THEN {[i \in 1..row.calls |-> 0]}
                  ELSE Outcomes(row.calls) :
          returned' = IF row.status = "first" THEN UpToFailure(all) ELSE all
    /\ told' \in IF \E i \in DOMAIN row.out : row.out[i].as = "text"
                 THEN DeviceLengths ELSE {told}
    /\ pc' = "answer"
    /\ UNCHANGED <<little, room, subservice, packet, length, whole, args, refused, result>>

\* The value of an int8_t.
Int8(n) == ((n + 128) % 256) - 128

\* The results added up.
Sum == LET upto[i \in 0..Len(returned)] == IF i = 0 THEN 0 ELSE upto[i - 1] + returned[i]
       IN  upto[Len(returned)]

status ==
    IF refused THEN -1
    ELSE CASE row.status = "sum"   -> Int8(Sum)
           [] row.status = "first" -> Last(returned)
           [] row.status = "last"  -> Last(returned)
           [] row.status = "zero"  -> 0

AllSucceeded == ~refused /\ \A i \in DOMAIN returned : returned[i] = 0

\* How many bytes of text the loop copies; the length of a MIDI text is in notes.
Looped == (IF subservice = "UHF_GET_MIDI" THEN told * 3 ELSE told) % 256

\* Output k before it is converted.  A driver that fails fills nothing.
Source(k, o) ==
    [j \in 1..o.n |->
       CASE o.from \in {"driver", "preset"} /\ AllSucceeded -> <<"value", k, j>>
         [] o.from = "preset" /\ ~AllSucceeded -> Zero
         [] o.from = "argument" -> args[1][j]
         [] o.from = "zero" -> Zero
         [] OTHER -> Garbage]

\* Output k as it goes into the packet of a host h.
Output(h, k) ==
    LET o == row.out[k]
        v == Source(k, o)
        Swapped(narrow) == MembersSwapped(h, Mirror, narrow, v, Zero)
    IN  CASE o.as = "bytes"   -> v
          [] o.as = "host"    -> InHostOrder(h, v)
          [] o.as = "net"     -> InHostOrder(h, csp_ntoh(h, v))
          [] o.as = "narrow"  -> InHostOrder(h, Narrowed(h, v, Zero))
          [] o.as = "raw"     -> MembersInHostOrder(h, Mirror, v)
          [] o.as = "members" -> MembersInHostOrder(h, Mirror, Swapped({}))
          [] o.as = "hton32"  -> MembersInHostOrder(h, Mirror, Swapped(Narrow))
          [] o.as = "text"    -> [j \in 1..o.n |-> IF j <= Looped THEN v[j] ELSE Zero]

\* The outputs that reach place i.
Reaching(i) ==
    {k \in DOMAIN row.out : i - 1 - row.out[k].at \in 1..row.out[k].n}

\* The outputs go into the packet one after the other.
WithOutputs(p) ==
    IF refused \/ (row.ifok /\ status # 0) THEN p
    ELSE [i \in Place |->
            IF Reaching(i) = {} THEN p[i]
            ELSE LET k == Max(Reaching(i)) IN Output(little, k)[i - 1 - row.out[k].at]]

\* A mutated form of TooBig: one byte is taken off instead of added.
MutTooBig == row.check > 0 /\ row.check - 1 > room

TooBig == row.check > 0 /\ row.check + 1 > room

(***************************************************************************)
(* Status, outputs and length are written, also when the size was found    *)
(* too big: that only changes the state returned.  A refusal is a status   *)
(* alone.  Without a case nothing is written.                              *)
(***************************************************************************)
Answer ==
    /\ pc = "answer"
    /\ IF row.len = 0 /\ ~refused
       THEN UNCHANGED <<packet, length>>
       ELSE /\ packet' = WithOutputs([packet EXCEPT ![1] = <<"status", status>>])
            /\ length' = IF refused THEN 2 ELSE row.len
    /\ result' = CASE refused           -> "SATR_OK"
                   [] ~refused /\ TooBig -> "SATR_ERROR"
                   [] OTHER             -> row.result
    /\ pc' = "done"
    /\ UNCHANGED <<little, room, subservice, whole, args, returned, refused, told>>

\* The packet is sent or freed; the buffer will be used again.
Finish ==
    /\ pc = "done"
    /\ packet' = Left /\ length' = 0 /\ args' = <<>> /\ returned' = <<>>
    /\ refused' = FALSE /\ whole' = FALSE /\ told' = Min(DeviceLengths)
    /\ subservice' = "none" /\ result' = "SATR_OK" /\ pc' = "idle"
    /\ UNCHANGED <<little, room>>

Next ==
    \/ /\ pc = "idle"
       /\ \E s \in Subservice : \E n \in RequestLengths(s), ends \in BOOLEAN :
             (ends => HasText(s)) /\ Receive(s, n, ends)
    \/ Read \/ Call \/ Answer \/ Finish

Spec == Init /\ [][Next]_vars

-----------------------------------------------------------------------------
Sent == pc = "done" /\ result = "SATR_OK"

\* The bytes of the reply after the subservice.
ReplyBytes == {packet[i] : i \in 1..(length - 1)}

(***************************************************************************)
(* The ground is not sent bytes of earlier packets: every byte of a reply  *)
(* comes from this request or from its handler.  Not so where the outputs  *)
(* overlap (adcs_service.c:1126-1132 announces 16 bytes and writes 10),    *)
(* and where a length is announced for a value that is only written when   *)
(* the driver succeeded (e.g. l. 350-354).                                 *)
(***************************************************************************)
NothingLeftOver ==
    Sent /\ whole /\ subservice # "ADCS_GET_LOG_CONFIG" /\ ~(row.ifok /\ status # 0)
        => \A b \in ReplyBytes : b[1] # "left"

\* Values that go through csp_hton32 in a variable too narrow for it.
NarrowValues == {"ADCS_GET_UPLOAD_CRC16_CHECKSUM", "ADCS_GET_COMMS_STAT",
                 "ADCS_GET_SRAM_SCRUB_SIZE", "ADCS_GET_POWER_CONTROL"}

\* Structures all members of which go through csp_hton32 (e.g. adcs_service.c:172-177).
NarrowMembers == {"ADCS_GET_NODE_IDENTIFICATION", "ADCS_GET_BOOT_PROGRAM_STAT",
    "ADCS_GET_BOOT_INDEX", "ADCS_GET_LAST_LOGGED_EVENT", "ADCS_GET_TC_ACK",
    "ADCS_GET_FILE_DOWNLOAD_BLOCK_STAT", "ADCS_GET_FILE_INFO",
    "ADCS_GET_SRAM_LATCHUP_COUNT", "ADCS_GET_EDAC_ERR_COUNT",
    "ADCS_GET_UNIXTIME_SAVE_CONFIG", "ADCS_GET_UNIX_T", "ADCS_GET_BOOTLOADER_STATE",
    "ADCS_GET_PROGRAM_INFO", "ADCS_GET_JPG_CNV_PROGESS", "ADCS_GET_EXECUTION_TIMES",
    "ADCS_GET_ACP_LOOP_STAT", "ADCS_GET_IMG_SAVE_PROGRESS"}

(***************************************************************************)
(* What the driver reported is in the reply, every byte of it inside the   *)
(* announced length, whenever the reply says success.  Not so for the      *)
(* overlapping log configuration, and on a little-endian host for the      *)
(* values and the members cut by csp_hton32, which arrive as 0.            *)
(***************************************************************************)
ValuesArrive ==
    Sent /\ row.len # 0 /\ status = 0 /\ subservice # "ADCS_GET_LOG_CONFIG"
         /\ ~(little /\ subservice \in NarrowValues)
        => \A k \in DOMAIN row.out : row.out[k].from \in {"driver", "preset"} =>
              \A j \in 1..row.out[k].n :
                 \/ <<"value", k, j>> \in ReplyBytes
                 \/ row.out[k].as = "text" /\ j > Looped
                 \/ little /\ subservice \in NarrowMembers /\ j \in Narrow

(***************************************************************************)
(* The status of a reply is 0 exactly when the request was accepted and    *)
(* every driver call of it succeeded, although the results of up to ten    *)
(* calls are added up in an int8_t.                                        *)
(***************************************************************************)
StatusTellsFailure ==
    Sent /\ row.len # 0 => (packet[1] = <<"status", 0>> <=> AllSucceeded)

(***************************************************************************)
(* A driver is called with what a whole request says, each byte in one     *)
(* argument, and with nothing of the status written over the request, of   *)
(* an earlier packet or of an uninitialised variable.  Exceptions: the     *)
(* byte of a file to upload is a local variable nobody sets                *)
(* (adcs_service.c:114), a short call sign leaves the rest of six bytes    *)
(* unset (communication_service.c:500), a watchdog period is cut to a byte *)
(* (general.c:191), the log configuration reads overlapping bytes          *)
(* (adcs_service.c:1094-1102), the byte that says what to deploy is copied *)
(* into an enum, which the other bytes of it are then part of              *)
(* (general.c:147-149), and csp_ntoh32 of a byte is 0 on a little-endian   *)
(* host (communication_service.c:586).                                     *)
(***************************************************************************)
SettingsFromRequest ==
    pc \in {"call", "answer"} /\ whole
    /\ subservice \notin {"ADCS_FILE_UPLOAD_PACKET", "ADCS_SET_LOG_CONFIG", "UHF_SET_DEST",
                          "UHF_SET_SRC", "SET_UHF_WATCHDOG_TIMEOUT",
                          "SET_SBAND_WATCHDOG_TIMEOUT", "SET_CHARON_WATCHDOG_TIMEOUT",
                          "DEPLOY_DEPLOYABLES"}
    /\ ~(little /\ subservice = "UHF_SET_I2C")
        => LET places == {p \in (1..Len(args)) \X (1..Top) : p[2] <= Len(args[p[1]])}
               At(p) == args[p[1]][p[2]]
           IN  /\ \A p \in places : At(p)[1] = "request"
               /\ \A p, q \in places : At(p) = At(q) => p = q
               /\ ~HasText(subservice) => Cardinality(places) = Needed(subservice) - 1

\* Structures copied into the reply as they are in memory (e.g. adcs_service.c:810, 916).
RawReplies == {"ADCS_GET_FILE_DOWNLOAD_BUFFER", "ADCS_GET_CURRENT_STATE",
    "ADCS_GET_SAT_POS_LLH", "ADCS_GET_MEASUREMENTS", "ADCS_GET_ACTUATOR",
    "ADCS_GET_ESTIMATION", "ADCS_GET_ASGP4", "ADCS_GET_RAW_SENSOR", "ADCS_GET_RAW_GPS",
    "ADCS_GET_STAR_TRACKER", "ADCS_GET_MTM2_MEASUREMENTS", "ADCS_GET_POWER_TEMP",
    "ADCS_GET_ATTITUDE_ANGLE", "ADCS_GET_TRACK_CONTROLLER", "ADCS_GET_INERTIAL_REF",
    "ADCS_GET_SGP4_ORBIT_PARAMS", "ADCS_GET_SYSTEM_CONFIG", "ADCS_GET_FULL_CONFIG",
    "S_GET_STATUS", "S_GET_TR", "S_GET_FULL_STATUS", "GET_GOLDEN_INFO", "GET_APP_INFO"}

\* Structures copied out of the request into memory (e.g. adcs_service.c:776, 785, 1051).
RawRequests == {"ADCS_TRIGGER_ADCS_LOOP_SIM", "ADCS_SET_MAGNETORQUER_OUTPUT",
    "ADCS_SET_WHEEL_SPEED", "ADCS_SET_ATTITUDE_ANGLE", "ADCS_SET_TRACK_CONTROLLER",
    "ADCS_SET_INERTIAL_REF", "ADCS_SET_SGP4_ORBIT_PARAMS", "ADCS_SET_SYSTEM_CONFIG",
    "ADCS_SET_RATE_GYRO", "ADCS_SET_CSS_CONFIG", "ADCS_SET_STAR_TRACK_CONFIG",
    "ADCS_SET_CUBESENSE_CONFIG", "ADCS_SET_DETUMBLE_CONFIG", "ADCS_SET_YWHEEL_CONFIG",
    "ADCS_SET_TRACKING_CONFIG", "ADCS_SET_MOI_MAT", "ADCS_SET_ESTIMATION_CONFIG",
    "ADCS_SET_USERCODED_SETTING", "ADCS_SET_ASGP4_SETTING", "ADCS_SET_MTM_CONFIG"}

\* Where the code leaves a number of several bytes in the order of the host.
HostOrdered == {"ADCS_SET_SRAM_SCRUB_SIZE", "ADCS_GET_LOG_CONFIG", "UHF_SET_I2C",
    "UHF_WRITE_FRAM", "UHF_GET_FRAM", "DFGM_RUN", "DEPLOY_DEPLOYABLES",
    "SET_FILE_SIZE", "GET_FILE_SIZE", "SET_APP_ADDRESS", "SET_APP_CRC",
    "ADCS_SET_POWER_CONTROL", "GET_UHF_WATCHDOG_TIMEOUT", "GET_SBAND_WATCHDOG_TIMEOUT",
    "GET_CHARON_WATCHDOG_TIMEOUT"}
    \cup NarrowValues \cup NarrowMembers \cup RawReplies \cup RawRequests

(***************************************************************************)
(* A request means the same, and a reply reads the same, whether it is     *)
(* handled by the flight computer or by a little-endian host, except in    *)
(* the subservices that leave out a conversion or take the wrong one.      *)
(***************************************************************************)
ByteOrderHostFree ==
    subservice \notin HostOrdered =>
        /\ pc = "read" => Inputs(TRUE, packet) = Inputs(FALSE, packet)
        /\ Sent => \A k \in DOMAIN row.out : Output(TRUE, k) = Output(FALSE, k)

(***************************************************************************)
(* A reply that does not fit a buffer is not sent.  The comparison leaves  *)
(* out one of the two bytes before the outputs, so it may be one longer.   *)
(* Three subservices compare nothing, or the wrong size.                   *)
(***************************************************************************)
SentReplyFits ==
    Sent /\ subservice \in DOMAIN AdcsRows \cup DOMAIN CommRows
         /\ subservice \notin {"ADCS_GET_CURRENT_STATE", "ADCS_GET_SAT_POS_LLH",
                               "S_GET_STATUS", "ADCS_FILE_UPLOAD_PACKET"}
        => length <= 2 \/ length <= room + 1
=============================================================================
