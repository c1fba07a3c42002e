----------------------------- MODULE CspBytes -----------------------------
(***************************************************************************)
(* Numbers and the bytes of packets: util/service_utilities.c, and the     *)
(* csp_endian.h of libcsp as the services use it.                          *)
(*                                                                         *)
(* A number is the sequence of its bytes, most significant first; memory   *)
(* is the sequence of the bytes by address.  What a byte is does not       *)
(* matter here: the operators only move them.  `little` says whether the   *)
(* host is little-endian (the demo on a PC) or not (the flight computer).  *)
(***************************************************************************)
EXTENDS Naturals, Sequences, SequencesExt

\* The number that lies in memory as s; also the memory that holds number s.
InHostOrder(little, s) == IF little THEN Reverse(s) ELSE s

\* The four bytes are copied into the union in the order they come.
cnv8_32(little, from) == InHostOrder(little, from)

\* The two bytes are copied into the union the other way round.
cnv8_16(little, from) == InHostOrder(little, Reverse(from))

\* csp_ntoh16/32, csp_hton16/32, csp_ntohflt, csp_htonflt.
csp_ntoh(little, w) == IF little THEN Reverse(w) ELSE w

(***************************************************************************)
(* x = csp_hton32((uint32_t)x) for an x of Len(w) <= 4 bytes: widened,     *)
(* swapped, and cut to the bytes that fit back into x.                     *)
(***************************************************************************)
Narrowed(little, w, zero) ==
    LET swapped == csp_ntoh(little, [i \in 1..(4 - Len(w)) |-> zero] \o w)
    IN  SubSeq(swapped, 5 - Len(w), 4)

(***************************************************************************)
(* A structure: the bytes of its members, each most significant first.     *)
(* mirror[j] is the place as far from the end of its member as j is from   *)
(* the beginning.  In memory every member is in the order of the host.     *)
(***************************************************************************)
MembersInHostOrder(little, mirror, s) ==
    IF little THEN [j \in DOMAIN s |-> s[mirror[j]]] ELSE s

(***************************************************************************)
(* Every member m of it is replaced by a csp_hton of m.  For the members   *)
(* at the places narrow this is csp_hton32((uint32_t)m), where m has one   *)
(* or two bytes (see Narrowed): nothing of them is left.                   *)
(***************************************************************************)
MembersSwapped(little, mirror, narrow, s, zero) ==
    IF little
    THEN [j \in DOMAIN s |-> IF j \in narrow THEN zero ELSE s[mirror[j]]]
    ELSE s
=============================================================================
