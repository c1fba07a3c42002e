------------------------------- MODULE MCBoot -------------------------------
(* Boot for TLC.                                                           *)
EXTENDS Boot
=============================================================================
