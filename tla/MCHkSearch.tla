---------------------------- MODULE MCHkSearch ----------------------------
(* HkSearch for TLC: a small ring, a word of a few bits.  The times keep   *)
(* away from the ends of the word by more than the threshold, as those of  *)
(* a UNIX clock do.                                                        *)
EXTENDS HkSearch

MCTimes == (Threshold + 1)..(Word - Threshold - 1)
=============================================================================
