----------------------------- MODULE MCHkLock -----------------------------
(* HkLock for TLC: three tasks, so that one can wait on a mutex while two  *)
(* others race.                                                            *)
EXTENDS HkLock, TLC

CONSTANTS t1, t2, t3

MCTask == {t1, t2, t3}
Symm == Permutations(MCTask)
=============================================================================
