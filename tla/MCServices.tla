----------------------------- MODULE MCServices -----------------------------
(* Services for TLC: one service with the plain loop.                      *)
EXTENDS Services
=============================================================================
