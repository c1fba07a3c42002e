--------------------------- MODULE MCFileClients ---------------------------
(* FileClients for TLC: few handles, and a heap of two units.              *)
EXTENDS FileClients
=============================================================================
