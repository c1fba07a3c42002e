----------------------------- MODULE MCReplies -----------------------------
(* Replies for TLC: buffers that hold every reply, and that hold few.      *)
EXTENDS Replies

MCFailures == {-1, -25}

\* A structure of three integers, of two bytes, one byte and four bytes.
MCMirror == <<2, 1, 3, 7, 6, 5, 4>>
MCNarrow == {1, 2, 3}
=============================================================================
