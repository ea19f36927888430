----------------------------- MODULE MCSession -----------------------------
(***************************************************************************)
(* Directories for the runs of Session: paths of up to three names around   *)
(* the length of the buffer.                                               *)
(***************************************************************************)
EXTENDS Session

\* Names of one and four characters, up to three deep.
UpToThree == UNION {[1 .. d -> {1, 4}] : d \in 1 .. 3}
=============================================================================
