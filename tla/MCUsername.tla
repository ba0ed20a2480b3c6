----------------------------- MODULE MCUsername -----------------------------
(***************************************************************************)
(* An instance of Username for TLC: two threads, three uids, one of which  *)
(* has no name (the user was deleted, say), and one buffer for both, as    *)
(* macos.rs:247 has it.                                                    *)
(***************************************************************************)
EXTENDS Username

MCThreads   == {1, 2}
MCBuffer    == [t \in MCThreads |-> 0]
MCUids      == {0, 501, 502}
MCDirectory == [u \in MCUids |-> IF u = 0 THEN "root" ELSE IF u = 501 THEN "alice" ELSE "none"]
=============================================================================
