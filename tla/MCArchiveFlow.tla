---------------------------- MODULE MCArchiveFlow ----------------------------
(* Constants of ArchiveFlow for TLC. *)
EXTENDS ArchiveFlow

CONSTANTS m1, m2

MCMessage == {m1, m2}
MCPublished == {[msgs |-> {m1}, known |-> TRUE], [msgs |-> {m1, m2}, known |-> TRUE]}
=============================================================================
