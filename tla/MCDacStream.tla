---------------------------- MODULE MCDacStream ----------------------------
(* Small instances of DacStream for TLC. *)
EXTENDS DacStream
=============================================================================
