----------------------------- MODULE MCDualCore -----------------------------
(* Small instances of DualCore for TLC. *)
EXTENDS DualCore

CONSTANTS core0, ping, pong, v1

MCCore == {core0, Cpu1}
MCMsg == {ping, pong}
MCVtor == {v1}
\* Run, and a stop by either bit alone.
MCCtrlIn == [clken : BOOLEAN, rsten : BOOLEAN] \ {[clken |-> FALSE, rsten |-> TRUE]}
MCProgram == {[msgs |-> MCMsg, stops |-> FALSE], [msgs |-> {ping}, stops |-> TRUE]}
=============================================================================
