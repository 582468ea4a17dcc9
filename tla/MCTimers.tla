------------------------------ MODULE MCTimers ------------------------------
(***************************************************************************)
(* Small timers.  A second has three nanoseconds, so that a clock of 1 Hz has *)
(* a cycle of three and one of 2 Hz a cycle that is not whole.                *)
(***************************************************************************)
EXTENDS Timers

MCMatch == {0, 1}
MCMcrIn == {[n \in MCMatch |-> IF n = 0 THEN a ELSE b] :
              a \in {{"INT", "RST"}, {"STOP"}}, b \in {{}, {"INT"}, {"RST", "STOP"}}}
MCCompareMcr == {[n \in MCMatch |-> IF n = 0 THEN {"INT"} ELSE {}]}
MCSourceHz == [p \in {0, 1, 3} |-> CASE p = 0 -> 4 [] p = 1 -> 1 [] p = 3 -> 0]
=============================================================================
