------------------------------- MODULE Alarm -------------------------------
(***************************************************************************)
(* What a timer promises its guest.  left is the time, in nanoseconds, until *)
(* the counter reaches the value it waits for, negative once it is past, and *)
(* None when the timer waits for nothing.  flag says that the last wait has  *)
(* ended.  The flag is raised neither more than Early nanoseconds before the *)
(* counter arrives nor more than Late after, and a wait ends only by raising *)
(* the flag, unless the guest gives it up.                                   *)
(***************************************************************************)
EXTENDS Integers

CONSTANTS Early, Late, None

VARIABLES left, flag

vars == <<left, flag>>

Init == left = None /\ flag = FALSE

Lowered == flag' \in {flag, FALSE}

Start == left = None /\ left' # None /\ left' >= 0 /\ Lowered

GiveUp == left' = None /\ Lowered

Pass == left # None /\ left > -Late /\ left' = left - 1 /\ Lowered

\* The guest lowers the flag.
Ack == UNCHANGED left /\ Lowered

\* The wait ends; a periodic timer begins the next one.
Ring ==
  /\ left # None
  /\ left <= Early
  /\ left' = None \/ left' >= 0
  /\ flag' = TRUE

Next == Start \/ GiveUp \/ Pass \/ Ack \/ Ring

Spec == Init /\ [][Next]_vars
=============================================================================
