---------------------------- MODULE BoundedQueue ----------------------------
(***************************************************************************)
(* What a hardware sample FIFO promises: values leave in the order they      *)
(* entered, none is invented, duplicated or reordered, and at most Depth     *)
(* wait.  out is the value at the consuming end (a converter's output, a     *)
(* reader's last value).                                                    *)
(***************************************************************************)
EXTENDS Naturals, Sequences

CONSTANTS Depth, Value, NoValue

VARIABLES q, out

vars == <<q, out>>

Init == q = << >> /\ out = NoValue

Put(v) ==
  /\ Len(q) < Depth
  /\ q' = Append(q, v)
  /\ UNCHANGED out

Get ==
  /\ q # << >>
  /\ out' = Head(q)
  /\ q' = Tail(q)

\* Everything that waits is thrown away; the output is held or cleared.
Clear ==
  /\ q' = << >>
  /\ out' \in {out, NoValue}

\* A value that goes straight to the output, past an empty or a waiting queue.
Bypass(v) ==
  /\ out' = v
  /\ UNCHANGED q

Next ==
  \/ \E v \in Value : Put(v) \/ Bypass(v)
  \/ Get
  \/ Clear

Spec == Init /\ [][Next]_vars
=============================================================================
