------------------------------ MODULE InputMux ------------------------------
(***************************************************************************)
(* The crossbar of hw/misc/mcxn_inputmux.c: one selector per trigger          *)
(* destination and, per eDMA request source, the gate bit the eDMA is told.  *)
(* The other registers only store what was written.                          *)
(***************************************************************************)
EXTENDS Naturals

CONSTANTS
  Dest,      \* the trigger destinations that are wired: <<kind, index>>
  Request    \* the eDMA request sources

VARIABLES
  sel,       \* the selector of each destination
  gate       \* the DMAn_REQ_ENABLE bit of each request source

vars == <<sel, gate>>

NoInput(d) ==
  CASE d[1] \in {"adc0", "adc1"} -> 127
    [] d[1] \in {"dac", "cmp", "qdc"} -> 63
    [] d[1] = "tsi" -> 3

\* The table of reset values has no entry for ADC0_TRIG.
im_reset(d) == IF d[1] = "adc0" THEN 0 ELSE NoInput(d)

Init ==
  /\ sel = [d \in Dest |-> im_reset(d)]
  /\ gate = [r \in Request |-> TRUE]

-----------------------------------------------------------------------------
Lptmr(n) == 50 + n
Ctimer3M2 == 96
Ctimer4M1 == 97

im_adc_sel_to_src(d, v) ==
  CASE d[1] = "adc1" /\ v = 8 -> Ctimer3M2
    [] d[1] = "adc1" /\ v = 9 -> Ctimer4M1
    [] OTHER -> v

\* The source a destination's selector names.
Named(d) ==
  CASE d[1] = "tsi" -> IF sel[d] \in {0, 1} THEN Lptmr(sel[d]) ELSE NoInput(d)
    [] OTHER -> im_adc_sel_to_src(d, sel[d])

\* The destinations an edge of source src is passed on to.
mcxn_inputmux_trigger(src) == {d \in Dest : sel[d] # NoInput(d) /\ Named(d) = src}

WriteSel(d, v) == sel' = [sel EXCEPT ![d] = v] /\ UNCHANGED gate

Pushed(alias, r, bits) ==
  CASE alias = "REG" -> r \in bits
    [] alias = "SET" -> gate[r] \/ r \in bits
    [] alias = "CLR" -> gate[r] /\ r \notin bits
    [] alias = "TOG" -> gate[r] # (r \in bits)

\* DMAn_REQ_ENABLE or an alias of it; the whole bank is pushed to the eDMA.
WriteReqEnable(alias, bits) ==
  gate' = [r \in Request |-> Pushed(alias, r, bits)] /\ UNCHANGED sel

\* The gates are not pushed: the eDMA's own reset opens them.
mcxn_inputmux_reset ==
  /\ sel' = [d \in Dest |-> im_reset(d)]
  /\ gate' = [r \in Request |-> TRUE]
=============================================================================
