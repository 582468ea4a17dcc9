------------------------------- MODULE MCEnet -------------------------------
(* Small instances of Enet for TLC. *)
EXTENDS Enet

MCMac == {{}, {"RE", "TE"}, {"RE", "TE", "LM"}}
MCInt == {{}, {"TI", "RI", "RBU"}}
=============================================================================
