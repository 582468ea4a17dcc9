------------------------------ MODULE MCSerial ------------------------------
(* Small instances of Serial for TLC. *)
EXTENDS Serial, MCFlexcomm

MCMac == {{}, {"RE", "TE"}, {"RE", "TE", "LM"}}
MCInt == {{}, {"TI", "RI", "RBU"}}
MCSaiIe == {{}, {"FRF", "FEF"}}
=============================================================================
