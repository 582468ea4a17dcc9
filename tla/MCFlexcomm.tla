----------------------------- MODULE MCFlexcomm -----------------------------
(* Small instances of Flexcomm for TLC. *)
EXTENDS Flexcomm

MCCtrl == {[re |-> r, rie |-> r, tie |-> t] : r, t \in BOOLEAN}
MCSpiIer == {{}, {"RDF", "TCF"}}
MCMier == {{}, {"RDF", "NDF", "SDF"}}
=============================================================================
