----------------------------- MODULE MCSamples -----------------------------
(* Small instances of Samples for TLC. *)
EXTENDS Samples

CONSTANTS a, b

MCSample == {a, b}
MCIer == {{}, {"WM", "OF"}}
MCIe == {{}, {<<"RDY", 0>>, <<"FOF", 1>>}}
=============================================================================
