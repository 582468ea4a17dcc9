------------------------------- MODULE MCEDMA -------------------------------
(***************************************************************************)
(* Small instances of EDMA for TLC.                                         *)
(***************************************************************************)
EXTENDS EDMA

Plain(k) == [elink |-> FALSE, link |-> 0, n |-> k]
Linked(k, l) == [elink |-> TRUE, link |-> l, n |-> k]

Csr(start, intmajor, dreq, esg, majorelink, majorlink) ==
  [start |-> start, intmajor |-> intmajor, dreq |-> dreq, esg |-> esg,
   majorelink |-> majorelink, majorlink |-> majorlink]

\* One TCD in guest memory: a single minor loop without interrupt.
MemTcd ==
  [citer |-> Plain(1), biter |-> Plain(1),
   csr |-> Csr(FALSE, FALSE, TRUE, FALSE, FALSE, 0),
   err |-> {}, adjErr |-> {}, sga |-> "bad"]

MCTcdMem == [p \in {"next"} |-> MemTcd]

\* Requests: one minor loop per major loop, with and without DREQ.
ReqCiter == {Plain(1)}
ReqBiter == {Plain(1)}
ReqTcdCsr == {Csr(FALSE, TRUE, TRUE, FALSE, FALSE, 0)}
ReqErr == {{}}
ReqChCsr == {[erq |-> TRUE, eei |-> FALSE, done |-> FALSE],
             [erq |-> FALSE, eei |-> FALSE, done |-> TRUE]}

\* A channel that links to itself at each minor loop or at the end of its major
\* loop, scatter/gather with a good and a bad pointer, TCDs that fail validation,
\* SLAST/DLAST that misalign.
SgCiter == {Plain(1), Plain(2), Linked(2, 0)}
SgTcdCsr == {Csr(TRUE, TRUE, FALSE, TRUE, FALSE, 0),
             Csr(TRUE, TRUE, TRUE, FALSE, TRUE, 0)}
SgErr == {{}, {"SAE"}}
SgAdjErr == {{}, {"SAE", "DAE"}}
SgSga == {"next", "bad"}

SgChCsr == {[erq |-> TRUE, eei |-> TRUE, done |-> FALSE],
            [erq |-> FALSE, eei |-> FALSE, done |-> TRUE]}

None == {}
=============================================================================
