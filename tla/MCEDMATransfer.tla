--------------------------- MODULE MCEDMATransfer ---------------------------
(* Small instances of EDMATransfer for TLC: both widths, offsets of either     *)
(* sign, rings on either side, misaligned addresses, uneven NBYTES, and     *)
(* bursts whose only fault is to be wider than buf.                            *)
EXTENDS EDMATransfer

MCTcdIn ==
  [saddr : {0, 3, 12}, daddr : {4, 8, 14}, soff : {-4, 1, 2, 4, 8}, doff : {-2, 0, 4},
   ssize : {1, 2, 4, 8}, dsize : {1, 2, 4, 8}, smod : {0, 1, 3}, dmod : {0, 2},
   nbytes : {0, 4, 6, 8}]
=============================================================================
