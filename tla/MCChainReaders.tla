--------------------------- MODULE MCChainReaders ---------------------------
(* Small instances of ChainReaders for TLC.                                *)
EXTENDS ChainReaders, TLC

CONSTANTS m1, system, c1, c2, none, e1, e2, e3, b1
=============================================================================
