-------------------------- MODULE MCTamperEvidence --------------------------
(* A small instance of TamperEvidence for TLC.                             *)
EXTENDS TamperEvidence

CONSTANTS m1, system, c1, none, e1, e2, e3, b1, b2
=============================================================================
