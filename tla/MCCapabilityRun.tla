--------------------------- MODULE MCCapabilityRun ---------------------------
(* Small instances of CapabilityRun for TLC.                               *)
EXTENDS CapabilityRun

CONSTANTS r1, r2, none, settings
=============================================================================
