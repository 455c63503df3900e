---------------------------- MODULE MCMatterJobs ----------------------------
(* Small instances of MatterJobs for TLC.                                  *)
EXTENDS MatterJobs

CONSTANTS e1, e2, u1
=============================================================================
