---------------------------- MODULE MCAuditChain ----------------------------
(* Small instances of AuditChain for TLC.                                  *)
EXTENDS AuditChain

CONSTANTS m1, system, c1, c2, none, e1, e2, e3, e4, b1

MCConns == {c1, c2}
MCEntryIds == {e1, e2, e3, e4}
=============================================================================
