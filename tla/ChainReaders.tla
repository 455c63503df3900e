---------------------------- MODULE ChainReaders ----------------------------
(***************************************************************************)
(* The two readers of the audit chain while sessions keep writing to it:   *)
(* verify_audit_chain behind GET /audit/verify, and build_matter_export in *)
(* the worker, whose pack the recipient checks with verify_chain.py.       *)
(*                                                                         *)
(* Every SELECT is a statement of its own under READ COMMITTED, so it sees *)
(* what was committed when it started: rows may be committed between two   *)
(* statements of one reader.                                               *)
(***************************************************************************)
EXTENDS AuditChain

CONSTANT Target         \* the matter that is verified and exported

ASSUME TargetAssumption == Target \in Matters

VARIABLES
  verifier,  \* next statement of a verification and what it has read
  exporter   \* next statement of an export and what it has written

rvars == <<verifier, exporter>>

IdleVerifier == [pc |-> "idle", nEntries |-> 0, nRows |-> 0, issues |-> {},
                 head |-> NoHash]

EmptyPack == [rows |-> << >>, head_hash |-> NoHash, head_count |-> 0,
              audit_ids |-> {}]

IdleExporter == [pc |-> "idle", pack |-> EmptyPack]

RInit == Init /\ verifier = IdleVerifier /\ exporter = IdleExporter
-----------------------------------------------------------------------------
(* verify_audit_chain                                                      *)

CountEntries ==
  /\ verifier.pc \in {"idle", "done"}
  /\ verifier' =
       [IdleVerifier EXCEPT !.pc = "count_rows",
        !.nEntries = Cardinality(EntriesOf(Target, audit_entries))]
  /\ UNCHANGED <<vars, exporter>>

CountRows ==
  /\ verifier.pc = "count_rows"
  /\ verifier' = [verifier EXCEPT !.pc = "read_rows",
                                  !.nRows = Len(audit_chain[Target])]
  /\ UNCHANGED <<vars, exporter>>

\* One statement joins audit_chain with audit_entries.
ReadRows ==
  /\ verifier.pc = "read_rows"
  /\ verifier' = [verifier EXCEPT !.pc = "read_head",
                    !.issues = VerifyIssues(Target, verifier.nEntries,
                                 verifier.nRows, audit_chain[Target],
                                 audit_entries)]
  /\ UNCHANGED <<vars, exporter>>

\* Mutant: the head is read with the rows of an open transaction.
MutReadHead ==
  /\ verifier.pc = "read_head"
  /\ \E c \in Conns :
       verifier' = [verifier EXCEPT !.pc = "done",
                                    !.head = ChainHead(Visible(c, Target))]
  /\ UNCHANGED <<vars, exporter>>

\* GET /audit/chain publishes the head with the verdict; it reads it last.
ReadHead ==
  /\ verifier.pc = "read_head"
  /\ verifier' = [verifier EXCEPT !.pc = "done",
                                  !.head = ChainHead(audit_chain[Target])]
  /\ UNCHANGED <<vars, exporter>>
-----------------------------------------------------------------------------
(* build_matter_export: audit.json first, then audit_chain.json            *)

\* Mutant: audit.json is read without the matter filter.
MutReadAuditLog ==
  /\ exporter.pc \in {"idle", "written"}
  /\ exporter' = [pc |-> "read_chain",
                  pack |-> [EmptyPack EXCEPT !.audit_ids =
                              {e.id : e \in audit_entries}]]
  /\ UNCHANGED <<vars, verifier>>

ReadAuditLog ==
  /\ exporter.pc \in {"idle", "written"}
  /\ exporter' = [pc |-> "read_chain",
                  pack |-> [EmptyPack EXCEPT !.audit_ids =
                              {e.id : e \in EntriesOf(Target, audit_entries)}]]
  /\ UNCHANGED <<vars, verifier>>

JoinedEntry(r) == CHOOSE e \in audit_entries : e.id = r.audit_entry_id

ReadChain ==
  /\ exporter.pc = "read_chain"
  /\ LET rows == audit_chain[Target]
     IN  exporter' =
           [pc |-> "written",
            pack |-> [exporter.pack EXCEPT
                        !.rows = [i \in DOMAIN rows |->
                                    PackRow(rows[i], JoinedEntry(rows[i]))],
                        !.head_hash = ChainHead(rows),
                        !.head_count = Len(rows)]]
  /\ UNCHANGED <<vars, verifier>>

RNext ==
  \/ Next /\ UNCHANGED rvars
  \/ CountEntries
  \/ CountRows
  \/ ReadRows
  \/ ReadHead
  \/ ReadAuditLog
  \/ ReadChain

RSpec == RInit /\ [][RNext]_<<vars, rvars>>
-----------------------------------------------------------------------------
(* Properties.                                                             *)

\* Whatever is committed while a verification runs, the checks it makes row
\* by row (sequence, links, hashes, scope) never fail: only the comparison
\* of the two counts can be disturbed.
OnlyCountsDisturbed == verifier.issues \subseteq {"count_mismatch"}

\* "export it and any later verification proves the trail was not rewritten":
\* a head that GET /audit/chain published stays the hash of a committed row,
\* whatever the sessions do after it was read.
PublishedHeadStays ==
  verifier.head # NoHash =>
    \E i \in DOMAIN audit_chain[Target] :
      audit_chain[Target][i].chain_hash = verifier.head

\* A pack that verify_chain.py refuses is refused only because audit.json is
\* older than the chain file: the chain file itself always verifies, and it
\* contains every row that audit.json lists.
OnlyLogBehindChain ==
  exporter.pc = "written" =>
    PackProblems(Target, exporter.pack) \subseteq {"missing_from_audit_json"}

\* The pack of an untampered matter passes the verifier shipped in it.
ExportVerifies ==
  exporter.pc = "written" => PackProblems(Target, exporter.pack) = {}
=============================================================================
