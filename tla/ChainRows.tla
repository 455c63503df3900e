------------------------------ MODULE ChainRows ------------------------------
(***************************************************************************)
(* The rows of audit_entries and audit_chain, the row the append trigger   *)
(* computes, and the two verifiers: verify_audit_chain, which the API runs *)
(* against the database, and verify_chain.py, which a matter export        *)
(* carries and which reads only the files of that export.                  *)
(*                                                                         *)
(* A hash is modelled by what it commits to: the entry hash is the entry,  *)
(* and the chain hash is the sequence of the links up to its row.  Both    *)
(* are therefore collision free, as SHA-256 is taken to be.                *)
(***************************************************************************)
EXTENDS Integers, Sequences, FiniteSets

CONSTANTS Matters,      \* matter ids: each one is a scope of its own
          System,       \* the scope of the rows whose matter_id is NULL
          EntryIds,     \* primary keys of audit_entries (uuid4)
          Bodies        \* the audited content of a row

ASSUME ScopeAssumption == System \notin Matters

Scopes == Matters \cup {System}
Entry  == [id : EntryIds, scope : Scopes, body : Bodies]
Link   == [scope : Scopes, seq : Nat, id : EntryIds, entry : Entry]
Hash   == Seq(Link)
NoHash == << >>         \* previous_chain_hash IS NULL
ChainRow == [scope_sequence : Nat, audit_entry_id : EntryIds,
             previous_chain_hash : Hash, entry_hash : Entry,
             chain_hash : Hash]
-----------------------------------------------------------------------------
\* Mutant: the entry hash covers the id of the row and not its content.

EntryHash(e) == e

\* Mutant: the link does not commit to the previous chain hash.
MutLinkHash(s, seq, id, prev, eh) ==
  << [scope |-> s, seq |-> seq, id |-> id, entry |-> eh] >>

LinkHash(s, seq, id, prev, eh) ==
  Append(prev, [scope |-> s, seq |-> seq, id |-> id, entry |-> eh])

\* Mutant: ORDER BY scope_sequence without DESC.
MutChainHead(rows) ==
  IF rows = << >> THEN NoHash ELSE rows[1].chain_hash

ChainHead(rows) ==
  IF rows = << >> THEN NoHash ELSE rows[Len(rows)].chain_hash

\* Mutant: the first row of a scope gets sequence number 0.
MutLastSequence(rows) ==
  IF rows = << >> THEN -1 ELSE rows[Len(rows)].scope_sequence

LastSequence(rows) ==
  IF rows = << >> THEN 0 ELSE rows[Len(rows)].scope_sequence

\* The row the trigger inserts for entry e, given the rows of the scope that
\* its transaction sees.
NextRow(s, e, rows) ==
  LET seq  == LastSequence(rows) + 1
      prev == ChainHead(rows)
  IN  [scope_sequence      |-> seq,
       audit_entry_id      |-> e.id,
       previous_chain_hash |-> prev,
       entry_hash          |-> EntryHash(e),
       chain_hash          |-> LinkHash(s, seq, e.id, prev, EntryHash(e))]
-----------------------------------------------------------------------------
(* verify_audit_chain: checks on each row of a scope, in sequence order.   *)
(* rows is what the verifier read from audit_chain, entries what it joined *)
(* from audit_entries.                                                     *)

Joined(entries, id) == {e \in entries : e.id = id}

PreviousHash(rows, i) == IF i = 1 THEN NoHash ELSE rows[i-1].chain_hash

ExpectedSequence(rows, i) ==
  IF i = 1 THEN 1 ELSE rows[i-1].scope_sequence + 1

RecomputedChainHash(s, r) ==
  LinkHash(s, r.scope_sequence, r.audit_entry_id, r.previous_chain_hash,
           r.entry_hash)

RowIssues(s, rows, entries, i) ==
  LET r == rows[i]
      J == Joined(entries, r.audit_entry_id)
  IN  {code \in {"sequence_gap", "previous_hash_mismatch",
                 "missing_audit_entry", "scope_mismatch",
                 "entry_hash_mismatch", "chain_hash_mismatch"} :
         \/ /\ code = "sequence_gap"
            /\ r.scope_sequence # ExpectedSequence(rows, i)
         \/ /\ code = "previous_hash_mismatch"
            /\ r.previous_chain_hash # PreviousHash(rows, i)
         \/ code = "missing_audit_entry" /\ J = {}
         \/ code = "scope_mismatch" /\ \E e \in J : e.scope # s
         \/ code = "entry_hash_mismatch"
              /\ \E e \in J : r.entry_hash # EntryHash(e)
         \/ /\ code = "chain_hash_mismatch"
            /\ J # {}
            /\ r.chain_hash # RecomputedChainHash(s, r)}

\* Mutant: the two counts are not compared.
MutVerifyIssues(s, nEntries, nRows, rows, entries) ==
  UNION {RowIssues(s, rows, entries, i) : i \in DOMAIN rows}

\* The issues of a verification that counted nEntries and nRows rows and then
\* read rows and entries.
VerifyIssues(s, nEntries, nRows, rows, entries) ==
  (IF nEntries = nRows THEN {} ELSE {"count_mismatch"})
    \cup UNION {RowIssues(s, rows, entries, i) : i \in DOMAIN rows}

EntriesOf(s, entries) == {e \in entries : e.scope = s}

\* A verification whose statements all see the same committed state.
SnapshotIssues(s, rows, entries) ==
  VerifyIssues(s, Cardinality(EntriesOf(s, entries)), Len(rows), rows, entries)
-----------------------------------------------------------------------------
(* verify_chain.py: pack is what an export wrote.  Its chain file holds    *)
(* each chain row joined with the fields of its entry (row.entry), the     *)
(* stated head hash and count, and audit.json lists the ids of the log.    *)

PackRow(r, e) == [chain |-> r, entry |-> e]

PackProblems(s, pack) ==
  LET n == Len(pack.rows)
      R(i) == pack.rows[i].chain
      E(i) == pack.rows[i].entry
      prev(i) == IF i = 1 THEN NoHash ELSE R(i-1).chain_hash
      ids == {E(i).id : i \in 1..n}
  IN  {p \in {"sequence", "previous_link", "entry_hash", "chain_hash", "head",
              "head_count", "missing_from_chain", "missing_from_audit_json"} :
         \/ p = "sequence" /\ \E i \in 1..n : R(i).scope_sequence # i
         \/ p = "previous_link"
              /\ \E i \in 1..n : R(i).previous_chain_hash # prev(i)
         \/ p = "entry_hash"
              /\ \E i \in 1..n : R(i).entry_hash # EntryHash(E(i))
         \/ p = "chain_hash"
              /\ \E i \in 1..n :
                   R(i).chain_hash
                     # LinkHash(E(i).scope, R(i).scope_sequence, E(i).id,
                                R(i).previous_chain_hash, EntryHash(E(i)))
         \/ /\ p = "head"
            /\ pack.head_hash # IF n = 0 THEN NoHash ELSE R(n).chain_hash
         \/ p = "head_count" /\ n # 0 /\ pack.head_count # n
         \/ p = "missing_from_chain" /\ n # 0 /\ pack.audit_ids \ ids # {}
         \/ p = "missing_from_audit_json" /\ n # 0 /\ ids \ pack.audit_ids # {}}
=============================================================================
