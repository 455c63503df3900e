--------------------------- MODULE TamperEvidence ---------------------------
(***************************************************************************)
(* What the chain is for.  In every committed state that the sessions of   *)
(* AuditChain can produce, take an operator who bypasses the WORM triggers *)
(* and alters the tables, and ask what verify_audit_chain reports and what *)
(* a head hash kept outside the database (the "fingerprint" of             *)
(* GET /audit/chain) still proves.                                         *)
(***************************************************************************)
EXTENDS AuditChain, SequencesExt

Tables(rows, entries) == [rows |-> rows, entries |-> entries]

EntryOfRow(r, entries) == CHOOSE e \in entries : e.id = r.audit_entry_id

Renumbered(rows) ==
  [i \in DOMAIN rows |-> [rows[i] EXCEPT !.scope_sequence = i]]

SwapRows(R, i, j) ==
  [k \in DOMAIN R |-> IF k = i THEN R[j]
                      ELSE IF k = j THEN R[i] ELSE R[k]]

\* The row of entry e with its own two hashes recomputed.
Rehashed(s, r, e) ==
  [r EXCEPT !.entry_hash = EntryHash(e),
            !.chain_hash = LinkHash(s, r.scope_sequence, e.id,
                                    r.previous_chain_hash, EntryHash(e))]

Edited(r, b, E) == [EntryOfRow(r, E) EXCEPT !.body = b]
Without(r, E) == E \ {EntryOfRow(r, E)}

\* A row and another content of its entry.
Edits(R, E) ==
  {p \in (DOMAIN R) \X Bodies : p[2] # EntryOfRow(R[p[1]], E).body}

Earlier(R) == (DOMAIN R) \ {Len(R)}

EditedEntries(R, E) ==
  {Tables(R, Without(R[p[1]], E) \cup {Edited(R[p[1]], p[2], E)}) :
     p \in Edits(R, E)}

EditedRows(s, R, E) ==
  {Tables([R EXCEPT ![p[1]] = Rehashed(s, R[p[1]], Edited(R[p[1]], p[2], E))],
          Without(R[p[1]], E) \cup {Edited(R[p[1]], p[2], E)}) :
     p \in {q \in Edits(R, E) : q[1] \in Earlier(R)}}

DeletedEntries(R, E) == {Tables(R, Without(R[i], E)) : i \in DOMAIN R}

DeletedRows(R, E) ==
       {Tables(RemoveAt(R, i), E) : i \in DOMAIN R}
  \cup {Tables(RemoveAt(R, i), Without(R[i], E)) : i \in Earlier(R)}
  \cup {Tables(Renumbered(RemoveAt(R, i)), Without(R[i], E)) : i \in Earlier(R)}

Pairs(R) == {p \in (DOMAIN R) \X (DOMAIN R) : p[1] < p[2]}

ReorderedRows(R, E) ==
       {Tables(SwapRows(R, p[1], p[2]), E) : p \in Pairs(R)}
  \cup {Tables(Renumbered(SwapRows(R, p[1], p[2])), E) : p \in Pairs(R)}

InsertedEntries(s, R, E) ==
  {Tables(R, E \cup {[id |-> id, scope |-> s, body |-> b]}) :
     id \in EntryIds \ {e.id : e \in E}, b \in Bodies}

\* Edits, deletions, insertions and reorderings of the tables of scope s.
\* The last row may also be deleted, or edited and rehashed, unnoticed: no
\* later link commits to it.  Those are not in this set; see HeadPinsHistory.
Alterations(s, R, E) ==
  UNION {EditedEntries(R, E), EditedRows(s, R, E), DeletedEntries(R, E),
         DeletedRows(R, E), ReorderedRows(R, E), InsertedEntries(s, R, E)}

\* "It detects edit / delete / reorder of DB history": whatever such change
\* is made to the tables of an untampered matter, verify_audit_chain reports
\* at least one issue.
TamperEvident ==
  \A s \in Scopes : \A t \in Alterations(s, audit_chain[s], audit_entries) :
    SnapshotIssues(s, t.rows, t.entries) # {}

\* The chain that the trigger would build for the entries q, in this order.
Relinked(s, q) ==
  LET chain[n \in 0..Len(q)] ==
        IF n = 0 THEN << >>
        ELSE Append(chain[n-1], NextRow(s, q[n], chain[n-1]))
  IN  chain[Len(q)]

\* Every log of at most n distinct entries of scope s.
Histories(s, n) ==
  {q \in UNION {[1..k -> EntriesOf(s, Entry)] : k \in 0..n} :
     \A i, j \in DOMAIN q : q[i].id = q[j].id => i = j}

\* "export it and any later verification proves the trail was not rewritten":
\* a chain relinked from start to end over any other history verifies, but it
\* does not end at the head hash that was taken before.
HeadPinsHistory ==
  \A s \in Scopes : \A q \in Histories(s, Len(audit_chain[s])) :
    LET forged == Relinked(s, q)
    IN  /\ SnapshotIssues(s, forged, {q[i] : i \in DOMAIN q}) = {}
        /\ q # ChainedEntries(s) => ChainHead(forged)
                                      # ChainHead(audit_chain[s])
=============================================================================
