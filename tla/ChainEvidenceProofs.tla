------------------------ MODULE ChainEvidenceProofs ------------------------
(***************************************************************************)
(* What a reader of the chain gets, and what the chain then proves, for    *)
(* any number of sessions, scopes and rows.                                *)
(*                                                                         *)
(* The argument for the readers: the row checks never fail on a committed  *)
(* chain (RowsClean), and between two statements of a reader rows are only *)
(* added, to the log and at the end of a chain (TablesGrow).  The argument *)
(* for the evidence: the hash of a row is the sequence of all links up to  *)
(* it (Links), so equal head hashes have equal histories, and two rows of  *)
(* a chain that are renumbered or moved no longer carry each other's hash. *)
(***************************************************************************)
EXTENDS ChainReaders, TamperEvidence, AuditChainProofs, WellFoundedInduction

Verifier ==
  [pc : {"idle", "count_rows", "read_rows", "read_head", "done"},
   nEntries : Nat, nRows : Nat, issues : SUBSET {"count_mismatch"}, head : Hash]

HeadStays ==
  verifier.head = NoHash
    \/ \E i \in DOMAIN audit_chain[Target] :
         audit_chain[Target][i].chain_hash = verifier.head

\* What audit.json lists is still in the log, and what the exporter writes
\* next to it has no other problem.
PackSound ==
  /\ exporter.pc \in {"idle", "read_chain", "written"}
  /\ exporter.pc = "read_chain" =>
       \E A \in SUBSET Ids(EntriesOf(Target, audit_entries)) :
         exporter.pack = [EmptyPack EXCEPT !.audit_ids = A]
  /\ exporter.pc = "written" =>
       PackProblems(Target, exporter.pack) \subseteq {"missing_from_audit_json"}

ReaderInv == IInv /\ verifier \in Verifier /\ HeadStays /\ PackSound
-----------------------------------------------------------------------------
(* The readers.                                                            *)

\* A step of a session adds to the log and to the end of a chain.
LEMMA TablesGrow ==
  ASSUME IInv, [Next]_vars, NEW s \in Scopes
  PROVE  /\ audit_entries \subseteq audit_entries'
         /\ \A i \in DOMAIN audit_chain[s] :
              i \in DOMAIN audit_chain'[s] /\ audit_chain'[s][i] = audit_chain[s][i]
<1>1. CASE UNCHANGED <<audit_entries, audit_chain>>
  BY <1>1
<1>2. ASSUME NEW c \in Conns, Commit(c)
      PROVE  /\ audit_entries \subseteq audit_entries'
             /\ \A i \in DOMAIN audit_chain[s] :
                  i \in DOMAIN audit_chain'[s] /\ audit_chain'[s][i] = audit_chain[s][i]
  <2>1. /\ audit_chain[s] \in Seq(ChainRow) /\ appended[c][s] \in Seq(ChainRow)
        /\ audit_chain'[s] = audit_chain[s] \o appended[c][s]
        /\ audit_entries \subseteq audit_entries'
    BY <1>2, VisibleType DEF Commit, Visible, IInv
  <2>2. \A a, b \in Seq(ChainRow) : \A i \in DOMAIN a :
          i \in DOMAIN (a \o b) /\ (a \o b)[i] = a[i]
    OBVIOUS
  <2> QED BY <2>1, <2>2
<1>3. ASSUME NEW c \in Conns, AuditFailureCommit(c)
      PROVE  /\ audit_entries \subseteq audit_entries'
             /\ \A i \in DOMAIN audit_chain[s] :
                  i \in DOMAIN audit_chain'[s] /\ audit_chain'[s][i] = audit_chain[s][i]
  <2> DEFINE e == Head(aside[c])
  <2>1. /\ e \in Entry /\ e.scope \in Scopes
    <3>1. aside[c] \in Seq(Entry) /\ Len(aside[c]) = 1
      BY <1>3 DEF AuditFailureCommit, IInv, TypeOK, Aside
    <3>2. e \in Entry
      BY <3>1
    <3> HIDE DEF e
    <3> QED BY <3>2 DEF Entry
  <2>2. PICK r \in ChainRow :
          audit_chain' = [audit_chain EXCEPT ![e.scope] = Append(@, r)]
    <3>1. audit_chain[e.scope] \in Seq(ChainRow)
      BY <2>1 DEF IInv, TypeOK
    <3>2. NextRow(e.scope, e, audit_chain[e.scope]) \in ChainRow
      BY <2>1, <3>1, NextRowType
    <3> QED BY <1>3, <3>2 DEF AuditFailureCommit
  <2>3. \A a \in Seq(ChainRow) : \A i \in DOMAIN a :
          i \in DOMAIN Append(a, r) /\ Append(a, r)[i] = a[i]
    OBVIOUS
  <2>4. audit_chain[s] \in Seq(ChainRow) /\ audit_chain \in [Scopes -> Seq(ChainRow)]
    BY DEF IInv, TypeOK
  <2>5. audit_entries \subseteq audit_entries'
    BY <1>3 DEF AuditFailureCommit
  <2> HIDE DEF e
  <2> QED BY <2>1, <2>2, <2>3, <2>4, <2>5
<1> QED
  BY <1>1, <1>2, <1>3 DEF Next, vars, Log, AuditFailure, AutoFlush, BeginCommit, Insert,
                           Rollback, DeadlockVictim

\* The entry that a chain row is joined with is the one it was made from.
LEMMA JoinedIs ==
  ASSUME IInv, NEW s \in Scopes, NEW i \in DOMAIN audit_chain[s]
  PROVE  /\ JoinedEntry(audit_chain[s][i]) = audit_chain[s][i].entry_hash
         /\ audit_chain[s][i].entry_hash \in EntriesOf(s, audit_entries)
<1> DEFINE r == audit_chain[s][i]
<1>1. i \in 1..Len(audit_chain[s])
  BY DEF IInv, TypeOK
<1>2. r.entry_hash \in EntriesOf(s, audit_entries)
  BY <1>1 DEF IInv, Entries, EntriesIn
<1>3. r.entry_hash \in audit_entries /\ r.entry_hash.id = r.audit_entry_id
  BY <1>1, <1>2 DEF EntriesOf, IInv, Chains, GoodRows, GoodRow
<1>4. \A e \in audit_entries : e.id = r.audit_entry_id => e = r.entry_hash
  BY <1>3 DEF IInv, FreshIds, UniqueIds
<1> HIDE DEF r
<1>5. JoinedEntry(r) = r.entry_hash
  BY <1>3, <1>4 DEF JoinedEntry
<1> QED BY <1>2, <1>5 DEF r

\* What an export of a committed chain contains passes the checks of
\* verify_chain.py on the chain file, whatever audit.json lists of the log.
LEMMA PackOfChain ==
  ASSUME IInv, NEW A \in SUBSET Ids(EntriesOf(Target, audit_entries)), NEW pack,
         LET rows == audit_chain[Target]
         IN  pack = [EmptyPack EXCEPT
                       !.audit_ids = A,
                       !.rows = [i \in DOMAIN rows |->
                                   PackRow(rows[i], JoinedEntry(rows[i]))],
                       !.head_hash = ChainHead(rows),
                       !.head_count = Len(rows)]
  PROVE  PackProblems(Target, pack) \subseteq {"missing_from_audit_json"}
<1>t. Target \in Scopes
  BY TargetAssumption DEF Scopes
<1> DEFINE rows == audit_chain[Target]
           n == Len(pack.rows)
           R(i) == pack.rows[i].chain
           E(i) == pack.rows[i].entry
           ids == {E(i).id : i \in 1..n}
<1>1. /\ rows \in Seq(ChainRow) /\ Len(rows) \in Nat /\ DOMAIN rows = 1..Len(rows)
  BY <1>t DEF IInv, TypeOK
<1>2. /\ pack.rows = [i \in 1..Len(rows) |-> PackRow(rows[i], JoinedEntry(rows[i]))]
      /\ pack.head_hash = ChainHead(rows)
      /\ pack.head_count = Len(rows)
      /\ pack.audit_ids = A
  BY <1>1 DEF EmptyPack
<1>3. n = Len(rows)
  BY <1>1, <1>2
<1>4. ASSUME NEW i \in 1..n
      PROVE  /\ R(i) = rows[i] /\ E(i) = rows[i].entry_hash
             /\ GoodRow(Target, rows, i)
  <2>1. /\ R(i) = rows[i] /\ E(i) = JoinedEntry(rows[i])
    BY <1>2, <1>3 DEF PackRow
  <2> QED BY <1>t, <1>1, <1>3, <2>1, JoinedIs DEF IInv, Chains, GoodRows
<1>5. \A i \in 1..n : R(i).scope_sequence = i
  BY <1>4 DEF GoodRow
<1>6. \A i \in 1..n :
        R(i).previous_chain_hash = IF i = 1 THEN NoHash ELSE R(i-1).chain_hash
  <2> SUFFICES ASSUME NEW i \in 1..n
               PROVE  R(i).previous_chain_hash
                        = IF i = 1 THEN NoHash ELSE R(i-1).chain_hash
    OBVIOUS
  <2>1. R(i).previous_chain_hash = PreviousHash(rows, i)
    BY <1>4 DEF GoodRow
  <2>2. CASE i = 1
    BY <2>1, <2>2 DEF PreviousHash
  <2>3. CASE i # 1
    <3>1. i-1 \in 1..n
      BY <1>1, <1>3, <2>3
    <3>2. R(i-1) = rows[i-1]
      BY <1>4, <3>1
    <3> QED BY <2>1, <2>3, <3>2 DEF PreviousHash
  <2> QED BY <2>2, <2>3
<1>7. \A i \in 1..n : R(i).entry_hash = EntryHash(E(i))
  BY <1>4 DEF EntryHash
<1>8. \A i \in 1..n :
        R(i).chain_hash = LinkHash(E(i).scope, R(i).scope_sequence, E(i).id,
                                   R(i).previous_chain_hash, EntryHash(E(i)))
  <2> SUFFICES ASSUME NEW i \in 1..n
               PROVE  R(i).chain_hash = LinkHash(E(i).scope, R(i).scope_sequence,
                        E(i).id, R(i).previous_chain_hash, EntryHash(E(i)))
    OBVIOUS
  <2>1. R(i) = rows[i] /\ E(i) = rows[i].entry_hash /\ GoodRow(Target, rows, i)
    BY <1>4
  <2> HIDE DEF R, E, rows
  <2> QED BY <2>1 DEF GoodRow, RecomputedChainHash, EntryHash
<1>9. pack.head_hash = IF n = 0 THEN NoHash ELSE R(n).chain_hash
  <2>1. CASE n = 0
    BY <1>1, <1>2, <1>3, <2>1 DEF ChainHead
  <2>2. CASE n # 0
    <3>1. n \in 1..n
      BY <1>1, <1>3, <2>2
    <3>2. R(n) = rows[Len(rows)] /\ rows # << >>
      BY <1>3, <1>4, <3>1, <2>2
    <3> QED BY <1>2, <2>2, <3>2 DEF ChainHead
  <2> QED BY <2>1, <2>2
<1>10. pack.audit_ids \subseteq ids
  <2>1. EntriesOf(Target, audit_entries) = EntriesIn(rows)
    BY <1>t DEF IInv, Entries
  <2>2. \A e \in EntriesIn(rows) : \E i \in 1..n : e = E(i)
    BY <1>3, <1>4 DEF EntriesIn
  <2> HIDE DEF E, rows, n
  <2> QED BY <1>2, <2>1, <2>2 DEF Ids
<1> HIDE DEF ids
<1>11. pack.head_count = n
  BY <1>2, <1>3
<1>12. \A p \in PackProblems(Target, pack) : p = "missing_from_audit_json"
  <2> SUFFICES ASSUME NEW p \in PackProblems(Target, pack), p # "missing_from_audit_json"
               PROVE  FALSE
    OBVIOUS
  <2>1. p # "missing_from_chain"
    BY <1>10 DEF PackProblems, ids
  <2> QED BY <1>5, <1>6, <1>7, <1>8, <1>9, <1>11, <2>1 DEF PackProblems
<1> QED BY <1>12

\* A step of a session leaves what the readers have read, which stays true.
LEMMA SessionStep ==
  ASSUME ReaderInv, [Next]_vars, UNCHANGED rvars
  PROVE  ReaderInv'
<1>t. Target \in Scopes
  BY TargetAssumption DEF Scopes
<1>1. IInv'
  BY StepInv DEF ReaderInv
<1>2. verifier' = verifier /\ exporter' = exporter
  BY DEF rvars
<1>3. /\ audit_entries \subseteq audit_entries'
      /\ \A i \in DOMAIN audit_chain[Target] :
           /\ i \in DOMAIN audit_chain'[Target]
           /\ audit_chain'[Target][i] = audit_chain[Target][i]
  BY <1>t, TablesGrow DEF ReaderInv
<1>4. HeadStays'
  BY <1>2, <1>3 DEF ReaderInv, HeadStays
<1>5. Ids(EntriesOf(Target, audit_entries))
        \subseteq Ids(EntriesOf(Target, audit_entries'))
  BY <1>3 DEF Ids, EntriesOf
<1>6. PackSound'
  <2>1. /\ exporter'.pc \in {"idle", "read_chain", "written"}
        /\ exporter'.pc = "written" =>
             PackProblems(Target, exporter'.pack) \subseteq {"missing_from_audit_json"}
    BY <1>2 DEF ReaderInv, PackSound
  <2>2. ASSUME exporter'.pc = "read_chain"
        PROVE  \E A \in SUBSET Ids(EntriesOf(Target, audit_entries')) :
                 exporter'.pack = [EmptyPack EXCEPT !.audit_ids = A]
    <3>1. PICK A \in SUBSET Ids(EntriesOf(Target, audit_entries)) :
            exporter.pack = [EmptyPack EXCEPT !.audit_ids = A]
      BY <1>2, <2>2 DEF ReaderInv, PackSound
    <3>2. A \in SUBSET Ids(EntriesOf(Target, audit_entries'))
      BY <1>5
    <3> QED BY <1>2, <3>1, <3>2
  <2> QED BY <2>1, <2>2 DEF PackSound
<1> QED BY <1>1, <1>2, <1>4, <1>6 DEF ReaderInv

\* The four statements of a verification.
LEMMA VerifierStep ==
  ASSUME ReaderInv, CountEntries \/ CountRows \/ ReadRows \/ ReadHead
  PROVE  ReaderInv'
<1>t. Target \in Scopes
  BY TargetAssumption DEF Scopes
<1>0. audit_chain[Target] \in Seq(ChainRow)
  BY <1>t DEF ReaderInv, IInv, TypeOK
<1>1. UNCHANGED <<vars, exporter>>
  BY DEF CountEntries, CountRows, ReadRows, ReadHead
<1>2. IInv'
  BY <1>1, StepInv DEF ReaderInv
<1>3. PackSound'
  BY <1>1 DEF vars, ReaderInv, PackSound
<1>4. NoHash \in Hash
  BY DEF NoHash, Hash
<1>5. verifier' \in Verifier /\ HeadStays'
  <2>1. CASE CountEntries
    <3>1. Cardinality(EntriesOf(Target, audit_entries)) \in Nat
      BY <1>t, <1>0, TablesUntampered, CountsAgree DEF ReaderInv
    <3> QED BY <1>4, <2>1, <3>1 DEF CountEntries, IdleVerifier, Verifier, HeadStays
  <2>2. CASE CountRows
    <3>1. Len(audit_chain[Target]) \in Nat
      BY <1>0
    <3>2. verifier' = [verifier EXCEPT !.pc = "read_rows",
                                       !.nRows = Len(audit_chain[Target])]
      BY <2>2 DEF CountRows
    <3>3. verifier' \in Verifier /\ verifier'.head = verifier.head
      BY <3>1, <3>2 DEF ReaderInv, Verifier
    <3> QED BY <1>1, <3>3 DEF HeadStays, ReaderInv, vars
  <2>3. CASE ReadRows
    <3>1. VerifyIssues(Target, verifier.nEntries, verifier.nRows, audit_chain[Target],
                       audit_entries) \subseteq {"count_mismatch"}
      BY <1>t, TablesUntampered, RowsClean DEF VerifyIssues, ReaderInv
    <3> QED BY <1>1, <2>3, <3>1 DEF ReadRows, Verifier, HeadStays, ReaderInv, vars
  <2>4. CASE ReadHead
    <3>1. ChainHead(audit_chain[Target]) \in Hash
      <4>1. ASSUME audit_chain[Target] # << >>
            PROVE  audit_chain[Target][Len(audit_chain[Target])] \in ChainRow
        BY <1>0, <4>1
      <4> QED BY <1>4, <4>1 DEF ChainHead, ChainRow
    <3>2. ChainHead(audit_chain[Target]) = NoHash
            \/ \E i \in DOMAIN audit_chain[Target] :
                 audit_chain[Target][i].chain_hash = ChainHead(audit_chain[Target])
      <4>1. ASSUME audit_chain[Target] # << >>
            PROVE  Len(audit_chain[Target]) \in DOMAIN audit_chain[Target]
        BY <1>0, <4>1
      <4> QED BY <4>1 DEF ChainHead
    <3>3. verifier' = [verifier EXCEPT !.pc = "done", !.head = ChainHead(audit_chain[Target])]
      BY <2>4 DEF ReadHead
    <3>4. verifier' \in Verifier /\ verifier'.head = ChainHead(audit_chain[Target])
      BY <3>1, <3>3 DEF ReaderInv, Verifier
    <3> QED BY <1>1, <3>2, <3>4 DEF HeadStays, vars
  <2> QED BY <2>1, <2>2, <2>3, <2>4
<1> QED BY <1>2, <1>3, <1>5 DEF ReaderInv

\* The two statements of an export.
LEMMA ExporterStep ==
  ASSUME ReaderInv, ReadAuditLog \/ ReadChain
  PROVE  ReaderInv'
<1>1. UNCHANGED <<vars, verifier>>
  BY DEF ReadAuditLog, ReadChain
<1>2. IInv'
  BY <1>1, StepInv DEF ReaderInv
<1>3. verifier' \in Verifier /\ HeadStays'
  BY <1>1 DEF vars, ReaderInv, HeadStays
<1>4. PackSound'
  <2>1. CASE ReadAuditLog
    <3>1. exporter'.pc = "read_chain"
          /\ exporter'.pack = [EmptyPack EXCEPT !.audit_ids =
                                 {e.id : e \in EntriesOf(Target, audit_entries)}]
      BY <2>1 DEF ReadAuditLog
    <3>2. {e.id : e \in EntriesOf(Target, audit_entries)}
            = Ids(EntriesOf(Target, audit_entries'))
      BY <1>1 DEF Ids, vars
    <3> QED BY <3>1, <3>2 DEF PackSound
  <2>2. CASE ReadChain
    <3>1. PICK A \in SUBSET Ids(EntriesOf(Target, audit_entries)) :
            exporter.pack = [EmptyPack EXCEPT !.audit_ids = A]
      BY <2>2 DEF ReadChain, ReaderInv, PackSound
    <3>2. /\ exporter'.pc = "written"
          /\ LET rows == audit_chain[Target]
             IN  exporter'.pack = [exporter.pack EXCEPT
                       !.rows = [i \in DOMAIN rows |->
                                   PackRow(rows[i], JoinedEntry(rows[i]))],
                       !.head_hash = ChainHead(rows),
                       !.head_count = Len(rows)]
      BY <2>2 DEF ReadChain
    <3>3. LET rows == audit_chain[Target]
          IN  exporter'.pack = [EmptyPack EXCEPT
                       !.audit_ids = A,
                       !.rows = [i \in DOMAIN rows |->
                                   PackRow(rows[i], JoinedEntry(rows[i]))],
                       !.head_hash = ChainHead(rows),
                       !.head_count = Len(rows)]
      BY <3>1, <3>2 DEF EmptyPack
    <3>4. PackProblems(Target, exporter'.pack) \subseteq {"missing_from_audit_json"}
      BY <3>3, PackOfChain DEF ReaderInv
    <3> QED BY <3>2, <3>4 DEF PackSound
  <2> QED BY <2>1, <2>2
<1> QED BY <1>2, <1>3, <1>4 DEF ReaderInv

\* Readers that have read nothing.
LEMMA ReaderInit == RInit => ReaderInv
<1> SUFFICES ASSUME RInit PROVE ReaderInv
  OBVIOUS
<1>1. IInv
  BY InitInv DEF RInit
<1>2. NoHash \in Hash
  BY DEF NoHash, Hash
<1>3. verifier \in Verifier /\ HeadStays
  BY <1>2 DEF RInit, IdleVerifier, Verifier, HeadStays
<1>4. PackSound
  BY DEF RInit, IdleExporter, PackSound
<1> QED BY <1>1, <1>3, <1>4 DEF ReaderInv

LEMMA ReaderStep == ReaderInv /\ [RNext]_<<vars, rvars>> => ReaderInv'
<1> SUFFICES ASSUME ReaderInv, [RNext]_<<vars, rvars>> PROVE ReaderInv'
  OBVIOUS
<1>1. CASE [Next]_vars /\ UNCHANGED rvars
  BY <1>1, SessionStep
<1>2. CASE CountEntries \/ CountRows \/ ReadRows \/ ReadHead
  BY <1>2, VerifierStep
<1>3. CASE ReadAuditLog \/ ReadChain
  BY <1>3, ExporterStep
<1> QED BY <1>1, <1>2, <1>3 DEF RNext

LEMMA ReaderInvariance == RSpec => []ReaderInv
  BY ReaderInit, ReaderStep, PTL DEF RSpec

\* Whatever is committed while verify_audit_chain runs, no check of a row
\* fails: only its two counts can differ.
THEOREM RowChecksHold == RSpec => []OnlyCountsDisturbed
<1>1. ReaderInv => OnlyCountsDisturbed
  BY DEF ReaderInv, Verifier, OnlyCountsDisturbed
<1> QED BY <1>1, ReaderInvariance, PTL

\* A head that GET /audit/chain has published stays the hash of a committed
\* row.
THEOREM HeadsStay == RSpec => []PublishedHeadStays
<1>1. ReaderInv => PublishedHeadStays
  BY DEF ReaderInv, HeadStays, PublishedHeadStays
<1> QED BY <1>1, ReaderInvariance, PTL

\* The chain file that build_matter_export writes always verifies, and it has
\* every row of audit.json: only audit.json can be the older of the two.
THEOREM ChainFileVerifies == RSpec => []OnlyLogBehindChain
<1>1. ReaderInv => OnlyLogBehindChain
  BY DEF ReaderInv, PackSound, OnlyLogBehindChain
<1> QED BY <1>1, ReaderInvariance, PTL
-----------------------------------------------------------------------------
(* Hashes and histories.                                                   *)

\* A nonempty set of naturals has a least element: the induction of this
\* section is the search for the first row that breaks a claim.
LEMMA LeastNatural ==
  ASSUME NEW S \in SUBSET Nat, S # {}
  PROVE  \E n \in S : \A m \in S : n <= m
<1> DEFINE R == OpToRel(<, Nat)
<1>1. IsWellFoundedOn(R, Nat)
  BY NatLessThanWellFounded
<1>2. \A x, y \in Nat : x < y => <<x, y>> \in R
  BY DEF OpToRel
<1> HIDE DEF R
<1>3. PICK x \in S : \A y \in S : ~ (<<y, x>> \in R)
  BY <1>1, WFMin, Zenon
<1>4. \A y \in S : ~ (y < x)
  BY <1>2, <1>3, Zenon
<1> HIDE <1>1, <1>2, <1>3
<1> QED BY <1>4

\* The hash of row i commits to the entries of the first i rows, in order.
Commits(rows, i) ==
  /\ Len(rows[i].chain_hash) = i
  /\ \A k \in 1..i : rows[i].chain_hash[k].entry = rows[k].entry_hash

LEMMA Links ==
  ASSUME NEW s, NEW rows \in Seq(ChainRow), GoodRows(s, rows), NEW j \in 1..Len(rows)
  PROVE  Commits(rows, j)
<1> DEFINE B == {i \in 1..Len(rows) : ~ Commits(rows, i)}
<1> SUFFICES ASSUME B # {} PROVE FALSE
  OBVIOUS
<1>1. PICK i \in B : \A m \in B : i <= m
  <2>1. B \in SUBSET Nat
    OBVIOUS
  <2> HIDE DEF B
  <2> QED BY <2>1, LeastNatural
<1>2. i \in 1..Len(rows) /\ ~ Commits(rows, i) /\ Len(rows) \in Nat
  OBVIOUS
<1> DEFINE prev == PreviousHash(rows, i)
           link == [scope |-> s, seq |-> rows[i].scope_sequence,
                    id |-> rows[i].audit_entry_id, entry |-> rows[i].entry_hash]
<1>3. rows[i].chain_hash = Append(prev, link)
  BY <1>2 DEF GoodRows, GoodRow, RecomputedChainHash, LinkHash
<1>4. /\ prev \in Seq(Link) /\ Len(prev) = i - 1
      /\ \A k \in 1..(i-1) : prev[k].entry = rows[k].entry_hash
  <2>1. CASE i = 1
    BY <2>1 DEF PreviousHash, NoHash
  <2>2. CASE i # 1
    <3>1. i-1 \in 1..Len(rows) /\ i-1 < i
      BY <1>2, <2>2
    <3>2. Commits(rows, i-1)
      BY <1>1, <3>1
    <3>3. rows[i-1].chain_hash \in Seq(Link)
      <4>1. rows[i-1] \in ChainRow
        BY <3>1
      <4> QED BY <4>1 DEF ChainRow, Hash
    <3> QED BY <2>2, <3>2, <3>3 DEF Commits, PreviousHash
  <2> QED BY <2>1, <2>2
<1> HIDE DEF prev, B
<1>5. /\ Len(Append(prev, link)) = i
      /\ Append(prev, link)[i] = link
      /\ \A k \in 1..(i-1) : Append(prev, link)[k] = prev[k]
  <2> HIDE DEF link
  <2>1. \A p \in Seq(Link) : /\ Len(Append(p, link)) = Len(p) + 1
                            /\ Append(p, link)[Len(p) + 1] = link
                            /\ \A k \in 1..Len(p) : Append(p, link)[k] = p[k]
    OBVIOUS
  <2> QED BY <1>2, <1>4, <2>1
<1>6. link.entry = rows[i].entry_hash
  OBVIOUS
<1> HIDE DEF link
<1>7. \A k \in 1..i : k = i \/ k \in 1..(i-1)
  BY <1>2
<1>8. Commits(rows, i)
  BY <1>3, <1>4, <1>5, <1>6, <1>7 DEF Commits
<1> QED BY <1>2, <1>8

\* A head hash determines the history it was taken of.
LEMMA HeadDetermines ==
  ASSUME NEW s, NEW a \in Seq(ChainRow), NEW b \in Seq(ChainRow),
         GoodRows(s, a), GoodRows(s, b), ChainHead(a) = ChainHead(b)
  PROVE  /\ Len(a) = Len(b)
         /\ \A k \in 1..Len(a) : a[k].entry_hash = b[k].entry_hash
<1>1. ASSUME NEW r \in Seq(ChainRow), GoodRows(s, r)
      PROVE  /\ Len(ChainHead(r)) = Len(r)
             /\ \A k \in 1..Len(r) : ChainHead(r)[k].entry = r[k].entry_hash
  <2>1. CASE r = << >>
    BY <2>1 DEF ChainHead, NoHash
  <2>2. CASE r # << >>
    <3>1. Len(r) \in 1..Len(r)
      BY <2>2
    <3>2. Commits(r, Len(r))
      BY <1>1, <3>1, Links
    <3> QED BY <2>2, <3>2 DEF ChainHead, Commits
  <2> QED BY <2>1, <2>2
<1>2. Len(a) = Len(b)
  BY <1>1
<1>3. ASSUME NEW k \in 1..Len(a) PROVE a[k].entry_hash = b[k].entry_hash
  <2>1. ChainHead(a)[k].entry = a[k].entry_hash
    BY <1>1
  <2>2. ChainHead(b)[k].entry = b[k].entry_hash
    BY <1>1, <1>2
  <2> QED BY <2>1, <2>2
<1> QED BY <1>2, <1>3

\* The step by which the trigger links the entries of q into a chain.
LinkedUpTo(s, q, n, g) ==
  g = [k \in 0..n |-> IF k = 0 THEN << >>
                      ELSE Append(g[k-1], NextRow(s, q[k], g[k-1]))]

\* rows is a good chain over the first n entries of q.
ChainOf(s, q, n, rows) ==
  /\ rows \in Seq(ChainRow)
  /\ Len(rows) = n
  /\ GoodRows(s, rows)
  /\ \A k \in 1..n : rows[k].entry_hash = q[k]

\* A log of entries of scope s, each with an id of its own.
Logged(s, q) ==
  /\ q \in Seq(Entry)
  /\ \A i \in 1..Len(q) : q[i].scope = s
  /\ DistinctIds(q)

\* The recursive definition of a relinked chain is well defined.
LEMMA LinkedExists ==
  ASSUME NEW s, NEW q, NEW N \in Nat
  PROVE  \E g : LinkedUpTo(s, q, N, g)
<1> DEFINE B == {n \in Nat : ~ \E g : LinkedUpTo(s, q, n, g)}
<1> SUFFICES ASSUME B # {} PROVE FALSE
  OBVIOUS
<1>1. PICK n \in B : \A m \in B : n <= m
  <2>1. B \in SUBSET Nat
    OBVIOUS
  <2> HIDE DEF B
  <2> QED BY <2>1, LeastNatural
<1>2. n \in Nat /\ ~ \E g : LinkedUpTo(s, q, n, g)
  OBVIOUS
<1>3. CASE n = 0
  <2> DEFINE g == [k \in 0..0 |-> << >>]
  <2>1. g = [k \in 0..0 |-> IF k = 0 THEN << >>
                            ELSE Append(g[k-1], NextRow(s, q[k], g[k-1]))]
    OBVIOUS
  <2> HIDE DEF g
  <2>2. LinkedUpTo(s, q, 0, g)
    BY <2>1 DEF LinkedUpTo
  <2> QED BY <1>2, <1>3, <2>2
<1>4. CASE n # 0
  <2>1. n - 1 \in Nat /\ n - 1 < n
    BY <1>2, <1>4
  <2>2. PICK h : LinkedUpTo(s, q, n-1, h)
    BY <1>1, <2>1
  <2> DEFINE last == Append(h[n-1], NextRow(s, q[n], h[n-1]))
             g == [k \in 0..n |-> IF k = n THEN last ELSE h[k]]
             F == [k \in 0..n |-> IF k = 0 THEN << >>
                                  ELSE Append(g[k-1], NextRow(s, q[k], g[k-1]))]
  <2>3. ASSUME NEW k \in 0..n PROVE g[k] = F[k]
    <3>1. CASE k = n
      <4>1. g[k] = last
        BY <3>1
      <4>2. n-1 \in 0..n /\ n-1 # n
        BY <2>1
      <4>3. g[n-1] = h[n-1]
        BY <4>2
      <4>4. F[k] = Append(g[n-1], NextRow(s, q[n], g[n-1]))
        BY <1>4, <3>1
      <4> HIDE DEF g, F
      <4> QED BY <4>1, <4>3, <4>4
    <3>2. CASE k # n
      <4>1. k \in 0..(n-1) /\ g[k] = h[k]
        BY <1>2, <3>2
      <4>2. h[k] = IF k = 0 THEN << >> ELSE Append(h[k-1], NextRow(s, q[k], h[k-1]))
        BY <2>2, <4>1 DEF LinkedUpTo
      <4>3. CASE k = 0
        BY <4>1, <4>2, <4>3
      <4>4. CASE k # 0
        <5>1. k-1 \in 0..n /\ k-1 # n
          BY <1>2, <4>1, <4>4
        <5>2. g[k-1] = h[k-1]
          BY <5>1
        <5>3. F[k] = Append(g[k-1], NextRow(s, q[k], g[k-1]))
          BY <4>4
        <5> HIDE DEF g, F
        <5> QED BY <4>1, <4>2, <4>4, <5>2, <5>3
      <4> QED BY <4>3, <4>4
    <3> QED BY <3>1, <3>2
  <2>4. g = F
    <3>1. DOMAIN g = 0..n /\ DOMAIN F = 0..n
      OBVIOUS
    <3>2. g = [k \in 0..n |-> g[k]] /\ F = [k \in 0..n |-> F[k]]
      OBVIOUS
    <3> HIDE DEF g, F
    <3> QED BY <2>3, <3>2
  <2>5. LinkedUpTo(s, q, n, g)
    <3> HIDE DEF g
    <3> QED BY <2>4 DEF LinkedUpTo, F
  <2> QED BY <1>2, <2>5
<1> QED BY <1>3, <1>4

\* Every stage of it is a good chain over the entries so far.
LEMMA LinkedGood ==
  ASSUME NEW s \in Scopes, NEW q, Logged(s, q), NEW g, LinkedUpTo(s, q, Len(q), g),
         NEW j \in 0..Len(q)
  PROVE  ChainOf(s, q, j, g[j])
<1> DEFINE B == {n \in 0..Len(q) : ~ ChainOf(s, q, n, g[n])}
<1> SUFFICES ASSUME B # {} PROVE FALSE
  OBVIOUS
<1>0. Len(q) \in Nat
  BY DEF Logged
<1>1. PICK n \in B : \A m \in B : n <= m
  <2>1. B \in SUBSET Nat
    BY <1>0
  <2> HIDE DEF B
  <2> QED BY <2>1, LeastNatural
<1>2. n \in 0..Len(q) /\ ~ ChainOf(s, q, n, g[n])
  OBVIOUS
<1>3. CASE n = 0
  <2>1. g[0] = << >>
    BY <1>0 DEF LinkedUpTo
  <2>2. ChainOf(s, q, 0, << >>)
    BY DEF ChainOf, GoodRows
  <2> QED BY <1>2, <1>3, <2>1, <2>2
<1>4. CASE n # 0
  <2>1. n - 1 \in 0..Len(q) /\ n - 1 < n /\ n \in 1..Len(q)
    BY <1>0, <1>2, <1>4
  <2>2. ChainOf(s, q, n-1, g[n-1])
    BY <1>1, <2>1
  <2>3. PICK rows \in Seq(ChainRow) : rows = g[n-1]
    BY <2>2 DEF ChainOf
  <2>4. PICK e \in Entry : e = q[n]
    BY <2>1 DEF Logged
  <2>5. g[n] = Append(rows, NextRow(s, e, rows))
    BY <1>2, <1>4, <2>3, <2>4 DEF LinkedUpTo
  <2>6. /\ Len(rows) = n-1 /\ GoodRows(s, rows)
        /\ \A k \in 1..(n-1) : rows[k].entry_hash = q[k]
    BY <2>2, <2>3 DEF ChainOf
  <2>7. \A i \in 1..Len(rows) : rows[i].audit_entry_id # e.id
    <3> SUFFICES ASSUME NEW i \in 1..(n-1) PROVE rows[i].audit_entry_id # e.id
      BY <2>6
    <3>1. i \in 1..Len(q) /\ i # n /\ DOMAIN q = 1..Len(q)
      BY <1>0, <2>1 DEF Logged
    <3>2. q[i].id # q[n].id
      BY <2>1, <3>1 DEF Logged, DistinctIds
    <3>3. rows[i].entry_hash = q[i] /\ rows[i].entry_hash.id = rows[i].audit_entry_id
      BY <2>6 DEF GoodRows, GoodRow
    <3> QED BY <2>4, <3>2, <3>3
  <2>8. e.scope = s
    BY <2>1, <2>4 DEF Logged
  <2>9. GoodRows(s, g[n])
    BY <2>5, <2>6, <2>7, <2>8, AppendGood
  <2>10. PICK r \in ChainRow : r = NextRow(s, e, rows)
    BY NextRowType
  <2>11. r.entry_hash = e
    BY <2>10 DEF NextRow, EntryHash
  <2>12. /\ g[n] \in Seq(ChainRow) /\ Len(g[n]) = n /\ g[n][n] = r
         /\ \A k \in 1..(n-1) : g[n][k] = rows[k]
    <3>1. g[n] = Append(rows, r)
      BY <2>5, <2>10
    <3>2. /\ Append(rows, r) \in Seq(ChainRow) /\ Len(Append(rows, r)) = Len(rows) + 1
          /\ Append(rows, r)[Len(rows) + 1] = r
          /\ \A k \in 1..Len(rows) : Append(rows, r)[k] = rows[k]
      OBVIOUS
    <3>3. (n-1) + 1 = n
      BY <2>1
    <3> QED BY <2>6, <3>1, <3>2, <3>3
  <2>13. \A k \in 1..n : g[n][k].entry_hash = q[k]
    <3>1. \A k \in 1..n : k = n \/ k \in 1..(n-1)
      BY <2>1
    <3> QED BY <2>4, <2>6, <2>11, <2>12, <3>1
  <2>14. ChainOf(s, q, n, g[n])
    BY <2>9, <2>12, <2>13 DEF ChainOf
  <2> QED BY <1>2, <2>14
<1> QED BY <1>3, <1>4

\* The chain relinked over a log is a good chain over that log.
LEMMA RelinkedGood ==
  ASSUME NEW s \in Scopes, NEW q, Logged(s, q)
  PROVE  ChainOf(s, q, Len(q), Relinked(s, q))
<1> DEFINE c == CHOOSE g : g = [n \in 0..Len(q) |->
                     IF n = 0 THEN << >>
                     ELSE Append(g[n-1], NextRow(s, q[n], g[n-1]))]
<1>1. Relinked(s, q) = c[Len(q)]
  BY DEF Relinked
<1>2. Len(q) \in Nat
  BY DEF Logged
<1>3. LinkedUpTo(s, q, Len(q), c)
  <2>1. c = CHOOSE g : LinkedUpTo(s, q, Len(q), g)
    BY Zenon DEF LinkedUpTo
  <2>2. \E g : LinkedUpTo(s, q, Len(q), g)
    BY <1>2, LinkedExists
  <2> HIDE DEF c
  <2> QED BY <2>1, <2>2, Zenon
<1> HIDE DEF c
<1> QED BY <1>1, <1>2, <1>3, LinkedGood

\* A chain over a log verifies against the entries of that log.
LEMMA ForgedVerifies ==
  ASSUME NEW s \in Scopes, NEW q, Logged(s, q), NEW rows,
         ChainOf(s, q, Len(q), rows)
  PROVE  Untampered(s, rows, {q[i] : i \in DOMAIN q})
<1> DEFINE E == {q[i] : i \in DOMAIN q}
<1>1. q \in Seq(Entry) /\ DOMAIN q = 1..Len(q) /\ Len(rows) = Len(q)
  BY DEF Logged, ChainOf
<1>2. EntriesOf(s, E) = EntriesIn(rows)
  <2>1. EntriesOf(s, E) = E
    BY <1>1 DEF EntriesOf, Logged
  <2>2. E = EntriesIn(rows)
    BY <1>1 DEF EntriesIn, ChainOf
  <2> QED BY <2>1, <2>2
<1>3. UniqueIds(E)
  BY <1>1 DEF UniqueIds, Logged, DistinctIds
<1> QED BY <1>2, <1>3 DEF Untampered, ChainOf

\* A head hash taken of a committed chain pins its history: a chain relinked
\* over any other log verifies, and does not end at that hash.
LEMMA PinsHistory == IInv => HeadPinsHistory
<1> SUFFICES ASSUME IInv, NEW s \in Scopes,
                    NEW q \in Histories(s, Len(audit_chain[s]))
             PROVE  /\ SnapshotIssues(s, Relinked(s, q), {q[i] : i \in DOMAIN q}) = {}
                    /\ ChainHead(Relinked(s, q)) = ChainHead(audit_chain[s])
                         => q = ChainedEntries(s)
  BY DEF HeadPinsHistory
<1>1. Logged(s, q)
  <2>1. PICK k \in 0..Len(audit_chain[s]) : q \in [1..k -> EntriesOf(s, Entry)]
    BY DEF Histories
  <2>2. k \in Nat
    BY VisibleType DEF IInv
  <2>3. /\ q \in Seq(Entry) /\ Len(q) = k
        /\ \A i \in 1..k : q[i].scope = s
    <3>1. q \in [1..k -> Entry]
      BY <2>1 DEF EntriesOf
    <3>2. q \in Seq(Entry) /\ Len(q) = k
      BY <2>2, <3>1
    <3>3. \A i \in 1..k : q[i].scope = s
      BY <2>1 DEF EntriesOf
    <3> QED BY <3>2, <3>3
  <2>4. DistinctIds(q)
    BY DEF Histories, DistinctIds
  <2> QED BY <2>3, <2>4 DEF Logged
<1> DEFINE forged == Relinked(s, q)
<1>2. ChainOf(s, q, Len(q), forged)
  BY <1>1, RelinkedGood
<1> HIDE DEF forged
<1>3. SnapshotIssues(s, forged, {q[i] : i \in DOMAIN q}) = {}
  BY <1>1, <1>2, ForgedVerifies, Passes
<1>4. ASSUME ChainHead(forged) = ChainHead(audit_chain[s])
      PROVE  q = ChainedEntries(s)
  <2> DEFINE rows == audit_chain[s]
  <2>1. /\ rows \in Seq(ChainRow) /\ GoodRows(s, rows)
        /\ forged \in Seq(ChainRow) /\ GoodRows(s, forged) /\ Len(forged) = Len(q)
        /\ \A k \in 1..Len(q) : forged[k].entry_hash = q[k]
    BY <1>2, TablesUntampered DEF Untampered, ChainOf
  <2>2. /\ Len(forged) = Len(rows)
        /\ \A k \in 1..Len(forged) : forged[k].entry_hash = rows[k].entry_hash
    BY <1>4, <2>1, HeadDetermines
  <2>3. ChainedEntries(s) = [k \in 1..Len(rows) |-> rows[k].entry_hash]
    BY <2>1 DEF ChainedEntries
  <2>4. q \in Seq(Entry)
    BY <1>1 DEF Logged
  <2>5. q = [k \in 1..Len(q) |-> q[k]]
    BY <2>4
  <2> HIDE DEF rows
  <2> QED BY <2>1, <2>2, <2>3, <2>5
<1> QED BY <1>3, <1>4 DEF forged

\* "export it and any later verification proves the trail was not rewritten",
\* for any number of sessions, rows and rewritten logs.
THEOREM HeadPins == Spec => []HeadPinsHistory
  BY PinsHistory, Invariance, PTL
-----------------------------------------------------------------------------
(* Alterations.                                                            *)

\* An issue of one row, or two counts that differ, is an issue.
LEMMA RowShows ==
  ASSUME NEW s, NEW rows, NEW entries, NEW i \in DOMAIN rows,
         RowIssues(s, rows, entries, i) # {}
  PROVE  SnapshotIssues(s, rows, entries) # {}
  BY DEF SnapshotIssues, VerifyIssues

LEMMA CountShows ==
  ASSUME NEW s, NEW rows, NEW entries,
         Cardinality(EntriesOf(s, entries)) # Len(rows)
  PROVE  SnapshotIssues(s, rows, entries) # {}
  BY DEF SnapshotIssues, VerifyIssues

\* A row out of sequence or not linked to the one before it shows.
LEMMA OutOfLine ==
  ASSUME NEW s, NEW rows, NEW entries, NEW i \in DOMAIN rows,
         \/ rows[i].scope_sequence # ExpectedSequence(rows, i)
         \/ rows[i].previous_chain_hash # PreviousHash(rows, i)
  PROVE  SnapshotIssues(s, rows, entries) # {}
<1>1. CASE rows[i].scope_sequence # ExpectedSequence(rows, i)
  <2>1. "sequence_gap" \in RowIssues(s, rows, entries, i)
    BY <1>1 DEF RowIssues
  <2> QED BY <2>1, RowShows
<1>2. CASE rows[i].previous_chain_hash # PreviousHash(rows, i)
  <2>1. "previous_hash_mismatch" \in RowIssues(s, rows, entries, i)
    BY <1>2 DEF RowIssues
  <2> QED BY <2>1, RowShows
<1> QED BY <1>1, <1>2

\* What a row of an untampered chain is joined with.
LEMMA EntryOf ==
  ASSUME NEW s, NEW R, NEW T, Untampered(s, R, T), NEW i \in DOMAIN R
  PROVE  /\ R[i].entry_hash \in T
         /\ R[i].entry_hash.scope = s
         /\ R[i].entry_hash.id = R[i].audit_entry_id
         /\ EntryOfRow(R[i], T) = R[i].entry_hash
<1>1. i \in 1..Len(R)
  BY DEF Untampered
<1>2. R[i].entry_hash \in T /\ R[i].entry_hash.scope = s
  BY <1>1 DEF Untampered, EntriesIn, EntriesOf
<1>3. R[i].entry_hash.id = R[i].audit_entry_id
  BY <1>1 DEF Untampered, GoodRows, GoodRow
<1>4. \A e \in T : e.id = R[i].audit_entry_id => e = R[i].entry_hash
  BY <1>2, <1>3 DEF Untampered, UniqueIds
<1>5. EntryOfRow(R[i], T) = R[i].entry_hash
  BY <1>2, <1>3, <1>4 DEF EntryOfRow
<1> QED BY <1>2, <1>3, <1>5

\* The entry of a chained row is edited.
LEMMA EditShows ==
  ASSUME NEW s, NEW R, NEW T, Untampered(s, R, T), NEW i \in DOMAIN R,
         NEW f, f.id = R[i].entry_hash.id, f # R[i].entry_hash
  PROVE  SnapshotIssues(s, R, (T \ {R[i].entry_hash}) \cup {f}) # {}
<1> DEFINE T1 == (T \ {R[i].entry_hash}) \cup {f}
<1>1. f \in Joined(T1, R[i].audit_entry_id)
  BY EntryOf DEF Joined
<1>2. R[i].entry_hash # EntryHash(f)
  BY DEF EntryHash
<1> HIDE DEF T1
<1>3. "entry_hash_mismatch" \in RowIssues(s, R, T1, i)
  BY <1>1, <1>2 DEF RowIssues
<1> QED BY <1>3, RowShows DEF T1

\* A chained row and its entry are edited, and the row is hashed again: the
\* next row still commits to the old hash.
LEMMA RehashShows ==
  ASSUME NEW s, NEW R, NEW T, NEW T1, Untampered(s, R, T),
         NEW i \in DOMAIN R, i # Len(R), NEW f, f # R[i].entry_hash
  PROVE  SnapshotIssues(s, [R EXCEPT ![i] = Rehashed(s, R[i], f)], T1) # {}
<1>1. /\ R \in Seq(ChainRow) /\ DOMAIN R = 1..Len(R) /\ Len(R) \in Nat
      /\ i \in 1..Len(R) /\ i+1 \in 1..Len(R) /\ i+1 # 1 /\ (i+1)-1 = i /\ i # i+1
  BY DEF Untampered
<1> DEFINE r == Rehashed(s, R[i], f)
           rows == [R EXCEPT ![i] = r]
<1>2. rows[i] = r /\ rows[i+1] = R[i+1] /\ DOMAIN rows = DOMAIN R
  BY <1>1
<1>3. R[i] \in ChainRow
  BY <1>1
<1>4. r.chain_hash = LinkHash(s, R[i].scope_sequence, f.id, R[i].previous_chain_hash, f)
  BY <1>3 DEF Rehashed, EntryHash, ChainRow
<1>5. r.chain_hash # R[i].chain_hash
  <2>1. R[i].chain_hash = RecomputedChainHash(s, R[i])
    BY <1>1 DEF Untampered, GoodRows, GoodRow
  <2> DEFINE x == [scope |-> s, seq |-> R[i].scope_sequence, id |-> f.id, entry |-> f]
             y == [scope |-> s, seq |-> R[i].scope_sequence,
                   id |-> R[i].audit_entry_id, entry |-> R[i].entry_hash]
             p == R[i].previous_chain_hash
  <2>2. r.chain_hash = Append(p, x) /\ R[i].chain_hash = Append(p, y)
    BY <1>4, <2>1 DEF LinkHash, RecomputedChainHash
  <2>3. x # y
    <3>1. x.entry = f /\ y.entry = R[i].entry_hash
      OBVIOUS
    <3> HIDE DEF x, y
    <3> QED BY <3>1
  <2>4. p \in Seq(Link)
    BY <1>3 DEF ChainRow, Hash
  <2> HIDE DEF x, y, p, r
  <2>5. Append(p, x)[Len(p)+1] = x /\ Append(p, y)[Len(p)+1] = y
    BY <2>4
  <2> QED BY <2>2, <2>3, <2>5
<1>6. R[i+1].previous_chain_hash = R[i].chain_hash
  BY <1>1 DEF Untampered, GoodRows, GoodRow, PreviousHash
<1> HIDE DEF r, rows
<1>7. rows[i+1].previous_chain_hash # PreviousHash(rows, i+1)
  BY <1>1, <1>2, <1>5, <1>6 DEF PreviousHash
<1> QED BY <1>1, <1>2, <1>7, OutOfLine DEF rows, r

\* An entry is deleted and its row is not.
LEMMA DeletedEntryShows ==
  ASSUME NEW s, NEW R, NEW T, Untampered(s, R, T), NEW i \in DOMAIN R
  PROVE  SnapshotIssues(s, R, T \ {R[i].entry_hash}) # {}
<1> DEFINE T1 == T \ {R[i].entry_hash}
<1>1. Joined(T1, R[i].audit_entry_id) = {}
  BY EntryOf DEF Joined, Untampered, UniqueIds
<1> HIDE DEF T1
<1>2. "missing_audit_entry" \in RowIssues(s, R, T1, i)
  BY <1>1 DEF RowIssues
<1> QED BY <1>2, RowShows DEF T1

\* The rows without row i.
LEMMA Removed ==
  ASSUME NEW R \in Seq(ChainRow), NEW i \in 1..Len(R)
  PROVE  /\ RemoveAt(R, i) \in Seq(ChainRow)
         /\ Len(RemoveAt(R, i)) = Len(R) - 1
         /\ \A k \in 1..(Len(R)-1) :
              RemoveAt(R, i)[k] = IF k < i THEN R[k] ELSE R[k+1]
<1> DEFINE a == SubSeq(R, 1, i-1)
           b == SubSeq(R, i+1, Len(R))
<1>1. /\ a \in Seq(ChainRow) /\ Len(a) = i-1
      /\ \A k \in 1..(i-1) : a[k] = R[k]
  OBVIOUS
<1>2. /\ b \in Seq(ChainRow) /\ Len(b) = Len(R)-i
      /\ \A k \in 1..(Len(R)-i) : b[k] = R[i+k]
  OBVIOUS
<1>3. RemoveAt(R, i) = a \o b
  BY DEF RemoveAt
<1> HIDE DEF a, b
<1>4. /\ a \o b \in Seq(ChainRow) /\ Len(a \o b) = Len(a) + Len(b)
      /\ \A k \in 1..(Len(a) + Len(b)) :
           (a \o b)[k] = IF k <= Len(a) THEN a[k] ELSE b[k - Len(a)]
  BY <1>1, <1>2, ConcatProperties
<1>5. Len(R) \in Nat /\ Len(a) + Len(b) = Len(R) - 1
  BY <1>1, <1>2
<1>6. ASSUME NEW k \in 1..(Len(R)-1)
      PROVE  (a \o b)[k] = IF k < i THEN R[k] ELSE R[k+1]
  <2>1. CASE k < i
    BY <1>1, <1>4, <1>5, <2>1
  <2>2. CASE ~ k < i
    <3>1. k - Len(a) \in 1..(Len(R)-i) /\ i + (k - Len(a)) = k + 1 /\ ~ k <= Len(a)
      BY <1>1, <1>5, <2>2
    <3> QED BY <1>2, <1>4, <1>5, <2>2, <3>1
  <2> QED BY <2>1, <2>2
<1> QED BY <1>3, <1>4, <1>5, <1>6

\* A row is deleted and its entry is not, or an entry is inserted and no row.
LEMMA CountChangeShows ==
  ASSUME NEW s, NEW R, NEW T, Untampered(s, R, T)
  PROVE  /\ \A i \in DOMAIN R : SnapshotIssues(s, RemoveAt(R, i), T) # {}
         /\ \A x : x.scope = s /\ x \notin T => SnapshotIssues(s, R, T \cup {x}) # {}
<1>1. Cardinality(EntriesOf(s, T)) = Len(R) /\ IsFiniteSet(EntriesOf(s, T))
  BY CountsAgree
<1>2. R \in Seq(ChainRow) /\ Len(R) \in Nat /\ DOMAIN R = 1..Len(R)
  BY DEF Untampered
<1>3. ASSUME NEW i \in DOMAIN R PROVE SnapshotIssues(s, RemoveAt(R, i), T) # {}
  <2>1. Len(RemoveAt(R, i)) = Len(R) - 1
    BY <1>2, Removed
  <2> QED BY <1>1, <1>2, <2>1, CountShows
<1>4. ASSUME NEW x, x.scope = s, x \notin T
      PROVE  SnapshotIssues(s, R, T \cup {x}) # {}
  <2>1. EntriesOf(s, T \cup {x}) = EntriesOf(s, T) \cup {x} /\ x \notin EntriesOf(s, T)
    BY <1>4 DEF EntriesOf
  <2>2. Cardinality(EntriesOf(s, T) \cup {x}) = Cardinality(EntriesOf(s, T)) + 1
    BY <1>1, <2>1, FS_AddElement
  <2>3. Cardinality(EntriesOf(s, T \cup {x})) = Len(R) + 1
    BY <1>1, <2>1, <2>2
  <2>4. \A n \in Nat : n + 1 # n
    OBVIOUS
  <2>5. Cardinality(EntriesOf(s, T \cup {x})) # Len(R)
    BY <1>2, <2>3, <2>4, Zenon
  <2> QED BY <2>5, CountShows
<1> QED BY <1>3, <1>4

\* The hash of a row is as long as its number, so no two are equal.
LEMMA HashLength ==
  ASSUME NEW s, NEW R \in Seq(ChainRow), GoodRows(s, R), NEW i \in 1..Len(R)
  PROVE  /\ Len(R[i].chain_hash) = i
         /\ Len(PreviousHash(R, i)) = i - 1
<1>1. ASSUME NEW k \in 1..Len(R) PROVE Len(R[k].chain_hash) = k
  <2>1. Commits(R, k)
    BY Links
  <2> QED BY <2>1 DEF Commits
<1>4. Len(R[i].chain_hash) = i
  BY <1>1
<1>2. CASE i = 1
  <2>1. PreviousHash(R, i) = << >>
    BY <1>2 DEF PreviousHash, NoHash
  <2>2. Len(<< >>) = 1 - 1
    OBVIOUS
  <2> QED BY <1>2, <1>4, <2>1, <2>2
<1>3. CASE i # 1
  <2>1. i-1 \in 1..Len(R)
    BY <1>3
  <2> QED BY <1>1, <1>3, <2>1 DEF PreviousHash
<1> QED BY <1>2, <1>3, <1>4

\* A row and its entry are deleted, and the later rows keep their numbers or
\* get new ones.
LEMMA RemovalShows ==
  ASSUME NEW s, NEW R, NEW T, NEW T1, Untampered(s, R, T),
         NEW i \in DOMAIN R, i # Len(R)
  PROVE  /\ SnapshotIssues(s, RemoveAt(R, i), T1) # {}
         /\ SnapshotIssues(s, Renumbered(RemoveAt(R, i)), T1) # {}
<1>1. /\ R \in Seq(ChainRow) /\ DOMAIN R = 1..Len(R) /\ Len(R) \in Nat
      /\ GoodRows(s, R) /\ i \in 1..(Len(R)-1) /\ i+1 \in 1..Len(R)
  BY DEF Untampered
<1>2. PICK rows \in Seq(ChainRow) :
        /\ rows = RemoveAt(R, i)
        /\ Len(rows) = Len(R) - 1
        /\ \A k \in 1..(Len(R)-1) : rows[k] = IF k < i THEN R[k] ELSE R[k+1]
  <2>1. i \in 1..Len(R)
    BY <1>1
  <2> HIDE DEF RemoveAt
  <2> QED BY <1>1, <2>1, Removed
<1>3. /\ rows[i] = R[i+1] /\ DOMAIN rows = 1..(Len(R)-1)
      /\ i # 1 => rows[i-1] = R[i-1] /\ i-1 \in 1..Len(R) /\ i-1 \in 1..(Len(R)-1)
  BY <1>1, <1>2
<1>4. rows[i].scope_sequence = i+1
  BY <1>1, <1>3 DEF GoodRows, GoodRow
<1>5. ExpectedSequence(rows, i) = i
  <2>1. CASE i = 1
    BY <2>1 DEF ExpectedSequence
  <2>2. CASE i # 1
    <3>1. rows[i-1].scope_sequence = i-1
      BY <1>1, <1>3, <2>2 DEF GoodRows, GoodRow
    <3> QED BY <1>1, <2>2, <3>1 DEF ExpectedSequence
  <2> QED BY <2>1, <2>2
<1>6. SnapshotIssues(s, rows, T1) # {}
  <2>1. rows[i].scope_sequence # ExpectedSequence(rows, i) /\ i \in DOMAIN rows
    BY <1>1, <1>3, <1>4, <1>5
  <2> QED BY <2>1, OutOfLine
<1> DEFINE new == Renumbered(rows)
<1>7. ASSUME NEW k \in 1..(Len(R)-1)
      PROVE  /\ new[k].previous_chain_hash = rows[k].previous_chain_hash
             /\ new[k].chain_hash = rows[k].chain_hash
  <2>1. rows[k] \in ChainRow /\ new[k] = [rows[k] EXCEPT !.scope_sequence = k]
    BY <1>2, <1>3 DEF Renumbered
  <2> HIDE DEF new
  <2> QED BY <2>1 DEF ChainRow
<1>8. DOMAIN new = DOMAIN rows
  BY DEF Renumbered
<1> HIDE DEF new
<1>9. new[i].previous_chain_hash # PreviousHash(new, i)
  <2>1. Len(new[i].previous_chain_hash) = i
    <3>1. new[i].previous_chain_hash = PreviousHash(R, i+1)
      BY <1>1, <1>3, <1>7 DEF GoodRows, GoodRow
    <3>2. Len(PreviousHash(R, i+1)) = (i+1) - 1
      BY <1>1, HashLength
    <3> QED BY <1>1, <3>1, <3>2
  <2>2. Len(PreviousHash(new, i)) = i - 1
    <3>1. CASE i = 1
      BY <3>1 DEF PreviousHash, NoHash
    <3>2. CASE i # 1
      <4>1. new[i-1].chain_hash = R[i-1].chain_hash
        BY <1>3, <1>7, <3>2
      <4>2. Len(R[i-1].chain_hash) = i-1
        BY <1>1, <1>3, <3>2, HashLength
      <4> QED BY <3>2, <4>1, <4>2 DEF PreviousHash
    <3> QED BY <3>1, <3>2
  <2> QED BY <1>1, <2>1, <2>2
<1>10. SnapshotIssues(s, new, T1) # {}
  BY <1>1, <1>3, <1>8, <1>9, OutOfLine
<1> QED BY <1>2, <1>6, <1>10 DEF new

\* Two rows change places, and keep their numbers or get new ones.
LEMMA SwapShows ==
  ASSUME NEW s, NEW R, NEW T, NEW T1, Untampered(s, R, T),
         NEW i \in DOMAIN R, NEW j \in DOMAIN R, i < j
  PROVE  /\ SnapshotIssues(s, SwapRows(R, i, j), T1) # {}
         /\ SnapshotIssues(s, Renumbered(SwapRows(R, i, j)), T1) # {}
<1>1. /\ R \in Seq(ChainRow) /\ DOMAIN R = 1..Len(R) /\ Len(R) \in Nat
      /\ GoodRows(s, R) /\ i \in 1..Len(R) /\ j \in 1..Len(R)
      /\ i # 1 => i-1 \in 1..Len(R) /\ i-1 # i /\ i-1 # j
  BY DEF Untampered
<1> DEFINE rows == SwapRows(R, i, j)
<1>2. /\ DOMAIN rows = 1..Len(R) /\ rows[i] = R[j]
      /\ i # 1 => rows[i-1] = R[i-1]
      /\ \A k \in 1..Len(R) : rows[k] \in ChainRow
  BY <1>1 DEF SwapRows
<1> HIDE DEF rows
<1>3. rows[i].scope_sequence = j
  BY <1>1, <1>2 DEF GoodRows, GoodRow
<1>4. ExpectedSequence(rows, i) = i
  <2>1. CASE i = 1
    BY <2>1 DEF ExpectedSequence
  <2>2. CASE i # 1
    <3>1. rows[i-1].scope_sequence = i-1
      BY <1>1, <1>2, <2>2 DEF GoodRows, GoodRow
    <3> QED BY <1>1, <2>2, <3>1 DEF ExpectedSequence
  <2> QED BY <2>1, <2>2
<1>5. SnapshotIssues(s, rows, T1) # {}
  <2>1. rows[i].scope_sequence # ExpectedSequence(rows, i) /\ i \in DOMAIN rows
    BY <1>1, <1>2, <1>3, <1>4
  <2> QED BY <2>1, OutOfLine
<1> DEFINE new == Renumbered(rows)
<1>6. ASSUME NEW k \in 1..Len(R)
      PROVE  /\ new[k].previous_chain_hash = rows[k].previous_chain_hash
             /\ new[k].chain_hash = rows[k].chain_hash
  <2>1. rows[k] \in ChainRow /\ new[k] = [rows[k] EXCEPT !.scope_sequence = k]
    BY <1>2 DEF Renumbered
  <2> HIDE DEF new
  <2> QED BY <2>1 DEF ChainRow
<1>7. DOMAIN new = DOMAIN rows
  BY DEF Renumbered
<1> HIDE DEF new
<1>8. new[i].previous_chain_hash # PreviousHash(new, i)
  <2>1. Len(new[i].previous_chain_hash) = j - 1
    <3>1. new[i].previous_chain_hash = PreviousHash(R, j)
      BY <1>1, <1>2, <1>6 DEF GoodRows, GoodRow
    <3> QED BY <1>1, <3>1, HashLength
  <2>2. Len(PreviousHash(new, i)) = i - 1
    <3>1. CASE i = 1
      BY <3>1 DEF PreviousHash, NoHash
    <3>2. CASE i # 1
      <4>1. new[i-1].chain_hash = R[i-1].chain_hash
        BY <1>1, <1>2, <1>6, <3>2
      <4>2. Len(R[i-1].chain_hash) = i-1
        BY <1>1, <3>2, HashLength
      <4> QED BY <3>2, <4>1, <4>2 DEF PreviousHash
    <3> QED BY <3>1, <3>2
  <2>3. i - 1 # j - 1
    BY <1>1
  <2> QED BY <2>1, <2>2, <2>3
<1>9. SnapshotIssues(s, new, T1) # {}
  BY <1>1, <1>2, <1>7, <1>8, OutOfLine
<1> QED BY <1>5, <1>9 DEF rows, new

\* An entry is inserted, deleted or edited.
LEMMA EntriesShow ==
  ASSUME NEW s, NEW R, NEW T \in SUBSET Entry, Untampered(s, R, T),
         NEW t \in EditedEntries(R, T) \cup EditedRows(s, R, T)
                     \cup DeletedEntries(R, T) \cup InsertedEntries(s, R, T)
  PROVE  SnapshotIssues(s, t.rows, t.entries) # {}
<1>1. \A rows, entries : Tables(rows, entries).rows = rows
                      /\ Tables(rows, entries).entries = entries
  BY DEF Tables
<1>2. ASSUME NEW i \in DOMAIN R
      PROVE  /\ EntryOfRow(R[i], T) = R[i].entry_hash
             /\ R[i].entry_hash \in Entry
             /\ Without(R[i], T) = T \ {R[i].entry_hash}
  BY EntryOf DEF Without
<1>3. ASSUME NEW i \in DOMAIN R, NEW b, b # EntryOfRow(R[i], T).body
      PROVE  /\ Edited(R[i], b, T).id = R[i].entry_hash.id
             /\ Edited(R[i], b, T) # R[i].entry_hash
  <2>1. PICK x \in Entry : x = EntryOfRow(R[i], T) /\ x = R[i].entry_hash
    BY <1>2
  <2>2. [x EXCEPT !.body = b].id = x.id /\ [x EXCEPT !.body = b].body = b
    BY DEF Entry
  <2>3. Edited(R[i], b, T) = [x EXCEPT !.body = b]
    BY <2>1 DEF Edited
  <2> QED BY <1>3, <2>1, <2>2, <2>3
<1>4. CASE t \in EditedEntries(R, T)
  <2>1. PICK p \in Edits(R, T) :
          t = Tables(R, Without(R[p[1]], T) \cup {Edited(R[p[1]], p[2], T)})
    BY <1>4 DEF EditedEntries
  <2>2. PICK i \in DOMAIN R, b \in Bodies :
          /\ b # EntryOfRow(R[i], T).body
          /\ t = Tables(R, Without(R[i], T) \cup {Edited(R[i], b, T)})
    BY <2>1 DEF Edits
  <2> QED BY <1>1, <1>2, <1>3, <2>2, EditShows
<1>5. CASE t \in EditedRows(s, R, T)
  <2>1. PICK p \in Edits(R, T) :
          /\ p[1] \in Earlier(R)
          /\ t = Tables([R EXCEPT ![p[1]] =
                           Rehashed(s, R[p[1]], Edited(R[p[1]], p[2], T))],
                        Without(R[p[1]], T) \cup {Edited(R[p[1]], p[2], T)})
    BY <1>5 DEF EditedRows
  <2>2. PICK i \in DOMAIN R, b \in Bodies :
          /\ i # Len(R)
          /\ b # EntryOfRow(R[i], T).body
          /\ t = Tables([R EXCEPT ![i] = Rehashed(s, R[i], Edited(R[i], b, T))],
                        Without(R[i], T) \cup {Edited(R[i], b, T)})
    BY <2>1 DEF Edits, Earlier
  <2> QED BY <1>1, <1>3, <2>2, RehashShows
<1>6. CASE t \in DeletedEntries(R, T)
  <2>1. PICK i \in DOMAIN R : t = Tables(R, Without(R[i], T))
    BY <1>6 DEF DeletedEntries
  <2> QED BY <1>1, <1>2, <2>1, DeletedEntryShows
<1>7. CASE t \in InsertedEntries(s, R, T)
  <2>1. PICK id \in EntryIds \ {e.id : e \in T}, b \in Bodies :
          t = Tables(R, T \cup {[id |-> id, scope |-> s, body |-> b]})
    BY <1>7 DEF InsertedEntries
  <2> DEFINE x == [id |-> id, scope |-> s, body |-> b]
  <2>2. x.id = id /\ x.scope = s /\ t = Tables(R, T \cup {x})
    BY <2>1
  <2> HIDE DEF x
  <2>3. x \notin T
    BY <2>2
  <2> QED BY <1>1, <2>2, <2>3, CountChangeShows
<1> QED BY <1>4, <1>5, <1>6, <1>7

\* A row is deleted or moved.
LEMMA RowsShow ==
  ASSUME NEW s, NEW R, NEW T, Untampered(s, R, T),
         NEW t \in DeletedRows(R, T) \cup ReorderedRows(R, T)
  PROVE  SnapshotIssues(s, t.rows, t.entries) # {}
<1>1. \A rows, entries : Tables(rows, entries).rows = rows
                      /\ Tables(rows, entries).entries = entries
  BY DEF Tables
<1>2. CASE t \in DeletedRows(R, T)
  <2>1. \/ \E i \in DOMAIN R : t = Tables(RemoveAt(R, i), T)
        \/ \E i \in DOMAIN R : /\ i # Len(R)
                               /\ \/ t = Tables(RemoveAt(R, i), Without(R[i], T))
                                  \/ t = Tables(Renumbered(RemoveAt(R, i)),
                                                Without(R[i], T))
    BY <1>2 DEF DeletedRows, Earlier
  <2>2. ASSUME NEW i \in DOMAIN R, t = Tables(RemoveAt(R, i), T)
        PROVE  SnapshotIssues(s, t.rows, t.entries) # {}
    BY <1>1, <2>2, CountChangeShows
  <2>3. ASSUME NEW i \in DOMAIN R, i # Len(R), NEW T1,
               \/ t = Tables(RemoveAt(R, i), T1)
               \/ t = Tables(Renumbered(RemoveAt(R, i)), T1)
        PROVE  SnapshotIssues(s, t.rows, t.entries) # {}
    BY <1>1, <2>3, RemovalShows
  <2> QED BY <2>1, <2>2, <2>3
<1>3. CASE t \in ReorderedRows(R, T)
  <2>1. PICK p \in Pairs(R) : \/ t = Tables(SwapRows(R, p[1], p[2]), T)
                              \/ t = Tables(Renumbered(SwapRows(R, p[1], p[2])), T)
    BY <1>3 DEF ReorderedRows
  <2>2. PICK i \in DOMAIN R, j \in DOMAIN R :
          i < j /\ \/ t = Tables(SwapRows(R, i, j), T)
                   \/ t = Tables(Renumbered(SwapRows(R, i, j)), T)
    BY <2>1 DEF Pairs
  <2> QED BY <1>1, <2>2, SwapShows
<1> QED BY <1>2, <1>3

\* Every alteration of the tables of an untampered scope shows.
LEMMA AlterationsShow == IInv => TamperEvident
<1> SUFFICES ASSUME IInv, NEW s \in Scopes,
                    NEW t \in Alterations(s, audit_chain[s], audit_entries)
             PROVE  SnapshotIssues(s, t.rows, t.entries) # {}
  BY DEF TamperEvident
<1>1. Untampered(s, audit_chain[s], audit_entries)
  BY TablesUntampered
<1>2. audit_entries \in SUBSET Entry
  BY DEF IInv, TypeOK
<1> QED BY <1>1, <1>2, EntriesShow, RowsShow DEF Alterations

\* "It detects edit / delete / reorder of DB history", for any number of
\* sessions, rows and alterations of the kinds listed.
THEOREM TamperingShows == Spec => []TamperEvident
  BY AlterationsShow, Invariance, PTL
=============================================================================
