-------------------------- MODULE AuditChainProofs --------------------------
(***************************************************************************)
(* The audit chain is sound for any number of sessions, scopes and rows.   *)
(*                                                                         *)
(* The argument: rows of an open transaction exist only under the lock of  *)
(* their scope (Locks), so the rows a session sees in a scope are either   *)
(* the committed ones or extend them, and in both cases they form a good   *)
(* chain (Chains): numbered from 1, each linked to the one before, each    *)
(* hash recomputable, no entry twice.  The entry tables hold exactly the   *)
(* chained entries (Entries), and entry ids are never shared (FreshIds).   *)
(***************************************************************************)
EXTENDS AuditChain, FiniteSetTheorems, SequenceTheorems, TLAPS

GoodRow(s, rows, i) ==
  /\ rows[i].scope_sequence = i
  /\ rows[i].previous_chain_hash = PreviousHash(rows, i)
  /\ rows[i].chain_hash = RecomputedChainHash(s, rows[i])
  /\ rows[i].entry_hash.id = rows[i].audit_entry_id
  /\ rows[i].entry_hash.scope = s
  /\ \A j \in 1..(i-1) : rows[j].audit_entry_id # rows[i].audit_entry_id

GoodRows(s, rows) == \A i \in 1..Len(rows) : GoodRow(s, rows, i)

EntriesIn(rows) == {rows[i].entry_hash : i \in 1..Len(rows)}

Ids(E) == {e.id : e \in E}

UniqueIds(E) == \A e, f \in E : e.id = f.id => e = f

DistinctIds(q) == \A i, j \in DOMAIN q : q[i].id = q[j].id => i = j

Own(c) == Ids(inserted[c]) \cup SeqIds(staged[c]) \cup SeqIds(aside[c])

Aside == \A c \in Conns : IF mode[c] = "oob" THEN Len(aside[c]) = 1
                                             ELSE aside[c] = << >>

Locks == \A c \in Conns, s \in Scopes : appended[c][s] # << >> => holder[s] = c

Chains == \A s \in Scopes : /\ GoodRows(s, audit_chain[s])
                            /\ \A c \in Conns : GoodRows(s, Visible(c, s))

Entries ==
  \A s \in Scopes :
    /\ EntriesOf(s, audit_entries) = EntriesIn(audit_chain[s])
    /\ \A c \in Conns : EntriesOf(s, inserted[c]) = EntriesIn(appended[c][s])

Mine(c) ==
  /\ UniqueIds(inserted[c])
  /\ DistinctIds(staged[c])
  /\ Ids(inserted[c]) \cap SeqIds(staged[c]) = {}
  /\ Ids(inserted[c]) \cap SeqIds(aside[c]) = {}
  /\ SeqIds(staged[c]) \cap SeqIds(aside[c]) = {}

Apart ==
  \A c \in Conns : /\ Ids(audit_entries) \cap Own(c) = {}
                   /\ \A d \in Conns \ {c} : Own(c) \cap Own(d) = {}

FreshIds == UniqueIds(audit_entries) /\ Apart /\ \A c \in Conns : Mine(c)

IInv == TypeOK /\ Aside /\ Locks /\ Chains /\ Entries /\ FreshIds
-----------------------------------------------------------------------------
(* Rows and sequences.                                                     *)

\* The trigger computes a row of the right shape.
LEMMA NextRowType ==
  ASSUME NEW s \in Scopes, NEW e \in Entry, NEW rows \in Seq(ChainRow)
  PROVE  /\ NextRow(s, e, rows) \in ChainRow
         /\ ChainHead(rows) \in Hash
         /\ LastSequence(rows) \in Nat
<1>0. ASSUME rows # << >>
      PROVE  /\ rows[Len(rows)].chain_hash \in Hash
             /\ rows[Len(rows)].scope_sequence \in Nat
  <2>1. Len(rows) \in 1..Len(rows)
    BY <1>0
  <2>2. rows[Len(rows)] \in ChainRow
    BY <2>1
  <2> QED
    BY <2>2 DEF ChainRow
<1>1. ChainHead(rows) \in Hash
  <2>1. NoHash \in Hash
    BY DEF NoHash, Hash
  <2> QED
    BY <1>0, <2>1 DEF ChainHead
<1>2. LastSequence(rows) \in Nat
  BY <1>0 DEF LastSequence
<1>3. e.id \in EntryIds
  BY DEF Entry
<1>4. [scope |-> s, seq |-> LastSequence(rows) + 1, id |-> e.id, entry |-> e]
        \in Link
  BY <1>2, <1>3 DEF Link
<1>5. LinkHash(s, LastSequence(rows) + 1, e.id, ChainHead(rows), EntryHash(e))
        \in Hash
  BY <1>1, <1>4 DEF LinkHash, EntryHash, Hash
<1> QED
  BY <1>1, <1>2, <1>3, <1>5 DEF NextRow, ChainRow, EntryHash

\* The trigger extends a good chain to a good chain.
LEMMA AppendGood ==
  ASSUME NEW s \in Scopes, NEW e \in Entry, NEW rows \in Seq(ChainRow),
         GoodRows(s, rows), e.scope = s,
         \A i \in 1..Len(rows) : rows[i].audit_entry_id # e.id
  PROVE  GoodRows(s, Append(rows, NextRow(s, e, rows)))
<1> DEFINE r == NextRow(s, e, rows)
           new == Append(rows, r)
<1>1. r \in ChainRow /\ LastSequence(rows) = Len(rows)
  <2>1. r \in ChainRow
    BY NextRowType
  <2>2. CASE rows = << >>
    BY <2>1, <2>2 DEF LastSequence
  <2>3. CASE rows # << >>
    <3>1. Len(rows) \in 1..Len(rows)
      BY <2>3
    <3> QED
      BY <2>1, <2>3, <3>1 DEF LastSequence, GoodRows, GoodRow
  <2> QED
    BY <2>2, <2>3
<1>2. /\ Len(new) = Len(rows) + 1
      /\ \A i \in 1..Len(rows) : new[i] = rows[i]
      /\ new[Len(rows) + 1] = r
  BY <1>1
<1> HIDE DEF new
<1>3. ASSUME NEW i \in 1..Len(rows) PROVE GoodRow(s, new, i)
  <2>1. new[i] = rows[i] /\ GoodRow(s, rows, i)
    BY <1>2, <1>3 DEF GoodRows
  <2>2. \A j \in 1..(i-1) : j \in 1..Len(rows) /\ new[j] = rows[j]
    BY <1>2, <1>3
  <2>3. PreviousHash(new, i) = PreviousHash(rows, i)
    <3>1. CASE i = 1
      BY <3>1 DEF PreviousHash
    <3>2. CASE i # 1
      <4>1. i-1 \in 1..(i-1)
        BY <1>3, <3>2
      <4> QED
        BY <2>2, <4>1 DEF PreviousHash
    <3> QED
      BY <3>1, <3>2
  <2> QED
    BY <2>1, <2>2, <2>3 DEF GoodRow
<1>4. /\ r.scope_sequence = Len(rows) + 1
      /\ r.audit_entry_id = e.id
      /\ r.previous_chain_hash = ChainHead(rows)
      /\ r.entry_hash = e
      /\ r.chain_hash = RecomputedChainHash(s, r)
  BY <1>1 DEF NextRow, EntryHash, RecomputedChainHash
<1> HIDE DEF r
<1>5. PreviousHash(new, Len(rows) + 1) = ChainHead(rows)
  <2>1. CASE rows = << >>
    BY <2>1 DEF PreviousHash, ChainHead
  <2>2. CASE rows # << >>
    <3>1. Len(rows) \in 1..Len(rows) /\ Len(rows) + 1 # 1
      BY <2>2
    <3> QED
      BY <1>2, <2>2, <3>1 DEF PreviousHash, ChainHead
  <2> QED
    BY <2>1, <2>2
<1>6. GoodRow(s, new, Len(rows) + 1)
  BY <1>2, <1>4, <1>5 DEF GoodRow
<1> QED
  BY <1>2, <1>3, <1>6 DEF GoodRows, new, r

\* Staging a row adds its id.
LEMMA SeqIdsAppend ==
  ASSUME NEW q \in Seq(Entry), NEW e \in Entry
  PROVE  SeqIds(Append(q, e)) = SeqIds(q) \cup {e.id}
  BY DEF SeqIds

\* Staging a row with a new id keeps the staged ids distinct.
LEMMA DistinctAppend ==
  ASSUME NEW q \in Seq(Entry), NEW e \in Entry, DistinctIds(q),
         e.id \notin SeqIds(q)
  PROVE  DistinctIds(Append(q, e))
<1>1. /\ DOMAIN Append(q, e) = 1..(Len(q)+1)
      /\ DOMAIN q = 1..Len(q)
      /\ Append(q, e)[Len(q)+1] = e
      /\ Len(q) \in Nat
      /\ \A i \in 1..Len(q) : Append(q, e)[i] = q[i]
  OBVIOUS
<1>2. \A i \in 1..Len(q) : q[i].id # e.id
  BY <1>1 DEF SeqIds
<1>3. \A i \in 1..(Len(q)+1) : i \in 1..Len(q) \/ i = Len(q)+1
  BY <1>1
<1> QED
  BY <1>1, <1>2, <1>3 DEF DistinctIds

\* Inserting the oldest staged row takes its id, and no other, away.
LEMMA HeadAndTail ==
  ASSUME NEW q \in Seq(Entry), q # << >>, DistinctIds(q)
  PROVE  /\ Head(q) \in Entry
         /\ Tail(q) \in Seq(Entry)
         /\ Head(q).id \in SeqIds(q)
         /\ SeqIds(Tail(q)) = SeqIds(q) \ {Head(q).id}
         /\ DistinctIds(Tail(q))
<1>1. /\ Head(q) = q[1] /\ 1 \in 1..Len(q) /\ Head(q) \in Entry
      /\ Tail(q) \in Seq(Entry) /\ Len(Tail(q)) = Len(q) - 1 /\ Len(q) \in Nat
      /\ DOMAIN q = 1..Len(q) /\ DOMAIN Tail(q) = 1..(Len(q)-1)
      /\ \A i \in 1..(Len(q)-1) : Tail(q)[i] = q[i+1]
  OBVIOUS
<1>2. DistinctIds(Tail(q))
  <2> SUFFICES ASSUME NEW i \in 1..(Len(q)-1), NEW j \in 1..(Len(q)-1),
                      q[i+1].id = q[j+1].id
               PROVE  i = j
    BY <1>1 DEF DistinctIds
  <2>1. i+1 \in 1..Len(q) /\ j+1 \in 1..Len(q)
    BY <1>1
  <2>2. i+1 = j+1
    BY <1>1, <2>1 DEF DistinctIds
  <2> QED
    BY <2>2
<1>3. SeqIds(Tail(q)) \subseteq SeqIds(q) \ {Head(q).id}
  <2> SUFFICES ASSUME NEW i \in 1..(Len(q)-1)
               PROVE  q[i+1].id \in SeqIds(q) /\ q[i+1].id # q[1].id
    BY <1>1 DEF SeqIds
  <2>1. i+1 \in 1..Len(q) /\ i+1 # 1
    BY <1>1
  <2> QED
    BY <1>1, <2>1 DEF SeqIds, DistinctIds
<1>4. SeqIds(q) \ {Head(q).id} \subseteq SeqIds(Tail(q))
  <2> SUFFICES ASSUME NEW i \in 1..Len(q), q[i].id # q[1].id
               PROVE  q[i].id \in SeqIds(Tail(q))
    BY <1>1 DEF SeqIds
  <2>1. i # 1 /\ i-1 \in 1..(Len(q)-1) /\ (i-1)+1 = i
    BY <1>1
  <2>2. Tail(q)[i-1] = q[i]
    BY <1>1, <2>1
  <2> QED
    BY <1>1, <2>1, <2>2 DEF SeqIds
<1>5. Head(q).id \in SeqIds(q)
  BY <1>1 DEF SeqIds
<1> QED
  BY <1>1, <1>2, <1>3, <1>4, <1>5

\* A row appended to the rows of a session is appended to what it sees.
LEMMA ConcatAppend ==
  ASSUME NEW a \in Seq(ChainRow), NEW b \in Seq(ChainRow), NEW r \in ChainRow
  PROVE  a \o Append(b, r) = Append(a \o b, r)
<1>1. <<r>> \in Seq(ChainRow)
  OBVIOUS
<1>2. (a \o b) \o <<r>> = a \o (b \o <<r>>)
  BY <1>1, ConcatAssociative
<1>3. Append(b, r) = b \o <<r>> /\ a \o b \in Seq(ChainRow)
  BY AppendIsConcat, ConcatProperties
<1> QED
  BY <1>2, <1>3, AppendIsConcat

\* The entries of a chain with one more row.
LEMMA EntriesInAppend ==
  ASSUME NEW rows \in Seq(ChainRow), NEW r \in ChainRow
  PROVE  EntriesIn(Append(rows, r)) = EntriesIn(rows) \cup {r.entry_hash}
<1> DEFINE new == Append(rows, r)
<1>1. /\ Len(new) = Len(rows) + 1 /\ Len(rows) \in Nat
      /\ new[Len(rows)+1] = r
      /\ \A i \in 1..Len(rows) : new[i] = rows[i]
  OBVIOUS
<1> HIDE DEF new
<1>2. EntriesIn(new) \subseteq EntriesIn(rows) \cup {r.entry_hash}
  BY <1>1 DEF EntriesIn
<1>3. EntriesIn(rows) \cup {r.entry_hash} \subseteq EntriesIn(new)
  BY <1>1 DEF EntriesIn
<1> QED
  BY <1>2, <1>3 DEF new

\* The entries of a committed chain followed by rows of a session.
LEMMA EntriesInConcat ==
  ASSUME NEW a \in Seq(ChainRow), NEW b \in Seq(ChainRow)
  PROVE  EntriesIn(a \o b) = EntriesIn(a) \cup EntriesIn(b)
<1> DEFINE new == a \o b
<1>1. /\ Len(new) = Len(a) + Len(b) /\ Len(a) \in Nat /\ Len(b) \in Nat
      /\ \A i \in 1..(Len(a) + Len(b)) :
           new[i] = IF i <= Len(a) THEN a[i] ELSE b[i - Len(a)]
  BY ConcatProperties
<1> HIDE DEF new
<1>2. EntriesIn(new) \subseteq EntriesIn(a) \cup EntriesIn(b)
  <2> SUFFICES ASSUME NEW i \in 1..(Len(a) + Len(b))
               PROVE  new[i].entry_hash \in EntriesIn(a) \cup EntriesIn(b)
    BY <1>1 DEF EntriesIn
  <2>1. CASE i <= Len(a)
    BY <1>1, <2>1 DEF EntriesIn
  <2>2. CASE ~ i <= Len(a)
    <3>1. i - Len(a) \in 1..Len(b) /\ new[i] = b[i - Len(a)]
      BY <1>1, <2>2
    <3> QED
      BY <3>1 DEF EntriesIn
  <2> QED
    BY <2>1, <2>2
<1>3. EntriesIn(a) \subseteq EntriesIn(new)
  BY <1>1 DEF EntriesIn
<1>4. EntriesIn(b) \subseteq EntriesIn(new)
  <2> SUFFICES ASSUME NEW i \in 1..Len(b)
               PROVE  b[i].entry_hash \in EntriesIn(new)
    BY DEF EntriesIn
  <2>1. /\ Len(a) + i \in 1..(Len(a) + Len(b)) /\ ~ Len(a) + i <= Len(a)
        /\ (Len(a) + i) - Len(a) = i
    BY <1>1
  <2>2. new[Len(a) + i] = b[i]
    BY <1>1, <2>1
  <2> QED
    BY <1>1, <2>1, <2>2 DEF EntriesIn
<1> QED
  BY <1>2, <1>3, <1>4 DEF new
-----------------------------------------------------------------------------
(* The steps of the sessions.                                              *)

\* uuid4 gives an id that no table and no session has.
LEMMA NewEntryFresh ==
  ASSUME IdsLeft, NEW s \in Scopes, NEW b \in Bodies
  PROVE  /\ NewEntry(s, b) \in Entry
         /\ NewEntry(s, b).id \notin Ids(audit_entries)
         /\ \A c \in Conns : NewEntry(s, b).id \notin Own(c)
<1>1. PICK k \in EntryIds : k \notin UsedIds
  BY DEF IdsLeft
<1>2. /\ NewEntry(s, b).id \in EntryIds \ UsedIds
      /\ NewEntry(s, b) \in Entry
  BY <1>1 DEF NewEntry, Entry
<1> DEFINE id == NewEntry(s, b).id
<1>3. id \notin Ids(audit_entries)
  BY <1>2 DEF UsedIds, Ids
<1>4. ASSUME NEW c \in Conns PROVE id \notin Own(c)
  <2>1. id \notin {e.id : e \in inserted[c]}
    BY <1>2 DEF UsedIds
  <2>2. id \notin SeqIds(staged[c]) \cup SeqIds(aside[c])
    BY <1>2 DEF UsedIds
  <2> QED
    BY <2>1, <2>2 DEF Own, Ids
<1> QED
  BY <1>2, <1>3, <1>4

\* What a session sees of a scope in which it has appended nothing.
LEMMA VisibleEmpty ==
  ASSUME TypeOK, NEW c \in Conns, NEW s \in Scopes, appended[c][s] = << >>
  PROVE  Visible(c, s) = audit_chain[s]
<1>1. audit_chain[s] \in Seq(ChainRow)
  BY DEF TypeOK
<1> QED
  BY <1>1, ConcatEmptySeq DEF Visible

\* What a session sees of a scope is a sequence of chain rows.
LEMMA VisibleType ==
  ASSUME TypeOK, NEW c \in Conns, NEW s \in Scopes
  PROVE  /\ Visible(c, s) \in Seq(ChainRow)
         /\ audit_chain[s] \in Seq(ChainRow)
         /\ appended[c][s] \in Seq(ChainRow)
<1>1. audit_chain[s] \in Seq(ChainRow) /\ appended[c][s] \in Seq(ChainRow)
  BY DEF TypeOK
<1> QED
  BY <1>1, ConcatProperties DEF Visible

\* The ids of the chained rows that a session sees are those of committed
\* entries and of its own inserted ones.
LEMMA VisibleIds ==
  ASSUME IInv, NEW c \in Conns, NEW s \in Scopes, NEW id,
         id \notin Ids(audit_entries), id \notin Ids(inserted[c])
  PROVE  /\ \A i \in 1..Len(Visible(c, s)) : Visible(c, s)[i].audit_entry_id # id
         /\ \A i \in 1..Len(audit_chain[s]) : audit_chain[s][i].audit_entry_id # id
<1>1. /\ EntriesIn(audit_chain[s]) \subseteq audit_entries
      /\ EntriesIn(appended[c][s]) \subseteq inserted[c]
  BY DEF IInv, Entries, EntriesOf
<1>2. EntriesIn(Visible(c, s)) \subseteq audit_entries \cup inserted[c]
  BY <1>1, VisibleType, EntriesInConcat DEF Visible, IInv
<1>3. \A i \in 1..Len(Visible(c, s)) :
        /\ Visible(c, s)[i].entry_hash \in audit_entries \cup inserted[c]
        /\ Visible(c, s)[i].entry_hash.id = Visible(c, s)[i].audit_entry_id
  BY <1>2 DEF EntriesIn, IInv, Chains, GoodRows, GoodRow
<1>4. \A i \in 1..Len(audit_chain[s]) :
        /\ audit_chain[s][i].entry_hash \in audit_entries
        /\ audit_chain[s][i].entry_hash.id = audit_chain[s][i].audit_entry_id
  BY <1>1 DEF EntriesIn, IInv, Chains, GoodRows, GoodRow
<1> QED
  BY <1>3, <1>4 DEF Ids

\* audit.log preserves the invariant.
LEMMA LogStep ==
  ASSUME IInv, NEW c \in Conns, NEW s \in Scopes, NEW b \in Bodies, Log(c, s, b)
  PROVE  IInv'
<1> DEFINE e == NewEntry(s, b)
<1>1. /\ e \in Entry
      /\ e.id \notin Ids(audit_entries)
      /\ \A d \in Conns : e.id \notin Own(d)
  BY NewEntryFresh DEF Log
<1>2. /\ staged[c] \in Seq(Entry) /\ staged'[c] = Append(staged[c], e)
      /\ \A d \in Conns \ {c} : staged'[d] = staged[d]
  BY DEF Log, IInv, TypeOK
<1> HIDE DEF e
<1>3. TypeOK'
  BY <1>1 DEF Log, IInv, TypeOK, e
<1>4. Aside' /\ Locks' /\ Chains' /\ Entries'
  BY DEF Log, IInv, Aside, Locks, Chains, Entries, Visible
<1>5. /\ SeqIds(staged'[c]) = SeqIds(staged[c]) \cup {e.id}
      /\ DistinctIds(staged'[c])
  BY <1>1, <1>2, SeqIdsAppend, DistinctAppend DEF IInv, FreshIds, Mine, Own
<1>6. /\ Own(c)' = Own(c) \cup {e.id}
      /\ \A d \in Conns \ {c} : Own(d)' = Own(d)
  BY <1>2, <1>5 DEF Log, Own
<1>7. FreshIds'
  <2>1. ASSUME NEW d \in Conns PROVE Mine(d)'
    <3>1. CASE d = c
      BY <1>1, <1>5, <3>1 DEF Log, IInv, FreshIds, Mine, Own
    <3>2. CASE d # c
      BY <1>2, <3>2 DEF Log, IInv, FreshIds, Mine
    <3> QED
      BY <3>1, <3>2
  <2>2. Apart'
    BY <1>1, <1>6 DEF Log, IInv, FreshIds, Apart
  <2> QED
    BY <2>1, <2>2 DEF Log, IInv, FreshIds
<1> QED
  BY <1>3, <1>4, <1>7 DEF IInv

\* Starting an out-of-band write preserves the invariant.
LEMMA AuditFailureStep ==
  ASSUME IInv, NEW c \in Conns, NEW s \in Scopes, NEW b \in Bodies,
         AuditFailure(c, s, b)
  PROVE  IInv'
<1> DEFINE e == NewEntry(s, b)
<1>1. /\ e \in Entry
      /\ e.id \notin Ids(audit_entries)
      /\ \A d \in Conns : e.id \notin Own(d)
  BY NewEntryFresh DEF AuditFailure
<1>2. /\ aside'[c] = << e >>
      /\ \A d \in Conns \ {c} : aside'[d] = aside[d] /\ mode'[d] = mode[d]
      /\ mode'[c] = "oob"
  BY DEF AuditFailure, IInv, TypeOK
<1>3. SeqIds(aside'[c]) = {e.id}
  BY <1>2 DEF SeqIds
<1>4. TypeOK'
  <2>1. aside' \in [Conns -> Seq(Entry)]
    BY <1>1 DEF AuditFailure, IInv, TypeOK
  <2> QED
    BY <2>1 DEF AuditFailure, IInv, TypeOK, Modes
<1> HIDE DEF e
<1>5. Aside'
  <2>1. Len(aside'[c]) = 1
    BY <1>2
  <2> QED
    BY <1>2, <2>1 DEF IInv, Aside
<1>6. Locks' /\ Chains' /\ Entries'
  BY DEF AuditFailure, IInv, Locks, Chains, Entries, Visible
<1>7. /\ Own(c)' \subseteq Own(c) \cup {e.id}
      /\ \A d \in Conns \ {c} : Own(d)' = Own(d)
  BY <1>2, <1>3 DEF AuditFailure, Own
<1>8. FreshIds'
  <2>1. ASSUME NEW d \in Conns PROVE Mine(d)'
    <3>1. CASE d = c
      BY <1>1, <1>3, <3>1 DEF AuditFailure, IInv, FreshIds, Mine, Own
    <3>2. CASE d # c
      BY <1>2, <3>2 DEF AuditFailure, IInv, FreshIds, Mine
    <3> QED
      BY <3>1, <3>2
  <2>2. Apart'
    BY <1>1, <1>7 DEF AuditFailure, IInv, FreshIds, Apart
  <2> QED
    BY <2>1, <2>2 DEF AuditFailure, IInv, FreshIds
<1> QED
  BY <1>4, <1>5, <1>6, <1>8 DEF IInv

\* Starting a flush or a commit preserves the invariant.
LEMMA BeginStep ==
  ASSUME IInv, NEW c \in Conns, AutoFlush(c) \/ BeginCommit(c)
  PROVE  IInv'
<1>1. /\ mode[c] = "ready" /\ mode' \in [Conns -> Modes] /\ mode'[c] # "oob"
      /\ \A d \in Conns \ {c} : mode'[d] = mode[d]
      /\ UNCHANGED <<audit_entries, audit_chain, staged, inserted, appended,
                     aside, holder>>
  BY DEF AutoFlush, BeginCommit, IInv, TypeOK, Modes
<1>2. TypeOK'
  BY <1>1 DEF IInv, TypeOK
<1>3. Aside'
  BY <1>1 DEF IInv, Aside
<1>4. Locks' /\ Chains' /\ Entries' /\ FreshIds'
  BY <1>1 DEF IInv, Locks, Chains, Entries, FreshIds, Mine, Apart, Own, Visible
<1> QED
  BY <1>2, <1>3, <1>4 DEF IInv

\* An INSERT with its trigger preserves the invariant.
LEMMA InsertStep ==
  ASSUME IInv, NEW c \in Conns, Insert(c)
  PROVE  IInv'
<1>1. /\ staged[c] \in Seq(Entry) /\ staged[c] # << >>
      /\ DistinctIds(staged[c])
  BY DEF Insert, IInv, TypeOK, FreshIds, Mine
<1>e. PICK e \in Entry : e = Head(staged[c])
  BY <1>1, HeadAndTail
<1>s. PICK s \in Scopes : s = e.scope
  BY DEF Entry
<1>r. PICK r \in ChainRow : r = NextRow(s, e, Visible(c, s))
  BY VisibleType, NextRowType DEF IInv
<1>2. /\ e \in Entry /\ s \in Scopes
      /\ Tail(staged[c]) \in Seq(Entry)
      /\ e.id \in SeqIds(staged[c])
      /\ SeqIds(Tail(staged[c])) = SeqIds(staged[c]) \ {e.id}
      /\ DistinctIds(Tail(staged[c]))
  BY <1>1, <1>e, HeadAndTail
<1>3. /\ Visible(c, s) \in Seq(ChainRow) /\ audit_chain[s] \in Seq(ChainRow)
      /\ appended[c][s] \in Seq(ChainRow)
  BY VisibleType DEF IInv
<1>4. /\ LockAvailable(c, s)
      /\ holder' = [holder EXCEPT ![s] = c]
      /\ inserted' = [inserted EXCEPT ![c] = @ \cup {e}]
      /\ appended' = [appended EXCEPT ![c][s] = Append(@, r)]
      /\ staged' = [staged EXCEPT ![c] = Tail(@)]
      /\ mode[c] \in {"flush", "commit"}
      /\ mode' = [mode EXCEPT ![c] = IF @ = "flush" /\ Tail(staged[c]) = << >>
                                     THEN "ready" ELSE @]
      /\ UNCHANGED <<audit_entries, audit_chain, aside>>
  BY <1>e, <1>s, <1>r DEF Insert
<1>5. r.entry_hash = e /\ r.audit_entry_id = e.id
  BY <1>r DEF NextRow, EntryHash
<1>6. TypeOK'
  <2>1. Append(appended[c][s], r) \in Seq(ChainRow)
    BY <1>3
  <2>2. appended' \in [Conns -> [Scopes -> Seq(ChainRow)]]
    BY <1>2, <1>4, <2>1 DEF IInv, TypeOK
  <2>3. mode' \in [Conns -> Modes]
    BY <1>4 DEF IInv, TypeOK, Modes
  <2> QED
    BY <1>2, <1>4, <2>2, <2>3 DEF IInv, TypeOK
<1>7. /\ appended'[c][s] = Append(appended[c][s], r)
      /\ \A d \in Conns, t \in Scopes :
           d # c \/ t # s => appended'[d][t] = appended[d][t]
      /\ holder'[s] = c
      /\ \A t \in Scopes \ {s} : holder'[t] = holder[t]
      /\ inserted'[c] = inserted[c] \cup {e}
      /\ staged'[c] = Tail(staged[c])
      /\ \A d \in Conns \ {c} : /\ inserted'[d] = inserted[d]
                               /\ staged'[d] = staged[d]
                               /\ mode'[d] = mode[d]
      /\ mode'[c] # "oob" /\ mode[c] # "oob"
  BY <1>2, <1>4 DEF IInv, TypeOK
<1>8. Aside'
  BY <1>4, <1>7 DEF IInv, Aside
<1>9. Locks'
  <2> SUFFICES ASSUME NEW d \in Conns, NEW t \in Scopes, appended'[d][t] # << >>
               PROVE  holder'[t] = d
    BY DEF Locks
  <2>1. CASE t = s /\ d = c
    BY <1>7, <2>1
  <2>2. CASE t = s /\ d # c
    BY <1>4, <1>7, <2>2, ConnAssumption DEF LockAvailable, IInv, Locks
  <2>3. CASE t # s
    BY <1>7, <2>3 DEF IInv, Locks
  <2> QED
    BY <2>1, <2>2, <2>3
<1>10. Chains'
  <2>1. Visible(c, s)' = Append(Visible(c, s), r)
    <3>1. audit_chain[s] \o Append(appended[c][s], r)
            = Append(audit_chain[s] \o appended[c][s], r)
      BY <1>3, ConcatAppend
    <3>2. audit_chain'[s] = audit_chain[s]
      BY <1>4
    <3> QED
      BY <1>7, <3>1, <3>2, Zenon DEF Visible
  <2>2. e.id \notin Ids(audit_entries) /\ e.id \notin Ids(inserted[c])
    BY <1>2 DEF IInv, FreshIds, Mine, Apart, Own
  <2>3. \A i \in 1..Len(Visible(c, s)) : Visible(c, s)[i].audit_entry_id # e.id
    BY <1>2, <2>2, VisibleIds
  <2>4. GoodRows(s, Visible(c, s))
    BY <1>2 DEF IInv, Chains
  <2>5. GoodRows(s, Append(Visible(c, s), r))
    BY <1>s, <1>r, <1>3, <2>3, <2>4, AppendGood
  <2>6. ASSUME NEW d \in Conns, NEW t \in Scopes, d # c \/ t # s
        PROVE  Visible(d, t)' = Visible(d, t)
    BY <1>4, <1>7, <2>6 DEF Visible
  <2>7. ASSUME NEW d \in Conns, NEW t \in Scopes
        PROVE  GoodRows(t, Visible(d, t)')
    BY <2>1, <2>5, <2>6 DEF IInv, Chains
  <2>8. ASSUME NEW t \in Scopes PROVE GoodRows(t, audit_chain'[t])
    BY <1>4 DEF IInv, Chains
  <2> QED
    BY <2>7, <2>8 DEF Chains
<1>11. Entries'
  <2>1. EntriesIn(appended'[c][s]) = EntriesIn(appended[c][s]) \cup {e}
    BY <1>3, <1>5, <1>7, EntriesInAppend
  <2>2. ASSUME NEW t \in Scopes
        PROVE  EntriesOf(t, inserted'[c]) = EntriesIn(appended'[c][t])
    <3>1. EntriesOf(t, inserted[c]) = EntriesIn(appended[c][t])
      BY DEF IInv, Entries
    <3>2. CASE t = s
      BY <1>s, <1>7, <2>1, <3>1, <3>2 DEF EntriesOf
    <3>3. CASE t # s
      BY <1>s, <1>7, <3>1, <3>3 DEF EntriesOf
    <3> QED
      BY <3>2, <3>3
  <2>3. ASSUME NEW t \in Scopes, NEW d \in Conns
        PROVE  EntriesOf(t, inserted'[d]) = EntriesIn(appended'[d][t])
    <3>1. CASE d = c
      BY <2>2, <3>1
    <3>2. CASE d # c
      BY <1>7, <3>2 DEF IInv, Entries
    <3> QED
      BY <3>1, <3>2
  <2> QED
    BY <1>4, <2>3 DEF IInv, Entries
<1>12. FreshIds'
  <2>1. Ids(inserted'[c]) = Ids(inserted[c]) \cup {e.id}
    BY <1>7 DEF Ids
  <2>2. /\ Own(c)' \subseteq Own(c)
        /\ \A d \in Conns \ {c} : Own(d)' = Own(d)
    BY <1>2, <1>4, <1>7, <2>1 DEF Own
  <2>3. UniqueIds(inserted'[c])
    <3>1. e.id \notin Ids(inserted[c])
      BY <1>2 DEF IInv, FreshIds, Mine
    <3> QED
      BY <1>7, <3>1 DEF IInv, FreshIds, Mine, UniqueIds, Ids
  <2>4. ASSUME NEW d \in Conns PROVE Mine(d)'
    <3>1. CASE d = c
      <4>1. Mine(c)
        BY DEF IInv, FreshIds
      <4>2. /\ Ids(inserted'[c]) \cap SeqIds(staged'[c]) = {}
            /\ SeqIds(staged'[c]) \cap SeqIds(aside'[c]) = {}
            /\ DistinctIds(staged'[c])
        BY <1>2, <1>4, <1>7, <2>1, <4>1 DEF Mine
      <4>3. Ids(inserted'[c]) \cap SeqIds(aside'[c]) = {}
        BY <1>2, <1>4, <1>7, <2>1, <4>1 DEF Mine
      <4> QED
        BY <2>3, <3>1, <4>2, <4>3 DEF Mine
    <3>2. CASE d # c
      BY <1>4, <1>7, <3>2 DEF IInv, FreshIds, Mine
    <3> QED
      BY <3>1, <3>2
  <2>5. Apart'
    BY <1>4, <2>2 DEF IInv, FreshIds, Apart
  <2> QED
    BY <1>4, <2>4, <2>5 DEF IInv, FreshIds
<1> QED
  BY <1>6, <1>8, <1>9, <1>10, <1>11, <1>12 DEF IInv

\* What the end of a transaction does to the sessions, whether it commits or
\* not.
LEMMA EndLocal ==
  ASSUME IInv, NEW c \in Conns, EndTransaction(c)
  PROVE  /\ mode' \in [Conns -> Modes]
         /\ staged' \in [Conns -> Seq(Entry)]
         /\ inserted' \in [Conns -> SUBSET Entry]
         /\ appended' \in [Conns -> [Scopes -> Seq(ChainRow)]]
         /\ aside' \in [Conns -> Seq(Entry)]
         /\ holder' \in [Scopes -> Conns \cup {NoConn}]
         /\ inserted'[c] = {}
         /\ \A s \in Scopes : appended'[c][s] = << >>
         /\ \A d \in Conns \ {c} : /\ inserted'[d] = inserted[d]
                                  /\ appended'[d] = appended[d]
         /\ Aside' /\ Locks'
         /\ \A d \in Conns : Mine(d)'
         /\ Own(c)' = {}
         /\ \A d \in Conns \ {c} : Own(d)' = Own(d)
<1>1. TypeOK
  BY DEF IInv
<1>2. /\ << >> \in Seq(Entry) /\ NoRows \in [Scopes -> Seq(ChainRow)]
      /\ \A s \in Scopes : NoRows[s] = << >>
  BY DEF NoRows
<1>3. /\ mode' \in [Conns -> Modes]
      /\ staged' \in [Conns -> Seq(Entry)]
      /\ inserted' \in [Conns -> SUBSET Entry]
      /\ appended' \in [Conns -> [Scopes -> Seq(ChainRow)]]
      /\ aside' \in [Conns -> Seq(Entry)]
  BY <1>1, <1>2 DEF TypeOK, EndTransaction, Modes
<1>4. holder' \in [Scopes -> Conns \cup {NoConn}]
  BY <1>1 DEF TypeOK, EndTransaction
<1>5. /\ mode'[c] = "ready" /\ staged'[c] = << >> /\ inserted'[c] = {}
      /\ aside'[c] = << >>
      /\ \A s \in Scopes : appended'[c][s] = << >>
      /\ \A d \in Conns \ {c} :
           /\ mode'[d] = mode[d] /\ staged'[d] = staged[d]
           /\ inserted'[d] = inserted[d] /\ appended'[d] = appended[d]
           /\ aside'[d] = aside[d]
      /\ \A s \in Scopes : holder'[s] = IF holder[s] = c THEN NoConn ELSE holder[s]
  BY <1>1, <1>2 DEF TypeOK, EndTransaction
<1>6. Aside'
  BY <1>5 DEF IInv, Aside
<1>7. Locks'
  BY <1>5 DEF IInv, Locks
<1>8. Ids({}) = {} /\ SeqIds(<< >>) = {} /\ UniqueIds({}) /\ DistinctIds(<< >>)
  BY DEF Ids, SeqIds, UniqueIds, DistinctIds
<1>9. ASSUME NEW d \in Conns PROVE Mine(d)'
  <2>1. CASE d = c
    BY <1>5, <1>8, <2>1 DEF Mine
  <2>2. CASE d # c
    BY <1>5, <2>2 DEF IInv, FreshIds, Mine
  <2> QED
    BY <2>1, <2>2
<1>10. Own(c)' = {} /\ \A d \in Conns \ {c} : Own(d)' = Own(d)
  BY <1>5, <1>8 DEF Own
<1> QED
  BY <1>3, <1>4, <1>5, <1>6, <1>7, <1>9, <1>10

\* A rollback, or a deadlock victim, preserves the invariant.
LEMMA AbortStep ==
  ASSUME IInv, NEW c \in Conns, EndTransaction(c),
         UNCHANGED <<audit_entries, audit_chain>>
  PROVE  IInv'
<1>1. TypeOK'
  BY EndLocal DEF IInv, TypeOK
<1>2. Chains'
  <2>1. ASSUME NEW s \in Scopes, NEW d \in Conns PROVE GoodRows(s, Visible(d, s)')
    <3>1. CASE d = c
      <4>1. Visible(c, s)' = audit_chain'[s]
        BY <1>1, EndLocal, VisibleType, ConcatEmptySeq DEF Visible, TypeOK
      <4> QED
        BY <3>1, <4>1 DEF IInv, Chains
    <3>2. CASE d # c
      BY <3>2, EndLocal DEF IInv, Chains, Visible
    <3> QED
      BY <3>1, <3>2
  <2> QED
    BY <2>1 DEF IInv, Chains
<1>3. Entries'
  <2>1. ASSUME NEW s \in Scopes, NEW d \in Conns
        PROVE  EntriesOf(s, inserted'[d]) = EntriesIn(appended'[d][s])
    <3>1. CASE d = c
      BY <3>1, EndLocal DEF EntriesOf, EntriesIn
    <3>2. CASE d # c
      BY <3>2, EndLocal DEF IInv, Entries
    <3> QED
      BY <3>1, <3>2
  <2> QED
    BY <2>1 DEF IInv, Entries
<1>4. FreshIds'
  <2>1. Apart'
    BY EndLocal DEF IInv, FreshIds, Apart
  <2> QED
    BY <2>1, EndLocal DEF IInv, FreshIds
<1> QED
  BY <1>1, <1>2, <1>3, <1>4, EndLocal DEF IInv

\* A commit preserves the invariant.
LEMMA CommitStep ==
  ASSUME IInv, NEW c \in Conns, Commit(c)
  PROVE  IInv'
<1>1. /\ EndTransaction(c)
      /\ audit_entries' = audit_entries \cup inserted[c]
      /\ \A s \in Scopes : audit_chain'[s] = Visible(c, s)
      /\ DOMAIN audit_chain' = Scopes
      /\ audit_chain' = [s \in Scopes |-> Visible(c, s)]
  BY DEF Commit
<1>2. TypeOK'
  <2>1. audit_chain' \in [Scopes -> Seq(ChainRow)]
    BY <1>1, VisibleType DEF IInv
  <2>2. audit_entries' \subseteq Entry
    BY <1>1 DEF IInv, TypeOK
  <2> QED
    BY <1>1, <2>1, <2>2, EndLocal DEF TypeOK
<1>3. ASSUME NEW s \in Scopes, NEW d \in Conns PROVE GoodRows(s, Visible(d, s)')
  <2>1. CASE appended'[d][s] = << >>
    <3>1. Visible(d, s)' = audit_chain'[s]
      BY <1>2, <2>1, ConcatEmptySeq DEF Visible, TypeOK
    <3> QED
      BY <1>1, <3>1 DEF IInv, Chains
  <2>2. CASE appended'[d][s] # << >>
    <3>1. d # c /\ appended'[d][s] = appended[d][s]
      BY <1>1, <2>2, EndLocal
    <3>2. appended[c][s] = << >>
      BY <2>2, <3>1 DEF IInv, Locks
    <3>3. audit_chain'[s] = audit_chain[s]
      BY <1>1, <3>2, VisibleEmpty DEF IInv
    <3> QED
      BY <3>1, <3>3 DEF IInv, Chains, Visible
  <2> QED
    BY <2>1, <2>2
<1>4. Chains'
  BY <1>1, <1>3 DEF IInv, Chains
<1>5. Entries'
  <2>1. ASSUME NEW s \in Scopes
        PROVE  EntriesOf(s, audit_entries') = EntriesIn(audit_chain'[s])
    <3>1. EntriesIn(Visible(c, s))
            = EntriesIn(audit_chain[s]) \cup EntriesIn(appended[c][s])
      BY VisibleType, EntriesInConcat DEF IInv, Visible
    <3>2. /\ EntriesOf(s, audit_entries) = EntriesIn(audit_chain[s])
          /\ EntriesOf(s, inserted[c]) = EntriesIn(appended[c][s])
      BY DEF IInv, Entries
    <3>3. EntriesOf(s, audit_entries \cup inserted[c])
            = EntriesOf(s, audit_entries) \cup EntriesOf(s, inserted[c])
      BY DEF EntriesOf
    <3> QED
      BY <1>1, <3>1, <3>2, <3>3
  <2>2. ASSUME NEW s \in Scopes, NEW d \in Conns
        PROVE  EntriesOf(s, inserted'[d]) = EntriesIn(appended'[d][s])
    <3>1. CASE d = c
      BY <1>1, <3>1, EndLocal DEF EntriesOf, EntriesIn
    <3>2. CASE d # c
      BY <1>1, <3>2, EndLocal DEF IInv, Entries
    <3> QED
      BY <3>1, <3>2
  <2> QED
    BY <2>1, <2>2 DEF Entries
<1>6. FreshIds'
  <2>1. Ids(audit_entries') = Ids(audit_entries) \cup Ids(inserted[c])
    BY <1>1 DEF Ids
  <2>2. Ids(inserted[c]) \subseteq Own(c)
    BY DEF Own
  <2>3. Apart'
    <3>1. Apart
      BY DEF IInv, FreshIds
    <3>2. Own(c)' = {} /\ \A d \in Conns \ {c} : Own(d)' = Own(d)
      BY <1>1, EndLocal
    <3>3. ASSUME NEW d \in Conns PROVE Ids(audit_entries') \cap Own(d)' = {}
      BY <2>1, <2>2, <3>1, <3>2 DEF Apart
    <3>4. ASSUME NEW d \in Conns, NEW k \in Conns \ {d}
          PROVE  Own(d)' \cap Own(k)' = {}
      BY <3>1, <3>2 DEF Apart
    <3> QED
      BY <3>3, <3>4 DEF Apart
  <2>4. UniqueIds(audit_entries')
    <3>1. UniqueIds(audit_entries) /\ UniqueIds(inserted[c])
      BY DEF IInv, FreshIds, Mine
    <3>2. Ids(audit_entries) \cap Ids(inserted[c]) = {}
      BY <2>2 DEF IInv, FreshIds, Apart
    <3> QED
      BY <1>1, <3>1, <3>2 DEF UniqueIds, Ids
  <2> QED
    BY <1>1, <2>3, <2>4, EndLocal DEF FreshIds
<1> QED
  BY <1>1, <1>2, <1>4, <1>5, <1>6, EndLocal DEF IInv

\* The commit of an out-of-band row preserves the invariant.
LEMMA AuditFailureCommitStep ==
  ASSUME IInv, NEW c \in Conns, AuditFailureCommit(c)
  PROVE  IInv'
<1>1. /\ mode[c] = "oob" /\ aside[c] \in Seq(Entry) /\ Len(aside[c]) = 1
  BY DEF AuditFailureCommit, IInv, TypeOK, Aside
<1>2. /\ aside[c] # << >> /\ Head(aside[c]) = aside[c][1]
      /\ DOMAIN aside[c] = {1} /\ Head(aside[c]) \in Entry
  BY <1>1
<1>e. PICK e \in Entry : e = Head(aside[c])
  BY <1>2
<1>s. PICK s \in Scopes : s = e.scope
  BY DEF Entry
<1>3. audit_chain[s] \in Seq(ChainRow)
  BY DEF IInv, TypeOK
<1>r. PICK r \in ChainRow : r = NextRow(s, e, audit_chain[s])
  BY <1>3, NextRowType
<1>4. r.entry_hash = e /\ r.audit_entry_id = e.id
  BY <1>r DEF NextRow, EntryHash
<1>5. /\ holder[s] = NoConn
      /\ audit_entries' = audit_entries \cup {e}
      /\ audit_chain' = [audit_chain EXCEPT ![s] = Append(@, r)]
      /\ mode' = [mode EXCEPT ![c] = "ready"]
      /\ aside' = [aside EXCEPT ![c] = << >>]
      /\ UNCHANGED <<staged, inserted, appended, holder>>
  BY <1>e, <1>s, <1>r DEF AuditFailureCommit
<1>6. /\ audit_chain'[s] = Append(audit_chain[s], r)
      /\ \A t \in Scopes \ {s} : audit_chain'[t] = audit_chain[t]
      /\ mode'[c] = "ready" /\ aside'[c] = << >>
      /\ \A d \in Conns \ {c} : mode'[d] = mode[d] /\ aside'[d] = aside[d]
  BY <1>5 DEF IInv, TypeOK
<1>7. TypeOK'
  <2>1. Append(audit_chain[s], r) \in Seq(ChainRow)
    BY <1>3
  <2>2. audit_chain' \in [Scopes -> Seq(ChainRow)]
    BY <1>5, <2>1 DEF IInv, TypeOK
  <2>3. mode' \in [Conns -> Modes] /\ aside' \in [Conns -> Seq(Entry)]
    BY <1>5 DEF IInv, TypeOK, Modes
  <2> QED
    BY <1>5, <2>2, <2>3 DEF IInv, TypeOK
<1>8. Aside'
  BY <1>6 DEF IInv, Aside
<1>9. Locks'
  BY <1>5 DEF IInv, Locks
<1>10. SeqIds(aside[c]) = {e.id}
  BY <1>2, <1>e DEF SeqIds
<1>11. /\ e.id \in Own(c) /\ e.id \notin Ids(audit_entries)
       /\ e.id \notin Ids(inserted[c]) /\ e.id \notin SeqIds(staged[c])
       /\ \A d \in Conns \ {c} : e.id \notin Own(d)
  <2>1. Mine(c) /\ Apart
    BY DEF IInv, FreshIds
  <2>2. e.id \in Own(c)
    BY <1>10 DEF Own
  <2>3. e.id \notin Ids(audit_entries) /\ \A d \in Conns \ {c} : e.id \notin Own(d)
    BY <2>1, <2>2 DEF Apart
  <2> QED
    BY <1>10, <2>1, <2>2, <2>3 DEF Mine
<1>12. Chains'
  <2>1. \A i \in 1..Len(audit_chain[s]) : audit_chain[s][i].audit_entry_id # e.id
    BY <1>11, VisibleIds
  <2>2. GoodRows(s, audit_chain'[s])
    BY <1>s, <1>r, <1>3, <1>6, <2>1, AppendGood DEF IInv, Chains
  <2>3. ASSUME NEW d \in Conns, NEW t \in Scopes PROVE GoodRows(t, Visible(d, t)')
    <3>1. CASE t = s
      <4>1. appended'[d][s] = << >>
        BY <1>5, ConnAssumption DEF IInv, Locks
      <4>2. Visible(d, s)' = audit_chain'[s]
        BY <1>7, <4>1, ConcatEmptySeq DEF Visible, TypeOK
      <4> QED
        BY <2>2, <3>1, <4>2
    <3>2. CASE t # s
      BY <1>5, <1>6, <3>2 DEF IInv, Chains, Visible
    <3> QED
      BY <3>1, <3>2
  <2>4. ASSUME NEW t \in Scopes PROVE GoodRows(t, audit_chain'[t])
    BY <1>6, <2>2 DEF IInv, Chains
  <2> QED
    BY <2>3, <2>4 DEF Chains
<1>13. Entries'
  <2>1. EntriesIn(audit_chain'[s]) = EntriesIn(audit_chain[s]) \cup {e}
    BY <1>3, <1>4, <1>6, EntriesInAppend
  <2>2. ASSUME NEW t \in Scopes
        PROVE  EntriesOf(t, audit_entries') = EntriesIn(audit_chain'[t])
    <3>1. EntriesOf(t, audit_entries) = EntriesIn(audit_chain[t])
      BY DEF IInv, Entries
    <3>2. CASE t = s
      BY <1>s, <1>5, <2>1, <3>1, <3>2 DEF EntriesOf
    <3>3. CASE t # s
      BY <1>s, <1>5, <1>6, <3>1, <3>3 DEF EntriesOf
    <3> QED
      BY <3>2, <3>3
  <2> QED
    BY <1>5, <2>2 DEF IInv, Entries
<1>14. FreshIds'
  <2>1. Ids(audit_entries') = Ids(audit_entries) \cup {e.id}
    BY <1>5 DEF Ids
  <2>2. SeqIds(aside'[c]) = {}
    BY <1>6 DEF SeqIds
  <2>3. /\ Own(c)' \subseteq Own(c) /\ e.id \notin Own(c)'
        /\ \A d \in Conns \ {c} : Own(d)' = Own(d)
    BY <1>5, <1>6, <1>11, <2>2 DEF Own
  <2>4. ASSUME NEW d \in Conns PROVE Mine(d)'
    <3>1. CASE d = c
      BY <1>5, <2>2, <3>1 DEF IInv, FreshIds, Mine
    <3>2. CASE d # c
      BY <1>5, <1>6, <3>2 DEF IInv, FreshIds, Mine
    <3> QED
      BY <3>1, <3>2
  <2>5. Apart'
    <3>1. Apart
      BY DEF IInv, FreshIds
    <3>2. ASSUME NEW d \in Conns PROVE Ids(audit_entries') \cap Own(d)' = {}
      BY <1>11, <2>1, <2>3, <3>1 DEF Apart
    <3>3. ASSUME NEW d \in Conns, NEW k \in Conns \ {d}
          PROVE  Own(d)' \cap Own(k)' = {}
      BY <2>3, <3>1 DEF Apart
    <3> QED
      BY <3>2, <3>3 DEF Apart
  <2>6. UniqueIds(audit_entries')
    BY <1>5, <1>11 DEF IInv, FreshIds, UniqueIds, Ids
  <2> QED
    BY <2>4, <2>5, <2>6 DEF FreshIds
<1> QED
  BY <1>7, <1>8, <1>9, <1>12, <1>13, <1>14 DEF IInv
-----------------------------------------------------------------------------
(* Invariance.                                                             *)

\* Empty tables satisfy the invariant.
LEMMA InitInv == Init => IInv
<1> SUFFICES ASSUME Init PROVE IInv
  OBVIOUS
<1>1. /\ << >> \in Seq(Entry) /\ NoRows \in [Scopes -> Seq(ChainRow)]
      /\ \A s \in Scopes : NoRows[s] = << >>
  BY DEF NoRows
<1>2. TypeOK
  BY <1>1 DEF Init, TypeOK, Modes
<1>3. Aside /\ Locks
  BY <1>1 DEF Init, Aside, Locks
<1>4. /\ \A s \in Scopes : GoodRows(s, << >>)
      /\ EntriesIn(<< >>) = {} /\ \A s \in Scopes : EntriesOf(s, {}) = {}
      /\ Ids({}) = {} /\ SeqIds(<< >>) = {} /\ UniqueIds({}) /\ DistinctIds(<< >>)
  BY DEF GoodRows, EntriesIn, EntriesOf, Ids, SeqIds, UniqueIds, DistinctIds
<1>5. \A c \in Conns, s \in Scopes :
        Visible(c, s) = << >> /\ audit_chain[s] = << >> /\ appended[c][s] = << >>
  BY <1>1, <1>2, VisibleEmpty DEF Init
<1>6. Chains
  BY <1>1, <1>4, <1>5 DEF Chains, Init
<1>7. Entries
  BY <1>1, <1>4, <1>5 DEF Entries, Init
<1>8. FreshIds
  <2>1. \A c \in Conns : /\ inserted[c] = {} /\ staged[c] = << >>
                          /\ aside[c] = << >> /\ Own(c) = {}
    BY <1>4 DEF Init, Own
  <2> QED
    BY <1>4, <2>1 DEF FreshIds, Mine, Apart, Init
<1> QED
  BY <1>2, <1>3, <1>6, <1>7, <1>8 DEF IInv

\* Every step preserves the invariant.
LEMMA StepInv == IInv /\ [Next]_vars => IInv'
<1> SUFFICES ASSUME IInv, [Next]_vars PROVE IInv'
  OBVIOUS
<1>1. CASE UNCHANGED vars
  BY <1>1 DEF vars, IInv, TypeOK, Aside, Locks, Chains, Entries, FreshIds, Mine,
              Apart, Own, Visible
<1>2. CASE Next
  <2>1. PICK c \in Conns :
          \/ \E s \in Scopes, b \in Bodies : Log(c, s, b) \/ AuditFailure(c, s, b)
          \/ AutoFlush(c)
          \/ BeginCommit(c)
          \/ Insert(c)
          \/ Commit(c)
          \/ Rollback(c)
          \/ DeadlockVictim(c)
          \/ AuditFailureCommit(c)
    BY <1>2 DEF Next
  <2>2. ASSUME NEW s \in Scopes, NEW b \in Bodies,
               Log(c, s, b) \/ AuditFailure(c, s, b)
        PROVE  IInv'
    BY <2>2, LogStep, AuditFailureStep
  <2>3. CASE AutoFlush(c) \/ BeginCommit(c)
    BY <2>3, BeginStep
  <2>4. CASE Insert(c)
    BY <2>4, InsertStep
  <2>5. CASE Commit(c)
    BY <2>5, CommitStep
  <2>6. CASE Rollback(c) \/ DeadlockVictim(c)
    BY <2>6, AbortStep DEF Rollback, DeadlockVictim
  <2>7. CASE AuditFailureCommit(c)
    BY <2>7, AuditFailureCommitStep
  <2> QED
    BY <2>1, <2>2, <2>3, <2>4, <2>5, <2>6, <2>7
<1> QED
  BY <1>1, <1>2

\* The invariant holds in every reachable state.
LEMMA Invariance == Spec => []IInv
  BY InitInv, StepInv, PTL DEF Spec

\* The tables, sessions and locks keep their types.
THEOREM TypeCorrect == Spec => []TypeOK
<1>1. IInv => TypeOK
  BY DEF IInv
<1> QED
  BY <1>1, Invariance, PTL

\* Rows of an open transaction are numbered after the committed ones, and
\* only the holder of the lock of a scope has any.
LEMMA SequencesDistinct == IInv => NoSequenceCollision
<1> SUFFICES ASSUME IInv, NEW s \in Scopes, NEW c \in Conns,
                    NEW i \in DOMAIN appended[c][s]
             PROVE  LET seq == appended[c][s][i].scope_sequence
                    IN  /\ \A j \in DOMAIN audit_chain[s] :
                             audit_chain[s][j].scope_sequence # seq
                        /\ \A d \in Conns \ {c} : \A j \in DOMAIN appended[d][s] :
                             appended[d][s][j].scope_sequence # seq
  BY DEF NoSequenceCollision
<1> DEFINE n == Len(audit_chain[s])
<1>1. /\ audit_chain[s] \in Seq(ChainRow) /\ appended[c][s] \in Seq(ChainRow)
      /\ n \in Nat /\ Len(appended[c][s]) \in Nat /\ i \in 1..Len(appended[c][s])
      /\ DOMAIN audit_chain[s] = 1..n
  BY VisibleType DEF IInv
<1>2. /\ Len(Visible(c, s)) = n + Len(appended[c][s])
      /\ Visible(c, s)[n + i] = appended[c][s][i]
      /\ n + i \in 1..Len(Visible(c, s))
  <2> DEFINE a == audit_chain[s]
             b == appended[c][s]
  <2>1. /\ Len(a \o b) = Len(a) + Len(b)
        /\ \A k \in 1..(Len(a) + Len(b)) :
             (a \o b)[k] = IF k <= Len(a) THEN a[k] ELSE b[k - Len(a)]
    BY <1>1, ConcatProperties
  <2> HIDE DEF n
  <2>2. n + i \in 1..(n + Len(b)) /\ ~ n + i <= n /\ (n + i) - n = i
    BY <1>1
  <2> QED
    BY <2>1, <2>2 DEF Visible, n
<1> HIDE DEF n
<1>3. appended[c][s][i].scope_sequence = n + i
  BY <1>2 DEF IInv, Chains, GoodRows, GoodRow
<1>4. \A j \in 1..n : audit_chain[s][j].scope_sequence = j
  BY DEF IInv, Chains, GoodRows, GoodRow, n
<1>5. \A j \in 1..n : audit_chain[s][j].scope_sequence # n + i
  BY <1>1, <1>4
<1>6. \A d \in Conns \ {c} : appended[d][s] = << >>
  BY <1>1 DEF IInv, Locks
<1> QED
  BY <1>1, <1>3, <1>5, <1>6

\* The unique indexes of audit_chain are never hit, for any number of
\* sessions and scopes: the advisory lock of the trigger is enough.
THEOREM SequencesUnique == Spec => []NoSequenceCollision
  BY SequencesDistinct, Invariance, PTL

\* What verify_audit_chain checks of a good chain and the entries it links.
Untampered(s, rows, entries) ==
  /\ rows \in Seq(ChainRow)
  /\ GoodRows(s, rows)
  /\ EntriesOf(s, entries) = EntriesIn(rows)
  /\ UniqueIds(entries)

\* The two counts of verify_audit_chain agree: rows and entries correspond one
\* to one.
LEMMA CountsAgree ==
  ASSUME NEW s, NEW rows, NEW entries, Untampered(s, rows, entries)
  PROVE  /\ IsFiniteSet(EntriesOf(s, entries))
         /\ Cardinality(EntriesOf(s, entries)) = Len(rows)
<1> DEFINE n == Len(rows)
           f == [i \in 1..n |-> rows[i].entry_hash]
<1>1. n \in Nat
  BY DEF Untampered
<1>2. EntriesOf(s, entries) = EntriesIn(rows)
  BY DEF Untampered
<1>3. \A i, j \in 1..n : f[i] = f[j] => i = j
  <2>1. ASSUME NEW i \in 1..n, NEW j \in 1..n, j < i PROVE f[i] # f[j]
    <3>1. GoodRow(s, rows, i) /\ GoodRow(s, rows, j)
      BY DEF Untampered, GoodRows
    <3>2. j \in 1..(i-1)
      BY <1>1, <2>1
    <3> QED
      BY <3>1, <3>2 DEF GoodRow
  <2> HIDE DEF f, n
  <2>2. \A i, j \in 1..n : i = j \/ i < j \/ j < i
    BY <1>1
  <2> QED
    BY <2>1, <2>2
<1>4. f \in Bijection(1..n, EntriesIn(rows))
  <2>1. f \in [1..n -> EntriesIn(rows)]
    BY DEF EntriesIn
  <2>2. \A e \in EntriesIn(rows) : \E i \in 1..n : f[i] = e
    BY DEF EntriesIn
  <2> HIDE DEF f, n
  <2>3. f \in Injection(1..n, EntriesIn(rows))
    BY <1>3, <2>1 DEF Injection, IsInjective
  <2>4. f \in Surjection(1..n, EntriesIn(rows))
    BY <2>1, <2>2 DEF Surjection
  <2> QED
    BY <2>3, <2>4 DEF Bijection
<1>5. IsFiniteSet(1..n) /\ Cardinality(1..n) = n
  <2> HIDE DEF n
  <2> QED
    BY <1>1, FS_Interval
<1>6. ExistsBijection(1..n, EntriesIn(rows))
  BY <1>4 DEF ExistsBijection
<1> QED
  BY <1>2, <1>5, <1>6, FS_Bijection

\* None of the row checks of verify_audit_chain fires.
LEMMA RowsClean ==
  ASSUME NEW s, NEW rows, NEW entries, Untampered(s, rows, entries),
         NEW i \in DOMAIN rows
  PROVE  RowIssues(s, rows, entries, i) = {}
<1> DEFINE r == rows[i]
           J == Joined(entries, r.audit_entry_id)
<1>1. i \in 1..Len(rows) /\ rows \in Seq(ChainRow) /\ DOMAIN rows = 1..Len(rows)
  BY DEF Untampered
<1>2. GoodRow(s, rows, i)
  BY <1>1 DEF Untampered, GoodRows
<1>3. r.entry_hash \in entries
  BY <1>1 DEF Untampered, EntriesIn, EntriesOf
<1>4. J = {r.entry_hash}
  BY <1>2, <1>3 DEF Joined, GoodRow, Untampered, UniqueIds
<1>5. r.scope_sequence = ExpectedSequence(rows, i)
  <2>1. CASE i = 1
    BY <1>2, <2>1 DEF GoodRow, ExpectedSequence
  <2>2. CASE i # 1
    <3>1. i-1 \in 1..Len(rows)
      BY <1>1, <2>2
    <3>2. rows[i-1].scope_sequence = i-1
      BY <3>1 DEF Untampered, GoodRows, GoodRow
    <3> QED
      BY <1>1, <1>2, <2>2, <3>2 DEF GoodRow, ExpectedSequence
  <2> QED
    BY <2>1, <2>2
<1>6. /\ r.previous_chain_hash = PreviousHash(rows, i)
      /\ r.chain_hash = RecomputedChainHash(s, r)
      /\ r.entry_hash.scope = s
  BY <1>2 DEF GoodRow
<1>7. /\ J # {}
      /\ ~ \E e \in J : e.scope # s
      /\ ~ \E e \in J : r.entry_hash # EntryHash(e)
  BY <1>4, <1>6 DEF EntryHash
<1> QED
  BY <1>5, <1>6, <1>7, Zenon DEF RowIssues

\* A good chain and its entries verify.
LEMMA Passes ==
  ASSUME NEW s, NEW rows, NEW entries, Untampered(s, rows, entries)
  PROVE  SnapshotIssues(s, rows, entries) = {}
  BY CountsAgree, RowsClean DEF SnapshotIssues, VerifyIssues

\* The tables are as the triggers left them.
LEMMA TablesUntampered ==
  ASSUME IInv, NEW s \in Scopes
  PROVE  Untampered(s, audit_chain[s], audit_entries)
<1>1. audit_chain[s] \in Seq(ChainRow)
  BY DEF IInv, TypeOK
<1> QED
  BY <1>1 DEF IInv, Chains, Entries, FreshIds, Untampered

\* A committed state verifies.
LEMMA SnapshotClean == IInv => ChainIntact
<1> SUFFICES ASSUME IInv, NEW s \in Scopes
             PROVE  SnapshotIssues(s, audit_chain[s], audit_entries) = {}
  BY DEF ChainIntact
<1> QED
  BY TablesUntampered, Passes

\* verify_audit_chain over any committed state finds no issue, for any number
\* of sessions, scopes and rows: none of its seven checks can raise a false
\* alarm on a snapshot.
THEOREM ChainVerifies == Spec => []ChainIntact
  BY SnapshotClean, Invariance, PTL
=============================================================================
