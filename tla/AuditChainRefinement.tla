------------------------ MODULE AuditChainRefinement ------------------------
(***************************************************************************)
(* The tables, sessions and locks of AuditChain implement the append-only  *)
(* log of AuditLog, for any number of sessions, scopes and rows.           *)
(*                                                                         *)
(* Flushes are invisible: they move a row from the staged to the inserted  *)
(* rows of its session.  A commit extends every chain by the rows of the   *)
(* session, because those are exactly the rows it appended under its locks *)
(* (Entries, Locks).  An entry logged is fresh because no table and no     *)
(* session has its id (FreshIds).                                          *)
(***************************************************************************)
EXTENDS AuditChainProofs

AbsLog  == [s \in Scopes |-> ChainedEntries(s)]
AbsPend == [c \in Conns |-> EntriesLogged(c)]
AbsSide == [c \in Conns |-> {aside[c][i] : i \in DOMAIN aside[c]}]

\* A commit in progress has something to commit.
Pending == \A c \in Conns : mode[c] = "commit" => InTransaction(c)

SeqEntries(q) == {q[i] : i \in DOMAIN q}
-----------------------------------------------------------------------------
\* Every step keeps something to commit in a session that is committing.
LEMMA PendingStep == IInv /\ Pending /\ [Next]_vars => Pending'
<1> SUFFICES ASSUME IInv, Pending, [Next]_vars, NEW d \in Conns,
                    mode'[d] = "commit"
             PROVE  InTransaction(d)'
  BY DEF Pending
<1>1. CASE UNCHANGED vars
  BY <1>1 DEF vars, Pending, InTransaction
<1>2. ASSUME NEW c \in Conns, NEW s \in Scopes, NEW b \in Bodies,
             Log(c, s, b) \/ AuditFailure(c, s, b)
      PROVE  InTransaction(d)'
  <2>1. mode[d] = "commit" /\ d # c
    BY <1>2 DEF Log, AuditFailure, IInv, TypeOK
  <2> QED
    BY <1>2, <2>1 DEF Log, AuditFailure, IInv, TypeOK, Pending, InTransaction
<1>3. ASSUME NEW c \in Conns, AutoFlush(c) \/ BeginCommit(c)
      PROVE  InTransaction(d)'
  BY <1>3 DEF AutoFlush, BeginCommit, IInv, TypeOK, Pending, InTransaction
<1>4. ASSUME NEW c \in Conns, Insert(c)
      PROVE  InTransaction(d)'
  <2>1. inserted'[c] # {}
    BY <1>4 DEF Insert, IInv, TypeOK
  <2>2. d # c => /\ mode[d] = "commit" /\ staged'[d] = staged[d]
                 /\ inserted'[d] = inserted[d]
    BY <1>4 DEF Insert, IInv, TypeOK
  <2> QED
    BY <2>1, <2>2 DEF Pending, InTransaction
<1>5. ASSUME NEW c \in Conns, EndTransaction(c)
      PROVE  InTransaction(d)'
  BY <1>5 DEF EndTransaction, IInv, TypeOK, Pending, InTransaction
<1>6. ASSUME NEW c \in Conns, AuditFailureCommit(c)
      PROVE  InTransaction(d)'
  BY <1>6 DEF AuditFailureCommit, IInv, TypeOK, Pending, InTransaction
<1> QED
  BY <1>1, <1>2, <1>3, <1>4, <1>5, <1>6
     DEF Next, Commit, Rollback, DeadlockVictim

\* Both invariants hold in every reachable state.
LEMMA PendingInvariant == Spec => [](IInv /\ Pending)
<1>1. Init => Pending
  BY DEF Init, Pending
<1> QED
  BY <1>1, InitInv, StepInv, PendingStep, PTL DEF Spec
-----------------------------------------------------------------------------
\* Every row the abstract log knows has an id that some table or session has.
LEMMA FreshEntry ==
  ASSUME IInv, NEW e,
         e.id \notin Ids(audit_entries), \A d \in Conns : e.id \notin Own(d)
  PROVE  Abstract!Fresh(e)
<1>1. ASSUME NEW f \in Abstract!InLog PROVE f.id # e.id
  <2>1. PICK s \in Scopes : f \in {AbsLog[s][i] : i \in DOMAIN AbsLog[s]}
    BY DEF Abstract!InLog, AbsLog
  <2>2. AbsLog[s] = [i \in DOMAIN audit_chain[s] |-> audit_chain[s][i].entry_hash]
    BY DEF AbsLog, ChainedEntries
  <2>3. PICK i \in DOMAIN audit_chain[s] : f = audit_chain[s][i].entry_hash
    BY <2>1, <2>2
  <2>4. audit_chain[s] \in Seq(ChainRow)
    BY DEF IInv, TypeOK
  <2>5. f \in EntriesIn(audit_chain[s])
    BY <2>3, <2>4 DEF EntriesIn
  <2>6. f \in audit_entries
    BY <2>5 DEF IInv, Entries, EntriesOf
  <2> QED
    BY <2>6 DEF Ids
<1>2. ASSUME NEW c \in Conns, NEW f \in AbsPend[c] \cup AbsSide[c]
      PROVE  f.id # e.id
  <2>1. f.id \in Own(c)
    BY <1>2 DEF AbsPend, AbsSide, EntriesLogged, Own, Ids, SeqIds
  <2> QED
    BY <2>1
<1>3. ASSUME NEW f \in Abstract!Known, f \notin Abstract!InLog PROVE f.id # e.id
  <2>1. PICK c \in Conns : f \in AbsPend[c] \cup AbsSide[c]
    BY <1>3 DEF Abstract!Known, AbsPend, AbsSide
  <2> QED
    BY <2>1, <1>2
<1> QED
  BY <1>1, <1>3 DEF Abstract!Fresh

\* audit.log is LogRow.
LEMMA LogRefines ==
  ASSUME IInv, NEW c \in Conns, NEW s \in Scopes, NEW b \in Bodies, Log(c, s, b)
  PROVE  Abstract!LogRow(c)
<1>e. PICK e \in Entry : e = NewEntry(s, b)
  BY NewEntryFresh DEF Log
<1>1. Abstract!Fresh(e)
  BY <1>e, NewEntryFresh, FreshEntry DEF Log
<1>2. /\ staged[c] \in Seq(Entry) /\ staged'[c] = Append(staged[c], e)
      /\ \A d \in Conns \ {c} : staged'[d] = staged[d]
      /\ UNCHANGED <<audit_chain, inserted, aside>>
  BY <1>e DEF Log, IInv, TypeOK
<1>3. SeqEntries(staged'[c]) = SeqEntries(staged[c]) \cup {e}
  BY <1>2 DEF SeqEntries
<1>4. \A d \in Conns : EntriesLogged(d) = inserted[d] \cup SeqEntries(staged[d])
                    /\ EntriesLogged(d)' = inserted'[d] \cup SeqEntries(staged'[d])
  BY DEF EntriesLogged, SeqEntries
<1>5. /\ EntriesLogged(c)' = EntriesLogged(c) \cup {e}
      /\ \A d \in Conns \ {c} : EntriesLogged(d)' = EntriesLogged(d)
  BY <1>2, <1>3, <1>4
<1>6. AbsPend' = [AbsPend EXCEPT ![c] = @ \cup {e}]
  BY <1>5 DEF AbsPend
<1>7. AbsLog' = AbsLog /\ AbsSide' = AbsSide
  BY <1>2 DEF AbsLog, AbsSide, ChainedEntries
<1> QED
  BY <1>1, <1>6, <1>7 DEF Abstract!LogRow, AbsLog, AbsPend, AbsSide

\* Starting an out-of-band write is StartSide.
LEMMA AuditFailureRefines ==
  ASSUME IInv, NEW c \in Conns, NEW s \in Scopes, NEW b \in Bodies,
         AuditFailure(c, s, b)
  PROVE  Abstract!StartSide(c)
<1>e. PICK e \in Entry : e = NewEntry(s, b)
  BY NewEntryFresh DEF AuditFailure
<1>1. Abstract!Fresh(e)
  BY <1>e, NewEntryFresh, FreshEntry DEF AuditFailure
<1>2. /\ aside'[c] = << e >>
      /\ \A d \in Conns \ {c} : aside'[d] = aside[d]
      /\ UNCHANGED <<audit_chain, inserted, staged>>
  BY <1>e DEF AuditFailure, IInv, TypeOK
<1>3. {aside'[c][i] : i \in DOMAIN aside'[c]} = {e}
  BY <1>2
<1>4. AbsSide' = [AbsSide EXCEPT ![c] = {e}]
  BY <1>2, <1>3 DEF AbsSide
<1>5. AbsLog' = AbsLog /\ AbsPend' = AbsPend
  BY <1>2 DEF AbsLog, AbsPend, ChainedEntries, EntriesLogged
<1> QED
  BY <1>1, <1>4, <1>5 DEF Abstract!StartSide, AbsLog, AbsPend, AbsSide

\* A flush is invisible.
LEMMA InsertRefines ==
  ASSUME IInv, NEW c \in Conns, Insert(c)
  PROVE  AbsLog' = AbsLog /\ AbsPend' = AbsPend /\ AbsSide' = AbsSide
<1>1. /\ staged[c] \in Seq(Entry) /\ staged[c] # << >>
      /\ inserted'[c] = inserted[c] \cup {Head(staged[c])}
      /\ staged'[c] = Tail(staged[c])
      /\ \A d \in Conns \ {c} : inserted'[d] = inserted[d] /\ staged'[d] = staged[d]
      /\ UNCHANGED <<audit_chain, aside>>
  BY DEF Insert, IInv, TypeOK
<1>2. SeqEntries(staged[c]) = {Head(staged[c])} \cup SeqEntries(Tail(staged[c]))
  <2> DEFINE q == staged[c]
  <2>1. /\ Head(q) = q[1] /\ 1 \in 1..Len(q) /\ Len(q) \in Nat
        /\ DOMAIN q = 1..Len(q) /\ DOMAIN Tail(q) = 1..(Len(q)-1)
        /\ \A i \in 1..(Len(q)-1) : Tail(q)[i] = q[i+1]
    BY <1>1
  <2> HIDE DEF q
  <2>2. ASSUME NEW i \in 1..Len(q) PROVE q[i] \in {Head(q)} \cup SeqEntries(Tail(q))
    <3>1. CASE i = 1
      BY <2>1, <3>1
    <3>2. CASE i # 1
      <4>1. i-1 \in 1..(Len(q)-1) /\ (i-1)+1 = i
        BY <2>1, <3>2
      <4>2. Tail(q)[i-1] = q[i]
        BY <2>1, <4>1
      <4> QED
        BY <2>1, <4>1, <4>2 DEF SeqEntries
    <3> QED
      BY <3>1, <3>2
  <2>3. ASSUME NEW i \in 1..(Len(q)-1) PROVE Tail(q)[i] \in SeqEntries(q)
    <3>1. i+1 \in 1..Len(q)
      BY <2>1
    <3> QED
      BY <2>1, <3>1 DEF SeqEntries
  <2>4. Head(q) \in SeqEntries(q)
    BY <2>1 DEF SeqEntries
  <2>5. SeqEntries(q) \subseteq {Head(q)} \cup SeqEntries(Tail(q))
    BY <2>1, <2>2 DEF SeqEntries
  <2>6. SeqEntries(Tail(q)) \subseteq SeqEntries(q)
    BY <2>1, <2>3 DEF SeqEntries
  <2> QED
    BY <2>4, <2>5, <2>6 DEF q
<1>3. \A d \in Conns : EntriesLogged(d) = inserted[d] \cup SeqEntries(staged[d])
                    /\ EntriesLogged(d)' = inserted'[d] \cup SeqEntries(staged'[d])
  BY DEF EntriesLogged, SeqEntries
<1>4. \A d \in Conns : EntriesLogged(d)' = EntriesLogged(d)
  BY <1>1, <1>2, <1>3
<1> QED
  BY <1>1, <1>4 DEF AbsLog, AbsPend, AbsSide, ChainedEntries

\* What the end of a transaction does to the abstract sessions.
LEMMA EndRefines ==
  ASSUME IInv, NEW c \in Conns, EndTransaction(c)
  PROVE  /\ AbsPend' = [AbsPend EXCEPT ![c] = {}]
         /\ AbsSide' = [AbsSide EXCEPT ![c] = {}]
<1>1. /\ inserted'[c] = {} /\ staged'[c] = << >> /\ aside'[c] = << >>
      /\ \A d \in Conns \ {c} : /\ inserted'[d] = inserted[d]
                               /\ staged'[d] = staged[d]
                               /\ aside'[d] = aside[d]
  BY DEF EndTransaction, IInv, TypeOK
<1>2. /\ EntriesLogged(c)' = {}
      /\ \A d \in Conns \ {c} : EntriesLogged(d)' = EntriesLogged(d)
  BY <1>1 DEF EntriesLogged
<1>3. {aside'[c][i] : i \in DOMAIN aside'[c]} = {}
  BY <1>1
<1>4. AbsPend' = [AbsPend EXCEPT ![c] = {}]
  BY <1>2 DEF AbsPend
<1>5. AbsSide' = [AbsSide EXCEPT ![c] = {}]
  <2>1. \A d \in Conns \ {c} : {aside'[d][i] : i \in DOMAIN aside'[d]}
                             = {aside[d][i] : i \in DOMAIN aside[d]}
    BY <1>1
  <2>2. AbsSide'[c] = {} /\ \A d \in Conns \ {c} : AbsSide'[d] = AbsSide[d]
    BY <1>3, <2>1, Zenon DEF AbsSide
  <2>3. /\ DOMAIN AbsSide = Conns /\ AbsSide = [d \in Conns |-> AbsSide[d]]
        /\ AbsSide' = [d \in Conns |-> AbsSide'[d]]
    BY DEF AbsSide
  <2> QED
    BY <2>2, <2>3
<1> QED
  BY <1>4, <1>5

\* A commit extends the chain of a scope by the rows of the session in it.
LEMMA CommitExtends ==
  ASSUME IInv, NEW c \in Conns, Commit(c), NEW s \in Scopes
  PROVE  Abstract!ExtendedBy(AbsLog[s], AbsLog'[s],
                             {e \in AbsPend[c] : e.scope = s})
<1> DEFINE a == audit_chain[s]
           b == appended[c][s]
           v == Visible(c, s)
           old == AbsLog[s]
           new == AbsLog'[s]
<1>1. /\ a \in Seq(ChainRow) /\ b \in Seq(ChainRow) /\ v \in Seq(ChainRow)
      /\ Len(v) = Len(a) + Len(b)
      /\ \A i \in 1..(Len(a) + Len(b)) :
           v[i] = IF i <= Len(a) THEN a[i] ELSE b[i - Len(a)]
      /\ Len(a) \in Nat /\ Len(b) \in Nat
  <2>1. a \in Seq(ChainRow) /\ b \in Seq(ChainRow) /\ v = a \o b
    BY VisibleType DEF IInv, Visible
  <2> HIDE DEF a, b, v
  <2> QED
    BY <2>1, ConcatProperties, LenProperties
<1>2. audit_chain'[s] = v
  BY DEF Commit
<1>3. /\ old = [i \in 1..Len(a) |-> a[i].entry_hash]
      /\ new = [i \in 1..Len(v) |-> v[i].entry_hash]
  <2>1. DOMAIN a = 1..Len(a) /\ DOMAIN v = 1..Len(v)
    BY <1>1
  <2>2. old = [i \in DOMAIN a |-> a[i].entry_hash]
    BY DEF AbsLog, ChainedEntries
  <2>3. new = [i \in DOMAIN v |-> v[i].entry_hash]
    BY <1>2 DEF AbsLog, ChainedEntries
  <2> QED
    BY <2>1, <2>2, <2>3
<1>4. Len(old) = Len(a) /\ Len(new) = Len(a) + Len(b)
  <2> HIDE DEF a, b, v, old, new
  <2> QED
    BY <1>1, <1>3
<1>5. {e \in AbsPend[c] : e.scope = s} = EntriesIn(b)
  <2>1. EntriesLogged(c) = inserted[c]
    BY DEF Commit, EntriesLogged
  <2>2. EntriesOf(s, inserted[c]) = EntriesIn(b)
    BY DEF IInv, Entries
  <2> QED
    BY <2>1, <2>2 DEF AbsPend, EntriesOf
<1>6. /\ \A i \in 1..Len(a) : old[i] = a[i].entry_hash
      /\ \A i \in 1..Len(v) : new[i] = v[i].entry_hash
  BY <1>3
<1>7. GoodRows(s, v)
  BY DEF IInv, Chains
<1> HIDE DEF a, b, v, old, new
<1>8. \A i \in 1..Len(a) : new[i] = old[i]
  BY <1>1, <1>6
<1>9. EntriesIn(b) = {new[i] : i \in (Len(a)+1)..(Len(a)+Len(b))}
  <2>1. ASSUME NEW i \in 1..Len(b)
        PROVE  b[i].entry_hash \in {new[k] : k \in (Len(a)+1)..(Len(a)+Len(b))}
    <3>1. /\ Len(a)+i \in (Len(a)+1)..(Len(a)+Len(b))
          /\ Len(a)+i \in 1..(Len(a)+Len(b))
          /\ ~ Len(a)+i <= Len(a) /\ (Len(a)+i) - Len(a) = i
      BY <1>1
    <3>2. new[Len(a)+i] = b[i].entry_hash
      BY <1>1, <1>6, <3>1
    <3> QED
      BY <3>1, <3>2
  <2>2. ASSUME NEW k \in (Len(a)+1)..(Len(a)+Len(b))
        PROVE  new[k] \in EntriesIn(b)
    <3>1. k - Len(a) \in 1..Len(b) /\ k \in 1..(Len(a)+Len(b)) /\ ~ k <= Len(a)
      BY <1>1
    <3>2. new[k] = b[k - Len(a)].entry_hash
      BY <1>1, <1>6, <3>1
    <3> QED
      BY <3>1, <3>2 DEF EntriesIn
  <2> QED
    BY <2>1, <2>2 DEF EntriesIn
<1>10. ASSUME NEW i \in 1..Len(v), NEW j \in 1..Len(v), j < i
       PROVE  new[i] # new[j]
  <2>1. GoodRow(s, v, i) /\ GoodRow(s, v, j)
    BY <1>7 DEF GoodRows
  <2>2. j \in 1..(i-1)
    BY <1>10
  <2> QED
    BY <1>6, <2>1, <2>2 DEF GoodRow
<1>11. ASSUME NEW i \in (Len(a)+1)..(Len(a)+Len(b)),
              NEW j \in (Len(a)+1)..(Len(a)+Len(b)), new[i] = new[j]
       PROVE  i = j
  <2>1. i \in 1..Len(v) /\ j \in 1..Len(v) /\ (i = j \/ i < j \/ j < i)
    BY <1>1
  <2> QED
    BY <1>10, <1>11, <2>1
<1>12. Len(a) + Len(b) >= Len(a)
  BY <1>1
<1> QED
  BY <1>4, <1>5, <1>8, <1>9, <1>11, <1>12 DEF Abstract!ExtendedBy, old, new

\* A commit is CommitRows.
LEMMA CommitRefines ==
  ASSUME IInv, Pending, NEW c \in Conns, Commit(c)
  PROVE  Abstract!CommitRows(c)
<1>1. EndTransaction(c) /\ mode[c] = "commit" /\ staged[c] = << >>
  BY DEF Commit
<1>2. AbsPend[c] # {}
  BY <1>1 DEF Pending, InTransaction, AbsPend, EntriesLogged
<1>3. AbsPend' = [AbsPend EXCEPT ![c] = {}]
  BY <1>1, EndRefines
<1>4. AbsSide' = AbsSide
  <2>1. aside[c] = << >>
    BY <1>1 DEF IInv, Aside
  <2>2. AbsSide[c] = {}
    BY <2>1 DEF AbsSide
  <2>3. AbsSide' = [AbsSide EXCEPT ![c] = {}]
    BY <1>1, EndRefines
  <2> QED
    BY <2>2, <2>3 DEF AbsSide
<1>5. \A s \in Scopes : Abstract!ExtendedBy(AbsLog[s], AbsLog'[s],
                                            {e \in AbsPend[c] : e.scope = s})
  BY CommitExtends
<1> QED
  BY <1>2, <1>3, <1>4, <1>5 DEF Abstract!CommitRows, AbsLog, AbsPend, AbsSide

\* A rollback, or a deadlock victim, is AbortRows.
LEMMA AbortRefines ==
  ASSUME IInv, NEW c \in Conns, EndTransaction(c), UNCHANGED audit_chain
  PROVE  Abstract!AbortRows(c)
<1>1. AbsLog' = AbsLog
  BY DEF AbsLog, ChainedEntries
<1> QED
  BY <1>1, EndRefines DEF Abstract!AbortRows, AbsLog, AbsPend, AbsSide

\* The commit of an out-of-band row is FinishSide.
LEMMA AuditFailureCommitRefines ==
  ASSUME IInv, NEW c \in Conns, AuditFailureCommit(c)
  PROVE  Abstract!FinishSide(c)
<1>1. /\ aside[c] \in Seq(Entry) /\ Len(aside[c]) = 1
  BY DEF AuditFailureCommit, IInv, TypeOK, Aside
<1>2. /\ Head(aside[c]) = aside[c][1] /\ DOMAIN aside[c] = {1}
      /\ Head(aside[c]) \in Entry
  BY <1>1
<1>e. PICK e \in Entry : e = Head(aside[c])
  BY <1>2
<1>s. PICK s \in Scopes : s = e.scope
  BY DEF Entry
<1>3. audit_chain \in [Scopes -> Seq(ChainRow)]
  BY DEF IInv, TypeOK
<1>r. PICK r \in ChainRow : r = NextRow(s, e, audit_chain[s])
  BY <1>3, NextRowType
<1>4. r.entry_hash = e
  BY <1>r DEF NextRow, EntryHash
<1>5. /\ audit_chain' = [audit_chain EXCEPT ![s] = Append(@, r)]
      /\ aside' = [aside EXCEPT ![c] = << >>]
      /\ UNCHANGED <<staged, inserted>>
  BY <1>e, <1>s, <1>r DEF AuditFailureCommit
<1>6. AbsSide[c] = {e}
  BY <1>2, <1>e DEF AbsSide
<1>7. AbsSide' = [AbsSide EXCEPT ![c] = {}]
  <2>1. aside'[c] = << >> /\ \A d \in Conns \ {c} : aside'[d] = aside[d]
    BY <1>5 DEF IInv, TypeOK
  <2>2. {aside'[c][i] : i \in DOMAIN aside'[c]} = {}
    BY <2>1
  <2> QED
    BY <2>1, <2>2 DEF AbsSide
<1>8. AbsPend' = AbsPend
  BY <1>5 DEF AbsPend, EntriesLogged
<1>9. AbsLog' = [AbsLog EXCEPT ![s] = Append(@, e)]
  <2> DEFINE a == audit_chain[s]
             new == Append(a, r)
             old == [i \in 1..Len(a) |-> a[i].entry_hash]
  <2>1. /\ a \in Seq(ChainRow) /\ Len(a) \in Nat /\ DOMAIN a = 1..Len(a)
        /\ DOMAIN new = 1..(Len(a)+1) /\ new[Len(a)+1] = r
        /\ \A i \in 1..Len(a) : new[i] = a[i] /\ a[i] \in ChainRow
    BY <1>3
  <2>2. old \in Seq(Entry) /\ Len(old) = Len(a)
    BY <2>1 DEF ChainRow
  <2>3. /\ DOMAIN Append(old, e) = 1..(Len(a)+1)
        /\ Append(old, e)[Len(a)+1] = e
        /\ \A i \in 1..Len(a) : Append(old, e)[i] = a[i].entry_hash
        /\ Append(old, e) = [i \in 1..(Len(a)+1) |-> Append(old, e)[i]]
    BY <2>2
  <2>4. \A i \in 1..(Len(a)+1) : i \in 1..Len(a) \/ i = Len(a)+1
    BY <2>1
  <2> HIDE DEF new, old
  <2>5. [i \in 1..(Len(a)+1) |-> new[i].entry_hash] = Append(old, e)
    BY <1>4, <2>1, <2>3, <2>4
  <2>6. AbsLog'[s] = Append(AbsLog[s], e)
    BY <1>3, <1>5, <2>1, <2>5 DEF AbsLog, ChainedEntries, new, old
  <2>7. \A t \in Scopes \ {s} : AbsLog'[t] = AbsLog[t]
    BY <1>3, <1>5 DEF AbsLog, ChainedEntries
  <2>8. AbsLog' = [t \in Scopes |-> AbsLog'[t]]
    BY DEF AbsLog
  <2>9. DOMAIN AbsLog = Scopes /\ AbsLog = [t \in Scopes |-> AbsLog[t]]
    BY DEF AbsLog
  <2> QED
    BY <2>6, <2>7, <2>8, <2>9
<1> QED
  BY <1>s, <1>6, <1>7, <1>8, <1>9
     DEF Abstract!FinishSide, AbsLog, AbsPend, AbsSide
-----------------------------------------------------------------------------
\* Empty tables are the empty log.
LEMMA InitRefines == Init => Abstract!LogInit
  BY DEF Init, NoRows, Abstract!LogInit, ChainedEntries, EntriesLogged

\* Every step is a step of the log or leaves it unchanged.
LEMMA StepRefines ==
  ASSUME IInv, Pending, [Next]_vars
  PROVE  [Abstract!LogNext]_(Abstract!lvars)
<1>1. CASE UNCHANGED vars
  BY <1>1 DEF vars, Abstract!lvars, ChainedEntries, EntriesLogged
<1>2. ASSUME NEW c \in Conns, NEW s \in Scopes, NEW b \in Bodies,
             Log(c, s, b) \/ AuditFailure(c, s, b)
      PROVE  Abstract!LogNext
  BY <1>2, LogRefines, AuditFailureRefines DEF Abstract!LogNext
<1>3. ASSUME NEW c \in Conns, AutoFlush(c) \/ BeginCommit(c)
      PROVE  UNCHANGED Abstract!lvars
  BY <1>3 DEF AutoFlush, BeginCommit, Abstract!lvars, ChainedEntries,
              EntriesLogged
<1>4. ASSUME NEW c \in Conns, Insert(c)
      PROVE  UNCHANGED Abstract!lvars
  BY <1>4, InsertRefines DEF Abstract!lvars, AbsLog, AbsPend, AbsSide
<1>5. ASSUME NEW c \in Conns, Commit(c)
      PROVE  Abstract!LogNext
  BY <1>5, CommitRefines DEF Abstract!LogNext
<1>6. ASSUME NEW c \in Conns, Rollback(c) \/ DeadlockVictim(c)
      PROVE  Abstract!LogNext
  BY <1>6, AbortRefines DEF Rollback, DeadlockVictim, Abstract!LogNext
<1>7. ASSUME NEW c \in Conns, AuditFailureCommit(c)
      PROVE  Abstract!LogNext
  BY <1>7, AuditFailureCommitRefines DEF Abstract!LogNext
<1> QED
  BY <1>1, <1>2, <1>3, <1>4, <1>5, <1>6, <1>7 DEF Next

\* audit.log, the append trigger, commits, rollbacks and audit_failure
\* implement the append-only log of AuditLog, whatever the number of sessions
\* and scopes and whether or not callers obey the lock rule.
THEOREM ChainImplementsLog == Spec => ImplementsAuditLog
<1>1. Init => Abstract!LogInit
  BY InitRefines
<1>2. (IInv /\ Pending) /\ [Next]_vars => [Abstract!LogNext]_(Abstract!lvars)
  BY StepRefines
<1> QED
  BY <1>1, <1>2, PendingInvariant, PTL DEF Spec, ImplementsAuditLog,
     Abstract!LogSpec
=============================================================================
