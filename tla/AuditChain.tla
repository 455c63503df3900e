----------------------------- MODULE AuditChain -----------------------------
(***************************************************************************)
(* The audit log of Legalise: the tables audit_entries and audit_chain,    *)
(* the trigger audit_chain_append_for_entry that links every inserted row  *)
(* into the hash chain of its scope, and the database sessions that write  *)
(* to them.                                                                *)
(*                                                                         *)
(* A session stages rows (audit.log is only session.add), flushes them (on *)
(* any query, because the session factories keep autoflush, or on commit)  *)
(* and commits or rolls back.  The trigger serialises the appends of a     *)
(* scope with pg_advisory_xact_lock, which PostgreSQL releases only at the *)
(* end of the transaction.  audit_failure (alias audit_out_of_band) writes *)
(* one row on a connection of its own while the calling request waits.     *)
(***************************************************************************)
EXTENDS ChainRows

CONSTANTS Conns,        \* database sessions of requests, worker, middleware
          NoConn,       \* the value of a free advisory lock
          RuleObeyed    \* do callers follow the lock rule of ADR-002?

ASSUME ConnAssumption == NoConn \notin Conns
ASSUME RuleAssumption == RuleObeyed \in BOOLEAN

Modes == {"ready", "flush", "commit", "oob"}

VARIABLES
  audit_entries,  \* committed rows of audit_entries
  audit_chain,    \* committed rows of audit_chain, per scope
  mode,           \* what a session is awaiting
  staged,         \* rows added to a session and not yet flushed
  inserted,       \* audit_entries rows of the open transaction
  appended,       \* audit_chain rows of the open transaction, per scope
  aside,          \* the row an out-of-band writer carries (at most one)
  holder          \* who holds the advisory lock of a scope

vars == <<audit_entries, audit_chain, mode, staged, inserted, appended,
          aside, holder>>
-----------------------------------------------------------------------------
NoRows == [s \in Scopes |-> << >>]

SeqIds(q) == {q[i].id : i \in DOMAIN q}

UsedIds ==
  {e.id : e \in audit_entries}
    \cup (UNION {{e.id : e \in inserted[c]} : c \in Conns})
    \cup (UNION {SeqIds(staged[c]) \cup SeqIds(aside[c]) : c \in Conns})

\* uuid4: some id that no row has.  An id of a row that was rolled back may be
\* given again; no table remembers it.
IdsLeft == EntryIds \ UsedIds # {}
NewEntry(s, b) == [id |-> CHOOSE id \in EntryIds : id \notin UsedIds,
                   scope |-> s, body |-> b]

\* READ COMMITTED: a transaction sees the committed rows and its own.
Visible(c, s) == audit_chain[s] \o appended[c][s]

Held(c) == {s \in Scopes : holder[s] = c}

InTransaction(c) == staged[c] # << >> \/ inserted[c] # {}

Init ==
  /\ audit_entries = {}
  /\ audit_chain = NoRows
  /\ mode = [c \in Conns |-> "ready"]
  /\ staged = [c \in Conns |-> << >>]
  /\ inserted = [c \in Conns |-> {}]
  /\ appended = [c \in Conns |-> NoRows]
  /\ aside = [c \in Conns |-> << >>]
  /\ holder = [s \in Scopes |-> NoConn]

\* audit.log: session.add(AuditEntry(...)), no flush and no commit.
Log(c, s, b) ==
  /\ mode[c] = "ready"
  /\ IdsLeft
  /\ staged' = [staged EXCEPT ![c] = Append(@, NewEntry(s, b))]
  /\ UNCHANGED <<audit_entries, audit_chain, mode, inserted, appended, aside,
                 holder>>

\* A query or session.flush() with staged rows starts a flush.
AutoFlush(c) ==
  /\ mode[c] = "ready"
  /\ staged[c] # << >>
  /\ mode' = [mode EXCEPT ![c] = "flush"]
  /\ UNCHANGED <<audit_entries, audit_chain, staged, inserted, appended, aside,
                 holder>>

\* session.commit(): flushes what is staged, then commits.
BeginCommit(c) ==
  /\ mode[c] = "ready"
  /\ InTransaction(c)
  /\ mode' = [mode EXCEPT ![c] = "commit"]
  /\ UNCHANGED <<audit_entries, audit_chain, staged, inserted, appended, aside,
                 holder>>

\* Mutant: the trigger appends without taking the lock.
MutLockAvailable(c, s) == TRUE

\* The advisory lock of scope s can be taken (or is already held) by c.
LockAvailable(c, s) == holder[s] \in {NoConn, c}

\* INSERT of the oldest staged row and the trigger it fires.
Insert(c) ==
  /\ mode[c] \in {"flush", "commit"}
  /\ staged[c] # << >>
  /\ LET e == Head(staged[c])
         s == e.scope
     IN  /\ LockAvailable(c, s)
         /\ holder' = [holder EXCEPT ![s] = c]
         /\ inserted' = [inserted EXCEPT ![c] = @ \cup {e}]
         /\ appended' = [appended EXCEPT ![c][s] =
                           Append(@, NextRow(s, e, Visible(c, s)))]
  /\ staged' = [staged EXCEPT ![c] = Tail(@)]
  /\ mode' = [mode EXCEPT ![c] = IF @ = "flush" /\ Tail(staged[c]) = << >>
                                 THEN "ready" ELSE @]
  /\ UNCHANGED <<audit_entries, audit_chain, aside>>

\* End of a transaction: its advisory locks are released, its rows are gone
\* from the session.
EndTransaction(c) ==
  /\ mode' = [mode EXCEPT ![c] = "ready"]
  /\ staged' = [staged EXCEPT ![c] = << >>]
  /\ inserted' = [inserted EXCEPT ![c] = {}]
  /\ appended' = [appended EXCEPT ![c] = NoRows]
  /\ aside' = [aside EXCEPT ![c] = << >>]
  /\ holder' = [s \in Scopes |-> IF holder[s] = c THEN NoConn ELSE holder[s]]

Commit(c) ==
  /\ mode[c] = "commit"
  /\ staged[c] = << >>
  /\ audit_entries' = audit_entries \cup inserted[c]
  /\ audit_chain' = [s \in Scopes |-> Visible(c, s)]
  /\ EndTransaction(c)

\* An exception closes the session without a commit, or the connection or
\* the process is lost, at any point before the commit.
Rollback(c) ==
  /\ InTransaction(c) \/ mode[c] = "oob"
  /\ EndTransaction(c)
  /\ UNCHANGED <<audit_entries, audit_chain>>

\* Who a blocked flush waits for.  PostgreSQL knows these edges; it does not
\* know that a request waits for its own out-of-band writer.
Waits(c) ==
  /\ mode[c] \in {"flush", "commit"}
  /\ staged[c] # << >>
  /\ ~ LockAvailable(c, Head(staged[c]).scope)

WaitsFor(c) == holder[Head(staged[c]).scope]

\* PostgreSQL's deadlock detector: C is a set of cycles of waiting sessions.
DeadlockCycle(C) ==
  /\ C # {}
  /\ \A c \in C : /\ Waits(c)
                  /\ WaitsFor(c) \in C
                  /\ \E d \in C : Waits(d) /\ WaitsFor(d) = c

DeadlockVictim(c) ==
  /\ \E C \in SUBSET Conns : c \in C /\ DeadlockCycle(C)
  /\ EndTransaction(c)
  /\ UNCHANGED <<audit_entries, audit_chain>>

\* Mutant: a caller audits a failure with rows of its own already flushed.
MutAuditFailure(c, s, b) ==
  /\ mode[c] = "ready"
  /\ IdsLeft
  /\ mode' = [mode EXCEPT ![c] = "oob"]
  /\ aside' = [aside EXCEPT ![c] = << NewEntry(s, b) >>]
  /\ UNCHANGED <<audit_entries, audit_chain, staged, inserted, appended,
                 holder>>

\* audit_failure / audit_out_of_band: the request awaits a row that a fresh
\* session writes and commits.  ADR-002 asks callers to hold no chain lock.
AuditFailure(c, s, b) ==
  /\ mode[c] = "ready"
  /\ IdsLeft
  /\ RuleObeyed => Held(c) = {}
  /\ mode' = [mode EXCEPT ![c] = "oob"]
  /\ aside' = [aside EXCEPT ![c] = << NewEntry(s, b) >>]
  /\ UNCHANGED <<audit_entries, audit_chain, staged, inserted, appended,
                 holder>>

\* Mutant: the failure to write the row is swallowed and the request goes on.
MutAuditFailureCommit(c) ==
  /\ mode[c] = "oob"
  /\ mode' = [mode EXCEPT ![c] = "ready"]
  /\ aside' = [aside EXCEPT ![c] = << >>]
  /\ UNCHANGED <<audit_entries, audit_chain, staged, inserted, appended,
                 holder>>

\* The fresh session gets the lock, appends and commits; the request goes on.
AuditFailureCommit(c) ==
  /\ mode[c] = "oob"
  /\ LET e == Head(aside[c])
         s == e.scope
     IN  /\ holder[s] = NoConn
         /\ audit_entries' = audit_entries \cup {e}
         /\ audit_chain' = [audit_chain EXCEPT ![s] =
                              Append(@, NextRow(s, e, @))]
  /\ mode' = [mode EXCEPT ![c] = "ready"]
  /\ aside' = [aside EXCEPT ![c] = << >>]
  /\ UNCHANGED <<staged, inserted, appended, holder>>

Next ==
  \E c \in Conns :
    \/ \E s \in Scopes, b \in Bodies : Log(c, s, b) \/ AuditFailure(c, s, b)
    \/ AutoFlush(c)
    \/ BeginCommit(c)
    \/ Insert(c)
    \/ Commit(c)
    \/ Rollback(c)
    \/ DeadlockVictim(c)
    \/ AuditFailureCommit(c)

Spec == Init /\ [][Next]_vars

(***************************************************************************)
(* Fairness.  A handler that holds an open transaction goes on to commit   *)
(* (or ends, Rollback); the driver executes the statements it is given;    *)
(* PostgreSQL grants a lock to its waiters in the order they queued, so a  *)
(* waiter is not passed over for ever (strong fairness); and its deadlock  *)
(* detector breaks a cycle after deadlock_timeout.                         *)
(***************************************************************************)
Fairness ==
  \A c \in Conns : /\ WF_vars(BeginCommit(c))
                   /\ SF_vars(Insert(c))
                   /\ WF_vars(Commit(c))
                   /\ WF_vars(DeadlockVictim(c))
                   /\ SF_vars(AuditFailureCommit(c))

FairSpec == Spec /\ Fairness
-----------------------------------------------------------------------------
(* Properties.                                                             *)

\* Types of the tables, the sessions and the locks.
TypeOK ==
  /\ audit_entries \subseteq Entry
  /\ audit_chain \in [Scopes -> Seq(ChainRow)]
  /\ mode \in [Conns -> Modes]
  /\ staged \in [Conns -> Seq(Entry)]
  /\ inserted \in [Conns -> SUBSET Entry]
  /\ appended \in [Conns -> [Scopes -> Seq(ChainRow)]]
  /\ aside \in [Conns -> Seq(Entry)]
  /\ holder \in [Scopes -> Conns \cup {NoConn}]

\* Whatever the interleaving of sessions, the committed chain of every scope
\* verifies: verify_audit_chain over one committed state finds no issue.
ChainIntact ==
  \A s \in Scopes : SnapshotIssues(s, audit_chain[s], audit_entries) = {}

\* The two partial unique indexes on (matter_id, scope_sequence) are never
\* hit: no open transaction holds a row whose sequence number is committed
\* or is also in another open transaction of the scope.
NoSequenceCollision ==
  \A s \in Scopes, c \in Conns : \A i \in DOMAIN appended[c][s] :
    LET seq == appended[c][s][i].scope_sequence
    IN  /\ \A j \in DOMAIN audit_chain[s] :
             audit_chain[s][j].scope_sequence # seq
        /\ \A d \in Conns \ {c} : \A j \in DOMAIN appended[d][s] :
             appended[d][s][j].scope_sequence # seq

\* A session that awaits a flush, a commit or an out-of-band write gets past
\* it, if callers of audit_failure hold no chain lock (the rule of ADR-002).
WritesComplete ==
  \A c \in Conns : mode[c] # "ready" ~> mode[c] = "ready"
-----------------------------------------------------------------------------
(* Refinement: the tables and locks implement the abstract log.            *)

EntriesLogged(c) ==
  inserted[c] \cup {staged[c][i] : i \in DOMAIN staged[c]}

ChainedEntries(s) ==
  [i \in DOMAIN audit_chain[s] |-> audit_chain[s][i].entry_hash]

Abstract == INSTANCE AuditLog WITH
  log  <- [s \in Scopes |-> ChainedEntries(s)],
  pend <- [c \in Conns |-> EntriesLogged(c)],
  side <- [c \in Conns |-> {aside[c][i] : i \in DOMAIN aside[c]}]

\* A session's rows enter the chains all at once or not at all, nothing that
\* is chained is changed or removed, and an out-of-band row is chained before
\* its request goes on: every step of the tables is a step of AuditLog.
ImplementsAuditLog == Abstract!LogSpec
=============================================================================
