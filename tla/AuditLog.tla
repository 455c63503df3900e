------------------------------ MODULE AuditLog ------------------------------
(***************************************************************************)
(* What the audit substrate promises its callers, without tables, flushes, *)
(* locks or hashes: an append-only log per scope.  A session collects rows *)
(* and commits all of them at once or none; a row written out of band is   *)
(* in the log for good before the request that wrote it goes on, whatever  *)
(* becomes of that request.                                                *)
(***************************************************************************)
EXTENDS Integers, Sequences

CONSTANTS Scopes, Conns, Entry

VARIABLES log,      \* the rows of each scope, in chain order
          pend,     \* the rows a session has logged and not committed
          side      \* the row a session is writing out of band

lvars == <<log, pend, side>>

LogInit ==
  /\ log = [s \in Scopes |-> << >>]
  /\ pend = [c \in Conns |-> {}]
  /\ side = [c \in Conns |-> {}]

InLog == UNION {{log[s][i] : i \in DOMAIN log[s]} : s \in Scopes}

Known == InLog \cup UNION {pend[c] \cup side[c] : c \in Conns}

Fresh(e) == \A f \in Known : f.id # e.id

\* new is old followed by the rows of E, each of them once.
ExtendedBy(old, new, E) ==
  /\ Len(new) >= Len(old)
  /\ \A i \in 1..Len(old) : new[i] = old[i]
  /\ E = {new[i] : i \in (Len(old)+1)..Len(new)}
  /\ \A i, j \in (Len(old)+1)..Len(new) : new[i] = new[j] => i = j

LogRow(c) ==
  \E e \in Entry : /\ Fresh(e)
                   /\ pend' = [pend EXCEPT ![c] = @ \cup {e}]
                   /\ UNCHANGED <<log, side>>

CommitRows(c) ==
  /\ pend[c] # {}
  /\ \A s \in Scopes :
       ExtendedBy(log[s], log'[s], {e \in pend[c] : e.scope = s})
  /\ pend' = [pend EXCEPT ![c] = {}]
  /\ UNCHANGED side

AbortRows(c) ==
  /\ pend' = [pend EXCEPT ![c] = {}]
  /\ side' = [side EXCEPT ![c] = {}]
  /\ UNCHANGED log

StartSide(c) ==
  \E e \in Entry : /\ Fresh(e)
                   /\ side' = [side EXCEPT ![c] = {e}]
                   /\ UNCHANGED <<log, pend>>

FinishSide(c) ==
  \E e \in side[c] :
    /\ log' = [log EXCEPT ![e.scope] = Append(@, e)]
    /\ side' = [side EXCEPT ![c] = {}]
    /\ UNCHANGED pend

LogNext ==
  \E c \in Conns : \/ LogRow(c)
                   \/ CommitRows(c)
                   \/ AbortRows(c)
                   \/ StartSide(c)
                   \/ FinishSide(c)

LogSpec == LogInit /\ [][LogNext]_lvars
=============================================================================
