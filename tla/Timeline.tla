------------------------------ MODULE Timeline ------------------------------
(***************************************************************************)
(* The timeline of a matter: the rows of three tables merged into one      *)
(* order and handed out page by page.  A page is made of one statement per *)
(* table, each filtered by the cursor and cut at limit + 1 rows, and a     *)
(* merge of what they return.  This module has the order, the filters and  *)
(* the merge; the readers that page through it are in MatterExport.        *)
(***************************************************************************)
EXTENDS Naturals, FiniteSets

CONSTANTS
  PageLimit,   \* limit of a page
  MaxTime,     \* timestamps are 1..MaxTime; unrelated to the order of commits
  EventIds     \* row ids; unrelated to the timestamps

ASSUME TimelineAssumption ==
  PageLimit \in Nat \ {0} /\ MaxTime \in Nat /\ EventIds \subseteq Nat

SourceOrder == [audit |-> 0, state_machine |-> 1, advice_boundary |-> 2]
TimelineSources == DOMAIN SourceOrder

(* One row of a table, as a TimelineEntry. *)
TimelineEntry == [source : TimelineSources, at : 1..MaxTime, id : EventIds]
NoEntry == [source |-> "audit", at |-> 0, id |-> 0]

(* The sort key (occurred_at, order of the source, row id), strictly. *)
KeyBefore(q, r) ==
    \/ q.at < r.at
    \/ /\ q.at = r.at
       /\ \/ SourceOrder[q.source] < SourceOrder[r.source]
          \/ q.source = r.source /\ q.id < r.id

(* What the statement on the table of r asks of r for the cursor c.  Rows at the *)
(* cursor's time are after it in a later source, before it in an earlier one,    *)
(* and compared by id in the cursor's own.                                       *)
MutCursorPredicate(c, r) ==
    \/ c = NoEntry
    \/ r.at > c.at
    \/ r.at = c.at /\ r.source = c.source /\ r.id > c.id
CursorPredicate(c, r) ==
    \/ c = NoEntry
    \/ r.at > c.at
    \/ /\ r.at = c.at
       /\ \/ SourceOrder[r.source] > SourceOrder[c.source]
          \/ r.source = c.source /\ r.id > c.id

(* ORDER BY the key LIMIT n. *)
Earliest(S, n) == {r \in S : Cardinality({q \in S : KeyBefore(q, r)}) < n}

(* The statement on one table: one row more than a page holds. *)
QuerySource(committed, src, c) ==
    Earliest({r \in committed : r.source = src /\ CursorPredicate(c, r)}, PageLimit + 1)

(* The merge of what the three statements returned, strictly after the cursor. *)
AfterCursor(pulled, c) == {r \in pulled : c = NoEntry \/ KeyBefore(c, r)}
PageOf(pulled, c) == Earliest(AfterCursor(pulled, c), PageLimit)

(* A page in its order: every row at the place that its rank gives it. *)
InOrder(S) ==
    [i \in 1..Cardinality(S) |-> CHOOSE r \in S : Cardinality({q \in S : KeyBefore(q, r)}) = i - 1]

(* The cursor of the next page: the last entry of a page that leaves rows over. *)
NextCursor(pulled, c) ==
    IF Cardinality(AfterCursor(pulled, c)) > PageLimit
    THEN InOrder(PageOf(pulled, c))[PageLimit]
    ELSE NoEntry

=============================================================================
