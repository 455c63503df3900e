---------------------------- MODULE MatterExport ----------------------------
(***************************************************************************)
(* The two readers of a matter's timeline.  The export job reads the       *)
(* tables of the matter one statement after another, each of which sees    *)
(* what is committed by then, pages through the timeline last, and stores  *)
(* the pack.  The inspector of the audit page asks for one page per        *)
(* request, and every request adds a row of its own to the audit log.      *)
(* Other requests commit work meanwhile.  The chain files of the pack are  *)
(* in ChainReaders, the bytes and the job around the export in MatterJobs. *)
(***************************************************************************)
EXTENDS Timeline, Sequences, SequencesExt

CONSTANTS
  Works,        \* pieces of work that requests may commit on the matter
  TableOf,      \* the table a piece of work is a row of
  PartOf,       \* the row it refers to, or NoWork
  NoWork,
  EventOf,      \* the id of the row that it leaves on the timeline
  MaxWorks      \* bound of the work committed

ASSUME ExportAssumption ==
  /\ NoWork \notin Works /\ MaxWorks \in Nat
  /\ PartOf \in [Works -> Works \cup {NoWork}] /\ EventOf \in [Works -> EventIds]
  /\ \A v, w \in Works : EventOf[v] = EventOf[w] => v = w

VARIABLES
  present,    \* work whose row is in its table
  events,     \* committed rows of the timeline's three tables
  pager,      \* the export or the inspector, and where it is
  pack        \* what the reader has collected

exportVars == <<present, events, pager, pack>>

(* The statements of the export before the timeline, in their order. *)
PackFiles == <<"documents", "comments", "versions", "edits", "audit", "jobs",
               "artifacts", "signoffs", "reviews">>

(* Tables whose rows are asked for by the rows of another that the pack has. *)
Scoped == {"comments", "versions", "edits"}

(* Rows of these tables are committed without an audit entry of their own. *)
Unaudited == {"jobs", "artifacts"}

SourceOf(w) ==
    CASE TableOf[w] = "transitions" -> "state_machine"
      [] TableOf[w] = "decisions" -> "advice_boundary"
      [] OTHER -> "audit"

EventAt(w, t) == [source |-> SourceOf(w), at |-> t, id |-> EventOf[w]]

(* The timeline rows that tell of the work w. *)
Tells(e, w) == e.source = SourceOf(w) /\ e.id = EventOf[w]

ExportInit ==
    /\ present = {} /\ events = {}
    /\ pager \in [who : {"export", "inspector"}, at : {1}, cursor : {NoEntry},
                   asked : {{}}, pulled : {{}}, known : {{}}, over : {FALSE}]
    /\ pack = [shown |-> {}, audit |-> {}, entries |-> <<>>]

(* A document goes with the rows that hang on it. *)
Under(d) == {w \in Works : PartOf[w] = d \/ (PartOf[w] # NoWork /\ PartOf[PartOf[w]] = d)}

(* A request commits its row and its audit entry together (create_signoff here,  *)
(* and so do notes, versions, edits, reviews, uploads and deletions).  The        *)
(* timestamp was taken before the commit: it may be older than rows that are      *)
(* already there.                                                                 *)
CommitWork(w, t) ==
    /\ w \notin present
    /\ TableOf[w] # "views"
    /\ PartOf[w] = NoWork \/ PartOf[w] \in present
    /\ ~\E e \in events : Tells(e, w)
    /\ Cardinality(events) < MaxWorks
    /\ IF TableOf[w] = "deletions"
       THEN present' = present \ ({PartOf[w]} \cup Under(PartOf[w]))
       ELSE present' = present \cup {w}
    /\ events' = IF TableOf[w] \in Unaudited THEN events ELSE events \cup {EventAt(w, t)}
    /\ UNCHANGED <<pager, pack>>

(* The rows a statement of the export returns. *)
RowsOf(table) ==
    {w \in present : TableOf[w] = table /\ (table \in Scoped => PartOf[w] \in pack.shown)}

ReadFile ==
    /\ pager.who = "export" /\ pager.at <= Len(PackFiles)
    /\ IF PackFiles[pager.at] = "audit"
       THEN pack' = [pack EXCEPT !.audit = {e \in events : e.source = "audit"}]
       ELSE pack' = [pack EXCEPT !.shown = @ \cup RowsOf(PackFiles[pager.at])]
    /\ pager' = [pager EXCEPT !.at = @ + 1]
    /\ UNCHANGED <<present, events>>

(* The reader is at a page of the timeline. *)
AtTimeline == ~pager.over /\ (pager.who = "export" => pager.at > Len(PackFiles))

(* One statement of reconstruct(); the sources are a set and come in any order. *)
AskSource(src) ==
    /\ AtTimeline /\ src \notin pager.asked
    /\ pager' = [pager EXCEPT
         !.asked = @ \cup {src},
         !.pulled = @ \cup QuerySource(events, src, pager.cursor),
         !.known = IF pager.asked = {} /\ pager.cursor = NoEntry THEN events ELSE @]
    /\ UNCHANGED <<present, events, pack>>

(* The end of reconstruct(): merge, cut, hand out. *)
EndPage ==
    /\ pager.asked = TimelineSources
    /\ LET next == NextCursor(pager.pulled, pager.cursor) IN
         pager' = [pager EXCEPT !.cursor = next, !.asked = {}, !.pulled = {},
                                  !.over = next = NoEntry]
    /\ pack' = [pack EXCEPT !.entries = @ \o InOrder(PageOf(pager.pulled, pager.cursor))]

(* The export asks for the next page until there is none, and stores the pack. *)
ExportPage ==
    /\ pager.who = "export" /\ AtTimeline
    /\ EndPage
    /\ UNCHANGED <<present, events>>

(* The inspector's request ends with a row of its own on the log, which later    *)
(* pages will show.                                                              *)
InspectPage(w, t) ==
    /\ pager.who = "inspector" /\ AtTimeline
    /\ TableOf[w] = "views" /\ ~\E e \in events : Tells(e, w)
    /\ EndPage
    /\ events' = events \cup {EventAt(w, t)}
    /\ UNCHANGED present

ExportNext ==
    \/ \E w \in Works, t \in 1..MaxTime : CommitWork(w, t) \/ InspectPage(w, t)
    \/ \E src \in TimelineSources : AskSource(src)
    \/ ReadFile \/ ExportPage

ExportSpec == ExportInit /\ [][ExportNext]_exportVars

(* Pages are cut while rows with older and with equal timestamps are committed,  *)
(* and still the timeline handed out has, once each and in order, every row up   *)
(* to its cursor that was committed before its first statement, and in the end   *)
(* all of those.  Since the export reads it last, all that the pack shows is     *)
(* told by it, even what was committed while the export was running              *)
(* (build_matter_export, reconstruct).                                           *)
PackExplained ==
    LET told == ToSet(pack.entries)
        reached(e) == pager.cursor # NoEntry /\ ~KeyBefore(pager.cursor, e)
    IN
    /\ \A i, j \in 1..Len(pack.entries) :
         i < j => KeyBefore(pack.entries[i], pack.entries[j])
    /\ \A e \in pager.known : pager.over \/ reached(e) => e \in told
    /\ pager.over =>
         /\ pack.audit \subseteq told
         /\ \A w \in pack.shown :
              TableOf[w] \in Unaudited \/ \E e \in told : Tells(e, w)

=============================================================================
