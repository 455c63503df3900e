---------------------------- MODULE ReviewNotes ----------------------------
(***************************************************************************)
(* Review notes (comments) on one document and the presence of its editors *)
(* (edit sessions).  Requests read a committed row and write it later; an  *)
(* UPDATE writes only the columns the request changed.                     *)
(***************************************************************************)
EXTENDS Naturals, FiniteSets

CONSTANTS
  Posts,      \* requests; each runs once.  A row is named by its request
  NoPost,
  Bodies2,    \* extracted texts the document may have
  Length      \* their length

ASSUME NotesAssumption == /\ NoPost \notin Posts
                          /\ "none" \notin Bodies2  \* a hash is not NULL
                          /\ Length \in [Bodies2 -> Nat]

VARIABLES
  text,      \* the extracted body
  notes,     \* document_comments by the request that posted them
  sessions,  \* document_edit_sessions by the request that started them
  post       \* requests

noteVars == <<text, notes, sessions, post>>

NoNote == [status |-> "absent", resolver |-> NoPost, body |-> NoPost, sha |-> "none",
           end |-> 0]
NoSession == [open |-> "absent", fresh |-> FALSE]
FreshPost == [pc |-> "ready", row |-> NoPost, sha |-> "none", end |-> 0]

NoteInit ==
  /\ text \in Bodies2
  /\ notes = [p \in Posts |-> NoNote]
  /\ sessions = [p \in Posts |-> NoSession]
  /\ post = [p \in Posts |-> FreshPost]

Receive(p, read) ==
  /\ post[p].pc = "ready"
  /\ post' = [post EXCEPT ![p] = read]
  /\ UNCHANGED <<text, notes, sessions>>

AnswerPost(p) == post' = [post EXCEPT ![p].pc = "done"]

\* A replacement file is uploaded: the body changes under the notes.
ReplaceBody ==
  /\ \E b \in Bodies2 : b # text /\ text' = b
  /\ UNCHANGED <<notes, sessions, post>>
-----------------------------------------------------------------------------
(* Comments.                                                               *)

\* Mutant: the hash is the one of the text when the row is written.
MutInsertComment(p) ==
  /\ post[p].pc = "insert"
  /\ notes' = [notes EXCEPT ![p] =
       [status |-> "open", resolver |-> NoPost, body |-> p,
        sha |-> IF post[p].sha = "none" THEN "none" ELSE text,
        end |-> post[p].end]]
  /\ AnswerPost(p)
  /\ UNCHANGED <<text, sessions>>

\* post_document_comment up to its checks: an anchor lies in the text that is
\* read here, and the note takes the hash of that text.
PostComment(p) ==
  \/ Receive(p, [FreshPost EXCEPT !.pc = "insert"])
  \/ \E end \in 1..Length[text] :
       Receive(p, [FreshPost EXCEPT !.pc = "insert", !.sha = text, !.end = end])

InsertComment(p) ==
  /\ post[p].pc = "insert"
  /\ notes' = [notes EXCEPT ![p] =
       [status |-> "open", resolver |-> NoPost, body |-> p, sha |-> post[p].sha,
        end |-> post[p].end]]
  /\ AnswerPost(p)
  /\ UNCHANGED <<text, sessions>>

\* A comment is read and its status checked: an open one may be patched or
\* resolved, a resolved one reopened.
LoadComment(p) ==
  \E n \in Posts :
    \/ notes[n].status = "open" /\ Receive(p, [FreshPost EXCEPT !.pc = "patch", !.row = n])
    \/ notes[n].status = "open" /\ Receive(p, [FreshPost EXCEPT !.pc = "resolve", !.row = n])
    \/ notes[n].status = "resolved" /\ Receive(p, [FreshPost EXCEPT !.pc = "reopen", !.row = n])

\* Only the body of the note is written.
PatchComment(p) ==
  /\ post[p].pc = "patch"
  /\ notes' = [notes EXCEPT ![post[p].row].body = p]
  /\ AnswerPost(p)
  /\ UNCHANGED <<text, sessions>>

ResolveComment(p) ==
  /\ post[p].pc = "resolve"
  /\ notes' = [notes EXCEPT ![post[p].row].status = "resolved",
                            ![post[p].row].resolver = p]
  /\ AnswerPost(p)
  /\ UNCHANGED <<text, sessions>>

ReopenComment(p) ==
  /\ post[p].pc = "reopen"
  /\ notes' = [notes EXCEPT ![post[p].row].status = "open",
                            ![post[p].row].resolver = NoPost]
  /\ AnswerPost(p)
  /\ UNCHANGED <<text, sessions>>
-----------------------------------------------------------------------------
(* Edit sessions of one browser client.                                    *)

\* _active_edit_sessions: not ended, and seen within 90 seconds.
ActiveSessions ==
  {s \in Posts : sessions[s].open = "yes" /\ sessions[s].fresh}

\* post_document_edit_session reads the open row of the client, if any.
LoadSession(p) ==
  LET open == {s \in Posts : sessions[s].open = "yes"}
  IN  \/ open = {} /\ Receive(p, [FreshPost EXCEPT !.pc = "start"])
      \/ \E s \in open : Receive(p, [FreshPost EXCEPT !.pc = "heartbeat", !.row = s])
      \/ \E s \in open : Receive(p, [FreshPost EXCEPT !.pc = "end", !.row = s])

StartSession(p) ==
  /\ post[p].pc = "start"
  /\ sessions' = [sessions EXCEPT ![p] = [open |-> "yes", fresh |-> TRUE]]
  /\ AnswerPost(p)
  /\ UNCHANGED <<text, notes>>

\* Only last_seen_at is written.
Heartbeat(p) ==
  /\ post[p].pc = "heartbeat"
  /\ sessions' = [sessions EXCEPT ![post[p].row].fresh = TRUE]
  /\ AnswerPost(p)
  /\ UNCHANGED <<text, notes>>

EndSession(p) ==
  /\ post[p].pc = "end"
  /\ sessions' = [sessions EXCEPT ![post[p].row].open = "ended"]
  /\ AnswerPost(p)
  /\ UNCHANGED <<text, notes>>

\* 90 seconds pass without a heartbeat.
SessionAges ==
  \E s \in Posts :
    /\ sessions[s].fresh
    /\ sessions' = [sessions EXCEPT ![s].fresh = FALSE]
    /\ UNCHANGED <<text, notes, post>>

NoteNext ==
  \/ \E p \in Posts :
       \/ PostComment(p)
       \/ InsertComment(p)
       \/ LoadComment(p)
       \/ PatchComment(p)
       \/ ResolveComment(p)
       \/ ReopenComment(p)
       \/ LoadSession(p)
       \/ StartSession(p)
       \/ Heartbeat(p)
       \/ EndSession(p)
  \/ ReplaceBody
  \/ SessionAges

NoteSpec == NoteInit /\ [][NoteNext]_noteVars
-----------------------------------------------------------------------------
(* Properties.                                                             *)

\* A note that carries the hash of the present text points into that text,
\* whatever file was uploaded while it was being saved.
AnchorInText ==
  \A n \in Posts : notes[n].status # "absent" /\ notes[n].sha = text
                     => notes[n].end \in 1..Length[text]
=============================================================================
