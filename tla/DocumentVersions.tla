-------------------------- MODULE DocumentVersions --------------------------
(***************************************************************************)
(* The versions of one document: edits proposed by the model, accepted and *)
(* rejected one by one or in bulk, texts saved by hand or from the shared  *)
(* working draft, replacement files, restored and replicated versions.     *)
(*                                                                         *)
(* Every request is a transaction under READ COMMITTED: each SELECT is a   *)
(* step, what a request writes is seen by the others when it commits.  The *)
(* unique index on (document_id, version_number) makes the second of two   *)
(* writers of one number fail (500) and roll back.                         *)
(***************************************************************************)
EXTENDS DocumentRows, FiniteSetsExt

VARIABLES
  versions,  \* document_versions
  edits,     \* document_edits: status by edit
  skips,     \* edits with a document.edit.resolution_skipped row
  document,  \* the documents row: the active file
  body,      \* the extracted DocumentBody
  draft,     \* document_working_drafts
  req        \* requests

docVars == <<versions, edits, skips, document, body, draft, req>>

NoDraft == [counter |-> 0, text |-> NoText]

DraftOps == {"put_draft", "commit_draft"}
ResolveOps == {"accept", "reject", "accept_all", "reject_all"}
Ops == {"none", "propose", "save", "upload", "restore", "replicate"}
         \cup DraftOps \cup ResolveOps

Idle == [pc |-> "idle", op |-> "none", of |-> Original, staged |-> {},
         num |-> 0, text |-> NoText, file |-> NoFile, seen |-> NoDraft,
         clear |-> FALSE]

\* An upload: v1 keeps the file and no text, the body has the text.
DocInit ==
  LET f == FileOf(Original, TRUE)
  IN  /\ versions = {Version(1, "upload", Original, Original, NoText, f,
                              "")}
      /\ edits = [e \in Edits |-> "none"]
      /\ skips = {}
      /\ document = f
      /\ body = Extract(f)
      /\ draft = NoDraft
      /\ req = [r \in Editors |-> Idle]
-----------------------------------------------------------------------------
Latest == Max({v.number : v \in versions})

TextVersions == {v \in versions : v.text # NoText}

\* get_base_text
BaseText == IF TextVersions # {} THEN Newest(TextVersions).text ELSE IF body # NoText THEN body
            ELSE EmptyText

Step(r, pc) == req' = [req EXCEPT ![r].pc = pc]

Begin(r, q) ==
  /\ req[r].pc = "idle"
  /\ req' = [req EXCEPT ![r] = q]
  /\ UNCHANGED <<versions, edits, skips, document, body, draft>>

\* propose_edits up to the model call: refused without an extracted text.
CanPropose == body # NoText

\* POST edit-instructions; a refusal or a provider error rolls back.
Propose(r) == CanPropose /\ Begin(r, [Idle EXCEPT !.op = "propose", !.pc = "number"])

\* _create_user_edit_version: a text becomes the next version.
CreateUserEdit(r, op, text, clear) ==
  Begin(r, [Idle EXCEPT !.op = op, !.pc = "number", !.text = text, !.clear = clear])

\* POST versions/manual
SaveManual(r) == CreateUserEdit(r, "save", TextOf(r), FALSE)

\* POST workspace
SaveWorkspace(r) == CreateUserEdit(r, "save", TextOf(r), FALSE)

\* POST versions/upload: the bytes are stored before the number is read.
Upload(r) ==
  \E readable \in BOOLEAN :
    LET f == FileOf(r, readable)
    IN  Begin(r, [Idle EXCEPT !.op = "upload", !.pc = "number", !.text = Extract(f),
                              !.file = f])

\* POST versions/{id}/restore
Restore(r) ==
  \E v \in versions :
    /\ Restorable(v)
    /\ Begin(r, [Idle EXCEPT !.op = "restore", !.pc = "number", !.text = RestoredText(v),
                             !.file = RestoredFile(v)])

\* handle_replicate_document: the number comes from the version it copies.
Replicate(r) ==
  LET v == Newest(versions)
  IN  Begin(r, [Idle EXCEPT !.op = "replicate", !.pc = "write", !.num = v.number + 1,
                            !.file = IF v.file # NoFile THEN v.file ELSE document])

\* Mutant: a replacement file is checked against no version number.
MutNumberTaken(r) == FALSE

\* The unique index on (document_id, version_number).
NumberTaken(r) == \E v \in versions : v.number = req[r].num

\* coalesce(max(version_number), 0) + 1.  For a proposal this follows the
\* model call.
ReadNumber(r) ==
  /\ req[r].pc = "number"
  /\ req' = [req EXCEPT ![r].pc = "write", ![r].num = Latest + 1]
  /\ UNCHANGED <<versions, edits, skips, document, body, draft>>

KindOf(op) == CASE op = "propose"   -> "assistant_edit"
                [] op \in {"save", "commit_draft"} -> "user_edit"
                [] op = "upload"    -> "upload"
                [] op = "restore"   -> "restored"
                [] op = "replicate" -> "replicated"
                [] op = "accept_all" -> "user_accept"
                [] op = "reject_all" -> "user_reject"

Verdict(op) == IF op \in {"accept", "accept_all"} THEN "accepted"
               ELSE "rejected"

Resolved(r) == [e \in Edits |-> IF e \in req[r].staged THEN Verdict(req[r].op)
                                ELSE edits[e]]

\* The insert is refused: 500, and everything of the transaction is undone.
Conflict(r) ==
  /\ req[r].pc \in {"write", "close"}
  /\ NumberTaken(r)
  /\ Step(r, "failed")
  /\ UNCHANGED <<versions, edits, skips, document, body, draft>>

\* The document row and its body follow a new file.
MoveActive(q) ==
  IF q.op \in {"upload", "restore"}
  THEN document' = q.file /\ body' = q.text
  ELSE UNCHANGED <<document, body>>

\* The model proposes some edits, or an answer that does not parse and none.
WithPending(r) ==
  {[e \in Edits |-> IF e \in {r} \X (1..n) THEN "pending" ELSE edits[e]] :
     n \in 0..PerProposal}

\* Flush and commit of a new version and of what moves with it.
Write(r) ==
  LET q == req[r]
  IN  /\ q.pc = "write"
      /\ ~ NumberTaken(r)
      /\ versions' = versions \cup
           {Version(q.num, KindOf(q.op), r,
                    IF q.op \in ResolveOps THEN q.of ELSE r, q.text, q.file,
                    IF q.op \in ResolveOps THEN "placeholder" ELSE "")}
      /\ MoveActive(q)
      /\ edits' \in IF q.op = "propose" THEN WithPending(r) ELSE {Resolved(r)}
      /\ draft' = IF q.clear THEN NoDraft ELSE draft
      /\ Step(r, "done")
      /\ UNCHANGED skips
-----------------------------------------------------------------------------
(* The shared working draft.                                               *)

\* PUT draft: 409 unless the counter the client sends, if it sends one, is the
\* counter of the row as it is read here.
LoadDraft(r) == Begin(r, [Idle EXCEPT !.op = "put_draft", !.pc = "write_draft", !.seen = draft])

\* INSERT if there was no row, else UPDATE of the row that was read.
WriteDraft(r) ==
  /\ req[r].pc = "write_draft"
  /\ (req[r].seen = NoDraft) = (draft = NoDraft)
  /\ draft' = [counter |-> req[r].seen.counter + 1, text |-> TextOf(r)]
  /\ Step(r, "done")
  /\ UNCHANGED <<versions, edits, skips, document, body>>

\* The row was inserted, or deleted, since it was read.
DraftConflict(r) ==
  /\ req[r].pc = "write_draft"
  /\ (req[r].seen = NoDraft) # (draft = NoDraft)
  /\ Step(r, "failed")
  /\ UNCHANGED <<versions, edits, skips, document, body, draft>>

\* POST draft/commit: the text is taken from the row; the number is read next.
CommitDraft(r) ==
  /\ draft # NoDraft
  /\ \E clear \in BOOLEAN :
       CreateUserEdit(r, "commit_draft", draft.text, clear)
-----------------------------------------------------------------------------
(* Accepting and rejecting.                                                *)

Proposals == {v \in versions : v.kind = "assistant_edit"}
EditsOf(p) == {e \in Edits : e[1] = p /\ edits[e] # "none"}
PendingOf(p) == {e \in EditsOf(p) : edits[e] = "pending"}

\* post_accept_edit and post_reject_edit
ResolveOne(r) ==
  \E v \in Proposals, op \in {"accept", "reject"} : \E e \in EditsOf(v.by) :
    Begin(r, [Idle EXCEPT !.op = op, !.pc = "lock", !.of = v.by, !.staged = {e}])

\* post_accept_all and post_reject_all
ResolveAll(r) ==
  \E v \in Proposals, op \in {"accept_all", "reject_all"} :
    Begin(r, [Idle EXCEPT !.op = op, !.pc = "lock", !.of = v.by])

\* Mutant: no advisory lock.
MutVersionLockFree(p) == TRUE

\* _take_advisory_lock: per version, until the end of the transaction.
VersionLockFree(p) ==
  \A q \in Editors : ~ /\ req[q].op \in ResolveOps
                       /\ req[q].of = p
                       /\ req[q].pc \in {"latest", "base", "number", "write",
                                         "close", "commit"}

\* UPDATE ... WHERE status = 'pending', then the count of what is pending.
\* 409 when a single edit is no longer pending.
MarkEdits(r) ==
  LET q == req[r]
      hit == IF q.op \in {"accept", "reject"} THEN q.staged \cap PendingOf(q.of)
             ELSE PendingOf(q.of)
  IN  /\ q.pc = "lock"
      /\ VersionLockFree(q.of)
      /\ req' = [req EXCEPT
           ![r].staged = hit,
           ![r].pc = IF q.op \in {"accept", "reject"} /\ hit = {} THEN "failed"
                     ELSE IF PendingOf(q.of) \ hit # {} THEN "commit"
                     ELSE "latest"]
      /\ UNCHANGED <<versions, edits, skips, document, body, draft>>

NumberOf(p) == (CHOOSE v \in Proposals : v.by = p).number

\* The re-entrancy guard: close only if no version followed the proposal.
\* A bulk request that may not close looks for a text to answer with, and
\* adds a placeholder version if there is none.
ReadLatest(r) ==
  LET q == req[r]
      newer == Latest > NumberOf(q.of)
      bulk == q.op \in {"accept_all", "reject_all"}
  IN  /\ q.pc = "latest"
      /\ req' = [req EXCEPT
           ![r].num = Latest + 1,
           ![r].pc = IF ~ newer THEN "base"
                     ELSE IF bulk /\ TextVersions = {} THEN "number"
                     ELSE "commit",
           ![r].text = IF newer /\ bulk THEN BaseText ELSE NoText]
      /\ UNCHANGED <<versions, edits, skips, document, body, draft>>

\* get_base_text
ReadBase(r) ==
  /\ req[r].pc = "base"
  /\ req' = [req EXCEPT ![r].pc = "close", ![r].text = BaseText]
  /\ UNCHANGED <<versions, edits, skips, document, body, draft>>

\* Mutant: the closing version is numbered when it is written.
MutClose(r) ==
  LET q == req[r]
      accepted == {e \in EditsOf(q.of) : Resolved(r)[e] = "accepted"}
  IN  /\ q.pc = "close"
      /\ \E skipped \in SUBSET accepted :
           /\ q.text = EmptyText => skipped = accepted
           /\ versions' = versions \cup
                {Version(Latest + 1, IF accepted # {} THEN "user_accept"
                                     ELSE "user_reject", r, q.of,
                         ApplyAccepted(q.text, accepted, skipped), NoFile,
                         "resolved")}
           /\ skips' = skips \cup skipped
      /\ edits' = Resolved(r)
      /\ Step(r, "done")
      /\ UNCHANGED <<document, body, draft>>

\* _maybe_close_version: the closing version, one row per skipped edit, the
\* statuses, committed together.
Close(r) ==
  LET q == req[r]
      accepted == {e \in EditsOf(q.of) : Resolved(r)[e] = "accepted"}
  IN  /\ q.pc = "close"
      /\ ~ NumberTaken(r)
      /\ \E skipped \in SUBSET accepted :
           /\ q.text = EmptyText => skipped = accepted
           /\ versions' = versions \cup
                {Version(q.num, IF accepted # {} THEN "user_accept"
                                ELSE "user_reject", r, q.of,
                         ApplyAccepted(q.text, accepted, skipped), NoFile,
                         "resolved")}
           /\ skips' = skips \cup skipped
      /\ edits' = Resolved(r)
      /\ Step(r, "done")
      /\ UNCHANGED <<document, body, draft>>

\* Only the statuses are committed.
CommitMarks(r) ==
  /\ req[r].pc = "commit"
  /\ edits' = Resolved(r)
  /\ Step(r, "done")
  /\ UNCHANGED <<versions, skips, document, body, draft>>

\* An exception, a lost connection or a restart: the transaction is undone.
DocAbort(r) ==
  /\ req[r].pc \notin {"idle", "done", "failed"}
  /\ Step(r, "failed")
  /\ UNCHANGED <<versions, edits, skips, document, body, draft>>

DocStep(r) ==
  \/ ReadNumber(r)
  \/ Conflict(r)
  \/ Write(r)
  \/ WriteDraft(r)
  \/ DraftConflict(r)
  \/ MarkEdits(r)
  \/ ReadLatest(r)
  \/ ReadBase(r)
  \/ Close(r)
  \/ CommitMarks(r)

DocNext ==
  \E r \in Editors :
    \/ Propose(r)
    \/ SaveManual(r)
    \/ SaveWorkspace(r)
    \/ Upload(r)
    \/ Restore(r)
    \/ Replicate(r)
    \/ LoadDraft(r)
    \/ CommitDraft(r)
    \/ ResolveOne(r)
    \/ ResolveAll(r)
    \/ DocStep(r)
    \/ DocAbort(r)

DocSpec == DocInit /\ [][DocNext]_docVars
-----------------------------------------------------------------------------
(* Properties.                                                             *)

\* "Two tabs both resolving the second-to-last edit": whichever requests
\* resolve the last edits of a proposal, one by one or in bulk and in whatever
\* order, a proposal without pending edits is never left as the newest
\* version, and at most one version closes it.
ResolvedIsClosed ==
  \A v \in Proposals :
    /\ EditsOf(v.by) # {} /\ PendingOf(v.by) = {} => Latest > v.number
    /\ Cardinality({w \in versions : /\ w.kind \in {"user_accept", "user_reject"}
                                     /\ w.of = v.by}) <= 1

\* The text of a closing version continues the newest text before it: a text
\* saved while the edits were being resolved is not lost in it.
ClosingContinues ==
  \A v \in versions : v.notes = "resolved" =>
    LET before == {w \in TextVersions : w.number < v.number}
    IN  before # {} =>
          LET t == Newest(before).text
          IN  t # EmptyText => /\ v.text.src = t.src
                               /\ t.applied \subseteq v.text.applied

\* "the active original file, hash, extracted body, and version history move
\* forward together": the active file is the newest file of the history and
\* the body is its text.
ActiveMovesTogether ==
  /\ document = Newest({v \in versions : v.file # NoFile}).file
  /\ body = Extract(document)

-----------------------------------------------------------------------------
(* The history: version n at place n.                                      *)

NumberedVersions == [n \in 1..Latest |-> CHOOSE v \in versions : v.number = n]

Abstract == INSTANCE DocumentHistory WITH history <- NumberedVersions, status <- edits

\* Every request on the document that succeeds takes effect at once, when it
\* commits, on the history as it is then: a closing version continues what is
\* then the newest text, a replica copies the file that is then active, edits
\* are decided once, and the requests that fail leave no trace.
ImplementsHistory == Abstract!HistorySpec
=============================================================================
