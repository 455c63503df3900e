# Legalise: TLA+ specifications and proofs

Legalise is a matter-first legal workspace: a FastAPI backend over PostgreSQL,
object storage and an arq/Redis worker, in which every AI action is gated,
recorded in a hash-chained audit log and attached to one matter. This directory
specifies the parts of the backend (`src/backend/app`) whose correctness depends
on the order of steps of several actors.

## 1. Inventory

| Component | State | Operations | Hard behaviour | Correct when |
|---|---|---|---|---|
| Audit log and hash chain (`core/api.py`, migration 0030) | `audit_entries`, `audit_chain`, one advisory lock per scope | `audit.log`, flush, append trigger, commit, rollback, `audit_failure` | concurrent appends, lock order, out-of-band writers waiting on their own request | every committed chain verifies; rows of a session enter together or not at all; nobody waits for ever |
| Chain verification and export (`core/audit_chain.py`, `core/exports.py`, `core/export_chain_verifier.py`, `api/audit.py`, `api/matters.py`) | none of their own | `verify_audit_chain`, head hash, `build_matter_export`, `verify_chain.py` | several READ COMMITTED statements while rows are committed | no false alarm, no missed tampering, a pack verifies offline |
| Timeline and pack (`core/audit_reconstruction.py`, `api/audit.py`, `core/exports.py`) | a cursor; none in the database | `reconstruct` page by page, `get_reconstruction`, `build_matter_export` | one statement per table and page while rows with older and equal timestamps are committed | no committed row lost or repeated; the pack's timeline tells of all the pack shows |
| Prompt capability runtime (`api/invocations.py`, `core/prompt_runtime.py`, `core/runtime.py`, `core/matter_artifacts.py`) | the open transaction of a run, artifacts, object storage | invoke: gates, grant checks, model call, artifact | stale checks, partial failure, locks held across the model call | no call while paused, no artifact without grant, every end audited, every run answered |
| Model gateway, provider keys (`core/model_gateway.py`, `core/user_keys.py`, `api/settings.py`) | `user_api_keys` | `call`, add and delete a key | provider failure, row lock against advisory lock | as above |
| Posture gate, advice boundary, grants (`core/posture_gate.py`, `core/advice_boundary/gate.py`, `core/capabilities.py`, `core/grants_lifecycle.py`) | posture, decisions (WORM), grants | check, set, grant, revoke | check-then-act | a decision of any kind is recorded |
| Matter jobs, worker, lifecycle, uploads (`core/jobs.py`, `worker.py`, `api/exports.py`, `core/matter_lifecycle.py`, `core/document_uploads.py`, `core/indexing.py`) | `jobs` rows, the Redis queue, stored objects, `archived` | create, enqueue, run, update status, tombstone | lost and repeated deliveries, timeouts, crashes between commit and enqueue, check-then-act | jobs settle, terminal states stay, a deleted matter has no bytes |
| Document versions, edits, working draft (`modules/document_edit`, `api/document_routes`) | versions, edits, the draft, the active file and body | propose, resolve one or all, close, save, upload, restore, replicate | overlapping resolution, version numbers taken from a MAX | a resolved proposal is closed once and loses no saved text; the active file is the newest |
| Review notes and edit sessions (`api/document_routes/comments.py`, `edit_sessions.py`) | notes, sessions | post, patch, resolve, reopen; start, renew, end | the text is replaced while a note is saved | a note points into the text it names |
| Artifact review and sign-off (`core/reviews.py`, `core/signoff.py`) | `matter_reviews`, `matter_signoffs`, their audit rows | request, decide, open, sign | two reviewers deciding at once, duplicate opens | the trail says what the row says; the review window never shrinks |
| Assistant turn (`modules/assistant`) | threads, messages, rolling summary | turn, stream, tool call, summarise, save a draft | commits around the model call, out-of-band rows, abandoned streams | turns are whole, threads do not bleed, a turn does not wait for itself |
| Chronology (`modules/chronology`) | events, the acknowledgement | build, accept, reject, acknowledge, answer | derived taint, builds side by side | disclosed material is withheld, no event twice |
| Anonymisation (`modules/anonymisation`) | the redacted body and its mapping | run, delete | overlapping spans, re-runs over an old mapping | every answer can be undone |
| Matter context store (`core/matter_context`) | schemas, items, grants | register, write, supersede | races on versions and pointers | an item fits the schema it names, the trail explains the pointers |
| Trust ceremony and registry (`core/trust_ceremony.py`, `core/grants_lifecycle.py`, `api/module_routes`) | ceremonies in memory, installed modules, grants | start, advance, update, revoke, grant | process restart, commit after the state moved | nothing installed that no ceremony showed |
| External packs (`core/external_pack.py`) | matters, artifacts, objects | ingest | storage failure half-way | whole packs, honest grades |
| Contributed state machine (`contrib/state_machine`) | definitions, instances, transitions | register, create, transition | races, failing gates | history explains the state |
| Key rotation (`tools/rotate_encryption_key.py`, `core/encryption.py`) | `user_api_keys` | save, remove, rotate in batches | interruption, saves behind its back | no key lost, mixed up or brought back |
| Limits and throttle (`core/limits.py`, `core/rate_limit.py`) | counts of committed rows | check, commit, release, expire | counted before written | overshoot bounded by what is in flight |
| Accounts (`core/auth.py`, `core/oauth.py`, `core/magic_link.py`, `api/admin_users.py`) | users, tokens, demo matters, audit rows | register, verify, link, social sign-in, promote | several commits per handler, swallowed hooks | the trail is true, sessions are proved |
| Upload validation, retrieval, storage backends, catalogue, diagnostics, frontend | none that interleaves | - | - | out of scope, see section 7 |

Components call one another in one process; what they share is the database
(transactions, advisory locks, row locks), object storage and the Redis queue.
The audit log is underneath everything: almost every state change logs a row in
its own transaction, so its chain lock also orders the other components. The
models make this explicit.

## 2. Plan

Order, most important behaviour first:

1. `ChainRows`, `AuditChain`, `AuditLog` (refinement), `ChainReaders`,
   `TamperEvidence`: the audit substrate. *Done.*
2. `CapabilityRun`: an AI run from gates to artifact, on top of the locks of 1.
   *Done.*
3. `MatterJobs`: jobs, queue, worker, exports, tombstone and uploads of a
   matter; at-least-once delivery, timeouts, crashes; liveness of jobs. *Done.*
4. Work on a matter: `DocumentVersions`, `ReviewRecords`, `ReviewNotes`,
   `AssistantTurn`, `Chronology`, `Anonymisation`, `MatterContext`, `Timeline`,
   `MatterExport`; composed for checking in `MCMatterWork`. *Done.*
5. Around it: `ModuleManifests`, `ModuleRegistry`, `ExternalPack`, `StateMachines`,
   `ProviderKeys`, `UsageLimits`, `Accounts`; composed in `MCPlatform`. *Done.*
6. `DocumentHistory`, the abstract specification of the versions of a document, which
   `DocumentVersions` implements. *Done.*
7. Proofs: every safety property that a run checks, and both refinements (`AuditLog`,
   `DocumentHistory`). *Done.* Section 7 says what stays with TLC.

## 3. Modules

**`ChainRows`** holds what a row of the two audit tables is, what the trigger
computes for a new row (`NextRow`) and what the two verifiers report
(`VerifyIssues`, `PackProblems`). A hash is modelled by what it commits to: the
entry hash is the entry, the chain hash the sequence of links up to its row, so
hashes are collision free.

**`AuditChain`** is the database as its sessions see it. `Log` is `audit.log`
(`session.add`), `AutoFlush`/`BeginCommit`/`Insert` are the flush that a query
or a commit causes, one row at a time with the trigger's advisory lock, `Commit`,
`Rollback` and `DeadlockVictim` end a transaction and release its locks,
`AuditFailure`/`AuditFailureCommit` are the row that `audit_failure` writes on a
connection of its own while the request waits. `RuleObeyed` says whether callers
follow ADR-002 ("never hold the chain advisory lock across a long operation
that may spawn separate-connection audit writes").

**`AuditLog`** is the abstract specification: an append-only log per scope, in
which sessions commit all their rows or none and an out-of-band row is durable
before its request goes on. `AuditChain!ImplementsAuditLog` maps the log to the
chained entries, the pending rows to flushed and staged ones.

**`ChainReaders`** extends `AuditChain` with `verify_audit_chain` (two counts,
one join), the head hash of `GET /audit/chain` and the two reads of an export,
each statement a step.

**`TamperEvidence`** takes every committed state, applies every single edit,
deletion, insertion or reordering of the tables, and asks the verifier.

**`CapabilityRun`** is `POST /invocations` for the prompt runtime: the gates on
the matter the request loaded, the grant checks on committed grants, the flush
that takes the system and the matter lock before the model call, the posture the
gateway reads again, the key, the call, the artifact bytes, the commit; against
it the owner's requests (posture, grants, key), whose audit rows need the same
locks. Failures are a refusal, a missing key, a provider error, a storage error,
a database deadlock and a crash at any step.

**`MatterJobs`** is the life of the jobs of one matter. A request (`OpenMatter`,
`CountActive`, `CommitExport`, or `PutUpload`, `CommitUpload`) commits a job row and
then pushes its id to Redis (`Enqueue`, `MarkFailed`); the worker takes it
(`StartJob`) and builds a zip (`BuildExport`, `SucceedExport`, `FailExport`) or loads
the document, computes its chunks and commits them with the final status
(`LoadDocument`, `DocumentGone`, `CommitIndex`); arq closes the job, tries it again
after a lost worker, or gives up. Against it the owner deletes a document, reindexes
the matter, or deletes the matter (`OpenDelete`, `CheckActive`, `Purge`,
`CommitTombstone`), each transaction seeing only what was committed when its
statement ran. A copy of a document's chunks is named by the transaction that
inserted it, so two copies are two names. `Faults` says what may fail: the push to
Redis (before or after it took effect), the API process, the worker process, the job
timeout, the pipeline, object storage.

**`DocumentVersions`** is one document: `propose_edits` (`modules/document_edit/pipeline.py`),
resolving one edit or all of them under the advisory lock of the version,
`_maybe_close_version`, saving a text or the shared draft, replacing, restoring and
replicating files. Every SELECT is a step; the unique index on version numbers fails
the second writer. **`DocumentRows`** says what a text, a file and a version are and how one
is made from another.

**`DocumentHistory`** is the abstract specification of that component: a sequence of versions
and the statuses of the edits, without transactions, locks, or numbers read before they are
used. A request adds its version in one step, from the newest text, the active file and the
statuses of that moment (`AddText`, `AddFile`, `AddRestored`, `AddReplica`, `AddProposal`,
`CloseProposal`, `CloseLate`), or decides some edits (`DecideSome`).
`DocumentVersions!ImplementsHistory` puts version *n* at place *n*: a request takes effect at
its commit. The working draft, the skipped edits and what the requests have read are
internal to the implementation. The one version made from something read earlier is that
of a bulk request which finds a proposal followed, but no text to answer with
(`resolve_bulk`): it takes the text of *a* file of the history.

**`ReviewNotes`** is the comments and edit sessions of a document.

**`ReviewRecords`** is review and sign-off of one artifact: `request_review`,
`decide_review`, `record_review_opened`, `create_signoff`, each a read of committed rows and a
later commit with nothing locked in between, and a clock for the review window.

**`AssistantTurn`** is `POST /assistant` and its streaming twin: thread, budget,
retrieval row out of band, model call, tool call, second call, commit, rolling
summary. `lock` is the matter's chain lock, which flushed audit rows hold.

**`Chronology`** derives taint as the routes do, from separate reads of events,
documents and the acknowledgement; a build takes the chain lock with the row of its
model call. `leaked` is a history variable: what was answered in full without an
acknowledgement.

**`Anonymisation`** translates the span and token algorithms as operators over
sequences of words and runs them from overlapping requests. Replacement goes from right to
left with offsets of the original text, as in `tokenise` (`Replaced`, `Splice`). An answer is
undone with the spans it carries (`Undone`): a text may have words of its own that look like
tokens, so the mapping alone does not say which words of a redacted text to put back. **`MatterContext`** is the
store: schemas, items, supersession, the rows about them.

**`Timeline`** has the order of a matter's timeline over its three tables, the cursor
predicate of each table and the merge of a page, as operators. **`MatterExport`** has its
two readers: the export job, which reads one table per statement and pages through the
timeline last, and the inspector, whose every request adds a row to the log it reads.
Requests commit work meanwhile (`CommitWork`: a row with its audit entry, whose timestamp
was taken earlier; deleting a document takes its rows along). A row of the timeline is its
sort key.

**`ModuleManifests`** holds the pure functions over manifests (validation, signature
status, card, permission diff, v1 shim, dependencies); **`ModuleRegistry`** the
ceremony in process memory, the installed and grant tables and the requests that
read, flush and commit. `reviewed` is the history of manifests whose ceremony reached
ENABLED.

**`ExternalPack`** grades and ingests an export; **`StateMachines`** is the contributed
primitive; **`ProviderKeys`** the encrypted keys against the rotation tool;
**`UsageLimits`** the counters; **`Accounts`** the account handlers, commit by commit.

`MCAuditChain`, `MCChainReaders`, `MCTamperEvidence`, `MCCapabilityRun` and
`MCMatterJobs` declare the model values of the instances. `MCMatterWork` and
`MCPlatform` put the modules of steps 4 and 5 of the plan side by side. These write
different tables and share no variable; what couples them in the code, the chain lock
of the matter, is a variable of each module whose behaviour depends on it (elsewhere
it only orders commits, which are single steps). Their composition therefore is a
free interleaving, and every property speaks of one module: the variable `part`
picks, in the initial state, the module that moves, which loses no state of any one
module and keeps the state spaces from multiplying. Definitions named `Mut...` are
plausible bugs of the definition that follows them; no specification uses them.
`PROJECT.json` maps every other definition to the source lines it models.

## 4. Runs

| Run | Result | What it shows |
|---|---|---|
| `audit_chain` | pass | With callers that obey the lock rule: `ChainIntact` (the committed chain of every scope verifies), `NoSequenceCollision` (the unique indexes are never hit), and `WritesComplete` (every flush, commit and out-of-band write completes). The safety properties hold without the rule too: section 6 proves them, and the type invariant, for both values of `RuleObeyed`. |
| `chain_readers` | pass | What readers may rely on while rows are committed: only the counts of the verifier can be disturbed, a published head stays a committed row, a pack can only miss rows in `audit.json`. Callers may break the lock rule; the tables refine the abstract log (`ImplementsAuditLog`). |
| `export_pack` | violation | A commit between the two reads of an export makes the untampered pack fail its own verifier. |
| `tamper_evidence` | pass | Every single alteration is reported; a chain rebuilt over another history never ends at a head taken before. |
| `capability_run` | pass | `NoCallWhilePaused`, `ArtifactUnderGrant`, `OutcomeAudited`, `ArtifactBacked` under all failures, and `OnlyFailedCallsHang`: a started run ends unless some run awaits the failure row of its model call under its own lock. |
| `capability_run_hang` | violation | Without a key, or with a provider error, the run waits for its own out-of-band row for ever: it holds the matter's lock. |
| `matter_jobs` | pass | An export and an upload against every fault and every request of the owner: a succeeded export has its bundle (`SucceededHasBundle`), an indexed document has its chunks (`IndexedHasChunks`). |
| `matter_jobs_live` | pass | With Redis and pipeline failures and a concurrent reindex, every committed job reaches a terminal status (`JobsSettle`). |
| `bytes_remain` | violation | An upload or export admitted before a tombstone stores its bytes after the purge: the matter is deleted and the bytes are there. |
| `matter_work` | pass | Documents: `ResolvedIsClosed`, `ActiveMovesTogether`, `ImplementsHistory`. Reviews: `TrailExplainsReview`, `WindowNeverShrinks`. Notes: `AnchorInText`. Assistant: `NoSelfWait`, `NoBleed`, `WholeTurns`. Chronology: `TaintWithheld`, `NoDuplicateEvents`. Anonymisation: `AnswersRestore`. Context: `ContextExplained`. Timeline and export: `PackExplained`. |
| `disclosed_shown` | violation | Deleting a disclosed document un-taints its events: they are answered in full without an acknowledgement. |
| `platform` | pass | Registry: `NothingUnreviewed`. Packs: `GradesHonest`, `PackWhole`. State machines: `StateExplained`. Keys: `KeysKept`. Limits: `OvershootBounded`. Accounts: `AccountTrailTrue`, `SessionsProved`. |

The violations are disagreements between the code and what its documentation
says; `PROJECT.json` quotes both sides. Further disagreements met while
modelling, all reachable in these models, that have no run of their own:

- `verify_audit_chain` counts entries and chain rows in two statements; a commit
  between them is answered as `count_mismatch` on an intact chain
  (`OnlyCountsDisturbed` shows that nothing else can be disturbed).
- `POST /invocations` turns `AdviceBoundaryDenied` into a 403 without a commit
  (`api/invocations.py:279`), so the refused decision is rolled back, although
  `docs/ARCHITECTURE.md:171` says that every decision, pass or fail, writes a row.
- A failure after the model answered (storage, deadlock with a key deletion)
  rolls the `model.call` row back (`core/matter_artifacts.py:119`).
- A document deleted while its index job runs makes the job's last commit fail
  outside the `try` of `run_job` (`worker.py:129`): arq drops the job, the row
  stays `running`. `JobsSettle` is therefore checked without document deletes.
- `run_job` sets `RUNNING` whatever the status is (`worker.py:94`): a job that arq
  delivers again leaves `succeeded`.
- An index job queued before a tombstone runs on the archived matter and succeeds
  (`worker.py:76`), although `core/matter_lifecycle.py:102` says that it fails.
- A reindex that overlaps an index job leaves two copies of the chunks, although
  `core/indexing.py:49` calls it idempotent.
- Checks of counts (active jobs, daily limits, throttle) are exceeded by requests that
  overlap; `OvershootBounded` says by how much. The audit row of the "first rejection
  in a window" (`core/rate_limit.py:38`) is then written several times or never.
- Documents: two saves of the shared draft that read one `version_counter` both
  succeed, the first is lost; a note can be edited by a PATCH that read it before it
  was resolved; a version upload re-creates neither chunks nor the redacted body.
- Reviews: two requests for a review of one artifact leave two pending ones; with
  `SIGNOFF_AUTHOR_MUST_DIFFER` an output its owner authored can never be signed,
  since only the owner may sign; of two racing sign-offs the one "newly created" need
  not be the current one (`api/signoffs.py`).
- Export: artifacts are read before sign-offs (`core/exports.py:590`), so an output made
  and signed in between counts as signed without being in the pack, and
  `unsigned_count` (`core/exports.py:676`) is one short of the drafts that
  `WORKING_PACK.md` says it counts; edits are read after versions, so an edit may
  show as resolved without the version that closed it.
- Timeline: a row that commits during the paging with a timestamp before the cursor is
  not shown; each page of the audit endpoint adds a row, so with `limit=1` a client that
  follows the cursor never gets to the end.
- Assistant: after a tool has run, a missing key or a provider error is awaited for
  ever under the turn's own chain lock (`NoSelfWait` excludes those turns); messages
  of concurrent turns do not alternate (`models/assistant.py:3`); the rolling summary of
  one turn overwrites another's; only the call of the summary is inside the `try`, so a
  failing write of it fails a turn that is already committed; saving a draft twice at
  once answers 500.
- Chronology: an event for which the model names no source is never tainted.
- Anonymisation: a run that finds nothing wipes the mapping, so token assignments do
  change without a delete (`mapping.py` says they never do); two runs can leave a text
  and a mapping that do not belong together.
- Matter context: two supersessions of one item fork the chain; registering a schema
  twice at once answers 500.
- Registry: the comment at `core/grants_lifecycle.py:27` orders `required` below
  `delegated`, the table orders them the other way; a commit that fails after
  `persisted = True` leaves a ceremony ENABLED for ever without a row; an update in
  place keeps the old `signature_status` without checking the new signature; a grant
  that races with a revocation stays on the disabled module; a v1 entry in the
  catalogue ends dependency resolution with a `TypeError`.
- State machines: of two concurrent transitions the later one may leave a terminal
  state; only an exception of a gate leaves a `failed` row.
- Keys: a key saved during a rotation is overwritten with its predecessor or left
  under the old secret; the advice for resuming an interrupted run
  (`tools/rotate_encryption_key.py`) fails its own preflight, which opens every row with
  the old secret.
- Accounts: a magic link works as often as it is used before it expires; a
  registration whose mail fails has no row; the `verified` row is lost when seeding the
  demo matter fails in the database; the token and its `logged_in` row are committed one
  after the other; two runs of `bootstrap_admin` make two administrators.
- `tools/retention_sweep.py:128` reads the next matter's slug outside the `try`, after a
  rollback has expired it: one failed matter ends the sweep.

## 5. Bounds and fairness

*Bounds.* Two sessions suffice for every pairwise interleaving and for the
opposite lock order on two scopes (one matter, one system); four entry ids let
both sessions hold two rows, or three and an out-of-band row. Chain readers use
three ids, because a reader has at most two places where a commit can slip in.
Two runs, one gated and one not, one with and one without documents, meet every
combination of lock holder and waiter. The number of posture, grant and key
changes is not bounded. An id is reused after a rollback, which no table can
notice. `matter_jobs` has one job of each kind, since jobs meet only through the
matter, its storage prefix and the cap; `matter_jobs_live` has two exports for a cap
of one. `MaxTries` is 2 in place of arq's 5: a second try is the first that meets the
leftovers of an earlier one. One document delete per upload, one reindex and one
matter delete at a time.

In `matter_work` three requests act on one document, review, note, store or assistant
thread set, so that two can race while a third observes or adds a version;
one document is disclosed and one is not; three commits over the three tables of the timeline
with two timestamps and pages of one entry give ties across and within tables, on both
sides of a cursor, and the inspector asks twice; the anonymised text repeats a word, with up
to three spans of up to two words, and two requests make three runs, so that a run
meets a mapping two others wrote. The window of the assistant is one message, so
that messages age out at once. In `platform` two requests drive two ceremonies with
one failing commit; one update drops a gate and the other asks for more; the exports of
a pack are all combinations of one or two documents, stated or missing hashes, and
matching or other files; rotation works in batches of one row of two, twice; limits are 1
(2 for bytes), reached by one request. `KeyedPublishers` has a publisher although the
registry at this commit holds no key, to reach the verified path. `MaxOpen`,
`MaxProposals`, `MaxRedactions`, `MaxCeremonies`, `MaxFailures`, `MaxSaves`, `MaxRuns`,
`MaxDays`, `MaxWorks`, `MaxTime` and `MaxClock` bound what a behaviour does, not what a state may be.

The document of `matter_work` has three requests: a proposal, one that resolves it, and one that adds
a version in between, which is what it takes to make each of `CloseProposal` and `CloseLate`
read something stale; a request with more to do is several requests here. The proof has no such bound.

*Symmetry* is used in `matter_work` and `platform`, over interchangeable requests (and
addresses, and new master keys): no constant, initial state or property tells them
apart. The pairs are swapped together with the odd permutations of the three requests
`w1`, `w2`, `w3`: a group of six and not of forty-eight, as sound and faster. Of the two
properties of steps in `matter_work`, `WindowNeverShrinks` is about `Tasks`, which are strings and not
permuted, and `ImplementsHistory` is a refinement without fairness that names no request. The other runs use none: they check temporal properties or are small.

*Fairness.* Strong fairness on taking a lock stands for PostgreSQL's lock queue;
weak fairness on the other steps of a started request stands for the event loop
and for providers and drivers with timeouts; the deadlock detector is weakly
fair. No fairness is assumed for starting a request, for a crash, or for an
owner's change, except that a started key deletion commits. Marking a key used is
strongly fair as well: it waits for the key's row lock, which is granted in queue order.
The modules of `matter_work` and `platform` have safety properties only.
In `MatterJobs` the steps of a started request and of the worker are weakly fair
(the event loop and arq's poll loop go on); faults, requests of the owner and the
start of a request are not. `JobsSettle` is checked without API crashes, lost workers
and timeouts: no reaper looks for rows that these leave `queued` or `running`.
`CHECK_DEADLOCK FALSE` because sessions and runs really may stop when all work is
done or ids are used up.

## 6. Proofs

`AuditChainProofs` proves, for every set of sessions, scopes, ids and contents
(the only assumptions are that `System` is no matter and `NoConn` no session), the
type invariant, `NoSequenceCollision` and `ChainIntact`. `ChainIntact` speaks of
committed rows only and says nothing of what the next commit will add, so the
inductive invariant `IInv` describes open transactions too: `Locks` (rows of an open
transaction exist only under the lock of their scope), `Chains` (what each session
sees of a scope is a good chain: numbered from 1, linked, recomputable, no entry
twice), `Entries` (the inserted entries of a session, and the committed ones, are
exactly the chained ones), `FreshIds` (tables and sessions never share an id) and
`Aside` (a request waits for exactly one out-of-band row). The trigger preserves
`Chains` because the lock makes what it reads the last word on the scope
(`AppendGood`, `InsertStep`); a commit preserves it because no other session can have
rows in the scopes it commits (`CommitStep`).

`AuditChainRefinement` proves `ImplementsAuditLog` from `IInv` and `Pending` (a
commit in progress has rows to commit): a flush is a stutter, a commit extends each
log by exactly the session's rows, an out-of-band commit by its one row.

`CapabilityRunProofs` proves, for every set of runs and every choice of the
other constants, the type invariant, `NoCallWhilePaused`, `OutcomeAudited`,
`ArtifactBacked` and `ArtifactUnderGrant`. None of them is inductive by itself.
The inductive invariant `IInv` adds `LockHeld` (from the flush before the call to
its end a run holds the matter's lock), `Protected` (what it read under that lock
still holds) and `Logged` (what it has logged, stored and been answered at each
step). `LockHeld` is the heart of it: the owner's changes need the lock.

`ChainEvidenceProofs` builds on the `IInv` of the audit log. The readers
(`OnlyCountsDisturbed`, `PublishedHeadStays`, `OnlyLogBehindChain`) need two facts: the
checks of a row never fail on a good chain (`RowsClean`), and between two statements of a
reader the tables only grow (`TablesGrow`); `ReaderInv` keeps what a reader has collected.
`TamperEvident` and `HeadPinsHistory` are about one state, and quantify over rewritten
tables of any size. `Links` says that a row's hash is the sequence of all links up to it:
so equal heads have equal histories (`HeadPins`), and each family of alterations is shown
to leave a row whose own checks fail, or two counts that differ.

`MatterJobsProofs` proves the type invariant, `SucceededHasBundle` and `IndexedHasChunks`
for any set of exports and uploads, any limits and every set of faults. `JobsInv` adds
`Built`: what the worker has put is there until a purge begins.

`DocumentVersionsProofs` proves `ResolvedIsClosed`, `ActiveMovesTogether` and `ClosingContinues`
(which TLC checks as part of `ImplementsHistory`: a closing continues the text that is then the newest) for any finite set of editors and any number of edits per proposal.
No lock covers the numbering, so `DocInv` says what takes its place: numbers are 1, 2, ...
without a gap (`Numbered`), hence a request whose number is still free has seen every
version, and what it read of the history, the text a closing continues or the file a
replica copies, is still so when it writes (`ReqSound`). One whose reading is stale has
a number that is taken, and fails on the unique index. `Closed` and `Separate` do the same
for the statuses of the edits, which the advisory lock of the version protects.

The same module proves that the versions implement `DocumentHistory` (`VersionsAreHistory`).
Numbers without a gap make the set of versions a sequence, to which a commit appends
(`HistoryIs`, `HistoryGrows`). For the step of a commit, `DocInv` gives what the closing text and
the copied file are then; `HistInv` adds where every other text and file comes from, that
a request past the lock which may add a version decides all that is pending, and that its
number is the one after the proposal it closes (`Exact`). Each way to commit is then one abstract
step (`WriteRefines`, `CloseRefines`, `CommitMarksRefines`); all other steps are stutters.

`MatterWorkProofs` has seven modules. `ReviewNotes`: `AnchorInText`; a request carries the
hash of the text it measured. `ReviewRecords`: `TrailExplainsReview`, because
a decision changes the row and logs its own name in one commit, so the last row of the trail
about a review is that of its state (`Explained`), and the action property
`WindowNeverShrinks`. `Chronology`: `NoDuplicateEvents`, because the row of the model call
takes the chain lock before the events are read and holds it to the commit (`News`), and
`TaintWithheld`, because a request behind the gate knows, of all events whose source was
found, which are from disclosure (`Derived`). `AssistantTurn`: `NoSelfWait` (`LockedByTool`: only a tool
flushes a turn's rows before its last model call), `NoBleed` (`Separate`: windows and summaries have messages
of their thread, whatever turns fold and overwrite them) and `WholeTurns` (what
a turn has written at each stage). `MatterContext`: `ContextExplained`. No lock orders two
requests that supersede the same item, so a pointer may be overwritten; what holds is that
it leads to an item created later in the trail than the one it is on (`Forward`). So the
pointers have no cycle, and the item of a chain that was created last is live. A
request that has resolved its schema holds a row that versions registered later leave alone
(`AskSound`).
`MatterExport`: `PackExplained`, for any page size and works. A statement returns at most a page and
one row of its table, so a row that is missing from what was pulled has more than a page of
pulled rows before it (`Pulled`) and cannot belong to the page that is cut: up to the next cursor
nothing is left out, whatever commits meanwhile (`HandedOut`). `ShownIsTold` carries the
audit row of everything the files have shown to the last page, and `ReaderOrder` says that the timeline
is asked only after them. `Anonymisation`: `AnswersRestore`, for any text and any spans the
finders may come up with. The replacement is undone by a witness and not by computing it:
`UndoneFrom` says, after the spans from a place to the right have been replaced, which piece of the
original each word stands for; one more replacement shifts the pieces behind it
(`UndoneStep`), and the leftmost leaves the whole text explained. Numbers go on after every
number of a mapping, so a new token is new and the tokens stay one to one (`TokensHold`).

`PlatformProofs` has six more. `Accounts`: `AccountTrailTrue` and `SessionsProved`; nothing
takes back what a row of the trail says (`Grown`), so a row need only be true when it enters a
session, and `ActSound` says what a handler knows at each commit. `ProviderKeys`: `KeysKept`;
a row that a run read is recognised by its owner and id (`PlainKept`), so the write-back
cannot resurrect or mix up keys. `ExternalPack`: `GradesHonest` and `PackWhole`, for any set
of exports whose documents and files are lists: grades are read off the normalised export,
rows are counted one by one (`PackSound`). `ModuleRegistry`: `NothingUnreviewed`, for any set of manifests;
`RegistryInv` says that the process's ceremonies have shown exactly what they will
install (`CeremoniesSound`) and that a waiting transaction installs what was reviewed
(`TxnSound`), and permission diffs are a lattice: no expansion over the reviewed ones is a
bound on reads, writes, gates, destinations, tier and model access. `StateMachines`:
`StateExplained`, for any definitions; the version of an instance is immutable, so the edge a
request found stays declared (`CallSound`), and the state is written only with a row of the
history (`WhereMoved`). `UsageLimits`: `OvershootBounded`, for any limits. The bound alone is
not inductive, since any request in flight may still commit; `LimitInv` says that usage *and*
what is in flight together stay within the limit and the slack.

The inductive invariants were first checked by TLC on the instances of section 4. What
would need induction over data comes from the library's well-founded orders instead: a
nonempty set of naturals has a least element. It gives `Min`, `Max` and `Newest` their
values, the first row that breaks a claim about a chain, and the shortest stretch of a
text at which giving out the tokens or replacing the spans could go wrong.

*Assumptions on constants.* The proofs rest on nothing but the named assumptions of the
modules. Most say that a model value for "none" is no member of the set it extends, that
a bound is a number and that a set of requests is finite (the process serves finitely many).
Six say something of the code: `NoUser` and `NoRow` are not rows (SQL's missing row is
not a row); the sources "null" and "empty" of a text are not requests (`DocumentRows`); ids
of timeline rows are totally ordered, as UUIDs are, and stand as numbers (`Timeline`); works of an export have
different event ids, as primary keys do (`MatterExport`); the documents and files of an
export are lists and a file has bytes (`ExternalPack`: JSON and a zip); and a manifest
that passes `module.v2.json` has its form, with at least one capability and with model
access and tier from their enumerations (`ModuleRegistry`).

## 7. What is not modelled

`PROJECT.json` lists every component. Extraction, chunking, retrieval ranking,
embeddings, upload validation, encryption and formatting have no state that
interleaves; storage backends appear as the set of objects their callers see; the
frontend keeps nothing durable; the module catalogue, imports from GitHub and the
doctor only read. Of the timeline, the time window, the filters and the workspace scope
are left out; of the pack, its bytes, counts and wording. Of jobs, stage and progress ticks, the SSE status
stream, the download and the loop of the retention sweep over matters are left out, and so
are the errors of single keys in S3's answer. Of the assistant, the text of prompts and
the choice of sources; of the context store, the audit rows of reads and refusals; of
accounts, passwords, cookies and the signatures of tokens.

Hazards met while modelling that no property covers, besides the ones `PROJECT.json`
lists: a read grant may be revoked between its check and the use of the documents
(`core/prompt_runtime.py:351`; the code promises only that the check comes first); S3
reports errors of single keys in an answer `delete_prefix` does not read
(`core/storage.py:405`); `delete_prefix` may raise half-way and leave the matter live
(`core/matter_lifecycle.py:134`); the sweep ends at the first failed matter
(`tools/retention_sweep.py:128`).

Only model-checked, and why: the liveness properties (`WritesComplete`,
`RunsAnswered`/`OnlyFailedCallsHang`, `JobsSettle`). They rest on fairness and `ENABLED`, which
are out of the prover's reach. The proofs cover every safety property of a passing run.
