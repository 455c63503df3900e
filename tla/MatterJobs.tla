----------------------------- MODULE MatterJobs -----------------------------
(***************************************************************************)
(* Background work of one matter: export and upload requests create rows   *)
(* of the jobs table, hand their ids to the arq queue, and the worker runs *)
(* them, while the owner deletes documents, reindexes, or deletes the      *)
(* matter (tombstone_matter, also the path of the retention sweep).        *)
(*                                                                         *)
(* Each request makes at most one job, so a request stands for its job, a  *)
(* queue entry, an export zip or an uploaded document.  The queue delivers *)
(* at least once: a lost worker leaves its job for another try.            *)
(***************************************************************************)
EXTENDS Integers, FiniteSets

CONSTANTS
  Exports,      \* POST /export requests
  Uploads,      \* POST /documents requests; each one makes an index job
  ActiveLimit,  \* get_limits().active_jobs
  MaxTries,     \* max_tries of the arq worker
  Faults,       \* which failures happen
  OwnerOps      \* what the owner does besides exporting and uploading

FaultKinds == {"redis",     \* enqueue_job raises, its push lost or not
               "api",       \* the API process dies in a request
               "worker",    \* the worker dies or is stopped in a job
               "timeout",   \* job_timeout cancels a job
               "pipeline",  \* export or indexing raises
               "storage"}   \* an upload or a purge raises
OwnerKinds == {"delete_document", "reindex", "delete_matter"}

ASSUME RequestAssumption == Exports \cap Uploads = {}
ASSUME LimitAssumption == ActiveLimit \in Nat /\ MaxTries \in Nat \ {0}
ASSUME KindAssumption == Faults \subseteq FaultKinds /\ OwnerOps \subseteq OwnerKinds

Requests == Exports \cup Uploads
Indexers == {"worker", "reindex"}
Active   == {"queued", "running"}        \* JOB_ACTIVE_STATUSES
Terminal == {"succeeded", "failed"}

VARIABLES
  archived,   \* matters.status is 'archived'
  status,     \* jobs.status
  document,   \* documents.index_status, "none" without a row
  chunks,     \* whose copies of a document's chunks are committed
  objects,    \* what is stored under the prefix of the matter
  queue,      \* ids in the arq queue
  tries,      \* how often arq has started a job
  req,        \* next step of a request
  work,       \* next step of the worker in a job
  swept,      \* chunk copies an open indexing transaction has deleted
  reindexed,  \* documents loaded by the POST /reindex in progress
  erase,      \* next step of a DELETE of a document
  deleter,    \* next step of a DELETE of the matter
  purgeBegun  \* history: some purge of the matter's prefix was started

rows == <<archived, status, document, chunks>>
actors == <<req, work, swept, reindexed, erase, deleter>>
vars == <<rows, objects, queue, tries, actors, purgeBegun>>

Init ==
  /\ archived = FALSE
  /\ status = [q \in Requests |-> "absent"]
  /\ document = [u \in Uploads |-> "none"]
  /\ chunks = [u \in Uploads |-> {}]
  /\ objects = {}
  /\ queue = {}
  /\ tries = [q \in Requests |-> 0]
  /\ req = [q \in Requests |-> "idle"]
  /\ work = [q \in Requests |-> "none"]
  /\ swept = [u \in Uploads |-> [i \in Indexers |-> {}]]
  /\ reindexed = {}
  /\ erase = [u \in Uploads |-> "idle"]
  /\ deleter = "idle"
  /\ purgeBegun = FALSE
-----------------------------------------------------------------------------
(* create_export_job and upload_document                                   *)

ReqGoTo(q, step) == req' = [req EXCEPT ![q] = step]

\* resolve_owned_open_matter: a 404 on a tombstone is a request that never
\* begins.
OpenMatter(q) ==
  /\ req[q] = "idle"
  /\ ~ archived
  /\ ReqGoTo(q, "open")
  /\ UNCHANGED <<rows, objects, queue, tries, work, swept, reindexed, erase,
                 deleter, purgeBegun>>

\* get_active_job_count leaves index jobs out.
ActiveExports == {e \in Exports : status[e] \in Active}

\* create_job: the count, then 429 or a row added to the session.
CountActive(e) ==
  /\ req[e] = "open"
  /\ ReqGoTo(e, IF Cardinality(ActiveExports) >= ActiveLimit THEN "done"
                                                             ELSE "counted")
  /\ UNCHANGED <<rows, objects, queue, tries, work, swept, reindexed, erase,
                 deleter, purgeBegun>>

CommitExport(e) ==
  /\ req[e] = "counted"
  /\ status' = [status EXCEPT ![e] = "queued"]
  /\ ReqGoTo(e, "committed")
  /\ UNCHANGED <<archived, document, chunks, objects, queue, tries, work,
                 swept, reindexed, erase, deleter, purgeBegun>>

\* put_bytes, after the flush of the Document row and before the commit.
PutUpload(u) ==
  /\ req[u] = "open"
  /\ \/ /\ objects' = objects \cup {u}
        /\ ReqGoTo(u, "stored")
     \/ /\ "storage" \in Faults
        /\ ReqGoTo(u, "done")
        /\ UNCHANGED objects
  /\ UNCHANGED <<rows, queue, tries, work, swept, reindexed, erase, deleter,
                 purgeBegun>>

\* Document, version, body and index job in one commit.
CommitUpload(u) ==
  /\ req[u] = "stored"
  /\ document' = [document EXCEPT ![u] = "pending"]
  /\ status' = [status EXCEPT ![u] = "queued"]
  /\ ReqGoTo(u, "committed")
  /\ UNCHANGED <<archived, chunks, objects, queue, tries, work, swept,
                 reindexed, erase, deleter, purgeBegun>>

\* enqueue_or_mark_failed: the push succeeds; or enqueue_job raises, the id
\* pushed or not (an answer lost on the way, aclose() failing).
Enqueue(q) ==
  /\ req[q] = "committed"
  /\ \/ /\ queue' = queue \cup {q}
        /\ ReqGoTo(q, "done")
     \/ /\ "redis" \in Faults
        /\ queue' \in {queue, queue \cup {q}}
        /\ ReqGoTo(q, "enqueue_failed")
  /\ UNCHANGED <<rows, objects, tries, work, swept, reindexed, erase, deleter,
                 purgeBegun>>

\* Mutant: a failed enqueue is passed over in silence.
MutMarkFailed(q) ==
  /\ req[q] = "enqueue_failed"
  /\ ReqGoTo(q, "done")
  /\ UNCHANGED <<rows, objects, queue, tries, work, swept, reindexed, erase,
                 deleter, purgeBegun>>

MarkFailed(q) ==
  /\ req[q] = "enqueue_failed"
  /\ status' = [status EXCEPT ![q] = "failed"]
  /\ ReqGoTo(q, "done")
  /\ UNCHANGED <<archived, document, chunks, objects, queue, tries, work,
                 swept, reindexed, erase, deleter, purgeBegun>>

ApiCrash(q) ==
  /\ "api" \in Faults
  /\ req[q] \notin {"idle", "done"}
  /\ ReqGoTo(q, "done")
  /\ UNCHANGED <<rows, objects, queue, tries, work, swept, reindexed, erase,
                 deleter, purgeBegun>>
-----------------------------------------------------------------------------
(* run_job in the worker                                                   *)

WorkGoTo(q, step) == work' = [work EXCEPT ![q] = step]

\* arq hands out a queued id; run_job commits RUNNING whatever the row says.
StartJob(q) ==
  /\ q \in queue
  /\ work[q] = "none"
  /\ tries[q] < MaxTries
  /\ tries' = [tries EXCEPT ![q] = @ + 1]
  /\ status' = [status EXCEPT ![q] = "running"]
  /\ WorkGoTo(q, "started")
  /\ UNCHANGED <<archived, document, chunks, objects, queue, req, swept,
                 reindexed, erase, deleter, purgeBegun>>

\* Mutant: run_job records success before the zip is stored.
MutBuildExport(e) ==
  /\ work[e] = "started"
  /\ WorkGoTo(e, "built")
  /\ UNCHANGED <<rows, objects, queue, tries, req, swept, reindexed, erase,
                 deleter, purgeBegun>>

\* build_matter_export ends with put_bytes.
BuildExport(e) ==
  /\ work[e] = "started"
  /\ objects' = objects \cup {e}
  /\ WorkGoTo(e, "built")
  /\ UNCHANGED <<rows, queue, tries, req, swept, reindexed, erase, deleter,
                 purgeBegun>>

SucceedExport(e) ==
  /\ work[e] = "built"
  /\ status' = [status EXCEPT ![e] = "succeeded"]
  /\ WorkGoTo(e, "closing")
  /\ UNCHANGED <<archived, document, chunks, objects, queue, tries, req, swept,
                 reindexed, erase, deleter, purgeBegun>>

FailExport(e) ==
  /\ "pipeline" \in Faults
  /\ work[e] = "started"
  /\ status' = [status EXCEPT ![e] = "failed"]
  /\ WorkGoTo(e, "closing")
  /\ UNCHANGED <<archived, document, chunks, objects, queue, tries, req, swept,
                 reindexed, erase, deleter, purgeBegun>>

\* _run_index reads the document; index_document deletes the chunks it sees.
LoadDocument(u) ==
  /\ work[u] = "started"
  /\ document[u] # "none"
  /\ swept' = [swept EXCEPT ![u]["worker"] = chunks[u]]
  /\ WorkGoTo(u, "indexing")
  /\ UNCHANGED <<rows, objects, queue, tries, req, reindexed, erase, deleter,
                 purgeBegun>>

DocumentGone(u) ==
  /\ work[u] = "started"
  /\ document[u] = "none"
  /\ status' = [status EXCEPT ![u] = "failed"]
  /\ WorkGoTo(u, "closing")
  /\ UNCHANGED <<archived, document, chunks, objects, queue, tries, req, swept,
                 reindexed, erase, deleter, purgeBegun>>

\* Committed chunks of u when indexer i commits: what it swept is gone, and
\* its own copy is there if it indexed (outcome "indexed").
ChunksAfter(u, i, outcome) ==
  (chunks[u] \ swept[u][i]) \cup (IF outcome = "indexed" THEN {i} ELSE {})

\* A copy committed by i is none of those the other indexers have swept.
SweptAfter(u, i, outcome) ==
  [k \in Indexers |-> IF k = i THEN {}
                      ELSE swept[u][k] \ ({i} \cap ChunksAfter(u, i, outcome))]

\* Mutant: index_document does not flip the document to failed.
MutIndexStatus(u, outcome) == IF outcome = "failed" THEN document[u] ELSE outcome

IndexStatus(u, outcome) == outcome

\* The commit of run_job after index_document returned or raised; a document
\* that is gone by now makes the flush raise outside the try block, and the
\* job row stays RUNNING.
CommitIndex(u, outcome) ==
  /\ work[u] = "indexing"
  /\ outcome = "failed" => "pipeline" \in Faults
  /\ WorkGoTo(u, "closing")
  /\ IF document[u] = "none"
     THEN UNCHANGED <<status, document, chunks>>
          /\ swept' = [swept EXCEPT ![u]["worker"] = {}]
     ELSE /\ status' = [status EXCEPT ![u] = IF outcome = "indexed"
                                             THEN "succeeded" ELSE "failed"]
          /\ document' = [document EXCEPT ![u] = IndexStatus(u, outcome)]
          /\ chunks' = [chunks EXCEPT ![u] = ChunksAfter(u, "worker", outcome)]
          /\ swept' = [swept EXCEPT ![u] = SweptAfter(u, "worker", outcome)]
  /\ UNCHANGED <<archived, objects, queue, tries, req, reindexed, erase,
                 deleter, purgeBegun>>

\* arq records the end of the job (an exception is not retried).
CloseJob(q) ==
  /\ work[q] = "closing"
  /\ queue' = queue \ {q}
  /\ WorkGoTo(q, "none")
  /\ UNCHANGED <<rows, objects, tries, req, swept, reindexed, erase, deleter,
                 purgeBegun>>

\* The open transaction of a job is rolled back.
DropWork(q) ==
  /\ work[q] # "none"
  /\ WorkGoTo(q, "none")
  /\ swept' = IF q \in Uploads THEN [swept EXCEPT ![q]["worker"] = {}] ELSE swept
  /\ UNCHANGED <<rows, objects, tries, req, reindexed, erase, deleter, purgeBegun>>

\* The worker process is gone: arq tries the job again.
WorkerLost(q) ==
  /\ "worker" \in Faults
  /\ DropWork(q)
  /\ UNCHANGED queue

\* job_timeout cancels run_job, whose handler does not catch it; arq does not
\* try again.
Timeout(q) ==
  /\ "timeout" \in Faults
  /\ work[q] # "closing"
  /\ DropWork(q)
  /\ queue' = queue \ {q}

\* The last try is used up.
GiveUp(q) ==
  /\ q \in queue
  /\ work[q] = "none"
  /\ tries[q] = MaxTries
  /\ queue' = queue \ {q}
  /\ UNCHANGED <<rows, objects, tries, actors, purgeBegun>>
-----------------------------------------------------------------------------
(* POST /reindex: one transaction over the documents it loads.             *)

StartReindex ==
  /\ "reindex" \in OwnerOps
  /\ ~ archived
  /\ reindexed = {}
  /\ reindexed' = {u \in Uploads : document[u] # "none"}
  /\ reindexed' # {}
  /\ swept' = [u \in Uploads |-> [swept[u] EXCEPT !["reindex"] =
                                    IF u \in reindexed' THEN chunks[u] ELSE {}]]
  /\ UNCHANGED <<rows, objects, queue, tries, req, work, erase, deleter,
                 purgeBegun>>

\* The endpoint commits; if a document is gone by now the flush raises and
\* everything is rolled back.
CommitReindex(outcome) ==
  /\ reindexed # {}
  /\ outcome \in [reindexed -> {"indexed", "failed"}]
  /\ (\E u \in reindexed : outcome[u] = "failed") => "pipeline" \in Faults
  /\ IF \E u \in reindexed : document[u] = "none"
     THEN /\ swept' = [u \in Uploads |-> [swept[u] EXCEPT !["reindex"] = {}]]
          /\ UNCHANGED <<document, chunks>>
     ELSE /\ document' = [u \in Uploads |->
                            IF u \in reindexed THEN IndexStatus(u, outcome[u])
                                               ELSE document[u]]
          /\ chunks' = [u \in Uploads |->
                          IF u \in reindexed
                          THEN ChunksAfter(u, "reindex", outcome[u])
                          ELSE chunks[u]]
          /\ swept' = [u \in Uploads |->
                         IF u \in reindexed
                         THEN SweptAfter(u, "reindex", outcome[u])
                         ELSE swept[u]]
  /\ reindexed' = {}
  /\ UNCHANGED <<archived, status, objects, queue, tries, req, work, erase,
                 deleter, purgeBegun>>
-----------------------------------------------------------------------------
(* DELETE /documents/{id}                                                  *)

OpenDocument(u) ==
  /\ "delete_document" \in OwnerOps
  /\ erase[u] = "idle"
  /\ document[u] # "none"
  /\ ~ archived
  /\ erase' = [erase EXCEPT ![u] = "open"]
  /\ UNCHANGED <<rows, objects, queue, tries, req, work, swept, reindexed,
                 deleter, purgeBegun>>

PurgeDocument(u) ==
  /\ erase[u] = "open"
  /\ \/ /\ objects' = objects \ {u}
        /\ erase' = [erase EXCEPT ![u] = "purged"]
     \/ /\ "storage" \in Faults
        /\ erase' = [erase EXCEPT ![u] = "idle"]
        /\ UNCHANGED objects
  /\ UNCHANGED <<rows, queue, tries, req, work, swept, reindexed, deleter,
                 purgeBegun>>

\* The chunks go with the document row (ON DELETE CASCADE).
CommitErase(u) ==
  /\ erase[u] = "purged"
  /\ document' = [document EXCEPT ![u] = "none"]
  /\ chunks' = [chunks EXCEPT ![u] = {}]
  /\ erase' = [erase EXCEPT ![u] = "idle"]
  /\ UNCHANGED <<archived, status, objects, queue, tries, req, work, swept,
                 reindexed, deleter, purgeBegun>>
-----------------------------------------------------------------------------
(* DELETE /matters/{slug}, or the retention sweep: tombstone_matter        *)

OpenDelete ==
  /\ "delete_matter" \in OwnerOps
  /\ deleter = "idle"
  /\ ~ archived
  /\ deleter' = "open"
  /\ UNCHANGED <<rows, objects, queue, tries, req, work, swept, reindexed,
                 erase, purgeBegun>>

\* 409 if an export is queued or running.
CheckActive ==
  /\ deleter = "open"
  /\ deleter' = IF ActiveExports = {} THEN "checked" ELSE "idle"
  /\ UNCHANGED <<rows, objects, queue, tries, req, work, swept, reindexed,
                 erase, purgeBegun>>

\* delete_prefix: everything listed is deleted, or it raises half-way and the
\* matter stays live (502).
Purge ==
  /\ deleter = "checked"
  /\ \/ objects' = {} /\ deleter' = "purged"
     \/ /\ "storage" \in Faults
        /\ objects' \in SUBSET objects
        /\ deleter' = "idle"
  /\ purgeBegun' = TRUE
  /\ UNCHANGED <<rows, queue, tries, req, work, swept, reindexed, erase>>

CommitTombstone ==
  /\ deleter = "purged"
  /\ archived' = TRUE
  /\ deleter' = "idle"
  /\ UNCHANGED <<status, document, chunks, objects, queue, tries, req, work,
                 swept, reindexed, erase, purgeBegun>>
-----------------------------------------------------------------------------
RequestStep(q) ==
  \/ q \in Exports /\ CountActive(q)
  \/ q \in Exports /\ CommitExport(q)
  \/ q \in Uploads /\ PutUpload(q)
  \/ q \in Uploads /\ CommitUpload(q)
  \/ Enqueue(q)
  \/ MarkFailed(q)

WorkStep(q) ==
  \/ StartJob(q)
  \/ q \in Exports /\ BuildExport(q)
  \/ q \in Exports /\ SucceedExport(q)
  \/ q \in Exports /\ FailExport(q)
  \/ q \in Uploads /\ LoadDocument(q)
  \/ q \in Uploads /\ DocumentGone(q)
  \/ q \in Uploads /\ \E o \in {"indexed", "failed"} : CommitIndex(q, o)
  \/ CloseJob(q)
  \/ GiveUp(q)

OwnerStep ==
  \/ StartReindex
  \/ \E o \in [reindexed -> {"indexed", "failed"}] : CommitReindex(o)
  \/ \E u \in Uploads : OpenDocument(u) \/ PurgeDocument(u) \/ CommitErase(u)
  \/ OpenDelete
  \/ CheckActive
  \/ Purge
  \/ CommitTombstone

Next ==
  \/ \E q \in Requests : \/ OpenMatter(q)
                         \/ RequestStep(q)
                         \/ WorkStep(q)
                         \/ ApiCrash(q)
                         \/ WorkerLost(q)
                         \/ Timeout(q)
  \/ OwnerStep

Spec == Init /\ [][Next]_vars

(***************************************************************************)
(* Fairness: the event loop runs a started request to its end, and a       *)
(* running worker takes what is in the queue and goes on with it.          *)
(***************************************************************************)
FairSpec == Spec /\ \A q \in Requests : /\ WF_vars(RequestStep(q))
                                        /\ WF_vars(WorkStep(q))
-----------------------------------------------------------------------------
(* Properties.                                                             *)

\* Types of the tables, the queue and the actors.
TypeOK ==
  /\ archived \in BOOLEAN
  /\ status \in [Requests -> {"absent"} \cup Active \cup Terminal]
  /\ document \in [Uploads -> {"none", "pending", "indexed", "failed"}]
  /\ chunks \in [Uploads -> SUBSET Indexers]
  /\ objects \subseteq Requests
  /\ queue \subseteq Requests
  /\ tries \in [Requests -> 0..MaxTries]
  /\ req \in [Requests -> {"idle", "open", "counted", "stored", "committed",
                           "enqueue_failed", "done"}]
  /\ work \in [Requests -> {"none", "started", "built", "indexing", "closing"}]
  /\ swept \in [Uploads -> [Indexers -> SUBSET Indexers]]
  /\ reindexed \subseteq Uploads
  /\ erase \in [Uploads -> {"idle", "open", "purged"}]
  /\ deleter \in {"idle", "open", "checked", "purged"}
  /\ purgeBegun \in BOOLEAN

\* A succeeded export can be downloaded, through retries, lost workers and
\* failed enqueues, as long as nobody started to purge the matter.
SucceededHasBundle ==
  \A e \in Exports : status[e] = "succeeded" /\ ~ purgeBegun => e \in objects

\* index_status never claims an index that is not there: with the worker, a
\* reindex and a document delete in any order, "indexed" has its chunks.
IndexedHasChunks ==
  \A u \in Uploads : document[u] = "indexed" => chunks[u] # {}

\* Every committed job ends: run_job settles what the queue delivers, and
\* enqueue_or_mark_failed what it does not.  Not so when the API, the worker
\* or a timeout cuts a step, or the document is deleted under its index job.
JobsSettle ==
  \A q \in Requests : status[q] \in Active ~> status[q] \in Terminal

\* "No success-reported, bytes-remaining state."
BytesGone == archived => objects = {}
=============================================================================
