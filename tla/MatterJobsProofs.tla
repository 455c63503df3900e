-------------------------- MODULE MatterJobsProofs --------------------------
(***************************************************************************)
(* The safety properties of the background work of a matter, for any       *)
(* number of exports and uploads, any limits and every set of faults.      *)
(*                                                                         *)
(* The argument for the exports: between the put_bytes of the zip and the  *)
(* commit of success the worker has built a bundle (Built), and the only   *)
(* thing that takes an export from the prefix of the matter is a purge.    *)
(* The argument for the index: whoever commits "indexed" adds a copy of    *)
(* its own in the same commit, and whoever removes the copies it swept     *)
(* writes the status of its own outcome over the other's.                  *)
(***************************************************************************)
EXTENDS MatterJobs, TLAPS

\* A bundle that has been built is there, until a purge begins.
Built == \A e \in Exports : work[e] = "built" /\ ~ purgeBegun => e \in objects

JobsInv == TypeOK /\ Built /\ SucceededHasBundle /\ IndexedHasChunks
-----------------------------------------------------------------------------
\* No job, no document.
LEMMA JobsInvInit == Init => JobsInv
<1> SUFFICES ASSUME Init PROVE JobsInv
  OBVIOUS
<1>1. TypeOK
  <2>1. 0 \in 0..MaxTries
    BY LimitAssumption
  <2>2. tries \in [Requests -> 0..MaxTries]
    BY <2>1 DEF Init
  <2>3. swept \in [Uploads -> [Indexers -> SUBSET Indexers]]
    BY DEF Init
  <2>4. archived \in BOOLEAN /\ purgeBegun \in BOOLEAN
    BY Zenon DEF Init
  <2> QED BY <2>2, <2>3, <2>4 DEF Init, TypeOK, Active, Terminal
<1>2. Built /\ SucceededHasBundle /\ IndexedHasChunks
  BY DEF Init, Built, SucceededHasBundle, IndexedHasChunks, Requests
<1> QED BY <1>1, <1>2 DEF JobsInv

\* A request moves on without a job or a document of its own.
LEMMA RequestKeeps ==
  ASSUME JobsInv, NEW q \in Requests,
         OpenMatter(q) \/ ApiCrash(q) \/ RequestStep(q)
  PROVE  JobsInv'
<1> USE DEF JobsInv, TypeOK, Built, SucceededHasBundle, IndexedHasChunks, Active, Terminal,
            ReqGoTo, rows
<1>1. CASE OpenMatter(q)
  BY <1>1 DEF OpenMatter
<1>2. CASE ApiCrash(q)
  BY <1>2 DEF ApiCrash
<1>3. CASE q \in Exports /\ CountActive(q)
  BY <1>3 DEF CountActive
<1>4. CASE q \in Exports /\ CommitExport(q)
  BY <1>4 DEF CommitExport
<1>5. CASE q \in Uploads /\ PutUpload(q)
  BY <1>5 DEF PutUpload
<1>6. CASE q \in Uploads /\ CommitUpload(q)
  BY <1>6 DEF CommitUpload
<1>7. CASE Enqueue(q)
  BY <1>7 DEF Enqueue
<1>8. CASE MarkFailed(q)
  BY <1>8 DEF MarkFailed
<1> QED BY <1>1, <1>2, <1>3, <1>4, <1>5, <1>6, <1>7, <1>8 DEF RequestStep

\* What indexing commits: a copy of its own with "indexed".
LEMMA IndexCommit ==
  ASSUME TypeOK, NEW u \in Uploads, NEW i \in Indexers, NEW outcome \in {"indexed", "failed"}
  PROVE  /\ ChunksAfter(u, i, outcome) \in SUBSET Indexers
         /\ outcome = "indexed" => ChunksAfter(u, i, outcome) # {}
         /\ SweptAfter(u, i, outcome) \in [Indexers -> SUBSET Indexers]
         /\ IndexStatus(u, outcome) = outcome
  BY DEF TypeOK, ChunksAfter, SweptAfter, IndexStatus

\* The worker moves on.
LEMMA WorkerKeeps ==
  ASSUME JobsInv, NEW q \in Requests, WorkStep(q) \/ WorkerLost(q) \/ Timeout(q)
  PROVE  JobsInv'
<1> USE RequestAssumption
    DEF JobsInv, TypeOK, Built, SucceededHasBundle, IndexedHasChunks, Active, Terminal,
        WorkGoTo, rows
<1>1. CASE StartJob(q)
  <2>1. tries' \in [Requests -> 0..MaxTries]
    BY <1>1, LimitAssumption DEF StartJob
  <2> QED BY <1>1, <2>1 DEF StartJob
<1>2. CASE q \in Exports /\ BuildExport(q)
  BY <1>2 DEF BuildExport
<1>3. CASE q \in Exports /\ SucceedExport(q)
  BY <1>3 DEF SucceedExport
<1>4. CASE q \in Exports /\ FailExport(q)
  BY <1>4 DEF FailExport
<1>5. CASE q \in Uploads /\ LoadDocument(q)
  BY <1>5 DEF LoadDocument, Indexers
<1>6. CASE q \in Uploads /\ DocumentGone(q)
  BY <1>6 DEF DocumentGone
<1>7. ASSUME q \in Uploads, NEW o \in {"indexed", "failed"}, CommitIndex(q, o)
      PROVE  JobsInv'
  <2>1. /\ ChunksAfter(q, "worker", o) \in SUBSET Indexers
        /\ o = "indexed" => ChunksAfter(q, "worker", o) # {}
        /\ SweptAfter(q, "worker", o) \in [Indexers -> SUBSET Indexers]
        /\ IndexStatus(q, o) = o
    BY <1>7, IndexCommit DEF Indexers
  <2>2. /\ work' = [work EXCEPT ![q] = "closing"]
        /\ UNCHANGED <<archived, objects, queue, tries, req, reindexed, erase, deleter, purgeBegun>>
    BY <1>7 DEF CommitIndex
  <2>3. CASE document[q] = "none"
    <3>1. /\ UNCHANGED <<status, document, chunks>>
          /\ swept' = [swept EXCEPT ![q]["worker"] = {}]
      BY <1>7, <2>3 DEF CommitIndex
    <3>2. swept' \in [Uploads -> [Indexers -> SUBSET Indexers]]
      BY <1>7, <3>1 DEF Indexers
    <3> QED BY <2>2, <3>1, <3>2
  <2>4. CASE document[q] # "none"
    <3>1. /\ status' = [status EXCEPT ![q] = IF o = "indexed" THEN "succeeded" ELSE "failed"]
          /\ document' = [document EXCEPT ![q] = o]
          /\ chunks' = [chunks EXCEPT ![q] = ChunksAfter(q, "worker", o)]
          /\ swept' = [swept EXCEPT ![q] = SweptAfter(q, "worker", o)]
      BY <1>7, <2>1, <2>4 DEF CommitIndex
    <3>2. TypeOK'
      BY <1>7, <2>1, <2>2, <3>1
    <3>3. Built' /\ SucceededHasBundle'
      BY <1>7, <2>2, <3>1
    <3>4. IndexedHasChunks'
      BY <1>7, <2>1, <3>1
    <3> QED BY <3>2, <3>3, <3>4
  <2> QED BY <2>3, <2>4
<1>8. CASE CloseJob(q)
  BY <1>8 DEF CloseJob
<1>9. CASE GiveUp(q)
  BY <1>9 DEF GiveUp, actors
<1>10. ASSUME DropWork(q), queue' \subseteq queue PROVE JobsInv'
  BY <1>10 DEF DropWork, Indexers
<1>11. CASE WorkerLost(q) \/ Timeout(q)
  BY <1>10, <1>11 DEF WorkerLost, Timeout
<1> QED
  BY <1>1, <1>2, <1>3, <1>4, <1>5, <1>6, <1>7, <1>8, <1>9, <1>11 DEF WorkStep

\* The owner reindexes, deletes documents or deletes the matter.
LEMMA OwnerKeeps == ASSUME JobsInv, OwnerStep PROVE JobsInv'
<1> USE RequestAssumption
    DEF JobsInv, TypeOK, Built, SucceededHasBundle, IndexedHasChunks, rows
<1>1. CASE StartReindex
  BY <1>1 DEF StartReindex
<1>2. ASSUME NEW o \in [reindexed -> {"indexed", "failed"}], CommitReindex(o)
      PROVE  JobsInv'
  <2>1. ASSUME NEW u \in reindexed
        PROVE  /\ u \in Uploads /\ o[u] \in {"indexed", "failed"}
               /\ ChunksAfter(u, "reindex", o[u]) \in SUBSET Indexers
               /\ o[u] = "indexed" => ChunksAfter(u, "reindex", o[u]) # {}
               /\ SweptAfter(u, "reindex", o[u]) \in [Indexers -> SUBSET Indexers]
               /\ IndexStatus(u, o[u]) = o[u]
    BY <1>2, <2>1, IndexCommit DEF Indexers
  <2>2. /\ reindexed' = {}
        /\ UNCHANGED <<archived, status, objects, queue, tries, req, work, erase, deleter,
                       purgeBegun>>
    BY <1>2 DEF CommitReindex
  <2>3. CASE \E u \in reindexed : document[u] = "none"
    <3>1. /\ swept' = [u \in Uploads |-> [swept[u] EXCEPT !["reindex"] = {}]]
          /\ UNCHANGED <<document, chunks>>
      BY <1>2, <2>3 DEF CommitReindex
    <3>2. swept' \in [Uploads -> [Indexers -> SUBSET Indexers]]
      BY <3>1 DEF Indexers
    <3> QED BY <2>2, <3>1, <3>2
  <2>4. CASE ~ \E u \in reindexed : document[u] = "none"
    <3>1. /\ document' = [u \in Uploads |-> IF u \in reindexed THEN IndexStatus(u, o[u])
                                            ELSE document[u]]
          /\ chunks' = [u \in Uploads |-> IF u \in reindexed
                                          THEN ChunksAfter(u, "reindex", o[u]) ELSE chunks[u]]
          /\ swept' = [u \in Uploads |-> IF u \in reindexed
                                         THEN SweptAfter(u, "reindex", o[u]) ELSE swept[u]]
      BY <1>2, <2>4 DEF CommitReindex
    <3>2. TypeOK'
      BY <2>1, <2>2, <3>1
    <3>3. Built' /\ SucceededHasBundle'
      BY <2>2
    <3>4. IndexedHasChunks'
      BY <2>1, <3>1
    <3> QED BY <3>2, <3>3, <3>4
  <2> QED BY <2>3, <2>4
<1>3. ASSUME NEW u \in Uploads, OpenDocument(u) PROVE JobsInv'
  BY <1>3 DEF OpenDocument
<1>4. ASSUME NEW u \in Uploads, PurgeDocument(u) PROVE JobsInv'
  BY <1>4 DEF PurgeDocument
<1>5. ASSUME NEW u \in Uploads, CommitErase(u) PROVE JobsInv'
  BY <1>5 DEF CommitErase
<1>6. CASE OpenDelete
  BY <1>6 DEF OpenDelete
<1>7. CASE CheckActive
  BY <1>7 DEF CheckActive
<1>8. CASE Purge
  BY <1>8 DEF Purge
<1>9. CASE CommitTombstone
  BY <1>9 DEF CommitTombstone
<1> QED BY <1>1, <1>2, <1>3, <1>4, <1>5, <1>6, <1>7, <1>8, <1>9 DEF OwnerStep

\* The invariant is inductive.
LEMMA JobsInvStep == JobsInv /\ [Next]_vars => JobsInv'
<1> SUFFICES ASSUME JobsInv, [Next]_vars PROVE JobsInv'
  OBVIOUS
<1>1. CASE UNCHANGED vars
  BY <1>1 DEF vars, rows, actors, JobsInv, TypeOK, Built, SucceededHasBundle, IndexedHasChunks
<1>2. CASE Next
  BY <1>2, RequestKeeps, WorkerKeeps, OwnerKeeps DEF Next
<1> QED BY <1>1, <1>2
-----------------------------------------------------------------------------
\* The tables, the queue and the actors keep their types.
THEOREM JobTypes == Spec => []TypeOK
<1>1. JobsInv => TypeOK
  BY DEF JobsInv
<1> QED BY <1>1, JobsInvInit, JobsInvStep, PTL DEF Spec

\* A succeeded export can be downloaded, through any retries, lost workers,
\* timeouts and failed enqueues, until somebody starts to purge the matter.
THEOREM ExportsDownload == Spec => []SucceededHasBundle
<1>1. JobsInv => SucceededHasBundle
  BY DEF JobsInv
<1> QED BY <1>1, JobsInvInit, JobsInvStep, PTL DEF Spec

\* index_status never claims an index that is not there, with the worker, a
\* reindex and a document delete in any order.
THEOREM IndexHonest == Spec => []IndexedHasChunks
<1>1. JobsInv => IndexedHasChunks
  BY DEF JobsInv
<1> QED BY <1>1, JobsInvInit, JobsInvStep, PTL DEF Spec
=============================================================================
