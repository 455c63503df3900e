---------------------------- MODULE CapabilityRun ----------------------------
(***************************************************************************)
(* POST /api/matters/{slug}/invocations for a prompt-runtime capability:   *)
(* invoke_capability_endpoint, run_prompt_capability, the two gates, the   *)
(* grant checks, ModelGateway.call and write_artifact, while the owner of  *)
(* the matter changes the posture, the grants and the provider key.        *)
(*                                                                         *)
(* All runs are on one matter.  What a run logs is in its own transaction  *)
(* (rows) until it commits.  Flushed rows hold the advisory lock of their  *)
(* chain scope (module AuditChain) up to the end of the transaction: the   *)
(* advice-boundary row carries no matter_id and takes the lock of the      *)
(* system scope, every other row takes that of the matter.                 *)
(***************************************************************************)
EXTENDS Integers, FiniteSets

CONSTANTS
  Runs,           \* invocations of one capability on one matter
  None,           \* nobody: the value of a free lock
  Settings,       \* the DELETE /settings/keys request, as a lock holder
  Gated,          \* runs whose capability declares the posture gate
  Qualified,      \* runs whose actor satisfies the role asked on B_mixed
  WithDocuments,  \* runs whose arguments name documents
  Keyed,          \* does the selected provider need a user key?
  ProviderFails   \* can the provider answer with an error?

ASSUME NobodyAssumption == None \notin Runs \cup {Settings} /\ Settings \notin Runs
ASSUME RunSetAssumption == Gated \cup Qualified \cup WithDocuments \subseteq Runs
ASSUME ProviderAssumption == Keyed \in BOOLEAN /\ ProviderFails \in BOOLEAN

Postures == {"A_cleared", "B_mixed", "C_paused"}
Capabilities == {"read", "write"}
Chains == {"matter", "system"}

VARIABLES
  posture,    \* matters.privilege_posture, as committed
  grants,     \* capability grants of the actor on the matter
  key,        \* is the actor's provider key stored?
  trail,      \* committed audit rows: [run, action]
  decisions,  \* runs with a committed advice_boundary_decisions row
  artifacts,  \* runs with a committed matter_artifacts row
  objects,    \* runs whose artifact bytes are in object storage
  answered,   \* runs whose prompt the provider received and answered
  lock,       \* holder of the advisory lock of each chain scope
  keyrow,     \* holder of the row lock on the user_api_keys row
  pc,         \* next step of a run
  seen,       \* posture on the Matter object the request loaded
  rows,       \* audit actions logged in the run's open transaction
  outcome     \* how a run ended

tables == <<posture, grants, key, trail, decisions, artifacts>>
vars == <<tables, objects, answered, lock, keyrow, pc, seen, rows, outcome>>

Steps == {"idle", "gate", "reads", "boundary", "flush_system", "flush_matter",
          "posture", "key", "calling", "mark", "writes", "artifact", "finish",
          "deny", "oob", "ended"}
Outcomes == {"none", "posture_blocked", "denied", "boundary_denied", "paused",
             "key_missing", "model_error", "storage_failed", "deadlock",
             "crashed", "completed"}
Actions == {"posture_blocked", "denied", "boundary_completed", "invoked",
            "model_call", "model_invoked", "completed", "key_missing",
            "model_error"}

Init ==
  /\ posture \in Postures
  /\ grants \in SUBSET Capabilities
  /\ key \in BOOLEAN
  /\ trail = {}
  /\ decisions = {}
  /\ artifacts = {}
  /\ objects = {}
  /\ answered = {}
  /\ lock = [s \in Chains |-> None]
  /\ keyrow = None
  /\ pc = [r \in Runs |-> "idle"]
  /\ seen \in [Runs -> {posture}]
  /\ rows = [r \in Runs |-> {}]
  /\ outcome = [r \in Runs |-> "none"]
-----------------------------------------------------------------------------
(* Pieces of a run.                                                        *)

GoTo(r, step) == pc' = [pc EXCEPT ![r] = step]

\* Mutant: a row is named after the step of the run, not after the action.
MutRowsOf(r, actions) == {[run |-> r, action |-> pc[r]] : a \in actions}

\* Committed rows of run r, and the rows a commit adds to them.
RowsOf(r, actions) == {[run |-> r, action |-> a] : a \in actions}

\* The end of the run's transaction releases its locks.
Release(r) ==
  /\ lock' = [s \in Chains |-> IF lock[s] = r THEN None ELSE lock[s]]
  /\ keyrow' = IF keyrow = r THEN None ELSE keyrow
  /\ rows' = [rows EXCEPT ![r] = {}]

\* An exception reaches the endpoint: the session closes without a commit.
Fail(r, o) ==
  /\ Release(r)
  /\ GoTo(r, "ended")
  /\ outcome' = [outcome EXCEPT ![r] = o]
  /\ UNCHANGED <<tables, seen>>

\* The run awaits audit_failure, which will log the row named after o.
AuditFailure(r, o) ==
  /\ GoTo(r, "oob")
  /\ outcome' = [outcome EXCEPT ![r] = o]
  /\ UNCHANGED <<tables, objects, lock, keyrow, seen, rows>>

\* audit.log: one more row of the run's transaction.
LogRow(r, actions, step) ==
  /\ rows' = [rows EXCEPT ![r] = @ \cup actions]
  /\ GoTo(r, step)
  /\ UNCHANGED <<tables, objects, lock, keyrow, seen, outcome>>

LockFree(s, r) == lock[s] \in {None, r}
-----------------------------------------------------------------------------
(* The run.                                                                *)

\* The endpoint loads the matter.  A 4xx of its pre-checks (no such module,
\* disabled, undeclared, wrong scope or kind, daily limit) changes nothing
\* and is a run that never begins; one for bad arguments or documents later
\* on has the effect of Crash.
Begin(r) ==
  /\ pc[r] = "idle"
  /\ seen' = [seen EXCEPT ![r] = posture]
  /\ GoTo(r, "gate")
  /\ UNCHANGED <<tables, objects, answered, lock, keyrow, rows, outcome>>

\* _evaluate_posture, on the posture the request loaded.
PostureAllows(r) ==
  /\ seen[r] # "C_paused"
  /\ seen[r] = "B_mixed" => r \in Qualified

CheckPosture(r) ==
  /\ pc[r] = "gate"
  /\ \/ /\ r \in Gated => PostureAllows(r)
        /\ LogRow(r, {}, "reads")
     \/ /\ r \in Gated /\ ~ PostureAllows(r)
        /\ AuditFailure(r, "posture_blocked")
  /\ UNCHANGED answered

\* require_capability: a denial logs a row and goes on to commit it.
RequireCapability(r, cap, step) ==
  \/ /\ cap \in grants
     /\ LogRow(r, {}, step)
  \/ /\ cap \notin grants
     /\ LogRow(r, {"denied"}, "deny")

CheckReads(r) ==
  /\ pc[r] = "reads"
  /\ IF r \in WithDocuments THEN RequireCapability(r, "read", "boundary")
                            ELSE LogRow(r, {}, "boundary")
  /\ UNCHANGED answered

\* The denial is committed, with all the run has logged so far.
CommitDenial(r) ==
  /\ pc[r] = "deny"
  /\ LockFree("matter", r)
  /\ trail' = trail \cup RowsOf(r, rows[r])
  /\ decisions' = IF "boundary_completed" \in rows[r]
                  THEN decisions \cup {r} ELSE decisions
  /\ Release(r)
  /\ GoTo(r, "ended")
  /\ outcome' = [outcome EXCEPT ![r] = "denied"]
  /\ UNCHANGED <<posture, grants, key, artifacts, objects, answered, seen>>

\* advice_boundary_check adds its decision row and logs the verdict; a
\* refusal, by the tier of the capability or the role of the actor, raises
\* AdviceBoundaryDenied, otherwise the run is logged too.
CheckBoundary(r) ==
  /\ pc[r] = "boundary"
  /\ \/ Fail(r, "boundary_denied") /\ UNCHANGED objects
     \/ LogRow(r, {"boundary_completed", "invoked"}, "flush_system")
  /\ UNCHANGED answered

\* The gateway's first query autoflushes: the trigger takes the lock of the
\* system scope for the advice-boundary row, then that of the matter.
FlushSystem(r) ==
  /\ pc[r] = "flush_system"
  /\ LockFree("system", r)
  /\ lock' = [lock EXCEPT !["system"] = r]
  /\ GoTo(r, "flush_matter")
  /\ UNCHANGED <<tables, objects, answered, keyrow, seen, rows, outcome>>

FlushMatter(r) ==
  /\ pc[r] = "flush_matter"
  /\ LockFree("matter", r)
  /\ lock' = [lock EXCEPT !["matter"] = r]
  /\ GoTo(r, "posture")
  /\ UNCHANGED <<tables, objects, answered, keyrow, seen, rows, outcome>>

\* Mutant: the gateway trusts the posture its caller read.
MutReadPosture(r) ==
  /\ pc[r] = "posture"
  /\ \/ seen[r] = "C_paused" /\ Fail(r, "paused") /\ UNCHANGED objects
     \/ seen[r] # "C_paused" /\ LogRow(r, {}, "key")
  /\ UNCHANGED answered

\* The query itself: the posture that is committed now.
ReadPosture(r) ==
  /\ pc[r] = "posture"
  /\ \/ posture = "C_paused" /\ Fail(r, "paused") /\ UNCHANGED objects
     \/ posture # "C_paused" /\ LogRow(r, {}, "key")
  /\ UNCHANGED answered

ResolveKey(r) ==
  /\ pc[r] = "key"
  /\ \/ Keyed /\ ~ key /\ AuditFailure(r, "key_missing")
     \/ (Keyed => key) /\ LogRow(r, {}, "calling")
  /\ UNCHANGED answered

ProviderAnswers(r) ==
  /\ pc[r] = "calling"
  /\ answered' = answered \cup {r}
  /\ LogRow(r, {}, IF Keyed THEN "mark" ELSE "writes")

ProviderError(r) ==
  /\ pc[r] = "calling"
  /\ ProviderFails
  /\ AuditFailure(r, "model_error")
  /\ UNCHANGED answered

\* mark_user_key_used: UPDATE user_api_keys, which takes the row lock.  (If
\* the row is gone the statement updates nothing.)
MarkKeyUsed(r) ==
  /\ pc[r] = "mark"
  /\ keyrow = None
  /\ keyrow' = IF key THEN r ELSE None
  /\ GoTo(r, "writes")
  /\ UNCHANGED <<tables, objects, answered, lock, seen, rows, outcome>>

\* Mutant: a denied write is audited out of band, under the run's own locks.
MutCheckWrites(r) ==
  /\ pc[r] = "writes"
  /\ \/ /\ "write" \in grants
        /\ LogRow(r, {"model_call", "model_invoked"}, "artifact")
     \/ "write" \notin grants /\ AuditFailure(r, "denied")
  /\ UNCHANGED answered

\* The gateway logs model.call, the runtime model.invoked, and the write
\* grants are checked (their query flushes under the locks already held).
CheckWrites(r) ==
  /\ pc[r] = "writes"
  /\ \/ /\ "write" \in grants
        /\ LogRow(r, {"model_call", "model_invoked"}, "artifact")
     \/ /\ "write" \notin grants
        /\ LogRow(r, {"model_call", "model_invoked", "denied"}, "deny")
  /\ UNCHANGED answered

\* Mutant: write_artifact adds the row without putting the object.
MutWriteArtifact(r) ==
  /\ pc[r] = "artifact"
  /\ LogRow(r, {"completed"}, "finish")
  /\ UNCHANGED answered

\* write_artifact puts the bytes first, outside any transaction, and adds
\* the row; then the completion is logged.
WriteArtifact(r) ==
  /\ pc[r] = "artifact"
  /\ \/ /\ rows' = [rows EXCEPT ![r] = @ \cup {"completed"}]
        /\ objects' = objects \cup {r}
        /\ GoTo(r, "finish")
        /\ UNCHANGED <<tables, lock, keyrow, seen, outcome>>
     \/ Fail(r, "storage_failed") /\ UNCHANGED objects
  /\ UNCHANGED answered

\* The endpoint commits: audit rows, decision and artifact row together.
Finish(r) ==
  /\ pc[r] = "finish"
  /\ trail' = trail \cup RowsOf(r, rows[r])
  /\ decisions' = decisions \cup {r}
  /\ artifacts' = artifacts \cup {r}
  /\ Release(r)
  /\ GoTo(r, "ended")
  /\ outcome' = [outcome EXCEPT ![r] = "completed"]
  /\ UNCHANGED <<posture, grants, key, objects, answered, seen>>

\* Mutant: the failure row is only staged in the request session.
MutAuditFailureCommit(r) ==
  /\ pc[r] = "oob"
  /\ Release(r)
  /\ GoTo(r, "ended")
  /\ UNCHANGED <<tables, objects, answered, seen, outcome>>

\* The separate session of audit_failure gets the matter's lock and commits;
\* only then does the exception reach the endpoint and end the run.
AuditFailureCommit(r) ==
  /\ pc[r] = "oob"
  /\ lock["matter"] = None
  /\ trail' = trail \cup RowsOf(r, {outcome[r]})
  /\ Release(r)
  /\ GoTo(r, "ended")
  /\ UNCHANGED <<posture, grants, key, decisions, artifacts, objects, answered,
                 seen, outcome>>

\* The process or the connection is lost before the commit.
Crash(r) ==
  /\ pc[r] \notin {"idle", "ended"}
  /\ Fail(r, "crashed")
  /\ UNCHANGED <<objects, answered>>
-----------------------------------------------------------------------------
(* The owner, from other requests.  Each of these logs an audit row in the *)
(* transaction of its change, so it commits only with the chain lock.      *)

\* PATCH /privilege.
SetPosture(p) ==
  /\ p # posture
  /\ lock["matter"] = None
  /\ posture' = p
  /\ UNCHANGED <<grants, key, trail, decisions, artifacts, objects, answered,
                 lock, keyrow, pc, seen, rows, outcome>>

\* POST /grants: every declared capability that is not granted yet.
CreateGrants ==
  /\ grants # Capabilities
  /\ lock["matter"] = None
  /\ grants' = Capabilities
  /\ UNCHANGED <<posture, key, trail, decisions, artifacts, objects, answered,
                 lock, keyrow, pc, seen, rows, outcome>>

\* Mutant: revoke_grant commits without an audit row.
MutRevokeGrant(c) ==
  /\ c \in grants
  /\ grants' = grants \ {c}
  /\ UNCHANGED <<posture, key, trail, decisions, artifacts, objects, answered,
                 lock, keyrow, pc, seen, rows, outcome>>

RevokeGrant(c) ==
  /\ c \in grants
  /\ lock["matter"] = None
  /\ grants' = grants \ {c}
  /\ UNCHANGED <<posture, key, trail, decisions, artifacts, objects, answered,
                 lock, keyrow, pc, seen, rows, outcome>>

\* POST /settings/keys; its audit row is of the system scope.
AddKey ==
  /\ ~ key
  /\ lock["system"] = None
  /\ key' = TRUE
  /\ UNCHANGED <<posture, grants, trail, decisions, artifacts, objects,
                 answered, lock, keyrow, pc, seen, rows, outcome>>

\* DELETE /settings/keys: the row is deleted, then the audit row is flushed.
DeleteKey ==
  /\ key
  /\ keyrow = None
  /\ keyrow' = Settings
  /\ UNCHANGED <<tables, objects, answered, lock, pc, seen, rows, outcome>>

DeleteKeyCommit ==
  /\ keyrow = Settings
  /\ lock["system"] = None
  /\ keyrow' = None
  /\ key' = FALSE
  /\ UNCHANGED <<posture, grants, trail, decisions, artifacts, objects,
                 answered, lock, pc, seen, rows, outcome>>

\* A run that marks the key waits for the deletion, which waits for the lock
\* of the system scope that the run holds.  PostgreSQL aborts one of them.
Deadlock(r) ==
  /\ pc[r] = "mark"
  /\ keyrow = Settings
  /\ lock["system"] = r

DeadlockAbortsRun(r) ==
  /\ Deadlock(r)
  /\ Fail(r, "deadlock")
  /\ UNCHANGED <<objects, answered>>

DeadlockAbortsDelete(r) ==
  /\ Deadlock(r)
  /\ keyrow' = None
  /\ UNCHANGED <<tables, objects, answered, lock, pc, seen, rows, outcome>>
-----------------------------------------------------------------------------
RunStep(r) ==
  \/ CheckPosture(r)
  \/ CheckReads(r)
  \/ CommitDenial(r)
  \/ CheckBoundary(r)
  \/ FlushSystem(r)
  \/ FlushMatter(r)
  \/ ReadPosture(r)
  \/ ResolveKey(r)
  \/ ProviderAnswers(r)
  \/ ProviderError(r)
  \/ MarkKeyUsed(r)
  \/ CheckWrites(r)
  \/ WriteArtifact(r)
  \/ Finish(r)
  \/ AuditFailureCommit(r)
  \/ DeadlockAbortsRun(r)
  \/ DeadlockAbortsDelete(r)

Owner ==
  \/ \E p \in Postures : SetPosture(p)
  \/ CreateGrants
  \/ \E c \in Capabilities : RevokeGrant(c)
  \/ AddKey
  \/ DeleteKey
  \/ DeleteKeyCommit

Next ==
  \/ \E r \in Runs : Begin(r) \/ RunStep(r) \/ Crash(r)
  \/ Owner

Spec == Init /\ [][Next]_vars

(***************************************************************************)
(* Fairness: the event loop runs a started handler whenever it can go on,  *)
(* a provider answers or fails in the end (its client has a timeout),      *)
(* PostgreSQL grants chain locks and the lock of the key's row in queue    *)
(* order (strong fairness), and a started key deletion commits.            *)
(***************************************************************************)
FairSpec == Spec /\ \A r \in Runs : SF_vars(RunStep(r)) /\ SF_vars(MarkKeyUsed(r))
                 /\ WF_vars(DeleteKeyCommit)
-----------------------------------------------------------------------------
(* Properties.                                                             *)

\* Types of the tables, the locks and the runs.
TypeOK ==
  /\ posture \in Postures
  /\ grants \subseteq Capabilities
  /\ key \in BOOLEAN
  /\ trail \subseteq [run : Runs, action : Actions]
  /\ decisions \subseteq Runs
  /\ artifacts \subseteq Runs
  /\ objects \subseteq Runs
  /\ answered \subseteq Runs
  /\ lock \in [Chains -> Runs \cup {None}]
  /\ keyrow \in Runs \cup {None, Settings}
  /\ pc \in [Runs -> Steps]
  /\ seen \in [Runs -> Postures]
  /\ rows \in [Runs -> SUBSET Actions]
  /\ outcome \in [Runs -> Outcomes]

\* "C_paused: no cloud model call".  While a prompt is with the provider the
\* committed posture is not C_paused: a pause waits for the call or the call
\* sees the pause, whatever the request had loaded before.
NoCallWhilePaused ==
  \A r \in Runs : pc[r] = "calling" => posture # "C_paused"

\* An artifact becomes visible only while the write grant is in force: no
\* revocation can commit between require_capability and the run's commit.
ArtifactUnderGrant ==
  [][artifacts' # artifacts => "write" \in grants]_vars

\* The trail explains how a run ended: every refusal and provider failure,
\* though its transaction is rolled back, left its row; a completed run left
\* the invocation, the model call and the completion.
OutcomeAudited ==
  \A r \in Runs : pc[r] = "ended" =>
    /\ outcome[r] \in {"posture_blocked", "denied", "key_missing",
                       "model_error"} => RowsOf(r, {outcome[r]}) \subseteq trail
    /\ outcome[r] = "completed" =>
         RowsOf(r, {"boundary_completed", "invoked", "model_call",
                    "model_invoked", "completed"}) \subseteq trail

\* The WORM row "is the authoritative existence check": a committed artifact
\* has its bytes in storage and was produced by a call that was answered,
\* gated and recorded.
ArtifactBacked ==
  artifacts \subseteq objects \cap answered \cap decisions

\* A started run ends: make_provider_call "Propagates ProviderKeyMissing and
\* ProviderUpstreamError unchanged so the endpoint can translate them".
RunsAnswered ==
  \A r \in Runs : pc[r] # "idle" ~> pc[r] = "ended"

\* A run whose model call failed, waiting for the lock it holds itself.
WaitsForItself(q) ==
  pc[q] = "oob" /\ lock["matter"] = q /\ outcome[q] \in {"key_missing", "model_error"}

\* Nothing else keeps a run waiting: a started run ends, whatever is denied,
\* paused, deadlocked, revoked or lost on the way, unless some run awaits the
\* audit row of its failed model call under its own lock, which also holds up
\* every other run of the matter.
OnlyFailedCallsHang ==
  \A r \in Runs : pc[r] # "idle" ~> pc[r] = "ended" \/ \E q \in Runs : WaitsForItself(q)
=============================================================================
