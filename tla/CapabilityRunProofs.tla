------------------------- MODULE CapabilityRunProofs -------------------------
(***************************************************************************)
(* The safety properties of CapabilityRun for any number of runs, any mix  *)
(* of gated, qualified and refused ones, and every provider.               *)
(*                                                                         *)
(* The argument: a run keeps the advisory lock of the matter from the      *)
(* flush before the model call to the end of its transaction (LockHeld),   *)
(* and every change of the posture or of the grants needs that lock to     *)
(* commit its audit row.  So what the run read under the lock still holds  *)
(* when it acts on it (Protected).  Logged is the bookkeeping behind the   *)
(* trail: what a run has logged, stored and been answered at each step.    *)
(***************************************************************************)
EXTENDS CapabilityRun, TLAPS

Locked == {"posture", "key", "calling", "mark", "writes", "artifact", "finish"}

LockHeld == \A r \in Runs : pc[r] \in Locked => lock["matter"] = r

Protected ==
  \A r \in Runs :
    /\ pc[r] \in {"key", "calling"} => posture # "C_paused"
    /\ pc[r] \in {"artifact", "finish"} => "write" \in grants

Logged ==
  \A r \in Runs :
    /\ pc[r] = "deny" => "denied" \in rows[r]
    /\ pc[r] \in Locked \cup {"flush_system", "flush_matter"}
         => {"boundary_completed", "invoked"} \subseteq rows[r]
    /\ pc[r] \in {"mark", "writes", "artifact", "finish"} => r \in answered
    /\ pc[r] \in {"artifact", "finish"}
         => {"model_call", "model_invoked"} \subseteq rows[r]
    /\ pc[r] = "finish" => "completed" \in rows[r] /\ r \in objects
    /\ pc[r] = "oob" => outcome[r] \in {"posture_blocked", "key_missing",
                                        "model_error"}

IInv == TypeOK /\ LockHeld /\ Protected /\ Logged /\ OutcomeAudited
          /\ ArtifactBacked
-----------------------------------------------------------------------------
\* No run, no artifact: the invariant holds initially.
LEMMA InitIInv == Init => IInv
  BY NobodyAssumption
  DEF Init, IInv, TypeOK, LockHeld, Protected, Logged, OutcomeAudited,
      ArtifactBacked, Locked, Steps, Outcomes, Chains, Postures

\* Every step keeps the types.
LEMMA TypeStep == TypeOK /\ Logged /\ [Next]_vars => TypeOK'
<1> SUFFICES ASSUME TypeOK, Logged, [Next]_vars PROVE TypeOK'
  OBVIOUS
<1> USE NobodyAssumption, RunSetAssumption DEF TypeOK, Steps, Chains, GoTo, tables
<1>1. ASSUME NEW r \in Runs, Begin(r) PROVE TypeOK'
  BY <1>1 DEF Begin
<1>2. ASSUME NEW r \in Runs, NEW o \in Outcomes, Fail(r, o),
             UNCHANGED <<objects, answered>>
      PROVE TypeOK'
  BY <1>2 DEF Fail, Release
<1>3. ASSUME NEW r \in Runs, NEW o \in Outcomes, AuditFailure(r, o),
             UNCHANGED answered
      PROVE TypeOK'
  BY <1>3 DEF AuditFailure
<1>4. ASSUME NEW r \in Runs, NEW A \in SUBSET Actions, NEW step \in Steps,
             LogRow(r, A, step), answered' \subseteq Runs
      PROVE TypeOK'
  BY <1>4 DEF LogRow
<1>5. ASSUME NEW r \in Runs, NEW A \in SUBSET Actions
      PROVE RowsOf(r, A) \subseteq [run : Runs, action : Actions]
  BY DEF RowsOf
<1>6. ASSUME NEW r \in Runs, CheckPosture(r) PROVE TypeOK'
  BY <1>3, <1>4, <1>6 DEF CheckPosture, Outcomes
<1>7. ASSUME NEW r \in Runs, CheckReads(r) PROVE TypeOK'
  BY <1>4, <1>7 DEF CheckReads, RequireCapability, Actions
<1>8. ASSUME NEW r \in Runs, CommitDenial(r) PROVE TypeOK'
  BY <1>5, <1>8 DEF CommitDenial, Release, Outcomes
<1>9. ASSUME NEW r \in Runs, CheckBoundary(r) PROVE TypeOK'
  BY <1>2, <1>4, <1>9 DEF CheckBoundary, Outcomes, Actions
<1>10. ASSUME NEW r \in Runs, FlushSystem(r) PROVE TypeOK'
  BY <1>10 DEF FlushSystem
<1>11. ASSUME NEW r \in Runs, FlushMatter(r) PROVE TypeOK'
  BY <1>11 DEF FlushMatter
<1>12. ASSUME NEW r \in Runs, ReadPosture(r) PROVE TypeOK'
  BY <1>2, <1>4, <1>12 DEF ReadPosture, Outcomes
<1>13. ASSUME NEW r \in Runs, ResolveKey(r) PROVE TypeOK'
  BY <1>3, <1>4, <1>13 DEF ResolveKey, Outcomes
<1>14. ASSUME NEW r \in Runs, ProviderAnswers(r) PROVE TypeOK'
  BY <1>4, <1>14 DEF ProviderAnswers
<1>15. ASSUME NEW r \in Runs, ProviderError(r) PROVE TypeOK'
  BY <1>3, <1>15 DEF ProviderError, Outcomes
<1>16. ASSUME NEW r \in Runs, MarkKeyUsed(r) PROVE TypeOK'
  BY <1>16 DEF MarkKeyUsed
<1>17. ASSUME NEW r \in Runs, CheckWrites(r) PROVE TypeOK'
  BY <1>4, <1>17 DEF CheckWrites, Actions
<1>18. ASSUME NEW r \in Runs, WriteArtifact(r) PROVE TypeOK'
  <2>1. CASE Fail(r, "storage_failed") /\ UNCHANGED objects
    BY <1>2, <1>18, <2>1 DEF WriteArtifact, Outcomes
  <2>2. CASE ~ (Fail(r, "storage_failed") /\ UNCHANGED objects)
    BY <1>18, <2>2 DEF WriteArtifact, Actions
  <2> QED BY <2>1, <2>2
<1>19. ASSUME NEW r \in Runs, Finish(r) PROVE TypeOK'
  BY <1>5, <1>19 DEF Finish, Release, Outcomes
<1>20. ASSUME NEW r \in Runs, AuditFailureCommit(r) PROVE TypeOK'
  <2>1. {outcome[r]} \in SUBSET Actions
    BY <1>20 DEF AuditFailureCommit, Logged, Actions
  <2> QED BY <1>5, <1>20, <2>1 DEF AuditFailureCommit, Release
<1>21. ASSUME NEW r \in Runs, Crash(r) PROVE TypeOK'
  BY <1>2, <1>21 DEF Crash, Outcomes
<1>22. ASSUME NEW r \in Runs, DeadlockAbortsRun(r) PROVE TypeOK'
  BY <1>2, <1>22 DEF DeadlockAbortsRun, Outcomes
<1>23. ASSUME NEW r \in Runs, DeadlockAbortsDelete(r) PROVE TypeOK'
  BY <1>23 DEF DeadlockAbortsDelete
<1>24. CASE Owner
  BY <1>24 DEF Owner, SetPosture, CreateGrants, RevokeGrant, AddKey, DeleteKey,
               DeleteKeyCommit
<1>25. CASE UNCHANGED vars
  BY <1>25 DEF vars
<1> QED
  BY <1>1, <1>6, <1>7, <1>8, <1>9, <1>10, <1>11, <1>12, <1>13, <1>14, <1>15,
     <1>16, <1>17, <1>18, <1>19, <1>20, <1>21, <1>22, <1>23, <1>24, <1>25
  DEF Next, RunStep
-----------------------------------------------------------------------------
\* The end of a run, in whatever way, frees only the locks the run held.
LEMMA ReleaseKeepsOthers ==
  ASSUME TypeOK, NEW r \in Runs, NEW q \in Runs \ {r}, Release(r),
         lock["matter"] = q
  PROVE  lock'["matter"] = q
  BY DEF TypeOK, Release, Chains

\* From its flush to its end a run holds the matter lock.
LEMMA LockStep == IInv /\ [Next]_vars => LockHeld'
<1> SUFFICES ASSUME IInv, [Next]_vars, NEW q \in Runs, pc'[q] \in Locked
             PROVE  lock'["matter"] = q
  BY DEF LockHeld
<1> USE NobodyAssumption DEF IInv, TypeOK, LockHeld, Chains, Locked
<1>1. ASSUME NEW r \in Runs, Begin(r) PROVE lock'["matter"] = q
  BY <1>1 DEF Begin, GoTo
<1>2. ASSUME NEW r \in Runs, Release(r), GoTo(r, "ended")
      PROVE  lock'["matter"] = q
  BY <1>2, ReleaseKeepsOthers DEF GoTo
<1>3. ASSUME NEW r \in Runs, CommitDenial(r) \/ Finish(r) \/ AuditFailureCommit(r)
      PROVE  lock'["matter"] = q
  BY <1>2, <1>3 DEF CommitDenial, Finish, AuditFailureCommit
<1>4. ASSUME NEW r \in Runs, NEW o, Fail(r, o) PROVE lock'["matter"] = q
  BY <1>2, <1>4 DEF Fail
<1>5. ASSUME NEW r \in Runs, FlushSystem(r) PROVE lock'["matter"] = q
  BY <1>5 DEF FlushSystem, GoTo
<1>6. ASSUME NEW r \in Runs, FlushMatter(r) PROVE lock'["matter"] = q
  BY <1>6 DEF FlushMatter, LockFree, GoTo
<1>7. ASSUME NEW r \in Runs,
             CheckPosture(r) \/ CheckReads(r) \/ CheckBoundary(r)
      PROVE  lock'["matter"] = q
  BY <1>4, <1>7 DEF CheckPosture, CheckReads, CheckBoundary, RequireCapability,
                    LogRow, AuditFailure, GoTo
<1>8. ASSUME NEW r \in Runs,
             \/ ReadPosture(r) \/ ResolveKey(r) \/ ProviderAnswers(r)
             \/ ProviderError(r) \/ MarkKeyUsed(r) \/ CheckWrites(r)
             \/ WriteArtifact(r)
      PROVE  lock'["matter"] = q
  BY <1>4, <1>8 DEF ReadPosture, ResolveKey, ProviderAnswers, ProviderError,
                    MarkKeyUsed, CheckWrites, WriteArtifact, LogRow,
                    AuditFailure, GoTo
<1>9. ASSUME NEW r \in Runs,
             Crash(r) \/ DeadlockAbortsRun(r) \/ DeadlockAbortsDelete(r)
      PROVE  lock'["matter"] = q
  BY <1>4, <1>9 DEF Crash, DeadlockAbortsRun, DeadlockAbortsDelete
<1>10. CASE Owner \/ UNCHANGED vars
  BY <1>10 DEF Owner, SetPosture, CreateGrants, RevokeGrant, AddKey, DeleteKey,
               DeleteKeyCommit, vars
<1> QED
  BY <1>1, <1>3, <1>5, <1>6, <1>7, <1>8, <1>9, <1>10 DEF Next, RunStep

\* What a run read under the matter lock still holds at its next step.
LEMMA ProtectedStep == IInv /\ [Next]_vars => Protected'
<1> SUFFICES ASSUME IInv, [Next]_vars, NEW q \in Runs
             PROVE  /\ pc'[q] \in {"key", "calling"} => posture' # "C_paused"
                    /\ pc'[q] \in {"artifact", "finish"} => "write" \in grants'
  BY DEF Protected
<1> DEFINE Goal == /\ pc'[q] \in {"key", "calling"} => posture' # "C_paused"
                   /\ pc'[q] \in {"artifact", "finish"} => "write" \in grants'
<1> USE NobodyAssumption DEF IInv, TypeOK, Protected, GoTo, tables
<1>1. ASSUME NEW r \in Runs, Begin(r) PROVE Goal
  BY <1>1 DEF Begin
<1>2. ASSUME NEW r \in Runs, NEW o, Fail(r, o) PROVE Goal
  BY <1>2 DEF Fail
<1>3. ASSUME NEW r \in Runs, NEW o, AuditFailure(r, o) PROVE Goal
  BY <1>3 DEF AuditFailure
<1>4. ASSUME NEW r \in Runs,
             \/ CommitDenial(r) \/ Finish(r) \/ AuditFailureCommit(r)
             \/ FlushSystem(r) \/ FlushMatter(r) \/ MarkKeyUsed(r)
      PROVE  Goal
  BY <1>4 DEF CommitDenial, Finish, AuditFailureCommit, FlushSystem,
              FlushMatter, MarkKeyUsed
<1>5. ASSUME NEW r \in Runs,
             CheckPosture(r) \/ CheckReads(r) \/ CheckBoundary(r)
      PROVE  Goal
  BY <1>2, <1>3, <1>5 DEF CheckPosture, CheckReads, CheckBoundary,
                          RequireCapability, LogRow
<1>6. ASSUME NEW r \in Runs,
             \/ ReadPosture(r) \/ ResolveKey(r) \/ ProviderAnswers(r)
             \/ ProviderError(r) \/ CheckWrites(r) \/ WriteArtifact(r)
      PROVE  Goal
  BY <1>2, <1>3, <1>6 DEF ReadPosture, ResolveKey, ProviderAnswers,
                          ProviderError, CheckWrites, WriteArtifact, LogRow
<1>7. ASSUME NEW r \in Runs,
             Crash(r) \/ DeadlockAbortsRun(r) \/ DeadlockAbortsDelete(r)
      PROVE  Goal
  BY <1>2, <1>7 DEF Crash, DeadlockAbortsRun, DeadlockAbortsDelete
<1>8. CASE Owner
  <2>1. lock["matter"] = None => pc[q] \notin Locked
    BY DEF LockHeld
  <2> QED
    BY <1>8, <2>1 DEF Owner, SetPosture, CreateGrants, RevokeGrant, AddKey,
                      DeleteKey, DeleteKeyCommit, Locked
<1>9. CASE UNCHANGED vars
  BY <1>9 DEF vars
<1> QED
  BY <1>1, <1>4, <1>5, <1>6, <1>7, <1>8, <1>9 DEF Next, RunStep

\* What a run has logged, stored and been answered goes with its step.
LEMMA LoggedStep == IInv /\ [Next]_vars => Logged'
<1> SUFFICES ASSUME IInv, [Next]_vars PROVE Logged'
  OBVIOUS
<1> USE DEF IInv, TypeOK, Logged, Locked, GoTo
<1>1. ASSUME NEW r \in Runs, Begin(r) PROVE Logged'
  BY <1>1 DEF Begin
<1>2. ASSUME NEW r \in Runs, NEW o, Fail(r, o), UNCHANGED <<objects, answered>>
      PROVE  Logged'
  BY <1>2 DEF Fail, Release
<1>3. ASSUME NEW r \in Runs, UNCHANGED answered,
             NEW o \in {"posture_blocked", "key_missing", "model_error"},
             AuditFailure(r, o)
      PROVE  Logged'
  BY <1>3 DEF AuditFailure
<1>4. ASSUME NEW r \in Runs,
             CommitDenial(r) \/ Finish(r) \/ AuditFailureCommit(r)
      PROVE  Logged'
  BY <1>4 DEF CommitDenial, Finish, AuditFailureCommit, Release
<1>5. ASSUME NEW r \in Runs, FlushSystem(r) \/ FlushMatter(r) \/ MarkKeyUsed(r)
      PROVE  Logged'
  BY <1>5 DEF FlushSystem, FlushMatter, MarkKeyUsed
<1>6. ASSUME NEW r \in Runs, CheckPosture(r) \/ CheckReads(r) PROVE Logged'
  BY <1>3, <1>6 DEF CheckPosture, CheckReads, RequireCapability, LogRow
<1>7. ASSUME NEW r \in Runs, CheckBoundary(r) PROVE Logged'
  BY <1>2, <1>7 DEF CheckBoundary, LogRow
<1>8. ASSUME NEW r \in Runs, ReadPosture(r) \/ ResolveKey(r) PROVE Logged'
  BY <1>2, <1>3, <1>8 DEF ReadPosture, ResolveKey, LogRow
<1>9. ASSUME NEW r \in Runs, ProviderAnswers(r) \/ ProviderError(r)
      PROVE  Logged'
  BY <1>3, <1>9 DEF ProviderAnswers, ProviderError, LogRow
<1>10. ASSUME NEW r \in Runs, CheckWrites(r) PROVE Logged'
  BY <1>10 DEF CheckWrites, LogRow
<1>11. ASSUME NEW r \in Runs, WriteArtifact(r) PROVE Logged'
  BY <1>2, <1>11 DEF WriteArtifact
<1>12. ASSUME NEW r \in Runs,
              Crash(r) \/ DeadlockAbortsRun(r) \/ DeadlockAbortsDelete(r)
       PROVE  Logged'
  BY <1>2, <1>12 DEF Crash, DeadlockAbortsRun, DeadlockAbortsDelete
<1>13. CASE Owner \/ UNCHANGED vars
  BY <1>13 DEF Owner, SetPosture, CreateGrants, RevokeGrant, AddKey, DeleteKey,
               DeleteKeyCommit, vars, tables
<1> QED
  BY <1>1, <1>4, <1>5, <1>6, <1>7, <1>8, <1>9, <1>10, <1>11, <1>12, <1>13
  DEF Next, RunStep

\* A run that ends has the row of its outcome.
LEMMA AuditedStep == IInv /\ [Next]_vars => OutcomeAudited'
<1> SUFFICES ASSUME IInv, [Next]_vars PROVE OutcomeAudited'
  OBVIOUS
<1> USE DEF IInv, TypeOK, OutcomeAudited, RowsOf, GoTo, tables
<1>1. ASSUME NEW r \in Runs, Begin(r) PROVE OutcomeAudited'
  BY <1>1 DEF Begin
<1>2. ASSUME NEW r \in Runs,
             NEW o \in {"boundary_denied", "paused", "storage_failed",
                        "deadlock", "crashed"},
             Fail(r, o)
      PROVE  OutcomeAudited'
  BY <1>2 DEF Fail
<1>3. ASSUME NEW r \in Runs, NEW o, AuditFailure(r, o) PROVE OutcomeAudited'
  BY <1>3 DEF AuditFailure
<1>4. ASSUME NEW r \in Runs, NEW A, NEW step \in Steps \ {"ended"},
             LogRow(r, A, step)
      PROVE  OutcomeAudited'
  BY <1>4 DEF LogRow
<1>5. ASSUME NEW r \in Runs, CommitDenial(r) PROVE OutcomeAudited'
  BY <1>5 DEF CommitDenial, Logged
<1>6. ASSUME NEW r \in Runs, Finish(r) PROVE OutcomeAudited'
  BY <1>6 DEF Finish, Logged, Locked
<1>7. ASSUME NEW r \in Runs, AuditFailureCommit(r) PROVE OutcomeAudited'
  BY <1>7 DEF AuditFailureCommit, Logged
<1>8. ASSUME NEW r \in Runs, FlushSystem(r) \/ FlushMatter(r) \/ MarkKeyUsed(r)
      PROVE  OutcomeAudited'
  BY <1>8 DEF FlushSystem, FlushMatter, MarkKeyUsed
<1>9. ASSUME NEW r \in Runs,
             CheckPosture(r) \/ CheckReads(r) \/ CheckBoundary(r)
      PROVE  OutcomeAudited'
  BY <1>2, <1>3, <1>4, <1>9 DEF CheckPosture, CheckReads, CheckBoundary,
                                RequireCapability, Steps
<1>10. ASSUME NEW r \in Runs,
              \/ ReadPosture(r) \/ ResolveKey(r) \/ ProviderAnswers(r)
              \/ ProviderError(r) \/ CheckWrites(r)
       PROVE  OutcomeAudited'
  BY <1>2, <1>3, <1>4, <1>10 DEF ReadPosture, ResolveKey, ProviderAnswers,
                                 ProviderError, CheckWrites, Steps
<1>11. ASSUME NEW r \in Runs, WriteArtifact(r) PROVE OutcomeAudited'
  BY <1>2, <1>11 DEF WriteArtifact
<1>12. ASSUME NEW r \in Runs,
              Crash(r) \/ DeadlockAbortsRun(r) \/ DeadlockAbortsDelete(r)
       PROVE  OutcomeAudited'
  BY <1>2, <1>12 DEF Crash, DeadlockAbortsRun, DeadlockAbortsDelete
<1>13. CASE Owner \/ UNCHANGED vars
  BY <1>13 DEF Owner, SetPosture, CreateGrants, RevokeGrant, AddKey, DeleteKey,
               DeleteKeyCommit, vars
<1> QED
  BY <1>1, <1>5, <1>6, <1>7, <1>8, <1>9, <1>10, <1>11, <1>12, <1>13
  DEF Next, RunStep

\* Only the commit of the endpoint changes matter_artifacts; the other steps
\* of a run never take anything from the tables an artifact rests on.
LEMMA OnlyFinishWrites ==
  ASSUME NEW r \in Runs, RunStep(r) \/ Begin(r) \/ Crash(r), ~ Finish(r)
  PROVE  /\ artifacts' = artifacts
         /\ objects \subseteq objects'
         /\ answered \subseteq answered'
         /\ decisions \subseteq decisions'
  BY DEF RunStep, Begin, Crash, CheckPosture, CheckReads, CommitDenial,
     CheckBoundary, FlushSystem, FlushMatter, ReadPosture, ResolveKey,
     ProviderAnswers, ProviderError, MarkKeyUsed, CheckWrites, WriteArtifact,
     AuditFailureCommit, DeadlockAbortsRun, DeadlockAbortsDelete, Fail,
     AuditFailure, LogRow, RequireCapability, tables

\* The owner's requests leave artifacts, their bytes and decisions alone.
LEMMA OwnerKeepsArtifacts ==
  Owner \/ UNCHANGED vars => UNCHANGED <<artifacts, objects, answered, decisions>>
  BY DEF Owner, SetPosture, CreateGrants, RevokeGrant, AddKey, DeleteKey,
         DeleteKeyCommit, vars, tables

\* A committed artifact keeps its bytes, its answer and its decision.
LEMMA BackedStep == IInv /\ [Next]_vars => ArtifactBacked'
<1> SUFFICES ASSUME IInv, [Next]_vars PROVE ArtifactBacked'
  OBVIOUS
<1> USE DEF IInv, ArtifactBacked
<1>1. ASSUME NEW r \in Runs, Finish(r) PROVE ArtifactBacked'
  BY <1>1 DEF Finish, Logged
<1>2. ASSUME NEW r \in Runs, RunStep(r) \/ Begin(r) \/ Crash(r), ~ Finish(r)
      PROVE  ArtifactBacked'
  BY <1>2, OnlyFinishWrites
<1>3. CASE Owner \/ UNCHANGED vars
  BY <1>3, OwnerKeepsArtifacts
<1> QED
  BY <1>1, <1>2, <1>3 DEF Next
-----------------------------------------------------------------------------
\* The invariant holds in every reachable state.
LEMMA Invariance == Spec => []IInv
<1>1. IInv /\ [Next]_vars => IInv'
  BY TypeStep, LockStep, ProtectedStep, LoggedStep, AuditedStep, BackedStep
  DEF IInv
<1> QED
  BY InitIInv, <1>1, PTL DEF Spec

\* Every table, lock and run of the invocation endpoint keeps its type.
THEOREM TypeCorrect == Spec => []TypeOK
<1>1. IInv => TypeOK
  BY DEF IInv
<1> QED
  BY Invariance, <1>1, PTL

\* ModelGateway.call never has a prompt with the provider while the matter's
\* committed posture is C_paused, for any number of concurrent runs.
THEOREM CallsRespectPause == Spec => []NoCallWhilePaused
<1>1. IInv => NoCallWhilePaused
  BY DEF IInv, Protected, NoCallWhilePaused
<1> QED
  BY Invariance, <1>1, PTL

\* A run ends with its audit row committed, whichever way it ends.
THEOREM RunsAudited == Spec => []OutcomeAudited
<1>1. IInv => OutcomeAudited
  BY DEF IInv
<1> QED
  BY Invariance, <1>1, PTL

\* A committed artifact row has its bytes, its answered call, its decision.
THEOREM ArtifactsBacked == Spec => []ArtifactBacked
<1>1. IInv => ArtifactBacked
  BY DEF IInv
<1> QED
  BY Invariance, <1>1, PTL

\* The write grant checked by require_capability is still in force when the
\* run commits its artifact.
THEOREM ArtifactsUnderGrant == Spec => ArtifactUnderGrant
<1>1. ASSUME IInv, [Next]_vars
      PROVE  [artifacts' # artifacts => "write" \in grants]_vars
  <2>1. ASSUME NEW r \in Runs, Finish(r) PROVE "write" \in grants
    BY <1>1, <2>1 DEF Finish, Protected, IInv
  <2>2. Next => (artifacts' # artifacts => "write" \in grants)
    BY <2>1, OnlyFinishWrites, OwnerKeepsArtifacts DEF Next
  <2> QED
    BY <1>1, <2>2
<1> QED
  BY Invariance, <1>1, PTL DEF Spec, ArtifactUnderGrant
=============================================================================
