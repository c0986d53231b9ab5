------------------------ MODULE JobRepositoryProofs -------------------------
(* Proofs about JobRepository, for any set of jobs and executors and any    *)
(* number of attempts: whatever its callers do, in whatever order.          *)
EXTENDS JobRepository, TLAPS

\* The inductive invariant: claim_next does not look at attempts, so the types
\* need that a waiting job has one left.
RepoInv == RepoTypeOK /\ WaitingHasAttempt

\* The state machine of models.py, as far as the proofs need it.
LEMMA StatusFacts ==
  /\ Terminal \subseteq Statuses /\ "queued" \notin Terminal /\ "running" \notin Terminal
  /\ \A from : Targets(from) \subseteq Statuses
  /\ Targets("queued") \cap Terminal = {"cancelled"} /\ Targets("running") = Terminal
  /\ \A from \in Terminal : Targets(from) = {}
BY DEF Terminal, Statuses, Targets

\* The table starts with every invariant in place.
LEMMA RepoInitInv == RepoInit => RepoInv
<1>1. MaxAttempts \in Nat /\ MaxAttempts > 0
  BY MaxAttemptsAssumption
<1> QED BY <1>1 DEF RepoInit, RepoInv, RepoTypeOK, WaitingHasAttempt, Statuses, Terminal

\* No statement of repository.py breaks them.
LEMMA RepoStepInv == RepoInv /\ [RepoNext]_repoVars => RepoInv'
<1> SUFFICES ASSUME RepoInv, [RepoNext]_repoVars PROVE RepoInv'
  OBVIOUS
<1> USE MaxAttemptsAssumption DEF RepoInv, RepoTypeOK, WaitingHasAttempt
<1>1. ASSUME NEW j \in Jobs, ClaimRow(j) PROVE RepoInv'
  <2>1. attempts[j] < MaxAttempts
    BY <1>1 DEF ClaimRow
  <2> QED BY <1>1, <2>1 DEF ClaimRow, Beaten, Statuses
<1>2. ASSUME NEW j \in Jobs, BeatRow(j) PROVE RepoInv'
  BY <1>2 DEF BeatRow, Beaten
<1>3. ASSUME NEW j \in Jobs, NEW to \in Terminal, Transition(j, to) PROVE RepoInv'
  BY <1>3, StatusFacts DEF Transition
<1>4. ASSUME NEW j \in Jobs, Age(j) PROVE RepoInv'
  BY <1>4 DEF Age
<1>5. ASSUME NEW j \in Jobs, CancelQueued(j) PROVE RepoInv'
  BY <1>5, StatusFacts DEF CancelQueued, Terminal
<1>6. ASSUME NEW j \in Jobs, CancelRunning(j) PROVE RepoInv'
  BY <1>6 DEF CancelRunning
<1>7. ASSUME NEW r \in Executors, ReapCancelled(r) PROVE RepoInv'
  BY <1>7, StatusFacts DEF ReapCancelled, Stale, Terminal
<1>8. ASSUME NEW r \in Executors, ReapFailed(r) PROVE RepoInv'
  BY <1>8, StatusFacts DEF ReapFailed, Stale, Terminal
<1>9. ASSUME NEW r \in Executors, ReapRequeued(r) PROVE RepoInv'
  BY <1>9 DEF ReapRequeued, Stale, Statuses
<1>10. CASE UNCHANGED repoVars
  BY <1>10 DEF repoVars
<1> QED BY <1>1, <1>2, <1>3, <1>4, <1>5, <1>6, <1>7, <1>8, <1>9, <1>10
        DEF RepoNext, RowNext, ReapNext, RepoQuiescent

\* The types hold, and a waiting job always has an attempt left.
THEOREM RepoInvariant == RepoSpec => []RepoInv
BY RepoInitInv, RepoStepInv, PTL DEF RepoSpec

\* Every column of the jobs table keeps its type; attempts never pass max_attempts.
THEOREM RepoTypes == RepoSpec => []RepoTypeOK
BY RepoInvariant, PTL DEF RepoInv

\* claim_next never hands out a job whose attempts are used up (repository.py claim_next,
\* requeue_stale).
THEOREM WaitingJobsHaveAnAttempt == RepoSpec => []WaitingHasAttempt
BY RepoInvariant, PTL DEF RepoInv
-----------------------------------------------------------------------------
\* One row, one step: the row stays, or moves as the state machine allows.
RowMoves(j) == \/ Lifecycle!HandOut(j) \/ Lifecycle!Finish(j)
               \/ Lifecycle!Retry(j) \/ Lifecycle!Rest(j)

\* Each row moves, in every statement of repository.py, as the abstract job may.
LEMMA EveryRowMoves ==
  ASSUME RepoInv, [RepoNext]_repoVars, NEW j \in Jobs
  PROVE  RowMoves(j)
<1> USE MaxAttemptsAssumption
    DEF RepoInv, RepoTypeOK, WaitingHasAttempt, RowMoves, Lifecycle!HandOut,
        Lifecycle!Finish, Lifecycle!Retry, Lifecycle!Rest, Lifecycle!Terminal,
        Lifecycle!Targets, Lifecycle!Statuses, Terminal, Targets, Statuses
<1>1. ASSUME NEW i \in Jobs, ClaimRow(i) PROVE RowMoves(j)
  BY <1>1 DEF ClaimRow
<1>2. ASSUME NEW i \in Jobs, NEW to \in Terminal, Transition(i, to) PROVE RowMoves(j)
  BY <1>2 DEF Transition
<1>3. ASSUME NEW i \in Jobs, CancelQueued(i) PROVE RowMoves(j)
  BY <1>3 DEF CancelQueued
<1>4. ASSUME NEW r \in Executors, ReapCancelled(r) PROVE RowMoves(j)
  BY <1>4 DEF ReapCancelled, Stale
<1>5. ASSUME NEW r \in Executors, ReapFailed(r) PROVE RowMoves(j)
  BY <1>5 DEF ReapFailed, Stale
<1>6. ASSUME NEW r \in Executors, ReapRequeued(r) PROVE RowMoves(j)
  BY <1>6 DEF ReapRequeued, Stale
<1>7. ASSUME UNCHANGED <<status, attempts>> PROVE RowMoves(j)
  BY <1>7
<1> QED BY <1>1, <1>2, <1>3, <1>4, <1>5, <1>6, <1>7
        DEF RepoNext, RowNext, ReapNext, RepoQuiescent, repoVars, BeatRow, Age, CancelRunning

\* A job that ended stays as it ended, whoever still has a statement to run.
THEOREM EndedJobsStay == RepoSpec => TerminalIsFinal
<1>1. ASSUME RepoInv, [RepoNext]_repoVars
      PROVE  [\A j \in Jobs : status[j] \in Terminal => status'[j] = status[j]]_repoVars
  <2> SUFFICES ASSUME NEW j \in Jobs, status[j] \in Terminal PROVE status'[j] = status[j]
    OBVIOUS
  <2>1. RowMoves(j)
    BY <1>1, EveryRowMoves
  <2> QED BY <2>1 DEF RowMoves, Lifecycle!HandOut, Lifecycle!Finish, Lifecycle!Retry,
                      Lifecycle!Rest, Lifecycle!Targets, Lifecycle!Statuses, Terminal
<1> QED BY <1>1, RepoInvariant, PTL DEF RepoSpec, TerminalIsFinal

\* The jobs table implements the state machine of models.py, with at most
\* MaxAttempts attempts and requeue_stale as the only way back to queued.
THEOREM RepositoryImplementsLifecycle == RepoSpec => ImplementsLifecycle
<1>1. RepoInit => Lifecycle!Init
  BY DEF RepoInit, Lifecycle!Init
<1>2. ASSUME RepoInv, [RepoNext]_repoVars PROVE [Lifecycle!Next]_(Lifecycle!lvars)
  BY <1>2, EveryRowMoves DEF RowMoves, Lifecycle!Next
<1> QED BY <1>1, <1>2, RepoInvariant, PTL
        DEF RepoSpec, ImplementsLifecycle, Lifecycle!Spec
=============================================================================
