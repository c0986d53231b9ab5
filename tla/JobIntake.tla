------------------------------ MODULE JobIntake -----------------------------
(* How jobs enter the table: POST /projects/{slug}/jobs (api/routes/jobs.py *)
(* create_job) counts the open jobs of the project and then inserts one; a  *)
(* CI pushes a finished run (api/routes/ingest.py ingest_run) under an      *)
(* external id and may push it again.  Requests run concurrently (pushes    *)
(* when several processes serve the API: ingest_run is async and does not   *)
(* await once it has its body), in transactions at READ COMMITTED: a SELECT *)
(* sees what is committed.                                                  *)
EXTENDS Integers, FiniteSets

CONSTANTS Requests,     \* requests of users to run a job
          MaxOpen,      \* QC_MAX_OPEN_JOBS_PER_PROJECT
          Handlers,     \* threads that serve such requests at a time
          Pushes,       \* CI jobs that push a run
          Exts,         \* external ids
          Ext,          \* Ext[p]: the external id that p pushes
          MaxSends      \* bound: how often a CI job sends its run

ASSUME IntakeAssumption ==
  /\ MaxOpen \in Nat \ {0} /\ Handlers \in Nat \ {0} /\ MaxSends \in Nat \ {0}
  /\ Ext \in [Pushes -> Exts]

VARIABLES request,      \* where each request to run a job has got to
          push,         \* where each push has got to
          sends,        \* how often it was sent: its job id is <<p, sends[p]>>
          runs,         \* committed rows of ingested runs
          runDirs,      \* run directories written by ingest
          answers       \* the job ids each CI job was told

vars == <<request, push, sends, runs, runDirs, answers>>

Ids == Pushes \X (1..MaxSends)

TypeOK ==
  /\ request \in [Requests -> {"new", "counted", "open", "ended", "refused", "failed"}]
  /\ push \in [Pushes -> {"new", "inserting", "inserted", "stored", "answered", "failed"}]
  /\ sends \in [Pushes -> 0..MaxSends]
  /\ runs \in SUBSET [id : Ids, ext : Exts]
  /\ runDirs \in SUBSET Ids
  /\ answers \in [Pushes -> SUBSET Ids]

Init ==
  /\ request = [r \in Requests |-> "new"]
  /\ push = [p \in Pushes |-> "new"]
  /\ sends = [p \in Pushes |-> 0]
  /\ runs = {} /\ runDirs = {}
  /\ answers = [p \in Pushes |-> {}]
-----------------------------------------------------------------------------
OpenJobs == {r \in Requests : request[r] = "open"}
InFlight == {r \in Requests : request[r] = "counted"}

\* Mutant: the open jobs are not counted.
CountUnlimited(r) ==
  /\ request[r] = "new" /\ Cardinality(InFlight) < Handlers
  /\ request' = [request EXCEPT ![r] = "counted"]
  /\ UNCHANGED <<push, sends, runs, runDirs, answers>>

\* count_open_jobs: the job is admitted, or the answer is 429.
Count(r) ==
  /\ request[r] = "new" /\ Cardinality(InFlight) < Handlers
  /\ request' = [request EXCEPT ![r] = IF Cardinality(OpenJobs) >= MaxOpen THEN "refused"
                                       ELSE "counted"]
  /\ UNCHANGED <<push, sends, runs, runDirs, answers>>

\* create_job and the commit of the request's transaction; or its rollback.
Insert(r) ==
  /\ request[r] = "counted"
  /\ \E outcome \in {"open", "failed"} : request' = [request EXCEPT ![r] = outcome]
  /\ UNCHANGED <<push, sends, runs, runDirs, answers>>

\* The executor, or a cancellation, ends the job.
JobEnds(r) ==
  /\ request[r] = "open"
  /\ request' = [request EXCEPT ![r] = "ended"]
  /\ UNCHANGED <<push, sends, runs, runDirs, answers>>
-----------------------------------------------------------------------------
Id(p) == <<p, sends[p]>>

\* The first SELECT of create_finished_job: the committed row of an external id.
Known(x) == {run \in runs : run.ext = x}

Answer(p, id) == /\ push' = [push EXCEPT ![p] = "answered"]
                 /\ answers' = [answers EXCEPT ![p] = @ \cup {id}]

\* A CI job sends its run, for the first time or because the answer was lost
\* or was an error.
Send(p) ==
  /\ push[p] \in {"new", "answered", "failed"} /\ sends[p] < MaxSends
  /\ sends' = [sends EXCEPT ![p] = @ + 1]
  /\ IF Known(Ext[p]) = {}
       THEN push' = [push EXCEPT ![p] = "inserting"] /\ UNCHANGED answers
       ELSE \E run \in Known(Ext[p]) : Answer(p, run.id)
  /\ UNCHANGED <<request, runs, runDirs>>

\* Mutant: the row is inserted whatever there is (no unique index).
InsertRunUnchecked(p) ==
  /\ push[p] = "inserting"
  /\ push' = [push EXCEPT ![p] = "inserted"]
  /\ UNCHANGED <<request, sends, runs, runDirs, answers>>

\* create_finished_job: the INSERT waits for an uncommitted row with the same
\* external id; if that one was committed it fails and the row is read again.
InsertRun(p) ==
  /\ push[p] = "inserting"
  /\ \A q \in Pushes : Ext[q] = Ext[p] => push[q] \notin {"inserted", "stored"}
  /\ IF Known(Ext[p]) = {}
       THEN push' = [push EXCEPT ![p] = "inserted"] /\ UNCHANGED answers
       ELSE \E run \in Known(Ext[p]) : Answer(p, run.id)
  /\ UNCHANGED <<request, sends, runs, runDirs>>

\* The run directory, report.json and report.md are written, then the rows of
\* the tasks and artifacts (in the transaction).
StoreRun(p) ==
  /\ push[p] = "inserted"
  /\ push' = [push EXCEPT ![p] = "stored"]
  /\ runDirs' = runDirs \cup {Id(p)}
  /\ UNCHANGED <<request, sends, runs, answers>>

\* The transaction commits and only then the answer is made.
CommitRun(p) ==
  /\ push[p] = "stored"
  /\ runs' = runs \cup {[id |-> Id(p), ext |-> Ext[p]]}
  /\ Answer(p, Id(p))
  /\ UNCHANGED <<request, sends, runDirs>>

\* An error, or the death of the service: the transaction is rolled back, the
\* run directory stays behind.
FailRun(p) ==
  /\ push[p] \in {"inserting", "inserted", "stored"}
  /\ push' = [push EXCEPT ![p] = "failed"]
  /\ UNCHANGED <<request, sends, runs, runDirs, answers>>
-----------------------------------------------------------------------------
Quiescent == /\ \A r \in Requests : request[r] \in {"ended", "refused", "failed"}
             /\ \A p \in Pushes : push[p] \in {"answered", "failed"} /\ sends[p] = MaxSends
             /\ UNCHANGED vars

Next == \/ \E r \in Requests : Count(r) \/ Insert(r) \/ JobEnds(r)
        \/ \E p \in Pushes : \/ Send(p) \/ InsertRun(p) \/ StoreRun(p)
                             \/ CommitRun(p) \/ FailRun(p)
        \/ Quiescent

Spec == Init /\ [][Next]_vars
-----------------------------------------------------------------------------
\* create_finished_job is idempotent by (project, external_id), "even when two
\* requests race": one row per external id, however often a CI job pushes.
OneRunPerExternalId == \A run, other \in runs : run.ext = other.ext => run = other

\* The count and the insert are not atomic: the limit can be passed, but only
\* by the requests that were counting at the same time.
OverrunIsBounded == Cardinality(OpenJobs) < MaxOpen + Handlers
=============================================================================
