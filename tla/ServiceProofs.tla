--------------------------- MODULE ServiceProofs ---------------------------
(* Proofs about the HTTP API: JobIntake, for any number of requests, pushes *)
(* and threads of the API, and any limits; Accounts, for any number of      *)
(* concurrent requests, limit of failures, passwords and sessions.          *)
EXTENDS JobIntake, Accounts, FiniteSetTheorems, TLAPS

-----------------------------------------------------------------------------
(* Jobs and pushed runs: JobIntake.                                          *)

\* The transactions that hold an uncommitted row.
Writing == {"inserted", "stored"}

\* A row, or a transaction about to have one, is alone with its external id: the unique
\* index makes INSERT wait for uncommitted rows and fail on committed ones.
SentOnce    == \A p \in Pushes : push[p] # "new" => sends[p] >= 1
OneWriter   == \A p, q \in Pushes : push[p] \in Writing /\ push[q] \in Writing /\ Ext[p] = Ext[q] => p = q
WriterIsNew == \A p \in Pushes : push[p] \in Writing => Known(Ext[p]) = {}

IntakeInv == TypeOK /\ SentOnce /\ OneRunPerExternalId /\ OneWriter /\ WriterIsNew

\* What a push is told, a row tells it.
LEMMA KnownIds ==
  ASSUME TypeOK, NEW x, NEW run \in Known(x)
  PROVE  run.id \in Ids /\ run \in runs /\ run.ext = x
BY DEF TypeOK, Known

\* There is no push and no run to begin with.
LEMMA IntakeInit == Init => IntakeInv
BY IntakeAssumption
   DEF Init, IntakeInv, TypeOK, SentOnce, OneRunPerExternalId, OneWriter, WriterIsNew, Writing

\* A request to run a job does not touch the runs that are pushed.
LEMMA RequestStep ==
  ASSUME IntakeInv, NEW r \in Requests, Count(r) \/ Insert(r) \/ JobEnds(r)
  PROVE  IntakeInv'
<1>1. UNCHANGED <<push, sends, runs, runDirs, answers>>
  BY DEF Count, Insert, JobEnds
<1>2. request' \in [Requests -> {"new", "counted", "open", "ended", "refused", "failed"}]
  BY DEF IntakeInv, TypeOK, Count, Insert, JobEnds
<1> QED BY <1>1, <1>2 DEF IntakeInv, TypeOK, SentOnce, OneRunPerExternalId, OneWriter, WriterIsNew, Known

\* Who is told of a row has no uncommitted one.
LEMMA AnswerStep ==
  ASSUME IntakeInv, NEW p \in Pushes, NEW id \in Ids, Answer(p, id), sends'[p] >= 1,
         sends' \in [Pushes -> 0..MaxSends], \A q \in Pushes : sends'[q] >= sends[q],
         UNCHANGED <<request, runs, runDirs>>
  PROVE  IntakeInv'
<1>1. TypeOK'
  BY DEF IntakeInv, TypeOK, Answer
<1>2. ASSUME NEW q \in Pushes, push'[q] # "new" PROVE sends'[q] >= 1
  <2>1. sends[q] \in 0..MaxSends /\ sends'[q] \in 0..MaxSends
    BY DEF IntakeInv, TypeOK
  <2>2. CASE q # p
    <3>1. push[q] # "new"
      BY <1>2, <2>2 DEF IntakeInv, TypeOK, Answer
    <3>2. sends[q] >= 1 /\ sends'[q] >= sends[q]
      BY <3>1 DEF IntakeInv, SentOnce
    <3> QED BY <2>1, <3>2, IntakeAssumption
  <2> QED BY <2>2
<1>3. SentOnce'
  BY <1>2 DEF SentOnce
<1> QED BY <1>1, <1>3 DEF IntakeInv, TypeOK, OneRunPerExternalId, OneWriter, WriterIsNew, Known, Answer, Writing

\* A push that is sent is told of a committed run, or there is none and it goes on.
LEMMA SendStep == ASSUME IntakeInv, NEW p \in Pushes, Send(p) PROVE IntakeInv'
<1>1. /\ sends' \in [Pushes -> 0..MaxSends] /\ sends'[p] >= 1
      /\ \A q \in Pushes : sends'[q] >= sends[q]
      /\ UNCHANGED <<request, runs, runDirs>>
  BY IntakeAssumption DEF IntakeInv, TypeOK, Send
<1>2. CASE Known(Ext[p]) = {}
  <2>1. TypeOK'
    BY <1>1, <1>2 DEF IntakeInv, TypeOK, Send
  <2>2. SentOnce'
    BY <1>1, <1>2 DEF IntakeInv, TypeOK, SentOnce, Send
  <2> QED BY <1>1, <1>2, <2>1, <2>2
          DEF IntakeInv, TypeOK, OneRunPerExternalId, OneWriter, WriterIsNew, Known, Send, Writing
<1>3. ASSUME NEW run \in Known(Ext[p]), Answer(p, run.id) PROVE IntakeInv'
  BY <1>1, <1>3, KnownIds, AnswerStep DEF IntakeInv
<1> QED BY <1>2, <1>3 DEF Send

\* INSERT: the row is the only one, committed or not.
LEMMA InsertStep == ASSUME IntakeInv, NEW p \in Pushes, InsertRun(p) PROVE IntakeInv'
<1>1. CASE Known(Ext[p]) = {}
  <2>1. push' = [push EXCEPT ![p] = "inserted"] /\ UNCHANGED <<request, sends, runs, runDirs, answers>>
    BY <1>1 DEF InsertRun
  <2>2. OneWriter'
    BY <2>1 DEF IntakeInv, TypeOK, OneWriter, InsertRun, Writing
  <2>3. WriterIsNew'
    BY <1>1, <2>1 DEF IntakeInv, TypeOK, WriterIsNew, Known, Writing
  <2> QED BY <2>1, <2>2, <2>3 DEF IntakeInv, TypeOK, SentOnce, OneRunPerExternalId, InsertRun
<1>2. ASSUME NEW run \in Known(Ext[p]), Answer(p, run.id) PROVE IntakeInv'
  <2>1. UNCHANGED <<request, sends, runs, runDirs>> /\ sends[p] >= 1
    BY DEF InsertRun, IntakeInv, SentOnce
  <2> QED BY <1>2, <2>1, KnownIds, AnswerStep DEF IntakeInv, TypeOK
<1> QED BY <1>1, <1>2 DEF InsertRun

\* Storing the files concerns its own transaction only.
LEMMA StoreStep == ASSUME IntakeInv, NEW p \in Pushes, StoreRun(p) PROVE IntakeInv'
<1>1. Id(p) \in Ids
  BY DEF IntakeInv, TypeOK, SentOnce, StoreRun, Id, Ids
<1>2. TypeOK'
  BY <1>1 DEF IntakeInv, TypeOK, StoreRun
<1> QED BY <1>2 DEF IntakeInv, TypeOK, SentOnce, OneRunPerExternalId, OneWriter, WriterIsNew, Known, StoreRun, Writing

\* COMMIT: no row of this external id was there, and nobody else is about to have one.
LEMMA CommitStep == ASSUME IntakeInv, NEW p \in Pushes, CommitRun(p) PROVE IntakeInv'
<1> DEFINE row == [id |-> Id(p), ext |-> Ext[p]]
<1>1. /\ push[p] = "stored" /\ push' = [push EXCEPT ![p] = "answered"]
      /\ answers' = [answers EXCEPT ![p] = @ \cup {Id(p)}]
      /\ runs' = runs \cup {row} /\ UNCHANGED <<request, sends, runDirs>>
  BY DEF CommitRun, Answer
<1>2. Id(p) \in Ids
  BY <1>1 DEF IntakeInv, TypeOK, SentOnce, Id, Ids
<1>3. Known(Ext[p]) = {}
  BY <1>1 DEF IntakeInv, WriterIsNew, Writing
<1>4. TypeOK'
  <2>1. row \in [id : Ids, ext : Exts]
    BY <1>2, IntakeAssumption
  <2> QED BY <1>1, <1>2, <2>1 DEF IntakeInv, TypeOK
<1>5. OneRunPerExternalId'
  <2>1. \A run \in runs : run.ext # row.ext
    BY <1>3 DEF Known
  <2> QED BY <1>1, <2>1 DEF IntakeInv, OneRunPerExternalId
<1>6. WriterIsNew'
  <2> SUFFICES ASSUME NEW q \in Pushes, push'[q] \in Writing, NEW run \in runs', run.ext = Ext[q]
               PROVE  FALSE
    BY DEF WriterIsNew, Known
  <2>1. q # p /\ push[q] \in Writing
    BY <1>1 DEF IntakeInv, TypeOK, Writing
  <2>2. Ext[q] # Ext[p]
    BY <1>1, <2>1 DEF IntakeInv, OneWriter, Writing
  <2>3. run \in runs
    BY <1>1, <2>2
  <2> QED BY <2>1, <2>3 DEF IntakeInv, WriterIsNew, Known
<1>7. SentOnce' /\ OneWriter'
  BY <1>1 DEF IntakeInv, TypeOK, SentOnce, OneWriter, Writing
<1> QED BY <1>4, <1>5, <1>6, <1>7 DEF IntakeInv

\* A transaction that fails takes its row with it.
LEMMA FailStep == ASSUME IntakeInv, NEW p \in Pushes, FailRun(p) PROVE IntakeInv'
BY DEF IntakeInv, TypeOK, SentOnce, OneRunPerExternalId, OneWriter, WriterIsNew, Known, FailRun, Writing

\* Requests for jobs do not concern the pushes.
LEMMA IntakeStep == IntakeInv /\ [Next]_vars => IntakeInv'
<1> SUFFICES ASSUME IntakeInv, [Next]_vars PROVE IntakeInv'
  OBVIOUS
<1>1. CASE UNCHANGED vars
  BY <1>1 DEF vars, IntakeInv, TypeOK, SentOnce, OneRunPerExternalId, OneWriter, WriterIsNew, Known
<1> QED BY <1>1, RequestStep, SendStep, InsertStep, StoreStep, CommitStep, FailStep DEF Next, Quiescent

\* Types, and each external id with its one row or its one writer.
THEOREM IntakeInvariant == Spec => []IntakeInv
BY IntakeInit, IntakeStep, PTL DEF Spec

\* Requests, pushes and rows keep their types.
THEOREM IntakeTypes == Spec => []TypeOK
BY IntakeInvariant, PTL DEF IntakeInv

\* However many pushes race, retry and fail, create_finished_job leaves at most one run
\* per external id.
THEOREM OneRunEach == Spec => []OneRunPerExternalId
BY IntakeInvariant, PTL DEF IntakeInv
-----------------------------------------------------------------------------
\* What the limit of open jobs comes to: a request that was admitted is open or in a
\* thread that has counted before it inserts.
Admitted == /\ IsFiniteSet(OpenJobs) /\ IsFiniteSet(InFlight)
            /\ Cardinality(OpenJobs) + Cardinality(InFlight) < MaxOpen + Handlers

\* No request has counted and no job is open to begin with.
LEMMA AdmittedInit == Init => Admitted
<1> SUFFICES ASSUME Init PROVE Admitted
  OBVIOUS
<1>1. OpenJobs = {} /\ InFlight = {}
  BY DEF Init, OpenJobs, InFlight
<1> QED BY <1>1, FS_EmptySet, IntakeAssumption DEF Admitted

\* A request is admitted when fewer jobs are open than may be.
LEMMA CountStep == ASSUME TypeOK, Admitted, NEW r \in Requests, Count(r) PROVE Admitted'
<1>1. OpenJobs' = OpenJobs
  BY DEF TypeOK, Count, OpenJobs
<1>2. Cardinality(OpenJobs) \in Nat /\ Cardinality(InFlight) \in Nat
  BY FS_CardinalityType DEF Admitted
<1>3. CASE Cardinality(OpenJobs) >= MaxOpen
  <2>1. InFlight' = InFlight
    BY <1>3 DEF TypeOK, Count, InFlight
  <2> QED BY <1>1, <2>1 DEF Admitted
<1>4. CASE ~(Cardinality(OpenJobs) >= MaxOpen)
  <2>1. InFlight' = InFlight \cup {r} /\ r \notin InFlight
    BY <1>4 DEF TypeOK, Count, InFlight
  <2>2. IsFiniteSet(InFlight') /\ Cardinality(InFlight') = Cardinality(InFlight) + 1
    BY <2>1, FS_AddElement DEF Admitted
  <2>3. Cardinality(InFlight) < Handlers
    BY DEF Count
  <2> QED BY <1>1, <1>2, <1>4, <2>2, <2>3, IntakeAssumption DEF Admitted
<1> QED BY <1>3, <1>4

\* Its insert makes an admitted request an open job.
LEMMA AdmitStep == ASSUME TypeOK, Admitted, NEW r \in Requests, Insert(r) PROVE Admitted'
<1>1. InFlight' = InFlight \ {r} /\ r \in InFlight
  BY DEF TypeOK, Insert, InFlight
<1>2. IsFiniteSet(InFlight') /\ Cardinality(InFlight') = Cardinality(InFlight) - 1
  BY <1>1, FS_RemoveElement DEF Admitted
<1>3. Cardinality(OpenJobs) \in Nat /\ Cardinality(InFlight) \in Nat
  BY FS_CardinalityType DEF Admitted
<1>4. \/ OpenJobs' = OpenJobs
      \/ OpenJobs' = OpenJobs \cup {r} /\ r \notin OpenJobs
  BY DEF TypeOK, Insert, OpenJobs
<1>5. /\ IsFiniteSet(OpenJobs')
      /\ Cardinality(OpenJobs') = Cardinality(OpenJobs) \/ Cardinality(OpenJobs') = Cardinality(OpenJobs) + 1
  BY <1>4, FS_AddElement DEF Admitted
<1> QED BY <1>2, <1>3, <1>5, IntakeAssumption DEF Admitted

\* A job that ends makes room.
LEMMA EndStep == ASSUME TypeOK, Admitted, NEW r \in Requests, JobEnds(r) PROVE Admitted'
<1>1. InFlight' = InFlight /\ OpenJobs' = OpenJobs \ {r} /\ r \in OpenJobs
  BY DEF TypeOK, JobEnds, InFlight, OpenJobs
<1>2. IsFiniteSet(OpenJobs') /\ Cardinality(OpenJobs') = Cardinality(OpenJobs) - 1
  BY <1>1, FS_RemoveElement DEF Admitted
<1>3. Cardinality(OpenJobs) \in Nat /\ Cardinality(InFlight) \in Nat
  BY FS_CardinalityType DEF Admitted
<1> QED BY <1>1, <1>2, <1>3, IntakeAssumption DEF Admitted

\* Pushes make no open jobs.
LEMMA AdmittedStep == TypeOK /\ Admitted /\ [Next]_vars => Admitted'
<1> SUFFICES ASSUME TypeOK, Admitted, [Next]_vars PROVE Admitted'
  OBVIOUS
<1>1. CASE UNCHANGED request
  BY <1>1 DEF Admitted, OpenJobs, InFlight
<1>2. \/ UNCHANGED request
      \/ \E r \in Requests : Count(r) \/ Insert(r) \/ JobEnds(r)
  BY DEF Next, vars, Quiescent, Send, InsertRun, StoreRun, CommitRun, FailRun
<1> QED BY <1>1, <1>2, CountStep, AdmitStep, EndStep

\* Count and insert are not atomic, but only the requests that count at the same time
\* can pass the limit: never as many open jobs as MaxOpen and Handlers together.
THEOREM OpenJobsAreBounded == Spec => []OverrunIsBounded
<1>1. Spec => []Admitted
  BY AdmittedInit, AdmittedStep, IntakeInvariant, PTL DEF Spec, IntakeInv
<1>2. Admitted => OverrunIsBounded
  <2> SUFFICES ASSUME Admitted PROVE OverrunIsBounded
    OBVIOUS
  <2>1. Cardinality(OpenJobs) \in Nat /\ Cardinality(InFlight) \in Nat
    BY FS_CardinalityType DEF Admitted
  <2> QED BY <2>1, IntakeAssumption DEF Admitted, OverrunIsBounded
<1> QED BY <1>1, <1>2, PTL

-----------------------------------------------------------------------------
(* Accounts.                                                                 *)

\* The requests that will compare a password, whatever the account has become.
Comparing == {h \in Callers : task[h].kind \in {"login", "change"} /\ ~Unanswered(task[h])}

CountersOK == /\ failed \in Nat /\ streak \in Nat /\ failed < MaxFailures
              /\ lock \in {"none", "locked", "past"}
              /\ DOMAIN task = Callers

\* Before the lock each wrong password is in the counter; behind the lock only those can
\* still compare that were let through before it.
Counted == IF lock = "locked"
           THEN streak + Cardinality(Comparing) < MaxFailures + Cardinality(Callers)
           ELSE streak <= failed

LoginInv == CountersOK /\ Counted

\* Callers are finitely many; so are those who compare.
LEMMA ComparingFinite ==
  /\ IsFiniteSet(Callers) /\ Cardinality(Callers) \in Nat
  /\ IsFiniteSet(Comparing) /\ Cardinality(Comparing) \in Nat
  /\ Cardinality(Comparing) <= Cardinality(Callers)
<1>1. Comparing \in SUBSET Callers
  BY DEF Comparing
<1>2. IsFiniteSet(Callers)
  BY AccountsAssumption
<1>3. IsFiniteSet(Comparing) /\ Cardinality(Comparing) <= Cardinality(Callers)
  BY <1>1, <1>2, FS_Subset
<1> QED BY <1>2, <1>3, FS_CardinalityType

\* A request that is done compares nothing any more.
LEMMA DoneCompares ==
  ASSUME CountersOK, NEW h \in Callers, Done(h)
  PROVE  Comparing' = Comparing \ {h} /\ DOMAIN task' = Callers
<1>1. \A g \in Callers : task'[g] = IF g = h THEN Idle ELSE task[g]
  BY DEF CountersOK, Done
<1>2. Idle.kind \notin {"login", "change"}
  BY DEF Idle
<1> QED BY <1>1, <1>2 DEF Comparing, Unanswered, CountersOK, Done

\* So there are not more of them than before, one less if it did.
LEMMA DoneCounts ==
  ASSUME CountersOK, NEW h \in Callers, Done(h)
  PROVE  /\ Cardinality(Comparing') \in Nat
         /\ Cardinality(Comparing') <= Cardinality(Comparing)
         /\ Cardinality(Comparing') < Cardinality(Callers)
         /\ h \in Comparing => Cardinality(Comparing') < Cardinality(Comparing)
<1>1. Comparing' = Comparing \ {h} /\ Comparing' \in SUBSET (Callers \ {h})
  BY DoneCompares DEF Comparing
<1>2. Cardinality(Comparing') = IF h \in Comparing THEN Cardinality(Comparing) - 1 ELSE Cardinality(Comparing)
  BY <1>1, ComparingFinite, FS_RemoveElement
<1>3. /\ IsFiniteSet(Callers \ {h}) /\ Cardinality(Callers \ {h}) = Cardinality(Callers) - 1
      /\ IsFiniteSet(Comparing')
  BY <1>1, ComparingFinite, FS_RemoveElement
<1>4. Cardinality(Comparing') <= Cardinality(Callers \ {h}) /\ Cardinality(Comparing') \in Nat
  BY <1>1, <1>3, FS_Subset, FS_CardinalityType
<1> QED BY <1>2, <1>3, <1>4, ComparingFinite
-----------------------------------------------------------------------------
\* Nobody has tried a password yet.
LEMMA LoginInit == AccountsInit => LoginInv
BY AccountsAssumption DEF AccountsInit, LoginInv, CountersOK, Counted

\* A request that begins behind the lock will compare nothing.
LEMMA BeginStep ==
  ASSUME LoginInv, NEW h \in Callers, UNCHANGED <<failed, streak, lock>>,
         DOMAIN task' = Callers, \A g \in Callers \ {h} : task'[g] = task[g], task'[h].row = Row
  PROVE  LoginInv'
<1>1. CountersOK'
  BY DEF LoginInv, CountersOK
<1>2. CASE lock = "locked"
  <2>1. Comparing' \in SUBSET Comparing
    BY <1>2 DEF LoginInv, CountersOK, Comparing, Unanswered, Row
  <2>2. Cardinality(Comparing') <= Cardinality(Comparing) /\ Cardinality(Comparing') \in Nat
    BY <2>1, ComparingFinite, FS_Subset, FS_CardinalityType
  <2> QED BY <1>1, <1>2, <2>2, ComparingFinite, AccountsAssumption DEF LoginInv, Counted, CountersOK
<1>3. CASE lock # "locked"
  BY <1>1, <1>3 DEF LoginInv, Counted
<1> QED BY <1>2, <1>3

\* A request that ends without a comparison.
LEMMA EndsStep ==
  ASSUME LoginInv, NEW h \in Callers, Done(h), UNCHANGED <<failed, streak, lock>>
  PROVE  LoginInv'
BY DoneCompares, DoneCounts, ComparingFinite, AccountsAssumption DEF LoginInv, CountersOK, Counted

\* A wrong password takes its request out of those that compare.
LEMMA WrongStep == ASSUME LoginInv, NEW h \in Callers, WrongPassword(h) PROVE LoginInv'
<1>1. /\ Done(h) /\ h \in Comparing /\ streak' = streak + 1
      /\ IF failed + 1 >= MaxFailures THEN failed' = 0 /\ lock' = "locked"
                                      ELSE failed' = failed + 1 /\ lock' = lock
  BY DEF WrongPassword, Comparing
<1>2. CountersOK'
  BY <1>1, DoneCompares, AccountsAssumption DEF LoginInv, CountersOK
<1>3. /\ Cardinality(Comparing') < Cardinality(Callers) /\ Cardinality(Comparing') \in Nat
      /\ Cardinality(Comparing') < Cardinality(Comparing)
  BY <1>1, DoneCounts DEF LoginInv
<1>4. CASE lock = "locked"
  BY <1>1, <1>2, <1>3, <1>4, ComparingFinite, AccountsAssumption DEF LoginInv, CountersOK, Counted
<1>5. CASE lock # "locked"
  BY <1>1, <1>2, <1>3, <1>5, ComparingFinite, AccountsAssumption DEF LoginInv, CountersOK, Counted
<1> QED BY <1>4, <1>5

\* The right password, or a new one, starts the count again.
LEMMA RightStep ==
  ASSUME LoginInv, NEW h \in Callers, Done(h), Unlocked(task[h]), streak' = 0
  PROVE  LoginInv'
<1>1. failed' \in {failed, 0} /\ lock' \in {lock, "none"}
  BY DEF Unlocked, Assign
<1>2. CountersOK'
  BY <1>1, DoneCompares, AccountsAssumption DEF LoginInv, CountersOK
<1>3. Cardinality(Comparing') < Cardinality(Callers) /\ Cardinality(Comparing') \in Nat
  BY DoneCounts DEF LoginInv
<1> QED BY <1>2, <1>3, ComparingFinite, AccountsAssumption DEF LoginInv, CountersOK, Counted

\* No step lets more be tried than the counter, the lock and the callers do.
LEMMA LoginStep == LoginInv /\ [AccountsNext]_accountVars => LoginInv'
<1> SUFFICES ASSUME LoginInv, [AccountsNext]_accountVars PROVE LoginInv'
  OBVIOUS
<1>1. ASSUME NEW h \in Callers, BeginLogin(h) PROVE LoginInv'
  <2>1. PICK guess \in 0..password :
          task' = [task EXCEPT ![h] = [kind |-> "login", guess |-> guess, row |-> Row]]
    BY <1>1 DEF BeginLogin
  <2>2. DOMAIN task' = Callers /\ (\A g \in Callers \ {h} : task'[g] = task[g]) /\ task'[h].row = Row
    BY <2>1 DEF LoginInv, CountersOK
  <2>3. UNCHANGED <<failed, streak, lock>>
    BY <1>1 DEF BeginLogin
  <2> QED BY <2>2, <2>3, BeginStep
<1>2. ASSUME NEW h \in Callers, BeginChange(h) PROVE LoginInv'
  <2>1. PICK guess \in {0, password} :
          task' = [task EXCEPT ![h] = [kind |-> "change", guess |-> guess, row |-> Row]]
    BY <1>2 DEF BeginChange
  <2>2. DOMAIN task' = Callers /\ (\A g \in Callers \ {h} : task'[g] = task[g]) /\ task'[h].row = Row
    BY <2>1 DEF LoginInv, CountersOK
  <2>3. UNCHANGED <<failed, streak, lock>>
    BY <1>2 DEF BeginChange
  <2> QED BY <2>2, <2>3, BeginStep
<1>3. ASSUME NEW h \in Callers, NEW command, BeginAdmin(h, command) PROVE LoginInv'
  <2>1. DOMAIN task' = Callers /\ (\A g \in Callers \ {h} : task'[g] = task[g]) /\ task'[h].row = Row
    BY <1>3 DEF BeginAdmin, LoginInv, CountersOK
  <2>2. UNCHANGED <<failed, streak, lock>>
    BY <1>3 DEF BeginAdmin
  <2> QED BY <2>1, <2>2, BeginStep
<1>4. ASSUME NEW h \in Callers, RefuseLogin(h) \/ Deactivate(h) \/ Activate(h) \/ Abandon(h) PROVE LoginInv'
  BY <1>4, EndsStep DEF RefuseLogin, Deactivate, Activate, Abandon
<1>5. ASSUME NEW h \in Callers, WrongPassword(h) PROVE LoginInv'
  BY <1>5, WrongStep
<1>6. ASSUME NEW h \in Callers, Login(h) \/ ChangePassword(h) \/ ResetPassword(h) PROVE LoginInv'
  BY <1>6, RightStep DEF Login, ChangePassword, ResetPassword, SetPassword
<1>7. CASE EndSession \/ UNCHANGED accountVars
  <2>1. UNCHANGED <<failed, streak, lock, task>>
    BY <1>7 DEF EndSession, accountVars
  <2> QED BY <2>1 DEF LoginInv, CountersOK, Counted, Comparing, Unanswered
<1>8. CASE LockPasses
  BY <1>8, AccountsAssumption DEF LockPasses, LoginInv, CountersOK, Counted
<1> QED BY <1>1, <1>2, <1>3, <1>4, <1>5, <1>6, <1>7, <1>8 DEF AccountsNext

\* The inductive invariant of the counter of failed logins.
THEOREM LoginInvariant == AccountsSpec => []LoginInv
BY LoginInit, LoginStep, PTL DEF AccountsSpec

\* However many logins race, and with whatever else happens to the account: between two
\* locks no more wrong passwords are compared than lock it, and one by each other request.
THEOREM TriesBounded == AccountsSpec => []TriesAreBounded
<1>1. LoginInv => TriesAreBounded
  BY ComparingFinite, AccountsAssumption DEF LoginInv, CountersOK, Counted, TriesAreBounded
<1> QED BY <1>1, LoginInvariant, PTL
-----------------------------------------------------------------------------
\* The sessions that a new password leaves were made with it.
LEMMA SetPasswordEnds ==
  ASSUME NEW h, SetPassword(h)
  PROVE  \A s \in sessions' : s.password = password'
BY DEF SetPassword, Issue

\* Only a login that has compared the password that is set makes a session.
LEMMA SessionsStep == SessionsAreCurrent /\ [AccountsNext]_accountVars => SessionsAreCurrent'
<1> SUFFICES ASSUME SessionsAreCurrent, [AccountsNext]_accountVars PROVE SessionsAreCurrent'
  OBVIOUS
<1>1. CASE sessions' \in SUBSET sessions /\ UNCHANGED password
  BY <1>1 DEF SessionsAreCurrent
<1>2. ASSUME NEW h \in Callers, Login(h) PROVE SessionsAreCurrent'
  <2> DEFINE s == [id |-> issued, password |-> task[h].row.password,
                   late |-> task[h].row.password # password']
  <2>1. sessions' = sessions \cup {s} /\ password' = password
    BY <1>2 DEF Login, Issue
  <2>2. s.password = password \/ s.late
    BY <2>1
  <2> HIDE DEF s
  <2> QED BY <2>1, <2>2 DEF SessionsAreCurrent
<1>3. ASSUME NEW h \in Callers, SetPassword(h) PROVE SessionsAreCurrent'
  BY <1>3, SetPasswordEnds DEF SessionsAreCurrent
<1>4. \/ sessions' \in SUBSET sessions /\ UNCHANGED password
      \/ \E h \in Callers : Login(h) \/ SetPassword(h)
  BY DEF AccountsNext, accountVars, BeginLogin, BeginChange, BeginAdmin, RefuseLogin, WrongPassword,
         ChangePassword, ResetPassword, Deactivate, Activate, Abandon, EndSession, LockPasses
<1> QED BY <1>1, <1>2, <1>3, <1>4

\* A session that is left after a password was set belongs to it, unless its login was
\* under way at that time.
THEOREM SessionsCurrent == AccountsSpec => []SessionsAreCurrent
<1>1. AccountsInit => SessionsAreCurrent
  BY DEF AccountsInit, SessionsAreCurrent
<1> QED BY <1>1, SessionsStep, PTL DEF AccountsSpec
=============================================================================
