---------------------------- MODULE WorkerProofs ----------------------------
(* Proofs about Adapters, for any units and tools, and about DebtScan, for  *)
(* any repository under test.                                               *)
EXTENDS Adapters, DebtScan, FiniteSetTheorems, TLAPS
-----------------------------------------------------------------------------
(* Test debt: DebtScan.                                                     *)

\* A debt.json is that of the request it lies in: nothing is edited between the
\* scan and the merge.
ScanIsFresh == scan \in {NoScan, Failed, ScanResult("diff")}

\* What a scan that gave a result is made of.
LEMMA ScanFacts ==
  ASSUME NEW mode
  PROVE  /\ ScanResult(mode).status \in {"ok", "error"}
         /\ ScanResult(mode).status = "ok" =>
              LET found == IF mode = "diff" THEN DiffSurfaces ELSE FullSurfaces
                  debt  == {s \in found.new : ~Covered(s)}
              IN  /\ ScanResult(mode).findings = {s \in debt : ~Ignored(s)}
                  /\ ScanResult(mode).findings \cup ScanResult(mode).ignored = debt
BY DEF ScanResult, Failed, NoScan

\* A file that is not there declares nothing.
LEMMA AbsentDeclaresNothing == ASSUME NEW f PROVE SurfacesOf(f, Absent) = {}
BY DEF SurfacesOf, Absent, ApiSurfaces, OpenapiSurfaces, UiRoutes

\* A surface that the request declares and its base does not is new to the scan.
LEMMA NewIsSeen ==
  ASSUME NEW s \in Declared(head), s \notin Declared(base)
  PROVE  s \in DiffSurfaces.new
<1>1. PICK f \in Files : ~IsTest(f) /\ s \in SurfacesOf(f, head[f])
  BY DEF Declared
<1>2. f \in ChangedFiles \ Deleted
  BY <1>1, AbsentDeclaresNothing DEF ChangedFiles, Deleted, Declared
<1>3. \A g \in ChangedFiles \ Added : ~IsTest(g) => s \notin SurfacesOf(g, base[g])
  BY DEF ChangedFiles, Declared
<1> QED BY <1>1, <1>2, <1>3 DEF DiffSurfaces

\* What is new to the scan is declared in the request, and in no file of its
\* base that the request changed.
LEMMA SeenIsNew ==
  ASSUME NEW s \in DiffSurfaces.new
  PROVE  /\ s \in Declared(head)
         /\ s \in Declared(base) =>
              \E f \in Files \ ChangedFiles : ~IsTest(f) /\ s \in SurfacesOf(f, base[f])
<1>1. s \in Declared(head)
  BY DEF DiffSurfaces, Declared, ChangedFiles
<1>2. ASSUME NEW f \in Files, ~IsTest(f), s \in SurfacesOf(f, base[f]) PROVE f \notin ChangedFiles
  BY <1>2, AbsentDeclaresNothing DEF DiffSurfaces, Added, ChangedFiles
<1> QED BY <1>1, <1>2 DEF Declared

\* The result of a scan is a matter of the request and its base.
LEMMA SameScan ==
  ASSUME UNCHANGED <<base, head>>
  PROVE  ScanResult("diff")' = ScanResult("diff")
<1>1. base' = base /\ head' = head
  OBVIOUS
<1>2. ChangedFiles' = ChangedFiles /\ Added' = Added /\ Deleted' = Deleted
  BY <1>1 DEF ChangedFiles, Added, Deleted
<1>3. DiffSurfaces' = DiffSurfaces
  BY <1>1, <1>2 DEF DiffSurfaces
<1>4. FullSurfaces' = FullSurfaces
  BY <1>1 DEF FullSurfaces, Declared
<1>5. /\ ConfigOk' = ConfigOk /\ SuitesOk' = SuitesOk /\ LiveOk' = LiveOk
      /\ Corpus' = Corpus /\ PropertyExcludes' = PropertyExcludes /\ LivePaths' = LivePaths
  BY <1>1 DEF ConfigOk, SuitesOk, LiveOk, Corpus, Read, PropertyExcludes, LivePaths
<1>6. \A s : Covered(s)' = Covered(s)
  BY <1>5 DEF Covered
<1>7. \A s : Ignored(s)' = Ignored(s) /\ LocationFails(s)' = LocationFails(s)
  BY <1>1 DEF Ignored, LocationFails
<1> QED BY <1>3, <1>4, <1>5, <1>6, <1>7 DEF ScanResult

\* Each step keeps the scan fresh and the main branch accounted for.
LEMMA DebtStep ==
  ASSUME ScanIsFresh, DebtIsTold, [DebtNext]_debtVars
  PROVE  ScanIsFresh' /\ DebtIsTold'
<1>1. ASSUME NEW f \in Files, EditFile(f) PROVE ScanIsFresh' /\ DebtIsTold'
  BY <1>1 DEF EditFile, ScanIsFresh, DebtIsTold, Declared
<1>2. CASE Scan
  <2>1. ScanResult("diff")' = ScanResult("diff")
    BY <1>2, SameScan DEF Scan
  <2> QED BY <1>2, <2>1 DEF Scan, ScanIsFresh, DebtIsTold, Declared
<1>3. CASE Mend
  BY <1>3 DEF Mend, ScanIsFresh, DebtIsTold, Declared
<1>4. CASE MergeRequest
  <2>1. scan = ScanResult("diff") /\ scan.status = "ok"
    BY <1>4 DEF MergeRequest, ScanIsFresh, NoScan, Failed
  <2>2. scan.findings \cup scan.ignored = {s \in DiffSurfaces.new : ~Covered(s)}
    BY <2>1, ScanFacts
  <2>3. ASSUME NEW s \in Declared(head) PROVE s \in Declared(MainBranch) \cup told' \cup tested'
    <3>1. CASE s \in Declared(base)
      BY <1>4, <3>1 DEF MergeRequest, DebtIsTold
    <3>2. CASE s \notin Declared(base) /\ Covered(s)
      BY <1>4, <3>2 DEF MergeRequest
    <3>3. CASE s \notin Declared(base) /\ ~Covered(s)
      BY <1>4, <2>2, <3>3, NewIsSeen DEF MergeRequest
    <3> QED BY <3>1, <3>2, <3>3
  <2>4. Declared(base)' = Declared(head)
    BY <1>4 DEF MergeRequest, Declared
  <2> QED BY <1>4, <2>3, <2>4 DEF MergeRequest, ScanIsFresh, DebtIsTold
<1>5. CASE UNCHANGED debtVars
  <2>1. ScanResult("diff")' = ScanResult("diff")
    BY <1>5, SameScan DEF debtVars
  <2> QED BY <1>5, <2>1 DEF debtVars, ScanIsFresh, DebtIsTold, Declared
<1> QED BY <1>1, <1>2, <1>3, <1>4, <1>5 DEF DebtNext

\* Both at once, for a merge is judged by the scan it is based on.
LEMMA DebtInvariant == DebtSpec => [](ScanIsFresh /\ DebtIsTold)
<1>1. DebtInit => ScanIsFresh /\ DebtIsTold
  BY DEF DebtInit, ScanIsFresh, DebtIsTold, Declared
<1>2. (ScanIsFresh /\ DebtIsTold) /\ [DebtNext]_debtVars => (ScanIsFresh /\ DebtIsTold)'
  BY DebtStep
<1> QED BY <1>1, <1>2, PTL DEF DebtSpec

\* No surface reaches the main branch untold and untested: whatever files a
\* pull request adds, moves, empties or breaks (coverage_debt_worker.py).
THEOREM NewDebtIsTold == DebtSpec => []DebtIsTold
BY DebtInvariant, PTL

\* The findings are real: declared, untested, not ignored, new unless a file
\* with them was left as it was, and a full scan finds them too.
THEOREM FoundDebtIsReal == DebtSpec => []DebtIsReal
<1>1. ASSUME ScanIsFresh PROVE DebtIsReal
  <2> SUFFICES ASSUME scan.status = "ok", NEW s \in scan.findings
               PROVE  /\ s \in Declared(head) /\ ~Covered(s) /\ ~Ignored(s)
                      /\ s \in Declared(base) =>
                           \E f \in Files \ ChangedFiles : ~IsTest(f) /\ s \in SurfacesOf(f, base[f])
                      /\ ScanResult("full").status = "ok" => s \in ScanResult("full").findings
    BY DEF DebtIsReal
  <2>1. scan = ScanResult("diff")
    BY <1>1 DEF ScanIsFresh, NoScan, Failed
  <2>2. s \in DiffSurfaces.new /\ ~Covered(s) /\ ~Ignored(s)
    BY <2>1, ScanFacts
  <2>3. ScanResult("full").status = "ok" =>
          ScanResult("full").findings = {t \in Declared(head) : ~Covered(t) /\ ~Ignored(t)}
    BY ScanFacts DEF FullSurfaces
  <2> QED BY <2>2, <2>3, SeenIsNew
<1> QED BY <1>1, DebtInvariant, PTL
-----------------------------------------------------------------------------
(* The adapters.                                                            *)

\* Types, as far as the proofs need them.
AttemptTypeOK ==
  /\ tool \in ToolNames /\ lane \in {"gate", "discovery"}
  /\ defect \in Defects[tool] \cup {"none"}
  /\ round \in {1, 2} /\ at \in {"build", "exec", "answered", "over"}
  /\ seen \in [Units -> {"todo", "ok", "bad", "skipped", "overlooked"}]
  /\ strayed \in BOOLEAN /\ trouble \in BOOLEAN
  /\ disk = [report |-> disk.report, side |-> disk.side]
  /\ disk.side.round \in 0 .. round
  /\ disk.side # NoFile => disk.side.strayed \in BOOLEAN

\* An attempt begins with nothing seen, and no second file but an older one.
Unbegun == /\ seen = [u \in Units |-> "todo"] /\ ~strayed /\ ~trouble /\ code = Running
           /\ disk.side.round < round

\* A tool that has nothing to say about what it overlooks overlooks everything.
Sighted ==
  \A u \in Units :
    /\ seen[u] = "overlooked" => defect \in Blinding
    /\ seen[u] \in {"ok", "bad", "skipped"} => defect \notin Blinding
    /\ seen[u] = "skipped" => tool \in {"pytest", "playwright", "schemathesis", "semgrep", "deepeval"}

\* A report that is there was written in this attempt, of what was seen in it.
FreshReport ==
  disk.report = NoFile \/
    LET r == disk.report IN
      /\ r.round = round /\ r.whole \in BOOLEAN /\ r.trouble \in BOOLEAN
      /\ r.trouble => trouble
      /\ ~r.trouble => \A u \in Units : seen[u] # "todo"
      /\ r.cases = [u \in Reported |-> Shown(seen[u])]

\* The second file says whether the tool strayed.
FreshSide ==
  /\ strayed => tool \in {"playwright", "midscene", "deepeval"}
  /\ tool = "playwright" /\ disk.side # NoFile => disk.side.strayed = strayed
  /\ tool = "deepeval" => /\ disk.side.round = round => disk.side.strayed = strayed
                          /\ (\E u \in Units : seen[u] # "todo") => disk.side.round = round

\* How a tool ended: not at all, by a signal, without the SUT, in trouble, or done.
Done    == /\ ~trouble /\ code = DoneCode
           /\ \/ disk.report # NoFile
              \/ tool = "gitleaks" /\ \A u \in Units : seen[u] = "ok"
FreshCode == \/ code \in {Running, Dead} \/ (tool = "deepeval" /\ code = 3)
             \/ (trouble /\ code = TroubleCode) \/ Done

AttemptInv ==
  /\ AttemptTypeOK /\ Sighted
  /\ at = "build" => Unbegun
  /\ at \in {"build", "exec"} => answer = NoAnswer2
  /\ at = "exec" => defect \notin Refuses /\ FreshReport /\ FreshSide /\ FreshCode

\* What the names of the tools stand for.
LEMMA CodeFacts ==
  /\ DoneCode \in {0, 1, 3, 5} /\ TroubleCode \in {1, 2, 3}
  /\ Running = 1000 /\ Dead = 137 /\ Killed = 1001
BY DEF DoneCode, TroubleCode, Running, Dead, Killed

\* Emptying the directory of the task, or not, keeps its types.
LEMMA ClearedFacts ==
  ASSUME AttemptTypeOK
  PROVE  /\ Cleared = [report |-> Cleared.report, side |-> Cleared.side]
         /\ Cleared.report = NoFile
         /\ Cleared.side \in {disk.side, NoFile} /\ (tool = "playwright" => Cleared.side = NoFile)
         /\ NoFile.round = 0
BY DEF Cleared, NoFile, AttemptTypeOK

\* The attempt, step by step.
LEMMA BuildStep == ASSUME AttemptInv, Build PROVE AttemptInv'
<1>1. /\ disk' \in {disk, Cleared} /\ at' \in {"exec", "answered"}
      /\ UNCHANGED <<tool, lane, defect, round, seen, strayed, trouble, code>>
  BY DEF Build
<1>2. AttemptTypeOK'
  <2>1. disk' = disk \/ (disk' = [report |-> NoFile, side |-> Cleared.side] /\ Cleared.side \in {disk.side, NoFile})
    BY <1>1, ClearedFacts DEF AttemptInv
  <2>2. NoFile.round = 0 /\ 0 \in 0 .. round
    BY DEF NoFile, AttemptInv, AttemptTypeOK
  <2>3. /\ disk' = [report |-> disk'.report, side |-> disk'.side] /\ disk'.side \in {disk.side, NoFile}
    BY <2>1 DEF AttemptInv, AttemptTypeOK
  <2> QED BY <1>1, <2>2, <2>3 DEF AttemptInv, AttemptTypeOK
<1>4. Sighted'
  BY <1>1 DEF AttemptInv, Sighted
<1>3. ASSUME at' = "exec"
      PROVE  answer' = NoAnswer2 /\ (defect \notin Refuses)' /\ FreshReport' /\ FreshSide' /\ FreshCode'
  <2>1. /\ at = "build" /\ defect \notin Refuses /\ disk' = Cleared /\ answer' = answer
        /\ Unbegun /\ answer = NoAnswer2
    BY <1>3 DEF Build, AttemptInv
  <2>2. Refuses' = Refuses
    BY <1>1 DEF Refuses
  <2>3. FreshReport'
    BY <1>1, <2>1, ClearedFacts DEF FreshReport, AttemptInv
  <2>4. FreshSide'
    BY <1>1, <2>1, ClearedFacts DEF FreshSide, AttemptInv, AttemptTypeOK, Unbegun
  <2>5. FreshCode'
    BY <1>1, <2>1 DEF FreshCode, Unbegun
  <2> QED BY <1>1, <2>1, <2>2, <2>3, <2>4, <2>5
<1> QED BY <1>1, <1>2, <1>4, <1>3 DEF AttemptInv

\* A tool that runs: a report of this attempt has been written, or none is there.
LEMMA RunsFacts ==
  ASSUME AttemptInv, ToolRuns
  PROVE  /\ at = "exec" /\ code = Running /\ answer = NoAnswer2 /\ defect \notin Refuses
         /\ AttemptTypeOK /\ Sighted /\ FreshReport /\ FreshSide
         /\ disk.report.round # round => disk.report = NoFile
BY DEF AttemptInv, ToolRuns, FreshReport

\* The SUT is asked: its strayed answer is on disk.
LEMMA AskStep == ASSUME AttemptInv, AskSut PROVE AttemptInv'
<1>1. /\ ToolRuns /\ tool = "deepeval" /\ disk.side.round # round
      /\ UNCHANGED <<tool, lane, defect, round, at, seen, trouble, answer>>
  BY DEF AskSut
<1>2. \A u \in Units : seen[u] = "todo"
  BY <1>1, RunsFacts DEF FreshSide
<1>3. CASE code' = 3 /\ UNCHANGED <<strayed, disk>>
  BY <1>1, <1>3, RunsFacts
     DEF AttemptInv, AttemptTypeOK, Sighted, FreshReport, FreshSide, FreshCode, Refuses, Reported
<1>4. ASSUME NEW stray \in BOOLEAN, strayed' = stray, code' = code,
             disk' = [disk EXCEPT !.side = [round |-> round, strayed |-> stray]]
      PROVE  AttemptInv'
  <2>1. /\ disk'.report = disk.report /\ disk'.side = [round |-> round, strayed |-> stray]
        /\ disk' = [report |-> disk'.report, side |-> disk'.side]
    BY <1>1, <1>4, RunsFacts DEF AttemptTypeOK
  <2>2. AttemptTypeOK'
    BY <1>1, <1>4, <2>1, RunsFacts DEF AttemptTypeOK
  <2>3. FreshReport'
    BY <1>1, <2>1, RunsFacts DEF FreshReport, Reported
  <2>4. FreshSide'
    BY <1>1, <1>2, <1>4, <2>1 DEF FreshSide
  <2>5. Sighted' /\ (defect \notin Refuses)' /\ FreshCode' /\ at' = "exec" /\ answer' = NoAnswer2
    BY <1>1, <1>4, RunsFacts DEF Sighted, Refuses, FreshCode
  <2> QED BY <2>2, <2>3, <2>4, <2>5 DEF AttemptInv
<1> QED BY <1>3, <1>4 DEF AskSut

\* A unit is looked at before there is a report of it.
LEMMA LookStep == ASSUME AttemptInv, NEW u \in Units, Look(u) PROVE AttemptInv'
<1>1. /\ ToolRuns /\ ~trouble /\ disk.report.round # round
      /\ tool = "deepeval" => disk.side.round = round
      /\ UNCHANGED <<tool, lane, defect, round, at, trouble, code, answer>>
  BY DEF Look
<1>2. PICK s \in Sights : seen' = [seen EXCEPT ![u] = s]
  BY DEF Look
<1>3. /\ s \in {"ok", "bad", "skipped", "overlooked"}
      /\ s = "overlooked" <=> defect \in Blinding
      /\ s = "skipped" => tool \in {"pytest", "playwright", "schemathesis", "semgrep", "deepeval"}
  BY <1>2 DEF Sights
<1>4. Sighted' /\ seen' \in [Units -> {"todo", "ok", "bad", "skipped", "overlooked"}]
  BY <1>1, <1>2, <1>3, RunsFacts DEF Sighted, AttemptTypeOK
<1>5. disk.report = NoFile /\ disk'.report = NoFile /\ disk' = [report |-> disk'.report, side |-> disk'.side]
  BY <1>1, RunsFacts DEF Look, AttemptTypeOK
<1>6. /\ strayed' \in BOOLEAN /\ disk'.side.round \in 0 .. round
      /\ disk'.side # NoFile => disk'.side.strayed \in BOOLEAN
      /\ strayed' => tool \in {"playwright", "midscene", "deepeval"}
      /\ tool = "playwright" /\ disk'.side # NoFile => disk'.side.strayed = strayed'
      /\ tool = "deepeval" => disk'.side = disk.side /\ strayed' = strayed
  <2>1. CASE tool = "playwright"
    <3>1. defect # "guard_bypassed"
      BY <1>1, <2>1, RunsFacts DEF Refuses, PlaywrightRefuses
    <3>2. PICK stray \in BOOLEAN :
            /\ strayed' = (strayed \/ stray)
            /\ disk' = [disk EXCEPT !.side =
                 [round |-> round, strayed |-> defect # "guard_bypassed" /\ strayed']]
      BY <2>1 DEF Look
    <3>3. strayed' \in BOOLEAN /\ disk'.side = [round |-> round, strayed |-> strayed']
      BY <1>1, <3>1, <3>2, RunsFacts DEF AttemptTypeOK
    <3> QED BY <1>1, <2>1, <3>3, RunsFacts DEF AttemptTypeOK
  <2>2. CASE tool # "playwright"
    BY <1>1, <2>2, RunsFacts DEF Look, AttemptTypeOK, FreshSide
  <2> QED BY <2>1, <2>2
<1>7. AttemptTypeOK'
  BY <1>1, <1>4, <1>5, <1>6, RunsFacts DEF AttemptTypeOK
<1>8. FreshReport' /\ FreshSide'
  BY <1>1, <1>5, <1>6, RunsFacts DEF FreshReport, FreshSide
<1>9. (defect \notin Refuses)' /\ FreshCode' /\ at' = "exec" /\ answer' = NoAnswer2
  BY <1>1, RunsFacts DEF Refuses, FreshCode
<1> QED BY <1>4, <1>7, <1>8, <1>9 DEF AttemptInv

\* Trouble met after the report is not in it.
LEMMA StumbleStep == ASSUME AttemptInv, Stumble PROVE AttemptInv'
<1>1. /\ ToolRuns /\ trouble' = TRUE
      /\ UNCHANGED <<tool, lane, defect, round, at, seen, strayed, code, disk, answer>>
  BY DEF Stumble
<1>2. AttemptTypeOK' /\ Sighted'
  BY <1>1, RunsFacts DEF AttemptTypeOK, Sighted
<1>3. FreshReport'
  <2>1. Reported' = Reported
    BY <1>1 DEF Reported
  <2> QED BY <1>1, <2>1, RunsFacts DEF FreshReport
<1>4. FreshSide' /\ FreshCode' /\ (defect \notin Refuses)' /\ at' = "exec" /\ answer' = NoAnswer2
  BY <1>1, RunsFacts DEF FreshSide, FreshCode, Refuses
<1> QED BY <1>2, <1>3, <1>4 DEF AttemptInv

\* The report is of all units, or tells of the trouble.
LEMMA WriteStep == ASSUME AttemptInv, WriteReport PROVE AttemptInv'
<1>1. /\ ToolRuns
      /\ trouble \/ \A u \in Units : seen[u] # "todo"
      /\ UNCHANGED <<tool, lane, defect, round, at, seen, strayed, trouble, answer>>
  BY DEF WriteReport
<1>2. PICK whole \in BOOLEAN :
        /\ disk' = [disk EXCEPT !.report =
             [round |-> round, whole |-> whole, trouble |-> trouble,
              cases |-> [u \in Reported |-> Shown(seen[u])]]]
        /\ code' = IF whole THEN code ELSE Dead
  BY DEF WriteReport
<1>3. /\ disk'.report = [round |-> round, whole |-> whole, trouble |-> trouble,
                         cases |-> [u \in Reported |-> Shown(seen[u])]]
      /\ disk'.side = disk.side /\ disk' = [report |-> disk'.report, side |-> disk'.side]
  BY <1>1, <1>2, RunsFacts DEF AttemptTypeOK
<1>4. AttemptTypeOK' /\ Sighted'
  BY <1>1, <1>3, RunsFacts DEF AttemptTypeOK, Sighted
<1>5. FreshReport'
  <2>1. Reported' = Reported
    BY <1>1 DEF Reported
  <2> QED BY <1>1, <1>3, <2>1, RunsFacts DEF FreshReport, AttemptTypeOK
<1>6. FreshSide' /\ FreshCode'
  BY <1>1, <1>2, <1>3, RunsFacts DEF FreshSide, FreshCode
<1>7. (defect \notin Refuses)' /\ at' = "exec" /\ answer' = NoAnswer2
  BY <1>1, RunsFacts DEF Refuses
<1> QED BY <1>4, <1>5, <1>6, <1>7 DEF AttemptInv

\* The exit code is that of what happened.
LEMMA EndStep == ASSUME AttemptInv, Exit \/ Die PROVE AttemptInv'
<1>1. /\ ToolRuns
      /\ UNCHANGED <<tool, lane, defect, round, at, seen, strayed, trouble, disk, answer>>
  BY DEF Exit, Die
<1>2. AttemptTypeOK' /\ Sighted' /\ FreshReport' /\ FreshSide'
  BY <1>1, RunsFacts DEF AttemptTypeOK, Sighted, FreshReport, FreshSide, Reported
<1>3. (defect \notin Refuses)' /\ at' = "exec" /\ answer' = NoAnswer2
  BY <1>1, RunsFacts DEF Refuses
<1>4. FreshCode'
  <2>1. CASE Die
    BY <2>1 DEF Die, FreshCode
  <2>2. CASE Exit
    <3>1. DoneCode' = DoneCode /\ TroubleCode' = TroubleCode
      BY <1>1 DEF DoneCode, TroubleCode, Bad
    <3>2. ~trouble => \/ disk.report # NoFile
                      \/ tool = "gitleaks" /\ \A u \in Units : seen[u] = "ok"
      BY <2>2, RunsFacts, ClearedFacts DEF Exit, AttemptTypeOK
    <3> QED BY <1>1, <2>2, <3>1, <3>2, RunsFacts DEF Exit, FreshCode, Done, AttemptTypeOK
  <2> QED BY <2>1, <2>2
<1> QED BY <1>2, <1>3, <1>4 DEF AttemptInv

\* An answered attempt leaves at most its files to the next.
LEMMA AnswerStep == ASSUME AttemptInv, Parse \/ WallClock \/ Retry PROVE AttemptInv'
<1>1. CASE Parse
  <2>1. /\ at' = "answered" /\ UNCHANGED <<tool, lane, defect, round, seen, strayed, trouble, code>>
        /\ disk' \in {disk, [disk EXCEPT !.report = NoFile]} /\ AttemptTypeOK /\ Sighted
    BY <1>1 DEF Parse, AttemptInv
  <2> QED BY <2>1 DEF AttemptInv, AttemptTypeOK, Sighted
<1>2. CASE WallClock
  BY <1>2 DEF WallClock, AttemptInv, AttemptTypeOK, Sighted
<1>3. CASE Retry
  <2>1. CASE answer.status = "error" /\ round = 1
    <3>1. /\ round' = 2 /\ at' = "build" /\ answer' = NoAnswer2 /\ code' = Running
          /\ seen' = [u \in Units |-> "todo"] /\ strayed' = FALSE /\ trouble' = FALSE
          /\ UNCHANGED <<tool, lane, defect, disk>>
      BY <1>3, <2>1 DEF Retry
    <3>2. disk.side.round \in 0 .. 1
      BY <2>1 DEF AttemptInv, AttemptTypeOK
    <3>3. disk.side.round \in 0 .. 2 /\ disk.side.round < 2
      BY <3>2
    <3>4. AttemptTypeOK'
      BY <3>1, <3>3 DEF AttemptInv, AttemptTypeOK
    <3>5. Sighted' /\ Unbegun'
      BY <3>1, <3>3 DEF Sighted, Unbegun
    <3> QED BY <3>1, <3>4, <3>5 DEF AttemptInv
  <2>2. CASE ~(answer.status = "error" /\ round = 1)
    BY <1>3, <2>2 DEF Retry, AttemptInv, AttemptTypeOK, Sighted
  <2> QED BY <2>1, <2>2
<1> QED BY <1>1, <1>2, <1>3
-----------------------------------------------------------------------------
(* What the answer to an attempt rests on: a lemma for each tool.           *)

Judged == Evaluate(OracleOf, Parsed)

\* The tool has ended by itself, or died.
Ended == AttemptInv /\ at = "exec" /\ code \notin {Running, Killed}

\* What a pass of the gate, and a fail, promise.
Earned == /\ trouble => tool = "playwright"
          /\ ~strayed
          /\ \A u \in Units : \/ seen[u] = "ok"
                              \/ tool = "pytest" /\ seen[u] = "skipped"
                              \/ tool = "trivy" /\ defect = "declared_empty" /\ seen[u] = "overlooked"
Real   == Bad # {} \/ strayed \/ defect \in {"nothing_approved", "db_old"}

\* What a lemma about a tool says.
Sound  == /\ Judged.value = "pass" => Earned
          /\ Judged.value = "fail" \/ Parsed.flowFailed => Real
          /\ Judged.value = "fail" => \E f \in Judged.findings : ~f.llm

\* A threshold passes if all that it asserts holds, and fails only over something
\* that does not, which it names.
LEMMA ThresholdFacts ==
  ASSUME NEW as, NEW metrics
  PROVE  LET j == Threshold(as, metrics) IN
         /\ j.value \in {"pass", "fail"} =>
              /\ j.value = "pass" => \A a \in as : Holds(a, metrics[a.metric][1])
              /\ j.value = "fail" => \E a \in as : ~Holds(a, metrics[a.metric][1])
              /\ j.value = "fail" => \E f \in j.findings : ~f.llm
<1> DEFINE failed == {a \in as : ~Holds(a, metrics[a.metric][1])}
           j      == Threshold(as, metrics)
<1>1. j.value \in {"pass", "fail"} =>
        /\ j.value = "pass" <=> failed = {}
        /\ j.findings = {Found(a.metric) : a \in failed}
  BY DEF Threshold, OracleError
<1>2. \A x : ~Found(x).llm
  BY DEF Found
<1>3. CASE j.value = "pass"
  BY <1>1, <1>3
<1>4. ASSUME j.value = "fail" PROVE (\E a \in as : ~Holds(a, metrics[a.metric][1])) /\ \E f \in j.findings : ~f.llm
  <2>1. PICK a \in as : ~Holds(a, metrics[a.metric][1])
    BY <1>1, <1>4
  <2>2. Found(a.metric) \in j.findings
    BY <1>1, <1>4, <2>1
  <2> QED BY <1>2, <2>1, <2>2
<1> QED BY <1>3, <1>4

\* And so do required checks.
LEMMA ChecksFacts ==
  ASSUME NEW required, NEW checks
  PROVE  LET j == Checks(required, checks) IN
         /\ j.value \in {"pass", "fail"} =>
              /\ required \subseteq DOMAIN checks
              /\ j.value = "pass" => \A n \in required : checks[n]
              /\ j.value = "fail" => \E n \in required : ~checks[n]
              /\ j.value = "fail" => \E f \in j.findings : ~f.llm
<1> DEFINE failed == {n \in required : ~checks[n]}
           j      == Checks(required, checks)
<1>1. j.value \in {"pass", "fail"} =>
        /\ required \subseteq DOMAIN checks
        /\ j.value = "pass" <=> failed = {}
        /\ j.findings = {Found(n) : n \in failed}
  BY DEF Checks, OracleError
<1>2. \A x : ~Found(x).llm
  BY DEF Found
<1> QED BY <1>1, <1>2

\* A count of units is nought if there are none.
LEMMA CountFacts ==
  ASSUME NEW S \in SUBSET Units
  PROVE  Cardinality(S) \in Nat /\ (Cardinality(S) = 0 <=> S = {})
BY AdapterAssumption, FS_Subset, FS_CardinalityType, FS_EmptySet

\* What a report says is what was seen.
LEMMA ReportFacts ==
  ASSUME Ended, disk.report # NoFile
  PROVE  /\ Listed = Reported /\ Which("bad") = Bad
         /\ Which("skipped") = {u \in Units : seen[u] = "skipped"}
         /\ Listed \in SUBSET Units /\ Bad \in SUBSET Units
         /\ \A u \in Listed : disk.report.cases[u] = Shown(seen[u])
         /\ ~disk.report.trouble => \A u \in Units : seen[u] # "todo"
<1>1. /\ disk.report.cases = [u \in Reported |-> Shown(seen[u])]
      /\ ~disk.report.trouble => \A u \in Units : seen[u] # "todo"
  BY DEF Ended, AttemptInv, FreshReport
<1>2. Reported \in SUBSET Units /\ Bad \in SUBSET Units
  BY DEF Reported, Bad
<1> QED BY <1>1, <1>2 DEF Listed, Which, Reported, Shown, Bad

\* Only a tool that has done its work exits with 0; it has looked at everything.
LEMMA ZeroIsDone ==
  ASSUME Ended, code = 0
  PROVE  /\ ~trouble /\ DoneCode = 0
         /\ \A u \in Units : seen[u] \in {"ok", "bad", "skipped", "overlooked"}
<1>1. Done
  BY CodeFacts DEF Ended, AttemptInv, FreshCode
<1>2. ASSUME disk.report # NoFile PROVE \A u \in Units : seen[u] # "todo"
  BY <1>1, <1>2 DEF Ended, AttemptInv, FreshReport, Done
<1>3. \A u \in Units : seen[u] # "todo"
  BY <1>1, <1>2 DEF Done
<1> QED BY <1>1, <1>3 DEF Done, Ended, AttemptInv, AttemptTypeOK

\* Which defects blind a tool that was not refused.
LEMMA BlindFacts ==
  ASSUME Ended, defect \in Blinding
  PROVE  \/ tool = "pytest" /\ defect = "nothing_approved"
         \/ tool = "trivy" /\ defect \in {"db_unknown", "no_lockfile", "declared_empty", "declared_gone"}
         \/ tool = "coverage_debt" /\ defect = "base_unknown"
<1>1. tool \in ToolNames /\ defect \in Defects[tool] /\ defect \notin Refuses
  BY DEF Ended, AttemptInv, AttemptTypeOK, Blinding
<1>2. CASE tool = "pytest"
  BY <1>1, <1>2 DEF Defects, Refuses, PytestRefuses, Blinding
<1>3. CASE tool = "k6"
  BY <1>1, <1>3 DEF Defects, Refuses, K6Refuses, Blinding
<1>4. CASE tool = "playwright"
  BY <1>1, <1>4 DEF Defects, Refuses, PlaywrightRefuses, Blinding
<1>5. CASE tool = "schemathesis"
  BY <1>1, <1>5 DEF Defects, Refuses, SchemathesisRefuses, Blinding
<1>6. CASE tool = "midscene"
  BY <1>1, <1>6 DEF Defects, Refuses, MidsceneRefuses, Blinding
<1>7. CASE tool = "semgrep"
  BY <1>1, <1>7 DEF Defects, Refuses, SemgrepRefuses, Blinding
<1>8. CASE tool = "trivy"
  BY <1>1, <1>8 DEF Defects, DeclaredLockfiles, Refuses, TrivyRefuses, Blinding
<1>9. CASE tool = "gitleaks"
  BY <1>1, <1>9 DEF Defects, Refuses, GitleaksRefuses, Blinding
<1>10. CASE tool = "coverage_debt"
  BY <1>1, <1>10 DEF Defects, Refuses, DebtRefuses, Blinding
<1>11. CASE tool = "deepeval"
  BY <1>1, <1>11 DEF Defects, Refuses, DeepevalRefuses, Blinding, MetricsRefused, CollectRefused, JudgeRefused
<1> QED BY <1>1, <1>2, <1>3, <1>4, <1>5, <1>6, <1>7, <1>8, <1>9, <1>10, <1>11 DEF ToolNames

\* What has been seen by a tool that is not blind.
LEMMA SeenFacts ==
  ASSUME Ended, NEW u \in Units
  PROVE  /\ seen[u] = "overlooked" => defect \in Blinding
         /\ seen[u] = "skipped" => tool \in {"pytest", "playwright", "schemathesis", "semgrep", "deepeval"}
BY DEF Ended, AttemptInv, Sighted

\* Which tools may stray.
LEMMA StrayFacts == ASSUME Ended PROVE strayed => tool \in {"playwright", "midscene", "deepeval"}
BY DEF Ended, AttemptInv, FreshSide

\* pytest: a run of no tests fails, and so does a bad test; nothing else does.
LEMMA PytestSound == ASSUME Ended, tool = "pytest", Parsed.fits PROVE Sound
<1> DEFINE as == {Asserted("failures", "eq", 0), Asserted("tests", "ge", 1)}
<1>1. Parsed = Pytest /\ Judged = Threshold(as, Pytest.metrics)
  <2>1. Parsed = Pytest /\ OracleOf = [kind |-> "threshold", assertions |-> as]
    BY DEF Parsed, OracleOf
  <2>2. Pytest.metrics = Parsed.metrics
    BY <2>1
  <2> QED BY <2>1, <2>2 DEF Judged, Evaluate
<1>2. ~strayed
  BY DEF Ended, AttemptInv, FreshSide
<1>3. CASE code = 5
  <2>1. DoneCode = 5
    BY <1>3, CodeFacts DEF Ended, AttemptInv, FreshCode, TroubleCode, Done
  <2>2. \A u \in Units : seen[u] = "overlooked"
    BY <2>1 DEF DoneCode
  <2>3. defect = "nothing_approved"
    BY <2>2, SeenFacts, BlindFacts, AdapterAssumption
  <2>4. Pytest.metrics = [tests |-> <<0>>, failures |-> <<0>>] /\ ~Pytest.flowFailed
    BY <1>3 DEF Pytest, Measured, Nothing
  <2>5. \E a \in as : ~Holds(a, Pytest.metrics[a.metric][1])
    BY <2>4 DEF Holds, Asserted
  <2>6. Judged.value # "pass"
    <3>1. Judged.value = "pass" => \A a \in as : Holds(a, Pytest.metrics[a.metric][1])
      BY <1>1, ThresholdFacts
    <3> QED BY <2>5, <3>1
  <2>7. Judged.value = "fail" => \E f \in Judged.findings : ~f.llm
    BY <1>1, ThresholdFacts
  <2>8. ~Parsed.flowFailed
    BY <1>1, <2>4
  <2> QED BY <2>3, <2>6, <2>7, <2>8 DEF Sound, Real
<1>4. CASE code # 5
  <2>1. /\ code \in {0, 1} /\ Readable /\ Listed # {} /\ (code = 1) = (Which("bad") # {})
        /\ Pytest.metrics = [tests |-> <<Cardinality(Listed)>>, failures |-> <<Cardinality(Which("bad"))>>]
        /\ ~Pytest.flowFailed
    BY <1>1, <1>4 DEF Pytest, Measured, Nothing, ParseError, Count
  <2>2. disk.report # NoFile
    BY <2>1 DEF Readable
  <2>3. ASSUME Judged.value = "pass" PROVE Earned
    <3>1. Holds(Asserted("failures", "eq", 0), Pytest.metrics["failures"][1])
      BY <1>1, <2>3, ThresholdFacts DEF Asserted
    <3>2. Bad = {}
      BY <2>1, <2>2, <3>1, ReportFacts, CountFacts DEF Holds, Asserted
    <3>3. code = 0
      BY <2>1, <2>2, <3>2, ReportFacts
    <3>4. PICK v \in Units : seen[v] # "overlooked"
      BY <3>3, ZeroIsDone DEF DoneCode
    <3>5. defect \notin Blinding
      BY <3>3, <3>4, ZeroIsDone DEF Ended, AttemptInv, Sighted
    <3> QED BY <1>2, <3>2, <3>3, <3>5, ZeroIsDone, SeenFacts DEF Earned, Bad
  <2>4. ASSUME Judged.value = "fail" PROVE Real
    <3>1. ~Holds(Asserted("failures", "eq", 0), Pytest.metrics["failures"][1])
            \/ ~Holds(Asserted("tests", "ge", 1), Pytest.metrics["tests"][1])
      BY <1>1, <2>4, ThresholdFacts DEF Asserted
    <3>2. Cardinality(Which("bad")) # 0 \/ ~(Cardinality(Listed) >= 1)
      BY <2>1, <3>1 DEF Holds, Asserted
    <3> QED BY <2>1, <2>2, <3>2, ReportFacts, CountFacts DEF Real
  <2>5. Judged.value = "fail" => \E f \in Judged.findings : ~f.llm
    BY <1>1, ThresholdFacts
  <2>6. ~Parsed.flowFailed
    BY <1>1, <2>1
  <2> QED BY <2>3, <2>4, <2>5, <2>6 DEF Sound
<1> QED BY <1>3, <1>4

\* k6: a task fails over a bad request.
LEMMA K6Sound == ASSUME Ended, tool = "k6", Parsed.fits PROVE Sound
<1> DEFINE as == {Asserted("failed", "lt", 1)}
<1>1. Parsed = K6 /\ Judged = Threshold(as, K6.metrics)
  <2>1. Parsed = K6 /\ OracleOf = [kind |-> "threshold", assertions |-> as]
    BY DEF Parsed, OracleOf
  <2>2. K6.metrics = Parsed.metrics
    BY <2>1
  <2> QED BY <2>1, <2>2 DEF Judged, Evaluate
<1>2. /\ disk.report # NoFile /\ code = 0 /\ ~K6.flowFailed
      /\ K6.metrics = [failed |-> <<Cardinality(Which("bad"))>>]
  BY <1>1 DEF K6, Measured, Nothing, ParseError, Count, Readable
<1>3. Which("bad") = Bad /\ Cardinality(Bad) \in Nat /\ (Cardinality(Bad) = 0 <=> Bad = {})
  BY <1>2, ReportFacts, CountFacts
<1>4. ASSUME Judged.value = "pass" PROVE Earned
  <2>1. Holds(Asserted("failed", "lt", 1), K6.metrics["failed"][1])
    BY <1>1, <1>4, ThresholdFacts DEF Asserted
  <2>2. Bad = {}
    BY <1>2, <1>3, <2>1 DEF Holds, Asserted
  <2> QED BY <1>2, <2>2, ZeroIsDone, SeenFacts, StrayFacts, BlindFacts DEF Earned, Bad
<1>5. ASSUME Judged.value = "fail" PROVE Real
  <2>1. ~Holds(Asserted("failed", "lt", 1), K6.metrics["failed"][1])
    BY <1>1, <1>5, ThresholdFacts DEF Asserted
  <2> QED BY <1>2, <1>3, <2>1 DEF Holds, Asserted, Real
<1>6. Judged.value = "fail" => \E f \in Judged.findings : ~f.llm
  BY <1>1, ThresholdFacts
<1>7. ~Parsed.flowFailed
  BY <1>1, <1>2
<1> QED BY <1>4, <1>5, <1>6, <1>7 DEF Sound

\* Playwright: every test was reported as good, and the guard blocked nothing.
LEMMA PlaywrightSound == ASSUME Ended, tool = "playwright", Parsed.fits PROVE Sound
<1> DEFINE required == Units \cup {Egress}
<1>1. Parsed = Playwright /\ Judged = Checks(required, Playwright.checks)
  <2>1. Parsed = Playwright /\ OracleOf = [kind |-> "checks", required |-> required]
    BY DEF Parsed, OracleOf
  <2>2. Playwright.checks = Parsed.checks
    BY <2>1
  <2> QED BY <2>1, <2>2 DEF Judged, Evaluate
<1>2. /\ disk.report # NoFile /\ disk.side # NoFile /\ ~Playwright.flowFailed
      /\ Playwright.checks = [n \in (Listed \ Which("skipped")) \cup {Egress} |->
                                IF n = Egress THEN ~disk.side.strayed ELSE disk.report.cases[n] = "ok"]
  BY <1>1 DEF Playwright, Checked, Nothing, ParseError, Readable
<1>3. disk.side.strayed = strayed
  BY <1>2 DEF Ended, AttemptInv, FreshSide
<1>4. Egress \notin Units
  BY AdapterAssumption DEF Egress
<1>5. ASSUME Judged.value \in {"pass", "fail"}, NEW u \in Units
      PROVE  /\ u \in Listed /\ seen[u] \in {"ok", "bad"}
             /\ Playwright.checks[u] <=> seen[u] = "ok"
  <2>1. u \in Listed \ Which("skipped")
    BY <1>1, <1>2, <1>4, <1>5, ChecksFacts
  <2>2. u \in Reported /\ seen[u] # "skipped"
    BY <1>2, <2>1, ReportFacts
  <2>3. seen[u] \in {"ok", "bad"}
    BY <2>2 DEF Reported
  <2>4. disk.report.cases[u] = seen[u]
    BY <1>2, <2>1, <2>3, ReportFacts DEF Shown
  <2> QED BY <1>2, <1>4, <2>1, <2>3, <2>4
<1>6. Playwright.checks[Egress] <=> ~strayed
  BY <1>2, <1>3
<1>7. ASSUME Judged.value = "pass" PROVE Earned
  <2>1. \A n \in required : Playwright.checks[n]
    BY <1>1, <1>7, ChecksFacts
  <2> QED BY <1>5, <1>6, <1>7, <2>1 DEF Earned
<1>8. ASSUME Judged.value = "fail" PROVE Real
  <2>1. PICK n \in required : ~Playwright.checks[n]
    BY <1>1, <1>8, ChecksFacts
  <2> QED BY <1>5, <1>6, <1>8, <2>1 DEF Real, Bad
<1>9. Judged.value = "fail" => \E f \in Judged.findings : ~f.llm
  BY <1>1, ChecksFacts
<1>10. ~Parsed.flowFailed
  BY <1>1, <1>2
<1> QED BY <1>7, <1>8, <1>9, <1>10 DEF Sound

\* Schemathesis: every operation was tried, and an error is named.
LEMMA SchemathesisSound == ASSUME Ended, tool = "schemathesis", Parsed.fits PROVE Sound
<1> DEFINE required == {"not_a_server_error"}
<1>1. Parsed = Schemathesis /\ Judged = Checks(required, Schemathesis.checks)
  <2>1. Parsed = Schemathesis /\ OracleOf = [kind |-> "checks", required |-> required]
    BY DEF Parsed, OracleOf
  <2>2. Schemathesis.checks = Parsed.checks
    BY <2>1
  <2> QED BY <2>1, <2>2 DEF Judged, Evaluate
<1>2. /\ disk.report # NoFile /\ Listed = Units /\ Which("skipped") = {}
      /\ (code # 0) = (Which("bad") # {}) /\ ~Schemathesis.flowFailed
      /\ Schemathesis.checks = [n \in required |-> Which("bad") = {}]
  BY <1>1 DEF Schemathesis, Checked, Nothing, ParseError, Readable
<1>3. Which("bad") = Bad /\ {u \in Units : seen[u] = "skipped"} = {}
  BY <1>2, ReportFacts
<1>4. Schemathesis.checks["not_a_server_error"] <=> Bad = {}
  BY <1>2, <1>3
<1>5. ASSUME Judged.value = "pass" PROVE Earned
  <2>1. Schemathesis.checks["not_a_server_error"]
    BY <1>1, <1>5, ChecksFacts
  <2>2. Bad = {} /\ code = 0
    BY <1>2, <1>3, <1>4, <2>1
  <2> QED BY <1>3, <2>2, ZeroIsDone, SeenFacts, StrayFacts, BlindFacts DEF Earned, Bad
<1>6. ASSUME Judged.value = "fail" PROVE Real
  <2>1. ~Schemathesis.checks["not_a_server_error"]
    BY <1>1, <1>6, ChecksFacts
  <2> QED BY <1>4, <2>1 DEF Real
<1>7. Judged.value = "fail" => \E f \in Judged.findings : ~f.llm
  BY <1>1, ChecksFacts
<1>8. ~Parsed.flowFailed
  BY <1>1, <1>2
<1> QED BY <1>5, <1>6, <1>7, <1>8 DEF Sound

\* Midscene decides nothing; its flow fails over a bad step.
LEMMA MidsceneSound == ASSUME Ended, tool = "midscene", Parsed.fits PROVE Sound
<1>1. Judged.value \notin {"pass", "fail"}
  BY DEF Judged, Evaluate, OracleOf, ImplicitSignals, OracleError
<1>2. Parsed = Midscene /\ disk.report # NoFile /\ (Midscene.flowFailed => Which("bad") # {})
  <2>1. Parsed = Midscene
    BY DEF Parsed
  <2> QED BY <2>1 DEF Midscene, Nothing, ParseError, Readable
<1> QED BY <1>1, <1>2, ReportFacts DEF Sound, Real

\* Semgrep: every file was scanned, with rules.
LEMMA SemgrepSound == ASSUME Ended, tool = "semgrep", Parsed.fits PROVE Sound
<1> DEFINE as == {Asserted("high", "eq", 0), Asserted("scanned", "ge", 1)}
<1>1. Parsed = Semgrep /\ Judged = Threshold(as, Semgrep.metrics)
  <2>1. Parsed = Semgrep /\ OracleOf = [kind |-> "threshold", assertions |-> as]
    BY DEF Parsed, OracleOf
  <2>2. Semgrep.metrics = Parsed.metrics
    BY <2>1
  <2> QED BY <2>1, <2>2 DEF Judged, Evaluate
<1>2. /\ disk.report # NoFile /\ code = 0 /\ Which("skipped") = {} /\ ~Semgrep.flowFailed
      /\ Semgrep.metrics = [high |-> <<Cardinality(Which("bad"))>>, scanned |-> <<Cardinality(Listed)>>]
  BY <1>1 DEF Semgrep, Measured, Nothing, ParseError, Count, Readable
<1>3. /\ Which("bad") = Bad /\ Cardinality(Bad) \in Nat /\ (Cardinality(Bad) = 0 <=> Bad = {})
      /\ {u \in Units : seen[u] = "skipped"} = {}
  BY <1>2, ReportFacts, CountFacts
<1>4. Listed # {} /\ Cardinality(Listed) \in Nat /\ Cardinality(Listed) # 0
  <2>1. Reported # {}
    BY <1>2, ZeroIsDone, AdapterAssumption DEF Reported
  <2> QED BY <1>2, <2>1, ReportFacts, CountFacts
<1>5. ASSUME Judged.value = "pass" PROVE Earned
  <2>1. Holds(Asserted("high", "eq", 0), Semgrep.metrics["high"][1])
    BY <1>1, <1>5, ThresholdFacts DEF Asserted
  <2>2. Bad = {}
    BY <1>2, <1>3, <2>1 DEF Holds, Asserted
  <2> QED BY <1>2, <1>3, <2>2, ZeroIsDone, SeenFacts, StrayFacts, BlindFacts DEF Earned, Bad
<1>6. ASSUME Judged.value = "fail" PROVE Real
  <2>1. ~Holds(Asserted("high", "eq", 0), Semgrep.metrics["high"][1])
          \/ ~Holds(Asserted("scanned", "ge", 1), Semgrep.metrics["scanned"][1])
    BY <1>1, <1>6, ThresholdFacts DEF Asserted
  <2>2. Cardinality(Bad) # 0
    BY <1>2, <1>3, <1>4, <2>1 DEF Holds, Asserted
  <2> QED BY <1>3, <2>2 DEF Real
<1>7. Judged.value = "fail" => \E f \in Judged.findings : ~f.llm
  BY <1>1, ThresholdFacts
<1>8. ~Parsed.flowFailed
  BY <1>1, <1>2
<1> QED BY <1>5, <1>6, <1>7, <1>8 DEF Sound

\* Trivy: a lockfile was scanned with a known database, or it is declared that there is
\* nothing in it; an old database fails the task.
LEMMA TrivySound == ASSUME Ended, tool = "trivy", Parsed.fits PROVE Sound
<1> DEFINE as == {Asserted("high", "eq", 0), Asserted("age", "le", 14)}
<1>1. Parsed = Trivy /\ Judged = Threshold(as, Trivy.metrics)
  <2>1. Parsed = Trivy /\ OracleOf = [kind |-> "threshold", assertions |-> as]
    BY DEF Parsed, OracleOf
  <2>2. Trivy.metrics = Parsed.metrics
    BY <2>1
  <2> QED BY <2>1, <2>2 DEF Judged, Evaluate
<1>2. /\ disk.report # NoFile /\ code = 0 /\ ~Trivy.flowFailed
      /\ Listed # {} \/ defect \in DeclaredLockfiles
      /\ defect \notin {"db_unknown", "declared_gone", "declared_gone_others_left"}
      /\ Trivy.metrics = [high |-> <<Cardinality(Which("bad"))>>,
                          age |-> IF defect = "db_old" THEN <<15>> ELSE <<1>>]
  BY <1>1 DEF Trivy, Measured, Nothing, ParseError, Count, Readable, DatabaseKnown, ManifestsThere
<1>3. Which("bad") = Bad /\ Cardinality(Bad) \in Nat /\ (Cardinality(Bad) = 0 <=> Bad = {})
  BY <1>2, ReportFacts, CountFacts
<1>4. defect \notin Blinding \/ defect = "declared_empty"
  <2>1. CASE defect \in DeclaredLockfiles
    BY <1>2, <2>1 DEF DeclaredLockfiles
  <2>2. CASE Listed # {}
    <3>1. PICK u \in Units : u \in Reported
      BY <1>2, <2>2, ReportFacts DEF Reported
    <3> QED BY <3>1 DEF Reported, Ended, AttemptInv, Sighted
  <2> QED BY <1>2, <2>1, <2>2
<1>5. ASSUME Judged.value = "pass" PROVE Earned
  <2>1. Holds(Asserted("high", "eq", 0), Trivy.metrics["high"][1])
    BY <1>1, <1>5, ThresholdFacts DEF Asserted
  <2>2. Bad = {}
    BY <1>2, <1>3, <2>1 DEF Holds, Asserted
  <2> QED BY <1>2, <1>4, <2>2, ZeroIsDone, SeenFacts, StrayFacts DEF Earned, Bad
<1>6. ASSUME Judged.value = "fail" PROVE Real
  <2>1. ~Holds(Asserted("high", "eq", 0), Trivy.metrics["high"][1])
          \/ ~Holds(Asserted("age", "le", 14), Trivy.metrics["age"][1])
    BY <1>1, <1>6, ThresholdFacts DEF Asserted
  <2>2. Cardinality(Bad) # 0 \/ defect = "db_old"
    BY <1>2, <1>3, <2>1 DEF Holds, Asserted
  <2> QED BY <1>3, <2>2 DEF Real
<1>7. Judged.value = "fail" => \E f \in Judged.findings : ~f.llm
  BY <1>1, ThresholdFacts
<1>8. ~Parsed.flowFailed
  BY <1>1, <1>2
<1> QED BY <1>5, <1>6, <1>7, <1>8 DEF Sound

\* gitleaks: no report is good news only if all was looked at.
LEMMA GitleaksSound == ASSUME Ended, tool = "gitleaks", Parsed.fits PROVE Sound
<1> DEFINE as == {Asserted("count", "eq", 0)}
<1>1. Parsed = Gitleaks /\ Judged = Threshold(as, Gitleaks.metrics)
  <2>1. Parsed = Gitleaks /\ OracleOf = [kind |-> "threshold", assertions |-> as]
    BY DEF Parsed, OracleOf
  <2>2. Gitleaks.metrics = Parsed.metrics
    BY <2>1
  <2> QED BY <2>1, <2>2 DEF Judged, Evaluate
<1>2. /\ code = 0 /\ ~Gitleaks.flowFailed
      /\ \/ disk.report # NoFile /\ Gitleaks.metrics = [count |-> <<Cardinality(Which("bad"))>>]
         \/ /\ disk.report = NoFile /\ Gitleaks.metrics = [count |-> <<0>>]
            /\ \A u \in Units : seen[u] = "ok"
  BY <1>1 DEF Gitleaks, Measured, Nothing, ParseError, Count
<1>3. Cardinality(Bad) \in Nat /\ (Cardinality(Bad) = 0 <=> Bad = {})
  BY CountFacts DEF Bad
<1>4. Gitleaks.metrics = [count |-> <<Cardinality(Bad)>>]
  <2>1. CASE disk.report # NoFile
    BY <1>2, <2>1, ReportFacts
  <2>2. CASE \A u \in Units : seen[u] = "ok"
    BY <1>2, <1>3, <2>2, ReportFacts DEF Bad
  <2> QED BY <1>2, <2>1, <2>2
<1>5. ASSUME Judged.value = "pass" PROVE Earned
  <2>1. Holds(Asserted("count", "eq", 0), Gitleaks.metrics["count"][1])
    BY <1>1, <1>5, ThresholdFacts DEF Asserted
  <2>2. Bad = {}
    BY <1>3, <1>4, <2>1 DEF Holds, Asserted
  <2> QED BY <1>2, <2>2, ZeroIsDone, SeenFacts, StrayFacts, BlindFacts DEF Earned, Bad
<1>6. ASSUME Judged.value = "fail" PROVE Real
  <2>1. ~Holds(Asserted("count", "eq", 0), Gitleaks.metrics["count"][1])
    BY <1>1, <1>6, ThresholdFacts DEF Asserted
  <2> QED BY <1>3, <1>4, <2>1 DEF Holds, Asserted, Real
<1>7. Judged.value = "fail" => \E f \in Judged.findings : ~f.llm
  BY <1>1, ThresholdFacts
<1>8. ~Parsed.flowFailed
  BY <1>1, <1>2
<1> QED BY <1>5, <1>6, <1>7, <1>8 DEF Sound

\* coverage_debt: it knew the base it compares with.
LEMMA CoverageDebtSound == ASSUME Ended, tool = "coverage_debt", Parsed.fits PROVE Sound
<1> DEFINE as == {Asserted("new", "eq", 0)}
<1>1. Parsed = CoverageDebt /\ Judged = Threshold(as, CoverageDebt.metrics)
  <2>1. Parsed = CoverageDebt /\ OracleOf = [kind |-> "threshold", assertions |-> as]
    BY DEF Parsed, OracleOf
  <2>2. CoverageDebt.metrics = Parsed.metrics
    BY <2>1
  <2> QED BY <2>1, <2>2 DEF Judged, Evaluate
<1>2. /\ disk.report # NoFile /\ code = 0 /\ ~CoverageDebt.flowFailed
      /\ CoverageDebt.metrics = [new |-> <<Cardinality(Which("bad"))>>]
  BY <1>1 DEF CoverageDebt, Measured, Nothing, ParseError, Count, Readable
<1>3. Which("bad") = Bad /\ Cardinality(Bad) \in Nat /\ (Cardinality(Bad) = 0 <=> Bad = {})
  BY <1>2, ReportFacts, CountFacts
<1>4. defect # "base_unknown"
  BY <1>2, ZeroIsDone DEF DoneCode
<1>5. ASSUME Judged.value = "pass" PROVE Earned
  <2>1. Holds(Asserted("new", "eq", 0), CoverageDebt.metrics["new"][1])
    BY <1>1, <1>5, ThresholdFacts DEF Asserted
  <2>2. Bad = {}
    BY <1>2, <1>3, <2>1 DEF Holds, Asserted
  <2> QED BY <1>2, <1>4, <2>2, ZeroIsDone, SeenFacts, StrayFacts, BlindFacts DEF Earned, Bad
<1>6. ASSUME Judged.value = "fail" PROVE Real
  <2>1. ~Holds(Asserted("new", "eq", 0), CoverageDebt.metrics["new"][1])
    BY <1>1, <1>6, ThresholdFacts DEF Asserted
  <2> QED BY <1>2, <1>3, <2>1 DEF Holds, Asserted, Real
<1>7. Judged.value = "fail" => \E f \in Judged.findings : ~f.llm
  BY <1>1, ThresholdFacts
<1>8. ~Parsed.flowFailed
  BY <1>1, <1>2
<1> QED BY <1>5, <1>6, <1>7, <1>8 DEF Sound

\* DeepEval: every case was judged, on outputs collected in this attempt.
LEMMA DeepevalSound == ASSUME Ended, tool = "deepeval", Parsed.fits PROVE Sound
<1> DEFINE required == {"all_metrics", "all_http_2xx"}
<1>1. Parsed = Deepeval /\ Judged = Checks(required, Deepeval.checks)
  <2>1. Parsed = Deepeval /\ OracleOf = [kind |-> "checks", required |-> required]
    BY DEF Parsed, OracleOf
  <2>2. Deepeval.checks = Parsed.checks
    BY <2>1
  <2> QED BY <2>1, <2>2 DEF Judged, Evaluate
<1>2. /\ disk.report # NoFile /\ disk.side # NoFile /\ Listed = Units /\ Which("skipped") = {}
      /\ code \in {0, 1} /\ (code = 1) = (Which("bad") # {}) /\ ~Deepeval.flowFailed
      /\ Deepeval.checks = [all_metrics |-> Which("bad") = {}, all_http_2xx |-> ~disk.side.strayed]
  BY <1>1 DEF Deepeval, Checked, Nothing, ParseError, Readable
<1>3. Which("bad") = Bad /\ {u \in Units : seen[u] = "skipped"} = {}
  BY <1>2, ReportFacts
<1>4. disk.side.strayed = strayed
  <2>1. \E u \in Units : seen[u] # "todo"
    BY <1>2, ReportFacts, AdapterAssumption DEF Reported
  <2> QED BY <2>1 DEF Ended, AttemptInv, FreshSide
<1>5. (Deepeval.checks["all_metrics"] <=> Bad = {}) /\ (Deepeval.checks["all_http_2xx"] <=> ~strayed)
  <2>1. Deepeval.checks["all_metrics"] = (Which("bad") = {})
    BY <1>2
  <2>2. Deepeval.checks["all_http_2xx"] = ~disk.side.strayed
    BY <1>2
  <2> QED BY <1>3, <1>4, <2>1, <2>2
<1>6. ASSUME Judged.value = "pass" PROVE Earned
  <2>1. Deepeval.checks["all_metrics"] /\ Deepeval.checks["all_http_2xx"]
    BY <1>1, <1>6, ChecksFacts
  <2>2. Bad = {} /\ code = 0 /\ ~strayed
    BY <1>2, <1>3, <1>5, <2>1
  <2> QED BY <1>3, <2>2, ZeroIsDone, SeenFacts, BlindFacts DEF Earned, Bad
<1>7. ASSUME Judged.value = "fail" PROVE Real
  <2>1. ~Deepeval.checks["all_metrics"] \/ ~Deepeval.checks["all_http_2xx"]
    BY <1>1, <1>7, ChecksFacts
  <2> QED BY <1>5, <2>1 DEF Real
<1>8. Judged.value = "fail" => \E f \in Judged.findings : ~f.llm
  BY <1>1, ChecksFacts
<1>9. ~Parsed.flowFailed
  BY <1>1, <1>2
<1> QED BY <1>6, <1>7, <1>8, <1>9 DEF Sound

\* Whatever the tool, the answer to an attempt rests on what was seen in it.
LEMMA AnswerFacts ==
  ASSUME Ended
  PROVE  /\ Answered.status \in {"pass", "fail", "error"}
         /\ Answered.status = "pass" /\ Answered.gating => Earned
         /\ Answered.status = "fail" => Real /\ (Answered.gating => \E f \in Answered.findings : ~f.llm)
<1>1. Parsed.fits => Sound
  BY PytestSound, K6Sound, PlaywrightSound, SchemathesisSound, MidsceneSound, SemgrepSound,
     TrivySound, GitleaksSound, CoverageDebtSound, DeepevalSound
     DEF Ended, AttemptInv, AttemptTypeOK, ToolNames
<1>2. Answered = Error \/ (Parsed.fits /\ Answered = Verdict2(Parsed, Judged))
  BY DEF Answered, Judged
<1>3. Error.status = "error"
  BY DEF Error, NoAnswer2
<1>4. CASE Parsed.fits /\ Answered = Verdict2(Parsed, Judged)
  <2> DEFINE all == Parsed.findings \cup Judged.findings
  <2>1. \/ Answered = Error
        \/ /\ lane = "gate" /\ Judged.value \in {"pass", "fail"}
           /\ Answered = [status |-> Judged.value, gating |-> TRUE, findings |-> all]
        \/ /\ lane # "gate"
           /\ Answered = [status |-> IF Parsed.flowFailed \/ Judged.value = "fail" THEN "fail" ELSE "pass",
                          gating |-> FALSE, findings |-> all]
    BY <1>4 DEF Verdict2
  <2> QED BY <1>1, <1>3, <1>4, <2>1 DEF Sound
<1> QED BY <1>2, <1>3, <1>4
-----------------------------------------------------------------------------
(* The two promises.                                                        *)

\* The invariants hold when the first attempt begins.
LEMMA AttemptInit == AdapterInit => AttemptInv /\ PassIsEarned /\ FailIsReal
<1> SUFFICES ASSUME AdapterInit PROVE AttemptInv /\ PassIsEarned /\ FailIsReal
  OBVIOUS
<1>1. AttemptTypeOK
  <2>1. disk = [report |-> NoFile, side |-> NoFile] /\ NoFile.round = 0
    BY DEF AdapterInit, NoFile
  <2>2. disk.side = NoFile /\ disk = [report |-> disk.report, side |-> disk.side]
    BY <2>1
  <2>3. seen \in [Units -> {"todo", "ok", "bad", "skipped", "overlooked"}]
    BY DEF AdapterInit
  <2>4. round = 1 /\ disk.side.round \in 0 .. round
    BY <2>1, <2>2 DEF AdapterInit
  <2>5. tool \in ToolNames /\ defect \in Defects[tool] \cup {"none"}
    BY AdapterAssumption DEF AdapterInit
  <2> QED BY <2>2, <2>3, <2>4, <2>5 DEF AdapterInit, AttemptTypeOK
<1>2. Sighted /\ Unbegun
  BY DEF AdapterInit, Sighted, Unbegun, NoFile
<1>3. PassIsEarned /\ FailIsReal
  BY DEF AdapterInit, PassIsEarned, FailIsReal, NoAnswer2
<1> QED BY <1>1, <1>2, <1>3 DEF AdapterInit, AttemptInv

\* Every step of an attempt keeps its invariant.
LEMMA AttemptStep == ASSUME AttemptInv, [AdapterNext]_adapterVars PROVE AttemptInv'
<1>1. CASE AdapterNext
  BY <1>1, BuildStep, AskStep, LookStep, StumbleStep, WriteStep, EndStep, AnswerStep DEF AdapterNext
<1>2. CASE UNCHANGED adapterVars
  <2>1. /\ UNCHANGED <<tool, lane, defect, round, at, seen, strayed, trouble, code, disk, answer>>
        /\ Reported' = Reported /\ Refuses' = Refuses /\ DoneCode' = DoneCode
        /\ TroubleCode' = TroubleCode
    BY <1>2 DEF adapterVars, Reported, Refuses, DoneCode, TroubleCode, Bad
  <2>2. /\ AttemptTypeOK' = AttemptTypeOK /\ Sighted' = Sighted /\ Unbegun' = Unbegun
        /\ FreshSide' = FreshSide
    BY <2>1 DEF AttemptTypeOK, Sighted, Unbegun, FreshSide
  <2>3. FreshReport' = FreshReport /\ FreshCode' = FreshCode
    BY <2>1 DEF FreshReport, FreshCode, Done
  <2> QED BY <2>1, <2>2, <2>3 DEF AttemptInv
<1> QED BY <1>1, <1>2

\* An answer is given by Parse, from what it finds, or it is an error; it and what it
\* speaks of then stay until the next attempt.
LEMMA AnswerOrStay ==
  ASSUME AttemptInv, [AdapterNext]_adapterVars
  PROVE  \/ answer'.status \notin {"pass", "fail"}
         \/ /\ Ended /\ answer' = Answered
            /\ UNCHANGED <<tool, defect, seen, strayed, trouble, code>>
         \/ UNCHANGED <<answer, tool, defect, seen, strayed, trouble, code>>
<1>1. NoAnswer2.status = "none" /\ Error.status = "error"
  BY DEF NoAnswer2, Error
<1>2. CASE Build
  BY <1>1, <1>2 DEF Build
<1>3. CASE AskSut \/ Stumble \/ WriteReport \/ Exit \/ Die \/ \E u \in Units : Look(u)
  <2>1. ToolRuns /\ answer' = answer
    BY <1>3 DEF AskSut, Stumble, WriteReport, Exit, Die, Look
  <2> QED BY <1>1, <2>1, RunsFacts
<1>4. CASE Parse
  BY <1>4 DEF Parse, Ended
<1>5. CASE WallClock
  BY <1>1, <1>5 DEF WallClock
<1>6. CASE Retry
  BY <1>1, <1>6 DEF Retry
<1>7. CASE UNCHANGED adapterVars
  BY <1>7 DEF adapterVars
<1> QED BY <1>2, <1>3, <1>4, <1>5, <1>6, <1>7 DEF AdapterNext

\* Each step keeps both promises.
LEMMA PromiseStep ==
  ASSUME AttemptInv, PassIsEarned, FailIsReal, [AdapterNext]_adapterVars
  PROVE  PassIsEarned' /\ FailIsReal'
<1>1. CASE answer'.status \notin {"pass", "fail"}
  BY <1>1 DEF PassIsEarned, FailIsReal
<1>2. CASE /\ Ended /\ answer' = Answered
           /\ UNCHANGED <<tool, defect, seen, strayed, trouble, code>>
  BY <1>2, AnswerFacts DEF Ended, Earned, Real, PassIsEarned, FailIsReal, Bad
<1>3. CASE UNCHANGED <<answer, tool, defect, seen, strayed, trouble, code>>
  BY <1>3 DEF PassIsEarned, FailIsReal, Bad
<1> QED BY <1>1, <1>2, <1>3, AnswerOrStay

\* The inductive invariant of an attempt, with the promises.
LEMMA AdapterInvariant == AdapterSpec => [](AttemptInv /\ PassIsEarned /\ FailIsReal)
<1>1. (AttemptInv /\ PassIsEarned /\ FailIsReal) /\ [AdapterNext]_adapterVars
        => (AttemptInv /\ PassIsEarned /\ FailIsReal)'
  BY AttemptStep, PromiseStep
<1> QED BY <1>1, AttemptInit, PTL DEF AdapterSpec

\* Whatever its tool leaves behind, and whatever an earlier attempt left, a task of
\* the gate passes only for what the tool saw in this attempt (parse_output, _verdict).
THEOREM PassesAreEarned == AdapterSpec => []PassIsEarned
BY AdapterInvariant, PTL

\* A tool that breaks is never mistaken for a fault of the SUT (_run, parse_output).
THEOREM FailsAreReal == AdapterSpec => []FailIsReal
BY AdapterInvariant, PTL
=============================================================================
