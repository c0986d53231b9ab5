--------------------------- MODULE CiReportProofs ---------------------------
(* Proofs about CiReport, for any lanes, attempts, findings, services and   *)
(* any requests that fail.                                                  *)
EXTENDS CiReport, TLAPS, FiniteSetTheorems

\* The fields that the job of a lane has.
Shape == /\ job = [l \in Lanes |-> job[l]]
         /\ \A l \in Lanes :
              job[l] = [n |-> job[l].n, at |-> job[l].at, patch |-> job[l].patch,
                        findings |-> job[l].findings, report |-> job[l].report, code |-> job[l].code,
                        todo |-> job[l].todo, told |-> job[l].told]

\* What a step in lane l leaves alone: the jobs of other lanes, what its own is about.
Others(l) == \A m \in Lanes : m # l => job'[m] = job[m]
Same(l)   == /\ job'[l].n = job[l].n /\ job'[l].findings = job[l].findings
             /\ job'[l].report = job[l].report /\ job'[l].code = job[l].code
Tells(l, field, what) == job'[l].told[1] = field /\ job'[l].told[2] = what

\* A lane that has told nothing.
LEMMA SilentTells == Silent[1] = "nothing" /\ Silent[2] = "none"
BY DEF Silent

\* A lane that only tells something and goes on keeps the rest of its job.
LEMMA MovesJob ==
  ASSUME Shape, NEW l \in Lanes, NEW told, NEW a,
         job' = [job EXCEPT ![l].told = told, ![l].at = a]
  PROVE  Shape' /\ Others(l) /\ Same(l) /\ job'[l].told = told /\ job'[l].at = a
         /\ job'[l].todo = job[l].todo
<1>1. job'[l] = [job[l] EXCEPT !.told = told, !.at = a]
  BY DEF Shape
<1>2. Others(l) /\ job' = [m \in Lanes |-> job'[m]]
  BY DEF Shape, Others
<1> QED BY <1>1, <1>2, ZenonT(40) DEF Shape, Others, Same

\* So does one that says what became of a request,
LEMMA SaysJob ==
  ASSUME Shape, NEW l \in Lanes, NEW f, NEW w, NEW a, Says(l, f, w, a)
  PROVE  Shape' /\ Others(l) /\ Same(l) /\ Tells(l, f, w) /\ job'[l].at = a /\ job'[l].todo = job[l].todo
<1>1. <<f, w>>[1] = f /\ <<f, w>>[2] = w
  OBVIOUS
<1> QED BY <1>1, MovesJob, ZenonT(40) DEF Says, Tells

\* one that goes on silently,
LEMMA GoesJob ==
  ASSUME Shape, NEW l \in Lanes, NEW a, Goes(l, a)
  PROVE  Shape' /\ Others(l) /\ Same(l) /\ Tells(l, "nothing", "none") /\ job'[l].at = a
         /\ job'[l].todo = job[l].todo
BY MovesJob, SilentTells, ZenonT(40) DEF Goes, Tells

\* and one whose job is over keeps only its number.
LEMMA LeavesJob ==
  ASSUME Shape, NEW l \in Lanes, Leaves(l)
  PROVE  Shape' /\ Others(l) /\ Tells(l, "nothing", "none") /\ job'[l].at = "idle" /\ job'[l].n = job[l].n
         /\ job'[l].report = "none" /\ job'[l].code = "none"
BY SilentTells DEF Leaves, Shape, Others, Tells, Parked

\* A new attempt of a lane has the next number and nothing to show yet.
LEMMA StartJob ==
  ASSUME Shape, NEW l \in Lanes, Start(l)
  PROVE  Shape' /\ Others(l) /\ Tells(l, "nothing", "none") /\ job'[l].at = "refine"
         /\ job[l].at = "idle" /\ job'[l].n = job[l].n + 1
         /\ job'[l].report = "none" /\ job'[l].code = "none"
<1>1. PICK input \in Inputs[l] :
        job' = [job EXCEPT ![l] = [Parked EXCEPT !.n = job[l].n + 1, !.at = "refine",
                                                 !.patch = input.patch, !.findings = input.findings]]
  BY DEF Start
<1>2. job'[l] = [Parked EXCEPT !.n = job[l].n + 1, !.at = "refine",
                               !.patch = input.patch, !.findings = input.findings]
  BY <1>1 DEF Shape
<1>3. job[l].at = "idle"
  BY DEF Start
<1>4. Others(l) /\ job' = [m \in Lanes |-> job'[m]]
  BY <1>1 DEF Shape, Others
<1>5. Tells(l, "nothing", "none")
  BY <1>2, SilentTells DEF Tells, Parked
<1> QED BY <1>2, <1>3, <1>4, <1>5 DEF Shape, Others, Parked

\* The gate leaves one of its reports and exit codes.
LEMMA GateJob ==
  ASSUME Shape, NEW l \in Lanes, Gate(l)
  PROVE  /\ Shape' /\ Others(l) /\ Tells(l, "nothing", "none")
         /\ job[l].at = "gate" /\ job'[l].at = "review" /\ job'[l].n = job[l].n
         /\ job'[l].findings = job[l].findings
         /\ \E g \in Gates : job'[l].report = g.report /\ job'[l].code = g.code
<1>1. PICK g \in Gates :
        job' = [job EXCEPT ![l].told = Silent, ![l].at = "review", ![l].report = g.report, ![l].code = g.code]
  BY DEF Gate
<1>2. job'[l] = [job[l] EXCEPT !.told = Silent, !.at = "review", !.report = g.report, !.code = g.code]
  BY <1>1 DEF Shape
<1>3. Others(l) /\ job' = [m \in Lanes |-> job'[m]] /\ job[l].at = "gate"
  BY <1>1 DEF Shape, Others, Gate
<1>4. Tells(l, "nothing", "none")
  BY <1>2, SilentTells DEF Shape, Tells
<1> QED BY <1>2, <1>3, <1>4 DEF Shape, Others

\* The two steps that fill and empty the list of tickets.
LEMMA TodoJob ==
  ASSUME Shape, NEW l \in Lanes, NEW todo,
         \/ job' = [job EXCEPT ![l].told = Silent, ![l].at = "tickets", ![l].todo = todo]
         \/ job[l].at = "tickets" /\ job' = [job EXCEPT ![l].todo = todo]
  PROVE  Shape' /\ Others(l) /\ Same(l) /\ job'[l].at = "tickets" /\ job'[l].todo = todo
         /\ (Tells(l, "nothing", "none") \/ job'[l].told = job[l].told)
<1>1. Others(l) /\ job' = [m \in Lanes |-> job'[m]]
  BY DEF Shape, Others
<1>2. CASE job' = [job EXCEPT ![l].told = Silent, ![l].at = "tickets", ![l].todo = todo]
  <2>1. job'[l] = [job[l] EXCEPT !.told = Silent, !.at = "tickets", !.todo = todo]
    BY <1>2 DEF Shape
  <2>2. Tells(l, "nothing", "none")
    BY <2>1, SilentTells DEF Shape, Tells
  <2> QED BY <1>1, <2>1, <2>2 DEF Shape, Others, Same
<1>3. CASE job[l].at = "tickets" /\ job' = [job EXCEPT ![l].todo = todo]
  <2>1. job'[l] = [job[l] EXCEPT !.todo = todo]
    BY <1>3 DEF Shape
  <2> QED BY <1>1, <1>3, <2>1 DEF Shape, Others, Same
<1> QED BY <1>2, <1>3
-----------------------------------------------------------------------------
\* Every step of a lane: no other job changes, and its own goes on like this.
Stays(l)   == UNCHANGED <<reviews, issues, comments, checks>>
Quiet(l)   == Same(l) /\ job'[l].todo = job[l].todo

\* A search skips, fails, finds its key, or is followed by a post of one it did not find.
LEMMA SearchStep ==
  ASSUME Shape, NEW l \in Lanes, NEW kind, NEW idle \in BOOLEAN, NEW post, NEW next,
         Search(l, kind, idle, post, next)
  PROVE  /\ Shape' /\ Others(l) /\ Quiet(l) /\ Stays(l) /\ job[l].at = kind
         /\ \/ job'[l].at = next /\ Tells(l, kind, "skipped")
            \/ job'[l].at = next /\ Tells(l, kind, "error")
            \/ job'[l].at = next /\ Tells(l, kind, "there") /\ Shown(Key(l, kind))
            \/ job'[l].at = post /\ Tells(l, "nothing", "none") /\ ~Shown(Key(l, kind))
<1> USE DEF Search, Quiet, Stays
<1>1. CASE Says(l, kind, "skipped", next)
  BY <1>1, SaysJob
<1>2. CASE Says(l, kind, "error", next)
  BY <1>2, SaysJob
<1>3. CASE Shown(Key(l, kind)) /\ Says(l, kind, "there", next)
  BY <1>3, SaysJob
<1>4. CASE ~Shown(Key(l, kind)) /\ Goes(l, post)
  BY <1>4, GoesJob
<1> QED BY <1>1, <1>2, <1>3, <1>4

\* A post is there, is not, or is there without an answer.
LEMMA PostStep ==
  ASSUME Shape, NEW l \in Lanes, NEW kind, NEW post, NEW next, Post(l, kind, post, next)
  PROVE  /\ Shape' /\ Others(l) /\ Quiet(l) /\ UNCHANGED <<issues, comments, checks>>
         /\ job[l].at = post /\ job'[l].at = next
         /\ LET mine == [key |-> Key(l, kind), by |-> By(l), near |-> ~crowded] IN
            \/ Tells(l, kind, "created") /\ reviews' = reviews \cup {mine}
            \/ Tells(l, kind, "error") /\ reviews' \in {reviews, reviews \cup {mine}}
<1>1. PICK o \in Outcomes :
        /\ Says(l, kind, Told(o, "created"), next)
        /\ reviews' = IF Took(o)
                      THEN reviews \cup {[key |-> Key(l, kind), by |-> By(l), near |-> ~crowded]}
                      ELSE reviews
  BY DEF Post
<1>2. /\ Shape' /\ Others(l) /\ Quiet(l) /\ job'[l].at = next
      /\ Tells(l, kind, Told(o, "created"))
  BY <1>1, SaysJob DEF Quiet
<1>3. UNCHANGED <<issues, comments, checks>> /\ job[l].at = post
  BY DEF Post
<1>4. CASE o = "answered"
  BY <1>1, <1>2, <1>3, <1>4 DEF Told, Took
<1>5. CASE o # "answered"
  BY <1>1, <1>2, <1>3, <1>5 DEF Told
<1> QED BY <1>4, <1>5

\* The same of both kinds of review, without what is told.
Early == {"refine", "post refine", "gate"}

\* Where the two searches of reviews come in the workflow, and what follows them.
LEMMA SearchSteps ==
  ASSUME Shape, NEW l \in Lanes, SearchRefine(l) \/ SearchReview(l)
  PROVE  /\ Others(l) /\ Quiet(l) /\ Stays(l) /\ job'[l].told[1] \in {"refine", "review", "nothing"}
         /\ \/ job[l].at = "refine" /\ job'[l].at \in Early
            \/ job[l].at = "review" /\ job'[l].at \in {"post review", "jira"}
<1>1. CASE SearchRefine(l)
  <2>1. PICK idle \in BOOLEAN : Search(l, "refine", idle, "post refine", "gate")
    BY <1>1 DEF SearchRefine
  <2>2. /\ Others(l) /\ Quiet(l) /\ Stays(l) /\ job[l].at = "refine"
        /\ job'[l].at \in {"gate", "post refine"}
        /\ \E w : Tells(l, "refine", w) \/ Tells(l, "nothing", w)
    BY <2>1, SearchStep
  <2> QED BY <2>2 DEF Tells, Early
<1>2. CASE SearchReview(l)
  <2>1. PICK idle \in BOOLEAN : Search(l, "review", idle, "post review", "jira")
    BY <1>2 DEF SearchReview
  <2>2. /\ Others(l) /\ Quiet(l) /\ Stays(l) /\ job[l].at = "review"
        /\ job'[l].at \in {"jira", "post review"}
        /\ \E w : Tells(l, "review", w) \/ Tells(l, "nothing", w)
    BY <2>1, SearchStep
  <2> QED BY <2>2 DEF Tells
<1> QED BY <1>1, <1>2

\* A post is followed by the next part of the workflow, whatever became of it.
LEMMA PostSteps ==
  ASSUME Shape, NEW l \in Lanes, PostRefine(l) \/ PostReview(l)
  PROVE  /\ Others(l) /\ Quiet(l) /\ UNCHANGED <<issues, comments, checks>>
         /\ job'[l].told[1] \in {"refine", "review"}
         /\ \/ job[l].at = "post refine" /\ job'[l].at = "gate"
            \/ job[l].at = "post review" /\ job'[l].at = "jira"
<1>1. CASE Post(l, "refine", "post refine", "gate")
  <2>1. /\ Others(l) /\ Quiet(l) /\ UNCHANGED <<issues, comments, checks>>
        /\ job[l].at = "post refine" /\ job'[l].at = "gate"
        /\ \E w : Tells(l, "refine", w)
    BY <1>1, PostStep
  <2> QED BY <2>1 DEF Tells
<1>2. CASE Post(l, "review", "post review", "jira")
  <2>1. /\ Others(l) /\ Quiet(l) /\ UNCHANGED <<issues, comments, checks>>
        /\ job[l].at = "post review" /\ job'[l].at = "jira"
        /\ \E w : Tells(l, "review", w)
    BY <1>2, PostStep
  <2> QED BY <2>1 DEF Tells
<1> QED BY <1>1, <1>2 DEF PostRefine, PostReview

\* The search of tickets fails, is skipped, or leaves those without an issue to do.
LEMMA SearchIssuesStep ==
  ASSUME Shape, NEW l \in Lanes, SearchIssues(l)
  PROVE  /\ Shape' /\ Others(l) /\ Same(l) /\ Stays(l) /\ job[l].at = "jira"
         /\ \/ job'[l].at = "history" /\ Tells(l, "jira", "error")
            \/ job'[l].at = "history" /\ Tells(l, "jira", "skipped")
            \/ job'[l].at = "tickets" /\ job'[l].todo = Lows(l) \ Labelled
               /\ (Tells(l, "nothing", "none") \/ job'[l].told = job[l].told)
<1> USE DEF SearchIssues, Stays
<1>1. CASE Says(l, "jira", "error", "history")
  BY <1>1, SaysJob
<1>2. CASE Says(l, "jira", "skipped", "history")
  BY <1>2, SaysJob
<1>3. CASE job' = [job EXCEPT ![l].told = Silent, ![l].at = "tickets", ![l].todo = Lows(l) \ Labelled]
  BY <1>3, TodoJob
<1> QED BY <1>1, <1>2, <1>3

\* Nothing is left to do or to spend, or one ticket that is to do is created, or fails.
LEMMA CreateIssueStep ==
  ASSUME Shape, NEW l \in Lanes, CreateIssue(l)
  PROVE  /\ Shape' /\ Others(l) /\ Same(l) /\ UNCHANGED <<reviews, comments, checks>>
         /\ job[l].at = "tickets"
         /\ \/ /\ job[l].todo = {} \/ Created(l) >= MaxNew
               /\ job'[l].at = "history" /\ Tells(l, "jira", "ok") /\ issues' = issues
            \/ /\ Created(l) < MaxNew
               /\ \E label \in job[l].todo :
                    LET mine == [label |-> label, by |-> By(l)] IN
                    \/ /\ issues' = issues \cup {mine}
                       /\ job'[l].at = "tickets" /\ job'[l].todo = job[l].todo \ {label}
                       /\ (Tells(l, "nothing", "none") \/ job'[l].told = job[l].told)
                    \/ /\ issues' \in {issues, issues \cup {mine}}
                       /\ job'[l].at = "history" /\ Tells(l, "jira", "error")
<1>1. UNCHANGED <<reviews, comments, checks>> /\ job[l].at = "tickets"
  BY DEF CreateIssue
<1>2. CASE /\ job[l].todo = {} \/ Created(l) >= MaxNew
           /\ Says(l, "jira", "ok", "history") /\ issues' = issues
  BY <1>1, <1>2, SaysJob
<1>3. ASSUME Created(l) < MaxNew, NEW label \in job[l].todo, NEW o \in Outcomes,
             issues' = (IF Took(o) THEN issues \cup {[label |-> label, by |-> By(l)]} ELSE issues),
             IF o = "answered" THEN job' = [job EXCEPT ![l].todo = @ \ {label}]
             ELSE Says(l, "jira", "error", "history")
      PROVE  /\ Shape' /\ Others(l) /\ Same(l)
             /\ LET mine == [label |-> label, by |-> By(l)] IN
                \/ /\ issues' = issues \cup {mine}
                   /\ job'[l].at = "tickets" /\ job'[l].todo = job[l].todo \ {label}
                   /\ (Tells(l, "nothing", "none") \/ job'[l].told = job[l].told)
                \/ /\ issues' \in {issues, issues \cup {mine}}
                   /\ job'[l].at = "history" /\ Tells(l, "jira", "error")
  <2>1. CASE o = "answered"
    <3>1. job' = [job EXCEPT ![l].todo = job[l].todo \ {label}]
      BY <1>3, <2>1
    <3>2. issues' = issues \cup {[label |-> label, by |-> By(l)]}
      BY <1>3, <2>1 DEF Took
    <3> QED BY <1>1, <3>1, <3>2, TodoJob
  <2>2. CASE o # "answered"
    BY <1>3, <2>2, SaysJob
  <2> QED BY <2>1, <2>2
<1>4. \/ /\ job[l].todo = {} \/ Created(l) >= MaxNew
         /\ Says(l, "jira", "ok", "history") /\ issues' = issues
      \/ /\ Created(l) < MaxNew
         /\ \E label \in job[l].todo, o \in Outcomes :
             /\ issues' = IF Took(o) THEN issues \cup {[label |-> label, by |-> By(l)]} ELSE issues
             /\ IF o = "answered" THEN job' = [job EXCEPT ![l].todo = @ \ {label}]
                ELSE Says(l, "jira", "error", "history")
  BY DEF CreateIssue
<1> QED BY <1>1, <1>2, <1>3, <1>4

\* Steps that tell nothing that is meant here.
LEMMA MuteStep ==
  ASSUME Shape, NEW l \in Lanes, Push(l) \/ ListComments(l) \/ Webhook(l)
  PROVE  /\ Shape' /\ Others(l) /\ Same(l) /\ Stays(l)
         /\ job'[l].at \in {"check", "enforce", "webhook", "new comment", "edit comment"}
         /\ job'[l].at = "new comment" => Mine(l) = {}
         /\ \/ job'[l].told[1] \in {"nothing", "history", "webhook"}
            \/ job'[l].told[1] = "comment" /\ job'[l].told[2] \in {"skipped", "error"}
<1>1. Stays(l)
  BY DEF Push, ListComments, Webhook, Stays
<1>2. \/ \E w : Says(l, "history", w, "check") \/ Says(l, "webhook", w, "enforce")
      \/ Goes(l, "enforce") \/ Goes(l, "edit comment")
      \/ Mine(l) = {} /\ Goes(l, "new comment")
      \/ \E w \in {"skipped", "error"} : Says(l, "comment", w, "webhook")
  <2>1. CASE Push(l)
    BY Zenon, <2>1 DEF Push
  <2>2. CASE ListComments(l)
    BY <2>2 DEF ListComments
  <2>3. CASE Webhook(l)
    BY Zenon, <2>3 DEF Webhook
  <2> QED BY <2>1, <2>2, <2>3
<1>3. ASSUME NEW w, Says(l, "history", w, "check") \/ Says(l, "webhook", w, "enforce")
      PROVE  /\ Shape' /\ Others(l) /\ Same(l) /\ job'[l].at \in {"check", "enforce"}
             /\ job'[l].told[1] \in {"history", "webhook"}
  BY <1>3, SaysJob DEF Tells
<1>4. ASSUME Goes(l, "enforce") \/ Goes(l, "edit comment") \/ Goes(l, "new comment")
      PROVE  /\ Shape' /\ Others(l) /\ Same(l) /\ job'[l].told[1] = "nothing"
             /\ job'[l].at \in {"enforce", "edit comment", "new comment"}
             /\ job'[l].at = "new comment" => Goes(l, "new comment")
  BY <1>4, GoesJob DEF Tells
<1>5. ASSUME NEW w \in {"skipped", "error"}, Says(l, "comment", w, "webhook")
      PROVE  /\ Shape' /\ Others(l) /\ Same(l) /\ job'[l].at = "webhook"
             /\ job'[l].told[1] = "comment" /\ job'[l].told[2] \in {"skipped", "error"}
  BY <1>5, SaysJob DEF Tells
<1>6. CASE \E w : Says(l, "history", w, "check") \/ Says(l, "webhook", w, "enforce")
  BY <1>1, <1>3, <1>6
<1>7. CASE Goes(l, "enforce") \/ Goes(l, "edit comment")
  <2>1. job'[l].at \in {"enforce", "edit comment"}
    BY <1>7, GoesJob
  <2> QED BY <1>1, <1>4, <1>7, <2>1
<1>8. CASE Mine(l) = {} /\ Goes(l, "new comment")
  BY <1>1, <1>4, <1>8
<1>9. CASE \E w \in {"skipped", "error"} : Says(l, "comment", w, "webhook")
  BY <1>1, <1>5, <1>9
<1> QED BY <1>2, <1>6, <1>7, <1>8, <1>9

\* The Check Run of a lane is that of its attempt, or of an older one if the request fails.
LEMMA CheckStep ==
  ASSUME Shape, NEW l \in Lanes, CreateCheckRun(l)
  PROVE  /\ Shape' /\ Others(l) /\ Same(l) /\ UNCHANGED <<reviews, issues, comments>>
         /\ job[l].at = "check" /\ job'[l].at = "comment" /\ job'[l].told[1] = "check"
         /\ LET mine == [n |-> job[l].n, green |-> Conclusion(job[l].report, job[l].code)] IN
            \/ checks' = [checks EXCEPT ![l] = mine]
            \/ job'[l].told[2] # "created" /\ checks' = checks
<1>1. UNCHANGED <<reviews, issues, comments>> /\ job[l].at = "check"
  BY DEF CreateCheckRun
<1>2. CASE Says(l, "check", "skipped", "comment") /\ checks' = checks
  BY <1>1, <1>2, SaysJob DEF Tells
<1>3. ASSUME NEW o \in Outcomes, Says(l, "check", Told(o, "created"), "comment"),
             checks' = IF Took(o)
                       THEN [checks EXCEPT ![l] = [n |-> job[l].n, green |-> Conclusion(job[l].report, job[l].code)]]
                       ELSE checks
      PROVE  /\ Shape' /\ Others(l) /\ Same(l) /\ job'[l].at = "comment" /\ job'[l].told[1] = "check"
             /\ LET mine == [n |-> job[l].n, green |-> Conclusion(job[l].report, job[l].code)] IN
                \/ checks' = [checks EXCEPT ![l] = mine]
                \/ job'[l].told[2] # "created" /\ checks' = checks
  <2>1. o = "lost" => Told(o, "created") = "error"
    BY DEF Told
  <2> QED BY <1>3, <2>1, SaysJob DEF Tells, Took
<1>4. \/ Says(l, "check", "skipped", "comment") /\ checks' = checks
      \/ \E o \in Outcomes :
            /\ Says(l, "check", Told(o, "created"), "comment")
            /\ checks' = IF Took(o)
                         THEN [checks EXCEPT ![l] = [n |-> job[l].n, green |-> Conclusion(job[l].report, job[l].code)]]
                         ELSE checks
  BY DEF CreateCheckRun
<1> QED BY <1>1, <1>2, <1>3, <1>4

\* A comment is edited, added, or neither.
LEMMA CommentStep ==
  ASSUME Shape, NEW l \in Lanes, EditComment(l) \/ NewComment(l)
  PROVE  /\ Shape' /\ Others(l) /\ Same(l) /\ UNCHANGED <<reviews, issues, checks>>
         /\ job[l].at \in {"edit comment", "new comment"}
         /\ job'[l].at = "webhook" /\ job'[l].told[1] = "comment"
         /\ \/ comments' = comments /\ job'[l].told[2] = "error"
            \/ \E d : /\ d.lane = l /\ d.shows = job[l].n
                      /\ \/ job[l].at = "new comment" /\ comments' = comments \cup {d}
                         \/ \E c \in Mine(l) : comments' = (comments \ {c}) \cup {d}
<1>1. CASE EditComment(l)
  <2>1. PICK o \in Outcomes, c \in Mine(l) :
          /\ Says(l, "comment", Told(o, "updated"), "webhook")
          /\ comments' = IF Took(o) THEN (comments \ {c}) \cup {[Body(l) EXCEPT !.by = c.by, !.near = TRUE]}
                         ELSE comments
    BY <1>1 DEF EditComment
  <2>2. /\ [Body(l) EXCEPT !.by = c.by, !.near = TRUE].lane = l
        /\ [Body(l) EXCEPT !.by = c.by, !.near = TRUE].shows = job[l].n
    BY DEF Body
  <2>3. UNCHANGED <<reviews, issues, checks>> /\ job[l].at = "edit comment"
    BY <1>1 DEF EditComment
  <2>4. o = "lost" => Told(o, "updated") = "error"
    BY DEF Told
  <2>5. Shape' /\ Others(l) /\ Same(l) /\ Tells(l, "comment", Told(o, "updated")) /\ job'[l].at = "webhook"
    BY <2>1, SaysJob
  <2>6. CASE o = "lost"
    BY <2>1, <2>3, <2>4, <2>5, <2>6 DEF Tells, Took
  <2>7. CASE o # "lost"
    BY <2>1, <2>2, <2>3, <2>5, <2>7 DEF Tells, Took
  <2> QED BY <2>6, <2>7
<1>2. CASE NewComment(l)
  <2>1. PICK o \in Outcomes :
          /\ Says(l, "comment", Told(o, "created"), "webhook")
          /\ comments' = IF Took(o) THEN comments \cup {Body(l)} ELSE comments
    BY <1>2 DEF NewComment
  <2>2. Body(l).lane = l /\ Body(l).shows = job[l].n
    BY DEF Body
  <2>3. UNCHANGED <<reviews, issues, checks>> /\ job[l].at = "new comment"
    BY <1>2 DEF NewComment
  <2>4. o = "lost" => Told(o, "created") = "error"
    BY DEF Told
  <2>5. Shape' /\ Others(l) /\ Same(l) /\ Tells(l, "comment", Told(o, "created")) /\ job'[l].at = "webhook"
    BY <2>1, SaysJob
  <2>6. CASE o = "lost"
    BY <2>1, <2>3, <2>4, <2>5, <2>6 DEF Tells, Took
  <2>7. CASE o # "lost"
    BY <2>1, <2>2, <2>3, <2>5, <2>7 DEF Tells, Took
  <2> QED BY <2>6, <2>7
<1> QED BY <1>1, <1>2

\* A job that is over, or cancelled, leaves what it posted.
LEMMA LeaveStep ==
  ASSUME Shape, NEW l \in Lanes, Enforce(l) \/ Lost(l)
  PROVE  /\ Shape' /\ Others(l) /\ Stays(l) /\ Tells(l, "nothing", "none") /\ job'[l].at = "idle"
         /\ job'[l].n = job[l].n /\ job'[l].report = "none" /\ job'[l].code = "none"
BY LeavesJob DEF Enforce, Lost, Stays
-----------------------------------------------------------------------------
\* A lane has at most one review of a key where it is read, none while it is about to post
\* one; what it tells to be there is.
PostOf(kind)        == IF kind = "refine" THEN "post refine" ELSE "post review"
KeyOf(kind, found)  == <<kind, IF kind = "refine" THEN {} ELSE found>>
Kinds               == {"refine", "review"}

ReviewsOfLanes == \A r \in reviews : r.by[1] \in Lanes
OneReview      == \A r, s \in reviews : r.near /\ s.near /\ r.key = s.key /\ r.by[1] = s.by[1] => r = s
PostIsNew      == \A l \in Lanes, kind \in Kinds : job[l].at = PostOf(kind) =>
                    \A r \in reviews : r.near /\ r.key = KeyOf(kind, job[l].findings) => r.by[1] # l
ToldReviews    == \A l \in Lanes, kind \in Kinds :
                    job[l].told[1] = kind /\ job[l].told[2] \in {"created", "there"} =>
                      \E r \in reviews : r.key = KeyOf(kind, job[l].findings)
ReviewInv == ReviewsOfLanes /\ OneReview /\ PostIsNew /\ ToldReviews

\* The author of a post is a lane, in one of its attempts.
LEMMA ByLane == ASSUME NEW l PROVE By(l)[1] = l /\ By(l)[2] = job[l].n
BY DEF By

\* The key of a post says what it is about.
LEMMA KeyIs == ASSUME NEW l, NEW kind PROVE Key(l, kind) = KeyOf(kind, job[l].findings)
BY DEF Key, KeyOf

\* No lane is about to post what it could read as posted by itself.
LEMMA NotMine ==
  ASSUME ReviewInv, NEW m \in Lanes, NEW k \in Kinds, NEW r \in reviews, job[m].at = PostOf(k),
         r.near, r.key = KeyOf(k, job[m].findings)
  PROVE  r.by[1] # m
<1>1. PostIsNew
  BY DEF ReviewInv
<1> QED BY Zenon, <1>1 DEF PostIsNew

\* A step that neither posts nor searches reviews.
LEMMA ReviewsAlone ==
  ASSUME ReviewInv, NEW l \in Lanes, Others(l), reviews' = reviews,
         job'[l].at \notin {"post refine", "post review"},
         \/ job'[l].told[1] \notin Kinds
         \/ job'[l].told = job[l].told /\ job'[l].findings = job[l].findings
  PROVE  ReviewInv'
<1>1. ReviewsOfLanes' /\ OneReview'
  BY DEF ReviewInv, ReviewsOfLanes, OneReview
<1>2. PostIsNew'
  <2> SUFFICES ASSUME NEW m \in Lanes, NEW k \in Kinds, job'[m].at = PostOf(k),
                      NEW r \in reviews, r.near, r.key = KeyOf(k, job'[m].findings)
               PROVE  r.by[1] # m
    BY DEF PostIsNew
  <2>1. m # l
    BY DEF PostOf
  <2>2. job'[m] = job[m]
    BY <2>1 DEF Others
  <2> QED BY <2>2, NotMine
<1>3. ToldReviews'
  BY ZenonT(40) DEF ReviewInv, ToldReviews, Others
<1> QED BY <1>1, <1>2, <1>3 DEF ReviewInv

\* A search sees to it that what is posted after it is new.
LEMMA SearchReviews ==
  ASSUME ReviewInv, NEW l \in Lanes, NEW kind \in Kinds,
         Others(l), Quiet(l), reviews' = reviews,
         \/ /\ job'[l].at \notin {"post refine", "post review"}
            /\ \/ Tells(l, kind, "skipped") \/ Tells(l, kind, "error")
               \/ Tells(l, kind, "there") /\ Shown(Key(l, kind))
         \/ job'[l].at = PostOf(kind) /\ Tells(l, "nothing", "none") /\ ~Shown(Key(l, kind))
  PROVE  ReviewInv'
<1>1. ReviewsOfLanes' /\ OneReview'
  BY DEF ReviewInv, ReviewsOfLanes, OneReview
<1>2. job'[l].findings = job[l].findings
  BY DEF Quiet, Same
<1>3. PostIsNew'
  <2> SUFFICES ASSUME NEW m \in Lanes, NEW k \in Kinds, job'[m].at = PostOf(k),
                      NEW r \in reviews, r.near, r.key = KeyOf(k, job'[m].findings)
               PROVE  r.by[1] # m
    BY DEF PostIsNew
  <2>1. CASE m # l
    <3>1. job'[m] = job[m]
      BY <2>1 DEF Others
    <3> QED BY <3>1, NotMine
  <2>2. CASE m = l
    <3>1. k = kind /\ ~Shown(Key(l, kind))
      BY <2>2 DEF PostOf, Kinds
    <3> QED BY <1>2, <2>2, <3>1, KeyIs DEF Shown
  <2> QED BY <2>1, <2>2
<1>4. ToldReviews'
  <2> SUFFICES ASSUME NEW m \in Lanes, NEW k \in Kinds, job'[m].told[1] = k,
                      job'[m].told[2] \in {"created", "there"}
               PROVE  \E r \in reviews : r.key = KeyOf(k, job'[m].findings)
    BY DEF ToldReviews
  <2>1. CASE m # l
    BY <2>1 DEF Others, ReviewInv, ToldReviews
  <2>2. CASE m = l
    <3>1. k = kind /\ Shown(Key(l, kind))
      BY <2>2 DEF Tells, Kinds
    <3> QED BY <1>2, <2>2, <3>1, KeyIs DEF Shown
  <2> QED BY <2>1, <2>2
<1> QED BY <1>1, <1>3, <1>4 DEF ReviewInv

\* A post is one more of its lane, and the only one with its key.
LEMMA PostReviews ==
  ASSUME ReviewInv, NEW l \in Lanes, NEW kind \in Kinds, NEW mine,
         Others(l), Quiet(l), job[l].at = PostOf(kind),
         job'[l].at \notin {"post refine", "post review"},
         mine.key = Key(l, kind), mine.by = By(l),
         \/ Tells(l, kind, "created") /\ reviews' = reviews \cup {mine}
         \/ Tells(l, kind, "error") /\ reviews' \in {reviews, reviews \cup {mine}}
  PROVE  ReviewInv'
<1>1. mine.by[1] = l /\ mine.key = KeyOf(kind, job[l].findings)
  BY ByLane, KeyIs
<1>2. job'[l].findings = job[l].findings
  BY DEF Quiet, Same
<1>3. ReviewsOfLanes'
  BY <1>1 DEF ReviewInv, ReviewsOfLanes
<1>4. OneReview'
  <2>1. \A r \in reviews : r.near /\ r.key = mine.key => r.by[1] # mine.by[1]
    BY <1>1 DEF ReviewInv, PostIsNew
  <2> QED BY <2>1 DEF ReviewInv, OneReview
<1>5. PostIsNew'
  <2> SUFFICES ASSUME NEW m \in Lanes, NEW k \in Kinds, job'[m].at = PostOf(k),
                      NEW r \in reviews', r.near, r.key = KeyOf(k, job'[m].findings)
               PROVE  r.by[1] # m
    BY DEF PostIsNew
  <2>1. m # l
    BY DEF PostOf
  <2>2. job'[m] = job[m]
    BY <2>1 DEF Others
  <2> QED BY <1>1, <2>1, <2>2, NotMine, ZenonT(40)
<1>6. ToldReviews'
  <2> SUFFICES ASSUME NEW m \in Lanes, NEW k \in Kinds, job'[m].told[1] = k,
                      job'[m].told[2] \in {"created", "there"}
               PROVE  \E r \in reviews' : r.key = KeyOf(k, job'[m].findings)
    BY DEF ToldReviews
  <2>1. CASE m # l
    BY <2>1, ZenonT(40) DEF Others, ReviewInv, ToldReviews
  <2>2. CASE m = l
    BY <1>1, <1>2, <2>2 DEF Tells
  <2> QED BY <2>1, <2>2
<1> QED BY <1>3, <1>4, <1>5, <1>6 DEF ReviewInv

\* All other steps leave the reviews alone.
LEMMA ReviewStep == ASSUME Shape, ReviewInv, NEW l \in Lanes, Attempt(l) PROVE ReviewInv'
<1>1. CASE SearchRefine(l) \/ SearchReview(l)
  <2>1. PICK kind \in Kinds, idle \in BOOLEAN, next \in {"gate", "jira"} :
          Search(l, kind, idle, PostOf(kind), next)
    <3>1. CASE SearchRefine(l)
      <4>1. PICK idle \in BOOLEAN : Search(l, "refine", idle, "post refine", "gate")
        BY <3>1 DEF SearchRefine
      <4> QED BY <4>1 DEF PostOf, Kinds
    <3>2. CASE SearchReview(l)
      <4>1. PICK idle \in BOOLEAN : Search(l, "review", idle, "post review", "jira")
        BY <3>2 DEF SearchReview
      <4> QED BY <4>1 DEF PostOf, Kinds
    <3> QED BY <1>1, <3>1, <3>2
  <2>2. /\ Others(l) /\ Quiet(l) /\ Stays(l)
        /\ \/ job'[l].at = next /\ Tells(l, kind, "skipped")
           \/ job'[l].at = next /\ Tells(l, kind, "error")
           \/ job'[l].at = next /\ Tells(l, kind, "there") /\ Shown(Key(l, kind))
           \/ job'[l].at = PostOf(kind) /\ Tells(l, "nothing", "none") /\ ~Shown(Key(l, kind))
    BY <2>1, SearchStep
  <2>3. next \notin {"post refine", "post review"} /\ reviews' = reviews
    BY <2>2 DEF Stays
  <2> QED BY <2>2, <2>3, SearchReviews
<1>2. CASE PostRefine(l) \/ PostReview(l)
  <2>1. PICK kind \in Kinds, next \in {"gate", "jira"} : Post(l, kind, PostOf(kind), next)
    BY <1>2 DEF PostRefine, PostReview, PostOf, Kinds
  <2> DEFINE mine == [key |-> Key(l, kind), by |-> By(l), near |-> ~crowded]
  <2>2. mine.key = Key(l, kind) /\ mine.by = By(l)
    OBVIOUS
  <2>3. /\ Others(l) /\ Quiet(l) /\ job[l].at = PostOf(kind) /\ job'[l].at = next
        /\ \/ Tells(l, kind, "created") /\ reviews' = reviews \cup {mine}
           \/ Tells(l, kind, "error") /\ reviews' \in {reviews, reviews \cup {mine}}
    BY <2>1, PostStep
  <2> HIDE DEF mine
  <2> QED BY <2>2, <2>3, PostReviews
<1>3. ASSUME reviews' = reviews, Others(l), job'[l].at \notin {"post refine", "post review"},
             \/ job'[l].told[1] \notin Kinds
             \/ job'[l].told = job[l].told /\ job'[l].findings = job[l].findings
      PROVE  ReviewInv'
  BY <1>3, ReviewsAlone
<1>4. CASE Start(l) \/ Gate(l)
  BY <1>3, <1>4, StartJob, GateJob DEF Start, Gate, Tells, Kinds
<1>5. CASE SearchIssues(l)
  BY <1>3, <1>5, SearchIssuesStep DEF Stays, Same, Tells, Kinds
<1>6. CASE CreateIssue(l)
  BY <1>3, <1>6, CreateIssueStep DEF Same, Tells, Kinds
<1>7. CASE Push(l) \/ ListComments(l) \/ Webhook(l)
  BY <1>3, <1>7, MuteStep DEF Stays, Kinds
<1>8. CASE CreateCheckRun(l)
  BY <1>3, <1>8, CheckStep DEF Kinds
<1>9. CASE EditComment(l) \/ NewComment(l)
  BY <1>3, <1>9, CommentStep DEF Kinds
<1>10. CASE Enforce(l) \/ Lost(l)
  BY <1>3, <1>10, LeaveStep DEF Stays, Tells, Kinds
<1> QED BY <1>1, <1>2, <1>4, <1>5, <1>6, <1>7, <1>8, <1>9, <1>10 DEF Attempt
-----------------------------------------------------------------------------
\* A lane has at most one ticket of a label, none for what is still on its list, and its
\* attempt not more than the limit; what the list misses is there.
MadeBy(b)  == {i \in issues : i.by = b}
LowOf(found) == found \cap Low

IssuesOfLanes == \A i \in issues : /\ i.by[1] \in Lanes
                                   /\ i.by[2] \in Nat /\ i.by[2] <= job[i.by[1]].n
Numbered      == \A l \in Lanes : job[l].n \in Nat
OneIssue      == \A i, j \in issues : i.label = j.label /\ i.by[1] = j.by[1] => i = j
TodoIsNew     == \A l \in Lanes : job[l].at = "tickets" =>
                   \A i \in issues : i.label \in job[l].todo => i.by[1] # l
FewCreated    == /\ IsFiniteSet(issues)
                 /\ \A l \in Lanes : Cardinality(MadeBy(<<l, job[l].n>>)) <= MaxNew
ListIsWhole   == \A l \in Lanes : job[l].at = "tickets" =>
                   LowOf(job[l].findings) \subseteq Labelled \cup job[l].todo
ToldJira      == \A l \in Lanes : job[l].told[1] = "jira" /\ job[l].told[2] = "ok" =>
                   \/ LowOf(job[l].findings) \subseteq Labelled
                   \/ Cardinality(MadeBy(<<l, job[l].n>>)) = MaxNew
IssueInv == IssuesOfLanes /\ Numbered /\ OneIssue /\ TodoIsNew /\ FewCreated /\ ListIsWhole /\ ToldJira

\* The issues of an attempt can be counted.
LEMMA MadeIs ==
  ASSUME FewCreated, NEW b
  PROVE  IsFiniteSet(MadeBy(b)) /\ Cardinality(MadeBy(b)) \in Nat
<1>1. IsFiniteSet(issues) /\ MadeBy(b) \subseteq issues
  BY DEF FewCreated, MadeBy
<1> QED BY <1>1, FS_Subset, FS_CardinalityType

\* Steps without a new ticket.
LEMMA IssuesAlone ==
  ASSUME IssueInv, NEW l \in Lanes, Others(l), issues' = issues,
         job'[l].n = job[l].n \/ job'[l].n = job[l].n + 1,
         job'[l].at # "tickets" \/ job'[l].todo = LowOf(job'[l].findings) \ Labelled,
         \/ ~(job'[l].told[1] = "jira" /\ job'[l].told[2] = "ok")
         \/ job'[l].told = job[l].told /\ Same(l)
         \/ /\ Same(l)
            /\ \/ LowOf(job[l].findings) \subseteq Labelled
               \/ Cardinality(MadeBy(<<l, job[l].n>>)) = MaxNew
  PROVE  IssueInv'
<1>1. IssuesOfLanes' /\ Numbered'
  BY DEF IssueInv, IssuesOfLanes, Numbered, Others
<1>2. OneIssue'
  BY DEF IssueInv, OneIssue
<1>3. \A b : MadeBy(b)' = MadeBy(b)
  BY DEF MadeBy
<1>4. Labelled' = Labelled
  BY DEF Labelled
<1>5. TodoIsNew'
  BY DEF IssueInv, TodoIsNew, Others, Labelled
<1>6. FewCreated'
  <2> SUFFICES ASSUME NEW m \in Lanes PROVE Cardinality(MadeBy(<<m, job'[m].n>>)) <= MaxNew
    BY <1>3 DEF FewCreated, IssueInv
  <2>1. CASE job'[m].n = job[m].n
    BY <2>1 DEF IssueInv, FewCreated
  <2>2. CASE m = l /\ job'[l].n = job[l].n + 1
    <3>1. <<l, job[l].n + 1>>[1] = l /\ <<l, job[l].n + 1>>[2] = job[l].n + 1
      OBVIOUS
    <3>2. \A i \in issues : i.by # <<l, job[l].n + 1>>
      BY <3>1 DEF IssueInv, IssuesOfLanes, Numbered
    <3>3. MadeBy(<<l, job[l].n + 1>>) = {}
      BY <3>2 DEF MadeBy
    <3>4. Cardinality(MadeBy(<<l, job[l].n + 1>>)) = 0 /\ 0 <= MaxNew
      <4>1. MaxNew \in Nat
        BY CiAssumption
      <4> QED BY <3>3, <4>1, FS_EmptySet
    <3> QED BY <2>2, <3>4
  <2> QED BY <2>1, <2>2 DEF Others
<1>7. ListIsWhole'
  BY <1>4 DEF IssueInv, ListIsWhole, Others
<1>8. ToldJira'
  <2> SUFFICES ASSUME NEW m \in Lanes, job'[m].told[1] = "jira", job'[m].told[2] = "ok"
               PROVE  \/ LowOf(job'[m].findings) \subseteq Labelled
                      \/ Cardinality(MadeBy(<<m, job'[m].n>>)) = MaxNew
    BY <1>3, <1>4 DEF ToldJira
  <2>1. CASE m # l \/ (job'[l].told = job[l].told /\ Same(l))
    BY <2>1 DEF IssueInv, ToldJira, Others, Same
  <2>2. CASE m = l /\ ~(job'[l].told = job[l].told /\ Same(l))
    BY <2>2 DEF Same
  <2> QED BY <2>1, <2>2
<1> QED BY <1>1, <1>2, <1>5, <1>6, <1>7, <1>8 DEF IssueInv

\* A ticket is created, or may have been.
LEMMA IssueCreated ==
  ASSUME IssueInv, NEW l \in Lanes, Others(l), Same(l), job[l].at = "tickets",
         NEW label \in job[l].todo, NEW mine, mine.label = label, mine.by = By(l),
         issues' = issues \cup {mine},
         Cardinality(MadeBy(<<l, job[l].n>>)) < MaxNew,
         \/ job'[l].at = "history" /\ Tells(l, "jira", "error")
         \/ /\ job'[l].at = "tickets" /\ job'[l].todo = job[l].todo \ {label}
            /\ Tells(l, "nothing", "none") \/ job'[l].told = job[l].told
  PROVE  IssueInv'
<1>1. mine.by[1] = l /\ mine.by[2] = job[l].n /\ mine.by = <<l, job[l].n>>
  BY ByLane DEF By
<1>2. \A m \in Lanes : job'[m].n = job[m].n /\ job'[m].findings = job[m].findings
  BY DEF Others, Same
<1>3. IssuesOfLanes' /\ Numbered'
  BY <1>1, <1>2 DEF IssueInv, IssuesOfLanes, Numbered
<1>4. \A i \in issues : i.label = label => i.by[1] # l
  BY DEF IssueInv, TodoIsNew
<1>5. OneIssue'
  BY <1>1, <1>4 DEF IssueInv, OneIssue
<1>6. TodoIsNew'
  <2> SUFFICES ASSUME NEW m \in Lanes, job'[m].at = "tickets", NEW i \in issues', i.label \in job'[m].todo
               PROVE  i.by[1] # m
    BY DEF TodoIsNew
  <2>1. CASE m # l
    BY <1>1, <2>1 DEF Others, IssueInv, TodoIsNew
  <2>2. CASE m = l
    <3>1. i \in issues /\ i.label \in job[l].todo
      BY <2>2
    <3> QED BY <2>2, <3>1 DEF IssueInv, TodoIsNew
  <2> QED BY <2>1, <2>2
<1>7. \A m \in Lanes : m # l => MadeBy(<<m, job[m].n>>)' = MadeBy(<<m, job[m].n>>)
  <2>1. \A m \in Lanes : <<m, job[m].n>>[1] = m
    OBVIOUS
  <2>2. \A m \in Lanes : m # l => mine.by # <<m, job[m].n>>
    BY <1>1, <2>1
  <2> QED BY <1>2, <2>2 DEF MadeBy
<1>8. MadeBy(<<l, job[l].n>>)' = MadeBy(<<l, job[l].n>>) \cup {mine}
  BY <1>1, <1>2 DEF MadeBy
<1>9. FewCreated'
  <2>1. IsFiniteSet(issues')
    BY FS_AddElement DEF IssueInv, FewCreated
  <2>2. FewCreated
    BY DEF IssueInv
  <2>3. Cardinality(MadeBy(<<l, job[l].n>>) \cup {mine}) <= MaxNew
    <3>1. /\ IsFiniteSet(MadeBy(<<l, job[l].n>>))
          /\ Cardinality(MadeBy(<<l, job[l].n>>)) \in Nat
      BY <2>2, MadeIs
    <3>2. Cardinality(MadeBy(<<l, job[l].n>>) \cup {mine})
            \in {Cardinality(MadeBy(<<l, job[l].n>>)), Cardinality(MadeBy(<<l, job[l].n>>)) + 1}
      BY <3>1, FS_AddElement
    <3> QED BY <3>1, <3>2, CiAssumption
  <2>4. \A m \in Lanes : Cardinality(MadeBy(<<m, job[m].n>>)') <= MaxNew
    BY <1>7, <1>8, <2>2, <2>3 DEF FewCreated
  <2> QED BY <2>1, <2>4 DEF FewCreated
<1>10. Labelled \subseteq Labelled' /\ label \in Labelled'
  BY DEF Labelled
<1>11. ListIsWhole'
  <2> SUFFICES ASSUME NEW m \in Lanes, job'[m].at = "tickets"
               PROVE  LowOf(job'[m].findings) \subseteq Labelled' \cup job'[m].todo
    BY DEF ListIsWhole
  <2>1. CASE m # l
    BY <1>10, <2>1 DEF Others, IssueInv, ListIsWhole
  <2>2. CASE m = l
    BY <1>2, <1>10, <2>2 DEF IssueInv, ListIsWhole
  <2> QED BY <2>1, <2>2
<1>12. ToldJira'
  <2> SUFFICES ASSUME NEW m \in Lanes, job'[m].told[1] = "jira", job'[m].told[2] = "ok"
               PROVE  \/ LowOf(job'[m].findings) \subseteq Labelled'
                      \/ Cardinality(MadeBy(<<m, job[m].n>>)') = MaxNew
    BY DEF ToldJira
  <2>1. CASE m # l
    BY <1>7, <1>10, <2>1 DEF Others, IssueInv, ToldJira
  <2>2. CASE m = l
    <3>1. job'[l].told = job[l].told
      BY <2>2 DEF Tells
    <3>2. LowOf(job[l].findings) \subseteq Labelled
      <4>1. \/ LowOf(job[l].findings) \subseteq Labelled
            \/ Cardinality(MadeBy(<<l, job[l].n>>)) = MaxNew
        BY <2>2, <3>1 DEF IssueInv, ToldJira
      <4>2. MaxNew \in Nat
        BY CiAssumption
      <4> QED BY <4>1, <4>2
    <3> QED BY <1>2, <1>10, <2>2, <3>2
  <2> QED BY <2>1, <2>2
<1> QED BY <1>3, <1>5, <1>6, <1>9, <1>11, <1>12 DEF IssueInv

\* Only the creation of an issue changes what is told of them.
LEMMA IssueStep == ASSUME Shape, IssueInv, NEW l \in Lanes, Attempt(l) PROVE IssueInv'
<1>1. ASSUME issues' = issues, Others(l), job'[l].n = job[l].n \/ job'[l].n = job[l].n + 1,
             job'[l].at # "tickets", job'[l].told[1] # "jira" \/ job'[l].told[2] # "ok"
      PROVE  IssueInv'
  BY <1>1, IssuesAlone
<1>2. CASE SearchRefine(l) \/ SearchReview(l)
  BY <1>1, <1>2, SearchSteps DEF Quiet, Same, Stays, Early
<1>3. CASE PostRefine(l) \/ PostReview(l)
  BY <1>1, <1>3, PostSteps DEF Quiet, Same
<1>4. CASE Start(l) \/ Gate(l)
  BY <1>1, <1>4, StartJob, GateJob DEF Start, Gate, Tells
<1>5. CASE SearchIssues(l)
  <2>1. Others(l) /\ Same(l) /\ issues' = issues
    BY <1>5, SearchIssuesStep DEF Stays
  <2>2. CASE job'[l].at = "history" /\ (Tells(l, "jira", "error") \/ Tells(l, "jira", "skipped"))
    BY <1>1, <2>1, <2>2 DEF Same, Tells
  <2>3. CASE /\ job'[l].at = "tickets" /\ job'[l].todo = Lows(l) \ Labelled
             /\ (Tells(l, "nothing", "none") \/ job'[l].told = job[l].told)
    <3>1. job'[l].todo = LowOf(job'[l].findings) \ Labelled /\ job'[l].n = job[l].n
      BY <2>1, <2>3 DEF Same, Lows, LowOf
    <3>2. ~(job'[l].told[1] = "jira" /\ job'[l].told[2] = "ok") \/ job'[l].told = job[l].told
      BY <2>3 DEF Tells
    <3> QED BY <2>1, <3>1, <3>2, IssuesAlone
  <2> QED BY <1>5, <2>2, <2>3, SearchIssuesStep
<1>6. CASE CreateIssue(l)
  <2>1. Created(l) = Cardinality(MadeBy(<<l, job[l].n>>))
    BY DEF Created, MadeBy, By
  <2>2. Others(l) /\ Same(l) /\ job[l].at = "tickets"
    BY <1>6, CreateIssueStep
  <2>3. CASE /\ job[l].todo = {} \/ Created(l) >= MaxNew
             /\ job'[l].at = "history" /\ Tells(l, "jira", "ok") /\ issues' = issues
    <3>1. /\ LowOf(job[l].findings) \subseteq Labelled \cup job[l].todo
          /\ Cardinality(MadeBy(<<l, job[l].n>>)) <= MaxNew
          /\ Cardinality(MadeBy(<<l, job[l].n>>)) \in Nat
      BY <2>2, MadeIs DEF IssueInv, ListIsWhole, FewCreated
    <3>2. \/ LowOf(job[l].findings) \subseteq Labelled
          \/ Cardinality(MadeBy(<<l, job[l].n>>)) = MaxNew
      BY <2>1, <2>3, <3>1, CiAssumption
    <3>3. job'[l].n = job[l].n /\ job'[l].at # "tickets"
      BY <2>2, <2>3 DEF Same
    <3> QED BY <2>2, <2>3, <3>2, <3>3, IssuesAlone
  <2>4. ASSUME Created(l) < MaxNew, NEW label \in job[l].todo, NEW mine,
               mine = [label |-> label, by |-> By(l)],
               \/ /\ issues' = issues \cup {mine}
                  /\ job'[l].at = "tickets" /\ job'[l].todo = job[l].todo \ {label}
                  /\ (Tells(l, "nothing", "none") \/ job'[l].told = job[l].told)
               \/ /\ issues' \in {issues, issues \cup {mine}}
                  /\ job'[l].at = "history" /\ Tells(l, "jira", "error")
        PROVE  IssueInv'
    <3>1. mine.label = label /\ mine.by = By(l)
      BY <2>4
    <3>2. CASE issues' = issues \cup {mine}
      BY <2>1, <2>2, <2>4, <3>1, <3>2, IssueCreated
    <3>3. CASE issues' = issues /\ job'[l].at = "history" /\ Tells(l, "jira", "error")
      BY <1>1, <2>2, <3>3 DEF Same, Tells
    <3> QED BY <2>4, <3>2, <3>3
  <2> QED BY <1>6, <2>3, <2>4, CreateIssueStep
<1>7. CASE Push(l) \/ ListComments(l) \/ Webhook(l)
  BY <1>1, <1>7, MuteStep DEF Stays, Same
<1>8. CASE CreateCheckRun(l)
  BY <1>1, <1>8, CheckStep DEF Same
<1>9. CASE EditComment(l) \/ NewComment(l)
  BY <1>1, <1>9, CommentStep DEF Same
<1>10. CASE Enforce(l) \/ Lost(l)
  BY <1>1, <1>10, LeaveStep DEF Stays, Tells
<1> QED BY <1>2, <1>3, <1>4, <1>5, <1>6, <1>7, <1>8, <1>9, <1>10 DEF Attempt
-----------------------------------------------------------------------------
\* A lane has one comment where it is read, and what it tells to show is shown.
OneComment  == \A c, d \in comments : c.lane = d.lane /\ c.near /\ d.near => c = d
NewIsFirst  == \A l \in Lanes : job[l].at = "new comment" => Mine(l) = {}
ToldComment == \A l \in Lanes : job[l].told[1] = "comment" /\ job[l].told[2] \notin {"skipped", "error"} =>
                 \E c \in comments : c.lane = l /\ c.shows = job[l].n
CommentInv == OneComment /\ NewIsFirst /\ ToldComment

\* What does not touch the comments keeps what is said of them.
LEMMA CommentsAlone ==
  ASSUME CommentInv, NEW l \in Lanes, Others(l), comments' = comments,
         job'[l].at = "new comment" => Mine(l) = {},
         \/ job'[l].told[1] # "comment" \/ job'[l].told[2] \in {"skipped", "error"}
         \/ job'[l].told = job[l].told /\ job'[l].n = job[l].n
  PROVE  CommentInv'
<1>1. OneComment'
  BY DEF CommentInv, OneComment
<1>2. NewIsFirst'
  BY DEF CommentInv, NewIsFirst, Mine, Others
<1>3. ToldComment'
  <2> SUFFICES ASSUME NEW m \in Lanes, job'[m].told[1] = "comment", job'[m].told[2] \notin {"skipped", "error"}
               PROVE  \E c \in comments : c.lane = m /\ c.shows = job'[m].n
    BY DEF ToldComment
  <2>1. job'[m].told = job[m].told /\ job'[m].n = job[m].n
    BY DEF Others
  <2> QED BY <2>1, ZenonT(40) DEF CommentInv, ToldComment
<1> QED BY <1>1, <1>2, <1>3 DEF CommentInv

\* A comment is added only by a lane that has none.
LEMMA CommentsStep == ASSUME Shape, CommentInv, NEW l \in Lanes, Attempt(l) PROVE CommentInv'
<1>1. ASSUME comments' = comments, Others(l), job'[l].at = "new comment" => Mine(l) = {},
             \/ job'[l].told[1] # "comment" \/ job'[l].told[2] \in {"skipped", "error"}
             \/ job'[l].told = job[l].told /\ job'[l].n = job[l].n
      PROVE  CommentInv'
  BY <1>1, CommentsAlone
<1>2. CASE SearchRefine(l) \/ SearchReview(l)
  BY <1>1, <1>2, SearchSteps DEF Quiet, Same, Stays, Early
<1>3. CASE PostRefine(l) \/ PostReview(l)
  BY <1>1, <1>3, PostSteps DEF Quiet, Same
<1>4. CASE Start(l) \/ Gate(l)
  BY <1>1, <1>4, StartJob, GateJob DEF Start, Gate, Tells
<1>5. CASE SearchIssues(l)
  BY <1>1, <1>5, SearchIssuesStep DEF Stays, Same, Tells
<1>6. CASE CreateIssue(l)
  BY <1>1, <1>6, CreateIssueStep DEF Same, Tells
<1>7. CASE Push(l) \/ ListComments(l) \/ Webhook(l)
  BY <1>1, <1>7, MuteStep DEF Stays
<1>8. CASE CreateCheckRun(l)
  BY <1>1, <1>8, CheckStep
<1>9. CASE EditComment(l) \/ NewComment(l)
  <2>1. /\ Others(l) /\ Same(l) /\ job[l].at \in {"edit comment", "new comment"}
        /\ job'[l].at = "webhook" /\ job'[l].told[1] = "comment"
    BY <1>9, CommentStep
  <2>2. CASE comments' = comments /\ job'[l].told[2] = "error"
    BY <1>1, <2>1, <2>2
  <2>3. ASSUME NEW d, d.lane = l, d.shows = job[l].n,
               \/ job[l].at = "new comment" /\ comments' = comments \cup {d}
               \/ \E c \in Mine(l) : comments' = (comments \ {c}) \cup {d}
        PROVE  CommentInv'
    <3>1. OneComment'
      BY <2>3 DEF CommentInv, OneComment, NewIsFirst, Mine
    <3>2. \A m \in Lanes : m # l => Mine(m)' = Mine(m)
      BY <2>3 DEF Mine
    <3>3. NewIsFirst'
      BY <2>1, <3>2 DEF CommentInv, NewIsFirst, Others
    <3>4. ToldComment'
      <4> SUFFICES ASSUME NEW m \in Lanes, job'[m].told[1] = "comment", job'[m].told[2] \notin {"skipped", "error"}
                   PROVE  \E c \in comments' : c.lane = m /\ c.shows = job'[m].n
        BY DEF ToldComment
      <4>1. CASE m # l
        <5>1. PICK c \in comments : c.lane = m /\ c.shows = job[m].n
          BY <2>1, <4>1 DEF Others, CommentInv, ToldComment
        <5>2. c \in comments'
          BY <2>3, <4>1, <5>1 DEF Mine
        <5> QED BY <2>1, <4>1, <5>1, <5>2 DEF Others
      <4>2. CASE m = l
        BY <2>1, <2>3, <4>2 DEF Same
      <4> QED BY <4>1, <4>2
    <3> QED BY <3>1, <3>3, <3>4 DEF CommentInv
  <2> QED BY <1>9, <2>2, <2>3, CommentStep
<1>10. CASE Enforce(l) \/ Lost(l)
  BY <1>1, <1>10, LeaveStep DEF Stays, Tells
<1> QED BY <1>2, <1>3, <1>4, <1>5, <1>6, <1>7, <1>8, <1>9, <1>10 DEF Attempt
-----------------------------------------------------------------------------
\* A Check Run is of an attempt that came to it, and of its verdict.
Known(report, code) == report = "passed" => code # "1"

CheckShape  == /\ checks = [l \in Lanes |-> checks[l]]
               /\ \A l \in Lanes : /\ job[l].n \in Nat /\ checks[l].n \in Nat
                                   /\ checks[l].n <= job[l].n
NotYet      == \A l \in Lanes : job[l].at \in Early => checks[l].n # job[l].n
CodesFit    == \A l \in Lanes : Known(job[l].report, job[l].code)
ToldCheck   == \A l \in Lanes : job[l].told[1] = "check" /\ job[l].told[2] = "created" =>
                 checks[l].n = job[l].n
GreenIsOf   == \A l \in Lanes : job[l].at # "idle" /\ checks[l].n = job[l].n /\ checks[l].green =>
                 Conclusion(job[l].report, job[l].code)
CheckInv == CheckShape /\ NotYet /\ CodesFit /\ ToldCheck /\ GreenIsOf

\* What does not touch the Check Runs keeps what is said of them.
LEMMA ChecksAlone ==
  ASSUME CheckInv, NEW l \in Lanes, Others(l), checks' = checks,
         \/ /\ Same(l) /\ job[l].at # "idle"
            /\ job'[l].at \in Early => job[l].at \in Early
            /\ job'[l].told[1] # "check" \/ job'[l].told = job[l].told
         \/ /\ job'[l].n = job[l].n /\ job[l].at = "gate" /\ job'[l].at \notin Early
            /\ Known(job'[l].report, job'[l].code) /\ job'[l].told[1] # "check"
         \/ /\ \/ job'[l].n = job[l].n /\ job'[l].at = "idle"
               \/ job'[l].n = job[l].n + 1
            /\ job'[l].report = "none" /\ job'[l].told[1] # "check"
  PROVE  CheckInv'
<1>1. \A m \in Lanes : m = l \/ job'[m] = job[m]
  BY DEF Others
<1>2. CheckShape'
  BY <1>1 DEF CheckInv, CheckShape, Same
<1>3. \A m \in Lanes : job[m].n \in Nat /\ checks[m].n \in Nat /\ checks[m].n <= job[m].n
  BY DEF CheckInv, CheckShape
<1>4. CodesFit'
  BY <1>1 DEF CheckInv, CodesFit, Same, Known
<1>5. ToldCheck'
  BY <1>1 DEF CheckInv, ToldCheck, Same
<1>6. checks[l].n = job'[l].n => job'[l].n = job[l].n /\ job'[l].n # job[l].n + 1
  BY <1>3 DEF Same
<1>7. NotYet'
  <2> SUFFICES ASSUME NEW m \in Lanes, job'[m].at \in Early, checks[m].n = job'[m].n PROVE FALSE
    BY DEF NotYet
  <2>1. job[m].at \in Early /\ checks[m].n = job[m].n
    <3>1. CASE m = l
      <4>1. job'[l].n = job[l].n /\ job'[l].n # job[l].n + 1 /\ job'[l].at # "idle"
        BY <1>6, <3>1 DEF Early
      <4> QED BY <3>1, <4>1
    <3>2. CASE job'[m] = job[m]
      BY <3>2
    <3> QED BY <1>1, <3>1, <3>2
  <2> QED BY <2>1 DEF CheckInv, NotYet
<1>8. GreenIsOf'
  <2> SUFFICES ASSUME NEW m \in Lanes, job'[m].at # "idle", checks[m].n = job'[m].n, checks[m].green
               PROVE  Conclusion(job'[m].report, job'[m].code)
    BY DEF GreenIsOf
  <2>1. CASE job'[m] = job[m] \/ (m = l /\ Same(l) /\ job[l].at # "idle")
    BY <2>1 DEF CheckInv, GreenIsOf, Same
  <2>2. CASE m = l /\ job[l].at = "gate" /\ job'[l].n = job[l].n
    BY <2>2 DEF CheckInv, NotYet, Early
  <2>3. m = l => job'[l].n = job[l].n /\ job'[l].n # job[l].n + 1 /\ job'[l].at # "idle"
    BY <1>6
  <2> QED BY <1>1, <2>1, <2>2, <2>3
<1> QED BY <1>2, <1>4, <1>5, <1>7, <1>8 DEF CheckInv

\* A Check Run is written once per attempt, of what its gate has left.
LEMMA ChecksStep == ASSUME Shape, CheckInv, NEW l \in Lanes, Attempt(l) PROVE CheckInv'
<1>1. ASSUME checks' = checks, Others(l), Same(l), job[l].at # "idle",
             job'[l].at \in Early => job[l].at \in Early,
             job'[l].told[1] # "check" \/ job'[l].told = job[l].told
      PROVE  CheckInv'
  BY <1>1, ChecksAlone
<1>2. CASE SearchRefine(l) \/ SearchReview(l)
  BY <1>1, <1>2, SearchSteps DEF Quiet, Stays, Early
<1>3. CASE PostRefine(l) \/ PostReview(l)
  BY <1>1, <1>3, PostSteps DEF Quiet, Early
<1>4. CASE Start(l)
  BY <1>4, StartJob, ChecksAlone DEF Start, Tells
<1>5. CASE Gate(l)
  <2>1. PICK g \in Gates : job'[l].report = g.report /\ job'[l].code = g.code
    BY <1>5, GateJob
  <2>2. Known(job'[l].report, job'[l].code)
    BY <2>1, CiAssumption DEF Known
  <2>3. checks' = checks /\ job'[l].told[1] # "check" /\ job'[l].at \notin Early
    BY <1>5, GateJob DEF Gate, Tells, Early
  <2> QED BY <1>5, <2>2, <2>3, GateJob, ChecksAlone
<1>6. CASE SearchIssues(l)
  BY <1>1, <1>6, SearchIssuesStep DEF Stays, Tells, Early
<1>7. CASE CreateIssue(l)
  BY <1>1, <1>7, CreateIssueStep DEF Tells, Early
<1>8. CASE Push(l) \/ ListComments(l) \/ Webhook(l)
  <2>1. job[l].at # "idle"
    BY <1>8 DEF Push, ListComments, Webhook
  <2> QED BY <1>1, <1>8, <2>1, MuteStep DEF Stays, Early
<1>9. CASE CreateCheckRun(l)
  <2> DEFINE mine == [n |-> job[l].n, green |-> Conclusion(job[l].report, job[l].code)]
  <2>1. /\ Others(l) /\ Same(l) /\ job[l].at = "check" /\ job'[l].at = "comment"
        /\ job'[l].told[1] = "check"
        /\ checks' = [checks EXCEPT ![l] = mine] \/ (checks' = checks /\ job'[l].told[2] # "created")
    BY <1>9, CheckStep
  <2>2. mine.n = job[l].n /\ mine.green = Conclusion(job[l].report, job[l].code)
    OBVIOUS
  <2> HIDE DEF mine
  <2>3. \A m \in Lanes : m = l \/ job'[m] = job[m]
    BY <2>1 DEF Others
  <2>4. CASE checks' = [checks EXCEPT ![l] = mine]
    <3>1. /\ checks' = [m \in Lanes |-> checks'[m]] /\ checks'[l] = mine
          /\ \A m \in Lanes : m = l \/ checks'[m] = checks[m]
      BY <2>4 DEF CheckInv, CheckShape
    <3>2. CheckShape' /\ CodesFit'
      BY <2>1, <2>2, <2>3, <3>1 DEF CheckInv, CheckShape, CodesFit, Same
    <3>4. NotYet'
      BY <2>1, <2>3, <3>1 DEF CheckInv, NotYet, Early
    <3>5. ToldCheck'
      BY <2>1, <2>2, <2>3, <3>1 DEF CheckInv, ToldCheck, Same
    <3>3. GreenIsOf'
      BY <2>1, <2>2, <2>3, <3>1 DEF CheckInv, GreenIsOf, Same
    <3> QED BY <3>2, <3>3, <3>4, <3>5 DEF CheckInv
  <2>5. CASE checks' = checks /\ job'[l].told[2] # "created"
    <3>1. CheckShape' /\ CodesFit'
      BY <2>1, <2>3, <2>5 DEF CheckInv, CheckShape, CodesFit, Same
    <3>2. NotYet'
      BY <2>1, <2>3, <2>5 DEF CheckInv, NotYet, Early
    <3>3. ToldCheck' /\ GreenIsOf'
      BY <2>1, <2>3, <2>5 DEF CheckInv, ToldCheck, GreenIsOf, Same
    <3> QED BY <3>1, <3>2, <3>3 DEF CheckInv
  <2> QED BY <2>1, <2>4, <2>5
<1>10. CASE EditComment(l) \/ NewComment(l)
  BY <1>1, <1>10, CommentStep DEF Early
<1>11. CASE Enforce(l) \/ Lost(l)
  BY <1>11, LeaveStep, ChecksAlone DEF Stays, Tells
<1> QED BY <1>2, <1>3, <1>4, <1>5, <1>6, <1>7, <1>8, <1>9, <1>10, <1>11 DEF Attempt
-----------------------------------------------------------------------------
Inv == Shape /\ ReviewInv /\ IssueInv /\ CommentInv /\ CheckInv

\* All of it holds before the first job,
LEMMA CiStart == CiInit => Inv
<1> SUFFICES ASSUME CiInit PROVE Inv
  OBVIOUS
<1>1. /\ Parked.told = Silent /\ Parked.n = 0 /\ Parked.at = "idle" /\ Parked.report = "none"
      /\ Parked = [n |-> Parked.n, at |-> Parked.at, patch |-> Parked.patch, findings |-> Parked.findings,
                   report |-> Parked.report, code |-> Parked.code, todo |-> Parked.todo,
                   told |-> Parked.told]
  BY DEF Parked
<1>2. job = [l \in Lanes |-> Parked] /\ reviews = {} /\ issues = {} /\ comments = {}
      /\ checks = [l \in Lanes |-> [n |-> 0, green |-> FALSE]]
  BY DEF CiInit
<1>3. Shape
  BY <1>1, <1>2 DEF Shape
<1>4. \A l \in Lanes : job[l].told[1] = "nothing" /\ job[l].at = "idle" /\ job[l].n = 0
                       /\ job[l].report = "none"
  BY <1>1, <1>2, SilentTells
<1>5. ReviewInv
  BY <1>2, <1>4 DEF ReviewInv, ReviewsOfLanes, OneReview, PostIsNew, ToldReviews, PostOf, Kinds
<1>6. FewCreated
  <2>1. \A b : MadeBy(b) = {}
    BY <1>2 DEF MadeBy
  <2>2. 0 <= MaxNew
    BY CiAssumption
  <2> QED BY <1>2, <2>1, <2>2, FS_EmptySet DEF FewCreated
<1>7. IssueInv
  BY <1>2, <1>4, <1>6 DEF IssueInv, IssuesOfLanes, Numbered, OneIssue, TodoIsNew, ListIsWhole, ToldJira
<1>8. CommentInv
  BY <1>2, <1>4 DEF CommentInv, OneComment, NewIsFirst, ToldComment
<1>9. CheckInv
  <2>1. checks = [l \in Lanes |-> checks[l]] /\ \A l \in Lanes : checks[l].n = 0 /\ checks[l].green = FALSE
    BY <1>2
  <2>2. CheckShape /\ GreenIsOf
    BY <2>1, <1>4 DEF CheckShape, GreenIsOf
  <2>3. NotYet /\ CodesFit /\ ToldCheck
    BY <1>4 DEF NotYet, CodesFit, Known, ToldCheck, Early
  <2> QED BY <2>2, <2>3 DEF CheckInv
<1> QED BY <1>3, <1>5, <1>7, <1>8, <1>9 DEF Inv

\* and each step keeps the shape of the jobs,
LEMMA ShapeStep == ASSUME Shape, NEW l \in Lanes, Attempt(l) PROVE Shape'
<1>1. CASE SearchRefine(l) \/ SearchReview(l)
  <2>1. ASSUME SearchRefine(l) PROVE Shape'
    <3>1. PICK idle \in BOOLEAN : Search(l, "refine", idle, "post refine", "gate")
      BY <2>1 DEF SearchRefine
    <3> QED BY <3>1, SearchStep
  <2>2. ASSUME SearchReview(l) PROVE Shape'
    <3>1. PICK idle \in BOOLEAN : Search(l, "review", idle, "post review", "jira")
      BY <2>2 DEF SearchReview
    <3> QED BY <3>1, SearchStep
  <2> QED BY <1>1, <2>1, <2>2
<1>2. CASE PostRefine(l) \/ PostReview(l)
  BY <1>2, PostStep DEF PostRefine, PostReview
<1> QED BY <1>1, <1>2, StartJob, GateJob, SearchIssuesStep, CreateIssueStep, MuteStep, CheckStep,
           CommentStep, LeaveStep DEF Attempt

\* and all the rest.
LEMMA InvStep == Inv /\ [CiNext]_ciVars => Inv'
<1> SUFFICES ASSUME Inv, [CiNext]_ciVars PROVE Inv'
  OBVIOUS
<1>1. ASSUME NEW l \in Lanes, Attempt(l) PROVE Inv'
  BY <1>1, ShapeStep, ReviewStep, IssueStep, CommentsStep, ChecksStep DEF Inv
<1>2. CASE UNCHANGED <<job, reviews, issues, comments, checks>>
  <2>1. Shape' /\ ReviewInv'
    BY <1>2 DEF Inv, Shape, ReviewInv, ReviewsOfLanes, OneReview, PostIsNew, ToldReviews
  <2>2. IssueInv'
    BY <1>2 DEF Inv, IssueInv, IssuesOfLanes, Numbered, OneIssue, TodoIsNew, FewCreated, ListIsWhole,
                ToldJira, MadeBy, Labelled
  <2>3. CommentInv' /\ CheckInv'
    BY <1>2 DEF Inv, CommentInv, OneComment, NewIsFirst, ToldComment, Mine,
                CheckInv, CheckShape, NotYet, CodesFit, ToldCheck, GreenIsOf
  <2> QED BY <2>1, <2>2, <2>3 DEF Inv
<1> QED BY <1>1, <1>2 DEF CiNext, Crowd, ciVars

\* The inductive invariant.
THEOREM CiInvariant == CiSpec => []Inv
BY CiStart, InvStep, PTL DEF CiSpec
-----------------------------------------------------------------------------
\* Whatever fails and is run again: one comment per lane, and a review or a ticket of the same
\* content at most once per lane.
THEOREM FewPosts == CiSpec => []PostsAreFew
<1>1. Inv => PostsAreFew
  <2> SUFFICES ASSUME Inv PROVE PostsAreFew
    OBVIOUS
  <2>1. ASSUME NEW l \in Lanes PROVE Cardinality(Mine(l)) <= 1
    <3>1. \A c, d \in Mine(l) : c = d
      BY DEF Inv, CommentInv, OneComment, Mine
    <3>2. CASE Mine(l) = {}
      BY <3>2, FS_EmptySet
    <3>3. ASSUME NEW c \in Mine(l) PROVE Cardinality(Mine(l)) <= 1
      <4>1. Mine(l) = {c}
        BY <3>1, <3>3
      <4>2. Cardinality({c}) = 1
        BY FS_Singleton
      <4> QED BY <4>1, <4>2
    <3> QED BY <3>2, <3>3
  \* At most as many as there are lanes, if no two are of the same lane.
  <2>2. ASSUME NEW S, \A x \in S : x.by[1] \in Lanes, \A x, y \in S : x.by[1] = y.by[1] => x = y
        PROVE  Cardinality(S) <= Cardinality(Lanes)
    <3> DEFINE f == [x \in S |-> x.by[1]]
    <3>1. f \in Injection(S, Lanes)
      BY <2>2 DEF Injection, IsInjective
    <3> QED BY <3>1, FS_Injection, CiAssumption
  <2>3. ASSUME NEW r \in reviews
        PROVE  Cardinality({s \in reviews : s.key = r.key /\ s.near}) <= Cardinality(Lanes)
    BY <2>2 DEF Inv, ReviewInv, ReviewsOfLanes, OneReview
  <2>4. ASSUME NEW i \in issues
        PROVE  Cardinality({j \in issues : j.label = i.label}) <= Cardinality(Lanes)
    BY <2>2 DEF Inv, IssueInv, IssuesOfLanes, OneIssue
  <2> QED BY <2>1, <2>3, <2>4 DEF PostsAreFew
<1> QED BY <1>1, CiInvariant, PTL

\* What an attempt tells it has published is there.
THEOREM WhatIsToldIsThere == CiSpec => []ToldIsThere
<1>1. Inv => ToldIsThere
  <2> SUFFICES ASSUME Inv, NEW l \in Lanes
               PROVE  LET told(field) == IF job[l].told[1] = field THEN job[l].told[2] ELSE "none" IN
                      /\ \A kind \in {"refine", "review"} :
                           told(kind) \in {"created", "there"} => \E r \in reviews : r.key = Key(l, kind)
                      /\ told("jira") = "ok" => Lows(l) \subseteq Labelled \/ Created(l) = MaxNew
                      /\ told("comment") \in {"created", "updated"} =>
                           \E c \in comments : c.lane = l /\ c.shows = job[l].n
                      /\ told("check") = "created" => checks[l].n = job[l].n
    BY DEF ToldIsThere
  <2>1. ASSUME NEW kind \in {"refine", "review"}, job[l].told[1] = kind, job[l].told[2] \in {"created", "there"}
        PROVE  \E r \in reviews : r.key = Key(l, kind)
    BY <2>1, KeyIs DEF Inv, ReviewInv, ToldReviews, Kinds
  <2>2. ASSUME job[l].told[1] = "jira", job[l].told[2] = "ok"
        PROVE  Lows(l) \subseteq Labelled \/ Created(l) = MaxNew
    BY <2>2 DEF Inv, IssueInv, ToldJira, Lows, LowOf, Created, MadeBy, By
  <2>3. ASSUME job[l].told[1] = "comment", job[l].told[2] \in {"created", "updated"}
        PROVE  \E c \in comments : c.lane = l /\ c.shows = job[l].n
    BY <2>3 DEF Inv, CommentInv, ToldComment
  <2>4. ASSUME job[l].told[1] = "check", job[l].told[2] = "created" PROVE checks[l].n = job[l].n
    BY <2>4 DEF Inv, CheckInv, ToldCheck
  <2> QED BY <2>1, <2>2, <2>3, <2>4
<1> QED BY <1>1, CiInvariant, PTL

\* A green Check Run is of a report that passed and of a gate that was not red.
THEOREM GreenIsPassed == CiSpec => []GreenMeansPassed
<1>1. Inv => GreenMeansPassed
  BY DEF Inv, CheckInv, GreenIsOf, CodesFit, Known, Conclusion, GreenMeansPassed
<1> QED BY <1>1, CiInvariant, PTL
=============================================================================
