------------------------------ MODULE CiReport ------------------------------
(* What a job of the workflow (qc-gate.reusable.yml) publishes: the reviews *)
(* of `init --refine` and of the findings (integrations/refine_review.py,   *)
(* pr_review.py), tickets for low findings (jira.py), and the report        *)
(* (ci.py): the run's history, a Check Run, the comment that is kept up to  *)
(* date, a webhook.  A lane is a concurrency group of the workflow (project,*)
(* mode and pull request): its attempts run one after the other, those of   *)
(* different lanes side by side.  Any request may fail, without its effect  *)
(* or after it, and a machine may be lost in the middle.                    *)
EXTENDS Naturals, FiniteSets

CONSTANTS Lanes,
          Inputs,        \* Inputs[l]: what an attempt in lane l may have to tell: [patch, findings]
          Gates,         \* what the gate's step may end with: [report, code]
          Low,           \* fingerprints of findings of low severity
          MaxNew,        \* jira.max_new_per_run
          Settings       \* [services, attempts, trouble]: the services that are configured, and
                         \*   bounds: attempts[l] in lane l, machines lost and requests that fail

ASSUME CiAssumption == /\ IsFiniteSet(Lanes) /\ MaxNew \in Nat
                       /\ \A g \in Gates : /\ g.code = "0" => g.report = "passed"
                                           /\ g.code = "1" => g.report # "passed"
                       /\ \A s \in Settings : s.attempts \in [Lanes -> Nat] /\ s.trouble \in Nat

VARIABLES job,           \* the attempt of each lane; told: its last result and about what
          setting,       \* one of Settings
          reviews,       \* on the pull request: [key, by, near]
          issues,        \* in Jira: [label, by]
          comments,      \* by this token: [lane, by, shows, near]
          checks,        \* the latest Check Run of each lane: [n, green]
          crowded,       \* the pull request has more comments than upsert_comment reads
          trouble        \* bound: failed requests so far

ciVars == <<job, setting, reviews, issues, comments, checks, crowded, trouble>>

Silent == <<"nothing", "none">>
Parked == [n |-> 0, at |-> "idle", patch |-> FALSE, findings |-> {}, report |-> "none",
           code |-> "none", todo |-> {}, told |-> Silent]

CiInit ==
  /\ job = [l \in Lanes |-> Parked] /\ setting \in Settings
  /\ reviews = {} /\ issues = {} /\ comments = {} /\ checks = [l \in Lanes |-> [n |-> 0, green |-> FALSE]]
  /\ crowded = FALSE /\ trouble = 0
-----------------------------------------------------------------------------
By(l) == <<l, job[l].n>>

\* A request is answered, fails without effect, or fails although it took effect.
Outcomes  == {"answered", "lost", "unanswered"}
Took(o)   == o # "lost"
Fault(o)  == /\ o # "answered" => trouble < setting.trouble
             /\ trouble' = IF o = "answered" THEN trouble ELSE trouble + 1
Told(o, what) == IF o = "answered" THEN what ELSE "error"

\* The step of l that tells `what` under `field` is over; the next one is `at`.
Says(l, field, what, at) ==
  job' = [job EXCEPT ![l].told = <<field, what>>, ![l].at = at]
Leaves(l)   == job' = [job EXCEPT ![l] = [Parked EXCEPT !.n = job[l].n]]
Goes(l, at) == job' = [job EXCEPT ![l].told = Silent, ![l].at = at]

\* A new attempt: what the SUT will get it to find is already settled.
Start(l) ==
  /\ job[l].at = "idle" /\ job[l].n < setting.attempts[l]
  /\ \E input \in Inputs[l] :
       job' = [job EXCEPT ![l] = [Parked EXCEPT !.n = job[l].n + 1, !.at = "refine",
                                                !.patch = input.patch, !.findings = input.findings]]
  /\ UNCHANGED <<setting, reviews, issues, comments, checks, crowded, trouble>>
-----------------------------------------------------------------------------
Key(l, kind) == <<kind, IF kind = "refine" THEN {} ELSE job[l].findings>>
Shown(key)   == \E r \in reviews : r.key = key /\ r.near

\* post_refine, post_pr_review: nothing to post, or the reviews are searched for the marker.
Search(l, kind, idle, post, next) ==
  /\ job[l].at = kind
  /\ IF idle \/ ~({"pr", "github"} \subseteq setting.services)
     THEN Says(l, kind, "skipped", next) /\ UNCHANGED trouble
     ELSE \E o \in {"answered", "lost"} :
            /\ Fault(o)
            /\ \/ o = "lost" /\ Says(l, kind, "error", next)
               \/ o = "answered" /\ Shown(Key(l, kind)) /\ Says(l, kind, "there", next)
               \/ o = "answered" /\ ~Shown(Key(l, kind)) /\ Goes(l, post)
  /\ UNCHANGED <<setting, reviews, issues, comments, checks, crowded>>

\* The lines of the diff are read; the review is posted.
Post(l, kind, post, next) ==
  /\ job[l].at = post
  /\ \E o \in Outcomes :
       /\ Fault(o) /\ Says(l, kind, Told(o, "created"), next)
       /\ reviews' = IF Took(o)
                     THEN reviews \cup {[key |-> Key(l, kind), by |-> By(l), near |-> ~crowded]}
                     ELSE reviews
  /\ UNCHANGED <<setting, issues, comments, checks, crowded>>

SearchRefine(l) == Search(l, "refine", ~job[l].patch, "post refine", "gate")
PostRefine(l)   == Post(l, "refine", "post refine", "gate")
SearchReview(l) == Search(l, "review", job[l].report = "none" \/ job[l].findings = {}, "post review", "jira")
PostReview(l)   == Post(l, "review", "post review", "jira")
-----------------------------------------------------------------------------
\* The gate's step: the verdict of report.json, if it is written, and the exit code unless the
\* step was cut short.
Gate(l) ==
  /\ job[l].at = "gate"
  /\ \E g \in Gates :
       job' = [job EXCEPT ![l].told = Silent, ![l].at = "review", ![l].report = g.report, ![l].code = g.code]
  /\ UNCHANGED <<setting, reviews, issues, comments, checks, crowded, trouble>>
-----------------------------------------------------------------------------
Lows(l)     == job[l].findings \cap Low
Labelled    == {i.label : i \in issues}
Created(l)  == Cardinality({i \in issues : i.by = By(l)})

\* jira.main, sync_low_findings: the search (an answer of too many pages is an error, too).
SearchIssues(l) ==
  /\ job[l].at = "jira"
  /\ IF job[l].report = "none"
     THEN Says(l, "jira", IF "pr" \in setting.services THEN "error" ELSE "skipped", "history") /\ UNCHANGED trouble
     ELSE IF Lows(l) = {} \/ ~({"pr", "jira"} \subseteq setting.services)
     THEN Says(l, "jira", "skipped", "history") /\ UNCHANGED trouble
     ELSE \E o \in {"answered", "lost"} :
            /\ Fault(o)
            /\ \/ o = "lost" /\ Says(l, "jira", "error", "history")
               \/ /\ o = "answered"
                  /\ job' = [job EXCEPT ![l].told = Silent, ![l].at = "tickets", ![l].todo = Lows(l) \ Labelled]
  /\ UNCHANGED <<setting, reviews, issues, comments, checks, crowded>>

\* One issue for each label the search has not shown, as far as the limit allows; the first
\* trouble ends it.
CreateIssue(l) ==
  /\ job[l].at = "tickets"
  /\ \/ /\ job[l].todo = {} \/ Created(l) >= MaxNew
        /\ Says(l, "jira", "ok", "history")
        /\ UNCHANGED <<issues, trouble>>
     \/ /\ Created(l) < MaxNew
        /\ \E label \in job[l].todo, o \in Outcomes :
             /\ Fault(o)
             /\ issues' = IF Took(o) THEN issues \cup {[label |-> label, by |-> By(l)]} ELSE issues
             /\ IF o = "answered" THEN job' = [job EXCEPT ![l].todo = @ \ {label}]
                ELSE Says(l, "jira", "error", "history")
  /\ UNCHANGED <<setting, reviews, comments, checks, crowded>>
-----------------------------------------------------------------------------
\* ci.report_run without a report does nothing; push_run sends the run to the service (JobIntake)
\* and tells whether the links of what follows lead to it.
Push(l) ==
  /\ job[l].at = "history"
  /\ \/ job[l].report = "none" /\ Goes(l, "enforce") /\ UNCHANGED trouble
     \/ /\ job[l].report # "none" /\ "history" \notin setting.services
        /\ Says(l, "history", "skipped", "check") /\ UNCHANGED trouble
     \/ /\ job[l].report # "none" /\ "history" \in setting.services
        /\ \E o \in {"answered", "lost"} : Fault(o) /\ Says(l, "history", Told(o, "ok"), "check")
  /\ UNCHANGED <<setting, reviews, issues, comments, checks, crowded>>

\* Mutant: the exit code is not looked at.
ConclusionOfVerdict(report, code) == report = "passed"

\* conclusion_for: TRUE is success.
Conclusion(report, code) == code \in {"none", "0", "1"} /\ report = "passed"

CreateCheckRun(l) ==
  /\ job[l].at = "check"
  /\ IF "github" \notin setting.services THEN Says(l, "check", "skipped", "comment") /\ UNCHANGED <<checks, trouble>>
     ELSE \E o \in Outcomes :
            /\ Fault(o) /\ Says(l, "check", Told(o, "created"), "comment")
            /\ checks' = IF Took(o)
                         THEN [checks EXCEPT ![l] = [n |-> job[l].n, green |-> Conclusion(job[l].report, job[l].code)]]
                         ELSE checks
  /\ UNCHANGED <<setting, reviews, issues, comments, crowded>>

\* upsert_comment: the comments are read page by page, up to a limit ...
Mine(l) == {c \in comments : c.lane = l /\ c.near}

ListComments(l) ==
  /\ job[l].at = "comment"
  /\ IF ~({"pr", "github"} \subseteq setting.services)
     THEN Says(l, "comment", "skipped", "webhook") /\ UNCHANGED trouble
     ELSE \E o \in {"answered", "lost"} :
            /\ Fault(o)
            /\ \/ o = "lost" /\ Says(l, "comment", "error", "webhook")
               \/ o = "answered" /\ Goes(l, IF Mine(l) = {} THEN "new comment" ELSE "edit comment")
  /\ UNCHANGED <<setting, reviews, issues, comments, checks, crowded>>

Body(l) == [lane |-> l, by |-> By(l), shows |-> job[l].n, near |-> ~crowded]

\* Mutant: a comment that cannot be edited is posted anew.
EditCommentOrPost(l) ==
  /\ job[l].at = "edit comment"
  /\ \E o \in Outcomes, c \in Mine(l) :
       /\ Fault(o) /\ Says(l, "comment", "updated", "webhook")
       /\ comments' = (IF Took(o) THEN (comments \ {c}) \cup {[Body(l) EXCEPT !.by = c.by, !.near = TRUE]}
                       ELSE comments)
                      \cup (IF o = "answered" THEN {} ELSE {Body(l)})
  /\ UNCHANGED <<setting, reviews, issues, checks, crowded>>

\* ... the first one with the marker is edited ...
EditComment(l) ==
  /\ job[l].at = "edit comment"
  /\ \E o \in Outcomes, c \in Mine(l) :
       /\ Fault(o) /\ Says(l, "comment", Told(o, "updated"), "webhook")
       /\ comments' = IF Took(o) THEN (comments \ {c}) \cup {[Body(l) EXCEPT !.by = c.by, !.near = TRUE]}
                      ELSE comments
  /\ UNCHANGED <<setting, reviews, issues, checks, crowded>>

\* ... or one is posted.
NewComment(l) ==
  /\ job[l].at = "new comment"
  /\ \E o \in Outcomes :
       /\ Fault(o) /\ Says(l, "comment", Told(o, "created"), "webhook")
       /\ comments' = IF Took(o) THEN comments \cup {Body(l)} ELSE comments
  /\ UNCHANGED <<setting, reviews, issues, checks, crowded>>

\* notify_run, send: it never raises.
Webhook(l) ==
  /\ job[l].at = "webhook"
  /\ \E o \in {"answered", "lost"} :
       /\ "webhook" \notin setting.services => o = "answered"
       /\ Fault(o)
       /\ Says(l, "webhook", IF "webhook" \in setting.services THEN Told(o, "ok") ELSE "skipped", "enforce")
  /\ UNCHANGED <<setting, reviews, issues, comments, checks, crowded>>

\* The last step: the job is green if and only if the gate has exited 0.
Enforce(l) ==
  /\ job[l].at = "enforce"
  /\ Leaves(l)
  /\ UNCHANGED <<setting, reviews, issues, comments, checks, crowded, trouble>>

\* The machine is lost.
Lost(l) ==
  /\ job[l].at # "idle" /\ trouble < setting.trouble
  /\ trouble' = trouble + 1
  /\ Leaves(l)
  /\ UNCHANGED <<setting, reviews, issues, comments, checks, crowded>>

\* People write more comments and reviews than MAX_PAGES hold.
Crowd ==
  /\ ~crowded /\ "pr" \in setting.services
  /\ crowded' = TRUE
  /\ UNCHANGED <<job, setting, reviews, issues, comments, checks, trouble>>

Attempt(l) ==
  \/ Start(l) \/ SearchRefine(l) \/ PostRefine(l) \/ Gate(l) \/ SearchReview(l) \/ PostReview(l)
  \/ SearchIssues(l) \/ CreateIssue(l) \/ Push(l) \/ CreateCheckRun(l) \/ ListComments(l)
  \/ EditComment(l) \/ NewComment(l) \/ Webhook(l) \/ Enforce(l) \/ Lost(l)

CiNext == (\E l \in Lanes : Attempt(l)) \/ Crowd

CiSpec == CiInit /\ [][CiNext]_ciVars
-----------------------------------------------------------------------------
\* No spam: whatever fails and is run again, a lane has one comment, and a review or a ticket
\* of the same content exists at most once per lane (lanes side by side do not see each other's
\* request between their search and their post), among those that the code reads.
PostsAreFew ==
  /\ \A l \in Lanes : Cardinality(Mine(l)) <= 1
  /\ \A r \in reviews : Cardinality({s \in reviews : s.key = r.key /\ s.near}) <= Cardinality(Lanes)
  /\ \A i \in issues : Cardinality({j \in issues : j.label = i.label}) <= Cardinality(Lanes)

\* What an attempt tells it has published is there: a review of these findings, the comment with
\* the result of this attempt, the Check Run of this attempt, and a ticket for every low
\* finding unless the limit for one run was reached.
ToldIsThere ==
  \A l \in Lanes :
    LET told(field) == IF job[l].told[1] = field THEN job[l].told[2] ELSE "none" IN
    /\ \A kind \in {"refine", "review"} :
         told(kind) \in {"created", "there"} => \E r \in reviews : r.key = Key(l, kind)
    /\ told("jira") = "ok" => Lows(l) \subseteq Labelled \/ Created(l) = MaxNew
    /\ told("comment") \in {"created", "updated"} => \E c \in comments : c.lane = l /\ c.shows = job[l].n
    /\ told("check") = "created" => checks[l].n = job[l].n

\* A green Check Run is never about a job that is red because the gate blocked or broke; it may
\* be about one whose gate step was cut after the report and before its exit code.
GreenMeansPassed ==
  \A l \in Lanes : job[l].at # "idle" /\ checks[l].n = job[l].n /\ checks[l].green =>
    job[l].report = "passed" /\ job[l].code \in {"0", "none"}
=============================================================================
