------------------------------- MODULE Policy -------------------------------
(* What a run has to do (core/project.py, selector/rules.py and payload.py, *)
(* run_project of core/engine.py).  The policy is central: the file of a    *)
(* project over that of the department.  The suites lie in the repository   *)
(* under test, where whoever opens a pull request may change them.          *)
EXTENDS FiniteSets

CONSTANT Manifests    \* of the workers: [lanes, takes], takes of pairs of capability and oracle

Refused == [ok |-> FALSE, suites |-> {}, tasks |-> {}]

\* registry.workers_for.
WorkersFor(task) ==
  {w \in DOMAIN Manifests : task.kind \in Manifests[w].takes /\ task.lane \in Manifests[w].lanes}

\* deep_merge: keys of both are merged again, lists are replaced.
Over(base, own) == [k \in DOMAIN base \cup DOMAIN own |-> IF k \in DOMAIN own THEN own[k] ELSE base[k]]
DeepMerge(base, own) ==
  [mode \in DOMAIN base \cup DOMAIN own |->
     IF mode \in DOMAIN base \cap DOMAIN own THEN Over(base[mode], own[mode])
     ELSE IF mode \in DOMAIN own THEN own[mode] ELSE base[mode]]

Get(policy, key) == IF key \in DOMAIN policy THEN policy[key] ELSE {}

\* The schema of a mode: either all suites there are, or those it names.
WellFormed(policy) ==
  ("suites" \in DOMAIN policy) # ("blocking_suites" \in DOMAIN policy \/ "advisory_suites" \in DOMAIN policy)

\* resolve_project, for a file of the department and one of the project, both
\* [there, fits, modes]; the latter must have the name it gives itself to fit.
Modes(default, own) ==
  DeepMerge(IF default.there THEN default.modes ELSE <<>>, IF own.there THEN own.modes ELSE <<>>)
Resolves(default, own) ==
  /\ default.there \/ own.there
  /\ default.there => default.fits
  /\ own.there => own.fits
  /\ LET modes == Modes(default, own) IN
       /\ modes # <<>> /\ \A mode \in DOMAIN modes : WellFormed(modes[mode])
       /\ "pr" \in DOMAIN modes => Get(modes["pr"], "blocking_suites") # {}
-----------------------------------------------------------------------------
\* load_suites: a tree maps the names of its suites to [fits, tasks]; one that is no
\* suite, or has not the name of its file, is refused and all others with it.
SuitesLoad(tree) == \A name \in DOMAIN tree : tree[name].fits

PolicySuites(policy, tree) ==
  IF "suites" \in DOMAIN policy
  THEN IF policy["suites"] = {"*"} THEN DOMAIN tree ELSE policy["suites"]
  ELSE Get(policy, "blocking_suites") \cup Get(policy, "advisory_suites")

\* suites_by_worker, workers without a suite among them.
SuitesByWorker(policy, tree) ==
  [w \in DOMAIN Manifests |->
     {n \in PolicySuites(policy, tree) \cap DOMAIN tree : \E t \in tree[n].tasks : w \in WorkersFor(t)}]
Selectable(policy, tree) == {w \in DOMAIN Manifests : SuitesByWorker(policy, tree)[w] # {}}

Suites(policy, tree, workers) ==
  UNION {SuitesByWorker(policy, tree)[w] : w \in workers \cap DOMAIN Manifests}
Floor(policy) == Get(policy, "floor_workers")

\* rules.decide: a file is [full, docs, suites]: whether paths of the policy match it, and
\* the suites of the modules it belongs to.
Decision(changed) ==
  IF changed = {} THEN "floor"
  ELSE IF \E c \in changed : c.full THEN "full"
  ELSE IF \A c \in changed : c.docs THEN "floor"
  ELSE "analysis"
Hints(policy, tree, changed) ==
  IF Decision(changed) # "analysis" THEN {}
  ELSE {w \in Selectable(policy, tree) :
          SuitesByWorker(policy, tree)[w] \cap UNION {c.suites : c \in changed} # {}}
-----------------------------------------------------------------------------
\* selection.json: full_set, source, workers and suites.
Selection(full, source, workers, suites) ==
  [full |-> full, source |-> source, workers |-> workers, suites |-> suites]

\* What run_project assumes when there is none: --trigger pr alone.
Unavailable == Selection(TRUE, "fallback", {}, {})

\* payload.merge_floor.
MergeFloor(policy, tree, s) ==
  [s EXCEPT !.workers = @ \cup Floor(policy), !.suites = @ \cup Suites(policy, tree, Floor(policy))]

\* agent._full, and the same by the rules; the suites of some workers, with the floor.
Full(policy, tree, source) ==
  MergeFloor(policy, tree, Selection(TRUE, source, IF source = "rules" THEN {} ELSE Selectable(policy, tree),
                                     Get(policy, "blocking_suites") \cup Get(policy, "advisory_suites")))
Narrow(policy, tree, source, workers) ==
  MergeFloor(policy, tree, Selection(FALSE, source, workers, Suites(policy, tree, workers)))

\* TriggerPayload.manual, which asks for workers that have a suite.
Manual(policy, tree, workers) == Selection(FALSE, "manual", workers, Suites(policy, tree, workers))

\* build_plan; only is <<>> or holds the suites asked for.  An advisory suite that is not
\* there is passed over.
BuildPlan(policy, tree, only) ==
  LET blocking == Get(policy, "blocking_suites")
      advisory == Get(policy, "advisory_suites")
      named    == PolicySuites(policy, tree)
      asked    == IF only = <<>> THEN named ELSE named \cap only[1]
      names    == asked \ (advisory \ DOMAIN tree)
      Of(n)    == tree[n].tasks
  IN  IF \/ ~(Suites(policy, tree, Floor(policy)) \subseteq blocking)
         \/ blocking \cap advisory # {}
         \/ only # <<>> /\ (~(only[1] \subseteq named) \/ asked = {})
         \/ ~(names \subseteq DOMAIN tree)
         \/ \E n \in names \cap blocking : \E t \in Of(n) : t.lane # "gate"
         \/ \E n \in names \cap advisory : \E t \in Of(n) : t.lane # "discovery"
         \/ \E n, o \in names : \E t \in Of(n), u \in Of(o) : <<n, t>> # <<o, u>> /\ t.id = u.id
      THEN Refused
      ELSE [ok |-> TRUE, suites |-> names, tasks |-> UNION {Of(n) : n \in names}]

\* Mutant: a worker of the floor without a suite is passed over.
EnforcedIfThere(policy, tree, selection) ==
  IF ~(selection.suites \subseteq PolicySuites(policy, tree)) THEN Refused
  ELSE BuildPlan(policy, tree,
         IF selection.full THEN <<>> ELSE <<selection.suites \cup Suites(policy, tree, Floor(policy))>>)

\* run_project of a pull request trusts the selection in nothing: each worker of the
\* floor must have a suite, and gets all of them.
Enforced(policy, tree, selection) ==
  IF \/ ~(selection.suites \subseteq PolicySuites(policy, tree))
     \/ ~(Floor(policy) \subseteq Selectable(policy, tree))
  THEN Refused
  ELSE BuildPlan(policy, tree,
         IF selection.full THEN <<>> ELSE <<selection.suites \cup Suites(policy, tree, Floor(policy))>>)

\* run_project: the plan of the gate for what was asked, "pr" or "manual", of this tree.
GatePlan(default, own, mode, trigger, tree, selection) ==
  LET modes == Modes(default, own) IN
  IF ~Resolves(default, own) \/ mode \notin DOMAIN modes \/ ~SuitesLoad(tree) THEN Refused
  ELSE IF trigger = "pr" THEN Enforced(modes[mode], tree, selection)
  ELSE BuildPlan(modes[mode], tree, IF selection.full THEN <<>> ELSE <<selection.suites>>)
=============================================================================
