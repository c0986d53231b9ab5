-------------------------------- MODULE Plan --------------------------------
(* core/plan.py toposort and core/engine.py _select: which tasks of a plan  *)
(* run, in which layers and in which order.  A plan here is a record with   *)
(* tasks (the ids of its tasks), rank (the order they are written in), deps *)
(* (depends_on of each) and only (the ids --only names, or all of them).    *)
EXTENDS Naturals, FiniteSetsExt

\* The task of a set that is written first.
IsFirst(plan, S, t) == t \in S /\ \A s \in S : plan.rank[t] <= plan.rank[s]

\* Mutant: a task may come in the same layer as what it depends on.
LayerTooEarly(plan, completed) == plan.tasks \ completed

\* The layer after those whose tasks are completed.
Layer(plan, completed) == {t \in plan.tasks \ completed : plan.deps[t] \subseteq completed}

\* The layer a task of a plan without a cycle is in.
Depth(plan) ==
  LET depth[t \in plan.tasks] ==
        IF plan.deps[t] = {} THEN 0 ELSE 1 + Max({depth[d] : d \in plan.deps[t]})
  IN  depth

\* The selected task that comes first when the layers are put in a row.
FirstSelected(plan, S, t) ==
  /\ t \in S
  /\ \A s \in S : \/ Depth(plan)[t] < Depth(plan)[s]
                  \/ Depth(plan)[t] = Depth(plan)[s] /\ plan.rank[t] <= plan.rank[s]

\* toposort gets stuck: each of the tasks that remain waits for one of them.
Cyclic(plan) == \E S \in SUBSET plan.tasks : S # {} /\ \A t \in S : plan.deps[t] \cap S # {}

\* Plans that are refused (PlanError): no task, a dependency that does not
\* exist, a cycle, an --only that is empty, unknown, or leaves out a dependency.
Refused(plan) ==
  \/ plan.tasks = {}
  \/ \E t \in plan.tasks : ~(plan.deps[t] \subseteq plan.tasks)
  \/ Cyclic(plan)
  \/ plan.only = {} \/ ~(plan.only \subseteq plan.tasks)
  \/ \E t \in plan.only \cap plan.tasks : ~(plan.deps[t] \subseteq plan.only)
=============================================================================
