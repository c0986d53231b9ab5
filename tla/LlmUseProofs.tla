---------------------------- MODULE LlmUseProofs ----------------------------
(* Proofs about Policy and LlmUse, for any policies, workers, suites and    *)
(* changes, and whatever models answer: the floor of a gate, what is told   *)
(* of what was spent, what a complete catalogue covers, what narrows a      *)
(* selection, and the budget of requests.                                   *)
EXTENDS LlmUse, TLAPS

\* A worker that can be selected has a suite of the policy with a task it can take.
LEMMA SelectableTask ==
  ASSUME NEW policy, NEW tree, NEW w \in Selectable(policy, tree)
  PROVE  /\ w \in DOMAIN Manifests
         /\ \E n \in SuitesByWorker(policy, tree)[w] :
              /\ n \in PolicySuites(policy, tree) /\ n \in DOMAIN tree
              /\ \E t \in tree[n].tasks : w \in WorkersFor(t)
BY DEF Selectable, SuitesByWorker

\* The suites of a set of workers are those of each of them.
LEMMA SuitesOfEach ==
  ASSUME NEW policy, NEW tree, NEW ws, NEW w \in ws, w \in DOMAIN Manifests
  PROVE  SuitesByWorker(policy, tree)[w] \subseteq Suites(policy, tree, ws)
BY DEF Suites

\* A plan that is accepted has a task for each worker whose suites were asked for, in the
\* gate lane if these are blocking.
LEMMA PlanHasTask ==
  ASSUME NEW policy, NEW tree, NEW only, NEW w \in Selectable(policy, tree),
         BuildPlan(policy, tree, only).ok = TRUE,
         only = <<>> \/ SuitesByWorker(policy, tree)[w] \subseteq only[1]
  PROVE  \E t \in BuildPlan(policy, tree, only).tasks :
           /\ w \in WorkersFor(t)
           /\ SuitesByWorker(policy, tree)[w] \subseteq Get(policy, "blocking_suites") => t.lane = "gate"
<1> DEFINE plan     == BuildPlan(policy, tree, only)
           blocking == Get(policy, "blocking_suites")
           advisory == Get(policy, "advisory_suites")
           asked    == IF only = <<>> THEN PolicySuites(policy, tree)
                       ELSE PolicySuites(policy, tree) \cap only[1]
           names    == asked \ (advisory \ DOMAIN tree)
<1>1. Refused.ok # TRUE
  BY DEF Refused
<1>2. /\ plan.tasks = UNION {tree[n].tasks : n \in names}
      /\ \A n \in names \cap blocking : \A t \in tree[n].tasks : t.lane = "gate"
  BY <1>1 DEF BuildPlan
<1>3. PICK n \in SuitesByWorker(policy, tree)[w] :
        /\ n \in PolicySuites(policy, tree) /\ n \in DOMAIN tree
        /\ \E t \in tree[n].tasks : w \in WorkersFor(t)
  BY SelectableTask
<1>4. n \in names
  BY <1>3
<1>5. PICK t \in tree[n].tasks : w \in WorkersFor(t)
  BY <1>3
<1>6. t \in plan.tasks
  BY <1>2, <1>4, <1>5
<1>7. SuitesByWorker(policy, tree)[w] \subseteq blocking => t.lane = "gate"
  BY <1>2, <1>3, <1>4, <1>5
<1> QED BY <1>5, <1>6, <1>7

\* The floor is blocking in each plan that is accepted.
LEMMA FloorIsBlocking ==
  ASSUME NEW policy, NEW tree, NEW only, BuildPlan(policy, tree, only).ok = TRUE
  PROVE  Suites(policy, tree, Floor(policy)) \subseteq Get(policy, "blocking_suites")
<1>1. Refused.ok # TRUE
  BY DEF Refused
<1> QED BY <1>1 DEF BuildPlan

\* run_project: what it asks of the plan of a pull request.
LEMMA EnforcedAsks ==
  ASSUME NEW policy, NEW tree, NEW s, Enforced(policy, tree, s).ok = TRUE
  PROVE  /\ Floor(policy) \subseteq Selectable(policy, tree)
         /\ \E only :
              /\ Enforced(policy, tree, s) = BuildPlan(policy, tree, only)
              /\ \/ only = <<>>
                 \/ ~s.full /\ only[1] = s.suites \cup Suites(policy, tree, Floor(policy))
<1>1. Refused.ok # TRUE
  BY DEF Refused
<1>2. Floor(policy) \subseteq Selectable(policy, tree)
  BY <1>1 DEF Enforced
<1>3. CASE s.full
  BY <1>1, <1>2, <1>3 DEF Enforced
<1>4. CASE ~s.full
  <2> DEFINE asked == s.suites \cup Suites(policy, tree, Floor(policy))
  <2>1. Enforced(policy, tree, s) = BuildPlan(policy, tree, <<asked>>)
    BY <1>1, <1>4 DEF Enforced
  <2>2. <<asked>>[1] = asked
    OBVIOUS
  <2> QED BY <1>2, <1>4, <2>1, <2>2
<1> QED BY <1>3, <1>4

\* Whatever selection comes with a pull request, and whatever its suites have become: a plan
\* that is accepted has a task in the gate lane for every worker of the floor.
THEOREM FloorIsEnforced ==
  ASSUME NEW policy, NEW tree, NEW s, Enforced(policy, tree, s).ok = TRUE, NEW w \in Floor(policy)
  PROVE  \E t \in Enforced(policy, tree, s).tasks : t.lane = "gate" /\ w \in WorkersFor(t)
<1>1. w \in Selectable(policy, tree)
  BY EnforcedAsks
<1>2. PICK only : /\ Enforced(policy, tree, s) = BuildPlan(policy, tree, only)
                  /\ \/ only = <<>>
                     \/ only[1] = s.suites \cup Suites(policy, tree, Floor(policy))
  BY EnforcedAsks
<1>3. SuitesByWorker(policy, tree)[w] \subseteq Suites(policy, tree, Floor(policy))
  BY <1>1, SelectableTask, SuitesOfEach
<1>4. Suites(policy, tree, Floor(policy)) \subseteq Get(policy, "blocking_suites")
  BY <1>2, FloorIsBlocking
<1>5. only = <<>> \/ SuitesByWorker(policy, tree)[w] \subseteq only[1]
  BY <1>2, <1>3
<1>6. BuildPlan(policy, tree, only).ok = TRUE
  BY <1>2
<1>7. PICK t \in BuildPlan(policy, tree, only).tasks :
        /\ w \in WorkersFor(t)
        /\ SuitesByWorker(policy, tree)[w] \subseteq Get(policy, "blocking_suites") => t.lane = "gate"
  BY <1>1, <1>5, <1>6, PlanHasTask, ZenonT(60)
<1>8. SuitesByWorker(policy, tree)[w] \subseteq Get(policy, "blocking_suites")
  BY <1>3, <1>4
<1> QED BY <1>2, <1>7, <1>8
-----------------------------------------------------------------------------
\* A selection that can be trusted: its workers have suites, and it has these.
Fits(s, t) == /\ s.workers \subseteq Selectable(PolicyOf[t], Tree(t))
              /\ \/ s.full
                 \/ \A w \in s.workers : SuitesByWorker(PolicyOf[t], Tree(t))[w] \subseteq s.suites

\* A selection is made of a scene that passed the checks of select, or of those of the
\* command line; so is an answer that was kept.
SceneKnown   == user \in {"select", "manual"} => scene \in DOMAIN Scenes
AskedFits    == user = "select" /\ outcome = "running" => scene \in CanSelect
SelectedFits == user \in {"select", "manual"} /\ outcome = "selection" =>
                  scene \in Askable /\ Fits(selection, scene)
KeptFits     == \A e \in cached : e.use = "select" =>
                  e.scene \in CanSelect /\ e.workers \subseteq Selectable(PolicyOf[e.scene], Tree(e.scene))

SelectInv == SceneKnown /\ AskedFits /\ SelectedFits /\ KeptFits

\* The full set names workers that have suites.
LEMMA FullFits == ASSUME NEW s \in CanSelect, NEW source \in {"rules", "fallback"}
                  PROVE  s \in Askable /\ Fits(AllOf[s][source], s)
<1>1. s \in Askable /\ Floor(PolicyOf[s]) \subseteq Selectable(PolicyOf[s], Tree(s))
  BY DEF CanSelect
<1>2. AllOf[s][source] = Full(PolicyOf[s], Tree(s), source)
  BY DEF AllOf
<1> HIDE DEF CanSelect
<1> QED BY <1>1, <1>2 DEF Full, MergeFloor, Selection, Fits

\* So do the hints of the module map,
LEMMA HintsFit == ASSUME NEW s \in CanSelect PROVE HintsOf[s] \subseteq Selectable(PolicyOf[s], Tree(s))
BY DEF HintsOf, Hints

\* what a model, or the cache, makes of them,
LEMMA NarrowFits ==
  ASSUME NEW s \in CanSelect, NEW source, NEW ws \in SUBSET Selectable(PolicyOf[s], Tree(s))
  PROVE  s \in Askable /\ Fits(Selected(s, source, ws), s)
<1> DEFINE all    == HintsOf[s] \cup ws
           floor  == Floor(PolicyOf[s])
           chosen == Selected(s, source, ws)
<1>1. s \in Askable /\ floor \subseteq Selectable(PolicyOf[s], Tree(s))
  BY DEF CanSelect
<1>2. /\ chosen.workers = all \cup floor
      /\ chosen.suites = Suites(PolicyOf[s], Tree(s), all) \cup Suites(PolicyOf[s], Tree(s), floor)
  BY DEF Selected, Narrow, MergeFloor, Selection
<1>3. chosen.workers \subseteq Selectable(PolicyOf[s], Tree(s))
  BY <1>1, <1>2, HintsFit
<1>4. ASSUME NEW w \in chosen.workers
      PROVE  SuitesByWorker(PolicyOf[s], Tree(s))[w] \subseteq chosen.suites
  BY <1>2, <1>3, <1>4, SelectableTask, SuitesOfEach
<1> QED BY <1>1, <1>3, <1>4 DEF Fits

\* and what a developer asks for.
LEMMA ManualFits ==
  ASSUME NEW s \in Askable, NEW ws \in SUBSET Selectable(PolicyOf[s], Tree(s))
  PROVE  Fits(Manual(PolicyOf[s], Tree(s), ws), s)
<1> DEFINE chosen == Manual(PolicyOf[s], Tree(s), ws)
<1>1. chosen.workers = ws /\ chosen.suites = Suites(PolicyOf[s], Tree(s), ws)
  BY DEF Manual, Selection
<1>2. ASSUME NEW w \in ws PROVE SuitesByWorker(PolicyOf[s], Tree(s))[w] \subseteq chosen.suites
  <2>1. w \in Selectable(PolicyOf[s], Tree(s))
    OBVIOUS
  <2>2. w \in DOMAIN Manifests
    BY <2>1, SelectableTask
  <2>3. SuitesByWorker(PolicyOf[s], Tree(s))[w] \subseteq Suites(PolicyOf[s], Tree(s), ws)
    BY <2>2, SuitesOfEach
  <2> QED BY <1>1, <2>3
<1> QED BY <1>1, <1>2 DEF Fits

\* The key of the cache holds the suites of each worker: an answer that is found there
\* names workers that have one now.
LEMMA HitFits ==
  ASSUME KeptFits, NEW s \in CanSelect, NEW e \in Hit("select", s)
  PROVE  e.workers \in SUBSET Selectable(PolicyOf[s], Tree(s))
<1>1. e \in cached /\ e.use = "select" /\ Question[e.scene] = Question[s]
  BY DEF Hit
<1>2. e.scene \in CanSelect /\ e.workers \subseteq Selectable(PolicyOf[e.scene], Tree(e.scene))
  BY <1>1 DEF KeptFits
<1>3. e.scene \in Askable /\ s \in Askable /\ Askable \subseteq DOMAIN Scenes
  BY <1>2 DEF CanSelect, Askable
<1>4. SuitesByWorker(PolicyOf[e.scene], Tree(e.scene)) = SuitesByWorker(PolicyOf[s], Tree(s))
  <2>1. \A t \in Askable : Question[t] = <<Scenes[t].changed, ModesOf(t), SuitesByWorker(PolicyOf[t], Tree(t))>>
    BY <1>3 DEF Question
  <2> QED BY <1>1, <1>3, <2>1
<1> QED BY <1>2, <1>4 DEF Selectable
-----------------------------------------------------------------------------
\* The invariant of selections holds before the first command.
LEMMA SelectInit == Init => SelectInv
BY DEF Init, SelectInv, SceneKnown, AskedFits, SelectedFits, KeptFits

\* select starts with the rules, an answer in the cache, or a question.
LEMMA BeginSelectStep == SelectInv /\ BeginSelect => SelectInv'
<1> SUFFICES ASSUME SelectInv, NEW s \in DOMAIN Scenes, BeginRun("select", s), UNCHANGED cached,
                    \/ outcome' = "refused"
                    \/ /\ s \in CanSelect
                       /\ \/ outcome' = "selection" /\ selection' = AllOf[s]["rules"]
                          \/ outcome' = "selection" /\ selection' = Selected(s, "rules", {})
                          \/ /\ outcome' = "selection"
                             /\ \E e \in Hit("select", s) : selection' = Selected(s, "cache", e.workers)
                          \/ outcome' = "selection" /\ selection' = AllOf[s]["fallback"]
                          \/ outcome' = "running"
             PROVE  SelectInv'
  BY DEF BeginSelect, FirstCall
<1>1. user' = "select" /\ scene' = s
  BY DEF BeginRun
<1>2. KeptFits'
  BY DEF SelectInv, KeptFits
<1>3. CASE outcome' \notin {"selection", "running"}
  BY <1>1, <1>2, <1>3 DEF SelectInv, SceneKnown, AskedFits, SelectedFits
<1>4. CASE outcome' = "running" /\ s \in CanSelect
  BY <1>1, <1>2, <1>4 DEF SelectInv, SceneKnown, AskedFits, SelectedFits
<1>5. CASE outcome' = "selection" /\ s \in Askable /\ Fits(selection', s)
  BY <1>1, <1>2, <1>5 DEF SelectInv, SceneKnown, AskedFits, SelectedFits
<1>6. ASSUME s \in CanSelect, NEW e \in Hit("select", s), selection' = Selected(s, "cache", e.workers)
      PROVE  s \in Askable /\ Fits(selection', s)
  BY <1>6, HitFits, NarrowFits DEF SelectInv
<1>7. ASSUME s \in CanSelect, \/ selection' = AllOf[s]["rules"] \/ selection' = AllOf[s]["fallback"]
                              \/ selection' = Selected(s, "rules", {})
      PROVE  s \in Askable /\ Fits(selection', s)
  <2>1. {} \in SUBSET Selectable(PolicyOf[s], Tree(s))
    OBVIOUS
  <2> QED BY <1>7, <2>1, FullFits, NarrowFits
<1> QED BY <1>3, <1>4, <1>5, <1>6, <1>7

\* A selection by hand is refused or fits.
LEMMA BeginManualStep == SelectInv /\ BeginManual => SelectInv'
<1> SUFFICES ASSUME SelectInv, NEW s \in DOMAIN Scenes, NEW ws \in SUBSET DOMAIN Manifests,
                    BeginRun("manual", s), UNCHANGED cached,
                    \/ outcome' = "refused"
                    \/ /\ s \in Askable /\ ws \subseteq Selectable(PolicyOf[s], Tree(s))
                       /\ outcome' = "selection" /\ selection' = Manual(PolicyOf[s], Tree(s), ws)
             PROVE  SelectInv'
  BY DEF BeginManual
<1>1. user' = "manual" /\ scene' = s
  BY DEF BeginRun
<1>2. KeptFits'
  BY DEF SelectInv, KeptFits
<1>3. outcome' = "selection" => s \in Askable /\ Fits(selection', s)
  BY ManualFits
<1> QED BY <1>1, <1>2, <1>3 DEF SelectInv, SceneKnown, AskedFits, SelectedFits

\* An answer becomes a selection that fits.
LEMMA SelectAnsweredStep == SelectInv /\ SelectAnswered => SelectInv'
<1> SUFFICES ASSUME SelectInv, SelectAnswered PROVE SelectInv'
  OBVIOUS
<1>1. user = "select" /\ outcome = "running" /\ UNCHANGED <<user, scene>> /\ outcome' = "selection"
  BY DEF SelectAnswered, over
<1>2. scene \in CanSelect
  BY <1>1 DEF SelectInv, AskedFits
<1>3. PICK ws \in SUBSET Selectable(PolicyOf[scene], Tree(scene)) :
        /\ selection' = Selected(scene, "llm", ws)
        /\ cached' \in {cached, Kept([use |-> "select", scene |-> scene, workers |-> ws])}
  BY DEF SelectAnswered
<1>4. scene \in Askable /\ Fits(selection', scene)
  BY <1>2, <1>3, NarrowFits
<1>5. KeptFits'
  <2>1. \A e \in cached' : e \in cached \/ e = [use |-> "select", scene |-> scene, workers |-> ws]
    BY <1>3 DEF Kept
  <2> QED BY <1>2, <2>1 DEF SelectInv, KeptFits
<1>6. SceneKnown'
  BY <1>1 DEF SelectInv, SceneKnown
<1> QED BY <1>1, <1>4, <1>5, <1>6 DEF SelectInv, AskedFits, SelectedFits

\* Without an answer the selection is the full set.
LEMMA SelectFailedStep == SelectInv /\ SelectFailed => SelectInv'
<1> SUFFICES ASSUME SelectInv, SelectFailed PROVE SelectInv'
  OBVIOUS
<1>1. /\ user = "select" /\ outcome = "running" /\ UNCHANGED <<user, scene, cached>>
      /\ outcome' = "selection" /\ selection' = AllOf[scene]["fallback"]
  BY DEF SelectFailed, over
<1>2. scene \in CanSelect
  BY <1>1 DEF SelectInv, AskedFits
<1>3. scene \in Askable /\ Fits(selection', scene)
  BY <1>1, <1>2, FullFits
<1> QED BY <1>1, <1>3 DEF SelectInv, SceneKnown, AskedFits, SelectedFits, KeptFits

\* What the other uses do, or a request of a call: no selection is made.
LEMMA OtherStep ==
  ASSUME SelectInv,
         \A e \in cached' : e \in cached \/ e.use # "select",
         \/ user' \notin {"select", "manual"}
         \/ UNCHANGED <<user, scene, outcome, selection>>
  PROVE  SelectInv'
<1>1. KeptFits'
  BY DEF SelectInv, KeptFits
<1> QED BY <1>1 DEF SelectInv, SceneKnown, AskedFits, SelectedFits

\* No step of any user makes a selection that does not fit.
LEMMA SelectStep == SelectInv /\ [Next]_vars => SelectInv'
<1> SUFFICES ASSUME SelectInv, [Next]_vars PROVE SelectInv'
  OBVIOUS
<1>1. CASE BeginGenerate \/ BeginAgent
  <2>1. user' \in {"generate", "agent"} /\ cached' = cached
    BY <1>1 DEF BeginGenerate, BeginAgent, BeginRun
  <2> QED BY <2>1, OtherStep
<1>2. CASE GenerateAnswered
  <2>1. user' = "generate"
    BY <1>2 DEF GenerateAnswered
  <2>2. \A e \in cached' : e \in cached \/ e.use # "select"
    BY <1>2 DEF GenerateAnswered, Kept
  <2> QED BY <2>1, <2>2, OtherStep
<1>3. CASE GenerateFailed \/ AgentOver
  <2>1. user' \in {"generate", "agent"} /\ cached' = cached
    BY <1>3 DEF GenerateFailed, AgentOver
  <2> QED BY <2>1, OtherStep
<1>4. CASE CallOfUser \/ TurnOfAgent \/ UNCHANGED vars
  <2>1. UNCHANGED <<user, scene, outcome, selection, cached>>
    BY <1>4 DEF CallOfUser, TurnOfAgent, useVars, vars
  <2> QED BY <2>1, OtherStep
<1> QED BY <1>1, <1>2, <1>3, <1>4, BeginSelectStep, BeginManualStep, SelectAnsweredStep, SelectFailedStep
        DEF Next, Begin, Work

\* The inductive invariant of selections.
THEOREM SelectInvariant == Safe => []SelectInv
BY SelectInit, SelectStep, PTL DEF Safe
-----------------------------------------------------------------------------
\* A gate of a pull request that is not refused enforces the policy of its scene.
LEMMA GateEnforces ==
  ASSUME NEW s \in DOMAIN Scenes, NEW chosen, PlanFor(s, "pr", chosen).ok = TRUE
  PROVE  PlanFor(s, "pr", chosen) = Enforced(PolicyOf[s], Tree(s), chosen)
<1>1. Refused.ok # TRUE
  BY DEF Refused
<1>2. /\ Scenes[s].mode \in DOMAIN ModesOf(s)
      /\ PlanFor(s, "pr", chosen) = Enforced(ModesOf(s)[Scenes[s].mode], Tree(s), chosen)
  BY <1>1 DEF PlanFor, GatePlan, ModesOf
<1>3. PolicyOf[s] = ModesOf(s)[Scenes[s].mode]
  BY <1>2 DEF PolicyOf
<1> QED BY <1>2, <1>3

\* The same of a gate that was asked for by hand.
LEMMA GateByHand ==
  ASSUME NEW s \in DOMAIN Scenes, NEW chosen, PlanFor(s, "manual", chosen).ok = TRUE
  PROVE  \E only : /\ PlanFor(s, "manual", chosen) = BuildPlan(PolicyOf[s], Tree(s), only)
                   /\ only = <<>> \/ (~chosen.full /\ only[1] = chosen.suites)
<1>1. Refused.ok # TRUE
  BY DEF Refused
<1>2. /\ Scenes[s].mode \in DOMAIN ModesOf(s)
      /\ PlanFor(s, "manual", chosen) =
           BuildPlan(ModesOf(s)[Scenes[s].mode], Tree(s), IF chosen.full THEN <<>> ELSE <<chosen.suites>>)
  BY <1>1 DEF PlanFor, GatePlan, ModesOf
<1>3. PolicyOf[s] = ModesOf(s)[Scenes[s].mode]
  BY <1>2 DEF PolicyOf
<1>4. CASE chosen.full
  BY <1>2, <1>3, <1>4
<1>5. CASE ~chosen.full
  <2>1. <<chosen.suites>>[1] = chosen.suites
    OBVIOUS
  <2> QED BY <1>2, <1>3, <1>5, <2>1
<1> QED BY <1>4, <1>5

\* Each worker of a selection that fits has a task in the plan made of it.
LEMMA SelectedHasTask ==
  ASSUME NEW s \in DOMAIN Scenes, NEW chosen, Fits(chosen, s), NEW w \in chosen.workers,
         NEW trigger \in {"pr", "manual"}, PlanFor(s, trigger, chosen).ok = TRUE
  PROVE  \E t \in PlanFor(s, trigger, chosen).tasks : w \in WorkersFor(t)
<1>1. PICK only : /\ PlanFor(s, trigger, chosen) = BuildPlan(PolicyOf[s], Tree(s), only)
                  /\ only = <<>> \/ (~chosen.full /\ chosen.suites \subseteq only[1])
  <2>1. CASE trigger = "pr"
    <3>1. Enforced(PolicyOf[s], Tree(s), chosen).ok = TRUE
      BY <2>1, GateEnforces
    <3>2. PlanFor(s, trigger, chosen) = Enforced(PolicyOf[s], Tree(s), chosen)
      BY <2>1, GateEnforces
    <3>3. PICK only :
            /\ Enforced(PolicyOf[s], Tree(s), chosen) = BuildPlan(PolicyOf[s], Tree(s), only)
            /\ \/ only = <<>>
               \/ ~chosen.full /\ only[1] = chosen.suites \cup Suites(PolicyOf[s], Tree(s), Floor(PolicyOf[s]))
      BY <3>1, EnforcedAsks
    <3> QED BY <3>2, <3>3
  <2>2. CASE trigger = "manual"
    BY <2>2, GateByHand
  <2> QED BY <2>1, <2>2
<1>2. w \in Selectable(PolicyOf[s], Tree(s))
  BY DEF Fits
<1>3. only = <<>> \/ SuitesByWorker(PolicyOf[s], Tree(s))[w] \subseteq only[1]
  BY <1>1 DEF Fits
<1>4. BuildPlan(PolicyOf[s], Tree(s), only).ok = TRUE
  BY <1>1
<1>5. \E t \in BuildPlan(PolicyOf[s], Tree(s), only).tasks : w \in WorkersFor(t)
  BY <1>2, <1>3, <1>4, PlanHasTask
<1> QED BY <1>1, <1>5

\* Whatever a pull request does to its suites, and whatever models answer or fail to: each
\* worker of the floor and each selected one has a task in a gate that is not refused.
THEOREM FloorKeptAlways == Spec => []FloorKept
<1>1. SelectInv => FloorKept
  <2> SUFFICES ASSUME SelectInv, user \in {"select", "manual"}, over, Gated.ok = TRUE
               PROVE  /\ user = "select" =>
                           \A w \in Floor(PolicyOf[scene]) :
                             \E t \in Gated.tasks : t.lane = "gate" /\ w \in WorkersFor(t)
                      /\ outcome = "selection" =>
                           \A w \in selection.workers : \E t \in Gated.tasks : w \in WorkersFor(t)
    BY DEF FloorKept
  <2>1. scene \in DOMAIN Scenes
    BY DEF SelectInv, SceneKnown
  <2>2. ASSUME user = "select", NEW w \in Floor(PolicyOf[scene])
        PROVE  \E t \in Gated.tasks : t.lane = "gate" /\ w \in WorkersFor(t)
    <3>1. PICK chosen : Gated = PlanFor(scene, "pr", chosen)
      BY <2>1, <2>2 DEF Gated, Whole
    <3>2. Gated = Enforced(PolicyOf[scene], Tree(scene), chosen)
      BY <2>1, <3>1, GateEnforces
    <3> QED BY <3>2, <2>2, FloorIsEnforced
  <2>3. ASSUME outcome = "selection", NEW w \in selection.workers
        PROVE  \E t \in Gated.tasks : w \in WorkersFor(t)
    <3>1. Fits(selection, scene)
      BY <2>3 DEF SelectInv, SelectedFits
    <3>2. PICK trigger \in {"pr", "manual"} : Gated = PlanFor(scene, trigger, selection)
      BY <2>3 DEF Gated
    <3> QED BY <2>1, <2>3, <3>1, <3>2, SelectedHasTask
  <2> QED BY <2>2, <2>3
<1> QED BY <1>1, SelectInvariant, PTL DEF Spec
-----------------------------------------------------------------------------
(* Costs.                                                                   *)

CostTypeOK ==
  /\ unknown \in Nat /\ usage \in BOOLEAN /\ tokens \in Nat
  /\ truth = [untold |-> truth.untold, told |-> truth.told, bare |-> truth.bare]
  /\ truth.untold \in Nat /\ truth.told \in Nat /\ truth.bare \in Nat
  /\ rows = [untold |-> rows.untold, told |-> rows.told]
  /\ rows.untold \in Nat /\ rows.told \in Nat

\* What a call that goes on has cost beyond the rows; no answer has come yet if it is
\* still asked, and one at most for a selection.
CallTallied ==
  user \in {"generate", "select"} /\ ~over =>
    /\ truth.untold = rows.untold + unknown
    /\ truth.told = rows.told + IF usage THEN 1 ELSE 0
    /\ callPc = "ask" => ~usage
    /\ user = "select" =>
         /\ rows.told = 0
         /\ callPc = "ask" => truth.bare = 0
         /\ callPc = "returned" => truth.told + truth.bare = 1

\* What an agent has cost; its only row is written when it is over.
AgentTallied ==
  user = "agent" /\ ~over =>
    /\ truth.untold = unknown /\ truth.told = tokens
    /\ agentPc # "raised" => unknown = 0

SameCosts(r, t) == r.untold = t.untold /\ r.told = t.told

Tallied == over => outcome = "unfit" \/ SameCosts(rows, truth)

CostInv == CostTypeOK /\ CallTallied /\ AgentTallied /\ Tallied

\* A new command has cost nothing.
LEMMA BeginCosts ==
  ASSUME CostInv, Begin
  PROVE  CostInv'
<1>1. /\ rows' = [untold |-> 0, told |-> 0] /\ truth' = [untold |-> 0, told |-> 0, bare |-> 0]
      /\ unknown' = 0 /\ usage' = FALSE /\ tokens' = 0
      /\ callPc' # "returned"
  BY DEF Begin, BeginGenerate, BeginAgent, BeginSelect, BeginManual, BeginRun, NoCall, FirstCall,
         StartCall, NoAgent, StartAgent, FreshRun, NothingSent
<1>2. CostTypeOK' /\ Tallied'
  BY <1>1 DEF CostTypeOK, Tallied, SameCosts
<1> QED BY <1>1, <1>2 DEF CostInv, CallTallied, AgentTallied

\* A call counts what each of its requests leaves unknown, and the usage of the last.
LEMMA CallCosts ==
  ASSUME CostInv, CallOfUser
  PROVE  CostInv'
<1>1. /\ ~over /\ user \in {"generate", "select"} /\ CallStep /\ callPc = "ask"
      /\ UNCHANGED <<agentVars, useVars>>
  BY DEF CallOfUser, CallStep, Denied, Exchange
<1>2. /\ truth.untold = rows.untold + unknown /\ truth.told = rows.told /\ ~usage
      /\ user = "select" => rows.told = 0 /\ truth.bare = 0
  BY <1>1 DEF CostInv, CallTallied, CostTypeOK
<1>3. CASE Denied
  BY <1>1, <1>2, <1>3 DEF Denied, CostInv, CostTypeOK, CallTallied, AgentTallied, Tallied, over, agentVars, useVars
<1>4. ASSUME NEW f \in Fates, Exchange(f) PROVE CostInv'
  <2>1. /\ truth' = [untold |-> truth.untold + CostUnknown(f),
                     told   |-> truth.told + IF TellsUsage(f) THEN 1 ELSE 0,
                     bare   |-> truth.bare + IF f = "good_bare" THEN 1 ELSE 0]
        /\ unknown' = unknown + CostUnknown(f) /\ usage' = TellsUsage(f)
        /\ callPc' = "ask" => AsksAgain(f) \/ FallsBack(f)
        /\ callPc' = "returned" => f \in Accepted
    BY <1>4 DEF Exchange, Billed
  <2>2. CostUnknown(f) \in Nat /\ TellsUsage(f) \in BOOLEAN
    BY DEF CostUnknown, TellsUsage
  <2>3. callPc' = "ask" => ~usage'
    BY <2>1 DEF AsksAgain, FallsBack, Transient, TellsUsage, Unusable, Bare
  <2>4. user = "select" => /\ callPc' = "ask" => truth'.bare = 0
                           /\ callPc' = "returned" => truth'.told + truth'.bare = 1
    <3>1. callPc' = "ask" => f # "good_bare"
      BY <2>1 DEF AsksAgain, FallsBack, Transient, GivesUp
    <3>2. callPc' = "returned" => \/ f # "good_bare" /\ TellsUsage(f)
                                  \/ f = "good_bare" /\ ~TellsUsage(f)
      BY <2>1 DEF TellsUsage, Accepted, Unusable, Bare
    <3>3. CASE f = "good_bare"
      BY <1>2, <2>1, <3>1, <3>2, <3>3
    <3>4. CASE f # "good_bare"
      <4>1. truth'.bare = truth.bare /\ truth.bare \in Nat /\ truth.told \in Nat
        BY <2>1, <3>4 DEF CostInv, CostTypeOK
      <4>2. callPc' = "returned" => truth'.told = truth.told + 1
        BY <2>1, <3>2, <3>4
      <4> QED BY <1>2, <4>1, <4>2 DEF CostInv, CostTypeOK
    <3> QED BY <3>3, <3>4
  <2>5. UNCHANGED <<user, outcome, rows, tokens>>
    BY <1>1 DEF agentVars, useVars
  <2>6. CostTypeOK'
    BY <2>1, <2>2, <2>5 DEF CostInv, CostTypeOK
  <2>7. /\ truth'.untold = rows.untold + unknown'
        /\ truth'.told = rows.told + IF usage' THEN 1 ELSE 0
    BY <1>2, <2>1, <2>2 DEF CostInv, CostTypeOK
  <2> QED BY <1>1, <1>2, <2>3, <2>4, <2>5, <2>6, <2>7
          DEF CostInv, CallTallied, AgentTallied, Tallied, over
<1> QED BY <1>1, <1>3, <1>4 DEF CallStep

\* A row says what the call has left unknown, and whether its usage was told.
LEMMA RecordTells ==
  ASSUME CostInv, ~over, user \in {"generate", "select"}, Record
  PROVE  /\ rows' = [untold |-> truth.untold, told |-> truth.told]
         /\ truth.untold \in Nat /\ truth.told \in Nat
BY DEF CostInv, CallTallied, CostTypeOK, Record

\* The end of a call.
LEMMA AnswerCosts ==
  ASSUME CostInv, GenerateAnswered \/ GenerateFailed \/ SelectAnswered \/ SelectFailed
  PROVE  CostInv'
<1>1. /\ ~over /\ user \in {"generate", "select"} /\ Record
      /\ UNCHANGED <<user, truth, tokens>>
      /\ \/ outcome' # "running" /\ UNCHANGED <<unknown, usage>>
         \/ user = "generate" /\ unknown' = 0 /\ usage' = FALSE /\ callPc' # "returned"
  BY DEF GenerateAnswered, GenerateFailed, SelectAnswered, SelectFailed, StartCall, agentVars, over
<1>2. rows' = [untold |-> truth.untold, told |-> truth.told]
  BY <1>1, RecordTells
<1>3. unknown' \in Nat /\ usage' \in BOOLEAN /\ tokens' \in Nat
  <2>1. unknown \in Nat /\ usage \in BOOLEAN /\ tokens \in Nat
    BY DEF CostInv, CostTypeOK
  <2>2. /\ unknown' = unknown \/ unknown' = 0
        /\ usage' = usage \/ usage' = FALSE
        /\ tokens' = tokens
    BY <1>1
  <2>3. unknown' \in Nat
    BY <2>1, <2>2
  <2>4. usage' \in BOOLEAN
    BY <2>1, <2>2, Zenon
  <2> QED BY <2>1, <2>2, <2>3, <2>4
<1>4. /\ rows'.untold = truth.untold /\ rows'.told = truth.told
      /\ rows' = [untold |-> rows'.untold, told |-> rows'.told]
      /\ truth' = [untold |-> truth'.untold, told |-> truth'.told, bare |-> truth'.bare]
      /\ truth'.untold = truth.untold /\ truth'.told = truth.told
      /\ truth'.untold \in Nat /\ truth'.told \in Nat /\ truth'.bare \in Nat
  BY <1>1, <1>2 DEF CostInv, CostTypeOK
<1>5. CostTypeOK'
  BY <1>1, <1>3, <1>4 DEF CostTypeOK
<1>6. CallTallied'
  BY <1>1, <1>4 DEF CallTallied, over
<1> QED BY <1>1, <1>4, <1>5, <1>6 DEF CostInv, AgentTallied, Tallied, SameCosts

\* Each turn of an agent is answered, with its usage or without one, or ends the loop.
LEMMA AgentCosts ==
  ASSUME CostInv, TurnOfAgent
  PROVE  CostInv'
<1>1. /\ ~over /\ user = "agent" /\ AgentStep /\ UNCHANGED useVars
      /\ truth.untold = unknown /\ truth.told = tokens
      /\ agentPc # "raised" => unknown = 0
  BY DEF TurnOfAgent, CostInv, AgentTallied
<1>2. /\ agentPc # "raised"
      /\ \/ UNCHANGED <<unknown, usage, truth, tokens>>
         \/ /\ truth' = [truth EXCEPT !.told = @ + 1] /\ tokens' = tokens + 1
            /\ UNCHANGED <<unknown, usage>>
         \/ /\ truth' = [truth EXCEPT !.bare = @ + 1]
            /\ UNCHANGED <<unknown, usage, tokens>>
         \/ /\ \E n \in Nat : truth' = [truth EXCEPT !.untold = @ + n] /\ unknown' = n
            /\ agentPc' = "raised" /\ UNCHANGED <<usage, tokens>>
  <2>1. CASE OutOfBudget \/ DeniedTurn \/ OtherTool \/ SubmitTool \/ FinishTool
    BY <2>1 DEF OutOfBudget, DeniedTurn, OtherTool, SubmitTool, FinishTool, NextTool, MayAsk, callVars
  <2>2. CASE UnusableTurn \/ PausedTurn \/ IdleTurn \/ ToolTurn
    BY <2>2 DEF UnusableTurn, PausedTurn, IdleTurn, ToolTurn, Answered, MayAsk
  <2>3. ASSUME NEW f, LostTurn(f)
        PROVE  /\ agentPc # "raised" /\ agentPc' = "raised" /\ UNCHANGED <<usage, tokens>>
               /\ \E n \in Nat : truth' = [truth EXCEPT !.untold = @ + n] /\ unknown' = n
    <3>1. CostUnknown(f) \in Nat
      BY DEF CostUnknown
    <3> QED BY <2>3, <3>1 DEF LostTurn, MayAsk
  <2> QED BY <1>1, <2>1, <2>2, <2>3 DEF AgentStep
<1>3. CostTypeOK' /\ truth'.untold = unknown' /\ truth'.told = tokens'
  <2>1. CASE UNCHANGED <<unknown, usage, truth, tokens>>
    BY <1>1, <2>1 DEF CostInv, CostTypeOK, useVars
  <2>2. CASE /\ truth' = [truth EXCEPT !.told = @ + 1] /\ tokens' = tokens + 1
             /\ UNCHANGED <<unknown, usage>>
    <3>1. truth' = [untold |-> truth.untold, told |-> truth.told + 1, bare |-> truth.bare]
      BY <2>2 DEF CostInv, CostTypeOK
    <3> QED BY <1>1, <2>2, <3>1 DEF CostInv, CostTypeOK, useVars
  <2>4. CASE truth' = [truth EXCEPT !.bare = @ + 1] /\ UNCHANGED <<unknown, usage, tokens>>
    <3>1. truth' = [untold |-> truth.untold, told |-> truth.told, bare |-> truth.bare + 1]
      BY <2>4 DEF CostInv, CostTypeOK
    <3> QED BY <1>1, <2>4, <3>1 DEF CostInv, CostTypeOK, useVars
  <2>3. ASSUME NEW n \in Nat, truth' = [truth EXCEPT !.untold = @ + n], unknown' = n,
               UNCHANGED <<usage, tokens>>
        PROVE  CostTypeOK' /\ truth'.untold = unknown' /\ truth'.told = tokens'
    <3>1. truth' = [untold |-> truth.untold + n, told |-> truth.told, bare |-> truth.bare]
      BY <2>3 DEF CostInv, CostTypeOK
    <3> QED BY <1>1, <1>2, <2>3, <3>1 DEF CostInv, CostTypeOK, useVars
  <2> QED BY <1>2, <2>1, <2>2, <2>3, <2>4
<1>4. (agentPc # "raised" => unknown = 0)'
  BY <1>1, <1>2
<1> QED BY <1>1, <1>3, <1>4 DEF CostInv, CallTallied, AgentTallied, Tallied, over, useVars

\* The one row of an agent.
LEMMA AgentOverCosts ==
  ASSUME CostInv, AgentOver
  PROVE  CostInv'
<1>1. /\ ~over /\ user = "agent" /\ over' /\ UNCHANGED <<user, truth, tokens, unknown, usage>>
      /\ rows' = [untold |-> unknown, told |-> tokens] \/ (outcome' = "unfit" /\ UNCHANGED rows)
      /\ truth.untold = unknown /\ truth.told = tokens
  BY DEF AgentOver, RecordAgent, callVars, over, CostInv, AgentTallied
<1>2. CostTypeOK'
  BY <1>1 DEF CostInv, CostTypeOK
<1>3. outcome' = "unfit" \/ SameCosts(rows', truth)
  BY <1>1 DEF SameCosts
<1> QED BY <1>1, <1>2, <1>3 DEF CostInv, CallTallied, AgentTallied, Tallied, SameCosts

\* What commands have cost is known at each step.
LEMMA CostStep == CostInv /\ [Next]_vars => CostInv'
<1>1. ASSUME CostInv, UNCHANGED vars PROVE CostInv'
  BY <1>1 DEF vars, callVars, agentVars, useVars, over, CostInv, CostTypeOK, CallTallied, AgentTallied, Tallied, SameCosts
<1> QED BY <1>1, BeginCosts, CallCosts, AnswerCosts, AgentCosts, AgentOverCosts DEF Next, Work

\* Nothing was spent before the first command.
LEMMA CostInitially == Init => CostInv
<1> SUFFICES ASSUME Init PROVE CostInv
  OBVIOUS
<1>1. /\ truth = [untold |-> 0, told |-> 0, bare |-> 0] /\ rows = [untold |-> 0, told |-> 0]
      /\ unknown = 0 /\ usage = FALSE /\ tokens = 0 /\ user = "none"
  BY DEF Init, CallInit, AgentInit, NothingSent
<1>2. CostTypeOK
  BY <1>1 DEF CostTypeOK
<1> QED BY <1>1, <1>2 DEF CostInv, CallTallied, AgentTallied, Tallied, SameCosts

\* What is to be recorded and what was spent agree at all times.
LEMMA CostInvariant == Safe => []CostInv
BY CostInitially, CostStep, PTL DEF Safe

\* Every request that was refused or not answered and every cost that was told are in a row
\* of llm_usage.json when the command ends, however it failed or was repeated, but for the
\* errors of generate_agent that carry no calls (costing.py row, _failed_llm).
THEOREM EverySpendingIsTold == Spec => []NothingSpentUnseen
<1>1. CostInv => NothingSpentUnseen
  BY DEF CostInv, Tallied, SameCosts, NothingSpentUnseen
<1> QED BY <1>1, CostInvariant, PTL DEF Spec
-----------------------------------------------------------------------------
(* What an agent calls complete.                                            *)

\* An accepted finish without gaps ends the loop: nothing is submitted after it.
CoverInv ==
  /\ completed => agentPc \in {"ended", "idle"} /\ Gaps(covered, excused, waived) = {}
  /\ completed \in BOOLEAN
  /\ user = "agent" /\ outcome = "catalog" => completed

\* The turns of an agent, its tools among them.
LEMMA AgentCovers == ASSUME CoverInv, TurnOfAgent PROVE CoverInv'
<1>1. AgentStep /\ outcome = "running" /\ UNCHANGED useVars
  BY DEF TurnOfAgent, over
<1>2. CASE FinishTool
  <2>1. ~completed
    BY <1>2 DEF FinishTool, CoverInv
  <2>2. completed' \in BOOLEAN /\ (completed' => agentPc' = "ended" /\ Gaps(covered, excused', waived') = {})
    <3>1. CASE completed' = (Gaps(covered, excused', waived') = {}) /\ agentPc' = "ended"
      BY <3>1
    <3>2. CASE completed' = completed
      BY <2>1, <3>2, Zenon DEF CoverInv
    <3> QED BY <1>2, <3>1, <3>2 DEF FinishTool
  <2>3. Gaps(covered, excused, waived)' = Gaps(covered, excused', waived')
    BY <1>2 DEF Gaps, FinishTool
  <2>4. outcome' # "catalog"
    BY <1>1 DEF useVars
  <2> QED BY <2>2, <2>3, <2>4 DEF CoverInv
<1>3. CASE ~FinishTool
  <2>1. agentPc \in {"turn", "tools"} /\ completed' = completed
    BY <1>1, <1>3 DEF AgentStep, OutOfBudget, DeniedTurn, UnusableTurn, PausedTurn, IdleTurn, ToolTurn,
       LostTurn, Answered, MayAsk, OtherTool, SubmitTool, NextTool, stateVars
  <2> QED BY <1>1, <2>1 DEF CoverInv, useVars
<1> QED BY <1>2, <1>3

\* Every step keeps it.
LEMMA CoverStep == CoverInv /\ [Next]_vars => CoverInv'
<1> SUFFICES ASSUME CoverInv, [Next]_vars PROVE CoverInv'
  OBVIOUS
<1>1. CASE Begin
  <2>1. completed' = FALSE /\ ~(user' = "agent" /\ outcome' = "catalog")
    BY <1>1 DEF Begin, BeginGenerate, BeginAgent, BeginSelect, BeginManual, BeginRun,
       NoAgent, StartAgent, FreshRun
  <2> QED BY <2>1 DEF CoverInv
<1>2. CASE AgentOver
  <2>1. /\ agentPc' = "idle" /\ UNCHANGED <<covered, excused, waived, completed>>
        /\ outcome' = "catalog" => completed
    BY <1>2 DEF AgentOver, stateVars
  <2>2. Gaps(covered, excused, waived)' = Gaps(covered, excused, waived)
    BY <2>1 DEF Gaps
  <2> QED BY <2>1, <2>2 DEF CoverInv
<1>3. CASE TurnOfAgent
  BY <1>3, AgentCovers
<1>4. CASE \/ CallOfUser \/ GenerateAnswered \/ GenerateFailed \/ SelectAnswered \/ SelectFailed
           \/ UNCHANGED vars
  <2>1. /\ UNCHANGED agentVars /\ user' = user
        /\ user = "agent" => outcome' = outcome
    BY <1>4 DEF CallOfUser, GenerateAnswered, GenerateFailed, SelectAnswered, SelectFailed, vars, useVars
  <2>2. UNCHANGED <<agentPc, covered, excused, waived, completed>>
    BY <2>1 DEF agentVars, stateVars
  <2> QED BY <2>1, <2>2 DEF CoverInv, Gaps
<1> QED BY <1>1, <1>2, <1>3, <1>4 DEF Next, Work

\* An agent's catalogue is complete only if nothing is left open, whatever it submits,
\* excuses and waives, in whatever order (_State.finish_tool).
THEOREM CompleteIsCovered == Spec => []CompletedCovers
<1>1. Init => CoverInv
  BY DEF Init, AgentInit, CoverInv
<1>2. CoverInv => CompletedCovers
  BY DEF CoverInv, CompletedCovers
<1>3. Safe => []CoverInv
  BY <1>1, CoverStep, PTL DEF Safe
<1> QED BY <1>2, <1>3, PTL DEF Spec
-----------------------------------------------------------------------------
(* What narrows a gate.                                                     *)

\* A selection was made by the rules, by a model, from the cache, or is everything.
Grounded(s) ==
  \/ \E source \in {"rules", "fallback"} : selection = AllOf[s][source]
  \/ \E source \in {"rules", "llm", "cache"}, ws \in SUBSET Selectable(PolicyOf[s], Tree(s)) :
       /\ selection = Selected(s, source, ws)
       /\ \/ source = "rules" /\ Decision(Scenes[s].changed) = "floor"
          \/ source = "llm" /\ truth.told + truth.bare = 1
          \/ source = "cache" /\ lines = 0

GroundInv == user = "select" /\ outcome = "selection" => scene \in CanSelect /\ Grounded(scene)

\* A selection is left alone until the next command.
LEMMA GroundKept ==
  ASSUME GroundInv, UNCHANGED <<user, scene, outcome, selection, truth, lines>>
  PROVE  GroundInv'
BY DEF GroundInv, Grounded

\* The rules and the cache.
LEMMA BeginGrounds ==
  ASSUME SelectInv, NEW s \in DOMAIN Scenes, BeginSelect, scene' = s, outcome' = "selection"
  PROVE  s \in CanSelect /\ Grounded(s)'
<1>1. /\ s \in CanSelect /\ lines' = 0
      /\ \/ /\ Decision(Scenes[s].changed) = "full" /\ selection' = AllOf[s]["rules"]
         \/ /\ Decision(Scenes[s].changed) \notin {"full", "analysis"} /\ selection' = Selected(s, "rules", {})
         \/ \E e \in Hit("select", s) : selection' = Selected(s, "cache", e.workers)
         \/ selection' = AllOf[s]["fallback"]
  BY DEF BeginSelect, BeginRun, FirstCall
<1>2. Decision(Scenes[s].changed) \in {"floor", "full", "analysis"}
  BY DEF Decision
<1>3. \A e \in Hit("select", s) : e.workers \in SUBSET Selectable(PolicyOf[s], Tree(s))
  BY <1>1, HitFits DEF SelectInv
<1>4. ASSUME NEW source \in {"rules", "fallback"}, selection' = AllOf[s][source]
      PROVE  Grounded(s)'
  BY <1>4 DEF Grounded
<1>5. ASSUME NEW e \in Hit("select", s), selection' = Selected(s, "cache", e.workers)
      PROVE  Grounded(s)'
  <2>1. Selected(s, "cache", e.workers)' = Selected(s, "cache", e.workers)
    OBVIOUS
  <2> QED BY <1>1, <1>3, <1>5, <2>1 DEF Grounded
<1>6. ASSUME Decision(Scenes[s].changed) = "floor", selection' = Selected(s, "rules", {})
      PROVE  Grounded(s)'
  BY <1>6 DEF Grounded
<1> QED BY <1>1, <1>2, <1>4, <1>5, <1>6

\* Every step grounds the selection it makes.
LEMMA GroundStep ==
  ASSUME SelectInv, CostInv, GroundInv, [Next]_vars
  PROVE  GroundInv'
<1>1. CASE BeginSelect
  <2>1. user' = "select" /\ scene' \in DOMAIN Scenes
    BY <1>1 DEF BeginSelect, BeginRun
  <2> QED BY <1>1, <2>1, BeginGrounds DEF GroundInv
<1>2. CASE SelectAnswered
  <2>1. /\ user = "select" /\ scene \in CanSelect /\ callPc = "returned"
        /\ UNCHANGED <<user, scene, truth, lines>> /\ truth.told + truth.bare = 1
    BY <1>2 DEF SelectAnswered, SelectInv, AskedFits, over, CostInv, CallTallied, CostTypeOK
  <2>2. PICK ws \in SUBSET Selectable(PolicyOf[scene], Tree(scene)) : selection' = Selected(scene, "llm", ws)
    BY <1>2 DEF SelectAnswered
  <2> QED BY <2>1, <2>2 DEF GroundInv, Grounded
<1>3. CASE SelectFailed
  <2>1. /\ user = "select" /\ scene \in CanSelect /\ UNCHANGED <<user, scene>>
        /\ selection' = AllOf[scene]["fallback"]
    BY <1>3 DEF SelectFailed, SelectInv, AskedFits, over
  <2> QED BY <2>1 DEF GroundInv, Grounded
<1>4. CASE BeginGenerate \/ BeginAgent \/ BeginManual \/ GenerateAnswered \/ GenerateFailed \/ AgentOver
  <2>1. user' # "select"
    BY <1>4 DEF BeginGenerate, BeginAgent, BeginManual, BeginRun, GenerateAnswered, GenerateFailed, AgentOver
  <2> QED BY <2>1 DEF GroundInv
<1>5. CASE CallOfUser \/ TurnOfAgent
  <2>1. outcome' = "running"
    BY <1>5 DEF CallOfUser, TurnOfAgent, over, useVars
  <2> QED BY <2>1 DEF GroundInv
<1>6. CASE UNCHANGED vars
  BY <1>6, GroundKept DEF vars, useVars, callVars
<1> QED BY <1>1, <1>2, <1>3, <1>4, <1>5, <1>6 DEF Next, Begin, Work

\* A plan of everything is that of no selection at all.
LEMMA AllIsWhole ==
  ASSUME NEW s \in CanSelect, NEW source \in {"rules", "fallback"},
         PlanFor(s, "pr", AllOf[s][source]).ok = TRUE
  PROVE  PlanFor(s, "pr", AllOf[s][source]) = PlanFor(s, "pr", Unavailable)
<1> DEFINE all == AllOf[s][source]
           P   == PolicyOf[s]
           T   == Tree(s)
<1>1. s \in DOMAIN Scenes /\ Floor(P) \subseteq Selectable(P, T)
  BY DEF CanSelect, Askable
<1>2. /\ Resolves(Scenes[s].default, Scenes[s].own) /\ Scenes[s].mode \in DOMAIN ModesOf(s)
      /\ SuitesLoad(T) /\ P = ModesOf(s)[Scenes[s].mode]
  BY DEF CanSelect, Askable, PolicyOf
<1>3. \A chosen : PlanFor(s, "pr", chosen) = Enforced(P, T, chosen)
  BY <1>2 DEF PlanFor, GatePlan, ModesOf
<1>4. all.full = TRUE
  BY DEF AllOf, Full, MergeFloor, Selection
<1>5. Enforced(P, T, all) = BuildPlan(P, T, <<>>)
  <2>1. Enforced(P, T, all).ok = TRUE
    BY <1>3
  <2> HIDE DEF all, P, T
  <2>2. PICK only : /\ Enforced(P, T, all) = BuildPlan(P, T, only)
                    /\ only = <<>> \/ ~all.full
    BY <2>1, EnforcedAsks
  <2> QED BY <1>4, <2>2
<1>6. Enforced(P, T, Unavailable) = BuildPlan(P, T, <<>>)
  BY <1>1 DEF Enforced, Unavailable, Selection
<1> QED BY <1>3, <1>5, <1>6

\* A plan that is accepted holds each suite asked for.
LEMMA PlanHasSuites ==
  ASSUME NEW policy, NEW tree, NEW only, BuildPlan(policy, tree, only).ok,
         NEW names, names \subseteq PolicySuites(policy, tree) \cap DOMAIN tree,
         only = <<>> \/ names \subseteq only[1]
  PROVE  names \subseteq BuildPlan(policy, tree, only).suites
<1>1. ~Refused.ok
  BY DEF Refused
<1> QED BY <1>1 DEF BuildPlan

\* What is hinted at is in the gate of a selection.
LEMMA HintsStay ==
  ASSUME NEW s \in CanSelect, NEW source, NEW ws,
         PlanFor(s, "pr", Selected(s, source, ws)).ok = TRUE
  PROVE  Suites(PolicyOf[s], Tree(s), HintsOf[s]) \subseteq PlanFor(s, "pr", Selected(s, source, ws)).suites
<1> DEFINE P      == PolicyOf[s]
           T      == Tree(s)
           chosen == Selected(s, source, ws)
           names  == Suites(P, T, HintsOf[s])
<1>1. s \in DOMAIN Scenes
  BY DEF CanSelect, Askable
<1>2. names \subseteq chosen.suites
  BY DEF Selected, Narrow, MergeFloor, Selection, Suites
<1>3. names \subseteq PolicySuites(P, T) \cap DOMAIN T
  BY DEF Suites, SuitesByWorker
<1>4. PlanFor(s, "pr", chosen) = Enforced(P, T, chosen)
  BY <1>1, GateEnforces
<1>5. Enforced(P, T, chosen).ok = TRUE
  BY <1>4
<1> HIDE DEF P, T, chosen, names
<1>6. PICK only : /\ Enforced(P, T, chosen) = BuildPlan(P, T, only)
                  /\ \/ only = <<>>
                     \/ ~chosen.full /\ only[1] = chosen.suites \cup Suites(P, T, Floor(P))
  BY <1>5, EnforcedAsks
<1>7. BuildPlan(P, T, only).ok = TRUE
  BY <1>5, <1>6, Zenon
<1>8. only = <<>> \/ names \subseteq only[1]
  BY <1>2, <1>6
<1>9. names \subseteq BuildPlan(P, T, only).suites
  BY <1>3, <1>7, <1>8, PlanHasSuites
<1> QED BY <1>4, <1>6, <1>9 DEF P, T, chosen, names

\* No error, refusal, timeout or missing answer of a model narrows a gate, and no answer
\* takes out what the module map hints at (selector/agent.py select, run_project).
THEOREM OnlyAnswersNarrow == Spec => []NarrowedByAnswerOnly
<1>1. Init => GroundInv
  BY DEF Init, GroundInv
<1>2. Safe => [](SelectInv /\ CostInv /\ GroundInv)
  BY <1>1, SelectInit, SelectStep, CostInitially, CostStep, GroundStep, PTL DEF Safe
<1>3. ASSUME GroundInv, SelectInv PROVE NarrowedByAnswerOnly
  <2> SUFFICES ASSUME user = "select", over, Gated.ok, Gated # Whole[scene]
               PROVE  /\ Suites(PolicyOf[scene], Tree(scene), HintsOf[scene]) \subseteq Gated.suites
                      /\ \/ selection.source = "rules" /\ Decision(Scenes[scene].changed) = "floor"
                         \/ selection.source = "llm" /\ truth.told + truth.bare = 1
                         \/ selection.source = "cache" /\ lines = 0
    BY DEF NarrowedByAnswerOnly
  <2>1. outcome = "selection" /\ Gated = PlanFor(scene, "pr", selection)
    BY DEF Gated
  <2>2. scene \in CanSelect /\ Grounded(scene) /\ scene \in DOMAIN Scenes
    BY <1>3, <2>1 DEF GroundInv, SelectInv, SceneKnown
  <2>3. Whole[scene] = PlanFor(scene, "pr", Unavailable)
    BY <2>2 DEF Whole
  <2>4. \A source \in {"rules", "fallback"} : selection # AllOf[scene][source]
    BY <2>1, <2>2, <2>3, AllIsWhole
  <2>5. PICK source \in {"rules", "llm", "cache"}, ws \in SUBSET Selectable(PolicyOf[scene], Tree(scene)) :
          /\ selection = Selected(scene, source, ws)
          /\ \/ source = "rules" /\ Decision(Scenes[scene].changed) = "floor"
             \/ source = "llm" /\ truth.told + truth.bare = 1
             \/ source = "cache" /\ lines = 0
    BY <2>2, <2>4 DEF Grounded
  <2>6. selection.source = source
    BY <2>5 DEF Selected, Narrow, MergeFloor, Selection
  <2>7. Gated.ok = TRUE
    BY <2>1 DEF PlanFor, GatePlan, Enforced, BuildPlan, Refused
  <2> QED BY <2>1, <2>2, <2>5, <2>6, <2>7, HintsStay
<1> QED BY <1>2, <1>3, PTL DEF Spec
-----------------------------------------------------------------------------
(* The requests of a command stay within its allowance.                     *)

\* Requests of a call to Gemini before the one that asks this model for this time.
Sent(m, r) == (m - 1) * (MaxRetries + 1) + r

\* Requests of this call so far; an ended call counts as all it might have sent.
Spent == IF callPc # "ask" THEN PerCall ELSE IF provider = "gemini" THEN Sent(model, retry) ELSE 0

CallWithin ==
  /\ model \in 1..NModels /\ retry \in 0..MaxRetries
  /\ attempts = 1 \/ (attempts = 2 /\ user = "generate")
  /\ callPc \in {"ask", "returned", "raised"}
  /\ lines <= (attempts - 1) * PerCall + Spent
AgentWithin == tokens \in 0..lines /\ lines <= MaxTurns /\ price \in Prices

BudgetInv ==
  /\ provider \in {"claude", "gemini"} /\ lines \in Nat
  /\ ~over => user \in {"generate", "agent", "select"}
  /\ ~over /\ user # "agent" => CallWithin
  /\ ~over /\ user = "agent" => AgentWithin

\* Each request of a call is another one, and the last is the last of the last model.
LEMMA SentGrows ==
  ASSUME NEW m \in 1..NModels, NEW r \in 0..MaxRetries
  PROVE  /\ Sent(m, r) \in Nat
         /\ Sent(m, r + 1) = Sent(m, r) + 1
         /\ Sent(m, r) + 1 <= Sent(m + 1, 0)
         /\ Sent(m, r) + 1 <= NModels * (MaxRetries + 1)
         /\ Sent(1, 0) = 0
<1> DEFINE K == MaxRetries + 1
<1>1. K \in Nat /\ K > 0 /\ r < K /\ NModels \in Nat
  BY CallAssumption
<1>2. (m - 1) * K \in Nat /\ m * K = (m - 1) * K + K /\ m * K <= NModels * K
  <2> HIDE DEF K
  <2>1. (m - 1) * K \in Nat /\ m * K = (m - 1) * K + K
    BY <1>1
  <2>2. NModels * K = m * K + (NModels - m) * K /\ (NModels - m) * K \in Nat
    BY <1>1
  <2> QED BY <1>1, <2>1, <2>2
<1>3. (m + 1) - 1 = m /\ (1 - 1) * K = 0
  BY <1>1
<1> QED BY <1>1, <1>2, <1>3 DEF Sent

\* What a call may send.
LEMMA CallBounds ==
  ASSUME provider \in {"claude", "gemini"}
  PROVE  PerCall \in Nat /\ PerCall > 0 /\ 2 * PerCall + MaxTurns <= MostLines
<1> DEFINE all == NModels * (MaxRetries + 1)
<1>1. 1 \in 1..NModels /\ 0 \in 0..MaxRetries /\ MaxTurns \in Nat
  BY CallAssumption, AgentAssumption
<1>2. all \in Nat /\ all >= 1
  BY <1>1, CallAssumption, SentGrows
<1>3. MostLines = 2 * all + MaxTurns
  BY <1>1, CallAssumption DEF MostLines
<1>4. PerCall \in {all, 1}
  BY DEF PerCall
<1> HIDE DEF all
<1> QED BY <1>1, <1>2, <1>3, <1>4

\* A call that begins has sent nothing.
LEMMA CallBegins ==
  ASSUME BudgetInv, StartCall, provider' = provider
  PROVE  model' \in 1..NModels /\ retry' \in 0..MaxRetries /\ callPc' \in {"ask", "raised"}
         /\ PerCall' = PerCall /\ Spent' \in Nat
<1>1. model' = 1 /\ retry' = 0 /\ callPc' \in {"ask", "raised"}
  BY DEF StartCall
<1>2. 1 \in 1..NModels /\ 0 \in 0..MaxRetries
  BY CallAssumption
<1>3. PerCall' = PerCall /\ PerCall \in Nat
  BY CallBounds DEF PerCall, BudgetInv
<1>4. Spent' \in Nat
  BY <1>1, <1>2, <1>3, SentGrows DEF Spent
<1> QED BY <1>1, <1>2, <1>3, <1>4

\* What begins is within its allowance.
LEMMA BeginWithin ==
  ASSUME BudgetInv, Begin
  PROVE  /\ BudgetInv' /\ over /\ lines' = 0
         /\ ~over' /\ user' = "agent" => tokens' = 0
<1>1. /\ over /\ lines' = 0 /\ provider' = provider
      /\ user' \in {"generate", "agent", "select", "manual"}
  BY DEF Begin, BeginGenerate, BeginAgent, BeginSelect, BeginManual, BeginRun
<1>2. /\ ~over' => user' # "manual"
      /\ ~over' /\ user' # "agent" => StartCall /\ attempts' = 1
      /\ ~over' /\ user' = "agent" => tokens' = 0 /\ price' \in Prices
  BY DEF Begin, BeginGenerate, BeginAgent, BeginSelect, BeginManual, BeginRun, FirstCall, NoCall,
     StartAgent, NoAgent, FreshRun, over
<1>3. ASSUME ~over', user' # "agent" PROVE CallWithin'
  <2>1. PerCall' \in Nat
    BY <1>1, CallBounds DEF BudgetInv, PerCall
  <2> QED BY <1>1, <1>2, <1>3, <2>1, CallBegins DEF CallWithin
<1>4. ASSUME ~over', user' = "agent" PROVE AgentWithin'
  BY <1>1, <1>2, <1>4, AgentAssumption DEF AgentWithin
<1> QED BY <1>1, <1>2, <1>3, <1>4 DEF BudgetInv

\* A request of a call.
LEMMA CallSends ==
  ASSUME BudgetInv, CallOfUser
  PROVE  /\ BudgetInv' /\ ~over /\ ~over' /\ user # "agent"
         /\ lines' = lines + 1 /\ lines < Allowance
         /\ UNCHANGED <<user, provider>>
<1>1. /\ ~over /\ ~over' /\ user \in {"generate", "select"} /\ UNCHANGED <<user, provider, attempts>>
      /\ callPc = "ask" /\ lines' = lines + 1
  BY DEF CallOfUser, CallStep, Denied, Exchange, over, useVars
<1>2. CallWithin /\ lines \in Nat
  BY <1>1 DEF BudgetInv
<1>3. PerCall \in Nat /\ PerCall > 0 /\ PerCall' = PerCall
  BY <1>1, CallBounds DEF BudgetInv, PerCall
<1>4. /\ model' \in 1..NModels /\ retry' \in 0..MaxRetries
      /\ callPc' \in {"ask", "returned", "raised"}
      /\ Spent \in Nat /\ Spent + 1 <= PerCall /\ Spent' >= Spent + 1 /\ Spent' \in Nat
  <2>1. CASE provider = "claude"
    <3>1. callPc' \in {"returned", "raised"} /\ UNCHANGED <<model, retry>>
      BY <1>1, <2>1 DEF CallOfUser, CallStep, Denied, Exchange, FallsBack, AsksAgain
    <3>2. Spent = 0 /\ Spent' = PerCall
      BY <1>1, <1>3, <2>1, <3>1 DEF Spent
    <3> QED BY <1>2, <1>3, <3>1, <3>2 DEF CallWithin
  <2>2. CASE provider = "gemini"
    <3>1. Spent = Sent(model, retry) /\ PerCall = NModels * (MaxRetries + 1)
      BY <1>1, <2>2 DEF Spent, PerCall
    <3>2. \/ callPc' \in {"returned", "raised"} /\ UNCHANGED <<model, retry>>
          \/ callPc' = "ask" /\ model' = model /\ retry' = retry + 1 /\ retry < MaxRetries
          \/ callPc' = "ask" /\ model' = model + 1 /\ retry' = 0 /\ model < NModels
      BY <1>1, <1>2, CallAssumption DEF CallOfUser, CallStep, Denied, Exchange, FallsBack, AsksAgain,
         GivesUp, Transient, Accepted, CallWithin
    <3>3. Spent' = IF callPc' # "ask" THEN PerCall ELSE Sent(model', retry')
      BY <1>1, <1>3, <2>2 DEF Spent
    <3>4. model' \in 1..NModels /\ retry' \in 0..MaxRetries
      BY <1>2, <3>2, CallAssumption DEF CallWithin
    <3> QED BY <1>2, <1>3, <3>1, <3>2, <3>3, <3>4, SentGrows DEF CallWithin
  <2> QED BY <2>1, <2>2 DEF BudgetInv
<1>5. /\ (attempts = 1 /\ lines + 1 <= Spent + 1) \/ (attempts = 2 /\ user = "generate" /\ lines <= PerCall + Spent)
  BY <1>2, <1>3, <1>4 DEF CallWithin
<1>6. CallWithin'
  BY <1>1, <1>2, <1>3, <1>4, <1>5 DEF CallWithin
<1>7. lines < Allowance
  BY <1>1, <1>2, <1>3, <1>4, <1>5 DEF Allowance
<1> QED BY <1>1, <1>2, <1>6, <1>7 DEF BudgetInv

\* An answer or an error ends the command, or is asked to be repaired.
LEMMA AnswersWithin ==
  ASSUME BudgetInv, GenerateAnswered \/ GenerateFailed \/ SelectAnswered \/ SelectFailed
  PROVE  /\ BudgetInv' /\ ~over /\ user # "agent"
         /\ over' \/ UNCHANGED <<user, provider, lines>>
<1>1. /\ ~over /\ user \in {"generate", "select"} /\ callPc # "ask" /\ UNCHANGED <<user, provider, lines>>
      /\ over' \/ (user = "generate" /\ attempts = 1 /\ attempts' = 2 /\ StartCall)
  BY DEF GenerateAnswered, GenerateFailed, SelectAnswered, SelectFailed, over
<1>2. ASSUME ~over' PROVE CallWithin'
  <2>1. PerCall \in Nat /\ lines \in Nat
    BY CallBounds DEF BudgetInv
  <2>2. lines <= PerCall
    BY <1>1, <1>2, <2>1 DEF BudgetInv, CallWithin, Spent
  <2>3. /\ model' \in 1..NModels /\ retry' \in 0..MaxRetries /\ callPc' \in {"ask", "raised"}
        /\ PerCall' = PerCall /\ Spent' \in Nat
    BY <1>1, <1>2, CallBegins
  <2>4. attempts' = 2 /\ user' = "generate" /\ lines' = lines
    BY <1>1, <1>2
  <2>5. lines' <= (attempts' - 1) * PerCall' + Spent'
    <3>1. \A n, c, t \in Nat : n <= c => n <= (2 - 1) * c + t
      OBVIOUS
    <3> QED BY <2>1, <2>2, <2>3, <2>4, <3>1, Zenon
  <2> QED BY <2>3, <2>4, <2>5 DEF CallWithin
<1> QED BY <1>1, <1>2 DEF BudgetInv

\* A turn is a request within the allowance while there is money, or none.
LEMMA AgentWithinAlways ==
  ASSUME BudgetInv, TurnOfAgent
  PROVE  /\ BudgetInv' /\ ~over /\ ~over' /\ user = "agent" /\ UNCHANGED <<user, provider>>
         /\ \/ UNCHANGED <<lines, tokens, price>>
            \/ lines' = lines + 1 /\ lines < MaxTurns /\ (price = 0 \/ cost < MaxCost)
<1>1. /\ ~over /\ ~over' /\ user = "agent" /\ AgentStep /\ UNCHANGED <<user, provider>>
      /\ AgentWithin /\ lines \in Nat
  BY DEF TurnOfAgent, AgentStep, OutOfBudget, DeniedTurn, UnusableTurn, PausedTurn, IdleTurn, ToolTurn,
     LostTurn, Answered, OtherTool, SubmitTool, FinishTool, NextTool, callVars, useVars, over, BudgetInv
<1>2. \/ UNCHANGED <<lines, tokens, price>>
      \/ /\ MayAsk /\ lines' = lines + 1
         /\ \/ UNCHANGED <<tokens, price>>
            \/ tokens' \in {tokens, tokens + 1} /\ price' \in Prices
  BY <1>1 DEF AgentStep, OutOfBudget, DeniedTurn, UnusableTurn, PausedTurn, IdleTurn, ToolTurn,
     LostTurn, Answered, OtherTool, SubmitTool, FinishTool, NextTool, callVars
<1>3. cost \in Int /\ MaxTurns \in Nat /\ MaxCost \in Nat
  BY <1>1, AgentAssumption DEF cost, AgentWithin
<1>4. MayAsk => lines < MaxTurns /\ (price = 0 \/ cost < MaxCost)
  BY <1>1, <1>3 DEF MayAsk, OutOfTurns, OutOfMoney, turns
<1>5. AgentWithin'
  BY <1>1, <1>2, <1>3, <1>4 DEF AgentWithin
<1> QED BY <1>1, <1>2, <1>4, <1>5 DEF BudgetInv

\* What agents may spend.
Payable == {p * t : p \in Prices, t \in 0..MaxTurns}

\* What an agent has spent is an amount, and nothing when no price is known.
LEMMA CostIsAmount ==
  ASSUME NEW n \in Nat, n <= MaxTurns, NEW t \in 0..n, NEW p \in Prices
  PROVE  /\ p * t \in Payable
         /\ p = 0 => p * t = 0
<1>1. t \in 0..MaxTurns /\ p \in Nat
  BY AgentAssumption
<1> QED BY <1>1 DEF Payable

\* Every step of a command is a step of the budget, or none of it.
LEMMA BudgetStep ==
  ASSUME BudgetInv, [Next]_vars
  PROVE  BudgetInv' /\ [Budget!Next]_(Budget!budget)
<1> DEFINE allowance == IF over THEN 0 ELSE Allowance - lines
           spent     == IF over \/ user # "agent" THEN 0 ELSE cost
<1>1. PerCall \in Nat /\ PerCall > 0 /\ 2 * PerCall + MaxTurns <= MostLines /\ MaxTurns \in Nat
  BY CallBounds, AgentAssumption DEF BudgetInv
<1>2. 0 \in Payable /\ 0 < MaxCost
  <2>1. PICK p \in Prices : p \in Nat
    BY AgentAssumption
  <2>2. 0 \in 0..MaxTurns /\ p * 0 = 0
    BY <1>1, <2>1
  <2> QED BY <2>1, <2>2, AgentAssumption DEF Payable
<1>3. ASSUME provider' = provider PROVE PerCall' = PerCall
  BY <1>3 DEF PerCall
<1>4. CASE Begin
  <2>1. BudgetInv' /\ over /\ lines' = 0 /\ (~over' /\ user' = "agent" => tokens' = 0)
    BY <1>4, BeginWithin
  <2>2. CASE over'
    BY <2>1, <2>2 DEF Budget!budget
  <2>3. CASE ~over'
    <3>1. Allowance' \in 0..MostLines
      <4>1. provider' = provider
        BY <1>4 DEF Begin, BeginGenerate, BeginAgent, BeginSelect, BeginManual, BeginRun
      <4>2. PerCall' = PerCall /\ user' \in {"generate", "agent", "select"} /\ MostLines \in Int
        BY <1>3, <2>1, <2>3, <4>1, CallAssumption, AgentAssumption DEF BudgetInv, MostLines
      <4> QED BY <1>1, <4>2 DEF Allowance
    <3>2. spent' = 0
      <4>1. ASSUME user' = "agent" PROVE cost' = 0
        <5>1. tokens' = 0 /\ price' \in Nat
          BY <2>1, <2>3, <4>1, AgentAssumption DEF BudgetInv, AgentWithin
        <5>2. \A n \in Nat : n * 0 = 0
          OBVIOUS
        <5>3. cost' = price' * tokens'
          BY Zenon DEF cost
        <5> QED BY <5>1, <5>2, <5>3, Zenon
      <4> QED BY <2>3, <4>1 DEF over
    <3>3. allowance' \in 0..MostLines
      <4>1. Allowance' - lines' = Allowance'
        <5>1. Allowance' \in Int
          BY <3>1
        <5>2. \A n \in Int : n - 0 = n
          OBVIOUS
        <5>3. lines' = 0
          BY <2>1
        <5> QED BY <5>1, <5>2, <5>3, Zenon
      <4>2. allowance' = Allowance' - lines'
        BY <2>3 DEF over
      <4> QED BY <3>1, <4>1, <4>2
    <3> QED BY <2>1, <2>3, <3>2, <3>3 DEF Budget!Next, Budget!Begin
  <2> QED BY <2>1, <2>2, <2>3
<1>5. CASE CallOfUser
  <2>1. /\ BudgetInv' /\ ~over /\ ~over' /\ user # "agent" /\ lines' = lines + 1 /\ lines < Allowance
        /\ UNCHANGED <<user, provider>> /\ lines \in Nat
    BY <1>5, CallSends DEF BudgetInv
  <2>2. Allowance' = Allowance /\ Allowance \in Int
    BY <1>1, <1>3, <2>1 DEF Allowance
  <2>3. allowance > 0 /\ allowance' = allowance - 1 /\ spent = 0 /\ spent' = 0
    BY <2>1, <2>2
  <2> QED BY <1>2, <2>1, <2>3 DEF Budget!Next, Budget!Request, Payable
<1>6. CASE GenerateAnswered \/ GenerateFailed \/ SelectAnswered \/ SelectFailed
  <2>1. /\ BudgetInv' /\ ~over /\ user # "agent"
        /\ over' \/ UNCHANGED <<user, provider, lines>>
    BY <1>6, AnswersWithin
  <2>2. CASE over'
    BY <2>1, <2>2 DEF Budget!Next, Budget!End
  <2>3. CASE ~over'
    <3>1. Allowance' = Allowance
      BY <1>3, <2>1, <2>3 DEF Allowance
    <3> QED BY <2>1, <2>3, <3>1 DEF Budget!budget, over
  <2> QED BY <2>1, <2>2, <2>3
<1>7. CASE TurnOfAgent
  <2>1. /\ BudgetInv' /\ ~over /\ ~over' /\ user = "agent" /\ user' = "agent" /\ lines \in Nat /\ lines' \in Nat
        /\ AgentWithin /\ AgentWithin'
        /\ \/ UNCHANGED <<lines, tokens, price>>
           \/ lines' = lines + 1 /\ lines < MaxTurns /\ (price = 0 \/ cost < MaxCost)
    BY <1>7, AgentWithinAlways DEF BudgetInv
  <2>2. Allowance = MaxTurns /\ Allowance' = MaxTurns
    BY <2>1 DEF Allowance
  <2>3. CASE UNCHANGED <<lines, tokens, price>>
    BY <2>1, <2>2, <2>3 DEF Budget!budget, cost, over
  <2>4. CASE lines' = lines + 1 /\ lines < MaxTurns /\ (price = 0 \/ cost < MaxCost)
    <3>1. cost < MaxCost /\ cost' \in Payable
      <4>1. lines \in Nat /\ lines <= MaxTurns /\ tokens \in 0..lines /\ price \in Prices
        BY <2>1 DEF AgentWithin
      <4>2. lines' \in Nat /\ lines' <= MaxTurns /\ tokens' \in 0..lines' /\ price' \in Prices
        BY <2>1 DEF AgentWithin
      <4>3. (price = 0 => price * tokens = 0) /\ price' * tokens' \in Payable
        BY <4>1, <4>2, CostIsAmount, Zenon
      <4>4. cost = price * tokens /\ cost' = price' * tokens'
        BY Zenon DEF cost
      <4> QED BY <1>2, <2>4, <4>3, <4>4
    <3>2. allowance > 0 /\ allowance' = allowance - 1 /\ spent = cost /\ spent' = cost'
      BY <1>1, <2>1, <2>2, <2>4
    <3> QED BY <2>1, <3>1, <3>2 DEF Budget!Next, Budget!Request, Payable
  <2> QED BY <2>1, <2>3, <2>4
<1>8. CASE AgentOver
  <2>1. ~over /\ over' /\ UNCHANGED <<provider, lines>>
    BY <1>8 DEF AgentOver, over, callVars
  <2> QED BY <2>1 DEF BudgetInv, Budget!Next, Budget!End
<1>9. CASE UNCHANGED vars
  <2>1. UNCHANGED <<provider, lines, user, outcome, callPc, model, retry, attempts, tokens, price>>
    BY <1>9 DEF vars, callVars, agentVars, useVars
  <2> QED BY <2>1 DEF Budget!budget, Allowance, PerCall, cost, over, BudgetInv, CallWithin, AgentWithin, Spent
<1> QED BY <1>4, <1>5, <1>6, <1>7, <1>8, <1>9 DEF Next, Work

\* No command sends more requests than it may, whichever models fail, are asked again or
\* stood in for, and no agent another one when it knows to have spent its money
\* (client.py call_tool, agent_loop.py run_agent, generate.py).
THEOREM RequestsAreBudgeted == Safe => Budget!Safe
<1>1. Init => BudgetInv /\ Budget!Init
  BY DEF Init, CallInit, BudgetInv, over, Budget!Init
<1>2. BudgetInv /\ [Next]_vars => BudgetInv' /\ [Budget!Next]_(Budget!budget)
  BY BudgetStep
<1> QED BY <1>1, <1>2, PTL DEF Safe, Budget!Safe
=============================================================================
