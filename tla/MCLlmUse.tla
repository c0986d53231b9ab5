------------------------------ MODULE MCLlmUse ------------------------------
(* Two ACs and a cell, two commands.  Three workers and three suites of a   *)
(* policy, and what a pull request or the file of a project can make of     *)
(* them.                                                                    *)
EXTENDS LlmUse, TLC

CONSTANTS ac1, ac2, cell

acPair    == {ac1, ac2}
oneCell   == {cell}
twoPrices == {0, 2}

threeWorkers == [schemathesis |-> [lanes |-> {"gate", "discovery"}, takes |-> {"openapi"}],
                 gitleaks     |-> [lanes |-> {"gate"},              takes |-> {"secrets"}],
                 playwright   |-> [lanes |-> {"gate", "discovery"}, takes |-> {"ui"}]]

Task(id, kind, lane) == [id |-> id, kind |-> kind, lane |-> lane]
Suite(tasks) == [fits |-> TRUE, tasks |-> tasks]

tree    == [api |-> Suite({Task("contract", "openapi", "gate"), Task("smoke", "ui", "gate")}),
            sec |-> Suite({Task("secrets", "secrets", "gate")}),
            ui  |-> Suite({Task("journey", "ui", "discovery")})]
Without(name)      == [n \in DOMAIN tree \ {name} |-> tree[n]]
With(name, task)   == [tree EXCEPT ![name] = Suite({task})]

File(modes) == [there |-> TRUE, fits |-> TRUE, modes |-> modes]
NoFile      == [there |-> FALSE, fits |-> FALSE, modes |-> <<>>]
pr          == [blocking_suites |-> {"api", "sec"}, advisory_suites |-> {"ui"},
                floor_workers |-> {"gitleaks"}]
department  == File([pr |-> pr, manual |-> [suites |-> {"*"}]])
Own(policy) == File([pr |-> policy])

code == [full |-> FALSE, docs |-> FALSE, suites |-> {}]
docs == [code EXCEPT !.docs = TRUE]
base == [default |-> department, own |-> NoFile, mode |-> "pr", tree |-> tree, changed |-> {code}]

scenesOfAll ==
  [code       |-> base,
   mapped     |-> [base EXCEPT !.changed = {code, [code EXCEPT !.suites = {"ui"}]}],
   docs       |-> [base EXCEPT !.changed = {docs}],
   nothing    |-> [base EXCEPT !.changed = {}],
   full       |-> [base EXCEPT !.changed = {code, [code EXCEPT !.full = TRUE]}],
   emptied    |-> [base EXCEPT !.tree = With("sec", Task("secrets", "openapi", "gate"))],
   secLess    |-> [base EXCEPT !.tree = Without("sec")],
   apiLess    |-> [base EXCEPT !.tree = Without("api")],
   uiLess     |-> [base EXCEPT !.tree = Without("ui")],
   moved      |-> [base EXCEPT !.tree = With("api", Task("contract", "openapi", "discovery")), !.changed = {}],
   twice      |-> [base EXCEPT !.tree = With("ui", Task("secrets", "ui", "discovery")), !.changed = {}],
   broken     |-> [base EXCEPT !.tree.ui.fits = FALSE],
   advisory   |-> [base EXCEPT !.changed = {docs}, !.own = Own([blocking_suites |-> {"api"}, advisory_suites |-> {"sec"}])],
   unjudged   |-> [base EXCEPT !.own = Own([blocking_suites |-> {}])],
   both       |-> [base EXCEPT !.own = Own([suites |-> {"*"}])],
   onItsOwn   |-> [base EXCEPT !.default = NoFile, !.own = Own([pr EXCEPT !.floor_workers = {"playwright"}])],
   nightly    |-> [base EXCEPT !.mode = "nightly"],
   everything |-> [base EXCEPT !.mode = "manual"]]
=============================================================================
