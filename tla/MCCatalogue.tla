---------------------------- MODULE MCCatalogue -----------------------------
(* A catalogue of two ACs, a test case the LLM may propose for each and one *)
(* that QA writes; or a repository that is scanned for test debt: the two   *)
(* share nothing, a behaviour is one of them.                               *)
EXTENDS Catalogue, DebtScan, TLC

CONSTANTS ac_x, ac_y, tc_x, tc_y, qa_1, qa_2, new_1, waiver_1,
          aPy, bPy, openapi, routes, tPy, suite, coverage

VARIABLE machine

twoAcs     == {ac_x, ac_y}
proposed   == {[prd |-> {ac_x}, ids |-> {tc_x}, waived |-> {}],
               [prd |-> {ac_x, ac_y}, ids |-> {tc_x, tc_y}, waived |-> {waiver_1}],
               [prd |-> {ac_x, ac_y}, ids |-> {tc_y}, waived |-> {}],
               [prd |-> {ac_x}, ids |-> {}, waived |-> {}]}
proposable == {tc_x, tc_y}
written    == {qa_1, qa_2}
firstAc    == (tc_x :> ac_x) @@ (tc_y :> ac_y) @@ (qa_1 :> ac_x) @@ (qa_2 :> ac_x) @@ (new_1 :> ac_x)
waivable   == {waiver_1}
-----------------------------------------------------------------------------
\* Two endpoints, the contract of one, and a route of the web UI.
endpoint == [kind |-> "api_endpoint", path |-> "/e", alias |-> {}]
second   == [kind |-> "api_endpoint", path |-> "/f", alias |-> {}]
contract == [kind |-> "api_contract", path |-> "/e", alias |-> {}]
page     == [kind |-> "ui_route", path |-> "/u", alias |-> {"U"}]
fourSurfaces == {endpoint, second, contract, page}

sevenFiles == {aPy, bPy, openapi, routes, tPy, suite, coverage}
kindOf  == [g \in sevenFiles |-> CASE g \in {aPy, bPy} -> "py" [] g = openapi -> "openapi" [] g = routes -> "ui"
                                   [] g = tPy -> "test" [] g = suite -> "suite" [] g = coverage -> "config"]
orderOf == [g \in sevenFiles |-> CASE g = aPy -> 1 [] g = bPy -> 2 [] g = openapi -> 3 [] OTHER -> 4]

broken    == [Absent EXCEPT !.broken = TRUE]
having(S) == [Absent EXCEPT !.has = S]
contentsOf == [g \in sevenFiles |->
  CASE g = aPy -> {having({endpoint}), broken}
    [] g = bPy -> {having({endpoint}), having({second}), broken}
    [] g = openapi -> {having({contract}), broken}
    [] g = routes -> {having({page})}
    [] g = tPy -> {[Absent EXCEPT !.names = {"/e"}], [Absent EXCEPT !.names = {"U"}], having({second})}
    [] g = suite -> {[Absent EXCEPT !.property = TRUE],
                     [Absent EXCEPT !.property = TRUE, !.excludes = {"/e"}], broken}
    [] g = coverage -> {[Absent EXCEPT !.ignore = {page}], broken}]
mainBranch == [g \in sevenFiles |-> IF g = aPy THEN having({endpoint}) ELSE IF g = tPy THEN having({second})
                                    ELSE Absent]
-----------------------------------------------------------------------------
OneInit == Init /\ DebtInit /\ machine \in {"catalogue", "debt"}
OneNext == /\ UNCHANGED machine
           /\ \/ machine = "catalogue" /\ Next /\ UNCHANGED debtVars
              \/ machine = "debt" /\ DebtNext /\ UNCHANGED vars
OneSpec == OneInit /\ [][OneNext]_<<machine, vars, debtVars>>
=============================================================================
