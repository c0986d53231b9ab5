------------------------------- MODULE DebtScan -----------------------------
(* Test debt: adapters/coverage_debt_worker.py looks, in each pull request, *)
(* for API operations, endpoints and UI routes ("surfaces") that the        *)
(* request adds and no test touches.  A pull request edits files; it is     *)
(* scanned against its base, and merged when the scan gave a result.  The   *)
(* texts are abstracted to the surfaces they declare and what they name.    *)
EXTENDS Naturals, FiniteSets

CONSTANTS Files,        \* paths of the SUT's repository
          Kind,         \* py, openapi, ui, test, suite or config
          Order,        \* their order in a walk of the tree
          Contents,     \* what each may contain
          Surfaces,     \* records [kind, path, alias]
          MainBranch,   \* where it begins
          MaxTouches,   \* bound: edits of files in a pull request
          MaxRequests   \* bound: pull requests

VARIABLES base,         \* the main branch, files to contents
          head,         \* the pull request
          touches, requests,
          scan,         \* debt.json
          told,         \* ghost: surfaces that a merged request's debt.json named
          tested        \* ghost: those that were added with a test

debtVars == <<base, head, touches, requests, scan, told, tested>>

Absent == [broken |-> FALSE, has |-> {}, names |-> {}, property |-> FALSE, excludes |-> {}, ignore |-> {}]
NoScan == [status |-> "none", findings |-> {}, ignored |-> {}]
Failed == [NoScan EXCEPT !.status = "error"]

DebtInit == /\ base = MainBranch /\ head = MainBranch /\ touches = 0 /\ requests = 0
            /\ scan = NoScan /\ told = {} /\ tested = {}

\* is_test: by default all of .qc-agent/ and the directories of the tests.
IsTest(f) == Kind[f] \in {"test", "suite", "config"}

\* Endpoints of Python decorators, with the prefixes of their routers in this file;
\* operations of openapi.json; literal routes of a frontend, with their components.
ApiSurfaces(c)     == {s \in c.has : s.kind = "api_endpoint"}
OpenapiSurfaces(c) == {s \in c.has : s.kind = "api_contract"}
UiRoutes(c)        == {s \in c.has : s.kind = "ui_route"}

SurfacesOf(f, c) == CASE Kind[f] = "openapi" -> OpenapiSurfaces(c)
                      [] Kind[f] \in {"py", "test"} -> ApiSurfaces(c)
                      [] Kind[f] = "ui"      -> UiRoutes(c)
                      [] OTHER               -> {}

\* DebtError: a Python file or an openapi.json that cannot be parsed.
Unparsable(f, c) == c.broken /\ Kind[f] \in {"py", "openapi", "test"}

Declared(tree) == UNION {SurfacesOf(f, tree[f]) : f \in {f \in Files : ~IsTest(f)}}
-----------------------------------------------------------------------------
\* git diff --name-status.  A file that was renamed is read on both sides, as its
\* deletion and its addition would be.
ChangedFiles == {f \in Files : base[f] # head[f]}
Added   == {f \in ChangedFiles : base[f] = Absent}
Deleted == {f \in ChangedFiles : head[f] = Absent}

\* Mutant: what a deleted file declared is forgotten.
DiffSurfacesKept ==
  LET now    == {f \in ChangedFiles \ Deleted : ~IsTest(f)}
      before == {f \in ChangedFiles \ (Added \cup Deleted) : ~IsTest(f)}
  IN  [ ok  |-> \A f \in now : ~Unparsable(f, head[f]),
        new |-> (UNION {SurfacesOf(f, head[f]) : f \in now})
                  \ (UNION {SurfacesOf(f, base[f]) : f \in before}) ]

\* Mutant: a surface of a test, say of a fixture, counts as there before.
DiffSurfacesOfTests ==
  LET now    == {f \in ChangedFiles \ Deleted : ~IsTest(f)}
      before == ChangedFiles \ Added
  IN  [ ok  |-> \A f \in now : ~Unparsable(f, head[f]),
        new |-> (UNION {SurfacesOf(f, head[f]) : f \in now})
                  \ (UNION {SurfacesOf(f, base[f]) : f \in before}) ]

\* _diff_surfaces, with new_surfaces: what the changed files declare now and none of
\* them declared before, wherever it stood.
DiffSurfaces ==
  LET now    == {f \in ChangedFiles \ Deleted : ~IsTest(f)}
      before == {f \in ChangedFiles \ Added : ~IsTest(f)}
  IN  [ ok  |-> /\ \A f \in now : ~Unparsable(f, head[f])
                /\ \A f \in before : ~Unparsable(f, base[f]),
        new |-> (UNION {SurfacesOf(f, head[f]) : f \in now})
                  \ (UNION {SurfacesOf(f, base[f]) : f \in before}) ]

\* _full_surfaces: without a base, all there is.
FullSurfaces == [ ok  |-> \A f \in Files : IsTest(f) \/ ~Unparsable(f, head[f]),
                  new |-> Declared(head) ]

\* coverage.yaml; each surface it ignores has a reason.
ConfigOk      == \A f \in Files : Kind[f] = "config" => ~head[f].broken
Ignored(s)    == \E f \in Files : Kind[f] = "config" /\ s \in head[f].ignore

\* The files of tests and what they name.  A suite that is no YAML names nothing, and
\* none names what it excludes; coverage.yaml is no test.
Read(f) == Kind[f] = "test" \/ (Kind[f] = "suite" /\ ~head[f].broken)
Corpus  == UNION {head[f].names : f \in {f \in Files : Read(f)}}

\* What the tasks of api.property leave out, if all suites can be read.
SuitesOk         == \A f \in Files : Kind[f] = "suite" => ~head[f].broken
PropertyExcludes == {head[f].excludes : f \in {f \in Files : Kind[f] = "suite" /\ head[f].property}}

\* The paths in the openapi.json files of the working tree.
LiveOk    == \A f \in Files : Kind[f] = "openapi" => ~head[f].broken
LivePaths == {s.path : s \in UNION {OpenapiSurfaces(head[f]) : f \in {f \in Files : Kind[f] = "openapi"}}}

\* An operation by a property test that does not exclude it, the others by name: the
\* path, with anything for its parameters, or the component of a route.
Covered(s) ==
  IF s.kind = "api_contract" THEN s.path \in LivePaths /\ \E e \in PropertyExcludes : s.path \notin e
  ELSE s.path \in Corpus \/ s.alias \cap Corpus # {}

\* _location walks the tree up to a file that declares the surface, and so over all
\* that stands before.
LocationFails(s) ==
  \E f \in Files : /\ ~IsTest(f) /\ Unparsable(f, head[f])
                   /\ \A g \in Files : ~IsTest(g) /\ s \in SurfacesOf(g, head[g]) => Order[f] < Order[g]

\* scan: an exception anywhere leaves a report of status "error" and no findings.
ScanResult(mode) ==
  LET found == IF mode = "diff" THEN DiffSurfaces ELSE FullSurfaces
      debt  == {s \in found.new : ~Covered(s)}
      shown == {s \in debt : ~Ignored(s)}
      fails == \/ ~ConfigOk \/ ~found.ok
               \/ ~(SuitesOk /\ LiveOk) /\ \E s \in found.new : s.kind = "api_contract"
               \/ \E s \in shown : LocationFails(s)
  IN  IF fails THEN Failed
      ELSE [status |-> "ok", findings |-> shown, ignored |-> debt \ shown]
-----------------------------------------------------------------------------
\* The pull request adds, changes, deletes or (in two steps) renames a file.
EditFile(f) ==
  /\ scan = NoScan /\ touches < MaxTouches
  /\ \E c \in Contents[f] \cup {Absent} : c # head[f] /\ head' = [head EXCEPT ![f] = c]
  /\ touches' = touches + 1
  /\ UNCHANGED <<base, requests, scan, told, tested>>

\* The gate of the pull request runs the worker; a checkout without its base is an error.
Scan ==
  /\ scan = NoScan /\ head # base
  /\ \/ scan' = ScanResult("diff")
     \/ scan' = Failed
  /\ UNCHANGED <<base, head, touches, requests, told, tested>>

\* Mended after an error, or merged.
Mend ==
  /\ scan.status = "error" /\ scan' = NoScan
  /\ UNCHANGED <<base, head, touches, requests, told, tested>>

MergeRequest ==
  /\ scan.status = "ok" /\ requests < MaxRequests
  /\ base' = head /\ touches' = 0 /\ requests' = requests + 1 /\ scan' = NoScan
  /\ told' = told \cup scan.findings \cup scan.ignored
  /\ tested' = tested \cup {s \in Declared(head) \ Declared(base) : Covered(s)}
  /\ UNCHANGED head

DebtNext == (\E f \in Files : EditFile(f)) \/ Scan \/ Mend \/ MergeRequest

DebtSpec == DebtInit /\ [][DebtNext]_debtVars
-----------------------------------------------------------------------------
\* No surface gets into the main branch that was neither there from the start, nor
\* came with a test, nor was named in the debt.json of a pull request, whatever was
\* added, moved, taken from tests or broken on the way.
DebtIsTold == Declared(base) \subseteq Declared(MainBranch) \cup told \cup tested

\* "Report too little debt, never invent it": a finding is declared in the request and
\* named by none of its tests; it was new, or is told again because a file with it was
\* left as it was (a surface that only moved is no debt).  Nor does a full scan find less.
DebtIsReal ==
  scan.status = "ok" =>
    \A s \in scan.findings :
      /\ s \in Declared(head) /\ ~Covered(s) /\ ~Ignored(s)
      /\ s \in Declared(base) =>
           \E f \in Files \ ChangedFiles : ~IsTest(f) /\ s \in SurfacesOf(f, base[f])
      /\ LET full == ScanResult("full") IN full.status = "ok" => s \in full.findings
=============================================================================
