----------------------------- MODULE Catalogue ------------------------------
(* The ground-truth catalogue: test-cases.yaml, the spreadsheet made of it  *)
(* and the generated tests, edited by QA and by the commands `gt generate`, *)
(* `regen`, `import-xlsx` and `export-xlsx` (groundtruth/cli.py, merge.py,  *)
(* xlsx.py, check.py).  A test case is its status, its content and its      *)
(* origin; steps, titles, cells and schemas are left out.  So are the       *)
(* module map and the suites, which a command only creates.                 *)
EXTENDS Integers, FiniteSets

CONSTANTS Acs,          \* acceptance criteria, each in a story of its own
          Proposals,    \* what an LLM may make of a PRD: its ACs, test cases and waivers
          LlmIds,       \* test cases an LLM may propose: the id is a hash of the content
          QaIds,        \* ids of the test cases of QA
          NewRow,       \* the tc_id NEW-1 of a row that is not imported yet
          AcOf,         \* the first of ac_refs
          Waivers,      \* what can be waived
          MaxEdits, MaxCommands, MaxTyped   \* bounds of the model

ASSUME CatalogueAssumption ==
  /\ LlmIds \cap QaIds = {} /\ NewRow \notin LlmIds \cup QaIds
  /\ AcOf \in [LlmIds \cup QaIds \cup {NewRow} -> Acs]
  /\ Waivers \cap Acs = {}
  /\ Proposals \subseteq [prd : SUBSET Acs, ids : SUBSET LlmIds, waived : SUBSET Waivers]
  /\ \A p \in Proposals : \A i \in p.ids : AcOf[i] \in p.prd
  /\ MaxEdits \in Nat /\ MaxCommands \in Nat /\ MaxTyped \in Nat
  \* A new test case finds an id: the code counts until one is free.
  /\ IsFiniteSet(QaIds) => Cardinality(QaIds) >= 2 * MaxTyped

Statuses == {"draft", "approved", "rejected", "bare"}   \* bare: rejected without a reason
Texts    == {"generated", "fixed"}
Values   == {"draft", "approved"}                       \* of a waiver, or of an excuse

VARIABLES yaml,       \* test-cases.yaml: what projection() makes of it
          xlsx,       \* test-cases.xlsx: its rows, the snapshot in _meta, findings of the reader
          copy,       \* a copy of it that QA has taken away, for import-xlsx --xlsx FILE
          tests,      \* the files of tests_gt
          pc,         \* what the running command does next
          job,        \* what it has read and is going to write
          edits, commands, typed   \* counted; typed: test cases QA has written

vars == <<yaml, xlsx, copy, tests, pc, job, edits, commands, typed>>

Nothing   == [x \in {} |-> "none"]
NoCatalog == [prd |-> {}, status |-> "none", tcs |-> Nothing, items |-> Nothing]
NoSheet   == [kind |-> "none", theirs |-> NoCatalog, base |-> NoCatalog, meta |-> FALSE,
              syntax |-> FALSE]
NoJob     == [cmd |-> "none", force |-> FALSE, old |-> NoCatalog, seen |-> NoSheet,
              new |-> NoCatalog]

Put(f, k, v)  == [x \in DOMAIN f \cup {k} |-> IF x = k THEN v ELSE f[x]]
Without(f, k) == [x \in DOMAIN f \ {k} |-> f[x]]

Ids(c)      == DOMAIN c.tcs
Keys(c)     == DOMAIN c.items
Cell(c, i, field) == IF i \in Ids(c) THEN c.tcs[i][field] ELSE "none"
Item(c, k)  == IF k \in Keys(c) THEN c.items[k] ELSE "none"

\* schemas/ground_truth.json: an approved catalogue has no draft, a rejection a reason.
Valid(c) == /\ \A i \in Ids(c) : c.tcs[i].status # "bare"
            /\ c.status = "approved" => \A i \in Ids(c) : c.tcs[i].status # "draft"

--------------------------------------------------------------------------------
(* merge.py                                                                  *)

\* Mutant: only what is approved is kept.
ProtectedApproved(tc) == tc.status = "approved"
Protected(tc) == tc.status \in {"approved", "rejected", "bare"} \/ tc.origin = "qa"

CoveredAcs(tcs) == {AcOf[i] : i \in {j \in DOMAIN tcs : tcs[j].status \notin {"rejected", "bare"}}}

\* The drafts of the LLM give way to the candidates; old reasons and waivers win; the
\* excuse of an AC goes with the AC, or once a test case covers it.
Merge(old, cand) ==
  LET kept    == {i \in Ids(old) : Protected(old.tcs[i])}
      tcs     == [i \in kept \cup Ids(cand) |-> IF i \in kept THEN old.tcs[i] ELSE cand.tcs[i]]
      keys    == {k \in Keys(old) \cup Keys(cand) : k \in Acs => k \in cand.prd \ CoveredAcs(tcs)}
  IN [prd    |-> cand.prd,
      status |-> IF \E i \in DOMAIN tcs : tcs[i].status = "draft" THEN "draft" ELSE old.status,
      tcs    |-> tcs,
      items  |-> [k \in keys |-> IF k \in Keys(old) THEN old.items[k] ELSE cand.items[k]]]

--------------------------------------------------------------------------------
(* xlsx.py                                                                   *)

SheetOf(c) == [kind |-> "sheet", theirs |-> c, base |-> c, meta |-> TRUE, syntax |-> FALSE]

\* _open, read_xlsx: rows, snapshot and findings, or an XlsxError.
Readable(sheet) == sheet.kind = "sheet"

SyncStatus(c, sheet) ==
  IF c = sheet.theirs THEN "in_sync"
  ELSE IF sheet.meta /\ c = sheet.base THEN "xlsx_ahead"
  ELSE IF sheet.meta /\ sheet.theirs = sheet.base THEN "yaml_ahead"
  ELSE "diverged"

\* Mutant: the sides of an unchanged field are mistaken.
MergeValueSwapped(ours, theirs, base, meta) ==
  IF theirs = ours THEN ours
  ELSE IF ~meta \/ theirs = base THEN theirs ELSE ours

\* _merge_value: the side that changed since the snapshot; the sheet if there is none.
MergeValue(ours, theirs, base, meta) ==
  IF theirs = ours THEN ours
  ELSE IF ~meta \/ (ours = base /\ theirs # base) THEN theirs ELSE ours
Conflict(ours, theirs, base, meta) ==
  meta /\ theirs # ours /\ theirs # base /\ ours # base

Fields == {"status", "text", "origin"}

\* import_into, a test case of the YAML: its row is gone (an error for one of the LLM, a
\* conflict for one that the YAML has changed or is the first to have), both sides
\* changed a field, or a read-only column was changed.
RowRefused(ours, sheet, i) ==
  LET t == sheet.theirs  b == sheet.base IN
  IF i \notin Ids(t)
    THEN \/ ours.tcs[i].origin # "qa"
         \/ sheet.meta /\ (i \in Ids(b) => ours.tcs[i] # b.tcs[i])
    ELSE \/ \E f \in Fields :
              Conflict(ours.tcs[i][f], t.tcs[i][f], Cell(b, i, f), sheet.meta)
         \/ /\ t.tcs[i].origin # ours.tcs[i].origin
            /\ ~sheet.meta \/ t.tcs[i].origin # Cell(b, i, "origin")

\* Content that was changed makes a test case of the LLM one of QA.
MergedRow(ours, sheet, i) ==
  LET value(f) == MergeValue(ours.tcs[i][f], sheet.theirs.tcs[i][f], Cell(sheet.base, i, f),
                             sheet.meta)
  IN [status |-> value("status"), text |-> value("text"),
      origin |-> IF value("text") # ours.tcs[i].text THEN "qa" ELSE ours.tcs[i].origin]

\* A row the YAML does not have: one it has deleted since the snapshot stays deleted,
\* another is a new test case, and must refer to an AC of the catalogue.
NewRows(ours, sheet) ==
  {i \in Ids(sheet.theirs) \ Ids(ours) : ~(sheet.meta /\ i \in Ids(sheet.base))}

FreshIds(ours, sheet) == QaIds \ (Ids(ours) \cup Ids(sheet.theirs))
IdOf(ours, sheet, i) == IF i = NewRow THEN CHOOSE q \in FreshIds(ours, sheet) : TRUE ELSE i

\* Mutant: an entry that the YAML has deleted comes back.
MergedItemRevived(ours, sheet, k) ==
  LET o == Item(ours, k)  t == Item(sheet.theirs, k)  b == Item(sheet.base, k) IN
  IF k \in Keys(ours) \cap Keys(sheet.theirs) THEN MergeValue(o, t, b, sheet.meta)
  ELSE IF k \in Keys(sheet.theirs) THEN t
         ELSE (IF sheet.meta /\ k \in Keys(sheet.base) /\ o = b THEN "none" ELSE o)

\* Excuses, waivers, conflicts of the specification: a value of both sides is merged; a
\* deletion stands, unless the YAML has changed what the sheet deletes.
MergedItem(ours, sheet, k) ==
  LET o == Item(ours, k)  t == Item(sheet.theirs, k)  b == Item(sheet.base, k) IN
  IF k \in Keys(ours) \cap Keys(sheet.theirs) THEN MergeValue(o, t, b, sheet.meta)
  ELSE IF k \in Keys(sheet.theirs)
         THEN (IF sheet.meta /\ k \in Keys(sheet.base) THEN "none" ELSE t)
         ELSE (IF sheet.meta /\ k \in Keys(sheet.base) /\ o = b THEN "none" ELSE o)

ItemRefused(ours, sheet, k) ==
  \/ /\ k \in Keys(ours) \cap Keys(sheet.theirs)
     /\ Conflict(ours.items[k], sheet.theirs.items[k], Item(sheet.base, k), sheet.meta)
  \/ k \in Acs \ ours.prd /\ MergedItem(ours, sheet, k) # "none"

ItemKeys(ours, sheet) == Keys(ours) \cup Keys(sheet.theirs)

\* ImportResult.ok
ImportOk(ours, sheet) ==
  /\ ~sheet.syntax
  /\ ~Conflict(ours.status, sheet.theirs.status, sheet.base.status, sheet.meta)
  /\ \A i \in Ids(ours) : ~RowRefused(ours, sheet, i)
  /\ \A i \in NewRows(ours, sheet) : AcOf[i] \in ours.prd
  /\ \A k \in ItemKeys(ours, sheet) : ~ItemRefused(ours, sheet, k)

\* Mutant: without a snapshot, what the sheet does not have is kept.
ImportIntoKeeps(ours, sheet) ==
  LET own   == IF sheet.meta THEN {} ELSE Ids(ours) \ Ids(sheet.theirs)
      kept  == Ids(ours) \cap Ids(sheet.theirs)
      rows  == NewRows(ours, sheet)
      added == {IdOf(ours, sheet, i) : i \in rows}
      row(id) == CHOOSE i \in rows : IdOf(ours, sheet, i) = id
  IN [ours EXCEPT !.tcs =
        [id \in own \cup kept \cup added |->
           IF id \in own THEN ours.tcs[id]
           ELSE IF id \in kept THEN MergedRow(ours, sheet, id)
           ELSE [sheet.theirs.tcs[row(id)] EXCEPT !.origin = "qa"]]]

ImportInto(ours, sheet) ==
  LET kept  == Ids(ours) \cap Ids(sheet.theirs)
      rows  == NewRows(ours, sheet)
      added == {IdOf(ours, sheet, i) : i \in rows}
      row(id) == CHOOSE i \in rows : IdOf(ours, sheet, i) = id
      keys  == {k \in ItemKeys(ours, sheet) : MergedItem(ours, sheet, k) # "none"}
  IN [prd    |-> ours.prd,
      status |-> MergeValue(ours.status, sheet.theirs.status, sheet.base.status, sheet.meta),
      tcs    |-> [id \in kept \cup added |->
                    IF id \in kept THEN MergedRow(ours, sheet, id)
                    ELSE [sheet.theirs.tcs[row(id)] EXCEPT !.origin = "qa"]],
      items  |-> [k \in keys |-> MergedItem(ours, sheet, k)]]

--------------------------------------------------------------------------------
(* QA: one cell, one row or one entry at a time, in either file, also while  *)
(* a command waits for the LLM                                               *)

Init ==
  /\ yaml = NoCatalog /\ xlsx = NoSheet /\ copy = NoSheet /\ tests = [a \in Acs |-> "absent"]
  /\ pc = "idle" /\ job = NoJob /\ edits = 0 /\ commands = 0 /\ typed = 0

NewCase == [status |-> "approved", text |-> "fixed", origin |-> "qa"]

Edited(c) ==
  {[c EXCEPT !.tcs[i].status = s] : i \in Ids(c), s \in Statuses}
  \cup {[c EXCEPT !.tcs[i].text = t] : i \in Ids(c), t \in Texts}
  \cup {[c EXCEPT !.tcs = Without(@, i)] : i \in Ids(c)}
  \cup {[c EXCEPT !.items = Put(@, k, v)] : k \in Waivers \cup c.prd, v \in Values}
  \cup {[c EXCEPT !.items = Without(@, k)] : k \in Keys(c)}
  \cup {[c EXCEPT !.status = s] : s \in Values}

Edit == /\ pc \in {"idle", "asking"}
        /\ edits < MaxEdits /\ edits' = edits + 1
        /\ UNCHANGED <<tests, pc, job, commands>>

EditYaml ==
  /\ Edit /\ yaml # NoCatalog
  /\ \/ yaml' \in Edited(yaml) \ {yaml} /\ UNCHANGED typed
     \/ /\ typed < MaxTyped /\ typed' = typed + 1
        /\ FreshIds(yaml, xlsx) # {}
        /\ yaml' = [yaml EXCEPT !.tcs = Put(@, CHOOSE q \in FreshIds(yaml, xlsx) : TRUE, NewCase)]
  /\ UNCHANGED <<xlsx, copy>>

\* A spreadsheet may also lose its hidden sheet, gain what the reader cannot read (a
\* formula, a row without a tc_id), a change of a grey column, or not open any more.
SheetEdits(sheet) ==
  {[sheet EXCEPT !.theirs = c] : c \in Edited(sheet.theirs)}
  \cup {[sheet EXCEPT !.theirs.tcs[i].origin = IF @ = "qa" THEN "llm" ELSE "qa"] : i \in Ids(sheet.theirs)}
  \cup {[sheet EXCEPT !.meta = FALSE, !.base = NoCatalog], [sheet EXCEPT !.syntax = TRUE],
        [NoSheet EXCEPT !.kind = "corrupt"]}

WithRow(sheet) == [sheet EXCEPT !.theirs.tcs = Put(@, NewRow, NewCase)]
TypeRow(sheet) == typed < MaxTyped /\ typed' = typed + 1 /\ NewRow \notin Ids(sheet.theirs)

EditSheet ==
  /\ Edit /\ Readable(xlsx)
  /\ \/ xlsx' \in SheetEdits(xlsx) \ {xlsx} /\ UNCHANGED typed
     \/ TypeRow(xlsx) /\ xlsx' = WithRow(xlsx)
  /\ UNCHANGED <<yaml, copy>>

EditCopy ==
  /\ Edit /\ Readable(copy)
  /\ \/ copy' \in SheetEdits(copy) \ {copy} /\ UNCHANGED typed
     \/ TypeRow(copy) /\ copy' = WithRow(copy)
  /\ UNCHANGED <<yaml, xlsx>>

TakeCopy ==
  /\ Edit /\ Readable(xlsx) /\ copy = NoSheet /\ copy' = xlsx
  /\ UNCHANGED <<yaml, xlsx, typed>>

\* The mark at its head, by which regen knows a file for its own, may be edited away.
EditTests ==
  /\ pc = "idle" /\ edits < MaxEdits /\ edits' = edits + 1
  /\ \E a \in Acs, how \in {"edited", "unmarked"} :
       tests[a] \notin {"absent", how} /\ tests' = [tests EXCEPT ![a] = how]
  /\ UNCHANGED <<yaml, xlsx, copy, pc, job, commands, typed>>

--------------------------------------------------------------------------------
(* The commands of cli.py: what is written is computed first                 *)

Start(cmd, force, sheet, c, next) ==
  /\ pc = "idle" /\ commands < MaxCommands /\ commands' = commands + 1
  /\ job' = [cmd |-> cmd, force |-> force, old |-> yaml, seen |-> sheet, new |-> c]
  /\ pc' = next
  /\ UNCHANGED <<yaml, xlsx, copy, tests, edits, typed>>

\* An existing catalogue is refused, unless forced.
StartGenerate(force) ==
  /\ yaml = NoCatalog \/ force
  /\ Start("generate", force, xlsx, NoCatalog, "asking")

\* Mutant: edits of the sheet are not looked for.
AbsorbNothing(c, sheet) == c

\* _absorb_xlsx
Absorbed(c, sheet) ==
  IF Readable(sheet) /\ SyncStatus(c, sheet) \in {"xlsx_ahead", "diverged"}
    THEN ImportInto(c, sheet) ELSE c
AbsorbFails(c, sheet) ==
  \/ sheet.kind = "corrupt"
  \/ /\ Readable(sheet) /\ SyncStatus(c, sheet) \in {"xlsx_ahead", "diverged"}
     /\ ~ImportOk(c, sheet)

StartRegen ==
  /\ yaml # NoCatalog /\ Valid(yaml) /\ ~AbsorbFails(yaml, xlsx)
  /\ Start("regen", FALSE, xlsx, Absorbed(yaml, xlsx), "asking")

\* The spreadsheet of the project is imported, or another file (--xlsx); in either case
\* that of the project is then written anew.
StartImport ==
  /\ yaml # NoCatalog /\ Valid(yaml)
  /\ \E sheet \in {xlsx, copy} :
       /\ Readable(sheet) /\ ImportOk(yaml, sheet)
       /\ LET c == ImportInto(yaml, sheet) IN
            /\ Valid(c)
            /\ Start("import", FALSE, sheet, c, IF c = yaml THEN "sheet" ELSE "yaml")

\* Edits that are not imported are refused, unless forced.
StartExport(force) ==
  /\ yaml # NoCatalog /\ Valid(yaml)
  /\ \/ force \/ ~Readable(xlsx)
     \/ SyncStatus(yaml, xlsx) \notin {"xlsx_ahead", "diverged"}
  /\ Start("export", force, xlsx, yaml, "sheet")

Proposed == [status |-> "draft", text |-> "generated", origin |-> "llm"]

\* What comes of an answer: drafts, reasons for what they leave out, waivers to approve.
Candidate(p) ==
  [prd    |-> p.prd, status |-> "draft",
   tcs    |-> [i \in p.ids |-> Proposed],
   items  |-> [k \in (p.prd \ {AcOf[i] : i \in p.ids}) \cup p.waived |-> "draft"]]

\* The answer comes; the catalogue is merged and rendered (Valid) before a file is written.
LlmAnswers ==
  /\ pc = "asking"
  /\ \E p \in Proposals :
       LET c == IF job.cmd = "regen" THEN Merge(job.new, Candidate(p)) ELSE Candidate(p) IN
       /\ Valid(c)
       /\ job' = [job EXCEPT !.new = c]
  /\ pc' = "yaml"
  /\ UNCHANGED <<yaml, xlsx, copy, tests, edits, commands, typed>>

\* Only generate without --force leaves alone what is there.
Overwrites == job.cmd # "generate" \/ job.force

WriteYaml ==
  /\ pc = "yaml" /\ pc' = "tests"
  /\ yaml' = IF Overwrites \/ yaml = NoCatalog THEN job.new ELSE yaml
  /\ UNCHANGED <<xlsx, copy, tests, job, edits, commands, typed>>

\* Mutant: tests of a story that is no more stay.
WriteTestsOnly ==
  /\ pc = "tests" /\ pc' = "sheet"
  /\ tests' = [a \in Acs |->
                 IF a \in job.new.prd /\ (Overwrites \/ tests[a] = "absent") THEN "rendered" ELSE tests[a]]
  /\ UNCHANGED <<yaml, xlsx, copy, job, edits, commands, typed>>

\* Regen also removes the tests of a story that is no more, if they bear the mark.
WriteTests ==
  /\ pc = "tests" /\ pc' = "sheet"
  /\ tests' = [a \in Acs |->
                 IF a \in job.new.prd THEN (IF Overwrites \/ tests[a] = "absent" THEN "rendered" ELSE tests[a])
                 ELSE IF job.cmd = "regen" /\ tests[a] # "unmarked" THEN "absent" ELSE tests[a]]
  /\ UNCHANGED <<yaml, xlsx, copy, job, edits, commands, typed>>

\* write_if_changed; --no-xlsx, or a catalogue that does not fit, leaves the old sheet.
WriteSheet ==
  /\ pc = "sheet" /\ pc' = "idle" /\ job' = NoJob
  /\ xlsx' = SheetOf(job.new) \/ UNCHANGED xlsx
  /\ UNCHANGED <<yaml, copy, tests, edits, commands, typed>>

\* An error of the LLM or of the disk, a signal: the files that are written stay.
Abort ==
  /\ pc # "idle" /\ pc' = "idle" /\ job' = NoJob
  /\ UNCHANGED <<yaml, xlsx, copy, tests, edits, commands, typed>>

Command ==
  \/ \E force \in BOOLEAN : StartGenerate(force) \/ StartExport(force)
  \/ StartRegen \/ StartImport
  \/ LlmAnswers \/ WriteYaml \/ WriteTests \/ WriteSheet \/ Abort

Next == EditYaml \/ EditSheet \/ EditCopy \/ TakeCopy \/ EditTests \/ Command
Spec == Init /\ [][Next]_vars

\* check.py: `gt validate` finds nothing in the spreadsheet that the catalogue does not
\* have, ...
XlsxSync ==
  /\ xlsx.kind # "corrupt"
  /\ Readable(xlsx) => ~xlsx.syntax /\ SyncStatus(yaml, xlsx) \in {"in_sync", "yaml_ahead"}

\* ... and a test for each story, none changed by hand and none of a story that is no more.
Drifted == {a \in Acs : tests[a] # IF a \in yaml.prd THEN "rendered" ELSE "absent"}

--------------------------------------------------------------------------------
(* Properties                                                                *)

SavesYaml  == pc = "yaml" /\ pc' = "tests"
SavesSheet == pc = "sheet" /\ xlsx' # xlsx /\ pc' = "idle"
Undecided(tc) == tc.status = "draft" /\ tc.origin = "llm"
RowEdited(sheet, i) == \E f \in Fields : Cell(sheet.theirs, i, f) # Cell(sheet.base, i, f)

\* What becomes of the edits of a sheet in a catalogue made of the old one and of it:
\* a cell, unless regen replaces a draft of the LLM that QA has set back to draft, ...
CellsLand(regen, sheet, old, new) ==
  \A i \in Ids(sheet.theirs) \cap Ids(old), f \in {"status", "text"} :
    LET mine == sheet.theirs.tcs[i][f] IN
    \/ mine \in {Cell(sheet.base, i, f), old.tcs[i][f]}
    \/ regen /\ mine = "draft" /\ old.tcs[i].origin = "llm"
    \/ Cell(new, i, f) = mine

\* ... a new row, ...
RowsLand(sheet, old, new) ==
  \A i \in Ids(sheet.theirs) \ (Ids(old) \cup Ids(sheet.base)) :
    \E q \in Ids(new) \ Ids(old) : new.tcs[q] = [sheet.theirs.tcs[i] EXCEPT !.origin = "qa"]

\* ... a deleted row, unless an LLM proposes its test case again, ...
DeletionsLand(regen, sheet, old, new) ==
  \A i \in (Ids(old) \cap Ids(sheet.base)) \ Ids(sheet.theirs) :
    i \notin Ids(new) \/ (regen /\ new.tcs[i] = Proposed)

\* ... an excuse or waiver that is new, changed or deleted; regen drops the excuse of an AC
\* that is no more or is covered, and may make a deleted one anew, as a draft; ...
ItemsLand(regen, sheet, old, new) ==
  /\ \A k \in Keys(sheet.theirs) :
       /\ sheet.theirs.items[k] # Item(sheet.base, k)
       /\ k \in Keys(sheet.base) => k \in Keys(old)
       => \/ Item(new, k) = sheet.theirs.items[k]
          \/ regen /\ k \in Acs /\ k \notin new.prd \ CoveredAcs(new.tcs)
  /\ \A k \in Keys(sheet.base) \ Keys(sheet.theirs) :
       Item(old, k) = Item(sheet.base, k) => k \notin Keys(new) \/ (regen /\ new.items[k] = "draft")

\* ... and the status of the catalogue, which a draft that is left sets back under regen.
StatusLands(regen, sheet, old, new) ==
  \/ sheet.theirs.status \in {sheet.base.status, old.status, new.status}
  \/ regen /\ new.status = "draft" /\ \E i \in Ids(new) : new.tcs[i].status = "draft"

\* What QA changed in the sheet that a command has read, with its snapshot, is in the
\* catalogue of which the spreadsheet is written anew, by any command but generate that is
\* not forced (_absorb_xlsx, import_into, the refusal of export).  Where the YAML has
\* deleted what the sheet changes, or changed the entry that the sheet deletes, the YAML
\* wins.  Of what the command has not read it says nothing: rows the reader cannot read, a
\* file that export cannot open, edits made while the command runs, and, when a copy is
\* imported, the edits in the spreadsheet of the project.  All of these are overwritten.
EditsLand ==
  [][ SavesSheet /\ job.cmd # "generate" /\ ~job.force /\ job.seen.meta =>
        LET regen == job.cmd = "regen" IN
        /\ CellsLand(regen, job.seen, job.old, job.new)
        /\ RowsLand(job.seen, job.old, job.new)
        /\ DeletionsLand(regen, job.seen, job.old, job.new)
        /\ ItemsLand(regen, job.seen, job.old, job.new)
        /\ StatusLands(regen, job.seen, job.old, job.new)
    ]_vars

\* A test case that QA had approved, rejected or written when a command read the catalogue
\* stays, word for word, through every regen and import, unless QA changed its row in the
\* sheet, or the snapshot that would tell is lost (merge.py).  What QA decides in the YAML
\* while regen waits for the LLM is not read again, and not kept: see DecisionsSurvive.
DecisionsStand ==
  [][ SavesYaml /\ ~job.force =>
        \A i \in Ids(job.old) :
          \/ Undecided(job.old.tcs[i])
          \/ i \in Ids(yaml') /\ yaml'.tcs[i] = job.old.tcs[i]
          \/ job.seen.kind = "sheet" /\ (~job.seen.meta \/ RowEdited(job.seen, i))
    ]_vars

\* Doc: what a human has decided is never touched by the machine (merge.py, "KHÔNG BAO
\* GIỜ"): regen writes over no decision that is in the file.
DecisionsSurvive ==
  [][ SavesYaml /\ job.cmd = "regen" /\ job.seen.kind = "none" =>
        \A i \in Ids(yaml) : Undecided(yaml.tcs[i]) \/ (i \in Ids(yaml') /\ yaml'.tcs[i] = yaml.tcs[i])
    ]_vars

\* No command approves anything: what is newly approved in the catalogue was approved by
\* QA in the sheet that the command has read, after its export; an old sheet brings
\* nothing back.
NothingApprovesItself ==
  [][ SavesYaml =>
        /\ \A i \in LlmIds :
             Cell(yaml', i, "status") = "approved" =>
               \/ Cell(job.old, i, "status") = "approved"
               \/ /\ Cell(job.seen.theirs, i, "status") = "approved"
                  /\ Cell(job.seen.base, i, "status") # "approved"
        /\ \A k \in Waivers :
             Item(yaml', k) = "approved" =>
               \/ Item(job.old, k) = "approved"
               \/ /\ Item(job.seen.theirs, k) = "approved"
                  /\ Item(job.seen.base, k) # "approved"
        /\ yaml'.status = "approved" =>
             \/ job.old.status = "approved"
             \/ job.seen.theirs.status = "approved" /\ job.seen.base.status # "approved"
    ]_vars

\* A row that QA typed once is at most one test case, however often a sheet, or a copy of
\* it, is imported and wherever a command is cut off.
NoTwins == Cardinality(Ids(yaml) \ LlmIds) <= typed

\* An import that is cut off once the YAML is written.
CutOff == /\ pc \in {"tests", "sheet"} /\ job.cmd = "import" /\ job.seen.meta
          /\ NewRow \notin Ids(job.seen.theirs)

\* An import that is accepted changes nothing when `gt validate` finds the spreadsheet no
\* further than the YAML (docs/groundtruth.md, "an toàn: import sau này không hoàn nguyên
\* YAML"), nor when it is run again after one that was cut off; but for a row without an
\* id, which the second refuses, or numbers again (NoTwins).
ReimportIsIdle ==
  /\ XlsxSync /\ Readable(xlsx) /\ ImportOk(yaml, xlsx) => ImportInto(yaml, xlsx) = yaml
  /\ CutOff => ImportInto(yaml, job.seen) = yaml

\* Regen repairs the tests: whatever commands were cut off and files changed by hand before,
\* when it has written them they are those of the stories in the YAML; but for files of
\* stories that are no more whose mark was edited away, which stay for validate to report.
RegenRepairs ==
  [][ pc = "tests" /\ pc' = "sheet" /\ job.cmd = "regen" =>
        \A a \in Drifted' : a \notin yaml'.prd /\ tests[a] = "unmarked" ]_vars
=============================================================================
