--------------------------- MODULE CatalogueProofs --------------------------
(* Proofs about Catalogue, for any stories, test cases, waivers, answers of *)
(* an LLM and bounds: what becomes of the edits and decisions of QA.        *)
EXTENDS Catalogue, FiniteSetTheorems, TLAPS

-----------------------------------------------------------------------------
(* Types.  Only a spreadsheet has rows without an id.                        *)

Partial(S, T) == UNION {[D -> T] : D \in SUBSET S}

Case    == [status : Statuses, text : Texts, origin : {"llm", "qa"}]
Written == LlmIds \cup QaIds
Catalogs(ids) == [prd    : SUBSET Acs,
                  status : {"none"} \cup Values,
                  tcs    : Partial(ids, Case),
                  items  : Partial(Acs \cup Waivers, Values)]

\* What is not a spreadsheet has no snapshot; without one, its base is empty.
Sheets == {s \in [kind : {"none", "sheet", "corrupt"}, theirs : Catalogs(Written \cup {NewRow}),
                  base : Catalogs(Written), meta : BOOLEAN, syntax : BOOLEAN] :
             /\ s.meta => s.kind = "sheet"
             /\ ~s.meta => s.base = NoCatalog}

\* A partial function is one on a subset.
LEMMA PartialIs ==
  ASSUME NEW S, NEW T, NEW f
  PROVE  f \in Partial(S, T) <=> DOMAIN f \subseteq S /\ f \in [DOMAIN f -> T]
BY DEF Partial

\* The parts of a catalogue.
LEMMA CatalogParts ==
  ASSUME NEW ids, NEW c \in Catalogs(ids)
  PROVE  /\ c = [prd |-> c.prd, status |-> c.status, tcs |-> c.tcs, items |-> c.items]
         /\ c.prd \subseteq Acs /\ c.status \in {"none"} \cup Values
         /\ Ids(c) \subseteq ids /\ \A i \in Ids(c) : c.tcs[i] \in Case
         /\ c.tcs = [i \in Ids(c) |-> c.tcs[i]]
         /\ Keys(c) \subseteq Acs \cup Waivers /\ \A k \in Keys(c) : c.items[k] \in Values
         /\ c.items = [k \in Keys(c) |-> c.items[k]]
<1>1. /\ c = [prd |-> c.prd, status |-> c.status, tcs |-> c.tcs, items |-> c.items]
      /\ c.prd \in SUBSET Acs /\ c.status \in {"none"} \cup Values
      /\ c.tcs \in Partial(ids, Case) /\ c.items \in Partial(Acs \cup Waivers, Values)
  BY DEF Catalogs
<1>2. DOMAIN c.tcs \subseteq ids /\ c.tcs \in [DOMAIN c.tcs -> Case]
  BY <1>1, PartialIs
<1>3. DOMAIN c.items \subseteq Acs \cup Waivers /\ c.items \in [DOMAIN c.items -> Values]
  BY <1>1, PartialIs
<1> QED BY <1>1, <1>2, <1>3 DEF Ids, Keys

\* Parts that make a catalogue.
LEMMA CatalogOf ==
  ASSUME NEW ids, NEW prd \in SUBSET Acs, NEW status \in {"none"} \cup Values,
         NEW S \in SUBSET ids, NEW tcs \in [S -> Case],
         NEW K \in SUBSET (Acs \cup Waivers), NEW items \in [K -> Values]
  PROVE  [prd |-> prd, status |-> status, tcs |-> tcs, items |-> items] \in Catalogs(ids)
<1>1. tcs \in Partial(ids, Case)
  BY PartialIs
<1>2. items \in Partial(Acs \cup Waivers, Values)
  BY PartialIs
<1> QED BY <1>1, <1>2 DEF Catalogs

\* There is the empty catalogue, and whatever is a catalogue of the YAML is one of a sheet.
LEMMA EmptyFits == NoCatalog \in Catalogs(Written) /\ NoSheet \in Sheets
<1>1. \A ids : NoCatalog \in Catalogs(ids)
  <2> SUFFICES ASSUME NEW ids PROVE NoCatalog \in Catalogs(ids)
    OBVIOUS
  <2>1. Nothing \in [{} -> Case] /\ Nothing \in [{} -> Values]
    BY DEF Nothing
  <2> QED BY <2>1, CatalogOf DEF NoCatalog
<1>2. NoSheet \in [kind : {"none", "sheet", "corrupt"}, theirs : Catalogs(Written \cup {NewRow}),
                   base : Catalogs(Written), meta : BOOLEAN, syntax : BOOLEAN]
  BY <1>1 DEF NoSheet
<1> QED BY <1>1, <1>2 DEF Sheets, NoSheet

\* A sheet that is rendered from a catalogue is one.
LEMMA SheetFits == ASSUME NEW c \in Catalogs(Written) PROVE SheetOf(c) \in Sheets
<1>1. c \in Catalogs(Written \cup {NewRow})
  <2>1. DOMAIN c.tcs \in SUBSET (Written \cup {NewRow}) /\ c.tcs \in [DOMAIN c.tcs -> Case]
    <3>1. c.tcs \in Partial(Written, Case)
      BY DEF Catalogs
    <3> QED BY <3>1, PartialIs
  <2>2. DOMAIN c.items \in SUBSET (Acs \cup Waivers) /\ c.items \in [DOMAIN c.items -> Values]
    <3>1. c.items \in Partial(Acs \cup Waivers, Values)
      BY DEF Catalogs
    <3> QED BY <3>1, PartialIs
  <2>3. c.prd \in SUBSET Acs /\ c.status \in {"none"} \cup Values
    BY CatalogParts
  <2>4. [prd |-> c.prd, status |-> c.status, tcs |-> c.tcs, items |-> c.items]
          \in Catalogs(Written \cup {NewRow})
    BY <2>1, <2>2, <2>3, CatalogOf
  <2> QED BY <2>4, CatalogParts
<1> QED BY <1>1 DEF SheetOf, Sheets

-----------------------------------------------------------------------------
(* What merge.py and xlsx.py make of catalogues.                             *)

\* A candidate holds drafts of the LLM and draft excuses and waivers.
LEMMA CandidateFits ==
  ASSUME NEW p \in Proposals
  PROVE  /\ Candidate(p) \in Catalogs(Written)
         /\ Candidate(p).status = "draft" /\ Ids(Candidate(p)) \subseteq LlmIds
         /\ \A i \in Ids(Candidate(p)) : Candidate(p).tcs[i] = Proposed
         /\ \A k \in Keys(Candidate(p)) : Candidate(p).items[k] = "draft"
<1> DEFINE tcs == [i \in p.ids |-> Proposed]
           K   == (p.prd \ {AcOf[i] : i \in p.ids}) \cup p.waived
           items == [k \in K |-> "draft"]
<1>1. p.prd \in SUBSET Acs /\ p.ids \in SUBSET LlmIds /\ p.waived \in SUBSET Waivers
  BY CatalogueAssumption
<1>2. p.ids \in SUBSET Written /\ K \in SUBSET (Acs \cup Waivers)
  BY <1>1 DEF Written
<1>3. tcs \in [p.ids -> Case] /\ items \in [K -> Values]
  BY DEF Proposed, Case, Statuses, Texts, Values
<1>4. "draft" \in {"none"} \cup Values
  BY DEF Values
<1> HIDE DEF K
<1>5. [prd |-> p.prd, status |-> "draft", tcs |-> tcs, items |-> items] \in Catalogs(Written)
  BY <1>1, <1>2, <1>3, <1>4, CatalogOf
<1>6. Candidate(p) = [prd |-> p.prd, status |-> "draft", tcs |-> tcs, items |-> items]
  BY DEF Candidate, K
<1> QED BY <1>1, <1>5, <1>6 DEF Ids, Keys

\* What is not protected is a draft of the LLM.
LEMMA Unprotected ==
  ASSUME NEW tc \in Case, ~Protected(tc)
  PROVE  tc.status = "draft" /\ tc.origin = "llm"
BY DEF Case, Statuses, Protected

\* merge keeps what is protected and adds nothing but candidates; old excuses and waivers
\* win over new ones, and a waiver stays.
LEMMA MergeFacts ==
  ASSUME NEW old \in Catalogs(Written), NEW p \in Proposals
  PROVE  LET new == Merge(old, Candidate(p)) IN
         /\ new \in Catalogs(Written)
         /\ Ids(new) \subseteq Ids(old) \cup LlmIds
         /\ \A i \in Ids(old) : Protected(old.tcs[i]) => i \in Ids(new) /\ new.tcs[i] = old.tcs[i]
         /\ \A i \in Ids(new) : new.tcs[i] = Proposed \/ (i \in Ids(old) /\ new.tcs[i] = old.tcs[i])
         /\ \A k \in Keys(new) : IF k \in Keys(old) THEN new.items[k] = old.items[k] ELSE new.items[k] = "draft"
         /\ \A k \in Keys(old) \ Keys(new) : k \in Acs /\ k \notin new.prd \ CoveredAcs(new.tcs)
         /\ new.status = old.status \/ (new.status = "draft" /\ \E i \in Ids(new) : new.tcs[i].status = "draft")
<1> DEFINE cand    == Candidate(p)
           kept    == {i \in Ids(old) : Protected(old.tcs[i])}
           S       == kept \cup Ids(cand)
           tcs     == [i \in S |-> IF i \in kept THEN old.tcs[i] ELSE cand.tcs[i]]
           covered == CoveredAcs(tcs)
           K       == {k \in Keys(old) \cup Keys(cand) : k \in Acs => k \in cand.prd \ covered}
           items   == [k \in K |-> IF k \in Keys(old) THEN old.items[k] ELSE cand.items[k]]
           status  == IF \E i \in DOMAIN tcs : tcs[i].status = "draft" THEN "draft" ELSE old.status
<1>1. Merge(old, cand) = [prd |-> cand.prd, status |-> status, tcs |-> tcs, items |-> items]
  BY DEF Merge
<1>2. /\ cand.prd \in SUBSET Acs /\ Ids(cand) \subseteq Written
      /\ \A i \in Ids(cand) : cand.tcs[i] \in Case
      /\ Keys(cand) \subseteq Acs \cup Waivers /\ \A k \in Keys(cand) : cand.items[k] \in Values
  BY CandidateFits, CatalogParts
<1>3. /\ old.status \in {"none"} \cup Values /\ Ids(old) \subseteq Written
      /\ \A i \in Ids(old) : old.tcs[i] \in Case
      /\ Keys(old) \subseteq Acs \cup Waivers /\ \A k \in Keys(old) : old.items[k] \in Values
  BY CatalogParts
<1>4. S \in SUBSET Written /\ tcs \in [S -> Case]
  BY <1>2, <1>3
<1>5. K \in SUBSET (Acs \cup Waivers) /\ items \in [K -> Values]
  <2>1. K \subseteq Keys(old) \cup Keys(cand)
    OBVIOUS
  <2> HIDE DEF K, cand
  <2> QED BY <1>2, <1>3, <2>1
<1>6. /\ status \in {"none"} \cup Values
      /\ status = old.status \/ (status = "draft" /\ \E i \in S : tcs[i].status = "draft")
  BY <1>3 DEF Values
<1>7. /\ Ids(cand) \subseteq LlmIds /\ \A i \in Ids(cand) : cand.tcs[i] = Proposed
      /\ \A k \in Keys(cand) : cand.items[k] = "draft"
  BY CandidateFits
<1>8. \A k \in Keys(old) \ K : k \in Acs /\ k \notin cand.prd \ CoveredAcs(tcs)
  OBVIOUS
<1>9. /\ K \subseteq Keys(old) \cup Keys(cand)
      /\ \A i \in kept : i \in Ids(old) /\ Protected(old.tcs[i])
      /\ \A i \in Ids(old) : Protected(old.tcs[i]) => i \in kept
  OBVIOUS
<1> DEFINE new == [prd |-> cand.prd, status |-> status, tcs |-> tcs, items |-> items]
<1> HIDE DEF K, cand, kept, status
<1>10. new \in Catalogs(Written)
  BY <1>2, <1>4, <1>5, <1>6, CatalogOf
<1>11. /\ Ids(new) = S /\ Keys(new) = K /\ new.tcs = tcs /\ new.items = items
       /\ new.status = status /\ new.prd = cand.prd
  BY DEF Ids, Keys
<1>12. \A i \in S : tcs[i] = Proposed \/ (i \in Ids(old) /\ tcs[i] = old.tcs[i])
  BY <1>7, <1>9
<1>13. \A i \in Ids(old) : Protected(old.tcs[i]) => i \in S /\ tcs[i] = old.tcs[i]
  BY <1>9
<1>14. S \subseteq Ids(old) \cup LlmIds
  BY <1>7, <1>9
<1>15. \A k \in K : IF k \in Keys(old) THEN items[k] = old.items[k] ELSE items[k] = "draft"
  BY <1>7, <1>9
<1> HIDE DEF S, tcs, items, new
<1>16. new = Merge(old, Candidate(p))
  BY <1>1 DEF new, cand
<1> QED BY <1>6, <1>8, <1>10, <1>11, <1>12, <1>13, <1>14, <1>15, <1>16

\* A merged value is one of the two sides; it is that of the sheet where the sheet has
\* none or was alone to change it, and never that of a sheet which left it alone.
LEMMA MergedValues ==
  ASSUME NEW ours, NEW theirs, NEW base, NEW meta \in BOOLEAN
  PROVE  LET value == MergeValue(ours, theirs, base, meta) IN
         /\ value \in {ours, theirs}
         /\ ~Conflict(ours, theirs, base, meta) /\ theirs # base => value = theirs
         /\ meta /\ theirs = base => value = ours
         /\ value # ours => ~meta \/ theirs # base
BY DEF MergeValue, Conflict

\* Merged rows are test cases; without a change of its text a row keeps its origin.
LEMMA MergedRows ==
  ASSUME NEW ours \in Catalogs(Written), NEW sheet \in Sheets, NEW i \in Ids(ours) \cap Ids(sheet.theirs)
  PROVE  /\ MergedRow(ours, sheet, i) \in Case
         /\ \A f \in {"status", "text"} :
              MergedRow(ours, sheet, i)[f] =
                MergeValue(ours.tcs[i][f], sheet.theirs.tcs[i][f], Cell(sheet.base, i, f), sheet.meta)
         /\ MergedRow(ours, sheet, i).origin =
              IF MergedRow(ours, sheet, i).text # ours.tcs[i].text THEN "qa" ELSE ours.tcs[i].origin
<1>1. sheet.theirs \in Catalogs(Written \cup {NewRow}) /\ sheet.meta \in BOOLEAN
  BY DEF Sheets
<1>2. ours.tcs[i] \in Case /\ sheet.theirs.tcs[i] \in Case
  BY <1>1, CatalogParts
<1> DEFINE value(f) == MergeValue(ours.tcs[i][f], sheet.theirs.tcs[i][f], Cell(sheet.base, i, f), sheet.meta)
<1>3. MergedRow(ours, sheet, i) =
        [status |-> value("status"), text |-> value("text"),
         origin |-> IF value("text") # ours.tcs[i].text THEN "qa" ELSE ours.tcs[i].origin]
  BY DEF MergedRow
<1>4. \A f : value(f) \in {ours.tcs[i][f], sheet.theirs.tcs[i][f]}
  BY <1>1, MergedValues
<1>5. value("status") \in Statuses /\ value("text") \in Texts
  <2>1. value("status") \in {ours.tcs[i]["status"], sheet.theirs.tcs[i]["status"]}
    BY <1>4
  <2>2. value("text") \in {ours.tcs[i]["text"], sheet.theirs.tcs[i]["text"]}
    BY <1>4
  <2> HIDE DEF value
  <2> QED BY <1>2, <2>1, <2>2 DEF Case
<1> HIDE DEF value
<1>6. MergedRow(ours, sheet, i) \in Case
  BY <1>2, <1>3, <1>5 DEF Case
<1>7. \A f \in {"status", "text"} : MergedRow(ours, sheet, i)[f] = value(f)
  BY <1>3
<1>8. MergedRow(ours, sheet, i).origin =
        IF MergedRow(ours, sheet, i).text # ours.tcs[i].text THEN "qa" ELSE ours.tcs[i].origin
  BY <1>3
<1> QED BY <1>6, <1>7, <1>8 DEF value

\* A row that is imported finds an id when it has none.
Numbered(ours, sheet) == NewRow \in NewRows(ours, sheet) => FreshIds(ours, sheet) # {}

\* New rows keep their ids but for NewRow; each has one of its own.
LEMMA NewIds ==
  ASSUME NEW ours \in Catalogs(Written), NEW sheet \in Sheets, Numbered(ours, sheet),
         NEW i \in NewRows(ours, sheet)
  PROVE  /\ i \in Ids(sheet.theirs) \ Ids(ours) /\ (sheet.meta => i \notin Ids(sheet.base))
         /\ IdOf(ours, sheet, i) \in Written \ Ids(ours)
         /\ i # NewRow => IdOf(ours, sheet, i) = i
         /\ i = NewRow => IdOf(ours, sheet, i) \in FreshIds(ours, sheet)
         /\ \A j \in NewRows(ours, sheet) : IdOf(ours, sheet, i) = IdOf(ours, sheet, j) => i = j
<1>1. \A j \in NewRows(ours, sheet) :
        j \in Ids(sheet.theirs) \ Ids(ours) /\ (sheet.meta => j \notin Ids(sheet.base))
  BY DEF NewRows
<1>2. sheet.theirs \in Catalogs(Written \cup {NewRow})
  BY DEF Sheets
<1>3. Ids(sheet.theirs) \subseteq Written \cup {NewRow}
  BY <1>2, CatalogParts
<1>4. \A j : j # NewRow => IdOf(ours, sheet, j) = j
  BY DEF IdOf
<1>5. NewRow \in NewRows(ours, sheet) => IdOf(ours, sheet, NewRow) \in FreshIds(ours, sheet)
  BY DEF IdOf, Numbered
<1>6. \A q \in FreshIds(ours, sheet) : q \in QaIds /\ q \notin Ids(ours) /\ q \notin Ids(sheet.theirs)
  BY DEF FreshIds
<1> QED BY <1>1, <1>3, <1>4, <1>5, <1>6 DEF Written

\* An excuse or waiver that is merged comes from one of the two sides; what the sheet alone
\* has changed, or brings, is that of the sheet.
LEMMA MergedItems ==
  ASSUME NEW ours \in Catalogs(Written), NEW sheet \in Sheets, NEW k \in ItemKeys(ours, sheet)
  PROVE  LET o == Item(ours, k)  t == Item(sheet.theirs, k)  b == Item(sheet.base, k)
             m == MergedItem(ours, sheet, k) IN
         /\ m \in Values \cup {"none"}
         /\ m \in Values => m = o \/ (m = t /\ (~sheet.meta \/ b # t))
         /\ k \in Keys(ours) /\ k \in Keys(sheet.theirs) =>
              m \in Values /\ (~ItemRefused(ours, sheet, k) /\ t # b => m = t)
<1>1. sheet.theirs \in Catalogs(Written \cup {NewRow}) /\ sheet.base \in Catalogs(Written)
      /\ sheet.meta \in BOOLEAN
  BY DEF Sheets
<1>2. "none" \notin Values
  BY DEF Values
<1>3. \A j \in Keys(ours) : Item(ours, j) \in Values /\ Item(ours, j) = ours.items[j]
  BY CatalogParts DEF Item
<1>4. \A j \in Keys(sheet.theirs) : /\ Item(sheet.theirs, j) \in Values
                                    /\ Item(sheet.theirs, j) = sheet.theirs.items[j]
  BY <1>1, CatalogParts DEF Item
<1>5. \A j : j \notin Keys(sheet.base) => Item(sheet.base, j) = "none"
  BY DEF Item
<1>6. k \in Keys(ours) \/ k \in Keys(sheet.theirs)
  BY DEF ItemKeys
<1>7. CASE k \in Keys(ours) /\ k \in Keys(sheet.theirs)
  <2> DEFINE o == Item(ours, k)  t == Item(sheet.theirs, k)  b == Item(sheet.base, k)
             m == MergeValue(o, t, b, sheet.meta)
  <2>1. MergedItem(ours, sheet, k) = m
    BY <1>7 DEF MergedItem
  <2>2. ~ItemRefused(ours, sheet, k) => ~Conflict(o, t, b, sheet.meta)
    BY <1>3, <1>4, <1>7 DEF ItemRefused
  <2>3. /\ m \in {o, t} /\ (~Conflict(o, t, b, sheet.meta) /\ t # b => m = t)
        /\ m # o => ~sheet.meta \/ t # b
    BY <1>1, MergedValues
  <2>4. o \in Values /\ t \in Values
    BY <1>3, <1>4, <1>7
  <2> HIDE DEF o, t, b, m
  <2>5. m = o \/ (m = t /\ (~sheet.meta \/ b # t))
    BY <2>3
  <2> QED BY <1>7, <2>1, <2>2, <2>3, <2>4, <2>5 DEF o, t, b
<1>8. CASE k \notin Keys(ours)
  BY <1>2, <1>4, <1>5, <1>6, <1>8 DEF MergedItem
<1>9. CASE k \in Keys(ours) /\ k \notin Keys(sheet.theirs)
  BY <1>2, <1>3, <1>9 DEF MergedItem
<1> QED BY <1>7, <1>8, <1>9

\* What an import makes: the rows both sides have, merged, and the new ones with their ids.
LEMMA ImportFacts ==
  ASSUME NEW ours \in Catalogs(Written), NEW sheet \in Sheets, Numbered(ours, sheet)
  PROVE  LET new  == ImportInto(ours, sheet)
             rows == NewRows(ours, sheet) IN
         /\ new \in Catalogs(Written)
         /\ Ids(new) = (Ids(ours) \cap Ids(sheet.theirs)) \cup {IdOf(ours, sheet, i) : i \in rows}
         /\ \A i \in Ids(ours) \cap Ids(sheet.theirs) : new.tcs[i] = MergedRow(ours, sheet, i)
         /\ \A i \in rows : new.tcs[IdOf(ours, sheet, i)] = [sheet.theirs.tcs[i] EXCEPT !.origin = "qa"]
         /\ Keys(new) = {k \in ItemKeys(ours, sheet) : MergedItem(ours, sheet, k) # "none"}
         /\ \A k \in Keys(new) : new.items[k] = MergedItem(ours, sheet, k)
         /\ new.status = MergeValue(ours.status, sheet.theirs.status, sheet.base.status, sheet.meta)
<1> DEFINE kept  == Ids(ours) \cap Ids(sheet.theirs)
           rows  == NewRows(ours, sheet)
           id(i) == IdOf(ours, sheet, i)
           added == {id(i) : i \in rows}
           row(j) == CHOOSE i \in rows : id(i) = j
           S     == kept \cup added
           tcs   == [j \in S |-> IF j \in kept THEN MergedRow(ours, sheet, j)
                                 ELSE [sheet.theirs.tcs[row(j)] EXCEPT !.origin = "qa"]]
           K     == {k \in ItemKeys(ours, sheet) : MergedItem(ours, sheet, k) # "none"}
           items == [k \in K |-> MergedItem(ours, sheet, k)]
           status == MergeValue(ours.status, sheet.theirs.status, sheet.base.status, sheet.meta)
           new   == [prd |-> ours.prd, status |-> status, tcs |-> tcs, items |-> items]
<1>1. ImportInto(ours, sheet) = new
  BY DEF ImportInto
<1>2. sheet.theirs \in Catalogs(Written \cup {NewRow}) /\ sheet.meta \in BOOLEAN
  BY DEF Sheets
<1>3. /\ ours.prd \in SUBSET Acs /\ ours.status \in {"none"} \cup Values
      /\ Ids(ours) \subseteq Written /\ Keys(ours) \subseteq Acs \cup Waivers
  BY CatalogParts
<1>4. /\ sheet.theirs.status \in {"none"} \cup Values /\ Keys(sheet.theirs) \subseteq Acs \cup Waivers
      /\ \A i \in Ids(sheet.theirs) : sheet.theirs.tcs[i] \in Case
  BY <1>2, CatalogParts
<1>5. \A i \in rows : i \in Ids(sheet.theirs) /\ id(i) \in Written /\ id(i) \notin kept
  BY NewIds
<1>6. \A i \in rows : row(id(i)) = i
  <2> SUFFICES ASSUME NEW i \in rows PROVE row(id(i)) = i
    OBVIOUS
  <2>1. row(id(i)) \in rows /\ id(row(id(i))) = id(i)
    OBVIOUS
  <2>2. \A j \in rows : id(i) = id(j) => i = j
    BY NewIds
  <2> HIDE DEF row, id, rows
  <2> QED BY <2>1, <2>2
<1>7. \A j \in kept : MergedRow(ours, sheet, j) \in Case
  BY MergedRows
<1>8. \A i \in Ids(sheet.theirs) : [sheet.theirs.tcs[i] EXCEPT !.origin = "qa"] \in Case
  BY <1>4 DEF Case
<1> HIDE DEF row, id, rows, kept
<1>9. \A j \in added : j \in Written /\ row(j) \in Ids(sheet.theirs)
  BY <1>5, <1>6
<1>10. S \in SUBSET Written
  BY <1>3, <1>9 DEF kept
<1>11. tcs \in [S -> Case]
  BY <1>7, <1>8, <1>9
<1>12. \A k \in ItemKeys(ours, sheet) : MergedItem(ours, sheet, k) \in Values \cup {"none"}
  BY MergedItems
<1>13. ItemKeys(ours, sheet) \subseteq Acs \cup Waivers
  BY <1>3, <1>4 DEF ItemKeys
<1>14. K \in SUBSET (Acs \cup Waivers) /\ items \in [K -> Values]
  BY <1>12, <1>13
<1>15. status \in {"none"} \cup Values
  <2>1. status \in {ours.status, sheet.theirs.status}
    BY <1>2, MergedValues
  <2> HIDE DEF status
  <2> QED BY <1>3, <1>4, <2>1
<1>16. \A i \in rows : tcs[id(i)] = [sheet.theirs.tcs[i] EXCEPT !.origin = "qa"]
  BY <1>5, <1>6
<1>17. \A i \in kept : tcs[i] = MergedRow(ours, sheet, i)
  OBVIOUS
<1>18. \A k \in K : items[k] = MergedItem(ours, sheet, k)
  OBVIOUS
<1> HIDE DEF S, tcs, K, items, status
<1>19. new \in Catalogs(Written)
  BY <1>3, <1>10, <1>11, <1>14, <1>15, CatalogOf
<1>20. Ids(new) = S /\ new.tcs = tcs /\ Keys(new) = K /\ new.items = items /\ new.status = status
  BY <1>11, <1>14 DEF Ids, Keys
<1> HIDE DEF new
<1> QED BY <1>1, <1>16, <1>17, <1>18, <1>19, <1>20 DEF S, K, status, id, rows, kept

-----------------------------------------------------------------------------
(* Counting the test cases of QA.                                            *)

\* At most n test cases are not the LLM's; a row without an id is one of them.
Few(c, n) == IsFiniteSet(Ids(c) \ LlmIds) /\ Cardinality(Ids(c) \ LlmIds) <= n

\* Fewer test cases are still few.
LEMMA FewOf ==
  ASSUME NEW c, NEW d, NEW n \in Nat, NEW m \in Nat, Few(c, n), n <= m, Ids(d) \subseteq Ids(c) \cup LlmIds
  PROVE  Few(d, m)
<1> DEFINE S == Ids(c) \ LlmIds  T == Ids(d) \ LlmIds
<1>1. T \in SUBSET S /\ IsFiniteSet(S) /\ Cardinality(S) <= n
  BY DEF Few
<1> SUFFICES IsFiniteSet(T) /\ Cardinality(T) <= m
  BY DEF Few
<1> HIDE DEF S, T
<1>2. IsFiniteSet(T) /\ Cardinality(T) <= Cardinality(S)
  BY <1>1, FS_Subset
<1>3. Cardinality(S) \in Nat /\ Cardinality(T) \in Nat
  BY <1>1, <1>2, FS_CardinalityType
<1> QED BY <1>1, <1>2, <1>3

\* One more test case is one more.
LEMMA OneMore ==
  ASSUME NEW c, NEW d, NEW n \in Nat, NEW q, Few(c, n), Ids(d) \subseteq Ids(c) \cup {q}
  PROVE  Few(d, n + 1)
<1> DEFINE S == Ids(c) \ LlmIds  T == Ids(d) \ LlmIds
<1>1. T \in SUBSET (S \cup {q}) /\ IsFiniteSet(S) /\ Cardinality(S) <= n
  BY DEF Few
<1> SUFFICES IsFiniteSet(T) /\ Cardinality(T) <= n + 1
  BY DEF Few
<1> HIDE DEF S, T
<1>2. /\ IsFiniteSet(S \cup {q})
      /\ Cardinality(S \cup {q}) = IF q \in S THEN Cardinality(S) ELSE Cardinality(S) + 1
  BY <1>1, FS_AddElement
<1>3. IsFiniteSet(T) /\ Cardinality(T) <= Cardinality(S \cup {q})
  BY <1>1, <1>2, FS_Subset
<1>4. Cardinality(S) \in Nat /\ Cardinality(T) \in Nat
  BY <1>1, <1>3, FS_CardinalityType
<1> QED BY <1>1, <1>2, <1>3, <1>4

\* An import has at most as many as the sheet: what the sheet has not is gone, and each
\* row is one test case.
LEMMA ImportFew ==
  ASSUME NEW ours \in Catalogs(Written), NEW sheet \in Sheets, Numbered(ours, sheet),
         NEW n \in Nat, Few(sheet.theirs, n)
  PROVE  Few(ImportInto(ours, sheet), n)
<1> DEFINE rows == NewRows(ours, sheet)
           new  == ImportInto(ours, sheet)
           S    == Ids(sheet.theirs) \ LlmIds
           f    == [i \in S |-> IF i \in rows THEN IdOf(ours, sheet, i) ELSE i]
           T    == {f[i] : i \in S}
           N    == Ids(new) \ LlmIds
<1>1. Ids(new) = (Ids(ours) \cap Ids(sheet.theirs)) \cup {IdOf(ours, sheet, i) : i \in rows}
  BY ImportFacts
<1>2. \A i \in rows : /\ i \in Ids(sheet.theirs) \ Ids(ours)
                      /\ i # NewRow => IdOf(ours, sheet, i) = i
  BY NewIds
<1>3. NewRow \notin LlmIds
  BY CatalogueAssumption
<1> HIDE DEF rows, new
<1>4. N \in SUBSET T
  <2> SUFFICES ASSUME NEW j \in N PROVE \E i \in S : f[i] = j
    OBVIOUS
  <2>1. CASE j \in Ids(ours) \cap Ids(sheet.theirs)
    BY <1>2, <2>1
  <2>2. CASE \E i \in rows : j = IdOf(ours, sheet, i)
    BY <1>2, <1>3, <2>2
  <2> QED BY <1>1, <2>1, <2>2
<1>5. f \in Surjection(S, T)
  BY DEF Surjection
<1>6. IsFiniteSet(S) /\ Cardinality(S) <= n
  BY DEF Few
<1> SUFFICES IsFiniteSet(N) /\ Cardinality(N) <= n
  BY DEF Few, new
<1> HIDE DEF f, S, T, N
<1>7. IsFiniteSet(T) /\ Cardinality(T) <= Cardinality(S)
  BY <1>5, <1>6, FS_Surjection
<1>8. IsFiniteSet(N) /\ Cardinality(N) <= Cardinality(T)
  BY <1>4, <1>7, FS_Subset
<1>9. Cardinality(S) \in Nat /\ Cardinality(T) \in Nat /\ Cardinality(N) \in Nat
  BY <1>6, <1>7, <1>8, FS_CardinalityType
<1> QED BY <1>6, <1>7, <1>8, <1>9

\* Few test cases leave an id for a new one.
LEMMA AlwaysNumbered ==
  ASSUME NEW ours \in Catalogs(Written), NEW sheet \in Sheets,
         Few(ours, MaxTyped), Few(sheet.theirs, MaxTyped)
  PROVE  Numbered(ours, sheet)
<1> DEFINE A == Ids(ours) \ LlmIds
           B == Ids(sheet.theirs) \ LlmIds
           C == B \ {NewRow}
<1> SUFFICES ASSUME NewRow \in NewRows(ours, sheet), FreshIds(ours, sheet) = {}
             PROVE  FALSE
  BY DEF Numbered
<1>1. /\ NewRow \in B /\ QaIds \cap LlmIds = {} /\ NewRow \notin QaIds /\ MaxTyped \in Nat
      /\ IsFiniteSet(QaIds) => Cardinality(QaIds) >= 2 * MaxTyped
  BY CatalogueAssumption DEF NewRows
<1>2. QaIds \in SUBSET (A \cup C)
  BY <1>1 DEF FreshIds
<1>3. /\ IsFiniteSet(A) /\ Cardinality(A) <= MaxTyped
      /\ IsFiniteSet(B) /\ Cardinality(B) <= MaxTyped
  BY DEF Few
<1> HIDE DEF A, B
<1>4. IsFiniteSet(C) /\ Cardinality(C) = Cardinality(B) - 1
  BY <1>1, <1>3, FS_RemoveElement
<1>5. Cardinality(A) \in Nat /\ Cardinality(B) \in Nat /\ Cardinality(C) \in Nat
  BY <1>3, <1>4, FS_CardinalityType
<1> HIDE DEF C
<1>6. /\ IsFiniteSet(A \cup C) /\ IsFiniteSet(A \cap C)
      /\ Cardinality(A \cup C) = Cardinality(A) + Cardinality(C) - Cardinality(A \cap C)
  BY <1>3, <1>4, FS_Union, FS_Intersection
<1>7. IsFiniteSet(QaIds) /\ Cardinality(QaIds) <= Cardinality(A \cup C)
  BY <1>2, <1>6, FS_Subset
<1>8. Cardinality(A \cap C) \in Nat /\ Cardinality(A \cup C) \in Nat /\ Cardinality(QaIds) \in Nat
  BY <1>6, <1>7, FS_CardinalityType
<1>9. Cardinality(A \cup C) <= MaxTyped + (MaxTyped - 1)
  BY <1>1, <1>3, <1>4, <1>5, <1>6, <1>8
<1>10. Cardinality(QaIds) >= 2 * MaxTyped
  BY <1>1, <1>7
<1> QED BY <1>1, <1>7, <1>8, <1>9, <1>10

\* So what an existing catalogue absorbs of a sheet is a catalogue, with few test cases.
LEMMA AbsorbFacts ==
  ASSUME NEW ours \in Catalogs(Written), NEW sheet \in Sheets, NEW n \in Nat, n <= MaxTyped,
         Few(ours, n), Few(sheet.theirs, n)
  PROVE  /\ Numbered(ours, sheet)
         /\ ImportInto(ours, sheet) \in Catalogs(Written) /\ Few(ImportInto(ours, sheet), n)
         /\ Absorbed(ours, sheet) \in Catalogs(Written) /\ Few(Absorbed(ours, sheet), n)
<1>1. MaxTyped \in Nat
  BY CatalogueAssumption
<1>2. Few(ours, MaxTyped) /\ Few(sheet.theirs, MaxTyped)
  BY <1>1, FewOf
<1>3. Numbered(ours, sheet)
  BY <1>2, AlwaysNumbered
<1>4. ImportInto(ours, sheet) \in Catalogs(Written) /\ Few(ImportInto(ours, sheet), n)
  BY <1>3, ImportFacts, ImportFew
<1> QED BY <1>3, <1>4 DEF Absorbed

-----------------------------------------------------------------------------
(* The edits of QA.                                                          *)

\* A catalogue with other test cases is one, if these are.
LEMMA WithCases ==
  ASSUME NEW ids, NEW c \in Catalogs(ids), NEW S \in SUBSET ids, NEW tcs \in [S -> Case]
  PROVE  /\ [c EXCEPT !.tcs = tcs] \in Catalogs(ids) /\ Ids([c EXCEPT !.tcs = tcs]) = S
<1>1. tcs \in Partial(ids, Case)
  BY PartialIs
<1> QED BY <1>1 DEF Catalogs, Ids

\* So is one with other excuses and waivers.
LEMMA WithItems ==
  ASSUME NEW ids, NEW c \in Catalogs(ids),
         NEW K \in SUBSET (Acs \cup Waivers), NEW items \in [K -> Values]
  PROVE  /\ [c EXCEPT !.items = items] \in Catalogs(ids) /\ Ids([c EXCEPT !.items = items]) = Ids(c)
<1>1. items \in Partial(Acs \cup Waivers, Values)
  BY PartialIs
<1> QED BY <1>1 DEF Catalogs, Ids

\* An edit of one cell, row or entry leaves a catalogue, without a new test case.
LEMMA EditedFits ==
  ASSUME NEW ids, NEW c \in Catalogs(ids), NEW d \in Edited(c)
  PROVE  d \in Catalogs(ids) /\ Ids(d) \subseteq Ids(c)
<1>1. /\ c.prd \subseteq Acs /\ Ids(c) \subseteq ids /\ \A i \in Ids(c) : c.tcs[i] \in Case
      /\ c.tcs = [i \in Ids(c) |-> c.tcs[i]] /\ c.tcs \in [Ids(c) -> Case]
      /\ Keys(c) \subseteq Acs \cup Waivers /\ \A k \in Keys(c) : c.items[k] \in Values
  <2>1. c.tcs \in Partial(ids, Case)
    BY DEF Catalogs
  <2> QED BY <2>1, CatalogParts, PartialIs DEF Ids
<1>2. ASSUME NEW i \in Ids(c), NEW s \in Statuses, d = [c EXCEPT !.tcs[i].status = s]
      PROVE  d \in Catalogs(ids) /\ Ids(d) \subseteq Ids(c)
  <2>1. d = [c EXCEPT !.tcs = [c.tcs EXCEPT ![i] = [c.tcs[i] EXCEPT !.status = s]]]
    BY <1>2
  <2>2. [c.tcs EXCEPT ![i] = [c.tcs[i] EXCEPT !.status = s]] \in [Ids(c) -> Case]
    BY <1>1 DEF Case
  <2> QED BY <1>1, <2>1, <2>2, WithCases
<1>3. ASSUME NEW i \in Ids(c), NEW t \in Texts, d = [c EXCEPT !.tcs[i].text = t]
      PROVE  d \in Catalogs(ids) /\ Ids(d) \subseteq Ids(c)
  <2>1. d = [c EXCEPT !.tcs = [c.tcs EXCEPT ![i] = [c.tcs[i] EXCEPT !.text = t]]]
    BY <1>3
  <2>2. [c.tcs EXCEPT ![i] = [c.tcs[i] EXCEPT !.text = t]] \in [Ids(c) -> Case]
    BY <1>1 DEF Case
  <2> QED BY <1>1, <2>1, <2>2, WithCases
<1>4. ASSUME NEW i \in Ids(c), d = [c EXCEPT !.tcs = Without(@, i)]
      PROVE  d \in Catalogs(ids) /\ Ids(d) \subseteq Ids(c)
  <2>1. Without(c.tcs, i) \in [Ids(c) \ {i} -> Case]
    BY <1>1 DEF Without, Ids
  <2> QED BY <1>1, <1>4, <2>1, WithCases
<1>5. ASSUME NEW k \in Waivers \cup c.prd, NEW v \in Values, d = [c EXCEPT !.items = Put(@, k, v)]
      PROVE  d \in Catalogs(ids) /\ Ids(d) \subseteq Ids(c)
  <2>1. Put(c.items, k, v) \in [Keys(c) \cup {k} -> Values]
    BY <1>1 DEF Put, Keys
  <2>2. Keys(c) \cup {k} \in SUBSET (Acs \cup Waivers)
    BY <1>1
  <2> QED BY <1>1, <1>5, <2>1, <2>2, WithItems
<1>6. ASSUME NEW k \in Keys(c), d = [c EXCEPT !.items = Without(@, k)]
      PROVE  d \in Catalogs(ids) /\ Ids(d) \subseteq Ids(c)
  <2>1. Without(c.items, k) \in [Keys(c) \ {k} -> Values]
    BY <1>1 DEF Without, Keys
  <2>2. Keys(c) \ {k} \in SUBSET (Acs \cup Waivers)
    BY <1>1
  <2> QED BY <1>1, <1>6, <2>1, <2>2, WithItems
<1>7. ASSUME NEW s \in Values, d = [c EXCEPT !.status = s]
      PROVE  d \in Catalogs(ids) /\ Ids(d) \subseteq Ids(c)
  BY <1>7 DEF Catalogs, Ids
<1> QED BY <1>2, <1>3, <1>4, <1>5, <1>6, <1>7 DEF Edited

\* A test case that QA adds is one more.
LEMMA AddedFits ==
  ASSUME NEW ids, NEW c \in Catalogs(ids), NEW q \in ids
  PROVE  LET d == [c EXCEPT !.tcs = Put(@, q, NewCase)] IN
         d \in Catalogs(ids) /\ Ids(d) = Ids(c) \cup {q}
<1>1. Ids(c) \subseteq ids /\ \A i \in Ids(c) : c.tcs[i] \in Case
  BY CatalogParts
<1>2. NewCase \in Case
  BY DEF NewCase, Case, Statuses, Texts
<1>3. Put(c.tcs, q, NewCase) \in [Ids(c) \cup {q} -> Case]
  BY <1>1, <1>2 DEF Put, Ids
<1> QED BY <1>1, <1>3, WithCases

-----------------------------------------------------------------------------
(* The invariant: types; few test cases of QA wherever a command can take    *)
(* them from; and what a command is about to write follows from what it read *)

Jobs == [cmd : {"none", "generate", "regen", "import", "export"}, force : BOOLEAN,
         old : Catalogs(Written), seen : Sheets, new : Catalogs(Written)]

CatTypes == yaml \in Catalogs(Written) /\ xlsx \in Sheets /\ copy \in Sheets /\ job \in Jobs

FewTyped == /\ typed \in Nat /\ typed <= MaxTyped
            /\ Few(yaml, typed) /\ Few(xlsx.theirs, typed) /\ Few(copy.theirs, typed)
            /\ Few(job.old, typed) /\ Few(job.seen.theirs, typed) /\ Few(job.new, typed)

\* An unforced generate found no catalogue, and none comes up before it writes its own.
GeneratePlan ==
  /\ job.cmd = "generate"
  /\ IF pc = "asking" THEN job.new = NoCatalog
     ELSE \E p \in Proposals : job.new = Candidate(p)
  /\ ~job.force => job.old = NoCatalog /\ (pc \in {"asking", "yaml"} => yaml = NoCatalog)

RegenPlan ==
  /\ job.cmd = "regen" /\ ~job.force /\ ~AbsorbFails(job.old, job.seen)
  /\ LET c == Absorbed(job.old, job.seen) IN
     IF pc = "asking" THEN job.new = c
     ELSE /\ pc \in {"tests", "sheet"} => yaml = job.new
          /\ \E p \in Proposals : job.new = Merge(c, Candidate(p))

ImportPlan ==
  /\ job.cmd = "import" /\ pc # "asking" /\ ~job.force
  /\ Readable(job.seen) /\ ImportOk(job.old, job.seen) /\ job.new = ImportInto(job.old, job.seen)
  /\ pc \in {"tests", "sheet"} => yaml = job.new

ExportPlan ==
  /\ job.cmd = "export" /\ pc = "sheet" /\ job.new = job.old
  /\ \/ job.force \/ ~Readable(job.seen)
     \/ SyncStatus(job.old, job.seen) \notin {"xlsx_ahead", "diverged"}

Planned == \/ pc = "idle"
           \/ pc \in {"asking", "yaml", "tests", "sheet"} /\ (GeneratePlan \/ RegenPlan \/ ImportPlan \/ ExportPlan)

CatInv == CatTypes /\ FewTyped /\ Planned

\* An empty catalogue has few test cases; more may be written later.
LEMMA FewFacts ==
  /\ \A n \in Nat : Few(NoCatalog, n)
  /\ FewTyped /\ typed' \in {typed, typed + 1} =>
       \A c : Few(c, typed) => Few(c, typed')
<1>1. ASSUME NEW n \in Nat PROVE Few(NoCatalog, n)
  <2>1. Ids(NoCatalog) \ LlmIds = {}
    BY DEF Ids, NoCatalog, Nothing
  <2> QED BY <2>1, FS_EmptySet DEF Few
<1>2. ASSUME FewTyped, typed' \in {typed, typed + 1}, NEW c, Few(c, typed) PROVE Few(c, typed')
  <2>1. typed \in Nat /\ typed' \in Nat /\ typed <= typed'
    BY <1>2 DEF FewTyped
  <2> QED BY <1>2, <2>1, FewOf
<1> QED BY <1>1, <1>2

\* There is no test case to begin with.
LEMMA CatStart == Init => CatInv
<1> SUFFICES ASSUME Init PROVE CatInv
  OBVIOUS
<1>1. yaml = NoCatalog /\ xlsx = NoSheet /\ copy = NoSheet /\ job = NoJob /\ typed = 0 /\ pc = "idle"
  BY DEF Init
<1>2. NoJob \in Jobs
  BY EmptyFits DEF NoJob, Jobs
<1>3. /\ xlsx.theirs = NoCatalog /\ copy.theirs = NoCatalog /\ job.old = NoCatalog /\ job.seen.theirs = NoCatalog
      /\ job.new = NoCatalog
  BY <1>1 DEF NoSheet, NoJob
<1>4. typed \in Nat /\ typed <= MaxTyped
  BY <1>1, CatalogueAssumption
<1> QED BY <1>1, <1>2, <1>3, <1>4, EmptyFits, FewFacts DEF CatInv, CatTypes, FewTyped, Planned

\* An edit leaves alone what a command is about to write.
LEMMA EditKeeps ==
  ASSUME CatInv, pc \in {"idle", "asking"}, UNCHANGED <<pc, job>>,
         yaml' = yaml \/ yaml # NoCatalog
  PROVE  Planned'
<1>1. GeneratePlan => GeneratePlan'
  BY DEF GeneratePlan
<1>2. RegenPlan => RegenPlan'
  BY DEF RegenPlan
<1>3. ImportPlan => ImportPlan'
  BY DEF ImportPlan
<1>4. ExportPlan => ExportPlan'
  BY DEF ExportPlan
<1> QED BY <1>1, <1>2, <1>3, <1>4 DEF CatInv, Planned

\* Edits of the YAML.
LEMMA EditYamlStep == CatInv /\ EditYaml => CatInv'
<1> SUFFICES ASSUME CatInv, EditYaml PROVE CatInv'
  OBVIOUS
<1>0. MaxTyped \in Nat
  BY CatalogueAssumption
<1>1. /\ yaml # NoCatalog /\ pc \in {"idle", "asking"} /\ UNCHANGED <<pc, job, xlsx, copy>>
      /\ typed' \in {typed, typed + 1} /\ typed' <= MaxTyped
  BY <1>0 DEF EditYaml, Edit, CatInv, FewTyped
<1>2. yaml' \in Catalogs(Written) /\ Few(yaml', typed')
  <2>1. CASE yaml' \in Edited(yaml) /\ typed' = typed
    BY <2>1, EditedFits, FewOf DEF CatInv, CatTypes, FewTyped
  <2>2. ASSUME NEW q \in QaIds, typed' = typed + 1,
               yaml' = [yaml EXCEPT !.tcs = Put(@, q, NewCase)]
        PROVE  yaml' \in Catalogs(Written) /\ Few(yaml', typed')
    <3>1. yaml' \in Catalogs(Written) /\ Ids(yaml') = Ids(yaml) \cup {q}
      BY <2>2, AddedFits DEF CatInv, CatTypes, Written
    <3> QED BY <2>2, <3>1, OneMore DEF CatInv, FewTyped
  <2>3. \/ yaml' \in Edited(yaml) /\ typed' = typed
        \/ \E q \in QaIds : /\ typed' = typed + 1
                            /\ yaml' = [yaml EXCEPT !.tcs = Put(@, q, NewCase)]
    BY DEF EditYaml, FreshIds
  <2> QED BY <2>1, <2>2, <2>3
<1>3. CatTypes'
  BY <1>1, <1>2 DEF CatInv, CatTypes
<1>4. FewTyped'
  BY <1>1, <1>2, FewFacts DEF CatInv, FewTyped
<1> QED BY <1>1, <1>3, <1>4, EditKeeps DEF CatInv

\* An edit of a sheet leaves one, without a new row: the snapshot stays, or goes.
LEMMA SheetEditFits ==
  ASSUME NEW s \in Sheets, NEW n \in Nat, Few(s.theirs, n), Readable(s), NEW t \in SheetEdits(s)
  PROVE  t \in Sheets /\ Few(t.theirs, n)
<1> DEFINE ids == Written \cup {NewRow}
<1>1. /\ s \in [kind : {"none", "sheet", "corrupt"}, theirs : Catalogs(ids),
                base : Catalogs(Written), meta : BOOLEAN, syntax : BOOLEAN]
      /\ (s.meta => s.kind = "sheet") /\ (~s.meta => s.base = NoCatalog)
  BY DEF Sheets
<1> HIDE DEF ids
<1>2. ASSUME NEW c \in Catalogs(ids), t = [s EXCEPT !.theirs = c], Ids(c) \subseteq Ids(s.theirs)
      PROVE  t \in Sheets /\ Few(t.theirs, n)
  <2>1. t \in Sheets /\ t.theirs = c
    BY <1>1, <1>2 DEF Sheets, ids
  <2> QED BY <1>2, <2>1, FewOf
<1>3. ASSUME NEW c \in Edited(s.theirs), t = [s EXCEPT !.theirs = c]
      PROVE  t \in Sheets /\ Few(t.theirs, n)
  <2>1. c \in Catalogs(ids) /\ Ids(c) \subseteq Ids(s.theirs)
    BY <1>1, EditedFits
  <2> QED BY <1>2, <1>3, <2>1
<1>4. ASSUME NEW i \in Ids(s.theirs), t = [s EXCEPT !.theirs.tcs[i].origin = IF @ = "qa" THEN "llm" ELSE "qa"]
      PROVE  t \in Sheets /\ Few(t.theirs, n)
  <2> DEFINE o   == s.theirs
             tcs == [o.tcs EXCEPT ![i] = [o.tcs[i] EXCEPT !.origin = IF @ = "qa" THEN "llm" ELSE "qa"]]
             c   == [o EXCEPT !.tcs = tcs]
  <2>1. o \in Catalogs(ids)
    BY <1>1
  <2>2. t = [s EXCEPT !.theirs = c]
    BY <1>1, <1>4 DEF Catalogs
  <2>3. Ids(o) \subseteq ids /\ \A j \in Ids(o) : o.tcs[j] \in Case
    BY <2>1, CatalogParts
  <2>4. tcs \in [Ids(o) -> Case]
    BY <1>4, <2>3 DEF Case, Ids
  <2> HIDE DEF o, tcs
  <2>5. [o EXCEPT !.tcs = tcs] \in Catalogs(ids) /\ Ids([o EXCEPT !.tcs = tcs]) = Ids(o)
    BY <2>1, <2>3, <2>4, WithCases
  <2> QED BY <1>2, <2>2, <2>5 DEF o
<1>5. ASSUME t = [s EXCEPT !.meta = FALSE, !.base = NoCatalog] PROVE t \in Sheets /\ Few(t.theirs, n)
  BY <1>1, <1>5, EmptyFits DEF Sheets, ids
<1>6. ASSUME t = [s EXCEPT !.syntax = TRUE] PROVE t \in Sheets /\ Few(t.theirs, n)
  BY <1>1, <1>6 DEF Sheets, ids
<1>7. ASSUME t = [NoSheet EXCEPT !.kind = "corrupt"] PROVE t \in Sheets /\ Few(t.theirs, n)
  <2>1. /\ NoSheet \in Sheets /\ NoSheet.meta = FALSE /\ NoSheet.base = NoCatalog
        /\ NoSheet.theirs = NoCatalog
    BY EmptyFits DEF NoSheet
  <2>2. t \in Sheets /\ t.theirs = NoCatalog
    BY <1>7, <2>1 DEF Sheets
  <2> QED BY <2>2, FewFacts
<1> QED BY <1>3, <1>4, <1>5, <1>6, <1>7 DEF SheetEdits

\* A row that QA types is one more.
LEMMA WithRowFits ==
  ASSUME NEW s \in Sheets, NEW n \in Nat, Few(s.theirs, n)
  PROVE  WithRow(s) \in Sheets /\ Few(WithRow(s).theirs, n + 1)
<1> DEFINE c == [s.theirs EXCEPT !.tcs = Put(@, NewRow, NewCase)]
<1>1. s.theirs \in Catalogs(Written \cup {NewRow})
  BY DEF Sheets
<1>2. c \in Catalogs(Written \cup {NewRow}) /\ Ids(c) = Ids(s.theirs) \cup {NewRow}
  BY <1>1, AddedFits
<1>3. WithRow(s) = [s EXCEPT !.theirs = c]
  BY DEF WithRow, Sheets, Catalogs
<1>4. Few(c, n + 1)
  BY <1>2, OneMore
<1> HIDE DEF c
<1>5. WithRow(s) \in Sheets /\ WithRow(s).theirs = c
  BY <1>2, <1>3 DEF Sheets
<1> QED BY <1>4, <1>5

\* What every edit does: the running command is left alone, and what was few stays so.
LEMMA EditFacts ==
  ASSUME CatInv, Edit, typed' \in {typed, typed + 1}, typed' <= MaxTyped, UNCHANGED yaml,
         xlsx' \in Sheets, Few(xlsx'.theirs, typed'), copy' \in Sheets, Few(copy'.theirs, typed')
  PROVE  CatInv'
<1>1. pc \in {"idle", "asking"} /\ UNCHANGED <<pc, job, yaml>> /\ MaxTyped \in Nat
  BY CatalogueAssumption DEF Edit
<1>2. CatTypes'
  BY <1>1 DEF CatInv, CatTypes
<1>3. FewTyped'
  BY <1>1, FewFacts DEF CatInv, FewTyped
<1> QED BY <1>1, <1>2, <1>3, EditKeeps DEF CatInv

\* Edits of the spreadsheet.
LEMMA EditSheetStep == CatInv /\ EditSheet => CatInv'
<1> SUFFICES ASSUME CatInv, EditSheet PROVE CatInv'
  OBVIOUS
<1>1. /\ xlsx \in Sheets /\ Few(xlsx.theirs, typed) /\ Few(copy.theirs, typed) /\ copy \in Sheets
      /\ typed \in Nat /\ typed <= MaxTyped /\ MaxTyped \in Nat
  BY CatalogueAssumption DEF CatInv, CatTypes, FewTyped
<1>2. Edit /\ Readable(xlsx) /\ UNCHANGED <<yaml, copy>>
  BY DEF EditSheet
<1>3. CASE xlsx' \in SheetEdits(xlsx) /\ typed' = typed
  BY <1>1, <1>2, <1>3, SheetEditFits, EditFacts
<1>4. CASE TypeRow(xlsx) /\ xlsx' = WithRow(xlsx)
  <2>1. typed' = typed + 1 /\ typed' <= MaxTyped
    BY <1>1, <1>4 DEF TypeRow
  <2>2. Few(copy'.theirs, typed')
    BY <1>1, <1>2, <2>1, FewFacts DEF CatInv
  <2> QED BY <1>1, <1>2, <1>4, <2>1, <2>2, WithRowFits, EditFacts
<1> QED BY <1>3, <1>4 DEF EditSheet

\* Edits of the copy.
LEMMA EditCopyStep == CatInv /\ EditCopy => CatInv'
<1> SUFFICES ASSUME CatInv, EditCopy PROVE CatInv'
  OBVIOUS
<1>1. /\ xlsx \in Sheets /\ Few(xlsx.theirs, typed) /\ Few(copy.theirs, typed) /\ copy \in Sheets
      /\ typed \in Nat /\ typed <= MaxTyped /\ MaxTyped \in Nat
  BY CatalogueAssumption DEF CatInv, CatTypes, FewTyped
<1>2. Edit /\ Readable(copy) /\ UNCHANGED <<yaml, xlsx>>
  BY DEF EditCopy
<1>3. CASE copy' \in SheetEdits(copy) /\ typed' = typed
  BY <1>1, <1>2, <1>3, SheetEditFits, EditFacts
<1>4. CASE TypeRow(copy) /\ copy' = WithRow(copy)
  <2>1. typed' = typed + 1 /\ typed' <= MaxTyped
    BY <1>1, <1>4 DEF TypeRow
  <2>2. Few(xlsx'.theirs, typed')
    BY <1>1, <1>2, <2>1, FewFacts DEF CatInv
  <2> QED BY <1>1, <1>2, <1>4, <2>1, <2>2, WithRowFits, EditFacts
<1> QED BY <1>3, <1>4 DEF EditCopy

\* QA takes a copy.
LEMMA TakeCopyStep == CatInv /\ TakeCopy => CatInv'
<1> SUFFICES ASSUME CatInv, TakeCopy PROVE CatInv'
  OBVIOUS
<1>1. Edit /\ copy' = xlsx /\ UNCHANGED <<yaml, xlsx, typed>>
  BY DEF TakeCopy
<1>2. xlsx \in Sheets /\ Few(xlsx.theirs, typed) /\ typed \in Nat /\ typed <= MaxTyped
  BY DEF CatInv, CatTypes, FewTyped
<1> QED BY <1>1, <1>2, EditFacts

\* Edits of the tests.
LEMMA EditTestsStep == CatInv /\ EditTests => CatInv'
<1> SUFFICES ASSUME CatInv, EditTests PROVE CatInv'
  OBVIOUS
<1>1. pc = "idle" /\ UNCHANGED <<yaml, xlsx, copy, pc, job, typed>>
  BY DEF EditTests
<1>2. CatTypes' /\ FewTyped'
  BY <1>1 DEF CatInv, CatTypes, FewTyped
<1> QED BY <1>1, <1>2, EditKeeps DEF CatInv

\* A command starts from what it reads; what it will write is a catalogue, with few
\* test cases of QA.
LEMMA StartStep ==
  ASSUME CatInv, NEW cmd \in {"generate", "regen", "import", "export"}, NEW force \in BOOLEAN,
         NEW sheet \in Sheets, Few(sheet.theirs, typed),
         NEW c \in Catalogs(Written), Few(c, typed), NEW next, Start(cmd, force, sheet, c, next)
  PROVE  /\ CatTypes' /\ FewTyped' /\ pc' = next /\ yaml' = yaml
         /\ job'.cmd = cmd /\ job'.force = force /\ job'.new = c
         /\ job'.old = yaml /\ job'.seen = sheet
<1>1. /\ job' = [cmd |-> cmd, force |-> force, old |-> yaml, seen |-> sheet, new |-> c]
      /\ pc' = next /\ UNCHANGED <<yaml, xlsx, copy, typed>>
  BY DEF Start
<1>2. job' \in Jobs
  BY <1>1 DEF CatInv, CatTypes, Jobs
<1> QED BY <1>1, <1>2 DEF CatInv, CatTypes, FewTyped

\* generate, with and without --force.
LEMMA StartGenerateStep ==
  ASSUME CatInv, NEW force \in BOOLEAN, StartGenerate(force) PROVE CatInv'
<1>1. /\ NoCatalog \in Catalogs(Written) /\ Few(NoCatalog, typed)
      /\ Start("generate", force, xlsx, NoCatalog, "asking") /\ (yaml = NoCatalog \/ force)
      /\ xlsx \in Sheets /\ Few(xlsx.theirs, typed)
  BY EmptyFits, FewFacts DEF StartGenerate, CatInv, CatTypes, FewTyped
<1>2. /\ CatTypes' /\ FewTyped' /\ pc' = "asking" /\ yaml' = yaml
      /\ job'.cmd = "generate" /\ job'.force = force /\ job'.new = NoCatalog
      /\ job'.old = yaml /\ job'.seen = xlsx
  BY <1>1, StartStep
<1>3. GeneratePlan'
  BY <1>1, <1>2 DEF GeneratePlan
<1> QED BY <1>2, <1>3 DEF CatInv, Planned

\* regen: what it absorbs of the sheet.
LEMMA StartRegenStep == ASSUME CatInv, StartRegen PROVE CatInv'
<1> DEFINE c == Absorbed(yaml, xlsx)
<1>1. c \in Catalogs(Written) /\ Few(c, typed) /\ xlsx \in Sheets /\ Few(xlsx.theirs, typed)
  BY AbsorbFacts DEF CatInv, CatTypes, FewTyped
<1>2. Start("regen", FALSE, xlsx, c, "asking") /\ ~AbsorbFails(yaml, xlsx)
  BY DEF StartRegen
<1> HIDE DEF c
<1>3. /\ CatTypes' /\ FewTyped' /\ pc' = "asking" /\ yaml' = yaml
      /\ job'.cmd = "regen" /\ job'.force = FALSE /\ job'.new = c
      /\ job'.old = yaml /\ job'.seen = xlsx
  BY <1>1, <1>2, StartStep
<1>4. RegenPlan'
  <2>1. job'.new = Absorbed(job'.old, job'.seen) /\ ~AbsorbFails(job'.old, job'.seen)
    BY <1>2, <1>3 DEF c
  <2> QED BY <1>3, <2>1 DEF RegenPlan
<1> QED BY <1>3, <1>4 DEF CatInv, Planned

\* import-xlsx, of the spreadsheet or of the copy.
LEMMA StartImportStep == ASSUME CatInv, StartImport PROVE CatInv'
<1>1. PICK sheet \in {xlsx, copy} :
        LET c == ImportInto(yaml, sheet) IN
        /\ Readable(sheet) /\ ImportOk(yaml, sheet)
        /\ Start("import", FALSE, sheet, c, IF c = yaml THEN "sheet" ELSE "yaml")
  BY DEF StartImport
<1> DEFINE c == ImportInto(yaml, sheet)
<1>2. /\ sheet \in Sheets /\ Few(sheet.theirs, typed)
      /\ c \in Catalogs(Written) /\ Few(c, typed)
  <2>1. sheet \in Sheets /\ Few(sheet.theirs, typed)
    BY DEF CatInv, CatTypes, FewTyped
  <2> QED BY <2>1, AbsorbFacts DEF CatInv, CatTypes, FewTyped
<1>3. Start("import", FALSE, sheet, c, IF c = yaml THEN "sheet" ELSE "yaml")
  BY <1>1
<1> HIDE DEF c
<1>4. /\ CatTypes' /\ FewTyped' /\ pc' = (IF c = yaml THEN "sheet" ELSE "yaml") /\ yaml' = yaml
      /\ job'.cmd = "import" /\ job'.force = FALSE /\ job'.new = c
      /\ job'.old = yaml /\ job'.seen = sheet
  BY <1>2, <1>3, StartStep
<1>5. pc' \in {"yaml", "sheet"} /\ (pc' = "sheet" => yaml' = job'.new)
  BY <1>4
<1>6. ImportPlan'
  <2>1. /\ job'.new = ImportInto(job'.old, job'.seen)
        /\ Readable(job'.seen) /\ ImportOk(job'.old, job'.seen)
    BY <1>1, <1>4 DEF c
  <2> QED BY <1>4, <1>5, <2>1 DEF ImportPlan
<1> QED BY <1>4, <1>5, <1>6 DEF CatInv, Planned

\* export-xlsx, with and without --force.
LEMMA StartExportStep ==
  ASSUME CatInv, NEW force \in BOOLEAN, StartExport(force) PROVE CatInv'
<1>1. /\ yaml \in Catalogs(Written) /\ Few(yaml, typed) /\ xlsx \in Sheets /\ Few(xlsx.theirs, typed)
      /\ Start("export", force, xlsx, yaml, "sheet")
      /\ force \/ ~Readable(xlsx) \/ SyncStatus(yaml, xlsx) \notin {"xlsx_ahead", "diverged"}
  BY DEF StartExport, CatInv, CatTypes, FewTyped
<1>2. /\ CatTypes' /\ FewTyped' /\ pc' = "sheet" /\ yaml' = yaml
      /\ job'.cmd = "export" /\ job'.force = force /\ job'.new = yaml
      /\ job'.old = yaml /\ job'.seen = xlsx
  BY <1>1, StartStep
<1>3. ExportPlan'
  <2>1. job'.force \/ ~Readable(job'.seen) \/ SyncStatus(job'.old, job'.seen) \notin {"xlsx_ahead", "diverged"}
    BY <1>1, <1>2
  <2> QED BY <1>2, <2>1 DEF ExportPlan
<1> QED BY <1>2, <1>3 DEF CatInv, Planned

\* The answer of the LLM: a candidate, or what it is merged with.
LEMMA LlmAnswersStep == CatInv /\ LlmAnswers => CatInv'
<1> SUFFICES ASSUME CatInv, LlmAnswers PROVE CatInv'
  OBVIOUS
<1>1. PICK p \in Proposals :
        job' = [job EXCEPT !.new = IF job.cmd = "regen" THEN Merge(job.new, Candidate(p)) ELSE Candidate(p)]
  BY DEF LlmAnswers
<1>2. pc = "asking" /\ pc' = "yaml" /\ UNCHANGED <<yaml, xlsx, copy, typed>>
  BY DEF LlmAnswers
<1> DEFINE c == IF job.cmd = "regen" THEN Merge(job.new, Candidate(p)) ELSE Candidate(p)
<1>3. job \in Jobs /\ job.new \in Catalogs(Written) /\ Few(job.new, typed) /\ typed \in Nat
  BY DEF CatInv, CatTypes, FewTyped, Jobs
<1>4. c \in Catalogs(Written) /\ Few(c, typed)
  <2>1. /\ Merge(job.new, Candidate(p)) \in Catalogs(Written)
        /\ Ids(Merge(job.new, Candidate(p))) \subseteq Ids(job.new) \cup LlmIds
    BY <1>3, MergeFacts
  <2>2. Candidate(p) \in Catalogs(Written) /\ Ids(Candidate(p)) \subseteq Ids(job.new) \cup LlmIds
    BY CandidateFits
  <2> QED BY <1>3, <2>1, <2>2, FewOf
<1>5. /\ job'.new = c /\ job'.cmd = job.cmd /\ job'.force = job.force
      /\ job'.old = job.old /\ job'.seen = job.seen
  BY <1>1, <1>3 DEF Jobs
<1>6. job' \in Jobs
  BY <1>1, <1>3, <1>4 DEF Jobs
<1>7. CatTypes' /\ FewTyped'
  BY <1>2, <1>4, <1>5, <1>6 DEF CatInv, CatTypes, FewTyped
<1>8. CASE GeneratePlan
  <2>1. c = Candidate(p)
    BY <1>8 DEF GeneratePlan
  <2> HIDE DEF c
  <2>2. GeneratePlan'
    BY <1>2, <1>5, <1>8, <2>1 DEF GeneratePlan
  <2> QED BY <1>2, <1>7, <2>2 DEF CatInv, Planned
<1>9. CASE RegenPlan
  <2>1. c = Merge(Absorbed(job.old, job.seen), Candidate(p))
    BY <1>2, <1>9 DEF RegenPlan
  <2> HIDE DEF c
  <2>2. RegenPlan'
    BY <1>2, <1>5, <1>9, <2>1 DEF RegenPlan
  <2> QED BY <1>2, <1>7, <2>2 DEF CatInv, Planned
<1>10. ~ImportPlan /\ ~ExportPlan
  BY <1>2 DEF ImportPlan, ExportPlan
<1> QED BY <1>2, <1>8, <1>9, <1>10 DEF CatInv, Planned

\* What is planned stays so while the files are written.
LEMMA PlanStays ==
  ASSUME CatInv, pc \in {"yaml", "tests"}, pc' \in {"tests", "sheet"}, UNCHANGED job,
         yaml' = job.new \/ job.cmd = "generate" \/ (pc = "tests" /\ UNCHANGED yaml)
  PROVE  Planned'
<1>1. GeneratePlan => GeneratePlan'
  BY DEF GeneratePlan
<1>2. RegenPlan => RegenPlan'
  BY DEF RegenPlan
<1>3. ImportPlan => ImportPlan'
  BY DEF ImportPlan
<1>4. ~ExportPlan
  BY DEF ExportPlan
<1> QED BY <1>1, <1>2, <1>3, <1>4 DEF CatInv, Planned

\* The files are written.
LEMMA WriteSteps == CatInv /\ (WriteYaml \/ WriteTests \/ WriteSheet \/ Abort) => CatInv'
<1>1. ASSUME CatInv, WriteYaml PROVE CatInv'
  <2>1. /\ yaml' \in {job.new, yaml} /\ pc = "yaml" /\ pc' = "tests"
        /\ yaml' = job.new \/ job.cmd = "generate"
        /\ UNCHANGED <<xlsx, copy, job, typed>>
    BY <1>1 DEF WriteYaml, Overwrites
  <2>2. job.new \in Catalogs(Written) /\ Few(job.new, typed)
    BY <1>1 DEF CatInv, CatTypes, FewTyped, Jobs
  <2>3. CatTypes' /\ FewTyped'
    BY <1>1, <2>1, <2>2 DEF CatInv, CatTypes, FewTyped
  <2> QED BY <1>1, <2>1, <2>3, PlanStays DEF CatInv
<1>2. ASSUME CatInv, WriteTests PROVE CatInv'
  <2>1. pc = "tests" /\ pc' = "sheet" /\ UNCHANGED <<yaml, xlsx, copy, job, typed>>
    BY <1>2 DEF WriteTests
  <2>2. CatTypes' /\ FewTyped'
    BY <1>2, <2>1 DEF CatInv, CatTypes, FewTyped
  <2> QED BY <1>2, <2>1, <2>2, PlanStays DEF CatInv
<1>3. ASSUME CatInv, WriteSheet \/ Abort PROVE CatInv'
  <2>1. /\ pc' = "idle" /\ job' = NoJob /\ UNCHANGED <<yaml, copy, typed>>
        /\ xlsx' = SheetOf(job.new) \/ xlsx' = xlsx
    BY <1>3 DEF WriteSheet, Abort
  <2>2. job.new \in Catalogs(Written) /\ Few(job.new, typed) /\ typed \in Nat
    BY <1>3 DEF CatInv, CatTypes, FewTyped, Jobs
  <2>3. SheetOf(job.new) \in Sheets /\ SheetOf(job.new).theirs = job.new
    BY <2>2, SheetFits DEF SheetOf
  <2>4. /\ NoJob \in Jobs /\ NoJob.old = NoCatalog /\ NoJob.seen.theirs = NoCatalog
        /\ NoJob.new = NoCatalog
    BY EmptyFits DEF NoJob, NoSheet, Jobs
  <2>5. CatTypes'
    BY <1>3, <2>1, <2>3, <2>4 DEF CatInv, CatTypes
  <2>6. Few(NoCatalog, typed)
    BY <2>2, FewFacts
  <2>7. FewTyped'
    BY <1>3, <2>1, <2>2, <2>3, <2>4, <2>6 DEF CatInv, FewTyped
  <2>8. Planned'
    BY <2>1 DEF Planned
  <2> QED BY <2>5, <2>7, <2>8 DEF CatInv
<1> QED BY <1>1, <1>2, <1>3

\* Every step keeps the invariant.
LEMMA CatStep == CatInv /\ [Next]_vars => CatInv'
<1>1. ASSUME CatInv, UNCHANGED vars PROVE CatInv'
  <2>1. UNCHANGED <<yaml, xlsx, copy, pc, job, typed>>
    BY <1>1 DEF vars
  <2> QED BY <1>1, <2>1 DEF CatInv, CatTypes, FewTyped, Planned, GeneratePlan, RegenPlan, ImportPlan, ExportPlan
<1> QED BY <1>1, EditYamlStep, EditSheetStep, EditCopyStep, TakeCopyStep, EditTestsStep, StartGenerateStep, StartRegenStep,
           StartImportStep, StartExportStep, LlmAnswersStep, WriteSteps DEF Next, Command

\* The inductive invariant of the catalogue (groundtruth/cli.py, merge.py, xlsx.py): its
\* types, few test cases of QA in each file, and the plan of the running command, which
\* follows from the files it read.
THEOREM CatInvariant == Spec => []CatInv
BY CatStart, CatStep, PTL DEF Spec

\* However often a spreadsheet is imported, and wherever commands are cut off: the catalogue
\* has no more test cases of QA than QA has written (import_into numbers each NEW row once).
THEOREM NoTwinsEver == Spec => []NoTwins
<1>1. CatInv => NoTwins
  BY DEF CatInv, FewTyped, Few, NoTwins
<1> QED BY <1>1, CatInvariant, PTL

\* What an unforced command reads, as its types and its numbering.
LEMMA ReadFacts ==
  CatInv => /\ job.old \in Catalogs(Written) /\ job.seen \in Sheets /\ job.force \in BOOLEAN
            /\ Numbered(job.old, job.seen)
            /\ ImportInto(job.old, job.seen) \in Catalogs(Written)
            /\ Absorbed(job.old, job.seen) \in Catalogs(Written)
<1> SUFFICES ASSUME CatInv
             PROVE  /\ job.old \in Catalogs(Written) /\ job.seen \in Sheets /\ job.force \in BOOLEAN
                    /\ Numbered(job.old, job.seen)
                    /\ ImportInto(job.old, job.seen) \in Catalogs(Written)
                    /\ Absorbed(job.old, job.seen) \in Catalogs(Written)
  OBVIOUS
<1>1. job.old \in Catalogs(Written) /\ job.seen \in Sheets /\ job.force \in BOOLEAN
  BY DEF CatInv, CatTypes, Jobs
<1> QED BY <1>1, AbsorbFacts DEF CatInv, FewTyped

-----------------------------------------------------------------------------
(* An import that has nothing left to do.                                    *)

\* An import whose rows and entries are settled, and that brings no new row, makes the
\* catalogue that there is.
LEMMA NothingToImport ==
  ASSUME NEW ours \in Catalogs(Written), NEW sheet \in Sheets, Numbered(ours, sheet),
         NewRows(ours, sheet) = {}, Ids(ours) \subseteq Ids(sheet.theirs),
         \A i \in Ids(ours), f \in {"status", "text"} :
           MergeValue(ours.tcs[i][f], sheet.theirs.tcs[i][f], Cell(sheet.base, i, f), sheet.meta) = ours.tcs[i][f],
         \A k \in ItemKeys(ours, sheet) : MergedItem(ours, sheet, k) = Item(ours, k),
         MergeValue(ours.status, sheet.theirs.status, sheet.base.status, sheet.meta) = ours.status
  PROVE  ImportInto(ours, sheet) = ours
<1> DEFINE new == ImportInto(ours, sheet)
<1>1. /\ Ids(new) = Ids(ours) /\ \A i \in Ids(ours) : new.tcs[i] = MergedRow(ours, sheet, i)
      /\ Keys(new) = {k \in ItemKeys(ours, sheet) : MergedItem(ours, sheet, k) # "none"}
      /\ \A k \in Keys(new) : new.items[k] = MergedItem(ours, sheet, k)
      /\ new.status = ours.status /\ new \in Catalogs(Written)
  <2>1. Ids(ours) \cap Ids(sheet.theirs) = Ids(ours)
    OBVIOUS
  <2>2. {IdOf(ours, sheet, i) : i \in NewRows(ours, sheet)} = {}
    OBVIOUS
  <2> QED BY <2>1, <2>2, ImportFacts
<1>2. new.prd = ours.prd
  BY DEF ImportInto
<1> HIDE DEF new
<1>3. \A i \in Ids(ours) : ours.tcs[i] \in Case
  BY CatalogParts
<1>4. \A i \in Ids(ours) : new.tcs[i] = ours.tcs[i]
  <2> SUFFICES ASSUME NEW i \in Ids(ours) PROVE MergedRow(ours, sheet, i) = ours.tcs[i]
    BY <1>1
  <2>1. i \in Ids(ours) \cap Ids(sheet.theirs)
    OBVIOUS
  <2>2. \A f \in {"status", "text"} : MergedRow(ours, sheet, i)[f] = ours.tcs[i][f]
    BY <2>1, MergedRows
  <2>3. /\ MergedRow(ours, sheet, i).status = ours.tcs[i].status
        /\ MergedRow(ours, sheet, i).text = ours.tcs[i].text
    BY <2>2
  <2>4. MergedRow(ours, sheet, i).origin = ours.tcs[i].origin
    BY <2>1, <2>3, MergedRows
  <2>5. MergedRow(ours, sheet, i) \in Case
    BY <2>1, MergedRows
  <2> QED BY <1>3, <2>3, <2>4, <2>5 DEF Case
<1>5. Keys(new) = Keys(ours) /\ \A k \in Keys(ours) : new.items[k] = ours.items[k]
  <2>1. \A k \in Keys(ours) : Item(ours, k) = ours.items[k] /\ Item(ours, k) # "none"
    BY CatalogParts DEF Item, Values
  <2>2. \A k : k \notin Keys(ours) => Item(ours, k) = "none"
    BY DEF Item
  <2>3. Keys(ours) \subseteq ItemKeys(ours, sheet)
    BY DEF ItemKeys
  <2> QED BY <1>1, <2>1, <2>2, <2>3
<1>6. /\ new = [prd |-> new.prd, status |-> new.status, tcs |-> new.tcs, items |-> new.items]
      /\ new.tcs = [i \in Ids(new) |-> new.tcs[i]] /\ new.items = [k \in Keys(new) |-> new.items[k]]
  <2>1. new \in Catalogs(Written)
    BY <1>1
  <2> QED BY <2>1, CatalogParts
<1>7. /\ ours = [prd |-> ours.prd, status |-> ours.status, tcs |-> ours.tcs, items |-> ours.items]
      /\ ours.tcs = [i \in Ids(ours) |-> ours.tcs[i]] /\ ours.items = [k \in Keys(ours) |-> ours.items[k]]
  BY CatalogParts
<1>8. new.tcs = ours.tcs
  BY <1>1, <1>4, <1>6, <1>7
<1>9. new.items = ours.items
  BY <1>5, <1>6, <1>7
<1> QED BY <1>1, <1>2, <1>6, <1>7, <1>8, <1>9 DEF new

\* A sheet that is that of the catalogue, or that was not edited, brings nothing.
LEMMA GreenSettles ==
  ASSUME NEW ours \in Catalogs(Written), NEW sheet \in Sheets, Numbered(ours, sheet), ImportOk(ours, sheet),
         sheet.theirs = ours \/ (sheet.meta /\ sheet.theirs = sheet.base)
  PROVE  ImportInto(ours, sheet) = ours
<1>1. NewRows(ours, sheet) = {}
  BY DEF NewRows
<1>2. Ids(ours) \subseteq Ids(sheet.theirs)
  <2> SUFFICES ASSUME NEW i \in Ids(ours), i \notin Ids(sheet.theirs) PROVE FALSE
    OBVIOUS
  <2>1. ~RowRefused(ours, sheet, i)
    BY DEF ImportOk
  <2> QED BY <2>1 DEF RowRefused
<1>3. \A i \in Ids(ours), f \in {"status", "text"} :
        MergeValue(ours.tcs[i][f], sheet.theirs.tcs[i][f], Cell(sheet.base, i, f), sheet.meta) = ours.tcs[i][f]
  BY <1>2 DEF MergeValue, Cell
<1>4. \A k \in ItemKeys(ours, sheet) : MergedItem(ours, sheet, k) = Item(ours, k)
  BY DEF ItemKeys, MergedItem, Item, MergeValue
<1>5. MergeValue(ours.status, sheet.theirs.status, sheet.base.status, sheet.meta) = ours.status
  BY DEF MergeValue
<1> QED BY <1>1, <1>2, <1>3, <1>4, <1>5, NothingToImport

\* A value that was merged without a conflict is not merged any further.
LEMMA MergedIsSettled ==
  ASSUME NEW o, NEW t, NEW b, ~Conflict(o, t, b, TRUE)
  PROVE  MergeValue(MergeValue(o, t, b, TRUE), t, b, TRUE) = MergeValue(o, t, b, TRUE)
BY DEF MergeValue, Conflict

\* An import that is run again brings nothing.
LEMMA AgainSettles ==
  ASSUME NEW old \in Catalogs(Written), NEW sheet \in Sheets, Numbered(old, sheet), ImportOk(old, sheet),
         sheet.meta, NewRow \notin Ids(sheet.theirs), Numbered(ImportInto(old, sheet), sheet)
  PROVE  ImportInto(ImportInto(old, sheet), sheet) = ImportInto(old, sheet)
<1> DEFINE c == ImportInto(old, sheet)
<1>1. /\ c \in Catalogs(Written)
      /\ Ids(c) = (Ids(old) \cap Ids(sheet.theirs)) \cup {IdOf(old, sheet, i) : i \in NewRows(old, sheet)}
      /\ \A i \in Ids(old) \cap Ids(sheet.theirs) : c.tcs[i] = MergedRow(old, sheet, i)
      /\ \A i \in NewRows(old, sheet) :
           c.tcs[IdOf(old, sheet, i)] = [sheet.theirs.tcs[i] EXCEPT !.origin = "qa"]
      /\ Keys(c) = {k \in ItemKeys(old, sheet) : MergedItem(old, sheet, k) # "none"}
      /\ \A k \in Keys(c) : c.items[k] = MergedItem(old, sheet, k)
      /\ c.status = MergeValue(old.status, sheet.theirs.status, sheet.base.status, sheet.meta)
  BY ImportFacts
<1> HIDE DEF c
<1>2. /\ sheet.theirs \in Catalogs(Written \cup {NewRow}) /\ sheet.meta = TRUE
      /\ \A i \in Ids(sheet.theirs) : sheet.theirs.tcs[i] \in Case
  <2>1. sheet.theirs \in Catalogs(Written \cup {NewRow}) /\ sheet.meta \in BOOLEAN
    BY DEF Sheets
  <2> QED BY <2>1, CatalogParts
<1>3. \A i \in NewRows(old, sheet) : i \in Ids(sheet.theirs) \ Ids(old) /\ IdOf(old, sheet, i) = i
  BY NewIds
<1>4. Ids(c) = (Ids(old) \cap Ids(sheet.theirs)) \cup NewRows(old, sheet)
  BY <1>1, <1>3
<1>5. NewRows(c, sheet) = {}
  BY <1>4 DEF NewRows
<1>6. Ids(c) \subseteq Ids(sheet.theirs)
  BY <1>3, <1>4
<1>7. \A i \in Ids(c), f \in {"status", "text"} :
        MergeValue(c.tcs[i][f], sheet.theirs.tcs[i][f], Cell(sheet.base, i, f), sheet.meta) = c.tcs[i][f]
  <2> SUFFICES ASSUME NEW i \in Ids(c), NEW f \in {"status", "text"}
               PROVE  MergeValue(c.tcs[i][f], sheet.theirs.tcs[i][f], Cell(sheet.base, i, f), sheet.meta) = c.tcs[i][f]
    OBVIOUS
  <2>1. CASE i \in Ids(old) \cap Ids(sheet.theirs)
    <3> DEFINE o == old.tcs[i][f]  t == sheet.theirs.tcs[i][f]  b == Cell(sheet.base, i, f)
    <3>1. c.tcs[i][f] = MergeValue(o, t, b, sheet.meta)
      <4>1. c.tcs[i] = MergedRow(old, sheet, i)
        BY <1>1, <2>1
      <4>2. MergedRow(old, sheet, i)[f] = MergeValue(o, t, b, sheet.meta)
        BY <2>1, MergedRows
      <4> QED BY <4>1, <4>2
    <3>2. ~Conflict(o, t, b, sheet.meta)
      BY <2>1 DEF ImportOk, RowRefused, Fields
    <3> HIDE DEF o, t, b
    <3>3. MergeValue(c.tcs[i][f], t, b, sheet.meta) = c.tcs[i][f]
      <4>1. ~Conflict(o, t, b, TRUE) /\ c.tcs[i][f] = MergeValue(o, t, b, TRUE)
        BY <1>2, <3>1, <3>2
      <4>2. MergeValue(MergeValue(o, t, b, TRUE), t, b, TRUE) = MergeValue(o, t, b, TRUE)
        BY <4>1, MergedIsSettled
      <4> QED BY <1>2, <4>1, <4>2
    <3> QED BY <3>3 DEF t, b
  <2>2. CASE i \in NewRows(old, sheet)
    <3>1. c.tcs[i] = [sheet.theirs.tcs[i] EXCEPT !.origin = "qa"] /\ sheet.theirs.tcs[i] \in Case
      BY <1>1, <1>2, <1>3, <2>2
    <3>2. c.tcs[i][f] = sheet.theirs.tcs[i][f]
      BY <3>1 DEF Case
    <3> QED BY <3>2 DEF MergeValue
  <2> QED BY <1>4, <2>1, <2>2
<1>8. \A k \in ItemKeys(c, sheet) : MergedItem(c, sheet, k) = Item(c, k)
  <2> SUFFICES ASSUME NEW k \in ItemKeys(c, sheet) PROVE MergedItem(c, sheet, k) = Item(c, k)
    OBVIOUS
  <2> DEFINE m == MergedItem(old, sheet, k)
             o == Item(old, k)  t == Item(sheet.theirs, k)  b == Item(sheet.base, k)
  <2>1. k \in ItemKeys(old, sheet)
    BY <1>1 DEF ItemKeys
  <2>2. Item(c, k) = m /\ (k \in Keys(c) <=> m # "none")
    BY <1>1, <2>1 DEF Item
  <2>3. /\ \A j \in Keys(old) : Item(old, j) # "none" /\ Item(old, j) = old.items[j]
        /\ \A j \in Keys(sheet.theirs) : /\ Item(sheet.theirs, j) # "none"
                                         /\ Item(sheet.theirs, j) = sheet.theirs.items[j]
    <3>1. /\ \A j \in Keys(old) : old.items[j] \in Values
          /\ \A j \in Keys(sheet.theirs) : sheet.theirs.items[j] \in Values
      BY <1>2, CatalogParts
    <3>2. "none" \notin Values
      BY DEF Values
    <3> QED BY <3>1, <3>2 DEF Item
  <2>4. CASE k \in Keys(old) /\ k \in Keys(sheet.theirs)
    <3>1. m = MergeValue(o, t, b, sheet.meta)
      BY <2>4 DEF MergedItem
    <3>2. ~Conflict(o, t, b, sheet.meta)
      <4>1. ~ItemRefused(old, sheet, k)
        BY <2>1 DEF ImportOk
      <4> QED BY <2>3, <2>4, <4>1 DEF ItemRefused
    <3>3. m \in {o, t}
      BY <3>1 DEF MergeValue
    <3>4. k \in Keys(c)
      BY <2>2, <2>3, <2>4, <3>3
    <3>5. MergedItem(c, sheet, k) = MergeValue(m, t, b, sheet.meta)
      BY <2>2, <2>4, <3>4 DEF MergedItem
    <3> HIDE DEF m, o, t, b
    <3>6. MergeValue(m, t, b, sheet.meta) = m
      BY <1>2, <3>1, <3>2, MergedIsSettled
    <3> QED BY <2>2, <3>5, <3>6
  <2>5. CASE k \notin Keys(old) /\ k \in Keys(sheet.theirs)
    <3>1. m = IF k \in Keys(sheet.base) THEN "none" ELSE t
      BY <1>2, <2>5 DEF MergedItem
    <3> HIDE DEF m
    <3>2. CASE k \in Keys(sheet.base)
      BY <1>2, <2>2, <2>5, <3>1, <3>2 DEF MergedItem
    <3>3. CASE k \notin Keys(sheet.base)
      <4>1. k \in Keys(c) /\ Item(c, k) = t
        BY <2>2, <2>3, <2>5, <3>1, <3>3
      <4> QED BY <2>5, <4>1 DEF MergedItem, MergeValue
    <3> QED BY <3>2, <3>3
  <2>6. CASE k \notin Keys(sheet.theirs)
    <3>1. k \in Keys(c)
      BY <2>6 DEF ItemKeys
    <3>2. m = (IF k \in Keys(sheet.base) /\ o = b THEN "none" ELSE o)
      BY <1>2, <2>6 DEF MergedItem
    <3> HIDE DEF m
    <3>3. m = o /\ ~(k \in Keys(sheet.base) /\ o = b)
      BY <2>2, <3>1, <3>2
    <3> QED BY <1>2, <2>2, <2>6, <3>3 DEF MergedItem
  <2> QED BY <2>1, <2>4, <2>5, <2>6 DEF ItemKeys
<1>9. MergeValue(c.status, sheet.theirs.status, sheet.base.status, sheet.meta) = c.status
  <2> DEFINE o == old.status  t == sheet.theirs.status  b == sheet.base.status
  <2>1. ~Conflict(o, t, b, TRUE) /\ c.status = MergeValue(o, t, b, TRUE)
    BY <1>1, <1>2 DEF ImportOk
  <2> HIDE DEF o, t, b
  <2>2. MergeValue(c.status, t, b, TRUE) = c.status
    BY <2>1, MergedIsSettled
  <2> QED BY <1>2, <2>2 DEF t, b
<1>10. ImportInto(c, sheet) = c
  BY <1>1, <1>5, <1>6, <1>7, <1>8, <1>9, NothingToImport DEF c
<1> QED BY <1>10 DEF c

\* An accepted import changes nothing when `gt validate` finds the spreadsheet no further
\* than the YAML, nor after one that was cut off between YAML and spreadsheet.
THEOREM ReimportsAreIdle == Spec => []ReimportIsIdle
<1>1. ASSUME CatInv, XlsxSync, Readable(xlsx), ImportOk(yaml, xlsx) PROVE ImportInto(yaml, xlsx) = yaml
  <2>1. yaml \in Catalogs(Written) /\ xlsx \in Sheets /\ Numbered(yaml, xlsx)
    BY <1>1, AbsorbFacts DEF CatInv, CatTypes, FewTyped
  <2>2. xlsx.theirs = yaml \/ (xlsx.meta /\ xlsx.theirs = xlsx.base)
    BY <1>1 DEF XlsxSync, SyncStatus
  <2> QED BY <1>1, <2>1, <2>2, GreenSettles
<1>2. ASSUME CatInv, CutOff PROVE ImportInto(yaml, job.seen) = yaml
  <2>1. ImportPlan
    BY <1>2 DEF CatInv, Planned, CutOff, GeneratePlan, RegenPlan, ExportPlan
  <2>2. /\ yaml = ImportInto(job.old, job.seen) /\ ImportOk(job.old, job.seen)
        /\ job.seen.meta /\ NewRow \notin Ids(job.seen.theirs)
    BY <1>2, <2>1 DEF ImportPlan, CutOff
  <2>3. /\ job.old \in Catalogs(Written) /\ job.seen \in Sheets /\ yaml \in Catalogs(Written)
        /\ Numbered(job.old, job.seen) /\ Numbered(yaml, job.seen)
    <3>1. job.old \in Catalogs(Written) /\ job.seen \in Sheets /\ yaml \in Catalogs(Written)
      BY <1>2 DEF CatInv, CatTypes, Jobs
    <3> QED BY <1>2, <3>1, AbsorbFacts DEF CatInv, FewTyped
  <2> QED BY <2>2, <2>3, AgainSettles
<1>3. CatInv => ReimportIsIdle
  BY <1>1, <1>2 DEF ReimportIsIdle
<1> QED BY <1>3, CatInvariant, PTL

\* When regen has written the tests they are those of the stories in the YAML.
THEOREM RegenRepairsTests == Spec => RegenRepairs
<1> DEFINE Repairs == pc = "tests" /\ pc' = "sheet" /\ job.cmd = "regen" =>
                        \A a \in Drifted' : a \notin yaml'.prd /\ tests[a] = "unmarked"
<1>1. ASSUME CatInv, [Next]_vars, pc = "tests", pc' = "sheet", job.cmd = "regen"
      PROVE  \A a \in Drifted' : a \notin yaml'.prd /\ tests[a] = "unmarked"
  <2>1. WriteTests
    BY <1>1 DEF vars, Next, EditYaml, EditSheet, EditCopy, TakeCopy, EditTests, Edit, Command, Start,
         StartGenerate, StartRegen, StartImport, StartExport, LlmAnswers, WriteYaml, WriteSheet, Abort
  <2>2. yaml = job.new /\ yaml' = yaml
    BY <1>1, <2>1 DEF CatInv, Planned, WriteTests, GeneratePlan, RegenPlan, ImportPlan, ExportPlan
  <2>3. \A a \in Acs : tests'[a] = IF a \in job.new.prd THEN "rendered"
                                   ELSE IF tests[a] # "unmarked" THEN "absent" ELSE tests[a]
    BY <1>1, <2>1 DEF WriteTests, Overwrites
  <2> QED BY <2>2, <2>3 DEF Drifted
<1>2. CatInv /\ [Next]_vars => [Repairs]_vars
  BY <1>1
<1> QED BY <1>2, CatInvariant, PTL DEF Spec, RegenRepairs

-----------------------------------------------------------------------------
(* What becomes of the edits of a spreadsheet.                               *)

\* What a command writes of the catalogue that it has made of the YAML and the sheet:
\* that one, or under regen that one merged with the answer of an LLM.
Continues(regen, c, new) ==
  IF regen THEN \E p \in Proposals : new = Merge(c, Candidate(p)) ELSE new = c

Landed(regen, sheet, old, new) ==
  /\ CellsLand(regen, sheet, old, new) /\ RowsLand(sheet, old, new)
  /\ DeletionsLand(regen, sheet, old, new) /\ ItemsLand(regen, sheet, old, new)
  /\ StatusLands(regen, sheet, old, new)

\* What is protected goes on, and nothing comes in but proposals.
LEMMA ContinueFacts ==
  ASSUME NEW regen \in BOOLEAN, NEW c \in Catalogs(Written), NEW new, Continues(regen, c, new)
  PROVE  /\ \A i \in Ids(c) : Protected(c.tcs[i]) \/ ~regen => i \in Ids(new) /\ new.tcs[i] = c.tcs[i]
         /\ \A i \in Ids(new) \ Ids(c) : regen /\ new.tcs[i] = Proposed
         /\ \A k \in Keys(c) : \/ Item(new, k) = c.items[k]
                               \/ regen /\ k \in Acs /\ k \notin new.prd \ CoveredAcs(new.tcs)
         /\ \A k \in Keys(new) \ Keys(c) : regen /\ new.items[k] = "draft"
         /\ \/ new.status = c.status
            \/ regen /\ new.status = "draft" /\ \E i \in Ids(new) : new.tcs[i].status = "draft"
<1>1. CASE ~regen
  BY <1>1 DEF Continues, Item
<1>2. CASE regen
  <2>1. PICK p \in Proposals : new = Merge(c, Candidate(p))
    BY <1>2 DEF Continues
  <2>2. /\ \A i \in Ids(c) : Protected(c.tcs[i]) => i \in Ids(new) /\ new.tcs[i] = c.tcs[i]
        /\ \A i \in Ids(new) : new.tcs[i] = Proposed \/ (i \in Ids(c) /\ new.tcs[i] = c.tcs[i])
        /\ \A k \in Keys(new) : IF k \in Keys(c) THEN new.items[k] = c.items[k] ELSE new.items[k] = "draft"
        /\ \A k \in Keys(c) \ Keys(new) : k \in Acs /\ k \notin new.prd \ CoveredAcs(new.tcs)
        /\ new.status = c.status \/ (new.status = "draft" /\ \E i \in Ids(new) : new.tcs[i].status = "draft")
    BY <2>1, MergeFacts
  <2> QED BY <1>2, <2>2 DEF Item
<1> QED BY <1>1, <1>2

\* A sheet that has only what the catalogue or its own snapshot has was not edited.
LEMMA NothingToLand ==
  ASSUME NEW regen \in BOOLEAN, NEW ours \in Catalogs(Written), NEW sheet \in Sheets, NEW new,
         sheet.theirs = ours \/ sheet.theirs = sheet.base, Continues(regen, ours, new)
  PROVE  Landed(regen, sheet, ours, new)
<1>1. sheet.base \in Catalogs(Written)
  BY DEF Sheets
<1>2. CellsLand(regen, sheet, ours, new)
  BY DEF CellsLand, Cell
<1>3. RowsLand(sheet, ours, new) /\ DeletionsLand(regen, sheet, ours, new)
  BY DEF RowsLand, DeletionsLand
<1>4. ItemsLand(regen, sheet, ours, new)
  <2>1. ASSUME NEW k \in Keys(sheet.theirs), sheet.theirs.items[k] # Item(sheet.base, k)
        PROVE  \/ Item(new, k) = sheet.theirs.items[k]
               \/ regen /\ k \in Acs /\ k \notin new.prd \ CoveredAcs(new.tcs)
    <3>1. sheet.theirs = ours
      BY <2>1 DEF Item
    <3> QED BY <3>1, ContinueFacts
  <2>2. ASSUME NEW k \in Keys(sheet.base) \ Keys(sheet.theirs) PROVE Item(ours, k) # Item(sheet.base, k)
    <3>1. k \notin Keys(ours)
      BY <2>2
    <3>2. sheet.base.items[k] \in Values
      BY <1>1, CatalogParts
    <3> QED BY <3>1, <3>2 DEF Item, Values
  <2> QED BY <2>1, <2>2 DEF ItemsLand
<1>5. StatusLands(regen, sheet, ours, new)
  BY DEF StatusLands
<1> QED BY <1>2, <1>3, <1>4, <1>5 DEF Landed

\* A cell that the sheet changed since its snapshot is imported.
LEMMA CellLands ==
  ASSUME NEW ours \in Catalogs(Written), NEW sheet \in Sheets, Numbered(ours, sheet), ImportOk(ours, sheet),
         NEW i \in Ids(sheet.theirs) \cap Ids(ours), NEW f \in {"status", "text"},
         sheet.theirs.tcs[i][f] # Cell(sheet.base, i, f)
  PROVE  LET new == ImportInto(ours, sheet) IN
         /\ i \in Ids(new) /\ new.tcs[i][f] = sheet.theirs.tcs[i][f]
         /\ f = "text" /\ new.tcs[i].text # ours.tcs[i].text => new.tcs[i].origin = "qa"
<1> DEFINE new == ImportInto(ours, sheet)
<1>1. i \in Ids(new) /\ new.tcs[i] = MergedRow(ours, sheet, i)
  BY ImportFacts
<1> HIDE DEF new
<1>2. ~Conflict(ours.tcs[i][f], sheet.theirs.tcs[i][f], Cell(sheet.base, i, f), sheet.meta)
  BY DEF ImportOk, RowRefused, Fields
<1>3. sheet.meta \in BOOLEAN
  BY DEF Sheets
<1>4. MergeValue(ours.tcs[i][f], sheet.theirs.tcs[i][f], Cell(sheet.base, i, f), sheet.meta)
        = sheet.theirs.tcs[i][f]
  BY <1>2, <1>3, MergedValues
<1>5. /\ MergedRow(ours, sheet, i)[f] = sheet.theirs.tcs[i][f]
      /\ MergedRow(ours, sheet, i).text # ours.tcs[i].text => MergedRow(ours, sheet, i).origin = "qa"
  BY <1>4, MergedRows
<1> QED BY <1>1, <1>5 DEF new

\* A row that neither the YAML nor the snapshot has is imported as a test case of QA; one
\* that the sheet has deleted is not imported.
LEMMA RowLands ==
  ASSUME NEW ours \in Catalogs(Written), NEW sheet \in Sheets, Numbered(ours, sheet)
  PROVE  LET new == ImportInto(ours, sheet) IN
         /\ \A i \in Ids(sheet.theirs) \ (Ids(ours) \cup Ids(sheet.base)) :
              \E q \in Ids(new) \ Ids(ours) : new.tcs[q] = [sheet.theirs.tcs[i] EXCEPT !.origin = "qa"]
         /\ \A i \in Ids(ours) \ Ids(sheet.theirs) : i \notin Ids(new)
<1> DEFINE new == ImportInto(ours, sheet)
<1>1. /\ Ids(new) = (Ids(ours) \cap Ids(sheet.theirs)) \cup {IdOf(ours, sheet, i) : i \in NewRows(ours, sheet)}
      /\ \A i \in NewRows(ours, sheet) :
           new.tcs[IdOf(ours, sheet, i)] = [sheet.theirs.tcs[i] EXCEPT !.origin = "qa"]
  BY ImportFacts
<1> HIDE DEF new
<1>2. \A i \in NewRows(ours, sheet) : IdOf(ours, sheet, i) \notin Ids(ours)
  BY NewIds
<1>3. ASSUME NEW i \in Ids(sheet.theirs) \ (Ids(ours) \cup Ids(sheet.base))
      PROVE  \E q \in Ids(new) \ Ids(ours) : new.tcs[q] = [sheet.theirs.tcs[i] EXCEPT !.origin = "qa"]
  <2>1. i \in NewRows(ours, sheet)
    BY <1>3 DEF NewRows
  <2>2. IdOf(ours, sheet, i) \in Ids(new) \ Ids(ours)
    BY <1>1, <1>2, <2>1
  <2> QED BY <1>1, <2>1, <2>2
<1>4. \A i \in Ids(ours) \ Ids(sheet.theirs) : i \notin Ids(new)
  BY <1>1, <1>2
<1> QED BY <1>3, <1>4 DEF new

\* An excuse or waiver that the sheet has changed or added since its snapshot is imported;
\* one that it has deleted is gone, if the YAML has left it alone.
LEMMA ItemLands ==
  ASSUME NEW ours \in Catalogs(Written), NEW sheet \in Sheets, Numbered(ours, sheet), ImportOk(ours, sheet)
  PROVE  LET new == ImportInto(ours, sheet) IN
         /\ \A k \in Keys(sheet.theirs) :
              /\ sheet.theirs.items[k] # Item(sheet.base, k)
              /\ k \in Keys(sheet.base) => k \in Keys(ours)
              => k \in Keys(new) /\ new.items[k] = sheet.theirs.items[k]
         /\ sheet.meta =>
              \A k \in Keys(sheet.base) \ Keys(sheet.theirs) :
                Item(ours, k) = Item(sheet.base, k) => k \notin Keys(new)
<1> DEFINE new == ImportInto(ours, sheet)
<1>1. /\ Keys(new) = {k \in ItemKeys(ours, sheet) : MergedItem(ours, sheet, k) # "none"}
      /\ \A k \in Keys(new) : new.items[k] = MergedItem(ours, sheet, k)
  BY ImportFacts
<1> HIDE DEF new
<1>2. /\ sheet.theirs \in Catalogs(Written \cup {NewRow})
      /\ \A k \in Keys(sheet.theirs) : /\ Item(sheet.theirs, k) = sheet.theirs.items[k]
                                       /\ sheet.theirs.items[k] \in Values
      /\ "none" \notin Values
  <2>1. sheet.theirs \in Catalogs(Written \cup {NewRow})
    BY DEF Sheets
  <2> QED BY <2>1, CatalogParts DEF Item, Values
<1>3. ASSUME NEW k \in Keys(sheet.theirs), sheet.theirs.items[k] # Item(sheet.base, k),
             k \in Keys(sheet.base) => k \in Keys(ours)
      PROVE  k \in Keys(new) /\ new.items[k] = sheet.theirs.items[k]
  <2>1. k \in ItemKeys(ours, sheet) /\ ~ItemRefused(ours, sheet, k)
    BY DEF ItemKeys, ImportOk
  <2>2. CASE k \in Keys(ours)
    <3>1. MergedItem(ours, sheet, k) = sheet.theirs.items[k]
      BY <1>2, <1>3, <2>1, <2>2, MergedItems
    <3> QED BY <1>1, <1>2, <2>1, <3>1
  <2>3. CASE k \notin Keys(ours)
    <3>1. MergedItem(ours, sheet, k) = sheet.theirs.items[k]
      BY <1>2, <1>3, <2>3 DEF MergedItem
    <3> QED BY <1>1, <1>2, <2>1, <3>1
  <2> QED BY <2>2, <2>3
<1>4. ASSUME sheet.meta, NEW k \in Keys(sheet.base) \ Keys(sheet.theirs), Item(ours, k) = Item(sheet.base, k)
      PROVE  k \notin Keys(new)
  <2>1. MergedItem(ours, sheet, k) = "none"
    BY <1>4 DEF MergedItem
  <2> QED BY <1>1, <2>1
<1> QED BY <1>3, <1>4 DEF new

\* So what was edited lands, also when regen merges the answer of an LLM into it: what it
\* lands in is protected.
LEMMA ImportLands ==
  ASSUME NEW regen \in BOOLEAN, NEW ours \in Catalogs(Written), NEW sheet \in Sheets, NEW new,
         Numbered(ours, sheet), ImportOk(ours, sheet), sheet.meta,
         Continues(regen, ImportInto(ours, sheet), new)
  PROVE  Landed(regen, sheet, ours, new)
<1> DEFINE c == ImportInto(ours, sheet)
<1>1. c \in Catalogs(Written)
  BY ImportFacts
<1>2. /\ \A i \in Ids(c) : Protected(c.tcs[i]) \/ ~regen => i \in Ids(new) /\ new.tcs[i] = c.tcs[i]
      /\ \A i \in Ids(new) \ Ids(c) : regen /\ new.tcs[i] = Proposed
      /\ \A k \in Keys(c) : \/ Item(new, k) = c.items[k]
                            \/ regen /\ k \in Acs /\ k \notin new.prd \ CoveredAcs(new.tcs)
      /\ \A k \in Keys(new) \ Keys(c) : regen /\ new.items[k] = "draft"
      /\ \/ new.status = c.status
         \/ regen /\ new.status = "draft" /\ \E i \in Ids(new) : new.tcs[i].status = "draft"
  BY <1>1, ContinueFacts
<1>3. /\ sheet.theirs \in Catalogs(Written \cup {NewRow})
      /\ \A i \in Ids(sheet.theirs) : sheet.theirs.tcs[i] \in Case
      /\ \A i \in Ids(ours) : ours.tcs[i] \in Case
  <2>1. sheet.theirs \in Catalogs(Written \cup {NewRow})
    BY DEF Sheets
  <2> QED BY <2>1, CatalogParts
<1>4. CellsLand(regen, sheet, ours, new)
  <2> SUFFICES ASSUME NEW i \in Ids(sheet.theirs) \cap Ids(ours), NEW f \in {"status", "text"},
                      sheet.theirs.tcs[i][f] \notin {Cell(sheet.base, i, f), ours.tcs[i][f]},
                      ~(regen /\ sheet.theirs.tcs[i][f] = "draft" /\ ours.tcs[i].origin = "llm")
               PROVE  Cell(new, i, f) = sheet.theirs.tcs[i][f]
    BY DEF CellsLand
  <2>1. /\ i \in Ids(c) /\ c.tcs[i][f] = sheet.theirs.tcs[i][f]
        /\ f = "text" /\ c.tcs[i].text # ours.tcs[i].text => c.tcs[i].origin = "qa"
    BY CellLands
  <2>2. c.tcs[i].origin = IF c.tcs[i].text # ours.tcs[i].text THEN "qa" ELSE ours.tcs[i].origin
    <3>1. c.tcs[i] = MergedRow(ours, sheet, i)
      BY ImportFacts
    <3> HIDE DEF c
    <3> QED BY <3>1, MergedRows
  <2> HIDE DEF c
  <2>3. Protected(c.tcs[i]) \/ ~regen
    <3>1. CASE f = "text"
      BY <2>1, <3>1 DEF Protected
    <3>2. CASE f = "status" /\ sheet.theirs.tcs[i].status # "draft"
      <4>1. sheet.theirs.tcs[i].status \in Statuses \ {"draft"}
        BY <1>3, <3>2 DEF Case
      <4> QED BY <2>1, <3>2, <4>1 DEF Protected, Statuses
    <3>3. CASE f = "status" /\ sheet.theirs.tcs[i].status = "draft" /\ regen
      <4>1. ours.tcs[i].origin = "qa"
        BY <1>3, <3>3 DEF Case
      <4> QED BY <2>2, <4>1 DEF Protected
    <3> QED BY <3>1, <3>2, <3>3
  <2> QED BY <1>2, <2>1, <2>3 DEF Cell
<1>5. RowsLand(sheet, ours, new)
  <2> SUFFICES ASSUME NEW i \in Ids(sheet.theirs) \ (Ids(ours) \cup Ids(sheet.base))
               PROVE  \E q \in Ids(new) \ Ids(ours) :
                        new.tcs[q] = [sheet.theirs.tcs[i] EXCEPT !.origin = "qa"]
    BY DEF RowsLand
  <2>1. PICK q \in Ids(c) \ Ids(ours) : c.tcs[q] = [sheet.theirs.tcs[i] EXCEPT !.origin = "qa"]
    BY RowLands
  <2>2. Protected(c.tcs[q])
    BY <1>3, <2>1 DEF Protected, Case
  <2> HIDE DEF c
  <2> QED BY <1>2, <2>1, <2>2
<1>6. DeletionsLand(regen, sheet, ours, new)
  <2>1. \A i \in Ids(ours) \ Ids(sheet.theirs) : i \notin Ids(c)
    BY RowLands
  <2> HIDE DEF c
  <2> QED BY <1>2, <2>1 DEF DeletionsLand
<1>7. ItemsLand(regen, sheet, ours, new)
  <2>1. /\ \A k \in Keys(sheet.theirs) :
             /\ sheet.theirs.items[k] # Item(sheet.base, k)
             /\ k \in Keys(sheet.base) => k \in Keys(ours)
             => k \in Keys(c) /\ c.items[k] = sheet.theirs.items[k]
        /\ \A k \in Keys(sheet.base) \ Keys(sheet.theirs) :
             Item(ours, k) = Item(sheet.base, k) => k \notin Keys(c)
    BY ItemLands
  <2> HIDE DEF c
  <2>2. ASSUME NEW k \in Keys(sheet.theirs), sheet.theirs.items[k] # Item(sheet.base, k),
               k \in Keys(sheet.base) => k \in Keys(ours)
        PROVE  \/ Item(new, k) = sheet.theirs.items[k]
               \/ regen /\ k \in Acs /\ k \notin new.prd \ CoveredAcs(new.tcs)
    BY <1>2, <2>1, <2>2
  <2>3. ASSUME NEW k \in Keys(sheet.base) \ Keys(sheet.theirs), Item(ours, k) = Item(sheet.base, k)
        PROVE  k \notin Keys(new) \/ (regen /\ new.items[k] = "draft")
    BY <1>2, <2>1, <2>3
  <2> QED BY <2>2, <2>3 DEF ItemsLand
<1>8. StatusLands(regen, sheet, ours, new)
  <2>1. sheet.theirs.status # sheet.base.status => c.status = sheet.theirs.status
    <3>1. c.status = MergeValue(ours.status, sheet.theirs.status, sheet.base.status, sheet.meta)
      BY ImportFacts
    <3>2. ~Conflict(ours.status, sheet.theirs.status, sheet.base.status, sheet.meta)
      BY DEF ImportOk
    <3> HIDE DEF c
    <3> QED BY <3>1, <3>2 DEF MergeValue, Conflict
  <2> HIDE DEF c
  <2> QED BY <1>2, <2>1 DEF StatusLands
<1> QED BY <1>4, <1>5, <1>6, <1>7, <1>8 DEF Landed

\* What QA changed in a sheet is in the catalogue of which any unforced command that has
\* read it writes the spreadsheet anew: it is absorbed, refused, or the sheet was not
\* ahead (_absorb_xlsx, import_into).
THEOREM EditsAreNotLost == Spec => EditsLand
<1> DEFINE regen == job.cmd = "regen"
<1>1. ASSUME CatInv, SavesSheet, job.cmd # "generate", ~job.force, job.seen.meta
      PROVE  Landed(regen, job.seen, job.old, job.new)
  <2>1. /\ job.old \in Catalogs(Written) /\ job.seen \in Sheets /\ Readable(job.seen)
        /\ Numbered(job.old, job.seen)
    <3>1. job.old \in Catalogs(Written) /\ job.seen \in Sheets /\ Numbered(job.old, job.seen)
      BY <1>1, ReadFacts
    <3>2. Readable(job.seen)
      BY <1>1, <3>1 DEF Sheets, Readable
    <3> QED BY <3>1, <3>2
  <2>2. pc = "sheet" /\ regen \in BOOLEAN
    BY <1>1 DEF SavesSheet
  <2>3. SyncStatus(job.old, job.seen) \notin {"xlsx_ahead", "diverged"} =>
          job.seen.theirs = job.old \/ job.seen.theirs = job.seen.base
    BY <1>1 DEF SyncStatus
  <2>4. CASE ImportPlan
    <3>1. /\ ImportOk(job.old, job.seen) /\ ~regen
          /\ Continues(regen, ImportInto(job.old, job.seen), job.new)
      BY <2>4 DEF ImportPlan, Continues
    <3> HIDE DEF regen
    <3> QED BY <1>1, <2>1, <2>2, <3>1, ImportLands
  <2>5. CASE ExportPlan
    <3>1. ~regen /\ Continues(regen, job.old, job.new)
      BY <2>5 DEF ExportPlan, Continues
    <3>2. job.seen.theirs = job.old \/ job.seen.theirs = job.seen.base
      BY <1>1, <2>1, <2>3, <2>5 DEF ExportPlan
    <3> HIDE DEF regen
    <3> QED BY <2>1, <2>2, <3>1, <3>2, NothingToLand
  <2>6. CASE RegenPlan
    <3>1. regen /\ Continues(regen, Absorbed(job.old, job.seen), job.new)
      BY <2>2, <2>6 DEF RegenPlan, Continues
    <3>2. ~AbsorbFails(job.old, job.seen)
      BY <2>6 DEF RegenPlan
    <3> HIDE DEF regen
    <3>3. CASE SyncStatus(job.old, job.seen) \in {"xlsx_ahead", "diverged"}
      <4>1. ImportOk(job.old, job.seen) /\ Absorbed(job.old, job.seen) = ImportInto(job.old, job.seen)
        BY <2>1, <3>2, <3>3 DEF AbsorbFails, Absorbed
      <4> QED BY <1>1, <2>1, <2>2, <3>1, <4>1, ImportLands
    <3>4. CASE SyncStatus(job.old, job.seen) \notin {"xlsx_ahead", "diverged"}
      <4>1. Absorbed(job.old, job.seen) = job.old
        BY <3>4 DEF Absorbed
      <4> QED BY <2>1, <2>2, <2>3, <3>1, <3>4, <4>1, NothingToLand
    <3> QED BY <3>3, <3>4
  <2>7. ~GeneratePlan
    BY <1>1 DEF GeneratePlan
  <2> QED BY <1>1, <2>2, <2>4, <2>5, <2>6, <2>7 DEF CatInv, Planned
<1> DEFINE Lands ==
      SavesSheet /\ job.cmd # "generate" /\ ~job.force /\ job.seen.meta =>
        LET r == job.cmd = "regen" IN
        /\ CellsLand(r, job.seen, job.old, job.new)
        /\ RowsLand(job.seen, job.old, job.new)
        /\ DeletionsLand(r, job.seen, job.old, job.new)
        /\ ItemsLand(r, job.seen, job.old, job.new)
        /\ StatusLands(r, job.seen, job.old, job.new)
<1>2. CatInv => Lands
  BY <1>1 DEF Landed
<1>3. CatInv /\ [Next]_vars => [Lands]_vars
  BY <1>2
<1> QED BY <1>3, CatInvariant, PTL DEF Spec, EditsLand

-----------------------------------------------------------------------------
(* What becomes of the decisions of QA.                                      *)

\* A test case whose row was left alone is imported as it was, unless the sheet is without
\* its snapshot; a row that is gone was edited.
LEMMA ImportStands ==
  ASSUME NEW ours \in Catalogs(Written), NEW sheet \in Sheets, Numbered(ours, sheet), ImportOk(ours, sheet),
         sheet.meta, NEW i \in Ids(ours), ~RowEdited(sheet, i)
  PROVE  i \in Ids(ImportInto(ours, sheet)) /\ ImportInto(ours, sheet).tcs[i] = ours.tcs[i]
<1>1. sheet.theirs \in Catalogs(Written \cup {NewRow}) /\ sheet.base \in Catalogs(Written)
      /\ sheet.meta \in BOOLEAN
  BY DEF Sheets
<1>2. /\ ours.tcs[i] \in Case
      /\ \A j \in Ids(sheet.theirs) : sheet.theirs.tcs[j] \in Case
      /\ \A j \in Ids(sheet.base) : sheet.base.tcs[j] \in Case
  BY <1>1, CatalogParts
<1>3. \A f \in {"status", "text"} : Cell(sheet.theirs, i, f) = Cell(sheet.base, i, f)
  BY DEF RowEdited, Fields
<1>4. i \in Ids(sheet.theirs)
  <2> SUFFICES ASSUME i \notin Ids(sheet.theirs) PROVE FALSE
    OBVIOUS
  <2>1. ~RowRefused(ours, sheet, i)
    BY DEF ImportOk
  <2>2. i \in Ids(sheet.base)
    BY <2>1 DEF RowRefused
  <2>3. sheet.base.tcs[i].status = "none"
    BY <1>3, <2>2 DEF Cell
  <2> QED BY <1>2, <2>2, <2>3 DEF Case, Statuses
<1>5. ImportInto(ours, sheet).tcs[i] = MergedRow(ours, sheet, i) /\ i \in Ids(ImportInto(ours, sheet))
  BY <1>4, ImportFacts
<1>6. \A f \in {"status", "text"} : MergedRow(ours, sheet, i)[f] = ours.tcs[i][f]
  <2> SUFFICES ASSUME NEW f \in {"status", "text"} PROVE MergedRow(ours, sheet, i)[f] = ours.tcs[i][f]
    OBVIOUS
  <2>1. sheet.theirs.tcs[i][f] = Cell(sheet.base, i, f)
    BY <1>3, <1>4 DEF Cell
  <2>2. MergeValue(ours.tcs[i][f], sheet.theirs.tcs[i][f], Cell(sheet.base, i, f), sheet.meta) = ours.tcs[i][f]
    BY <2>1 DEF MergeValue
  <2> QED BY <1>4, <2>2, MergedRows
<1>7. MergedRow(ours, sheet, i) \in Case
      /\ (MergedRow(ours, sheet, i).text = ours.tcs[i].text => MergedRow(ours, sheet, i).origin = ours.tcs[i].origin)
  BY <1>4, MergedRows
<1>8. MergedRow(ours, sheet, i) = ours.tcs[i]
  <2>1. /\ MergedRow(ours, sheet, i).status = ours.tcs[i].status
        /\ MergedRow(ours, sheet, i).text = ours.tcs[i].text
        /\ MergedRow(ours, sheet, i).origin = ours.tcs[i].origin
    BY <1>6, <1>7
  <2> QED BY <1>2, <1>7, <2>1 DEF Case
<1> QED BY <1>5, <1>8

\* The catalogue is written by one step.
LEMMA SavesYamlIs == CatInv /\ [Next]_vars /\ SavesYaml => WriteYaml
BY DEF SavesYaml, vars, Next, EditYaml, EditSheet, EditCopy, TakeCopy, EditTests, Edit, Command, Start, StartGenerate, StartRegen,
       StartImport, StartExport, LlmAnswers, WriteTests, WriteSheet, Abort

\* What regen absorbs keeps each test case whose row was left alone.
LEMMA AbsorbStands ==
  ASSUME CatInv, ~AbsorbFails(job.old, job.seen), NEW i \in Ids(job.old),
         job.seen.kind = "sheet" => job.seen.meta /\ ~RowEdited(job.seen, i)
  PROVE  /\ i \in Ids(Absorbed(job.old, job.seen))
         /\ Absorbed(job.old, job.seen).tcs[i] = job.old.tcs[i]
<1>1. CASE Readable(job.seen) /\ SyncStatus(job.old, job.seen) \in {"xlsx_ahead", "diverged"}
  <2>1. ImportOk(job.old, job.seen) /\ Absorbed(job.old, job.seen) = ImportInto(job.old, job.seen)
    BY <1>1 DEF AbsorbFails, Absorbed
  <2>2. job.seen.meta /\ ~RowEdited(job.seen, i)
    BY <1>1 DEF Readable
  <2> QED BY <2>1, <2>2, ReadFacts, ImportStands
<1>2. CASE ~(Readable(job.seen) /\ SyncStatus(job.old, job.seen) \in {"xlsx_ahead", "diverged"})
  BY <1>2 DEF Absorbed
<1> QED BY <1>1, <1>2

\* A test case that QA had approved, rejected or written when a command read it goes
\* through every unforced regen and import word for word, unless its row was edited or the
\* snapshot is lost (merge.py).
THEOREM DecisionsAreKept == Spec => DecisionsStand
<1>1. ASSUME CatInv, WriteYaml, ~job.force, NEW i \in Ids(job.old), ~Undecided(job.old.tcs[i]),
             job.seen.kind = "sheet" => job.seen.meta /\ ~RowEdited(job.seen, i)
      PROVE  i \in Ids(yaml') /\ yaml'.tcs[i] = job.old.tcs[i]
  <2>1. pc = "yaml" /\ yaml' = IF Overwrites \/ yaml = NoCatalog THEN job.new ELSE yaml
    BY <1>1 DEF WriteYaml
  <2>2. job.old \in Catalogs(Written) /\ job.old.tcs[i] \in Case
    BY <1>1, ReadFacts, CatalogParts
  <2>3. ~GeneratePlan
    BY <1>1 DEF GeneratePlan, NoCatalog, Ids, Nothing
  <2>4. CASE ImportPlan
    <3>1. yaml' = ImportInto(job.old, job.seen) /\ ImportOk(job.old, job.seen) /\ Readable(job.seen)
      BY <2>1, <2>4 DEF ImportPlan, Overwrites
    <3>2. job.seen.meta /\ ~RowEdited(job.seen, i)
      BY <1>1, <3>1 DEF Readable
    <3> QED BY <1>1, <3>1, <3>2, ReadFacts, ImportStands
  <2>5. CASE RegenPlan
    <3> DEFINE c == Absorbed(job.old, job.seen)
    <3>1. PICK p \in Proposals : yaml' = Merge(c, Candidate(p))
      BY <2>1, <2>5 DEF RegenPlan, Overwrites
    <3>2. i \in Ids(c) /\ c.tcs[i] = job.old.tcs[i]
      BY <1>1, <2>5, AbsorbStands DEF RegenPlan
    <3>3. Protected(c.tcs[i])
      BY <1>1, <2>2, <3>2, Unprotected DEF Undecided
    <3>4. c \in Catalogs(Written)
      BY <1>1, ReadFacts
    <3> HIDE DEF c
    <3> QED BY <3>1, <3>2, <3>3, <3>4, MergeFacts
  <2>6. ~ExportPlan
    BY <2>1 DEF ExportPlan
  <2> QED BY <1>1, <2>1, <2>3, <2>4, <2>5, <2>6 DEF CatInv, Planned
<1> DEFINE Stands ==
      SavesYaml /\ ~job.force =>
        \A i \in Ids(job.old) :
          \/ Undecided(job.old.tcs[i])
          \/ i \in Ids(yaml') /\ yaml'.tcs[i] = job.old.tcs[i]
          \/ job.seen.kind = "sheet" /\ (~job.seen.meta \/ RowEdited(job.seen, i))
<1>2. CatInv /\ [Next]_vars => [Stands]_vars
  BY <1>1, SavesYamlIs
<1> QED BY <1>2, CatInvariant, PTL DEF Spec, DecisionsStand

\* What came to be approved from ours to new, with the sheet in between.
Approves(ours, sheet, new) ==
  /\ \A i \in LlmIds :
       Cell(new, i, "status") = "approved" =>
         \/ Cell(ours, i, "status") = "approved"
         \/ /\ Cell(sheet.theirs, i, "status") = "approved"
            /\ Cell(sheet.base, i, "status") # "approved"
  /\ \A k \in Waivers :
       Item(new, k) = "approved" =>
         \/ Item(ours, k) = "approved"
         \/ Item(sheet.theirs, k) = "approved" /\ Item(sheet.base, k) # "approved"
  /\ new.status = "approved" =>
       \/ ours.status = "approved"
       \/ sheet.theirs.status = "approved" /\ sheet.base.status # "approved"

\* What an import approves was approved before, or in the sheet since its snapshot.
LEMMA ImportApproves ==
  ASSUME NEW ours \in Catalogs(Written), NEW sheet \in Sheets, Numbered(ours, sheet)
  PROVE  Approves(ours, sheet, ImportInto(ours, sheet))
<1> DEFINE new == ImportInto(ours, sheet)
<1>1. /\ sheet.meta \in BOOLEAN /\ (~sheet.meta => sheet.base = NoCatalog)
      /\ sheet.theirs \in Catalogs(Written \cup {NewRow})
  BY DEF Sheets
<1>2. /\ NoCatalog.status # "approved" /\ \A i : Cell(NoCatalog, i, "status") # "approved"
      /\ \A k : Item(NoCatalog, k) # "approved"
  BY DEF NoCatalog, Nothing, Cell, Item, Ids, Keys
<1>3. ASSUME NEW i \in LlmIds, Cell(new, i, "status") = "approved", Cell(ours, i, "status") # "approved"
      PROVE  Cell(sheet.theirs, i, "status") = "approved" /\ Cell(sheet.base, i, "status") # "approved"
  <2>1. i \in Ids(new) /\ new.tcs[i].status = "approved"
    BY <1>3 DEF Cell
  <2>2. CASE i \in Ids(ours) \cap Ids(sheet.theirs)
    <3> DEFINE o == ours.tcs[i].status  t == sheet.theirs.tcs[i].status  b == Cell(sheet.base, i, "status")
    <3>1. new.tcs[i].status = MergedRow(ours, sheet, i)["status"]
      BY <2>2, ImportFacts
    <3>2. MergedRow(ours, sheet, i)["status"] = MergeValue(o, t, b, sheet.meta)
      BY <2>2, MergedRows
    <3>3. o # "approved"
      BY <1>3, <2>2 DEF Cell
    <3>4. t = "approved" /\ (~sheet.meta \/ t # b)
      BY <2>1, <3>1, <3>2, <3>3 DEF MergeValue
    <3> QED BY <1>1, <1>2, <2>2, <3>4 DEF Cell
  <2>3. ASSUME NEW j \in NewRows(ours, sheet), i = IdOf(ours, sheet, j)
        PROVE  Cell(sheet.theirs, i, "status") = "approved" /\ Cell(sheet.base, i, "status") # "approved"
    <3>1. i = j /\ i \in Ids(sheet.theirs) /\ (sheet.meta => i \notin Ids(sheet.base))
      BY <2>3, NewIds, CatalogueAssumption DEF FreshIds
    <3>2. new.tcs[i] = [sheet.theirs.tcs[i] EXCEPT !.origin = "qa"]
      <4>1. new.tcs[IdOf(ours, sheet, j)] = [sheet.theirs.tcs[j] EXCEPT !.origin = "qa"]
        BY ImportFacts
      <4> HIDE DEF new
      <4> QED BY <2>3, <3>1, <4>1
    <3>3. sheet.theirs.tcs[i] \in Case
      BY <1>1, <3>1, CatalogParts
    <3>4. sheet.theirs.tcs[i].status = "approved"
      BY <2>1, <3>2, <3>3 DEF Case
    <3> QED BY <1>1, <1>2, <3>1, <3>4 DEF Cell
  <2>4. Ids(new) = (Ids(ours) \cap Ids(sheet.theirs)) \cup {IdOf(ours, sheet, j) : j \in NewRows(ours, sheet)}
    BY ImportFacts
  <2> HIDE DEF new
  <2> QED BY <2>1, <2>2, <2>3, <2>4
<1>4. ASSUME NEW k \in Waivers, Item(new, k) = "approved", Item(ours, k) # "approved"
      PROVE  Item(sheet.theirs, k) = "approved" /\ Item(sheet.base, k) # "approved"
  <2>1. k \in Keys(new) /\ new.items[k] = "approved"
    BY <1>4 DEF Item
  <2>2. k \in ItemKeys(ours, sheet) /\ MergedItem(ours, sheet, k) = "approved"
    BY <2>1, ImportFacts
  <2>3. "approved" \in Values
    BY DEF Values
  <2> HIDE DEF new
  <2>4. Item(sheet.theirs, k) = "approved" /\ (~sheet.meta \/ Item(sheet.base, k) # "approved")
    BY <1>4, <2>2, <2>3, MergedItems
  <2> QED BY <1>1, <1>2, <2>4
<1>5. ASSUME new.status = "approved", ours.status # "approved"
      PROVE  sheet.theirs.status = "approved" /\ sheet.base.status # "approved"
  <2>1. new.status = MergeValue(ours.status, sheet.theirs.status, sheet.base.status, sheet.meta)
    BY ImportFacts
  <2> HIDE DEF new
  <2>2. sheet.theirs.status = "approved" /\ (~sheet.meta \/ sheet.theirs.status # sheet.base.status)
    BY <1>5, <2>1 DEF MergeValue
  <2> QED BY <1>1, <1>2, <2>2
<1> QED BY <1>3, <1>4, <1>5 DEF Approves

\* An answer of an LLM approves nothing, merged or alone.
LEMMA AnswerApproves ==
  ASSUME NEW c \in Catalogs(Written), NEW p \in Proposals, NEW ours, NEW sheet
  PROVE  /\ Approves(ours, sheet, Candidate(p))
         /\ Approves(ours, sheet, c) => Approves(ours, sheet, Merge(c, Candidate(p)))
<1>1. Approves(ours, sheet, Candidate(p))
  <2> DEFINE d == Candidate(p)
  <2>1. /\ d.status = "draft" /\ \A i \in Ids(d) : d.tcs[i] = Proposed
        /\ \A k \in Keys(d) : d.items[k] = "draft"
    BY CandidateFits
  <2> HIDE DEF d
  <2>2. Approves(ours, sheet, d)
    BY <2>1 DEF Approves, Cell, Item, Proposed
  <2> QED BY <2>2 DEF d
<1>2. ASSUME Approves(ours, sheet, c) PROVE Approves(ours, sheet, Merge(c, Candidate(p)))
  <2> DEFINE d == Merge(c, Candidate(p))
  <2>1. /\ \A i \in Ids(d) : d.tcs[i] = Proposed \/ (i \in Ids(c) /\ d.tcs[i] = c.tcs[i])
        /\ \A k \in Keys(d) : IF k \in Keys(c) THEN d.items[k] = c.items[k] ELSE d.items[k] = "draft"
        /\ d.status \in {"draft", c.status}
    BY MergeFacts
  <2> HIDE DEF d
  <2>2. \A i : Cell(d, i, "status") = "approved" => Cell(c, i, "status") = "approved"
    BY <2>1 DEF Cell, Proposed
  <2>3. \A k : Item(d, k) = "approved" => Item(c, k) = "approved"
    BY <2>1 DEF Item
  <2>4. d.status = "approved" => c.status = "approved"
    BY <2>1
  <2>5. Approves(ours, sheet, d)
    BY <1>2, <2>2, <2>3, <2>4 DEF Approves
  <2> QED BY <2>5 DEF d
<1> QED BY <1>1, <1>2

\* No command approves a test case of the LLM, a waiver or the catalogue: what is approved
\* after it was approved before, or by QA in the spreadsheet since its export.
THEOREM OnlyQaApproves == Spec => NothingApprovesItself
<1>1. ASSUME CatInv, WriteYaml PROVE Approves(job.old, job.seen, yaml')
  <2>1. pc = "yaml" /\ yaml' = IF Overwrites \/ yaml = NoCatalog THEN job.new ELSE yaml
    BY <1>1 DEF WriteYaml
  <2>2. /\ job.old \in Catalogs(Written) /\ job.seen \in Sheets /\ Numbered(job.old, job.seen)
        /\ Absorbed(job.old, job.seen) \in Catalogs(Written)
    BY <1>1, ReadFacts
  <2>3. Approves(job.old, job.seen, ImportInto(job.old, job.seen))
    BY <2>2, ImportApproves
  <2>4. Approves(job.old, job.seen, Absorbed(job.old, job.seen))
    BY <2>3 DEF Absorbed, Approves
  <2>5. CASE GeneratePlan
    <3>1. yaml' = job.new
      BY <2>1, <2>5 DEF GeneratePlan, Overwrites
    <3>2. PICK p \in Proposals : job.new = Candidate(p)
      BY <2>1, <2>5 DEF GeneratePlan
    <3> QED BY <2>2, <3>1, <3>2, AnswerApproves
  <2>6. CASE RegenPlan
    <3>1. PICK p \in Proposals : yaml' = Merge(Absorbed(job.old, job.seen), Candidate(p))
      BY <2>1, <2>6 DEF RegenPlan, Overwrites
    <3> QED BY <2>2, <2>4, <3>1, AnswerApproves
  <2>7. CASE ImportPlan
    BY <2>1, <2>3, <2>7 DEF ImportPlan, Overwrites
  <2>8. ~ExportPlan
    BY <2>1 DEF ExportPlan
  <2> QED BY <1>1, <2>1, <2>5, <2>6, <2>7, <2>8 DEF CatInv, Planned
<1> DEFINE Keeps ==
      SavesYaml =>
        /\ \A i \in LlmIds :
             Cell(yaml', i, "status") = "approved" =>
               \/ Cell(job.old, i, "status") = "approved"
               \/ /\ Cell(job.seen.theirs, i, "status") = "approved"
                  /\ Cell(job.seen.base, i, "status") # "approved"
        /\ \A k \in Waivers :
             Item(yaml', k) = "approved" =>
               \/ Item(job.old, k) = "approved"
               \/ /\ Item(job.seen.theirs, k) = "approved"
                  /\ Item(job.seen.base, k) # "approved"
        /\ yaml'.status = "approved" =>
             \/ job.old.status = "approved"
             \/ job.seen.theirs.status = "approved" /\ job.seen.base.status # "approved"
<1>2. CatInv /\ [Next]_vars => [Keeps]_vars
  <2> SUFFICES ASSUME CatInv, [Next]_vars, SavesYaml PROVE Keeps
    OBVIOUS
  <2>1. Approves(job.old, job.seen, yaml')
    BY <1>1, SavesYamlIs
  <2> QED BY <2>1 DEF Approves
<1> QED BY <1>2, CatInvariant, PTL DEF Spec, NothingApprovesItself
=============================================================================
