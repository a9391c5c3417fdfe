------------------------------ MODULE Reports ------------------------------
(***************************************************************************)
(* A report of one target - what is on it, and the revisions issued from   *)
(* it - beside the records its sections read, and the notes of the         *)
(* engagement, which are one of the sections.                              *)
(*                                                                         *)
(* Toggling a section, issuing and previewing are transactions that see    *)
(* the database as it was at their first statement; one that writes a row  *)
(* another has written since is refused.  A note is written by single      *)
(* statements.  Titles, periods, bylines, pages of lists and the bytes of  *)
(* a document are left out, and what the other components keep moves from  *)
(* one moment of History to the next.                                      *)
(***************************************************************************)
EXTENDS Naturals, Sequences, FiniteSets

CONSTANTS
    History,       \* what the sections read, one moment after another
    Toggled,       \* the sections somebody toggles
    Requests,      \* at a time, each somebody's
    By,            \* By[p]: whose
    Seat,          \* Seat[p]: "write", "read" or "client", as the workspace has them
    Notes,
    MaxToggles, MaxRevisions

VARIABLES
    now,           \* the moment of History it is
    notes,         \* notes[n]: a note, or None
    erased,        \* notes that were erased (history)
    opened,        \* the report is there
    on,            \* on[s]: the row of a section
    count,         \* the report's own count of its revisions
    version,       \* of the report's row
    revisions,     \* issued, in the order they were
    acknowledged,  \* the last toggle of each section that was not refused (history)
    job            \* job[p]: the request p is in

vars == <<now, notes, erased, opened, on, count, version, revisions, acknowledged, job>>
report == <<opened, on, count, version, revisions, acknowledged>>

None == [author |-> "nobody"]
Idle == [step |-> "idle"]

All == <<"scope_and_method", "attribution_evidence", "asset_inventory",
         "findings_by_severity", "coverage", "engagement_notes",
         "invocation_log", "raw_artifacts">>
Sections == {All[i] : i \in DOMAIN All}
DefaultOn(s) == s \notin {"invocation_log", "raw_artifacts"}
Mandatory(s) == s = "coverage"
Withheld(s) == s \in {"invocation_log", "raw_artifacts"}

TypeOK ==
    /\ now \in DOMAIN History
    /\ \A n \in Notes : notes[n] = None \/
          (notes[n].author \in {By[p] : p \in Requests} /\ notes[n].edited \in BOOLEAN /\ notes[n].about \in BOOLEAN)
    /\ on \in [Sections -> BOOLEAN] /\ opened \in BOOLEAN
    /\ count \in 0 .. MaxRevisions
    /\ version \in 0 .. MaxToggles + MaxRevisions
    /\ \A p \in Requests : job[p].step \in {"idle", "toggle", "render", "edit", "erase", "tell"}

\* The sections of a report that are on, in their order.
Enabled(rows) == SelectSeq(All, LAMBDA s : rows[s])

\* New: with the defaults of the day it was opened.
New == [s \in Sections |-> DefaultOn(s)]

Init ==
    /\ now = 1
    /\ notes = [n \in Notes |-> None] /\ erased = {}
    /\ opened = FALSE /\ on = New
    /\ count = 0 /\ version = 0 /\ revisions = <<>>
    /\ acknowledged = New
    /\ job = [p \in Requests |-> Idle]

Goes(p, to) == job' = [job EXCEPT ![p] = to]

\* What the other components keep goes on changing.
Time ==
    /\ now + 1 \in DOMAIN History /\ now' = now + 1
    /\ UNCHANGED <<notes, erased, report, job>>

-----------------------------------------------------------------------------
(* Notes.                                                                  *)

\* NewWithContext: about something, or of the engagement as a whole.
WriteNote(p, n, about) ==
    /\ job[p] = Idle /\ notes[n] = None /\ n \notin erased
    /\ notes' = [notes EXCEPT ![n] = [author |-> By[p], edited |-> FALSE, about |-> about]]
    /\ Goes(p, [step |-> "tell"])
    /\ UNCHANGED <<now, erased, report>>

\* The note is read, and only its author goes on.
AskEdit(p, n) ==
    /\ job[p] = Idle /\ notes[n] # None /\ notes[n].author = By[p]
    /\ Goes(p, [step |-> "edit", note |-> n, held |-> notes[n]])
    /\ UNCHANGED <<now, notes, erased, report>>

Edited(held) == [held EXCEPT !.edited = TRUE]

\* Save: an update, of a row that is there.
SaveNote(p) ==
    /\ job[p].step = "edit"
    /\ LET n == job[p].note IN
       IF notes[n] = None THEN Goes(p, Idle) /\ UNCHANGED notes
       ELSE /\ notes' = [notes EXCEPT ![n] = Edited(job[p].held)]
            /\ Goes(p, [step |-> "tell"])
    /\ UNCHANGED <<now, erased, report>>

\* note.written goes out after the row, or not at all if the process dies.
TellNote(p) ==
    /\ job[p].step = "tell" /\ Goes(p, Idle)
    /\ UNCHANGED <<now, notes, erased, report>>

AskErase(p, n) ==
    /\ job[p] = Idle /\ notes[n] # None /\ notes[n].author = By[p]
    /\ Goes(p, [step |-> "erase", note |-> n])
    /\ UNCHANGED <<now, notes, erased, report>>

DeleteNote(p) ==
    /\ job[p].step = "erase"
    /\ notes' = [notes EXCEPT ![job[p].note] = None]
    /\ erased' = erased \cup {job[p].note}
    /\ Goes(p, Idle)
    /\ UNCHANGED <<now, report>>

\* AllSummary: every note that is about nothing in particular.
AllSummary == {n \in Notes : notes[n] # None /\ ~notes[n].about}

-----------------------------------------------------------------------------
(* What a transaction sees, and what each section makes of it.             *)

View == [world |-> History[now], notes |-> AllSummary,
         on |-> on, count |-> count, version |-> version,
         next |-> Len(revisions) + 1]

Scope(v) == [content |-> v.world.rules,
             counts |-> <<Cardinality(v.world.rules), Cardinality(v.world.superseded)>>]
Attribution(v) == [content |-> v.world.assets, counts |-> <<Cardinality(v.world.assets)>>]
\* Every asset is in scope: none is an asset without an accepted attribution.
Assets(v) == [content |-> v.world.assets,
              counts |-> <<Cardinality(v.world.assets), Cardinality(v.world.assets), 0>>]

\* Of the accepted fragments; the dismissed ones are counted, not shown.
ForFragments(v) == {f \in v.world.findings : f \in v.world.assets}
Findings(v) ==
    LET out == ForFragments(v) IN
    [content |-> out \ v.world.dismissed,
     counts |-> <<Cardinality(out \ v.world.dismissed), Cardinality(out \cap v.world.dismissed)>>]

\* A cell for every asset and every check that applies to it.
Coverage(v) ==
    LET cells == v.world.assets \X v.world.checks IN
    [content |-> cells, counts |-> <<Cardinality(cells \ v.world.covered), Cardinality(cells)>>]

EngagementNotes(v) == [content |-> v.notes, counts |-> <<Cardinality(v.notes)>>]

Invocations(v) == [content |-> v.world.invocations,
                   counts |-> <<Cardinality(v.world.invocations), Cardinality(v.world.refused)>>]
\* Those of the invocations of every run of the target.
Artifacts(v) ==
    LET out == {i \in v.world.invocations : i \notin v.world.refused} IN
    [content |-> out, counts |-> <<Cardinality(out)>>]

Rendered(s, v) ==
    CASE s = "scope_and_method" -> Scope(v)
      [] s = "attribution_evidence" -> Attribution(v)
      [] s = "asset_inventory" -> Assets(v)
      [] s = "findings_by_severity" -> Findings(v)
      [] s = "coverage" -> Coverage(v)
      [] s = "engagement_notes" -> EngagementNotes(v)
      [] s = "invocation_log" -> Invocations(v)
      [] s = "raw_artifacts" -> Artifacts(v)

WithheldNames(included) == {s \in Sections : Withheld(s)} \ included

-----------------------------------------------------------------------------
(* The report.                                                             *)

Open ==
    /\ ~opened /\ opened' = TRUE
    /\ UNCHANGED <<now, notes, erased, on, count, version, revisions, acknowledged, job>>

AskToggle(p, s, to) ==
    /\ opened /\ job[p] = Idle /\ version < MaxToggles
    /\ to \/ ~Mandatory(s)
    /\ Goes(p, [step |-> "toggle", view |-> View, section |-> s, to |-> to])
    /\ UNCHANGED <<now, notes, erased, report>>

\* SaveReport within a snapshot: nobody has written the row since.
SaveReport(v) == version = v.version

\* writeSections: every section, as this request read and changed them.
WriteSections(v, s, to) == on' = [v.on EXCEPT ![s] = to]

Toggle(p) ==
    /\ job[p].step = "toggle"
    /\ LET j == job[p] IN
       IF SaveReport(j.view)
       THEN /\ WriteSections(j.view, j.section, j.to)
            /\ version' = version + 1
            /\ acknowledged' = [acknowledged EXCEPT ![j.section] = j.to]
            /\ count' = j.view.count
       ELSE UNCHANGED <<on, version, acknowledged, count>>
    /\ Goes(p, Idle)
    /\ UNCHANGED <<now, notes, erased, opened, revisions>>

\* Issuing, and previewing, which only reads.
AskIssue(p, preview) ==
    /\ opened /\ job[p] = Idle /\ Len(revisions) < MaxRevisions
    /\ Goes(p, [step |-> "render", view |-> View, left |-> Enabled(on),
                doc |-> [s \in {} |-> <<>>], preview |-> preview])
    /\ UNCHANGED <<now, notes, erased, report>>

\* Mutant: a section is read outside the transaction.
SeenNow(v) == View

\* What the statements of the transaction see.
Seen(v) == v

\* One section of the document, of those that are on.
Render(p) ==
    /\ job[p].step = "render" /\ job[p].left # <<>>
    /\ LET j == job[p]
           s == Head(j.left) IN
       Goes(p, [j EXCEPT !.left = Tail(@),
                         !.doc = [x \in DOMAIN @ \cup {s} |->
                                    IF x = s THEN Rendered(s, Seen(j.view)) ELSE @[x]]])
    /\ UNCHANGED <<now, notes, erased, report>>

\* A number is given once in a report.
NextRevision(v) == v.next
NewRevision(j) == [number |-> NextRevision(j.view), sections |-> Enabled(j.view.on), doc |-> j.doc,
                   withheld |-> WithheldNames(DOMAIN j.doc)]
AddRevision(r) == \A i \in DOMAIN revisions : revisions[i].number # r.number
Issued(v) == v.count + 1

Issue(p) ==
    /\ job[p].step = "render" /\ job[p].left = <<>> /\ ~job[p].preview
    /\ LET j == job[p] IN
       IF AddRevision(NewRevision(j)) /\ SaveReport(j.view)
       THEN /\ revisions' = Append(revisions, NewRevision(j))
            /\ count' = Issued(j.view)
            /\ version' = version + 1
            /\ on' = j.view.on
       ELSE UNCHANGED <<revisions, count, version, on>>
    /\ Goes(p, Idle)
    /\ UNCHANGED <<now, notes, erased, opened, acknowledged>>

\* What a preview shows is gone when it has been shown.
Preview(p) ==
    /\ job[p].step = "render" /\ job[p].left = <<>> /\ job[p].preview
    /\ Goes(p, Idle)
    /\ UNCHANGED <<now, notes, erased, report>>

Crash(p) ==
    /\ job[p] # Idle /\ Goes(p, Idle)
    /\ UNCHANGED <<now, notes, erased, report>>

-----------------------------------------------------------------------------
(* The requests, and whom they are for.                                    *)

onDeliverable(p, least) == least = "read" \/ Seat[p] = "write"
onWorkspace(p) == Seat[p] = "write"

openReport(p) == onDeliverable(p, "write") /\ Open
toggleSection(p, s, to) == onDeliverable(p, "write") /\ AskToggle(p, s, to)
previewReport(p) == onDeliverable(p, "read") /\ AskIssue(p, TRUE)
issueReport(p) == onDeliverable(p, "write") /\ AskIssue(p, FALSE)
writeNote(p, n, about) == onWorkspace(p) /\ WriteNote(p, n, about)
editNote(p, n) == onWorkspace(p) /\ AskEdit(p, n)
eraseNote(p, n) == onWorkspace(p) /\ AskErase(p, n)

Next ==
    \/ Time
    \/ \E p \in Requests :
          \/ openReport(p)
          \/ \E n \in Notes : \/ \E about \in BOOLEAN : writeNote(p, n, about)
                              \/ editNote(p, n) \/ eraseNote(p, n)
          \/ SaveNote(p) \/ TellNote(p) \/ DeleteNote(p)
          \/ \E s \in Toggled, to \in BOOLEAN : toggleSection(p, s, to)
          \/ Toggle(p)
          \/ previewReport(p) \/ issueReport(p)
          \/ Render(p) \/ Issue(p) \/ Preview(p) \/ Crash(p)

Spec == Init /\ [][Next]_vars

-----------------------------------------------------------------------------
\* "A document cannot show twelve assets in one section and thirteen in another
\* because a scan landed between two reads": what a document says in one
\* section agrees with what it says in the others - one being previewed too.
Reconciles(doc) ==
    LET Has(s) == s \in DOMAIN doc IN
    /\ Has("attribution_evidence") /\ Has("asset_inventory") =>
          doc["attribution_evidence"].content = doc["asset_inventory"].content
    /\ Has("findings_by_severity") /\ Has("asset_inventory") =>
          doc["findings_by_severity"].content \subseteq doc["asset_inventory"].content
    /\ Has("coverage") /\ Has("asset_inventory") =>
          {c[1] : c \in doc["coverage"].content} \subseteq doc["asset_inventory"].content
    /\ Has("raw_artifacts") /\ Has("invocation_log") =>
          doc["raw_artifacts"].content \subseteq doc["invocation_log"].content
DocumentReconciles ==
    /\ \A i \in DOMAIN revisions : Reconciles(revisions[i].doc)
    /\ \A p \in Requests : job[p].step = "render" => Reconciles(job[p].doc)

\* However issuing and toggling fall between each other, the report counts the
\* revisions there are, and they are numbered one after the other.
RevisionsAreCounted ==
    /\ count = Len(revisions)
    /\ \A i \in DOMAIN revisions : revisions[i].number = i

\* A toggle that was answered is what the report has on until the section is
\* toggled again: no request that read the report before writes it back.
NoToggleIsLost == on = acknowledged

\* A note its author took back does not come back with an edit of theirs that
\* had already read it.
ErasedStaysErased == \A n \in erased : notes[n] = None
=============================================================================
