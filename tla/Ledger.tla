------------------------------- MODULE Ledger --------------------------------
(***************************************************************************)
(* The two records of what has happened.  Every event is delivered at      *)
(* least once and in any order: the journal keeps a line of each, the      *)
(* audit ledger an entry of each decision, and both once.  Sweepers expire *)
(* the journal's old work in batches.  Readers walk either in pages,       *)
(* newest first, from the last row they were given, while rows arrive      *)
(* behind and ahead of them; and they read the chain of one act.           *)
(*                                                                         *)
(* Identifiers grow as rows arrive.  Who may open which walk is Seats'.    *)
(***************************************************************************)
EXTENDS Naturals, Sequences, FiniteSets

CONSTANTS
    Acts,         \* what may happen: decision, subject, tenant, namespace, detail
    Script,       \* what does: act, instant, and the one that caused it or 0
    Filters,      \* the walks there are: what is read, by what, and a facet
    Sweepers, Readers,
    Page, Batch, Retention,
    MaxTime, MaxDepth, MaxRows

VARIABLES
    now,
    entries,      \* the ledger: the event of each row, by identifier
    lines,        \* the journal, likewise
    nextID,
    sweep,        \* sweep[s]: where its pass is
    walk,         \* walk[r]: where it is and what it was given
    written       \* every line there has been (history)

vars == <<now, entries, lines, nextID, sweep, walk, written>>

Nothing == ""
Idle == [step |-> "idle"]

\* An act begins a chain, and what handles an event carries its chain on,
\* unless it is too deep.
New(act, at, n) == [act |-> act, at |-> at, correlation |-> n, cause |-> 0, depth |-> 0]
derive(cause, act, at, n) ==
    [act |-> act, at |-> at, correlation |-> cause.correlation, cause |-> n, depth |-> cause.depth + 1]
Event[n \in DOMAIN Script] ==
    LET one == Script[n]
    IN IF one.cause = 0 THEN New(one.act, one.at, n)
       ELSE derive(Event[one.cause], one.act, one.at, one.cause)
Published == {n \in DOMAIN Script : Event[n].at <= now /\ Event[n].depth <= MaxDepth}
RowOf(rows) == {[id |-> i, at |-> Event[rows[i]].at, of |-> rows[i]] : i \in DOMAIN rows}

TypeOK ==
    /\ now \in 1 .. MaxTime /\ written \subseteq Published
    /\ DOMAIN entries \cup DOMAIN lines \subseteq 1 .. nextID - 1
    /\ \A s \in Sweepers : sweep[s].step \in {"idle", "passing", "chosen"}
    /\ \A r \in Readers : walk[r].step \in {"idle", "walking", "counting", "ended"}

NoRows == [i \in {} |-> 0]
Init ==
    /\ now = 1 /\ entries = NoRows /\ lines = NoRows /\ nextID = 1
    /\ sweep = [s \in Sweepers |-> Idle] /\ walk = [r \in Readers |-> Idle]
    /\ written = {}

records == <<entries, lines, nextID, written>>
Tick == now < MaxTime /\ now' = now + 1 /\ UNCHANGED <<records, sweep, walk>>

-----------------------------------------------------------------------------
(* What is kept of it.  The index on the event makes the next delivery     *)
(* write nothing.                                                          *)

Inserted(rows, n) ==
    IF \E i \in DOMAIN rows : rows[i] = n THEN rows
    ELSE [i \in DOMAIN rows \cup {nextID} |-> IF i = nextID THEN n ELSE rows[i]]

InsertEntry(n) ==
    /\ Acts[Event[n].act].decision
    /\ entries' = Inserted(entries, n) /\ entries' # entries
    /\ nextID <= MaxRows /\ nextID' = nextID + 1
    /\ UNCHANGED <<now, lines, sweep, walk, written>>

InsertLine(n) ==
    /\ lines' = Inserted(lines, n) /\ lines' # lines
    /\ nextID <= MaxRows /\ nextID' = nextID + 1 /\ written' = written \cup {n}
    /\ UNCHANGED <<now, entries, sweep, walk>>

\* The scope is read off the event: an engagement is its tenant, and the rest
\* is its subject.
ScopeOf(n) ==
    LET act == Acts[Event[n].act]
    IN IF act.tenant # Nothing THEN "workspace"
       ELSE IF act.subject[1] \in {"account", "org"} THEN act.subject[1] ELSE "system"
FromEvent(n) ==
    LET act == Acts[Event[n].act]
    IN [workspace |-> IF ScopeOf(n) = "workspace" THEN act.tenant ELSE Nothing,
        org |-> IF ScopeOf(n) = "org" THEN act.subject[2] ELSE Nothing,
        subject |-> act.subject, facet |-> act.namespace, detail |-> act.detail]

-----------------------------------------------------------------------------
(* The sweepers of the journal.                                            *)

Old(cutoff) == {i \in DOMAIN lines : Event[lines[i]].at < cutoff /\ ~Acts[Event[lines[i]].act].decision}

BeginSweep(s) ==
    /\ sweep[s] = Idle /\ now > Retention
    /\ sweep' = [sweep EXCEPT ![s] =
          [step |-> "passing", cutoff |-> now - Retention, found |-> Old(now - Retention),
           met |-> \E q \in Sweepers : sweep[q] # Idle]]
    /\ UNCHANGED <<now, records, walk>>

\* One statement chooses rows and removes those of them that are still there
\* when it has their locks; a short batch ends the pass.
ChooseExpired(s) ==
    /\ sweep[s].step = "passing"
    /\ LET old == Old(sweep[s].cutoff)
       IN \E batch \in SUBSET old :
             /\ Cardinality(batch) = IF Cardinality(old) < Batch THEN Cardinality(old) ELSE Batch
             /\ sweep' = [q \in Sweepers |->
                   IF q = s THEN [step |-> "chosen", cutoff |-> sweep[s].cutoff, batch |-> batch,
                                  found |-> sweep[s].found, met |-> sweep[s].met]
                   ELSE IF sweep[q] # Idle THEN [sweep[q] EXCEPT !.met = TRUE] ELSE sweep[q]]
    /\ UNCHANGED <<now, records, walk>>

ExpireBefore(s) ==
    /\ sweep[s].step = "chosen"
    /\ LET gone == sweep[s].batch \cap DOMAIN lines
       IN /\ lines' = [i \in DOMAIN lines \ gone |-> lines[i]]
          /\ sweep' = [sweep EXCEPT ![s] =
                IF Cardinality(gone) < Batch
                THEN [step |-> "idle"]
                ELSE [step |-> "passing", cutoff |-> sweep[s].cutoff,
                      found |-> sweep[s].found, met |-> sweep[s].met]]
    /\ UNCHANGED <<now, entries, nextID, walk, written>>

\* The process ends between two batches.
SweepEnds(s) ==
    /\ sweep[s] # Idle /\ sweep' = [sweep EXCEPT ![s] = Idle]
    /\ UNCHANGED <<now, records, walk>>

-----------------------------------------------------------------------------
(* The readers.                                                            *)

Namespaces == {Acts[a].namespace : a \in DOMAIN Acts}
InFacet(rows, facet) == {r \in rows : FromEvent(r.of).facet = facet}

EntriesForSubjectPage(f) == {r \in RowOf(entries) : FromEvent(r.of).subject = f.of}
EntriesForSubjectFacetPage(f) == InFacet(EntriesForSubjectPage(f), f.facet)
EntriesForWorkspacePage(f) == {r \in RowOf(entries) : FromEvent(r.of).workspace = f.of}
EntriesForWorkspaceFacetPage(f) == InFacet(EntriesForWorkspacePage(f), f.facet)
EntriesForWorkspaceDetailPage(f) ==
    {r \in EntriesForWorkspacePage(f) : FromEvent(r.of).detail = f.detail}
EntriesForWorkspaceDetailFacetPage(f) == InFacet(EntriesForWorkspaceDetailPage(f), f.facet)
EntriesForOrgPage(f) == {r \in RowOf(entries) : FromEvent(r.of).org = f.of}
LinesForWorkspace(f) == {r \in RowOf(lines) : Acts[Event[r.of].act].tenant = f.of}

ForSubject(f) ==
    IF f.facet = Nothing THEN EntriesForSubjectPage(f) ELSE EntriesForSubjectFacetPage(f)
ForWorkspace(f) ==
    IF f.facet = Nothing THEN EntriesForWorkspacePage(f) ELSE EntriesForWorkspaceFacetPage(f)
ForWorkspaceDetail(f) ==
    IF f.facet = Nothing THEN EntriesForWorkspaceDetailPage(f)
    ELSE EntriesForWorkspaceDetailFacetPage(f)
ForOrg(f) == EntriesForOrgPage(f)

Rows(f) ==
    CASE f.by = "subject" -> ForSubject(f)
      [] f.by = "workspace" -> ForWorkspace(f)
      [] f.by = "detail" -> ForWorkspaceDetail(f)
      [] f.by = "org" -> ForOrg(f)
      [] f.by = "log" -> LinesForWorkspace(f)

\* How many there are of each facet, whichever is asked for.
Counts(rows) == [n \in Namespaces |-> Cardinality(InFacet(rows, n))]
FacetsForSubject(f) == Counts(EntriesForSubjectPage(f))
FacetsForWorkspace(f) == Counts(EntriesForWorkspacePage(f))
FacetsForWorkspaceDetail(f) == Counts(EntriesForWorkspaceDetailPage(f))
FacetsForOrg(f) == Counts(EntriesForOrgPage(f))
Facets(f) ==
    CASE f.by = "subject" -> FacetsForSubject(f)
      [] f.by = "workspace" -> FacetsForWorkspace(f)
      [] f.by = "detail" -> FacetsForWorkspaceDetail(f)
      [] f.by = "org" -> FacetsForOrg(f)

Older(a, b) == a.at < b.at \/ (a.at = b.at /\ a.id < b.id)
Newest == [at |-> MaxTime + 1, id |-> 0]

\* Mutant: the cursor is an instant.
BeyondInstant(rows, cursor) == {r \in rows : r.at < cursor.at}

Beyond(rows, cursor) == {r \in rows : Older(r, cursor)}

\* One more than the page is read, to know whether there are more.
Given(rows, cursor) ==
    {r \in Beyond(rows, cursor) : Cardinality({q \in Beyond(rows, cursor) : Older(r, q)}) < Page}
More(rows, cursor) == Cardinality(Beyond(rows, cursor)) > Page
Last(rows) == CHOOSE r \in rows : \A q \in rows : q = r \/ Older(r, q)

Opens(r, f) ==
    /\ walk[r] = Idle
    /\ walk' = [walk EXCEPT ![r] =
          [step |-> "walking", by |-> f, cursor |-> Newest, given |-> {}, twice |-> FALSE,
           before |-> Rows(f), facets |-> Counts({})]]
    /\ UNCHANGED <<now, records, sweep>>

myActivity(r, f) == f.by = "subject" /\ Opens(r, f)
workspaceAudit(r, f) == f.by = "workspace" /\ Opens(r, f)
briefSnapshotActivity(r, f) == f.by = "detail" /\ Opens(r, f)
orgAudit(r, f) == f.by = "org" /\ Opens(r, f)
workspaceLogs(r, f) == f.by = "log" /\ Opens(r, f)

\* The head of the ledger comes with its facets, counted after it is read.
PageFor(r) ==
    LET w == walk[r]
        given == Given(Rows(w.by), w.cursor)
        more == More(Rows(w.by), w.cursor)
    IN /\ w.step = "walking"
       /\ walk' = [walk EXCEPT ![r] =
             [step |-> IF w.cursor = Newest /\ w.by.by # "log" THEN "counting"
                       ELSE IF more THEN "walking" ELSE "ended",
              more |-> more, by |-> w.by, facets |-> w.facets,
              cursor |-> IF given = {} THEN w.cursor ELSE [at |-> Last(given).at, id |-> Last(given).id],
              given |-> w.given \cup given, twice |-> w.twice \/ w.given \cap given # {},
              before |-> w.before \cap Rows(w.by)]]
       /\ UNCHANGED <<now, records, sweep>>

CountsFacets(r) ==
    /\ walk[r].step = "counting"
    /\ walk' = [walk EXCEPT ![r].step = IF walk[r].more THEN "walking" ELSE "ended",
                            ![r].facets = Facets(walk[r].by)]
    /\ UNCHANGED <<now, records, sweep>>

\* The chain of an act, as far as its reader may see it.
ForCorrelation(n) == {lines[i] : i \in {j \in DOMAIN lines : Event[lines[j]].correlation = n}}

Next ==
    \/ Tick
    \/ \E n \in Published : InsertEntry(n) \/ InsertLine(n)
    \/ \E s \in Sweepers : BeginSweep(s) \/ ChooseExpired(s) \/ ExpireBefore(s) \/ SweepEnds(s)
    \/ \E r \in Readers :
          \/ \E f \in Filters :
                \/ myActivity(r, f) \/ workspaceAudit(r, f) \/ briefSnapshotActivity(r, f)
                \/ orgAudit(r, f) \/ workspaceLogs(r, f)
          \/ PageFor(r) \/ CountsFacets(r)

Spec == Init /\ [][Next]_vars

-----------------------------------------------------------------------------
\* A walk gives no row twice, and all of what was there when it began and has
\* not been expired since, whatever arrives meanwhile and however late it is.
WalksAreWhole ==
    \A r \in Readers :
        walk[r].step # "idle" =>
            /\ ~walk[r].twice
            /\ walk[r].step = "ended" => walk[r].before \subseteq walk[r].given

\* What a head page shows is counted in its facets, although they are counted
\* later and of another reading.
FacetsCountThePage ==
    \A r \in Readers :
        walk[r].step \in {"walking", "ended"} /\ walk[r].by.by # "log"
          /\ Cardinality(walk[r].given) \in 1 .. Page =>
            \A n \in Namespaces : walk[r].facets[n] >= Cardinality(InFacet(walk[r].given, n))

\* What is read of a firm names no engagement, and what is read of an
\* engagement is its own.
ScopesAreApart ==
    \A r \in Readers : walk[r].step # "idle" =>
        \A row \in walk[r].given :
            LET tenant == Acts[Event[row.of].act].tenant  by == walk[r].by
            IN /\ by.by = "org" => tenant = Nothing
               /\ by.by \in {"workspace", "detail", "log"} => tenant = by.of

\* A record is kept once; a decision that has a line keeps it, so that a chain
\* degrades to its decisions; and work is expired only when it is old.
RecordsAreKept ==
    /\ \A i, j \in DOMAIN entries : entries[i] = entries[j] => i = j
    /\ \A i, j \in DOMAIN lines : lines[i] = lines[j] => i = j
    /\ \A n \in written :
          n \in ForCorrelation(Event[n].correlation)
          \/ (~Acts[Event[n].act].decision /\ Event[n].at + Retention < now)

\* A pass that no other overlapped leaves nothing that was old when it began,
\* unless its process ended or the line was delivered again.
PassIsWhole ==
    \A s \in Sweepers :
        sweep[s].step = "chosen" /\ ~sweep[s].met /\ Cardinality(sweep[s].batch) < Batch =>
            sweep[s].found \cap DOMAIN lines \subseteq sweep[s].batch
=============================================================================
