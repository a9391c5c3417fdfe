------------------------------- MODULE Health --------------------------------
(***************************************************************************)
(* The tools of a firm, and the reading of its machinery's health.  A tool *)
(* is added, updated and archived; a version keeps two writers apart, and  *)
(* what is told of a write follows it, or is lost.  The reading asks six   *)
(* probes one after the other, each in statements of its own, while tools, *)
(* mappings and checks change and runs fail: what was silent before the    *)
(* first of them and is after the last must not be passed over.            *)
(*                                                                         *)
(* How many rows a probe has considered, and how often and since when it   *)
(* has found a thing, are left out.                                        *)
(***************************************************************************)
EXTENDS Naturals, Sequences, FiniteSets

CONSTANTS
    Tools,         \* identifiers not used yet
    Names, Intensities,
    Roles,         \* the roles a live mapping of a tool may have
    Checks,        \* the checks that are edited
    Events,        \* that may give up
    Paths,         \* that a tool's output may have and no mapping claims
    People,        \* each adds, updates or archives once
    Role,          \* Role[p]: what p is in the firm
    Readers,       \* each reads the health once
    Page           \* paths that one probe returns at most

VARIABLES
    tool,          \* tool[t]: the row
    live,          \* live[t]: the roles of its live mappings
    check,         \* check[c]: switched on and on a clock, with a chain
    off,           \* tools that an invocation could not start, whenever it was
    buried,        \* the events that have given up
    unmapped,      \* paths no mapping claimed
    job,           \* job[p]: of a request
    told,          \* the events published
    report,        \* report[d]: what a reading has so far
    versions,      \* versions[t]: the intensity of each version of the row (history)
    lasting        \* lasting[d]: what has been silent since the reading began (history)

machinery == <<live, check, off, buried, unmapped>>
vars == <<tool, machinery, job, told, report, versions, lasting>>

Unmade == [status |-> "none", name |-> "", intensity |-> "", finding |-> FALSE, version |-> 0]
Idle == [step |-> "idle"]
Done == [step |-> "done"]

\* The kinds of silence, worst first; a report accounts for every one.
All == <<"tool_unavailable", "tool_no_signature", "event_buried", "check_unrunnable",
         "tool_unread", "field_unmapped">>

TypeOK ==
    /\ \A t \in Tools : tool[t] = Unmade \/ tool[t] \in
          [status : {"active", "archived"}, name : Names, intensity : Intensities,
           finding : BOOLEAN, version : Nat \ {0}]
    /\ live \in [Tools -> SUBSET Roles] 
    /\ check \in [Checks -> [enabled : BOOLEAN, chained : BOOLEAN]]
    /\ off \subseteq Tools /\ unmapped \subseteq Paths /\ buried \subseteq Events

Init ==
    /\ tool = [t \in Tools |-> Unmade] /\ live = [t \in Tools |-> {}]
    /\ check = [c \in Checks |-> [enabled |-> FALSE, chained |-> FALSE]]
    /\ off = {} /\ buried = {} /\ unmapped = {}
    /\ job = [p \in People |-> Idle] /\ told = {}
    /\ report = [d \in Readers |-> Idle]
    /\ versions = [t \in Tools |-> <<>>] /\ lasting = [d \in Readers |-> {}]

-----------------------------------------------------------------------------
(* The tools.                                                              *)

ToolsForOrg(archived) ==
    {t \in Tools : tool[t].status = "active" \/ (archived /\ tool[t].status = "archived")}
Active == ToolsForOrg(FALSE)
\* Names are compared among the tools that are not archived.
FitsIndex(row) == \A t \in Active : tool[t].name # row.name

\* Any member of the firm sees its tools, an owner or an admin changes them.
inFirm(p) == Role[p] \in {"owner", "admin"}
ByID(t) == tool[t]

New(name, intensity, finding) ==
    [status |-> "active", name |-> name, intensity |-> intensity, finding |-> finding, version |-> 1]
Update(row, intensity, finding) ==
    [row EXCEPT !.intensity = intensity, !.finding = finding, !.version = @ + 1]
Archive(row) == [row EXCEPT !.status = "archived", !.version = @ + 1]
MayChange(row) == row.status = "active"

Asks(p, next) == job' = [job EXCEPT ![p] = next] /\ UNCHANGED <<machinery, report>>
Saying(name, of, from, to) == [name |-> name, tool |-> of, version |-> to.version,
                             from |-> from.intensity, to |-> to.intensity]

InsertTool(t, row) ==
    /\ tool[t] = Unmade /\ FitsIndex(row)
    /\ tool' = [tool EXCEPT ![t] = row] /\ versions' = [versions EXCEPT ![t] = <<row.intensity>>]
Create(p, t, row) ==
    /\ InsertTool(t, row)
    /\ Asks(p, [step |-> "tell", says |-> Saying("tool.added", t, row, row)]) /\ UNCHANGED told
addTool(p, t, name, intensity, finding) ==
    job[p] = Idle /\ inFirm(p) /\ Create(p, t, New(name, intensity, finding))

\* Nothing is written of an update that changes nothing.
updateTool(p, t, intensity, finding) ==
    LET row == ByID(t)
        next == Update(row, intensity, finding)
    IN /\ job[p] = Idle /\ inFirm(p) /\ MayChange(row)
       /\ Asks(p, IF next = [row EXCEPT !.version = next.version] THEN Done
                  ELSE [step |-> "save", of |-> t, row |-> next, from |-> row, name |-> "tool.updated"])
       /\ UNCHANGED <<tool, told, versions>>

archiveTool(p, t) ==
    LET row == ByID(t)
    IN /\ job[p] = Idle /\ inFirm(p) /\ MayChange(row)
       /\ Asks(p, [step |-> "save", of |-> t, row |-> Archive(row), from |-> row,
                   name |-> "tool.archived"])
       /\ UNCHANGED <<tool, told, versions>>

\* The statement writes the version that was read, or nothing.
Fresh(t, row) == tool[t].version = row.version - 1
UpdateTool(t, row) ==
    /\ Fresh(t, row) /\ tool' = [tool EXCEPT ![t] = row]
    /\ versions' = [versions EXCEPT ![t] = Append(@, row.intensity)]
Save(p) ==
    LET j == job[p]
    IN /\ j.step = "save" /\ UpdateTool(j.of, j.row)
       /\ Asks(p, [step |-> "tell", says |-> Saying(j.name, j.of, j.from, j.row)])
       /\ UNCHANGED told
StaleWrite(p) ==
    /\ job[p].step = "save" /\ ~Fresh(job[p].of, job[p].row)
    /\ Asks(p, Done) /\ UNCHANGED <<tool, told, versions>>

\* What is published, or lost with an error to the caller.
emit(p) ==
    /\ job[p].step = "tell" /\ Asks(p, Done)
    /\ told' \in {told, told \cup {job[p].says}}
    /\ UNCHANGED <<tool, versions>>

-----------------------------------------------------------------------------
(* What else happens to the machinery.                                     *)

Happens == UNCHANGED <<tool, job, told, report, versions>>

\* A mapping is promoted, or retired.
Map(t, role) ==
    /\ t \in Active /\ live' = [live EXCEPT ![t] = IF role \in @ THEN @ \ {role} ELSE @ \cup {role}]
    /\ UNCHANGED <<check, off, buried, unmapped>> /\ Happens
EditCheck(c, row) ==
    row # check[c] /\ check' = [check EXCEPT ![c] = row] /\ UNCHANGED <<live, off, buried, unmapped>> /\ Happens
CannotStart(t) ==
    /\ t \in Active \ off /\ off' = off \cup {t}
    /\ UNCHANGED <<live, check, buried, unmapped>> /\ Happens
Bury(e) ==
    /\ e \notin buried /\ buried' = buried \cup {e}
    /\ UNCHANGED <<live, check, off, unmapped>> /\ Happens
InsertUnmapped(path) ==
    /\ path \notin unmapped /\ unmapped' = unmapped \cup {path}
    /\ UNCHANGED <<live, check, off, buried>> /\ Happens

-----------------------------------------------------------------------------
(* The probes, each of the rows as they are.                               *)

ToolsThatCouldNotStart == off
\* Something reads its output, and nothing what a finding is known by.
FindingToolsWithNoSignature ==
    {t \in Active : tool[t].finding /\ live[t] # {} /\ "signature" \notin live[t]}
Buried == buried
ChecksThatCannotRun == {c \in Checks : check[c].enabled /\ ~check[c].chained}
ToolsNobodyReads == {t \in Active : live[t] = {}}
PathsNobodyMapped == unmapped

\* What a probe of a kind may answer: a page of the paths, all of the others.
Silent(kind) ==
    CASE kind = "tool_unavailable" -> ToolsThatCouldNotStart
      [] kind = "tool_no_signature" -> FindingToolsWithNoSignature
      [] kind = "event_buried" -> Buried
      [] kind = "check_unrunnable" -> ChecksThatCannotRun
      [] kind = "tool_unread" -> ToolsNobodyReads
      [] kind = "field_unmapped" -> PathsNobodyMapped
Pages(found) ==
    {f \in SUBSET found : Cardinality(f) = Page \/ (f = found /\ Cardinality(found) < Page)}
run(kind) == IF kind = "field_unmapped" THEN Pages(Silent(kind)) ELSE {Silent(kind)}

Reads(d, next) ==
    report' = [report EXCEPT ![d] = next] /\ UNCHANGED <<tool, machinery, job, told, versions>>

\* One probe after the other.
Examine(d) ==
    report[d] = Idle /\ Reads(d, [step |-> "find", at |-> 1, probes |-> <<>>])

Finds(d) ==
    /\ report[d].step = "find" /\ report[d].at <= Len(All)
    /\ \E found \in run(All[report[d].at]) :
          Reads(d, [report[d] EXCEPT !.step = "count", !.probes =
                Append(@, [kind |-> All[report[d].at], measured |-> TRUE, found |-> found])])

\* And then it counts what it has looked at.
Counts(d) ==
    report[d].step = "count" /\ Reads(d, [report[d] EXCEPT !.step = "find", !.at = @ + 1])

\* A probe that fails does not fail the report, and is not one that found nothing.
Unmeasured(probes, at) ==
    Append(SubSeq(probes, 1, at - 1), [kind |-> All[at], measured |-> FALSE, found |-> {}])

Fails(d) ==
    LET r == report[d]
    IN /\ r.step \in {"find", "count"} /\ r.at <= Len(All)
       /\ Reads(d, [r EXCEPT !.step = "find", !.at = @ + 1, !.probes = Unmeasured(@, r.at)])

Trustworthy(r) == \A n \in DOMAIN r.probes : r.probes[n].measured
Symptoms(r) == UNION {{<<r.probes[n].kind, s>> : s \in r.probes[n].found} : n \in DOMAIN r.probes}
readHealth(d) ==
    /\ report[d].step = "find" /\ report[d].at > Len(All)
    /\ Reads(d, [step |-> "told", kinds |-> [n \in DOMAIN report[d].probes |-> report[d].probes[n].kind],
                 trustworthy |-> Trustworthy(report[d]), symptoms |-> Symptoms(report[d])])

-----------------------------------------------------------------------------
AllSilent == UNION {{<<All[n], s>> : s \in Silent(All[n])} : n \in DOMAIN All}

Acts ==
    \/ \E p \in People, t \in Tools :
          \/ \E name \in Names, intensity \in Intensities, finding \in BOOLEAN :
                addTool(p, t, name, intensity, finding) \/ updateTool(p, t, intensity, finding)
          \/ archiveTool(p, t)
    \/ \E p \in People : Save(p) \/ StaleWrite(p) \/ emit(p)
    \/ \E t \in Tools : CannotStart(t) \/ \E role \in Roles : Map(t, role)
    \/ \E c \in Checks, row \in [enabled : BOOLEAN, chained : BOOLEAN] : EditCheck(c, row)
    \/ \E e \in Events : Bury(e)
    \/ \E path \in Paths : InsertUnmapped(path)
    \/ \E d \in Readers : Examine(d) \/ Finds(d) \/ Counts(d) \/ Fails(d) \/ readHealth(d)

Next ==
    /\ Acts
    /\ lasting' = [d \in Readers |->
          IF report'[d].step \in {"idle", "told"} THEN {}
          ELSE IF report[d] = Idle THEN AllSilent ELSE lasting[d] \cap AllSilent']

Spec == Init /\ [][Next]_vars

-----------------------------------------------------------------------------
\* The events of a tool are its history: each tells the intensity of the version
\* it has made and of the one before, whoever else was writing.
EventsAreVersions ==
    \A e \in told :
        /\ versions[e.tool][e.version] = e.to
        /\ e.name = "tool.added" \/ versions[e.tool][e.version - 1] = e.from

\* A report that is trusted has passed over nothing that was silent all the time
\* it was made, but the paths beyond a page; and what it tells was so.
SilenceIsTold ==
    \A d \in Readers :
        LET told1 == Symptoms(report[d])
        IN report[d].step = "find" /\ report[d].at > Len(All) =>
             /\ Len(report[d].probes) = Len(All)
             /\ Trustworthy(report[d]) =>
                   \A s \in lasting[d] : s \in told1 \/
                       (s[1] = "field_unmapped"
                        /\ Cardinality({u \in told1 : u[1] = "field_unmapped"}) = Page)

\* A tool that was archived is not brought back by an update that had read it.
ArchivedStays == \A t \in Tools : tool[t].status = "archived" => tool'[t] = tool[t]
=============================================================================
