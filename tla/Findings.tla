------------------------------ MODULE Findings ------------------------------
(***************************************************************************)
(* Findings: a scanner's records become rows, one for each problem on a    *)
(* fragment; a scan that sees it again adds to its row; a person rules on  *)
(* it, or replaces its severity.                                           *)
(*                                                                         *)
(* A scan is recorded in one transaction, in any order with the others: it *)
(* carries the time its invocation started, which here is its number.  A   *)
(* person's request reads the row, and writes what it made of what it read *)
(* by id alone.  The fragments are the assembler's (module Graph), which   *)
(* makes them of what the earlier passes observed, some time later.        *)
(***************************************************************************)
EXTENDS Naturals, FiniteSets

CONSTANTS
    Subjects,      \* what a scanner matched at, one problem on each
    Scans,         \* 1 .. n, in the order they started
    People,
    Seat,          \* Seat[p]: p's level on the workspace (module Seats)
    Reports        \* Reports[v]: the subjects scan v matched at

VARIABLES
    fragments,     \* subjects whose observation the assembler has been through
    row,           \* row[s]: the finding on s, or none
    detail,        \* detail[s]: the scan a field of it was read in, or 0
    scanned,       \* scans whose artifact was extracted
    skipped,       \* sightings passed over for want of a fragment (history)
    job            \* job[p]: the row p has read and what it makes of it, or idle

vars == <<fragments, row, detail, scanned, skipped, job>>

None == [state |-> "none"]
Idle == [on |-> "nothing"]
States == {"open", "triaged", "resolved", "dismissed"}
Severities == {"low", "high"}
Rule == "rule"         \* who assessed what nobody has
Nobody == "nobody"

\* Who assessed, and what that assessment replaced.
Claims == [by : People \cup {Rule}, severity : Severities]
Unclaimed == [by |-> Nobody, severity |-> "low"]
Rows == [state : States, ruler : People \cup {Nobody}, reason : BOOLEAN,
         claim : Claims, before : Claims \cup {Unclaimed},
         first : Scans, last : Scans, cites : Scans, sightings : 1 .. Cardinality(Scans)]

TypeOK ==
    /\ fragments \subseteq Subjects
    /\ \A s \in Subjects : row[s] # None =>
          /\ row[s] \in Rows
          /\ row[s].state = "open" <=> row[s].ruler = Nobody
          /\ row[s].state = "dismissed" => row[s].reason
          /\ row[s].first <= row[s].last
    /\ detail \in [Subjects -> Scans \cup {0}]
    /\ scanned \subseteq Scans
    /\ skipped \subseteq Scans \X Subjects
    /\ \A p \in People : job[p] = Idle \/ job[p].on \in Subjects

Init ==
    /\ fragments = {}
    /\ row = [s \in Subjects |-> None]
    /\ detail = [s \in Subjects |-> 0]
    /\ scanned = {} /\ skipped = {}
    /\ job = [p \in People |-> Idle]

\* Graph: the assembler is through with the pass that observed s.
FragmentStored(s) ==
    /\ s \notin fragments
    /\ fragments' = fragments \cup {s}
    /\ UNCHANGED <<row, detail, scanned, skipped, job>>

-----------------------------------------------------------------------------
(* Scans.                                                                  *)

\* ForValue: what the graph has, and nothing is made here.
Found(v) == Reports[v] \cap fragments

\* New: opened by the rule that mapped it, on the first sighting.
New(v) ==
    [state |-> "open", ruler |-> Nobody, reason |-> FALSE,
     claim |-> [by |-> Rule, severity |-> "low"], before |-> Unclaimed,
     first |-> v, last |-> v, cites |-> v, sightings |-> 1]

\* Seen, the domain's: what the command's tests store, and nothing else calls.
DomainSeen(r, v) ==
    LET counted == [r EXCEPT !.sightings = @ + 1]
        newest == IF v > r.last THEN [counted EXCEPT !.last = v, !.cites = v] ELSE counted
        oldest == IF v < r.first THEN [newest EXCEPT !.first = v] ELSE newest
    IN IF r.state = "resolved"
       THEN [oldest EXCEPT !.state = "open", !.ruler = Nobody, !.reason = FALSE] ELSE oldest

\* Mutant: the citation follows whichever scan was recorded last.
SeenLastWritten(r, v) ==
    LET reopened == IF r.state # "resolved" THEN r
                    ELSE [r EXCEPT !.state = "open", !.ruler = Nobody, !.reason = FALSE]
    IN [reopened EXCEPT !.sightings = @ + 1, !.cites = v,
                        !.last = IF v > @ THEN v ELSE @, !.first = IF v < @ THEN v ELSE @]

\* The statement on a row that is there: a ruling stands, but for a resolution.
Seen(r, v) ==
    LET reopened == IF r.state # "resolved" THEN r
                    ELSE [r EXCEPT !.state = "open", !.ruler = Nobody, !.reason = FALSE]
    IN [reopened EXCEPT !.sightings = @ + 1,
                        !.cites = IF v > r.last THEN v ELSE @,
                        !.last = IF v > @ THEN v ELSE @, !.first = IF v < @ THEN v ELSE @]

\* Store.Record: an insert, or on the identity of the problem an update.
UpsertFinding(r, v) == IF r = None THEN New(v) ELSE Seen(r, v)

\* UpsertDetail: one row per field, where this scan is no older.
UpsertDetail(s, v) == IF v >= detail[s] THEN v ELSE detail[s]

\* SaveDetail: the fields of each sighting that had its fragment.
SaveDetails(v) ==
    detail' = [s \in Subjects |-> IF s \in Found(v) THEN UpsertDetail(s, v) ELSE detail[s]]

\* Record: the sightings of one artifact, together or not at all; nobody
\* records an artifact again.
Record(v) ==
    /\ v \notin scanned
    /\ scanned' = scanned \cup {v}
    /\ row' = [s \in Subjects |->
                 IF s \in Found(v) THEN UpsertFinding(row[s], v) ELSE row[s]]
    /\ SaveDetails(v)
    /\ skipped' = skipped \cup {<<v, s>> : s \in Reports[v] \ fragments}
    /\ UNCHANGED <<fragments, job>>

-----------------------------------------------------------------------------
(* Rulings.                                                                *)

onWorkspace(p) == Seat[p] \in {"write", "admin"}

\* FindingByID, with its workspace.
ByID(s) == row[s] # None

\* Triage, Resolve and Dismiss: the last has to say why, the first cannot.
MayRule(r, to, why) ==
    /\ to \in {"triaged", "resolved", "dismissed"} \ {r.state}
    /\ to = "dismissed" => why
    /\ to = "triaged" => ~why

\* The domain's decide.
Ruled(r, p, to, why) == [r EXCEPT !.state = to, !.ruler = p, !.reason = why]

AskDecide(p, s, to, why) ==
    /\ job[p] = Idle /\ ByID(s)
    /\ MayRule(row[s], to, why)
    /\ job' = [job EXCEPT ![p] = [on |-> s, decides |-> TRUE, row |-> Ruled(row[s], p, to, why)]]
    /\ UNCHANGED <<fragments, row, detail, scanned, skipped>>

decideFinding(p) == onWorkspace(p) /\
    \E s \in Subjects, to \in States, why \in BOOLEAN : AskDecide(p, s, to, why)

\* The override keeps the whole of the claim it replaces.
Reassessed(r, p, to) ==
    [r EXCEPT !.claim = [by |-> p, severity |-> to], !.before = r.claim]

AskReassess(p, s, to) ==
    /\ job[p] = Idle /\ ByID(s)
    /\ job' = [job EXCEPT ![p] = [on |-> s, decides |-> FALSE, row |-> Reassessed(row[s], p, to)]]
    /\ UNCHANGED <<fragments, row, detail, scanned, skipped>>

reassessFinding(p) == onWorkspace(p) /\
    \E s \in Subjects, to \in Severities : AskReassess(p, s, to)

\* SaveFinding: the columns of a ruling and of an assessment, as they were
\* read but for the change; never those of a sighting.
Save(r, new) ==
    [r EXCEPT !.state = new.state, !.ruler = new.ruler, !.reason = new.reason,
              !.claim = new.claim, !.before = new.before]

Decide(p) ==
    /\ job[p] # Idle /\ job[p].decides
    /\ row' = [row EXCEPT ![job[p].on] = Save(@, job[p].row)]
    /\ job' = [job EXCEPT ![p] = Idle]
    /\ UNCHANGED <<fragments, detail, scanned, skipped>>

Reassess(p) ==
    /\ job[p] # Idle /\ ~job[p].decides
    /\ row' = [row EXCEPT ![job[p].on] = Save(@, job[p].row)]
    /\ job' = [job EXCEPT ![p] = Idle]
    /\ UNCHANGED <<fragments, detail, scanned, skipped>>

Next ==
    \/ \E s \in Subjects : FragmentStored(s)
    \/ \E v \in Scans : Record(v)
    \/ \E p \in People :
          \/ decideFinding(p) \/ reassessFinding(p)
          \/ Decide(p) \/ Reassess(p)

Spec == Init /\ [][Next]_vars

-----------------------------------------------------------------------------
\* In whatever order the scans are recorded, and whatever people write beside
\* them, a finding counts and cites what was seen of it: its newest sighting,
\* and the newest reading of its details.
CitesTheNewest == \A s \in Subjects : row[s] # None =>
    LET seen == {v \in scanned : s \in Reports[v] /\ <<v, s>> \notin skipped} IN
    /\ row[s].sightings = Cardinality(seen)
    /\ \A v \in seen : row[s].first <= v /\ v <= row[s].cites
    /\ {row[s].first, row[s].cites} \subseteq seen
    /\ row[s].last = row[s].cites /\ detail[s] = row[s].cites

\* One rule is written twice, in Go and in SQL: whatever row there is, and
\* whichever scan comes next, the statement makes of it what the domain does.
UpsertIsSeen == \A s \in Subjects, v \in Scans : row[s] # None =>
    UpsertFinding(row[s], v) = DomainSeen(row[s], v)

\* "a human's ruling is about the problem, not about the run that noticed it":
\* a scan moves nothing but a finding that was resolved, and no assessment.
KeepsRulings == \A s \in Subjects : scanned' # scanned /\ row[s] # None =>
    /\ row[s].state \in {"triaged", "dismissed"} =>
         <<row'[s].state, row'[s].ruler, row'[s].reason>> =
         <<row[s].state, row[s].ruler, row[s].reason>>
    /\ row'[s].claim = row[s].claim /\ row'[s].before = row[s].before
RescansKeepRulings == [][KeepsRulings]_vars

\* "splitting them is what stops a triage racing a scan into a lost update":
\* a finding a scan has reopened is resolved again by a ruling, and by nothing
\* else that somebody does to it.
OnlyARulingResolves == [][\A s \in Subjects :
    row[s] # None /\ row[s].state # "resolved" /\ row'[s].state = "resolved" =>
        \E p \in People : job[p] # Idle /\ job[p].decides /\ job'[p] = Idle]_vars

\* Superseded: an override never deletes what it overrode.
OverridesAreKept == [][\A s \in Subjects :
    row[s] # None /\ row'[s].claim # row[s].claim => row'[s].before = row[s].claim]_vars

\* "the lookup is expected to hit": what an earlier pass observed is not
\* skipped because the graph has not heard of it yet.
NothingIsSkipped == skipped = {}
=============================================================================
