------------------------------ MODULE Research ------------------------------
(***************************************************************************)
(* Research records and the resolutions that say two records are the same  *)
(* subject: proposing, accepting, rejecting and reversing them, one alias  *)
(* at a time (research.record_resolution) or several                       *)
(* (record_resolution_set), beside the edits of the records themselves.    *)
(*                                                                         *)
(* Every request reads what it needs outside its transaction and then      *)
(* writes the rows it prepared, whole.  The transaction locks the record   *)
(* first, so its statements are one action; so is the reading of the two   *)
(* or more records a decision is about.  Names, kinds, places, rationales  *)
(* and pages of lists are left out.                                        *)
(***************************************************************************)
EXTENDS Naturals, Sequences, FiniteSets

CONSTANTS
    Records, Observations,
    Cites,         \* Cites[r]: the observations record r is created with
    Requests,      \* the requests that may be under way at once
    Seat,          \* Seat[p]: "write" or "read", of whom p is made for
    MaxCited,      \* 12 in the code
    MaxAliases,    \* 3 in the code
    MaxClaims, MaxEdits

VARIABLES
    record,        \* record[r]: research.record and record_observation
    revised,       \* revised[r]: its newest research.record_revision
    claim,         \* the resolutions, single and sets, as they were created
    job,           \* job[p]: what p has read and will write
    edits          \* how many edits, archivals and restorations were asked for

vars == <<record, revised, claim, job, edits>>

States == {"proposed", "accepted", "rejected", "reversed"}
Active == {"proposed", "accepted"}
Idle == [step |-> "idle"]

Record == [obs : SUBSET Observations, archived : BOOLEAN]
Claim == [set : BOOLEAN, aliases : SUBSET Records, canonical : Records,
          state : States, added : SUBSET Observations]

TypeOK ==
    /\ record \in [Records -> Record] /\ revised \in [Records -> Record]
    /\ claim \in Seq(Claim) /\ Len(claim) <= MaxClaims
    /\ \A p \in Requests : job[p] = Idle \/
          job[p].step \in {"edit", "move", "propose", "judge", "merge", "reject"}
    /\ edits \in 0 .. MaxEdits

Init ==
    /\ record = [r \in Records |-> [obs |-> Cites[r], archived |-> FALSE]]
    /\ revised = record
    /\ claim = <<>>
    /\ job = [p \in Requests |-> Idle]
    /\ edits = 0

onWorkspace(p) == Seat[p] = "write"
Begin(p, j) == job[p] = Idle /\ job' = [job EXCEPT ![p] = j]
End(p) == job' = [job EXCEPT ![p] = Idle]
Refuse(p) == End(p) /\ UNCHANGED <<record, revised, claim, edits>>

-----------------------------------------------------------------------------
(* The rows.                                                               *)

\* clean: no more than MaxCited observations.
Clean(os) == Cardinality(os) <= MaxCited
\* An archived record is not edited.
Edited(rec, os) == [rec EXCEPT !.obs = os]
Editable(rec, os) == ~rec.archived /\ Clean(os)
Archive(rec) == [rec EXCEPT !.archived = TRUE]
Restore(rec) == [rec EXCEPT !.archived = FALSE]
NewRevision(rec) == rec

\* Save writes all of the row but its citations, ReplaceObservations those.
Save(row, rec) == [row EXCEPT !.archived = rec.archived]
ReplaceObservations(row, os) == [row EXCEPT !.obs = os]

ActiveByAlias(r) == {i \in DOMAIN claim : /\ ~claim[i].set /\ claim[i].state \in Active
                                          /\ r \in claim[i].aliases}
ActiveSetByRecord(r) == {i \in DOMAIN claim : /\ claim[i].set /\ claim[i].state \in Active
                                              /\ r \in claim[i].aliases \cup {claim[i].canonical}}
activeRecordResolution(r) == ActiveByAlias(r) \cup ActiveSetByRecord(r)

\* Mutant: no index says what may be active beside what.
AnyMayBeActive(i, c) == TRUE

\* record_resolution_active_alias and record_resolution_set_active_record.
MayBeActive(i, c) ==
    IF c.set THEN \A r \in c.aliases \cup {c.canonical} : ActiveSetByRecord(r) \subseteq {i}
             ELSE \A r \in c.aliases : ActiveByAlias(r) \subseteq {i}
\* Create and CreateSet insert, Save and SaveSet overwrite, whatever the state
\* was; the index refuses either.
Unique(i, c) == c.state \in Active => MayBeActive(i, c)
Create(c) == claim' = Append(claim, c)
SaveClaim(i, c) == claim' = [claim EXCEPT ![i] = c]

-----------------------------------------------------------------------------
(* Records.                                                                *)

AskEdit(p, r, os) ==
    /\ edits < MaxEdits /\ edits' = edits + 1
    /\ Editable(record[r], os)
    /\ Begin(p, [step |-> "edit", rec |-> r, next |-> Edited(record[r], os)])
    /\ UNCHANGED <<record, revised, claim>>
editResearchRecord(p, r, os) == onWorkspace(p) /\ AskEdit(p, r, os)

CommitEdit(p) ==
    LET r == job[p].rec
        next == job[p].next IN
    /\ job[p].step = "edit" /\ End(p)
    /\ record' = [record EXCEPT ![r] = ReplaceObservations(Save(@, next), next.obs)]
    /\ revised' = [revised EXCEPT ![r] = NewRevision(next)]
    /\ UNCHANGED <<claim, edits>>

AskMove(p, r, next) ==
    /\ edits < MaxEdits /\ edits' = edits + 1
    /\ Begin(p, [step |-> "move", rec |-> r, next |-> next])
    /\ UNCHANGED <<record, revised, claim>>
archiveResearchRecord(p, r) == onWorkspace(p) /\ AskMove(p, r, Archive(record[r]))
restoreResearchRecord(p, r) == onWorkspace(p) /\ AskMove(p, r, Restore(record[r]))

\* transition: what the record cites is left alone, and the revision tells
\* what it cited when it was read.
Transition(p) ==
    LET r == job[p].rec
        next == job[p].next IN
    /\ job[p].step = "move" /\ End(p)
    /\ record' = [record EXCEPT ![r] = Save(@, next)]
    /\ revised' = [revised EXCEPT ![r] = NewRevision(next)]
    /\ UNCHANGED <<claim, edits>>

-----------------------------------------------------------------------------
(* Resolutions.                                                            *)

Difference(left, right) == left \ right
Proposal(set, aliases, c) ==
    [set |-> set, aliases |-> aliases, canonical |-> c, state |-> "proposed",
     added |-> Difference(UNION {record[a].obs : a \in aliases}, record[c].obs)]

\* Propose asks for the single resolutions only.
Propose(p, a, c) ==
    /\ a # c /\ Len(claim) < MaxClaims
    /\ ActiveByAlias(a) = {} /\ ActiveByAlias(c) = {}
    /\ Begin(p, [step |-> "propose", new |-> Proposal(FALSE, {a}, c)])
    /\ UNCHANGED <<record, revised, claim, edits>>
createRecordResolution(p, a, c) == onWorkspace(p) /\ Propose(p, a, c)

NewSet(as, c) == Cardinality(as) \in 1 .. MaxAliases /\ c \notin as
ProposeSet(p, as, c) ==
    /\ NewSet(as, c) /\ Len(claim) < MaxClaims
    /\ \A r \in as \cup {c} : activeRecordResolution(r) = {}
    /\ Clean(record[c].obs \cup Proposal(TRUE, as, c).added)
    /\ Begin(p, [step |-> "propose", new |-> Proposal(TRUE, as, c)])
    /\ UNCHANGED <<record, revised, claim, edits>>
createResearchResolutionSet(p, as, c) == onWorkspace(p) /\ ProposeSet(p, as, c)

CommitPropose(p) ==
    /\ job[p].step = "propose"
    /\ IF Unique(0, job[p].new) /\ Len(claim) < MaxClaims
       THEN Create(job[p].new) /\ End(p) /\ UNCHANGED <<record, revised, edits>>
       ELSE Refuse(p)

Accept(c, added) == [c EXCEPT !.state = "accepted", !.added = added]
Reject(c) == [c EXCEPT !.state = "rejected"]
Reverse(c) == [c EXCEPT !.state = "reversed"]

\* The resolution is read first, and what may be done with it judged by that.
ByID(p, i, what) ==
    /\ Begin(p, [step |-> "judge", id |-> i, held |-> claim[i], what |-> what])
    /\ UNCHANGED <<record, revised, claim, edits>>
reviewResearchResolution(p, i, what) == onWorkspace(p) /\ ~claim[i].set /\ ByID(p, i, what)
reviewResearchResolutionSet(p, i, what) == onWorkspace(p) /\ claim[i].set /\ ByID(p, i, what)
reverseResearchResolution(p, i) == onWorkspace(p) /\ ~claim[i].set /\ ByID(p, i, "reverse")
reverseResearchResolutionSet(p, i) == onWorkspace(p) /\ claim[i].set /\ ByID(p, i, "reverse")

Merge(p, os, next) ==
    LET c == job[p].held.canonical IN
    IF Editable(record[c], os)
    THEN /\ job' = [job EXCEPT ![p] = [step |-> "merge", id |-> job[p].id, new |-> next,
                                       rec |-> c, next |-> Edited(record[c], os)]]
         /\ UNCHANGED <<record, revised, claim, edits>>
    ELSE Refuse(p)

\* Review, of one alias or of several: what they cite beyond the canonical record.
Review(p) ==
    LET held == job[p].held
        canonical == record[held.canonical].obs
        added == Difference(UNION {record[a].obs : a \in held.aliases}, canonical) IN
    /\ job[p].step = "judge" /\ job[p].what = "accept"
    /\ IF held.state = "proposed" THEN Merge(p, canonical \cup added, Accept(held, added))
                                  ELSE Refuse(p)
Rejected(p) ==
    LET held == job[p].held IN
    /\ job[p].step = "judge" /\ job[p].what = "reject"
    /\ IF held.state = "proposed"
       THEN /\ job' = [job EXCEPT ![p] = [step |-> "reject", id |-> job[p].id, new |-> Reject(held)]]
            /\ UNCHANGED <<record, revised, claim, edits>>
       ELSE Refuse(p)
Reversed(p) ==
    LET held == job[p].held IN
    /\ job[p].step = "judge" /\ job[p].what = "reverse"
    /\ IF held.state = "accepted"
       THEN Merge(p, record[held.canonical].obs \ held.added, Reverse(held))
       ELSE Refuse(p)

\* The record, its revision and the resolution, or none of them.
CommitMerge(p) ==
    LET r == job[p].rec
        next == job[p].next IN
    /\ job[p].step = "merge"
    /\ IF Unique(job[p].id, job[p].new)
       THEN /\ record' = [record EXCEPT ![r] = ReplaceObservations(Save(@, next), next.obs)]
            /\ revised' = [revised EXCEPT ![r] = NewRevision(next)]
            /\ SaveClaim(job[p].id, job[p].new)
            /\ End(p) /\ UNCHANGED <<edits>>
       ELSE Refuse(p)
CommitReject(p) ==
    /\ job[p].step = "reject" /\ End(p)
    /\ SaveClaim(job[p].id, job[p].new)
    /\ UNCHANGED <<record, revised, edits>>

Next == \E p \in Requests :
    \/ \E r \in Records : \/ \E os \in SUBSET Observations : editResearchRecord(p, r, os)
                          \/ archiveResearchRecord(p, r) \/ restoreResearchRecord(p, r)
                          \/ \E a \in Records : createRecordResolution(p, a, r)
                          \/ \E as \in SUBSET Records : createResearchResolutionSet(p, as, r)
    \/ \E i \in DOMAIN claim :
          \/ \E what \in {"accept", "reject"} : \/ reviewResearchResolution(p, i, what)
                                                \/ reviewResearchResolutionSet(p, i, what)
          \/ reverseResearchResolution(p, i) \/ reverseResearchResolutionSet(p, i)
    \/ CommitEdit(p) \/ Transition(p) \/ CommitPropose(p)
    \/ Review(p) \/ Rejected(p) \/ Reversed(p) \/ CommitMerge(p) \/ CommitReject(p)

Spec == Init /\ [][Next]_vars

-----------------------------------------------------------------------------
\* Whatever was decided while something else was, and however old the reading
\* it was decided on, a record is the alias of one standing resolution at most
\* and a member of one standing set at most.
OneStandingClaim == \A r \in Records :
    /\ Cardinality(ActiveByAlias(r)) <= 1
    /\ Cardinality(ActiveSetByRecord(r)) <= 1
=============================================================================
