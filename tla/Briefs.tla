------------------------------- MODULE Briefs -------------------------------
(***************************************************************************)
(* The working brief of one investigation, the questions and the other     *)
(* pieces of work it links, and the handoffs frozen from it, reviewed and  *)
(* shared by a handle.                                                     *)
(*                                                                         *)
(* A brief is one row and five tables of links.  A save is a transaction   *)
(* that takes the row first and then replaces the links it sees; what it   *)
(* has not committed nobody else sees.  Freezing is a transaction too, but *)
(* each of its statements reads what is committed when the statement runs. *)
(* Texts, pages of lists, comments and the events written beside the rows  *)
(* are left out: the number of a draft stands for its texts.               *)
(***************************************************************************)
EXTENDS Naturals, Sequences, FiniteSets, TLC

CONSTANTS
    Observations, Questions, Clusters, Connections, Events, Relationships,
    Ends,          \* Ends[r]: the two events a relationship is between
    Drafts,        \* Drafts[n]: what the nth draft of the brief links
    People,        \* one request of each at a time
    MaxEdits,      \* edits of the pieces of work and of the sources
    MaxSnapshots, MaxDecisions

Linkable == Questions \cup Clusters \cup Connections \cup Events
Pieces == Linkable \cup Relationships
Nobody == "nobody"

\* A draft links what a brief may link, what is of one kind is of no other,
\* and somebody is not nobody.
ASSUME BriefAssumption ==
    /\ Drafts \in Seq(SUBSET (Linkable \cup Observations))
    /\ Linkable \cap (Relationships \cup Observations) = {}
    /\ (Questions \cup Clusters) \cap (Connections \cup Events) = {}
    /\ Questions \cap Clusters = {} /\ Connections \cap Events = {}
    /\ Nobody \notin People

VARIABLES
    restricted,    \* observations of a source that is restricted now
    state,         \* state[q]: of a question
    cites,         \* cites[w]: the observations a piece of work cites
    edits,
    row,           \* the draft the brief's row was written from, or 0
    links,         \* what the brief's link tables hold
    lock,          \* whose transaction has the brief's row
    job,           \* job[p]: the request p is in
    snapshots,     \* the handoffs, in the order they were frozen
    unfrozen       \* what the briefs linked that were not frozen (history)

vars == <<restricted, state, cites, edits, row, links, lock, job, snapshots, unfrozen>>
work == <<restricted, state, cites, edits>>
brief == <<row, links, lock>>

Idle == [step |-> "idle"]
States == {"open", "answered", "dismissed", "deferred"}
ReviewStates == {"pending", "approved", "changes_requested"}

TypeOK ==
    /\ restricted \subseteq Observations
    /\ state \in [Questions -> States]
    /\ cites \in [Pieces -> SUBSET Observations]
    /\ row \in 0 .. Len(Drafts) /\ links \subseteq Linkable \cup Observations
    /\ lock \in People \cup {Nobody}
    /\ \A p \in People : job[p].step \in
          {"idle", "save", "replace", "commit", "questions", "clusters", "connections",
           "events", "relationships", "create", "decide"}
    /\ \A i \in DOMAIN snapshots :
          /\ snapshots[i].review \in ReviewStates
          /\ DOMAIN snapshots[i].copies \subseteq Pieces

Init ==
    /\ restricted = {}
    /\ state = [q \in Questions |-> "open"]
    /\ cites = [w \in Pieces |-> Observations]
    /\ edits = 0
    /\ row = 0 /\ links = {} /\ lock = Nobody
    /\ job = [p \in People |-> Idle]
    /\ snapshots = <<>> /\ unfrozen = {}

Goes(p, to) == job' = [job EXCEPT ![p] = to]

-----------------------------------------------------------------------------
(* The pieces of work, each edited in a transaction of its own, and the    *)
(* sources, whose sensitivity a person sets.                               *)

Edits == edits < MaxEdits /\ edits' = edits + 1

SaveQuestion(q, s) == state' = [state EXCEPT ![q] = s]
ReplaceQuestionObservations(q, os) == cites' = [cites EXCEPT ![q] = os]
EditQuestion(q, s, os) ==
    /\ Edits
    /\ SaveQuestion(q, s) /\ ReplaceQuestionObservations(q, os)
    /\ UNCHANGED <<restricted, row, links, lock, job, snapshots, unfrozen>>

\* validateClusterFields: a cluster, unlike a question, has an observation.
Clusterable(os) == os # {}
ReplaceClusterObservations(k, os) == cites' = [cites EXCEPT ![k] = os]
EditCluster(k, os) ==
    /\ Edits /\ Clusterable(os)
    /\ ReplaceClusterObservations(k, os)
    /\ UNCHANGED <<restricted, state, row, links, lock, job, snapshots, unfrozen>>

EditConnection(c, os) ==
    /\ Edits
    /\ cites' = [cites EXCEPT ![c] = os]
    /\ UNCHANGED <<restricted, state, row, links, lock, job, snapshots, unfrozen>>

EditEvent(e, os) ==
    /\ Edits
    /\ cites' = [cites EXCEPT ![e] = os]
    /\ UNCHANGED <<restricted, state, row, links, lock, job, snapshots, unfrozen>>

EditRelationship(r, os) ==
    /\ Edits
    /\ cites' = [cites EXCEPT ![r] = os]
    /\ UNCHANGED <<restricted, state, row, links, lock, job, snapshots, unfrozen>>

SetSensitivity(os) ==
    /\ Edits
    /\ restricted' = os
    /\ UNCHANGED <<state, cites, row, links, lock, job, snapshots, unfrozen>>

-----------------------------------------------------------------------------
(* Saving the brief.                                                       *)

\* SaveWithEventsAndClusters: whether there is a brief is read before the
\* transaction.
AskSave(p, n) ==
    /\ job[p] = Idle
    /\ Goes(p, [step |-> "save", draft |-> n, edit |-> row # 0, drops |-> {}, adds |-> {}])
    /\ UNCHANGED <<work, brief, snapshots, unfrozen>>

\* What a statement that replaces links of a kind sees, and puts there.
Replacing(j, kind) == [j EXCEPT !.drops = @ \cup (links \cap kind),
                                !.adds = @ \cup (Drafts[j.draft] \cap kind)]
ReplaceObservations(j) == Replacing(j, Observations)
ReplaceClusters(j) == Replacing(j, Clusters)
ReplaceQuestions(j) == Replacing(j, Questions)
ReplaceConnections(j) == Replacing(j, Connections)
ReplaceEvents(j) == Replacing(j, Events)
ReplaceLinks(j) ==
    ReplaceEvents(ReplaceConnections(ReplaceQuestions(ReplaceClusters(ReplaceObservations(j)))))

\* Save waits for the row; Create waits for whoever is creating it, and is
\* refused when there is one: a workspace has one brief.
SaveRow(p) == job[p].edit
CreateRow(p) == ~job[p].edit /\ row = 0
TakeRow(p) ==
    /\ job[p].step = "save" /\ lock = Nobody
    /\ IF SaveRow(p) \/ CreateRow(p)
       THEN lock' = p /\ Goes(p, [job[p] EXCEPT !.step = "replace"])
       ELSE UNCHANGED lock /\ Goes(p, Idle)
    /\ UNCHANGED <<work, row, links, snapshots, unfrozen>>

Replace(p) ==
    /\ job[p].step = "replace"
    /\ Goes(p, [ReplaceLinks(job[p]) EXCEPT !.step = "commit"])
    /\ UNCHANGED <<work, brief, snapshots, unfrozen>>

CommitSave(p) ==
    /\ job[p].step = "commit" /\ lock \in {p, Nobody}
    /\ row' = job[p].draft
    /\ links' = (links \ job[p].drops) \cup job[p].adds
    /\ lock' = Nobody
    /\ Goes(p, Idle)
    /\ UNCHANGED <<work, snapshots, unfrozen>>

-----------------------------------------------------------------------------
(* Freezing it.                                                            *)

\* The brief and its links are one statement's.
ByWorkspace == [row |-> row, links |-> links]
AskFreeze(p) ==
    /\ job[p] = Idle /\ row # 0 /\ Len(snapshots) < MaxSnapshots
    /\ Goes(p, [step |-> "questions", brief |-> ByWorkspace, states |-> {},
                copies |-> [w \in {} |-> {}], found |-> links \cap Observations])
    /\ UNCHANGED <<work, brief, snapshots, unfrozen>>

\* What a statement copies; found is all that was read (history).
Copies(j, ws) == [w \in DOMAIN j.copies \cup ws |->
                    IF w \in ws THEN cites[w] ELSE j.copies[w]]
Copied(j, ws) == [j EXCEPT !.copies = Copies(j, ws),
                           !.found = @ \cup UNION {cites[w] : w \in ws}]

QuestionSnapshots(p) ==
    /\ job[p].step = "questions"
    /\ LET qs == job[p].brief.links \cap Questions IN
       Goes(p, [Copied(job[p], qs) EXCEPT !.step = "clusters",
                                          !.states = {state[q] : q \in qs}])
    /\ UNCHANGED <<work, brief, snapshots, unfrozen>>

ClusterSnapshots(p) ==
    /\ job[p].step = "clusters"
    /\ Goes(p, [Copied(job[p], job[p].brief.links \cap Clusters) EXCEPT !.step = "connections"])
    /\ UNCHANGED <<work, brief, snapshots, unfrozen>>

\* With the records at both ends of it, and what they cite.
ConnectionSnapshots(p) ==
    /\ job[p].step = "connections"
    /\ Goes(p, [Copied(job[p], job[p].brief.links \cap Connections) EXCEPT !.step = "events"])
    /\ UNCHANGED <<work, brief, snapshots, unfrozen>>

\* With the records that took part in it and the place it was at.
EventSnapshots(p) ==
    /\ job[p].step = "events"
    /\ Goes(p, [Copied(job[p], job[p].brief.links \cap Events) EXCEPT !.step = "relationships"])
    /\ UNCHANGED <<work, brief, snapshots, unfrozen>>

\* Those between two events the brief links.
EventRelationshipSnapshots(p) ==
    /\ job[p].step = "relationships"
    /\ LET between == {r \in Relationships : Ends[r] \subseteq job[p].brief.links} IN
       Goes(p, [Copied(job[p], between) EXCEPT !.step = "create"])
    /\ UNCHANGED <<work, brief, snapshots, unfrozen>>

\* NewSnapshot: everything linked was found, and a cluster has observations.
Complete(j) ==
    /\ j.brief.links \cap Linkable \subseteq DOMAIN j.copies
    /\ \A k \in j.brief.links \cap Clusters : j.copies[k] # {}

\* What is inserted for the copies of a kind: all there is to cite of each.
Rows(j, kind) == [w \in DOMAIN j.copies \cap kind |-> j.copies[w]]
ReplaceSnapshotObservations(j) == j.brief.links \cap Observations
ReplaceSnapshotClusters(j) == Rows(j, Clusters)
ReplaceSnapshotQuestions(j) == Rows(j, Questions)
ReplaceSnapshotConnections(j) == Rows(j, Connections)
ReplaceSnapshotEvents(j) == Rows(j, Events)
ReplaceSnapshotEventRelationships(j) == Rows(j, Relationships)

\* The rows of every kind: no piece of work is of two.
Together(tables) ==
    [w \in UNION {DOMAIN rows : rows \in tables} |->
       (CHOOSE rows \in tables : w \in DOMAIN rows)[w]]

\* brief.snapshot_question has a list of states.
FrozenStates == {"open", "answered", "dismissed"}

Snapshot(j) ==
    [row |-> j.brief.row, seen |-> ReplaceSnapshotObservations(j),
     copies |-> Together({ReplaceSnapshotClusters(j), ReplaceSnapshotQuestions(j),
                          ReplaceSnapshotConnections(j), ReplaceSnapshotEvents(j),
                          ReplaceSnapshotEventRelationships(j)}),
     found |-> j.found, review |-> "pending", reviewer |-> Nobody,
     taken |-> 0, decisions |-> <<>>, share |-> "none"]

CreateSnapshot(p) ==
    /\ job[p].step = "create"
    /\ Goes(p, Idle)
    /\ IF Complete(job[p]) /\ job[p].states \subseteq FrozenStates
       THEN snapshots' = Append(snapshots, Snapshot(job[p])) /\ UNCHANGED unfrozen
       ELSE unfrozen' = unfrozen \cup {job[p].brief.links} /\ UNCHANGED snapshots
    /\ UNCHANGED <<work, brief>>

-----------------------------------------------------------------------------
(* What a handoff goes through.                                            *)

\* EnsureSnapshotReview: on conflict, nothing.
EnsureSnapshotReview(s) == s

Assigned(s, p) == [s EXCEPT !.reviewer = p]
AssignSnapshotReviewer(i, p) ==
    /\ snapshots' = [snapshots EXCEPT ![i] = Assigned(EnsureSnapshotReview(@), p)]
    /\ UNCHANGED <<work, brief, job, unfrozen>>

\* A decision has its time before its transaction: the number of those taken
\* for this handoff stands for the clock.
AskDecide(p, i, to) ==
    /\ job[p] = Idle /\ snapshots[i].taken < MaxDecisions
    /\ snapshots' = [snapshots EXCEPT ![i].taken = @ + 1]
    /\ Goes(p, [step |-> "decide", on |-> i, to |-> to, at |-> snapshots[i].taken + 1])
    /\ UNCHANGED <<work, brief, unfrozen>>

\* Mutant: a review that has been decided stays as it is.
AddReviewDecisionOnce(s, to, at) ==
    [s EXCEPT !.decisions = Append(@, [to |-> to, at |-> at]),
              !.review = IF @ = "pending" THEN to ELSE @]

\* The decision is kept, and the review's state is that of whoever comes last,
\* whenever it was taken.
AddReviewDecision(s, to, at) ==
    [s EXCEPT !.decisions = Append(@, [to |-> to, at |-> at]), !.review = to]
Decide(p) ==
    /\ job[p].step = "decide"
    /\ snapshots' = [snapshots EXCEPT ![job[p].on] =
                       AddReviewDecision(EnsureSnapshotReview(@), job[p].to, job[p].at)]
    /\ Goes(p, Idle)
    /\ UNCHANGED <<work, brief, unfrozen>>

\* SnapshotReview lists them by their times: the first of the list.
Newest(s) == CHOOSE k \in DOMAIN s.decisions :
                \A l \in DOMAIN s.decisions : s.decisions[l].at <= s.decisions[k].at

CreateSnapshotShare(i) ==
    /\ snapshots[i].share = "none"
    /\ snapshots' = [snapshots EXCEPT ![i].share = "live"]
    /\ UNCHANGED <<work, brief, job, unfrozen>>

RevokeSnapshotShare(i) ==
    /\ snapshots[i].share = "live"
    /\ snapshots' = [snapshots EXCEPT ![i].share = "revoked"]
    /\ UNCHANGED <<work, brief, job, unfrozen>>

Next ==
    \/ \E os \in SUBSET Observations :
          \/ \E q \in Questions, s \in States : EditQuestion(q, s, os)
          \/ \E k \in Clusters : EditCluster(k, os)
          \/ \E c \in Connections : EditConnection(c, os)
          \/ \E e \in Events : EditEvent(e, os)
          \/ \E r \in Relationships : EditRelationship(r, os)
          \/ SetSensitivity(os)
    \/ \E p \in People :
          \/ \E n \in DOMAIN Drafts : AskSave(p, n)
          \/ TakeRow(p) \/ Replace(p) \/ CommitSave(p)
          \/ AskFreeze(p) \/ QuestionSnapshots(p) \/ ClusterSnapshots(p)
          \/ ConnectionSnapshots(p) \/ EventSnapshots(p) \/ EventRelationshipSnapshots(p)
          \/ CreateSnapshot(p) \/ Decide(p)
          \/ \E i \in DOMAIN snapshots :
                \/ AssignSnapshotReviewer(i, p)
                \/ \E to \in ReviewStates \ {"pending"} : AskDecide(p, i, to)
    \/ \E i \in DOMAIN snapshots : CreateSnapshotShare(i) \/ RevokeSnapshotShare(i)

Spec == Init /\ [][Next]_vars

-----------------------------------------------------------------------------
(* What somebody is shown whose seat stops short of restricted sources.    *)

\* Over what the links cite today.
WorkingCites == (links \cap Observations) \cup UNION {cites[w] : w \in links \cap Linkable}
ByWorkspaceVisible == row # 0 /\ WorkingCites \cap restricted = {}

\* Over the copies.
SnapshotCites(s) == s.seen \cup UNION {s.copies[w] : w \in DOMAIN s.copies}
SnapshotByIDVisible(s) == SnapshotCites(s) \cap restricted = {}

\* By a handle that is not revoked.
SnapshotByHandoffShareVisible(s) == s.share = "live" /\ SnapshotByIDVisible(s)

\* What the answer carries: the observations, and those of each copy.
Response(s) == s.seen \cup {o \in Observations : \E w \in DOMAIN s.copies : o \in s.copies[w]}

\* However saves and edits fall between each other, the brief that is stored
\* is one person's: the links that came with the text.
BriefIsOneSave == row # 0 => links = Drafts[row]

\* A handoff is of one save of the brief, whole, whatever was saved while it
\* was frozen, and what it relates are events it has.
HandoffIsOneSave(s) ==
    /\ s.row \in DOMAIN Drafts
    /\ s.seen \cup (DOMAIN s.copies \cap Linkable) = Drafts[s.row]
    /\ \A r \in DOMAIN s.copies \cap Relationships : Ends[r] \subseteq Drafts[s.row]

\* It carries what was read when it was frozen, and the restrictions of today on
\* that alone are what hides it: an edit since neither brings it back nor takes
\* it away.
HandoffIsAsFrozen(s) ==
    /\ Response(s) = s.found
    /\ SnapshotByIDVisible(s) <=> s.found \cap restricted = {}

HandoffsAreTrue == \A i \in DOMAIN snapshots :
    HandoffIsOneSave(snapshots[i]) /\ HandoffIsAsFrozen(snapshots[i])

\* A review is pending until somebody decides.  It is then what the newest
\* decision says, unless one that was taken before the newest was kept after it:
\* two that decide at once may leave the list and the state apart.
ReviewFollowsDecisions == \A i \in DOMAIN snapshots :
    LET s == snapshots[i] IN
    IF s.decisions = <<>> THEN s.review = "pending"
    ELSE /\ \E k \in DOMAIN s.decisions : s.review = s.decisions[k].to
         /\ Newest(s) = Len(s.decisions) => s.review = s.decisions[Newest(s)].to

\* "Freeze copies the current authored brief into an append-only handoff": a
\* brief that could be saved can be frozen.
WhatIsSavedCanBeFrozen == unfrozen = {}
=============================================================================
