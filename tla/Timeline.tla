------------------------------ MODULE Timeline ------------------------------
(***************************************************************************)
(* Connections between research records, the timeline's events and their   *)
(* accounts, and the clusters and relationships events are gathered into,  *)
(* with the revisions that keep what they said.                            *)
(*                                                                         *)
(* An edit reads the row outside its transaction, which then writes the    *)
(* row, what it cites and a revision; the row's lock makes the transaction *)
(* one action.  A review reads inside the transaction, but locks nothing   *)
(* until it writes, so what it read may be old as well.  What surrounds a  *)
(* record is read in many statements, between which a source may be        *)
(* restricted and a record cite something else.  Rows and requests are     *)
(* numbered; times, titles, kinds and rationales are left out.             *)
(***************************************************************************)
EXTENDS Naturals, FiniteSets, Sequences
LOCAL INSTANCE SequencesExt

CONSTANTS
    Records,       \* a set of numbers
    Cites,         \* Cites[r]: the observations record r cites at first
    Observations,
    Requests,
    Seat,          \* Seat[p]: "write" or "read"
    MaxConnections, MaxEvents, MaxGroups, MaxEdits,
    neighborhoodLimit    \* rows read of a record; 50 in the code

VARIABLES
    connection, event,       \* the rows, numbered as they were created
    said,                    \* the newest revisions: said.connection, said.event
    account,                 \* the events accounts were given of, in order
    reconciled,              \* reconciled[e]: what was decided of e's accounts
    group,                   \* clusters of events and relationships of two
    job,                     \* job[p]: what p has read and will write
    edits,
    cites,                   \* cites[r]: the observations record r cites
    restricted,              \* the observations of restricted sources
    look                     \* what one reader has of a neighborhood so far

vars == <<connection, event, said, account, reconciled, group, job, edits, cites, restricted, look>>

Polarities == {"supporting", "opposing"}
GroupStates == {"proposed", "accepted", "rejected"}
Decisions == {"unresolved", "retain_event", "prefer_account"}
Idle == [step |-> "idle"]
Undecided == [decision |-> "none", account |-> 0]

Connection == [from : Records, to : Records, obs : SUBSET Observations,
               against : SUBSET Observations, n : Nat]
Event == [parts : SUBSET Records, obs : SUBSET Observations, n : Nat]
Group == [kind : {"cluster", "relationship"}, events : Seq(Nat), state : GroupStates,
          by : {"nobody"} \cup Requests]

TypeOK ==
    /\ connection \in Seq(Connection) /\ event \in Seq(Event)
    /\ said.connection \in Seq(Connection) /\ said.event \in Seq(Event)
    /\ account \in Seq(1 .. MaxEvents)
    /\ \A e \in DOMAIN reconciled : /\ e \in DOMAIN event
                                    /\ reconciled[e].decision \in Decisions \cup {"none"}
                                    /\ reconciled[e].account \in 0 .. Len(account)
    /\ group \in Seq(Group)
    /\ edits \in 0 .. MaxEdits
    /\ cites \in [Records -> SUBSET Observations] /\ restricted \subseteq Observations

Init ==
    /\ connection = <<>> /\ event = <<>>
    /\ said = [connection |-> <<>>, event |-> <<>>]
    /\ account = <<>> /\ reconciled = <<>> /\ group = <<>>
    /\ job = [p \in Requests |-> Idle]
    /\ edits = 0
    /\ cites = Cites /\ restricted \in SUBSET Observations /\ look = Idle

onWorkspace(p) == Seat[p] = "write"
Begin(p, j) == job[p] = Idle /\ job' = [job EXCEPT ![p] = j]
End(p) == job' = [job EXCEPT ![p] = Idle]
Counted == edits < MaxEdits /\ edits' = edits + 1
rest == <<account, reconciled, group>>
rows == <<connection, event, said, account, reconciled, group>>
reads == <<cites, restricted, look>>

-----------------------------------------------------------------------------
(* What may be read.                                                       *)

Hidden(os) == os \cap restricted # {}
Visible(cleared, os) == cleared \/ ~Hidden(os)

\* Of a connection or event: what it cites and what each of its records does.
RowVisible(cleared, obs, rs) ==
    cleared \/ (~Hidden(obs) /\ \A r \in rs : ~Hidden(cites[r]))

\* What a reader may say of the time since it asked (history): the records that
\* were hidden at some moment, those that were not at some moment, and the
\* observations that were restricted all along.
Noted(now, cs, os) ==
    LET hidden == {r \in Records : cs[r] \cap os # {}} IN
    IF now.step = "idle" THEN now
    ELSE [now EXCEPT !.dark = @ \cup hidden, !.lit = @ \cup (Records \ hidden),
                     !.always = @ \cap os]

SetSensitivity(os) ==
    /\ Counted /\ restricted' = os
    /\ look' = Noted(look, cites, os)
    /\ UNCHANGED <<rows, job, cites>>

\* A record is edited, see Research: of that, what it cites matters here.
EditRecord(r, os) ==
    /\ Counted /\ cites' = [cites EXCEPT ![r] = os]
    /\ look' = Noted(look, cites', restricted)
    /\ UNCHANGED <<rows, job, restricted>>

-----------------------------------------------------------------------------
(* readResearchRecordNeighborhood: what surrounds one research record.     *)
(* The connections and events of a record are read by it, those of the     *)
(* records they lead to as well when the depth is two; as many records are *)
(* kept as the caller asked for, and a connection or event is kept when    *)
(* all of its records were.  The records are read last, each by itself.    *)
(* Rows are numbered, and are read the newest first.  The filters by kind  *)
(* and the citations are left out.                                         *)

\* The newest rows first, no more than the limit.
Newest(ids) ==
    LET all == Reverse(SetToSortSeq(ids, <)) IN
    SubSeq(all, 1, IF Len(all) < neighborhoodLimit THEN Len(all) ELSE neighborhoodLimit)

EndsOf(c) == {c.from, c.to}
ConnectionsForRecord(cleared, r) ==
    LET found == Newest({i \in DOMAIN connection :
                   LET c == connection[i] IN
                   r \in EndsOf(c) /\ RowVisible(cleared, c.obs \cup c.against, EndsOf(c))}) IN
    [n \in DOMAIN found |->
       LET c == connection[found[n]] IN
       [kind |-> "connection", id |-> found[n], records |-> EndsOf(c), obs |-> c.obs \cup c.against]]
EventsForRecord(cleared, r) ==
    LET found == Newest({i \in DOMAIN event :
                   r \in event[i].parts /\ RowVisible(cleared, event[i].obs, event[i].parts)}) IN
    [n \in DOMAIN found |->
       LET e == event[found[n]] IN
       [kind |-> "event", id |-> found[n], records |-> e.parts, obs |-> e.obs]]

\* addRecord, over the records of one row in order: a record is kept while
\* there is room, and known when it was kept before.
addRecords(at, rs) ==
    FoldLeft(LAMBDA acc, r : IF r \in ToSet(acc.ids) THEN acc
                             ELSE IF Len(acc.ids) < at.limit + 1 THEN [acc EXCEPT !.ids = Append(@, r)]
                             ELSE [acc EXCEPT !.truncated = TRUE],
             at, rs)

\* Mutant: a row is kept when one of its records was.
KeptInPart(at, rs) == \E r \in rs : r \in ToSet(at.ids)

Kept(at, rs) == rs \subseteq ToSet(at.ids)

\* The records of a row that is kept are the next to look around, once each.
queueNext(at, rs) ==
    FoldLeft(LAMBDA acc, r : IF r = at.ids[1] \/ r \in ToSet(acc.next) THEN acc
                             ELSE [acc EXCEPT !.next = Append(@, r)],
             at, rs)

\* One row: its records are kept as far as there is room, and the row, as it
\* was first read, if all are.
addRow(at, row) ==
    LET rs == SetToSortSeq(row.records, <)
        kept == addRecords(at, rs)
        known == \E other \in at.rows : other.kind = row.kind /\ other.id = row.id
    IN
    IF ~Kept(kept, row.records) THEN kept
    ELSE queueNext([kept EXCEPT !.rows = IF known THEN @ ELSE @ \cup {row}], rs)

addRows(at, found) == FoldLeft(addRow, at, found)

\* The record at the center is read first; who may not see it sees nothing.
readResearchRecordNeighborhood(cleared, anchor, depth, limit) ==
    /\ look.step \in {"idle", "told"} /\ Visible(cleared, cites[anchor])
    /\ look' = Noted([step |-> "connections", cleared |-> cleared, depth |-> depth, limit |-> limit,
                      frontier |-> <<anchor>>, next |-> <<>>, ids |-> <<anchor>>, rows |-> {},
                      truncated |-> FALSE, told |-> {anchor},
                      dark |-> {}, lit |-> {}, always |-> restricted], cites, restricted)
    /\ UNCHANGED <<rows, job, edits, cites, restricted>>

\* One record of the frontier: its connections are read, and then its events.
LookAtConnections ==
    /\ look.step = "connections"
    /\ look' = [addRows(look, ConnectionsForRecord(look.cleared, Head(look.frontier)))
                 EXCEPT !.step = "events"]
    /\ UNCHANGED <<rows, job, edits, cites, restricted>>

\* The last of the frontier: to the next one, unless this was as deep as asked.
Deeper(at) ==
    IF Tail(at.frontier) # <<>> THEN [at EXCEPT !.step = "connections", !.frontier = Tail(@)]
    ELSE IF at.depth > 1 /\ at.next # <<>>
         THEN [at EXCEPT !.step = "connections", !.frontier = at.next, !.next = <<>>, !.depth = @ - 1]
         ELSE [at EXCEPT !.step = "records", !.frontier = Tail(at.ids), !.next = <<>>]
LookAtEvents ==
    /\ look.step = "events"
    /\ look' = Deeper(addRows(look, EventsForRecord(look.cleared, Head(look.frontier))))
    /\ UNCHANGED <<rows, job, edits, cites, restricted>>

\* ByID, of each record that was kept: one that is not found is passed over.
LookAtRecord ==
    /\ look.step = "records"
    /\ look' = IF look.frontier = <<>> THEN [look EXCEPT !.step = "told"]
               ELSE LET r == Head(look.frontier) IN
                    [look EXCEPT !.frontier = Tail(@),
                                 !.told = IF Visible(look.cleared, cites[r]) THEN @ \cup {r} ELSE @]
    /\ UNCHANGED <<rows, job, edits, cites, restricted>>

-----------------------------------------------------------------------------
(* Connections.                                                            *)

ValidEnds(from, to) == from # to
\* overlap: an observation supports or opposes.
ValidEvidence(obs, against) == obs \cap against = {}
NewConnection(from, to, obs) ==
    [from |-> from, to |-> to, obs |-> obs, against |-> {}, n |-> 0]
EditedConnection(held, obs, against) == [held EXCEPT !.obs = obs, !.against = against, !.n = edits']

Create(p, from, to, obs) ==
    /\ ValidEnds(from, to) /\ Len(connection) < MaxConnections
    /\ connection' = Append(connection, NewConnection(from, to, obs))
    /\ said' = [said EXCEPT !.connection = Append(@, NewConnection(from, to, obs))]
    /\ UNCHANGED <<event, rest, job, edits, reads>>
createResearchConnection(p, from, to, obs) == onWorkspace(p) /\ Create(p, from, to, obs)

Edit(p, c, obs, against) ==
    /\ ValidEvidence(obs, against) /\ Counted
    /\ Begin(p, [step |-> "connection", id |-> c,
                 next |-> EditedConnection(connection[c], obs, against)])
    /\ UNCHANGED <<connection, event, said, rest, reads>>
editResearchConnection(p, c, obs, against) == onWorkspace(p) /\ Edit(p, c, obs, against)

\* Save, ReplaceEvidence and CreateRevision.
SaveConnection(row, next) == [row EXCEPT !.n = next.n]
ReplaceEvidence(row, next) == [row EXCEPT !.obs = next.obs, !.against = next.against]

ConnectionRevision(held, next) == next
CommitConnection(p) ==
    LET c == job[p].id
        next == job[p].next IN
    /\ job[p].step = "connection" /\ End(p)
    /\ connection' = [connection EXCEPT ![c] = ReplaceEvidence(SaveConnection(@, next), next)]
    /\ said' = [said EXCEPT !.connection[c] = ConnectionRevision(connection[c], next)]
    /\ UNCHANGED <<event, rest, edits, reads>>

-----------------------------------------------------------------------------
(* Events.                                                                 *)

NewEvent(parts, obs) == [parts |-> parts, obs |-> obs, n |-> 0]
EditedEvent(parts, obs) == [parts |-> parts, obs |-> obs, n |-> edits']
validateRecords(parts) == parts \subseteq Records

CreateEvent(p, parts, obs) ==
    /\ validateRecords(parts) /\ Len(event) < MaxEvents
    /\ event' = Append(event, NewEvent(parts, obs))
    /\ said' = [said EXCEPT !.event = Append(@, NewEvent(parts, obs))]
    /\ reconciled' = Append(reconciled, Undecided)
    /\ UNCHANGED <<connection, account, group, job, edits, reads>>
createTimelineEvent(p, parts, obs) == onWorkspace(p) /\ CreateEvent(p, parts, obs)

EditEvent(p, e, parts, obs) ==
    /\ validateRecords(parts) /\ Counted
    /\ Begin(p, [step |-> "event", id |-> e, next |-> EditedEvent(parts, obs)])
    /\ UNCHANGED <<connection, event, said, rest, reads>>
editTimelineEvent(p, e, parts, obs) == onWorkspace(p) /\ EditEvent(p, e, parts, obs)

SaveEvent(row, next) == [row EXCEPT !.n = next.n]
ReplaceObservations(row, obs) == [row EXCEPT !.obs = obs]
ReplaceParticipantLinks(row, parts) == [row EXCEPT !.parts = parts]
EventRevision(next) == next
CommitEvent(p) ==
    LET e == job[p].id
        next == job[p].next IN
    /\ job[p].step = "event" /\ End(p)
    /\ event' = [event EXCEPT ![e] =
          ReplaceParticipantLinks(ReplaceObservations(SaveEvent(@, next), next.obs), next.parts)]
    /\ said' = [said EXCEPT !.event[e] = EventRevision(next)]
    /\ UNCHANGED <<connection, rest, edits, reads>>

-----------------------------------------------------------------------------
(* What others report of an event, and which report is preferred.          *)

CreateAccount(p, e) ==
    /\ Len(account) < MaxGroups
    /\ account' = Append(account, e)
    /\ UNCHANGED <<connection, event, said, reconciled, group, job, edits, reads>>
createTimelineEventAccount(p, e) == onWorkspace(p) /\ CreateAccount(p, e)

\* An account is preferred, one of this event's; nothing else names one.
NewReconciliation(e, decision, a) ==
    IF decision = "prefer_account" THEN a \in DOMAIN account /\ account[a] = e ELSE a = 0
CreateReconciliation(e, decision, a) ==
    reconciled' = [reconciled EXCEPT ![e] = [decision |-> decision, account |-> a]]
Reconcile(p, e, decision, a) ==
    /\ NewReconciliation(e, decision, a)
    /\ CreateReconciliation(e, decision, a)
    /\ UNCHANGED <<connection, event, said, account, group, job, edits, reads>>
reconcileTimelineEventAccounts(p, e, decision, a) ==
    onWorkspace(p) /\ Reconcile(p, e, decision, a)

-----------------------------------------------------------------------------
(* Clusters of events, and relationships between two.                      *)

validateCluster(es) == Len(es) >= 2 /\ Cardinality({es[i] : i \in DOMAIN es}) = Len(es)
NewCluster(es) == [kind |-> "cluster", events |-> es, state |-> "proposed", by |-> "nobody"]
NewRelationship(from, to) ==
    [kind |-> "relationship", events |-> <<from, to>>, state |-> "proposed", by |-> "nobody"]
\* An edit leaves the state and who reviewed it.
EditedCluster(held, es) == [held EXCEPT !.events = es]
Reviewed(held, p, state) ==
    [held EXCEPT !.state = state, !.by = IF state = "proposed" THEN "nobody" ELSE p]

CreateGroup(g) ==
    /\ Len(group) < MaxGroups /\ group' = Append(group, g)
    /\ UNCHANGED <<connection, event, said, account, reconciled, job, edits, reads>>
createTimelineEventCluster(p, es) ==
    onWorkspace(p) /\ validateCluster(es) /\ CreateGroup(NewCluster(es))
createTimelineEventRelationship(p, from, to) ==
    onWorkspace(p) /\ from # to /\ CreateGroup(NewRelationship(from, to))

AskGroup(p, g, next) ==
    /\ Counted /\ Begin(p, [step |-> "group", id |-> g, next |-> next])
    /\ UNCHANGED <<connection, event, said, rest, reads>>
editTimelineEventCluster(p, g, es) ==
    /\ onWorkspace(p) /\ group[g].kind = "cluster" /\ validateCluster(es)
    /\ AskGroup(p, g, EditedCluster(group[g], es))
reviewTimelineEventCluster(p, g, state) ==
    onWorkspace(p) /\ group[g].kind = "cluster" /\ AskGroup(p, g, Reviewed(group[g], p, state))
reviewTimelineEventRelationship(p, g, state) ==
    onWorkspace(p) /\ group[g].kind = "relationship" /\ AskGroup(p, g, Reviewed(group[g], p, state))

\* SaveCluster writes the row and the events, SaveRelationship the review.
SaveCluster(row, next) == next
SaveRelationship(row, next) == [row EXCEPT !.state = next.state, !.by = next.by]
CommitGroup(p) ==
    LET next == job[p].next IN
    /\ job[p].step = "group" /\ End(p)
    /\ group' = [group EXCEPT ![job[p].id] =
          IF next.kind = "cluster" THEN SaveCluster(@, next) ELSE SaveRelationship(@, next)]
    /\ UNCHANGED <<connection, event, said, account, reconciled, edits, reads>>

Looks ==
    \/ LookAtConnections \/ LookAtEvents \/ LookAtRecord
    \/ \E cleared \in BOOLEAN, r \in Records, depth \in 1 .. 2, limit \in 1 .. neighborhoodLimit :
          readResearchRecordNeighborhood(cleared, r, depth, limit)
Restricts == \E os \in SUBSET Observations :
    SetSensitivity(os) \/ \E r \in Records : EditRecord(r, os)

Writes == \E p \in Requests :
    \/ \E r, s \in Records, os \in SUBSET Observations : createResearchConnection(p, r, s, os)
    \/ \E c \in DOMAIN connection, os, against \in SUBSET Observations :
          editResearchConnection(p, c, os, against)
    \/ \E rs \in SUBSET Records, os \in SUBSET Observations :
          \/ createTimelineEvent(p, rs, os)
          \/ \E e \in DOMAIN event : editTimelineEvent(p, e, rs, os)
    \/ \E e, f \in DOMAIN event :
          \/ createTimelineEventAccount(p, e)
          \/ createTimelineEventRelationship(p, e, f)
          \/ createTimelineEventCluster(p, <<e, f>>)
          \/ \E g \in DOMAIN group : editTimelineEventCluster(p, g, <<e, f>>)
          \/ \E decision \in Decisions, a \in 0 .. Len(account) :
                reconcileTimelineEventAccounts(p, e, decision, a)
    \/ \E g \in DOMAIN group, state \in GroupStates :
          reviewTimelineEventCluster(p, g, state) \/ reviewTimelineEventRelationship(p, g, state)
    \/ CommitConnection(p) \/ CommitEvent(p) \/ CommitGroup(p)

Next == Writes \/ Looks \/ Restricts

Spec == Init /\ [][Next]_vars

-----------------------------------------------------------------------------
\* However the edits of one row interleave, its newest revision is the row as
\* it stands, with all it cites and names.
HistoryEndsAtTheRow == said.connection = connection /\ said.event = event

\* What is told of a neighborhood hangs together as far as the sources stand
\* still: a record that a connection or an event leads to is told with it, unless
\* it was hidden at some moment since it was asked for, and then from those who
\* are not cleared alone; what they are told was open at some such moment; and no
\* more records are told than were asked for.
NeighborsAreTold ==
    look.step = "told" =>
        /\ \A row \in look.rows :
              /\ row.records \subseteq look.told \/ ~look.cleared
              /\ row.records \subseteq look.told \cup look.dark
        /\ look.cleared \/
              /\ look.told \subseteq look.lit
              /\ \A row \in look.rows : row.records \subseteq look.lit /\ row.obs \cap look.always = {}
        /\ Cardinality(look.told) <= look.limit + 1
=============================================================================
