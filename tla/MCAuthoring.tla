----------------------------- MODULE MCAuthoring -----------------------------
(***************************************************************************)
(* What people write of what they found: briefs and their handoffs,        *)
(* reports and notes, the relations of evidence, the records of research   *)
(* and their identity, the timeline, and what a provider proposes; and     *)
(* what brings it in: the watches of sources, the candidates for sources,  *)
(* and the inbox of what is left to compare.  They have no table in common *)
(* that the modules do not each have themselves, so a behaviour follows    *)
(* one of them and the others stand still.                                 *)
(***************************************************************************)
EXTENDS Briefs

CONSTANTS p1, p2, o1, q1, k1, c1, e1, e2, r1, r2, n1, p3

\* Of the watches, the intake and the inbox: see Watch, Intake and Alerts.
CONSTANTS Watchers, Pages, MaxTime, MaxDeaths,
          Candidates, Imports, Reviewers,
          OpenQuestions, OpenRecords, Evidence, MaySee, Readers, MaxChanges, MaxRefreshes

\* Of the report: see Reports.
CONSTANTS Issuers, Whose, SeatOf, Jotted, Moments, Toggled, MaxToggles, MaxRevisions

\* Of the assistance: see Assistance.
CONSTANTS Askers, SeatOfAsker, Selectable, Quotes, InCapture,
          MaxResults, MaxAttempts, MaxOperations, MaxReviews, MaxMoves

\* Of the comparison of evidence: see Review.
CONSTANTS Passages, SourceOf, Confidential, Groupings, Analysts, SeatOfAnalyst, Cleared,
          MaxLinks, MaxReads

\* Of the records and their identity, and of the timeline: see Research and Timeline.
CONSTANTS Subjects, Citable, CitedBy, Editors, SeatOfEditor, MaxCited, MaxAliases, MaxClaims, MaxAsked,
          Entries, EntryCites, Datable, Chroniclers, SeatOfChronicler, neighborhoodLimit,
          MaxConnections, MaxEvents, MaxGroups, MaxEdited

\* Who runs a watch or rules on a candidate is somebody, and what is compared
\* is two observations.
ASSUME WatchersAssumption == "nobody" \notin Watchers /\ MaxTime \in Nat /\ MaxDeaths \in Nat
ASSUME ReviewersAssumption == "none" \notin Reviewers
ASSUME EvidenceAssumption ==
    /\ \A t \in OpenQuestions \cup OpenRecords : IsFiniteSet(Evidence[t])
    /\ \A p \in Readers : \A pair \in MaySee[p] : \E a, b \in pair : a # b /\ pair = {a, b}
\* Time begins.
ASSUME ReportAssumption ==
    /\ 1 \in DOMAIN Moments
    /\ MaxToggles \in Nat /\ MaxRevisions \in Nat
\* Observations are finitely many, and are told apart by numbers.
ASSUME ReviewAssumption ==
    Passages \in SUBSET Nat /\ IsFiniteSet(Passages) /\ MaxReads \in Nat
\* A record is created with what may be cited.
ASSUME ResearchAssumption ==
    /\ \A r \in Subjects : CitedBy[r] \subseteq Citable
    /\ MaxClaims \in Nat /\ MaxAsked \in Nat
ASSUME TimelineAssumption ==
    /\ "nobody" \notin Chroniclers /\ MaxEvents \in Nat /\ MaxEdited \in Nat
    /\ EntryCites \in [Entries -> SUBSET Datable]

Two == {p1, p2}
Three == Two \cup {p3}
FewDrafts == <<{q1}, {k1, c1, e1, e2, o1}>>
BothEnds == r1 :> {e1, e2}
Writers == [p \in Two |-> "write"]
Admins == [p \in Two |-> "admin"]
EveWrites == [p \in {"eve"} |-> "write"]
OneAndTwo == <<"a", "b", "b">>
SecondCites == [r \in {r1, r2} |-> IF r = r1 THEN {} ELSE {o1}]
ThirdHides == <<{}, {}, {"hidden"}>>
Symmetry == Permutations(Two)

\* A question that cites one observation and a record that cites it and
\* another; of two people one may see their comparison.
OneOrBoth == [t \in {"q", "t"} |-> IF t = "q" THEN {1} ELSE {1, 2}]
ToOne == [p \in {"ana", "bob"} |-> IF p = "ana" THEN {{1, 2}} ELSE {}]

\* Two moments: an asset, an invocation and a dismissal more in the second.
Moment(a, d, i) ==
    [rules |-> {"r"}, superseded |-> {}, assets |-> a, findings |-> {"a", "b"},
     dismissed |-> d, checks |-> {"c"}, covered |-> {<<"a", "c">>},
     invocations |-> i, refused |-> {}]
TwoMoments == <<Moment({"a"}, {}, {"i"}), Moment({"a", "b"}, {"a"}, {"i", "j"})>>
OfAna == [p \in Two |-> "ana"]

VARIABLES
    part,
    now, notes, erased, opened, on, count, version, revisions, acknowledged, inReport,
    recorded, relation, sourceLinks, cluster, share, reading, accesses, shown,
    record, revised, claim, inResearch, asked,
    connection, event, said, account, reconciled, group, inTimeline, edited,
    entryCites, guarded, look,
    external, allow, retained, hidden, told, results, runs, operations, proposals,
    reviews, attempts, withdrawn, inAssistance,
    hour, page, purged, captures, watch, notices, inWatch, deaths, wanted, stale, crossed,
    candidate, ruling, sources, stored,
    workable, comparison, inbox, refresh, outgoing, wants, mailed, seen, changes, refreshes,
    latest, raced

R == INSTANCE Reports WITH
       Requests <- Issuers, By <- Whose, Seat <- SeatOf, Notes <- Jotted, History <- Moments,
       job <- inReport

V == INSTANCE Review WITH
       Observations <- Passages, Restricted <- Confidential, Clusters <- Groupings,
       People <- Analysts, Seat <- SeatOfAnalyst, links <- sourceLinks

I == INSTANCE Research WITH
       Records <- Subjects, Observations <- Citable, Requests <- Editors, Seat <- SeatOfEditor,
       Cites <- CitedBy, MaxEdits <- MaxAsked, job <- inResearch, edits <- asked

T == INSTANCE Timeline WITH
       Records <- Entries, Cites <- EntryCites, Observations <- Datable,
       Requests <- Chroniclers, Seat <- SeatOfChronicler, MaxEdits <- MaxEdited,
       job <- inTimeline, edits <- edited, cites <- entryCites, restricted <- guarded

A == INSTANCE Assistance WITH
       Requests <- Askers, Seat <- SeatOfAsker, Observations <- Selectable, MaxEdits <- MaxMoves,
       restricted <- hidden, connection <- told, edits <- withdrawn, job <- inAssistance

W == INSTANCE Watch WITH Requests <- Watchers, now <- hour, alerts <- notices, job <- inWatch

N == INSTANCE Intake WITH Reviews <- Reviewers

G == INSTANCE Alerts WITH
       Questions <- OpenQuestions, Records <- OpenRecords, Cites <- Evidence, People <- Readers,
       Shown <- MaySee, open <- workable, relation <- comparison, rows <- inbox

reporting == <<now, notes, erased, opened, on, count, version, revisions, acknowledged, inReport>>
reviewing == <<recorded, relation, sourceLinks, cluster, share, reading, accesses, shown>>
identifying == <<record, revised, claim, inResearch, asked>>
dating == <<connection, event, said, account, reconciled, group, inTimeline, edited,
            entryCites, guarded, look>>
proposing == <<external, allow, retained, hidden, told, results, runs, operations,
               proposals, reviews, attempts, withdrawn, inAssistance>>
watching == <<hour, page, purged, captures, watch, notices, inWatch, deaths, wanted, stale, crossed>>
admitting == <<candidate, ruling, sources, stored>>
alerting == <<workable, comparison, inbox, refresh, outgoing, wants, mailed, seen, changes, refreshes,
              latest, raced>>
bringing == <<watching, admitting, alerting>>
all == <<vars, reporting, reviewing, identifying, dating, proposing, bringing, part>>

AuthoringInit ==
    /\ part \in {"briefs", "reports", "review", "research", "timeline", "assistance",
                "watch", "intake", "alerts"}
    /\ Init /\ R!Init /\ V!Init /\ I!Init /\ T!Init /\ A!Init /\ W!Init /\ N!Init /\ G!Init
    /\ page = CHOOSE first \in Pages : TRUE
    /\ part # "assistance" => ~external
    /\ part # "timeline" => guarded = {}

-----------------------------------------------------------------------------
(* What bounds each part, besides the constants.                           *)

\* Saves race each other, and so do decisions; a freeze is one request's.  Who
\* was asked to review a handoff is not read when it is decided.
OneFreezes ==
    /\ Cardinality({p \in People :
          job'[p].step \notin {"idle", "save", "replace", "commit", "decide"}}) <= 1
    /\ snapshots' # <<>> => \A p \in People : job'[p].step \in {"idle", "decide"}
    /\ \A i \in DOMAIN snapshots' : snapshots'[i].taken > 0 => snapshots'[i].reviewer = Nobody

\* Relations, source links and shares do not read one another.
OneTable ==
    /\ V!sharing' # V!sharing
         => relation = {} /\ sourceLinks = {} /\ \A c \in DOMAIN cluster : cluster[c] = {}
    /\ relation' # relation \/ sourceLinks' # sourceLinks => \A o \in Passages : share[o] = "none"
    /\ sourceLinks' # sourceLinks => relation = {} /\ \A c \in DOMAIN cluster : cluster[c] = {}
    /\ relation' # relation => sourceLinks = {}

\* Records are edited before anything is proposed of them; the claims race.
EditsFirst ==
    /\ asked' # asked => claim = <<>> /\ \A p \in Editors : inResearch[p] = I!Idle
    /\ (\E p \in Editors : inResearch'[p].step \in {"edit", "move"})
         => claim' = <<>> /\ \E p \in Editors : inResearch'[p] = I!Idle

\* Building rows and looking at them, editing one, and gathering events are
\* followed apart.  Which end of a connection is which tells a reader nothing,
\* the first two records are alike, and who is cleared is told whatever is
\* hidden meanwhile.
Building ==
    /\ Len(connection') + Len(event') <= 2 /\ edited' = 0
    /\ \A c \in DOMAIN connection' : connection'[c].from < connection'[c].to
    /\ \A e \in DOMAIN event' : Cardinality(event'[e].parts) > 1
    /\ Len(connection') + Len(event') = 2 =>
          /\ \A c \in DOMAIN connection' : connection'[c].obs = {}
          /\ \A e \in DOMAIN event' : event'[e].obs = {}
    /\ group' = <<>> /\ account' = <<>>
Still ==
    /\ group = <<>> /\ account = <<>> /\ \A p \in Chroniclers : inTimeline[p] = T!Idle
    /\ look.step # "told"
Looking ==
    /\ edited' <= 1
    /\ look.step = "idle" =>
          /\ look' # look /\ look'.ids[1] # 2
          /\ look'.depth = 2 \/ look'.limit = 1
    /\ edited' # edited => ~look.cleared /\ <<entryCites, guarded>>' # <<entryCites, guarded>>
Editing == Len(connection') + Len(event') = 1 /\ group' = <<>> /\ account' = <<>> /\ guarded = {}
Gathering ==
    /\ guarded = {} /\ connection' = <<>> /\ Len(group') + Len(account') <= 1
    /\ \A e \in DOMAIN event' : event'[e] = [parts |-> {}, obs |-> {}, n |-> 0]
    /\ \A p \in Chroniclers : inTimeline'[p].step \in {"idle", "group"}

\* Results over evidence, and proposals out of one capture.
Past(steps) == {p \in Askers : inAssistance'[p].step \notin steps}
OverEvidence ==
    /\ operations' = <<>> /\ retained'
    /\ \A p \in Past({"idle"}) :
          inAssistance'[p].step # "review" /\ inAssistance'[p].kind \in A!Kinds
OverCapture ==
    /\ results' = <<>> /\ told' = Selectable /\ hidden' = {}
    /\ \A p \in Past({"idle", "review"}) : inAssistance'[p].kind = "extraction"

\* Of three requests on a watch one configures it, and the others may as well;
\* the page stays as it is until it has been captured.
Watching ==
    /\ inWatch'[p3].step \in {"idle", "configuring", "done", "lost"}
    /\ page' # page => captures # <<>>

-----------------------------------------------------------------------------
AuthoringNext ==
    \/ /\ part = "briefs" /\ Next /\ OneFreezes
       /\ UNCHANGED <<reporting, reviewing, identifying, dating, proposing, bringing, part>>
    \/ /\ part = "reports" /\ R!Next
       /\ UNCHANGED <<vars, reviewing, identifying, dating, proposing, bringing, part>>
    \/ /\ part = "review" /\ V!Next /\ OneTable
       /\ UNCHANGED <<vars, reporting, identifying, dating, proposing, bringing, part>>
    \/ /\ part = "research" /\ I!Next /\ EditsFirst
       /\ UNCHANGED <<vars, reporting, reviewing, dating, proposing, bringing, part>>
    \/ /\ part = "timeline"
       /\ \/ look = T!Idle /\ T!Writes /\ (Building \/ Editing \/ Gathering)
          \/ Still /\ (T!Looks \/ T!Restricts) /\ Looking
       /\ UNCHANGED <<vars, reporting, reviewing, identifying, proposing, bringing, part>>
    \/ /\ part = "assistance" /\ A!Next /\ (OverEvidence \/ OverCapture)
       /\ UNCHANGED <<vars, reporting, reviewing, identifying, dating, bringing, part>>
    \/ /\ \/ part = "watch" /\ W!Next /\ Watching /\ UNCHANGED <<admitting, alerting>>
          \/ part = "intake" /\ N!Next /\ UNCHANGED <<watching, alerting>>
          \/ part = "alerts" /\ G!Next /\ UNCHANGED <<watching, admitting>>
       /\ UNCHANGED <<vars, reporting, reviewing, identifying, dating, proposing, part>>

AuthoringSpec == AuthoringInit /\ [][AuthoringNext]_all

-----------------------------------------------------------------------------
\* Each invariant holds the type invariant of its parts.

\* Of the briefs: what is stored is of one save and so is a handoff frozen of
\* it, which is shown as it was frozen, and its review is what the newest
\* decision says unless two were made at once.
BriefsAreTrue ==
    part = "briefs" => TypeOK /\ BriefIsOneSave /\ HandoffsAreTrue /\ ReviewFollowsDecisions

\* Of the reports: a revision is of one moment and agrees with itself, the
\* revisions are counted and numbered whoever issues at the same time, and what
\* somebody was told is done - a toggle, the erasure of a note - is not undone
\* by a request that had read the row before.
ReportsAreTrue ==
    part = "reports" =>
        /\ R!TypeOK /\ R!DocumentReconciles /\ R!RevisionsAreCounted
        /\ R!NoToggleIsLost /\ R!ErasedStaysErased

\* Of the evidence and the records: what is called covered was compared, in
\* whatever order, and no citation is shown unrecorded; whatever raced, one
\* standing resolution of a record; and the newest revision of a row of the
\* timeline is the row.
RecordsAreWhole ==
    /\ part = "review" => V!TypeOK /\ V!CoveredIsCompared /\ V!ShownIsRecorded
    /\ part = "research" => I!TypeOK /\ I!OneStandingClaim
    /\ part = "timeline" => T!TypeOK /\ T!HistoryEndsAtTheRow

\* Of the graphs that are drawn of them: a cycle is told where one can be
\* followed, and a neighborhood hangs together as far as the sources stand still.
GraphsAreDrawn ==
    /\ part = "review" => V!CyclesAreTold
    /\ part = "timeline" => T!NeighborsAreTold

\* Of the assistance: answers rest on the evidence that was given and that the
\* reader may see, and a proposal is what its last review made of it.
AnswersAreGrounded ==
    part = "assistance" => A!TypeOK /\ A!ShownIsGrounded /\ A!HeardIsKept /\ A!LastReviewIsTheState

\* Of the watches: leases keep the workers apart and configurations stand, and a
\* capture that a watch has kept is told of and no needless twin of another.
WatchIsKept ==
    part = "watch" =>
        W!TypeOK /\ W!OneLeaseAtATime /\ W!SwitchIsKept /\ W!ChangesAreTold /\ W!TwinsWereRaced

\* Of what comes in: a candidate makes one source or none; the inbox is what the
\* last refresh has found, a mail is of an alert there is, and who is told of no
\* gap has none.
InboxIsTrue ==
    /\ part = "intake" => N!TypeOK /\ N!OneSourceEach
    /\ part = "alerts" => G!TypeOK /\ G!InboxIsTheLastRefresh /\ G!MailIsOfAnAlert /\ G!NoGapIsCompared
=============================================================================
