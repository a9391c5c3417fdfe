------------------------------ MODULE MCKnowing ------------------------------
(***************************************************************************)
(* What is known of a target: the graph that the assembler draws, the      *)
(* findings that scans report, and the scope that says what may be looked  *)
(* at; what the grid of coverage and the list of changes tell of the runs; *)
(* the targets themselves, the checks and mappings the runs are made with, *)
(* and the records of all that has happened.  They share no row that more  *)
(* than one of the modules writes, so a behaviour follows one of them and  *)
(* the others stand still.                                                 *)
(***************************************************************************)
EXTENDS Graph, Sequences, TLC

CONSTANTS i1, i2, s1, p1, p2, p3

\* Of the findings and the targets: see Findings and Targets.
CONSTANTS Problems, Passes, Rulers, SeatOfRuler, Matched,
          TargetsMade, TargetNames, RootsMade, Retargeting, LastOfTarget

\* Of the tools and their mappings: see Health and Mappings.
CONSTANTS ToolsMade, ToolNames, ToolIntensities, ToolRoles, Keepers, RoleOfKeeper,
          FieldsMapped, RolesMapped, RolesOfOne, Promoters, LastOfField

\* Of the engagements: see Engagements.
CONSTANTS SpacesMade, SpaceNames, Managers, RoleOfManager, MostAsked

\* A scan has its time and matches problems of its own; whoever rules is somebody.
ASSUME FindingsAssumption ==
    /\ IsFiniteSet(Passes) /\ Passes \subseteq Nat \ {0}
    /\ \A v \in Passes : Matched[v] \subseteq Problems
    /\ "nobody" \notin Rulers
\* A row that is stored has a version.
ASSUME TargetsAssumption == LastOfTarget \in Nat \ {0}
ASSUME MappingsAssumption == LastOfField \in Nat
\* The firm is not one of its engagements.
ASSUME EngagementsAssumption == MostAsked \in Nat /\ "org" \notin SpacesMade

Two == {p1, p2}
Three == Two \cup {p3}
Symmetry == Permutations(Two)
Spoken == i1 :> {1, 2, 3} @@ i2 :> {2, 4}
Cited == i1 :> {<<1, 2>>, <<2, 4>>, <<1, 1>>} @@ i2 :> {<<2, 3>>, <<2, 4>>}
OneSeat == p3 :> "write"
Sighted == <<{s1}, {s1, "t"}>>
SightedAt == {s1, "t"}
One == {p3}
ThreeAdmins == [p \in Three |-> "admin"]
Titles == [p \in {"owner", "admin"} |-> p]

VARIABLES
    part,
    known, row, detail, scanned, skipped, ruling,
    rules, gone, superseding, told,
    now, invocation, aboutSubjects, attributed, looked, asset, acts, acting, report,
    run, extracted, read, clock, marker,
    target, changing, announcements, was, lost,
    check, tool, flows, archived, saving, lastSaved, atOnce,
    mapping, consumes, standing, promoting, served, crossed,
    claim, made, derived, permits, judged, deciding, published, view,
    toolRow, live, clockwork, off, buried, unmapped, tooling, toolTold, health, versions, lasting,
    space, org, grant, sent, requesting, asked, heard, forms,
    moment, entries, lines, nextID, sweep, walk, written,
    cited, citedElsewhere, bytes, review, cleaning, sweeping, outcomes, status, rewritten

F == INSTANCE Findings WITH
       Subjects <- Problems, Scans <- Passes, People <- Rulers, Seat <- SeatOfRuler,
       Reports <- Matched, fragments <- known, job <- ruling

\* Patterns over two-bit addresses, and over hosts.
Block(base, bits) == [form |-> "range", base |-> base, bits |-> bits]
Address(base) == [form |-> "address", base |-> base]
Name(labels) == [form |-> "name", labels |-> labels]
Under(labels) == [form |-> "under", labels |-> labels]

Draft(pattern, polarity, gate, kinds, tools) ==
    [pattern |-> pattern, polarity |-> polarity, gate |-> gate, kinds |-> kinds, tools |-> tools]
SomeDrafts ==
    { Draft(Block(0, 1), "include", "spawn", {"ip", "cidr"}, {}),
      Draft(Address(1), "exclude", "spawn", {"ip"}, {}),
      Draft(Under(<<"a">>), "include", "spawn", {"host"}, {"passive"}),
      Draft(Name(<<"b", "a">>), "exclude", "spawn", {"host"}, {}),
      Draft(Name(<<"b">>), "include", "claim", {"repo"}, {}),
      Draft(Name(<<"b">>), "include", "spawn", {"repo"}, {}) }

Candidate(kind, value, intensity) == [kind |-> kind, value |-> value, intensity |-> intensity]
SomeCandidates ==
    {Candidate("ip", Address(a), "loud") : a \in 0 .. 2}
    \cup {Candidate("cidr", Block(0, b), "loud") : b \in 0 .. 2}
    \cup {Candidate("host", Name(l), i) : l \in {<<"a">>, <<"b", "a">>, <<"c", "a">>},
                                            i \in {"passive", "loud"}}
    \cup {Candidate("repo", Name(<<"b">>), "passive")}

C == INSTANCE Scope WITH
       Drafts <- SomeDrafts, Candidates <- SomeCandidates, Requests <- Two,
       Seat <- [p \in Two |-> "admin"], Width <- 2, MaxRules <- 3, job <- superseding

\* Two checks of an asset, one of them by a person; the second invocation is
\* against another target and says what it was not aimed at.
K == INSTANCE Coverage WITH
       Assets <- {"a1", "a2"}, Targets <- {"t1", "t2"}, Checks <- {"auto", "human"},
       Human <- {"human"}, Applies <- [c \in {"auto", "human"} |-> {"a1"}],
       Interval <- [c \in {"auto", "human"} |-> IF c = "auto" THEN 1 ELSE 0],
       Invocations <- {1, 2}, Filters <- {"t1"}, People <- {}, MaxTime <- 3,
       Of <- << [check |-> "auto", target |-> "t1", aims |-> {"a1", "a2"}, says |-> {"a1"}],
                [check |-> "auto", target |-> "t2", aims |-> {"a1"}, says |-> {}] >>,
       observed <- aboutSubjects, row <- asset, job <- acting

\* And with two people who read and judge the assets meanwhile.
J == INSTANCE Coverage WITH
       Assets <- {"a1", "a2"}, Targets <- {"t1"}, Checks <- {"auto", "human"},
       Human <- {"human"}, Applies <- [c \in {"auto", "human"} |-> {"a1"}],
       Interval <- [c \in {"auto", "human"} |-> 0],
       Invocations <- {1}, Filters <- {"t1", "all"}, People <- Two, MaxTime <- 2,
       Of <- << [check |-> "auto", target |-> "t1", aims |-> {"a1"}, says |-> {"a2"}] >>,
       observed <- aboutSubjects, row <- asset, job <- acting

Reading(subject, field, value, at) ==
    [subject |-> subject, field |-> field, value |-> value, at |-> at]
D == INSTANCE Changes WITH
       Runs <- {1, 2, 3}, Invocations <- 1 .. 5, Of <- <<1, 1, 2, 2, 3>>, Readers <- Two,
       Says <- << {Reading("h", "ip", 1, 1)},
                  {Reading("h", "ns", 1, 2), Reading("g", "ip", 1, 2)},
                  {Reading("h", "ip", 2, 3)},
                  {Reading("h", "ip", 1, 4), Reading("h", "ns", 1, 4)},
                  {Reading("g", "ip", 1, 5)} >>

T == INSTANCE Targets WITH
       TargetIDs <- TargetsMade, Names <- TargetNames, Roots <- RootsMade, Requests <- Retargeting,
       MaxVersion <- LastOfTarget, row <- target, request <- changing, told <- announcements

\* A tool that may follow itself, and one that may only come last.
Chain(tools, pairs) == [tool |-> tools, flows |-> pairs]
SomeChains ==
    { Chain(<<"a">>, {}), Chain(<<"a", "a">>, {<<1, 2>>}), Chain(<<"a", "a">>, {<<2, 1>>}),
      Chain(<<"a", "a", "b">>, {<<1, 2>>, <<2, 3>>}),
      Chain(<<"a", "a">>, {<<1, 2>>, <<2, 1>>}), Chain(<<"b", "a">>, {<<1, 2>>}) }
H == INSTANCE Chains WITH
       Tools <- {"a", "b"}, Drafts <- SomeChains, Saves <- Two, Archivers <- {p3},
       Starts <- {i1}, MaxVersion <- 2,
       Deals <- [a |-> [consumes |-> "x", produces |-> "x"],
                 b |-> [consumes |-> "x", produces |-> "none"]],
       retired <- archived, job <- saving, last <- lastSaved, met <- atOnce

M == INSTANCE Mappings WITH
       Fields <- FieldsMapped, Roles <- RolesMapped, Single <- RolesOfOne,
       Requests <- Promoters, MaxVersion <- LastOfField, request <- promoting

Act(decision, subject, tenant, namespace, moved) ==
    [decision |-> decision, subject |-> subject, tenant |-> tenant, namespace |-> namespace,
     detail |-> moved]
Drawn(act, at, cause) == [act |-> act, at |-> at, cause |-> cause]
TheActs ==
    << Act(TRUE, <<"brief", "b">>, "w", "brief", "snapshot"), Act(FALSE, <<"run", "r">>, "w", "run", ""),
       Act(TRUE, <<"org", "o">>, "", "org", ""), Act(TRUE, <<"account", "ana">>, "", "identity", ""),
       Act(TRUE, <<"brief", "b">>, "v", "brief", "snapshot") >>
By(by, of, facet, moved) == [by |-> by, of |-> of, facet |-> facet, detail |-> moved]

\* The ledger: two decisions of an instant in one engagement, one in another,
\* one of the firm and one of a person; here no line of the journal is kept.
L == INSTANCE Ledger WITH
       Acts <- TheActs, Sweepers <- {}, Readers <- {1}, Page <- 1, Batch <- 1, Retention <- 1,
       Script <- <<Drawn(1, 1, 0), Drawn(1, 1, 1), Drawn(5, 1, 0), Drawn(3, 2, 0), Drawn(4, 2, 0)>>,
       Filters <- { By("subject", <<"account", "ana">>, "", ""), By("workspace", "w", "brief", ""),
                    By("detail", "w", "", "snapshot"), By("org", "o", "", "") },
       MaxTime <- 2, MaxDepth <- 1, MaxRows <- 5, now <- moment

\* The journal: two works of a chain, the second too late for a pass of the
\* sweeper, and a decision.
W == INSTANCE Ledger WITH
       Acts <- TheActs, Sweepers <- {1}, Readers <- {1}, Page <- 1, Batch <- 1, Retention <- 1,
       Script <- <<Drawn(2, 1, 0), Drawn(2, 1, 1), Drawn(1, 2, 0)>>,
       Filters <- {By("log", "w", "", "")},
       MaxTime <- 3, MaxDepth <- 1, MaxRows <- 3, now <- moment

\* The cleanup: two reviews that two people save and discard beside a sweep; two
\* sweeps beside one person; and one that reads the status meanwhile.
V == INSTANCE Cleanup WITH
       Contents <- {1, 2}, Reviews <- {"r", "q"}, People <- Two, Sweeps <- {"v"}, Readers <- {},
       Limit <- 1, here <- cited, elsewhere <- citedElsewhere, disk <- bytes,
       request <- cleaning, sweep <- sweeping, items <- outcomes, page <- status
X == INSTANCE Cleanup WITH
       Contents <- {1}, Reviews <- {"r"}, People <- {p3}, Sweeps <- {"v", "w"}, Readers <- {},
       Limit <- 1, here <- cited, elsewhere <- citedElsewhere, disk <- bytes,
       request <- cleaning, sweep <- sweeping, items <- outcomes, page <- status
Z == INSTANCE Cleanup WITH
       Contents <- {1, 2}, Reviews <- {"r"}, People <- {p3}, Sweeps <- {"v"}, Readers <- {4},
       Limit <- 1, here <- cited, elsewhere <- citedElsewhere, disk <- bytes,
       request <- cleaning, sweep <- sweeping, items <- outcomes, page <- status

\* A model's claim that two people decide at once while an entity is judged; the
\* canvas, of any filter, of an entity whose two fragments are derived from each
\* other, one of them another root's too, while one claim is decided; and the
\* canvas of the two when a page has room for one.
Claim(of, on, claimant) == [root |-> of, fragment |-> on, claimant |-> claimant]
Q == INSTANCE Rulings WITH
       Entities <- {"e"}, Aims <- [e |-> "t"], Fragments <- {"f"}, Targetable <- {"f"},
       Claims <- {"c"}, Of <- [c |-> Claim("e", "f", "model")], Derivable <- {}, Intensities <- {},
       People <- Two, Seat <- [p \in Two |-> "admin"], Readers <- {1}, Filters <- {"proposed"}, Page <- 1,
       job <- deciding, told <- published
G == INSTANCE Rulings WITH
       Entities <- {"e", "h"}, Aims <- [e |-> "t", h |-> "none"], Fragments <- {"f", "g"},
       Targetable <- {"f"}, Claims <- {"c", "k", "m"},
       Of <- [c |-> Claim("e", "f", "model"), k |-> Claim("e", "g", "rule"),
              m |-> Claim("h", "f", "rule")],
       Derivable <- {<<"f", "g">>}, Intensities <- {"loud"},
       People <- {p3}, Seat <- [p \in {p3} |-> "admin"], Readers <- {1},
       Filters <- {"all", "accepted", "proposed"}, Page <- 2,
       job <- deciding, told <- published
A == INSTANCE Rulings WITH
       Entities <- {"e"}, Aims <- [e |-> "t"], Fragments <- {"f", "g"}, Targetable <- {"f"},
       Claims <- {"c", "k"}, Of <- [c |-> Claim("e", "f", "model"), k |-> Claim("e", "g", "rule")],
       Derivable <- {<<"f", "g">>}, Intensities <- {"loud"},
       People <- {p3}, Seat <- [p \in {p3} |-> "admin"], Readers <- {1},
       Filters <- {"all", "accepted", "proposed"}, Page <- 1,
       job <- deciding, told <- published

\* Three people who change one tool; the probes of tools while one of them is
\* added, changed and mapped; and the probes of what is not a tool.
O == INSTANCE Health WITH
       Tools <- ToolsMade, Names <- ToolNames, Intensities <- ToolIntensities, Roles <- ToolRoles,
       Checks <- {}, Events <- {}, Paths <- {}, People <- Keepers, Role <- RoleOfKeeper,
       Readers <- {}, Page <- 1,
       tool <- toolRow, check <- clockwork, job <- tooling, told <- toolTold, report <- health
N == INSTANCE Health WITH
       Tools <- {"t"}, Names <- {"n"}, Intensities <- {"loud"}, Roles <- {"subject", "signature"},
       Checks <- {}, Events <- {}, Paths <- {}, People <- {p3}, Role <- [p \in {p3} |-> "owner"],
       Readers <- {1}, Page <- 1,
       tool <- toolRow, check <- clockwork, job <- tooling, told <- toolTold, report <- health
Y == INSTANCE Health WITH
       Tools <- {}, Names <- {"n"}, Intensities <- {"loud"}, Roles <- {"subject", "signature"},
       Checks <- {"c"}, Events <- {"e"}, Paths <- {"x", "y"}, People <- {}, Role <- <<>>,
       Readers <- {1}, Page <- 1,
       tool <- toolRow, check <- clockwork, job <- tooling, told <- toolTold, report <- health

\* An owner, who reaches every engagement, and one who may open some.
B == INSTANCE Engagements WITH
       Spaces <- SpacesMade, Names <- SpaceNames, People <- Managers,
       Role <- RoleOfManager, MaxAsked <- MostAsked,
       job <- requesting, told <- heard, versions <- forms

ruled == <<known, row, detail, scanned, skipped, ruling>>
scoped == <<rules, gone, superseding, told>>
covered == <<now, invocation, aboutSubjects, attributed, looked, asset, acts, acting, report>>
compared == <<run, extracted, read, clock, marker>>
aimed == <<target, changing, announcements, was, lost>>
chained == <<check, tool, flows, archived, saving, lastSaved, atOnce>>
mapped == <<mapping, consumes, standing, promoting, served, crossed>>
decided == <<claim, made, derived, permits, judged, deciding, published, view>>
tended == <<toolRow, live, clockwork, off, buried, unmapped, tooling, toolTold, health, versions, lasting>>
worked == <<space, org, grant, sent, requesting, asked, heard, forms>>
recounted == <<moment, entries, lines, nextID, sweep, walk, written>>
swept == <<cited, citedElsewhere, bytes, review, cleaning, sweeping, outcomes, status, rewritten>>
all == <<vars, ruled, scoped, covered, compared, aimed, chained, mapped, recounted,
         swept, decided, tended, worked, part>>

Parts == {"graph", "findings", "scope", "coverage", "acts", "changes", "targets", "chains",
          "mappings", "ledger", "journal", "reviews", "sweeps", "status",
          "rulings", "canvas", "pages", "tools", "health", "machinery", "engagements"}
KnowingInit ==
    /\ part \in Parts
    /\ Init /\ F!Init /\ C!Init /\ D!Init /\ T!Init /\ H!Init /\ M!Init /\ B!Init /\ org.name = "m"
    /\ IF part = "acts" THEN J!Init ELSE K!Init
    /\ IF part = "journal" THEN W!Init ELSE L!Init
    /\ CASE part = "canvas" -> G!Init [] part = "pages" -> A!Init [] OTHER -> Q!Init
    /\ CASE part = "tools" -> O!Init [] part = "machinery" -> Y!Init [] OTHER -> N!Init
    /\ CASE part = "sweeps" -> X!Init /\ citedElsewhere = {}
         [] part = "status" -> Z!Init
         [] OTHER -> V!Init /\ (part = "reviews" \/ citedElsewhere = {})

KnowingNext ==
    \/ /\ part = "graph" /\ Next
       /\ UNCHANGED <<ruled, scoped, covered, compared, aimed, chained, mapped, recounted, swept, decided, tended, worked, part>>
    \/ /\ part = "findings" /\ F!Next
       /\ UNCHANGED <<vars, scoped, covered, compared, aimed, chained, mapped, recounted, swept, decided, tended, worked, part>>
    \/ /\ part = "scope" /\ C!Next
       /\ UNCHANGED <<vars, ruled, covered, compared, aimed, chained, mapped, recounted, swept, decided, tended, worked, part>>
    \/ /\ (part = "coverage" /\ K!Next) \/ (part = "acts" /\ J!Next)
       /\ UNCHANGED <<vars, ruled, scoped, compared, aimed, chained, mapped, recounted, swept, decided, tended, worked, part>>
    \/ /\ part = "changes" /\ D!Next
       /\ UNCHANGED <<vars, ruled, scoped, covered, aimed, chained, mapped, recounted, swept, decided, tended, worked, part>>
    \/ /\ part = "targets" /\ T!Next
       /\ UNCHANGED <<vars, ruled, scoped, covered, compared, chained, mapped, recounted, swept, decided, tended, worked, part>>
    \/ /\ part = "chains" /\ H!Next
       /\ UNCHANGED <<vars, ruled, scoped, covered, compared, aimed, mapped, recounted, swept, decided, tended, worked, part>>
    \/ /\ part = "mappings" /\ M!Next
       /\ UNCHANGED <<vars, ruled, scoped, covered, compared, aimed, chained, recounted, swept, decided, tended, worked, part>>
    \/ /\ (part = "ledger" /\ L!Next /\ lines' = <<>>) \/ (part = "journal" /\ W!Next)
       /\ UNCHANGED <<vars, ruled, scoped, covered, compared, aimed, chained, mapped, swept, decided, tended, worked, part>>
    \/ /\ \/ part = "reviews" /\ V!Next
          \/ part = "sweeps" /\ X!Next
          \/ part = "status" /\ Z!Next
       /\ UNCHANGED <<vars, ruled, scoped, covered, compared, aimed, chained, mapped, recounted,
                    decided, tended, worked, part>>
    \/ /\ \/ part = "rulings" /\ Q!Next
          \/ part = "canvas" /\ G!Next /\ deciding'[p3].step # "judge"
          \/ part = "pages" /\ A!Next /\ deciding'[p3].step # "judge"
       /\ UNCHANGED <<vars, ruled, scoped, covered, compared, aimed, chained, mapped, recounted,
                    swept, tended, worked, part>>
    \/ /\ (part = "tools" /\ O!Next) \/ (part = "health" /\ N!Next) \/ (part = "machinery" /\ Y!Next)
       /\ UNCHANGED <<vars, ruled, scoped, covered, compared, aimed, chained, mapped, recounted,
                    swept, decided, worked, part>>
    \/ /\ part = "engagements" /\ B!Next
       /\ UNCHANGED <<vars, ruled, scoped, covered, compared, aimed, chained, mapped, recounted,
                    swept, decided, tended, part>>

KnowingSpec == KnowingInit /\ [][KnowingNext]_all

-----------------------------------------------------------------------------
\* Each invariant holds the type invariant of its parts.

\* Of the graph: a delivery that was cut and made again leaves nothing out,
\* and whatever is delivered twice, a target has one root.
GraphIsWhole == part = "graph" => TypeOK /\ DrainedIsAssembled /\ TargetNamesItsRoot

\* Of the findings: scans recorded in any order, beside rulings by one who read
\* the row before, leave the row of the newest.
FindingsAreCurrent == part = "findings" => F!TypeOK /\ F!CitesTheNewest /\ F!UpsertIsSeen

\* Of what is told: the loop that decides what the runs may look at decides what the
\* rule says, and one of several people who supersede a rule has; whatever is read while
\* they go on, the grid credits only looks there were, a change is true of both runs,
\* what people made of an asset and have seen of it is what they did, and nothing that
\* is silent throughout a reading of the health is passed over; one of those who decide
\* a claim has, and what is drawn of the graph is true of it; and a chain is the graph
\* of one save, or of two that were writing at once, and a run walks it whole.
ToldIsSo ==
    /\ part = "scope" => C!TypeOK /\ C!DecideIsTheRule /\ C!OneSupersedes
    /\ part = "coverage" => K!TypeOK /\ K!CellsAreTrue
    /\ part = "acts" => J!TypeOK /\ J!CellsAreTrue /\ J!ActsAreKept
    /\ part = "changes" => D!TypeOK /\ D!ChangesAreTrue /\ D!MarkerIsAnAsking
    /\ part = "health" => N!TypeOK /\ N!EventsAreVersions /\ N!SilenceIsTold
    /\ part = "machinery" => Y!TypeOK /\ Y!SilenceIsTold
    /\ part = "rulings" => Q!TypeOK /\ Q!DecidedIsTold /\ Q!ToldStands
    /\ part = "canvas" => G!TypeOK /\ G!CanvasIsTrue /\ G!ToldStands
    /\ part = "pages" => A!TypeOK /\ A!CanvasIsTrue /\ A!ToldStands
    /\ part = "chains" => H!TypeOK /\ H!ChainIsOneSave /\ H!PlanIsWhole

\* Of what the runs are made with: the events of a target are its history and
\* live targets have names of their own, one version of a field is live, what is told
\* of a tool is its history; and the events of an engagement are its history too, and
\* open ones have names of their own.
CatalogIsKept ==
    /\ part = "targets" => T!TypeOK /\ T!EventsAreTheHistory /\ T!NamesAreTheirOwn
    /\ part = "mappings" => M!TypeOK /\ M!OneLiveVersion
    /\ part = "tools" => O!TypeOK /\ O!EventsAreVersions
    /\ part = "engagements" => B!TypeOK /\ B!EventsAreVersions /\ B!NamesAreTheirOwn

\* Of the records: what is read in pages while rows arrive and expire is whole,
\* of its own scope, kept once, and swept only when it is old; and a review of
\* the cleanup, like its status, tells what the sweeps have done.
LedgerIsWhole ==
    /\ part = "ledger" =>
          L!TypeOK /\ L!WalksAreWhole /\ L!FacetsCountThePage /\ L!ScopesAreApart /\ L!RecordsAreKept
    /\ part = "journal" =>
          W!TypeOK /\ W!WalksAreWhole /\ W!ScopesAreApart /\ W!RecordsAreKept /\ W!PassIsWhole
    /\ part = "reviews" => V!TypeOK /\ V!CompletedIsSwept
    /\ part = "sweeps" => X!TypeOK /\ X!CompletedIsSwept
    /\ part = "status" => Z!TypeOK /\ Z!CompletedIsSwept /\ Z!StatusIsTrue

\* What a person or a save has settled stands whatever another had read before:
\* a ruling outlives every scan but the one that reopens it, a target keeps its root,
\* and a retired mapping stays so, and so do a review that is done, a tool that is
\* archived, and an engagement until it is opened again.
StandingIsKept ==
    [][ /\ part = "findings" => F!KeepsRulings
        /\ part = "targets" => T!RootIsKept
        /\ part = "mappings" => M!HistoryIsKept
        /\ part = "reviews" => V!DoneStays
        /\ part = "sweeps" => X!DoneStays
        /\ part = "tools" => O!ArchivedStays
        /\ part = "engagements" => B!ClosedIsLeftAlone ]_all

\* Narrowing a scope, in whatever order its rules were made, permits nothing that
\* was not permitted.
NarrowingPermitsNothing == [][part = "scope" /\ C!Narrowing => C!PermitsNothingNew]_all
=============================================================================
