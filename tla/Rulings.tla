------------------------------- MODULE Rulings -------------------------------
(***************************************************************************)
(* What people make of the graph, and what they are shown of it.  A claim  *)
(* says that a fragment belongs to an entity; one that is proposed is      *)
(* decided once.  An entity is judged as often as people like, whoever     *)
(* writes last.  Both read the row first and write it in a statement of    *)
(* their own, and only then tell of it, which may fail.                    *)
(*                                                                         *)
(* The canvas of an entity is put together from one statement after the    *)
(* other while all of that goes on: the claims on it, up to a page; which  *)
(* of their fragments other roots have too; the derivations among them;    *)
(* and what the scope permits now.                                         *)
(***************************************************************************)
EXTENDS Naturals, FiniteSets, Sequences

CONSTANTS
    Entities,
    Aims,          \* Aims[e]: the target that e is the root of, or "none"
    Fragments,
    Targetable,    \* fragments of a kind that can be an asset
    Claims,
    Of,            \* Of[c]: the root, the fragment and the claimant of c, no two of one pair
    Derivable,     \* pairs <<from, to>> of fragments that runs may derive
    Intensities,
    People,        \* each decides or judges once
    Seat,          \* Seat[p]: the level of the seat of p in the workspace
    Readers,       \* each reads once
    Filters,       \* the states, or all, that a canvas is asked for
    Page

VARIABLES
    claim,         \* claim[c]: the row
    made,          \* the claims, as they were created
    derived,       \* the derivations
    permits,       \* permits[f]: the intensities at which the scope permits a run on f
    judged,        \* judged[e]: the judgement columns
    job,           \* job[p]: of a request
    told,          \* the events published
    view           \* view[d]: what a reader has read

rows == <<claim, made, derived, permits, judged>>
vars == <<rows, job, told, view>>

All == "all"
Nobody == "nobody"
Unmade == [state |-> "none", by |-> Nobody]
Unopened == [state |-> "unopened", by |-> Nobody, reason |-> FALSE]
Idle == [step |-> "idle"]
Done == [step |-> "done"]

\* The judgement of an entity or a fragment, and who may be asked to give it.
Judgement ==
    [state : {"unopened", "triaged", "watching", "dismissed"}, by : People \cup {Nobody},
     reason : BOOLEAN]
Attribution == [state : {"none", "proposed", "accepted", "rejected"}, by : People \cup {Nobody}]
\* What the store refuses to write.
Valid(a) == a.state \in {"none", "proposed"} => a.by = Nobody

TypeOK ==
    /\ claim \in [Claims -> Attribution] /\ \A c \in Claims : Valid(claim[c])
    /\ made \in Seq(Claims) /\ derived \subseteq Derivable
    /\ permits \in [Fragments -> SUBSET Intensities]
    /\ judged \in [Entities -> Judgement]

Init ==
    /\ claim = [c \in Claims |-> Unmade] /\ made = <<>> /\ derived = {}
    /\ permits = [f \in Fragments |-> Intensities]
    /\ judged = [e \in Entities |-> Unopened]
    /\ job = [p \in People |-> Idle] /\ told = {} /\ view = [d \in Readers |-> Idle]

Range(s) == {s[n] : n \in DOMAIN s}

-----------------------------------------------------------------------------
(* What the runs and the scope do meanwhile.                               *)

\* A rule's or a person's claim is born accepted, a model's proposed.
Propose(c) ==
    [state |-> IF Of[c].claimant = "model" THEN "proposed" ELSE "accepted",
     by |-> IF Of[c].claimant \in People THEN Of[c].claimant ELSE Nobody]
Attribute(c) ==
    /\ claim[c] = Unmade
    /\ claim' = [claim EXCEPT ![c] = Propose(c)] /\ made' = Append(made, c)
    /\ UNCHANGED <<derived, permits, judged, job, told, view>>

Derive(edge) ==
    /\ edge \in Derivable \ derived /\ derived' = derived \cup {edge}
    /\ UNCHANGED <<claim, made, permits, judged, job, told, view>>

\* A rule is superseded by a narrower one.
Narrow(f, intensity) ==
    /\ intensity \in permits[f] /\ permits' = [permits EXCEPT ![f] = @ \ {intensity}]
    /\ UNCHANGED <<claim, made, derived, judged, job, told, view>>

-----------------------------------------------------------------------------
(* Deciding a claim.                                                       *)

Asks(p, next) == job' = [job EXCEPT ![p] = next]
AttributionByID(c) == claim[c]

\* A person rules on what is proposed, and not that it be so again.
Decide(a, state, by) == [a EXCEPT !.state = state, !.by = by]
MayDecide(a, state) == state \in {"accepted", "rejected"} /\ a.state = "proposed"

AskDecide(p, c, state) ==
    /\ job[p] = Idle /\ MayDecide(AttributionByID(c), state)
    /\ Asks(p, [step |-> "decide", claim |-> c, row |-> Decide(AttributionByID(c), state, p)])
    /\ UNCHANGED <<rows, told, view>>

\* To accept a claim puts something on a client's list of assets.
decideAttribution(p, c, state) == Seat[p] = "admin" /\ AskDecide(p, c, state)

\* The predicate of the update, which lets one of two decisions in.
StillProposed(c) == claim[c].state = "proposed"

DecideAttribution(c, row) == StillProposed(c) /\ claim' = [claim EXCEPT ![c] = row]

Decided(p) ==
    LET c == job[p].claim
    IN /\ job[p].step = "decide" /\ Valid(job[p].row) /\ DecideAttribution(c, job[p].row)
       /\ Asks(p, [step |-> "tell", says |-> [on |-> c, claimant |-> Of[c].claimant, now |-> job[p].row]])
       /\ UNCHANGED <<made, derived, permits, judged, told, view>>

\* Somebody has decided meanwhile.
AlreadyDecided(p) ==
    /\ job[p].step = "decide" /\ ~StillProposed(job[p].claim)
    /\ Asks(p, Done) /\ UNCHANGED <<rows, told, view>>

\* The event, or the failure to publish it, which the caller is told.
emit(p) ==
    /\ job[p].step = "tell" /\ Asks(p, Done)
    /\ told' \in {told, told \cup {job[p].says}}
    /\ UNCHANGED <<rows, view>>

-----------------------------------------------------------------------------
(* Judging an entity.                                                      *)

\* Nobody rules that a thing was never looked at; to dismiss takes a reason.
Rule(state, by, reason) == [state |-> state, by |-> by, reason |-> reason]
MayRule(state, reason) == state # "unopened" /\ (state = "dismissed" => reason)

EntityByID(e) == judged[e]
AskJudge(p, e, state, reason) ==
    /\ job[p] = Idle /\ MayRule(state, reason)
    /\ Asks(p, [step |-> "judge", entity |-> e, from |-> EntityByID(e).state,
                row |-> Rule(state, p, reason)])
    /\ UNCHANGED <<rows, told, view>>

judgeEntity(p, e, state, reason) ==
    Seat[p] \in {"write", "admin"} /\ AskJudge(p, e, state, reason)

\* The columns of the judgement, whatever they are by now.
WriteJudgement(e, row) == judged' = [judged EXCEPT ![e] = row]

JudgeEntity(p) ==
    LET e == job[p].entity
    IN /\ job[p].step = "judge" /\ WriteJudgement(e, job[p].row)
       /\ Asks(p, [step |-> "tell", says |-> [on |-> e, from |-> job[p].from, now |-> job[p].row]])
       /\ UNCHANGED <<claim, made, derived, permits, told, view>>

-----------------------------------------------------------------------------
(* The canvas.                                                             *)

\* The target of its root; a view, so that it means one thing everywhere.
AcceptedOn(e) == {Of[c].fragment : c \in {k \in Claims : Of[k].root = e /\ claim[k].state = "accepted"}}
RootEntityForTarget(t) == {e \in Entities : Aims[e] = t}
AcceptedFragmentsForTarget(t) == UNION {AcceptedOn(e) : e \in RootEntityForTarget(t)}
Assets(t) == AcceptedFragmentsForTarget(t) \cap Targetable

\* The claims on an entity in the order of their creation, one more than a page.
Firsts(s, n) == SubSeq(s, 1, IF Len(s) < n THEN Len(s) ELSE n)
AttributionsForEntity(e, state, limit) ==
    Firsts(SelectSeq(made, LAMBDA c : Of[c].root = e /\ (state = All \/ claim[c].state = state)), limit)
AttributionsOn(e, state) == AttributionsForEntity(e, state, Page + 1)
AttributionsFor(f) == {c \in Claims : Of[c].fragment = f /\ claim[c] # Unmade}

\* The distinct roots of the accepted claims on each.
RootsPerFragment(drawn) ==
    [f \in drawn |-> {Of[c].root : c \in {k \in AttributionsFor(f) : claim[k].state = "accepted"}}]

DerivationsAmong(drawn) == {edge \in derived : edge[1] \in drawn /\ edge[2] \in drawn}
DerivationsForFragment(f) == {edge \in derived : f \in {edge[1], edge[2]}}

\* Permitted at any intensity.  A root without a target has no scope.
spawnPermits(e, drawn) == [f \in drawn |-> Aims[e] # "none" /\ permits[f] # {}]

Reads(d, next) == view' = [view EXCEPT ![d] = next] /\ UNCHANGED <<rows, job, told>>

\* Began is what there was when the reading began.
Around(d, e, filter) ==
    LET found == AttributionsOn(e, filter)
        nodes == Firsts(found, Page)
    IN Reads(d, [step |-> "roots", root |-> e, filter |-> filter,
                    state |-> [c \in Range(nodes) |-> claim[c].state],
                    drawn |-> {Of[c].fragment : c \in Range(nodes)},
                    truncated |-> Len(found) > Page,
                    began |-> [claim |-> claim, derived |-> derived, permits |-> permits]])

readCanvas(d, e, filter) == view[d] = Idle /\ Around(d, e, filter)

\* More than one root, and not more than one claim.
SeenElsewhere(d) ==
    LET roots == RootsPerFragment(view[d].drawn)
    IN /\ view[d].step = "roots"
       /\ Reads(d, [step |-> "derivations", canvas |-> view[d], drawn |-> view[d].drawn,
                    elsewhere |-> {f \in view[d].drawn : Cardinality(roots[f]) > 1}])

Derivations(d) ==
    /\ view[d].step = "derivations"
    /\ Reads(d, [step |-> "scope", canvas |-> view[d].canvas, elsewhere |-> view[d].elsewhere,
                 edges |-> DerivationsAmong(view[d].drawn)])

InScope(d) ==
    LET canvas == view[d].canvas
        permitted == spawnPermits(canvas.root, canvas.drawn)
    IN /\ view[d].step = "scope"
       /\ Reads(d, [step |-> "canvas", canvas |-> canvas, elsewhere |-> view[d].elsewhere,
                    edges |-> view[d].edges,
                    inScope |-> {f \in canvas.drawn : permitted[f]}])

-----------------------------------------------------------------------------
(* The drawer of a fragment, and the lists.                                *)

\* The claims on it, and then the edges either way.
Attributions(d, f) ==
    Reads(d, [step |-> "claims", fragment |-> f,
                 state |-> [c \in AttributionsFor(f) |-> claim[c].state]])
readFragment(d, f) == view[d] = Idle /\ Attributions(d, f)
Edges(d) ==
    /\ view[d].step = "claims"
    /\ Reads(d, [step |-> "drawer", state |-> view[d].state, fragment |-> view[d].fragment,
                 edges |-> DerivationsForFragment(view[d].fragment)])

listAssets(d, t) ==
    view[d] = Idle /\ Reads(d, [step |-> "assets", target |-> t, assets |-> Assets(t)])
EntitiesForWorkspace == judged
listEntities(d) ==
    view[d] = Idle /\ Reads(d, [step |-> "entities", judged |-> EntitiesForWorkspace])

-----------------------------------------------------------------------------
Next ==
    \/ \E c \in Claims : Attribute(c)
    \/ \E edge \in Derivable : Derive(edge)
    \/ \E f \in Fragments, intensity \in Intensities : Narrow(f, intensity)
    \/ \E p \in People :
          \/ \E c \in Claims, state \in {"proposed", "accepted", "rejected"} :
                decideAttribution(p, c, state)
          \/ \E e \in Entities, state \in {"unopened", "triaged", "dismissed"}, reason \in BOOLEAN :
                judgeEntity(p, e, state, reason)
          \/ Decided(p) \/ AlreadyDecided(p) \/ JudgeEntity(p) \/ emit(p)
    \/ \E d \in Readers :
          \/ \E e \in Entities, filter \in Filters : readCanvas(d, e, filter)
          \/ SeenElsewhere(d) \/ Derivations(d) \/ InScope(d) \/ Edges(d) \/ listEntities(d)
          \/ \E f \in Fragments : readFragment(d, f)
          \/ \E e \in Entities : Aims[e] # "none" /\ listAssets(d, Aims[e])

Spec == Init /\ [][Next]_vars

-----------------------------------------------------------------------------
\* A claim is decided by one person and nobody is told of another decision of
\* it: of two who decide at once, one is refused and says nothing.
DecidedIsTold ==
    \A t \in told : t.on \in Claims => claim[t.on] = t.now

\* A canvas does not lie, whatever is decided, derived and narrowed while it is
\* drawn: no edge leaves the picture, and none within it is missing; what is not
\* truncated is all there was of the states asked for, and nothing else; a fragment
\* that other roots have is had by them; and what is permitted was permitted.
CanvasIsTrue ==
    \A d \in Readers : view[d].step = "canvas" =>
        LET canvas == view[d].canvas
            began == canvas.began
            roots(f, row) == {Of[c].root : c \in {k \in Claims : Of[k].fragment = f /\ row[k].state = "accepted"}}
        IN /\ \A edge \in view[d].edges : {edge[1], edge[2]} \subseteq canvas.drawn
           /\ {e \in began.derived : {e[1], e[2]} \subseteq canvas.drawn} \subseteq view[d].edges
           /\ canvas.truncated \/
                 \A c \in Claims :
                     Of[c].root = canvas.root /\ began.claim[c] # Unmade
                     /\ canvas.filter \in {All, began.claim[c].state}
                         => Of[c].fragment \in canvas.drawn
           /\ Cardinality(canvas.drawn) <= Page
           /\ canvas.filter = All \/ \A c \in DOMAIN canvas.state : canvas.state[c] = canvas.filter
           /\ \A f \in canvas.drawn :
                 /\ f \in view[d].elsewhere => Cardinality(roots(f, claim)) > 1
                 /\ f \notin view[d].elsewhere => Cardinality(roots(f, began.claim)) < 2
                 /\ f \in view[d].inScope => began.permits[f] # {}
                 /\ f \notin view[d].inScope => Aims[canvas.root] = "none" \/ permits[f] = {}

\* What a reader was told to be decided, attributed or judged is so for good.
ToldStands ==
    \A d \in Readers :
        /\ view[d].step = "canvas" => \A c \in DOMAIN view[d].canvas.state :
               view[d].canvas.state[c] \in {"proposed", claim[c].state}
        /\ view[d].step = "drawer" => \A c \in DOMAIN view[d].state :
               view[d].state[c] \in {"proposed", claim[c].state}
        /\ view[d].step = "assets" => view[d].assets \subseteq Assets(view[d].target)
        /\ view[d].step = "entities" => \A e \in Entities :
               view[d].judged[e] = Unopened \/ judged[e] # Unopened
=============================================================================
