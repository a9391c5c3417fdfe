------------------------------- MODULE Graph -------------------------------
(***************************************************************************)
(* What the tools said of a target becomes a graph: an extraction writes   *)
(* one observation at a time and publishes an event; the assembler turns   *)
(* the observations of one invocation into fragments, the fragments that   *)
(* scope covers into assets of the target's root, and the citations into   *)
(* edges, or into rows that say the edge could not be drawn.               *)
(*                                                                         *)
(* The assembler is a handler of the outbox, which gives it no             *)
(* transaction: every statement commits alone, and a delivery that is cut  *)
(* is made again from the start.  A subject is a number, which orders the  *)
(* page the assembler reads.                                               *)
(***************************************************************************)
EXTENDS Naturals, FiniteSets

CONSTANTS
    Invocations, Subjects,
    Says,          \* Says[i]: the subjects the output of i speaks of, one reading each
    Cites,         \* Cites[i]: pairs <<to, from>>, what i derived to from
    Covered,       \* subjects the engagement's scope covers
    Unfit,         \* subjects no fragment can be made of: their value is too long
    Page,          \* observations one read returns at most
    MaxAttempts, MaxFaults

\* An event is tried at least once, and what is said and cited is of subjects.
ASSUME GraphAssumption ==
    /\ MaxAttempts \in Nat \ {0} /\ MaxFaults \in Nat
    /\ \A i \in Invocations : Says[i] \subseteq Subjects /\ Cites[i] \subseteq Subjects \X Subjects

VARIABLES
    observed,      \* observed[i]: the observations of i that are stored
    said,          \* said[i]: where the extraction of i has got to
    event,         \* event[i]: extract.observation.created, of i
    failed,        \* failed[i]: deliveries of it that were cut
    todo,          \* todo[i]: what the delivery under way still has to write, or idle
    fragment,      \* fragment[s]: observations counted on s, 0 for no row
    assets,        \* fragments attributed to the root
    edges,         \* rows <<from, to, i>>
    missing,       \* rows <<to, from, i>> whose from-fragment was not there
    root,          \* the target's root entity, or 0
    added,         \* target.added: to be delivered, or not
    minted,        \* root entities minted so far
    announced,     \* the entities entity.root.created names, not yet applied
    targetRoot,    \* target.root_entity_id, or 0
    retired,       \* the tool was archived, or takes no input any more
    faults

table == <<fragment, assets, edges, missing>>
roots == <<root, added, minted, announced, targetRoot>>
vars == <<observed, said, event, failed, todo, table, roots, retired, faults>>

MaxDeliveries == 2     \* of target.added
Idle == [idle |-> TRUE]

Firsts(S, n) == {s \in S : Cardinality({t \in S : t < s}) < n}

TypeOK ==
    /\ \A i \in Invocations : observed[i] \subseteq Says[i]
    /\ said \in [Invocations -> {"running", "done", "dead"}]
    /\ event \in [Invocations -> {"none", "pending", "drained", "buried"}]
    /\ failed \in [Invocations -> 0 .. MaxAttempts]
    /\ \A i \in Invocations : todo[i] = Idle \/
         todo[i] \in [store : SUBSET Subjects, claim : SUBSET Subjects,
                      asked : BOOLEAN, cite : SUBSET Cites[i]]
    /\ fragment \in [Subjects -> Nat]
    /\ assets \subseteq Subjects
    /\ edges \subseteq Subjects \X Subjects \X Invocations
    /\ missing \subseteq Subjects \X Subjects \X Invocations
    /\ {root, targetRoot} \cup announced \subseteq 0 .. minted
    /\ minted \in 0 .. MaxDeliveries /\ added \in BOOLEAN /\ retired \in BOOLEAN
    /\ faults \in 0 .. MaxFaults

Init ==
    /\ observed = [i \in Invocations |-> {}]
    /\ said = [i \in Invocations |-> "running"]
    /\ event = [i \in Invocations |-> "none"]
    /\ failed = [i \in Invocations |-> 0]
    /\ todo = [i \in Invocations |-> Idle]
    /\ fragment = [s \in Subjects |-> 0]
    /\ assets = {} /\ edges = {} /\ missing = {}
    /\ root = 0 /\ added = TRUE /\ minted = 0 /\ announced = {} /\ targetRoot = 0
    /\ retired = FALSE /\ faults = 0

Fault == faults < MaxFaults /\ faults' = faults + 1

-----------------------------------------------------------------------------
(* Extraction, in the process of the run.                                  *)

\* domain.Extract: the records, in the order of the output, less those kept.
Remaining(i) == Says[i] \ observed[i]

\* One reading of one record is one row, in a statement of its own.
CreateObservation(i, s) ==
    /\ said[i] = "running"
    /\ s \in Firsts(Remaining(i), 1)
    /\ observed' = [observed EXCEPT ![i] = @ \cup {s}]
    /\ UNCHANGED <<said, event, failed, todo, table, roots, retired, faults>>

\* The event goes last.
Report(i) ==
    /\ said[i] = "running" /\ Remaining(i) = {}
    /\ said' = [said EXCEPT ![i] = "done"]
    /\ event' = [event EXCEPT ![i] = "pending"]
    /\ UNCHANGED <<observed, failed, todo, table, roots, retired, faults>>

\* Nothing extracts the artifact of a run again: there is no event to deliver.
ExtractionDies(i) ==
    /\ said[i] = "running" /\ Fault
    /\ said' = [said EXCEPT ![i] = "dead"]
    /\ UNCHANGED <<observed, event, failed, todo, table, roots, retired>>

-----------------------------------------------------------------------------
(* The assembler.                                                          *)

\* ObservationsForInvocation, ordered by subject and limited.
ForInvocation(i) == Firsts(observed[i], Page)

\* The subjects of the page: one reading each here, so there is nothing to group.
SubjectsOf(i) == ForInvocation(i)

\* MayClaim: the rule that permitted the run, or a claim rule.
MayClaim(s) == s \in Covered

\* ProvenanceForInvocation, whole: what the invocation cites for its subjects.
ProvenanceForInvocation(i) == {c \in Cites[i] : c[1] \in observed[i]}

\* consumesOf: the kind of what the tool takes, as the tool is now.
Consumes == ~retired

\* Without a kind for its source, no citation is answered at all.
CitedBy(i) == IF Consumes THEN ProvenanceForInvocation(i) ELSE {}

\* The tool is archived, with its runs behind it.
Retire ==
    /\ ~retired /\ retired' = TRUE
    /\ UNCHANGED <<observed, said, event, failed, todo, table, roots, faults>>

Begin(i) ==
    /\ event[i] = "pending" /\ todo[i] = Idle
    /\ root # 0 \/ SubjectsOf(i) = {}
    /\ todo' = [todo EXCEPT ![i] = [store |-> SubjectsOf(i), claim |-> {},
                                      asked |-> SubjectsOf(i) = {}, cite |-> {}]]
    /\ UNCHANGED <<observed, said, event, failed, table, roots, retired, faults>>

\* A delivery that comes to nothing is counted, and buried at the last attempt.
Failed(i) ==
    /\ failed' = [failed EXCEPT ![i] = @ + 1]
    /\ event' = [event EXCEPT ![i] = IF failed[i] + 1 = MaxAttempts THEN "buried" ELSE @]
    /\ todo' = [todo EXCEPT ![i] = Idle]

\* RootFor finds nothing: target.added is not delivered yet.
NoRoot(i) ==
    /\ event[i] = "pending" /\ todo[i] = Idle
    /\ root = 0 /\ SubjectsOf(i) # {}
    /\ Failed(i)
    /\ UNCHANGED <<observed, said, table, roots, retired, faults>>

\* NewFragment: a value it cannot hold is passed over.
Fit(s) == s \notin Unfit

\* The statement: said again of a fragment that is there, it adds to it.
Seen(count) == count + 1
UpsertFragment(s) == fragment' = [fragment EXCEPT ![s] = Seen(@)]

\* Store.Upsert of what NewFragment made.
Upsert(s) == IF Fit(s) THEN UpsertFragment(s) ELSE UNCHANGED fragment

\* One subject at a time, its attribution straight after it.
Store(i, s) ==
    /\ todo[i] # Idle /\ s \in todo[i].store /\ todo[i].claim = {}
    /\ Upsert(s)
    /\ todo' = [todo EXCEPT ![i].store = @ \ {s},
                            ![i].claim = IF Fit(s) /\ MayClaim(s) THEN {s} ELSE {}]
    /\ UNCHANGED <<observed, said, event, failed, assets, edges, missing, roots, retired, faults>>

\* Propose by rule is born accepted; the insert leaves one that is there.
InsertAttribution(s) == assets' = assets \cup {s}

Attribute(i, s) ==
    /\ todo[i] # Idle /\ s \in todo[i].claim
    /\ InsertAttribution(s)
    /\ todo' = [todo EXCEPT ![i].claim = {}]
    /\ UNCHANGED <<observed, said, event, failed, fragment, edges, missing, roots, retired, faults>>

FragmentFor(s) == fragment[s] > 0

\* NewDerivation refuses an edge from a fragment to itself, and derive passes over it.
Drawable(c) == c[1] # c[2]

\* Both rows are unique, and written where they are not there.
Draw(i, c) == edges' = IF Drawable(c) THEN edges \cup {<<c[2], c[1], i>>} ELSE edges
NewUnresolved(i, c) == <<c[1], c[2], i>>
RecordUnresolved(i, c) == missing' = missing \cup {NewUnresolved(i, c)}

\* The fragments are there: what the invocation cites is read, all of it.
AskProvenances(i) ==
    /\ todo[i] # Idle /\ todo[i].store = {} /\ todo[i].claim = {} /\ ~todo[i].asked
    /\ todo' = [todo EXCEPT ![i].asked = TRUE, ![i].cite = CitedBy(i)]
    /\ UNCHANGED <<observed, said, event, failed, table, roots, retired, faults>>

\* derive: after the fragments, a citation becomes an edge or says why not.
Derive(i, c) ==
    /\ todo[i] # Idle /\ c \in todo[i].cite
    /\ IF ~FragmentFor(c[1]) THEN UNCHANGED <<edges, missing>>
       ELSE IF FragmentFor(c[2]) THEN Draw(i, c) /\ UNCHANGED missing
       ELSE RecordUnresolved(i, c) /\ UNCHANGED edges
    /\ todo' = [todo EXCEPT ![i].cite = @ \ {c}]
    /\ UNCHANGED <<observed, said, event, failed, fragment, assets, roots, retired, faults>>

\* The last statement is made, and the event is drained.
Drained(i) ==
    /\ todo[i] = [store |-> {}, claim |-> {}, asked |-> TRUE, cite |-> {}]
    /\ event' = [event EXCEPT ![i] = "drained"]
    /\ todo' = [todo EXCEPT ![i] = Idle]
    /\ UNCHANGED <<observed, said, failed, table, roots, retired, faults>>

\* A statement fails or the process dies, before the event is drained.
Cut(i) ==
    /\ todo[i] # Idle /\ Fault
    /\ Failed(i)
    /\ UNCHANGED <<observed, said, table, roots, retired>>

-----------------------------------------------------------------------------
(* The target's root.                                                      *)

NewEntity == minted + 1
\* Mutant: the insert takes the place of the root that is there.
CreateAnother == root' = NewEntity
\* The insert, which leaves the root that is there, and the read after it.
CreateEntity == root' = IF root = 0 THEN NewEntity ELSE root

\* RootFor: insert where there is none, read back, and announce what is there.
\* The event is drained now, or delivered once more.
RootFor ==
    /\ added /\ minted < MaxDeliveries
    /\ minted' = NewEntity /\ CreateEntity
    /\ announced' = announced \cup {root'}
    /\ added' \in (IF minted' = MaxDeliveries THEN {FALSE} ELSE BOOLEAN)
    /\ UNCHANGED <<observed, said, event, failed, todo, table, targetRoot, retired, faults>>

\* SetRootEntity, where there is none; the event may be delivered again.
SetRoot(e) ==
    /\ e \in announced
    /\ targetRoot' = IF targetRoot = 0 THEN e ELSE targetRoot
    /\ announced' \in {announced, announced \ {e}}
    /\ UNCHANGED <<observed, said, event, failed, todo, table, root, added, minted, retired, faults>>

-----------------------------------------------------------------------------
Next ==
    \/ \E i \in Invocations :
          \/ Report(i) \/ ExtractionDies(i)
          \/ Begin(i) \/ NoRoot(i) \/ AskProvenances(i) \/ Drained(i) \/ Cut(i)
          \/ \E s \in Subjects : CreateObservation(i, s) \/ Store(i, s) \/ Attribute(i, s)
          \/ \E c \in Cites[i] : Derive(i, c)
    \/ RootFor \/ Retire
    \/ \E e \in 1 .. MaxDeliveries : SetRoot(e)

Spec == Init /\ [][Next]_vars

-----------------------------------------------------------------------------
\* What i cites for a fragment of its page is an edge, or says why it is none.
Accounted(i) == \A c \in ProvenanceForInvocation(i) :
    c[1] \in SubjectsOf(i) \ Unfit /\ Drawable(c) =>
        <<c[2], c[1], i>> \in edges \/ <<c[1], c[2], i>> \in missing

\* Once the event of an invocation is drained, however often its delivery was
\* cut, everything on the page is a fragment, what scope covers is an asset,
\* and each citation of it is an edge or says why it is none.
DrainedIsAssembled == \A i \in Invocations : event[i] = "drained" =>
    /\ \A s \in SubjectsOf(i) \ Unfit : fragment[s] > 0 /\ (MayClaim(s) => s \in assets)
    /\ ~retired => Accounted(i)

\* A target names the entity that is its root, however often target.added and
\* entity.root.created are delivered, and in whatever order.
TargetNamesItsRoot ==
    /\ targetRoot # 0 => targetRoot = root
    /\ announced \subseteq {root}

\* "a redelivered extraction must not double the graph": a fragment counts no
\* more observations than the invocations made of it.
NothingIsDoubled == \A s \in Subjects :
    fragment[s] <= Cardinality({i \in Invocations : s \in observed[i]})

\* "A fragment with no permitting rule is still created": whatever a drained
\* invocation observed has its fragment.
EveryObservationIsAFragment == \A i \in Invocations : event[i] = "drained" =>
    \A s \in observed[i] \ Unfit : fragment[s] > 0

\* "Answering NOTHING makes those readings unresolved": of a tool that was
\* archived in between, the citations are accounted for all the same.
SilenceIsUnresolved == \A i \in Invocations : event[i] = "drained" => Accounted(i)
=============================================================================
