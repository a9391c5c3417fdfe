------------------------------ MODULE Mappings -------------------------------
(***************************************************************************)
(* The mappings of one tool: versions of what turns its output into a      *)
(* field.  A version is drafted, promoted and retired; one version of a    *)
(* field is live, and one mapping of each role but the plain one.  What a  *)
(* promotion promotes, it read before its transaction, and a row's state   *)
(* is written whatever the row's state is: the indexes have the last word. *)
(***************************************************************************)
EXTENDS Naturals, FiniteSets

CONSTANTS
    Fields, Roles,
    Single,       \* the roles that one live mapping of a tool may have
    Requests,     \* each drafts or promotes once, or changes the tool
    MaxVersion

VARIABLES
    mapping,      \* the rows: field, version, role, state
    consumes,     \* whether the tool has an input
    standing,     \* of the tool: "absent", "live" or "archived"
    request,      \* request[r]: where it is and what it read
    served,       \* the fields that have had a live version (history)
    crossed       \* a promotion wrote over a row that had moved (history)

vars == <<mapping, consumes, standing, request, served, crossed>>

Idle == [step |-> "idle"]
Done == [step |-> "done"]
States == {"draft", "live", "retired"}

TypeOK ==
    /\ \A m \in mapping : /\ m.field \in Fields /\ m.version \in 1 .. MaxVersion
                          /\ m.role \in Roles /\ m.state \in States
    /\ consumes \in BOOLEAN /\ standing \in {"absent", "live", "archived"}
    /\ served \subseteq Fields /\ crossed \in BOOLEAN

Init ==
    /\ mapping = {} /\ consumes = TRUE /\ standing = "absent"
    /\ request = [r \in Requests |-> Idle]
    /\ served = {} /\ crossed = FALSE

Key(m) == <<m.field, m.version>>
Live(f) == {m \in mapping : m.field = f /\ m.state = "live"}
Versions(f) == {m.version : m \in {n \in mapping : n.field = f}}
Newest(f) == CHOOSE v \in {0} \cup Versions(f) : \A w \in Versions(f) : w <= v

\* The partial indexes: of a field, and of a role.
FitsIndexes(rows) ==
    \A m, n \in {k \in rows : k.state = "live"} :
        m.field = n.field \/ (m.role = n.role /\ m.role \in Single) => m = n

-----------------------------------------------------------------------------
(* Drafting.                                                               *)

\* A mapping of where a value comes from needs a tool with an input.
NewMapping(f, v, role) == [field |-> f, version |-> v, role |-> role, state |-> "draft"]
MayMap(role) == role = "derived_from" => consumes

Draft(f, role, promote) ==
    [step |-> "drafting", field |-> f, role |-> role, promote |-> promote]
addMapping(r, f, role, promote) ==
    /\ request[r] = Idle /\ standing = "live" /\ MayMap(role)
    /\ request' = [request EXCEPT ![r] = Draft(f, role, promote)]
    /\ UNCHANGED <<mapping, consumes, standing, served, crossed>>

\* The next number, which the index on the version keeps two from using.
NextVersion(r) ==
    /\ request[r].step = "drafting" /\ Newest(request[r].field) < MaxVersion
    /\ request' = [request EXCEPT ![r] =
          [step |-> IF request[r].promote THEN "drafted" ELSE "inserting",
           of |-> NewMapping(request[r].field, Newest(request[r].field) + 1, request[r].role)]]
    /\ UNCHANGED <<mapping, consumes, standing, served, crossed>>
Numbered(m) == m.version \notin Versions(m.field)

CreateMapping(r) ==
    LET m == request[r].of
    IN /\ request[r].step = "inserting" /\ Numbered(m)
       /\ mapping' = mapping \cup {m}
       /\ request' = [request EXCEPT ![r] = Done]
       /\ UNCHANGED <<consumes, standing, served, crossed>>

-----------------------------------------------------------------------------
(* Promoting.                                                              *)

\* Of a row as it is read: one that is live or retired is refused.
MayPromote(m) == m.state = "draft"
Promote(m) == [step |-> "promoting", of |-> m]
promoteMapping(r, m) ==
    /\ request[r] = Idle /\ m \in mapping /\ MayPromote(m)
    /\ request' = [request EXCEPT ![r] = Promote(m)]
    /\ UNCHANGED <<mapping, consumes, standing, served, crossed>>

LiveMapping(r) ==
    /\ request[r].step \in {"drafted", "promoting"}
    /\ Key(request[r].of) \notin {Key(m) : m \in Live(request[r].of.field)}
    /\ request' = [request EXCEPT ![r] =
          [step |-> "retiring", of |-> request[r].of, fresh |-> request[r].step = "drafted",
           incumbent |-> {Key(m) : m \in Live(request[r].of.field)}]]
    /\ UNCHANGED <<mapping, consumes, standing, served, crossed>>

SetMappingState(rows, keys, state) ==
    {IF Key(m) \in keys THEN [m EXCEPT !.state = state] ELSE m : m \in rows}
Retired(r) == SetMappingState(mapping, request[r].incumbent, "retired")
Promoted(r) ==
    IF request[r].fresh
    THEN Retired(r) \cup {[request[r].of EXCEPT !.state = "live"]}
    ELSE SetMappingState(Retired(r), {Key(request[r].of)}, "live")

\* Retire, then promote, in one transaction: the indexes refuse the rest.
promote(r) ==
    /\ request[r].step = "retiring"
    /\ request[r].fresh => Numbered(request[r].of)
    /\ FitsIndexes(Promoted(r))
    /\ mapping' = Promoted(r)
    /\ served' = served \cup {request[r].of.field}
    /\ crossed' = (crossed \/ (~request[r].fresh /\ request[r].of \notin mapping))
    /\ request' = [request EXCEPT ![r] = Done]
    /\ UNCHANGED <<consumes, standing>>

Fails(r) ==
    /\ request[r] \notin {Idle, Done}
    /\ request' = [request EXCEPT ![r] = Done]
    /\ UNCHANGED <<mapping, consumes, standing, served, crossed>>

-----------------------------------------------------------------------------
(* The tool: each saves the row at the version it read.                    *)

New(takes) == standing' = "live" /\ consumes' = takes
Add(takes) == standing = "absent" /\ New(takes)
Update == standing = "live" /\ consumes' = ~consumes /\ UNCHANGED standing
Archive == standing = "live" /\ standing' = "archived" /\ UNCHANGED consumes
ToolMoves ==
    /\ Update \/ Archive \/ \E takes \in BOOLEAN : Add(takes)
    /\ UNCHANGED <<mapping, request, served, crossed>>

Next ==
    \/ ToolMoves
    \/ \E r \in Requests :
          \/ \E f \in Fields, role \in Roles, p \in BOOLEAN : addMapping(r, f, role, p)
          \/ NextVersion(r) \/ CreateMapping(r)
          \/ \E m \in mapping : promoteMapping(r, m)
          \/ LiveMapping(r) \/ promote(r) \/ Fails(r)

Spec == Init /\ [][Next]_vars

-----------------------------------------------------------------------------
\* A number is used once in a field; one version of a field is live and one
\* mapping of a single role; and a field that has had a live version has one:
\* a promotion that fails half-way leaves the old one.
OneLiveVersion ==
    /\ \A m, n \in mapping : Key(m) = Key(n) => m = n
    /\ FitsIndexes(mapping)
    /\ \A f \in served : Live(f) # {}

\* The history that citations point at stays: a version that was retired is
\* not live again, unless its promotion had read it before it was retired.
HistoryIsKept ==
    \A m \in mapping : \A n \in mapping' :
        Key(m) = Key(n) /\ m.state = "retired" => n.state = "retired" \/ crossed'
RetiredStay == [][HistoryIsKept]_vars
=============================================================================
