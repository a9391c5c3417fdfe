------------------------------- MODULE Targets -------------------------------
(***************************************************************************)
(* The targets of an engagement: named rows, of which the live ones have   *)
(* names of their own.  A request reads the row, saves the next version of *)
(* it if nobody else has, and then publishes what it did: a process may    *)
(* end in between, and two may publish in the other order.  The root of a  *)
(* target is set by a subscriber, in a column no save writes.              *)
(***************************************************************************)
EXTENDS Naturals, FiniteSets

CONSTANTS
    TargetIDs, Names, Roots,
    Requests,       \* each changes one target once
    MaxVersion

VARIABLES
    row,            \* row[t]
    request,        \* request[r]: what it has read or has to tell
    told,           \* the events that were published
    was,            \* was[t]: the name and status of every version (history)
    lost            \* the versions whose request ended before it told (history)

vars == <<row, request, told, was, lost>>

None == "none"
Absent == [name |-> None, status |-> "absent", version |-> 0, root |-> None]
Idle == [step |-> "idle"]
Done == [step |-> "done"]
NoVersion == [v \in 1 .. MaxVersion |-> [name |-> None, status |-> "absent"]]

TypeOK ==
    /\ row \in [TargetIDs -> [name : Names \cup {None}, status : {"absent", "active", "archived"},
                              version : 0 .. MaxVersion, root : Roots \cup {None}]]
    /\ \A r \in Requests : request[r].step \in {"idle", "read", "telling", "done"}
    /\ \A e \in told : e.target \in TargetIDs /\ e.version \in 1 .. MaxVersion
    /\ lost \subseteq TargetIDs \X (1 .. MaxVersion)

Init ==
    /\ row = [t \in TargetIDs |-> Absent]
    /\ request = [r \in Requests |-> Idle]
    /\ told = {} /\ was = [t \in TargetIDs |-> NoVersion] /\ lost = {}

Live(t) == row[t].status = "active"
LiveTargets == {t \in TargetIDs : Live(t)}
NameFree(t, name) == \A q \in LiveTargets \ {t} : row[q].name # name

Stores(r, t, next, act, from) ==
    /\ row' = [row EXCEPT ![t] = next]
    /\ was' = [was EXCEPT ![t][next.version] = [name |-> next.name, status |-> next.status]]
    /\ request' = [request EXCEPT ![r] =
          [step |-> "telling",
           event |-> [target |-> t, act |-> act, from |-> from, to |-> next.name,
                      version |-> next.version]]]
    /\ UNCHANGED <<told, lost>>

New(name) == [name |-> name, status |-> "active", version |-> 1, root |-> None]
InsertTarget(t, name) == row[t] = Absent /\ NameFree(t, name)
addTarget(r, t, name) ==
    /\ request[r] = Idle /\ InsertTarget(t, name)
    /\ Stores(r, t, New(name), "added", None)

-----------------------------------------------------------------------------
(* What becomes of a row that was read, where its status allows it.        *)

Rename(held, name) ==
    { [held EXCEPT !.name = name, !.version = @ + 1] :
        h \in {held.status} \cap {"active"} }
Archive(held) ==
    { [held EXCEPT !.status = "archived", !.version = @ + 1] : h \in {held.status} \cap {"active"} }
Reopen(held) ==
    { [held EXCEPT !.status = "active", !.version = @ + 1] : h \in {held.status} \cap {"archived"} }

ByID(r, t, act, nexts) ==
    /\ request[r] = Idle /\ row[t] # Absent /\ row[t].version < MaxVersion
    /\ \E next \in nexts :
          request' = [request EXCEPT ![r] =
             [step |-> "read", of |-> t, act |-> act, held |-> row[t], next |-> next]]
    /\ UNCHANGED <<row, told, was, lost>>

\* A name that is the name it has is no change.
renameTarget(r, t, name) == name # row[t].name /\ ByID(r, t, "renamed", Rename(row[t], name))
archiveTarget(r, t) == ByID(r, t, "archived", Archive(row[t]))
reopenTarget(r, t) == ByID(r, t, "reopened", Reopen(row[t]))

\* Every column but the root.
UpdateTarget(t, next) == [next EXCEPT !.root = row[t].root]

\* Mutant: no version guards the row.
SavesAnyway(t, next) == next.status = "active" => NameFree(t, next.name)

Saves(t, next) ==
    /\ row[t].version = next.version - 1
    /\ next.status = "active" => NameFree(t, next.name)
Save(r) ==
    LET t == request[r].of  next == request[r].next
    IN /\ request[r].step = "read" /\ Saves(t, next)
       /\ Stores(r, t, UpdateTarget(t, next), request[r].act, request[r].held.name)

\* Stale, or the name is taken.
Refused(r) ==
    /\ request[r].step = "read"
    /\ request' = [request EXCEPT ![r] = Done]
    /\ UNCHANGED <<row, told, was, lost>>

emit(r) ==
    /\ request[r].step = "telling"
    /\ told' = told \cup {request[r].event}
    /\ request' = [request EXCEPT ![r] = Done]
    /\ UNCHANGED <<row, was, lost>>

Die(r) ==
    /\ request[r].step = "telling"
    /\ lost' = lost \cup {<<request[r].event.target, request[r].event.version>>}
    /\ request' = [request EXCEPT ![r] = Done]
    /\ UNCHANGED <<row, told, was>>

\* Delivered again, it finds the root set.
SetRootEntity(t, e) ==
    /\ row[t] # Absent /\ row[t].root = None
    /\ row' = [row EXCEPT ![t].root = e]
    /\ UNCHANGED <<request, told, was, lost>>

Next ==
    \/ \E r \in Requests, t \in TargetIDs :
          \/ \E name \in Names : addTarget(r, t, name) \/ renameTarget(r, t, name)
          \/ archiveTarget(r, t) \/ reopenTarget(r, t)
    \/ \E r \in Requests : Save(r) \/ Refused(r) \/ emit(r) \/ Die(r)
    \/ \E t \in TargetIDs, e \in Roots : SetRootEntity(t, e)

Spec == Init /\ [][Next]_vars

-----------------------------------------------------------------------------
\* What was published of a target, put in the order of its versions, is what
\* became of it: no two tell of one version, each begins with the name the
\* one before ends with, and only what was cut short is missing.
Telling(t, v) ==
    \E r \in Requests : request[r].step = "telling" /\ request[r].event.target = t
                        /\ request[r].event.version = v
EventsAreTheHistory ==
    /\ \A e \in told :
          /\ e.to = was[e.target][e.version].name
          /\ e.version > 1 => e.from = was[e.target][e.version - 1].name
          /\ \A d \in told : d.target = e.target /\ d.version = e.version => d = e
    /\ \A t \in TargetIDs : \A v \in 1 .. row[t].version :
          \/ \E e \in told : e.target = t /\ e.version = v
          \/ Telling(t, v) \/ <<t, v>> \in lost

\* Two live targets never share a name, although archiving one frees it and
\* both may be reopened; and a root once set stays, whatever is saved of what
\* was read before it was.
NamesAreTheirOwn == \A t, q \in LiveTargets : row[t].name = row[q].name => t = q
RootIsKept == \A t \in TargetIDs : row[t].root # None => row'[t].root = row[t].root
RootsStay == [][RootIsKept]_vars
=============================================================================
