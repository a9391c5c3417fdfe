---------------------------- MODULE Engagements ------------------------------
(***************************************************************************)
(* The engagements of one firm, and its name.  An owner or an admin opens  *)
(* an engagement; who has admin on it renames it, closes it, and opens it  *)
(* again from the list that shows the closed ones.  A version keeps two    *)
(* writers apart, an index keeps the names of the open ones apart, and     *)
(* what is told of a write follows it, or is lost.  Closing gives the name *)
(* back, so that opening again may fail on it.                             *)
(*                                                                         *)
(* Every person here has confirmed their address and keeps their seat;     *)
(* module Seats has how seats and grants change.                           *)
(***************************************************************************)
EXTENDS Naturals, Sequences, FiniteSets

CONSTANTS
    Spaces,        \* identifiers not used yet
    Names,
    People,
    Role,          \* Role[p]: what p is in the firm
    MaxAsked       \* requests that a person makes at most

VARIABLES
    space,         \* space[w]: the row of the engagement
    org,           \* the row of the firm
    grant,         \* grant[p]: the engagements p has admin on
    sent,          \* the openings not consumed yet
    job,           \* job[p]: of a request
    asked,         \* asked[p]: the requests p has made
    told,          \* the events published
    versions       \* versions[r]: the states of each row, one of each version (history)

vars == <<space, org, grant, sent, job, asked, told, versions>>

Unmade == [status |-> "none", name |-> "", version |-> 0]
Idle == [step |-> "idle"]
Firm == "org"
Rows == Spaces \cup {Firm}

TypeOK ==
    /\ \A w \in Spaces : space[w] = Unmade \/
          space[w] \in [status : {"active", "archived"}, name : Names, version : Nat \ {0}]
    /\ org \in [name : Names, version : Nat \ {0}]
    /\ grant \in [People -> SUBSET Spaces]
    /\ sent \subseteq Spaces \X People
    /\ asked \in [People -> 0..MaxAsked]

Init ==
    /\ space = [w \in Spaces |-> Unmade]
    /\ org \in [name : Names, version : {1}]
    /\ grant = [p \in People |-> {}] /\ sent = {} /\ told = {}
    /\ job = [p \in People |-> Idle] /\ asked = [p \in People |-> 0]
    /\ versions = [r \in Rows |-> IF r = Firm THEN <<org>> ELSE <<>>]

-----------------------------------------------------------------------------
(* The engagement, and the rows of a firm.                                 *)

New(name) == [status |-> "active", name |-> name, version |-> 1]
Archived(row) == row.status = "archived"
Rename(row, name) == [row EXCEPT !.name = name, !.version = @ + 1]
Archive(row) == [row EXCEPT !.status = "archived", !.version = @ + 1]
Reopen(row) == [row EXCEPT !.status = "active", !.version = @ + 1]

WorkspacesForOrg == {w \in Spaces : space[w].status = "active"}
AllWorkspacesForOrg == {w \in Spaces : space[w].status # "none"}
FitsIndex(w, row) ==
    row.status = "active" => \A v \in WorkspacesForOrg \ {w} : space[v].name # row.name

ByID(w) == space[w]
OrgByID == org

\* An owner reaches every engagement, the others what they were granted.
Reach(p) == IF Role[p] = "owner" THEN Spaces ELSE grant[p]

Asks(p, next) == job' = [job EXCEPT ![p] = next]
Starts(p) == /\ job[p] = Idle /\ asked[p] < MaxAsked
             /\ asked' = [asked EXCEPT ![p] = @ + 1]
Steps(p, step) == job[p].step = step /\ UNCHANGED asked
Event(name, row, from, to) ==
    [name |-> name, of |-> row, version |-> to.version, from |-> from, to |-> to]

-----------------------------------------------------------------------------
(* Opening one.                                                            *)

MayOpen(p) == Role[p] \in {"owner", "admin"}
InsertWorkspace(w, row) ==
    /\ space[w] = Unmade /\ FitsIndex(w, row)
    /\ space' = [space EXCEPT ![w] = row] /\ versions' = [versions EXCEPT ![w] = <<row>>]
NameTaken(w, row) == ~FitsIndex(w, row)

openWorkspace(p, w, name) ==
    /\ Starts(p) /\ MayOpen(p) /\ space[w] = Unmade
    /\ Asks(p, [step |-> "create", of |-> w, row |-> New(name)])
    /\ UNCHANGED <<space, org, grant, sent, told, versions>>

Create(p) ==
    /\ Steps(p, "create")
    /\ \/ InsertWorkspace(job[p].of, job[p].row) /\ Asks(p, [job[p] EXCEPT !.step = "open"])
       \/ /\ space[job[p].of] # Unmade \/ NameTaken(job[p].of, job[p].row)
          /\ Asks(p, Idle) /\ UNCHANGED <<space, versions>>
    /\ UNCHANGED <<org, grant, sent, told>>

\* Both events in one publication, or neither.
Open(p) ==
    LET j == job[p]
        both == {Event(n, j.of, j.row, j.row) : n \in {"workspace.created", "workspace.opened"}}
    IN /\ Steps(p, "open") /\ Asks(p, Idle)
       /\ \/ told' = told \cup both /\ sent' = sent \cup {<<j.of, p>>}
          \/ UNCHANGED <<told, sent>>
       /\ UNCHANGED <<space, org, grant, versions>>

GrantOpener(w, p) ==
    /\ <<w, p>> \in sent /\ sent' = sent \ {<<w, p>>}
    /\ grant' = [grant EXCEPT ![p] = @ \cup {w}]
    /\ UNCHANGED <<space, org, job, asked, told, versions>>

-----------------------------------------------------------------------------
(* What a person sees: the reach is read, and then the rows.  The list has *)
(* the closed ones, the boot call has not.                                 *)

Shown(rows, reach) == rows \cap reach
InOrg == WorkspacesForOrg
AllForOrg == AllWorkspacesForOrg

Enter(p, screen) ==
    /\ Starts(p) /\ Asks(p, [step |-> screen, reach |-> Reach(p)])
    /\ UNCHANGED <<space, org, grant, sent, told, versions>>
handle(p) ==
    /\ Steps(p, "boot") /\ Asks(p, [step |-> "shown", rows |-> Shown(InOrg, job[p].reach)])
    /\ UNCHANGED <<space, org, grant, sent, told, versions>>
listEngagements(p) ==
    /\ Steps(p, "list") /\ Asks(p, [step |-> "shown", rows |-> Shown(AllForOrg, job[p].reach)])
    /\ UNCHANGED <<space, org, grant, sent, told, versions>>

-----------------------------------------------------------------------------
(* Renaming, closing and opening again.                                    *)

\* The door reads whether it is closed; the command reads the row again.
Door(p, w, what, closed) ==
    /\ Steps(p, "shown") /\ w \in job[p].rows /\ w \in Reach(p)
    /\ Archived(ByID(w)) = closed
    /\ Asks(p, [step |-> what, of |-> w])
    /\ UNCHANGED <<space, org, grant, sent, told, versions>>
renameEngagement(p, w) == Door(p, w, "rename", FALSE)
closeEngagement(p, w) == Door(p, w, "close", FALSE)
reopenEngagement(p, w) == Door(p, w, "reopen", TRUE)
Leave(p) ==
    /\ Steps(p, "shown") /\ Asks(p, Idle)
    /\ UNCHANGED <<space, org, grant, sent, told, versions>>

Keeps(p, w, from, next, event) ==
    /\ Asks(p, [step |-> "save", of |-> w, row |-> next, says |-> Event(event, w, from, next)])
    /\ UNCHANGED <<space, org, grant, sent, told, versions>>
Refuses(p) == Asks(p, Idle) /\ UNCHANGED <<space, org, grant, sent, told, versions>>

RenameRead(p, name) ==
    LET row == ByID(job[p].of)
    IN /\ Steps(p, "rename")
       /\ IF Archived(row) \/ row.name = name THEN Refuses(p)
          ELSE Keeps(p, job[p].of, row, Rename(row, name), "workspace.renamed")
CloseRead(p) ==
    LET row == ByID(job[p].of)
    IN /\ Steps(p, "close")
       /\ IF Archived(row) THEN Refuses(p)
          ELSE Keeps(p, job[p].of, row, Archive(row), "workspace.archived")
ReopenRead(p) ==
    LET row == ByID(job[p].of)
    IN /\ Steps(p, "reopen")
       /\ IF ~Archived(row) THEN Refuses(p)
          ELSE Keeps(p, job[p].of, row, Reopen(row), "workspace.reopened")

\* The firm's own name needs no other to differ from it.
renameOrg(p, name) ==
    LET next == Rename(OrgByID, name)
    IN /\ Starts(p) /\ Role[p] \in {"owner", "admin"}
       /\ IF name = OrgByID.name THEN Refuses(p)
          ELSE Keeps(p, Firm, OrgByID, next, "org.renamed")

\* A write is of the version that was read, or is none.
Fresh(held, row) == held.version = row.version - 1
UpdateWorkspace(w, row) ==
    /\ Fresh(space[w], row) /\ FitsIndex(w, row) /\ space' = [space EXCEPT ![w] = row]
UpdateOrg(row) == Fresh(org, row) /\ org' = row

Told(p) == /\ Asks(p, [step |-> "tell", says |-> job[p].says])
           /\ versions' = [versions EXCEPT ![job[p].of] = Append(@, job[p].row)]
Save(p) ==
    /\ Steps(p, "save") /\ job[p].of # Firm
    /\ \/ UpdateWorkspace(job[p].of, job[p].row) /\ Told(p)
       \/ /\ ~Fresh(space[job[p].of], job[p].row) \/ NameTaken(job[p].of, job[p].row)
          /\ Asks(p, Idle) /\ UNCHANGED <<space, versions>>
    /\ UNCHANGED <<org, grant, sent, told>>
SaveOrg(p) ==
    /\ Steps(p, "save") /\ job[p].of = Firm
    /\ \/ UpdateOrg(job[p].row) /\ Told(p)
       \/ ~Fresh(org, job[p].row) /\ Asks(p, Idle) /\ UNCHANGED <<org, versions>>
    /\ UNCHANGED <<space, grant, sent, told>>
emit(p) ==
    /\ Steps(p, "tell") /\ Asks(p, Idle)
    /\ told' \in {told, told \cup {job[p].says}}
    /\ UNCHANGED <<space, org, grant, sent, versions>>

Next ==
    \/ \E p \in People :
          \/ \E name \in Names :
                renameOrg(p, name) \/ RenameRead(p, name) \/ \E w \in Spaces : openWorkspace(p, w, name)
          \/ \E screen \in {"boot", "list"} : Enter(p, screen)
          \/ handle(p) \/ listEngagements(p) \/ Leave(p)
          \/ Create(p) \/ Open(p) \/ CloseRead(p) \/ ReopenRead(p) \/ Save(p) \/ SaveOrg(p) \/ emit(p)
          \/ \E w \in Spaces : \/ renameEngagement(p, w) \/ closeEngagement(p, w)
                               \/ reopenEngagement(p, w) \/ GrantOpener(w, p)

Spec == Init /\ [][Next]_vars

-----------------------------------------------------------------------------
\* The events of an engagement, and of the firm, are its history: each tells the
\* version it has made and the one it was made of, so that whoever reads them
\* after it is closed can follow its name; and none tells of what was not stored.
EventsAreVersions ==
    \A e \in told :
        /\ versions[e.of][e.version] = e.to
        /\ e.version > 1 => versions[e.of][e.version - 1] = e.from

\* The open engagements of a firm are told apart by their names, also when one
\* is opened again whose name was given back.
NamesAreTheirOwn ==
    \A w, v \in WorkspacesForOrg : space[w].name = space[v].name => w = v

\* What is closed is left alone: it changes by being opened again, under the name
\* it was closed with, and by no rename or close that had read it open.
ClosedIsLeftAlone ==
    \A w \in Spaces : Archived(space[w]) =>
        space'[w] \in {space[w], [space[w] EXCEPT !.status = "active", !.version = @ + 1]}
=============================================================================
