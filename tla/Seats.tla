------------------------------- MODULE Seats -------------------------------
(***************************************************************************)
(* How people come into an org, and what they then may do on one of its    *)
(* workspaces: invitations, memberships and grants.                        *)
(*                                                                         *)
(* A request reads, decides on what it read, and writes.  A membership and *)
(* a grant are written under the version that was read; an invitation is   *)
(* not: SaveInvite writes all three of its lifecycle columns, by id.  The  *)
(* opener's grant is written by a subscriber, whose event is delivered     *)
(* again until it is drained.  An address stands for the account it is of. *)
(***************************************************************************)
EXTENDS Naturals, FiniteSets

CONSTANTS
    Accounts, Invitations, Requests,
    SeatRoles,                     \* the roles in use: owner, admin, member, client
    Given                          \* the levels in use, of read, write and admin

ASSUME SeatRolesAssumption == "owner" \in SeatRoles /\ "none" \notin SeatRoles
ASSUME GivenAssumption == Given \subseteq 1 .. 3

VARIABLES
    seat,      \* seat[a]: a's live membership, or none
    lapsed,    \* members whose time box has passed
    grant,     \* grant[a]: a's stored level on the workspace, 0 for no row
    invite,    \* invite[i]: the invitation's row
    job,       \* job[p]: what request p has read and is about to write
    opened,    \* openers whose workspace.opened is not drained
    seated     \* invitations that have made a membership (history)

vars == <<seat, lapsed, grant, invite, job, opened, seated>>

Levels == Given \cup {0, 3}            \* 0 is none, 3 is admin
Managers == {"owner", "admin"}
Boxed == {"guest", "client"}

Ceiling(r) == IF r \in Managers THEN 3 ELSE IF r \in {"member", "guest"} THEN 2 ELSE 1

Unsent == [to |-> "nobody"]
Invites == [to : Accounts, as : SeatRoles, level : Levels,
            expired : BOOLEAN, taken : BOOLEAN, withdrawn : BOOLEAN]

Idle == [step |-> "idle"]
Jobs == [step : {"find", "withdraw", "create", "take", "revoke", "put", "drop",
                 "remove", "role"},
         on : Accounts, as : SeatRoles \cup {"none"}, level : Levels,
         row : Invitations \cup {"no row"}, stale : BOOLEAN]

TypeOK ==
    /\ seat \in [Accounts -> SeatRoles \cup {"none"}]
    /\ lapsed \subseteq {a \in Accounts : seat[a] \in Boxed}
    /\ grant \in [Accounts -> Levels]
    /\ invite \in [Invitations -> {Unsent} \cup Invites]
    /\ \A i \in Invitations : invite[i] # Unsent => ~(invite[i].taken /\ invite[i].withdrawn)
    /\ job \in [Requests -> {Idle} \cup Jobs]
    /\ opened \subseteq Accounts
    /\ seated \subseteq Invitations

\* An org whose owner has just opened the workspace.
Init ==
    /\ seat \in [Accounts -> SeatRoles \cup {"none"}]
    /\ \E a \in Accounts : seat[a] = "owner" /\ opened = {a}
    /\ lapsed = {}
    /\ grant = [a \in Accounts |-> 0]
    /\ invite = [i \in Invitations |-> Unsent]
    /\ job = [p \in Requests |-> Idle]
    /\ seated = {}

-----------------------------------------------------------------------------
(* The gate.                                                               *)

\* LiveMemberFor: the membership that has not ended, whatever its time box.
Member(a) == seat[a] # "none"

\* Effective: the owner's exemption, and everybody else's grant, capped.
Effective(a) ==
    IF seat[a] = "owner" THEN 3
    ELSE IF grant[a] > Ceiling(seat[a]) THEN Ceiling(seat[a]) ELSE grant[a]

\* Access.In and Reach.On: a membership that has lapsed is none at all.
Reach(a) == IF ~Member(a) \/ a \in lapsed THEN 0 ELSE Effective(a)

Manages(c) == seat[c] \in Managers
MayAdminister(c) == Reach(c) = 3
WithinCeiling(r, l) == l <= Ceiling(r)
NotAlreadyIn(a) == ~Member(a)
Live(i) == invite[i] # Unsent /\ ~invite[i].taken /\ ~invite[i].withdrawn
LiveFor(a) == {i \in Invitations : Live(i) /\ invite[i].to = a}

Start(p, step, a, r, l, i) ==
    /\ job[p] = Idle
    /\ job' = [job EXCEPT ![p] = [step |-> step, on |-> a, as |-> r, level |-> l,
                                  row |-> i, stale |-> FALSE]]
    /\ UNCHANGED <<seat, lapsed, grant, invite, opened, seated>>

At(p, step) == job[p].step = step

\* p is done: whoever else has read one of the rows it wrote is a version behind.
DoneHaving(p, memberships, grants) ==
    job' = [q \in Requests |->
              IF q = p THEN Idle
              ELSE IF \/ At(q, "remove") /\ job[q].on \in memberships
                      \/ At(q, "role") /\ job[q].on \in memberships
                      \/ At(q, "put") /\ job[q].on \in grants
                   THEN [job[q] EXCEPT !.stale = TRUE] ELSE job[q]]

Done(p) == DoneHaving(p, {}, {})

\* A request is refused, fails, or dies with its process.
Abort(p) ==
    /\ job[p] # Idle
    /\ Done(p)
    /\ UNCHANGED <<seat, lapsed, grant, invite, opened, seated>>

-----------------------------------------------------------------------------
(* Sending an invitation consumes the one that is outstanding.             *)

AskSend(p, c, a, r, l) ==
    /\ Manages(c)
    /\ r = "owner" => seat[c] = "owner"
    /\ NotAlreadyIn(a)
    /\ l > 0 => MayAdminister(c) /\ WithinCeiling(r, l)
    /\ Start(p, "find", a, r, l, "no row")

\* LiveInviteFor: at most one row, by the partial index.
FindLive(p) ==
    /\ At(p, "find")
    /\ \/ /\ LiveFor(job[p].on) = {}
          /\ job' = [job EXCEPT ![p].step = "create"]
       \/ \E i \in LiveFor(job[p].on) :
             job' = [job EXCEPT ![p].step = "withdraw", ![p].row = i]
    /\ UNCHANGED <<seat, lapsed, grant, invite, opened, seated>>

\* What the domain makes of a live row: its lifecycle columns.
AcceptedInvite == [taken |-> TRUE, withdrawn |-> FALSE]
RevokedInvite == [taken |-> FALSE, withdrawn |-> TRUE]

\* Mutant: a withdrawal leaves the column as it is.
SaveInviteUnchanged(i, made) ==
    invite' = [invite EXCEPT ![i].taken = made.taken]

\* SaveInvite: what the request made of the row it read, whatever it is by now.
SaveInvite(i, made) ==
    invite' = [invite EXCEPT ![i].taken = made.taken, ![i].withdrawn = made.withdrawn]

Withdraw(p) ==
    /\ At(p, "withdraw")
    /\ SaveInvite(job[p].row, RevokedInvite)
    /\ job' = [job EXCEPT ![p].step = "create"]
    /\ UNCHANGED <<seat, lapsed, grant, opened, seated>>

NewInvite(j) ==
    [to |-> j.on, as |-> j.as, level |-> j.level,
     expired |-> FALSE, taken |-> FALSE, withdrawn |-> FALSE]

InsertInvite(i, j) == invite' = [invite EXCEPT ![i] = NewInvite(j)]

\* Box: a role that is boxed in time needs a date, and the request names none.
Box(r) == r \notin Boxed

\* CreateInvite under the index invite_live, and the mail after it.
CreateInvite(p) ==
    /\ At(p, "create")
    /\ IF ~Box(job[p].as) \/ LiveFor(job[p].on) # {} THEN UNCHANGED invite
       ELSE \E i \in Invitations : invite[i] = Unsent /\ InsertInvite(i, job[p])
    /\ Done(p)
    /\ UNCHANGED <<seat, lapsed, grant, opened, seated>>

\* Seven days pass.
LinkExpires(i) ==
    /\ Live(i) /\ ~invite[i].expired
    /\ invite' = [invite EXCEPT ![i].expired = TRUE]
    /\ UNCHANGED <<seat, lapsed, grant, job, opened, seated>>

AskRevoke(p, c, i) ==
    /\ Manages(c)
    /\ Live(i)
    /\ Start(p, "revoke", invite[i].to, "none", 0, i)

RevokeInvite(p) ==
    /\ At(p, "revoke")
    /\ SaveInvite(job[p].row, RevokedInvite)
    /\ Done(p)
    /\ UNCHANGED <<seat, lapsed, grant, opened, seated>>

-----------------------------------------------------------------------------
(* Accepting writes the row, the membership and the first grant together.  *)

AskAccept(p, a, i) ==
    /\ Live(i) /\ ~invite[i].expired
    /\ invite[i].to = a
    /\ Start(p, "take", a, invite[i].as, invite[i].level, i)

\* The indexes member_live_account and grant_member_workspace.
AddMember(a, r) == seat' = [seat EXCEPT ![a] = r]
MayJoin(a, l) == seat[a] = "none" /\ (l > 0 => grant[a] = 0)

\* Mutant: the row is saved before the transaction that seats the account.
AcceptInTwo(p) ==
    /\ At(p, "take")
    /\ SaveInvite(job[p].row, AcceptedInvite)
    /\ IF MayJoin(job[p].on, job[p].level)
       THEN /\ AddMember(job[p].on, job[p].as)
            /\ seated' = seated \cup {job[p].row}
       ELSE UNCHANGED <<seat, seated>>
    /\ Done(p)
    /\ UNCHANGED <<grant, lapsed, opened>>

Accept(p) ==
    /\ At(p, "take")
    /\ LET a == job[p].on IN
       IF MayJoin(a, job[p].level)
       THEN /\ SaveInvite(job[p].row, AcceptedInvite)
            /\ AddMember(a, job[p].as)
            /\ grant' = [grant EXCEPT ![a] = IF job[p].level > 0 THEN job[p].level ELSE @]
            /\ seated' = seated \cup {job[p].row}
            /\ DoneHaving(p, {a}, {a})
       ELSE Done(p) /\ UNCHANGED <<seat, grant, invite, seated>>
    /\ UNCHANGED <<lapsed, opened>>

-----------------------------------------------------------------------------
(* Grants.                                                                 *)

\* The row of a person on the workspace, there or not.
InsertGrant(a, l) == grant' = [grant EXCEPT ![a] = l]

\* mayAdminister, withinCeiling, and GrantFor, whose level is kept.
AskSet(p, c, a, l) ==
    /\ MayAdminister(c)
    /\ Member(a) /\ WithinCeiling(seat[a], l)
    /\ grant[a] # l
    /\ Start(p, "put", a, IF grant[a] = 0 THEN "none" ELSE "owner", l, "no row")

\* AddGrant when GrantFor found nothing, SaveGrant under its version otherwise.
Fits(p) == IF job[p].as = "none" THEN grant[job[p].on] = 0 ELSE ~job[p].stale

SetGrant(p) ==
    /\ At(p, "put")
    /\ IF Fits(p)
       THEN /\ InsertGrant(job[p].on, job[p].level)
            /\ DoneHaving(p, {}, {job[p].on})
       ELSE Done(p) /\ UNCHANGED grant
    /\ UNCHANGED <<seat, lapsed, invite, opened, seated>>

AskDrop(p, c, a) ==
    /\ MayAdminister(c)
    /\ grant[a] > 0
    /\ Start(p, "drop", a, "none", 0, "no row")

DeleteGrant(a) == grant' = [grant EXCEPT ![a] = 0]

RevokeGrant(p) ==
    /\ At(p, "drop")
    /\ DeleteGrant(job[p].on)
    /\ DoneHaving(p, {}, {job[p].on})
    /\ UNCHANGED <<seat, lapsed, invite, opened, seated>>

\* The opener's grant; the event is drained now, or delivered once more.
GrantOpener(a) ==
    /\ a \in opened
    /\ InsertGrant(a, IF grant[a] = 0 THEN 3 ELSE grant[a])
    /\ opened' \in {opened, opened \ {a}}
    /\ job' = [q \in Requests |->
                 IF At(q, "put") /\ job[q].on = a /\ grant[a] = 0
                 THEN [job[q] EXCEPT !.stale = TRUE] ELSE job[q]]
    /\ UNCHANGED <<seat, lapsed, invite, seated>>

-----------------------------------------------------------------------------
(* Leaving, being removed, and changing role (module Ownership has the     *)
(* locks under which the owners are counted: here a count is one step).    *)

Owners == {a \in Accounts : seat[a] = "owner"}
KeepsAnOwner(a) == seat[a] = "owner" => Owners # {a}

AskRemove(p, c, a) ==
    /\ Member(c) /\ Member(a)
    /\ c # a => Manages(c) /\ (seat[a] = "owner" => seat[c] = "owner")
    /\ Start(p, "remove", a, "none", 0, "no row")

\* In the transaction that archives the membership.
RevokeGrantsFor(a) == grant' = [grant EXCEPT ![a] = 0]

Remove(p) ==
    /\ At(p, "remove")
    /\ LET a == job[p].on IN
       IF job[p].stale \/ ~KeepsAnOwner(a)
       THEN Done(p) /\ UNCHANGED <<seat, lapsed, grant>>
       ELSE /\ seat' = [seat EXCEPT ![a] = "none"]
            /\ lapsed' = lapsed \ {a}
            /\ RevokeGrantsFor(a)
            /\ DoneHaving(p, {a}, {a})
    /\ UNCHANGED <<invite, opened, seated>>

AskRole(p, c, a, r) ==
    /\ Manages(c)
    /\ seat[a] \notin {"none", r}
    /\ "owner" \in {r, seat[a]} => seat[c] = "owner"
    /\ Start(p, "role", a, r, 0, "no row")

\* ChangeRoleUntil: the time box goes with the role.  The grant stays.
ChangeRole(p) ==
    /\ At(p, "role")
    /\ LET a == job[p].on IN
       IF job[p].stale \/ ~KeepsAnOwner(a)
       THEN Done(p) /\ UNCHANGED <<seat, lapsed>>
       ELSE /\ seat' = [seat EXCEPT ![a] = job[p].as]
            /\ lapsed' = lapsed \ {a}
            /\ DoneHaving(p, {a}, {})
    /\ UNCHANGED <<grant, invite, opened, seated>>

BoxPasses(a) ==
    /\ seat[a] \in Boxed
    /\ lapsed' = lapsed \cup {a}
    /\ UNCHANGED <<seat, grant, invite, job, opened, seated>>

-----------------------------------------------------------------------------
(* The handlers, on whatever a caller sends.                               *)

Invite(p) == \E c, a \in Accounts, r \in SeatRoles, l \in Given \cup {0} : AskSend(p, c, a, r, l)
revokeInvite(p) == \E c \in Accounts, i \in Invitations : AskRevoke(p, c, i)
acceptInvite(p) == \E a \in Accounts, i \in Invitations : AskAccept(p, a, i)

\* inOrg authenticates and leaves the rule to the command.
changeRole(p) == \E c, a \in Accounts, r \in SeatRoles : AskRole(p, c, a, r)
removeMember(p) == \E c, a \in Accounts : AskRemove(p, c, a)

onWorkspace(c, level) == Reach(c) >= level
setGrant(p) ==
    \E c, a \in Accounts, l \in Given : onWorkspace(c, 1) /\ AskSet(p, c, a, l)
revokeGrant(p) ==
    \E c, a \in Accounts : onWorkspace(c, 1) /\ AskDrop(p, c, a)

Next ==
    \/ \E p \in Requests :
          \/ Invite(p) \/ acceptInvite(p) \/ revokeInvite(p)
          \/ setGrant(p) \/ revokeGrant(p) \/ changeRole(p) \/ removeMember(p)
          \/ Abort(p)
          \/ FindLive(p) \/ Withdraw(p) \/ CreateInvite(p)
          \/ RevokeInvite(p) \/ Accept(p)
          \/ SetGrant(p) \/ RevokeGrant(p)
          \/ Remove(p) \/ ChangeRole(p)
    \/ \E a \in Accounts : GrantOpener(a) \/ BoxPasses(a)
    \/ \E i \in Invitations : LinkExpires(i)

Spec == Init /\ [][Next]_vars

-----------------------------------------------------------------------------
\* What an invitation's row says of the membership it stands for: a row that
\* was taken has seated somebody, and one that has seated somebody is spent,
\* whoever withdrew it, replaced it or took it at the same time.
RowsTellTheSeats == \A i \in Invitations :
    /\ invite[i] # Unsent /\ invite[i].taken => i \in seated
    /\ i \in seated => ~Live(i)

\* A link that was spent or withdrawn is never good again, although every
\* write of its row is blind.
StaysDead == \A i \in Invitations : invite[i] # Unsent /\ ~Live(i) => ~Live(i)'
NeverLiveAgain == [][StaysDead]_vars
=============================================================================
