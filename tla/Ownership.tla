------------------------------ MODULE Ownership ------------------------------
(***************************************************************************)
(* One org and who owns it.  Requests change roles, remove members and     *)
(* close accounts side by side; a dispatcher ends the memberships of an    *)
(* account that was closed.  Each of them reads, decides and writes in     *)
(* statements of their own, under READ COMMITTED, and only a request that  *)
(* unmakes an owner holds row locks from its count to its write.           *)
(*                                                                         *)
(* A process that has read a membership writes it back under the version   *)
(* it read: it is stale once anybody else has written that row.  Guests    *)
(* and clients are members here, and nobody joins (see module Seats).      *)
(***************************************************************************)
EXTENDS Naturals, FiniteSets

CONSTANTS
    Accounts, Requests, Dispatchers,
    Roles,                         \* those in use: owner, admin, member
    MaxTries                       \* failures before account.archived is buried

ASSUME MaxTriesAssumption == MaxTries \in Nat \ {0}
ASSUME RolesAssumption == "owner" \in Roles /\ "none" \notin Roles
ASSUME ApartAssumption == Requests \cap Dispatchers = {}

Processes == Requests \cup Dispatchers
Managers == {"owner", "admin"}
Seats == Roles \cup {"none"}           \* none: no live membership

VARIABLES
    role,      \* role[a]: a's seat in the org
    closed,    \* archived accounts
    job,       \* job[p]: what p is about, and how far it has come
    owed,      \* account.archived events that are neither drained nor buried
    tries,     \* tries[a]: their failed deliveries
    buried,
    unread     \* those whose membership a departure failed to read, and passed over

vars == <<role, closed, job, owed, tries, buried, unread>>

Idle == [step |-> "idle"]
Steps == {"target", "owners", "lock", "decide", "write", "count", "save", "close", "publish"}
Jobs == [step : Steps, on : Accounts, as : Seats, free : BOOLEAN,
         rows : SUBSET Accounts, stale : BOOLEAN]

Owners == {a \in Accounts : role[a] = "owner"}
Members == {a \in Accounts : role[a] # "none"}

TypeOK ==
    /\ role \in [Accounts -> Seats]
    /\ closed \in SUBSET Accounts
    /\ job \in [Processes -> {Idle} \cup Jobs]
    /\ owed \in SUBSET closed /\ buried \in SUBSET closed /\ unread \in SUBSET closed
    /\ tries \in [Accounts -> 0 .. MaxTries]

\* An org some time after its founding.
Init ==
    /\ role \in [Accounts -> Seats]
    /\ Owners # {}
    /\ closed = {}
    /\ job = [p \in Processes |-> Idle]
    /\ owed = {} /\ buried = {} /\ unread = {}
    /\ tries = [a \in Accounts |-> 0]

-----------------------------------------------------------------------------
(* Rows, locks and versions.                                               *)

At(p, step) == job[p].step = step
Goto(p, step) == job' = [job EXCEPT ![p].step = step]
End(p) == job' = [job EXCEPT ![p] = Idle]

\* Mutant: the count is made outside the transaction and keeps nothing.
LockedNot(p) == {}

\* What a transaction that has counted the owners keeps from everybody else.
\* A dispatcher opens no transaction: its locks end with the statement.
Locked(p) == IF At(p, "decide") THEN job[p].rows ELSE {}
FreeOfOthers(p, rows) == \A q \in Processes \ {p} : Locked(q) \cap rows = {}

\* p writes the row of the membership it is about, and every other copy of
\* that row is a version behind from here on.
Seat(p, seat) ==
    /\ role' = [role EXCEPT ![job[p].on] = seat]
    /\ job' = [q \in Processes |->
                 IF q = p THEN Idle
                 ELSE IF job[q] # Idle /\ job[q].on = job[p].on
                      THEN [job[q] EXCEPT !.stale = TRUE] ELSE job[q]]

\* LockLiveOwners: the rows of a snapshot, each waited for and looked at again.
SnapOwners(p) ==
    /\ At(p, "owners")
    /\ job' = [job EXCEPT ![p].rows = Owners, ![p].step = "lock"]
    /\ UNCHANGED <<role, closed, owed, tries, buried, unread>>

LockOwners(p) ==
    /\ At(p, "lock")
    /\ FreeOfOthers(p, job[p].rows)
    /\ job' = [job EXCEPT ![p].rows = @ \cap Owners,
                          ![p].step = IF p \in Requests THEN "decide" ELSE "count"]
    /\ UNCHANGED <<role, closed, owed, tries, buried, unread>>

-----------------------------------------------------------------------------
(* A role is changed, or a membership ended (the seat it becomes is none). *)

MayAsk(c, a, seat) ==
    /\ c \notin closed
    /\ role[c] # "none"
    /\ c # a => role[c] \in Managers
    /\ seat # "none" => role[c] \in Managers

\* pair reads the caller's membership and then the target's.
Ask(q, c, a, seat) ==
    /\ At(q, "idle")
    /\ MayAsk(c, a, seat)
    /\ job' = [job EXCEPT ![q] =
                 [step |-> "target", on |-> a, as |-> seat,
                  free |-> role[c] = "owner" \/ (c = a /\ seat = "none"),
                  rows |-> {}, stale |-> FALSE]]
    /\ UNCHANGED <<role, closed, owed, tries, buried, unread>>

\* Only an owner makes or unmakes an owner, but anybody may leave.
Entitled(q, held) == job[q].free \/ (job[q].as # "owner" /\ held # "owner")

ReadTarget(q) ==
    /\ At(q, "target")
    /\ LET held == role[job[q].on]
       IN  IF held = "none" \/ held = job[q].as \/ ~Entitled(q, held)
           THEN End(q)
           ELSE job' = [job EXCEPT ![q].stale = FALSE, ![q].free = FALSE,
                          ![q].step = IF held = "owner" THEN "owners" ELSE "write"]
    /\ UNCHANGED <<role, closed, owed, tries, buried, unread>>

\* keepAnOwner and the write, under the locks.
OthersRemain(q) == job[q].rows \ {job[q].on} # {}

Decide(q) ==
    /\ At(q, "decide")
    /\ IF OthersRemain(q) /\ ~job[q].stale
       THEN Seat(q, job[q].as)
       ELSE End(q) /\ UNCHANGED role                \* ErrLastOwner, ErrStaleWrite
    /\ UNCHANGED <<closed, owed, tries, buried, unread>>

\* The target was no owner: no count, and the row lock of the UPDATE alone.
Write(q) ==
    /\ At(q, "write")
    /\ FreeOfOthers(q, {job[q].on})
    /\ IF job[q].stale THEN End(q) /\ UNCHANGED role ELSE Seat(q, job[q].as)
    /\ UNCHANGED <<closed, owed, tries, buried, unread>>

-----------------------------------------------------------------------------
(* Somebody closes an account: org is asked first, identity archives it,   *)
(* and the event is published, each in a statement of its own.             *)

AskClose(q, a) ==
    /\ At(q, "idle")
    /\ a \notin closed
    /\ ~(Owners = {a} /\ Members # {a})             \* Stranding
    /\ job' = [job EXCEPT ![q] =
                 [step |-> "close", on |-> a, as |-> "none", free |-> FALSE,
                  rows |-> {}, stale |-> FALSE]]
    /\ UNCHANGED <<role, closed, owed, tries, buried, unread>>

Archive(q) ==
    /\ At(q, "close")
    /\ IF job[q].on \in closed
       THEN End(q) /\ UNCHANGED closed
       ELSE Goto(q, "publish") /\ closed' = closed \cup {job[q].on}
    /\ UNCHANGED <<role, owed, tries, buried, unread>>

PublishArchived(q) ==
    /\ At(q, "publish")
    /\ owed' = owed \cup {job[q].on}
    /\ End(q)
    /\ UNCHANGED <<role, closed, tries, buried, unread>>

\* A request goes no further: its transaction is undone, and a closing that
\* got as far as the account is not resumed.
Dies(q) ==
    /\ ~At(q, "idle")
    /\ End(q)
    /\ UNCHANGED <<role, closed, owed, tries, buried, unread>>

-----------------------------------------------------------------------------
(* Departures, on account.archived: the same count without a transaction.  *)

\* A delivery of the event is answered with an error: later again, or never.
\* An event that another dispatcher has drained has no row to count it on.
Failed(a) ==
    IF a \in owed
    THEN /\ tries' = [tries EXCEPT ![a] = @ + 1]
         /\ IF tries'[a] = MaxTries
            THEN owed' = owed \ {a} /\ buried' = buried \cup {a}
            ELSE UNCHANGED <<owed, buried>>
    ELSE UNCHANGED <<owed, tries, buried>>

\* Whatever LiveMemberFor answers but a membership is taken for one that has
\* ended, a failed read as well: the handler passes over it and succeeds.
Deliver(d, a) ==
    /\ At(d, "idle")
    /\ a \in owed
    /\ \/ /\ Failed(a)                              \* the orgs are not read
          /\ UNCHANGED <<job, unread>>
       \/ /\ owed' = owed \ {a}
          /\ unread' = IF role[a] = "none" THEN unread ELSE unread \cup {a}
          /\ UNCHANGED <<job, tries, buried>>
       \/ /\ role[a] # "none"
          /\ job' = [job EXCEPT ![d] =
                      [step |-> IF role[a] = "owner" THEN "owners" ELSE "save",
                       on |-> a, as |-> "none", free |-> FALSE,
                       rows |-> {}, stale |-> FALSE]]
          /\ UNCHANGED <<owed, tries, buried, unread>>
    /\ UNCHANGED <<role, closed>>

\* Mutant: a delivery that fails is neither counted nor tried again.
DeliveryFailsUncounted(d) ==
    /\ owed' = owed \ {job[d].on}
    /\ End(d)
    /\ UNCHANGED <<role, tries, buried>>

\* The handler goes no further with the membership it has read.
DeliveryFails(d) ==
    /\ Failed(job[d].on)
    /\ End(d)
    /\ UNCHANGED role

\* One of the reads and writes after it fails, the last one with the seat gone.
Errs(d) ==
    /\ ~At(d, "idle")
    /\ DeliveryFails(d)
    /\ UNCHANGED <<closed, unread>>

\* Nobody else may be left without an owner; an org of one may be left empty.
Strands(d) ==
    /\ job[d].rows \ {job[d].on} = {}
    /\ Members \ {job[d].on} # {}

Count(d) ==
    /\ At(d, "count")
    /\ IF Strands(d)
       THEN DeliveryFails(d)
       ELSE Goto(d, "save") /\ UNCHANGED <<role, owed, tries, buried>>
    /\ UNCHANGED <<closed, unread>>

\* The grants of the one who left are taken back last, and that may fail.
Save(d) ==
    /\ At(d, "save")
    /\ FreeOfOthers(d, {job[d].on})
    /\ IF job[d].stale
       THEN DeliveryFails(d)
       ELSE /\ Seat(d, "none")
            /\ \/ owed' = owed \ {job[d].on} /\ UNCHANGED <<tries, buried>>
               \/ Failed(job[d].on)
    /\ UNCHANGED <<closed, unread>>

-----------------------------------------------------------------------------
Request(q) ==
    \/ \E c, a \in Accounts, seat \in Seats : Ask(q, c, a, seat)
    \/ \E a \in Accounts : AskClose(q, a)
    \/ ReadTarget(q) \/ SnapOwners(q) \/ LockOwners(q) \/ Decide(q) \/ Write(q)
    \/ Archive(q) \/ PublishArchived(q)
    \/ Dies(q)

Departure(d) ==
    \/ \E a \in Accounts : Deliver(d, a)
    \/ SnapOwners(d) \/ LockOwners(d) \/ Count(d) \/ Save(d)
    \/ Errs(d)

Next ==
    \/ \E q \in Requests : Request(q)
    \/ \E d \in Dispatchers : Departure(d)

Spec == Init /\ [][Next]_vars

\* A dispatcher goes on (strongly: it queues for a row that requests keep
\* locking), and no transaction stays open for ever.
FairSpec ==
    /\ Spec
    /\ \A d \in Dispatchers : SF_vars(Departure(d))
    /\ \A q \in Requests : WF_vars(Decide(q))

-----------------------------------------------------------------------------
(* Properties.                                                             *)

\* However requests interleave, none of them takes the last owner away.
RequestsKeepAnOwner ==
    [][\A q \in Requests : (Decide(q) \/ Write(q)) /\ Owners # {} => Owners' # {}]_vars

\* An account that was closed leaves the org, or the buried event says why not.
\* The one way out is a membership that could not be read: the handler passes
\* it over as if it had ended, and nothing comes back to it.
Departs ==
    \A a \in Accounts :
        a \in owed ~> role[a] = "none" \/ a \in buried \/ a \in unread

\* departures.go: the handler fails loudly rather than leave an org to members
\* without an owner, "with nothing anywhere saying so".
NobodyIsStranded == Members # {} => Owners # {} \/ buried # {}
=============================================================================
