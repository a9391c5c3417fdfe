---------------------------- MODULE Registration ----------------------------
(***************************************************************************)
(* The registration chain: an account is registered, its org provisions    *)
(* itself from identity.account.created, and the org's first workspace     *)
(* from org.created.  The links know each other only through the outbox,   *)
(* which is taken here at its word (module Delivery, which module Outbox   *)
(* implements): every event is handed to both handlers, at least once,     *)
(* possibly by two dispatchers at a time.                                  *)
(*                                                                         *)
(* A handler opens no transaction, so each of its writes is a step of its  *)
(* own and the process may die, or the database refuse, between any two.   *)
(***************************************************************************)
EXTENDS Naturals, FiniteSets

CONSTANTS
    Accounts,
    Dispatchers,
    MaxAttempts,   \* deliveries that may fail before an event is buried
    MaxFaults      \* bound: deaths and refused writes in a behaviour

Handlers == {"orgs", "workspaces"}          \* root/boot.go lists orgs first
Events == {"account.created", "org.created", "workspace.created"} \X Accounts
AccountCreated(a) == <<"account.created", a>>
OrgCreated(a) == <<"org.created", a>>
WorkspaceCreated(a) == <<"workspace.created", a>>

VARIABLES
    status, handled,   \* the outbox: see Delivery
    attempts,          \* failed deliveries of an event
    accounts,          \* registered
    verified,          \* accounts whose address is confirmed
    orgs,              \* accounts whose event has an org row (org_source_event)
    owners,            \* accounts with the owner's seat in that org
    homes,             \* orgs whose event has a workspace row (workspace_source_event)
    named,             \* orgs with a live workspace called "Personal"
                       \* (workspace_live_name)
    doing,             \* doing[d]: the event d delivers, its attempts at the claim,
                       \* the handler it is in and the step it is at
    faults,
    torn               \* history: accounts whose org was left half made

outbox == <<status, handled>>
rows == <<accounts, verified, orgs, owners, homes, named>>
vars == <<outbox, attempts, rows, doing, faults, torn>>

D == INSTANCE Delivery

Idle == [event |-> <<"none">>, tried |-> 0, handler |-> "none", step |-> "none"]
Steps == {"row", "owner", "announce", "return", "drain"}

TypeOK ==
    /\ status \in [Events -> D!Status]
    /\ handled \in [Handlers -> SUBSET Events]
    /\ attempts \in [Events -> Nat]
    /\ accounts \in SUBSET Accounts /\ verified \in SUBSET accounts
    /\ orgs \in SUBSET Accounts /\ owners \in SUBSET Accounts
    /\ homes \in SUBSET Accounts /\ named \in SUBSET Accounts
    /\ doing \in [Dispatchers ->
            {Idle} \cup [event : Events, tried : Nat, handler : Handlers, step : Steps]]
    /\ faults \in 0 .. MaxFaults
    /\ torn \in SUBSET Accounts

Init ==
    /\ D!Init
    /\ attempts = [e \in Events |-> 0]
    /\ accounts = {} /\ verified = {}
    /\ orgs = {} /\ owners = {}
    /\ homes = {} /\ named = {}
    /\ doing = [d \in Dispatchers |-> Idle]
    /\ faults = 0
    /\ torn = {}

-----------------------------------------------------------------------------
(* What people do.                                                         *)

\* The account, its password and its event are one transaction.
Register(a) ==
    /\ a \notin accounts
    /\ accounts' = accounts \cup {a}
    /\ D!Publish(AccountCreated(a))
    /\ UNCHANGED <<attempts, verified, orgs, owners, homes, named, doing, faults, torn>>

\* A link can be asked for at any time: it does not wait for the chain.
Verify(a) ==
    /\ a \in accounts \ verified
    /\ verified' = verified \cup {a}
    /\ UNCHANGED <<outbox, attempts, accounts, orgs, owners, homes, named, doing, faults, torn>>

\* The owner opens an engagement under the name the chain uses.
OpenPersonal(a) ==
    /\ a \in verified \cap owners
    /\ a \notin named                               \* else ErrNameTaken
    /\ named' = named \cup {a}
    /\ UNCHANGED <<outbox, attempts, accounts, verified, orgs, owners, homes, doing, faults, torn>>

\* The workspace of that name is renamed, or closed: the name is free again.
FreeName(a) ==
    /\ a \in owners \cap named
    /\ named' = named \ {a}
    /\ UNCHANGED <<outbox, attempts, accounts, verified, orgs, owners, homes, doing, faults, torn>>

-----------------------------------------------------------------------------
(* A delivery: the handlers in their order, one write at a time.           *)

Busy(d) == doing[d] # Idle
Event(d) == doing[d].event
Account(d) == doing[d].event[2]
At(d, h, step) == doing[d].handler = h /\ doing[d].step = step
Goto(d, step) == doing' = [doing EXCEPT ![d].step = step]

Take(d, e) ==
    /\ ~Busy(d)
    /\ status[e] = "pending"
    /\ doing' = [doing EXCEPT ![d] =
                   [event |-> e, tried |-> attempts[e], handler |-> "orgs", step |-> "row"]]
    /\ UNCHANGED <<outbox, attempts, rows, faults, torn>>

\* Mutant: workspaces listens for a name nobody publishes.
ConcernsMisnamed(h, e) ==
    \/ h = "orgs" /\ e[1] = "account.created"
    \/ h = "workspaces" /\ e[1] = "org.made"

\* Each handler reads the name of the event first and leaves the others be.
Concerns(h, e) ==
    \/ h = "orgs" /\ e[1] = "account.created"
    \/ h = "workspaces" /\ e[1] = "org.created"

PassOver(d) ==
    /\ Busy(d) /\ doing[d].step = "row"
    /\ ~Concerns(doing[d].handler, Event(d))
    /\ Goto(d, "return")
    /\ UNCHANGED <<outbox, attempts, rows, faults, torn>>

\* Service.Provision of org: the row, the owner's seat, the event.  The unique
\* index on source_event_id turns a second delivery away at the first of them.
InsertOrg(d) ==
    /\ At(d, "orgs", "row")
    /\ Concerns("orgs", Event(d))
    /\ IF Account(d) \in orgs
       THEN Goto(d, "return") /\ UNCHANGED orgs         \* ErrAlreadyProvisioned
       ELSE Goto(d, "owner") /\ orgs' = orgs \cup {Account(d)}
    /\ UNCHANGED <<outbox, attempts, accounts, verified, owners, homes, named, faults, torn>>

AddOwner(d) ==
    /\ At(d, "orgs", "owner")
    /\ owners' = owners \cup {Account(d)}
    /\ Goto(d, "announce")
    /\ UNCHANGED <<outbox, attempts, accounts, verified, orgs, homes, named, faults, torn>>

\* Mutant: the error of the publisher is dropped.
AnnounceOrgOrNot(d) ==
    /\ At(d, "orgs", "announce")
    /\ D!Publish(OrgCreated(Account(d))) \/ UNCHANGED outbox
    /\ Goto(d, "return")
    /\ UNCHANGED <<attempts, rows, faults, torn>>

AnnounceOrg(d) ==
    /\ At(d, "orgs", "announce")
    /\ D!Publish(OrgCreated(Account(d)))
    /\ Goto(d, "return")
    /\ UNCHANGED <<attempts, rows, faults, torn>>

\* Service.Provision of workspace, for the org and owner the event names.
InsertWorkspace(d) ==
    /\ At(d, "workspaces", "row")
    /\ Concerns("workspaces", Event(d))
    /\ Account(d) \notin named
    /\ IF Account(d) \in homes
       THEN Goto(d, "return") /\ UNCHANGED <<homes, named>>   \* ErrAlreadyProvisioned
       ELSE /\ homes' = homes \cup {Account(d)}
            /\ named' = named \cup {Account(d)}
            /\ Goto(d, "announce")
    /\ UNCHANGED <<outbox, attempts, accounts, verified, orgs, owners, faults, torn>>

AnnounceWorkspace(d) ==
    /\ At(d, "workspaces", "announce")
    /\ D!Publish(WorkspaceCreated(Account(d)))
    /\ Goto(d, "return")
    /\ UNCHANGED <<attempts, rows, faults, torn>>

\* The handler answers nil: on to the next one, or to the end of the list.
Return(d) ==
    /\ Busy(d) /\ doing[d].step = "return"
    /\ D!Handle(doing[d].handler, Event(d))
    /\ IF doing[d].handler = "orgs"
       THEN doing' = [doing EXCEPT ![d].handler = "workspaces", ![d].step = "row"]
       ELSE Goto(d, "drain")
    /\ UNCHANGED <<attempts, rows, faults, torn>>

Drain(d) ==
    /\ Busy(d) /\ doing[d].step = "drain"
    /\ D!Settle({Event(d)})
    /\ doing' = [doing EXCEPT ![d] = Idle]
    /\ UNCHANGED <<attempts, rows, faults, torn>>

-----------------------------------------------------------------------------
(* What goes wrong.                                                        *)

\* Leaving the org's Provision between its first write and its last.
Torn(d) ==
    IF doing[d].handler = "orgs" /\ doing[d].step \in {"owner", "announce"}
    THEN torn \cup {Account(d)} ELSE torn

\* The handler answers an error; the dispatcher counts on from what it claimed,
\* and a row that another one has drained meanwhile is not there to change.
Errs(d) ==
    /\ doing' = [doing EXCEPT ![d] = Idle]
    /\ torn' = Torn(d)
    /\ attempts' = IF status[Event(d)] = "drained" THEN attempts
                   ELSE [attempts EXCEPT ![Event(d)] = @ + 1]
    /\ IF doing[d].tried + 1 >= MaxAttempts /\ status[Event(d)] = "pending"
       THEN D!Bury(Event(d)) ELSE UNCHANGED outbox
    /\ UNCHANGED rows

\* workspace_live_name refuses the row, whoever has the name.  It is the older
\* of the two unique indexes and PostgreSQL tries them in that order, so it
\* speaks first when the name is held by the workspace this very event made.
NameTaken(d) ==
    /\ At(d, "workspaces", "row")
    /\ Concerns("workspaces", Event(d))
    /\ Account(d) \in named
    /\ Errs(d)
    /\ UNCHANGED faults

\* The database refuses a write, or one of the handlers after these two fails
\* (the mail server is down, say) and with it the whole delivery.
WriteFails(d) ==
    /\ faults < MaxFaults
    /\ Busy(d)
    /\ \/ doing[d].step = "drain"
       \/ Concerns(doing[d].handler, Event(d)) /\ doing[d].step # "return"
    /\ Errs(d)
    /\ faults' = faults + 1

\* The process dies, or the drained rows cannot be deleted: the lease runs out
\* and the event comes again.
Dies(d) ==
    /\ faults < MaxFaults
    /\ Busy(d)
    /\ doing' = [doing EXCEPT ![d] = Idle]
    /\ torn' = Torn(d)
    /\ faults' = faults + 1
    /\ UNCHANGED <<outbox, attempts, rows>>

-----------------------------------------------------------------------------
Deliver(d) ==
    \/ \E e \in Events : Take(d, e)
    \/ PassOver(d) \/ Return(d) \/ Drain(d)
    \/ InsertOrg(d) \/ AddOwner(d) \/ AnnounceOrg(d)
    \/ InsertWorkspace(d) \/ AnnounceWorkspace(d)
    \/ NameTaken(d)

Next ==
    \/ \E a \in Accounts : Register(a) \/ Verify(a) \/ OpenPersonal(a) \/ FreeName(a)
    \/ \E d \in Dispatchers : Deliver(d) \/ WriteFails(d) \/ Dies(d)

Spec == Init /\ [][Next]_vars

\* A dispatcher that is up goes on with what is due (module Outbox).
FairSpec == Spec /\ \A d \in Dispatchers : WF_vars(Deliver(d))

-----------------------------------------------------------------------------
(* Properties.                                                             *)

\* Nothing stands on a link that is not there: a workspace is in an org with
\* its owner in it, and an owner sits in an org of a registered account; an
\* org is announced only once somebody can administer it.
InOrder ==
    /\ orgs \subseteq accounts
    /\ owners \subseteq orgs
    /\ homes \cup named \subseteq owners
    /\ \A a \in Accounts : status[OrgCreated(a)] # "none" => a \in owners

Inside(a) == \E d \in Dispatchers : /\ Event(d) = AccountCreated(a)
                                    /\ doing[d].handler = "orgs"
                                    /\ doing[d].step \in {"owner", "announce"}

\* The chain stops half way only where a Provision was cut off in the middle
\* (or an event was given up on): in every other case an event leaves the
\* outbox with the next link made, whoever delivered it and how often.
EveryGapIsACut ==
    \A a \in Accounts \ torn :
        /\ status[AccountCreated(a)] = "drained"
              => Inside(a) \/ status[OrgCreated(a)] # "none"
        /\ status[OrgCreated(a)] = "drained" => a \in homes

GivenUp(a) == status[AccountCreated(a)] = "buried" \/ status[OrgCreated(a)] = "buried"

\* Everybody who registers ends up with a workspace, unless the chain was cut
\* or given up on, which the buried row tells.
EveryoneIsHoused ==
    \A a \in Accounts : a \in accounts ~> a \in homes \cup torn \/ GivenUp(a)

\* What internal/workspace/doc.go says of an account: once the outbox owes it
\* nothing more, it has a workspace.
NeverWithoutAWorkspace ==
    \A a \in Accounts :
        /\ status[AccountCreated(a)] = "drained"
        /\ status[OrgCreated(a)] \in {"none", "drained"}
        /\ ~Inside(a)
        => a \in homes
=============================================================================
