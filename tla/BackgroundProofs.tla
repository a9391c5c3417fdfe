-------------------------- MODULE BackgroundProofs --------------------------
(***************************************************************************)
(* The chain from an account to its workspace, for any number of accounts  *)
(* and dispatchers, any number of faults and whatever is retried: no link  *)
(* is made before the one it stands on, and the chain stops half way only  *)
(* where a Provision was cut.                                              *)
(*                                                                         *)
(* The argument follows a dispatcher through its handlers: what it has     *)
(* written of the event in its hands is there (Carries), so that an event  *)
(* a handler has run on left the next link made (HandledIsMade); and an    *)
(* org that was not announced is in the hands of somebody, or torn         *)
(* (UntoldIsInside).                                                       *)
(***************************************************************************)
EXTENDS MCBackground, TLAPS

Founding(x) == x.handler = "orgs" /\ x.step \in {"owner", "announce"}

\* What is published has its account, and what is delivered was published.
Owed(x) == x # R!Idle => status[x.event] # "none"
PublishedFirst ==
    /\ \A a1 \in Accounts : status[R!AccountCreated(a1)] # "none" => a1 \in accounts
    /\ \A d \in Dispatchers : Owed(doing[d])

\* What the step of a dispatcher tells of the event in its hands.
Tells(x) ==
    /\ Founding(x) => x.event[1] = "account.created" /\ x.event[2] \in orgs
    /\ Founding(x) /\ x.step = "announce" => x.event[2] \in owners
    /\ x.handler = "orgs" /\ x.step = "return" /\ x.event[1] = "account.created"
          => x.event[2] \in orgs
    /\ x.handler = "workspaces" /\ x.step \in {"announce", "return"}
          /\ x.event[1] = "org.created" => x.event[2] \in homes
Carries == \A d \in Dispatchers : Tells(doing[d])

HandledIsMade ==
    \A a1 \in Accounts :
       /\ R!AccountCreated(a1) \in handledBy["orgs"] => a1 \in orgs
       /\ R!OrgCreated(a1) \in handledBy["workspaces"] => a1 \in homes

DrainedIsHandled ==
    \A e \in R!Events : status[e] = "drained" =>
       \A h \in R!Handlers : e \in handledBy[h]

UntoldIsInside ==
    \A a1 \in orgs \ torn : R!Inside(a1) \/ status[R!OrgCreated(a1)] # "none"

ChainInv ==
    /\ R!TypeOK /\ R!InOrder
    /\ PublishedFirst /\ Carries /\ HandledIsMade /\ DrainedIsHandled /\ UntoldIsInside

-----------------------------------------------------------------------------
(* Events and what a dispatcher has of them.                               *)

Held == [event : R!Events, tried : Nat, handler : R!Handlers, step : R!Steps]

LEMMA EventParts ==
    /\ \A e \in R!Events : e[1] \in {"account.created", "org.created", "workspace.created"}
                           /\ e[2] \in Accounts /\ e = <<e[1], e[2]>>
    /\ \A a1 \in Accounts : R!AccountCreated(a1) \in R!Events /\ R!OrgCreated(a1) \in R!Events
                            /\ R!WorkspaceCreated(a1) \in R!Events
  BY DEF R!Events, R!AccountCreated, R!OrgCreated, R!WorkspaceCreated

LEMMA InHand ==
    ASSUME R!TypeOK, NEW d \in Dispatchers
    PROVE  /\ doing[d] # R!Idle <=> doing[d] \in Held
           /\ doing[d].step # "none" => doing[d] \in Held
           /\ doing[d].handler # "none" => doing[d] \in Held
  <1>1. R!Idle.handler \notin R!Handlers BY DEF R!Idle, R!Handlers
  <1>2. R!Idle \notin Held BY <1>1 DEF Held
  <1>3. doing[d] \in {R!Idle} \cup Held BY DEF R!TypeOK, Held
  <1> QED BY <1>2, <1>3 DEF R!Idle

LEMMA ChainBegins == R!Init => ChainInv
  <1> SUFFICES ASSUME R!Init PROVE ChainInv OBVIOUS
  <1>1. /\ status = [e \in R!Events |-> "none"]
        /\ handledBy = [h \in R!Handlers |-> {}]
        /\ failed = [e \in R!Events |-> 0]
        /\ accounts = {} /\ verified = {} /\ orgs = {} /\ owners = {} /\ homes = {} /\ named = {}
        /\ doing = [d \in Dispatchers |-> R!Idle]
        /\ wrong = 0 /\ torn = {}
    BY DEF R!Init, R!D!Init
  <1>2. R!TypeOK BY <1>1, FaultsAssumption DEF R!TypeOK, R!D!Status
  <1>3. R!InOrder /\ PublishedFirst BY <1>1, EventParts DEF R!InOrder, PublishedFirst, Owed
  <1>4. Carries BY <1>1 DEF Carries, Tells, Founding, R!Idle
  <1>5. HandledIsMade /\ DrainedIsHandled
    BY <1>1 DEF HandledIsMade, DrainedIsHandled, R!Handlers
  <1>6. UntoldIsInside BY <1>1 DEF UntoldIsInside
  <1> QED BY <1>2, <1>3, <1>4, <1>5, <1>6 DEF ChainInv

-----------------------------------------------------------------------------
(* What the steps have in common.                                          *)

\* Links are only added, and nothing that was published becomes unpublished.
Grown ==
    /\ accounts \subseteq accounts' /\ orgs \subseteq orgs' /\ owners \subseteq owners'
    /\ homes \subseteq homes' /\ torn \subseteq torn'
    /\ \A e \in R!Events : status[e] # "none" => status'[e] # "none"

LEMMA Others ==
    ASSUME R!TypeOK, NEW d \in Dispatchers, NEW x, doing' = [doing EXCEPT ![d] = x]
    PROVE  doing'[d] = x /\ \A p \in Dispatchers \ {d} : doing'[p] = doing[p]
  BY DEF R!TypeOK

LEMMA HandMoves ==
    ASSUME ChainInv, Grown, NEW d \in Dispatchers, NEW x \in Held \cup {R!Idle},
           doing' = [doing EXCEPT ![d] = x], Owed(x)', Tells(x)'
    PROVE  Carries' /\ \A p \in Dispatchers : Owed(doing[p])'
  <1>1. doing'[d] = x /\ \A p \in Dispatchers \ {d} : doing'[p] = doing[p]
    BY Others DEF ChainInv
  <1>2. ASSUME NEW p \in Dispatchers \ {d}
        PROVE  Owed(doing[p])' /\ Tells(doing[p])'
    <2>1. Owed(doing[p]) /\ Tells(doing[p]) BY DEF ChainInv, PublishedFirst, Carries
    <2>2. doing[p] # R!Idle => doing[p].event \in R!Events BY InHand DEF ChainInv, Held
    <2>3. Owed(doing[p])' BY <1>1, <2>1, <2>2 DEF Owed, Grown
    <2>4. Tells(doing[p])' BY <1>1, <2>1 DEF Tells, Founding, Grown
    <2> QED BY <2>3, <2>4
  <1>3. Owed(doing[d])' /\ Tells(doing[d])' BY <1>1 DEF Owed, Tells, Founding
  <1> QED BY <1>2, <1>3 DEF Carries

LEMMA NobodyMoves ==
    ASSUME ChainInv, Grown, UNCHANGED doing
    PROVE  Carries' /\ \A p \in Dispatchers : Owed(doing[p])'
  <1>1. ASSUME NEW p \in Dispatchers PROVE Owed(doing[p])' /\ Tells(doing[p])'
    <2>1. Owed(doing[p]) /\ Tells(doing[p]) BY DEF ChainInv, PublishedFirst, Carries
    <2>2. doing[p] # R!Idle => doing[p].event \in R!Events BY InHand DEF ChainInv, Held
    <2>3. Owed(doing[p])' BY <2>1, <2>2 DEF Owed, Grown
    <2>4. Tells(doing[p])' BY <2>1 DEF Tells, Founding, Grown
    <2> QED BY <2>3, <2>4
  <1> QED BY <1>1 DEF Carries

LEMMA HandledFrame ==
    ASSUME ChainInv, Grown, UNCHANGED handledBy,
           \A e \in R!Events : status'[e] = "drained" => status[e] = "drained"
    PROVE  HandledIsMade' /\ DrainedIsHandled'
  BY DEF ChainInv, Grown, HandledIsMade, DrainedIsHandled

\* Nobody leaves an org half made without its being told or torn.
Leaves(d, x) ==
    Founding(doing[d]) =>
        \/ Founding(x) /\ x.event = doing[d].event
        \/ doing[d].event[2] \in torn'
        \/ status'[R!OrgCreated(doing[d].event[2])] # "none"

LEMMA UntoldFrame ==
    ASSUME ChainInv, Grown, NEW d \in Dispatchers, NEW x, doing' = [doing EXCEPT ![d] = x],
           Leaves(d, x), NEW a1 \in orgs \ torn', a1 \in Accounts
    PROVE  R!Inside(a1)' \/ status'[R!OrgCreated(a1)] # "none"
  <1>1. doing'[d] = x /\ \A p \in Dispatchers \ {d} : doing'[p] = doing[p]
    BY Others DEF ChainInv
  <1>2. CASE status[R!OrgCreated(a1)] # "none" BY <1>2, EventParts DEF Grown
  <1>3. CASE R!Inside(a1)
    <2>1. PICK p \in Dispatchers : doing[p].event = R!AccountCreated(a1) /\ Founding(doing[p])
      BY <1>3 DEF R!Inside, R!Event, Founding
    <2>2. CASE p # d BY <1>1, <2>1, <2>2 DEF R!Inside, R!Event, Founding
    <2>3. CASE p = d
      <3>1. doing[d].event[2] = a1 BY <2>1, <2>3 DEF R!AccountCreated
      <3> QED BY <1>1, <2>1, <2>3, <3>1 DEF Leaves, R!Inside, R!Event, Founding
    <2> QED BY <2>2, <2>3
  <1>4. R!Inside(a1) \/ status[R!OrgCreated(a1)] # "none"
    BY DEF ChainInv, UntoldIsInside, Grown
  <1> QED BY <1>2, <1>3, <1>4

-----------------------------------------------------------------------------
(* The steps.                                                              *)

\* What people do: no delivery moves.
People(a1) == R!Register(a1) \/ R!Verify(a1) \/ R!OpenPersonal(a1) \/ R!FreeName(a1)

LEMMA PeopleKeep == ASSUME ChainInv, NEW a1 \in Accounts, People(a1) PROVE ChainInv'
  <1> DEFINE e == R!AccountCreated(a1)
  <1>1. /\ UNCHANGED <<failed, orgs, owners, homes, doing, wrong, torn, handledBy>>
        /\ accounts \subseteq accounts' /\ accounts' \in SUBSET Accounts
        /\ verified' \in SUBSET accounts' /\ named' \in SUBSET Accounts
        /\ homes \cup named' \subseteq owners
    BY DEF People, R!Register, R!Verify, R!OpenPersonal, R!FreeName, R!D!Publish, R!outbox,
           ChainInv, R!TypeOK, R!InOrder
  <1>2. \/ UNCHANGED status
        \/ status' = [status EXCEPT ![e] = "pending"] /\ a1 \in accounts'
    BY DEF People, R!Register, R!Verify, R!OpenPersonal, R!FreeName, R!D!Publish, R!outbox
  <1>3. /\ status' \in [R!Events -> R!D!Status]
        /\ \A f \in R!Events \ {e} : status'[f] = status[f]
        /\ status'[e] = status[e] \/ (status'[e] = "pending" /\ a1 \in accounts')
    BY <1>2, EventParts DEF ChainInv, R!TypeOK, R!D!Status
  <1>4. \A a2 \in Accounts : R!OrgCreated(a2) # e BY DEF R!OrgCreated, R!AccountCreated
  <1>5. \A a2 \in Accounts : R!AccountCreated(a2) = e => a2 = a1 BY DEF R!AccountCreated
  <1> HIDE DEF e
  <1>6. R!TypeOK' BY <1>1, <1>3 DEF ChainInv, R!TypeOK
  <1>7. Grown BY <1>1, <1>3 DEF Grown
  <1>8. R!InOrder' BY <1>1, <1>3, <1>4, EventParts DEF ChainInv, R!InOrder
  <1>9. PublishedFirst'
    <2>1. \A a2 \in Accounts : status'[R!AccountCreated(a2)] # "none" => a2 \in accounts'
      BY <1>1, <1>3, <1>5, EventParts DEF ChainInv, PublishedFirst
    <2> QED BY <1>1, <1>7, <2>1, NobodyMoves DEF PublishedFirst
  <1>10. Carries' BY <1>1, <1>7, NobodyMoves
  <1>11. HandledIsMade' /\ DrainedIsHandled' BY <1>1, <1>3, <1>7, HandledFrame
  <1>12. UntoldIsInside'
    <2>1. ASSUME NEW a2 \in orgs \ torn
          PROVE  R!Inside(a2)' \/ status'[R!OrgCreated(a2)] # "none"
      <3>1. R!Inside(a2)' <=> R!Inside(a2) BY <1>1 DEF R!Inside, R!Event
      <3>2. status'[R!OrgCreated(a2)] = status[R!OrgCreated(a2)]
        BY <1>3, <1>4, EventParts DEF ChainInv, R!TypeOK
      <3> QED BY <3>1, <3>2 DEF ChainInv, UntoldIsInside
    <2> QED BY <1>1, <2>1 DEF UntoldIsInside
  <1> QED BY <1>6, <1>8, <1>9, <1>10, <1>11, <1>12 DEF ChainInv

\* A delivery moves to x and writes nothing.
LEMMA OnlyMoves ==
    ASSUME ChainInv, NEW d \in Dispatchers, NEW x \in Held \cup {R!Idle},
           doing' = [doing EXCEPT ![d] = x], torn \subseteq torn', torn' \in SUBSET Accounts,
           UNCHANGED <<status, handledBy, accounts, verified, orgs, owners, homes, named>>,
           failed' \in [R!Events -> Nat], wrong' \in 0 .. MaxFaults,
           Owed(x), Tells(x), Leaves(d, x)
    PROVE  ChainInv'
  <1>1. Grown BY DEF Grown
  <1>2. R!TypeOK'
    <2>1. doing' \in [Dispatchers -> {R!Idle} \cup Held] BY DEF ChainInv, R!TypeOK, Held
    <2> QED BY <2>1 DEF ChainInv, R!TypeOK, Held
  <1>3. R!InOrder' BY DEF ChainInv, R!InOrder
  <1>4. Owed(x)' /\ Tells(x)' BY DEF Owed, Tells, Founding
  <1>5. Carries' /\ \A p \in Dispatchers : Owed(doing[p])' BY <1>1, <1>4, HandMoves
  <1>6. PublishedFirst' BY <1>5 DEF ChainInv, PublishedFirst
  <1>7. HandledIsMade' /\ DrainedIsHandled' BY <1>1, HandledFrame
  <1>8. UntoldIsInside'
    <2>1. ASSUME NEW a1 \in orgs \ torn'
          PROVE  R!Inside(a1)' \/ status'[R!OrgCreated(a1)] # "none"
      BY <1>1, UntoldFrame DEF ChainInv, R!TypeOK
    <2> QED BY <2>1 DEF UntoldIsInside
  <1> QED BY <1>2, <1>3, <1>5, <1>6, <1>7, <1>8 DEF ChainInv

LEMMA TakeKeeps ==
    ASSUME ChainInv, NEW d \in Dispatchers, NEW e \in R!Events, R!Take(d, e) PROVE ChainInv'
  <1> DEFINE x == [event |-> e, tried |-> failed[e], handler |-> "orgs", step |-> "row"]
  <1>1. /\ doing' = [doing EXCEPT ![d] = x] /\ status[e] = "pending" /\ doing[d] = R!Idle
        /\ UNCHANGED <<status, handledBy, failed, accounts, verified, orgs, owners, homes, named,
                       wrong, torn>>
    BY DEF R!Take, R!Busy, R!outbox, R!rows
  <1>2. x \in Held BY DEF ChainInv, R!TypeOK, Held, R!Handlers, R!Steps
  <1>3. Owed(x) /\ Tells(x) BY <1>1 DEF Owed, Tells, Founding
  <1>4. Leaves(d, x) BY <1>1 DEF Leaves, Founding, R!Idle
  <1> HIDE DEF x
  <1> QED BY <1>1, <1>2, <1>3, <1>4, OnlyMoves DEF ChainInv, R!TypeOK

LEMMA PassOverKeeps ==
    ASSUME ChainInv, NEW d \in Dispatchers, R!PassOver(d) PROVE ChainInv'
  <1> DEFINE x == [doing[d] EXCEPT !.step = "return"]
  <1>1. /\ doing' = [doing EXCEPT ![d] = x] /\ doing[d] # R!Idle /\ doing[d].step = "row"
        /\ ~R!Concerns(doing[d].handler, doing[d].event)
        /\ UNCHANGED <<status, handledBy, failed, accounts, verified, orgs, owners, homes, named,
                       wrong, torn>>
    BY DEF R!PassOver, R!Goto, R!Busy, R!Event, R!outbox, R!rows
  <1>2. doing[d] \in Held BY <1>1, InHand DEF ChainInv
  <1>3. /\ x \in Held /\ x.step = "return" /\ x.event = doing[d].event
        /\ x.handler = doing[d].handler
    BY <1>2 DEF Held, R!Steps
  <1> HIDE DEF x
  <1>4. Owed(x) BY <1>1, <1>3 DEF ChainInv, PublishedFirst, Owed
  <1>5. Tells(x) BY <1>1, <1>3 DEF Tells, Founding, R!Concerns
  <1>6. Leaves(d, x) BY <1>1 DEF Leaves, Founding
  <1> QED BY <1>1, <1>3, <1>4, <1>5, <1>6, OnlyMoves DEF ChainInv, R!TypeOK

\* The handler answers an error, or the process dies: the hand is empty, and
\* the event may have been buried.
LEMMA AbortsKeep ==
    ASSUME ChainInv, NEW d \in Dispatchers, doing[d] # R!Idle,
           doing' = [doing EXCEPT ![d] = R!Idle], torn' = R!Torn(d),
           UNCHANGED <<handledBy, accounts, verified, orgs, owners, homes, named>>,
           failed' \in [R!Events -> Nat], wrong' \in 0 .. MaxFaults,
           \/ UNCHANGED status
           \/ R!D!Bury(doing[d].event)
    PROVE  ChainInv'
  <1> DEFINE x == R!Idle
             e == doing[d].event
  <1>1. doing[d] \in Held /\ e \in R!Events BY InHand DEF ChainInv, Held
  <1>2. torn \subseteq torn' /\ torn' \in SUBSET Accounts
    BY <1>1, EventParts DEF R!Torn, R!Account, ChainInv, R!TypeOK
  <1>3. Owed(x) /\ Tells(x) BY DEF Owed, Tells, Founding, R!Idle
  <1>4. Leaves(d, x) BY DEF Leaves, R!Torn, R!Account, Founding
  <1>5. CASE UNCHANGED status BY <1>2, <1>3, <1>4, <1>5, OnlyMoves
  <1>6. CASE R!D!Bury(e)
    <2>1. status' = [status EXCEPT ![e] = "buried"] /\ status[e] = "pending"
      BY <1>6 DEF R!D!Bury
    <2> HIDE DEF e
    <2>2. /\ status' \in [R!Events -> R!D!Status]
          /\ \A f \in R!Events : status'[f] = status[f]
                                 \/ (f = e /\ status[f] = "pending" /\ status'[f] = "buried")
      BY <2>1, <1>1 DEF ChainInv, R!TypeOK, R!D!Status
    <2>3. Grown BY <1>2, <2>2 DEF Grown
    <2>4. R!TypeOK'
      <3>1. doing' \in [Dispatchers -> {R!Idle} \cup Held] BY DEF ChainInv, R!TypeOK, Held
      <3> QED BY <1>2, <2>2, <3>1 DEF ChainInv, R!TypeOK, Held
    <2>5. R!InOrder' BY <2>2, EventParts DEF ChainInv, R!InOrder
    <2>6. Owed(x)' /\ Tells(x)' BY <1>3 DEF Owed, Tells, Founding
    <2>7. Carries' /\ \A p \in Dispatchers : Owed(doing[p])' BY <2>3, <2>6, HandMoves
    <2>8. PublishedFirst' BY <2>2, <2>7, EventParts DEF ChainInv, PublishedFirst
    <2>9. HandledIsMade' /\ DrainedIsHandled' BY <2>2, <2>3, HandledFrame
    <2>10. UntoldIsInside'
      <3>1. ASSUME NEW a1 \in orgs \ torn'
            PROVE  R!Inside(a1)' \/ status'[R!OrgCreated(a1)] # "none"
        BY <1>4, <2>3, UntoldFrame DEF ChainInv, R!TypeOK
      <3> QED BY <3>1 DEF UntoldIsInside
    <2> QED BY <2>4, <2>5, <2>7, <2>8, <2>9, <2>10 DEF ChainInv
  <1> QED BY <1>5, <1>6

LEMMA FailuresKeep ==
    ASSUME ChainInv, NEW d \in Dispatchers, R!NameTaken(d) \/ R!WriteFails(d) \/ R!Dies(d)
    PROVE  ChainInv'
  <1>1. doing[d] # R!Idle
    BY DEF R!NameTaken, R!WriteFails, R!Dies, R!At, R!Busy, R!Idle
  <1>2. wrong' \in 0 .. MaxFaults
    <2>1. wrong' = wrong \/ (wrong < MaxFaults /\ wrong' = wrong + 1)
      BY DEF R!NameTaken, R!WriteFails, R!Dies
    <2> QED BY <2>1, FaultsAssumption DEF ChainInv, R!TypeOK
  <1>3. /\ doing' = [doing EXCEPT ![d] = R!Idle] /\ torn' = R!Torn(d)
        /\ UNCHANGED <<handledBy, accounts, verified, orgs, owners, homes, named>>
        /\ UNCHANGED status \/ R!D!Bury(doing[d].event)
    BY DEF R!NameTaken, R!WriteFails, R!Dies, R!Errs, R!Event, R!outbox, R!rows, R!D!Bury
  <1>4. failed' \in [R!Events -> Nat]
    <2>1. failed' = failed \/ failed' = [failed EXCEPT ![doing[d].event] = @ + 1]
      BY DEF R!NameTaken, R!WriteFails, R!Dies, R!Errs, R!Event
    <2>2. doing[d].event \in R!Events BY <1>1, InHand DEF ChainInv, Held
    <2> QED BY <2>1, <2>2 DEF ChainInv, R!TypeOK
  <1> QED BY <1>1, <1>2, <1>3, <1>4, AbortsKeep

\* A delivery moves to x and writes a link or an event.
LEMMA MovesAndWrites ==
    ASSUME ChainInv, Grown, NEW d \in Dispatchers, NEW x \in Held \cup {R!Idle},
           doing' = [doing EXCEPT ![d] = x], torn' = torn, wrong' = wrong, failed' = failed,
           UNCHANGED <<accounts, verified>>,
           status' \in [R!Events -> R!D!Status],
           handledBy' \in [R!Handlers -> SUBSET R!Events],
           orgs' \in SUBSET accounts, owners' \in SUBSET orgs', homes' \in SUBSET owners',
           named' \in SUBSET owners',
           \A a1 \in Accounts : /\ status'[R!OrgCreated(a1)] # "none" => a1 \in owners'
                                /\ status'[R!AccountCreated(a1)] # "none" => a1 \in accounts,
           HandledIsMade', DrainedIsHandled',
           Owed(x)', Tells(x)', Leaves(d, x), \A a1 \in orgs' \ orgs : R!Inside(a1)'
    PROVE  ChainInv'
  <1>1. R!TypeOK'
    <2>1. doing' \in [Dispatchers -> {R!Idle} \cup Held] BY DEF ChainInv, R!TypeOK, Held
    <2> QED BY <2>1 DEF ChainInv, R!TypeOK, Held
  <1>2. R!InOrder' BY DEF R!InOrder
  <1>3. Carries' /\ \A p \in Dispatchers : Owed(doing[p])' BY HandMoves
  <1>4. PublishedFirst' BY <1>3 DEF PublishedFirst
  <1>5. UntoldIsInside'
    <2>1. ASSUME NEW a1 \in orgs \ torn'
          PROVE  R!Inside(a1)' \/ status'[R!OrgCreated(a1)] # "none"
      BY UntoldFrame DEF ChainInv, R!TypeOK
    <2> QED BY <2>1 DEF UntoldIsInside
  <1> QED BY <1>1, <1>2, <1>3, <1>4, <1>5 DEF ChainInv

\* What a busy dispatcher is about.
LEMMA InStep ==
    ASSUME ChainInv, NEW d \in Dispatchers, doing[d] # R!Idle, NEW s \in R!Steps
    PROVE  LET x == [doing[d] EXCEPT !.step = s]
               a1 == doing[d].event[2]
           IN  /\ doing[d] \in Held /\ x \in Held /\ x.step = s /\ x.event = doing[d].event
               /\ x.handler = doing[d].handler /\ Owed(x)
               /\ a1 \in Accounts /\ doing[d].event \in R!Events
               /\ doing[d].event = <<doing[d].event[1], a1>>
  <1>1. doing[d] \in Held BY InHand DEF ChainInv
  <1>2. doing[d].event \in R!Events BY <1>1 DEF Held
  <1>3. status[doing[d].event] # "none" BY DEF ChainInv, PublishedFirst, Owed
  <1> QED BY <1>1, <1>2, <1>3, EventParts DEF Held, Owed

LEMMA InsertOrgKeeps ==
    ASSUME ChainInv, NEW d \in Dispatchers, R!InsertOrg(d) PROVE ChainInv'
  <1>0. PICK a1 : a1 = doing[d].event[2] OBVIOUS
  <1>1. /\ doing[d] # R!Idle /\ doing[d].handler = "orgs" /\ doing[d].step = "row"
        /\ doing[d].event[1] = "account.created"
    BY DEF R!InsertOrg, R!At, R!Concerns, R!Event, R!Idle
  <1>2. UNCHANGED <<status, handledBy, failed, accounts, verified, owners, homes, named, wrong,
                    torn>>
    BY DEF R!InsertOrg, R!outbox
  <1>3. \A x : Leaves(d, x) BY <1>1 DEF Leaves, Founding
  <1>4. CASE a1 \in orgs
    <2>0. PICK x : x = [doing[d] EXCEPT !.step = "return"] OBVIOUS
    <2>1. doing' = [doing EXCEPT ![d] = x] /\ UNCHANGED orgs
      BY <1>0, <1>4, <2>0 DEF R!InsertOrg, R!Goto, R!Account
    <2>2. /\ x \in Held /\ x.step = "return" /\ x.event = doing[d].event
          /\ x.handler = "orgs" /\ Owed(x)
      BY <1>1, <2>0, InStep DEF R!Steps
    <2>3. Tells(x) BY <1>0, <1>1, <1>4, <2>2 DEF Tells, Founding
    <2> QED BY <1>2, <1>3, <2>1, <2>2, <2>3, OnlyMoves DEF ChainInv, R!TypeOK
  <1>5. CASE a1 \notin orgs
    <2>0. PICK x : x = [doing[d] EXCEPT !.step = "owner"] OBVIOUS
    <2>1. doing' = [doing EXCEPT ![d] = x] /\ orgs' = orgs \cup {a1}
      BY <1>0, <1>5, <2>0 DEF R!InsertOrg, R!Goto, R!Account
    <2>2. /\ x \in Held /\ x.step = "owner" /\ x.event = doing[d].event
          /\ x.handler = "orgs" /\ Owed(x) /\ a1 \in Accounts
          /\ doing[d].event = R!AccountCreated(a1)
      BY <1>0, <1>1, <2>0, InStep DEF R!Steps, R!AccountCreated
    <2>3. Tells(x)' BY <1>0, <1>1, <2>1, <2>2 DEF Tells, Founding
    <2>4. Owed(x)' BY <1>2, <2>2 DEF Owed
    <2>5. a1 \in accounts
      <3>1. status[doing[d].event] # "none" BY <1>1 DEF ChainInv, PublishedFirst, Owed
      <3> QED BY <2>2, <3>1 DEF ChainInv, PublishedFirst
    <2>6. Grown BY <1>2, <2>1 DEF Grown
    <2>7. HandledIsMade' /\ DrainedIsHandled' BY <1>2, <2>6, HandledFrame
    <2>8. R!Inside(a1)'
      <3>1. doing'[d] = x BY <2>1, Others DEF ChainInv
      <3> QED BY <2>2, <3>1 DEF R!Inside, R!Event
    <2>9. \A a2 \in orgs' \ orgs : R!Inside(a2)' BY <2>1, <2>8
    <2> QED BY <1>2, <1>3, <2>1, <2>2, <2>3, <2>4, <2>5, <2>6, <2>7, <2>9, MovesAndWrites
            DEF ChainInv, R!TypeOK, R!InOrder, PublishedFirst
  <1> QED BY <1>4, <1>5

LEMMA AddOwnerKeeps ==
    ASSUME ChainInv, NEW d \in Dispatchers, R!AddOwner(d) PROVE ChainInv'
  <1>0. PICK a1, x : a1 = doing[d].event[2] /\ x = [doing[d] EXCEPT !.step = "announce"] OBVIOUS
  <1>1. /\ doing[d] # R!Idle /\ Founding(doing[d]) /\ doing[d].handler = "orgs"
        /\ doing' = [doing EXCEPT ![d] = x] /\ owners' = owners \cup {a1}
        /\ UNCHANGED <<status, handledBy, failed, accounts, verified, orgs, homes, named, wrong,
                       torn>>
    BY <1>0 DEF R!AddOwner, R!At, R!Goto, R!Account, R!Idle, R!outbox, Founding
  <1>2. /\ x \in Held /\ x.step = "announce" /\ x.event = doing[d].event
        /\ x.handler = "orgs" /\ Owed(x) /\ a1 \in Accounts
    BY <1>0, <1>1, InStep DEF R!Steps
  <1>3. x.event[1] = "account.created" /\ a1 \in orgs
    BY <1>0, <1>1, <1>2 DEF ChainInv, Carries, Tells
  <1>4. x.event[2] = a1 BY <1>0, <1>2
  <1>5. Tells(x)' BY <1>1, <1>2, <1>3, <1>4 DEF Tells, Founding
  <1>6. Owed(x)' BY <1>1, <1>2 DEF Owed
  <1>7. Leaves(d, x) BY <1>2 DEF Leaves, Founding
  <1>8. Grown BY <1>1 DEF Grown
  <1>9. HandledIsMade' /\ DrainedIsHandled' BY <1>1, <1>8, HandledFrame
  <1> QED BY <1>1, <1>2, <1>3, <1>5, <1>6, <1>7, <1>8, <1>9, MovesAndWrites
          DEF ChainInv, R!TypeOK, R!InOrder, PublishedFirst

\* An event e is published by a delivery.
LEMMA Published ==
    ASSUME ChainInv, NEW e \in R!Events, R!D!Publish(e)
    PROVE  /\ status' \in [R!Events -> R!D!Status] /\ UNCHANGED handledBy
           /\ \A f \in R!Events \ {e} : status'[f] = status[f]
           /\ status[e] = "none" /\ status'[e] = "pending"
  BY DEF R!D!Publish, ChainInv, R!TypeOK, R!D!Status

LEMMA AnnounceOrgKeeps ==
    ASSUME ChainInv, NEW d \in Dispatchers, R!AnnounceOrg(d) PROVE ChainInv'
  <1>0. PICK a1, x : a1 = doing[d].event[2] /\ x = [doing[d] EXCEPT !.step = "return"] OBVIOUS
  <1>1. /\ doing[d] # R!Idle /\ Founding(doing[d]) /\ doing[d].step = "announce"
        /\ doing[d].handler = "orgs"
        /\ doing' = [doing EXCEPT ![d] = x] /\ R!D!Publish(R!OrgCreated(a1))
        /\ UNCHANGED <<failed, accounts, verified, orgs, owners, homes, named, wrong, torn>>
    BY <1>0 DEF R!AnnounceOrg, R!At, R!Goto, R!Account, R!Idle, R!rows, Founding
  <1>2. /\ x \in Held /\ x.step = "return" /\ x.event = doing[d].event
        /\ x.handler = "orgs" /\ Owed(x) /\ a1 \in Accounts /\ x.event \in R!Events
    BY <1>0, <1>1, InStep DEF R!Steps
  <1>3. a1 \in orgs /\ a1 \in owners BY <1>0, <1>1 DEF ChainInv, Carries, Tells
  <1>4. R!OrgCreated(a1) \in R!Events BY <1>2, EventParts
  <1>5. /\ status' \in [R!Events -> R!D!Status] /\ UNCHANGED handledBy
        /\ \A f \in R!Events \ {R!OrgCreated(a1)} : status'[f] = status[f]
        /\ status'[R!OrgCreated(a1)] = "pending"
    BY <1>1, <1>4, Published
  <1>6. Tells(x)' BY <1>0, <1>1, <1>2, <1>3 DEF Tells, Founding
  <1>7. Owed(x)' BY <1>2, <1>5 DEF Owed
  <1>8. Leaves(d, x) BY <1>0, <1>5 DEF Leaves
  <1>9. Grown BY <1>1, <1>5 DEF Grown
  <1>10. HandledIsMade' /\ DrainedIsHandled' BY <1>5, <1>9, HandledFrame
  <1>11. \A a2 \in Accounts : /\ status'[R!OrgCreated(a2)] # "none" => a2 \in owners
                              /\ status'[R!AccountCreated(a2)] # "none" => a2 \in accounts
    <2>1. \A a2 \in Accounts : /\ R!AccountCreated(a2) # R!OrgCreated(a1)
                               /\ R!OrgCreated(a2) = R!OrgCreated(a1) => a2 = a1
      BY DEF R!AccountCreated, R!OrgCreated
    <2> QED BY <1>3, <1>5, <2>1, EventParts DEF ChainInv, R!InOrder, PublishedFirst
  <1> QED BY <1>1, <1>2, <1>5, <1>6, <1>7, <1>8, <1>9, <1>10, <1>11, MovesAndWrites
          DEF ChainInv, R!TypeOK, R!InOrder

LEMMA InsertWorkspaceKeeps ==
    ASSUME ChainInv, NEW d \in Dispatchers, R!InsertWorkspace(d) PROVE ChainInv'
  <1>0. PICK a1 : a1 = doing[d].event[2] OBVIOUS
  <1>1. /\ doing[d] # R!Idle /\ doing[d].handler = "workspaces" /\ doing[d].step = "row"
        /\ doing[d].event[1] = "org.created"
    BY DEF R!InsertWorkspace, R!At, R!Concerns, R!Event, R!Idle
  <1>2. UNCHANGED <<status, handledBy, failed, accounts, verified, orgs, owners, wrong, torn>>
    BY DEF R!InsertWorkspace, R!outbox
  <1>3. \A x : Leaves(d, x) BY <1>1 DEF Leaves, Founding
  <1>4. CASE a1 \in homes
    <2>0. PICK x : x = [doing[d] EXCEPT !.step = "return"] OBVIOUS
    <2>1. doing' = [doing EXCEPT ![d] = x] /\ UNCHANGED <<homes, named>>
      BY <1>0, <1>4, <2>0 DEF R!InsertWorkspace, R!Goto, R!Account
    <2>2. /\ x \in Held /\ x.step = "return" /\ x.event = doing[d].event
          /\ x.handler = "workspaces" /\ Owed(x)
      BY <1>1, <2>0, InStep DEF R!Steps
    <2>3. Tells(x) BY <1>0, <1>1, <1>4, <2>2 DEF Tells, Founding
    <2> QED BY <1>2, <1>3, <2>1, <2>2, <2>3, OnlyMoves DEF ChainInv, R!TypeOK
  <1>5. CASE a1 \notin homes
    <2>0. PICK x : x = [doing[d] EXCEPT !.step = "announce"] OBVIOUS
    <2>1. /\ doing' = [doing EXCEPT ![d] = x]
          /\ homes' = homes \cup {a1} /\ named' = named \cup {a1}
      BY <1>0, <1>5, <2>0 DEF R!InsertWorkspace, R!Goto, R!Account
    <2>2. /\ x \in Held /\ x.step = "announce" /\ x.event = doing[d].event
          /\ x.handler = "workspaces" /\ Owed(x) /\ a1 \in Accounts
          /\ doing[d].event = R!OrgCreated(a1)
      BY <1>0, <1>1, <2>0, InStep DEF R!Steps, R!OrgCreated
    <2>3. Tells(x)' BY <1>0, <1>1, <2>1, <2>2 DEF Tells, Founding
    <2>4. Owed(x)' BY <1>2, <2>2 DEF Owed
    <2>5. a1 \in owners
      <3>1. status[doing[d].event] # "none" BY <1>1 DEF ChainInv, PublishedFirst, Owed
      <3> QED BY <2>2, <3>1 DEF ChainInv, R!InOrder
    <2>6. Grown BY <1>2, <2>1 DEF Grown
    <2>7. HandledIsMade' /\ DrainedIsHandled' BY <1>2, <2>6, HandledFrame
    <2> QED BY <1>2, <1>3, <2>1, <2>2, <2>3, <2>4, <2>5, <2>6, <2>7, MovesAndWrites
            DEF ChainInv, R!TypeOK, R!InOrder, PublishedFirst
  <1> QED BY <1>4, <1>5

LEMMA AnnounceWorkspaceKeeps ==
    ASSUME ChainInv, NEW d \in Dispatchers, R!AnnounceWorkspace(d) PROVE ChainInv'
  <1>0. PICK a1, x : a1 = doing[d].event[2] /\ x = [doing[d] EXCEPT !.step = "return"] OBVIOUS
  <1>1. /\ doing[d] # R!Idle /\ doing[d].step = "announce" /\ doing[d].handler = "workspaces"
        /\ doing' = [doing EXCEPT ![d] = x] /\ R!D!Publish(R!WorkspaceCreated(a1))
        /\ UNCHANGED <<failed, accounts, verified, orgs, owners, homes, named, wrong, torn>>
    BY <1>0 DEF R!AnnounceWorkspace, R!At, R!Goto, R!Account, R!Idle, R!rows
  <1>2. /\ x \in Held /\ x.step = "return" /\ x.event = doing[d].event
        /\ x.handler = "workspaces" /\ Owed(x) /\ a1 \in Accounts /\ x.event \in R!Events
    BY <1>0, <1>1, InStep DEF R!Steps
  <1>3. x.event[1] = "org.created" => x.event[2] \in homes
    BY <1>1, <1>2 DEF ChainInv, Carries, Tells
  <1>4. R!WorkspaceCreated(a1) \in R!Events BY <1>2, EventParts
  <1>5. /\ status' \in [R!Events -> R!D!Status] /\ UNCHANGED handledBy
        /\ \A f \in R!Events \ {R!WorkspaceCreated(a1)} : status'[f] = status[f]
        /\ status'[R!WorkspaceCreated(a1)] = "pending"
    BY <1>1, <1>4, Published
  <1>6. Tells(x)' BY <1>1, <1>2, <1>3 DEF Tells, Founding
  <1>7. Owed(x)' BY <1>2, <1>5 DEF Owed
  <1>8. Leaves(d, x) BY <1>1 DEF Leaves, Founding
  <1>9. Grown BY <1>1, <1>5 DEF Grown
  <1>10. HandledIsMade' /\ DrainedIsHandled' BY <1>5, <1>9, HandledFrame
  <1>11. \A a2 \in Accounts : /\ status'[R!OrgCreated(a2)] # "none" => a2 \in owners
                              /\ status'[R!AccountCreated(a2)] # "none" => a2 \in accounts
    <2>1. \A a2 \in Accounts : /\ R!AccountCreated(a2) # R!WorkspaceCreated(a1)
                               /\ R!OrgCreated(a2) # R!WorkspaceCreated(a1)
      BY DEF R!AccountCreated, R!OrgCreated, R!WorkspaceCreated
    <2> QED BY <1>5, <2>1, EventParts DEF ChainInv, R!InOrder, PublishedFirst
  <1> QED BY <1>1, <1>2, <1>5, <1>6, <1>7, <1>8, <1>9, <1>10, <1>11, MovesAndWrites
          DEF ChainInv, R!TypeOK, R!InOrder

LEMMA ReturnKeeps ==
    ASSUME ChainInv, NEW d \in Dispatchers, R!Return(d) PROVE ChainInv'
  <1>0. PICK h, e : h = doing[d].handler /\ e = doing[d].event OBVIOUS
  <1>1. /\ doing[d] # R!Idle /\ doing[d].step = "return"
        /\ handledBy' = [handledBy EXCEPT ![h] = @ \cup {e}]
        /\ UNCHANGED <<status, failed, accounts, verified, orgs, owners, homes, named, wrong,
                       torn>>
    BY <1>0 DEF R!Return, R!Busy, R!Event, R!D!Handle, R!rows
  <1>2. doing[d] \in Held /\ h \in R!Handlers /\ e \in R!Events /\ status[e] # "none"
    BY <1>0, <1>1, InHand DEF ChainInv, Held, PublishedFirst, Owed
  <1>3. PICK x \in Held : /\ doing' = [doing EXCEPT ![d] = x]
                          /\ x.event = e /\ x.handler = "workspaces" /\ x.step \in {"row", "drain"}
    <2>1. CASE h = "orgs"
      <3> DEFINE y == [doing[d] EXCEPT !.handler = "workspaces", !.step = "row"]
      <3>1. doing' = [doing EXCEPT ![d] = y]
        BY <1>0, <2>1 DEF R!Return, ChainInv, R!TypeOK
      <3>2. /\ y \in Held /\ y.event = e /\ y.handler = "workspaces" /\ y.step = "row"
        BY <1>0, <1>2 DEF Held, R!Handlers, R!Steps
      <3> HIDE DEF y
      <3> QED BY <3>1, <3>2
    <2>2. CASE h # "orgs"
      <3> DEFINE y == [doing[d] EXCEPT !.step = "drain"]
      <3>1. doing' = [doing EXCEPT ![d] = y] BY <1>0, <2>2 DEF R!Return, R!Goto
      <3>2. /\ y \in Held /\ y.event = e /\ y.handler = "workspaces" /\ y.step = "drain"
        BY <1>0, <1>2, <2>2 DEF Held, R!Handlers, R!Steps
      <3> HIDE DEF y
      <3> QED BY <3>1, <3>2
    <2> QED BY <2>1, <2>2
  <1>4. /\ handledBy' \in [R!Handlers -> SUBSET R!Events]
        /\ \A g \in R!Handlers : handledBy[g] \subseteq handledBy'[g]
        /\ \A g \in R!Handlers : \A f \in handledBy'[g] \ handledBy[g] : g = h /\ f = e
    BY <1>1, <1>2 DEF ChainInv, R!TypeOK
  <1>5. HandledIsMade'
    <2>1. ASSUME NEW a1 \in Accounts, R!AccountCreated(a1) \in handledBy'["orgs"]
          PROVE  a1 \in orgs
      <3>1. CASE R!AccountCreated(a1) \in handledBy["orgs"]
        BY <3>1 DEF ChainInv, HandledIsMade
      <3>2. CASE R!AccountCreated(a1) \notin handledBy["orgs"]
        <4>1. h = "orgs" /\ e = R!AccountCreated(a1) BY <1>4, <2>1, <3>2 DEF R!Handlers
        <4>2. e[1] = "account.created" /\ e[2] = a1 BY <4>1 DEF R!AccountCreated
        <4> QED BY <1>0, <1>1, <4>1, <4>2 DEF ChainInv, Carries, Tells
      <3> QED BY <3>1, <3>2
    <2>2. ASSUME NEW a1 \in Accounts, R!OrgCreated(a1) \in handledBy'["workspaces"]
          PROVE  a1 \in homes
      <3>1. CASE R!OrgCreated(a1) \in handledBy["workspaces"]
        BY <3>1 DEF ChainInv, HandledIsMade
      <3>2. CASE R!OrgCreated(a1) \notin handledBy["workspaces"]
        <4>1. h = "workspaces" /\ e = R!OrgCreated(a1) BY <1>4, <2>2, <3>2 DEF R!Handlers
        <4>2. e[1] = "org.created" /\ e[2] = a1 BY <4>1 DEF R!OrgCreated
        <4> QED BY <1>0, <1>1, <4>1, <4>2 DEF ChainInv, Carries, Tells
      <3> QED BY <3>1, <3>2
    <2> QED BY <1>1, <2>1, <2>2 DEF HandledIsMade
  <1>6. DrainedIsHandled' BY <1>1, <1>4 DEF ChainInv, DrainedIsHandled
  <1>7. Owed(x)' /\ Tells(x)' BY <1>1, <1>2, <1>3 DEF Owed, Tells, Founding
  <1>8. Leaves(d, x) BY <1>1 DEF Leaves, Founding
  <1>9. Grown BY <1>1 DEF Grown
  <1> QED BY <1>1, <1>3, <1>4, <1>5, <1>6, <1>7, <1>8, <1>9, MovesAndWrites
          DEF ChainInv, R!TypeOK, R!InOrder, PublishedFirst

LEMMA DrainKeeps ==
    ASSUME ChainInv, NEW d \in Dispatchers, R!Drain(d) PROVE ChainInv'
  <1>0. PICK e : e = doing[d].event OBVIOUS
  <1>1. /\ doing[d] # R!Idle /\ doing[d].step = "drain" /\ doing' = [doing EXCEPT ![d] = R!Idle]
        /\ status[e] # "none" /\ \A h \in R!Handlers : e \in handledBy[h]
        /\ status' = [f \in R!Events |-> IF f = e THEN "drained" ELSE status[f]]
        /\ UNCHANGED <<handledBy, failed, accounts, verified, orgs, owners, homes, named, wrong,
                       torn>>
    BY <1>0 DEF R!Drain, R!Busy, R!Event, R!D!Settle, R!rows
  <1>2. /\ status' \in [R!Events -> R!D!Status]
        /\ \A f \in R!Events : status'[f] = IF f = e THEN "drained" ELSE status[f]
    BY <1>1 DEF ChainInv, R!TypeOK, R!D!Status
  <1>3. Grown BY <1>1, <1>2 DEF Grown
  <1>4. HandledIsMade' /\ DrainedIsHandled'
    BY <1>1, <1>2 DEF ChainInv, HandledIsMade, DrainedIsHandled
  <1>5. Owed(R!Idle)' /\ Tells(R!Idle)' BY DEF Owed, Tells, Founding, R!Idle
  <1>6. Leaves(d, R!Idle) BY <1>1 DEF Leaves, Founding
  <1>7. \A a2 \in Accounts : /\ status'[R!OrgCreated(a2)] # "none" => a2 \in owners
                             /\ status'[R!AccountCreated(a2)] # "none" => a2 \in accounts
    BY <1>1, <1>2, EventParts DEF ChainInv, R!InOrder, PublishedFirst
  <1> QED BY <1>1, <1>2, <1>3, <1>4, <1>5, <1>6, <1>7, MovesAndWrites
          DEF ChainInv, R!TypeOK, R!InOrder

-----------------------------------------------------------------------------
(* The invariant.                                                          *)

LEMMA ChainStutters == ChainInv /\ UNCHANGED chain => ChainInv'
  <1> SUFFICES ASSUME ChainInv, UNCHANGED chain PROVE ChainInv' OBVIOUS
  <1>1. /\ UNCHANGED <<status, handledBy, failed, accounts, verified, orgs, owners, homes, named,
                       doing, wrong, torn>>
    BY DEF chain
  <1>2. R!TypeOK' /\ R!InOrder' BY <1>1 DEF ChainInv, R!TypeOK, R!InOrder
  <1>3. Grown BY <1>1 DEF Grown
  <1>4. PublishedFirst' /\ Carries' BY <1>1, <1>3, NobodyMoves DEF ChainInv, PublishedFirst
  <1>5. HandledIsMade' /\ DrainedIsHandled' BY <1>1, <1>3, HandledFrame
  <1>6. UntoldIsInside' BY <1>1 DEF ChainInv, UntoldIsInside, R!Inside, R!Event
  <1> QED BY <1>2, <1>4, <1>5, <1>6 DEF ChainInv

LEMMA ChainKept == ASSUME ChainInv, R!Next PROVE ChainInv'
  <1>1. ASSUME NEW a1 \in Accounts, People(a1) PROVE ChainInv' BY <1>1, PeopleKeep
  <1>2. ASSUME NEW d \in Dispatchers, R!Deliver(d) PROVE ChainInv'
    BY <1>2, TakeKeeps, PassOverKeeps, ReturnKeeps, DrainKeeps, InsertOrgKeeps, AddOwnerKeeps,
       AnnounceOrgKeeps, InsertWorkspaceKeeps, AnnounceWorkspaceKeeps, FailuresKeep
       DEF R!Deliver
  <1>3. ASSUME NEW d \in Dispatchers, R!WriteFails(d) \/ R!Dies(d) PROVE ChainInv'
    BY <1>3, FailuresKeep
  <1> QED BY <1>1, <1>2, <1>3 DEF R!Next, People

LEMMA InvTells == ChainInv => ChainIsWhole
  <1> SUFFICES ASSUME ChainInv, NEW a1 \in Accounts \ torn
               PROVE  /\ status[R!AccountCreated(a1)] = "drained"
                            => R!Inside(a1) \/ status[R!OrgCreated(a1)] # "none"
                      /\ status[R!OrgCreated(a1)] = "drained" => a1 \in homes
    BY DEF ChainInv, ChainIsWhole, R!EveryGapIsACut
  <1>1. status[R!AccountCreated(a1)] = "drained" => a1 \in orgs
    BY EventParts DEF ChainInv, DrainedIsHandled, HandledIsMade, R!Handlers
  <1>2. status[R!OrgCreated(a1)] = "drained" => a1 \in homes
    BY EventParts DEF ChainInv, DrainedIsHandled, HandledIsMade, R!Handlers
  <1> QED BY <1>1, <1>2 DEF ChainInv, UntoldIsInside

\* A workspace stands in an org with its owner in it, an owner in the org of a
\* registered account; an event that left the outbox left the next link made,
\* unless a Provision was cut half way.
THEOREM ChainIsAlwaysWhole == BackgroundSpec => []ChainIsWhole
  <1>1. BackgroundInit => ChainInv BY ChainBegins DEF BackgroundInit
  <1>2. ASSUME ChainInv, [Schedules(Next) \/ Dispatches(D!DrainNext) \/ Founds(R!Next)]_all
        PROVE  ChainInv'
    <2>1. UNCHANGED chain \/ R!Next BY <1>2 DEF Schedules, Dispatches, Founds, all
    <2> QED BY <1>2, <2>1, ChainStutters, ChainKept
  <1> QED BY <1>1, <1>2, InvTells, PTL DEF BackgroundSpec

\* The same of the chain alone, beside nothing else.
THEOREM ChainAloneIsWhole == R!Spec => []ChainIsWhole
  <1>1. ASSUME ChainInv, [R!Next]_(R!vars) PROVE ChainInv'
    <2>1. UNCHANGED R!vars => UNCHANGED chain BY DEF R!vars, R!outbox, R!rows, chain
    <2> QED BY <1>1, <2>1, ChainStutters, ChainKept
  <1> QED BY <1>1, ChainBegins, InvTells, PTL DEF R!Spec
=============================================================================
