# TLA+ models of overwatch-backend

overwatch-backend is a Go server for investigations: it runs security tools
against the targets of an engagement, keeps every byte they print, reads
observations out of those bytes, and lets people rule on what was seen. It is
one process over one PostgreSQL database and a content-addressed blob store.
This directory holds TLA+ models of its parts, TLC configurations that check
them on small instances, and TLAPS proofs for every instance.

## 1. The system

### How the parts interact

* A *command* runs in a database transaction (`pkg/postgres` `Pool.InTx`; a
  nested call joins the outer transaction) and publishes events through
  `pkg/outbox`, whose `Add` writes rows in the same transaction when the caller
  opened one.
* The *dispatcher* (`pkg/outbox/dispatcher.go`) claims due rows and hands each
  event to every handler of one list, in order (`root/boot.go`): org
  provisioning, workspace provisioning, the grants of a new workspace, the
  verification mail, departures, the entity graph, target roots, the audit
  ledger, the journal, alert delivery. A handler that fails makes the whole list
  run again later, so every handler has to be idempotent.
* Five goroutines live beside the HTTP listener (`root/run.go`): the
  dispatcher, the run executor, the run scheduler, the journal sweeper and the
  listener's wake loop. Shutdown stops the listener, waits for each, then drains
  the outbox.
* Domains do not import each other. What one needs of another is a port that
  `root/*ports.go` adapts, usually a read outside the caller's transaction.

### Inventory

| Component | State it keeps | Operations that change it | What is hard | What makes it correct |
|---|---|---|---|---|
| outbox, events | rows with attempts, due_at, buried_at | Add, Claim, Delivered, Failed, Drain | crash between handling and delete; two dispatchers; lease expiry; poisoned events | nothing lost; buried only when exhausted; every event settles |
| run | runs, invocations, candidates, artifacts | Start, Tick (claim, execute), Finish | executor crash between any two of many autocommits; two executors claim one run; scope changes between plan and spawn | a process is spawned once per invocation; argv holds permitted values only; every run completes |
| scheduler | none of its own (reads pairs and last starts) | tick | a failing pair starving others; overlap with an open run | every runnable pair is started again and again |
| identity | accounts, credentials, sessions, tokens, keys | register, verify, sign in, reset, change, revoke, archive | concurrent requests with one token; retries; sign-in limits | a token is used once; an archived account has no way in |
| org | orgs, members, invites, grants | provision, invite, accept, change role, remove, leave, grant, revoke | two owners leaving at once; an invite accepted twice; redelivery of the registration event | an org keeps an owner; one membership per account; grants follow membership |
| workspace | workspaces | provision, create, archive, rename | redelivery; the box a workspace must end in | one personal workspace per org |
| target | targets, their root | add, rename, archive, reopen | two writers of one row; events told after the write | one live target per name; the events are its history |
| scope | rules with supersession | add, supersede; decide | concurrent supersession; rules that match together | a matching exclude wins; one request supersedes a rule; history is never edited |
| tool, check | tools, mappings, checks, chains | add, draft, promote, save, archive | a chain replaced beside another save; two promotions at once | a stored chain is one save; one version of a field is live |
| observation, entity, finding | readings, fragments, claims, judgements, findings | extract, assemble, propose, decide, judge, rule, reassess | redelivery and reordering of run events against rulings; pages and grids read while all of that goes on | a delivery made again completes what a cut one began; one decision per claim; a ruling outlives a rescan; one root per target |
| source, artifact cleanup | captures, watches, candidates, alerts, holds, tombstones, blobs, reviews of a cleanup | capture, watch, admit, refresh, retain, hold, purge, review, sweep | blobs shared by content; a purge racing a capture or a hold; a watch whose lease passes while it reads its page | a held source is never purged; a purged one takes nothing more; every capture a watch keeps is told of |
| research entity, connection, resolution, event | records, connections, the timeline, claims of identity | create, revise, archive, propose, decide, reverse, group | decisions over overlapping sets; edits from a row read before | a record has one standing resolution; the newest revision is the row |
| brief, report, review, note, lead, seen | documents, handoffs, revisions, comparisons, shares, marks | save, freeze, share, issue, compare, link, write, erase, mark | two saves of one document; reading while others write; what is shown after it was restricted | a brief is one save; a revision agrees with itself; nothing restricted is shown |
| assistance | policies, provider runs, results, operations, proposals | ask, keep, retry, review | everything moves while the provider answers | an answer rests on what was given to it and what its reader may see |
| audit, journal | ledger entries, log lines | append, walk in pages, sweep | redelivery; rows that arrive and go while they are paged | kept once each; a walk misses nothing that was there throughout |
| health | nothing, derived | six probes | what they read changes between them | nothing silent throughout a reading is passed over |
| pkg/limit, pkg/postgres, pkg/blob, pkg/execx, pkg/egress, pkg/crypto, pkg/mail, pkg/httpx, ... | buckets, applied migrations, files | take, migrate, put | boundary arithmetic; two processes migrating | a bucket never overfills; a migration is applied once |

## 2. The models

Conventions of all modules:

* A statement, or an explicit transaction (`Pool.InTx`), is one step: PostgreSQL
  runs at READ COMMITTED, so whatever a process read in an earlier statement may be
  stale at a later one unless it holds the row's lock. Where a transaction reads,
  lets others write, and then writes, its statements are steps of their own
  (`Briefs`, `Ownership`, `Retention`).
* A request or handler that is not in a transaction may be cut off between any two
  of its steps, and what it has not told by then is never told.
* A request is a record in `job` (or a variable named for it): which step it is at
  and what it has read, which is exactly what it will write from.
* Variables marked *history* record what happened for the properties' sake and
  guard no step.
* Beside a definition of the code a module may hold another of the same parameters
  that says what a plausible mistake would make of it (a dropped guard, a missing
  lock). No specification uses it: `PROJECT.json` lists, under "mutants", which
  property breaks when it takes the definition's place.

Abstracted everywhere: names, texts, payloads and clocks. Dates become "has passed"
or a small counter; a hash is its content; identifiers are fresh.

**Delivery and the tenancy**

| Module | Models | State and actions |
|---|---|---|
| `Delivery` | what `pkg/outbox` promises | `status`, `handled`; publish, handle, settle, bury. No dispatcher, lease or clock. |
| `Outbox` | `pkg/outbox/postgres.go`, `dispatcher.go` | the table's columns (`row`, `written`, `attempts`, `dueIn`), what each dispatcher holds (`todo`, `read`, `cur`, `next`, `done`). `Claim` is the CTE with SKIP LOCKED and its lease; `Take`, `HandlerReturns`, `Accepted`, `HandlerFails` and `Delivered` are the steps of `Dispatch` and `deliver`; every store call may fail and every dispatcher may die. |
| `OutboxLease` | the same, with the claim lease as history | how much of its lease a batch has left |
| `OutboxDrain` | `Dispatcher.Run` and `Drain`, the shutdown of `root/run.go` | `mode`: polling, draining, returned |
| `Registration` | the handlers of `account.created` and `org.created` | each handler as the writes it makes, over `Delivery` |
| `Ownership` | `internal/org` members and departures, closing an account in `root/members.go` | `role`, the row locks of `LockLiveOwners`, versions as stale copies; `unread` names the memberships a departure could not read and passed over |
| `Seats` | invitations, memberships, grants, the opener's grant | a membership and a grant are written under the version that was read, an invitation by id alone |
| `Identity` | `internal/identity` commands | accounts, passwords, links, sessions; a request is the sequence of writes it has still to make |
| `Engagements` | `internal/workspace` lifecycle and the org's name | rows with versions and a unique name among the open ones; events that follow the row |

**Runs and what they say**

| Module | Models | State and actions |
|---|---|---|
| `Scheduler` | `internal/run` scheduler | a tick as its two reads and its starts, with edits and starts by hand between any two |
| `RunPipeline` | `internal/run` commands, store and domain, with the spawn gate's answers | the run row and its version, invocation and candidate rows, artifacts, observations; one action per autocommit of `Executor.execute`. `Abort` is a crash or an error anywhere in a pass. |
| `Scope` | `internal/scope` | live and superseded rules; `Decide` walks them from the oldest, `Rule` says the same with quantifiers |
| `Targets` | `internal/target` | rows under a version and a unique name, events told afterwards, the root a subscriber sets |
| `Chains`, `Mappings` | `internal/check`, `internal/tool` mappings | a chain as steps and flows replaced in one transaction after being validated in another, by statements that meet those of another save, of a start that reads steps and then flows, and of whoever archives a tool; drafts, promotions and what retires them |
| `Graph` | `internal/observation` extraction, `internal/entity` assembler and roots | one statement at a time over deliveries that are cut and made again |
| `Findings` | `internal/finding` | the upsert of a sighting, in any order of scans; triage and reassessment from a row read before |
| `Rulings` | claims, judgements, and the canvas of `internal/entity` | the canvas as its four reads while others decide, under the filters the page offers and cut at its page |
| `Coverage`, `Changes` | `root/entityports.go`, `root/changes.go`, the read marks of `internal/entity`, `internal/seen` | a report as its five reads while invocations start, finish and are extracted |
| `Health` | `internal/health`, tools | six probes in order while tools, mappings, checks, runs and events move |
| `Ledger` | `internal/audit`, `internal/journal` | rows appended by redelivered events, walks by cursor, sweeps in batches |

**Sources and what people write**

| Module | Models | State and actions |
|---|---|---|
| `Retention` | `internal/source`, its extraction, `internal/artifactcleanup`, `pkg/blob`, the citations of runs and reports | rows of a source under their lock, the directory of contents outside every transaction, sweep rows and their ledger |
| `Cleanup` | reviews and status of `internal/artifactcleanup` | a save, a discard and a sweep each read the review and write it later; the status is read page by page |
| `Watch` | watches of `internal/source` and their worker | the row, its lease, and a run that reads the page outside any transaction and then writes the whole row back |
| `Intake`, `Alerts` | candidates for sources; the inbox of `root/sources.go` | a review that stores bytes before its transaction; a refresh as the reads that find the gaps and the transaction that keeps them |
| `Briefs` | `internal/brief` with the questions and records it links | the row lock of a save, the statements of a freeze, the handoffs with review and shares |
| `Reports` | `internal/report`, `internal/note`, `root/reports.go` | transactions over one snapshot, refused when the row was written since |
| `Review` | `internal/review` | relations, source links, clusters, shares of citations, and the coverage and cycles made of them |
| `Research` | `internal/researchentity`, `internal/researchresolution` | claims of identity over pairs and sets, prepared outside the transaction that writes them |
| `Timeline` | `root/research_neighborhood.go`, connections, events and groups | rows, their revisions, accounts and what was decided of them; a neighborhood as the reads it takes: connections and then events of each record of the frontier, then each record by itself, while sources are restricted and records edited |
| `Assistance` | `internal/assistance` | a request from its evidence over the policy and the provider to the row that keeps the answer |

Theorems are in `OutboxProofs` (over `OutboxLease`), `RunPipelineProofs` (over
`MCRunPipeline`), `OwnershipProofs`, `RetentionProofs`, `AccountsProofs` (over `Seats`
and `Identity`, as `MCAccounts` has them), `BackgroundProofs` (over `Registration` as
`MCBackground` has it), `AuthoringProofs` (over all that `MCAuthoring` follows) and
`KnowingProofs` (over the graph, findings, targets, mappings, tools, engagements and reviews that
`MCKnowing` follows). `MC*` are the instances for TLC; what `MCAuthoring`, `MCAccounts` and,
for the first six of those parts, `MCKnowing` give their parts are constants of their own, so
that the theorems are about every instance. The reviews of `KnowingProofs` are those of the
run's two instances.

How they compose. `Registration` extends the abstract `Delivery`, and `Outbox` is
shown to implement `Delivery`, so the chain of a registration is checked against
what the table really gives. `OutboxLease` and `OutboxDrain` extend `Outbox`. The
other modules meet at an interface that one of them owns: events that may come
late, twice, in any order or not at all (`Ledger`, `Graph`, `Seats`); the answer of
the scope, which `RunPipeline` and `Graph` take as given and `Scope` decides; bytes that may go
(`Retention`), which `Assistance` and `Watch` know as a flag; the sweep of
`Retention`, of which `Cleanup` keeps the rows and what the reviews make of them.

## 3. The runs

Components that write no row in common cannot interfere, so several share a run:
the first state chooses a *part*, only that part's actions are enabled, and every
other variable stands still in an initial state. This is the sum of their state spaces,
not the product, and each property of such a run names the part it is about.
The invariants of these runs hold the `TypeOK` of their modules too (in `accounts`
and `run_pipeline` it is in `OnceEach`, in `background` in `ChainIsWhole` and, of the
scheduler, in `PairsKeepTheirInterval`); those of `Outbox`, `Ownership` and `Retention`
are theorems.

| Run | Instance | What it shows |
|---|---|---|
| `outbox` | 2 events, 2 dispatchers, 2 handlers, batches of 2, 2 attempts, 1 fault | the table implements at-least-once delivery (`DeliversAtLeastOnce`); a row goes only after every handler accepted it (`NothingLost`); burial is never early although it is decided on a stale count (`BuriedIsExhausted`); handlers see the list's order (`ChainOrder`); no event is in two hands before a lease is overrun (`ExclusiveUntilOverrun`) |
| `background` | scheduler: 3 pairs, 2 to a tick; drain: 2 events, 1 dispatcher, 2 faults; chain: 1 account, 2 dispatchers, 1 fault | no pair starts early and each takes its turn (`PairsKeepTheirInterval`, `PairsAreServed`); every event is drained or buried and every drain returns (`EventsSettle`); the chain is made in order, has gaps only where a `Provision` was cut, and houses everybody else (`ChainIsWhole`, `EveryoneIsHoused`) |
| `run_pipeline` | a step that feeds another, 2 subjects; 1 executor with 2 deaths and 1 change of rules, or 2 executors with neither | what ran was permitted (`GateAllowed`) and read from a feeder's stored output (`Lineage`); a process once per step under one executor and an end told once under two (`OnceEach`); what is missing of a complete run is a death, and a candidate's row tells the command line (`RowsAreTrue`); the run completes (`RunsComplete`) |
| `ownership` | 2 seats, 2 requests, 1 dispatcher, 2 tries | requests side by side never unmake the last owner (`RequestsKeepAnOwner`); a closed account leaves the org, or its event is buried, or its membership could not be read (`Departs`) |
| `accounts` | 1 account, 2 addresses, 2 secrets, 1 link, 2 sessions; 2 accounts, 2 invitations; 2 requests at a time | a link lets one save through and no session's end is told twice (`OnceEach`); the password in force is the one last chosen (`StoredIsChosen`); an invitation's row says who came by it (`RowsTellTheSeats`); neither a closed account nor a spent invitation comes back (`DoneForGood`) |
| `retention` | 1 content, 2 sources in 2 workspaces, 3 requests two at a time, 2 sweeps | live bytes are lost only where a sweep crosses their citation (`LossIsARace`); holds and purges exclude each other (`HoldsAreKept`); purges are final (`PurgedForGood`); no blocked duplicate (`NoTwinUnderBlock`); the sweeps' ledger agrees with the disk (`LedgerIsTrue`) |
| `knowing` | 21 parts, below | what is known of a target |
| `authoring` | 9 parts, below | what people write of it and what brings it in |

The parts of `knowing`:

| Part | Module and instance | Conjuncts |
|---|---|---|
| graph | `Graph`: 2 invocations, 4 subjects, pages of 2, 2 attempts, 1 fault | `GraphIsWhole`: `DrainedIsAssembled`, `TargetNamesItsRoot` |
| rulings, canvas, pages | `Rulings`: 2 people on one claim; 3 claims, pages of 2, every filter, 1 reader; 2 claims, a page of 1 | `ToldIsSo`: `DecidedIsTold`, `ToldStands`, `CanvasIsTrue` |
| findings | `Findings`: 2 subjects, 2 scans, 1 person who rules on what was read before | `FindingsAreCurrent`: `CitesTheNewest`, `UpsertIsSeen`; `StandingIsKept`: `KeepsRulings` |
| scope | `Scope`: addresses of 2 bits, 6 drafts, 3 rules, 2 people | `ToldIsSo`: `DecideIsTheRule`, `OneSupersedes`; `NarrowingPermitsNothing` |
| coverage, acts | `Coverage`: 2 invocations of 2 targets; 2 people who read and judge | `ToldIsSo`: `CellsAreTrue`, `ActsAreKept` |
| changes | `Changes`: 3 runs, 5 invocations, 2 readers | `ToldIsSo`: `ChangesAreTrue`, `MarkerIsAnAsking` |
| targets | `Targets`: 2 targets, 3 requests, 3 versions | `CatalogIsKept`: `EventsAreTheHistory`, `NamesAreTheirOwn`; `StandingIsKept`: `RootIsKept` |
| chains | `Chains`: 2 saves, an archiver and a start over 6 graphs | `ToldIsSo`: `ChainIsOneSave`, `PlanIsWhole` |
| mappings | `Mappings`: 2 roles, 3 requests, 2 versions | `CatalogIsKept`: `OneLiveVersion`; `StandingIsKept`: `HistoryIsKept` |
| tools, health, machinery | `Health`: 3 people on a tool; a reader beside one; a reader beside checks, events and paths | `CatalogIsKept`: `EventsAreVersions`; `ToldIsSo`: `SilenceIsTold`; `StandingIsKept`: `ArchivedStays` |
| engagements | `Engagements`: 2 engagements, 2 names, 2 people twice each | `CatalogIsKept`: `EventsAreVersions`, `NamesAreTheirOwn`; `StandingIsKept`: `ClosedIsLeftAlone` |
| ledger, journal | `Ledger`: 5 decisions in 4 walks; a sweeper beside a walk; pages and batches of 1 | `LedgerIsWhole`: `WalksAreWhole`, `ScopesAreApart`, `RecordsAreKept`, `FacetsCountThePage`, `PassIsWhole` |
| reviews, sweeps, status | `Cleanup`: 2 reviews, 2 people and a sweep; 2 sweeps; a reader | `LedgerIsWhole`: `CompletedIsSwept`, `StatusIsTrue`; `StandingIsKept`: `DoneStays` |

The parts of `authoring`:

| Part | Module and instance | Conjuncts |
|---|---|---|
| briefs | `Briefs`: 2 people, 2 drafts, 1 handoff, 2 edits, 2 decisions | `BriefsAreTrue`: `BriefIsOneSave`, `HandoffsAreTrue`, `ReviewFollowsDecisions` |
| reports | `Reports`: 2 requests, 2 toggles, 1 revision each, 2 moments, 1 note | `ReportsAreTrue`: `DocumentReconciles`, `RevisionsAreCounted`, `NoToggleIsLost`, `ErasedStaysErased` |
| review | `Review`: 3 observations of 2 sources, 1 cluster, 3 links | `RecordsAreWhole`: `CoveredIsCompared`, `ShownIsRecorded`; `GraphsAreDrawn`: `CyclesAreTold` |
| research | `Research`: 2 records, 2 claims, 2 requests | `RecordsAreWhole`: `OneStandingClaim` |
| timeline | `Timeline`: 3 records, 2 rows of a kind, 2 requests; 1 reader, depths and limits up to 2, 1 restriction or edit under it | `RecordsAreWhole`: `HistoryEndsAtTheRow`; `GraphsAreDrawn`: `NeighborsAreTold` |
| assistance | `Assistance`: 2 observations, 2 requests, 2 answers | `AnswersAreGrounded`: `ShownIsGrounded`, `HeardIsKept`, `LastReviewIsTheState` |
| watch | `Watch`: 3 requests, 1 death, 3 instants, 2 pages | `WatchIsKept`: `OneLeaseAtATime`, `SwitchIsKept`, `ChangesAreTold`, `TwinsWereRaced` |
| intake | `Intake`: 2 candidates, 3 reviews | `InboxIsTrue`: `OneSourceEach` |
| alerts | `Alerts`: a question, a record, 2 people with different clearance | `InboxIsTrue`: `InboxIsTheLastRefresh`, `MailIsOfAnAlert`, `NoGapIsCompared` |

Four runs end in a counterexample: a comment or a table of the repository says
otherwise (each is a finding in `PROJECT.json` with the lines).

| Run | What happens |
|---|---|
| `run_stuck` | an executor dies between the resolved row and its start; a rule then excludes the value; the refusal carries a `permit_rule`, the row is rejected, and every later pass ends there |
| `registration_half` | one refused write after the org row, and the redelivery answers "already provisioned": no seat, no workspace, nothing buried |
| `ownership_departs` | a departure counts two owners outside any transaction while the other one is demoted: members without an owner |
| `brief_freeze` | a saved brief links a question that is deferred, and cannot be frozen any more: the table of the copies knows no deferred question |

### Bounds, and why they are enough

Two of each actor are the least that can interleave, and every lock, lease,
version or "where" clause of the code is between two actors; a third request is
there where a name is handed on (`Targets`), or where two must overlap a third
(`Mappings`, `Watch`, `Intake`). `MaxFaults`, `MaxDeaths` count the deaths or refused
writes of a behaviour: one leaves any sequence of writes half made, two do so again
in the repair. `MaxAttempts` 2 has a first attempt, a retry and a burial. In
`RunPipeline` one edge of the chain is every edge: a step depends on its feeders only.
`EndsAsItPrinted` of `MCRunPipeline` lets
how a process ended follow from what it printed where two executors share a run, since no step asks
for it; the lone executor has every combination.
In `Retention` one content in two sources is the hardest case for a store that
shares by content; contents do not meet except in the list of one sweep, whose items
are independent. Pages and batches of 1 or 2 over three to five rows give every
walk and pass a boundary to cross. Clocks run to 2 or 3: before, at and after the
interval in question. In `Scope` two bits hold the whole space, a half of it and a single
address; three rules are an include, an exclude and one that supersedes.

`MCAuthoring` also bounds what its parts combine, each bound named there:
`OneFreezes` lets saves race each other, but one request at a time freezes and what follows a
freeze is decided one by one; `OneTable` fills one table of `Review` at a time, since its
readings do not cross tables; `EditsFirst` edits records before the claims race;
`Building`, `Editing` and `Gathering` follow the timeline's rows, revisions and groups
apart, and `Looking` reads what was built while one thing is restricted or edited; `OverEvidence` and `OverCapture` do so with results and proposals; `Watching` gives
the third request to the configuration. In `MCAccounts` the second part follows
invitations with nobody re-ranked, the third seats with one invitation. The
properties proved in section 4 need none of these bounds.

Symmetry is declared only where all states and properties treat the values alike,
for requests, people and sessions that are told apart nowhere by an order or a
`CHOOSE`, and only in runs of invariants and action properties; `retention` adds the exchange of
the two sources together with their workspaces. No run with fairness has symmetry.

Deadlock is checked in the two runs of `RunPipeline`, where a completed run has a step
of its own. Elsewhere the counted requests are used up and the system rests.

### Fairness

* `RunPipeline`: `WF` of the lone executor's next step. `root/run.go` gives it a
  ticker, and nothing it waits for is another executor's to release.
* `Scheduler`: `WF` of the tick and of time. Nothing is assumed of people.
* `OutboxDrain`: `WF` of each live dispatcher's poll and of time. Neither that a
  handler ever succeeds nor that a shutdown comes is assumed; a dead dispatcher
  is not restarted.
* `Registration`: `WF` of each dispatcher's next delivery.
* `Ownership`: `SF` of a departure, since PostgreSQL queues those who wait for a
  row and requests that keep locking it cannot overtake the handler for ever;
  `WF` of the decision of a request that holds locks, since a transaction ends.

The other modules promise nothing of the kind: a person need not come back, and a
request that is cut is not made again.

## 4. What is proved

TLAPS checks every leaf. The theorems hold for every value of the constants that
satisfies the modules' assumptions; each property is also checked by a run, and so
was each inductive invariant before its proof. None of the properties is inductive:
what a request, a dispatcher or an executor holds between two of its steps has to be
said first, and most of an invariant is that.

**`OutboxProofs`**: `TypeCorrect`, `NothingLostAlways`, `BuriedIsExhaustedAlways`,
`ChainOrderAlways`, `DeliversAtLeastOnceAlways`, the refinement of `Delivery`, and
`ExclusiveAlways`. `HeldIsPublished` (a dispatcher holds committed rows only),
`HandedOn` (handlers before the next one have accepted the event in hand),
`DoneIsHandled` (what it will delete was accepted by all) and `ReadIsPast` (the count
it read is not above the row's) carry the first five; the last of them is why a burial
decided on a stale count is still right. Exclusion needs `WithinLease`: until a
lease is overrun, whatever is held is pending and leased for at least as long as its
holder's batch, so that no claim finds it due; and `HeldOnce`, that an event is at one
place of its batch.

**`RunPipelineProofs`**, for any chain and any number of executors: `TypeCorrect`,
`GateIsKept`, `LineageIsKept` and `FinishesOnce`. The gate's answer is spent long after
it was given, from rows read before others wrote: `OnlyAllowed` says that a pending
row, in the table or in an executor's hands, holds permitted values only, and `OnlyFed`
that what a step is aimed at was read out of a feeder's output, which never changes once
stored (`StoredFirst`). `FinishesOnce` rests on the version: an executor in its pass has
read the one between the run's two changes of state. For a lone executor, over any
number of its deaths, `OneExecutor`: the row it holds is the stored one, and each step
it has left behind with something missing is paid for by a death. `OnceEachAlways` and
`RowsAreAlwaysTrue` bring these to the two halves of the run's specification.

**`OwnershipProofs`**: `TypeCorrect` and `RequestsKeepAnOwnerAlways`. At a decision
a request has locked the owner rows it counted; `LocksAreApart` and
`LockedAreOwners` say that nobody else holds them and that they still are owners,
`CopyIsCurrent` that a copy under lock is not stale, so that the write takes one
of at least two. `TriesLeft` is needed for the types.

**`AccountsProofs`**: of `Seats`, `TypeCorrect`, `RowsAlwaysTell` and `NeverLive`: a
request holds only invitations that were sent, and a row is written over only by one
that is spent (`RowsTell`, `JobsHold`). Of `Identity`, which `MCAccounts` names `I`,
`IdentityTypes`, `OneSavePerLink` (`LinkWorksOnce`), `ChosenIsStored`, `ToldOnce`
(`EndsAreToldOnce`) and `ClosedStays` (`ClosedForGood`): a job fits the rows it was made
from unless it knows them stale (`JobsFit`), and no two jobs hold one consumed link's
save or one session's report (`JobsApart`); a save leaves every other copy of its row
stale. These suppose `NobodyIsNone`: no identifier is the value that stands for nobody,
as no UUID or address of the code is empty. Of `MCAccounts`, which follows either
component, `OnceEachAlways`, `StoredIsChosenAlways` and `DoneIsDone`.

**`BackgroundProofs`**: `ChainIsAlwaysWhole` and `ChainAloneIsWhole`, for any accounts
and dispatchers and any number of faults. What a dispatcher has written for the event in
its hands is there (`Carries`), so an event a handler has run on left the next link
made (`HandledIsMade`), and what is drained was handled (`DrainedIsHandled`, which is the
guard of `Delivery`); an org that was not announced is in somebody's hands or torn
(`UntoldIsInside`).

**`RetentionProofs`**: `TypeCorrect`, `LossIsAlwaysARace`, `HoldsAreAlwaysKept`,
`PurgeIsFinal`, `LedgerIsAlwaysTrue` and `NoTwinEver`. `Orderly` says what each request
is about and what its lock means: locks are apart (`LocksAreApart`), a locked source
stays as it was found (`LockedIsKept`), and a source is made by one request only
(`FreshIsOnce`). With it a purge meets no hold and a commit no purged source. The bytes
need two more facts: a listed content that nobody has cited since the list was read is
dead (`ListedIsDead`), and bytes a request has put are on disk or were crossed
(`PutIsPlaced`). A commit then makes live only what the second covers, and an
unlink takes only what the first does or what `crossed` names. For the ledger the
removals not yet recorded are counted with the recorded ones (`Gone`, `Accounted`), and a
sweep that met a failure is past its items (`ListsAreDone`); for the versions it is enough
that an absent source has none (`AbsentIsEmpty`).

**`AuthoringProofs`**, each for the component alone and without the bounds that
`MCAuthoring` sets its parts:

* `WatchCorrect`, `WatchesAreKept`. A watch row is written whole by requests that read it
  before, and a configuration or a run by hand drops the lease of another. `LeasesHold`:
  a lease in force is the row's, or was dropped by a row that is not due before it has
  passed; that holds while no request writes over what it has not read. The property was first
  stated of a row that *differs* from the one read, and the proof failed: five requests may
  put the same row back in between, and a worker gets a lease that nobody can see. `stale`
  therefore names who holds a row that was written since. `CapturesAreOwn` and
  `ChangesAreKept` tie each capture and alert to one run and to what it had looked up.
* `OneSourceOfACandidate`, `InboxesAreTrue`. A review is marked under the lock of its
  candidate, so the source a row names is of one review. That no gap means compared
  (`NoGapMeansCompared`) is a counting argument: the code compares a number of rows with
  `n * (n - 1) / 2`, and `PairsOf` has that many members.
* `ReportsHold`. At one version all that a request has read of the report is the row
  (`ReportJobs`), so who is not refused has missed no toggle.
* `BriefsHold`. The row of a brief is locked before its links are replaced: what a save
  drops is what is there when it commits, and the five tables are always of one draft. A freeze
  copies in many statements, but it reads the row and its links in one: what it has copied so far is
  of that draft and is all it has found (`FreezeOfOneSave`), so a handoff is one save, whole, and
  what it shows is what was read. Of the reviews no more is proved than holds: the state
  is some decision's, and the newest's when the newest was also kept last.
* `AssistanceHolds`. An answer is kept with the evidence the request carried, never with
  what is stored when it arrives (`AssistJobs`); a proposal is of the last review of it.
* `RecordsHold`. Of research: however old the reading on which a resolution was decided,
  the unique index has the last word, and what it lets in shares no record with what
  stands (`ClaimsAreApart`). Of the timeline: no edit changes the ends of a row, so the row
  and its newest revision are written alike (`HistoryIsKept`). Of review: rows within a
  cluster are as many as the pairs compared (`RowsAreThePairs`).

**`KnowingProofs`**: `GraphHolds`, `FindingsCorrect`, `CatalogHolds` and `StandingHolds`. A
behaviour of `MCKnowing` is one of one part while the others stand still (`KnowingNext`), so
what a part keeps by its own steps holds there.

* The rows of the graph only grow, and what is observed of an invocation no longer changes once
  its event is there. So what a delivery has passed stays done however it ends (`Passed`), and a
  drained event has passed everything; what is announced of the root is the root there is
  (`RootIsOne`).
* A finding's row is what was seen of its problem, in whatever order the passes were recorded:
  `RowsTellOf` compares it with the set of them, since a ruling writes none of the columns
  that tell of a sighting; and what the statement of the upsert does to a row is what the domain
  does (`UpsertIsTheDomains`).
* Of targets, mappings, tools and engagements: a version is stored once, so a request that
  finds the version it has read finds the row it has read, and what it has to tell of the one it
  makes is true for good and told by nobody else. Targets and engagements meet in their names
  only, which an index over the live ones guards; promotions in the live version of a field.
* `StandingHolds` is the action property of the same invariants: a scan moves no ruling but one
  that says resolved, a root once set stays, a retired mapping is not live again unless
  its promotion had read it before, and what is archived, closed or reviewed stays as it is.

Only model-checked:

* every liveness property (`RunsComplete`, `PairsAreServed`, `EventsSettle`,
  `EveryoneIsHoused`, `Departs`): fairness and `ENABLED` are out of the prover's reach;
* `PairsKeepTheirInterval`, whose queue is made with `SelectSeq`, and `GraphsAreDrawn`, whose
  cycles are a transitive closure and whose neighborhoods are folds over sequences:
  nothing can be proved of either without induction over data;
* of `knowing`: `ToldIsSo` and `NarrowingPermitsNothing`, whose rules, cells and markers are
  folds, whose chains are walked by a recursive function and whose canvas is filtered by
  `SelectSeq`; and `LedgerIsWhole`, whose rows are found through a recursive count of a script.

## 5. Seen while modelling, without a run

Delivery and the tenancy:

* A redelivered `org.created` is refused by `workspace_live_name`, the older
  index, before `workspace_source_event` can say that the work is done
  (`internal/workspace/infra/postgres/postgres.go:112`), so an event that was
  handled and comes back is retried and buried.
* A retry time or a burial is written by id alone (`pkg/outbox/postgres.go:183`): a
  dispatcher that outlived its lease (`:158`) ends the lease of another.
* `Drain` returns after a batch that delivers nothing, also while rows behind a
  failing batch are due (`pkg/outbox/dispatcher.go:158`).
* Closing an account archives its row, then revokes what credentials it has read,
  and only then publishes `account.archived`. A sign-in's rehash that saves the
  password in between ends the closing half way, and trying again is refused, since
  the account is archived: the event that ends its memberships never comes
  (`internal/identity/app/command/settings.go:288`, `root/members.go:128`).
* Departures promise to fail where a membership cannot be ended
  (`internal/org/app/command/departures.go:25`, "it FAILS rather than skipping"), but take whatever
  `LiveMemberFor` answers for "already gone" (`:85`), also a read that failed: the event is
  drained and the membership stays, with nothing buried. `Departs` names this as the only way out.
* A consumed link whose account save died is spent for nothing (`verify.go:126`).
* A redelivered `workspace.opened` grants somebody who has left
  (`internal/org/app/command/opener.go:89`); an invitation that was taken may be shown
  as withdrawn (`invites.go:226`); somebody who comes back may find a grant of the
  last time, since departures revoke grants in a statement of their own; an invited guest or client
  keeps no date for the seat when invited over HTTP.
* The events of renaming, closing and reopening an engagement, an org or a target
  follow the row and may be lost or told out of order. Reopening says "the caller
  renames first" (`internal/workspace/app/command/lifecycle.go:62`), but `Rename`
  refuses what is archived: only the other, open one can be renamed.

Runs, graph and findings:

* A run is claimed by a select whose locks end with its transaction
  (`internal/run/app/command/executor.go:96`), so two executors take one run. The
  run's version makes its end unique; nothing makes its processes so, and
  `SpawnedAtMostOnce` is claimed for one executor only.
* An error in one run ends the pass over the others (`executor.go:107`).
* A run may complete with a `running` invocation whose executor died
  (`internal/run/domain/run.go:89` says every one is terminal), and a lost artifact
  then reads as "nothing was written" (`0001_run.sql:127`): `EveryGapIsADeath` bounds
  both by the number of deaths.
* After a death and a change of rules a candidate's row and the command line may
  disagree (`internal/run/infra/postgres/store.go:227`, `0004_candidate.sql:35`):
  `CandidatesTellTheArgv` needs one of the two to be absent.
* `run.started`, `finding.opened` and `note.written` are published after the row they
  tell of, where `pkg/outbox/doc.go:4` wants "together or not at all".
* Pairs whose start always fails stay first in the scheduler's queue; a batch full
  of them starves the rest (`internal/run/app/command/scheduler.go:81` considers a
  single one). `Served` says exactly when.
* A range is permitted although an address in it is excluded: a rule on an address
  never matches a range (`internal/scope/doc.go`), exclude or not.
* An assembly that is cut and made again counts a fragment's observations twice,
  though `internal/entity/app/command/port.go:22` says that a redelivery does not double the
  graph; what does not fit on its page makes no fragment (`subscriber.go:97` wants one of
  whatever was observed); and of a tool archived since, citations
  are dropped where `root/entityports.go:104` says they become unresolved.
* A ruling and an assessment write each other's columns as they had read them: a
  reassessment that read a finding before a scan reopened it resolves it again, and of
  two overrides one is forgotten. A sighting that comes before the assembler has made
  its fragment is passed over.
* The list of changes compares the two newest complete runs whatever check they are
  of (`root/changes.go:132` and `:70`), so that a field only one of the checks asks for may be told
  "gone"; also while the newer one is still being extracted. An unfiltered coverage
  report credits an asset of one target with a run of another
  (`root/entityports.go`, `LatestPerSubject`). The seen marker may move backwards.
* Two saves of one chain may leave the union of their flows, which may have a
  cycle (`internal/check/infra/postgres/chain.go:54`): `ChainIsOneSave` says what else may stand
  and what may not, and `PlanIsWhole` that no run is planned of what cannot be walked. Updating a tool may break edges of stored chains and
  leave a live `derived_from` mapping that can never fire
  (`internal/tool/domain/mapping.go:138`). A promotion that read its draft early revives a
  retired version.
* A finding tool that nothing reads when the health asks for signatures, and that
  gets its first mapping, still without a signature, before it asks for tools nobody reads, is told by neither,
  and the report is `Trustworthy` (`internal/health/domain/symptom.go:151`); a tool that once could not start and a
  path that once was unmapped stay symptoms for good, though `symptom.go` speaks of
  what "is still broken"; paths beyond a page of 200 are not told.
* A sweeper of the journal beside another may end its pass on a short count although
  old lines remain, and an event that comes back after its line was swept is
  journalled again. A decision without an actor is refused by the ledger
  (`ErrActorRequired`) until it is buried.

Sources and documents:

* Bytes put again under a sweep that has them in its list are removed beneath live
  rows (`internal/artifactcleanup/app/cleanup.go:516`, `pkg/blob`): `LossIsARace` names this as the
  only way. A sweep that was interrupted completes its row and its review all the same
  (`infra/postgres/postgres.go:534`); a review that is done is opened again, without its
  sweep, by a save that read it before (`:417`).
* The status of a cleanup calls contents eligible that another workspace still cites
  (`References`, `postgres.go:125`, asks one workspace, where
  `internal/artifactcleanup/domain/cleanup.go:123` speaks of every reference there is), and looks outcomes up among the newest
  only, so that older swept ones are told missing.
* Extractions and observations are inserted without asking whether the source was
  purged since its bytes were read; an extraction that dies leaves observations
  without its event.
* A watch run that kept a capture and then finds its lease passed, or dies, never
  alerts of it; a configuration written from an old row may enable a watch that was disabled
  meanwhile, or drop the lease of another; the lease of a dead worker blocks runs by
  hand until it is claimed again (`root/sources.go`, `executeSourceWatch`).
* A refresh of the inbox publishes `source.alert.created` again for an alert that is
  there, under an identifier no row has, though `internal/source/app/command/sources.go:383`
  calls it idempotent; two refreshes leave both sets active (`:396` says "retired
  atomically"); a reader who may see less retires the alerts of
  gaps they cannot see; a gap that comes back is shown as seen.
* A freeze reads at READ COMMITTED, so that the copies in a handoff may be of different
  moments. A decision has its time before its transaction (`internal/brief/app/command/brief.go:267`) and
  the list is in that order (`infra/postgres/postgres.go:1125`), while the state is of whoever commits
  last (`:1214`): after two decisions at once the review may say the opposite of the decision at the
  head of its list. A note that has a
  context but no subject becomes a note of the engagement.
* Reversing a resolution takes from the record whatever it had added, also an
  observation that another accepted one would have added since: "reversible" in the
  repository's `README.md:19` is not "undone". The single
  proposal of a resolution ignores sets that stand (`resolutions.go:63`), and saving one
  is unconditional (`postgres.go:366`).
* A revision may not be the record under racing edits
  (`internal/researchentity/domain/record.go:150`); a group of events that is edited keeps
  its review, and loses the edit to a review that races it; a neighborhood that is not
  "truncated" may lack rows beyond fifty of a record, and, when a source is restricted
  between two of its reads, tells a connection or an event without the record at its end
  (`root/research_neighborhood.go:262` passes over what is hidden by then).
* Not every attempt at a provider leaves a run
  (`internal/assistance/domain/provider_run.go:20`); the policy may be withdrawn between
  its reading and the provider's call; two reviews of a proposal that race both succeed and
  the last is kept.

## 6. Not modelled

`PROJECT.json` lists every component with its reason. Left out for good:

* HTTP decoding and encoding, wiring, DNS and dialling, logging, mail, identifiers,
  cryptography: nothing in them keeps a state that two steps could disagree on.
* How a process is spawned (`pkg/execx`): what it does within its timeout is a choice in
  `RunPipeline`.
* `pkg/limit`: one bucket per key under one mutex, refilled by a multiplication of
  durations in floating point. Nothing interleaves, and the arithmetic is out of
  TLC's reach.
* Migrations: they run one after the other under one advisory lock, before anything else does.
* `internal/invocation`: a package without code.
* What an external provider, a scanner or a page answers: a choice of the model.
* Torn or corrupted files: `Put` renames a complete one.

Of the components listed as `partly`: the comments on a handoff and the record of
who has opened one; opening a question and creating a record (they are there from
the start); when a record is dated to; the kinds a neighborhood is filtered by and the hundred citations it
tells; the alerts of gaps in a cluster, which `DeactivateDerivedGapAlerts` retires with those that are modelled
(`root/source_alerts.go:94`); the search index; what a document holds at a mapped path; the
expiry of sessions; the sign-in limits.

## 7. Plan

Done: delivery with its proofs, drain; run pipeline with proofs, scheduler; registration,
identity, ownership and seats with proofs, engagements; retention with proofs,
cleanup, watches, intake and alerts; scope, targets, chains and mappings; graph,
findings, rulings, coverage, changes and health; audit and journal; briefs, reports,
review, research, timeline and assistance, with proofs of all of these but the graphs;
the assembly of the graph, findings, targets, mappings, tools, engagements and reviews of the
cleanup with proofs.

Theorems next, in order: `WalksAreWhole` of `Ledger`, `CompletedIsSwept` of `Cleanup`,
`OneSupersedes` of `Scope`, `DecidedIsTold` of `Rulings`.

Modelling left: what section 6 names of the components listed as `partly`, in the order in
which it is named there.
