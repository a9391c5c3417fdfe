---------------------------- MODULE MCBackground ----------------------------
(***************************************************************************)
(* What goes on beside the listener (root/run.go): the scheduler's ticker  *)
(* over three pairs, two to a tick, one of them with a longer interval;    *)
(* the dispatcher's loop, until the shutdown drains it; and the first work *)
(* the dispatcher has, the chain from an account to its workspace, with    *)
(* two dispatchers that may hold one event together and one fault.  They    *)
(* have no state in common, so a behaviour follows one of them.            *)
(***************************************************************************)
EXTENDS Scheduler

CONSTANTS a, b, c, e1, e2, d1, NoEvent, BackoffCap

\* Of the chain: see Registration.
CONSTANTS Accounts, Dispatchers, MaxAttempts, MaxFaults

ASSUME FaultsAssumption == MaxFaults \in Nat

ThreePairs == <<a, b, c>>
Intervals == [p \in {a, b, c} |-> IF p = b THEN 2 ELSE 1]

VARIABLES loop, row, written, attempts, dueIn, handled, todo, read, cur, next, done,
          faults, mode,
          status, handledBy, failed, accounts, verified, orgs, owners, homes, named, doing,
          wrong, torn

D == INSTANCE OutboxDrain WITH
       Events <- {e1, e2}, Dispatchers <- {d1}, NHandlers <- 1, Batch <- 2, Lease <- 2,
       MaxAttempts <- 2, MaxFaults <- 2,
       Backoff <- [n \in 1..2 |-> IF 2^n < BackoffCap THEN 2^n ELSE BackoffCap]

R == INSTANCE Registration WITH
       handled <- handledBy, attempts <- failed, faults <- wrong

table == <<row, written, attempts, dueIn, handled, todo, read, cur, next, done, faults, mode>>
chain == <<status, handledBy, failed, accounts, verified, orgs, owners, homes, named, doing,
           wrong, torn>>
all == <<vars, table, chain, loop>>

\* The loop that is not followed stands still in one of its initial states.
Asleep == enabled = Pair /\ broken = {}

BackgroundInit ==
    /\ loop \in {"scheduler", "dispatcher", "chain"}
    /\ Init /\ D!DrainInit /\ R!Init
    /\ loop # "scheduler" => Asleep

Schedules(A) == loop = "scheduler" /\ A /\ UNCHANGED <<table, chain, loop>>
Dispatches(A) == loop = "dispatcher" /\ A /\ UNCHANGED <<vars, chain, loop>>
Founds(A) == loop = "chain" /\ A /\ UNCHANGED <<vars, table, loop>>

BackgroundSpec ==
    /\ BackgroundInit
    /\ [][Schedules(Next) \/ Dispatches(D!DrainNext) \/ Founds(R!Next)]_all
    /\ WF_all(Schedules(Tick)) /\ WF_all(Schedules(TimePasses))
    /\ WF_all(Dispatches(D!Tick /\ UNCHANGED mode))
    /\ WF_all(Dispatches(D!Polls(d1)))
    /\ \A d \in Dispatchers : WF_all(Founds(R!Deliver(d)))

-----------------------------------------------------------------------------
\* Served and AnIntervalApart, of the scheduler's loop: every pair that stays
\* enabled and startable takes its turn, and none is started early; the
\* second holds the type invariant of the loop, as ChainIsWhole that of its own.
PairsAreServed == loop = "scheduler" => Served
PairsKeepTheirInterval == []TypeOK /\ AnIntervalApart

\* Settles and DrainReturns, of the dispatcher's: every event is drained or
\* buried while it polls, and a drain at shutdown ends, whatever fails.
EventsSettle == D!Settles /\ D!DrainReturns

\* Of the chain: no link is made before the one it stands on, it stops half
\* way only where a Provision was cut, and whoever registers is housed.
ChainIsWhole == R!TypeOK /\ R!InOrder /\ R!EveryGapIsACut
EveryoneIsHoused == R!EveryoneIsHoused
=============================================================================
