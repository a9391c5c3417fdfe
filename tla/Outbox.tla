------------------------------- MODULE Outbox -------------------------------
(***************************************************************************)
(* pkg/outbox: the table of undelivered events, the transactions that add  *)
(* to it, and the dispatchers that claim batches of it and hand every      *)
(* event to every handler.                                                 *)
(*                                                                         *)
(* Time is relative: dueIn[e] is due_at minus now, and Tick lets one unit  *)
(* pass.  No absolute clock is needed, so runs are finite without a time   *)
(* bound.  Crashes, lost connections and failed writes share one budget,   *)
(* MaxFaults.                                                              *)
(***************************************************************************)
EXTENDS Naturals, FiniteSets

CONSTANTS
    Events,       \* event ids, each minted once
    Dispatchers,  \* dispatcher processes over the one table
    NHandlers,    \* Config.Handlers, in order: 1..NHandlers
    Batch,        \* Config.Batch
    Lease,        \* claimLease
    MaxAttempts,  \* Config.MaxAttempts
    Backoff,      \* Config.Backoff, a delay per attempt count
    MaxFaults,    \* bound on crashes and failed store calls
    NoEvent       \* a dispatcher that has no event in hand

ASSUME EventsAssumption == IsFiniteSet(Events)
ASSUME HandlersAssumption == NHandlers \in Nat \ {0}
ASSUME ConfigAssumption ==
    /\ Batch \in Nat \ {0}
    /\ Lease \in Nat \ {0}
    /\ MaxAttempts \in Nat \ {0}
    /\ MaxFaults \in Nat
    /\ Backoff \in [1..MaxAttempts -> Nat]
ASSUME NoEventAssumption == NoEvent \notin Events

Handlers == 1..NHandlers

VARIABLES
    row,       \* row[e]: "none", "pending", "buried" or "drained"
    written,   \* written[e]: written_at, the order claims follow
    attempts,  \* attempts[e]: the attempts column
    dueIn,     \* dueIn[e]: units until due_at, 0 when the row is due
    handled,   \* handled[h]: events whose handler h returned nil
    todo,      \* todo[d]: claimed events d has not tried yet
    read,      \* read[d][e]: the attempts d read when it claimed e
    cur,       \* cur[d]: the event in hand
    next,      \* next[d]: the handler d calls next
    done,      \* done[d]: events of the batch every handler accepted
    faults     \* faults used so far

table == <<row, written, attempts, dueIn>>
local == <<todo, read, cur, next, done>>
vars  == <<row, written, attempts, dueIn, handled,
           todo, read, cur, next, done, faults>>

RowState == {"none", "pending", "buried", "drained"}

TypeOK ==
    /\ row \in [Events -> RowState]
    /\ written \in [Events -> Nat]
    /\ attempts \in [Events -> Nat]
    /\ dueIn \in [Events -> Nat]
    /\ handled \in [Handlers -> SUBSET Events]
    /\ todo \in [Dispatchers -> SUBSET Events]
    /\ read \in [Dispatchers -> [Events -> Nat]]
    /\ cur \in [Dispatchers -> Events \cup {NoEvent}]
    /\ next \in [Dispatchers -> 1..(NHandlers + 1)]
    /\ done \in [Dispatchers -> SUBSET Events]
    /\ faults \in 0..MaxFaults

Init ==
    /\ row = [e \in Events |-> "none"]
    /\ written = [e \in Events |-> 0]
    /\ attempts = [e \in Events |-> 0]
    /\ dueIn = [e \in Events |-> 0]
    /\ handled = [h \in Handlers |-> {}]
    /\ todo = [d \in Dispatchers |-> {}]
    /\ read = [d \in Dispatchers |-> [e \in Events |-> 0]]
    /\ cur = [d \in Dispatchers |-> NoEvent]
    /\ next = [d \in Dispatchers |-> 1]
    /\ done = [d \in Dispatchers |-> {}]
    /\ faults = 0

Idle(d) == todo[d] = {} /\ cur[d] = NoEvent /\ done[d] = {}

-----------------------------------------------------------------------------
(* The producer: Add inside a command's transaction, at its commit.  A     *)
(* transaction that rolls back leaves nothing, so it is no step at all.    *)

Published == {e \in Events : row[e] # "none"}

Publish(e) ==
    /\ row[e] = "none"
    /\ row' = [row EXCEPT ![e] = "pending"]
    /\ written' = [written EXCEPT ![e] = Cardinality(Published)]
    /\ UNCHANGED <<attempts, dueIn, handled, local, faults>>

-----------------------------------------------------------------------------
(* Claim: one UPDATE over the oldest due rows, each pushed a lease away.   *)

Due == {e \in Events : row[e] = "pending" /\ dueIn[e] = 0}

\* order by written_at limit n: a prefix of the due rows, as long as allowed.
IsClaim(S) ==
    /\ S \subseteq Due
    /\ S # {}
    /\ Cardinality(S) <= Batch
    /\ Cardinality(S) < Batch => S = Due
    /\ \A e \in S, f \in Due \ S : written[e] <= written[f]

\* Mutant: the lease is one unit short.
LeaseOutShort(S) ==
    dueIn' = [e \in Events |-> IF e \in S THEN Lease - 1 ELSE dueIn[e]]

LeaseOut(S) == dueIn' = [e \in Events |-> IF e \in S THEN Lease ELSE dueIn[e]]

Claim(d) ==
    /\ Idle(d)
    /\ \E S \in SUBSET Due :
         /\ IsClaim(S)
         /\ LeaseOut(S)
         /\ todo' = [todo EXCEPT ![d] = S]
         /\ read' = [read EXCEPT ![d] =
                       [e \in Events |-> IF e \in S THEN attempts[e] ELSE 0]]
    /\ UNCHANGED <<row, written, attempts, handled, cur, next, done, faults>>

\* The UPDATE committed and its rows never reached the dispatcher.
ClaimLost(d) ==
    /\ Idle(d)
    /\ faults < MaxFaults
    /\ \E S \in SUBSET Due : IsClaim(S) /\ LeaseOut(S)
    /\ faults' = faults + 1
    /\ UNCHANGED <<row, written, attempts, handled, local>>

-----------------------------------------------------------------------------
(* deliver: every handler in order, stopping at the first that errors or   *)
(* panics.                                                                 *)

Take(d) ==
    /\ cur[d] = NoEvent
    /\ \E e \in todo[d] :
         /\ cur' = [cur EXCEPT ![d] = e]
         /\ todo' = [todo EXCEPT ![d] = @ \ {e}]
    /\ UNCHANGED <<table, handled, read, next, done, faults>>

\* The dispatcher lets go of the event in hand, and of what it read about it.
PutDown(d) ==
    /\ cur' = [cur EXCEPT ![d] = NoEvent]
    /\ next' = [next EXCEPT ![d] = 1]
    /\ read' = [read EXCEPT ![d] =
                  [e \in Events |-> IF e = cur[d] THEN 0 ELSE read[d][e]]]

HandlerReturns(d) ==
    /\ cur[d] # NoEvent
    /\ next[d] <= NHandlers
    /\ handled' = [handled EXCEPT ![next[d]] = @ \cup {cur[d]}]
    /\ next' = [next EXCEPT ![d] = @ + 1]
    /\ UNCHANGED <<table, todo, read, cur, done, faults>>

\* Mutant: the last handler is not waited for.
AcceptedEarly(d) ==
    /\ cur[d] # NoEvent
    /\ next[d] >= NHandlers
    /\ done' = [done EXCEPT ![d] = @ \cup {cur[d]}]
    /\ PutDown(d)
    /\ UNCHANGED <<table, handled, todo, faults>>

Accepted(d) ==
    /\ cur[d] # NoEvent
    /\ next[d] = NHandlers + 1
    /\ done' = [done EXCEPT ![d] = @ \cup {cur[d]}]
    /\ PutDown(d)
    /\ UNCHANGED <<table, handled, todo, faults>>

\* Store.Failed: the row is found by id alone, so a row another dispatcher has
\* drained is not there to change, and one it has buried stays buried.
BuryRow(e) ==
    /\ row' = [row EXCEPT ![e] = "buried"]
    /\ attempts' = [attempts EXCEPT ![e] = @ + 1]
    /\ UNCHANGED dueIn

\* Mutant: a retry also clears buried_at.
DeferRowRevives(e, delay) ==
    /\ attempts' = [attempts EXCEPT ![e] = @ + 1]
    /\ dueIn' = [dueIn EXCEPT ![e] = delay]
    /\ row' = [row EXCEPT ![e] = "pending"]

DeferRow(e, delay) ==
    /\ attempts' = [attempts EXCEPT ![e] = @ + 1]
    /\ dueIn' = [dueIn EXCEPT ![e] = delay]
    /\ UNCHANGED row

\* Mutant: one attempt is not made before the row is buried.
ExhaustedEarly(tried) == tried + 1 >= MaxAttempts

Exhausted(tried) == tried >= MaxAttempts

\* Mutant: a handler's error is logged and the next handler is called.
HandlerFailsAndGoesOn(d) ==
    /\ cur[d] # NoEvent
    /\ next[d] <= NHandlers
    /\ next' = [next EXCEPT ![d] = @ + 1]
    /\ UNCHANGED <<table, handled, todo, read, cur, done, faults>>

HandlerFails(d) ==
    LET e == cur[d]
        tried == read[d][e] + 1
    IN  /\ e # NoEvent
        /\ next[d] <= NHandlers
        /\ IF row[e] = "drained" THEN UNCHANGED <<row, attempts, dueIn>>
           ELSE IF Exhausted(tried) THEN BuryRow(e)
           ELSE DeferRow(e, Backoff[tried])
        /\ PutDown(d)
        /\ UNCHANGED <<written, handled, todo, done, faults>>

\* The handler failed and so did Store.Failed: logged, the row keeps its lease.
FailureUnrecorded(d) ==
    /\ cur[d] # NoEvent
    /\ next[d] <= NHandlers
    /\ faults < MaxFaults
    /\ PutDown(d)
    /\ faults' = faults + 1
    /\ UNCHANGED <<table, handled, todo, done>>

-----------------------------------------------------------------------------
(* Delivered: the batch's accepted rows are deleted in one statement.      *)

Tried(d) == todo[d] = {} /\ cur[d] = NoEvent /\ done[d] # {}

Delivered(d) ==
    /\ Tried(d)
    /\ row' = [e \in Events |-> IF e \in done[d] THEN "drained" ELSE row[e]]
    /\ attempts' = [e \in Events |-> IF e \in done[d] THEN 0 ELSE attempts[e]]
    /\ dueIn' = [e \in Events |-> IF e \in done[d] THEN 0 ELSE dueIn[e]]
    /\ done' = [done EXCEPT ![d] = {}]
    /\ UNCHANGED <<written, handled, todo, read, cur, next, faults>>

\* The dispatcher dies, or the DELETE fails: all it knew is gone, and the rows
\* come back when their lease runs out.
Crash(d) ==
    /\ ~Idle(d)
    /\ faults < MaxFaults
    /\ todo' = [todo EXCEPT ![d] = {}]
    /\ cur' = [cur EXCEPT ![d] = NoEvent]
    /\ next' = [next EXCEPT ![d] = 1]
    /\ read' = [read EXCEPT ![d] = [e \in Events |-> 0]]
    /\ done' = [done EXCEPT ![d] = {}]
    /\ faults' = faults + 1
    /\ UNCHANGED <<table, handled>>

Tick ==
    /\ \E e \in Events : row[e] = "pending" /\ dueIn[e] > 0
    /\ dueIn' = [e \in Events |-> IF dueIn[e] > 0 THEN dueIn[e] - 1 ELSE 0]
    /\ UNCHANGED <<row, written, attempts, handled, local, faults>>

-----------------------------------------------------------------------------
Work(d) ==
    \/ Claim(d) \/ Take(d) \/ HandlerReturns(d) \/ Accepted(d)
    \/ HandlerFails(d) \/ Delivered(d)

Fault(d) == ClaimLost(d) \/ FailureUnrecorded(d) \/ Crash(d)

Next ==
    \/ \E e \in Events : Publish(e)
    \/ \E d \in Dispatchers : Work(d) \/ Fault(d)
    \/ Tick

Spec == Init /\ [][Next]_vars

-----------------------------------------------------------------------------
(* Properties. *)

HandledByAll(e) == \A h \in Handlers : e \in handled[h]

\* A row leaves the table only when every handler has returned nil on its
\* event, whoever ran them: no crash, expired lease, failed write or second
\* dispatcher makes an event disappear undelivered.
NothingLost == \A e \in Events : row[e] = "drained" => HandledByAll(e)

\* The dispatcher decides on the attempts it read at the claim, which another
\* dispatcher may have moved since; a row is still never buried before it was
\* tried MaxAttempts times.
BuriedIsExhausted ==
    \A e \in Events : row[e] = "buried" => attempts[e] >= MaxAttempts

\* A handler sees events of committed transactions only, and no handler runs
\* on an event before the ones listed ahead of it have accepted it.
ChainOrder ==
    \A e \in Events, h \in Handlers :
        e \in handled[h] => /\ row[e] # "none"
                            /\ \A g \in 1..h : e \in handled[g]

\* The table and its dispatchers implement at-least-once delivery.
Abstract == INSTANCE Delivery WITH status <- row, handled <- handled

DeliversAtLeastOnce == Abstract!Spec
=============================================================================
