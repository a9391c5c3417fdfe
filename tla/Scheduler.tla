----------------------------- MODULE Scheduler -----------------------------
(***************************************************************************)
(* internal/run: the scheduler.  A tick reads what could run, then when    *)
(* each pair of a check and a target last started, and starts the due ones *)
(* one after another, at most Batch of them: pairs that never ran first,   *)
(* then the one that started longest ago.  People start runs, edit checks  *)
(* and archive tools between any two of those steps.                       *)
(*                                                                         *)
(* wait[p] is what is left of p's interval since it last started, so due   *)
(* is zero; ran holds the pairs in the order of their last start, which is *)
(* all that the order of two due pairs depends on.                         *)
(***************************************************************************)
EXTENDS Naturals, Sequences, FiniteSets, SequencesExt

CONSTANTS
    Pairs,      \* the pairs as schedulable.Pairs lists them, a sequence
    Interval,   \* Interval[p]: units between two starts of p
    Batch,      \* SchedulerBatch
    MaxEdits    \* bound on edits of checks, tools and targets

Pair == ToSet(Pairs)

ASSUME PairsAssumption == IsInjective(Pairs)
ASSUME IntervalAssumption == Interval \in [Pair -> Nat \ {0}]
ASSUME BoundsAssumption == Batch \in Nat \ {0} /\ MaxEdits \in Nat

VARIABLES
    enabled,   \* pairs whose check is enabled and has a chain, target live
    broken,    \* pairs Start fails for: a tool of the chain is archived
    ran,       \* pairs in the order of their last start
    wait,      \* wait[p]: units until p is due, 0 when it never ran
    pc,        \* "asleep", "listed" or "starting"
    listed,    \* pairs the tick read as runnable
    due,       \* pairs the tick has yet to start, in order
    byHand,    \* history: pairs a person started since the tick read `ran`
    edits

vars == <<enabled, broken, ran, wait, pc, listed, due, byHand, edits>>
estate == <<enabled, broken>>

TypeOK ==
    /\ enabled \in SUBSET Pair /\ broken \in SUBSET Pair
    /\ ran \in Seq(Pair) /\ IsInjective(ran)
    /\ wait \in [Pair -> Nat] /\ \A p \in Pair : wait[p] <= Interval[p]
    /\ pc \in {"asleep", "listed", "starting"}
    /\ listed \in SUBSET Pair
    /\ due \in Seq(Pair) /\ Len(due) <= Batch /\ (pc # "starting" => due = <<>>)
    /\ byHand \in SUBSET Pair /\ edits \in 0..MaxEdits

Init ==
    /\ enabled \in SUBSET Pair /\ broken \in SUBSET Pair
    /\ ran = <<>> /\ wait = [p \in Pair |-> 0]
    /\ pc = "asleep" /\ listed = {} /\ due = <<>> /\ byHand = {} /\ edits = 0

-----------------------------------------------------------------------------
\* Runs.Start for one pair: the newest start of p is now.
Started(p) ==
    /\ ran' = Append(Remove(ran, p), p)
    /\ wait' = [wait EXCEPT ![p] = Interval[p]]

\* A person starts a run of any check that can be planned, scheduled or not.
StartByHand(p) ==
    /\ p \notin broken
    /\ Started(p)
    /\ byHand' = byHand \cup {p}
    /\ UNCHANGED <<estate, pc, listed, due, edits>>

Edit ==
    /\ edits < MaxEdits /\ edits' = edits + 1
    /\ \E p \in Pair :
         \/ enabled' = SymDiff(enabled, {p}) /\ UNCHANGED broken
         \/ broken' = SymDiff(broken, {p}) /\ UNCHANGED enabled
    /\ UNCHANGED <<ran, wait, pc, listed, due, byHand>>

Elapsed(p) == IF wait[p] > 0 THEN wait[p] - 1 ELSE 0

TimePasses ==
    /\ \E p \in Pair : wait[p] > 0
    /\ wait' = [p \in Pair |-> Elapsed(p)]
    /\ UNCHANGED <<estate, ran, pc, listed, due, byHand, edits>>

-----------------------------------------------------------------------------
(* One tick *)

List ==
    /\ pc = "asleep"
    /\ pc' = "listed" /\ listed' = enabled
    /\ UNCHANGED <<estate, ran, wait, due, byHand, edits>>

HasRun(p) == Contains(ran, p)

\* Mutant: the due pairs keep the order they were listed in.
InOrderListed == Pairs

\* domain.Due: never run first, in the order listed, then the oldest start.
InOrder == SelectSeq(Pairs, LAMBDA p : ~HasRun(p)) \o ran

\* Mutant: the interval is not looked at.
OverdueAlways(p) == p \in listed
Overdue(p) == p \in listed /\ wait[p] = 0

Due == LET all == SelectSeq(InOrder, Overdue)
       IN  SubSeq(all, 1, IF Len(all) < Batch THEN Len(all) ELSE Batch)

ReadStarts ==
    /\ pc = "listed"
    /\ due' = Due
    /\ pc' = IF Due = <<>> THEN "asleep" ELSE "starting"
    /\ listed' = {} /\ byHand' = {}
    /\ UNCHANGED <<estate, ran, wait, edits>>

Rest(tail) ==
    /\ due' = tail
    /\ pc' = IF tail = <<>> THEN "asleep" ELSE pc
    /\ UNCHANGED <<estate, listed, byHand, edits>>

StartDue ==
    /\ pc = "starting" /\ Head(due) \notin broken
    /\ Started(Head(due))
    /\ Rest(Tail(due))

\* The start of one pair fails: logged, and the next one's turn.
StartFails ==
    /\ pc = "starting" /\ Head(due) \in broken
    /\ UNCHANGED <<ran, wait>>
    /\ Rest(Tail(due))

Tick == List \/ ReadStarts \/ StartDue \/ StartFails

Next ==
    \/ Tick \/ TimePasses \/ Edit
    \/ \E p \in Pair : StartByHand(p)

\* The scheduler's ticker fires for as long as the process runs, and time passes.
Spec == Init /\ [][Next]_vars /\ WF_vars(Tick) /\ WF_vars(TimePasses)

-----------------------------------------------------------------------------
\* No pair is started by the schedule before its interval has passed, whatever
\* the tick read when: only a person's start that slips in after the read can
\* come closer.
AnIntervalApart ==
    [][StartDue => wait[Head(due)] = 0 \/ Head(due) \in byHand]_vars

\* Every pair that stays enabled and startable is started, again and again, as
\* long as the pairs whose start always fails do not fill a whole batch: the
\* others take turns, oldest first, however many they are.
Served ==
    \A p \in Pair :
        []<>(\/ p \notin enabled \/ p \in broken
             \/ Cardinality(broken \cap enabled) >= Batch
             \/ wait[p] = Interval[p])
=============================================================================
