------------------------------- MODULE Changes -------------------------------
(***************************************************************************)
(* What changed since the run before: a reader lists the complete runs of  *)
(* a target, takes the two that started last, and reads of the newer and   *)
(* then of the older what has been extracted.  A run is complete before    *)
(* its invocations are extracted, so a snapshot may hold a part of what    *)
(* the run has said.  The marker of what a person has seen is written with *)
(* the clock that was read before.                                         *)
(*                                                                         *)
(* A run's observations are read invocation by invocation, here together.  *)
(* Names, summaries and the runs' own rows are left out.                   *)
(***************************************************************************)
EXTENDS Naturals, FiniteSets

CONSTANTS
    Runs,           \* in the order they start
    Invocations,
    Of,             \* Of[i]: the run of the invocation
    Says,           \* Says[i]: what it says, of which subject, in which field, when
    Readers

VARIABLES
    run,            \* run[n]: "none", "running", "complete"
    extracted,      \* the invocations that were
    read,           \* read[r]: what a reader has read, and what it answers
    clock, marker   \* seen: the last instant written

vars == <<run, extracted, read, clock, marker>>

Idle == [step |-> "idle"]
MaxClock == Cardinality(Readers) + 1

TypeOK ==
    /\ run \in [Runs -> {"none", "running", "complete"}]
    /\ extracted \subseteq Invocations
    /\ clock \in 1 .. MaxClock /\ marker \in 0 .. MaxClock
    /\ \A r \in Readers : read[r].step \in {"idle", "newer", "older", "told", "marking", "marked"}

Init ==
    /\ run = [n \in Runs |-> "none"] /\ extracted = {}
    /\ read = [r \in Readers |-> Idle]
    /\ clock = 1 /\ marker = 0

-----------------------------------------------------------------------------
(* The runs.                                                               *)

StartRun(n) ==
    /\ run[n] = "none" /\ \A m \in Runs : m < n => run[m] # "none"
    /\ run' = [run EXCEPT ![n] = "running"]
    /\ UNCHANGED <<extracted, read, clock, marker>>

CompleteRun(n) ==
    /\ run[n] = "running"
    /\ run' = [run EXCEPT ![n] = "complete"]
    /\ UNCHANGED <<extracted, read, clock, marker>>

Extract(i) ==
    /\ run[Of[i]] # "none" /\ i \notin extracted
    /\ extracted' = extracted \cup {i}
    /\ UNCHANGED <<run, read, clock, marker>>

-----------------------------------------------------------------------------
(* A reader.                                                               *)

Completed == {n \in Runs : run[n] = "complete"}
Newest(runs) == CHOOSE n \in runs : \A m \in runs : m <= n

changes(r) ==
    /\ read[r] = Idle /\ Cardinality(Completed) >= 2
    /\ LET current == Newest(Completed)
       IN read' = [read EXCEPT ![r] =
             [step |-> "newer", current |-> current, previous |-> Newest(Completed \ {current})]]
    /\ UNCHANGED <<run, extracted, clock, marker>>

\* Of each field of a subject the value that was observed last.
Said(invocations) == UNION {Says[i] : i \in invocations}
snapshot(invocations) ==
    { [subject |-> s.subject, field |-> s.field, value |-> s.value] :
        s \in { t \in Said(invocations) : \A u \in Said(invocations) :
                  u.subject = t.subject /\ u.field = t.field => u.at <= t.at } }
InvocationsOf(n) == {i \in Invocations : Of[i] = n}
ForInvocations(n) == InvocationsOf(n) \cap extracted

Newer(r) ==
    /\ read[r].step = "newer"
    /\ read' = [read EXCEPT ![r] =
          [step |-> "older", current |-> read[r].current, previous |-> read[r].previous,
           now |-> snapshot(ForInvocations(read[r].current)),
           wholeNow |-> ForInvocations(read[r].current) = InvocationsOf(read[r].current)]]
    /\ UNCHANGED <<run, extracted, clock, marker>>

Answers(values, v) == {w \in values : w.subject = v.subject /\ w.field = v.field}
Measured(values, v) == \E w \in values : w.subject = v.subject
diffRunSnapshots(now, before) ==
    {[kind |-> "added", of |-> v] : v \in {w \in now : Answers(before, w) = {}}}
    \cup {[kind |-> "changed", of |-> v] :
            v \in {w \in now : Answers(before, w) # {} /\ w \notin before}}
    \cup {[kind |-> "gone", of |-> v] :
            v \in {w \in before : Answers(now, w) = {} /\ Measured(now, w)}}

Older(r) ==
    /\ read[r].step = "older"
    /\ read' = [read EXCEPT ![r] =
          [step |-> "told", current |-> read[r].current, previous |-> read[r].previous,
           wholeNow |-> read[r].wholeNow,
           wholeBefore |-> ForInvocations(read[r].previous) = InvocationsOf(read[r].previous),
           changes |-> diffRunSnapshots(read[r].now, snapshot(ForInvocations(read[r].previous)))]]
    /\ UNCHANGED <<run, extracted, clock, marker>>

\* The clock is read, and then the row is written, whatever it holds.
Mark(r) ==
    /\ read[r].step = "told" /\ clock < MaxClock
    /\ clock' = clock + 1
    /\ read' = [read EXCEPT ![r] = [step |-> "marking", at |-> clock]]
    /\ UNCHANGED <<run, extracted, marker>>
UpsertMarker(r) ==
    /\ read[r].step = "marking"
    /\ marker' = read[r].at
    /\ read' = [read EXCEPT ![r] = [step |-> "marked", at |-> read[r].at]]
    /\ UNCHANGED <<run, extracted, clock>>

Next ==
    \/ \E n \in Runs : StartRun(n) \/ CompleteRun(n)
    \/ \E i \in Invocations : Extract(i)
    \/ \E r \in Readers : changes(r) \/ Newer(r) \/ Older(r) \/ Mark(r) \/ UpsertMarker(r)

Spec == Init /\ [][Next]_vars

-----------------------------------------------------------------------------
\* What is said to be gone was said of the older run, and the newer one
\* measured its subject and, unless it was still being extracted, does not
\* say it; what is added or changed is true of both runs, unless one of them
\* was; and what truly changed is left out only then.
Whole(n) == snapshot(InvocationsOf(n))
Holds(c, now, before) ==
    CASE c.kind = "added" -> c.of \in now /\ Answers(before, c.of) = {}
      [] c.kind = "changed" -> c.of \in now /\ Answers(before, c.of) \notin {{}, {c.of}}
      [] c.kind = "gone" -> c.of \in before /\ Answers(now, c.of) = {}
ChangesAreTrue ==
    \A r \in Readers :
        read[r].step = "told" =>
            LET now == Whole(read[r].current)  before == Whole(read[r].previous)
            IN /\ \A c \in read[r].changes : c.kind = "gone" => Measured(now, c.of)
               /\ read[r].wholeNow /\ read[r].wholeBefore =>
                    /\ \A c \in read[r].changes : Holds(c, now, before)
                    /\ \A v \in now \ before : \E c \in read[r].changes : c.of = v
               /\ read[r].previous < read[r].current
               /\ run[read[r].previous] = "complete"

\* What has been seen is an instant at which somebody asked for it.
MarkerIsAnAsking ==
    marker # 0 => \E r \in Readers : read[r].step = "marked" /\ read[r].at = marker
=============================================================================
