------------------------------ MODULE Coverage -------------------------------
(***************************************************************************)
(* The coverage grid: for every asset and every check that applies to it,  *)
(* never, fresh or stale.  A report reads five things one after the other, *)
(* while invocations start, finish and are extracted: the assets, the      *)
(* checks, what finished invocations were aimed at, which check every      *)
(* invocation belongs to, and what the observations are about.  A human    *)
(* check has no invocation: its cell is that the asset has been read,      *)
(* which is a pair of columns of its own beside its judgement.             *)
(*                                                                         *)
(* Pages, order and names are left out.  A subject's case is folded at     *)
(* both ends.                                                              *)
(***************************************************************************)
EXTENDS Naturals, FiniteSets

CONSTANTS
    Assets, Targets,
    Checks, Human,   \* the live checks, and the human ones of them
    Applies,         \* Applies[c]: the assets of a kind that c applies to
    Interval,        \* Interval[c]: 0 for a check that has no clock
    Invocations,
    Of,              \* Of[i]: the check and the target of its run, what it is
                     \* aimed at, and what its output may be about
    Filters,         \* the targets, or all, that a report is asked for
    People,          \* the requests that read or judge an asset, each once
    MaxTime

VARIABLES
    now,
    invocation,      \* invocation[i]: its phase, when it began and finished, its candidates
    observed,        \* the observations: their invocation and subject
    attributed,      \* the assets, by target
    row,             \* row[a]: the read pair and the judgement
    job,             \* job[p]: of a request on a row
    report,          \* what the report has read, and its cells
    looked,          \* who has looked at what, and when (history)
    acts             \* what people did to the rows (history)

vars == <<now, invocation, observed, attributed, row, job, report, looked, acts>>

All == "all"
Nobody == "nobody"
Unlooked == [read |-> Nobody, judged |-> Nobody]
Unspawned == [phase |-> "none", began |-> 0, finished |-> 0, permitted |-> {}]
NoReport == [step |-> "none"]
Idle == [step |-> "idle"]
Done == [step |-> "done"]

TypeOK ==
    /\ now \in 1 .. MaxTime
    /\ \A i \in Invocations :
          /\ invocation[i].phase \in {"none", "pending", "ok", "failed", "refused"}
          /\ invocation[i].permitted \subseteq Assets
    /\ observed \subseteq Invocations \X Assets
    /\ attributed \subseteq Assets \X Targets
    /\ row \in [Assets -> [read : People \cup {Nobody}, judged : People \cup {Nobody}]]

Init ==
    /\ now = 1
    /\ invocation = [i \in Invocations |-> Unspawned]
    /\ observed = {} /\ attributed = {}
    /\ row = [a \in Assets |-> Unlooked]
    /\ job = [p \in People |-> Idle]
    /\ report = NoReport /\ looked = {} /\ acts = [a \in Assets |-> Unlooked]

runs == <<invocation, observed, attributed, looked>>
people == <<row, job, acts>>

-----------------------------------------------------------------------------
(* What the runs do to what is read.                                       *)

Look(i, a, at) == [check |-> Of[i].check, target |-> Of[i].target, asset |-> a, at |-> at]

\* It is aimed at candidates; those the gate refused were not looked at.
Spawn(i, permitted) ==
    /\ invocation[i].phase = "none"
    /\ invocation' = [invocation EXCEPT ![i] =
          [phase |-> IF permitted = {} THEN "refused" ELSE "pending", began |-> now,
           finished |-> IF permitted = {} THEN now ELSE 0, permitted |-> permitted]]
    /\ UNCHANGED <<now, observed, attributed, looked, people, report>>

HadProcess(i) == invocation[i].phase \in {"ok", "failed"}
Finish(i, phase) ==
    /\ invocation[i].phase = "pending"
    /\ invocation' = [invocation EXCEPT ![i].phase = phase, ![i].finished = now]
    /\ looked' = looked \cup {Look(i, a, now) : a \in invocation[i].permitted}
    /\ UNCHANGED <<now, observed, attributed, people, report>>

\* An observation bears the time its tool began; what it is about may be no
\* candidate at all.
Extract(i, a) ==
    /\ HadProcess(i) /\ a \in Of[i].says /\ <<i, a>> \notin observed
    /\ observed' = observed \cup {<<i, a>>}
    /\ looked' = looked \cup {Look(i, a, invocation[i].began)}
    /\ UNCHANGED <<now, invocation, attributed, people, report>>

Attribute(i, a) ==
    /\ <<i, a>> \in observed /\ <<a, Of[i].target>> \notin attributed
    /\ attributed' = attributed \cup {<<a, Of[i].target>>}
    /\ UNCHANGED <<now, invocation, observed, looked, people, report>>

Tick == now < MaxTime /\ now' = now + 1 /\ UNCHANGED <<runs, people, report>>

-----------------------------------------------------------------------------
(* The report.                                                             *)

Wanted(t) == report.target \in {All, t}

Compute(t) ==
    /\ report = NoReport
    /\ report' = [step |-> "assets", target |-> t, now |-> now, before |-> looked]
    /\ UNCHANGED <<now, runs, people>>

AllAssets == attributed
AssetsOf(t) == {d \in attributed : d[2] = t}

\* Each read adds its field to what the report holds.
Reads(step, next, field, value) ==
    /\ report.step = step
    /\ report' = [k \in DOMAIN report \cup {field} |->
                    IF k = "step" THEN next ELSE IF k = field THEN value ELSE report[k]]
    /\ UNCHANGED <<now, runs, people>>

AssetsRead ==
    Reads("assets", "aimed", "assets",
          { [asset |-> d[1], target |-> d[2], read |-> row[d[1]].read] :
              d \in IF report.target = All THEN AllAssets ELSE AssetsOf(report.target) })

LatestCheckedPerSubject ==
    UNION { {Look(i, a, invocation[i].finished) : a \in invocation[i].permitted} :
            i \in {j \in Invocations : HadProcess(j) /\ Wanted(Of[j].target)} }
AimedRead == Reads("aimed", "belongs", "aimed", LatestCheckedPerSubject)

InvocationChecks == {i \in Invocations : invocation[i].phase # "none" /\ Wanted(Of[i].target)}
BelongsRead == Reads("belongs", "seen", "belongs", InvocationChecks)

SubjectsPerInvocation == observed
SeenRead == Reads("seen", "cells", "seen", SubjectsPerInvocation)

LatestPerSubject ==
    report.aimed \cup { Look(o[1], o[2], invocation[o[1]].began) :
                          o \in {s \in report.seen : s[1] \in report.belongs} }
Last(c, a) ==
    LET at == {l.at : l \in {k \in LatestPerSubject : k.check = c /\ k.asset = a}}
    IN CHOOSE n \in {0} \cup at : \A m \in at : m <= n

cell(c, e) ==
    LET at == Last(c, e.asset)
    IN [check |-> c, asset |-> e.asset, at |-> at, read |-> e.read,
        state |-> CASE c \in Human -> IF e.read # Nobody THEN "fresh" ELSE "never"
                    [] c \notin Human /\ at = 0 -> "never"
                    [] c \notin Human /\ at # 0 ->
                       IF Interval[c] = 0 \/ report.now <= at + Interval[c] THEN "fresh" ELSE "stale"]

applies(c, a) == a \in Applies[c]

\* A check that does not apply has no cell.
compute ==
    Reads("cells", "told", "cells",
          UNION { {cell(c, e) : c \in {d \in Checks : applies(d, e.asset)}} : e \in report.assets })

-----------------------------------------------------------------------------
(* Reading an asset and judging it: two acts, each of which reads the row  *)
(* and writes its own columns.                                             *)

FragmentByID(a) == row[a]
Begins(p, a, act) ==
    /\ job[p] = Idle
    /\ job' = [job EXCEPT ![p] = [step |-> act, of |-> a, held |-> FragmentByID(a)]]
    /\ UNCHANGED <<now, runs, row, report, acts>>
markRead(p, a) == Begins(p, a, "read")
judgeFragment(p, a) == Begins(p, a, "judge")

Read(held, p) == [held EXCEPT !.read = p]
Judge(held, p) == [held EXCEPT !.judged = p]

\* Mutant: the row that was read is written whole.
WriteRow(a, next) == row' = [row EXCEPT ![a] = next]

\* Each statement writes the columns of its act.
WriteRead(a, next) == row' = [row EXCEPT ![a].read = next.read]
WriteJudgement(a, next) == row' = [row EXCEPT ![a].judged = next.judged]

Acts(p, act) ==
    /\ job[p].step = act
    /\ job' = [job EXCEPT ![p] = Done]
    /\ UNCHANGED <<now, runs, report>>

MarkRead(p) ==
    /\ Acts(p, "read")
    /\ WriteRead(job[p].of, Read(job[p].held, p))
    /\ acts' = [acts EXCEPT ![job[p].of].read = p]

JudgeFragment(p) ==
    /\ Acts(p, "judge")
    /\ WriteJudgement(job[p].of, Judge(job[p].held, p))
    /\ acts' = [acts EXCEPT ![job[p].of].judged = p]

Next ==
    \/ \E i \in Invocations :
          \/ \E permitted \in SUBSET Of[i].aims : Spawn(i, permitted)
          \/ \E phase \in {"ok", "failed"} : Finish(i, phase)
          \/ \E a \in Assets : Extract(i, a) \/ Attribute(i, a)
    \/ Tick
    \/ \E t \in Filters : Compute(t)
    \/ AssetsRead \/ AimedRead \/ BelongsRead \/ SeenRead \/ compute
    \/ \E p \in People :
          \/ \E a \in Assets : markRead(p, a) \/ judgeFragment(p, a)
          \/ MarkRead(p) \/ JudgeFragment(p)

Spec == Init /\ [][Next]_vars

-----------------------------------------------------------------------------
\* However the runs go on while it is read, a report says never only of what
\* nothing had looked at when it was asked for, stale only of what nothing
\* had looked at lately enough, and a date only of a look there was; a run
\* against another target credits nothing, and a refusal is no look.
Credits(l, c) ==
    l.check = c.check /\ l.asset = c.asset /\ report.target \in {All, l.target}
CellsAreTrue ==
    report.step = "told" =>
        \A c \in report.cells :
            IF c.check \in Human
            THEN c.state = "fresh" <=> c.read # Nobody
            ELSE /\ c.state = "never" => \A l \in report.before : ~Credits(l, c)
                 /\ c.state = "stale" =>
                      \A l \in report.before : Credits(l, c) => l.at + Interval[c.check] < report.now
                 /\ c.state # "never" => \E l \in looked : Credits(l, c) /\ l.at = c.at

\* Neither who read an asset nor who judged it is lost to the other.
ActsAreKept == row = acts
=============================================================================
