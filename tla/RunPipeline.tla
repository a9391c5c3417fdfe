---------------------------- MODULE RunPipeline ----------------------------
(***************************************************************************)
(* internal/run: one run of a check's chain.  Start plans the run in one   *)
(* transaction; executors claim it and walk its invocations in topological *)
(* order.  A source step was decided by the spawn gate at plan time; a     *)
(* downstream step is decided when it is reached, from what its feeders    *)
(* observed.                                                               *)
(*                                                                         *)
(* An executor writes every row in a transaction of its own, and any error *)
(* ends its pass: the run is still `running`, so a later pass, of this or  *)
(* of another executor, claims it again and re-reads its rows.  A crash    *)
(* and an error are therefore one action, Abort, with the budget MaxFaults.*)
(*                                                                         *)
(* A value is the target or a subject some process may print.  A command   *)
(* line is the set of values substituted into its template, {} while the   *)
(* placeholder stands; templates are taken to have one placeholder.        *)
(***************************************************************************)
EXTENDS Naturals, FiniteSets

CONSTANTS
    NSteps,     \* steps of the chain, numbered in topological order
    Feeds,      \* Feeds[k]: the steps that feed step k
    Values,     \* subjects
    Target,     \* the target's name, the one value a source step is aimed at
    Executors,  \* executor loops over the one database
    MaxFaults,  \* bound on crashes and failed calls
    MaxEdits    \* bound on changes of the scope rules

Steps == 1..NSteps

ASSUME StepsAssumption == NSteps \in Nat \ {0}
ASSUME FeedsAssumption ==
    Feeds \in [Steps -> SUBSET Steps] /\ \A k \in Steps : \A f \in Feeds[k] : f < k
ASSUME ValuesAssumption == IsFiniteSet(Values) /\ Target \in Values
ASSUME BoundsAssumption == MaxFaults \in Nat /\ MaxEdits \in Nat

VARIABLES
    state,      \* the run row: "none" before Start, "running", "complete"
    version,    \* its version
    inv,        \* inv[k]: the invocation row of step k
    cand,       \* cand[k][v]: the candidate row of value v at step k
    artifact,   \* steps whose stdout artifact is stored
    observed,   \* observed[k]: subjects extracted from step k's output
    sent,       \* how often run.started, invocation.ended and run.finished went out
    owed,       \* Start has committed and has not yet published run.started
    gate,       \* values the scope rules permit now
    pc,         \* pc[w]: where executor w is in its pass
    read,       \* read[w]: the version of the run w claimed
    snap,       \* snap[w]: the invocation rows w holds
    known,      \* known[w]: the steps the chain still had when w read it
    at,         \* at[w]: the step w is at
    asked,      \* asked[w]: the values w put to the gate for that step
    permitted,  \* permitted[w]: those the gate permitted
    todo,       \* todo[w]: candidate or observation rows w has yet to write
    spawns,     \* history: processes started per step
    aimed,      \* history: values in the command lines of those processes
    allowed,    \* history: values the gate ever permitted to a step
    wrote,      \* history: steps whose process wrote to stdout
    faults, edits

rowVars  == <<state, version, inv, cand, artifact, observed, sent, owed>>
local    == <<pc, read, snap, known, at, asked, permitted, todo>>
history  == <<spawns, aimed, allowed, wrote>>
vars     == <<rowVars, local, history, gate, faults, edits>>

Phases   == {"none", "pending", "running", "ok", "failed", "refused", "skipped"}
Terminal == {"ok", "failed", "refused", "skipped"}
Invocation == [phase: Phases, argv: SUBSET Values, permit: BOOLEAN]
Blank    == [phase |-> "none", argv |-> {}, permit |-> FALSE]
Source(k) == Feeds[k] = {}
Announcements == [started: Nat, ended: [Steps -> Nat], finished: Nat]

Places == {"idle", "load", "step", "candidates", "start", "spawn", "silent", "wrote",
           "store", "extract", "ended", "finished"}

TypeOK ==
    /\ state \in {"none", "running", "complete"} /\ version \in 0..2
    /\ inv \in [Steps -> Invocation]
    /\ cand \in [Steps -> [Values -> {"none", "permitted", "refused"}]]
    /\ artifact \in SUBSET Steps /\ observed \in [Steps -> SUBSET Values]
    /\ sent \in Announcements /\ owed \in BOOLEAN /\ gate \in SUBSET Values
    /\ pc \in [Executors -> Places] /\ read \in [Executors -> 0..2]
    /\ snap \in [Executors -> [Steps -> Invocation]]
    /\ known \in [Executors -> SUBSET Steps] /\ at \in [Executors -> 1..(NSteps + 1)]
    /\ asked \in [Executors -> SUBSET Values]
    /\ permitted \in [Executors -> SUBSET Values]
    /\ todo \in [Executors -> SUBSET Values]
    /\ spawns \in [Steps -> Nat] /\ wrote \in SUBSET Steps
    /\ aimed \in [Steps -> SUBSET Values] /\ allowed \in [Steps -> SUBSET Values]
    /\ faults \in 0..MaxFaults /\ edits \in 0..MaxEdits

Init ==
    /\ state = "none" /\ version = 0
    /\ inv = [k \in Steps |-> Blank]
    /\ cand = [k \in Steps |-> [v \in Values |-> "none"]]
    /\ artifact = {} /\ observed = [k \in Steps |-> {}]
    /\ sent = [started |-> 0, ended |-> [k \in Steps |-> 0], finished |-> 0] /\ owed = FALSE
    /\ gate \in SUBSET Values
    /\ pc = [w \in Executors |-> "idle"] /\ read = [w \in Executors |-> 0]
    /\ snap = [w \in Executors |-> [k \in Steps |-> Blank]]
    /\ known = [w \in Executors |-> {}] /\ at = [w \in Executors |-> 1]
    /\ asked = [w \in Executors |-> {}] /\ permitted = [w \in Executors |-> {}]
    /\ todo = [w \in Executors |-> {}]
    /\ spawns = [k \in Steps |-> 0] /\ wrote = {}
    /\ aimed = [k \in Steps |-> {}] /\ allowed = [k \in Steps |-> {}]
    /\ faults = 0 /\ edits = 0

-----------------------------------------------------------------------------
(* The gate and the rows it settles *)

\* Runs.ask: any permitted leaves the invocation pending with its rule, none
\* permitted refuses it, nothing to ask about skips it.
Settled(row, values, yes) ==
    [row EXCEPT !.phase = IF values = {} THEN "skipped"
                          ELSE IF yes = {} THEN "refused" ELSE @,
                !.permit = @ \/ yes # {}]

\* Fill substitutes into placeholders; a line that has none is left as it is.
Fill(argv, values) == IF argv = {} THEN values ELSE argv

\* Invocation.Valid and the constraint invocation_permit_not_on_refusal.
Valid(row) == ~(row.permit /\ row.phase = "refused")

\* InsertCandidate: on conflict do nothing.
Inserted(column, v, yes) ==
    [column EXCEPT ![v] = IF @ # "none" THEN @
                          ELSE IF v \in yes THEN "permitted" ELSE "refused"]

\* Runs.Start up to its commit: the plan, asked of the gate for source steps
\* only, and every row of it in one transaction.
Start ==
    /\ state = "none"
    /\ state' = "running" /\ version' = 1 /\ owed' = TRUE
    /\ inv' = [k \in Steps |->
                 IF Source(k)
                   THEN Settled([Blank EXCEPT !.phase = "pending", !.argv = {Target}],
                                {Target}, gate \cap {Target})
                   ELSE [Blank EXCEPT !.phase = "pending"]]
    /\ cand' = [k \in Steps |-> IF Source(k) THEN Inserted(cand[k], Target, gate) ELSE cand[k]]
    /\ allowed' = [k \in Steps |-> IF Source(k) THEN gate \cap {Target} ELSE {}]
    /\ UNCHANGED <<artifact, observed, sent, local, spawns, aimed, wrote,
                   gate, faults, edits>>

\* run.started is published after the transaction has closed.
AnnounceStart ==
    /\ owed /\ owed' = FALSE
    /\ sent' = [sent EXCEPT !.started = @ + 1]
    /\ UNCHANGED <<state, version, inv, cand, artifact, observed, local, history,
                   gate, faults, edits>>

StarterDies ==
    /\ owed /\ owed' = FALSE
    /\ faults < MaxFaults /\ faults' = faults + 1
    /\ UNCHANGED <<state, version, inv, cand, artifact, observed, sent, local, history,
                   gate, edits>>

\* A rule is added, superseded or withdrawn.
EditScope ==
    /\ edits < MaxEdits /\ edits' = edits + 1
    /\ gate' \in SUBSET Values \ {gate}
    /\ UNCHANGED <<rowVars, local, history, faults>>

-----------------------------------------------------------------------------
(* One pass of an executor *)

Goto(w, place) == pc' = [pc EXCEPT ![w] = place]

\* The end of a pass, finished or not: nothing outlives it but the rows.
Rest(w) ==
    /\ Goto(w, "idle")
    /\ read' = [read EXCEPT ![w] = 0]
    /\ snap' = [snap EXCEPT ![w] = [k \in Steps |-> Blank]]
    /\ known' = [known EXCEPT ![w] = {}]
    /\ at' = [at EXCEPT ![w] = 1]
    /\ asked' = [asked EXCEPT ![w] = {}]
    /\ permitted' = [permitted EXCEPT ![w] = {}]
    /\ todo' = [todo EXCEPT ![w] = {}]

\* Mutant: the claim asks for a pending invocation, as it once did.
ClaimablePending == state = "running" /\ \E k \in Steps : inv[k].phase = "pending"
Claimable == state = "running"

\* The claim selects running runs and changes nothing: its locks are gone when
\* its transaction closes, before the first step.
Claim(w) ==
    /\ pc[w] = "idle" /\ Claimable
    /\ Goto(w, "load")
    /\ read' = [read EXCEPT ![w] = version]
    /\ UNCHANGED <<rowVars, snap, known, at, asked, permitted, todo, history, gate, faults, edits>>

\* A pass with nothing to claim.
Poll(w) == pc[w] = "idle" /\ state = "complete" /\ UNCHANGED vars

Pending(rows) == {k \in Steps : rows[k].phase = "pending"}

ReadRows == inv

\* The invocation rows, read once, and the chain, which may have been edited
\* since the plan: a step it no longer has has no kind.
Load(w) ==
    /\ pc[w] = "load"
    /\ snap' = [snap EXCEPT ![w] = ReadRows]
    /\ \E still \in SUBSET {k \in Pending(inv) : ~Source(k)} :
         known' = [known EXCEPT ![w] = still]
    /\ Goto(w, "step")
    /\ UNCHANGED <<rowVars, read, at, asked, permitted, todo, history, gate, faults, edits>>

\* The loop moves past a row its snapshot has decided already.
PassBy(w) ==
    /\ pc[w] = "step" /\ at[w] \in Steps
    /\ snap[w][at[w]].phase # "pending"
    /\ at' = [at EXCEPT ![w] = @ + 1]
    /\ UNCHANGED <<rowVars, pc, read, snap, known, asked, permitted, todo, history,
                   gate, faults, edits>>

Begin(w) ==
    /\ pc[w] = "step" /\ at[w] \in Steps
    /\ snap[w][at[w]].phase = "pending" /\ Source(at[w])
    /\ Goto(w, "start")
    /\ UNCHANGED <<rowVars, read, snap, known, at, asked, permitted, todo, history,
                   gate, faults, edits>>

\* What a downstream step is asked about: the subjects its feeders observed.
Subjects(w, k) == IF k \in known[w] THEN UNION {observed[f] : f \in Feeds[k]} ELSE {}

Ask(w) ==
    /\ pc[w] = "step" /\ at[w] \in Steps
    /\ snap[w][at[w]].phase = "pending" /\ ~Source(at[w])
    /\ LET k == at[w]  values == Subjects(w, k) IN
         /\ asked' = [asked EXCEPT ![w] = values]
         /\ permitted' = [permitted EXCEPT ![w] = values \cap gate]
         /\ todo' = [todo EXCEPT ![w] = values]
         /\ allowed' = [allowed EXCEPT ![k] = @ \cup (values \cap gate)]
    /\ Goto(w, "candidates")
    /\ UNCHANGED <<rowVars, read, snap, known, at, spawns, aimed, wrote, gate, faults, edits>>

AddCandidate(w) ==
    /\ pc[w] = "candidates"
    /\ \E v \in todo[w] :
         /\ cand' = [cand EXCEPT ![at[w]] = Inserted(@, v, permitted[w])]
         /\ todo' = [todo EXCEPT ![w] = @ \ {v}]
    /\ UNCHANGED <<state, version, inv, artifact, observed, sent, owed, pc, read, snap,
                   known, at, asked, permitted, history, gate, faults, edits>>

\* SaveInvocation: the row, whatever it holds, becomes the one in hand.
Save(w, k, row) ==
    /\ inv' = [inv EXCEPT ![k] = row]
    /\ snap' = [snap EXCEPT ![w][k] = row]

Advance(w) ==
    /\ at' = [at EXCEPT ![w] = @ + 1]
    /\ asked' = [asked EXCEPT ![w] = {}]
    /\ permitted' = [permitted EXCEPT ![w] = {}]
    /\ todo' = [todo EXCEPT ![w] = {}]
    /\ Goto(w, "step")

Decided(w) == Settled(snap[w][at[w]], asked[w], permitted[w])

AllAdded(w) == pc[w] = "candidates" /\ todo[w] = {}

\* Mutant: the whole question goes into the command line.
FilledWithAll(w) == [Decided(w) EXCEPT !.argv = Fill(@, asked[w])]
Filled(w) == [Decided(w) EXCEPT !.argv = Fill(@, permitted[w])]

\* Nothing permitted: the row says skipped or refused and the loop goes on.
SaveDecision(w) ==
    /\ AllAdded(w) /\ permitted[w] = {}
    /\ Valid(Decided(w))
    /\ Save(w, at[w], Decided(w))
    /\ Advance(w)
    /\ UNCHANGED <<state, version, cand, artifact, observed, sent, owed, read, known,
                   history, gate, faults, edits>>

\* SaveInvocation refuses an invalid row, and the pass ends with its error.
SaveRejected(w) ==
    /\ AllAdded(w) /\ permitted[w] = {}
    /\ ~Valid(Decided(w))
    /\ Rest(w)
    /\ UNCHANGED <<rowVars, history, gate, faults, edits>>

SaveFilled(w) ==
    /\ AllAdded(w) /\ permitted[w] # {}
    /\ Save(w, at[w], Filled(w))
    /\ Goto(w, "start")
    /\ UNCHANGED <<state, version, cand, artifact, observed, sent, owed, read, known, at,
                   asked, permitted, todo, history, gate, faults, edits>>

SaveStarted(w) ==
    /\ pc[w] = "start"
    /\ Save(w, at[w], [snap[w][at[w]] EXCEPT !.phase = "running"])
    /\ Goto(w, "spawn")
    /\ UNCHANGED <<state, version, cand, artifact, observed, sent, owed, read, known, at,
                   asked, permitted, todo, history, gate, faults, edits>>

\* The process runs to its end, its policy's timeout at the latest.  What it
\* printed is held in todo until the extraction writes it.
Spawn(w) ==
    /\ pc[w] = "spawn"
    /\ spawns' = [spawns EXCEPT ![at[w]] = @ + 1]
    /\ aimed' = [aimed EXCEPT ![at[w]] = @ \cup snap[w][at[w]].argv]
    /\ \E printed \in SUBSET Values, silent \in BOOLEAN :
         /\ silent => printed = {}
         /\ todo' = [todo EXCEPT ![w] = printed]
         /\ wrote' = IF silent THEN wrote ELSE wrote \cup {at[w]}
         /\ Goto(w, IF silent THEN "silent" ELSE "wrote")
    /\ UNCHANGED <<rowVars, read, snap, known, at, asked, permitted, allowed,
                   gate, faults, edits>>

\* Mutant: the output is read before it is kept.
KeepUnstored(w) == IF pc[w] = "wrote" THEN "extract" ELSE "ended"
Keep(w) == IF pc[w] = "wrote" THEN "store" ELSE "ended"

\* Ended and Broke: the exit code, or the lack of one, makes it ok or failed.
SaveEnded(w) ==
    /\ pc[w] \in {"silent", "wrote"}
    /\ \E phase \in {"ok", "failed"} :
         Save(w, at[w], [snap[w][at[w]] EXCEPT !.phase = phase])
    /\ Goto(w, Keep(w))
    /\ UNCHANGED <<state, version, cand, artifact, observed, sent, owed, read, known, at,
                   asked, permitted, todo, history, gate, faults, edits>>

Store(w) ==
    /\ pc[w] = "store"
    /\ artifact' = artifact \cup {at[w]}
    /\ Goto(w, "extract")
    /\ UNCHANGED <<state, version, inv, cand, observed, sent, owed, read, snap, known, at,
                   asked, permitted, todo, history, gate, faults, edits>>

\* Extractor.Extract: every observation is a transaction of its own.
Observe(w) ==
    /\ pc[w] = "extract"
    /\ \E v \in todo[w] :
         /\ observed' = [observed EXCEPT ![at[w]] = @ \cup {v}]
         /\ todo' = [todo EXCEPT ![w] = @ \ {v}]
    /\ UNCHANGED <<state, version, inv, cand, artifact, sent, owed, pc, read, snap, known,
                   at, asked, permitted, history, gate, faults, edits>>

Extracted(w) ==
    /\ pc[w] = "extract" /\ todo[w] = {}
    /\ Goto(w, "ended")
    /\ UNCHANGED <<rowVars, read, snap, known, at, asked, permitted, todo, history,
                   gate, faults, edits>>

AnnounceEnded(w) ==
    /\ pc[w] = "ended"
    /\ sent' = [sent EXCEPT !.ended[at[w]] = @ + 1]
    /\ Advance(w)
    /\ UNCHANGED <<state, version, inv, cand, artifact, observed, owed, read, snap, known,
                   history, gate, faults, edits>>

Moved(w) == read[w] + 1

\* Mutant: no version guard.
UnmovedUnchecked(w) == TRUE

\* Mutant: the loop stops one step short.
PassedAllShort(w) == pc[w] = "step" /\ at[w] \in {NSteps, NSteps + 1}
PassedAll(w) == pc[w] = "step" /\ at[w] = NSteps + 1

\* FinishRun updates the row only while it has the version that was claimed.
Unmoved(w) == version = read[w]

FinishRun(w) ==
    /\ PassedAll(w)
    /\ Unmoved(w)
    /\ state' = "complete" /\ version' = Moved(w)
    /\ Goto(w, "finished")
    /\ UNCHANGED <<inv, cand, artifact, observed, sent, owed, read, snap, known, at,
                   asked, permitted, todo, history, gate, faults, edits>>

\* ErrStaleWrite: another executor finished it.
FinishStale(w) ==
    /\ PassedAll(w)
    /\ ~Unmoved(w)
    /\ Rest(w)
    /\ UNCHANGED <<rowVars, history, gate, faults, edits>>

AnnounceFinished(w) ==
    /\ pc[w] = "finished"
    /\ sent' = [sent EXCEPT !.finished = @ + 1]
    /\ Rest(w)
    /\ UNCHANGED <<state, version, inv, cand, artifact, observed, owed, history,
                   gate, faults, edits>>

\* The executor dies, or a call of its pass fails and Tick returns the error.
Abort(w) ==
    /\ pc[w] # "idle"
    /\ faults < MaxFaults /\ faults' = faults + 1
    /\ Rest(w)
    /\ UNCHANGED <<rowVars, history, gate, edits>>

Work(w) ==
    \/ Claim(w) \/ Load(w) \/ PassBy(w) \/ Begin(w)
    \/ Ask(w) \/ AddCandidate(w) \/ SaveDecision(w) \/ SaveRejected(w) \/ SaveFilled(w)
    \/ SaveStarted(w) \/ Spawn(w) \/ SaveEnded(w)
    \/ Store(w) \/ Observe(w) \/ Extracted(w) \/ AnnounceEnded(w)
    \/ FinishRun(w) \/ FinishStale(w) \/ AnnounceFinished(w)

Next ==
    \/ Start \/ AnnounceStart \/ StarterDies \/ EditScope
    \/ \E w \in Executors : Work(w) \/ Abort(w) \/ Poll(w)

\* Executor.Run ticks until it is stopped, and a restarted process ticks again.
Fairness == \A w \in Executors : WF_vars(Work(w))

Spec == Init /\ [][Next]_vars /\ Fairness

-----------------------------------------------------------------------------
(* Properties of any number of executors *)

\* No command line ever held a value the spawn gate had not permitted to that
\* step of this run, whatever died and whatever rule changed in between.
GateAllowed == \A k \in Steps : aimed[k] \subseteq allowed[k]

\* A downstream process is aimed only at subjects read out of the stored output
\* of a step that feeds it.
Lineage ==
    \A k \in Steps : ~Source(k) =>
        \A v \in aimed[k] : \E f \in Feeds[k] : v \in observed[f] /\ f \in artifact

\* The run is finished, and announced as finished, at most once, though two
\* executors may both walk it to its end.
FinishedOnce == sent.finished <= 1 /\ (sent.finished = 1 => state = "complete")

(* Properties of a single executor *)

\* A process is started at most once per step, over any number of crashes: the
\* row is `running` before the process exists and a running row is passed by.
SpawnedAtMostOnce == \A k \in Steps : spawns[k] <= 1

\* A complete run holds everything its processes did but for one step per death
\* of its executor: every other invocation is decided, and has an artifact if its
\* process wrote (0001_run.sql: no row means that nothing was written).
EveryGapIsADeath ==
    state = "complete" =>
        Cardinality({k \in Steps : inv[k].phase \notin Terminal \/ k \in wrote \ artifact})
            <= faults

\* A candidate is recorded as permitted exactly when it is in the command line,
\* which is what coverage counts and the scope proof cites; a death and a change
\* of the rules between two answers break that only together.
CandidatesTellTheArgv ==
    faults = 0 \/ edits = 0 =>
        \A k \in Steps : inv[k].phase \in {"running", "ok", "failed"} =>
            inv[k].argv = {v \in Values : cand[k][v] = "permitted"}
=============================================================================
