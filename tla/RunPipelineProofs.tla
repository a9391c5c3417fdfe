------------------------- MODULE RunPipelineProofs -------------------------
(***************************************************************************)
(* For any chain, any values and any number of executors: the state is     *)
(* well typed; no process is aimed at what the spawn gate had not          *)
(* permitted to its step; a downstream process is aimed only at what was   *)
(* read out of the stored output of a feeder; and a run is finished, and   *)
(* announced as finished, at most once.  For a single executor, over any   *)
(* number of its deaths: a process is started at most once per step, the   *)
(* gaps in a finished run are its deaths, and the rows tell the argv.      *)
(*                                                                         *)
(* The gate's answer is spent long after it was given, from rows that were *)
(* read before other executors wrote.  What carries the argument is that a *)
(* pending row holds nothing but permitted values wherever it is held, in  *)
(* the table or in an executor's hands, and that `allowed`, `observed` and *)
(* `artifact` only grow once the run has started.  For a lone executor it  *)
(* is that the row in its hands is the stored one, and that each step it   *)
(* has left behind with something missing has been paid for by a death.    *)
(***************************************************************************)
EXTENDS MCRunPipeline, FiniteSetTheorems, TLAPS

\* The version counts the run's two changes of state, and an executor in its
\* pass has read the one between them.
VersionTells ==
    \/ state = "none" /\ version = 0
    \/ state = "running" /\ version = 1
    \/ state = "complete" /\ version = 2
ReadsTheStart == \A w \in Executors : read[w] = IF pc[w] = "idle" THEN 0 ELSE 1

\* Before the start there is nothing to claim, and nothing was aimed.
NothingYet ==
    state = "none" => /\ \A w \in Executors : pc[w] = "idle"
                      /\ \A k \in Steps : aimed[k] = {}

\* An executor between two passes holds no row.
RestsEmpty == \A w \in Executors : pc[w] = "idle" => snap[w] = [k \in Steps |-> Blank]

\* Away from the head of the loop an executor is at a step.
InHand == {"candidates", "start", "spawn", "silent", "wrote", "store", "extract", "ended"}
AtAStep == \A w \in Executors : pc[w] \in InHand => at[w] \in Steps

Shape == VersionTells /\ ReadsTheStart /\ NothingYet /\ RestsEmpty /\ AtAStep
SafeShape == TypeOK /\ Shape

\* Of the gate: a pending row holds permitted values only, as does the row that
\* an executor is about to start, and the answer it is about to write.
RowAllowed(k, row) == row.phase = "pending" => row.argv \subseteq allowed[k]
HandsAllowed(w) ==
    /\ pc[w] = "candidates" => /\ permitted[w] \subseteq allowed[at[w]]
                               /\ snap[w][at[w]].phase = "pending"
    /\ pc[w] \in {"start", "spawn"} => snap[w][at[w]].argv \subseteq allowed[at[w]]
OnlyAllowed ==
    /\ \A k \in Steps : RowAllowed(k, inv[k])
    /\ \A w \in Executors : HandsAllowed(w) /\ \A k \in Steps : RowAllowed(k, snap[w][k])
    /\ GateAllowed

\* Of the lineage: what a downstream row holds, wherever it is held, a feeder
\* observed; and only a stored output is observed.
Fed(k, values) == \A v \in values : \E f \in Feeds[k] : v \in observed[f]
RowFed(k, row) == ~Source(k) => Fed(k, row.argv)
OnlyFed ==
    /\ \A k \in Steps : RowFed(k, inv[k])
    /\ \A w \in Executors, k \in Steps : RowFed(k, snap[w][k])
    /\ \A w \in Executors : pc[w] = "candidates" =>
          ~Source(at[w]) /\ permitted[w] \subseteq asked[w] /\ Fed(at[w], asked[w])
    /\ \A k \in Steps : ~Source(k) => Fed(k, aimed[k])
StoredFirst ==
    /\ \A w \in Executors : pc[w] = "extract" => at[w] \in artifact
    /\ \A k \in Steps : observed[k] # {} => k \in artifact

\* Of the end: one executor at most stands between it and its announcement.
OneFinishes ==
    /\ FinishedOnce
    /\ \A w \in Executors : pc[w] = "finished" =>
          /\ state = "complete" /\ sent.finished = 0
          /\ \A u \in Executors \ {w} : pc[u] # "finished"

IInv == SafeShape /\ OnlyAllowed /\ OnlyFed /\ StoredFirst /\ OneFinishes
-----------------------------------------------------------------------------
(* What the rows are, and what the helpers make of them.                   *)

LEMMA BlankTyped ==
    Blank \in Invocation /\ Blank.phase = "none" /\ Blank.argv = {} /\ ~Blank.permit
  BY DEF Blank, Invocation, Phases

LEMMA PhaseTyped ==
    ASSUME NEW row \in Invocation, NEW p \in Phases
    PROVE  /\ [row EXCEPT !.phase = p] \in Invocation
           /\ [row EXCEPT !.phase = p].phase = p
           /\ [row EXCEPT !.phase = p].argv = row.argv
           /\ [row EXCEPT !.phase = p].permit = row.permit
  BY DEF Invocation

LEMMA SettledTyped ==
    ASSUME NEW row \in Invocation, NEW values, NEW yes
    PROVE  /\ Settled(row, values, yes) \in Invocation
           /\ Settled(row, values, yes).argv = row.argv
           /\ Settled(row, values, yes).permit = (row.permit \/ yes # {})
           /\ Settled(row, values, yes).phase \in {row.phase, "skipped", "refused"}
           /\ values # {} /\ yes = {} => Settled(row, values, yes).phase = "refused"
           /\ yes # {} /\ values # {} => Settled(row, values, yes).phase = row.phase
           /\ yes = {} => Settled(row, values, yes).phase \in {"skipped", "refused"}
  <1> DEFINE phase == IF values = {} THEN "skipped" ELSE IF yes = {} THEN "refused" ELSE row.phase
             mid == [row EXCEPT !.phase = phase]
             permit == row.permit \/ yes # {}
  <1>1. phase \in Phases /\ permit \in BOOLEAN
    BY DEF Invocation, Phases
  <1>2. mid \in Invocation /\ mid.phase = phase /\ mid.argv = row.argv /\ mid.permit = row.permit
    BY <1>1, PhaseTyped
  <1>3. Settled(row, values, yes) = [mid EXCEPT !.permit = permit]
    BY Zenon DEF Settled
  <1>4. /\ Settled(row, values, yes) \in Invocation
        /\ Settled(row, values, yes).argv = row.argv
        /\ Settled(row, values, yes).phase = phase
        /\ Settled(row, values, yes).permit = permit
    <2> HIDE DEF permit, mid, phase
    <2> QED BY <1>1, <1>2, <1>3 DEF Invocation
  <1> QED BY <1>4

LEMMA TargetTyped == Target \in Values /\ {Target} \subseteq Values
  BY ValuesAssumption

LEMMA StepsTyped == Steps \subseteq Nat /\ NSteps \in Nat /\ NSteps + 1 \notin Steps /\ 1 \in Steps
  BY StepsAssumption DEF Steps

LEMMA InsertedTyped ==
    ASSUME NEW column \in [Values -> {"none", "permitted", "refused"}], NEW v, NEW yes
    PROVE  Inserted(column, v, yes) \in [Values -> {"none", "permitted", "refused"}]
  BY DEF Inserted

-----------------------------------------------------------------------------
(* The type, and the shape of a pass.                                      *)

LEMMA InitShape == Init => SafeShape
  <1> SUFFICES ASSUME Init PROVE SafeShape OBVIOUS
  <1> USE DEF Init
  <1>1. /\ sent \in Announcements /\ faults \in 0..MaxFaults /\ edits \in 0..MaxEdits
        /\ at \in [Executors -> 1..(NSteps + 1)] /\ version \in 0..2
        /\ inv \in [Steps -> Invocation] /\ snap \in [Executors -> [Steps -> Invocation]]
    BY BlankTyped, StepsTyped, BoundsAssumption DEF Announcements
  <1>2. TypeOK
    BY <1>1 DEF TypeOK, Places
  <1>3. Shape
    BY StepsTyped DEF Shape, VersionTells, ReadsTheStart, NothingYet, RestsEmpty, AtAStep, InHand
  <1> QED BY <1>2, <1>3 DEF SafeShape

\* A row of the plan: a source's is settled by the gate, another's is pending.
LEMMA PlanTyped ==
    ASSUME TypeOK, Start, NEW k \in Steps
    PROVE  /\ inv'[k] \in Invocation
           /\ inv'[k].phase \in {"pending", "skipped", "refused"}
           /\ Source(k) => /\ inv'[k].argv = {Target}
                           /\ inv'[k].phase = "pending" => Target \in gate
           /\ ~Source(k) => inv'[k].argv = {} /\ ~inv'[k].permit
  <1> DEFINE bare == [Blank EXCEPT !.phase = "pending"]
             plan == [Blank EXCEPT !.phase = "pending", !.argv = {Target}]
  <1>1. bare \in Invocation /\ bare.argv = {} /\ bare.phase = "pending" /\ ~bare.permit
    BY BlankTyped, PhaseTyped DEF Phases
  <1>2. plan \in Invocation /\ plan.argv = {Target} /\ plan.phase = "pending"
    <2>1. plan = [bare EXCEPT !.argv = {Target}]
      BY Zenon
    <2> HIDE DEF bare, plan
    <2> QED BY <1>1, <2>1, TargetTyped DEF Invocation
  <1> DEFINE row == Settled(plan, {Target}, gate \cap {Target})
  <1>3. inv'[k] = IF Source(k) THEN row ELSE bare
    BY Zenon DEF Start
  <1> HIDE DEF bare, plan
  <1>4. /\ row \in Invocation /\ row.argv = {Target}
        /\ row.phase \in {"pending", "skipped", "refused"}
    BY <1>2, SettledTyped
  <1>5. row.phase = "pending" => Target \in gate
    <2> SUFFICES ASSUME Target \notin gate PROVE row.phase # "pending" OBVIOUS
    <2>1. gate \cap {Target} = {} OBVIOUS
    <2> QED BY <1>2, <2>1, SettledTyped
  <1> HIDE DEF row
  <1> QED BY <1>1, <1>3, <1>4, <1>5

\* The rest of the start.
LEMMA StartElse ==
    ASSUME TypeOK, Start
    PROVE  /\ inv' \in [Steps -> Invocation]
           /\ cand' \in [Steps -> [Values -> {"none", "permitted", "refused"}]]
           /\ state = "none" /\ state' = "running" /\ version' = 1 /\ owed' = TRUE
           /\ \A k \in Steps : allowed'[k] = IF Source(k) THEN gate \cap {Target} ELSE {}
           /\ allowed' \in [Steps -> SUBSET Values]
           /\ UNCHANGED <<artifact, observed, sent, local, spawns, aimed, wrote, gate, faults, edits>>
  <1>1. inv' = [k \in Steps |-> inv'[k]]
    BY Zenon DEF Start
  <1>2. /\ cand' = [k \in Steps |-> IF Source(k) THEN Inserted(cand[k], Target, gate) ELSE cand[k]]
        /\ allowed' = [k \in Steps |-> IF Source(k) THEN gate \cap {Target} ELSE {}]
        /\ state = "none" /\ state' = "running" /\ version' = 1 /\ owed' = TRUE
        /\ UNCHANGED <<artifact, observed, sent, local, spawns, aimed, wrote, gate, faults, edits>>
    BY Zenon DEF Start
  <1>3. inv' \in [Steps -> Invocation]
    BY <1>1, PlanTyped
  <1>4. cand' \in [Steps -> [Values -> {"none", "permitted", "refused"}]]
    BY <1>2, InsertedTyped DEF TypeOK
  <1> QED BY <1>2, <1>3, <1>4, TargetTyped DEF TypeOK

LEMMA StartTyped == ASSUME SafeShape, Start PROVE TypeOK'
  <1>1. TypeOK
    BY DEF SafeShape
  <1>2. /\ UNCHANGED <<artifact, observed, sent, spawns, aimed, wrote, gate, faults, edits>>
        /\ UNCHANGED <<pc, read, snap, known, at, asked, permitted, todo>>
    BY <1>1, StartElse DEF local
  <1>3. /\ inv' \in [Steps -> Invocation] /\ allowed' \in [Steps -> SUBSET Values]
        /\ cand' \in [Steps -> [Values -> {"none", "permitted", "refused"}]]
        /\ state' \in {"none", "running", "complete"} /\ version' \in 0..2 /\ owed' \in BOOLEAN
    BY <1>1, StartElse
  <1> QED BY <1>1, <1>2, <1>3 DEF TypeOK

LEMMA FaultsTyped ==
    ASSUME TypeOK, faults < MaxFaults PROVE faults + 1 \in 0..MaxFaults
  BY BoundsAssumption DEF TypeOK
LEMMA EditsTyped ==
    ASSUME TypeOK, edits < MaxEdits PROVE edits + 1 \in 0..MaxEdits
  BY BoundsAssumption DEF TypeOK

LEMMA RestTyped ==
    ASSUME TypeOK, NEW w \in Executors, Rest(w)
    PROVE  /\ pc' \in [Executors -> Places] /\ read' \in [Executors -> 0..2]
           /\ snap' \in [Executors -> [Steps -> Invocation]]
           /\ known' \in [Executors -> SUBSET Steps] /\ at' \in [Executors -> 1..(NSteps + 1)]
           /\ asked' \in [Executors -> SUBSET Values]
           /\ permitted' \in [Executors -> SUBSET Values]
           /\ todo' \in [Executors -> SUBSET Values]
  BY BlankTyped, StepsTyped DEF TypeOK, Rest, Goto, Places

LEMMA AdvanceTyped ==
    ASSUME TypeOK, NEW w \in Executors, at[w] \in Steps, Advance(w)
    PROVE  /\ pc' \in [Executors -> Places] /\ at' \in [Executors -> 1..(NSteps + 1)]
           /\ asked' \in [Executors -> SUBSET Values]
           /\ permitted' \in [Executors -> SUBSET Values]
           /\ todo' \in [Executors -> SUBSET Values]
  <1>1. at[w] + 1 \in 1..(NSteps + 1)
    BY StepsTyped DEF Steps
  <1> QED BY <1>1 DEF TypeOK, Advance, Goto, Places

LEMMA SaveTyped ==
    ASSUME TypeOK, NEW w \in Executors, NEW k \in Steps, NEW row \in Invocation, Save(w, k, row)
    PROVE  /\ inv' \in [Steps -> Invocation]
           /\ snap' \in [Executors -> [Steps -> Invocation]]
  BY DEF TypeOK, Save

LEMMA SentTyped ==
    ASSUME NEW s \in Announcements, NEW k \in Steps
    PROVE  /\ [s EXCEPT !.started = @ + 1] \in Announcements
           /\ [s EXCEPT !.ended[k] = @ + 1] \in Announcements
           /\ [s EXCEPT !.finished = @ + 1] \in Announcements
           /\ [s EXCEPT !.started = @ + 1].finished = s.finished
           /\ [s EXCEPT !.ended[k] = @ + 1].finished = s.finished
           /\ [s EXCEPT !.finished = @ + 1].finished = s.finished + 1
  <1>1. s.started + 1 \in Nat /\ s.finished + 1 \in Nat
    BY DEF Announcements
  <1>2. [s.ended EXCEPT ![k] = @ + 1] \in [Steps -> Nat]
    BY DEF Announcements
  <1>3. [s EXCEPT !.ended[k] = @ + 1] = [s EXCEPT !.ended = [s.ended EXCEPT ![k] = @ + 1]]
    BY Zenon
  <1> DEFINE more == [s.ended EXCEPT ![k] = @ + 1]
  <1> HIDE DEF more
  <1>4. [s EXCEPT !.ended = more] \in Announcements /\ [s EXCEPT !.ended = more].finished = s.finished
    BY <1>2 DEF more, Announcements
  <1>5. /\ [s EXCEPT !.ended[k] = @ + 1] \in Announcements
        /\ [s EXCEPT !.ended[k] = @ + 1].finished = s.finished
    BY <1>3, <1>4, Zenon DEF more
  <1>6. /\ [s EXCEPT !.started = @ + 1] \in Announcements
        /\ [s EXCEPT !.started = @ + 1].finished = s.finished
    BY <1>1 DEF Announcements
  <1>7. /\ [s EXCEPT !.finished = @ + 1] \in Announcements
        /\ [s EXCEPT !.finished = @ + 1].finished = s.finished + 1
    BY <1>1 DEF Announcements
  <1> QED BY <1>5, <1>6, <1>7

LEMMA GotoTyped ==
    ASSUME TypeOK, NEW w \in Executors, NEW p \in Places, Goto(w, p)
    PROVE  pc' \in [Executors -> Places]
  BY DEF TypeOK, Goto

LEMMA DecidedTyped ==
    ASSUME SafeShape, NEW w \in Executors, pc[w] = "candidates"
    PROVE  /\ at[w] \in Steps /\ snap[w][at[w]] \in Invocation
           /\ Decided(w) \in Invocation /\ Filled(w) \in Invocation
           /\ Decided(w).argv = snap[w][at[w]].argv
           /\ Filled(w).argv = IF snap[w][at[w]].argv = {} THEN permitted[w] ELSE snap[w][at[w]].argv
           /\ Filled(w).phase = Decided(w).phase
           /\ permitted[w] = {} => /\ Decided(w).phase \in {"skipped", "refused"}
                                   /\ Decided(w).permit = snap[w][at[w]].permit
  <1>1. at[w] \in Steps /\ snap[w][at[w]] \in Invocation
    BY DEF SafeShape, Shape, AtAStep, InHand, TypeOK
  <1>2. /\ Decided(w) \in Invocation
        /\ Decided(w).argv = snap[w][at[w]].argv
        /\ Decided(w).permit = (snap[w][at[w]].permit \/ permitted[w] # {})
        /\ permitted[w] = {} => Decided(w).phase \in {"skipped", "refused"}
    BY <1>1, SettledTyped DEF Decided
  <1>3. permitted[w] \in SUBSET Values BY DEF SafeShape, TypeOK
  <1>4. Fill(Decided(w).argv, permitted[w]) \in SUBSET Values
    BY <1>2, <1>3 DEF Fill, Invocation
  <1>5. /\ Filled(w) \in Invocation /\ Filled(w).phase = Decided(w).phase
        /\ Filled(w).argv = Fill(Decided(w).argv, permitted[w])
    BY <1>2, <1>4 DEF Filled, Invocation
  <1>6. permitted[w] = {} => Decided(w).permit = snap[w][at[w]].permit
    <2>1. snap[w][at[w]].permit \in BOOLEAN BY <1>1 DEF Invocation
    <2> QED BY <1>2, <2>1
  <1> QED BY <1>1, <1>2, <1>5, <1>6 DEF Fill
LEMMA WorkTyped ==
    ASSUME SafeShape, NEW w \in Executors, Work(w) \/ Abort(w)
    PROVE  TypeOK'
  <1> USE DEF rowVars, history
  <1>0. TypeOK /\ Shape /\ (pc[w] \in InHand => at[w] \in Steps)
    BY DEF SafeShape, Shape, AtAStep
  <1>1. CASE Claim(w)
    <2>1. version \in 0..2 BY <1>0 DEF TypeOK
    <2>2. read' \in [Executors -> 0..2] BY <1>0, <1>1, <2>1 DEF TypeOK, Claim
    <2>3. pc' \in [Executors -> Places] BY <1>0, <1>1, GotoTyped DEF Claim, Places
    <2> QED BY <1>0, <1>1, <2>2, <2>3 DEF TypeOK, Claim
  <1>2. CASE Load(w)
    <2>1. snap' \in [Executors -> [Steps -> Invocation]] /\ known' \in [Executors -> SUBSET Steps]
      <3>1. snap' \in [Executors -> [Steps -> Invocation]]
        BY <1>0, <1>2 DEF TypeOK, Load, ReadRows
      <3>2. PICK still \in SUBSET Steps : known' = [known EXCEPT ![w] = still]
        BY <1>2 DEF Load, Pending
      <3> QED BY <1>0, <3>1, <3>2 DEF TypeOK
    <2>2. pc' \in [Executors -> Places] BY <1>0, <1>2, GotoTyped DEF Load, Places
    <2> QED BY <1>0, <1>2, <2>1, <2>2 DEF TypeOK, Load
  <1>3. CASE PassBy(w)
    <2>1. at' \in [Executors -> 1..(NSteps + 1)]
      BY <1>0, <1>3, StepsTyped DEF TypeOK, PassBy, Steps
    <2> QED BY <1>0, <1>3, <2>1 DEF TypeOK, PassBy
  <1>4. CASE Begin(w)
    <2>1. pc' \in [Executors -> Places] BY <1>0, <1>4, GotoTyped DEF Begin, Places
    <2> QED BY <1>0, <1>4, <2>1 DEF TypeOK, Begin
  <1>5. CASE Ask(w)
    <2>1. pc' \in [Executors -> Places] BY <1>0, <1>5, GotoTyped DEF Ask, Places
    <2>2. at[w] \in Steps BY <1>5 DEF Ask
    <2>3. Subjects(w, at[w]) \in SUBSET Values
      BY <1>0, <2>2, FeedsAssumption DEF Subjects, TypeOK
    <2> QED BY <1>0, <1>5, <2>1, <2>2, <2>3 DEF TypeOK, Ask
  <1>6. CASE AddCandidate(w)
    <2>1. at[w] \in Steps BY <1>0, <1>6 DEF AddCandidate, InHand
    <2>2. PICK v \in todo[w] : /\ cand' = [cand EXCEPT ![at[w]] = Inserted(@, v, permitted[w])]
                              /\ todo' = [todo EXCEPT ![w] = @ \ {v}]
      BY <1>6 DEF AddCandidate
    <2>3. Inserted(cand[at[w]], v, permitted[w]) \in [Values -> {"none", "permitted", "refused"}]
      BY <1>0, <2>1, InsertedTyped DEF TypeOK
    <2> QED BY <1>0, <1>6, <2>1, <2>2, <2>3 DEF TypeOK, AddCandidate
  <1>7. CASE SaveDecision(w)
    <2>1. at[w] \in Steps /\ Decided(w) \in Invocation
      BY <1>7, DecidedTyped DEF SaveDecision, AllAdded
    <2>2. Save(w, at[w], Decided(w)) /\ Advance(w) BY <1>7 DEF SaveDecision
    <2> QED BY <1>0, <1>7, <2>1, <2>2, SaveTyped, AdvanceTyped DEF TypeOK, SaveDecision
  <1>8. CASE SaveRejected(w)
    BY <1>0, <1>8, RestTyped DEF TypeOK, SaveRejected
  <1>9. CASE SaveFilled(w)
    <2>1. at[w] \in Steps /\ Filled(w) \in Invocation
      BY <1>9, DecidedTyped DEF SaveFilled, AllAdded
    <2>2. Save(w, at[w], Filled(w)) BY <1>9 DEF SaveFilled
    <2>3. pc' \in [Executors -> Places] BY <1>0, <1>9, GotoTyped DEF SaveFilled, Places
    <2> QED BY <1>0, <1>9, <2>1, <2>2, <2>3, SaveTyped DEF TypeOK, SaveFilled
  <1>10. CASE SaveStarted(w)
    <2>1. at[w] \in Steps BY <1>0, <1>10 DEF SaveStarted, InHand
    <2>2. [snap[w][at[w]] EXCEPT !.phase = "running"] \in Invocation
      <3>1. snap[w][at[w]] \in Invocation BY <1>0, <2>1 DEF TypeOK
      <3> QED BY <3>1, PhaseTyped DEF Phases
    <2>3. Save(w, at[w], [snap[w][at[w]] EXCEPT !.phase = "running"]) BY <1>10 DEF SaveStarted
    <2>4. pc' \in [Executors -> Places] BY <1>0, <1>10, GotoTyped DEF SaveStarted, Places
    <2>5. /\ inv' \in [Steps -> Invocation] /\ snap' \in [Executors -> [Steps -> Invocation]]
      BY <1>0, <2>1, <2>2, <2>3, SaveTyped
    <2> QED BY <1>0, <1>10, <2>4, <2>5 DEF TypeOK, SaveStarted
  <1>11. CASE Spawn(w)
    <2>1. at[w] \in Steps BY <1>0, <1>11 DEF Spawn, InHand
    <2>2. pc' \in [Executors -> Places] BY <1>0, <1>11, GotoTyped DEF Spawn, Places
    <2>3. todo' \in [Executors -> SUBSET Values] /\ wrote' \in SUBSET Steps
      BY <1>0, <1>11, <2>1 DEF TypeOK, Spawn
    <2>4. spawns' \in [Steps -> Nat] /\ aimed' \in [Steps -> SUBSET Values]
      BY <1>0, <1>11, <2>1 DEF TypeOK, Spawn, Invocation
    <2> QED BY <1>0, <1>11, <2>2, <2>3, <2>4 DEF TypeOK, Spawn
  <1>12. CASE SaveEnded(w)
    <2>1. at[w] \in Steps BY <1>0, <1>12 DEF SaveEnded, InHand
    <2>2. PICK phase \in {"ok", "failed"} : Save(w, at[w], [snap[w][at[w]] EXCEPT !.phase = phase])
      BY <1>12 DEF SaveEnded
    <2>3. [snap[w][at[w]] EXCEPT !.phase = phase] \in Invocation
      <3>1. snap[w][at[w]] \in Invocation BY <1>0, <2>1 DEF TypeOK
      <3>2. phase \in Phases BY DEF Phases
      <3> QED BY <3>1, <3>2, PhaseTyped
    <2>4. pc' \in [Executors -> Places] BY <1>0, <1>12, GotoTyped DEF SaveEnded, Keep, Places
    <2>5. /\ inv' \in [Steps -> Invocation] /\ snap' \in [Executors -> [Steps -> Invocation]]
      BY <1>0, <2>1, <2>2, <2>3, SaveTyped
    <2> QED BY <1>0, <1>12, <2>4, <2>5 DEF TypeOK, SaveEnded
  <1>13. CASE Store(w)
    <2>1. at[w] \in Steps BY <1>0, <1>13 DEF Store, InHand
    <2>2. pc' \in [Executors -> Places] BY <1>0, <1>13, GotoTyped DEF Store, Places
    <2> QED BY <1>0, <1>13, <2>1, <2>2 DEF TypeOK, Store
  <1>14. CASE Observe(w)
    <2>1. at[w] \in Steps BY <1>0, <1>14 DEF Observe, InHand
    <2> QED BY <1>0, <1>14, <2>1 DEF TypeOK, Observe
  <1>15. CASE Extracted(w)
    <2>1. pc' \in [Executors -> Places] BY <1>0, <1>15, GotoTyped DEF Extracted, Places
    <2> QED BY <1>0, <1>15, <2>1 DEF TypeOK, Extracted
  <1>16. CASE AnnounceEnded(w)
    <2>1. at[w] \in Steps BY <1>0, <1>16 DEF AnnounceEnded, InHand
    <2>2. Advance(w) /\ sent' = [sent EXCEPT !.ended[at[w]] = @ + 1] BY <1>16 DEF AnnounceEnded
    <2>3. sent' \in Announcements BY <1>0, <2>1, <2>2, SentTyped DEF TypeOK
    <2> QED BY <1>0, <1>16, <2>1, <2>2, <2>3, AdvanceTyped DEF TypeOK, AnnounceEnded
  <1>17. CASE FinishRun(w)
    <2>1. read[w] \in 0..1 BY <1>0 DEF Shape, ReadsTheStart
    <2>2. version' \in 0..2 BY <1>17, <2>1 DEF FinishRun, Moved
    <2>3. pc' \in [Executors -> Places] BY <1>0, <1>17, GotoTyped DEF FinishRun, Places
    <2> QED BY <1>0, <1>17, <2>2, <2>3 DEF TypeOK, FinishRun
  <1>18. CASE FinishStale(w)
    BY <1>0, <1>18, RestTyped DEF TypeOK, FinishStale
  <1>19. CASE AnnounceFinished(w)
    <2>1. sent' \in Announcements BY <1>0, <1>19, SentTyped, StepsTyped DEF TypeOK, AnnounceFinished
    <2> QED BY <1>0, <1>19, <2>1, RestTyped DEF TypeOK, AnnounceFinished
  <1>20. CASE Abort(w)
    BY <1>0, <1>20, RestTyped, FaultsTyped DEF TypeOK, Abort
  <1> QED
    BY <1>1, <1>2, <1>3, <1>4, <1>5, <1>6, <1>7, <1>8, <1>9, <1>10, <1>11, <1>12, <1>13, <1>14,
       <1>15, <1>16, <1>17, <1>18, <1>19, <1>20 DEF Work
\* Whatever an executor does, the run was started and stays so, and what the
\* gate permitted, what was observed and what is stored is only added to.
LEMMA Underway ==
    ASSUME SafeShape, NEW w \in Executors, Work(w) \/ Abort(w)
    PROVE  /\ state # "none" /\ state' # "none"
           /\ \A k \in Steps : allowed[k] \subseteq allowed'[k] /\ observed[k] \subseteq observed'[k]
           /\ artifact \subseteq artifact'
  <1> USE DEF rowVars, history
  <1>1. state # "none"
    <2>1. pc[w] = "idle" => state = "running"
      BY DEF Work, Abort, Claim, Claimable, Load, PassBy, Begin, Ask, AddCandidate, SaveDecision, SaveRejected,
             SaveFilled, AllAdded, SaveStarted, Spawn, SaveEnded, Store, Observe, Extracted,
             AnnounceEnded, FinishRun, FinishStale, PassedAll, AnnounceFinished
    <2> QED BY <2>1 DEF SafeShape, Shape, NothingYet
  <1>2. state' \in {state, "complete"}
    BY DEF Work, Abort, Claim, Load, PassBy, Begin, Ask, AddCandidate, SaveDecision, SaveRejected,
           SaveFilled, SaveStarted, Spawn, SaveEnded, Store, Observe, Extracted,
           AnnounceEnded, FinishRun, FinishStale, AnnounceFinished
  <1>3. \/ UNCHANGED allowed
        \/ at[w] \in Steps /\ \E more : allowed' = [allowed EXCEPT ![at[w]] = @ \cup more]
    BY DEF Work, Abort, Claim, Load, PassBy, Begin, Ask, AddCandidate, SaveDecision, SaveRejected,
           SaveFilled, SaveStarted, Spawn, SaveEnded, Store, Observe, Extracted,
           AnnounceEnded, FinishRun, FinishStale, AnnounceFinished
  <1>4. \/ UNCHANGED observed
        \/ \E v \in todo[w] : observed' = [observed EXCEPT ![at[w]] = @ \cup {v}]
    BY DEF Work, Abort, Claim, Load, PassBy, Begin, Ask, AddCandidate, SaveDecision, SaveRejected,
           SaveFilled, SaveStarted, Spawn, SaveEnded, Store, Observe, Extracted,
           AnnounceEnded, FinishRun, FinishStale, AnnounceFinished
  <1>5. UNCHANGED artifact \/ artifact' = artifact \cup {at[w]}
    BY DEF Work, Abort, Claim, Load, PassBy, Begin, Ask, AddCandidate, SaveDecision, SaveRejected,
           SaveFilled, SaveStarted, Spawn, SaveEnded, Store, Observe, Extracted,
           AnnounceEnded, FinishRun, FinishStale, AnnounceFinished
  <1>6. \A k \in Steps : allowed[k] \subseteq allowed'[k]
    BY <1>3 DEF SafeShape, TypeOK
  <1>7. \A k \in Steps : observed[k] \subseteq observed'[k]
    BY <1>4 DEF SafeShape, TypeOK
  <1> QED BY <1>1, <1>2, <1>5, <1>6, <1>7

\* An executor's step is its own: the others stand where they stood, with the
\* rows they held.
LEMMA OthersStand ==
    ASSUME SafeShape, NEW w \in Executors, Work(w) \/ Abort(w), NEW u \in Executors \ {w}
    PROVE  /\ pc'[u] = pc[u] /\ read'[u] = read[u] /\ snap'[u] = snap[u] /\ at'[u] = at[u]
           /\ asked'[u] = asked[u] /\ permitted'[u] = permitted[u]
  <1>1. TypeOK BY DEF SafeShape
  <1> QED
    BY <1>1 DEF TypeOK, Work, Abort, Claim, Load, PassBy, Begin, Ask, AddCandidate, SaveDecision,
           SaveRejected, SaveFilled, SaveStarted, Spawn, SaveEnded, Store, Observe, Extracted,
           AnnounceEnded, FinishRun, FinishStale, AnnounceFinished, Rest, Advance, Goto, Save

LEMMA ShapeKept ==
    ASSUME SafeShape, NEW w \in Executors, Work(w) \/ Abort(w)
    PROVE  SafeShape'
  <1> USE DEF rowVars, history
  <1>0. TypeOK /\ Shape /\ TypeOK'
    BY WorkTyped DEF SafeShape
  <1>1. VersionTells'
    <2>1. \/ UNCHANGED <<state, version>>
          \/ FinishRun(w)
      BY DEF Work, Abort, Claim, Load, PassBy, Begin, Ask, AddCandidate, SaveDecision, SaveRejected,
             SaveFilled, SaveStarted, Spawn, SaveEnded, Store, Observe, Extracted,
             AnnounceEnded, FinishStale, AnnounceFinished
    <2>2. CASE FinishRun(w)
      BY <1>0, <2>2 DEF FinishRun, PassedAll, Unmoved, Moved, Shape, ReadsTheStart, VersionTells
    <2> QED BY <1>0, <2>1, <2>2 DEF Shape, VersionTells
  <1>2. ReadsTheStart'
    <2>1. CASE Claim(w)
      <3>1. version = 1 BY <1>0, <2>1 DEF Claim, Claimable, Shape, VersionTells
      <3>2. pc'[w] = "load" /\ read'[w] = 1 BY <1>0, <2>1, <3>1 DEF Claim, Goto, TypeOK
      <3> QED BY <1>0, <3>2, OthersStand DEF Shape, ReadsTheStart
    <2>2. CASE ~Claim(w)
      <3>1. pc[w] # "idle"
        BY <2>2 DEF Work, Abort, Load, PassBy, Begin, Ask, AddCandidate, SaveDecision, SaveRejected,
             SaveFilled, AllAdded, SaveStarted, Spawn, SaveEnded, Store, Observe, Extracted,
             AnnounceEnded, FinishRun, FinishStale, PassedAll, AnnounceFinished
      <3>2. \/ pc'[w] = "idle" /\ read'[w] = 0
            \/ pc'[w] # "idle" /\ read'[w] = read[w]
        BY <1>0, <2>2, <3>1 DEF TypeOK, Work, Abort, Load, PassBy, Begin, Ask, AddCandidate, SaveDecision,
             SaveRejected, SaveFilled, SaveStarted, Spawn, SaveEnded, Keep, Store, Observe, Extracted,
             AnnounceEnded, FinishRun, FinishStale, AnnounceFinished, Rest, Advance, Goto
      <3> QED BY <1>0, <3>1, <3>2, OthersStand DEF Shape, ReadsTheStart
    <2> QED BY <2>1, <2>2
  <1>3. NothingYet'
    BY Underway DEF NothingYet
  <1>4. RestsEmpty'
    <2>1. pc'[w] = "idle" => Rest(w)
      BY <1>0 DEF TypeOK, Work, Abort, Claim, Load, PassBy, Begin, Ask, AddCandidate, SaveDecision,
             SaveFilled, SaveStarted, Spawn, SaveEnded, Keep, Store, Observe, Extracted,
             AnnounceEnded, FinishRun, SaveRejected, FinishStale, AnnounceFinished, Advance, Goto
    <2>2. pc'[w] = "idle" => snap'[w] = [k \in Steps |-> Blank]
      BY <1>0, <2>1 DEF TypeOK, Rest
    <2> QED BY <1>0, <2>2, OthersStand DEF Shape, RestsEmpty
  <1>5. AtAStep'
    <2>1. pc'[w] \in InHand => at'[w] \in Steps
      <3>1. CASE Claim(w) \/ Load(w) \/ PassBy(w) \/ SaveDecision(w) \/ AnnounceEnded(w) \/ FinishRun(w)
        BY <1>0, <3>1 DEF TypeOK, Claim, Load, PassBy, SaveDecision, AnnounceEnded, FinishRun, Advance,
               Goto, InHand
      <3>2. CASE SaveRejected(w) \/ FinishStale(w) \/ AnnounceFinished(w) \/ Abort(w)
        BY <1>0, <3>2 DEF TypeOK, SaveRejected, FinishStale, AnnounceFinished, Abort, Rest, Goto, InHand
      <3>3. CASE Begin(w) \/ Ask(w) \/ AddCandidate(w) \/ SaveFilled(w) \/ SaveStarted(w) \/ Spawn(w)
        <4>1. UNCHANGED at /\ at[w] \in Steps
          BY <1>0, <3>3 DEF Begin, Ask, AddCandidate, SaveFilled, AllAdded, SaveStarted, Spawn,
                 Shape, AtAStep, InHand
        <4> QED BY <4>1
      <3>4. CASE SaveEnded(w) \/ Store(w) \/ Observe(w) \/ Extracted(w)
        <4>1. UNCHANGED at /\ at[w] \in Steps
          BY <1>0, <3>4 DEF SaveEnded, Store, Observe, Extracted, Shape, AtAStep, InHand
        <4> QED BY <4>1
      <3> QED BY <3>1, <3>2, <3>3, <3>4 DEF Work
    <2> QED BY <1>0, <2>1, OthersStand DEF Shape, AtAStep
  <1> QED BY <1>0, <1>1, <1>2, <1>3, <1>4, <1>5 DEF SafeShape, Shape

-----------------------------------------------------------------------------
(* What happens to the rows.                                               *)

\* What an executor writes to a row: its phase, once it is decided, with the
\* argv it held, or the argv filled with what was permitted.
Written(w, row) ==
    \/ row.argv = snap[w][at[w]].argv /\ row.phase # "pending"
    \/ /\ pc[w] = "candidates"
       /\ row.argv = IF snap[w][at[w]].argv = {} THEN permitted[w] ELSE snap[w][at[w]].argv

\* A step leaves the rows alone, reads them, forgets them or writes one of them.
LEMMA RowsMove ==
    ASSUME SafeShape, NEW w \in Executors, Work(w) \/ Abort(w)
    PROVE  \/ UNCHANGED <<inv, snap>>
           \/ UNCHANGED inv /\ snap'[w] = inv
           \/ UNCHANGED inv /\ snap'[w] = [k \in Steps |-> Blank]
           \/ at[w] \in Steps /\ \E row \in Invocation : Save(w, at[w], row) /\ Written(w, row)
  <1> USE DEF rowVars, history
  <1>0. TypeOK /\ Shape /\ (pc[w] \in InHand => at[w] \in Steps)
    BY DEF SafeShape, Shape, AtAStep
  <1>1. CASE Claim(w) \/ PassBy(w) \/ Begin(w) \/ Ask(w) \/ AddCandidate(w) \/ Spawn(w) \/ Store(w)
             \/ Observe(w) \/ Extracted(w) \/ AnnounceEnded(w) \/ FinishRun(w)
    BY <1>1 DEF Claim, PassBy, Begin, Ask, AddCandidate, Spawn, Store, Observe, Extracted,
           AnnounceEnded, FinishRun
  <1>2. CASE Load(w)
    BY <1>0, <1>2 DEF TypeOK, Load, ReadRows
  <1>3. CASE SaveRejected(w) \/ FinishStale(w) \/ AnnounceFinished(w) \/ Abort(w)
    BY <1>0, <1>3 DEF TypeOK, SaveRejected, FinishStale, AnnounceFinished, Abort, Rest
  <1>4. CASE SaveDecision(w)
    <2>1. /\ at[w] \in Steps /\ Decided(w) \in Invocation /\ Save(w, at[w], Decided(w))
          /\ Decided(w).argv = snap[w][at[w]].argv /\ Decided(w).phase # "pending"
      BY <1>4, DecidedTyped DEF SaveDecision, AllAdded
    <2> QED BY <2>1 DEF Written
  <1>5. CASE SaveFilled(w)
    <2>1. /\ at[w] \in Steps /\ Filled(w) \in Invocation /\ Save(w, at[w], Filled(w))
          /\ pc[w] = "candidates"
          /\ Filled(w).argv = IF snap[w][at[w]].argv = {} THEN permitted[w] ELSE snap[w][at[w]].argv
      BY <1>5, DecidedTyped DEF SaveFilled, AllAdded
    <2> QED BY <2>1 DEF Written
  <1>6. CASE SaveStarted(w) \/ SaveEnded(w)
    <2>1. PICK phase \in {"running", "ok", "failed"} :
            Save(w, at[w], [snap[w][at[w]] EXCEPT !.phase = phase])
      BY <1>6 DEF SaveStarted, SaveEnded
    <2>2. at[w] \in Steps /\ snap[w][at[w]] \in Invocation
      BY <1>0, <1>6 DEF SaveStarted, SaveEnded, InHand, TypeOK
    <2>3. phase \in Phases /\ phase # "pending" BY DEF Phases
    <2> DEFINE row == [snap[w][at[w]] EXCEPT !.phase = phase]
    <2>4. row \in Invocation /\ row.argv = snap[w][at[w]].argv /\ row.phase # "pending"
      BY <2>2, <2>3, PhaseTyped
    <2>5. Save(w, at[w], row) /\ Written(w, row)
      <3>1. Save(w, at[w], row) BY <2>1
      <3> HIDE DEF row
      <3> QED BY <2>4, <3>1 DEF Written
    <2> HIDE DEF row
    <2> QED BY <2>2, <2>4, <2>5
  <1> QED BY <1>1, <1>2, <1>3, <1>4, <1>5, <1>6 DEF Work

LEMMA Saved ==
    ASSUME TypeOK, NEW w \in Executors, NEW at0 \in Steps, NEW row \in Invocation,
           Save(w, at0, row), NEW k \in Steps
    PROVE  /\ inv'[k] = IF k = at0 THEN row ELSE inv[k]
           /\ snap'[w][k] = IF k = at0 THEN row ELSE snap[w][k]
  BY DEF TypeOK, Save

-----------------------------------------------------------------------------
(* The gate is kept.                                                       *)

StaysAllowed(k, row) == row.phase = "pending" => row.argv \subseteq allowed'[k]

LEMMA AllowedKept ==
    ASSUME SafeShape, OnlyAllowed, NEW w \in Executors, Work(w) \/ Abort(w)
    PROVE  OnlyAllowed'
  <1> USE DEF rowVars, history
  <1>0. TypeOK /\ Shape /\ TypeOK' /\ (pc[w] \in InHand => at[w] \in Steps)
    BY WorkTyped DEF SafeShape, Shape, AtAStep
  <1>1. \A k \in Steps : allowed[k] \subseteq allowed'[k]
    BY Underway
  <1>2. \A k \in Steps : StaysAllowed(k, inv'[k]) /\ StaysAllowed(k, snap'[w][k])
    <2> SUFFICES ASSUME NEW k \in Steps PROVE StaysAllowed(k, inv'[k]) /\ StaysAllowed(k, snap'[w][k])
      OBVIOUS
    <2>1. RowAllowed(k, inv[k]) /\ RowAllowed(k, snap[w][k]) /\ HandsAllowed(w)
      BY DEF OnlyAllowed
    <2>2. ASSUME NEW row, RowAllowed(k, row) PROVE StaysAllowed(k, row)
      BY <1>1, <2>2 DEF RowAllowed, StaysAllowed
    <2>3. CASE UNCHANGED <<inv, snap>>
      BY <2>1, <2>2, <2>3
    <2>4. CASE UNCHANGED inv /\ snap'[w] = inv
      BY <2>1, <2>2, <2>4
    <2>5. CASE UNCHANGED inv /\ snap'[w] = [j \in Steps |-> Blank]
      BY <2>1, <2>2, <2>5, BlankTyped DEF StaysAllowed
    <2>6. ASSUME at[w] \in Steps, NEW row \in Invocation, Save(w, at[w], row), Written(w, row)
          PROVE  StaysAllowed(k, inv'[k]) /\ StaysAllowed(k, snap'[w][k])
      <3>1. /\ inv'[k] = IF k = at[w] THEN row ELSE inv[k]
            /\ snap'[w][k] = IF k = at[w] THEN row ELSE snap[w][k]
        BY <1>0, <2>6, Saved
      <3>2. row.phase = "pending" => row.argv \subseteq allowed[at[w]]
        <4>1. pc[w] = "candidates" =>
                snap[w][at[w]].argv \subseteq allowed[at[w]] /\ permitted[w] \subseteq allowed[at[w]]
          BY <2>6 DEF OnlyAllowed, HandsAllowed, RowAllowed
        <4> QED BY <2>6, <4>1 DEF Written
      <3> QED BY <1>1, <2>1, <2>2, <2>6, <3>1, <3>2 DEF StaysAllowed
    <2> QED BY <2>3, <2>4, <2>5, <2>6, RowsMove
  <1>3. ASSUME NEW u \in Executors \ {w}
        PROVE  HandsAllowed(u)' /\ \A k \in Steps : StaysAllowed(k, snap'[u][k])
    <2>1. /\ pc'[u] = pc[u] /\ snap'[u] = snap[u] /\ at'[u] = at[u] /\ permitted'[u] = permitted[u]
          /\ pc[u] \in InHand => at[u] \in Steps
      BY <1>0, OthersStand DEF Shape, AtAStep
    <2>2. HandsAllowed(u) /\ \A k \in Steps : RowAllowed(k, snap[u][k])
      BY DEF OnlyAllowed
    <2>3. \A k \in Steps : StaysAllowed(k, snap'[u][k])
      BY <1>1, <2>1, <2>2 DEF RowAllowed, StaysAllowed
    <2>4. HandsAllowed(u)'
      <3>1. pc[u] \in InHand => allowed[at[u]] \subseteq allowed'[at[u]]
        BY <1>1, <2>1
      <3>2. CASE pc[u] = "candidates"
        BY <2>1, <2>2, <3>1, <3>2 DEF HandsAllowed, InHand
      <3>3. CASE pc[u] \in {"start", "spawn"}
        BY <2>1, <2>2, <3>1, <3>3 DEF HandsAllowed, InHand
      <3>4. CASE pc[u] \notin {"candidates", "start", "spawn"}
        BY <2>1, <3>4 DEF HandsAllowed
      <3> QED BY <3>2, <3>3, <3>4
    <2> QED BY <2>3, <2>4
  <1>4. HandsAllowed(w)'
    <2>0. HandsAllowed(w) /\ \A k \in Steps : RowAllowed(k, snap[w][k])
      BY DEF OnlyAllowed
    <2>1. CASE Begin(w)
      BY <1>0, <2>0, <2>1 DEF Begin, Goto, HandsAllowed, RowAllowed, TypeOK
    <2>2. CASE Ask(w)
      BY <1>0, <2>2 DEF Ask, Goto, HandsAllowed, TypeOK
    <2>3. CASE AddCandidate(w)
      BY <2>0, <2>3 DEF AddCandidate, HandsAllowed
    <2>4. CASE SaveFilled(w)
      <3>1. /\ at[w] \in Steps /\ Filled(w) \in Invocation /\ Save(w, at[w], Filled(w))
            /\ pc[w] = "candidates"
            /\ Filled(w).argv = IF snap[w][at[w]].argv = {} THEN permitted[w] ELSE snap[w][at[w]].argv
        BY <2>4, DecidedTyped DEF SaveFilled, AllAdded
      <3>2. Filled(w).argv \subseteq allowed[at[w]]
        BY <2>0, <3>1 DEF HandsAllowed, RowAllowed
      <3>3. snap'[w][at[w]] = Filled(w)
        BY <1>0, <3>1, Saved
      <3>4. pc'[w] = "start" /\ UNCHANGED <<at, allowed>>
        BY <1>0, <2>4 DEF SaveFilled, Goto, TypeOK
      <3> QED BY <3>2, <3>3, <3>4 DEF HandsAllowed
    <2>5. CASE SaveStarted(w)
      <3> DEFINE row == [snap[w][at[w]] EXCEPT !.phase = "running"]
      <3>1. pc[w] = "start" /\ pc'[w] = "spawn" /\ at[w] \in Steps /\ UNCHANGED <<at, allowed>>
        BY <1>0, <2>5 DEF SaveStarted, Goto, TypeOK, InHand
      <3>2. row \in Invocation /\ row.argv = snap[w][at[w]].argv
        <4>1. snap[w][at[w]] \in Invocation BY <1>0, <3>1 DEF TypeOK
        <4> QED BY <4>1, PhaseTyped DEF Phases
      <3>3. Save(w, at[w], row) BY <2>5 DEF SaveStarted
      <3> HIDE DEF row
      <3>4. snap'[w][at[w]] = row
        BY <1>0, <3>1, <3>2, <3>3, Saved
      <3> QED BY <2>0, <3>1, <3>2, <3>4 DEF HandsAllowed
    <2>6. CASE Claim(w) \/ Load(w) \/ PassBy(w) \/ SaveDecision(w) \/ Spawn(w) \/ SaveEnded(w)
               \/ Store(w) \/ Observe(w) \/ Extracted(w) \/ AnnounceEnded(w) \/ FinishRun(w)
      <3>1. pc'[w] \notin {"candidates", "start", "spawn"}
        BY <1>0, <2>6 DEF Claim, Load, PassBy, SaveDecision, Spawn, SaveEnded, Keep, Store, Observe,
               Extracted, AnnounceEnded, FinishRun, Advance, Goto, TypeOK
      <3> QED BY <3>1 DEF HandsAllowed
    <2>7. CASE SaveRejected(w) \/ FinishStale(w) \/ AnnounceFinished(w) \/ Abort(w)
      <3>1. pc'[w] = "idle"
        BY <1>0, <2>7 DEF SaveRejected, FinishStale, AnnounceFinished, Abort, Rest, Goto, TypeOK
      <3> QED BY <3>1 DEF HandsAllowed
    <2> QED BY <2>1, <2>2, <2>3, <2>4, <2>5, <2>6, <2>7 DEF Work
  <1>5. GateAllowed'
    <2>1. CASE UNCHANGED aimed
      BY <1>1, <2>1 DEF OnlyAllowed, GateAllowed
    <2>2. CASE Spawn(w)
      <3>1. /\ at[w] \in Steps /\ aimed' = [aimed EXCEPT ![at[w]] = @ \cup snap[w][at[w]].argv]
            /\ snap[w][at[w]].argv \subseteq allowed[at[w]] /\ UNCHANGED allowed
        BY <1>0, <2>2 DEF Spawn, InHand, OnlyAllowed, HandsAllowed
      <3> QED BY <1>0, <3>1 DEF OnlyAllowed, GateAllowed, TypeOK
    <2>3. UNCHANGED aimed \/ Spawn(w)
      BY DEF Work, Abort, Claim, Load, PassBy, Begin, Ask, AddCandidate, SaveDecision, SaveRejected,
             SaveFilled, SaveStarted, SaveEnded, Store, Observe, Extracted,
             AnnounceEnded, FinishRun, FinishStale, AnnounceFinished
    <2> QED BY <2>1, <2>2, <2>3
  <1>6. \A u \in Executors : HandsAllowed(u)' /\ \A k \in Steps : StaysAllowed(k, snap'[u][k])
    BY <1>2, <1>3, <1>4
  <1> QED BY <1>2, <1>5, <1>6 DEF OnlyAllowed, RowAllowed, StaysAllowed

-----------------------------------------------------------------------------
(* The lineage is kept.                                                    *)

StaysFed(k, values) == \A v \in values : \E f \in Feeds[k] : v \in observed'[f]

LEMMA StillFed ==
    ASSUME NEW k \in Steps, NEW values, Fed(k, values),
           \A f \in Steps : observed[f] \subseteq observed'[f]
    PROVE  StaysFed(k, values)
  BY FeedsAssumption DEF Fed, StaysFed

LEMMA FedKept ==
    ASSUME SafeShape, OnlyFed, NEW w \in Executors, Work(w) \/ Abort(w)
    PROVE  OnlyFed'
  <1> USE DEF rowVars, history
  <1>0. TypeOK /\ Shape /\ TypeOK' /\ (pc[w] \in InHand => at[w] \in Steps)
    BY WorkTyped DEF SafeShape, Shape, AtAStep
  <1>1. \A k \in Steps : observed[k] \subseteq observed'[k]
    BY Underway
  <1>2. \A k \in Steps : ~Source(k) => StaysFed(k, inv'[k].argv) /\ StaysFed(k, snap'[w][k].argv)
    <2> SUFFICES ASSUME NEW k \in Steps, ~Source(k)
                 PROVE  StaysFed(k, inv'[k].argv) /\ StaysFed(k, snap'[w][k].argv)
      OBVIOUS
    <2>1. StaysFed(k, inv[k].argv) /\ StaysFed(k, snap[w][k].argv)
      BY <1>1, StillFed DEF OnlyFed, RowFed
    <2>3. CASE UNCHANGED <<inv, snap>>
      BY <2>1, <2>3
    <2>4. CASE UNCHANGED inv /\ snap'[w] = inv
      BY <2>1, <2>4
    <2>5. CASE UNCHANGED inv /\ snap'[w] = [j \in Steps |-> Blank]
      BY <2>1, <2>5, BlankTyped DEF StaysFed
    <2>6. ASSUME at[w] \in Steps, NEW row \in Invocation, Save(w, at[w], row), Written(w, row)
          PROVE  StaysFed(k, inv'[k].argv) /\ StaysFed(k, snap'[w][k].argv)
      <3>1. /\ inv'[k] = IF k = at[w] THEN row ELSE inv[k]
            /\ snap'[w][k] = IF k = at[w] THEN row ELSE snap[w][k]
        BY <1>0, <2>6, Saved
      <3>2. k = at[w] => Fed(k, row.argv)
        BY <2>6 DEF Written, OnlyFed, RowFed, Fed
      <3>3. k = at[w] => StaysFed(k, row.argv)
        BY <1>1, <3>2, StillFed
      <3> QED BY <2>1, <3>1, <3>3
    <2> QED BY <2>3, <2>4, <2>5, <2>6, RowsMove
  <1>3. \A u \in Executors \ {w}, k \in Steps : ~Source(k) => StaysFed(k, snap'[u][k].argv)
    <2> SUFFICES ASSUME NEW u \in Executors \ {w}, NEW k \in Steps, ~Source(k)
                 PROVE  StaysFed(k, snap'[u][k].argv)
      OBVIOUS
    <2>1. snap'[u] = snap[u] BY OthersStand
    <2>2. Fed(k, snap[u][k].argv) BY DEF OnlyFed, RowFed
    <2> QED BY <1>1, <2>1, <2>2, StillFed
  <1>4. \A u \in Executors \ {w} : pc'[u] = "candidates" =>
           ~Source(at'[u]) /\ permitted'[u] \subseteq asked'[u] /\ StaysFed(at'[u], asked'[u])
    <2> SUFFICES ASSUME NEW u \in Executors \ {w}, pc'[u] = "candidates"
                 PROVE  ~Source(at'[u]) /\ permitted'[u] \subseteq asked'[u]
                        /\ StaysFed(at'[u], asked'[u])
      OBVIOUS
    <2>1. /\ pc[u] = "candidates" /\ at'[u] = at[u] /\ asked'[u] = asked[u]
          /\ permitted'[u] = permitted[u]
      BY OthersStand
    <2>2. at[u] \in Steps BY <1>0, <2>1 DEF Shape, AtAStep, InHand
    <2>3. ~Source(at[u]) /\ permitted[u] \subseteq asked[u] /\ Fed(at[u], asked[u])
      BY <2>1 DEF OnlyFed
    <2> QED BY <1>1, <2>1, <2>2, <2>3, StillFed
  <1>5. pc'[w] = "candidates" =>
           ~Source(at'[w]) /\ permitted'[w] \subseteq asked'[w] /\ StaysFed(at'[w], asked'[w])
    <2>1. CASE Ask(w)
      <3>1. /\ at[w] \in Steps /\ ~Source(at[w]) /\ at'[w] = at[w] /\ UNCHANGED observed
            /\ asked'[w] = Subjects(w, at[w])
            /\ permitted'[w] = Subjects(w, at[w]) \cap gate
        BY <1>0, <2>1 DEF Ask, TypeOK
      <3>2. Fed(at[w], Subjects(w, at[w]))
        BY DEF Fed, Subjects
      <3> QED BY <1>1, <3>1, <3>2, StillFed
    <2>2. CASE AddCandidate(w)
      <3>1. /\ pc[w] = "candidates" /\ UNCHANGED <<at, asked, permitted, observed>>
        BY <2>2 DEF AddCandidate
      <3>2. ~Source(at[w]) /\ permitted[w] \subseteq asked[w] /\ Fed(at[w], asked[w])
        BY <3>1 DEF OnlyFed
      <3> QED BY <3>1, <3>2 DEF Fed, StaysFed
    <2>3. pc'[w] = "candidates" => Ask(w) \/ AddCandidate(w)
      BY <1>0 DEF Work, Abort, Claim, Load, PassBy, Begin, SaveDecision,
             SaveRejected, SaveFilled, SaveStarted, Spawn, SaveEnded, Keep, Store, Observe, Extracted,
             AnnounceEnded, FinishRun, FinishStale, AnnounceFinished, Rest, Advance, Goto, TypeOK
    <2> QED BY <2>1, <2>2, <2>3
  <1>6. \A k \in Steps : ~Source(k) => StaysFed(k, aimed'[k])
    <2> SUFFICES ASSUME NEW k \in Steps, ~Source(k) PROVE StaysFed(k, aimed'[k])
      OBVIOUS
    <2>1. UNCHANGED aimed \/ Spawn(w)
      BY DEF Work, Abort, Claim, Load, PassBy, Begin, Ask, AddCandidate, SaveDecision, SaveRejected,
             SaveFilled, SaveStarted, SaveEnded, Store, Observe, Extracted,
             AnnounceEnded, FinishRun, FinishStale, AnnounceFinished
    <2>2. Fed(k, aimed[k]) /\ Fed(k, snap[w][k].argv)
      BY DEF OnlyFed, RowFed
    <2>3. aimed'[k] \subseteq aimed[k] \cup snap[w][k].argv
      BY <1>0, <2>1 DEF Spawn, InHand, TypeOK
    <2>4. Fed(k, aimed[k] \cup snap[w][k].argv)
      BY <2>2 DEF Fed
    <2>5. StaysFed(k, aimed[k] \cup snap[w][k].argv)
      BY <1>1, <2>4, StillFed
    <2> QED BY <2>3, <2>5 DEF StaysFed
  <1> QED BY <1>2, <1>3, <1>4, <1>5, <1>6 DEF OnlyFed, RowFed, Fed, StaysFed

LEMMA StoredKept ==
    ASSUME SafeShape, StoredFirst, NEW w \in Executors, Work(w) \/ Abort(w)
    PROVE  StoredFirst'
  <1> USE DEF rowVars, history
  <1>0. TypeOK /\ (pc[w] \in InHand => at[w] \in Steps)
    BY DEF SafeShape, Shape, AtAStep
  <1>1. artifact \subseteq artifact'
    BY Underway
  <1>2. pc'[w] = "extract" => at'[w] \in artifact'
    <2>1. CASE Store(w)
      BY <1>0, <2>1 DEF Store
    <2>2. CASE Observe(w)
      BY <2>2 DEF Observe, StoredFirst
    <2>3. pc'[w] = "extract" => Store(w) \/ Observe(w)
      BY <1>0 DEF Work, Abort, Claim, Load, PassBy, Begin, Ask, AddCandidate, SaveDecision,
             SaveRejected, SaveFilled, SaveStarted, Spawn, SaveEnded, Keep, Extracted,
             AnnounceEnded, FinishRun, FinishStale, AnnounceFinished, Rest, Advance, Goto, TypeOK
    <2> QED BY <2>1, <2>2, <2>3
  <1>3. \A u \in Executors \ {w} : pc'[u] = "extract" => at'[u] \in artifact'
    BY <1>1, OthersStand DEF StoredFirst
  <1>4. \A k \in Steps : observed'[k] # {} => k \in artifact'
    <2>1. UNCHANGED observed \/ Observe(w)
      BY DEF Work, Abort, Claim, Load, PassBy, Begin, Ask, AddCandidate, SaveDecision, SaveRejected,
             SaveFilled, SaveStarted, Spawn, SaveEnded, Store, Extracted,
             AnnounceEnded, FinishRun, FinishStale, AnnounceFinished
    <2>2. CASE UNCHANGED observed
      BY <1>1, <2>2 DEF StoredFirst
    <2>3. CASE Observe(w)
      <3>1. PICK v \in todo[w] : observed' = [observed EXCEPT ![at[w]] = @ \cup {v}]
        BY <2>3 DEF Observe
      <3>2. at[w] \in artifact BY <2>3 DEF Observe, StoredFirst
      <3> QED BY <1>0, <1>1, <3>1, <3>2 DEF StoredFirst, TypeOK
    <2> QED BY <2>1, <2>2, <2>3
  <1> QED BY <1>2, <1>3, <1>4 DEF StoredFirst

-----------------------------------------------------------------------------
(* One executor finishes.                                                  *)

LEMMA FinishKept ==
    ASSUME SafeShape, OneFinishes, NEW w \in Executors, Work(w) \/ Abort(w)
    PROVE  OneFinishes'
  <1> USE DEF rowVars, history
  <1>0. TypeOK /\ Shape /\ sent.finished \in Nat /\ (pc[w] \in InHand => at[w] \in Steps)
    BY DEF SafeShape, TypeOK, Announcements, Shape, AtAStep
  <1>1. \A u \in Executors \ {w} : pc'[u] = pc[u]
    BY OthersStand
  <1>2. CASE FinishRun(w)
    <2>1. state = "running" /\ state' = "complete" /\ pc'[w] = "finished" /\ UNCHANGED sent
      BY <1>0, <1>2 DEF FinishRun, PassedAll, Unmoved, Shape, VersionTells, ReadsTheStart, Goto, TypeOK
    <2>2. sent.finished = 0 /\ \A u \in Executors : pc[u] # "finished"
      BY <1>0, <2>1 DEF OneFinishes, FinishedOnce
    <2> QED BY <1>1, <2>1, <2>2 DEF OneFinishes, FinishedOnce
  <1>3. CASE AnnounceFinished(w)
    <2>1. pc[w] = "finished" /\ pc'[w] = "idle" /\ UNCHANGED state /\ sent'.finished = sent.finished + 1
      BY <1>0, <1>3, SentTyped, StepsTyped DEF AnnounceFinished, Rest, Goto, TypeOK
    <2>2. sent.finished = 0 /\ state = "complete" /\ \A u \in Executors \ {w} : pc[u] # "finished"
      BY <2>1 DEF OneFinishes
    <2> QED BY <1>1, <2>1, <2>2 DEF OneFinishes, FinishedOnce
  <1>4. CASE ~FinishRun(w) /\ ~AnnounceFinished(w)
    <2>1. UNCHANGED state /\ pc'[w] # "finished"
      BY <1>0, <1>4 DEF Work, Abort, Claim, Load, PassBy, Begin, Ask, AddCandidate, SaveDecision,
             SaveRejected, SaveFilled, SaveStarted, Spawn, SaveEnded, Keep, Store, Observe, Extracted,
             AnnounceEnded, FinishStale, Rest, Advance, Goto, TypeOK
    <2>2. sent'.finished = sent.finished
      <3>1. CASE AnnounceEnded(w)
        BY <1>0, <3>1, SentTyped DEF AnnounceEnded, InHand, TypeOK
      <3>2. CASE ~AnnounceEnded(w)
        <4>1. UNCHANGED sent
          BY <1>4, <3>2 DEF Work, Abort, Claim, Load, PassBy, Begin, Ask, AddCandidate, SaveDecision,
             SaveRejected, SaveFilled, SaveStarted, Spawn, SaveEnded, Store, Observe, Extracted,
             FinishStale
        <4> QED BY <4>1
      <3> QED BY <3>1, <3>2
    <2> QED BY <1>1, <2>1, <2>2 DEF OneFinishes, FinishedOnce
  <1> QED BY <1>2, <1>3, <1>4

-----------------------------------------------------------------------------
(* The other actions, and the theorems.                                    *)

\* At the start no executor is at work, and every row is new.
LEMMA StartKept == ASSUME IInv, Start PROVE IInv'
  <1>0. TypeOK /\ TypeOK'
    BY StartTyped DEF IInv, SafeShape
  <1>1. /\ state = "none" /\ state' = "running" /\ version' = 1
        /\ \A k \in Steps : allowed'[k] = IF Source(k) THEN gate \cap {Target} ELSE {}
        /\ UNCHANGED <<artifact, observed, sent, aimed>>
        /\ UNCHANGED <<pc, read, snap, at, asked, permitted>>
    BY <1>0, StartElse DEF local
  <1>2. /\ \A w \in Executors : pc[w] = "idle" /\ snap[w] = [k \in Steps |-> Blank]
        /\ \A k \in Steps : aimed[k] = {}
    BY <1>1 DEF IInv, SafeShape, Shape, NothingYet, RestsEmpty
  <1>3. \A w \in Executors, k \in Steps : snap[w][k].phase = "none" /\ snap[w][k].argv = {}
    BY <1>2, BlankTyped
  <1>4. SafeShape'
    BY <1>0, <1>1, <1>2
    DEF SafeShape, IInv, Shape, VersionTells, ReadsTheStart, NothingYet, RestsEmpty, AtAStep, InHand
  <1>5. OnlyAllowed'
    <2>1. \A k \in Steps : StaysAllowed(k, inv'[k])
      BY <1>0, <1>1, PlanTyped DEF StaysAllowed
    <2> QED BY <1>1, <1>2, <1>3, <2>1 DEF OnlyAllowed, HandsAllowed, RowAllowed, StaysAllowed, GateAllowed
  <1>6. OnlyFed'
    <2>1. \A k \in Steps : ~Source(k) => inv'[k].argv = {}
      BY <1>0, PlanTyped
    <2> QED BY <1>1, <1>2, <1>3, <2>1 DEF OnlyFed, RowFed, Fed, Source
  <1>7. StoredFirst'
    BY <1>1, <1>2 DEF StoredFirst, IInv
  <1>8. OneFinishes'
    BY <1>1, <1>2 DEF OneFinishes, FinishedOnce, IInv
  <1> QED BY <1>4, <1>5, <1>6, <1>7, <1>8 DEF IInv

\* Nothing that the invariant speaks of has moved.
LEMMA RestOfIt ==
    ASSUME IInv, TypeOK', sent'.finished = sent.finished,
           UNCHANGED <<state, version, inv, artifact, observed, local, history>>
    PROVE  IInv'
  <1> USE DEF local, history
  <1>1. SafeShape'
    BY DEF IInv, SafeShape, Shape, VersionTells, ReadsTheStart, NothingYet, RestsEmpty, AtAStep
  <1>2. OnlyAllowed'
    BY DEF IInv, OnlyAllowed, HandsAllowed, RowAllowed, GateAllowed
  <1>3. OnlyFed' /\ StoredFirst'
    BY DEF IInv, OnlyFed, RowFed, Fed, StoredFirst
  <1>4. OneFinishes'
    BY DEF IInv, OneFinishes, FinishedOnce
  <1> QED BY <1>1, <1>2, <1>3, <1>4 DEF IInv

LEMMA InitIInv == Init => IInv
  <1> SUFFICES ASSUME Init PROVE IInv OBVIOUS
  <1>1. SafeShape BY InitShape
  <1>2. \A k \in Steps : inv[k].phase = "none" /\ inv[k].argv = {} /\ aimed[k] = {} /\ observed[k] = {}
    BY BlankTyped DEF Init
  <1>3. \A w \in Executors : pc[w] = "idle" /\
           \A k \in Steps : snap[w][k].phase = "none" /\ snap[w][k].argv = {}
    BY BlankTyped DEF Init
  <1>4. OnlyAllowed
    BY <1>2, <1>3 DEF OnlyAllowed, RowAllowed, HandsAllowed, GateAllowed
  <1>5. OnlyFed /\ StoredFirst
    BY <1>2, <1>3 DEF OnlyFed, RowFed, Fed, StoredFirst
  <1>6. OneFinishes
    BY <1>3 DEF Init, OneFinishes, FinishedOnce
  <1> QED BY <1>1, <1>4, <1>5, <1>6 DEF IInv

LEMMA IInvKept == IInv /\ [Next]_vars => IInv'
  <1> SUFFICES ASSUME IInv, [Next]_vars PROVE IInv'
    OBVIOUS
  <1>0. SafeShape /\ TypeOK /\ sent \in Announcements
    BY DEF IInv, SafeShape, TypeOK
  <1>1. CASE Start
    BY <1>1, StartKept
  <1>2. CASE AnnounceStart
    <2>1. sent' \in Announcements /\ sent'.finished = sent.finished
      BY <1>0, <1>2, SentTyped, StepsTyped DEF AnnounceStart
    <2>2. TypeOK'
      BY <1>0, <1>2, <2>1 DEF TypeOK, AnnounceStart, local, history
    <2> QED BY <1>2, <2>1, <2>2, RestOfIt DEF AnnounceStart
  <1>3. CASE StarterDies
    <2>1. TypeOK'
      BY <1>0, <1>3, FaultsTyped DEF TypeOK, StarterDies, local, history
    <2> QED BY <1>3, <2>1, RestOfIt DEF StarterDies
  <1>4. CASE EditScope
    <2>1. TypeOK'
      BY <1>0, <1>4, EditsTyped DEF TypeOK, EditScope, rowVars, local, history
    <2> QED BY <1>4, <2>1, RestOfIt DEF EditScope, rowVars
  <1>5. ASSUME NEW w \in Executors, Work(w) \/ Abort(w) PROVE IInv'
    BY <1>0, <1>5, ShapeKept, AllowedKept, FedKept, StoredKept, FinishKept DEF IInv
  <1>6. CASE UNCHANGED vars
    <2>1. TypeOK'
      BY <1>0, <1>6 DEF TypeOK, vars, rowVars, local, history
    <2> QED BY <1>6, <2>1, RestOfIt DEF vars, rowVars
  <1> QED BY <1>1, <1>2, <1>3, <1>4, <1>5, <1>6 DEF Next, Poll

LEMMA AlwaysIInv == Spec => []IInv
  BY InitIInv, IInvKept, PTL DEF Spec

\* The run's rows, an executor's copy of them and what it has yet to write stay
\* within their types: in particular an executor is never past the chain's end
\* by more than one, and a run's version never passes two.
THEOREM TypeCorrect == Spec => []TypeOK
  <1>1. IInv => TypeOK
    BY DEF IInv, SafeShape
  <1> QED BY <1>1, AlwaysIInv, PTL

\* No command line holds a value that the spawn gate had not permitted to that
\* step of this run, for any number of executors, deaths and rule changes.
THEOREM GateIsKept == Spec => []GateAllowed
  <1>1. IInv => GateAllowed
    BY DEF IInv, OnlyAllowed
  <1> QED BY <1>1, AlwaysIInv, PTL

\* A downstream process is aimed only at subjects read out of the stored output
\* of a step that feeds it.
THEOREM LineageIsKept == Spec => []Lineage
  <1>1. IInv => Lineage
    <2> SUFFICES ASSUME IInv, NEW k \in Steps, ~Source(k), NEW v \in aimed[k]
                 PROVE  \E f \in Feeds[k] : v \in observed[f] /\ f \in artifact
      BY DEF Lineage
    <2>1. PICK f \in Feeds[k] : v \in observed[f]
      BY DEF IInv, OnlyFed, Fed
    <2>2. f \in Steps BY FeedsAssumption
    <2> QED BY <2>1, <2>2 DEF IInv, StoredFirst
  <1> QED BY <1>1, AlwaysIInv, PTL

\* However many executors walk the run to its end, one finishes it and only that
\* one announces it, and it announces it once.
THEOREM FinishesOnce == Spec => []FinishedOnce
  <1>1. IInv => FinishedOnce
    BY DEF IInv, OneFinishes
  <1> QED BY <1>1, AlwaysIInv, PTL
-----------------------------------------------------------------------------
(* A single executor.  The rows it holds are the rows of the table, so what *)
(* it does to a step it knows of; what it leaves undone, it died over.      *)

Ran == {"running", "ok", "failed"}
Engaged(e) == pc[e] \in {"spawn", "silent", "wrote", "store"}
Gaps(e) == {k \in Steps : /\ inv[k].phase = "running" \/ k \in wrote \ artifact
                          /\ ~(Engaged(e) /\ k = at[e])}

\* The start brings every row, and a row knows of the process of its step.
RowsKnow ==
    /\ state = "none" => wrote = {} /\ \A k \in Steps : spawns[k] = 0 /\ inv[k].phase = "none"
    /\ state # "none" => \A k \in Steps : inv[k].phase # "none"
    /\ \A k \in Steps : spawns[k] # 0 => spawns[k] = 1 /\ inv[k].phase \in Ran
    /\ \A k \in wrote : spawns[k] # 0

\* Where the executor stands tells how far its step has come.
HandKnows(e) ==
    /\ pc[e] \notin {"idle", "load"} => snap[e] = inv
    /\ pc[e] \in {"candidates", "start"} => inv[at[e]].phase = "pending"
    /\ pc[e] = "spawn" => inv[at[e]].phase = "running" /\ spawns[at[e]] = 0
    /\ pc[e] \in {"store", "extract", "ended"} => inv[at[e]].phase \in {"ok", "failed"}
    /\ pc[e] \in {"silent", "wrote"} => inv[at[e]].phase = "running"
    /\ pc[e] = "silent" => at[e] \notin wrote
    /\ pc[e] = "ended" => at[e] \notin wrote \ artifact

\* A pass leaves nothing pending behind it.
NothingLeft(e) ==
    /\ pc[e] \in {"idle", "load"} => at[e] = 1
    /\ pc[e] \notin {"idle", "load", "finished"} =>
          \A k \in Steps : k < at[e] => inv[k].phase # "pending"
    /\ state = "complete" => /\ pc[e] \in {"idle", "finished"}
                             /\ \A k \in Steps : inv[k].phase # "pending"

Single(e) == RowsKnow /\ HandKnows(e) /\ NothingLeft(e) /\ Cardinality(Gaps(e)) <= faults

Saves(e) == SaveDecision(e) \/ SaveFilled(e) \/ SaveStarted(e) \/ SaveEnded(e)

\* What a save makes of the row in hand, and of no other.
LEMMA PhaseSaved ==
    ASSUME IInv, NEW e \in Executors, Single(e), Saves(e)
    PROVE  /\ SaveDecision(e) => /\ inv[at[e]].phase = "pending" /\ at'[e] = at[e] + 1
                                 /\ inv'[at[e]].phase \in {"skipped", "refused"}
           /\ SaveFilled(e) => inv[at[e]].phase = "pending" /\ inv'[at[e]].phase = "pending"
           /\ SaveStarted(e) => inv[at[e]].phase = "pending" /\ inv'[at[e]].phase = "running"
           /\ SaveEnded(e) => inv[at[e]].phase = "running" /\ inv'[at[e]].phase \in {"ok", "failed"}
           /\ at[e] \in Steps /\ \A k \in Steps \ {at[e]} : inv'[k] = inv[k]
           /\ snap'[e] = inv'
           /\ UNCHANGED <<state, artifact, spawns, wrote, faults>>
  <1>0. /\ TypeOK /\ SafeShape /\ HandKnows(e) /\ (pc[e] \in InHand => at[e] \in Steps)
    BY DEF IInv, SafeShape, Shape, AtAStep, Single
  <1>1. /\ at[e] \in Steps /\ pc[e] \notin {"idle", "load"} /\ snap[e] = inv
        /\ inv[at[e]] \in Invocation
        /\ UNCHANGED <<state, artifact, spawns, wrote, faults>>
    BY <1>0 DEF Saves, SaveDecision, SaveFilled, AllAdded, SaveStarted, SaveEnded, InHand, HandKnows,
           TypeOK, history
  <1>2. ASSUME NEW row, Save(e, at[e], row)
        PROVE  /\ inv'[at[e]] = row /\ \A k \in Steps \ {at[e]} : inv'[k] = inv[k]
               /\ snap'[e] = inv'
    BY <1>0, <1>1, <1>2 DEF Save, TypeOK
  <1>3. CASE SaveDecision(e)
    <2>1. /\ Save(e, at[e], Decided(e)) /\ Decided(e).phase \in {"skipped", "refused"}
          /\ inv[at[e]].phase = "pending" /\ at'[e] = at[e] + 1 /\ pc[e] = "candidates"
      BY <1>0, <1>3, DecidedTyped DEF SaveDecision, AllAdded, HandKnows, Advance, TypeOK
    <2>2. /\ inv'[at[e]] = Decided(e) /\ snap'[e] = inv'
          /\ \A k \in Steps \ {at[e]} : inv'[k] = inv[k]
      BY <1>2, <2>1
    <2>3. ~SaveFilled(e) /\ ~SaveStarted(e) /\ ~SaveEnded(e)
      BY <1>3, <2>1 DEF SaveDecision, SaveFilled, SaveStarted, SaveEnded
    <2> QED BY <1>1, <2>1, <2>2, <2>3
  <1>4. CASE SaveFilled(e)
    <2>1. /\ Save(e, at[e], Filled(e)) /\ Filled(e).phase = Decided(e).phase /\ UNCHANGED at
          /\ inv[at[e]].phase = "pending" /\ permitted[e] # {} /\ pc[e] = "candidates"
      BY <1>0, <1>4, DecidedTyped DEF SaveFilled, AllAdded, HandKnows
    <2>2. asked[e] # {}
      BY <2>1 DEF IInv, OnlyFed
    <2>3. Decided(e).phase = "pending"
      <3>1. Settled(inv[at[e]], asked[e], permitted[e]).phase = inv[at[e]].phase
        BY <1>1, <2>1, <2>2, SettledTyped
      <3> QED BY <1>1, <2>1, <3>1 DEF Decided
    <2> QED BY <1>1, <1>2, <1>4, <2>1, <2>3 DEF SaveDecision, SaveStarted, SaveEnded
  <1>5. CASE SaveStarted(e)
    <2> DEFINE row == [inv[at[e]] EXCEPT !.phase = "running"]
    <2>1. Save(e, at[e], row) /\ inv[at[e]].phase = "pending" /\ pc[e] = "start" /\ UNCHANGED at
      BY <1>0, <1>1, <1>5 DEF SaveStarted, HandKnows
    <2>2. row.phase = "running" BY <1>1, PhaseTyped DEF Phases
    <2> HIDE DEF row
    <2> QED BY <1>1, <1>2, <1>5, <2>1, <2>2 DEF SaveDecision, SaveFilled, AllAdded, SaveEnded
  <1>6. CASE SaveEnded(e)
    <2>1. PICK phase \in {"ok", "failed"} : Save(e, at[e], [inv[at[e]] EXCEPT !.phase = phase])
      BY <1>1, <1>6 DEF SaveEnded
    <2> DEFINE row == [inv[at[e]] EXCEPT !.phase = phase]
    <2>2. row.phase = phase BY <1>1, PhaseTyped DEF Phases
    <2>3. /\ Save(e, at[e], row) /\ inv[at[e]].phase = "running" /\ UNCHANGED at
          /\ pc[e] \in {"silent", "wrote"}
      BY <1>0, <1>6, <2>1 DEF SaveEnded, HandKnows
    <2> HIDE DEF row
    <2> QED BY <1>1, <1>2, <1>6, <2>2, <2>3 DEF SaveDecision, SaveFilled, AllAdded, SaveStarted
  <1> QED BY <1>3, <1>4, <1>5, <1>6 DEF Saves

LEMMA NoSave ==
    ASSUME NEW e \in Executors, Work(e) \/ Abort(e), ~Saves(e) PROVE UNCHANGED inv
  BY DEF Saves, Work, Abort, Claim, Load, PassBy, Begin, Ask, AddCandidate, SaveRejected, Spawn,
         Store, Observe, Extracted, AnnounceEnded, FinishRun, FinishStale, AnnounceFinished, rowVars

LEMMA RowsKnowKept ==
    ASSUME IInv, NEW e \in Executors, Single(e), Work(e) \/ Abort(e)
    PROVE  RowsKnow'
  <1> USE DEF rowVars, history
  <1>0. /\ TypeOK /\ RowsKnow /\ HandKnows(e) /\ (pc[e] \in InHand => at[e] \in Steps)
        /\ state # "none" /\ state' # "none"
    BY Underway DEF IInv, SafeShape, Shape, AtAStep, Single
  <1>1. CASE Spawn(e)
    <2>1. /\ at[e] \in Steps /\ spawns[at[e]] = 0 /\ inv[at[e]].phase = "running"
          /\ UNCHANGED inv
      BY <1>0, <1>1 DEF Spawn, InHand, HandKnows
    <2>2. spawns' = [spawns EXCEPT ![at[e]] = @ + 1] /\ wrote' \subseteq wrote \cup {at[e]}
      BY <1>1 DEF Spawn
    <2> QED BY <1>0, <2>1, <2>2 DEF RowsKnow, Ran, TypeOK
  <1>2. CASE Saves(e)
    <2>1. \A k \in Steps : /\ inv'[k].phase # "none"
                           /\ inv[k].phase \in Ran => inv'[k].phase \in Ran
      BY <1>0, <1>2, PhaseSaved DEF Saves, RowsKnow, Ran
    <2>2. UNCHANGED spawns /\ UNCHANGED wrote
      BY <1>2, PhaseSaved
    <2>3. \A k \in Steps : spawns'[k] # 0 => spawns'[k] = 1 /\ inv'[k].phase \in Ran
      <3> SUFFICES ASSUME NEW k \in Steps, spawns'[k] # 0
                   PROVE  spawns'[k] = 1 /\ inv'[k].phase \in Ran
        OBVIOUS
      <3>1. spawns[k] # 0 /\ spawns'[k] = spawns[k] BY <2>2
      <3>2. spawns[k] = 1 /\ inv[k].phase \in Ran BY <1>0, <3>1 DEF RowsKnow
      <3> QED BY <2>1, <3>1, <3>2
    <2>4. \A k \in wrote' : spawns'[k] # 0
      BY <1>0, <2>2 DEF RowsKnow
    <2>5. \A k \in Steps : inv'[k].phase # "none"
      BY <2>1
    <2> QED BY <1>0, <2>3, <2>4, <2>5, Zenon DEF RowsKnow
  <1>3. CASE ~Spawn(e) /\ ~Saves(e)
    <2>1. UNCHANGED <<spawns, wrote>>
      BY <1>3 DEF Saves, Work, Abort, Claim, Load, PassBy, Begin, Ask, AddCandidate, SaveRejected,
             Store, Observe, Extracted, AnnounceEnded, FinishRun, FinishStale, AnnounceFinished
    <2> QED BY <1>0, <1>3, <2>1, NoSave DEF RowsKnow
  <1> QED BY <1>1, <1>2, <1>3

LEMMA HandKnowsKept ==
    ASSUME IInv, NEW e \in Executors, Single(e), Work(e) \/ Abort(e)
    PROVE  HandKnows(e)'
  <1> USE DEF rowVars, history
  <1>0. /\ TypeOK /\ RowsKnow /\ HandKnows(e) /\ (pc[e] \in InHand => at[e] \in Steps)
        /\ StoredFirst
    BY DEF IInv, SafeShape, Shape, AtAStep, Single
  <1>1. CASE Saves(e)
    <2>1. snap'[e] = inv' BY <1>1, PhaseSaved
    <2>2. CASE SaveDecision(e)
      <3>1. pc'[e] = "step" BY <1>0, <2>2 DEF SaveDecision, Advance, Goto, TypeOK
      <3> QED BY <2>1, <3>1 DEF HandKnows
    <2>3. CASE SaveFilled(e)
      <3>1. pc'[e] = "start" /\ UNCHANGED at BY <1>0, <2>3 DEF SaveFilled, Goto, TypeOK
      <3> QED BY <1>1, <2>1, <2>3, <3>1, PhaseSaved DEF HandKnows
    <2>4. CASE SaveStarted(e)
      <3>1. pc'[e] = "spawn" /\ UNCHANGED <<at, spawns>> BY <1>0, <2>4 DEF SaveStarted, Goto, TypeOK
      <3>2. spawns[at[e]] = 0
        BY <1>0, <1>1, <2>4, PhaseSaved DEF RowsKnow, Ran
      <3> QED BY <1>1, <2>1, <2>4, <3>1, <3>2, PhaseSaved DEF HandKnows
    <2>5. CASE SaveEnded(e)
      <3>1. /\ pc'[e] = IF pc[e] = "wrote" THEN "store" ELSE "ended"
            /\ UNCHANGED <<at, wrote, artifact>>
            /\ pc[e] # "wrote" => at[e] \notin wrote
        BY <1>0, <2>5 DEF SaveEnded, Keep, Goto, TypeOK, HandKnows
      <3> QED BY <1>1, <2>1, <2>5, <3>1, PhaseSaved DEF HandKnows
    <2> QED BY <1>1, <2>2, <2>3, <2>4, <2>5 DEF Saves
  <1>2. CASE ~Saves(e)
    <2>1. UNCHANGED inv BY <1>2, NoSave
    <2>2. CASE Spawn(e)
      <3>1. /\ pc'[e] \in {"silent", "wrote"} /\ UNCHANGED <<at, snap>>
            /\ pc'[e] = "silent" => UNCHANGED wrote
            /\ pc[e] = "spawn" /\ at[e] \in Steps
        BY <1>0, <2>2 DEF Spawn, Goto, TypeOK, InHand
      <3>2. pc'[e] = "silent" => at[e] \notin wrote
        BY <1>0, <3>1 DEF HandKnows, RowsKnow
      <3> QED BY <1>0, <2>1, <3>1, <3>2 DEF HandKnows
    <2>3. CASE Load(e)
      <3>1. pc'[e] = "step" /\ snap'[e] = inv
        BY <1>0, <2>3 DEF Load, ReadRows, Goto, TypeOK
      <3> QED BY <2>1, <3>1 DEF HandKnows
    <2>4. CASE Claim(e)
      <3>1. pc'[e] = "load" BY <1>0, <2>4 DEF Claim, Goto, TypeOK
      <3> QED BY <3>1 DEF HandKnows
    <2>5. CASE PassBy(e) \/ AnnounceEnded(e) \/ FinishRun(e)
      <3>1. /\ pc'[e] \in {"step", "finished"} /\ UNCHANGED snap /\ pc[e] \notin {"idle", "load"}
        BY <1>0, <2>5 DEF PassBy, AnnounceEnded, FinishRun, PassedAll, Advance, Goto, TypeOK
      <3> QED BY <1>0, <2>1, <3>1 DEF HandKnows
    <2>6. CASE SaveRejected(e) \/ FinishStale(e) \/ AnnounceFinished(e) \/ Abort(e)
      <3>1. pc'[e] = "idle"
        BY <1>0, <2>6 DEF SaveRejected, FinishStale, AnnounceFinished, Abort, Rest, Goto, TypeOK
      <3> QED BY <3>1 DEF HandKnows
    <2>7. CASE Begin(e) \/ Ask(e)
      <3>1. /\ pc'[e] \in {"start", "candidates"} /\ UNCHANGED <<snap>> /\ at'[e] = at[e]
            /\ pc[e] = "step" /\ snap[e][at[e]].phase = "pending"
        BY <1>0, <2>7 DEF Begin, Ask, Goto, TypeOK
      <3> QED BY <1>0, <2>1, <3>1 DEF HandKnows
    <2>8. CASE AddCandidate(e)
      BY <1>0, <2>1, <2>8 DEF AddCandidate, HandKnows
    <2>9. CASE Store(e) \/ Observe(e) \/ Extracted(e)
      <3>1. /\ pc[e] \in {"store", "extract"} /\ pc'[e] \in {"extract", "ended"}
            /\ UNCHANGED <<snap, at, wrote>> /\ artifact \subseteq artifact'
            /\ pc'[e] = "ended" => pc[e] = "extract"
        BY <1>0, <2>9 DEF Store, Observe, Extracted, Goto, TypeOK
      <3>2. pc'[e] = "ended" => at[e] \in artifact
        BY <1>0, <3>1 DEF StoredFirst
      <3> QED BY <1>0, <2>1, <3>1, <3>2 DEF HandKnows
    <2> QED BY <1>2, <2>2, <2>3, <2>4, <2>5, <2>6, <2>7, <2>8, <2>9 DEF Work, Saves
  <1> QED BY <1>1, <1>2

LEMMA NothingLeftKept ==
    ASSUME IInv, NEW e \in Executors, Single(e), Work(e) \/ Abort(e)
    PROVE  NothingLeft(e)'
  <1> USE DEF rowVars, history
  <1>0. /\ TypeOK /\ RowsKnow /\ HandKnows(e) /\ NothingLeft(e)
        /\ pc[e] \in InHand => at[e] \in Steps
        /\ state # "none" /\ VersionTells
    BY Underway DEF IInv, SafeShape, Shape, AtAStep, Single
  <1>1. \A k \in Steps : inv[k].phase # "pending" => inv'[k].phase # "pending"
    <2>1. CASE Saves(e)
      BY <2>1, PhaseSaved DEF Saves
    <2> QED BY <2>1, NoSave
  <1>2. pc'[e] \notin {"idle", "load", "finished"} =>
          \A k \in Steps : k < at'[e] => inv'[k].phase # "pending"
    <2>1. CASE PassBy(e) \/ SaveDecision(e) \/ AnnounceEnded(e)
      <3>1. /\ pc[e] \in {"step", "candidates", "ended"}
            /\ at[e] \in Steps /\ at'[e] = at[e] + 1
        BY <1>0, <2>1
        DEF PassBy, SaveDecision, AnnounceEnded, AllAdded, Advance, TypeOK, InHand
      <3>2. inv'[at[e]].phase # "pending"
        <4>1. CASE SaveDecision(e) BY <4>1, PhaseSaved DEF Saves
        <4>2. CASE PassBy(e)
          <5>1. inv[at[e]].phase # "pending" BY <1>0, <4>2 DEF PassBy, HandKnows
          <5> QED BY <1>1, <3>1, <5>1
        <4>3. CASE AnnounceEnded(e)
          <5>1. inv[at[e]].phase # "pending" BY <1>0, <4>3 DEF AnnounceEnded, HandKnows
          <5> QED BY <1>1, <3>1, <5>1
        <4> QED BY <2>1, <4>1, <4>2, <4>3
      <3>3. \A k \in Steps : k < at'[e] => k = at[e] \/ k < at[e]
        BY <3>1 DEF Steps
      <3> QED BY <1>0, <1>1, <3>1, <3>2, <3>3 DEF NothingLeft
    <2>2. CASE Load(e)
      <3>1. pc[e] = "load" /\ UNCHANGED at BY <2>2 DEF Load
      <3>2. at[e] = 1 BY <1>0, <3>1 DEF NothingLeft
      <3> QED BY <3>1, <3>2, StepsTyped DEF Steps
    <2>3. CASE Claim(e) \/ FinishRun(e)
      BY <1>0, <2>3 DEF Claim, FinishRun, Goto, TypeOK
    <2>4. CASE SaveRejected(e) \/ FinishStale(e) \/ AnnounceFinished(e) \/ Abort(e)
      BY <1>0, <2>4 DEF SaveRejected, FinishStale, AnnounceFinished, Abort, Rest, Goto, TypeOK
    <2>5. CASE Begin(e) \/ Ask(e) \/ AddCandidate(e) \/ SaveFilled(e) \/ SaveStarted(e) \/ Spawn(e)
               \/ SaveEnded(e) \/ Store(e) \/ Observe(e) \/ Extracted(e)
      <3>1. UNCHANGED at /\ pc[e] \notin {"idle", "load", "finished"}
        BY <2>5 DEF Begin, Ask, AddCandidate, SaveFilled, AllAdded, SaveStarted, Spawn,
               SaveEnded, Store, Observe, Extracted
      <3> QED BY <1>0, <1>1, <3>1 DEF NothingLeft
    <2> QED BY <2>1, <2>2, <2>3, <2>4, <2>5 DEF Work
  <1>3. at'[e] = 1 \/ pc'[e] \notin {"idle", "load"}
    <2>1. CASE Claim(e)
      BY <1>0, <2>1 DEF Claim, NothingLeft
    <2>2. CASE SaveRejected(e) \/ FinishStale(e) \/ AnnounceFinished(e) \/ Abort(e)
      BY <1>0, <2>2 DEF SaveRejected, FinishStale, AnnounceFinished, Abort, Rest, TypeOK
    <2>3. CASE Load(e) \/ PassBy(e) \/ Begin(e) \/ Ask(e) \/ AddCandidate(e) \/ SaveDecision(e)
               \/ SaveFilled(e) \/ SaveStarted(e) \/ Spawn(e)
               \/ SaveEnded(e) \/ Store(e) \/ Observe(e) \/ Extracted(e) \/ AnnounceEnded(e) \/ FinishRun(e)
      BY <1>0, <2>3 DEF Load, PassBy, Begin, Ask, AddCandidate, SaveDecision, Advance, SaveFilled,
             SaveStarted, Spawn, SaveEnded, Keep, Store, Observe, Extracted, AnnounceEnded, FinishRun,
             Goto, TypeOK
    <2> QED BY <2>1, <2>2, <2>3 DEF Work
  <1>4. state' = "complete" => /\ pc'[e] \in {"idle", "finished"}
                               /\ \A k \in Steps : inv'[k].phase # "pending"
    <2>1. CASE FinishRun(e)
      <3>1. pc[e] = "step" /\ at[e] = NSteps + 1 /\ pc'[e] = "finished" /\ UNCHANGED inv
        BY <1>0, <2>1 DEF FinishRun, PassedAll, Goto, TypeOK
      <3>2. \A k \in Steps : k < at[e]
        BY <3>1, StepsTyped DEF Steps
      <3> QED BY <1>0, <3>1, <3>2 DEF NothingLeft
    <2>2. CASE ~FinishRun(e)
      <3> SUFFICES ASSUME state' = "complete"
                   PROVE  pc'[e] \in {"idle", "finished"} /\ \A k \in Steps : inv'[k].phase # "pending"
        OBVIOUS
      <3>1. state = "complete"
        BY <2>2 DEF Work, Abort, Claim, Load, PassBy, Begin, Ask, AddCandidate, SaveDecision,
             SaveRejected, SaveFilled, SaveStarted, Spawn, SaveEnded, Store, Observe, Extracted,
             AnnounceEnded, FinishStale, AnnounceFinished
      <3>2. pc[e] \in {"idle", "finished"} /\ \A k \in Steps : inv[k].phase # "pending"
        BY <1>0, <3>1 DEF NothingLeft
      <3>3. AnnounceFinished(e) \/ Abort(e)
        BY <2>2, <3>1, <3>2 DEF Work, Claim, Claimable, Load, PassBy, Begin, Ask, AddCandidate, SaveDecision,
             AllAdded, SaveRejected, SaveFilled, SaveStarted, Spawn, SaveEnded, Store, Observe, Extracted,
             AnnounceEnded, FinishStale, PassedAll
      <3>4. pc'[e] = "idle"
        BY <1>0, <3>3 DEF AnnounceFinished, Abort, Rest, Goto, TypeOK
      <3> QED BY <1>1, <3>2, <3>4
    <2> QED BY <2>1, <2>2
  <1> QED BY <1>2, <1>3, <1>4 DEF NothingLeft

LEMMA StepsFinite == IsFiniteSet(Steps) /\ \A S \in SUBSET Steps : IsFiniteSet(S) /\ Cardinality(S) \in Nat
  <1>1. IsFiniteSet(Steps)
    BY FS_Interval, StepsTyped DEF Steps
  <1> QED BY <1>1, FS_Subset, FS_CardinalityType

\* Only a death leaves a step half done that was not, and one at a time.
LEMMA GapsKept ==
    ASSUME IInv, NEW e \in Executors, Single(e), Work(e) \/ Abort(e)
    PROVE  (Cardinality(Gaps(e)) <= faults)'
  <1> USE DEF rowVars, history
  <1>0. /\ TypeOK /\ RowsKnow /\ HandKnows(e) /\ NothingLeft(e) /\ StoredFirst
        /\ pc[e] \in InHand => at[e] \in Steps
        /\ Cardinality(Gaps(e)) <= faults /\ faults \in Nat
    BY BoundsAssumption DEF IInv, SafeShape, Shape, AtAStep, Single, TypeOK
  <1>1. /\ Gaps(e) \subseteq Steps /\ Gaps(e)' \subseteq Steps
        /\ IsFiniteSet(Gaps(e)) /\ Cardinality(Gaps(e)) \in Nat /\ Cardinality(Gaps(e)') \in Nat
    <2>1. Gaps(e) \subseteq Steps /\ Gaps(e)' \subseteq Steps
      BY DEF Gaps
    <2> QED BY <2>1, StepsFinite
  <1>2. CASE Abort(e)
    <2>1. UNCHANGED <<inv, wrote, artifact>> /\ faults' = faults + 1 /\ at[e] \in 1..(NSteps + 1)
      BY <1>0, <1>2 DEF Abort, TypeOK
    <2>2. Gaps(e)' \subseteq Gaps(e) \cup {at[e]}
      BY <2>1 DEF Gaps
    <2>3. /\ IsFiniteSet(Gaps(e) \cup {at[e]})
          /\ Cardinality(Gaps(e) \cup {at[e]}) <= Cardinality(Gaps(e)) + 1
      BY <1>1, FS_AddElement
    <2>4. Cardinality(Gaps(e)') <= Cardinality(Gaps(e) \cup {at[e]})
      BY <2>2, <2>3, FS_Subset
    <2>5. Cardinality(Gaps(e) \cup {at[e]}) \in Nat
      BY <2>3, FS_CardinalityType
    <2>6. Cardinality(Gaps(e)') <= faults'
      BY <1>0, <1>1, <2>1, <2>3, <2>4, <2>5
    <2> QED BY <2>6
  <1>3. CASE Work(e)
    <2>0. UNCHANGED faults
      BY <1>3 DEF Work, Claim, Load, PassBy, Begin, Ask, AddCandidate, SaveDecision,
             SaveRejected, SaveFilled, SaveStarted, Spawn, SaveEnded, Store, Observe, Extracted,
             AnnounceEnded, FinishRun, FinishStale, AnnounceFinished
    <2>1. Gaps(e)' \subseteq Gaps(e)
      <3>1. CASE Saves(e)
        <4>1. CASE SaveDecision(e)
          <5>1. ~Engaged(e) /\ ~Engaged(e)'
            BY <1>0, <4>1 DEF SaveDecision, AllAdded, Advance, Goto, Engaged, TypeOK
          <5> QED BY <3>1, <4>1, <5>1, PhaseSaved DEF Gaps
        <4>2. CASE SaveFilled(e)
          <5>1. ~Engaged(e)
            BY <4>2 DEF SaveFilled, AllAdded, Engaged
          <5> QED BY <3>1, <4>2, <5>1, PhaseSaved DEF Gaps
        <4>3. CASE SaveStarted(e)
          <5>1. ~Engaged(e) /\ Engaged(e)' /\ UNCHANGED at
            BY <1>0, <4>3 DEF SaveStarted, Goto, Engaged, TypeOK
          <5> QED BY <3>1, <4>3, <5>1, PhaseSaved DEF Gaps
        <4>4. CASE SaveEnded(e)
          <5>1. /\ UNCHANGED <<at, wrote, artifact>>
                /\ Engaged(e)' \/ at[e] \notin wrote
            BY <1>0, <4>4 DEF SaveEnded, Keep, Goto, Engaged, TypeOK, HandKnows
          <5>2. inv'[at[e]].phase # "running"
            BY <3>1, <4>4, PhaseSaved
          <5>3. \A k \in Steps \ {at[e]} : inv'[k] = inv[k]
            BY <3>1, PhaseSaved
          <5>4. at[e] \notin Gaps(e)'
            BY <5>1, <5>2 DEF Gaps
          <5>5. \A k \in Steps \ {at[e]} : k \in Gaps(e)' => k \in Gaps(e)
            BY <5>1, <5>3 DEF Gaps
          <5> QED BY <1>1, <5>4, <5>5
        <4> QED BY <3>1, <4>1, <4>2, <4>3, <4>4 DEF Saves
      <3>2. CASE ~Saves(e)
        <4>0. UNCHANGED inv BY <3>2, NoSave
        <4>1. CASE Spawn(e)
          <5>1. /\ Engaged(e)' /\ UNCHANGED <<at, artifact>>
                /\ wrote' \subseteq wrote \cup {at[e]}
            BY <1>0, <4>1 DEF Spawn, Goto, Engaged, TypeOK
          <5> QED BY <4>0, <5>1 DEF Gaps
        <4>2. CASE Store(e)
          <5>1. /\ at[e] \in Steps /\ inv[at[e]].phase # "running"
                /\ UNCHANGED <<at, wrote>> /\ artifact' = artifact \cup {at[e]}
            BY <1>0, <4>2 DEF Store, InHand, HandKnows
          <5> QED BY <4>0, <5>1 DEF Gaps
        <4>3. CASE ~Spawn(e) /\ ~Store(e)
          <5>1. UNCHANGED <<wrote, artifact>> /\ ~Engaged(e)
            BY <1>3, <3>2, <4>3 DEF Saves, Engaged, Work, Claim, Load, PassBy, Begin, Ask, AddCandidate,
               AllAdded, SaveRejected, Observe, Extracted, AnnounceEnded, FinishRun, FinishStale, PassedAll,
               AnnounceFinished
          <5> QED BY <4>0, <5>1 DEF Gaps
        <4> QED BY <4>1, <4>2, <4>3
      <3> QED BY <3>1, <3>2
    <2>2. Cardinality(Gaps(e)') <= Cardinality(Gaps(e))
      BY <1>1, <2>1, FS_Subset
    <2>3. Cardinality(Gaps(e)') <= faults'
      BY <1>0, <1>1, <2>0, <2>2
    <2> QED BY <2>3
  <1> QED BY <1>2, <1>3
\* With the start, the steps of others and the changes of the rules.
LEMMA IdleWakes ==
    ASSUME TypeOK, NEW w \in Executors, Work(w) \/ Abort(w), pc[w] = "idle" PROVE pc'[w] = "load"
  BY DEF Work, Abort, Claim, Goto, Load, PassBy, Begin, Ask, AddCandidate, AllAdded, SaveDecision,
         SaveRejected, SaveFilled, SaveStarted, Spawn, SaveEnded, Store, Observe, Extracted,
         AnnounceEnded, FinishRun, FinishStale, PassedAll, AnnounceFinished, TypeOK

LEMMA SingleKept ==
    ASSUME NEW e \in Executors, IInv /\ Single(e), [Next]_vars,
           \A u \in Executors \ {e} : pc[u] = "idle" /\ pc'[u] = "idle"
    PROVE  Single(e)'
  <1> USE DEF local, history
  <1>0. TypeOK BY DEF IInv, SafeShape
  <1>1. CASE Start
    <2>0. TypeOK BY DEF IInv, SafeShape
    <2>1. /\ state = "none" /\ state' = "running" /\ UNCHANGED <<spawns, wrote, faults, pc, at>>
          /\ \A k \in Steps : inv'[k].phase \in {"pending", "skipped", "refused"}
      BY <1>1, <2>0, StartElse, PlanTyped
    <2>2. pc[e] = "idle" /\ RowsKnow /\ NothingLeft(e)
      BY <1>0, <2>1 DEF IInv, SafeShape, Shape, NothingYet, Single
    <2>3. wrote = {} /\ \A k \in Steps : spawns[k] = 0
      BY <2>1, <2>2 DEF RowsKnow
    <2>4. RowsKnow'
      BY <2>1, <2>3 DEF RowsKnow
    <2>5. HandKnows(e)' /\ NothingLeft(e)'
      BY <2>1, <2>2 DEF HandKnows, NothingLeft
    <2>6. Gaps(e)' = {}
      BY <2>1, <2>3 DEF Gaps
    <2>7. Cardinality(Gaps(e)') <= faults'
      BY <2>0, <2>1, <2>6, FS_EmptySet, BoundsAssumption DEF TypeOK
    <2> QED BY <2>4, <2>5, <2>7 DEF Single
  <1>2. CASE AnnounceStart \/ StarterDies \/ EditScope \/ UNCHANGED vars
    <2>1. /\ UNCHANGED <<state, inv, artifact, pc, at, snap, spawns, wrote>>
          /\ faults' \in {faults, faults + 1} /\ faults \in Nat
      BY <1>2, BoundsAssumption
      DEF AnnounceStart, StarterDies, EditScope, vars, rowVars, IInv, SafeShape, TypeOK
    <2>2. RowsKnow' /\ HandKnows(e)' /\ NothingLeft(e)'
      BY <2>1 DEF Single, RowsKnow, HandKnows, NothingLeft
    <2>3. Gaps(e)' = Gaps(e)
      BY <2>1 DEF Gaps, Engaged
    <2>4. Cardinality(Gaps(e)) \in Nat /\ Cardinality(Gaps(e)) <= faults
      BY StepsFinite DEF Single, Gaps
    <2>5. Cardinality(Gaps(e)') <= faults'
      BY <2>1, <2>3, <2>4
    <2> QED BY <2>2, <2>5 DEF Single
  <1>3. CASE Work(e) \/ Abort(e)
    BY <1>3, RowsKnowKept, HandKnowsKept, NothingLeftKept, GapsKept DEF Single
  <1>4. ASSUME NEW w \in Executors, Work(w) \/ Abort(w) PROVE Single(e)'
    BY <1>0, <1>3, <1>4, IdleWakes
  <1> QED BY <1>1, <1>2, <1>4 DEF Next, Poll

LEMMA InitSingle == ASSUME NEW e \in Executors, Init PROVE Single(e)
  <1>1. /\ state = "none" /\ pc[e] = "idle" /\ at[e] = 1 /\ wrote = {} /\ faults = 0
        /\ \A k \in Steps : inv[k].phase = "none" /\ spawns[k] = 0
    BY BlankTyped DEF Init
  <1>2. RowsKnow /\ HandKnows(e) /\ NothingLeft(e)
    BY <1>1 DEF RowsKnow, HandKnows, NothingLeft
  <1>3. Gaps(e) = {}
    BY <1>1 DEF Gaps
  <1>4. Cardinality(Gaps(e)) <= faults
    BY <1>1, <1>3, FS_EmptySet
  <1> QED BY <1>2, <1>4 DEF Single

-----------------------------------------------------------------------------
(* What the candidate rows tell, where one executor runs.  Once a step was  *)
(* asked about, nothing it is fed from can change; so a second asking, after *)
(* a death, finds the values of the first, and while the rules stand still  *)
(* it gets the same answers.                                               *)

Fork(k) == UNION {observed[f] : f \in Feeds[k]}
Cited(k) == {v \in Values : cand[k][v] = "permitted"}
Frozen(e, k) == \A f \in Feeds[k] : /\ inv[f].phase # "pending"
                                    /\ ~(pc[e] \in InHand /\ at[e] = f)
AskedNow(e, k) == pc[e] = "candidates" /\ at[e] = k
Calm == faults = 0 \/ edits = 0

Downstream(e, k) ==
    /\ inv[k].argv # {} \/ AskedNow(e, k) \/ (\E v \in Values : cand[k][v] # "none") => Frozen(e, k)
    /\ \A v \in Values : cand[k][v] # "none" => v \in Fork(k)
    /\ inv[k].permit => inv[k].argv # {}
    /\ edits = 0 => \A v \in Values : /\ cand[k][v] = "permitted" => v \in gate
                                      /\ cand[k][v] = "refused" => v \notin gate
    /\ faults = 0 /\ inv[k].phase = "pending" /\ ~AskedNow(e, k) /\ ~(pc[e] = "start" /\ at[e] = k) =>
          inv[k].argv = {} /\ \A v \in Values : cand[k][v] = "none"
    /\ Calm /\ inv[k].phase \in Ran \cup {"pending"} /\ inv[k].argv # {} =>
          inv[k].argv = Cited(k) /\ \A v \in Fork(k) : cand[k][v] # "none"

\* The question that is being answered.
Asking(e) == pc[e] = "candidates" =>
    /\ asked[e] \in {Fork(at[e]), {}} /\ todo[e] \subseteq asked[e]
    /\ \A v \in asked[e] \ todo[e] : cand[at[e]][v] # "none"
    /\ edits = 0 => permitted[e] = asked[e] \cap gate
    /\ faults = 0 => /\ inv[at[e]].argv = {}
                     /\ \A v \in Values : cand[at[e]][v] = IF v \notin asked[e] \ todo[e] THEN "none"
                            ELSE IF v \in permitted[e] THEN "permitted" ELSE "refused"

\* A source was answered by the start.
Settles(k) == inv[k].phase \in Ran \cup {"pending"} => inv[k].argv = {Target} /\ Cited(k) = {Target}

Filling(e) == /\ \A k \in Steps : inv[k].phase \in Ran => inv[k].argv # {}
              /\ pc[e] \in {"start", "spawn"} => inv[at[e]].argv # {}

Unasked == state = "none" => \A k \in Steps, v \in Values : cand[k][v] = "none"

Answers(e) ==
    /\ Unasked /\ Asking(e) /\ Filling(e)
    /\ \A k \in Steps : IF Source(k) THEN Settles(k) ELSE Downstream(e, k)

LEMMA ArgvSaved ==
    ASSUME IInv, NEW e \in Executors, Single(e), Saves(e)
    PROVE  /\ SaveDecision(e) \/ SaveStarted(e) \/ SaveEnded(e) =>
                 inv'[at[e]].argv = inv[at[e]].argv /\ inv'[at[e]].permit = inv[at[e]].permit
           /\ SaveFilled(e) => inv'[at[e]].argv = IF inv[at[e]].argv = {} THEN permitted[e]
                                                  ELSE inv[at[e]].argv
  <1>0. /\ TypeOK /\ SafeShape /\ HandKnows(e) /\ at[e] \in Steps
        /\ snap[e] = inv /\ inv[at[e]] \in Invocation
    BY PhaseSaved DEF IInv, SafeShape, Single, HandKnows, TypeOK, Saves, SaveDecision, SaveFilled,
           AllAdded, SaveStarted, SaveEnded
  <1>1. ASSUME NEW row, Save(e, at[e], row) PROVE inv'[at[e]] = row
    BY <1>0, <1>1 DEF Save, TypeOK
  <1>2. CASE SaveDecision(e)
    <2>1. /\ Save(e, at[e], Decided(e)) /\ Decided(e).argv = inv[at[e]].argv
          /\ Decided(e).permit = inv[at[e]].permit /\ pc[e] = "candidates"
      BY <1>0, <1>2, DecidedTyped DEF SaveDecision, AllAdded
    <2>2. inv'[at[e]] = Decided(e) BY <1>1, <2>1
    <2>3. ~SaveFilled(e) BY <1>2 DEF SaveDecision, SaveFilled
    <2> QED BY <2>1, <2>2, <2>3
  <1>3. CASE SaveFilled(e)
    <2>1. /\ Save(e, at[e], Filled(e)) /\ pc[e] = "candidates"
          /\ Filled(e).argv = IF inv[at[e]].argv = {} THEN permitted[e] ELSE inv[at[e]].argv
      BY <1>0, <1>3, DecidedTyped DEF SaveFilled, AllAdded
    <2>2. inv'[at[e]] = Filled(e) BY <1>1, <2>1
    <2>3. ~SaveDecision(e) /\ ~SaveStarted(e) /\ ~SaveEnded(e)
      BY <1>3, <2>1 DEF SaveDecision, SaveFilled, SaveStarted, SaveEnded
    <2> QED BY <2>1, <2>2, <2>3
  <1>4. CASE SaveStarted(e) \/ SaveEnded(e)
    <2>1. PICK phase \in {"running", "ok", "failed"} :
            Save(e, at[e], [inv[at[e]] EXCEPT !.phase = phase])
      BY <1>0, <1>4 DEF SaveStarted, SaveEnded
    <2> DEFINE row == [inv[at[e]] EXCEPT !.phase = phase]
    <2>2. row.argv = inv[at[e]].argv /\ row.permit = inv[at[e]].permit
      BY <1>0, PhaseTyped DEF Phases
    <2>3. inv'[at[e]] = row BY <1>1, <2>1
    <2>4. ~SaveFilled(e) BY <1>4 DEF SaveFilled, AllAdded, SaveStarted, SaveEnded
    <2> HIDE DEF row
    <2> QED BY <2>2, <2>3, <2>4
  <1> QED BY <1>2, <1>3, <1>4 DEF Saves

\* A step is taken in hand at the head of the loop, while it is pending.
LEMMA TakenPending ==
    ASSUME IInv, NEW e \in Executors, Single(e), Work(e) \/ Abort(e), pc'[e] \in InHand
    PROVE  at'[e] = at[e] /\ at[e] \in Steps /\ (pc[e] \in InHand \/ inv[at[e]].phase = "pending")
  <1> USE DEF rowVars, history
  <1>0. TypeOK /\ HandKnows(e) /\ (pc[e] \in InHand => at[e] \in Steps)
    BY DEF IInv, SafeShape, Shape, AtAStep, Single
  <1>1. CASE Claim(e) \/ Load(e) \/ PassBy(e) \/ SaveDecision(e) \/ AnnounceEnded(e) \/ FinishRun(e)
    BY <1>0, <1>1 DEF TypeOK, Claim, Load, PassBy, SaveDecision, AnnounceEnded, FinishRun, Advance,
           Goto, InHand
  <1>2. CASE SaveRejected(e) \/ FinishStale(e) \/ AnnounceFinished(e) \/ Abort(e)
    BY <1>0, <1>2 DEF TypeOK, SaveRejected, FinishStale, AnnounceFinished, Abort, Rest, Goto, InHand
  <1>3. CASE Begin(e) \/ Ask(e)
    BY <1>0, <1>3 DEF Begin, Ask, HandKnows
  <1>4. CASE AddCandidate(e) \/ SaveFilled(e) \/ SaveStarted(e) \/ Spawn(e) \/ SaveEnded(e) \/ Store(e)
             \/ Observe(e) \/ Extracted(e)
    <2>1. UNCHANGED at /\ pc[e] \in InHand
      BY <1>4 DEF AddCandidate, SaveFilled, AllAdded, SaveStarted, Spawn,
             SaveEnded, Store, Observe, Extracted, InHand
    <2> QED BY <1>0, <2>1
  <1> QED BY <1>1, <1>2, <1>3, <1>4 DEF Work

LEMMA FrozenKept ==
    ASSUME IInv, NEW e \in Executors, Single(e), Work(e) \/ Abort(e), NEW k \in Steps, Frozen(e, k)
    PROVE  Frozen(e, k)' /\ Fork(k)' = Fork(k)
  <1> USE DEF rowVars, history
  <1>0. TypeOK /\ \A f \in Feeds[k] : f \in Steps
    BY FeedsAssumption DEF IInv, SafeShape
  <1>1. \A j \in Steps : inv[j].phase # "pending" => inv'[j].phase # "pending"
    <2>1. CASE Saves(e)
      BY <2>1, PhaseSaved DEF Saves
    <2> QED BY <2>1, NoSave
  <1>2. ASSUME NEW f \in Feeds[k] PROVE inv'[f].phase # "pending" /\ ~(pc'[e] \in InHand /\ at'[e] = f)
    BY <1>0, <1>1, <1>2, TakenPending DEF Frozen
  <1>3. ASSUME NEW f \in Feeds[k] PROVE observed'[f] = observed[f]
    <2>1. UNCHANGED observed \/ Observe(e)
      BY DEF Work, Abort, Claim, Load, PassBy, Begin, Ask, AddCandidate, SaveDecision, SaveRejected,
             SaveFilled, SaveStarted, Spawn, SaveEnded, Store, Extracted,
             AnnounceEnded, FinishRun, FinishStale, AnnounceFinished
    <2>2. CASE Observe(e)
      <3>1. PICK v \in todo[e] : observed' = [observed EXCEPT ![at[e]] = @ \cup {v}]
        BY <2>2 DEF Observe
      <3>2. f # at[e]
        BY <1>3, <2>2 DEF Observe, Frozen, InHand
      <3> QED BY <1>0, <1>3, <3>1, <3>2 DEF TypeOK
    <2> QED BY <2>1, <2>2
  <1>4. Frozen(e, k)' BY <1>2 DEF Frozen
  <1>5. Fork(k)' = Fork(k) BY <1>3 DEF Fork
  <1> QED BY <1>4, <1>5

\* A step that writes no row, asks nothing and answers nothing.
Quiet(e) == \/ Claim(e) \/ Load(e) \/ PassBy(e) \/ Begin(e) \/ Spawn(e) \/ Store(e)
            \/ Observe(e) \/ Extracted(e) \/ AnnounceEnded(e) \/ FinishRun(e) \/ FinishStale(e)
            \/ AnnounceFinished(e) \/ SaveRejected(e) \/ Abort(e)

LEMMA QuietMoves ==
    ASSUME TypeOK, NEW e \in Executors, Quiet(e)
    PROVE  /\ UNCHANGED <<inv, cand, gate, edits>> /\ pc'[e] # "candidates"
           /\ UNCHANGED faults \/ faults' # 0
           /\ pc[e] = "candidates" => SaveRejected(e) \/ Abort(e)
           /\ pc[e] = "start" => Abort(e)
           /\ pc'[e] \in {"start", "spawn"} => Begin(e)
  <1> USE DEF rowVars, history
  <1>1. CASE Claim(e) \/ Load(e) \/ PassBy(e) \/ Begin(e) \/ Spawn(e)
    BY <1>1 DEF TypeOK, Claim, Load, PassBy, Begin, Spawn, Goto
  <1>2. CASE Store(e) \/ Observe(e) \/ Extracted(e) \/ AnnounceEnded(e) \/ FinishRun(e)
    BY <1>2 DEF TypeOK, Store, Observe, Extracted, AnnounceEnded, FinishRun, PassedAll, Advance, Goto
  <1>3. CASE FinishStale(e) \/ AnnounceFinished(e) \/ SaveRejected(e)
    <2>1. UNCHANGED <<inv, cand, gate, edits, faults>> /\ pc[e] # "start"
      BY <1>3 DEF FinishStale, PassedAll, AnnounceFinished, SaveRejected, AllAdded
    <2>2. pc'[e] = "idle"
      BY <1>3 DEF TypeOK, FinishStale, AnnounceFinished, SaveRejected, Rest, Goto
    <2>3. pc[e] = "candidates" => SaveRejected(e)
      BY <1>3 DEF FinishStale, PassedAll, AnnounceFinished
    <2> QED BY <2>1, <2>2, <2>3
  <1>4. CASE Abort(e)
    <2>1. faults' # 0 BY <1>4, BoundsAssumption DEF TypeOK, Abort
    <2> QED BY <1>4, <2>1 DEF TypeOK, Abort, Rest, Goto
  <1> QED BY <1>1, <1>2, <1>3, <1>4 DEF Quiet

LEMMA QuietAnswers ==
    ASSUME IInv, NEW e \in Executors, Single(e), Answers(e), Work(e) \/ Abort(e), Quiet(e)
    PROVE  Answers(e)'
  <1>0. /\ TypeOK /\ SafeShape /\ HandKnows(e) /\ Asking(e) /\ Filling(e)
        /\ state' # "none"
        /\ \A k \in Steps : IF Source(k) THEN Settles(k) ELSE Downstream(e, k)
    BY Underway DEF IInv, SafeShape, Single, Answers
  <1>1. /\ UNCHANGED <<inv, cand, gate, edits>> /\ pc'[e] # "candidates"
        /\ UNCHANGED faults \/ faults' # 0
        /\ pc[e] = "candidates" => SaveRejected(e) \/ Abort(e)
        /\ pc[e] = "start" => Abort(e)
        /\ pc'[e] \in {"start", "spawn"} => Begin(e)
    BY <1>0, QuietMoves
  <1>2. faults = 0 => ~SaveRejected(e)
    <2> SUFFICES ASSUME faults = 0, SaveRejected(e) PROVE FALSE
      OBVIOUS
    <2>1. pc[e] = "candidates" /\ permitted[e] = {} /\ ~Valid(Decided(e))
      BY DEF SaveRejected, AllAdded
    <2>2. at[e] \in Steps /\ ~Source(at[e]) /\ snap[e] = inv
      BY <1>0, <2>1, DecidedTyped DEF IInv, OnlyFed, HandKnows
    <2>3. ~inv[at[e]].permit
      BY <1>0, <2>1, <2>2 DEF Asking, Downstream
    <2>4. ~Decided(e).permit
      BY <1>0, <2>1, <2>2, <2>3, DecidedTyped
    <2> QED BY <2>1, <2>4 DEF Valid
  <1>3. faults' = 0 => faults = 0 /\ pc[e] \notin {"candidates", "start"}
    <2>1. Abort(e) => faults' # 0
      BY <1>0, BoundsAssumption DEF Abort, TypeOK
    <2> QED BY <1>1, <1>2, <2>1
  <1>4. Calm' => Calm
    BY <1>1, <1>3 DEF Calm
  <1>5. ASSUME NEW k \in Steps, ~Source(k) PROVE Downstream(e, k)'
    <2>0. Downstream(e, k) BY <1>0, <1>5
    <2>1. ~AskedNow(e, k)' BY <1>1 DEF AskedNow
    <2>2. inv[k].argv # {} \/ (\E v \in Values : cand[k][v] # "none") => Frozen(e, k)' /\ Fork(k)' = Fork(k)
      BY <2>0, FrozenKept DEF Downstream
    <2>3. \A v \in Values : cand'[k][v] # "none" => v \in Fork(k)'
      BY <1>1, <2>0, <2>2 DEF Downstream
    <2>4. faults' = 0 /\ inv'[k].phase = "pending" =>
             inv'[k].argv = {} /\ \A v \in Values : cand'[k][v] = "none"
      BY <1>1, <1>3, <2>0 DEF Downstream, AskedNow
    <2>5. Calm' /\ inv'[k].phase \in Ran \cup {"pending"} /\ inv'[k].argv # {} =>
             inv'[k].argv = Cited(k)' /\ \A v \in Fork(k)' : cand'[k][v] # "none"
      BY <1>1, <1>4, <2>0, <2>2 DEF Downstream, Cited
    <2>6. edits' = 0 => \A v \in Values : /\ cand'[k][v] = "permitted" => v \in gate'
                                          /\ cand'[k][v] = "refused" => v \notin gate'
      BY <1>1, <2>0 DEF Downstream
    <2>7. inv'[k].permit => inv'[k].argv # {}
      BY <1>1, <2>0 DEF Downstream
    <2>8. inv'[k].argv # {} \/ (\E v \in Values : cand'[k][v] # "none") => Frozen(e, k)'
      BY <1>1, <2>2
    <2> QED BY <2>1, <2>3, <2>4, <2>5, <2>6, <2>7, <2>8 DEF Downstream
  <1>6. ASSUME NEW k \in Steps, Source(k) PROVE Settles(k)'
    BY <1>0, <1>1, <1>6 DEF Settles, Cited
  <1>7. Asking(e)' BY <1>1 DEF Asking
  <1>8. Filling(e)'
    <2>1. Begin(e) => at'[e] = at[e] /\ inv[at[e]].argv # {}
      <3> SUFFICES ASSUME Begin(e) PROVE at'[e] = at[e] /\ inv[at[e]].argv # {}
        OBVIOUS
      <3>1. at[e] \in Steps /\ Source(at[e]) /\ UNCHANGED at /\ inv[at[e]].phase = "pending"
        BY <1>0 DEF Begin, HandKnows
      <3> QED BY <1>0, <3>1 DEF Settles
    <2> QED BY <1>0, <1>1, <2>1 DEF Filling
  <1>9. \A k \in Steps : (IF Source(k) THEN Settles(k) ELSE Downstream(e, k))'
    BY <1>5, <1>6 DEF Source
  <1> QED BY <1>0, <1>7, <1>8, <1>9 DEF Answers, Unasked

LEMMA AskAnswers ==
    ASSUME IInv, NEW e \in Executors, Single(e), Answers(e), Ask(e)
    PROVE  Answers(e)'
  <1>0. /\ TypeOK /\ SafeShape /\ HandKnows(e) /\ NothingLeft(e) /\ Filling(e)
        /\ state' # "none" /\ Work(e)
        /\ \A k \in Steps : IF Source(k) THEN Settles(k) ELSE Downstream(e, k)
    BY Underway DEF IInv, SafeShape, Single, Answers, Work
  <1>1. /\ UNCHANGED <<inv, cand, gate, edits, faults, at, observed>>
        /\ pc[e] = "step" /\ pc'[e] = "candidates"
        /\ at[e] \in Steps /\ ~Source(at[e]) /\ inv[at[e]].phase = "pending"
        /\ asked'[e] = Subjects(e, at[e]) /\ todo'[e] = asked'[e] /\ permitted'[e] = asked'[e] \cap gate
    <2>1. /\ UNCHANGED <<inv, cand, gate, edits, faults, at, observed>>
          /\ pc[e] = "step" /\ at[e] \in Steps /\ ~Source(at[e]) /\ snap[e][at[e]].phase = "pending"
      BY DEF Ask, rowVars
    <2>2. pc'[e] = "candidates"
      BY <1>0 DEF Ask, TypeOK, Goto
    <2>3. asked'[e] = Subjects(e, at[e]) /\ todo'[e] = asked'[e] /\ permitted'[e] = asked'[e] \cap gate
      BY <1>0 DEF Ask, TypeOK
    <2> QED BY <1>0, <2>1, <2>2, <2>3 DEF HandKnows
  <1>a. PICK here \in Steps : here = at[e]
    BY <1>1
  <1>2. Frozen(e, here)'
    <2>1. \A f \in Feeds[here] : f \in Steps /\ f < here /\ f # here
      BY <1>1, FeedsAssumption DEF Steps
    <2>2. \A f \in Feeds[here] : inv'[f].phase # "pending" /\ at'[e] # f
      BY <1>0, <1>1, <1>a, <2>1 DEF NothingLeft
    <2> QED BY <2>2 DEF Frozen
  <1>3. \A k \in Steps : Fork(k)' = Fork(k) /\ Cited(k)' = Cited(k)
    BY <1>1 DEF Fork, Cited
  <1>4. ASSUME NEW k \in Steps, ~Source(k) PROVE Downstream(e, k)'
    <2>0. Downstream(e, k) BY <1>0, <1>4
    <2>1. inv'[k].argv # {} \/ AskedNow(e, k)' \/ (\E v \in Values : cand'[k][v] # "none") => Frozen(e, k)'
      BY <1>0, <1>1, <1>a, <1>2, <2>0, FrozenKept DEF Downstream, AskedNow
    <2>2. faults = 0 /\ inv[k].phase = "pending" => inv[k].argv = {} /\ \A v \in Values : cand[k][v] = "none"
      BY <1>1, <2>0 DEF Downstream, AskedNow
    <2>3. Calm' <=> Calm BY <1>1 DEF Calm
    <2> QED BY <1>1, <1>3, <2>0, <2>1, <2>2, <2>3 DEF Downstream
  <1>5. ASSUME NEW k \in Steps, Source(k) PROVE Settles(k)'
    BY <1>0, <1>1, <1>3, <1>5 DEF Settles
  <1>6. Asking(e)'
    <2>1. asked'[e] \in {Fork(here)', {}}
      BY <1>1, <1>a, <1>3 DEF Subjects, Fork
    <2>2. faults = 0 => inv[at[e]].argv = {} /\ \A v \in Values : cand[at[e]][v] = "none"
      BY <1>0, <1>1 DEF Downstream, AskedNow
    <2>3. asked'[e] \ todo'[e] = {} BY <1>1
    <2> QED BY <1>1, <1>a, <2>1, <2>2, <2>3 DEF Asking, Fork
  <1>7. Filling(e)' BY <1>0, <1>1 DEF Filling
  <1>8. \A k \in Steps : (IF Source(k) THEN Settles(k) ELSE Downstream(e, k))'
    BY <1>4, <1>5 DEF Source
  <1> QED BY <1>0, <1>6, <1>7, <1>8 DEF Answers, Unasked

LEMMA AddAnswers ==
    ASSUME IInv, NEW e \in Executors, Single(e), Answers(e), AddCandidate(e)
    PROVE  Answers(e)'
  <1>0. /\ TypeOK /\ SafeShape /\ Asking(e) /\ Filling(e) /\ pc[e] = "candidates"
        /\ state' # "none" /\ at[e] \in Steps /\ ~Source(at[e])
        /\ \A k \in Steps : IF Source(k) THEN Settles(k) ELSE Downstream(e, k)
    BY Underway DEF IInv, SafeShape, Shape, AtAStep, InHand, Answers, Work, AddCandidate, OnlyFed
  <1>a. PICK here \in Steps : here = at[e]
    BY <1>0
  <1>b. PICK v \in todo[e] : /\ cand' = [cand EXCEPT ![here] = Inserted(@, v, permitted[e])]
                             /\ todo' = [todo EXCEPT ![e] = @ \ {v}]
    BY <1>a DEF AddCandidate
  <1>1. /\ UNCHANGED <<inv, gate, edits, faults, at, observed, pc, asked, permitted>>
        /\ todo'[e] = todo[e] \ {v}
        /\ \A k \in Steps \ {here} : cand'[k] = cand[k]
        /\ v \in asked[e] /\ v \in Values /\ asked[e] \subseteq Fork(here) /\ Downstream(e, here)
        /\ \A u \in Values : cand'[here][u] =
              IF u # v \/ cand[here][u] # "none" THEN cand[here][u]
              ELSE IF v \in permitted[e] THEN "permitted" ELSE "refused"
    <2>1. UNCHANGED <<inv, gate, edits, faults, at, observed, pc, asked, permitted>>
      BY DEF AddCandidate
    <2>2. /\ todo'[e] = todo[e] \ {v} /\ \A k \in Steps \ {here} : cand'[k] = cand[k]
          /\ cand'[here] = Inserted(cand[here], v, permitted[e])
      BY <1>0, <1>b DEF TypeOK
    <2>3. v \in asked[e] /\ v \in Values /\ asked[e] \subseteq Fork(here) /\ Downstream(e, here)
      BY <1>0, <1>a, <1>b DEF Asking, TypeOK
    <2>4. \A u \in Values : Inserted(cand[here], v, permitted[e])[u] =
              IF u # v \/ cand[here][u] # "none" THEN cand[here][u]
              ELSE IF v \in permitted[e] THEN "permitted" ELSE "refused"
      BY <1>0, <2>3 DEF TypeOK, Inserted
    <2> QED BY <2>1, <2>2, <2>3, <2>4
  <1>2. \A k \in Steps : Fork(k)' = Fork(k) /\ (Frozen(e, k)' <=> Frozen(e, k))
                         /\ (AskedNow(e, k)' <=> AskedNow(e, k))
    BY <1>1 DEF Fork, Frozen, AskedNow
  <1>3. AskedNow(e, here)
    BY <1>0, <1>a DEF AskedNow
  <1>4. edits = 0 => permitted[e] = asked[e] \cap gate
    BY <1>0 DEF Asking
  <1>5. Downstream(e, here)'
    <2>1. inv'[here].argv # {} \/ AskedNow(e, here)' \/ (\E u \in Values : cand'[here][u] # "none")
             => Frozen(e, here)'
      BY <1>1, <1>2, <1>3 DEF Downstream
    <2>2. \A u \in Values : cand'[here][u] # "none" => u \in Fork(here)'
      BY <1>1, <1>2 DEF Downstream
    <2>3. inv'[here].permit => inv'[here].argv # {}
      BY <1>1 DEF Downstream
    <2>4. edits' = 0 => \A u \in Values : /\ cand'[here][u] = "permitted" => u \in gate'
                                          /\ cand'[here][u] = "refused" => u \notin gate'
      BY <1>1, <1>4 DEF Downstream
    <2>5. Calm' /\ inv'[here].phase \in Ran \cup {"pending"} /\ inv'[here].argv # {} =>
             inv'[here].argv = Cited(here)' /\ \A u \in Fork(here)' : cand'[here][u] # "none"
      <3> SUFFICES ASSUME Calm', inv'[here].phase \in Ran \cup {"pending"}, inv'[here].argv # {}
                   PROVE  /\ inv'[here].argv = Cited(here)'
                          /\ \A u \in Fork(here)' : cand'[here][u] # "none"
        OBVIOUS
      <3>1. inv[here].argv = Cited(here) /\ \A u \in Fork(here) : cand[here][u] # "none"
        BY <1>1 DEF Downstream, Calm
      <3>2. \A u \in Values : cand'[here][u] = cand[here][u]
        BY <1>1, <3>1
      <3>3. Cited(here)' = Cited(here)
        BY <3>2 DEF Cited
      <3>4. \A u \in Fork(here) : u \in Values
        BY <1>0, FeedsAssumption DEF Fork, TypeOK
      <3> QED BY <1>1, <1>2, <3>1, <3>2, <3>3, <3>4
    <2> QED BY <1>2, <1>3, <2>1, <2>2, <2>3, <2>4, <2>5 DEF Downstream
  <1>6. ASSUME NEW k \in Steps, k # here, ~Source(k) PROVE Downstream(e, k)'
    <2>1. cand'[k] = cand[k] /\ Downstream(e, k) BY <1>0, <1>1, <1>6
    <2>2. Cited(k)' = Cited(k) /\ (Calm' <=> Calm) BY <1>1, <2>1 DEF Cited, Calm
    <2> QED BY <1>1, <1>2, <2>1, <2>2 DEF Downstream
  <1>7. ASSUME NEW k \in Steps, Source(k) PROVE Settles(k)'
    <2>1. cand'[k] = cand[k] /\ Settles(k) BY <1>0, <1>1, <1>7, <1>a
    <2>2. Cited(k)' = Cited(k) BY <2>1 DEF Cited
    <2> QED BY <1>1, <2>1, <2>2 DEF Settles
  <1>8. Asking(e)'
    <2>1. asked'[e] \in {Fork(here)', {}} /\ todo'[e] \subseteq asked'[e]
      BY <1>0, <1>1, <1>2, <1>a DEF Asking
    <2>2. \A u \in asked'[e] \ todo'[e] : cand'[here][u] # "none"
      <3>1. \A u \in asked[e] : u \in Values BY <1>0 DEF TypeOK
      <3> QED BY <1>0, <1>1, <1>a, <3>1 DEF Asking
    <2>3. faults' = 0 =>
            /\ inv'[here].argv = {}
            /\ \A u \in Values : cand'[here][u] = IF u \notin asked'[e] \ todo'[e] THEN "none"
                            ELSE IF u \in permitted'[e] THEN "permitted" ELSE "refused"
      BY <1>0, <1>1, <1>a DEF Asking
    <2>4. edits' = 0 => permitted'[e] = asked'[e] \cap gate'
      BY <1>1, <1>4
    <2> QED BY <1>1, <1>a, <2>1, <2>2, <2>3, <2>4 DEF Asking
  <1>9. Filling(e)' BY <1>0, <1>1 DEF Filling
  <1>10. \A k \in Steps : (IF Source(k) THEN Settles(k) ELSE Downstream(e, k))'
    BY <1>0, <1>a, <1>5, <1>6, <1>7 DEF Source
  <1> QED BY <1>0, <1>8, <1>9, <1>10 DEF Answers, Unasked

LEMMA SaveAnswers ==
    ASSUME IInv, NEW e \in Executors, Single(e), Answers(e), Saves(e)
    PROVE  Answers(e)'
  <1>0. /\ TypeOK /\ SafeShape /\ Asking(e) /\ Filling(e) /\ Work(e) /\ HandKnows(e)
        /\ state' # "none" /\ at[e] \in Steps
        /\ \A k \in Steps : IF Source(k) THEN Settles(k) ELSE Downstream(e, k)
    BY Underway, PhaseSaved DEF IInv, SafeShape, Answers, Work, Saves, Single
  <1>a. PICK here \in Steps : here = at[e]
    BY <1>0
  <1>1. /\ UNCHANGED <<cand, gate, edits, faults, observed>> /\ pc'[e] # "candidates"
        /\ \A k \in Steps \ {here} : inv'[k] = inv[k]
        /\ pc'[e] \in {"start", "spawn"} => at'[e] = here /\ ~SaveDecision(e) /\ ~SaveEnded(e)
        /\ SaveFilled(e) => pc'[e] = "start"
    <2>1. UNCHANGED <<cand, gate, edits, faults, observed>>
      BY DEF Saves, SaveDecision, SaveFilled, SaveStarted, SaveEnded
    <2>2. CASE SaveDecision(e)
      BY <1>0, <1>a, <2>1, <2>2, PhaseSaved
      DEF SaveDecision, SaveFilled, Advance, Goto, TypeOK
    <2>3. CASE SaveFilled(e)
      BY <1>0, <1>a, <2>1, <2>3, PhaseSaved
      DEF SaveFilled, AllAdded, SaveDecision, SaveEnded, Goto, TypeOK
    <2>4. CASE SaveStarted(e)
      BY <1>0, <1>a, <2>1, <2>4, PhaseSaved
      DEF SaveFilled, SaveStarted, AllAdded, SaveDecision, SaveEnded, Goto, TypeOK
    <2>5. CASE SaveEnded(e)
      BY <1>0, <1>a, <2>1, <2>5, PhaseSaved
      DEF SaveFilled, SaveEnded, Keep, AllAdded, SaveDecision, Goto, TypeOK
    <2> QED BY <2>2, <2>3, <2>4, <2>5 DEF Saves
  <1>2. /\ \A k \in Steps : Cited(k)' = Cited(k) /\ ~AskedNow(e, k)'
        /\ Calm' <=> Calm
    BY <1>1 DEF Cited, AskedNow, Calm
  <1>3. \/ /\ SaveDecision(e) /\ inv'[here].argv = inv[here].argv
           /\ inv'[here].phase \in {"skipped", "refused"} /\ inv'[here].permit = inv[here].permit
        \/ /\ SaveStarted(e) \/ SaveEnded(e)
           /\ inv'[here].argv = inv[here].argv /\ inv[here].argv # {}
           /\ inv[here].phase \in Ran \cup {"pending"} /\ inv'[here].phase \in Ran
        \/ /\ SaveFilled(e) /\ inv[here].phase = "pending" /\ inv'[here].phase = "pending"
           /\ permitted[e] # {}
           /\ inv'[here].argv = IF inv[here].argv = {} THEN permitted[e] ELSE inv[here].argv
    <2>1. CASE SaveDecision(e)
      BY <1>a, <2>1, PhaseSaved, ArgvSaved
    <2>2. CASE SaveStarted(e)
      <3>1. inv[here].argv # {} BY <1>0, <1>a, <2>2 DEF SaveStarted, Filling
      <3> QED BY <1>a, <2>2, <3>1, PhaseSaved, ArgvSaved DEF Ran
    <2>3. CASE SaveEnded(e)
      <3>1. inv[here].phase = "running" BY <1>a, <2>3, PhaseSaved
      <3>2. inv[here].argv # {} BY <1>0, <3>1 DEF Filling, Ran
      <3> QED BY <1>a, <2>3, <3>1, <3>2, PhaseSaved, ArgvSaved DEF Ran
    <2>4. CASE SaveFilled(e)
      <3>1. permitted[e] # {} BY <2>4 DEF SaveFilled
      <3> QED BY <1>a, <2>4, <3>1, PhaseSaved, ArgvSaved
    <2> QED BY <2>1, <2>2, <2>3, <2>4 DEF Saves
  <1>4. ASSUME NEW k \in Steps, k # here, ~Source(k) PROVE Downstream(e, k)'
    <2>0. Downstream(e, k) /\ inv'[k] = inv[k] BY <1>0, <1>1, <1>4
    <2>1. ~AskedNow(e, k) /\ ~(pc[e] = "start" /\ at[e] = k) /\ ~(pc'[e] = "start" /\ at'[e] = k)
      BY <1>1, <1>4, <1>a DEF AskedNow
    <2>2. inv[k].argv # {} \/ (\E v \in Values : cand[k][v] # "none") => Frozen(e, k)' /\ Fork(k)' = Fork(k)
      BY <1>0, <2>0, FrozenKept DEF Downstream
    <2>3. Fork(k)' = Fork(k) BY <1>1 DEF Fork
    <2> QED BY <1>1, <1>2, <2>0, <2>1, <2>2, <2>3 DEF Downstream
  <1>5. ASSUME NEW k \in Steps, k # here, Source(k) PROVE Settles(k)'
    BY <1>0, <1>1, <1>2, <1>5 DEF Settles
  <1>6. Source(here) => Settles(here)'
    <2> SUFFICES ASSUME Source(here) PROVE Settles(here)'
      OBVIOUS
    <2>1. ~SaveFilled(e)
      BY <1>a DEF SaveFilled, AllAdded, IInv, OnlyFed
    <2> QED BY <1>0, <1>2, <1>3, <2>1 DEF Settles, Ran
  <1>7. ~Source(here) => Downstream(e, here)'
    <2> SUFFICES ASSUME ~Source(here) PROVE Downstream(e, here)'
      OBVIOUS
    <2>0. Downstream(e, here) /\ Fork(here)' = Fork(here) BY <1>0, <1>1 DEF Fork
    <2>1. SaveDecision(e) \/ SaveFilled(e) => AskedNow(e, here)
      BY <1>a DEF SaveDecision, SaveFilled, AllAdded, AskedNow
    <2>2. inv'[here].argv # {} \/ (\E v \in Values : cand'[here][v] # "none") => Frozen(e, here)'
      <3>1. inv[here].argv # {} \/ AskedNow(e, here) \/ (\E v \in Values : cand[here][v] # "none")
               => Frozen(e, here)'
        BY <1>0, <2>0, FrozenKept DEF Downstream
      <3> QED BY <1>1, <1>3, <2>1, <3>1
    <2>3. \A v \in Values : cand'[here][v] # "none" => v \in Fork(here)'
      BY <1>1, <2>0 DEF Downstream
    <2>4. inv'[here].permit => inv'[here].argv # {}
      BY <1>3, <2>0 DEF Downstream
    <2>5. edits' = 0 => \A v \in Values : /\ cand'[here][v] = "permitted" => v \in gate'
                                          /\ cand'[here][v] = "refused" => v \notin gate'
      BY <1>1, <2>0 DEF Downstream
    <2>6. faults' = 0 /\ inv'[here].phase = "pending" => pc'[e] = "start" /\ at'[e] = here
      BY <1>1, <1>3 DEF Ran
    <2>7. Calm' /\ inv'[here].phase \in Ran \cup {"pending"} /\ inv'[here].argv # {} =>
             inv'[here].argv = Cited(here)' /\ \A v \in Fork(here)' : cand'[here][v] # "none"
      <3> SUFFICES ASSUME Calm, inv'[here].phase \in Ran \cup {"pending"}, inv'[here].argv # {}
                   PROVE  inv'[here].argv = Cited(here) /\ \A v \in Fork(here) : cand[here][v] # "none"
        BY <1>1, <1>2, <2>0
      <3>1. CASE SaveStarted(e) \/ SaveEnded(e)
        <4>1. ~SaveFilled(e) /\ ~SaveDecision(e)
          BY <3>1 DEF SaveStarted, SaveEnded, SaveFilled, SaveDecision, AllAdded
        <4> QED BY <1>3, <2>0, <4>1 DEF Downstream
      <3>2. CASE SaveDecision(e)
        <4>1. ~SaveFilled(e) /\ ~SaveStarted(e) /\ ~SaveEnded(e)
          BY <3>2 DEF SaveStarted, SaveEnded, SaveFilled, SaveDecision, AllAdded
        <4> QED BY <1>3, <4>1 DEF Ran
      <3>3. CASE SaveFilled(e) /\ inv[here].argv # {}
        <4>1. inv'[here].argv = inv[here].argv /\ inv[here].phase = "pending"
          BY <3>3, <1>a, PhaseSaved, ArgvSaved DEF Saves
        <4> QED BY <2>0, <3>3, <4>1 DEF Downstream
      <3>4. CASE SaveFilled(e) /\ inv[here].argv = {}
        <4>1. inv'[here].argv = permitted[e]
          BY <3>4, <1>a, ArgvSaved DEF Saves
        <4>2. /\ pc[e] = "candidates" /\ todo[e] = {} /\ permitted[e] # {}
              /\ permitted[e] \subseteq asked[e]
          BY <3>4 DEF SaveFilled, AllAdded, IInv, OnlyFed
        <4>3. asked[e] = Fork(here) /\ \A v \in asked[e] : cand[here][v] # "none"
          BY <1>0, <1>a, <4>2 DEF Asking
        <4>4. asked[e] \subseteq Values BY <1>0 DEF TypeOK
        <4>5. CASE faults = 0
          <5>1. \A v \in Values : cand[here][v] = IF v \notin asked[e] THEN "none"
                            ELSE IF v \in permitted[e] THEN "permitted" ELSE "refused"
            BY <1>0, <1>a, <4>2, <4>5 DEF Asking
          <5>2. permitted[e] = Cited(here)
            BY <4>2, <4>4, <5>1 DEF Cited
          <5> QED BY <4>1, <4>3, <5>2
        <4>6. CASE edits = 0
          <5>1. permitted[e] = asked[e] \cap gate
            BY <1>0, <4>2, <4>6 DEF Asking
          <5>2. \A v \in Values : cand[here][v] \in {"none", "permitted", "refused"}
            BY <1>0 DEF TypeOK
          <5>3. \A v \in Values : cand[here][v] = "permitted" <=> v \in permitted[e]
            BY <2>0, <4>3, <4>4, <4>6, <5>1, <5>2 DEF Downstream
          <5>4. permitted[e] = Cited(here)
            BY <4>2, <4>4, <5>3 DEF Cited
          <5> QED BY <4>1, <4>3, <5>4
        <4> QED BY <4>5, <4>6 DEF Calm
      <3> QED BY <3>1, <3>2, <3>3, <3>4 DEF Saves
    <2> QED BY <1>2, <2>2, <2>3, <2>4, <2>5, <2>6, <2>7 DEF Downstream
  <1>8. Asking(e)' BY <1>1 DEF Asking
  <1>9. Filling(e)'
    <2>1. \A k \in Steps : inv'[k].phase \in Ran => inv'[k].argv # {}
      BY <1>0, <1>1, <1>3 DEF Filling, Ran
    <2>2. pc'[e] \in {"start", "spawn"} => at'[e] = here /\ inv'[here].argv # {}
      BY <1>1, <1>3
    <2> QED BY <2>1, <2>2 DEF Filling
  <1>10. \A k \in Steps : (IF Source(k) THEN Settles(k) ELSE Downstream(e, k))'
    BY <1>4, <1>5, <1>6, <1>7 DEF Source
  <1> QED BY <1>0, <1>8, <1>9, <1>10 DEF Answers, Unasked

\* A change of the rules or a failed announcement leaves the rows alone, and
\* what was said under rules that stand still is said no more.
LEMMA RestAnswers ==
    ASSUME NEW e, Answers(e), UNCHANGED <<state, inv, cand, observed, local>>,
           UNCHANGED faults \/ faults' # 0, UNCHANGED <<gate, edits>> \/ edits' # 0
    PROVE  Answers(e)'
  <1> USE DEF local
  <1>1. Calm' => Calm
    BY DEF Calm
  <1>2. Asking(e)' /\ Filling(e)' /\ Unasked'
    BY DEF Answers, Asking, Filling, Unasked, Fork
  <1>3. ASSUME NEW k \in Steps, Source(k) PROVE Settles(k)'
    BY <1>3 DEF Answers, Settles, Cited
  <1>4. ASSUME NEW k \in Steps, ~Source(k) PROVE Downstream(e, k)'
    <2>1. Downstream(e, k) BY <1>4 DEF Answers
    <2>2. Cited(k)' = Cited(k) /\ Fork(k)' = Fork(k) BY DEF Cited, Fork
    <2>3. (Frozen(e, k)' <=> Frozen(e, k)) /\ (AskedNow(e, k)' <=> AskedNow(e, k))
      BY DEF Frozen, AskedNow
    <2> QED BY <1>1, <2>1, <2>2, <2>3 DEF Downstream
  <1>5. \A k \in Steps : (IF Source(k) THEN Settles(k) ELSE Downstream(e, k))'
    BY <1>3, <1>4 DEF Source
  <1> QED BY <1>2, <1>5 DEF Answers

LEMMA StartAnswers ==
    ASSUME IInv, NEW e \in Executors, Single(e), Answers(e), Start PROVE Answers(e)'
  <1>0. TypeOK BY DEF IInv, SafeShape
  <1>1. /\ state = "none" /\ state' # "none" /\ UNCHANGED <<pc, at, gate, edits, faults>>
        /\ \A k \in Steps : inv'[k].phase \in {"pending", "skipped", "refused"}
        /\ cand' = [k \in Steps |-> IF Source(k) THEN Inserted(cand[k], Target, gate) ELSE cand[k]]
    <2>1. cand' = [k \in Steps |-> IF Source(k) THEN Inserted(cand[k], Target, gate) ELSE cand[k]]
      BY Zenon DEF Start
    <2>2. /\ state = "none" /\ state' = "running" /\ UNCHANGED <<gate, edits, faults>> /\ UNCHANGED local
      BY <1>0, StartElse
    <2> QED BY <1>0, <2>1, <2>2, PlanTyped DEF local
  <1>2. /\ pc[e] = "idle" /\ \A k \in Steps, v \in Values : cand[k][v] = "none"
    BY <1>1 DEF IInv, SafeShape, Shape, NothingYet, Answers, Unasked
  <1>3. ASSUME NEW k \in Steps, Source(k) PROVE Settles(k)'
    <2>1. inv'[k].argv = {Target} /\ (inv'[k].phase = "pending" => Target \in gate)
      BY <1>0, <1>3, PlanTyped
    <2>2. cand'[k] = Inserted(cand[k], Target, gate)
      BY <1>1, <1>3
    <2>3. \A v \in Values : cand'[k][v] = IF v # Target THEN "none"
                                          ELSE IF Target \in gate THEN "permitted" ELSE "refused"
      BY <1>0, <1>2, <2>2, TargetTyped DEF Inserted, TypeOK
    <2>4. Target \in gate => Cited(k)' = {Target}
      BY <2>3, TargetTyped DEF Cited
    <2> QED BY <1>1, <2>1, <2>4 DEF Settles, Ran
  <1>4. ASSUME NEW k \in Steps, ~Source(k) PROVE Downstream(e, k)'
    <2>1. inv'[k].argv = {} /\ ~inv'[k].permit
      BY <1>0, <1>4, PlanTyped
    <2>2. \A v \in Values : cand'[k][v] = "none"
      BY <1>1, <1>2, <1>4
    <2>3. ~AskedNow(e, k)' BY <1>1, <1>2 DEF AskedNow
    <2> QED BY <2>1, <2>2, <2>3 DEF Downstream
  <1>5. Asking(e)' /\ Filling(e)'
    BY <1>1, <1>2 DEF Asking, Filling, Ran
  <1>6. \A k \in Steps : (IF Source(k) THEN Settles(k) ELSE Downstream(e, k))'
    BY <1>3, <1>4 DEF Source
  <1> QED BY <1>1, <1>5, <1>6 DEF Answers, Unasked

LEMMA AnswersKept ==
    ASSUME NEW e \in Executors, IInv /\ Single(e) /\ Answers(e), [Next]_vars,
           \A u \in Executors \ {e} : pc[u] = "idle" /\ pc'[u] = "idle"
    PROVE  Answers(e)'
  <1>0. TypeOK BY DEF IInv, SafeShape
  <1>1. CASE Start
    BY <1>1, StartAnswers
  <1>2. CASE AnnounceStart \/ StarterDies
    <2>1. UNCHANGED faults \/ faults' # 0
      BY <1>0, <1>2, BoundsAssumption DEF AnnounceStart, StarterDies, TypeOK
    <2> QED BY <1>2, <2>1, RestAnswers DEF AnnounceStart, StarterDies
  <1>3. CASE EditScope
    <2>1. edits' # 0
      BY <1>0, <1>3, BoundsAssumption DEF EditScope, TypeOK
    <2> QED BY <1>3, <2>1, RestAnswers DEF EditScope, rowVars
  <1>4. CASE UNCHANGED vars
    BY <1>4, RestAnswers DEF vars, rowVars
  <1>5. CASE Work(e) \/ Abort(e)
    <2>1. Quiet(e) \/ Ask(e) \/ AddCandidate(e) \/ Saves(e)
      BY <1>5 DEF Work, Quiet, Saves
    <2> QED BY <1>5, <2>1, QuietAnswers, AskAnswers, AddAnswers, SaveAnswers
  <1>6. ASSUME NEW w \in Executors, Work(w) \/ Abort(w) PROVE Answers(e)'
    BY <1>0, <1>5, <1>6, IdleWakes
  <1> QED BY <1>1, <1>2, <1>3, <1>4, <1>6 DEF Next, Poll

LEMMA InitAnswers == ASSUME NEW e \in Executors, Init PROVE Answers(e)
  <1>1. /\ state = "none" /\ pc[e] = "idle"
        /\ \A k \in Steps : inv[k].phase = "none" /\ inv[k].argv = {} /\ ~inv[k].permit
        /\ \A k \in Steps, v \in Values : cand[k][v] = "none"
    BY BlankTyped DEF Init
  <1>2. Asking(e) /\ Filling(e) /\ Unasked
    BY <1>1 DEF Asking, Filling, Unasked, Ran
  <1>3. ASSUME NEW k \in Steps PROVE Settles(k) /\ Downstream(e, k)
    BY <1>1 DEF Settles, Downstream, AskedNow, Ran
  <1> QED BY <1>2, <1>3 DEF Answers

\* What is true of the executor of a run, while every other one stays away.
Lone(e) == IInv /\ Single(e) /\ Answers(e) /\ \A u \in Executors \ {e} : pc[u] = "idle"

LEMMA InitLone == ASSUME NEW e \in Executors, Init PROVE Lone(e)
  <1>1. \A u \in Executors : pc[u] = "idle" BY DEF Init
  <1> QED BY <1>1, InitIInv, InitSingle, InitAnswers DEF Lone

LEMMA LoneKept ==
    ASSUME NEW e \in Executors, Lone(e), [Next]_vars, \A u \in Executors \ {e} : pc'[u] = "idle"
    PROVE  Lone(e)'
  BY IInvKept, SingleKept, AnswersKept DEF Lone

LEMMA LoneTells ==
    ASSUME NEW e \in Executors, Lone(e)
    PROVE  SpawnedAtMostOnce /\ EveryGapIsADeath /\ CandidatesTellTheArgv
  <1>1. SpawnedAtMostOnce
    <2> SUFFICES ASSUME NEW k \in Steps PROVE spawns[k] <= 1
      BY DEF SpawnedAtMostOnce
    <2> QED BY DEF Lone, Single, RowsKnow
  <1>2. EveryGapIsADeath
    <2> SUFFICES ASSUME state = "complete"
                 PROVE  Cardinality({k \in Steps : \/ inv[k].phase \notin Terminal
                                                   \/ k \in wrote \ artifact}) <= faults
      BY DEF EveryGapIsADeath
    <2>1. /\ ~Engaged(e)
          /\ \A k \in Steps : inv[k].phase # "pending" /\ inv[k].phase # "none"
      BY DEF Lone, Single, NothingLeft, RowsKnow, Engaged
    <2>2. \A k \in Steps : inv[k].phase \notin Terminal <=> inv[k].phase = "running"
      BY <2>1 DEF Lone, IInv, SafeShape, TypeOK, Invocation, Phases, Terminal
    <2>3. {k \in Steps : inv[k].phase \notin Terminal \/ k \in wrote \ artifact} = Gaps(e)
      BY <2>1, <2>2 DEF Gaps
    <2> QED BY <2>3 DEF Lone, Single
  <1>3. CandidatesTellTheArgv
    <2> SUFFICES ASSUME Calm, NEW k \in Steps, inv[k].phase \in Ran
                 PROVE  inv[k].argv = Cited(k)
      BY DEF CandidatesTellTheArgv, Calm, Ran, Cited
    <2>1. CASE Source(k)
      BY <2>1 DEF Lone, Answers, Settles
    <2>2. CASE ~Source(k)
      <3>1. inv[k].argv # {} BY DEF Lone, Answers, Filling
      <3> QED BY <2>2, <3>1 DEF Lone, Answers, Downstream
    <2> QED BY <2>1, <2>2
  <1> QED BY <1>1, <1>2, <1>3

\* Where one executor runs, over any number of its deaths: a process is started
\* at most once per step; each step of a complete run is decided and has its
\* output stored, but for one step per death; and the permitted candidates are
\* the command line, unless both a death and a change of the rules came between.
THEOREM OneExecutor ==
    ASSUME NEW e, Executors = {e}
    PROVE  Spec => [](SpawnedAtMostOnce /\ EveryGapIsADeath /\ CandidatesTellTheArgv)
  <1>0. e \in Executors /\ \A u \in Executors : u \notin Executors \ {e}
    OBVIOUS
  <1>1. Init => Lone(e)
    BY <1>0, InitLone
  <1>2. Lone(e) /\ [Next]_vars => Lone(e)'
    BY <1>0, LoneKept
  <1>3. Lone(e) => SpawnedAtMostOnce /\ EveryGapIsADeath /\ CandidatesTellTheArgv
    BY <1>0, LoneTells
  <1> QED BY <1>1, <1>2, <1>3, PTL DEF Spec

-----------------------------------------------------------------------------
(* The composition that is model-checked: one executor that may die, or two *)
(* that do not.                                                            *)

Pipeline == IInv /\ alone \in BOOLEAN /\ (alone => Lone(w1))

LEMMA AlwaysPipeline ==
    ASSUME Executors = {w1, w2}, w1 # w2 PROVE PipelineSpec => []Pipeline
  <1>0. w1 \in Executors /\ w2 \in Executors /\ \A u \in Executors \ {w1} : u = w2
    OBVIOUS
  <1>1. PipelineInit => Pipeline
    BY <1>0, InitIInv, InitLone DEF PipelineInit, Pipeline
  <1>2. Pipeline /\ [PipelineNext]_all => Pipeline'
    <2> SUFFICES ASSUME Pipeline, [PipelineNext]_all PROVE Pipeline'
      OBVIOUS
    <2>1. [Next]_vars /\ alone' = alone
      BY DEF PipelineNext, all
    <2>2. IInv' BY <2>1, IInvKept DEF Pipeline
    <2>3. ASSUME alone PROVE Lone(w1)'
      <3>1. pc[w2] = "idle" /\ pc'[w2] = pc[w2]
        BY <1>0, <2>3
        DEF Pipeline, Lone, PipelineNext, Alone, Together, all, vars, local
      <3> QED BY <1>0, <2>1, <2>3, <3>1, LoneKept DEF Pipeline
    <2> QED BY <2>1, <2>2, <2>3 DEF Pipeline
  <1> QED BY <1>1, <1>2, PTL DEF PipelineSpec

\* Every variable keeps its type; a lone executor starts a process at most once
\* per step, and of two one finishes the run.
THEOREM OnceEachAlways ==
    ASSUME Executors = {w1, w2}, w1 # w2 PROVE PipelineSpec => []OnceEach
  <1>1. Pipeline => OnceEach
    BY LoneTells DEF Pipeline, OnceEach, IInv, SafeShape, OneFinishes
  <1> QED BY <1>1, AlwaysPipeline, PTL

\* The gaps in what a lone executor's run leaves are its deaths, and its rows
\* tell the command lines that ran.
THEOREM RowsAreAlwaysTrue ==
    ASSUME Executors = {w1, w2}, w1 # w2 PROVE PipelineSpec => []RowsAreTrue
  <1>1. Pipeline => RowsAreTrue
    BY LoneTells DEF Pipeline, RowsAreTrue
  <1> QED BY <1>1, AlwaysPipeline, PTL
=============================================================================
