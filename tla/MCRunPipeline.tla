--------------------------- MODULE MCRunPipeline ---------------------------
(***************************************************************************)
(* A source step that feeds a second one, over the target and one subject. *)
(* A behaviour has either one executor, which may die and whose rules may  *)
(* change, or two that do not: what a death leaves half done and what two  *)
(* executors do to one run are followed apart.                             *)
(***************************************************************************)
EXTENDS RunPipeline, TLC
CONSTANTS host, sub, w1, w2

Short == 2
ShortFeeds == <<{}, {1}>>

VARIABLE alone
all == <<vars, alone>>

Alone == alone /\ pc'[w2] = pc[w2]

\* No step asks how a process ended: of two executors, those that print something
\* end well and the others do not.
EndsAsItPrinted(w) ==
    pc'[w] # pc[w] => /\ pc[w] = "wrote" => inv'[at[w]].phase = "ok"
                      /\ pc[w] = "silent" => inv'[at[w]].phase = "failed"
Together ==
    ~alone /\ faults' = 0 /\ edits' = 0 /\ \A w \in Executors : EndsAsItPrinted(w)

PipelineInit == Init /\ alone \in BOOLEAN
PipelineNext == Next /\ (Alone \/ Together) /\ UNCHANGED alone
PipelineSpec ==
    /\ PipelineInit /\ [][PipelineNext]_all
    /\ WF_all(alone /\ Work(w1) /\ UNCHANGED alone)

AloneSpec == alone = TRUE /\ PipelineSpec

-----------------------------------------------------------------------------
\* Of one executor, whatever it died of: a process is started once a step.
\* Of two that hold one run together: it is finished once.
OnceEach == TypeOK /\ IF alone THEN SpawnedAtMostOnce ELSE FinishedOnce

\* Of one executor: the gaps in a complete run are its deaths, and a row that
\* ran tells its command line.
RowsAreTrue == alone => EveryGapIsADeath /\ CandidatesTellTheArgv

\* A run that was started completes, however often its executor died, while
\* the scope rules stand still.
RunsComplete ==
    alone /\ state = "running" /\ edits = 0 ~> state = "complete" \/ edits > 0

\* run.sql: a worker that dies mid-run leaves the row to the next boot rather
\* than losing it, and claiming a run is what finishes it.
RunIsNotLost == alone /\ state = "running" ~> state = "complete"
=============================================================================
