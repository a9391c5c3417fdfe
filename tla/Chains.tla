------------------------------- MODULE Chains --------------------------------
(***************************************************************************)
(* The checks of a firm: the row of a check, which a version guards, and   *)
(* its chain of steps and flows, which nothing guards.  A save reads the   *)
(* check and each step's tool, validates the graph it was sent, and then   *)
(* replaces the stored one in a transaction: steps it does not keep go,    *)
(* flows all go, and its own are inserted.  Archiving a tool first asks    *)
(* which live checks use it.  No transaction waits for what another has    *)
(* read, so that requests that overlap may both stand.                     *)
(*                                                                         *)
(* One check; steps are the identifiers a client may send.  Names and      *)
(* where a step is drawn are left out.                                     *)
(***************************************************************************)
EXTENDS Naturals, Sequences, FiniteSets, Relation

CONSTANTS
    Tools,
    Deals,        \* Deals[t]: what the tool consumes and produces
    Drafts,       \* the graphs that may be sent: tool by step, and flows
    Saves,        \* the requests that save, each once
    Archivers,    \* the requests that archive a tool, each once
    Starts,       \* the requests that start a run, each once
    MaxVersion

VARIABLES
    check,        \* the row: archived, version
    tool,         \* tool[step]: the tool of a stored step
    flows,        \* the stored flows
    retired,      \* the tools archived
    job,          \* job[r]: of every request
    last,         \* the request whose graph was saved last (history)
    met           \* the pairs of requests that were at it at once (history)

vars == <<check, tool, flows, retired, job, last, met>>

Absent == [archived |-> FALSE, version |-> 0]
Nothing == "none"
NoTools == [s \in {} |-> Nothing]
Empty == [tool |-> NoTools, flows |-> {}]
Nobody == "nobody"
Idle == [step |-> "idle"]
Done == [step |-> "done"]
Requests == Saves \cup Archivers \cup Starts

\* The chain as it is read: its steps, then its flows.
StepsForCheck == tool
FlowsForCheck == flows
Stored == [tool |-> StepsForCheck, flows |-> FlowsForCheck]

TypeOK ==
    /\ check.archived \in BOOLEAN /\ check.version \in 0 .. MaxVersion + 1
    /\ \A s \in DOMAIN tool : tool[s] \in Tools
    /\ \A f \in flows : f[1] # f[2]
    /\ retired \subseteq Tools /\ last \in Saves \cup {Nobody}
    /\ \A pair \in met : pair \subseteq Requests

Init ==
    /\ check = Absent
    /\ tool = NoTools /\ flows = {} /\ retired = {}
    /\ job = [r \in Requests |-> Idle]
    /\ last = Nobody /\ met = {}

\* Those at one of these steps are at it beside r.
Meets(r, steps) == met' = met \cup {{r, q} : q \in {k \in Requests : job[k].step \in steps}}
Reading == {"checked", "pruned", "cleared"}
Writing == {"pruned", "cleared"}

-----------------------------------------------------------------------------
(* What a graph must be, and how it is walked.                             *)

Known(g) == \A f \in g.flows : {f[1], f[2]} \subseteq DOMAIN g.tool
NotToSelf(g) == \A f \in g.flows : f[1] # f[2]
Below(g) ==
    TransitiveClosure([a, b \in DOMAIN g.tool |-> <<a, b>> \in g.flows], DOMAIN g.tool)
acyclic(g) == IsIrreflexive(Below(g), DOMAIN g.tool)
Validate(g) == Known(g) /\ NotToSelf(g) /\ acyclic(g)

\* What is upstream produces what is downstream consumes, and something.
TypeLegal(g) ==
    \A f \in g.flows :
        LET from == Deals[g.tool[f[1]]].produces  to == Deals[g.tool[f[2]]].consumes
        IN from # Nothing /\ to # Nothing /\ from = to

Sources(g) == {s \in DOMAIN g.tool : \A f \in g.flows : f[2] # s}

\* The walk of the runner: a queue that starts with what nothing feeds, and
\* takes in a step when all that feed it are through.  The order in which
\* several are taken in is that of the rows.
Turn(g, at) ==
    LET next == CHOOSE s \in at.queue : TRUE
        through == {at.walked[i] : i \in DOMAIN at.walked} \cup {next}
        freed == {s \in DOMAIN g.tool \ (through \cup at.queue) :
                     \A f \in g.flows : f[2] = s => f[1] \in through}
    IN [queue |-> (at.queue \ {next}) \cup freed, walked |-> Append(at.walked, next)]
Walk(g) ==
    LET after[n \in 0 .. Cardinality(DOMAIN g.tool)] ==
            IF n = 0 THEN [queue |-> Sources(g), walked |-> <<>>]
            ELSE IF after[n - 1].queue = {} THEN after[n - 1] ELSE Turn(g, after[n - 1])
    IN after[Cardinality(DOMAIN g.tool)]
Order(g) == Walk(g).walked

-----------------------------------------------------------------------------
(* Saving it.                                                              *)

\* An archived tool is not available to a graph that is saved.
Feeds(t) == t \notin retired
CheckByID == check
Open == CheckByID # Absent /\ ~CheckByID.archived
SaveChain(g) ==
    /\ Open
    /\ \A s \in DOMAIN g.tool : Feeds(g.tool[s])
    /\ Validate(g) /\ TypeLegal(g)
saveChain(r, g) ==
    /\ r \in Saves /\ job[r] = Idle
    /\ SaveChain(g)
    /\ job' = [job EXCEPT ![r] = [step |-> "checked", graph |-> g]]
    /\ Meets(r, {"unused"})
    /\ UNCHANGED <<check, tool, flows, retired, last>>

\* The rows that each of the two statements sees: those go, when all is
\* committed, and no row that another save commits after the statement began.
DeleteStepsExcept(g) == DOMAIN tool \ DOMAIN g.tool
DeleteFlowsForCheck == flows
PruneSteps(r) ==
    /\ job[r].step = "checked"
    /\ job' = [job EXCEPT ![r] = [step |-> "pruned", graph |-> job[r].graph,
                                  steps |-> DeleteStepsExcept(job[r].graph)]]
    /\ Meets(r, Writing)
    /\ UNCHANGED <<check, tool, flows, retired, last>>
ClearFlows(r) ==
    /\ job[r].step = "pruned"
    /\ job' = [job EXCEPT ![r] = [step |-> "cleared", graph |-> job[r].graph,
                                  steps |-> job[r].steps, flows |-> DeleteFlowsForCheck]]
    /\ UNCHANGED <<check, tool, flows, retired, last, met>>

\* A step is updated or, if no row was, inserted; a flow is inserted, which
\* its key refuses if another save has inserted it meanwhile.
UpdateStep(gone, g) == (DOMAIN tool \ gone) \cap DOMAIN g.tool
InsertStep(gone, g) == DOMAIN g.tool \ UpdateStep(gone, g)
WriteSteps(gone, g) ==
    LET written == UpdateStep(gone, g) \cup InsertStep(gone, g)
    IN [s \in (DOMAIN tool \ gone) \cup written |->
           IF s \in written THEN g.tool[s] ELSE tool[s]]
InsertFlow(gone, g) == (flows \ gone) \cup g.flows
KeyFree(r) == (flows \ job[r].flows) \cap job[r].graph.flows = {}
CommitChain(r) ==
    /\ job[r].step = "cleared" /\ KeyFree(r)
    /\ tool' = WriteSteps(job[r].steps, job[r].graph)
    /\ flows' = InsertFlow(job[r].flows, job[r].graph)
    /\ last' = r
    /\ job' = [job EXCEPT ![r] = [step |-> "saved", graph |-> job[r].graph]]
    /\ UNCHANGED <<check, retired, met>>

Fails(r) ==
    /\ job[r].step \in Reading \cup {"unused", "steps"}
    /\ job' = [job EXCEPT ![r] = Done]
    /\ UNCHANGED <<check, tool, flows, retired, last, met>>

-----------------------------------------------------------------------------
(* Archiving a tool, and the row of the check.                             *)

ChecksUsingTool(t) == Open /\ \E s \in DOMAIN tool : tool[s] = t
archiveTool(r, t) ==
    /\ r \in Archivers /\ job[r] = Idle
    /\ t \notin retired /\ ~ChecksUsingTool(t)
    /\ job' = [job EXCEPT ![r] = [step |-> "unused", of |-> t]]
    /\ Meets(r, Reading)
    /\ UNCHANGED <<check, tool, flows, retired, last>>
ArchiveTool(r) ==
    /\ job[r].step = "unused" /\ job[r].of \notin retired
    /\ retired' = retired \cup {job[r].of}
    /\ job' = [job EXCEPT ![r] = [step |-> "archived", of |-> job[r].of]]
    /\ UNCHANGED <<check, tool, flows, last, met>>

\* A run that is started reads the steps and, in a statement of its own, the
\* flows; what it has read is walked if it validates, and refused otherwise.
Steps(r) ==
    /\ r \in Starts /\ job[r] = Idle
    /\ job' = [job EXCEPT ![r] = [step |-> "steps", tool |-> StepsForCheck]]
    /\ UNCHANGED <<check, tool, flows, retired, last, met>>
Plan(g) == IF Validate(g) THEN Order(g) ELSE <<>>
Flows(r) ==
    LET g == [tool |-> job[r].tool, flows |-> FlowsForCheck]
    IN /\ job[r].step = "steps"
       /\ job' = [job EXCEPT ![r] = [step |-> "planned", graph |-> g, plan |-> Plan(g)]]
       /\ UNCHANGED <<check, tool, flows, retired, last, met>>

\* The row is inserted; an edit and an archival read it and save it at the
\* version they read.
New == [archived |-> FALSE, version |-> 1]
InsertCheck(row) == check = Absent /\ check' = row
Add == InsertCheck(New)

Edited(held) == [held EXCEPT !.version = @ + 1]
Archived(held) == [held EXCEPT !.archived = TRUE, !.version = @ + 1]
UpdateCheck(row) == row.version = CheckByID.version + 1 /\ check' = row
Update == Open /\ CheckByID.version < MaxVersion /\ UpdateCheck(Edited(CheckByID))
Archive == Open /\ UpdateCheck(Archived(CheckByID))
RowMoves == (Add \/ Update \/ Archive) /\ UNCHANGED <<tool, flows, retired, job, last, met>>

Next ==
    \/ \E r \in Requests :
          \/ \E g \in Drafts : saveChain(r, g)
          \/ PruneSteps(r) \/ ClearFlows(r) \/ CommitChain(r) \/ Fails(r)
          \/ \E t \in Tools : archiveTool(r, t)
          \/ ArchiveTool(r) \/ Steps(r) \/ Flows(r)
    \/ RowMoves

Spec == Init /\ [][Next]_vars

-----------------------------------------------------------------------------
\* However saves and archivals overlap: all of the graph that was saved last
\* stands, and nothing else does but what a save wrote that was writing beside it -
\* nothing of an earlier one, and nothing of one that was refused; and a tool that
\* such a graph uses, of a live check, is archived only if whoever archived it had
\* asked who uses it while the graph was on its way.
ChainIsOneSave ==
    LET Beside(r) == {q \in Saves : job[q].step = "saved" /\ {q, r} \in met}
        written == IF last = Nobody THEN Empty ELSE job[last].graph
        Wrote(q, s) == s \in DOMAIN job[q].graph.tool /\ tool[s] = job[q].graph.tool[s]
    IN /\ written.flows \subseteq flows /\ DOMAIN written.tool \subseteq DOMAIN tool
       /\ \A s \in DOMAIN written.tool : tool[s] = written.tool[s]
       /\ \A f \in flows \ written.flows : \E q \in Beside(last) : f \in job[q].graph.flows
       /\ \A s \in DOMAIN tool \ DOMAIN written.tool : \E q \in Beside(last) : Wrote(q, s)
       /\ check.archived \/ \A s \in DOMAIN tool :
             tool[s] \in retired =>
                \E q \in Beside(last) \cup {last}, a \in Archivers :
                   Wrote(q, s) /\ job[a].step = "archived" /\ job[a].of = tool[s] /\ {a, q} \in met

\* Of steps and flows that need not be of one save, a run is planned whole or not
\* at all: each step once, and after all that feed it.
PlanIsWhole ==
    \A r \in Starts : job[r].step = "planned" /\ job[r].plan # <<>> =>
        LET plan == job[r].plan
            steps == DOMAIN job[r].graph.tool
            Nth(s) == CHOOSE i \in DOMAIN plan : plan[i] = s
        IN /\ Len(plan) = Cardinality(steps) /\ {plan[i] : i \in DOMAIN plan} = steps
           /\ \A f \in job[r].graph.flows : {f[1], f[2]} \subseteq steps /\ Nth(f[1]) < Nth(f[2])
=============================================================================
