------------------------------ MODULE Retention ------------------------------
(***************************************************************************)
(* Retained bytes: sources and their captures, the texts extracted from    *)
(* them, run artifacts and report revisions, all naming contents of one    *)
(* blob store, and the sweeps that unlink what nobody names any more.      *)
(*                                                                         *)
(* The store is a directory outside every transaction.  A writer puts the  *)
(* bytes first and commits the row that cites them later; a sweep reads an *)
(* inventory of uncited contents and removes them one by one afterwards.   *)
(* A source row is locked by a capture and by a purge from the statement   *)
(* that reads it to the commit (FOR UPDATE); an update of it waits.        *)
(***************************************************************************)
EXTENDS Naturals, FiniteSets, SequencesExt

CONSTANTS
    Contents,      \* what may be stored: equal bytes are one content
    Sources,
    Workspaces, HomeOf,
    Requests, Sweeps,
    MaxCaptures,   \* bound: captures of a source
    MaxAsked,      \* bound: requests, of any kind
    MaxPlaced      \* bound: times a content is written to disk

ASSUME ContentsAssumption == "none" \notin Contents
ASSUME HomeAssumption == HomeOf \in [Sources -> Workspaces]
ASSUME BoundsAssumption ==
    MaxCaptures \in Nat /\ MaxAsked \in Nat /\ MaxPlaced \in Nat \ {0}

VARIABLES
    state,       \* state[s]: absent, kept or purged
    due,         \* sources whose retention date has passed
    held,        \* sources under legal hold
    blocks,      \* sources whose policy refuses a duplicate
    captures,    \* captures[s]: contents by version
    texts,       \* texts[s]: outputs of its extractions
    leaned,      \* sources with extractions, observations or assistance rows
    cited,       \* contents of run artifacts and report revisions
    disk, placed,
    job,         \* what each request is about and the step it is at
    sweep,       \* sweep rows, and how far their processes have come
    told,        \* told[w][c]: the outcome sweep w recorded for c
    asked,
    crossed      \* history: contents a sweep removed under a citation that
                 \* came after its inventory

rows == <<state, due, held, blocks, captures, texts, leaned, cited>>
files == <<disk, placed>>
sweeps == <<sweep, told>>
vars == <<rows, files, job, sweeps, asked, crossed>>

Idle == [kind |-> "none"]
Writes == {"create", "capture", "extract", "lean", "cite", "purge"}
Jobs == [kind : Writes, step : {"put", "write", "commit"}, source : Sources \cup {"none"},
         content : Contents \cup {"none"}, version : Nat, eligible : BOOLEAN]
Unused == [status |-> "none", home |-> "none", step |-> "none", left |-> {}, late |-> {},
           item |-> "none", outcome |-> "none"]
Outcomes == {"deleted", "already_gone", "failed"}
SweepRows ==
    [status : {"running", "interrupted", "completed", "failed"}, home : Workspaces,
     step : {"inventory", "items", "failing", "gone"},
     left : SUBSET Contents,              \* items of its list not recorded yet
     late : SUBSET Contents,              \* history: those cited since the list was read
     item : Contents \cup {"none"}, outcome : Outcomes \cup {"none"}]

Known == {s \in Sources : state[s] # "absent"}
Purged == {s \in Sources : state[s] = "purged"}

TypeOK ==
    /\ state \in [Sources -> {"absent", "kept", "purged"}]
    /\ due \in SUBSET Known /\ held \in SUBSET Known /\ blocks \in SUBSET Known
    /\ leaned \in SUBSET Known
    /\ captures \in [Sources -> Seq(Contents)]
    /\ texts \in [Sources -> SUBSET Contents]
    /\ cited \in SUBSET Contents /\ disk \in SUBSET Contents
    /\ placed \in [Contents -> 0 .. MaxPlaced]
    /\ job \in [Requests -> {Idle} \cup Jobs]
    /\ sweep \in [Sweeps -> {Unused} \cup SweepRows]
    /\ told \in [Sweeps -> [Contents -> Outcomes \cup {"none"}]]
    /\ asked \in 0 .. MaxAsked
    /\ crossed \in SUBSET Contents

\* Some sources have been pasted and dated, and nobody is at work.
Init ==
    /\ state \in [Sources -> {"absent", "kept"}]
    /\ \E pasted \in [Sources -> Contents] :
          captures = [s \in Sources |-> IF state[s] = "kept" THEN <<pasted[s]>> ELSE <<>>]
    /\ due \in SUBSET Known
    /\ held = {} /\ blocks = {} /\ leaned = {} /\ cited = {} /\ crossed = {}
    /\ texts = [s \in Sources |-> {}]
    /\ disk = {captures[s][1] : s \in Known}
    /\ placed = [c \in Contents |-> Cardinality({c} \cap disk)]
    /\ job = [q \in Requests |-> Idle]
    /\ sweep = [w \in Sweeps |-> Unused]
    /\ told = [w \in Sweeps |-> [c \in Contents |-> "none"]]
    /\ asked = 0

Captured(s, c) == \E v \in DOMAIN captures[s] : captures[s][v] = c

\* What a record still stands for: a capture or a text of a source that was
\* not purged, an artifact, a revision.
Live(c) ==
    \/ c \in cited
    \/ \E s \in Sources \ Purged : Captured(s, c) \/ c \in texts[s]

-----------------------------------------------------------------------------
(* Rows of the source and their lock.                                      *)

\* FreeAlways: the row is read without FOR UPDATE.
FreeAlways(s) == TRUE
\* Nobody has the row: held from NextVersion or LockForPurge to the commit.
Free(s) ==
    \A q \in Requests : ~(/\ job[q].kind \in {"capture", "purge"}
                           /\ job[q].step = "commit"
                           /\ job[q].source = s)

\* TakesAll: NextVersion asks that the source exist and not that it was kept.
TakesAll(s) == state[s] # "absent"
Takes(s) == state[s] = "kept"

\* Eligible as ReviewPurge finds it, under the lock.
Eligible(s) == Takes(s) /\ s \in due /\ s \notin held /\ s \notin leaned

Edit(s) == Free(s) /\ asked < MaxAsked /\ asked' = asked + 1
EditOnly == UNCHANGED <<files, job, sweeps, crossed, state, captures, texts, leaned, cited>>

\* A date is set, taken back or put off; a purged source may have one too.
SetRetention(s) ==
    /\ s \in Known /\ Edit(s)
    /\ due' = IF s \in due THEN due \ {s} ELSE due \cup {s}
    /\ EditOnly /\ UNCHANGED <<held, blocks>>

SetPrivacy(s) ==
    /\ Takes(s) /\ Edit(s)
    /\ held' = IF s \in held THEN held \ {s} ELSE held \cup {s}
    /\ EditOnly /\ UNCHANGED <<due, blocks>>

\* SetPolicyAnywhere: the affected rows are not counted.
SetPolicyAnywhere(s) ==
    /\ Edit(s)
    /\ blocks' = IF s \in blocks THEN blocks \ {s} ELSE blocks \cup {s}
    /\ EditOnly /\ UNCHANGED <<due, held>>
SetDuplicatePolicy(s) ==
    /\ Takes(s) /\ Edit(s)
    /\ blocks' = IF s \in blocks THEN blocks \ {s} ELSE blocks \cup {s}
    /\ EditOnly /\ UNCHANGED <<due, held>>

-----------------------------------------------------------------------------
(* Writers.                                                                *)

Begin(q, kind, step, s, c) ==
    /\ job[q] = Idle /\ asked < MaxAsked /\ asked' = asked + 1
    /\ job' = [job EXCEPT ![q] = [kind |-> kind, step |-> step, source |-> s, content |-> c,
                                  version |-> 0, eligible |-> kind = "purge" /\ Eligible(s)]]
    /\ UNCHANGED <<rows, files, sweeps, crossed>>

\* Retained refuses a purged source, and reads the bytes of a capture.
Retained(s) == state[s] = "kept" /\ \E c \in disk : Captured(s, c)

\* Identifiers are fresh: nobody else makes s.
Create(q, s) ==
    /\ state[s] = "absent" /\ \A p \in Requests : job[p].kind = "create" => job[p].source # s
    /\ \/ Begin(q, "create", "write", s, "none")          \* a reference, without bytes
       \/ \E c \in Contents : Begin(q, "create", "put", s, c)
AddCapture(q, s) == s \in Known /\ \E c \in Contents : Begin(q, "capture", "put", s, c)
\* A text, or a row that says why there is none.
Extract(q, s) ==
    /\ Retained(s)
    /\ \/ Begin(q, "extract", "write", s, "none")
       \/ \E c \in Contents : Begin(q, "extract", "put", s, c)
Lean(q, s) == Retained(s) /\ Begin(q, "lean", "write", s, "none")
Cite(q) == \E c \in Contents : Begin(q, "cite", "put", "none", c)

\* Bytes already there are not written again: the name is the hash.
Put(q) ==
    /\ job[q].kind # "none" /\ job[q].step = "put"
    /\ LET c == job[q].content IN
       IF c \in disk
       THEN UNCHANGED <<files, crossed>>
       ELSE /\ placed[c] < MaxPlaced
            /\ disk' = disk \cup {c}
            /\ placed' = [placed EXCEPT ![c] = @ + 1]
            /\ crossed' = crossed \ {c}
    /\ job' = [job EXCEPT ![q].step = "write"]
    /\ UNCHANGED <<rows, sweeps, asked>>

\* NextVersion, or ErrPurged: the bytes stay on disk, uncited.
NextVersion(q) ==
    /\ job[q].kind = "capture" /\ job[q].step = "write"
    /\ LET s == job[q].source IN
       IF Takes(s)
       THEN /\ Free(s) /\ Len(captures[s]) < MaxCaptures
            /\ job' = [job EXCEPT ![q].step = "commit", ![q].version = Len(captures[s]) + 1]
       ELSE job' = [job EXCEPT ![q] = Idle]
    /\ UNCHANGED <<rows, files, sweeps, asked, crossed>>

\* A sweep under way that means to remove what is cited only now is too late.
Cites(c) ==
    sweep' = [w \in Sweeps |-> IF c \in sweep[w].left
                               THEN [sweep[w] EXCEPT !.late = @ \cup {c}]
                               ELSE sweep[w]]

\* RefusedByVersion: the policy is not asked under the lock.
RefusedByVersion(q) == job[q].version # Len(captures[job[q].source]) + 1
\* rejectDuplicate, and unique (source_id, version).
Refused(q) ==
    \/ job[q].source \in blocks /\ Captured(job[q].source, job[q].content)
    \/ job[q].version # Len(captures[job[q].source]) + 1

CommitCapture(q) ==
    /\ job[q].kind = "capture" /\ job[q].step = "commit"
    /\ IF Refused(q)
       THEN UNCHANGED <<rows, sweep>>
       ELSE /\ captures' = [captures EXCEPT ![job[q].source] = Append(@, job[q].content)]
            /\ Cites(job[q].content)
            /\ UNCHANGED <<state, due, held, blocks, texts, leaned, cited>>
    /\ job' = [job EXCEPT ![q] = Idle]
    /\ UNCHANGED <<files, told, asked, crossed>>

CommitCreate(q) ==
    /\ job[q].kind = "create" /\ job[q].step = "write"
    /\ LET s == job[q].source
           c == job[q].content IN
       /\ state' = [state EXCEPT ![s] = "kept"]
       /\ captures' = [captures EXCEPT ![s] = IF c = "none" THEN <<>> ELSE <<c>>]
       /\ Cites(c)
    /\ job' = [job EXCEPT ![q] = Idle]
    /\ UNCHANGED <<due, held, blocks, texts, leaned, cited, files, told, asked, crossed>>

\* The insert asks nothing of the source but its key, which waits for the lock.
CommitExtract(q) ==
    /\ job[q].kind = "extract" /\ job[q].step = "write"
    /\ LET s == job[q].source IN
       /\ Free(s)
       /\ texts' = [texts EXCEPT ![s] = @ \cup ({job[q].content} \ {"none"})]
       /\ leaned' = leaned \cup {s}
    /\ Cites(job[q].content)
    /\ job' = [job EXCEPT ![q] = Idle]
    /\ UNCHANGED <<state, due, held, blocks, captures, cited, files, told, asked, crossed>>

\* An observation's row has no foreign key: it waits for nobody.
CommitLean(q) ==
    /\ job[q].kind = "lean" /\ job[q].step = "write"
    /\ leaned' = leaned \cup {job[q].source}
    /\ job' = [job EXCEPT ![q] = Idle]
    /\ UNCHANGED <<state, due, held, blocks, captures, texts, cited, files, sweeps, asked, crossed>>

CommitCite(q) ==
    /\ job[q].kind = "cite" /\ job[q].step = "write"
    /\ cited' = cited \cup {job[q].content}
    /\ Cites(job[q].content)
    /\ job' = [job EXCEPT ![q] = Idle]
    /\ UNCHANGED <<state, due, held, blocks, captures, texts, leaned, files, told, asked, crossed>>

\* LockForPurge and ReviewPurge; MarkPurged and the commit.
Purge(q, s) == s \in Known /\ Free(s) /\ Begin(q, "purge", "commit", s, "none")
MarkPurged(q) ==
    /\ job[q].kind = "purge"
    /\ state' = IF job[q].eligible THEN [state EXCEPT ![job[q].source] = "purged"] ELSE state
    /\ job' = [job EXCEPT ![q] = Idle]
    /\ UNCHANGED <<due, held, blocks, captures, texts, leaned, cited, files, sweeps, asked, crossed>>

\* A request fails or its process dies: the transaction is undone, the bytes stay.
GivesUp(q) ==
    /\ job[q] # Idle
    /\ job' = [job EXCEPT ![q] = Idle]
    /\ UNCHANGED <<rows, files, sweeps, asked, crossed>>

-----------------------------------------------------------------------------
(* Sweeps.                                                                 *)

\* StartSweep interrupts the workspace's running rows, but for one that is
\* being started at the same time and was not committed when it looked.
StartSweep(w, h) ==
    /\ sweep[w] = Unused
    /\ \E seen \in SUBSET {v \in Sweeps : sweep[v].status = "running" /\ sweep[v].home = h} :
       /\ \A v \in Sweeps \ seen :
             sweep[v].status = "running" /\ sweep[v].home = h => sweep[v].step = "inventory"
       /\ sweep' = [v \in Sweeps |->
                      IF v = w THEN [status |-> "running", home |-> h, step |-> "inventory",
                                     left |-> {}, late |-> {}, item |-> "none",
                                     outcome |-> "none"]
                      ELSE IF v \in seen THEN [sweep[v] EXCEPT !.status = "interrupted"]
                      ELSE sweep[v]]
    /\ UNCHANGED <<rows, files, job, told, asked, crossed>>

\* CandidateHere: only the workspace's own sources are asked.
CandidateHere(h, c) ==
    /\ \E s \in Purged : HomeOf[s] = h /\ (Captured(s, c) \/ c \in texts[s])
    /\ \A s \in Sources \ Purged : HomeOf[s] = h => ~Captured(s, c) /\ c \notin texts[s]
    /\ c \notin cited
\* Named by a purged source of the workspace and by nothing that lives, anywhere.
Candidate(h, c) ==
    /\ \E s \in Purged : HomeOf[s] = h /\ (Captured(s, c) \/ c \in texts[s])
    /\ ~Live(c)

\* One statement; the limit and the reviewer's selection leave a part of it.
Inventory(w) ==
    /\ sweep[w].step = "inventory"
    /\ \E list \in SUBSET {c \in Contents : Candidate(sweep[w].home, c)} :
          sweep' = [sweep EXCEPT ![w].step = "items", ![w].left = list]
    /\ UNCHANGED <<rows, files, job, told, asked, crossed>>

\* Bytes put for a row that is not committed yet.
Pending(c) == \E q \in Requests : job[q].kind \in Writes /\ job[q].content = c
                                  /\ job[q].step \in {"write", "commit"}

Outcome(c) == IF c \in disk THEN "deleted" ELSE "already_gone"

\* Stat, Verify and Remove of an item: they agree on a file that is missing.
\* Storage may fail, and says so.
Unlink(w) ==
    /\ sweep[w].step = "items" /\ sweep[w].outcome = "none"
    /\ \E c \in sweep[w].left :
       \/ /\ sweep' = [sweep EXCEPT ![w].item = c, ![w].outcome = Outcome(c)]
          /\ disk' = disk \ {c}
          /\ crossed' = IF c \in sweep[w].late \/ Pending(c) THEN crossed \cup {c} ELSE crossed
       \/ /\ sweep' = [sweep EXCEPT ![w].item = c, ![w].outcome = "failed"]
          /\ UNCHANGED <<disk, crossed>>
    /\ UNCHANGED <<rows, placed, job, told, asked>>

\* RecordSweepItem, after which a failure ends the sweep.
Record(w) ==
    /\ sweep[w].step = "items" /\ sweep[w].outcome # "none"
    /\ told' = [told EXCEPT ![w][sweep[w].item] = sweep[w].outcome]
    /\ sweep' = [sweep EXCEPT ![w].item = "none", ![w].outcome = "none",
                              ![w].left = @ \ {sweep[w].item},
                              ![w].step = IF sweep[w].outcome = "failed" THEN "failing" ELSE @]
    /\ UNCHANGED <<rows, files, job, asked, crossed>>

\* FinishAnyway: the loop goes on after an item that failed.
FinishAnyway(w) ==
    /\ sweep[w].step \in {"items", "failing"} /\ sweep[w].left = {}
    /\ sweep' = [sweep EXCEPT ![w].status = "completed", ![w].step = "gone", ![w].late = {}]
    /\ UNCHANGED <<rows, files, job, told, asked, crossed>>
\* The row is completed by its id, also one that a later sweep interrupted.
FinishSweep(w) ==
    /\ sweep[w].step = "items" /\ sweep[w].left = {}
    /\ sweep' = [sweep EXCEPT ![w].status = "completed", ![w].step = "gone", ![w].late = {}]
    /\ UNCHANGED <<rows, files, job, told, asked, crossed>>

Stops(w, status) ==
    /\ sweep[w].step \in {"inventory", "items", "failing"}
    /\ sweep' = [sweep EXCEPT ![w] = [Unused EXCEPT !.status = status, !.home = sweep[w].home,
                                                    !.step = "gone"]]
    /\ UNCHANGED <<rows, files, job, told, asked, crossed>>
\* Any statement fails; only a row that is still running is marked.
FailSweep(w) == Stops(w, IF sweep[w].status = "running" THEN "failed" ELSE sweep[w].status)
\* The row stays as it is, until a later sweep finds it running.
SweepDies(w) == Stops(w, sweep[w].status)

-----------------------------------------------------------------------------
Next ==
    \/ \E s \in Sources : SetRetention(s) \/ SetPrivacy(s) \/ SetDuplicatePolicy(s)
    \/ \E q \in Requests :
       \/ \E s \in Sources : Create(q, s) \/ AddCapture(q, s) \/ Extract(q, s) \/ Lean(q, s)
                             \/ Purge(q, s)
       \/ Cite(q) \/ Put(q) \/ NextVersion(q) \/ CommitCapture(q) \/ CommitCreate(q)
       \/ CommitExtract(q) \/ CommitLean(q) \/ CommitCite(q) \/ MarkPurged(q) \/ GivesUp(q)
    \/ \E w \in Sweeps :
       \/ \E h \in Workspaces : StartSweep(w, h)
       \/ Inventory(w) \/ Unlink(w) \/ Record(w) \/ FinishSweep(w) \/ FailSweep(w) \/ SweepDies(w)

Spec == Init /\ [][Next]_vars

-----------------------------------------------------------------------------
(* Properties.                                                             *)

\* Sweeps never take bytes that a record stands for, whichever workspace has
\* them: the one way to lose a live content is that its citation and a sweep
\* crossed, the row committed after the inventory was read, or after the
\* removal of bytes it was put on before.
LossIsARace == \A c \in Contents : Live(c) => c \in disk \cup crossed

\* A legal hold and a purge never meet, also when they are asked for together.
HoldsAreKept == held \cap Purged = {}

\* A purge is final: no step gives a purged source a version or takes the
\* purge back, however long ago the bytes of that version were put.
PurgedForGood ==
    [][\A s \in Purged : state'[s] = "purged" /\ captures'[s] = captures[s]]_vars

\* A source that refuses duplicates takes no content it has, and a version
\* once given keeps its content, however many captures arrive together.
NoTwinUnderBlock ==
    [][\A s \in Sources :
          /\ IsPrefix(captures[s], captures'[s])
          /\ s \in blocks /\ captures'[s] # captures[s]
                => ~Captured(s, Last(captures'[s]))]_vars

Deletions(c) == Cardinality({w \in Sweeps : told[w][c] = "deleted"})
\* The ledger is right about the disk: over all sweeps, however they overlap,
\* a content is told deleted once for each time it was written and removed,
\* and a sweep is completed only with every item of its list accounted for.
LedgerIsTrue ==
    /\ \A c \in Contents : Deletions(c) + Cardinality({c} \cap disk) <= placed[c]
    /\ \A w \in Sweeps : sweep[w].status = "completed"
          => sweep[w].left = {} /\ \A c \in Contents : told[w][c] # "failed"

-----------------------------------------------------------------------------
\* For the run: every source has a workspace of its own, named as it is.
OwnHomes == [s \in Sources |-> s]
Symmetry == Permutations(Sources) \cup Permutations(Requests) \cup Permutations(Sweeps)
=============================================================================
