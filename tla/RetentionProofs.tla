-------------------------- MODULE RetentionProofs --------------------------
(***************************************************************************)
(* For any number of sources, contents, requests and sweeps: the state is  *)
(* well typed; a hold and a purge never meet; a purge is final; the bytes  *)
(* of a live record are lost only where its citation and a sweep crossed;  *)
(* the ledger of the sweeps is right about the disk; and a source that     *)
(* blocks duplicates is given none.                                        *)
(*                                                                         *)
(* That no live bytes are lost is the argument the cleanup rests on.  Two  *)
(* facts carry it: a content in a sweep's list that nobody has cited since *)
(* the list was read is cited by nobody, and a request that has put its    *)
(* bytes finds them on disk or crossed.  The ledger needs the removals     *)
(* that are not recorded yet counted with those that are (Gone), and the   *)
(* versions need nothing more than that an absent source has none.         *)
(***************************************************************************)
EXTENDS Retention, FiniteSetTheorems, TLAPS

Holds(q) == job[q].kind \in {"capture", "purge"} /\ job[q].step = "commit"

\* What each kind of request is about.
Fits(q) ==
    job[q] # Idle =>
      /\ job[q].step = "put" \/ job[q].kind \in {"capture", "cite"} => job[q].content \in Contents
      /\ job[q].kind \in {"capture", "extract", "lean", "purge"} => job[q].source \in Known
      /\ job[q].kind = "create" => job[q].source \in Sources \ Known
      /\ job[q].step = "commit" => job[q].kind \in {"capture", "purge"}
      /\ job[q].kind = "purge" => job[q].step = "commit" /\ job[q].content = "none"
      /\ job[q].eligible => job[q].kind = "purge"
AllFit == \A q \in Requests : Fits(q)

FreshIsOnce ==
    \A p, q \in Requests :
       p # q /\ job[p].kind = "create" /\ job[q].kind = "create" => job[p].source # job[q].source

LocksAreApart ==
    \A p, q \in Requests : p # q /\ Holds(p) /\ Holds(q) => job[p].source # job[q].source

\* Under the lock the source stays as it was found.
LockedIsKept ==
    \A q \in Requests :
       /\ Holds(q) /\ job[q].kind = "capture" => state[job[q].source] = "kept"
       /\ Holds(q) /\ job[q].eligible => /\ state[job[q].source] = "kept"
                                         /\ job[q].source \notin held

Orderly == AllFit /\ FreshIsOnce /\ LocksAreApart /\ LockedIsKept

PutIsPlaced ==
    \A q \in Requests :
       job[q].kind # "none" /\ job[q].step \in {"write", "commit"} /\ job[q].content \in Contents
          => job[q].content \in disk \cup crossed

ListedIsDead == \A w \in Sweeps : \A c \in sweep[w].left \ sweep[w].late : ~Live(c)

IInv ==
    /\ TypeOK /\ Orderly /\ HoldsAreKept
    /\ PutIsPlaced /\ ListedIsDead /\ LossIsARace

-----------------------------------------------------------------------------
(* What a job is, and what the steps make of it.                           *)

LEMMA JobKinds ==
    ASSUME TypeOK, NEW q \in Requests
    PROVE  /\ job[q] # Idle <=> job[q] \in Jobs
           /\ job[q] # Idle <=> job[q].kind # "none"
  <1>1. job[q] \in {Idle} \cup Jobs BY DEF TypeOK
  <1>2. Idle.kind = "none" BY DEF Idle
  <1>3. \A j \in Jobs : j.kind # "none" BY DEF Jobs, Writes
  <1> QED BY <1>1, <1>2, <1>3

LEMMA Ends ==
    ASSUME TypeOK, NEW q \in Requests, job' = [job EXCEPT ![q] = Idle]
    PROVE  /\ job' \in [Requests -> {Idle} \cup Jobs]
           /\ job'[q].kind = "none" /\ job'[q] = Idle
           /\ \A p \in Requests \ {q} : job'[p] = job[p]
  BY DEF TypeOK, Idle

LEMMA GoesOn ==
    ASSUME TypeOK, NEW q \in Requests, job[q] # Idle, NEW t \in {"write", "commit"},
           NEW v \in Nat,
           \/ job' = [job EXCEPT ![q].step = t]
           \/ job' = [job EXCEPT ![q].step = t, ![q].version = v]
    PROVE  /\ job' \in [Requests -> {Idle} \cup Jobs]
           /\ job'[q] # Idle
           /\ job'[q].step = t
           /\ job'[q].kind = job[q].kind /\ job'[q].source = job[q].source
           /\ job'[q].content = job[q].content /\ job'[q].eligible = job[q].eligible
           /\ \A p \in Requests \ {q} : job'[p] = job[p]
  <1>1. job[q] \in Jobs /\ job \in [Requests -> {Idle} \cup Jobs] BY JobKinds DEF TypeOK
  <1>2. job'[q] \in Jobs /\ job'[q].step = t
        /\ job'[q].kind = job[q].kind /\ job'[q].source = job[q].source
        /\ job'[q].content = job[q].content /\ job'[q].eligible = job[q].eligible
    BY <1>1 DEF Jobs
  <1>3. \A p \in Requests \ {q} : job'[p] = job[p] BY <1>1
  <1>4. job' \in [Requests -> {Idle} \cup Jobs] BY <1>1, <1>2, <1>3
  <1>5. job'[q] # Idle
    <2>1. Idle.kind = "none" BY DEF Idle
    <2> QED BY <1>2, <2>1 DEF Jobs, Writes
  <1> QED BY <1>2, <1>3, <1>4, <1>5

LEMMA Begins ==
    ASSUME TypeOK, NEW q \in Requests,
           NEW kind \in Writes, NEW step \in {"put", "write", "commit"},
           NEW s \in Sources \cup {"none"}, NEW c \in Contents \cup {"none"},
           Begin(q, kind, step, s, c)
    PROVE  /\ job' \in [Requests -> {Idle} \cup Jobs]
           /\ job'[q] # Idle
           /\ job'[q].kind = kind /\ job'[q].step = step
           /\ job'[q].source = s /\ job'[q].content = c
           /\ job'[q].eligible = (kind = "purge" /\ Eligible(s))
           /\ \A p \in Requests \ {q} : job'[p] = job[p]
  <1> DEFINE j == [kind |-> kind, step |-> step, source |-> s, content |-> c, version |-> 0,
                   eligible |-> kind = "purge" /\ Eligible(s)]
  <1>1. job' = [job EXCEPT ![q] = j] /\ job \in [Requests -> {Idle} \cup Jobs]
    BY DEF Begin, TypeOK
  <1>2. (kind = "purge" /\ Eligible(s)) \in BOOLEAN BY DEF Eligible, Takes
  <1>3. j \in Jobs BY <1>2 DEF Jobs
  <1>4. j.kind = kind /\ j.step = step /\ j.source = s /\ j.content = c OBVIOUS
  <1>5. j.eligible = (kind = "purge" /\ Eligible(s)) OBVIOUS
  <1>6. j # Idle
    <2>1. Idle.kind = "none" BY DEF Idle
    <2> QED BY <1>4, <2>1 DEF Writes
  <1> HIDE DEF j
  <1>7. job'[q] = j /\ \A p \in Requests \ {q} : job'[p] = job[p] BY <1>1
  <1>8. job' \in [Requests -> {Idle} \cup Jobs] BY <1>1, <1>3
  <1> QED BY <1>4, <1>5, <1>6, <1>7, <1>8

\* Fields of a sweep's row may be set one by one.
LEMMA SweepFields ==
    ASSUME TypeOK, NEW w \in Sweeps, sweep[w] # Unused
    PROVE  /\ sweep[w] \in SweepRows
           /\ sweep[w].left \in SUBSET Contents /\ sweep[w].late \in SUBSET Contents
           /\ sweep[w].item \in Contents \cup {"none"}
           /\ sweep[w].outcome \in Outcomes \cup {"none"}
           /\ sweep[w].status \in {"running", "interrupted", "completed", "failed"}
           /\ sweep[w].home \in Workspaces
  <1>1. sweep[w] \in SweepRows BY DEF TypeOK
  <1> QED BY <1>1 DEF SweepRows

\* Citing a content changes nothing of a sweep but what it comes too late for.
LEMMA CitesMarks ==
    ASSUME TypeOK, NEW c, Cites(c)
    PROVE  /\ sweep' \in [Sweeps -> {Unused} \cup SweepRows]
           /\ \A w \in Sweeps : sweep'[w].left = sweep[w].left
           /\ \A w \in Sweeps : sweep'[w].left \ sweep'[w].late
                                   = (sweep[w].left \ sweep[w].late) \ {c}
  <1>1. ASSUME NEW w \in Sweeps
        PROVE  /\ sweep'[w] \in {Unused} \cup SweepRows
               /\ sweep'[w].left = sweep[w].left
               /\ sweep'[w].left \ sweep'[w].late = (sweep[w].left \ sweep[w].late) \ {c}
    <2>1. CASE c \in sweep[w].left
      <3>1. sweep[w] # Unused BY <2>1 DEF Unused
      <3>2. sweep'[w] = [sweep[w] EXCEPT !.late = @ \cup {c}] BY <2>1 DEF Cites
      <3>3. sweep[w] \in SweepRows /\ c \in Contents BY <2>1, <3>1, SweepFields
      <3>4. /\ sweep'[w] \in SweepRows /\ sweep'[w].left = sweep[w].left
            /\ sweep'[w].late = sweep[w].late \cup {c}
        BY <3>2, <3>3 DEF SweepRows
      <3> QED BY <3>4
    <2>2. CASE c \notin sweep[w].left
      <3>1. sweep'[w] = sweep[w] BY <2>2 DEF Cites
      <3> QED BY <2>2, <3>1 DEF TypeOK
    <2> QED BY <2>1, <2>2
  <1>2. sweep' = [w \in Sweeps |-> sweep'[w]] BY DEF Cites
  <1> QED BY <1>1, <1>2

-----------------------------------------------------------------------------
(* Types.                                                                  *)

RowsOK ==
    /\ state \in [Sources -> {"absent", "kept", "purged"}]
    /\ due \in SUBSET Known /\ held \in SUBSET Known /\ blocks \in SUBSET Known
    /\ leaned \in SUBSET Known
    /\ captures \in [Sources -> Seq(Contents)]
    /\ texts \in [Sources -> SUBSET Contents]
    /\ cited \in SUBSET Contents
FilesOK ==
    /\ disk \in SUBSET Contents /\ crossed \in SUBSET Contents
    /\ placed \in [Contents -> 0 .. MaxPlaced]
JobsOK == job \in [Requests -> {Idle} \cup Jobs]
SweepsOK ==
    /\ sweep \in [Sweeps -> {Unused} \cup SweepRows]
    /\ told \in [Sweeps -> [Contents -> Outcomes \cup {"none"}]]

LEMMA TypeParts == TypeOK <=> RowsOK /\ FilesOK /\ JobsOK /\ SweepsOK /\ asked \in 0 .. MaxAsked
  BY DEF TypeOK, RowsOK, FilesOK, JobsOK, SweepsOK

LEMMA TypePartsNext == RowsOK' /\ FilesOK' /\ JobsOK' /\ SweepsOK' /\ asked' \in 0 .. MaxAsked => TypeOK'
  BY DEF TypeOK, RowsOK, FilesOK, JobsOK, SweepsOK

LEMMA RowsFrame == RowsOK /\ UNCHANGED rows => RowsOK'
  BY DEF RowsOK, rows, Known
LEMMA FilesFrame == FilesOK /\ UNCHANGED <<files, crossed>> => FilesOK'
  BY DEF FilesOK, files
LEMMA SweepsFrame == SweepsOK /\ UNCHANGED sweeps => SweepsOK'
  BY DEF SweepsOK, sweeps

LEMMA EditType ==
    ASSUME TypeOK, NEW s \in Sources,
           SetRetention(s) \/ SetPrivacy(s) \/ SetDuplicatePolicy(s)
    PROVE  TypeOK'
  <1>1. /\ UNCHANGED <<files, job, sweeps, crossed, state, captures, texts, leaned, cited>>
        /\ asked < MaxAsked /\ asked' = asked + 1 /\ s \in Known
    BY DEF SetRetention, SetPrivacy, SetDuplicatePolicy, Edit, EditOnly, Takes, Known
  <1>2. /\ due' \in {due, due \ {s}, due \cup {s}}
        /\ held' \in {held, held \ {s}, held \cup {s}}
        /\ blocks' \in {blocks, blocks \ {s}, blocks \cup {s}}
    BY DEF SetRetention, SetPrivacy, SetDuplicatePolicy
  <1>3. RowsOK'
    <2>1. Known' = Known BY <1>1 DEF Known
    <2>2. due' \in SUBSET Known /\ held' \in SUBSET Known /\ blocks' \in SUBSET Known
      BY <1>1, <1>2 DEF TypeOK
    <2> QED BY <1>1, <2>1, <2>2 DEF TypeOK, RowsOK
  <1>4. FilesOK' /\ SweepsOK' BY <1>1, TypeParts, FilesFrame, SweepsFrame
  <1>5. JobsOK' BY <1>1, TypeParts DEF JobsOK
  <1>6. asked' \in 0 .. MaxAsked BY <1>1, BoundsAssumption DEF TypeOK
  <1> QED BY <1>3, <1>4, <1>5, <1>6, TypePartsNext

LEMMA BeginType ==
    ASSUME TypeOK, NEW q \in Requests,
           NEW kind \in Writes, NEW step \in {"put", "write", "commit"},
           NEW s \in Sources \cup {"none"}, NEW c \in Contents \cup {"none"},
           Begin(q, kind, step, s, c)
    PROVE  TypeOK'
  <1>1. JobsOK' BY Begins DEF JobsOK
  <1>2. UNCHANGED <<rows, files, sweeps, crossed>> /\ asked < MaxAsked /\ asked' = asked + 1
    BY DEF Begin
  <1>3. asked' \in 0 .. MaxAsked BY <1>2, BoundsAssumption DEF TypeOK
  <1> QED BY <1>1, <1>2, <1>3, TypeParts, TypePartsNext, RowsFrame, FilesFrame, SweepsFrame

LEMMA PutType == ASSUME TypeOK, AllFit, NEW q \in Requests, Put(q) PROVE TypeOK'
  <1>1. job[q] # Idle /\ job[q].content \in Contents
    BY JobKinds DEF Put, AllFit, Fits
  <1>2. JobsOK' BY <1>1, GoesOn DEF Put, JobsOK
  <1>3. FilesOK'
    <2>1. CASE job[q].content \in disk BY <2>1, TypeParts, FilesFrame DEF Put
    <2>2. CASE job[q].content \notin disk
      <3>1. /\ placed[job[q].content] < MaxPlaced
            /\ disk' = disk \cup {job[q].content}
            /\ placed' = [placed EXCEPT ![job[q].content] = @ + 1]
            /\ crossed' = crossed \ {job[q].content}
        BY <2>2 DEF Put
      <3>2. placed[job[q].content] + 1 \in 0 .. MaxPlaced
        BY <1>1, <3>1, BoundsAssumption DEF TypeOK
      <3>3. placed' \in [Contents -> 0 .. MaxPlaced] BY <1>1, <3>1, <3>2 DEF TypeOK
      <3> QED BY <1>1, <3>1, <3>3 DEF FilesOK, TypeOK
    <2> QED BY <2>1, <2>2
  <1>4. UNCHANGED <<rows, sweeps, asked>> BY DEF Put
  <1> QED BY <1>2, <1>3, <1>4, TypeParts, TypePartsNext, RowsFrame, SweepsFrame

\* A step that ends a job and changes rows.
LEMMA CommitType ==
    ASSUME TypeOK, NEW q \in Requests, job' = [job EXCEPT ![q] = Idle],
           RowsOK', SweepsOK', UNCHANGED <<files, asked, crossed>>
    PROVE  TypeOK'
  <1>1. JobsOK' BY Ends DEF JobsOK
  <1>2. asked' \in 0 .. MaxAsked BY DEF TypeOK
  <1> QED BY <1>1, <1>2, TypeParts, TypePartsNext, FilesFrame

LEMMA Versions ==
    ASSUME TypeOK, NEW s \in Sources
    PROVE  /\ Len(captures[s]) \in Nat /\ Len(captures[s]) + 1 \in Nat
           /\ \A c \in Contents : Append(captures[s], c) \in Seq(Contents)
  <1>1. captures[s] \in Seq(Contents) BY DEF TypeOK
  <1> QED BY <1>1

\* A job with bytes to commit, and its source when it has one.
LEMMA About ==
    ASSUME TypeOK, AllFit, NEW q \in Requests, job[q] # Idle
    PROVE  /\ job[q] \in Jobs
           /\ job[q].content \in Contents \cup {"none"}
           /\ job[q].kind \in {"capture", "cite"} => job[q].content \in Contents
           /\ job[q].kind \in {"capture", "extract", "lean", "purge"}
                 => job[q].source \in Known /\ job[q].source \in Sources
           /\ job[q].kind = "create" => job[q].source \in Sources \ Known
  <1>1. job[q] \in Jobs BY JobKinds
  <1> QED BY <1>1 DEF AllFit, Fits, Jobs, Known

LEMMA NextVersionType == ASSUME TypeOK, AllFit, NEW q \in Requests, NextVersion(q) PROVE TypeOK'
  <1>1. UNCHANGED <<rows, files, sweeps, asked, crossed>> BY DEF NextVersion
  <1>2. job[q] # Idle /\ job[q].source \in Sources BY JobKinds, About DEF NextVersion
  <1>3. JobsOK'
    <2>1. CASE Takes(job[q].source)
      <3>1. Len(captures[job[q].source]) + 1 \in Nat BY <1>2, Versions
      <3>2. job' = [job EXCEPT ![q].step = "commit",
                               ![q].version = Len(captures[job[q].source]) + 1]
        BY <2>1 DEF NextVersion
      <3> QED BY <1>2, <3>1, <3>2, GoesOn DEF JobsOK
    <2>2. CASE ~Takes(job[q].source) BY <2>2, Ends DEF NextVersion, JobsOK
    <2> QED BY <2>1, <2>2
  <1>4. asked' \in 0 .. MaxAsked BY <1>1 DEF TypeOK
  <1> QED BY <1>1, <1>3, <1>4, TypeParts, TypePartsNext, RowsFrame, FilesFrame, SweepsFrame

LEMMA CitesType ==
    ASSUME TypeOK, NEW c, Cites(c), UNCHANGED told
    PROVE  SweepsOK'
  BY CitesMarks, TypeParts DEF SweepsOK

LEMMA CommitCaptureType ==
    ASSUME TypeOK, AllFit, NEW q \in Requests, CommitCapture(q) PROVE TypeOK'
  <1>1. /\ job' = [job EXCEPT ![q] = Idle] /\ UNCHANGED <<files, told, asked, crossed>>
        /\ job[q] # Idle /\ job[q].content \in Contents /\ job[q].source \in Sources
    BY JobKinds, About DEF CommitCapture
  <1>2. RowsOK' /\ SweepsOK'
    <2>1. CASE Refused(q)
      <3>1. UNCHANGED rows /\ UNCHANGED sweeps BY <1>1, <2>1 DEF CommitCapture, sweeps
      <3> QED BY <3>1, TypeParts, RowsFrame, SweepsFrame
    <2>2. CASE ~Refused(q)
      <3>1. /\ captures' = [captures EXCEPT ![job[q].source] = Append(@, job[q].content)]
            /\ Cites(job[q].content)
            /\ UNCHANGED <<state, due, held, blocks, texts, leaned, cited>>
        BY <2>2 DEF CommitCapture
      <3>2. captures' \in [Sources -> Seq(Contents)] BY <1>1, <3>1, Versions DEF TypeOK
      <3>3. RowsOK' BY <3>1, <3>2 DEF RowsOK, TypeOK, Known
      <3>4. SweepsOK' BY <1>1, <3>1, CitesType
      <3> QED BY <3>3, <3>4
    <2> QED BY <2>1, <2>2
  <1> QED BY <1>1, <1>2, CommitType

LEMMA CommitCreateType ==
    ASSUME TypeOK, AllFit, NEW q \in Requests, CommitCreate(q) PROVE TypeOK'
  <1> DEFINE s == job[q].source
             c == job[q].content
  <1>1. /\ job' = [job EXCEPT ![q] = Idle]
        /\ state' = [state EXCEPT ![s] = "kept"]
        /\ captures' = [captures EXCEPT ![s] = IF c = "none" THEN <<>> ELSE <<c>>]
        /\ Cites(c)
        /\ UNCHANGED <<due, held, blocks, texts, leaned, cited, files, told, asked, crossed>>
        /\ job[q] # Idle
    BY JobKinds DEF CommitCreate
  <1>2. s \in Sources /\ c \in Contents \cup {"none"}
    BY <1>1, About, JobKinds DEF CommitCreate
  <1> HIDE DEF s, c
  <1>3. (IF c = "none" THEN <<>> ELSE <<c>>) \in Seq(Contents) BY <1>2
  <1>4. captures' \in [Sources -> Seq(Contents)] BY <1>1, <1>3 DEF TypeOK
  <1>5. state' \in [Sources -> {"absent", "kept", "purged"}] /\ Known \subseteq Known'
    BY <1>1, <1>2 DEF TypeOK, Known
  <1>6. RowsOK' BY <1>1, <1>4, <1>5 DEF RowsOK, TypeOK
  <1>7. SweepsOK' BY <1>1, CitesType
  <1> QED BY <1>1, <1>6, <1>7, CommitType

LEMMA CommitExtractType ==
    ASSUME TypeOK, AllFit, NEW q \in Requests, CommitExtract(q) PROVE TypeOK'
  <1> DEFINE s == job[q].source
             c == job[q].content
  <1>1. /\ job' = [job EXCEPT ![q] = Idle]
        /\ texts' = [texts EXCEPT ![s] = @ \cup ({c} \ {"none"})]
        /\ leaned' = leaned \cup {s}
        /\ Cites(c)
        /\ UNCHANGED <<state, due, held, blocks, captures, cited, files, told, asked, crossed>>
        /\ job[q] # Idle
    BY JobKinds DEF CommitExtract
  <1>2. s \in Known /\ s \in Sources /\ c \in Contents \cup {"none"}
    BY <1>1, About, JobKinds DEF CommitExtract
  <1> HIDE DEF s, c
  <1>3. texts' \in [Sources -> SUBSET Contents] BY <1>1, <1>2 DEF TypeOK
  <1>4. Known' = Known BY <1>1 DEF Known
  <1>5. RowsOK' BY <1>1, <1>2, <1>3, <1>4 DEF RowsOK, TypeOK
  <1>6. SweepsOK' BY <1>1, CitesType
  <1> QED BY <1>1, <1>5, <1>6, CommitType

LEMMA CommitLeanType ==
    ASSUME TypeOK, AllFit, NEW q \in Requests, CommitLean(q) PROVE TypeOK'
  <1>1. /\ job' = [job EXCEPT ![q] = Idle]
        /\ leaned' = leaned \cup {job[q].source}
        /\ UNCHANGED <<state, due, held, blocks, captures, texts, cited, files, sweeps, asked,
                       crossed>>
        /\ job[q] # Idle
    BY JobKinds DEF CommitLean
  <1>2. job[q].source \in Known BY <1>1, About, JobKinds DEF CommitLean
  <1>3. Known' = Known BY <1>1 DEF Known
  <1>4. RowsOK' BY <1>1, <1>2, <1>3 DEF RowsOK, TypeOK
  <1>5. SweepsOK' BY <1>1, TypeParts, SweepsFrame
  <1> QED BY <1>1, <1>4, <1>5, CommitType

LEMMA CommitCiteType ==
    ASSUME TypeOK, AllFit, NEW q \in Requests, CommitCite(q) PROVE TypeOK'
  <1>1. /\ job' = [job EXCEPT ![q] = Idle]
        /\ cited' = cited \cup {job[q].content} /\ Cites(job[q].content)
        /\ UNCHANGED <<state, due, held, blocks, captures, texts, leaned, files, told, asked,
                       crossed>>
        /\ job[q] # Idle
    BY JobKinds DEF CommitCite
  <1>2. job[q].content \in Contents BY <1>1, About, JobKinds DEF CommitCite
  <1>3. Known' = Known BY <1>1 DEF Known
  <1>4. RowsOK' BY <1>1, <1>2, <1>3 DEF RowsOK, TypeOK
  <1>5. SweepsOK' BY <1>1, CitesType
  <1> QED BY <1>1, <1>4, <1>5, CommitType

LEMMA MarkPurgedType ==
    ASSUME TypeOK, AllFit, NEW q \in Requests, MarkPurged(q) PROVE TypeOK'
  <1>1. /\ job' = [job EXCEPT ![q] = Idle]
        /\ state' = IF job[q].eligible THEN [state EXCEPT ![job[q].source] = "purged"] ELSE state
        /\ UNCHANGED <<due, held, blocks, captures, texts, leaned, cited, files, sweeps, asked,
                       crossed>>
        /\ job[q] # Idle
    BY JobKinds DEF MarkPurged
  <1>2. state' \in [Sources -> {"absent", "kept", "purged"}] BY <1>1 DEF TypeOK
  <1>3. Known \subseteq Known' BY <1>1, <1>2 DEF TypeOK, Known
  <1>4. RowsOK' BY <1>1, <1>2, <1>3 DEF RowsOK, TypeOK
  <1>5. SweepsOK' BY <1>1, TypeParts, SweepsFrame
  <1> QED BY <1>1, <1>4, <1>5, CommitType

LEMMA GivesUpType == ASSUME TypeOK, NEW q \in Requests, GivesUp(q) PROVE TypeOK'
  BY TypeParts, RowsFrame, SweepsFrame, CommitType DEF GivesUp

-----------------------------------------------------------------------------
(* The steps of a sweep.                                                   *)

\* A row that has not begun has no step.
LEMMA Begun ==
    ASSUME TypeOK, NEW w \in Sweeps, sweep[w].step # "none"
    PROVE  sweep[w] \in SweepRows
  BY DEF TypeOK, Unused

\* A row may be given any of its fields' values.
LEMMA RowSet ==
    ASSUME TypeOK, NEW w \in Sweeps, NEW r \in SweepRows, sweep' = [sweep EXCEPT ![w] = r]
    PROVE  /\ sweep' \in [Sweeps -> {Unused} \cup SweepRows]
           /\ sweep'[w] = r
           /\ \A v \in Sweeps \ {w} : sweep'[v] = sweep[v]
  BY DEF TypeOK

LEMMA SweepType ==
    ASSUME TypeOK, SweepsOK', FilesOK', UNCHANGED <<rows, job, asked>>
    PROVE  TypeOK'
  <1>1. JobsOK' /\ asked' \in 0 .. MaxAsked BY TypeParts DEF JobsOK
  <1> QED BY <1>1, TypeParts, TypePartsNext, RowsFrame

LEMMA StartSweepRows ==
    ASSUME TypeOK, NEW w \in Sweeps, NEW h \in Workspaces, StartSweep(w, h)
    PROVE  /\ sweep' \in [Sweeps -> {Unused} \cup SweepRows]
           /\ \A v \in Sweeps : sweep'[v].left \ sweep'[v].late \subseteq sweep[v].left \ sweep[v].late
  <1>1. PICK seen \in SUBSET {v \in Sweeps : sweep[v].status = "running" /\ sweep[v].home = h} :
           sweep' = [v \in Sweeps |->
                      IF v = w THEN [status |-> "running", home |-> h, step |-> "inventory",
                                     left |-> {}, late |-> {}, item |-> "none",
                                     outcome |-> "none"]
                      ELSE IF v \in seen THEN [sweep[v] EXCEPT !.status = "interrupted"]
                      ELSE sweep[v]]
    BY DEF StartSweep
  <1>2. ASSUME NEW v \in Sweeps
        PROVE  /\ sweep'[v] \in {Unused} \cup SweepRows
               /\ sweep'[v].left \ sweep'[v].late \subseteq sweep[v].left \ sweep[v].late
    <2>1. CASE v = w
      <3>1. sweep'[v] = [status |-> "running", home |-> h, step |-> "inventory",
                         left |-> {}, late |-> {}, item |-> "none", outcome |-> "none"]
        BY <1>1, <2>1
      <3> QED BY <3>1 DEF SweepRows
    <2>2. CASE v # w /\ v \in seen
      <3>1. sweep'[v] = [sweep[v] EXCEPT !.status = "interrupted"] BY <1>1, <2>2
      <3>2. sweep[v].status = "running" BY <2>2
      <3>3. sweep[v] \in SweepRows
        <4>1. Unused.status = "none" BY DEF Unused
        <4> QED BY <3>2, <4>1 DEF TypeOK
      <3>4. /\ sweep'[v] \in SweepRows
            /\ sweep'[v].left = sweep[v].left /\ sweep'[v].late = sweep[v].late
        BY <3>1, <3>3 DEF SweepRows
      <3> QED BY <3>4
    <2>3. CASE v # w /\ v \notin seen
      <3>1. sweep'[v] = sweep[v] BY <1>1, <2>3
      <3> QED BY <3>1 DEF TypeOK
    <2> QED BY <2>1, <2>2, <2>3
  <1>3. sweep' = [v \in Sweeps |-> sweep'[v]] BY <1>1
  <1> QED BY <1>2, <1>3

\* What an inventory lists is a set of contents that nobody stands for.
LEMMA InventoryRows ==
    ASSUME TypeOK, NEW w \in Sweeps, Inventory(w)
    PROVE  /\ sweep' \in [Sweeps -> {Unused} \cup SweepRows]
           /\ \A c \in sweep'[w].left : ~Live(c)
           /\ \A v \in Sweeps \ {w} : sweep'[v] = sweep[v]
  <1>1. PICK list \in SUBSET {c \in Contents : Candidate(sweep[w].home, c)} :
           sweep' = [sweep EXCEPT ![w].step = "items", ![w].left = list]
    BY DEF Inventory
  <1> DEFINE r == [sweep[w] EXCEPT !.step = "items", !.left = list]
  <1>2. sweep[w] \in SweepRows BY Begun DEF Inventory
  <1>3. sweep' = [sweep EXCEPT ![w] = r] BY <1>1
  <1>4. r \in SweepRows /\ r.left = list BY <1>2 DEF SweepRows
  <1> HIDE DEF r
  <1>5. /\ sweep' \in [Sweeps -> {Unused} \cup SweepRows] /\ sweep'[w] = r
        /\ \A v \in Sweeps \ {w} : sweep'[v] = sweep[v]
    BY <1>3, <1>4, RowSet
  <1>6. \A c \in list : ~Live(c) BY DEF Candidate
  <1> QED BY <1>4, <1>5, <1>6

LEMMA UnlinkRows ==
    ASSUME TypeOK, NEW w \in Sweeps, Unlink(w)
    PROVE  /\ sweep' \in [Sweeps -> {Unused} \cup SweepRows]
           /\ \A v \in Sweeps : sweep'[v].left = sweep[v].left /\ sweep'[v].late = sweep[v].late
  <1>1. sweep[w] \in SweepRows BY Begun DEF Unlink
  <1>2. PICK c \in sweep[w].left, o \in Outcomes :
           sweep' = [sweep EXCEPT ![w].item = c, ![w].outcome = o]
    <2>1. \A c : Outcome(c) \in Outcomes BY DEF Outcome, Outcomes
    <2>2. "failed" \in Outcomes BY DEF Outcomes
    <2> QED BY <2>1, <2>2 DEF Unlink
  <1> DEFINE r == [sweep[w] EXCEPT !.item = c, !.outcome = o]
  <1>3. sweep' = [sweep EXCEPT ![w] = r] BY <1>2
  <1>4. r \in SweepRows /\ r.left = sweep[w].left /\ r.late = sweep[w].late
    BY <1>1, <1>2 DEF SweepRows
  <1> HIDE DEF r
  <1> QED BY <1>3, <1>4, RowSet

\* Recording, finishing and stopping leave a part of the list, or nothing.
LEMMA RecordRows ==
    ASSUME TypeOK, NEW w \in Sweeps, Record(w)
    PROVE  /\ SweepsOK'
           /\ \A v \in Sweeps : sweep'[v].left \ sweep'[v].late \subseteq sweep[v].left \ sweep[v].late
  <1>1. sweep[w] \in SweepRows BY Begun DEF Record
  <1> DEFINE r == [sweep[w] EXCEPT !.item = "none", !.outcome = "none",
                      !.left = @ \ {sweep[w].item},
                      !.step = IF sweep[w].outcome = "failed" THEN "failing" ELSE @]
  <1>2. sweep' = [sweep EXCEPT ![w] = r] BY DEF Record
  <1>3. sweep[w].step = "items" BY DEF Record
  <1>4. r \in SweepRows /\ r.left = sweep[w].left \ {sweep[w].item} /\ r.late = sweep[w].late
    BY <1>1, <1>3 DEF SweepRows
  <1> HIDE DEF r
  <1>5. /\ sweep' \in [Sweeps -> {Unused} \cup SweepRows] /\ sweep'[w] = r
        /\ \A v \in Sweeps \ {w} : sweep'[v] = sweep[v]
    BY <1>2, <1>4, RowSet
  <1>6. told' \in [Sweeps -> [Contents -> Outcomes \cup {"none"}]]
    <2> DEFINE row == [told[w] EXCEPT ![sweep[w].item] = sweep[w].outcome]
    <2>1. told' = [told EXCEPT ![w] = row] BY DEF Record
    <2>2. sweep[w].outcome \in Outcomes \cup {"none"} BY <1>1 DEF SweepRows
    <2>3. row \in [Contents -> Outcomes \cup {"none"}] BY <2>2 DEF TypeOK
    <2> HIDE DEF row
    <2> QED BY <2>1, <2>3 DEF TypeOK
  <1> QED BY <1>4, <1>5, <1>6 DEF SweepsOK

LEMMA FinishSweepRows ==
    ASSUME TypeOK, NEW w \in Sweeps, FinishSweep(w)
    PROVE  /\ sweep' \in [Sweeps -> {Unused} \cup SweepRows]
           /\ \A v \in Sweeps : sweep'[v].left \ sweep'[v].late \subseteq sweep[v].left \ sweep[v].late
  <1>1. sweep[w] \in SweepRows /\ sweep[w].left = {} BY Begun DEF FinishSweep
  <1> DEFINE r == [sweep[w] EXCEPT !.status = "completed", !.step = "gone", !.late = {}]
  <1>2. sweep' = [sweep EXCEPT ![w] = r] BY DEF FinishSweep
  <1>3. r \in SweepRows /\ r.left = {} BY <1>1 DEF SweepRows
  <1> HIDE DEF r
  <1>4. /\ sweep' \in [Sweeps -> {Unused} \cup SweepRows] /\ sweep'[w] = r
        /\ \A v \in Sweeps \ {w} : sweep'[v] = sweep[v]
    BY <1>2, <1>3, RowSet
  <1> QED BY <1>3, <1>4

LEMMA StopsRows ==
    ASSUME TypeOK, NEW w \in Sweeps, FailSweep(w) \/ SweepDies(w)
    PROVE  /\ sweep' \in [Sweeps -> {Unused} \cup SweepRows]
           /\ \A v \in Sweeps : sweep'[v].left \ sweep'[v].late \subseteq sweep[v].left \ sweep[v].late
  <1>1. sweep[w] \in SweepRows BY Begun DEF FailSweep, SweepDies, Stops
  <1>2. PICK status \in {"running", "interrupted", "completed", "failed"} :
           sweep' = [sweep EXCEPT ![w] = [Unused EXCEPT !.status = status,
                                             !.home = sweep[w].home, !.step = "gone"]]
    <2>1. sweep[w].status \in {"running", "interrupted", "completed", "failed"}
      BY <1>1 DEF SweepRows
    <2> QED BY <2>1 DEF FailSweep, SweepDies, Stops
  <1> DEFINE r == [Unused EXCEPT !.status = status, !.home = sweep[w].home, !.step = "gone"]
  <1>3. r \in SweepRows /\ r.left = {} BY <1>1, <1>2 DEF SweepRows, Unused
  <1>4. sweep' = [sweep EXCEPT ![w] = r] BY <1>2
  <1> HIDE DEF r
  <1>5. /\ sweep' \in [Sweeps -> {Unused} \cup SweepRows] /\ sweep'[w] = r
        /\ \A v \in Sweeps \ {w} : sweep'[v] = sweep[v]
    BY <1>3, <1>4, RowSet
  <1> QED BY <1>3, <1>5

\* Every step of a sweep keeps the types.
SweepStep(w) ==
    \/ \E h \in Workspaces : StartSweep(w, h)
    \/ Inventory(w) \/ Unlink(w) \/ Record(w) \/ FinishSweep(w) \/ FailSweep(w) \/ SweepDies(w)

LEMMA SweepStepType == ASSUME TypeOK, NEW w \in Sweeps, SweepStep(w) PROVE TypeOK'
  <1>1. ASSUME NEW h \in Workspaces, StartSweep(w, h) PROVE TypeOK'
    <2>1. UNCHANGED <<rows, files, job, told, asked, crossed>> BY <1>1 DEF StartSweep
    <2>2. SweepsOK' BY <1>1, <2>1, StartSweepRows, TypeParts DEF SweepsOK
    <2> QED BY <2>1, <2>2, TypeParts, FilesFrame, SweepType
  <1>2. CASE Inventory(w)
    <2>1. UNCHANGED <<rows, files, job, told, asked, crossed>> BY <1>2 DEF Inventory
    <2>2. SweepsOK' BY <1>2, <2>1, InventoryRows, TypeParts DEF SweepsOK
    <2> QED BY <2>1, <2>2, TypeParts, FilesFrame, SweepType
  <1>3. CASE Unlink(w)
    <2>1. UNCHANGED <<rows, placed, job, told, asked>> BY <1>3 DEF Unlink
    <2>2. SweepsOK' BY <1>3, <2>1, UnlinkRows, TypeParts DEF SweepsOK
    <2>3. PICK c \in sweep[w].left :
             /\ disk' = disk \ {c} \/ disk' = disk
             /\ crossed' = crossed \cup {c} \/ crossed' = crossed
      BY <1>3 DEF Unlink
    <2>4. c \in Contents
      <3>1. sweep[w] \in SweepRows BY <1>3, Begun DEF Unlink
      <3> QED BY <3>1 DEF SweepRows
    <2>5. FilesOK' BY <2>1, <2>3, <2>4 DEF FilesOK, TypeOK
    <2> QED BY <2>1, <2>2, <2>5, SweepType
  <1>4. CASE Record(w)
    <2>1. UNCHANGED <<rows, files, job, asked, crossed>> BY <1>4 DEF Record
    <2> QED BY <1>4, <2>1, RecordRows, TypeParts, FilesFrame, SweepType
  <1>5. CASE FinishSweep(w)
    <2>1. UNCHANGED <<rows, files, job, told, asked, crossed>> BY <1>5 DEF FinishSweep
    <2>2. SweepsOK' BY <1>5, <2>1, FinishSweepRows, TypeParts DEF SweepsOK
    <2> QED BY <2>1, <2>2, TypeParts, FilesFrame, SweepType
  <1>6. CASE FailSweep(w) \/ SweepDies(w)
    <2>1. UNCHANGED <<rows, files, job, told, asked, crossed>>
      BY <1>6 DEF FailSweep, SweepDies, Stops
    <2>2. SweepsOK' BY <1>6, <2>1, StopsRows, TypeParts DEF SweepsOK
    <2> QED BY <2>1, <2>2, TypeParts, FilesFrame, SweepType
  <1> QED BY <1>1, <1>2, <1>3, <1>4, <1>5, <1>6 DEF SweepStep

-----------------------------------------------------------------------------
(* Requests keep to their order, and the lock to its meaning.              *)

LEMMA OrderlyFrame == Orderly /\ UNCHANGED <<state, held, job>> => Orderly'
  BY DEF Orderly, AllFit, Fits, FreshIsOnce, LocksAreApart, LockedIsKept, Holds, Known

\* A job that is as it was, of a source that is as it was.
LEMMA OthersStay ==
    ASSUME NEW p \in Requests, job'[p] = job[p], UNCHANGED <<state, held>>
    PROVE  /\ Fits(p) => Fits(p)'
           /\ Holds(p)' = Holds(p)
  BY DEF Fits, Holds, Known

LEMMA OrderlyBegins ==
    ASSUME TypeOK, Orderly, NEW q \in Requests,
           NEW kind \in Writes, NEW step \in {"put", "write", "commit"},
           NEW s \in Sources \cup {"none"}, NEW c \in Contents \cup {"none"},
           Begin(q, kind, step, s, c),
           step = "put" \/ kind = "cite" => c \in Contents,
           kind = "capture" => step = "put",
           kind \in {"capture", "extract", "lean", "purge"} => s \in Known,
           kind = "create" => /\ s \in Sources \ Known
                              /\ \A p \in Requests : job[p].kind = "create" => job[p].source # s,
           step = "commit" <=> kind = "purge",
           kind = "purge" => c = "none" /\ Free(s)
    PROVE  Orderly'
  <1>1. /\ job'[q] # Idle
        /\ job'[q].kind = kind /\ job'[q].step = step
        /\ job'[q].source = s /\ job'[q].content = c
        /\ job'[q].eligible = (kind = "purge" /\ Eligible(s))
        /\ \A p \in Requests \ {q} : job'[p] = job[p]
    BY Begins
  <1>2. UNCHANGED <<state, held>> /\ Known' = Known BY DEF Begin, rows, Known
  <1>3. \A p \in Requests \ {q} : Holds(p)' = Holds(p) BY <1>1, <1>2, OthersStay
  <1>4. Holds(q)' => kind = "purge" BY <1>1 DEF Holds
  <1>5. AllFit'
    <2>1. \A p \in Requests \ {q} : Fits(p)' BY <1>1, <1>2, OthersStay DEF Orderly, AllFit
    <2>2. Fits(q)' BY <1>1, <1>2 DEF Fits
    <2> QED BY <2>1, <2>2 DEF AllFit
  <1>6. FreshIsOnce' BY <1>1 DEF Orderly, FreshIsOnce
  <1>7. LocksAreApart'
    <2>1. kind = "purge" => \A p \in Requests : Holds(p) => job[p].source # s
      BY DEF Free, Holds
    <2> QED BY <1>1, <1>3, <1>4, <2>1 DEF Orderly, LocksAreApart
  <1>8. LockedIsKept'
    <2>1. kind # "purge" => ~job'[q].eligible BY <1>1
    <2>2. Eligible(s) => state[s] = "kept" /\ s \notin held BY DEF Eligible, Takes
    <2>3. \A p \in Requests \ {q} : Holds(p)' /\ job[p].kind = "capture" => state[job[p].source] = "kept"
      BY <1>3 DEF Orderly, LockedIsKept
    <2>4. \A p \in Requests \ {q} : Holds(p)' /\ job[p].eligible
             => state[job[p].source] = "kept" /\ job[p].source \notin held
      BY <1>3 DEF Orderly, LockedIsKept
    <2> QED BY <1>1, <1>2, <1>4, <2>1, <2>2, <2>3, <2>4 DEF LockedIsKept
  <1> QED BY <1>5, <1>6, <1>7, <1>8 DEF Orderly

\* A job that goes on to the lock finds it free, and its source kept.
LEMMA OrderlyGoesOn ==
    ASSUME TypeOK, Orderly, NEW q \in Requests, Put(q) \/ NextVersion(q), job'[q] # Idle
    PROVE  Orderly'
  <1>1. job[q] # Idle /\ job[q] \in Jobs /\ UNCHANGED <<state, held>> /\ Known' = Known
    BY JobKinds, About DEF Put, NextVersion, rows, Orderly, Known
  <1>2. /\ job'[q].kind = job[q].kind /\ job'[q].source = job[q].source
        /\ job'[q].content = job[q].content /\ job'[q].eligible = job[q].eligible
        /\ \A p \in Requests \ {q} : job'[p] = job[p]
        /\ \/ job'[q].step = "write" /\ job[q].step = "put"
           \/ /\ job'[q].step = "commit" /\ job[q].kind = "capture" /\ job[q].step = "write"
              /\ Takes(job[q].source) /\ Free(job[q].source)
    <2>1. CASE Put(q)
      BY <1>1, <2>1, GoesOn DEF Put
    <2>2. CASE NextVersion(q)
      <3>1. job[q].kind = "capture" /\ job[q].step = "write" /\ job[q].source \in Sources
        BY <1>1, <2>2, About DEF NextVersion, Orderly
      <3>2. Takes(job[q].source) BY <2>2, Ends DEF NextVersion
      <3>3. /\ Free(job[q].source)
            /\ job' = [job EXCEPT ![q].step = "commit",
                                  ![q].version = Len(captures[job[q].source]) + 1]
        BY <2>2, <3>2 DEF NextVersion
      <3>4. Len(captures[job[q].source]) + 1 \in Nat BY <3>1, Versions
      <3> QED BY <1>1, <3>1, <3>2, <3>3, <3>4, GoesOn
    <2> QED BY <2>1, <2>2
  <1>3. \A p \in Requests \ {q} : Holds(p)' = Holds(p) BY <1>1, <1>2, OthersStay
  <1>4. Holds(q)' => /\ job[q].kind = "capture"
                     /\ Takes(job[q].source) /\ Free(job[q].source)
    BY <1>2 DEF Holds
  <1>5. AllFit'
    <2>1. \A p \in Requests \ {q} : Fits(p)' BY <1>1, <1>2, OthersStay DEF Orderly, AllFit
    <2>2. Fits(q) BY DEF Orderly, AllFit
    <2>3. Fits(q)' BY <1>1, <1>2, <2>2 DEF Fits
    <2> QED BY <2>1, <2>3 DEF AllFit
  <1>6. FreshIsOnce' BY <1>2 DEF Orderly, FreshIsOnce
  <1>7. LocksAreApart'
    <2>1. Free(job[q].source) => \A p \in Requests : Holds(p) => job[p].source # job[q].source
      BY DEF Free, Holds
    <2> QED BY <1>2, <1>3, <1>4, <2>1 DEF Orderly, LocksAreApart
  <1>8. LockedIsKept'
    <2>1. job[q].kind = "capture" /\ Holds(q)' => state[job[q].source] = "kept"
      BY <1>4 DEF Takes
    <2>2. Holds(q)' => ~job[q].eligible BY <1>1, <1>4 DEF Orderly, AllFit, Fits
    <2> QED BY <1>1, <1>2, <1>3, <1>4, <2>1, <2>2 DEF Orderly, LockedIsKept
  <1> QED BY <1>5, <1>6, <1>7, <1>8 DEF Orderly

\* A job that ends may change its own source, which nobody else has locked or
\* is making.
LEMMA OrderlyEnds ==
    ASSUME TypeOK, Orderly, NEW q \in Requests, job' = [job EXCEPT ![q] = Idle],
           UNCHANGED held, Known \subseteq Known',
           \A p \in Requests \ {q} :
              job[p].source \in Sources /\ state'[job[p].source] # state[job[p].source]
                 => job[p].kind # "create" /\ ~Holds(p)
    PROVE  Orderly'
  <1>1. /\ job'[q] = Idle /\ job'[q].kind = "none"
        /\ \A p \in Requests \ {q} : job'[p] = job[p]
    BY Ends
  <1>2. ~Holds(q)' BY <1>1 DEF Holds
  <1>3. \A p \in Requests \ {q} : Holds(p)' = Holds(p) BY <1>1 DEF Holds
  <1>4. AllFit'
    <2>1. Fits(q)' BY <1>1 DEF Fits, Idle
    <2>2. ASSUME NEW p \in Requests \ {q} PROVE Fits(p)'
      <3>1. Fits(p) /\ job'[p] = job[p] BY <1>1 DEF Orderly, AllFit
      <3>2. job[p].source \in Sources \ Known /\ job[p].kind = "create"
               => job[p].source \in Sources \ Known'
        BY DEF Known
      <3> QED BY <3>1, <3>2 DEF Fits
    <2> QED BY <2>1, <2>2 DEF AllFit
  <1>5. FreshIsOnce' BY <1>1 DEF Orderly, FreshIsOnce
  <1>6. LocksAreApart' BY <1>1, <1>2, <1>3 DEF Orderly, LocksAreApart
  <1>7. LockedIsKept'
    <2>1. ASSUME NEW p \in Requests, Holds(p)'
          PROVE  /\ job'[p].kind = "capture" => state'[job'[p].source] = "kept"
                 /\ job'[p].eligible => /\ state'[job'[p].source] = "kept"
                                        /\ job'[p].source \notin held'
      <3>1. p # q /\ Holds(p) /\ job'[p] = job[p] BY <1>1, <1>2, <1>3, <2>1
      <3>2. job[p].source \in Sources
        <4>1. job[p] # Idle BY <3>1, JobKinds DEF Holds
        <4> QED BY <3>1, <4>1, About DEF Orderly, Holds
      <3>3. state'[job[p].source] = state[job[p].source] BY <3>1, <3>2
      <3> QED BY <3>1, <3>3 DEF Orderly, LockedIsKept
    <2> QED BY <2>1 DEF LockedIsKept
  <1> QED BY <1>4, <1>5, <1>6, <1>7 DEF Orderly

-----------------------------------------------------------------------------
(* The step relation, by what a step does to the request it is of.         *)

Starts(q) ==
    \/ \E s \in Sources : Create(q, s) \/ AddCapture(q, s) \/ Extract(q, s) \/ Lean(q, s)
                          \/ Purge(q, s)
    \/ Cite(q)
Commits(q) ==
    CommitCapture(q) \/ CommitCreate(q) \/ CommitExtract(q) \/ CommitLean(q) \/ CommitCite(q)
    \/ MarkPurged(q)

\* Each kind of request begins as it must.
LEMMA StartsAre ==
    ASSUME TypeOK, Orderly, NEW q \in Requests, Starts(q)
    PROVE  /\ TypeOK' /\ Orderly'
           /\ UNCHANGED <<rows, files, sweeps, crossed>>
           /\ \A p \in Requests \ {q} : job'[p] = job[p]
           /\ job'[q].step # "put" => job'[q].content \notin Contents
  <1>1. "none" \notin Contents BY ContentsAssumption
  <1>2. \A s \in Sources : s \in Sources \cup {"none"} OBVIOUS
  <1>3. \A c \in Contents : c \in Contents \cup {"none"} OBVIOUS
  <1>4. {"create", "capture", "extract", "lean", "cite", "purge"} = Writes BY DEF Writes
  <1>5. PICK kind \in Writes, step \in {"put", "write", "commit"},
             s \in Sources \cup {"none"}, c \in Contents \cup {"none"} :
           /\ Begin(q, kind, step, s, c)
           /\ step = "put" \/ kind = "cite" => c \in Contents
           /\ step # "put" => c = "none"
           /\ kind = "capture" => step = "put"
           /\ kind \in {"capture", "extract", "lean", "purge"} => s \in Known
           /\ kind = "create" => /\ s \in Sources \ Known
                                 /\ \A p \in Requests : job[p].kind = "create" => job[p].source # s
           /\ step = "commit" <=> kind = "purge"
           /\ kind = "purge" => c = "none" /\ Free(s)
    <2>1. ASSUME NEW s \in Sources, Create(q, s)
          PROVE  /\ s \in Sources \ Known
                 /\ \A p \in Requests : job[p].kind = "create" => job[p].source # s
                 /\ \/ Begin(q, "create", "write", s, "none")
                    \/ \E c \in Contents : Begin(q, "create", "put", s, c)
      BY <2>1 DEF Create, Known
    <2>2. ASSUME NEW s \in Sources, AddCapture(q, s)
          PROVE  s \in Known /\ \E c \in Contents : Begin(q, "capture", "put", s, c)
      BY <2>2 DEF AddCapture
    <2>3. ASSUME NEW s \in Sources, Extract(q, s)
          PROVE  /\ s \in Known
                 /\ \/ Begin(q, "extract", "write", s, "none")
                    \/ \E c \in Contents : Begin(q, "extract", "put", s, c)
      BY <2>3 DEF Extract, Retained, Known
    <2>4. ASSUME NEW s \in Sources, Lean(q, s)
          PROVE  s \in Known /\ Begin(q, "lean", "write", s, "none")
      BY <2>4 DEF Lean, Retained, Known
    <2>5. ASSUME NEW s \in Sources, Purge(q, s)
          PROVE  s \in Known /\ Free(s) /\ Begin(q, "purge", "commit", s, "none")
      BY <2>5 DEF Purge
    <2>6. ASSUME Cite(q) PROVE \E c \in Contents : Begin(q, "cite", "put", "none", c)
      BY <2>6 DEF Cite
    <2> HIDE DEF Starts
    <2>7. CASE \E s \in Sources : Create(q, s)
      BY <2>7, <2>1, <1>4
    <2>8. CASE \E s \in Sources : AddCapture(q, s)
      BY <2>8, <2>2, <1>4
    <2>9. CASE \E s \in Sources : Extract(q, s)
      BY <2>9, <2>3, <1>4
    <2>10. CASE \E s \in Sources : Lean(q, s)
      BY <2>10, <2>4, <1>4
    <2>11. CASE \E s \in Sources : Purge(q, s)
      BY <2>11, <2>5, <1>4
    <2>12. CASE Cite(q)
      BY <2>12, <2>6, <1>4
    <2> QED BY <2>7, <2>8, <2>9, <2>10, <2>11, <2>12 DEF Starts
  <1>6. TypeOK' BY <1>5, BeginType
  <1>7. Orderly' BY <1>5, OrderlyBegins
  <1>8. UNCHANGED <<rows, files, sweeps, crossed>> BY <1>5 DEF Begin
  <1>9. /\ \A p \in Requests \ {q} : job'[p] = job[p]
        /\ job'[q].step = step /\ job'[q].content = c
    BY <1>5, Begins
  <1> QED BY <1>1, <1>5, <1>6, <1>7, <1>8, <1>9

\* What the end of a request may do: make a content live that it has put, which
\* no sweep then believes dead, and nothing to what was purged.
Tidy(q) ==
    /\ job' = [job EXCEPT ![q] = Idle]
    /\ UNCHANGED <<files, crossed>>
    /\ \A w \in Sweeps : sweep'[w].left \ sweep'[w].late \subseteq sweep[w].left \ sweep[w].late
    /\ \A c \in Contents :
          Live(c)' /\ ~Live(c) => /\ c = job[q].content
                                  /\ \A w \in Sweeps : c \notin sweep'[w].left \ sweep'[w].late
    /\ \A s \in Purged : state'[s] = "purged" /\ captures'[s] = captures[s]

LEMMA CommitCaptureIsTidy ==
    ASSUME TypeOK, Orderly, NEW q \in Requests, CommitCapture(q)
    PROVE  Tidy(q) /\ UNCHANGED <<state, held>>
  <1>1. /\ job' = [job EXCEPT ![q] = Idle]
        /\ UNCHANGED <<files, told, asked, crossed>>
        /\ job[q].kind = "capture" /\ Holds(q)
    BY DEF CommitCapture, Holds
  <1>2. CASE Refused(q)
    <2>1. UNCHANGED <<rows, sweep>> BY <1>2 DEF CommitCapture
    <2>2. \A c : Live(c)' = Live(c) BY <2>1 DEF Live, Captured, Purged, rows
    <2>3. \A s \in Purged : state'[s] = "purged" /\ captures'[s] = captures[s]
      BY <2>1 DEF Purged, rows
    <2> QED BY <1>1, <2>1, <2>2, <2>3 DEF Tidy, rows
  <1>3. CASE ~Refused(q)
    <2>0. PICK s, d : s = job[q].source /\ d = job[q].content OBVIOUS
    <2>1. /\ captures' = [captures EXCEPT ![s] = Append(@, d)]
          /\ Cites(d)
          /\ UNCHANGED <<state, due, held, blocks, texts, leaned, cited>>
      BY <1>3, <2>0 DEF CommitCapture
    <2>2. s \in Sources /\ d \in Contents /\ state[s] = "kept"
      <3>1. job[q] # Idle BY <1>1, JobKinds
      <3> QED BY <1>1, <2>0, <3>1, About DEF Orderly, LockedIsKept
    <2>3. /\ captures'[s] = Append(captures[s], d)
          /\ \A r \in Sources \ {s} : captures'[r] = captures[r]
      BY <2>1, <2>2 DEF TypeOK
    <2>4. captures[s] \in Seq(Contents) BY <2>2 DEF TypeOK
    <2>5. ASSUME NEW c, Captured(s, c)' PROVE c = d \/ Captured(s, c)
      <3>1. PICK v \in DOMAIN captures'[s] : captures'[s][v] = c BY <2>5 DEF Captured
      <3>2. (v = Len(captures[s]) + 1 /\ c = d) \/ (v \in DOMAIN captures[s] /\ captures[s][v] = c)
        BY <2>3, <2>4, <3>1, <2>2
      <3> QED BY <3>2 DEF Captured
    <2>6. Purged' = Purged BY <2>1 DEF Purged
    <2>7. ASSUME NEW c, Live(c)', ~Live(c) PROVE c = d
      <3>1. \A r \in Sources \ {s} : Captured(r, c)' = Captured(r, c) BY <2>3 DEF Captured
      <3> QED BY <2>1, <2>2, <2>5, <2>6, <2>7, <3>1 DEF Live
    <2>8. \A w \in Sweeps : sweep'[w].left \ sweep'[w].late
                               = (sweep[w].left \ sweep[w].late) \ {d}
      BY <2>1, CitesMarks
    <2>9. \A r \in Purged : state'[r] = "purged" /\ captures'[r] = captures[r]
      BY <2>1, <2>2, <2>3 DEF Purged
    <2> QED BY <1>1, <2>1, <2>7, <2>8, <2>9, <2>0 DEF Tidy
  <1> QED BY <1>2, <1>3

LEMMA CommitCreateIsTidy ==
    ASSUME TypeOK, Orderly, NEW q \in Requests, CommitCreate(q)
    PROVE  /\ Tidy(q) /\ UNCHANGED held /\ job[q].kind = "create"
           /\ state[job[q].source] = "absent"
           /\ state' = [state EXCEPT ![job[q].source] = "kept"]
           /\ Purged' = Purged
  <1>0. PICK s, d : s = job[q].source /\ d = job[q].content OBVIOUS
  <1>1. /\ job' = [job EXCEPT ![q] = Idle]
        /\ state' = [state EXCEPT ![s] = "kept"]
        /\ captures' = [captures EXCEPT ![s] = IF d = "none" THEN <<>> ELSE <<d>>]
        /\ Cites(d)
        /\ UNCHANGED <<due, held, blocks, texts, leaned, cited, files, told, asked, crossed>>
        /\ job[q].kind = "create"
    BY <1>0 DEF CommitCreate
  <1>2. s \in Sources /\ state[s] = "absent" BY <1>0, <1>1, JobKinds, About DEF Orderly, Known
  <1>3. Purged' = Purged /\ s \notin Purged BY <1>1, <1>2 DEF Purged, TypeOK
  <1>4. /\ captures'[s] = (IF d = "none" THEN <<>> ELSE <<d>>)
        /\ \A r \in Sources \ {s} : captures'[r] = captures[r]
    BY <1>1, <1>2 DEF TypeOK
  <1>5. \A c : Captured(s, c)' => c = d BY <1>4 DEF Captured
  <1>6. ASSUME NEW c, Live(c)', ~Live(c) PROVE c = d
    <2>1. \A r \in Sources \ {s} : Captured(r, c)' = Captured(r, c) BY <1>4 DEF Captured
    <2> QED BY <1>1, <1>3, <1>5, <1>6, <2>1 DEF Live
  <1>7. \A w \in Sweeps : sweep'[w].left \ sweep'[w].late
                             = (sweep[w].left \ sweep[w].late) \ {d}
    BY <1>1, CitesMarks
  <1>8. \A r \in Purged : state'[r] = "purged" /\ captures'[r] = captures[r]
    BY <1>1, <1>3, <1>4 DEF Purged, TypeOK
  <1> QED BY <1>0, <1>1, <1>2, <1>3, <1>6, <1>7, <1>8 DEF Tidy

LEMMA CommitOthersAreTidy ==
    ASSUME TypeOK, Orderly, NEW q \in Requests,
           CommitExtract(q) \/ CommitLean(q) \/ CommitCite(q)
    PROVE  Tidy(q) /\ UNCHANGED <<state, held>>
  <1>0. PICK d : d = job[q].content OBVIOUS
  <1>1. /\ job' = [job EXCEPT ![q] = Idle]
        /\ UNCHANGED <<state, held, captures, files, crossed>>
    BY DEF CommitExtract, CommitLean, CommitCite
  <1>2. \A s \in Purged : state'[s] = "purged" /\ captures'[s] = captures[s]
    BY <1>1 DEF Purged
  <1>3. /\ texts' \in [Sources -> SUBSET Contents]
        /\ \/ cited' = cited \cup {d} /\ texts' = texts /\ Cites(d)
           \/ /\ cited' = cited /\ \A s \in Sources : texts'[s] \subseteq texts[s] \cup {d}
              /\ Cites(d)
           \/ cited' = cited /\ texts' = texts /\ sweep' = sweep
    <2>1. texts' \in [Sources -> SUBSET Contents]
      BY CommitExtractType, CommitLeanType, CommitCiteType DEF TypeOK, Orderly
    <2>2. CASE CommitExtract(q) BY <1>0, <2>1, <2>2 DEF CommitExtract, TypeOK
    <2>3. CASE CommitLean(q) BY <2>1, <2>3 DEF CommitLean, sweeps
    <2>4. CASE CommitCite(q) BY <1>0, <2>1, <2>4 DEF CommitCite
    <2> QED BY <2>2, <2>3, <2>4
  <1>4. ASSUME NEW c, Live(c)', ~Live(c) PROVE c = d /\ Cites(d)
    <2>1. \A s : Captured(s, c)' = Captured(s, c) BY <1>1 DEF Captured
    <2>2. Purged' = Purged BY <1>1 DEF Purged
    <2> QED BY <1>3, <1>4, <2>1, <2>2 DEF Live
  <1>5. Cites(d) => \A w \in Sweeps : sweep'[w].left \ sweep'[w].late
                                         = (sweep[w].left \ sweep[w].late) \ {d}
    BY CitesMarks
  <1>6. sweep' = sweep => \A w \in Sweeps : sweep'[w].left \ sweep'[w].late
                                               \subseteq sweep[w].left \ sweep[w].late
    OBVIOUS
  <1> QED BY <1>1, <1>2, <1>3, <1>4, <1>5, <1>6, <1>0 DEF Tidy

LEMMA MarkPurgedIsTidy ==
    ASSUME TypeOK, Orderly, NEW q \in Requests, MarkPurged(q)
    PROVE  /\ Tidy(q) /\ UNCHANGED held /\ Holds(q) /\ job[q].source \in Known
           /\ \A s \in Sources \ {job[q].source} : state'[s] = state[s]
           /\ \A s \in Purged' \ Purged : s \notin held
  <1>1. /\ job' = [job EXCEPT ![q] = Idle]
        /\ state' = IF job[q].eligible THEN [state EXCEPT ![job[q].source] = "purged"] ELSE state
        /\ UNCHANGED <<held, cited, captures, texts, files, sweep, crossed>>
        /\ job[q].kind = "purge" /\ job[q] # Idle
    BY JobKinds DEF MarkPurged, sweeps
  <1>2. /\ Holds(q) /\ job[q].source \in Sources /\ job[q].source \in Known
        /\ job[q].eligible => job[q].source \notin held
    BY <1>1, About DEF Orderly, AllFit, Fits, Holds, LockedIsKept
  <1>3. /\ \A s \in Sources \ {job[q].source} : state'[s] = state[s]
        /\ Purged' \subseteq Purged \cup {job[q].source} /\ Purged \subseteq Purged'
        /\ Purged' # Purged => job[q].eligible
    BY <1>1, <1>2 DEF TypeOK, Purged
  <1>4. \A c : Live(c)' => Live(c) BY <1>1, <1>3 DEF Live, Captured
  <1>5. \A s \in Purged : state'[s] = "purged" /\ captures'[s] = captures[s]
    BY <1>1, <1>3 DEF Purged
  <1>6. \A s \in Purged' \ Purged : s \notin held BY <1>2, <1>3
  <1>7. \A w \in Sweeps : sweep'[w].left \ sweep'[w].late \subseteq sweep[w].left \ sweep[w].late
    BY <1>1
  <1> QED BY <1>1, <1>2, <1>3, <1>4, <1>5, <1>6, <1>7 DEF Tidy

LEMMA CommitsAre ==
    ASSUME TypeOK, Orderly, HoldsAreKept, NEW q \in Requests, Commits(q)
    PROVE  /\ TypeOK' /\ Orderly' /\ HoldsAreKept' /\ Tidy(q)
           /\ job[q].kind # "none" /\ job[q].step \in {"write", "commit"}
  <1>1. job[q].kind # "none"
    BY DEF Commits, CommitCapture, CommitCreate, CommitExtract, CommitLean, CommitCite, MarkPurged
  <1>2. AllFit /\ job[q] # Idle BY <1>1, JobKinds DEF Orderly
  <1>3. job[q].step \in {"write", "commit"}
    BY <1>2 DEF Commits, CommitCapture, CommitCreate, CommitExtract, CommitLean, CommitCite,
                MarkPurged, AllFit, Fits
  <1>4. TypeOK'
    BY <1>2, CommitCaptureType, CommitCreateType, CommitExtractType, CommitLeanType,
       CommitCiteType, MarkPurgedType DEF Commits
  <1>5. CASE CommitCapture(q) \/ CommitExtract(q) \/ CommitLean(q) \/ CommitCite(q)
    <2>1. Tidy(q) /\ UNCHANGED <<state, held>>
      BY <1>5, CommitCaptureIsTidy, CommitOthersAreTidy
    <2>2. Known \subseteq Known' /\ job' = [job EXCEPT ![q] = Idle] BY <2>1 DEF Known, Tidy
    <2>3. Orderly' BY <2>1, <2>2, OrderlyEnds
    <2>4. HoldsAreKept' BY <2>1 DEF HoldsAreKept, Purged
    <2> QED BY <1>1, <1>3, <1>4, <2>1, <2>3, <2>4
  <1>6. CASE CommitCreate(q)
    <2>1. /\ Tidy(q) /\ UNCHANGED held /\ job[q].kind = "create"
          /\ state[job[q].source] = "absent"
          /\ state' = [state EXCEPT ![job[q].source] = "kept"]
          /\ Purged' = Purged
      BY <1>6, CommitCreateIsTidy
    <2>2. Known \subseteq Known' /\ job' = [job EXCEPT ![q] = Idle]
      BY <2>1 DEF TypeOK, Known, Tidy
    <2>3. ASSUME NEW p \in Requests \ {q}, job[p].source \in Sources,
                 state'[job[p].source] # state[job[p].source]
          PROVE  job[p].kind # "create" /\ ~Holds(p)
      <3>1. job[p].source = job[q].source BY <2>1, <2>3 DEF TypeOK
      <3>2. job[p].kind # "create" BY <2>1, <3>1 DEF Orderly, FreshIsOnce
      <3>3. ~Holds(p)
        <4>1. job[p].source \notin Known BY <2>1, <3>1 DEF Known
        <4>2. Holds(p) => job[p] # Idle BY JobKinds DEF Holds
        <4> QED BY <1>2, <4>1, <4>2, About DEF Holds
      <3> QED BY <3>2, <3>3
    <2>4. Orderly' BY <2>1, <2>2, <2>3, OrderlyEnds
    <2>5. HoldsAreKept' BY <2>1 DEF HoldsAreKept
    <2> QED BY <1>1, <1>3, <1>4, <2>1, <2>4, <2>5
  <1>7. CASE MarkPurged(q)
    <2>1. /\ Tidy(q) /\ UNCHANGED held /\ Holds(q) /\ job[q].source \in Known
          /\ \A s \in Sources \ {job[q].source} : state'[s] = state[s]
          /\ \A s \in Purged' \ Purged : s \notin held
      BY <1>7, MarkPurgedIsTidy
    <2>2. Known \subseteq Known' /\ job' = [job EXCEPT ![q] = Idle]
      <3>1. job' = [job EXCEPT ![q] = Idle] BY <2>1 DEF Tidy
      <3>2. state'[job[q].source] # "absent" BY <1>7, <2>1 DEF MarkPurged, Known, TypeOK
      <3> QED BY <2>1, <3>1, <3>2 DEF Known
    <2>3. ASSUME NEW p \in Requests \ {q}, job[p].source \in Sources,
                 state'[job[p].source] # state[job[p].source]
          PROVE  job[p].kind # "create" /\ ~Holds(p)
      <3>1. job[p].source = job[q].source BY <2>1, <2>3
      <3>2. ~Holds(p) BY <2>1, <3>1 DEF Orderly, LocksAreApart
      <3>3. job[p].kind # "create"
        <4>1. job[p].kind = "create" => job[p] # Idle BY JobKinds
        <4> QED BY <1>2, <2>1, <3>1, <4>1, About
      <3> QED BY <3>2, <3>3
    <2>4. Orderly' BY <2>1, <2>2, <2>3, OrderlyEnds
    <2>5. HoldsAreKept' BY <2>1 DEF HoldsAreKept
    <2> QED BY <1>1, <1>3, <1>4, <2>1, <2>4, <2>5
  <1> QED BY <1>5, <1>6, <1>7 DEF Commits

-----------------------------------------------------------------------------
(* The invariant.                                                          *)

LEMMA InitOK == Init => IInv
  <1> SUFFICES ASSUME Init PROVE IInv OBVIOUS
  <1>1. /\ state \in [Sources -> {"absent", "kept"}]
        /\ due \in SUBSET Known
        /\ held = {} /\ blocks = {} /\ leaned = {} /\ cited = {} /\ crossed = {}
        /\ texts = [s \in Sources |-> {}]
        /\ disk = {captures[s][1] : s \in Known}
        /\ placed = [c \in Contents |-> Cardinality({c} \cap disk)]
        /\ job = [q \in Requests |-> Idle]
        /\ sweep = [w \in Sweeps |-> Unused]
        /\ told = [w \in Sweeps |-> [c \in Contents |-> "none"]]
        /\ asked = 0
    BY DEF Init
  <1>2. PICK pasted \in [Sources -> Contents] :
           captures = [s \in Sources |-> IF state[s] = "kept" THEN <<pasted[s]>> ELSE <<>>]
    BY DEF Init
  <1>3. ASSUME NEW s \in Known
        PROVE  captures[s] = <<pasted[s]>> /\ captures[s][1] = pasted[s] /\ pasted[s] \in Contents
    BY <1>1, <1>2 DEF Known
  <1>4. captures \in [Sources -> Seq(Contents)]
    <2>1. \A s \in Sources : (IF state[s] = "kept" THEN <<pasted[s]>> ELSE <<>>) \in Seq(Contents)
      BY <1>2
    <2> QED BY <1>2, <2>1
  <1>5. RowsOK BY <1>1, <1>4 DEF RowsOK, Known
  <1>6. disk \in SUBSET Contents BY <1>1, <1>3
  <1>7. FilesOK
    <2>1. ASSUME NEW c \in Contents PROVE Cardinality({c} \cap disk) \in 0 .. MaxPlaced
      <3>1. CASE c \in disk
        <4>1. {c} \cap disk = {c} BY <3>1
        <4> QED BY <4>1, FS_Singleton, BoundsAssumption
      <3>2. CASE c \notin disk
        <4>1. {c} \cap disk = {} BY <3>2
        <4> QED BY <4>1, FS_EmptySet, BoundsAssumption
      <3> QED BY <3>1, <3>2
    <2> QED BY <1>1, <1>6, <2>1 DEF FilesOK
  <1>8. JobsOK /\ SweepsOK BY <1>1 DEF JobsOK, SweepsOK
  <1>9. TypeOK BY <1>1, <1>5, <1>7, <1>8, TypeParts, BoundsAssumption
  <1>10. \A q \in Requests : job[q] = Idle /\ job[q].kind = "none" BY <1>1 DEF Idle
  <1>11. Orderly /\ PutIsPlaced
    BY <1>10 DEF Orderly, AllFit, Fits, FreshIsOnce, LocksAreApart, LockedIsKept, Holds,
                 PutIsPlaced, Idle
  <1>12. HoldsAreKept /\ ListedIsDead
    <2>1. \A w \in Sweeps : sweep[w].left = {} BY <1>1 DEF Unused
    <2> QED BY <1>1, <2>1 DEF HoldsAreKept, ListedIsDead
  <1>13. LossIsARace
    <2>1. ASSUME NEW c \in Contents, Live(c) PROVE c \in disk
      <3>1. PICK s \in Sources : Captured(s, c) BY <1>1, <2>1 DEF Live
      <3>2. s \in Known
        <4>1. state[s] # "kept" => captures[s] = <<>> BY <1>2
        <4> QED BY <3>1, <4>1 DEF Known, Captured
      <3>3. c = captures[s][1] BY <1>3, <3>1, <3>2 DEF Captured
      <3> QED BY <1>1, <3>2, <3>3
    <2> QED BY <2>1 DEF LossIsARace
  <1> QED BY <1>9, <1>11, <1>12, <1>13 DEF IInv

\* What lives, what is listed and what lies on disk are as before.
LEMMA InvFrame ==
    ASSUME IInv, UNCHANGED <<rows, disk, crossed>>,
           \A w \in Sweeps : sweep'[w].left \ sweep'[w].late \subseteq sweep[w].left \ sweep[w].late
    PROVE  HoldsAreKept' /\ ListedIsDead' /\ LossIsARace'
  <1>1. \A c : Live(c)' = Live(c) BY DEF Live, Captured, Purged, rows
  <1>2. HoldsAreKept' BY DEF IInv, HoldsAreKept, Purged, rows
  <1>3. ListedIsDead' BY <1>1 DEF IInv, ListedIsDead
  <1>4. LossIsARace' BY <1>1 DEF IInv, LossIsARace
  <1> QED BY <1>2, <1>3, <1>4

LEMMA StartsKeep == ASSUME IInv, NEW q \in Requests, Starts(q) PROVE IInv'
  <1>1. /\ TypeOK' /\ Orderly'
        /\ UNCHANGED <<rows, files, sweeps, crossed>>
        /\ \A p \in Requests \ {q} : job'[p] = job[p]
        /\ job'[q].step # "put" => job'[q].content \notin Contents
    BY StartsAre DEF IInv
  <1>2. HoldsAreKept' /\ ListedIsDead' /\ LossIsARace'
    BY <1>1, InvFrame DEF files, sweeps
  <1>3. PutIsPlaced' BY <1>1 DEF IInv, PutIsPlaced, files
  <1> QED BY <1>1, <1>2, <1>3 DEF IInv

LEMMA PutKeeps == ASSUME IInv, NEW q \in Requests, Put(q) PROVE IInv'
  <1>1. TypeOK /\ AllFit /\ Orderly BY DEF IInv, Orderly
  <1>2. job[q] # Idle BY <1>1, JobKinds DEF Put
  <1>3. /\ job'[q] # Idle /\ job'[q].content = job[q].content
        /\ \A p \in Requests \ {q} : job'[p] = job[p]
    BY <1>1, <1>2, GoesOn DEF Put
  <1>4. TypeOK' /\ Orderly' BY <1>1, <1>3, PutType, OrderlyGoesOn
  <1>5. /\ UNCHANGED <<rows, sweeps>>
        /\ job[q].content \in disk' \cup crossed'
        /\ disk \cup crossed \subseteq disk' \cup crossed'
    BY DEF Put, files
  <1>6. PutIsPlaced' BY <1>3, <1>5 DEF IInv, PutIsPlaced
  <1>7. \A c : Live(c)' = Live(c) BY <1>5 DEF Live, Captured, Purged, rows
  <1>8. HoldsAreKept' /\ ListedIsDead'
    BY <1>5, <1>7 DEF IInv, HoldsAreKept, ListedIsDead, Purged, rows, sweeps
  <1>9. LossIsARace' BY <1>5, <1>7 DEF IInv, LossIsARace
  <1> QED BY <1>4, <1>6, <1>8, <1>9 DEF IInv

\* A job that ends has put nothing that is still waited for.
LEMMA EndKeepsPut ==
    ASSUME IInv, NEW q \in Requests, job' = [job EXCEPT ![q] = Idle],
           UNCHANGED <<disk, crossed>>
    PROVE  PutIsPlaced'
  <1>1. /\ job'[q].kind = "none"
        /\ \A p \in Requests \ {q} : job'[p] = job[p]
    BY Ends DEF IInv
  <1> QED BY <1>1 DEF IInv, PutIsPlaced

LEMMA GivesUpKeeps ==
    ASSUME IInv, NEW q \in Requests, job' = [job EXCEPT ![q] = Idle],
           UNCHANGED <<rows, files, sweeps, asked, crossed>>
    PROVE  IInv'
  <1>1. TypeOK' BY TypeParts, RowsFrame, SweepsFrame, CommitType DEF IInv
  <1>2. Orderly'
    <2>1. Known \subseteq Known' /\ UNCHANGED <<state, held>> BY DEF Known, rows
    <2> QED BY <2>1, OrderlyEnds DEF IInv
  <1>3. PutIsPlaced' BY EndKeepsPut DEF files
  <1>4. HoldsAreKept' /\ ListedIsDead' /\ LossIsARace' BY InvFrame DEF files, sweeps
  <1> QED BY <1>1, <1>2, <1>3, <1>4 DEF IInv

LEMMA NextVersionKeeps == ASSUME IInv, NEW q \in Requests, NextVersion(q) PROVE IInv'
  <1>1. UNCHANGED <<rows, files, sweeps, asked, crossed>> BY DEF NextVersion
  <1>2. TypeOK /\ AllFit /\ Orderly BY DEF IInv, Orderly
  <1>3. CASE ~Takes(job[q].source)
    <2>1. job' = [job EXCEPT ![q] = Idle] BY <1>3 DEF NextVersion
    <2> QED BY <1>1, <2>1, GivesUpKeeps
  <1>4. CASE Takes(job[q].source)
    <2>1. job[q] # Idle /\ job[q].step = "write" /\ job[q].source \in Sources
      BY <1>2, JobKinds, About DEF NextVersion
    <2>2. /\ job' = [job EXCEPT ![q].step = "commit",
                                ![q].version = Len(captures[job[q].source]) + 1]
          /\ Len(captures[job[q].source]) + 1 \in Nat
      BY <1>2, <1>4, <2>1, Versions DEF NextVersion
    <2>3. /\ job'[q] # Idle /\ job'[q].content = job[q].content
          /\ \A p \in Requests \ {q} : job'[p] = job[p]
      BY <1>2, <2>1, <2>2, GoesOn
    <2>4. TypeOK' /\ Orderly' BY <1>2, <2>3, NextVersionType, OrderlyGoesOn
    <2>5. PutIsPlaced'
      <3>1. job[q].kind # "none" BY <1>2, <2>1, JobKinds
      <3> QED BY <1>1, <2>1, <2>3, <3>1 DEF IInv, PutIsPlaced, files
    <2>6. HoldsAreKept' /\ ListedIsDead' /\ LossIsARace' BY <1>1, InvFrame DEF files, sweeps
    <2> QED BY <2>4, <2>5, <2>6 DEF IInv
  <1> QED BY <1>3, <1>4

\* What a commit makes live was put, and lies on disk or was crossed.
LEMMA CommitsKeep == ASSUME IInv, NEW q \in Requests, Commits(q) PROVE IInv'
  <1>1. /\ TypeOK' /\ Orderly' /\ HoldsAreKept' /\ Tidy(q)
        /\ job[q].kind # "none" /\ job[q].step \in {"write", "commit"}
    BY CommitsAre DEF IInv
  <1>2. job' = [job EXCEPT ![q] = Idle] /\ UNCHANGED <<disk, crossed>> BY <1>1 DEF Tidy, files
  <1>3. PutIsPlaced' BY <1>2, EndKeepsPut
  <1>4. ASSUME NEW c \in Contents, Live(c)', ~Live(c)
        PROVE  /\ c \in disk \cup crossed
               /\ \A w \in Sweeps : c \notin sweep'[w].left \ sweep'[w].late
    BY <1>1, <1>4 DEF Tidy, IInv, PutIsPlaced
  <1>5. ListedIsDead'
    <2>1. ASSUME NEW w \in Sweeps, NEW c \in sweep'[w].left \ sweep'[w].late
          PROVE  ~Live(c)'
      <3>1. c \in sweep[w].left \ sweep[w].late BY <1>1 DEF Tidy
      <3>2. ~Live(c) BY <3>1 DEF IInv, ListedIsDead
      <3>3. c \in Contents
        <4>1. sweep[w] # Unused BY <3>1 DEF Unused
        <4> QED BY <3>1, <4>1, SweepFields DEF IInv
      <3> QED BY <1>4, <3>2, <3>3
    <2> QED BY <2>1 DEF ListedIsDead
  <1>6. LossIsARace' BY <1>2, <1>4 DEF IInv, LossIsARace
  <1> QED BY <1>1, <1>3, <1>5, <1>6 DEF IInv

Edits(s) == SetRetention(s) \/ SetPrivacy(s) \/ SetDuplicatePolicy(s)

\* A hold is set on a kept source that nobody has locked.
LEMMA EditsKeep == ASSUME IInv, NEW s \in Sources, Edits(s) PROVE IInv'
  <1>1. /\ UNCHANGED <<files, job, sweeps, crossed, state, captures, texts, leaned, cited>>
        /\ Free(s)
    BY DEF Edits, SetRetention, SetPrivacy, SetDuplicatePolicy, Edit, EditOnly
  <1>2. held' = held \/ (Takes(s) /\ held' \subseteq held \cup {s})
    BY DEF Edits, SetRetention, SetPrivacy, SetDuplicatePolicy
  <1>3. TypeOK' BY EditType DEF Edits, IInv
  <1>4. Orderly'
    <2>1. \A q \in Requests : Holds(q) => job[q].source # s BY <1>1 DEF Free, Holds
    <2> QED BY <1>1, <1>2, <2>1
        DEF IInv, Orderly, AllFit, Fits, FreshIsOnce, LocksAreApart, LockedIsKept, Holds, Known
  <1>5. HoldsAreKept' BY <1>1, <1>2 DEF IInv, HoldsAreKept, Purged, Takes
  <1>6. \A c : Live(c)' = Live(c) BY <1>1 DEF Live, Captured, Purged
  <1>7. ListedIsDead' /\ LossIsARace' /\ PutIsPlaced'
    BY <1>1, <1>6 DEF IInv, ListedIsDead, LossIsARace, PutIsPlaced, sweeps, files
  <1> QED BY <1>3, <1>4, <1>5, <1>7 DEF IInv

\* An unlinked content is dead, or cited too late, or waited for by a request
\* that has put it: the last two are what crossed says.
LEMMA UnlinkKeeps == ASSUME IInv, NEW w \in Sweeps, Unlink(w) PROVE IInv'
  <1>1. UNCHANGED <<rows, placed, job, told, asked>> BY DEF Unlink
  <1>2. TypeOK' BY SweepStepType DEF IInv, SweepStep
  <1>3. Orderly' BY <1>1, OrderlyFrame DEF IInv, rows
  <1>4. \A v \in Sweeps : sweep'[v].left = sweep[v].left /\ sweep'[v].late = sweep[v].late
    BY UnlinkRows DEF IInv
  <1>5. \A c : Live(c)' = Live(c) BY <1>1 DEF Live, Captured, Purged, rows
  <1>6. HoldsAreKept' /\ ListedIsDead'
    BY <1>1, <1>4, <1>5 DEF IInv, HoldsAreKept, ListedIsDead, Purged, rows
  <1>7. PICK c \in sweep[w].left :
           \/ /\ disk' = disk \ {c}
              /\ crossed' = IF c \in sweep[w].late \/ Pending(c) THEN crossed \cup {c} ELSE crossed
           \/ UNCHANGED <<disk, crossed>>
    BY DEF Unlink
  <1>8. /\ crossed \subseteq crossed' /\ disk \ {c} \subseteq disk'
        /\ c \in sweep[w].late \/ Pending(c) => c \in crossed' \/ disk' = disk
    BY <1>7
  <1>9. LossIsARace'
    <2>1. Live(c) => c \in sweep[w].late BY <1>7 DEF IInv, ListedIsDead
    <2> QED BY <1>5, <1>8, <2>1 DEF IInv, LossIsARace
  <1>10. PutIsPlaced'
    <2>1. ASSUME NEW q \in Requests, job[q].kind # "none", job[q].step \in {"write", "commit"},
                 job[q].content = c
          PROVE  Pending(c)
      <3>1. job[q] \in Jobs BY <2>1, JobKinds DEF IInv
      <3> QED BY <2>1, <3>1 DEF Pending, Jobs
    <2> QED BY <1>1, <1>8, <2>1 DEF IInv, PutIsPlaced
  <1> QED BY <1>2, <1>3, <1>6, <1>9, <1>10 DEF IInv

LEMMA InventoryKeeps == ASSUME IInv, NEW w \in Sweeps, Inventory(w) PROVE IInv'
  <1>1. UNCHANGED <<rows, files, job, told, asked, crossed>> BY DEF Inventory
  <1>2. TypeOK' BY SweepStepType DEF IInv, SweepStep
  <1>3. Orderly' BY <1>1, OrderlyFrame DEF IInv, rows
  <1>4. /\ \A c \in sweep'[w].left : ~Live(c)
        /\ \A v \in Sweeps \ {w} : sweep'[v] = sweep[v]
    BY InventoryRows DEF IInv
  <1>5. \A c : Live(c)' = Live(c) BY <1>1 DEF Live, Captured, Purged, rows
  <1>6. ListedIsDead' BY <1>4, <1>5 DEF IInv, ListedIsDead
  <1>7. HoldsAreKept' /\ LossIsARace' /\ PutIsPlaced'
    BY <1>1, <1>5 DEF IInv, HoldsAreKept, LossIsARace, PutIsPlaced, Purged, rows, files
  <1> QED BY <1>2, <1>3, <1>6, <1>7 DEF IInv

LEMMA SweepsKeep == ASSUME IInv, NEW w \in Sweeps, SweepStep(w) PROVE IInv'
  <1>1. ASSUME UNCHANGED <<rows, files, job, asked, crossed>>,
               \A v \in Sweeps : sweep'[v].left \ sweep'[v].late
                                    \subseteq sweep[v].left \ sweep[v].late
        PROVE  IInv'
    <2>1. TypeOK' BY SweepStepType DEF IInv
    <2>2. Orderly' BY <1>1, OrderlyFrame DEF IInv, rows
    <2>3. PutIsPlaced' BY <1>1 DEF IInv, PutIsPlaced, files
    <2>4. HoldsAreKept' /\ ListedIsDead' /\ LossIsARace' BY <1>1, InvFrame DEF files
    <2> QED BY <2>1, <2>2, <2>3, <2>4 DEF IInv
  <1>2. ASSUME NEW h \in Workspaces, StartSweep(w, h) PROVE IInv'
    BY <1>1, <1>2, StartSweepRows DEF IInv, StartSweep
  <1>3. CASE Record(w) BY <1>1, <1>3, RecordRows DEF IInv, Record
  <1>4. CASE FinishSweep(w) BY <1>1, <1>4, FinishSweepRows DEF IInv, FinishSweep
  <1>5. CASE FailSweep(w) \/ SweepDies(w)
    BY <1>1, <1>5, StopsRows DEF IInv, FailSweep, SweepDies, Stops
  <1> QED BY <1>2, <1>3, <1>4, <1>5, UnlinkKeeps, InventoryKeeps DEF SweepStep

LEMMA NextIs ==
    ASSUME Next
    PROVE  \/ \E s \in Sources : Edits(s)
           \/ \E q \in Requests : Starts(q) \/ Put(q) \/ NextVersion(q) \/ Commits(q) \/ GivesUp(q)
           \/ \E w \in Sweeps : SweepStep(w)
  BY DEF Next, Edits, Starts, Commits, SweepStep

LEMMA Stutters == IInv /\ UNCHANGED vars => IInv'
  BY DEF IInv, TypeOK, Orderly, AllFit, Fits, FreshIsOnce, LocksAreApart, LockedIsKept, Holds,
         HoldsAreKept, PutIsPlaced, ListedIsDead, LossIsARace, Live, Captured, Known, Purged,
         vars, rows, files, sweeps

LEMMA NextKeeps == IInv /\ [Next]_vars => IInv'
  <1> SUFFICES ASSUME IInv, [Next]_vars PROVE IInv' OBVIOUS
  <1>1. ASSUME Next PROVE IInv'
    <2>1. ASSUME NEW s \in Sources, Edits(s) PROVE IInv' BY <2>1, EditsKeep
    <2>2. ASSUME NEW q \in Requests,
                 Starts(q) \/ Put(q) \/ NextVersion(q) \/ Commits(q) \/ GivesUp(q)
          PROVE  IInv'
      <3>1. GivesUp(q) => IInv' BY GivesUpKeeps DEF GivesUp
      <3> QED BY <2>2, <3>1, StartsKeep, PutKeeps, NextVersionKeeps, CommitsKeep
    <2>3. ASSUME NEW w \in Sweeps, SweepStep(w) PROVE IInv' BY <2>3, SweepsKeep
    <2> QED BY <1>1, <2>1, <2>2, <2>3, NextIs
  <1> QED BY <1>1, Stutters

THEOREM Inductive == Spec => []IInv
  BY InitOK, NextKeeps, PTL DEF Spec

\* Every reachable state is well typed, whatever the bounds.
THEOREM TypeCorrect == Spec => []TypeOK
  <1>1. IInv => TypeOK BY DEF IInv
  <1> QED BY Inductive, <1>1, PTL

\* The bytes of a live capture, text, artifact or revision are missing only if
\* a sweep crossed their citation: no order of captures, purges and sweeps of
\* any workspaces loses them otherwise.
THEOREM LossIsAlwaysARace == Spec => []LossIsARace
  <1>1. IInv => LossIsARace BY DEF IInv
  <1> QED BY Inductive, <1>1, PTL

\* A source under legal hold is never purged, although the review of the purge
\* and the update of the hold are requests of their own.
THEOREM HoldsAreAlwaysKept == Spec => []HoldsAreKept
  <1>1. IInv => HoldsAreKept BY DEF IInv
  <1> QED BY Inductive, <1>1, PTL

\* A purged source is purged for good, and its captures stay what they were.
THEOREM PurgeIsFinal == Spec => PurgedForGood
  <1>1. IInv /\ [Next]_vars => [\A s \in Purged : state'[s] = "purged" /\ captures'[s] = captures[s]]_vars
    <2> SUFFICES ASSUME IInv, Next
                 PROVE  \A s \in Purged : state'[s] = "purged" /\ captures'[s] = captures[s]
      OBVIOUS
    <2>1. UNCHANGED <<state, captures>>
             => \A s \in Purged : state'[s] = "purged" /\ captures'[s] = captures[s]
      BY DEF Purged
    <2>2. ASSUME NEW s \in Sources, Edits(s) PROVE UNCHANGED <<state, captures>>
      BY <2>2 DEF Edits, SetRetention, SetPrivacy, SetDuplicatePolicy, EditOnly
    <2>3. ASSUME NEW q \in Requests, Starts(q) PROVE UNCHANGED <<state, captures>>
      BY <2>3, StartsAre DEF IInv, rows
    <2>4. ASSUME NEW q \in Requests, Put(q) \/ NextVersion(q) \/ GivesUp(q)
          PROVE  UNCHANGED <<state, captures>>
      BY <2>4 DEF Put, NextVersion, GivesUp, rows
    <2>5. ASSUME NEW q \in Requests, Commits(q)
          PROVE  \A s \in Purged : state'[s] = "purged" /\ captures'[s] = captures[s]
      BY <2>5, CommitsAre DEF IInv, Tidy
    <2>6. ASSUME NEW w \in Sweeps, SweepStep(w) PROVE UNCHANGED <<state, captures>>
      BY <2>6 DEF SweepStep, StartSweep, Inventory, Unlink, Record, FinishSweep, FailSweep,
                  SweepDies, Stops, rows
    <2> QED BY <2>1, <2>2, <2>3, <2>4, <2>5, <2>6, NextIs
  <1> QED BY Inductive, <1>1, PTL DEF Spec, PurgedForGood

-----------------------------------------------------------------------------
(* The ledger.                                                             *)

\* The sweeps that removed a content, whether they have said so or not yet.
Gone == [c \in Contents |->
    {w \in Sweeps : told[w][c] = "deleted" \/ (sweep[w].outcome = "deleted" /\ sweep[w].item = c)}]

Accounted == \A c \in Contents :
    IsFiniteSet(Gone[c]) /\ Cardinality(Gone[c]) + Cardinality({c} \cap disk) <= placed[c]

\* A sweep that has met a failure is past its items, and does not complete.
ListsAreDone == \A w \in Sweeps :
    /\ sweep[w].status = "completed" => sweep[w].step = "gone" /\ sweep[w].left = {}
    /\ sweep[w].step \in {"none", "inventory", "items"} \/ sweep[w].status = "completed" =>
          \A c \in Contents : told[w][c] # "failed"

LedgerInv == Accounted /\ ListsAreDone

LEMMA OnDisk ==
    ASSUME NEW c, NEW D
    PROVE  Cardinality({c} \cap D) = IF c \in D THEN 1 ELSE 0
  <1>1. CASE c \in D
    <2>1. {c} \cap D = {c} BY <1>1
    <2> QED BY <1>1, <2>1, FS_Singleton
  <1>2. CASE c \notin D
    <2>1. {c} \cap D = {} BY <1>2
    <2> QED BY <1>2, <2>1, FS_EmptySet
  <1> QED BY <1>1, <1>2

LEMMA GoneShrinks ==
    ASSUME TypeOK, Accounted, UNCHANGED <<disk, placed>>,
           \A c \in Contents : Gone'[c] \subseteq Gone[c]
    PROVE  Accounted'
  <1> SUFFICES ASSUME NEW c \in Contents
               PROVE  /\ IsFiniteSet(Gone'[c])
                      /\ Cardinality(Gone'[c]) + Cardinality({c} \cap disk) <= placed[c]
    BY DEF Accounted
  <1>1. IsFiniteSet(Gone[c]) /\ Cardinality(Gone[c]) + Cardinality({c} \cap disk) <= placed[c]
    BY DEF Accounted
  <1>2. IsFiniteSet(Gone'[c]) /\ Cardinality(Gone'[c]) <= Cardinality(Gone[c])
    BY <1>1, FS_Subset
  <1>3. Cardinality(Gone'[c]) \in Nat /\ Cardinality(Gone[c]) \in Nat
    BY <1>1, <1>2, FS_CardinalityType
  <1>4. Cardinality({c} \cap disk) \in Nat BY OnDisk
  <1>5. placed[c] \in Int BY BoundsAssumption DEF TypeOK
  <1> QED BY <1>1, <1>2, <1>3, <1>4, <1>5

\* Nothing that the ledger says is touched.
LEMMA LedgerFrame ==
    ASSUME TypeOK, LedgerInv, UNCHANGED <<disk, placed, told>>,
           \A w \in Sweeps : /\ sweep'[w].status = sweep[w].status /\ sweep'[w].step = sweep[w].step
                             /\ sweep'[w].left = sweep[w].left /\ sweep'[w].item = sweep[w].item
                             /\ sweep'[w].outcome = sweep[w].outcome
    PROVE  LedgerInv'
  <1>1. \A c \in Contents : Gone'[c] \subseteq Gone[c] BY DEF Gone
  <1>2. Accounted' BY <1>1, GoneShrinks DEF LedgerInv
  <1>3. ListsAreDone' BY DEF LedgerInv, ListsAreDone
  <1> QED BY <1>2, <1>3 DEF LedgerInv

LEMMA CitesLeaves ==
    ASSUME TypeOK, NEW c, Cites(c), NEW w \in Sweeps
    PROVE  /\ sweep'[w].status = sweep[w].status /\ sweep'[w].step = sweep[w].step
           /\ sweep'[w].left = sweep[w].left /\ sweep'[w].item = sweep[w].item
           /\ sweep'[w].outcome = sweep[w].outcome
  <1>1. CASE c \in sweep[w].left
    <2>1. sweep[w] # Unused BY <1>1 DEF Unused
    <2>2. sweep[w] \in SweepRows BY <2>1, SweepFields
    <2>3. sweep'[w] = [sweep[w] EXCEPT !.late = @ \cup {c}] BY <1>1 DEF Cites
    <2> QED BY <2>2, <2>3 DEF SweepRows
  <1>2. CASE c \notin sweep[w].left BY <1>2 DEF Cites
  <1> QED BY <1>1, <1>2

LEMMA RequestsLeaveTheLedger ==
    ASSUME TypeOK, LedgerInv, NEW q \in Requests,
           Starts(q) \/ NextVersion(q) \/ Commits(q) \/ GivesUp(q)
    PROVE  LedgerInv'
  <1>1. UNCHANGED <<disk, placed, told>> /\ (UNCHANGED sweep \/ \E c : Cites(c))
    <2>1. CASE Starts(q)
      <3>1. PICK kind, step, s, c : Begin(q, kind, step, s, c)
        BY <2>1 DEF Starts, Create, AddCapture, Extract, Lean, Purge, Cite
      <3> QED BY <3>1 DEF Begin, files, sweeps
    <2>2. CASE NextVersion(q) \/ GivesUp(q) BY <2>2 DEF NextVersion, GivesUp, files, sweeps
    <2>3. CASE Commits(q)
      BY <2>3 DEF Commits, CommitCapture, CommitCreate, CommitExtract, CommitLean, CommitCite,
                  MarkPurged, files, sweeps
    <2> QED BY <2>1, <2>2, <2>3
  <1>2. CASE UNCHANGED sweep BY <1>1, <1>2, LedgerFrame
  <1>3. CASE \E c : Cites(c) BY <1>1, <1>3, CitesLeaves, LedgerFrame
  <1> QED BY <1>1, <1>2, <1>3

\* Bytes that are put are one more time placed, and one more time on disk.
LEMMA PutLeavesTheLedger ==
    ASSUME TypeOK, LedgerInv, AllFit, NEW q \in Requests, Put(q) PROVE LedgerInv'
  <1> DEFINE d == job[q].content
  <1>1. UNCHANGED <<sweep, told>> BY DEF Put, sweeps
  <1>2. ListsAreDone' BY <1>1 DEF LedgerInv, ListsAreDone
  <1>3. Gone' = Gone BY <1>1 DEF Gone
  <1>4. d \in Contents BY JobKinds DEF Put, AllFit, Fits
  <1>5. CASE d \in disk
    <2>1. UNCHANGED <<disk, placed>> BY <1>5 DEF Put, files
    <2>2. Accounted' BY <1>3, <2>1, GoneShrinks DEF LedgerInv
    <2> QED BY <1>2, <2>2 DEF LedgerInv
  <1>6. CASE d \notin disk
    <2>1. disk' = disk \cup {d} /\ placed' = [placed EXCEPT ![d] = placed[d] + 1]
      BY <1>6 DEF Put
    <2> HIDE DEF d
    <2>2. ASSUME NEW c \in Contents
          PROVE  /\ IsFiniteSet(Gone[c])
                 /\ Cardinality(Gone[c]) + Cardinality({c} \cap disk') <= placed'[c]
      <3>1. IsFiniteSet(Gone[c]) /\ Cardinality(Gone[c]) + Cardinality({c} \cap disk) <= placed[c]
        BY DEF LedgerInv, Accounted
      <3>2. Cardinality(Gone[c]) \in Nat BY <3>1, FS_CardinalityType
      <3>3. placed \in [Contents -> 0 .. MaxPlaced] /\ placed[c] \in Int
        BY BoundsAssumption DEF TypeOK
      <3>4. Cardinality({c} \cap disk) = (IF c \in disk THEN 1 ELSE 0) BY OnDisk
      <3>5. Cardinality({c} \cap disk') = (IF c \in disk' THEN 1 ELSE 0) BY OnDisk
      <3>6. CASE c = d
        <4>1. placed'[c] = placed[c] + 1 BY <2>1, <3>3, <3>6
        <4> QED BY <1>6, <2>1, <3>1, <3>2, <3>3, <3>4, <3>5, <3>6, <4>1
      <3>7. CASE c # d
        <4>1. placed'[c] = placed[c] /\ (c \in disk' <=> c \in disk) BY <2>1, <3>3, <3>7
        <4> QED BY <3>1, <3>4, <3>5, <4>1
      <3> QED BY <3>6, <3>7
    <2>3. Accounted' BY <1>3, <2>2 DEF Accounted
    <2> QED BY <1>2, <2>3 DEF LedgerInv
  <1> QED BY <1>5, <1>6

\* A sweep whose row is written, while nobody else's is.
LEMMA OneRow ==
    ASSUME TypeOK, LedgerInv, NEW w \in Sweeps, UNCHANGED <<disk, placed>>,
           \A v \in Sweeps \ {w} : sweep'[v] = sweep[v] /\ told'[v] = told[v],
           \A c \in Contents : w \in Gone'[c] => w \in Gone[c],
           sweep'[w].status = "completed" => sweep'[w].step = "gone" /\ sweep'[w].left = {},
           sweep'[w].step \in {"none", "inventory", "items"} \/ sweep'[w].status = "completed" =>
              \A c \in Contents : told'[w][c] # "failed"
    PROVE  LedgerInv'
  <1>1. \A c \in Contents : Gone'[c] \subseteq Gone[c] BY DEF Gone
  <1>2. Accounted' BY <1>1, GoneShrinks DEF LedgerInv
  <1>3. ListsAreDone' BY DEF LedgerInv, ListsAreDone
  <1> QED BY <1>2, <1>3 DEF LedgerInv

LEMMA StartLeavesTheLedger ==
    ASSUME TypeOK, LedgerInv, NEW w \in Sweeps, NEW h \in Workspaces, StartSweep(w, h)
    PROVE  LedgerInv'
  <1>1. PICK seen \in SUBSET {v \in Sweeps : sweep[v].status = "running" /\ sweep[v].home = h} :
           sweep' = [v \in Sweeps |->
                      IF v = w THEN [status |-> "running", home |-> h, step |-> "inventory",
                                     left |-> {}, late |-> {}, item |-> "none",
                                     outcome |-> "none"]
                      ELSE IF v \in seen THEN [sweep[v] EXCEPT !.status = "interrupted"]
                      ELSE sweep[v]]
    BY DEF StartSweep
  <1>2. UNCHANGED <<disk, placed, told>> /\ sweep[w].step = "none"
    BY DEF StartSweep, files, Unused
  <1>3. /\ sweep'[w].outcome = "none" /\ sweep'[w].status = "running"
        /\ sweep'[w].step = "inventory"
    BY <1>1
  <1>4. ASSUME NEW v \in Sweeps \ {w}
        PROVE  /\ sweep'[v].step = sweep[v].step /\ sweep'[v].left = sweep[v].left
               /\ sweep'[v].item = sweep[v].item /\ sweep'[v].outcome = sweep[v].outcome
               /\ sweep'[v].status = "completed" => sweep[v].status = "completed"
    <2>1. CASE v \in seen
      <3>1. sweep[v].status = "running" BY <2>1
      <3>2. sweep[v] \in SweepRows
        <4>1. Unused.status = "none" BY DEF Unused
        <4> QED BY <3>1, <4>1 DEF TypeOK
      <3>3. sweep'[v] = [sweep[v] EXCEPT !.status = "interrupted"] BY <1>1, <2>1
      <3> QED BY <3>2, <3>3 DEF SweepRows
    <2>2. CASE v \notin seen BY <1>1, <2>2
    <2> QED BY <2>1, <2>2
  <1>5. \A c \in Contents : Gone'[c] \subseteq Gone[c] BY <1>2, <1>3, <1>4 DEF Gone
  <1>6. Accounted' BY <1>2, <1>5, GoneShrinks DEF LedgerInv
  <1>7. ListsAreDone' BY <1>2, <1>3, <1>4 DEF LedgerInv, ListsAreDone
  <1> QED BY <1>6, <1>7 DEF LedgerInv

LEMMA InventoryLeavesTheLedger ==
    ASSUME TypeOK, LedgerInv, NEW w \in Sweeps, Inventory(w) PROVE LedgerInv'
  <1>1. PICK list \in SUBSET Contents :
           sweep' = [sweep EXCEPT ![w].step = "items", ![w].left = list]
    BY DEF Inventory
  <1> DEFINE r == [sweep[w] EXCEPT !.step = "items", !.left = list]
  <1>2. sweep[w] \in SweepRows /\ sweep[w].step = "inventory" BY Begun DEF Inventory
  <1>3. UNCHANGED <<disk, placed, told>> BY DEF Inventory, files
  <1>4. sweep' = [sweep EXCEPT ![w] = r] BY <1>1
  <1>5. /\ r \in SweepRows /\ r.step = "items" /\ r.status = sweep[w].status
        /\ r.item = sweep[w].item /\ r.outcome = sweep[w].outcome
    BY <1>2 DEF SweepRows
  <1> HIDE DEF r
  <1>6. sweep'[w] = r /\ \A v \in Sweeps \ {w} : sweep'[v] = sweep[v]
    BY <1>4, <1>5, RowSet
  <1>7. /\ sweep[w].status # "completed"
        /\ \A c \in Contents : told[w][c] # "failed"
    BY <1>2 DEF LedgerInv, ListsAreDone
  <1>8. \A c \in Contents : w \in Gone'[c] => w \in Gone[c] BY <1>3, <1>5, <1>6 DEF Gone
  <1> QED BY <1>3, <1>5, <1>6, <1>7, <1>8, OneRow

\* A removal is owed to the ledger from the moment the file is gone.
LEMMA UnlinkLeavesTheLedger ==
    ASSUME TypeOK, LedgerInv, NEW w \in Sweeps, Unlink(w) PROVE LedgerInv'
  <1>1. PICK d \in sweep[w].left, o \in Outcomes :
           /\ sweep' = [sweep EXCEPT ![w].item = d, ![w].outcome = o]
           /\ \/ o = "deleted" /\ d \in disk /\ disk' = disk \ {d}
              \/ o # "deleted" /\ disk' = disk
    <2>1. \A c : Outcome(c) \in Outcomes /\ "failed" \in Outcomes BY DEF Outcome, Outcomes
    <2>2. \A c : /\ Outcome(c) = "deleted" => c \in disk
                 /\ Outcome(c) # "deleted" => c \notin disk
      BY DEF Outcome
    <2>3. \A c : c \notin disk => disk \ {c} = disk OBVIOUS
    <2>4. PICK c \in sweep[w].left :
             \/ sweep' = [sweep EXCEPT ![w].item = c, ![w].outcome = Outcome(c)] /\ disk' = disk \ {c}
             \/ sweep' = [sweep EXCEPT ![w].item = c, ![w].outcome = "failed"] /\ disk' = disk
      BY DEF Unlink
    <2> QED BY <2>1, <2>2, <2>3, <2>4
  <1> DEFINE r == [sweep[w] EXCEPT !.item = d, !.outcome = o]
  <1>2. sweep[w] \in SweepRows /\ sweep[w].step = "items" /\ sweep[w].outcome = "none"
    BY Begun DEF Unlink
  <1>3. UNCHANGED <<placed, told>> BY DEF Unlink
  <1>4. sweep' = [sweep EXCEPT ![w] = r] BY <1>1
  <1>5. /\ r \in SweepRows /\ r.step = "items" /\ r.status = sweep[w].status
        /\ r.item = d /\ r.outcome = o /\ r.left = sweep[w].left
    BY <1>1, <1>2 DEF SweepRows
  <1> HIDE DEF r
  <1>6. sweep'[w] = r /\ \A v \in Sweeps \ {w} : sweep'[v] = sweep[v]
    BY <1>4, <1>5, RowSet
  <1>7. d \in Contents BY <1>1, <1>2 DEF SweepRows
  <1>8. ListsAreDone' BY <1>2, <1>3, <1>5, <1>6 DEF LedgerInv, ListsAreDone
  <1>9. ASSUME NEW c \in Contents
        PROVE  /\ IsFiniteSet(Gone'[c])
               /\ Cardinality(Gone'[c]) + Cardinality({c} \cap disk') <= placed'[c]
    <2>1. IsFiniteSet(Gone[c]) /\ Cardinality(Gone[c]) + Cardinality({c} \cap disk) <= placed[c]
      BY DEF LedgerInv, Accounted
    <2>2. Cardinality(Gone[c]) \in Nat BY <2>1, FS_CardinalityType
    <2>3. placed[c] \in Int BY BoundsAssumption DEF TypeOK
    <2>4. Cardinality({c} \cap disk) = (IF c \in disk THEN 1 ELSE 0) BY OnDisk
    <2>5. Cardinality({c} \cap disk') = (IF c \in disk' THEN 1 ELSE 0) BY OnDisk
    <2>6. CASE c = d /\ o = "deleted"
      <3>1. Gone'[c] \subseteq Gone[c] \cup {w}
        BY <1>3, <1>6 DEF Gone
      <3>2. IsFiniteSet(Gone[c] \cup {w}) /\ Cardinality(Gone[c] \cup {w}) <= Cardinality(Gone[c]) + 1
        <4>1. /\ IsFiniteSet(Gone[c] \cup {w})
              /\ Cardinality(Gone[c] \cup {w}) =
                    IF w \in Gone[c] THEN Cardinality(Gone[c]) ELSE Cardinality(Gone[c]) + 1
          BY <2>1, FS_AddElement
        <4> QED BY <2>2, <4>1
      <3>3. IsFiniteSet(Gone'[c]) /\ Cardinality(Gone'[c]) <= Cardinality(Gone[c] \cup {w})
        BY <3>1, <3>2, FS_Subset
      <3>4. Cardinality(Gone'[c]) \in Nat /\ Cardinality(Gone[c] \cup {w}) \in Nat
        BY <3>2, <3>3, FS_CardinalityType
      <3>5. c \in disk /\ c \notin disk' BY <1>1, <2>6
      <3> QED BY <1>3, <2>1, <2>2, <2>3, <2>4, <2>5, <3>2, <3>3, <3>4, <3>5
    <2>7. CASE ~(c = d /\ o = "deleted")
      <3>1. Gone'[c] \subseteq Gone[c] BY <1>3, <1>5, <1>6, <2>7 DEF Gone
      <3>2. IsFiniteSet(Gone'[c]) /\ Cardinality(Gone'[c]) <= Cardinality(Gone[c])
        BY <2>1, <3>1, FS_Subset
      <3>3. Cardinality(Gone'[c]) \in Nat BY <3>2, FS_CardinalityType
      <3>4. c \in disk' <=> c \in disk BY <1>1, <2>7
      <3> QED BY <1>3, <2>1, <2>2, <2>3, <2>4, <2>5, <3>2, <3>3, <3>4
    <2> QED BY <2>6, <2>7
  <1>10. Accounted' BY <1>9 DEF Accounted
  <1> QED BY <1>8, <1>10 DEF LedgerInv

LEMMA RecordLeavesTheLedger ==
    ASSUME TypeOK, LedgerInv, NEW w \in Sweeps, Record(w) PROVE LedgerInv'
  <1> DEFINE r == [sweep[w] EXCEPT !.item = "none", !.outcome = "none",
                      !.left = @ \ {sweep[w].item},
                      !.step = IF sweep[w].outcome = "failed" THEN "failing" ELSE @]
             i == sweep[w].item
             o == sweep[w].outcome
  <1>1. sweep[w] \in SweepRows /\ sweep[w].step = "items" BY Begun DEF Record
  <1>2. sweep' = [sweep EXCEPT ![w] = r] /\ told' = [told EXCEPT ![w][i] = o]
        /\ UNCHANGED <<disk, placed>>
    BY DEF Record, files
  <1>3. /\ r \in SweepRows /\ r.outcome = "none" /\ r.status = sweep[w].status
        /\ o = "failed" => r.step = "failing"
    BY <1>1 DEF SweepRows
  <1> HIDE DEF r
  <1>4. sweep'[w] = r /\ \A v \in Sweeps \ {w} : sweep'[v] = sweep[v]
    BY <1>2, <1>3, RowSet
  <1>5. /\ \A v \in Sweeps \ {w} : told'[v] = told[v]
        /\ \A c \in Contents : told'[w][c] = IF c = i THEN o ELSE told[w][c]
    BY <1>2 DEF TypeOK
  <1>6. /\ sweep[w].status # "completed"
        /\ \A c \in Contents : told[w][c] # "failed"
    BY <1>1 DEF LedgerInv, ListsAreDone
  <1>7. \A c \in Contents : w \in Gone'[c] => w \in Gone[c] BY <1>3, <1>4, <1>5 DEF Gone
  <1>8. sweep'[w].step \in {"none", "inventory", "items"} =>
           \A c \in Contents : told'[w][c] # "failed"
    BY <1>3, <1>4, <1>5, <1>6
  <1> QED BY <1>2, <1>3, <1>4, <1>5, <1>6, <1>7, <1>8, OneRow

LEMMA EndsLeaveTheLedger ==
    ASSUME TypeOK, LedgerInv, NEW w \in Sweeps, FinishSweep(w) \/ FailSweep(w) \/ SweepDies(w)
    PROVE  LedgerInv'
  <1>1. UNCHANGED <<disk, placed, told>>
    BY DEF FinishSweep, FailSweep, SweepDies, Stops, files
  <1>2. CASE FinishSweep(w)
    <2> DEFINE r == [sweep[w] EXCEPT !.status = "completed", !.step = "gone", !.late = {}]
    <2>1. sweep[w] \in SweepRows /\ sweep[w].step = "items" /\ sweep[w].left = {}
      BY <1>2, Begun DEF FinishSweep
    <2>2. sweep' = [sweep EXCEPT ![w] = r] BY <1>2 DEF FinishSweep
    <2>3. /\ r \in SweepRows /\ r.step = "gone" /\ r.left = {}
          /\ r.item = sweep[w].item /\ r.outcome = sweep[w].outcome
      BY <2>1 DEF SweepRows
    <2> HIDE DEF r
    <2>4. sweep'[w] = r /\ \A v \in Sweeps \ {w} : sweep'[v] = sweep[v]
      BY <2>2, <2>3, RowSet
    <2>5. \A c \in Contents : told[w][c] # "failed" BY <2>1 DEF LedgerInv, ListsAreDone
    <2>6. \A c \in Contents : w \in Gone'[c] => w \in Gone[c] BY <1>1, <2>3, <2>4 DEF Gone
    <2> QED BY <1>1, <2>3, <2>4, <2>5, <2>6, OneRow
  <1>3. CASE FailSweep(w) \/ SweepDies(w)
    <2>1. sweep[w] \in SweepRows /\ sweep[w].status # "completed"
      BY <1>3, Begun DEF FailSweep, SweepDies, Stops, LedgerInv, ListsAreDone
    <2>2. PICK status \in {"running", "interrupted", "failed"} :
             sweep' = [sweep EXCEPT ![w] = [Unused EXCEPT !.status = status,
                                               !.home = sweep[w].home, !.step = "gone"]]
      <3>1. sweep[w].status \in {"running", "interrupted", "failed"}
        BY <2>1 DEF SweepRows
      <3> QED BY <1>3, <3>1 DEF FailSweep, SweepDies, Stops
    <2> DEFINE r == [Unused EXCEPT !.status = status, !.home = sweep[w].home, !.step = "gone"]
    <2>3. sweep' = [sweep EXCEPT ![w] = r] BY <2>2
    <2>4. /\ r \in SweepRows /\ r.status = status /\ r.step = "gone" /\ r.outcome = "none"
      BY <2>1 DEF SweepRows, Unused
    <2> HIDE DEF r
    <2>5. sweep'[w] = r /\ \A v \in Sweeps \ {w} : sweep'[v] = sweep[v]
      BY <2>3, <2>4, RowSet
    <2>6. \A c \in Contents : w \in Gone'[c] => w \in Gone[c] BY <1>1, <2>4, <2>5 DEF Gone
    <2> QED BY <1>1, <2>2, <2>4, <2>5, <2>6, OneRow
  <1> QED BY <1>2, <1>3

LEMMA LedgerBegins == Init => LedgerInv
  <1> SUFFICES ASSUME Init PROVE LedgerInv OBVIOUS
  <1>1. /\ sweep = [w \in Sweeps |-> Unused]
        /\ told = [w \in Sweeps |-> [c \in Contents |-> "none"]]
        /\ placed = [c \in Contents |-> Cardinality({c} \cap disk)]
    BY DEF Init
  <1>2. \A c \in Contents : Gone[c] = {} BY <1>1 DEF Gone, Unused
  <1>3. Accounted
    <2> SUFFICES ASSUME NEW c \in Contents
                 PROVE  /\ IsFiniteSet(Gone[c])
                        /\ Cardinality(Gone[c]) + Cardinality({c} \cap disk) <= placed[c]
      BY DEF Accounted
    <2>1. IsFiniteSet(Gone[c]) /\ Cardinality(Gone[c]) = 0 BY <1>2, FS_EmptySet
    <2>2. Cardinality({c} \cap disk) \in Nat BY OnDisk
    <2> QED BY <1>1, <2>1, <2>2
  <1>4. ListsAreDone BY <1>1 DEF ListsAreDone, Unused
  <1> QED BY <1>3, <1>4 DEF LedgerInv

LEMMA LedgerKept == IInv /\ LedgerInv /\ [Next]_vars => LedgerInv'
  <1> SUFFICES ASSUME IInv, LedgerInv, [Next]_vars PROVE LedgerInv' OBVIOUS
  <1>1. TypeOK /\ AllFit BY DEF IInv, Orderly
  <1>2. ASSUME UNCHANGED <<files, sweeps>> PROVE LedgerInv'
    BY <1>1, <1>2, LedgerFrame DEF files, sweeps
  <1>3. ASSUME NEW s \in Sources, Edits(s) PROVE LedgerInv'
    BY <1>2, <1>3 DEF Edits, SetRetention, SetPrivacy, SetDuplicatePolicy, EditOnly
  <1>4. ASSUME NEW q \in Requests,
               Starts(q) \/ Put(q) \/ NextVersion(q) \/ Commits(q) \/ GivesUp(q)
        PROVE  LedgerInv'
    BY <1>1, <1>4, RequestsLeaveTheLedger, PutLeavesTheLedger
  <1>5. ASSUME NEW w \in Sweeps, SweepStep(w) PROVE LedgerInv'
    BY <1>1, <1>5, StartLeavesTheLedger, InventoryLeavesTheLedger, UnlinkLeavesTheLedger,
       RecordLeavesTheLedger, EndsLeaveTheLedger DEF SweepStep
  <1>6. CASE Next BY <1>3, <1>4, <1>5, <1>6, NextIs
  <1>7. CASE UNCHANGED vars BY <1>2, <1>7 DEF vars
  <1> QED BY <1>6, <1>7

\* Over all sweeps a content is told deleted at most as often as it was
\* written, less the copy that lies there, and a completed sweep has left no
\* item of its list and no failure behind.
THEOREM LedgerIsAlwaysTrue == Spec => []LedgerIsTrue
  <1>1. Spec => [](IInv /\ LedgerInv)
    <2>1. Init => IInv /\ LedgerInv BY InitOK, LedgerBegins
    <2>2. IInv /\ LedgerInv /\ [Next]_vars => (IInv /\ LedgerInv)'
      BY NextKeeps, LedgerKept
    <2> QED BY <2>1, <2>2, PTL DEF Spec
  <1>2. IInv /\ LedgerInv => LedgerIsTrue
    <2> SUFFICES ASSUME IInv, LedgerInv PROVE LedgerIsTrue OBVIOUS
    <2>1. ASSUME NEW c \in Contents
          PROVE  Deletions(c) + Cardinality({c} \cap disk) <= placed[c]
      <3> DEFINE T == {w \in Sweeps : told[w][c] = "deleted"}
      <3>1. T \subseteq Gone[c] BY DEF Gone
      <3>2. /\ IsFiniteSet(Gone[c])
            /\ Cardinality(Gone[c]) + Cardinality({c} \cap disk) <= placed[c]
        BY DEF LedgerInv, Accounted
      <3>3. IsFiniteSet(T) /\ Cardinality(T) <= Cardinality(Gone[c])
        BY <3>1, <3>2, FS_Subset
      <3>4. Cardinality(T) \in Nat /\ Cardinality(Gone[c]) \in Nat
        BY <3>2, <3>3, FS_CardinalityType
      <3>5. Cardinality({c} \cap disk) \in Nat BY OnDisk
      <3>6. placed[c] \in Int BY BoundsAssumption DEF IInv, TypeOK
      <3>7. Deletions(c) = Cardinality(T) BY DEF Deletions
      <3> HIDE DEF T
      <3> QED BY <3>2, <3>3, <3>4, <3>5, <3>6, <3>7
    <2>2. \A w \in Sweeps : sweep[w].status = "completed"
             => sweep[w].left = {} /\ \A c \in Contents : told[w][c] # "failed"
      BY DEF LedgerInv, ListsAreDone
    <2> QED BY <2>1, <2>2 DEF LedgerIsTrue
  <1> QED BY <1>1, <1>2, PTL

-----------------------------------------------------------------------------
(* Versions.                                                               *)

\* A source that is not there yet has no version: what creates it adds one to
\* none.
AbsentIsEmpty == \A s \in Sources \ Known : captures[s] = <<>>

\* A step leaves the versions alone, or adds one that the policy allows.
Grows(s) ==
    \/ captures'[s] = captures[s]
    \/ \E c \in Contents : /\ captures'[s] = Append(captures[s], c)
                           /\ s \in blocks => ~Captured(s, c)

LEMMA GrowsHasNoTwin ==
    ASSUME TypeOK, NEW s \in Sources, Grows(s)
    PROVE  /\ IsPrefix(captures[s], captures'[s])
           /\ s \in blocks /\ captures'[s] # captures[s]
                 => ~Captured(s, Last(captures'[s]))
  <1> DEFINE t == captures[s]
  <1>1. t \in Seq(Contents) BY DEF TypeOK
  <1>2. CASE captures'[s] = t
    <2> HIDE DEF t
    <2>1. IsPrefix(t, t) BY <1>1 DEF IsPrefix
    <2> QED BY <1>2, <2>1 DEF t
  <1>3. ASSUME NEW c \in Contents, captures'[s] = Append(t, c), s \in blocks => ~Captured(s, c)
        PROVE  /\ IsPrefix(t, captures'[s])
               /\ s \in blocks => ~Captured(s, Last(captures'[s]))
    <2> HIDE DEF t
    <2>1. Append(t, c) \in Seq(Contents) /\ Len(Append(t, c)) = Len(t) + 1
          /\ \A i \in 1 .. Len(t) : Append(t, c)[i] = t[i]
      BY <1>1
    <2>2. Append(t, c)[Len(t) + 1] = c BY <1>1
    <2>3. SubSeq(t, 1, Len(t)) = SubSeq(Append(t, c), 1, Len(t)) BY <1>1, <2>1
    <2>4. IsPrefix(t, Append(t, c)) BY <1>1, <2>1, <2>3 DEF IsPrefix
    <2>5. Last(Append(t, c)) = c BY <2>1, <2>2 DEF Last
    <2> QED BY <1>3, <2>4, <2>5
  <1> QED BY <1>2, <1>3 DEF Grows

\* What a step does to the rows the versions are about.
Versioned ==
    /\ \A s \in Sources : Grows(s) /\ (captures'[s] # captures[s] => s \in Known')
    /\ Known \subseteq Known'

LEMMA CaptureIsVersioned ==
    ASSUME IInv, NEW q \in Requests, CommitCapture(q) PROVE Versioned
  <1>1. CASE Refused(q)
    BY <1>1 DEF CommitCapture, Versioned, Grows, Known, rows
  <1>2. CASE ~Refused(q)
    <2>1. PICK s, d : s = job[q].source /\ d = job[q].content OBVIOUS
    <2>2. captures' = [captures EXCEPT ![s] = Append(@, d)] /\ UNCHANGED state
      BY <1>2, <2>1 DEF CommitCapture
    <2>3. s \in Known /\ d \in Contents
      <3>1. job[q] # Idle /\ job[q].kind = "capture" BY JobKinds DEF CommitCapture, IInv
      <3> QED BY <2>1, <3>1 DEF IInv, Orderly, AllFit, Fits
    <2>4. s \in blocks => ~Captured(s, d) BY <1>2, <2>1 DEF Refused
    <2>5. /\ captures'[s] = Append(captures[s], d)
          /\ \A r \in Sources \ {s} : captures'[r] = captures[r]
      BY <2>2, <2>3 DEF IInv, TypeOK, Known
    <2> QED BY <2>2, <2>3, <2>4, <2>5 DEF Versioned, Grows, Known
  <1> QED BY <1>1, <1>2

LEMMA CreateIsVersioned ==
    ASSUME IInv, AbsentIsEmpty, NEW q \in Requests, CommitCreate(q) PROVE Versioned
  <1>1. PICK s, d : s = job[q].source /\ d = job[q].content OBVIOUS
  <1>2. /\ state' = [state EXCEPT ![s] = "kept"]
        /\ captures' = [captures EXCEPT ![s] = IF d = "none" THEN <<>> ELSE <<d>>]
    BY <1>1 DEF CommitCreate
  <1>3. s \in Sources \ Known /\ d \in Contents \cup {"none"}
    <2>1. job[q] \in Jobs /\ job[q] # Idle /\ job[q].kind = "create"
      BY JobKinds DEF CommitCreate, IInv
    <2> QED BY <1>1, <2>1 DEF IInv, Orderly, AllFit, Fits, Jobs
  <1>4. /\ captures'[s] = (IF d = "none" THEN <<>> ELSE <<d>>)
        /\ \A r \in Sources \ {s} : captures'[r] = captures[r]
    BY <1>2, <1>3 DEF IInv, TypeOK
  <1>5. captures[s] = <<>> BY <1>3 DEF AbsentIsEmpty
  <1>6. Grows(s)
    <2>1. <<d>> = Append(<<>>, d) OBVIOUS
    <2>2. ~Captured(s, d) BY <1>5 DEF Captured
    <2> QED BY <1>3, <1>4, <1>5, <2>1, <2>2 DEF Grows
  <1>7. s \in Known' /\ Known \subseteq Known' BY <1>2, <1>3 DEF IInv, TypeOK, Known
  <1> QED BY <1>4, <1>6, <1>7 DEF Versioned, Grows

LEMMA StepIsVersioned ==
    ASSUME IInv, AbsentIsEmpty, [Next]_vars PROVE Versioned
  <1>1. ASSUME UNCHANGED <<state, captures>> PROVE Versioned
    BY <1>1 DEF Versioned, Grows, Known
  <1>2. ASSUME NEW s \in Sources, Edits(s) PROVE Versioned
    BY <1>1, <1>2 DEF Edits, SetRetention, SetPrivacy, SetDuplicatePolicy, EditOnly
  <1>3. ASSUME NEW q \in Requests, Starts(q) PROVE Versioned
    BY <1>1, <1>3, StartsAre DEF IInv, rows
  <1>4. ASSUME NEW q \in Requests, Put(q) \/ NextVersion(q) \/ GivesUp(q) PROVE Versioned
    BY <1>1, <1>4 DEF Put, NextVersion, GivesUp, rows
  <1>5. ASSUME NEW q \in Requests, Commits(q) PROVE Versioned
    <2>1. CASE CommitExtract(q) \/ CommitLean(q) \/ CommitCite(q)
      BY <1>1, <2>1 DEF CommitExtract, CommitLean, CommitCite
    <2>2. CASE MarkPurged(q)
      <3>1. UNCHANGED captures BY <2>2 DEF MarkPurged
      <3>2. Known \subseteq Known'
        BY <2>2, MarkPurgedIsTidy DEF IInv, MarkPurged, TypeOK, Known
      <3> QED BY <3>1, <3>2 DEF Versioned, Grows
    <2> QED BY <1>5, <2>1, <2>2, CaptureIsVersioned, CreateIsVersioned DEF Commits
  <1>6. ASSUME NEW w \in Sweeps, SweepStep(w) PROVE Versioned
    BY <1>1, <1>6 DEF SweepStep, StartSweep, Inventory, Unlink, Record, FinishSweep, FailSweep,
                      SweepDies, Stops, rows
  <1>7. CASE Next BY <1>2, <1>3, <1>4, <1>5, <1>6, <1>7, NextIs
  <1>8. CASE UNCHANGED vars BY <1>1, <1>8 DEF vars, rows
  <1> QED BY <1>7, <1>8

\* A version once given keeps its content, and what a source that blocks
\* duplicates takes is none it has, although the policy is asked again only
\* where the capture commits.
THEOREM NoTwinEver == Spec => NoTwinUnderBlock
  <1>1. Spec => [](IInv /\ AbsentIsEmpty)
    <2>1. Init => IInv /\ AbsentIsEmpty
      <3>1. Init => AbsentIsEmpty BY DEF Init, AbsentIsEmpty, Known
      <3> QED BY <3>1, InitOK
    <2>2. IInv /\ AbsentIsEmpty /\ [Next]_vars => (IInv /\ AbsentIsEmpty)'
      <3>1. IInv /\ AbsentIsEmpty /\ [Next]_vars => AbsentIsEmpty'
        BY StepIsVersioned DEF Versioned, AbsentIsEmpty
      <3> QED BY <3>1, NextKeeps
    <2> QED BY <2>1, <2>2, PTL DEF Spec
  <1>2. IInv /\ AbsentIsEmpty /\ [Next]_vars =>
           [\A s \in Sources :
               /\ IsPrefix(captures[s], captures'[s])
               /\ s \in blocks /\ captures'[s] # captures[s]
                     => ~Captured(s, Last(captures'[s]))]_vars
    BY StepIsVersioned, GrowsHasNoTwin DEF Versioned, IInv
  <1> QED BY <1>1, <1>2, PTL DEF Spec, NoTwinUnderBlock
=============================================================================
